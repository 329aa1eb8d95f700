\* Teardown of an SR-IOV attachment: DEL with the path of a namespace that
\* is gone fails in ReleaseVF on every retry.
CONSTANTS
    c1 = c1
    c2 = c2
    Containers <- MCOneContainer
    Configs <- SriovConfigs
    MaxFailures = 1
    DbCanFail = FALSE
    RuntimeChecks = FALSE
SPECIFICATION FairSpec
PROPERTY TeardownCompletes
