\* A CmdDel that reports success removes the cache entry: not when the
\* namespace or link is already gone (the outer err is still set).
CONSTANTS
    c1 = c1
    c2 = c2
    Containers <- MCContainers
    Configs <- AllConfigs
    MaxFailures = 1
    DbCanFail = FALSE
    RuntimeChecks = TRUE
SYMMETRY ContainerSymmetry
SPECIFICATION Spec
PROPERTY SuccessfulDelRemovesCache
