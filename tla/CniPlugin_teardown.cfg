\* Teardown completes for veth and userspace devices under the runtime's
\* DEL retries, with bounded failures (no database failures) and kills.
CONSTANTS
    c1 = c1
    c2 = c2
    Containers <- MCContainers
    Configs <- NoSriovConfigs
    MaxFailures = 2
    DbCanFail = FALSE
    RuntimeChecks = FALSE
SPECIFICATION FairSpec
PROPERTY TeardownCompletes
