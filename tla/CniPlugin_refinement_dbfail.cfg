\* The refinement of Attachment with database calls that may fail: a failed
\* DeletePort in CmdDel is returned through a shadowed err, and the cache is
\* cleaned while the port is still held.
CONSTANTS
    c1 = c1
    c2 = c2
    Containers <- MCContainers
    Configs <- AllConfigs
    MaxFailures = 2
    DbCanFail = TRUE
    RuntimeChecks = TRUE
SYMMETRY ContainerSymmetry
SPECIFICATION Spec
PROPERTY ImplementsAttachment
