\* ADD, DEL and CHECK of two containers of any configuration, with a
\* reliable OVS database, one injected failure or kill and namespaces that
\* vanish at any point: the implementation refines Attachment, and a CHECK
\* that succeeds has seen its container intact.
CONSTANTS
    c1 = c1
    c2 = c2
    Containers <- MCContainers
    Configs <- AllConfigs
    MaxFailures = 1
    DbCanFail = FALSE
    RuntimeChecks = TRUE
SYMMETRY ContainerSymmetry
SPECIFICATION Spec
PROPERTY ImplementsAttachment
PROPERTY CheckOkImpliesIntact
