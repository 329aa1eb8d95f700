\* A CmdAdd failing after the rollback was armed removes its port: not when
\* IPAM returns no IPs (a fresh error value, the outer err stays nil).
CONSTANTS
    c1 = c1
    c2 = c2
    Containers <- MCContainers
    Configs <- AllConfigs
    MaxFailures = 1
    DbCanFail = FALSE
    RuntimeChecks = TRUE
SYMMETRY ContainerSymmetry
SPECIFICATION Spec
PROPERTY AddFailureRollsBack
