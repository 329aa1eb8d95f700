\* IPAM allocations stay reachable by CmdDel with a fallible OVS database,
\* two containers of any configuration, two injected failures or kills.
CONSTANTS
    c1 = c1
    c2 = c2
    Containers <- MCContainers
    Configs <- AllConfigs
    MaxFailures = 2
    DbCanFail = TRUE
    RuntimeChecks = TRUE
SYMMETRY ContainerSymmetry
SPECIFICATION Spec
INVARIANT AllocationRecoverable
