---------------------------- MODULE MCCniPlugin ----------------------------
(* Model-checking instance of CniPlugin: the container sets and           *)
(* configurations the cfg files select.                                    *)
EXTENDS CniPlugin, TLC

CONSTANTS c1, c2

MCContainers == {c1, c2}

\* Every device kind, with and without an IPAM type.
AllConfigs == [dev : Devices, ipam : BOOLEAN]

\* The devices whose teardown does not depend on ReleaseVF.
NoSriovConfigs == [dev : {"veth", "userspace"}, ipam : BOOLEAN]

\* SR-IOV devices with a kernel netdev.
SriovConfigs == [dev : {"sriov"}, ipam : BOOLEAN]

\* One sandbox: teardown of a single container.
MCOneContainer == {c1}

\* Containers are interchangeable: each one's configuration is chosen in Init.
ContainerSymmetry == Permutations({c1, c2})
=============================================================================
