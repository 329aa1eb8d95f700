----------------------------- MODULE CniPlugin -----------------------------
(***************************************************************************)
(* The attach, detach and check handlers (CmdAdd, CmdDel, CmdCheck) of the *)
(* OVS CNI plugin (src/pkg/plugin/plugin.go), run as separate processes    *)
(* by a container runtime, against the state they share: the OVS           *)
(* database (ports), the kernel (network namespaces, veth pairs, SR-IOV    *)
(* virtual functions), the IPAM plugin's allocations and the cache file.   *)
(*                                                                         *)
(* One invocation runs per container at a time (the CNI rule); the         *)
(* invocations of different containers interleave.  Every external call    *)
(* is one atomic step; a step may fail as the code's error paths allow,    *)
(* and an invocation may be killed between steps.  Failures and kills      *)
(* draw on a shared budget MaxFailures.                                    *)
(***************************************************************************)
EXTENDS Naturals, FiniteSets

CONSTANTS
    Containers,   \* sandboxes; one interface (args.IfName) each
    Configs,      \* the network configurations a container may have
    MaxFailures,  \* bound on injected failures and kills
    DbCanFail,    \* whether OVS database calls may fail
    RuntimeChecks \* whether the runtime calls CHECK

Devices == {"veth", "sriov", "userspace"}

ASSUME /\ Configs \subseteq [dev : Devices, ipam : BOOLEAN]
       /\ Configs # {}
       /\ MaxFailures \in Nat
       /\ DbCanFail \in BOOLEAN
       /\ RuntimeChecks \in BOOLEAN

VARIABLES
    conf,       \* conf[c]: the NetConf of c (fixed; cached by CmdAdd)
    netns,      \* "live" | "unmounted" (path gone, held open by CmdAdd) | "destroyed"
    veth,       \* veth[c]: the veth pair of c exists
    vf,         \* vf[c]: "host" | "container" | "stray" (back in host, not reset)
    ports,      \* containers that have a port on the bridge
    ipam,       \* ipam[c]: the IPAM plugin holds an allocation for c
    cache,      \* cache[c]: the cached NetConf of c exists
    rt,         \* rt[c]: the runtime's view of c
    pc,         \* pc[c]: the step of the invocation running for c
    darg,       \* darg[c]: netns argument of the running CmdDel: "path" | "empty"
    portFound,  \* portFound[c]: CmdDel found a port for c
    delErr,     \* delErr[c]: CmdDel's outer err variable is non-nil
    failures,   \* failures and kills injected so far
    addResult,  \* history: how the last CmdAdd of c ended
    chkResult   \* history: how the last CmdCheck of c ended

vars == <<conf, netns, veth, vf, ports, ipam, cache, rt, pc, darg,
          portFound, delErr, failures, addResult, chkResult>>

AddSteps == {"add_sweep", "add_provision", "add_attach", "add_ipam",
             "add_wait", "add_configure"}
DelSteps == {"del_load", "del_nonetns", "del_port", "del_remove", "del_link"}
ChkSteps == {"chk_load", "chk_host", "chk_cont", "chk_ovs"}

-----------------------------------------------------------------------------
(* Helpers *)

\* IsOvsHardwareOffloadEnabled(netconf.DeviceID)
Offload(c) == conf[c].dev \in {"sriov", "userspace"}

\* The port's interface is healthy unless it is a veth whose pair has gone
\* with its namespace; OVS then reports the interface in error.
PortHealthy(c) == conf[c].dev = "veth" => veth[c]

ErrorPorts == {c \in ports : ~PortHealthy(c)}

Busy(c) == pc[c] # "idle"

\* Mutant of Holding: CmdCheck closes the namespace right after the
\* container checks instead of deferring the close.
HoldingClosedEarly(c) == pc[c] \in AddSteps \ {"add_sweep"}

\* CmdAdd and CmdCheck hold the namespace open from ns.GetNS until they
\* return.
Holding(c) == pc[c] \in (AddSteps \ {"add_sweep"}) \cup {"chk_ovs"}

\* Spend n units of the failure budget.
Spend(n) == /\ failures + n <= MaxFailures
            /\ failures' = failures + n

\* The kernel destroys the namespace: the veth pair goes with it, a VF in
\* it falls back to the host namespace unconfigured.
DestroyNetns(c) ==
    /\ netns' = [netns EXCEPT ![c] = "destroyed"]
    /\ veth' = [veth EXCEPT ![c] = FALSE]
    /\ vf' = [vf EXCEPT ![c] = IF @ = "container" THEN "stray" ELSE @]

\* cleanPorts: delete the ports whose interfaces are in error.  Each
\* DeletePort failure is only logged, so with a fallible database any
\* subset of them survives, each survivor costing one failure.
CleanPortsOutcomes ==
    IF DbCanFail THEN {ErrorPorts \ kept : kept \in SUBSET ErrorPorts}
    ELSE {ErrorPorts}

CleanPorts(deleted) ==
    /\ deleted \in CleanPortsOutcomes
    /\ ports' = ports \ deleted

-----------------------------------------------------------------------------
(* Runtime: creates the sandbox, calls ADD once, tears down with DEL       *)
(* until DEL succeeds, then removes the namespace.                         *)

Init ==
    /\ conf \in [Containers -> Configs]
    /\ netns = [c \in Containers |-> "live"]
    /\ veth = [c \in Containers |-> FALSE]
    /\ vf = [c \in Containers |-> "host"]
    /\ ports = {}
    /\ ipam = [c \in Containers |-> FALSE]
    /\ cache = [c \in Containers |-> FALSE]
    /\ rt = [c \in Containers |-> "init"]
    /\ pc = [c \in Containers |-> "idle"]
    /\ darg = [c \in Containers |-> "path"]
    /\ portFound = [c \in Containers |-> FALSE]
    /\ delErr = [c \in Containers |-> FALSE]
    /\ failures = 0
    /\ addResult = [c \in Containers |-> "none"]
    /\ chkResult = [c \in Containers |-> "none"]

RuntimeAdd(c) ==
    /\ rt[c] = "init"
    /\ rt' = [rt EXCEPT ![c] = "adding"]
    /\ pc' = [pc EXCEPT ![c] = "add_sweep"]
    /\ UNCHANGED <<conf, netns, veth, vf, ports, ipam, cache, darg,
                   portFound, delErr, failures, addResult, chkResult>>

\* The pod is deleted after a successful ADD.
RuntimeTeardown(c) ==
    /\ rt[c] = "added"
    /\ rt' = [rt EXCEPT ![c] = "tearing"]
    /\ UNCHANGED <<conf, netns, veth, vf, ports, ipam, cache, pc, darg,
                   portFound, delErr, failures, addResult, chkResult>>

\* DEL; CNI_NETNS may be empty once the namespace is gone.
RuntimeDel(c) ==
    /\ rt[c] = "tearing"
    /\ ~Busy(c)
    /\ \E a \in IF netns[c] = "live" THEN {"path"} ELSE {"path", "empty"}:
          darg' = [darg EXCEPT ![c] = a]
    /\ pc' = [pc EXCEPT ![c] = "del_load"]
    /\ UNCHANGED <<conf, netns, veth, vf, ports, ipam, cache, rt,
                   portFound, delErr, failures, addResult, chkResult>>

\* CHECK of an attachment the runtime believes added.
RuntimeCheck(c) ==
    /\ RuntimeChecks
    /\ rt[c] = "added"
    /\ ~Busy(c)
    /\ pc' = [pc EXCEPT ![c] = "chk_load"]
    /\ chkResult' = [chkResult EXCEPT ![c] = "running"]
    /\ UNCHANGED <<conf, netns, veth, vf, ports, ipam, cache, rt, darg,
                   portFound, delErr, failures, addResult>>

\* The namespace path is removed: by the runtime once DEL succeeded, or
\* earlier when the sandbox dies.  An open handle keeps it alive.
Unmount(c) ==
    /\ netns[c] = "live"
    /\ IF Holding(c)
         THEN /\ netns' = [netns EXCEPT ![c] = "unmounted"]
              /\ UNCHANGED <<veth, vf>>
         ELSE DestroyNetns(c)
    /\ UNCHANGED <<conf, ports, ipam, cache, rt, pc, darg, portFound,
                   delErr, failures, addResult, chkResult>>

RuntimeRemoveNetns(c) == rt[c] = "done" /\ Unmount(c)

NetnsLost(c) == rt[c] \in {"adding", "added", "tearing"} /\ Unmount(c)

\* The invocation is killed between two steps (e.g. a runtime timeout);
\* its deferred functions do not run.
Kill(c) ==
    /\ Busy(c)
    /\ Spend(1)
    /\ pc' = [pc EXCEPT ![c] = "idle"]
    /\ IF pc[c] \in AddSteps
         THEN /\ rt' = [rt EXCEPT ![c] = "tearing"]
              /\ addResult' = [addResult EXCEPT ![c] = "killed"]
         ELSE UNCHANGED <<rt, addResult>>
    /\ IF netns[c] = "unmounted" THEN DestroyNetns(c)
       ELSE UNCHANGED <<netns, veth, vf>>
    /\ UNCHANGED <<conf, ports, ipam, cache, darg, portFound, delErr,
                   chkResult>>

-----------------------------------------------------------------------------
(* CmdAdd                                                                  *)

DelLocals == <<conf, darg, portFound, delErr, chkResult>>

\* Go on to the next step of CmdAdd.
AddNext(c, step) ==
    /\ pc' = [pc EXCEPT ![c] = step]
    /\ UNCHANGED <<rt, netns, addResult>>

\* CmdAdd returns; v and f are the step's new veth[c] and vf[c].  The
\* deferred contNetns.Close() drops the last handle of an unmounted
\* namespace, which the kernel then destroys.
AddReturn(c, ok, v, f) ==
    /\ pc' = [pc EXCEPT ![c] = "idle"]
    /\ rt' = [rt EXCEPT ![c] = IF ok THEN "added" ELSE "tearing"]
    /\ addResult' = [addResult EXCEPT ![c] = IF ok THEN "ok" ELSE "failed"]
    /\ IF netns[c] = "unmounted"
         THEN /\ netns' = [netns EXCEPT ![c] = "destroyed"]
              /\ veth' = [veth EXCEPT ![c] = FALSE]
              /\ vf' = [vf EXCEPT ![c] = IF f = "container" THEN "stray" ELSE f]
         ELSE /\ veth' = [veth EXCEPT ![c] = v]
              /\ vf' = [vf EXCEPT ![c] = f]
              /\ UNCHANGED netns

\* The deferred rollbacks of CmdAdd, run when its outer err is non-nil:
\* first ipam.ExecDel (registered last), then the lookup of the port by
\* (args.IfName, args.Netns) and its removal.  Both are best effort: a
\* failure is logged.  alloc: the IPAM plugin holds an allocation;
\* cost: failures already spent by the step that failed.
AddRollback(c, alloc, cost) ==
    \E ipamDelFails \in IF alloc THEN BOOLEAN ELSE {FALSE},
       portDelFails \in IF DbCanFail THEN BOOLEAN ELSE {FALSE}:
        /\ Spend(cost + (IF ipamDelFails THEN 1 ELSE 0)
                      + (IF portDelFails THEN 1 ELSE 0))
        /\ ipam' = [ipam EXCEPT ![c] = alloc /\ ipamDelFails]
        /\ ports' = IF portDelFails THEN ports ELSE ports \ {c}

\* Start of CmdAdd: cleanPorts, ns.GetNS(args.Netns), then SaveCache.  A
\* failure of GetVFLinkName or SaveCache returns before the cache exists.
AddSweep(c) ==
    /\ pc[c] = "add_sweep"
    /\ \/ /\ DbCanFail            \* FindInterfacesWithError fails
          /\ Spend(1)
          /\ AddReturn(c, FALSE, veth[c], vf[c])
          /\ UNCHANGED <<ports, cache>>
       \/ \E deleted \in CleanPortsOutcomes:
            LET kept == Cardinality(ErrorPorts \ deleted) IN
            /\ CleanPorts(deleted)
            /\ \/ /\ netns[c] # "live"           \* GetNS fails
                  /\ Spend(kept)
                  /\ AddReturn(c, FALSE, veth[c], vf[c])
                  /\ UNCHANGED cache
               \/ /\ netns[c] = "live"           \* GetVFLinkName/SaveCache fail
                  /\ Spend(kept + 1)
                  /\ AddReturn(c, FALSE, veth[c], vf[c])
                  /\ UNCHANGED cache
               \/ /\ netns[c] = "live"
                  /\ Spend(kept)
                  /\ cache' = [cache EXCEPT ![c] = TRUE]
                  /\ AddNext(c, "add_provision")
                  /\ UNCHANGED <<veth, vf>>
    /\ UNCHANGED <<ipam, DelLocals>>

\* The interface pair once provisioned: setupVeth creates the veth pair in
\* the container namespace; SetupSriovInterface moves the VF into it; with
\* a userspace driver there is no netdev to move.
Provisioned(c) ==
    CASE conf[c].dev = "veth"  -> <<TRUE, vf[c]>>
      [] conf[c].dev = "sriov" -> <<veth[c], "container">>
      [] OTHER                 -> <<veth[c], vf[c]>>

SetupVeth(c) ==
    /\ pc[c] = "add_provision"
    /\ \/ /\ Spend(0)
          /\ veth' = [veth EXCEPT ![c] = Provisioned(c)[1]]
          /\ vf' = [vf EXCEPT ![c] = Provisioned(c)[2]]
          /\ AddNext(c, "add_attach")
       \/ /\ Spend(1)       \* fails before or after the pair was created
          /\ \E created \in BOOLEAN:
               LET r == IF created THEN Provisioned(c) ELSE <<veth[c], vf[c]>>
               IN AddReturn(c, FALSE, r[1], r[2])
    /\ UNCHANGED <<ports, ipam, cache, DelLocals>>

\* attachIfaceToBridge: CreatePort, then set the host link up.  The
\* rollback is deferred only after it returns, so a failure of the link
\* set-up leaves the port behind.
AttachIfaceToBridge(c) ==
    /\ pc[c] = "add_attach"
    /\ \/ /\ DbCanFail /\ Spend(1)     \* CreatePort fails
          /\ AddReturn(c, FALSE, veth[c], vf[c])
          /\ UNCHANGED ports
       \/ /\ ports' = ports \cup {c}
          /\ \/ /\ Spend(1)            \* LinkByName/LinkSetUp fails
                /\ AddReturn(c, FALSE, veth[c], vf[c])
             \/ /\ Spend(0)
                /\ AddNext(c, "add_ipam")
                /\ UNCHANGED <<veth, vf>>
    /\ UNCHANGED <<ipam, cache, DelLocals>>

\* IPAM: skipped without an IPAM type or with a userspace driver.  A
\* failure of ExecAdd or of the result conversion sets the outer err and
\* triggers both rollbacks; a result with no IPs is returned as a fresh
\* error value, the outer err stays nil and neither rollback runs.
AddIpam(c) ==
    /\ pc[c] = "add_ipam"
    /\ \/ /\ ~conf[c].ipam \/ conf[c].dev = "userspace"
          /\ Spend(0)
          /\ AddReturn(c, TRUE, veth[c], vf[c])
          /\ UNCHANGED <<ports, ipam>>
       \/ /\ conf[c].ipam /\ conf[c].dev # "userspace"
          /\ \/ \E alloc \in BOOLEAN:
                  /\ AddRollback(c, alloc, 1)
                  /\ AddReturn(c, FALSE, veth[c], vf[c])
             \/ /\ Spend(1)            \* "IPAM plugin returned missing IP config"
                /\ ipam' = [ipam EXCEPT ![c] = TRUE]
                /\ AddReturn(c, FALSE, veth[c], vf[c])
                /\ UNCHANGED ports
             \/ /\ Spend(0)
                /\ ipam' = [ipam EXCEPT ![c] = TRUE]
                /\ AddNext(c, "add_wait")
                /\ UNCHANGED <<ports, veth, vf>>
    /\ UNCHANGED <<cache, DelLocals>>

\* waitLinkUp: poll the OF port state; exhausting the retries is an error.
WaitLinkUp(c) ==
    /\ pc[c] = "add_wait"
    /\ \/ /\ Spend(0)
          /\ AddNext(c, "add_configure")
          /\ UNCHANGED <<ports, ipam, veth, vf>>
       \/ /\ AddRollback(c, TRUE, 1)
          /\ AddReturn(c, FALSE, veth[c], vf[c])
    /\ UNCHANGED <<cache, DelLocals>>

\* In the container namespace: set the MAC, ConfigureIface, gratuitous
\* ARPs (their failures only logged); then print the result.
AddConfigure(c) ==
    /\ pc[c] = "add_configure"
    /\ \/ /\ Spend(0)
          /\ AddReturn(c, TRUE, veth[c], vf[c])
          /\ UNCHANGED <<ports, ipam>>
       \/ /\ AddRollback(c, TRUE, 1)
          /\ AddReturn(c, FALSE, veth[c], vf[c])
    /\ UNCHANGED <<cache, DelLocals>>

-----------------------------------------------------------------------------
(* CmdDel                                                                  *)

AddLocals == <<conf, darg, addResult, chkResult>>

\* Mutant of DelReturn: the deferred CleanCache does not test err.
DelReturnIgnoringErr(c, ok, err, cost) ==
    /\ pc' = [pc EXCEPT ![c] = "idle"]
    /\ rt' = [rt EXCEPT ![c] = IF ok THEN "done" ELSE "tearing"]
    /\ \/ Spend(cost) /\ cache' = [cache EXCEPT ![c] = FALSE]
       \/ Spend(cost + 1) /\ UNCHANGED cache
    /\ delErr' = [delErr EXCEPT ![c] = err]

\* CmdDel returns; err is its outer err variable, which the deferred
\* CleanCache tests (a shadowed err returned in its place is not seen).
\* CleanCache failing is only logged.
DelReturn(c, ok, err, cost) ==
    /\ pc' = [pc EXCEPT ![c] = "idle"]
    /\ rt' = [rt EXCEPT ![c] = IF ok THEN "done" ELSE "tearing"]
    /\ \/ /\ ~err
          /\ Spend(cost)
          /\ cache' = [cache EXCEPT ![c] = FALSE]
       \/ /\ ~err
          /\ Spend(cost + 1)
          /\ UNCHANGED cache
       \/ /\ err
          /\ Spend(cost)
          /\ UNCHANGED cache
    /\ delErr' = [delErr EXCEPT ![c] = err]

\* Go on to the next step of CmdDel.
DelNext(c, step) ==
    /\ pc' = [pc EXCEPT ![c] = step]
    /\ UNCHANGED <<rt, cache>>

\* Mutant of DelLoad: a failed ipam.ExecDel is logged and CmdDel goes on.
DelLoadIgnoringIpamErr(c) ==
    /\ pc[c] = "del_load"
    /\ \/ /\ ~cache[c]
          /\ pc' = [pc EXCEPT ![c] = "idle"]
          /\ rt' = [rt EXCEPT ![c] = "done"]
          /\ UNCHANGED <<cache, ipam, delErr, failures>>
       \/ /\ cache[c]
          /\ \/ /\ DbCanFail
                /\ DelReturn(c, FALSE, TRUE, 1)
                /\ UNCHANGED ipam
             \/ \E ipamDelFails \in IF conf[c].ipam THEN BOOLEAN ELSE {FALSE}:
                /\ Spend(IF ipamDelFails THEN 1 ELSE 0)
                /\ ipam' = [ipam EXCEPT ![c] = @ /\ ipamDelFails]
                /\ delErr' = [delErr EXCEPT ![c] = FALSE]
                /\ DelNext(c, IF darg[c] = "empty" THEN "del_nonetns"
                                                  ELSE "del_port")
    /\ UNCHANGED <<netns, veth, vf, ports, portFound, AddLocals>>

\* LoadConfFromCache: without a cache entry return nil at once.  Then the
\* OVS drivers for the cached bridge and the IPAM DEL.
DelLoad(c) ==
    /\ pc[c] = "del_load"
    /\ \/ /\ ~cache[c]
          /\ pc' = [pc EXCEPT ![c] = "idle"]
          /\ rt' = [rt EXCEPT ![c] = "done"]
          /\ UNCHANGED <<cache, ipam, delErr, failures>>
       \/ /\ cache[c]
          /\ \/ /\ DbCanFail                 \* NewOvsDriver/NewOvsBridgeDriver
                /\ DelReturn(c, FALSE, TRUE, 1)
                /\ UNCHANGED ipam
             \/ /\ conf[c].ipam              \* ipam.ExecDel fails
                /\ DelReturn(c, FALSE, TRUE, 1)
                /\ UNCHANGED ipam
             \/ /\ Spend(0)
                /\ ipam' = [ipam EXCEPT ![c] = IF conf[c].ipam THEN FALSE ELSE @]
                /\ delErr' = [delErr EXCEPT ![c] = FALSE]
                /\ DelNext(c, IF darg[c] = "empty" THEN "del_nonetns"
                                                  ELSE "del_port")
    /\ UNCHANGED <<netns, veth, vf, ports, portFound, AddLocals>>

\* ResetVF (pkg/sriov): finds the VF in the host namespace and restores its
\* name and MAC; it fails while the VF is still in a container namespace.
ResetVFOk(c) == vf[c] \in {"host", "stray"}

\* Empty CNI_NETNS.  Offload: remove the representor's port (an error is
\* logged but left in the outer err), then ResetVF unless the driver is
\* userspace.  Veth: cleanPorts, whose error is a shadowed err.
DelNoNetns(c) ==
    /\ pc[c] = "del_nonetns"
    /\ IF Offload(c)
         THEN \/ /\ DelReturn(c, FALSE, TRUE, 1)  \* GetNetRepresentor fails
                 /\ UNCHANGED <<ports, vf>>
              \/ \E delFails \in IF DbCanFail /\ c \in ports
                                   THEN BOOLEAN ELSE {FALSE}:
                   LET removed == c \in ports /\ ~delFails
                       dbCost == IF delFails THEN 1 ELSE 0
                   IN /\ ports' = IF removed THEN ports \ {c} ELSE ports
                      /\ IF conf[c].dev = "userspace"
                           THEN /\ DelReturn(c, TRUE, ~removed, dbCost)
                                /\ UNCHANGED vf
                           ELSE \/ /\ ResetVFOk(c)
                                   /\ vf' = [vf EXCEPT ![c] = "host"]
                                   /\ DelReturn(c, TRUE, FALSE, dbCost)
                                \/ /\ DelReturn(c, FALSE, TRUE,
                                       dbCost + IF ResetVFOk(c) THEN 1 ELSE 0)
                                   /\ UNCHANGED vf
         ELSE /\ \/ /\ DbCanFail              \* FindInterfacesWithError fails
                    /\ DelReturn(c, FALSE, FALSE, 1)
                    /\ UNCHANGED ports
                 \/ \E deleted \in CleanPortsOutcomes:
                      /\ CleanPorts(deleted)
                      /\ DelReturn(c, TRUE, FALSE,
                                   Cardinality(ErrorPorts \ deleted))
              /\ UNCHANGED vf
    /\ UNCHANGED <<netns, veth, ipam, portFound, AddLocals>>

\* getOvsPortForContIface by (args.IfName, args.Netns), then removeOvsPort.
\* A failed removal is returned through a shadowed err.
DelPort(c) ==
    /\ pc[c] = "del_port"
    /\ \/ /\ DbCanFail                        \* lookup fails
          /\ DelReturn(c, FALSE, TRUE, 1)
          /\ UNCHANGED portFound
       \/ /\ portFound' = [portFound EXCEPT ![c] = c \in ports]
          /\ DelNext(c, IF c \in ports THEN "del_remove" ELSE "del_link")
          /\ UNCHANGED <<delErr, failures>>
    /\ UNCHANGED <<ports, netns, veth, vf, ipam, AddLocals>>

\* removeOvsPort of the port found; it may have been swept by another
\* invocation's cleanPorts since the lookup.  Whether DeletePort of a port
\* that is gone fails is up to pkg/ovsdb: both outcomes are possible.  An
\* error is returned through the `if err :=` that shadows the outer err.
DelRemove(c) ==
    /\ pc[c] = "del_remove"
    /\ \/ /\ c \notin ports \/ DbCanFail
          /\ DelReturn(c, FALSE, FALSE, IF c \in ports THEN 1 ELSE 0)
          /\ UNCHANGED ports
       \/ /\ ports' = ports \ {c}
          /\ DelNext(c, "del_link")
          /\ UNCHANGED <<delErr, failures>>
    /\ UNCHANGED <<portFound, netns, veth, vf, ipam, AddLocals>>

\* The closing cleanPorts of CmdDel, then `return err` of the outer err.
\* cost: failures already spent in this step.
DelCleanPortsReturn(c, err, cost) ==
    \/ /\ DbCanFail                            \* shadowed cleanPorts error
       /\ DelReturn(c, FALSE, err, cost + 1)
       /\ UNCHANGED ports
    \/ \E deleted \in CleanPortsOutcomes:
         /\ CleanPorts(deleted)
         /\ DelReturn(c, ~err, err, cost + Cardinality(ErrorPorts \ deleted))

\* ReleaseVF (pkg/sriov) opens args.Netns and moves the VF back to the host
\* namespace under its original name.
ReleaseVFOk(c) == netns[c] = "live" /\ vf[c] = "container"

\* The error of ns.WithNetNSPath(args.Netns, DelLinkByName(args.IfName)).
DelLinkErr(c) ==
    CASE netns[c] # "live" -> "NSPathNotExist"
      [] ~veth[c]          -> "LinkNotFound"
      [] OTHER             -> "none"

\* Mutant of Tolerated: the missing namespace is not tolerated.
ToleratedLinkOnly(e) == e = "LinkNotFound"

\* The errors CmdDel treats as "already deleted".
Tolerated(e) == e \in {"NSPathNotExist", "LinkNotFound"}

\* SR-IOV: ReleaseVF, falling back to a best-effort ResetVF.  Veth: delete
\* args.IfName in args.Netns; a missing namespace or link returns nil at
\* once, with the outer err still set.
DelLink(c) ==
    /\ pc[c] = "del_link"
    /\ CASE conf[c].dev = "sriov" ->
              \/ /\ ReleaseVFOk(c)
                 /\ vf' = [vf EXCEPT ![c] = "host"]
                 /\ DelCleanPortsReturn(c, FALSE, 0)
              \/ /\ ~ReleaseVFOk(c)
                 /\ \/ /\ ResetVFOk(c)
                       /\ vf' = [vf EXCEPT ![c] = "host"]
                       /\ DelCleanPortsReturn(c, TRUE, 0)
                    \/ /\ UNCHANGED vf        \* ResetVF fails, logged
                       /\ DelCleanPortsReturn(c, TRUE,
                                              IF ResetVFOk(c) THEN 1 ELSE 0)
           [] conf[c].dev = "userspace" ->
              /\ DelCleanPortsReturn(c, FALSE, 0)
              /\ UNCHANGED vf
           [] OTHER ->
              /\ \/ /\ DelLinkErr(c) = "none"
                    /\ veth' = [veth EXCEPT ![c] = FALSE]
                    /\ DelCleanPortsReturn(c, FALSE, 0)
                 \/ /\ DelLinkErr(c) = "none"       \* other netlink error
                    /\ UNCHANGED veth
                    /\ DelCleanPortsReturn(c, TRUE, 1)
                 \/ /\ DelLinkErr(c) # "none"
                    /\ IF Tolerated(DelLinkErr(c))
                         THEN DelReturn(c, TRUE, TRUE, 0) /\ UNCHANGED ports
                         ELSE DelCleanPortsReturn(c, TRUE, 0)
                    /\ UNCHANGED veth
              /\ UNCHANGED vf
    /\ UNCHANGED <<netns, ipam, portFound, AddLocals>>
    /\ conf[c].dev # "veth" => UNCHANGED veth

-----------------------------------------------------------------------------
(* CmdCheck                                                                *)

ChkLocals == <<conf, ports, ipam, cache, rt, darg, portFound, delErr, addResult>>

\* CmdCheck returns; the deferred netns.Close() drops the last handle of
\* an unmounted namespace.
CheckReturn(c, ok, cost) ==
    /\ pc' = [pc EXCEPT ![c] = "idle"]
    /\ chkResult' = [chkResult EXCEPT ![c] = IF ok THEN "ok" ELSE "failed"]
    /\ Spend(cost)
    /\ IF netns[c] = "unmounted" THEN DestroyNetns(c)
       ELSE UNCHANGED <<netns, veth, vf>>

CheckNext(c, step) ==
    /\ pc' = [pc EXCEPT ![c] = step]
    /\ UNCHANGED <<chkResult, failures, netns, veth, vf>>

\* LoadConf, the OVS driver and getBridgeName, LoadConfFromCache and
\* validateCache; nothing more for a userspace driver; then the IPAM
\* plugin's CHECK, which fails once the allocation is gone.
CheckLoad(c) ==
    /\ pc[c] = "chk_load"
    /\ \/ DbCanFail /\ CheckReturn(c, FALSE, 1)
       \/ ~cache[c] /\ CheckReturn(c, FALSE, 0)
       \/ cache[c] /\ conf[c].dev = "userspace" /\ CheckReturn(c, TRUE, 0)
       \/ /\ cache[c] /\ conf[c].dev # "userspace"
          /\ IF conf[c].ipam /\ ~ipam[c] THEN CheckReturn(c, FALSE, 0)
                                          ELSE CheckNext(c, "chk_host")
    /\ UNCHANGED ChkLocals

\* validateInterface of the host-side interface of prevResult: the host
\* veth end; for SR-IOV the representor, which stays in the host.
HostLinkOk(c) == conf[c].dev = "veth" => veth[c]

CheckHost(c) ==
    /\ pc[c] = "chk_host"
    /\ IF HostLinkOk(c) THEN CheckNext(c, "chk_cont")
                        ELSE CheckReturn(c, FALSE, 0)
    /\ UNCHANGED ChkLocals

\* The container interface inside the namespace: the veth end, or the VF.
ContLinkOk(c) ==
    IF conf[c].dev = "sriov" THEN vf[c] = "container" ELSE veth[c]

\* ns.GetNS(args.Netns), then in it validateInterface, the IPs and routes.
CheckCont(c) ==
    /\ pc[c] = "chk_cont"
    /\ IF netns[c] = "live" /\ ContLinkOk(c)
         THEN CheckNext(c, "chk_ovs")
         ELSE CheckReturn(c, FALSE, 0)
    /\ UNCHANGED ChkLocals

\* validateOvs: the bridge, no interface in error on it (any container's),
\* and the VLAN state of c's port (module Vlan shows it agrees).
CheckOvs(c) ==
    /\ pc[c] = "chk_ovs"
    /\ \/ DbCanFail /\ CheckReturn(c, FALSE, 1)
       \/ CheckReturn(c, ErrorPorts = {} /\ c \in ports, 0)
    /\ UNCHANGED ChkLocals

-----------------------------------------------------------------------------
(* Specification *)

\* Every container is torn down and its namespace is gone.
Terminating ==
    /\ \A c \in Containers : rt[c] = "done" /\ netns[c] = "destroyed"
                             /\ ~Busy(c)
    /\ UNCHANGED vars

Step(c) ==
    \/ AddSweep(c) \/ SetupVeth(c) \/ AttachIfaceToBridge(c)
    \/ AddIpam(c) \/ WaitLinkUp(c) \/ AddConfigure(c)
    \/ DelLoad(c) \/ DelNoNetns(c) \/ DelPort(c) \/ DelRemove(c) \/ DelLink(c)
    \/ CheckLoad(c) \/ CheckHost(c) \/ CheckCont(c) \/ CheckOvs(c)

Next ==
    \/ \E c \in Containers :
         \/ RuntimeAdd(c) \/ RuntimeTeardown(c) \/ RuntimeDel(c)
         \/ RuntimeCheck(c)
         \/ RuntimeRemoveNetns(c) \/ NetnsLost(c) \/ Kill(c)
         \/ Step(c)
    \/ Terminating

Spec == Init /\ [][Next]_vars

\* A running invocation is scheduled until it returns, and the runtime
\* retries DEL until it succeeds (kubelet's teardown loop) and then
\* removes the namespace.  Kills, lost namespaces and new pods are not
\* assumed to happen.
Fairness ==
    \A c \in Containers :
        /\ WF_vars(Step(c))
        /\ WF_vars(RuntimeDel(c))
        /\ WF_vars(RuntimeRemoveNetns(c))

FairSpec == Spec /\ Fairness

-----------------------------------------------------------------------------
(* Properties *)

\* What c holds outside the plugin: a port whose interface is healthy (so
\* no cleanPorts will ever remove it), an IPAM allocation, a veth pair, or
\* a VF not restored to the host.
Held(c) ==
    \/ c \in ports /\ PortHealthy(c)
    \/ ipam[c]
    \/ veth[c]
    \/ vf[c] # "host"

\* The IPAM allocation of a container is released or still reachable, even
\* when the OVS database fails: while the IPAM plugin holds an address for
\* c, the cache entry of c exists, even while an invocation for c runs.
\* About the rollback of ipam.ExecAdd in CmdAdd and the early return of
\* CmdDel when ipam.ExecDel fails, before any shadowed error can clean
\* the cache.
AllocationRecoverable ==
    \A c \in Containers : ipam[c] => cache[c]

\* A CmdDel that reports success has removed the cache entry of c (spec:
\* attach followed by detach deletes the cache record).  About the deferred
\* CleanCache of CmdDel, which tests the outer err.
SuccessfulDelRemovesCache ==
    [][\A c \in Containers :
         (pc[c] \in DelSteps /\ pc'[c] = "idle" /\ rt'[c] = "done")
            => ~cache'[c]]_vars

\* A CmdAdd that fails after its port was created and the rollback armed
\* leaves no port for c behind when the database does not fail (spec:
\* partial-commit errors remove the port).  About the deferred rollback of
\* CmdAdd, which tests the outer err.
AddFailureRollsBack ==
    [][\A c \in Containers :
         (pc[c] \in {"add_ipam", "add_wait", "add_configure"}
          /\ addResult'[c] = "failed")
            => c \notin ports']_vars

\* Once the runtime tears c down, DEL eventually succeeds and c holds
\* nothing.  About CmdDel's tolerance of resources that are already gone.
TeardownCompletes ==
    \A c \in Containers : rt[c] = "tearing" ~> (rt[c] = "done" /\ ~Held(c))

\* The attachment lifecycle the plugin promises (module Attachment): the
\* runtime's view is the status, Held is what is held, the cache file is
\* the record.
AttachmentSpec == INSTANCE Attachment
    WITH status <- rt,
         held <- [c \in Containers |-> Held(c)],
         record <- cache

\* CmdAdd and CmdDel, with their failures, kills and the runtime's retries,
\* implement the attachment lifecycle: resources are acquired only by an
\* ADD that has saved the cache, a DEL only releases, it removes the cache
\* only once nothing is held, and a DEL reported successful leaves nothing
\* held.  About the order of SaveCache and provisioning in CmdAdd, the
\* early returns of CmdDel and its deferred CleanCache.
ImplementsAttachment == AttachmentSpec!Spec

\* Everything CmdCheck verifies of c: a healthy port, the VF inside the
\* container, the IPAM allocation where IPAM is used.
Intact(c) ==
    /\ c \in ports /\ PortHealthy(c)
    /\ conf[c].dev = "sriov" => vf[c] = "container"
    /\ conf[c].ipam /\ conf[c].dev # "userspace" => ipam[c]

\* A CHECK that gets through validateOvs and reports success has seen c
\* intact, although it reads the interfaces, the namespace and the port in
\* separate steps while namespaces vanish and other invocations sweep
\* ports (a userspace CHECK returns before any check: a TODO in the code).
\* About the order of the checks of CmdCheck and the namespace handle it
\* keeps open (defer netns.Close()) until validateOvs has run.
CheckOkImpliesIntact ==
    [][\A c \in Containers :
         pc[c] = "chk_ovs" /\ chkResult'[c] = "ok" => Intact(c)]_vars

=============================================================================
