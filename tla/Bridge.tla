------------------------------- MODULE Bridge -------------------------------
(***************************************************************************)
(* Bridge resolution (getBridgeName, src/pkg/plugin/plugin.go) as CmdAdd   *)
(* and CmdCheck use it for one attachment, while the OVS configuration     *)
(* moves uplinks between bridges.  CmdAdd resolves the bridge from the     *)
(* NetConf and caches the result; CmdCheck resolves it again from the      *)
(* NetConf on stdin, under whatever the uplinks' owners are by then, and   *)
(* any FindBridgeByInterface call may fail on its own.  CmdDel takes the   *)
(* cached name, which is always explicit, so it resolves nothing.          *)
(***************************************************************************)
EXTENDS Sequences, SequencesExt

CONSTANTS
    Bridges,      \* bridges of the OVS database
    Candidates,   \* sequence: GetBridgeUplinkNameByDeviceID(deviceID)
    NetConfs      \* set of [brName, ovnPort, deviceID] records, "" for unset

Uplinks == {Candidates[k] : k \in DOMAIN Candidates}

\* The fixed integration-bridge name used for an OVN port.
IntegrationBridge == "br-int"

\* FindBridgeByInterface fails for an uplink no bridge owns.
NoBridge == "none"

ASSUME IntegrationBridge \notin Bridges /\ NoBridge \notin Bridges

VARIABLES
    owner,    \* owner[u]: the bridge owning uplink u, or NoBridge
    nc,       \* the NetConf of the attachment
    cached,   \* cache.Netconf.BrName, or NoBridge before CmdAdd cached it
    chk,      \* outcome of the last CmdCheck: "none" | "ok" | "drift" | "fail"
    addSeen,  \* history: owners and failed lookups when CmdAdd resolved
    chkSeen   \* history: owners and failed lookups when CmdCheck resolved

vars == <<owner, nc, cached, chk, addSeen, chkSeen>>

\* What one resolution observed of the switch: the uplinks' owners and the
\* uplinks whose FindBridgeByInterface returned an error.
Seen(own, failed) == [own |-> own, failed |-> failed]

\* getBridgeName: the explicit name, the integration bridge for an OVN
\* port, else the bridge of the first candidate uplink whose
\* FindBridgeByInterface succeeds (an uplink no bridge owns errs too; the
\* errors are collected and the loop goes on).  uplinksFail:
\* GetBridgeUplinkNameByDeviceID returns an error.
GetBridgeName(brName, ovnPort, deviceID, own, uplinksFail, failed) ==
    LET k == SelectInSeq(Candidates,
                         LAMBDA u : own[u] # NoBridge /\ u \notin failed)
    IN CASE brName # ""                   -> [ok |-> TRUE, name |-> brName]
         [] ovnPort # ""                  -> [ok |-> TRUE, name |-> IntegrationBridge]
         [] deviceID # "" /\ ~uplinksFail /\ k > 0
                                          -> [ok |-> TRUE, name |-> own[Candidates[k]]]
         [] OTHER                         -> [ok |-> FALSE, name |-> ""]

CachedBrName(resolved, given) == resolved

Init ==
    /\ owner \in [Uplinks -> Bridges \cup {NoBridge}]
    /\ nc \in NetConfs
    /\ cached = NoBridge
    /\ chk = "none"
    /\ addSeen = Seen(owner, {})
    /\ chkSeen = Seen(owner, {})

\* CmdAdd up to SaveCache: resolve the bridge and cache the NetConf.
Add ==
    /\ cached = NoBridge
    /\ \E uplinksFail \in BOOLEAN, failed \in SUBSET Uplinks:
         LET r == GetBridgeName(nc.brName, nc.ovnPort, nc.deviceID,
                                owner, uplinksFail, failed)
         IN /\ r.ok
            /\ cached' = CachedBrName(r.name, nc.brName)
            /\ addSeen' = Seen(owner, failed)
    /\ UNCHANGED <<owner, nc, chk, chkSeen>>

\* The OVS configuration moves an uplink to another bridge, or off all.
Rewire ==
    /\ \E u \in Uplinks, b \in Bridges \cup {NoBridge}:
         owner' = [owner EXCEPT ![u] = b]
    /\ UNCHANGED <<nc, cached, chk, addSeen, chkSeen>>

\* CmdCheck: getBridgeName from the NetConf given on stdin, then
\* validateCache compares the result with the cached BrName.
Check ==
    /\ cached # NoBridge
    /\ \E uplinksFail \in BOOLEAN, failed \in SUBSET Uplinks:
         LET r == GetBridgeName(nc.brName, nc.ovnPort, nc.deviceID,
                                owner, uplinksFail, failed)
         IN /\ chk' = CASE ~r.ok             -> "fail"
                        [] r.name = cached   -> "ok"
                        [] OTHER             -> "drift"
            /\ chkSeen' = Seen(owner, failed)
    /\ UNCHANGED <<owner, nc, cached, addSeen>>

Next == Add \/ Rewire \/ Check

Spec == Init /\ [][Next]_vars

-----------------------------------------------------------------------------
(* Properties *)

CheckDriftOnlyAfterRewire ==
    chk = "drift" => chkSeen.own # addSeen.own

=============================================================================
