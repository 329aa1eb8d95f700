-------------------------------- MODULE Vlan --------------------------------
(***************************************************************************)
(* VLAN handling of the plugin (src/pkg/plugin/plugin.go): splitVlanIds,   *)
(* the port mode, tag and trunks CmdAdd gives CreatePort, what the OVS     *)
(* port then reports, and the VLAN part of validateOvs run by CmdCheck.    *)
(*                                                                         *)
(* An optional field (a *uint in the code) is a set: {} for nil, {v} for   *)
(* a value.  A trunk entry is a record of three optional ids.              *)
(***************************************************************************)
EXTENDS Naturals, Sequences, FiniteSetsExt

CONSTANTS
    Inputs    \* the (vlanTag, trunk list) pairs of the NetConfs checked

VARIABLES
    vlanTag,  \* netconf.VlanTag
    trunks    \* netconf.Trunk

vars == <<vlanTag, trunks>>

\* The bound splitVlanIds checks every id against.
VlanIdLimit == 4096

\* The value of an optional id, 0 when nil (the code's `var minID uint = 0`).
OptVal(o) == IF o = {} THEN 0 ELSE CHOOSE v \in o : TRUE

\* sort.Slice ascending of a set of ids.
RECURSIVE SortAsc(_)
SortAsc(S) == IF S = {} THEN <<>> ELSE <<Min(S)>> \o SortAsc(S \ {Min(S)})

-----------------------------------------------------------------------------
(* splitVlanIds *)

\* The checks of one trunk entry that return an error.  The check of the
\* single id compares minID, not id, with the limit.
ItemError(item) ==
    LET minID == OptVal(item.minID)
        maxID == OptVal(item.maxID)
    IN \/ minID > VlanIdLimit
       \/ item.maxID # {} /\ (maxID > VlanIdLimit \/ maxID < minID)
       \/ item.id # {} /\ minID > VlanIdLimit

\* The ids one entry adds: the range only when both bounds are non-zero,
\* and the single id.
ItemIds(item) ==
    LET minID == OptVal(item.minID)
        maxID == OptVal(item.maxID)
    IN (IF minID > 0 /\ maxID > 0 THEN minID..maxID ELSE {}) \cup item.id

\* The result of splitVlanIds: ok and the sorted ids, or an error (the
\* first failing entry returns at once; which one fails is not observed).
SplitVlanIds(ts) ==
    LET vlans == UNION {ItemIds(ts[i]) : i \in DOMAIN ts}
    IN IF (\E i \in DOMAIN ts : ItemError(ts[i])) \/ vlans = {}
         THEN [ok |-> FALSE, ids |-> <<>>]
         ELSE [ok |-> TRUE, ids |-> SortAsc(vlans)]

-----------------------------------------------------------------------------
(* CmdAdd: port mode, tag and trunks; the OVS port CreatePort makes. *)

\* Trunk mode when no tag is given or a trunk list is; the tag is passed
\* only in access mode (0 otherwise).
AddPortVlan(tag, ts) ==
    LET trunkMode == tag = {} \/ Len(ts) > 0
        split == IF Len(ts) > 0 THEN SplitVlanIds(ts)
                 ELSE [ok |-> TRUE, ids |-> <<>>]
    IN [ok     |-> split.ok,
        mode   |-> IF trunkMode THEN "trunk" ELSE "access",
        tag    |-> IF trunkMode THEN 0 ELSE OptVal(tag),
        trunks |-> split.ids]

\* The VLAN state GetOFPortVlanState reads back from the port CreatePort
\* made (pkg/ovsdb): the tag column is set only for a non-zero tag, the
\* trunks column only for a non-empty list, vlan_mode always.
OvsPortVlan(p) ==
    [mode   |-> p.mode,
     tag    |-> IF p.tag = 0 THEN {} ELSE {p.tag},
     trunks |-> p.trunks]

-----------------------------------------------------------------------------
(* validateOvs: the VLAN checks of CmdCheck. *)

ValidateOvsVlan(tag, ts, ovs) ==
    LET split == IF Len(ts) > 0 THEN SplitVlanIds(ts)
                 ELSE [ok |-> TRUE, ids |-> <<>>]
        tagOk == IF tag = {} THEN ovs.tag = {}
                 ELSE ovs.tag = tag /\ ovs.mode = "access"
        trunkOk == /\ split.ok
                   /\ Len(ovs.trunks) = Len(split.ids)
                   /\ Len(split.ids) > 0 =>
                        ovs.trunks = split.ids /\ ovs.mode = "trunk"
    IN tagOk /\ trunkOk

-----------------------------------------------------------------------------
(* Each behaviour checks one NetConf. *)

Init == \E in \in Inputs : vlanTag = in[1] /\ trunks = in[2]

Next == UNCHANGED vars

Spec == Init /\ [][Next]_vars

-----------------------------------------------------------------------------
(* Properties *)

\* A well-formed entry, as spec 4.1 describes it: a single id, a min/max
\* range, or both, every id within [0, 4096] and max >= min.
WellFormedItem(item) ==
    /\ item.minID = {} <=> item.maxID = {}
    /\ item.minID # {} \/ item.id # {}
    /\ \A f \in {"minID", "maxID", "id"} : OptVal(item[f]) <= VlanIdLimit
    /\ OptVal(item.minID) <= OptVal(item.maxID)

\* The ids spec 4.1 accumulates from a list of entries.
SpecTrunkIds(ts) ==
    UNION {(IF ts[i].minID # {}
              THEN OptVal(ts[i].minID)..OptVal(ts[i].maxID) ELSE {})
           \cup ts[i].id : i \in DOMAIN ts}

\* splitVlanIds meets the contract of spec 4.1: every id it accepts lies
\* in [0, 4096], and a non-empty list of well-formed entries yields exactly
\* the ids of its ranges and single ids, sorted.  About the bound checks
\* and the range accumulation of splitVlanIds.
TrunkMatchesSpec ==
    LET r == SplitVlanIds(trunks)
    IN /\ r.ok => \A i \in DOMAIN r.ids : r.ids[i] <= VlanIdLimit
       /\ (Len(trunks) > 0 /\ \A i \in DOMAIN trunks : WellFormedItem(trunks[i]))
            => r = [ok |-> TRUE, ids |-> SortAsc(SpecTrunkIds(trunks))]

\* The port CmdAdd creates passes the VLAN checks of CmdCheck when nothing
\* has changed in between (spec 8: verify after a successful attach with
\* unmodified state always succeeds): for a NetConf whose tag and trunk
\* list are not both given (spec 3: the tag is exclusive with trunk), and
\* for every tag, CmdCheck reads back the tag, mode and trunks it expects.  About the trunk/access decision of
\* CmdAdd, the storage of the port and validateOvs.
AddThenCheckAgrees ==
    LET p == AddPortVlan(vlanTag, trunks)
    IN (vlanTag = {} \/ trunks = <<>>) /\ p.ok
         => ValidateOvsVlan(vlanTag, trunks, OvsPortVlan(p))

=============================================================================
