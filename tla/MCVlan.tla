------------------------------- MODULE MCVlan -------------------------------
(* Model-checking instance of Vlan: the NetConfs whose VLAN settings are   *)
(* checked.  Ids are small values and the values around the bound 4096;   *)
(* a range wider than four ids is left out (the range logic does not      *)
(* depend on its width, and its ids would only be enumerated).            *)
EXTENDS Vlan

Opt(S) == {{}} \cup {{v} : v \in S}

Items(S) == [minID : Opt(S), maxID : Opt(S), id : Opt(S)]

Narrow(item) ==
    OptVal(item.minID) > 0 => OptVal(item.maxID) <= OptVal(item.minID) + 3

\* One entry with ids around the bound, or two entries with small ids.
TrunkLists ==
    {<<i>> : i \in {it \in Items({0, 1, 2, 4095, 4096, 4097}) : Narrow(it)}}
    \cup {<<i, j>> : i, j \in Items({0, 1, 2})}

TrunkInputs == {<<{}, t>> : t \in TrunkLists}

\* Tags nil, 0 (the value CmdAdd also passes for "no tag") and 10, with
\* and without trunk lists.
NetConfInputs == {{}, {0}, {10}} \X (TrunkLists \cup {<<>>})
=============================================================================
