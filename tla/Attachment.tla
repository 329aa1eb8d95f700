----------------------------- MODULE Attachment -----------------------------
(***************************************************************************)
(* What the plugin promises a container runtime about one attachment per   *)
(* container, whatever the steps, failures and kills in between: the      *)
(* runtime's lifecycle of the attachment, whether the container holds      *)
(* resources outside the plugin, and whether its cache record exists.     *)
(*                                                                         *)
(*  - only an attach that has written the record acquires resources;      *)
(*  - a detach only releases, and drops the record only once nothing is   *)
(*    held;                                                                *)
(*  - a detach reported successful leaves nothing held;                    *)
(*  - resources may vanish at any time (the kernel, the sweeper).          *)
(***************************************************************************)
CONSTANTS
    Containers

VARIABLES
    status,   \* status[c]: "init" | "adding" | "added" | "tearing" | "done"
    held,     \* held[c]: c holds a resource outside the plugin
    record    \* record[c]: the cache record of c exists

vars == <<status, held, record>>

TypeOK ==
    /\ status \in [Containers -> {"init", "adding", "added", "tearing", "done"}]
    /\ held \in [Containers -> BOOLEAN]
    /\ record \in [Containers -> BOOLEAN]

Init ==
    /\ status = [c \in Containers |-> "init"]
    /\ held = [c \in Containers |-> FALSE]
    /\ record = [c \in Containers |-> FALSE]

Start(c) ==
    /\ status[c] = "init"
    /\ status' = [status EXCEPT ![c] = "adding"]
    /\ UNCHANGED <<held, record>>

\* A step of attach: it may write the record, then acquire or release
\* resources, and may end the attach either way.
AttachStep(c) ==
    /\ status[c] = "adding"
    /\ \E r \in {record[c], TRUE}, h \in BOOLEAN, s \in {"adding", "added", "tearing"}:
         /\ h => r
         /\ record' = [record EXCEPT ![c] = r]
         /\ held' = [held EXCEPT ![c] = h]
         /\ status' = [status EXCEPT ![c] = s]

Teardown(c) ==
    /\ status[c] = "added"
    /\ status' = [status EXCEPT ![c] = "tearing"]
    /\ UNCHANGED <<held, record>>

\* A step of detach: it releases, may drop the record of what is no
\* longer held, and may report success once nothing is held.
DetachStep(c) ==
    /\ status[c] = "tearing"
    /\ \E h \in {held[c], FALSE}, r \in {record[c], FALSE}, s \in {"tearing", "done"}:
         /\ r # record[c] => ~h
         /\ s = "done" => ~h
         /\ held' = [held EXCEPT ![c] = h]
         /\ record' = [record EXCEPT ![c] = r]
         /\ status' = [status EXCEPT ![c] = s]

\* A resource of c disappears without the plugin.
Vanish(c) ==
    /\ held' = [held EXCEPT ![c] = FALSE]
    /\ UNCHANGED <<status, record>>

Next ==
    \E c \in Containers :
        Start(c) \/ AttachStep(c) \/ Teardown(c) \/ DetachStep(c) \/ Vanish(c)

Spec == Init /\ [][Next]_vars

\* What the abstract steps keep true: a resource is held only while its
\* record exists.
RecordCoversHeld == \A c \in Containers : held[c] => record[c]

=============================================================================
