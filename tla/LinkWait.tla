------------------------------ MODULE LinkWait ------------------------------
(***************************************************************************)
(* waitLinkUp (src/pkg/plugin/plugin.go): CmdAdd polls the operational     *)
(* state of the host-side OF port, with a fixed sleep between polls, until *)
(* it reports "up" or retryCount polls have been made.  OVS brings the     *)
(* port up (and may take it down again) concurrently with the polling.    *)
(* A poll may fail; its error is only logged.                              *)
(***************************************************************************)
EXTENDS Integers, Sequences

CONSTANTS
    RetryCounts   \* the values of netconf.LinkStateCheckRetries checked

VARIABLES
    retryCount,   \* the retryCount argument (a Go int)
    i,            \* the loop counter
    port,         \* the OF port's operational state in OVS: "down" | "up"
    polls,        \* history: what each GetOFPortOpState call returned
    result        \* "running" | "ok" (nil returned) | "err"

vars == <<retryCount, i, port, polls, result>>

\* The loop condition `i <= retryCount`.
LoopContinues(n, k) == n <= k

\* Mutant of LastTry: the test is made one iteration late.
LastTryOffByOne(n, k) == n = k + 1

\* The test `i == retryCount` that ends the loop with an error.
LastTry(n, k) == n = k

Init ==
    /\ retryCount \in RetryCounts
    /\ i = 1
    /\ port \in {"down", "up"}
    /\ polls = <<>>
    /\ result = "running"

\* One iteration: GetOFPortOpState, then break on "up", return an error on
\* the last iteration, or sleep and go on.
Poll ==
    /\ result = "running"
    /\ LoopContinues(i, retryCount)
    /\ \E obs \in {"error", port}:
         /\ polls' = Append(polls, obs)
         /\ CASE obs = "up"              -> result' = "ok" /\ UNCHANGED i
              [] LastTry(i, retryCount)  -> result' = "err" /\ UNCHANGED i
              [] OTHER                   -> i' = i + 1 /\ UNCHANGED result
    /\ UNCHANGED <<retryCount, port>>

\* The loop condition fails: waitLinkUp returns nil.
ExitLoop ==
    /\ result = "running"
    /\ ~LoopContinues(i, retryCount)
    /\ result' = "ok"
    /\ UNCHANGED <<retryCount, i, port, polls>>

\* OVS changes the port's operational state while CmdAdd waits.
PortChange ==
    /\ result = "running"
    /\ port' = IF port = "up" THEN "down" ELSE "up"
    /\ UNCHANGED <<retryCount, i, polls, result>>

\* waitLinkUp has returned.
Returned ==
    /\ result # "running"
    /\ UNCHANGED vars

Next == Poll \/ ExitLoop \/ PortChange \/ Returned

Spec == Init /\ [][Next]_vars

-----------------------------------------------------------------------------
(* Properties *)

\* waitLinkUp never polls more than retryCount times; it returns an error
\* only after exactly retryCount polls none of which saw the port up, and
\* when it has polled, it returns nil only after a poll that saw "up"
\* (spec: bounded busy-wait; exhausting the retries is fatal).  About the
\* loop bound, the break and the `i == retryCount` test of waitLinkUp.
WaitBounded ==
    /\ Len(polls) <= IF retryCount > 0 THEN retryCount ELSE 0
    /\ result = "err" =>
         /\ Len(polls) = retryCount
         /\ \A k \in DOMAIN polls : polls[k] # "up"
    /\ result = "ok" /\ Len(polls) > 0 => polls[Len(polls)] = "up"

=============================================================================
