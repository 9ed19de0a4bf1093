--------------------------- MODULE BlockingCalls ---------------------------
(***************************************************************************)
(* What a client that makes one call at a time over a connection, and that *)
(* does not look at the id of an answer, can promise its caller.           *)
(***************************************************************************)
EXTENDS Integers

VARIABLES
    calls,      \* how many calls have been made; the last one has this number
    busy,       \* the last one has not returned yet
    trusted,    \* no call has failed since the connection was made
    outcome,    \* 0, Failed, or the number of the call whose answer was returned
    told        \* the calls whose answers have been returned

vars == <<calls, busy, trusted, outcome, told>>

Failed == -1

Init ==
    /\ calls = 0
    /\ busy = FALSE
    /\ trusted = TRUE
    /\ outcome = 0
    /\ told = {}

Begin ==
    /\ ~busy
    /\ busy' = TRUE
    /\ calls' = calls + 1
    /\ outcome' = 0
    /\ UNCHANGED <<trusted, told>>

\* The answer of a call: it is the caller's own while the connection can be
\* trusted, and in any case one that has not been returned before.
Answered(n) ==
    /\ busy
    /\ trusted => n = calls
    /\ n \in (1..calls) \ told
    /\ busy' = FALSE
    /\ outcome' = n
    /\ told' = told \cup {n}
    /\ UNCHANGED <<calls, trusted>>

Fail ==
    /\ busy
    /\ busy' = FALSE
    /\ outcome' = Failed
    /\ trusted' = FALSE
    /\ UNCHANGED <<calls, told>>

\* A new connection is a fresh start.
Reconnect ==
    /\ ~busy
    /\ trusted' = TRUE
    /\ outcome' = 0
    /\ UNCHANGED <<calls, busy, told>>

Next ==
    \/ Begin
    \/ \E n \in 1..calls : Answered(n)
    \/ Fail
    \/ Reconnect

Spec == Init /\ [][Next]_vars

============================================================================
