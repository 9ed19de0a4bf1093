--------------------------- MODULE DurableHistory ---------------------------
(***************************************************************************)
(* What the commit history promises across crashes.  Its state is one log: *)
(* while the daemon runs the commits that a client is shown, and while it   *)
(* does not, the commits that it will show when it comes up again.          *)
(*                                                                         *)
(* A crash is atomic for the log.  A commit that it cuts short is in the   *)
(* log or is not; it never takes an older commit with it, except the one   *)
(* that its own coming pushes out.                                         *)
(***************************************************************************)
EXTENDS Naturals, Sequences

CONSTANT MaxStorage  \* the number of commits kept

VARIABLES
    log,      \* the commits, oldest first
    running,  \* the daemon runs
    lost      \* a crash has left a file that keeps the daemon from coming up

vars == <<running, lost, log>>

Init ==
    /\ log = <<>>
    /\ running = TRUE
    /\ lost = FALSE

LastId == IF log = <<>> THEN 0 ELSE log[Len(log)].id

Youngest(commits) ==
    IF Len(commits) > MaxStorage
    THEN SubSeq(commits, Len(commits) - MaxStorage + 1, Len(commits))
    ELSE commits

\* One commit is added: it names the commit before it, and has a larger id.
Adds(new) ==
    /\ new # <<>>
    /\ LET commit == new[Len(new)]
       IN  /\ commit.parent = LastId
           /\ commit.id > LastId
           /\ new = Youngest(Append(log, commit))

Log ==
    /\ running
    /\ UNCHANGED <<running, lost>>
    /\ Adds(log')

Crash ==
    /\ running
    /\ ~running'
    /\ \/ UNCHANGED <<lost, log>>
       \/ lost' /\ UNCHANGED log
       \/ UNCHANGED lost /\ Adds(log')

Recover ==
    /\ ~running
    /\ ~lost
    /\ running'
    /\ UNCHANGED <<lost, log>>

Next == Log \/ Crash \/ Recover

Spec == Init /\ [][Next]_vars

============================================================================
