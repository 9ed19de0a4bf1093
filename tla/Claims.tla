------------------------------- MODULE Claims -------------------------------
(***************************************************************************)
(* What a comment says of the Configurator and the code does not keep to:  *)
(* a run refutes it, and its counterexample shows how the code gets there. *)
(***************************************************************************)
EXTENDS Configurator

\* The comment on CanRollback: it "returns false if any of the values written
\* in the specified commit have been written in a more recent commit".
RollbackSeesEveryWrite ==
    \A i \in DOMAIN history :
        CanRollback(history, history[i]) =>
            \A k \in Keys(history[i]) : values[k] = history[i].deltas[k].new

============================================================================
