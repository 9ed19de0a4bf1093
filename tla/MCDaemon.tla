------------------------------ MODULE MCDaemon ------------------------------
(***************************************************************************)
(* Constants for checking Daemon.                                          *)
(***************************************************************************)
EXTENDS Daemon

OneKey == {<<"a">>, <<"last", "a">>}

Copies == {<<"last", "a">>, <<"a">>}

SmallTypes == [v \in Value |-> "int32"]

\* The ids of the clients are interchangeable.
Clients == Permutations(Client)

PathOrder == << <<"global">>, <<"last">> >>

ASSUME KeysAssumption == NoKeyAliases

============================================================================
