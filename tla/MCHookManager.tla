--------------------------- MODULE MCHookManager ---------------------------
(***************************************************************************)
(* Constants for checking HookManager.                                     *)
(***************************************************************************)
EXTENDS HookManager

OneKey == {<<"a">>, <<"last", "a">>}

SmallTypes == [v \in Value |-> "int32"]

On(key, optional) == [key |-> key, optional |-> optional]

\* Four templates, one of which needs its key, a service of the first run
\* level whose result is ignored, and a detached one of the second that needs
\* its key.
Hooks == {"t1", "t2", "t3", "t4", "s1", "s2"}

Types == [h \in Hook |-> IF h \in {"s1", "s2"} THEN "SERVICE" ELSE "TEMPLATER"]

Levels == [h \in Hook |-> IF h = "s2" THEN 2 ELSE 1]

Patterns ==
    [h \in Hook |->
        CASE h = "t1" -> {On(<<"a">>, FALSE)}
          [] h = "t2" -> {On(<<"last", "a">>, TRUE)}
          [] h = "t4" -> {On(<<"last", "*">>, FALSE)}
          [] h = "t3" -> {On(<<"a">>, TRUE), On(<<"last", "*">>, FALSE)}
          [] h = "s1" -> {On(<<"*">>, FALSE)}
          [] h = "s2" -> {On(<<"*", "*">>, FALSE), On(<<"last", "a">>, FALSE)}]

Options ==
    [h \in Hook |->
        CASE h = "s1" -> "IGNORE" [] h = "s2" -> "DETACH" [] OTHER -> "DEFAULT"]

============================================================================
