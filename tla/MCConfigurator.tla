--------------------------- MODULE MCConfigurator ---------------------------
(***************************************************************************)
(* Constants for checking Configurator.                                    *)
(***************************************************************************)
EXTENDS Claims

CONSTANTS c1, c2, rollback

\* One plain key with its "last." copy.
OneKey == {<<"a">>, <<"last", "a">>}

\* One plain key with its default.
KeyAndDefault == OneKey \cup {<<"default", "a">>}

EraseAll == {<<"a">>, <<"*">>}

IntValues == {"int0", "int1"}

\* The int32 values 0 and 1, and a string.
SmallValues == IntValues \cup {"text"}

SmallTypes == [v \in SmallValues |-> IF v = "text" THEN "string" ELSE "int32"]

============================================================================
