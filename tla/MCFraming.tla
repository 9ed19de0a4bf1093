----------------------------- MODULE MCFraming -----------------------------
(***************************************************************************)
(* Constants for checking Framing.                                         *)
(***************************************************************************)
EXTENDS Framing

\* The empty message, some that look like lengths, the longest that fit into
\* a length of two bits and one that is too long.
Messages == {<<>>, <<0>>, <<1, 0>>, <<0, 1, 1>>, <<1, 1, 1, 1>>}

TooLarge == <<1>>

============================================================================
