--------------------------- MODULE MCConnections ---------------------------
(***************************************************************************)
(* Constants for checking Connections: a Python client with and one        *)
(* without a timeout, and a Rust client.                                   *)
(***************************************************************************)
EXTENDS Connections

CONSTANTS python, patient, rust

============================================================================
