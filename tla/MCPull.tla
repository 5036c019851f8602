------------------------------- MODULE MCPull -------------------------------
(* A small instance of Pull for TLC. *)
EXTENDS Pull
=============================================================================
