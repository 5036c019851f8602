--------------------------- MODULE MCCoordinator ---------------------------
(* A small instance of Coordinator for TLC. *)
EXTENDS Coordinator
=============================================================================
