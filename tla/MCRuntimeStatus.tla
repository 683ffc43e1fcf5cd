-------------------------- MODULE MCRuntimeStatus ---------------------------
(* A small instance of RuntimeStatus: two overlapping requests and one call *)
(* that comes, is active, disconnects and goes.                             *)
EXTENDS RuntimeStatus, TLC

=============================================================================
