-------------------------- MODULE MCCallController --------------------------
(* Two commands at once, and two gains besides the default one and zero.  *)
EXTENDS CallController, TLC

Symmetry == Permutations(Requests)
=============================================================================
