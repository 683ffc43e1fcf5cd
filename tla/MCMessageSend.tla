--------------------------- MODULE MCMessageSend ----------------------------
(* Small instances of MessageSend: two composers that retry, two requests  *)
(* that can overlap, and a registry that evicts at its second id.          *)
EXTENDS MessageSend, TLC

Symmetry ==
  Permutations(Clients) \cup Permutations(Contents)
    \cup Permutations(Operations) \cup Permutations(Requests)
=============================================================================
