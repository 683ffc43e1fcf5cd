---------------------------- MODULE MCLiveMedia -----------------------------
(* Small instances of LiveMedia, with the registry of MediaSession inside: *)
(* two connections, two issuers and two grants, so that a reconnect and a  *)
(* replacement both happen.  The liveness instance has a tick of the       *)
(* clock, which ends a grant's lifetime; in the other a wrong token        *)
(* refuses claims instead.  The CHOOSE of owner is of the one active       *)
(* connection, so it does not depend on the names of the connections.      *)
EXTENDS LiveMedia, TLC

Symmetry == Permutations(Streams) \cup Permutations(Grants)
=============================================================================
