-------------------------- MODULE MCAncsTransport ---------------------------
(* A small instance of AncsTransport: three notifications, so that one is  *)
(* asked for, one queued and one lost at the limit; answers that fit and   *)
(* answers one fragment too long.                                          *)
EXTENDS AncsTransport

=============================================================================
