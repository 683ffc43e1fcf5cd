--------------------------- MODULE ExclusiveOwner ---------------------------
(***************************************************************************)
(* What the media-session registry promises its callers: at any moment at  *)
(* most one media connection is the live owner of the call audio, and the  *)
(* ownership never passes from one connection to another directly: the old *)
(* owner is cut off first.                                                 *)
(***************************************************************************)
CONSTANTS Streams,   \* media connections (one per open_audio_stream request)
          NoOwner    \* the value of owner when nobody may move audio

VARIABLE owner       \* the connection whose lease is active

Init == owner = NoOwner

\* A connection becomes the live owner, only when there is none.
Acquire == /\ owner = NoOwner
           /\ owner' \in Streams

\* The owner leaves, or its grant is replaced or revoked.
Lose == /\ owner # NoOwner
        /\ owner' = NoOwner

Next == Acquire \/ Lose

Spec == Init /\ [][Next]_owner
=============================================================================
