---------------------------- MODULE JitterBuffer ----------------------------
(***************************************************************************)
(* The two jitter buffers: JitterBuffer behind FramedPcmMediaBridge in     *)
(* crates/analogconnectd/src/audio.rs, with the packets of                 *)
(* crates/analogconnect-core/src/audio.rs, and AudioJitterBuffer behind    *)
(* CallAudioPump of the Android client.  They agree on late and duplicate  *)
(* frames and differ in what gives way when they are full, and in what an  *)
(* empty buffer does at a tick.                                            *)
(*                                                                         *)
(* A behaviour is about one of them, side.  Any packet may arrive at any   *)
(* time: lost, repeated, reordered, or unfit.  A frame is its sequence.    *)
(* The counter of missing frames is left out, as nothing reads it.         *)
(***************************************************************************)
EXTENDS Integers, Sequences, FiniteSets, FiniteSetsExt

CONSTANTS
  Capacity, TargetDepth,   \* of the buffer
  MaxSequence,             \* i64::MAX, Long.MAX_VALUE: the last sequence
  MaxBatch,                \* MAX_BATCH_FRAMES
  HighWater, TrimInterval, \* TRIM_HIGH_WATER_DEPTH, MIN_FRAMES_BETWEEN_TRIMS
  MaxReceived              \* bound: frames that arrive

ASSUME JitterAssumption ==
  /\ Capacity \in Nat \ {0} /\ TargetDepth \in 1..Capacity
  /\ MaxSequence \in Nat /\ MaxBatch \in Nat \ {0}
  /\ HighWater \in Nat /\ TrimInterval \in Nat /\ MaxReceived \in Nat

VARIABLES
  side,       \* "daemon" or "client"
  frames,     \* the sequences in the buffer
  next,       \* next_sequence, or Null
  started,    \* the target depth was reached
  count,      \* the counters of the summary
  pending,    \* the rest of a batch that is being inserted
  held,       \* client: the frame the playout has taken and not yet written
  sinceTrim,  \* client: framesSinceTrim, up to TrimInterval
  running,    \* client: the pump runs
  highest,    \* history: the highest sequence received
  last,       \* history: the last frame that came out
  disorder,   \* history: a frame came out after itself or a later one
  crowdedOut  \* history: the oldest frames that gave way once playout had started

bufferVars == <<frames, next, started, count>>
pumpVars   == <<held, sinceTrim, running>>
vars == <<side, bufferVars, pending, pumpVars, highest, last, disorder, crowdedOut>>

Sequence == 0..MaxSequence
Counters == {"received", "emitted", "duplicate", "late", "overflow"}
Null == -1

-----------------------------------------------------------------------------
Init ==
  /\ side \in {"daemon", "client"}
  /\ frames = {} /\ next = Null /\ started = FALSE
  /\ count = [c \in Counters |-> 0]
  /\ pending = <<>> /\ held = Null /\ sinceTrim = TrimInterval /\ running = TRUE
  /\ highest = Null /\ last = Null /\ disorder = FALSE /\ crowdedOut = {}

\* One more frame was received, and one more counted under c.
Counted(c) == [count EXCEPT !["received"] = @ + 1, ![c] = @ + 1]

-----------------------------------------------------------------------------
(* insert *)

Late(s) == next # Null /\ s < next

Full == Cardinality(frames) >= Capacity

\* A frame that is late or there already is counted and dropped.
Drop(s) ==
  /\ Late(s) \/ s \in frames
  /\ count' = Counted(IF Late(s) THEN "late" ELSE "duplicate")
  /\ UNCHANGED <<frames, next, crowdedOut>>

Keep(s) ==
  /\ ~Late(s) /\ s \notin frames /\ ~Full
  /\ frames' = frames \cup {s}
  /\ count' = [count EXCEPT !["received"] = @ + 1]
  /\ UNCHANGED <<next, crowdedOut>>

\* Full, and an earlier frame arrives: the furthest one gives way.
Displace(s) ==
  /\ ~Late(s) /\ s \notin frames /\ Full /\ s < Max(frames)
  /\ frames' = (frames \ {Max(frames)}) \cup {s}
  /\ count' = Counted("overflow")
  /\ UNCHANGED <<next, crowdedOut>>

\* Full, and a frame further than all arrives: the daemon drops it.
TurnAway(s) ==
  /\ side = "daemon"
  /\ ~Late(s) /\ Full /\ s > Max(frames)
  /\ count' = Counted("overflow")
  /\ UNCHANGED <<frames, next, crowdedOut>>

\* Seeded fault: the frame that gave way is not counted.
CrowdOutUncounted(s) ==
  /\ side = "client"
  /\ ~Late(s) /\ Full /\ s > Max(frames)
  /\ frames' = (frames \ {Min(frames)}) \cup {s}
  /\ next' = IF started /\ next # Null /\ next < Min(frames') THEN Min(frames') ELSE next
  /\ count' = [count EXCEPT !["received"] = @ + 1]
  /\ crowdedOut' = IF started THEN crowdedOut \cup {Min(frames)} ELSE crowdedOut

\* The client takes it and the oldest frame gives way: the playout skips on to
\* the first frame that is left.
CrowdOut(s) ==
  /\ side = "client"
  /\ ~Late(s) /\ Full /\ s > Max(frames)
  /\ frames' = (frames \ {Min(frames)}) \cup {s}
  /\ next' = IF started /\ next # Null /\ next < Min(frames') THEN Min(frames') ELSE next
  /\ count' = Counted("overflow")
  /\ crowdedOut' = IF started THEN crowdedOut \cup {Min(frames)} ELSE crowdedOut

\* The frames of a batch are inserted one by one, each under the lock.
Insert ==
  /\ pending # <<>>
  /\ LET s == Head(pending)
     IN  /\ Drop(s) \/ Keep(s) \/ Displace(s) \/ TurnAway(s) \/ CrowdOut(s)
         /\ highest' = Max({highest, s})
  /\ pending' = Tail(pending)
  /\ UNCHANGED <<side, started, pumpVars, last, disorder>>

-----------------------------------------------------------------------------
(* Packets. *)

\* receive_uplink takes a packet, receiveOnce a batch of consecutive frames,
\* all of the right format.
Receive(s, n) ==
  /\ pending = <<>> /\ running
  /\ n = 1 \/ side = "client"
  /\ s + n - 1 <= MaxSequence /\ count["received"] + n <= MaxReceived
  /\ pending' = [i \in 1..n |-> s + i - 1]
  /\ UNCHANGED <<side, bufferVars, pumpVars, highest, last, disorder, crowdedOut>>

\* A packet that cannot be decoded, or has another format, ends the session of
\* the client; receive_uplink of the daemon returns an error and goes on.
ReceiveUnfit ==
  /\ pending = <<>> /\ running /\ side = "client"
  /\ running' = FALSE
  /\ UNCHANGED <<side, bufferVars, pending, held, sinceTrim, highest, last, disorder, crowdedOut>>

-----------------------------------------------------------------------------
(* tick *)

\* Where the playout is at a tick: Null while it waits for the target depth.
Expected ==
  IF started THEN next
  ELSE IF Cardinality(frames) >= TargetDepth THEN Min(frames) ELSE Null

\* Seeded fault: the playout stays where it is.
AfterStays(s) == s

\* The sequence after s.  No frame tells the daemon's next_sequence apart from
\* MaxSequence + 1 once it is past the last sequence; the client has none then.
After(s) ==
  IF s < MaxSequence THEN s + 1
  ELSE IF side = "client" THEN Null ELSE MaxSequence + 1

\* Seeded fault: an empty buffer does not hold the playout.
HoldsNever(s) == FALSE

\* The client's buffer is empty and waits for the frame it expects.
Holds(s) == side = "client" /\ frames = {}

Emit(s) ==
  /\ s \in frames
  /\ frames' = frames \ {s} /\ next' = After(s)
  /\ count' = [count EXCEPT !["emitted"] = @ + 1]
  /\ last' = s /\ disorder' = (disorder \/ s <= last)

Miss(s) ==
  /\ s \notin frames
  /\ next' = IF Holds(s) THEN s ELSE After(s)
  /\ UNCHANGED <<frames, count, last, disorder>>

\* tick_uplink of the daemon, and the first tick of playoutOnce.  The client
\* that gets nothing writes a frame it makes up.
Tick ==
  /\ running /\ held = Null /\ Expected # Null
  /\ started' = TRUE
  /\ \/ /\ Emit(Expected)
        /\ held' = IF side = "client" THEN Expected ELSE Null
     \/ /\ Miss(Expected)
        /\ UNCHANGED held
  /\ UNCHANGED <<side, pending, sinceTrim, running, highest, crowdedOut>>

\* The buffer is above the high water mark, and was not trimmed just now.
Trimming == Cardinality(frames) > HighWater /\ sinceTrim + 1 >= TrimInterval

\* playoutOnce writes the frame it has.
Write ==
  /\ held # Null /\ (Trimming => next = Null)
  /\ held' = Null
  /\ sinceTrim' = Min({sinceTrim + 1, TrimInterval})
  /\ UNCHANGED <<side, bufferVars, pending, running, highest, last, disorder, crowdedOut>>

\* playoutOnce ticks once more, and writes the newer frame, if there is one, in
\* place of the one it has.
Trim ==
  /\ held # Null /\ Trimming /\ next # Null
  /\ \/ /\ Emit(next) /\ sinceTrim' = 0
     \/ /\ Miss(next) /\ sinceTrim' = Min({sinceTrim + 1, TrimInterval})
  /\ held' = Null
  /\ UNCHANGED <<side, started, pending, running, highest, crowdedOut>>

-----------------------------------------------------------------------------
Next ==
  \/ \E s \in Sequence, n \in 1..MaxBatch : Receive(s, n)
  \/ ReceiveUnfit \/ Insert
  \/ Tick \/ Write \/ Trim

Spec == Init /\ [][Next]_vars

-----------------------------------------------------------------------------
\* Types, and that the buffer keeps to its capacity.
TypeOK ==
  /\ side \in {"daemon", "client"}
  /\ frames \subseteq Sequence /\ Cardinality(frames) <= Capacity
  /\ next \in Null..(MaxSequence + 1) /\ started \in BOOLEAN
  /\ count \in [Counters -> 0..MaxReceived]
  /\ pending \in Seq(Sequence) /\ held \in Sequence \cup {Null}
  /\ sinceTrim \in 0..TrimInterval /\ running \in BOOLEAN
  /\ highest \in Sequence \cup {Null} /\ last \in Sequence \cup {Null}
  /\ disorder \in BOOLEAN /\ crowdedOut \subseteq Sequence

\* However packets are reordered, repeated or lost, and however often a buffer
\* overflows, the frames come out in the order of their sequences, none twice.
PlayedInOrder == ~disorder

\* Every frame received is accounted for in the summary: it came out, is in the
\* buffer, or was counted as late, duplicate or overflow, exactly once.
Conserved ==
  count["received"] = count["emitted"] + Cardinality(frames) + count["late"]
                      + count["duplicate"] + count["overflow"]

\* The playout of the client keeps to its sender: it never overtakes it, so
\* that a frame newer than all before it is never late, however long the
\* connection stalled, and it does not wait for a frame that gave way to a newer
\* one.  (The buffer of the daemon runs on while it is empty, and after a stall
\* every frame of a steady sender is late.  docs/milestone6-audio-bridge.md:174-178
\* says so of both buffers; AudioJitterBuffer.java:71-76, and lines 49-51 of the
\* same document, say what is checked here.)
PlayoutTracksSender ==
  side = "client" => next <= highest + 1 /\ (started => next \notin crowdedOut)
=============================================================================
