----------------------------- MODULE LiveMedia ------------------------------
(***************************************************************************)
(* The life of a media connection on top of MediaSession: media_socket in  *)
(* crates/analogconnectd/src/lib.rs, and the LiveAudioBridge it owns, in   *)
(* crates/analogconnectd/src/audio.rs.                                     *)
(*                                                                         *)
(* Every connection resets the two shared queues, starts two pw-cat        *)
(* processes and one worker thread per direction, and runs its receive and *)
(* send loops until one of them ends; its locals are then dropped: the     *)
(* stop flag is raised, the processes are killed, the workers joined, and  *)
(* last of all the lease is released.  The queues belong to the daemon and *)
(* are shared by all connections, so a frame is tagged with the connection *)
(* and the grant it came through.                                          *)
(*                                                                         *)
(* Left out: ping/pong frames, and poisoned queue mutexes (no code panics  *)
(* while it holds one).                                                    *)
(***************************************************************************)
EXTENDS MediaSession, Sequences

CONSTANTS
  Capacity,    \* frames per direction (64 in the daemon)
  MaxBatch,    \* frames per message (MAX_MEDIA_FRAMES_PER_MESSAGE, 4)
  MaxBatches   \* messages sent per playout tick (16)

ASSUME LiveMediaAssumption ==
  /\ Capacity \in Nat \ {0}
  /\ MaxBatch \in Nat \ {0}
  /\ MaxBatches \in Nat \ {0}

VARIABLES
  uplink, downlink,  \* the frames of AudioBridge's two queues, oldest first
  sock,              \* per stream: where media_socket is
  batches,           \* per stream: messages sent in this playout tick; the
                     \* send loop is suspended in sender.send while it is > 0
  child,             \* per stream: the pw-cat processes alive
  stop,              \* per stream: LiveAudioBridge.stop
  failure,           \* per stream: LiveAudioBridge.failure
  capture, playback, \* per stream: the two workers
  late_in, late_out  \* history, per stream: messages it put into the uplink, and
                     \* took from the downlink, after its grant was revoked

late     == <<late_in, late_out>>
liveVars == <<uplink, downlink, sock, batches, child, stop, failure, capture, playback, late>>
allVars  == <<vars, liveVars>>

Frame == [from : Streams, grant : Grants]

\* BoundedAudioQueue::push of each frame in turn: the oldest are dropped.
Push(q, frames) ==
  LET all == q \o frames
      excess == Len(all) - Capacity
  IN  IF excess > 0 THEN SubSeq(all, excess + 1, Len(all)) ELSE all

\* take_downlink_batch: up to MaxBatch pops.
PopBatch(q) == SubSeq(q, MaxBatch + 1, Len(q))

LiveInit ==
  /\ Init
  /\ uplink = <<>> /\ downlink = <<>>
  /\ sock = [s \in Streams |-> "none"]
  /\ batches = [s \in Streams |-> 0]
  /\ child = [s \in Streams |-> {}]
  /\ stop = [s \in Streams |-> FALSE]
  /\ failure = [s \in Streams |-> "ok"]
  /\ capture = [s \in Streams |-> "none"]
  /\ playback = [s \in Streams |-> "none"]
  /\ late_in = [s \in Streams |-> 0] /\ late_out = [s \in Streams |-> 0]

-----------------------------------------------------------------------------
(* Issuing and claiming, as in MediaSession.  Nothing in lib.rs calls      *)
(* MediaSessionRegistry::revoke, so Revoke is not a step of the daemon.    *)
SessionStep ==
  /\ \/ Tick
     \/ \E i \in Issuers : IssueStep(i)
     \/ \E s \in Streams : ClaimStep(s)
  /\ UNCHANGED liveVars

\* The upgrade never completes, so the closure that owns the lease is dropped.
UpgradeFails(s) ==
  /\ sock[s] = "none"
  /\ DropLease(s)
  /\ UNCHANGED liveVars

\* AudioBridge::reset, first half.
ResetUplink(s) ==
  /\ pc[s] = "leased" /\ sock[s] = "none"
  /\ uplink' = <<>>
  /\ sock' = [sock EXCEPT ![s] = "resetting"]
  /\ UNCHANGED <<vars, downlink, batches, child, stop, failure, capture, playback, late>>

\* Seeded fault: only the uplink queue is reset.
ResetDownlinkForgotten(s) ==
  /\ sock[s] = "resetting"
  /\ sock' = [sock EXCEPT ![s] = "starting"]
  /\ UNCHANGED <<vars, uplink, downlink, batches, child, stop, failure, capture, playback, late>>

\* AudioBridge::reset, second half, under the other queue's mutex.
ResetDownlink(s) ==
  /\ sock[s] = "resetting"
  /\ downlink' = <<>>
  /\ sock' = [sock EXCEPT ![s] = "starting"]
  /\ UNCHANGED <<vars, uplink, batches, child, stop, failure, capture, playback, late>>

\* Seeded fault: the loops run without asking the lease.
LoopTopUnchecked(s) == UNCHANGED sock

\* `while lease.is_active()`: the loop goes on, or ends and with it the socket.
LoopTop(s) == sock' = IF IsActive(s) THEN sock ELSE [sock EXCEPT ![s] = "stopping"]

\* MediaBackend::start: both processes and both workers exist, the loops begin.
StartLive(s) ==
  /\ sock[s] = "starting"
  /\ child' = [child EXCEPT ![s] = {"capture", "playback"}]
  /\ capture' = [capture EXCEPT ![s] = "checking"]
  /\ playback' = [playback EXCEPT ![s] = "checking"]
  /\ sock' = [sock EXCEPT ![s] = IF IsActive(s) THEN "running" ELSE "stopping"]
  /\ UNCHANGED <<vars, uplink, downlink, batches, stop, failure, late>>

\* SCO nodes missing, or a process or thread that cannot start; what did start
\* is stopped again, but the capture worker may have queued frames by then.
StartFails(s) ==
  /\ sock[s] = "starting"
  /\ sock' = [sock EXCEPT ![s] = "refusing"]
  /\ downlink' \in {downlink, Push(downlink, <<[from |-> s, grant |-> session[s]]>>)}
  /\ UNCHANGED <<vars, uplink, batches, child, stop, failure, capture, playback, late>>

-----------------------------------------------------------------------------
\* One more message of s in a history of late ones, if its grant is revoked; there
\* is no need to count past MaxBatches.
Noted(history, s) ==
  IF IsActive(s) \/ history[s] > MaxBatches THEN history ELSE [history EXCEPT ![s] = @ + 1]

(* The receive loop: it is polled also while the send loop is suspended.   *)

\* A binary message of n frames is queued; then the loop condition is asked.
ReceiveFrames(s, n) ==
  /\ sock[s] \in {"running", "closing"}
  /\ uplink' = Push(uplink, [k \in 1..n |-> [from |-> s, grant |-> session[s]]])
  /\ LoopTop(s)
  /\ batches' = IF IsActive(s) THEN batches ELSE [batches EXCEPT ![s] = 0]
  /\ late_in' = Noted(late_in, s)
  /\ UNCHANGED <<vars, downlink, child, stop, failure, capture, playback, late_out>>

\* Close, end of stream, error, or a message that is not valid audio.
ReceiveEnd(s) ==
  /\ sock[s] \in {"running", "closing"}
  /\ sock' = [sock EXCEPT ![s] = "stopping"]
  /\ batches' = [batches EXCEPT ![s] = 0]
  /\ UNCHANGED <<vars, uplink, downlink, child, stop, failure, capture, playback, late>>

(* The send loop.                                                          *)

\* Seeded fault: a failed worker is not looked at.
PlayoutTickIgnoresFailure(s) ==
  /\ sock[s] = "running" /\ batches[s] = 0
  /\ \/ /\ downlink # <<>>
        /\ downlink' = PopBatch(downlink)
        /\ batches' = [batches EXCEPT ![s] = 1]
        /\ late_out' = Noted(late_out, s)
        /\ UNCHANGED sock
     \/ /\ downlink = <<>>
        /\ LoopTop(s)
        /\ UNCHANGED <<downlink, batches, late_out>>
  /\ UNCHANGED <<vars, uplink, child, stop, failure, capture, playback, late_in>>

\* A playout tick: a failed worker closes the socket, otherwise a first batch
\* is popped and handed to the transport, or there is none.
PlayoutTick(s) ==
  /\ sock[s] = "running" /\ batches[s] = 0
  /\ \/ /\ failure[s] # "ok"
        /\ sock' = [sock EXCEPT ![s] = "closing"]
        /\ UNCHANGED <<downlink, batches, late_out>>
     \/ /\ failure[s] = "ok" /\ downlink # <<>>
        /\ downlink' = PopBatch(downlink)
        /\ batches' = [batches EXCEPT ![s] = 1]
        /\ late_out' = Noted(late_out, s)
        /\ UNCHANGED sock
     \/ /\ failure[s] = "ok" /\ downlink = <<>>
        /\ LoopTop(s)
        /\ UNCHANGED <<downlink, batches, late_out>>
  /\ UNCHANGED <<vars, uplink, child, stop, failure, capture, playback, late_in>>

\* The transport took the message: the next batch of this tick, or the loop
\* condition.  The lease is not asked between the batches of a tick.
SendDone(s) ==
  /\ batches[s] > 0
  /\ \/ /\ batches[s] < MaxBatches /\ downlink # <<>>
        /\ downlink' = PopBatch(downlink)
        /\ batches' = [batches EXCEPT ![s] = @ + 1]
        /\ late_out' = Noted(late_out, s)
        /\ UNCHANGED sock
     \/ /\ batches[s] = MaxBatches \/ downlink = <<>>
        /\ batches' = [batches EXCEPT ![s] = 0]
        /\ LoopTop(s)
        /\ UNCHANGED <<downlink, late_out>>
  /\ UNCHANGED <<vars, uplink, child, stop, failure, capture, playback, late_in>>

SendFails(s) ==
  /\ batches[s] > 0
  /\ sock' = [sock EXCEPT ![s] = "stopping"]
  /\ batches' = [batches EXCEPT ![s] = 0]
  /\ UNCHANGED <<vars, uplink, downlink, child, stop, failure, capture, playback, late>>

\* The Close that follows a worker failure, or a bridge that did not start,
\* went out (or could not); without a bridge only the lease is left to drop.
CloseSent(s) ==
  /\ sock[s] \in {"closing", "refusing"}
  /\ sock' = [sock EXCEPT ![s] = IF @ = "closing" THEN "stopping" ELSE "finished"]
  /\ UNCHANGED <<vars, uplink, downlink, batches, child, stop, failure, capture, playback, late>>

-----------------------------------------------------------------------------
(* The workers.                                                            *)

CaptureCheck(s) ==
  /\ capture[s] = "checking"
  /\ capture' = [capture EXCEPT ![s] = IF stop[s] THEN "done" ELSE "reading"]
  /\ UNCHANGED <<vars, uplink, downlink, sock, batches, child, stop, failure, playback, late>>

\* capture_into_bridge: a whole frame came out of the pipe, which may hold some
\* also when the process is gone.
CaptureFrame(s) ==
  /\ capture[s] = "reading"
  /\ downlink' = Push(downlink, <<[from |-> s, grant |-> session[s]]>>)
  /\ capture' = [capture EXCEPT ![s] = "checking"]
  /\ UNCHANGED <<vars, uplink, sock, batches, child, stop, failure, playback, late>>

\* The process is gone: a clean end of file, or one inside a frame.
CaptureEnd(s) ==
  /\ capture[s] = "reading" /\ "capture" \notin child[s]
  /\ failure' \in {failure, [failure EXCEPT ![s] = "capture"]}
  /\ capture' = [capture EXCEPT ![s] = "done"]
  /\ UNCHANGED <<vars, uplink, downlink, sock, batches, child, stop, playback, late>>

\* playback_from_bridge pops a frame, or takes silence, and writes it; it fails on
\* a frame the client sent in another format.
PlaybackCheck(s) ==
  /\ playback[s] = "checking"
  /\ \/ /\ stop[s]
        /\ playback' = [playback EXCEPT ![s] = "done"]
        /\ UNCHANGED <<uplink, failure>>
     \/ /\ ~stop[s]
        /\ playback' = [playback EXCEPT ![s] = "writing"]
        /\ uplink' = IF uplink = <<>> THEN uplink ELSE Tail(uplink)
        /\ UNCHANGED failure
     \/ /\ ~stop[s] /\ uplink # <<>>
        /\ uplink' = Tail(uplink)
        /\ failure' = [failure EXCEPT ![s] = "playback"]
        /\ playback' = [playback EXCEPT ![s] = "done"]
  /\ UNCHANGED <<vars, downlink, sock, batches, child, stop, capture, late>>

\* The pipe took the frame and the worker slept until its deadline.
PlaybackWritten(s) ==
  /\ playback[s] = "writing" /\ "playback" \in child[s]
  /\ playback' = [playback EXCEPT ![s] = "checking"]
  /\ UNCHANGED <<vars, uplink, downlink, sock, batches, child, stop, failure, capture, late>>

\* The process is gone: the write fails.
PlaybackBroken(s) ==
  /\ playback[s] = "writing" /\ "playback" \notin child[s]
  /\ failure' = [failure EXCEPT ![s] = "playback"]
  /\ playback' = [playback EXCEPT ![s] = "done"]
  /\ UNCHANGED <<vars, uplink, downlink, sock, batches, child, stop, capture, late>>

\* A pw-cat process ends by itself.
ChildDies(s, c) ==
  /\ c \in child[s]
  /\ child' = [child EXCEPT ![s] = @ \ {c}]
  /\ UNCHANGED <<vars, uplink, downlink, sock, batches, stop, failure, capture, playback, late>>

-----------------------------------------------------------------------------
(* The end of media_socket: Drop for LiveAudioBridge, then for the lease.  *)

RaiseStop(s) ==
  /\ sock[s] = "stopping"
  /\ stop' = [stop EXCEPT ![s] = TRUE]
  /\ sock' = [sock EXCEPT ![s] = "killing"]
  /\ late_in' = [late_in EXCEPT ![s] = 0] /\ late_out' = [late_out EXCEPT ![s] = 0]
  /\ UNCHANGED <<vars, uplink, downlink, batches, child, failure, capture, playback>>

\* Seeded fault: the workers are joined before the processes are killed.
KillChildrenAfterJoin(s) ==
  /\ sock[s] = "killing"
  /\ sock' = [sock EXCEPT ![s] = "joining"]
  /\ UNCHANGED <<vars, uplink, downlink, batches, child, stop, failure, capture, playback, late>>

KillChildren(s) ==
  /\ sock[s] = "killing"
  /\ child' = [child EXCEPT ![s] = {}]
  /\ sock' = [sock EXCEPT ![s] = "joining"]
  /\ UNCHANGED <<vars, uplink, downlink, batches, stop, failure, capture, playback, late>>

\* Seeded fault: the workers are detached instead of joined.
JoinWorkersDetached(s) ==
  /\ sock[s] = "joining"
  /\ sock' = [sock EXCEPT ![s] = "finished"]
  /\ UNCHANGED <<vars, uplink, downlink, batches, child, stop, failure, capture, playback, late>>

JoinWorkers(s) ==
  /\ sock[s] = "joining"
  /\ capture[s] = "done" /\ playback[s] = "done"
  /\ sock' = [sock EXCEPT ![s] = "finished"]
  /\ capture' = [capture EXCEPT ![s] = "none"]
  /\ playback' = [playback EXCEPT ![s] = "none"]
  /\ stop' = [stop EXCEPT ![s] = FALSE]
  /\ failure' = [failure EXCEPT ![s] = "ok"]
  /\ UNCHANGED <<vars, uplink, downlink, batches, child, late>>

ReleaseLease(s) ==
  /\ sock[s] = "finished"
  /\ DropLease(s)
  /\ sock' = [sock EXCEPT ![s] = "none"]
  /\ UNCHANGED <<uplink, downlink, batches, child, stop, failure, capture, playback, late>>

-----------------------------------------------------------------------------
WorkerStep(s) ==
  \/ CaptureCheck(s) \/ CaptureFrame(s) \/ CaptureEnd(s)
  \/ PlaybackCheck(s) \/ PlaybackWritten(s) \/ PlaybackBroken(s)

SocketStep(s) ==
  \/ UpgradeFails(s) \/ ResetUplink(s) \/ ResetDownlink(s) \/ StartLive(s) \/ StartFails(s)
  \/ \E n \in 1..MaxBatch : ReceiveFrames(s, n)
  \/ ReceiveEnd(s)
  \/ PlayoutTick(s) \/ SendDone(s) \/ SendFails(s) \/ CloseSent(s)
  \/ RaiseStop(s) \/ KillChildren(s) \/ JoinWorkers(s) \/ ReleaseLease(s)

LiveNext ==
  \/ SessionStep
  \/ \E s \in Streams :
       \/ SocketStep(s) \/ WorkerStep(s)
       \/ \E c \in {"capture", "playback"} : ChildDies(s, c)

(* Fairness: the daemon's own task steps and threads run; the tick timer   *)
(* fires; a read or write on a pipe whose other end is dead returns; the   *)
(* first message of a connection (a refusal) fits the socket's buffer.     *)
(* Nothing is assumed of the phone, of Android or of a live pw-cat.        *)
DaemonFairness ==
  \A s \in Streams :
    /\ WF_allVars(ResetUplink(s) \/ UpgradeFails(s))
    /\ WF_allVars(ResetDownlink(s))
    /\ WF_allVars(StartLive(s) \/ StartFails(s))
    /\ WF_allVars(sock[s] = "refusing" /\ CloseSent(s))
    /\ WF_allVars(PlayoutTick(s))
    /\ WF_allVars(RaiseStop(s)) /\ WF_allVars(KillChildren(s))
    /\ WF_allVars(JoinWorkers(s)) /\ WF_allVars(ReleaseLease(s))
    /\ WF_allVars(CaptureCheck(s)) /\ WF_allVars(CaptureEnd(s))
    /\ WF_allVars(PlaybackCheck(s)) /\ WF_allVars(PlaybackBroken(s))

\* The peer keeps reading: a message handed to the transport is taken or fails.
PeerResponsive ==
  \A s \in Streams : WF_allVars(SendDone(s) \/ SendFails(s)) /\ WF_allVars(CloseSent(s))

LiveSpec       == LiveInit /\ [][LiveNext]_allVars /\ DaemonFairness
ResponsiveSpec == LiveSpec /\ PeerResponsive

-----------------------------------------------------------------------------
(* Properties.                                                             *)

\* Types, and that a suspended send belongs to a running socket.
LiveTypeOK ==
  /\ uplink \in Seq(Frame) /\ Len(uplink) <= Capacity
  /\ downlink \in Seq(Frame) /\ Len(downlink) <= Capacity
  /\ sock \in [Streams -> {"none", "resetting", "starting", "refusing", "running",
                           "closing", "stopping", "killing", "joining", "finished"}]
  /\ batches \in [Streams -> 0..MaxBatches]
  /\ child \in [Streams -> SUBSET {"capture", "playback"}]
  /\ stop \in [Streams -> BOOLEAN]
  /\ failure \in [Streams -> {"ok", "capture", "playback"}]
  /\ capture \in [Streams -> {"none", "checking", "reading", "done"}]
  /\ playback \in [Streams -> {"none", "checking", "writing", "done"}]
  /\ late_in \in [Streams -> 0..(MaxBatches + 1)] /\ late_out \in [Streams -> 0..(MaxBatches + 1)]
  /\ \A s \in Streams : batches[s] > 0 => sock[s] = "running"

\* The bridge of a stream exists: a worker thread or a pw-cat process of it.
BridgeAlive(s) == capture[s] # "none" \/ playback[s] # "none" \/ child[s] # {}

\* The lease is released last: while a connection's processes or workers exist
\* it still holds its lease, so a reconnect with the same credentials cannot
\* start a second bridge for the same grant beside the first.
BridgeHasLease == \A s \in Streams : BridgeAlive(s) => pc[s] = "leased"

\* No stale audio on reconnect: once a connection has reset the queues, no
\* frame of an earlier connection of the same grant is in them.
NoStaleAudioOnReconnect ==
  \A s \in Streams :
    sock[s] \in {"starting", "running", "closing"} =>
      \A q \in {uplink, downlink} : \A k \in DOMAIN q :
        q[k].grant = session[s] => q[k].from = s

\* Two calls do not mix for long: the queues are the daemon's, so a connection
\* whose grant is being replaced moves audio of one call while the other begins.
\* After the revocation its receive loop queues at most the one message it was
\* waiting for, and its send loop takes at most the messages of one playout tick.
RevokedIsCutOff ==
  \A s \in Streams : late_in[s] <= 1 /\ late_out[s] <= MaxBatches

\* A connection whose grant was replaced gives up its lease.
ReplacedGivesUp ==
  \A s \in Streams :
    (pc[s] = "leased" /\ session[s] \in revoked) ~> (pc[s] # "leased")

\* Once its loops have ended, a connection frees processes, threads and lease:
\* nobody waits for a worker that is blocked on a pipe.
TeardownCompletes ==
  \A s \in Streams : (sock[s] = "stopping") ~> (sock[s] = "none" /\ ~BridgeAlive(s))

\* A worker that reports a failure ends the connection.
FailureEndsConnection ==
  \A s \in Streams : (failure[s] # "ok") ~> (sock[s] = "none")
=============================================================================
