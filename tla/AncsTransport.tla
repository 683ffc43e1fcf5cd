---------------------------- MODULE AncsTransport ----------------------------
(***************************************************************************)
(* The ANCS bearer: AncsProtocolConsumer and AncsSupervisor                *)
(* (crates/analogconnectd/src/ancs_transport.rs) and the BlueZ session     *)
(* that drives them (ancs_bluez.rs).                                       *)
(*                                                                         *)
(* The phone announces notifications on the Notification Source; for each  *)
(* the bearer writes a request to the Control Point and the phone answers  *)
(* with fragments on the Data Source.  The bearer selects between the two  *)
(* streams, and writes a request before it selects again, so what it does  *)
(* with one value is one step.  Metadata goes to the ingest through a      *)
(* bounded channel; when it is full the session ends.                      *)
(*                                                                         *)
(* A fragment carries the answer it belongs to: whose attributes it holds, *)
(* its place, and how many there are.  Left out: values that do not parse  *)
(* as events, notification actions (no caller) and shutdown (never asked). *)
(***************************************************************************)
EXTENDS Integers, Sequences, SequencesExt, FiniteSets

CONSTANTS
  Uids,            \* notifications
  MessageUids,     \* those of the Messages app
  None,            \* no request is pending
  AnswerLengths,   \* fragments an answer may have
  MaxResponse,     \* fragments held (MAX_RESPONSE_BYTES, 4096 bytes)
  QueueLimit,      \* queued (32)
  CompletedLimit,  \* completed (64)
  ChannelCapacity, \* metadata channel (32)
  MaxFailures,     \* failures counted by the backoff (6)
  SourceLimit      \* bound: events in the Notification Source stream

ASSUME AncsTransportAssumption ==
  /\ MessageUids \subseteq Uids /\ None \notin Uids
  /\ \A bound \in {MaxResponse, QueueLimit, CompletedLimit, ChannelCapacity,
                   MaxFailures, SourceLimit} : bound \in Nat \ {0}

\* attribute_request asks for at most 256 bytes of title and of subtitle, and for
\* short attributes, so that an answer is far below MAX_RESPONSE_BYTES; the model
\* allows it one fragment more than is held.
ASSUME AnswerLengthsAssumption == AnswerLengths \subseteq 1..(MaxResponse + 1)

VARIABLES
  standing,        \* phone: the notifications it shows
  source, data,    \* the two GATT streams: events, fragments
  link,            \* SupervisorState, and the bearer's wait before a retry
  failures,        \* ReconnectBackoff
  queued, completed, pending, response,  \* AncsProtocolConsumer
  output,          \* the metadata channel: [uid, of], `of` whose attributes it has
  handed,          \* history: per uid, how often handed over in this session (up to 2)
  forgotten        \* history: uids evicted from completed in this session

protocolVars == <<queued, completed, pending, response, handed, forgotten>>
streamVars   == <<source, data>>
vars == <<standing, streamVars, link, failures, protocolVars, output>>

\* AncsProtocolConsumer::default.
FreshProtocol ==
  /\ queued' = <<>> /\ completed' = <<>> /\ pending' = None /\ response' = <<>>
  /\ handed' = [u \in Uids |-> 0] /\ forgotten' = {}

Init ==
  /\ standing = {} /\ source = <<>> /\ data = <<>>
  /\ link = "disconnected" /\ failures = 0
  /\ queued = <<>> /\ completed = <<>> /\ pending = None /\ response = <<>>
  /\ output = <<>>
  /\ handed = [u \in Uids |-> 0] /\ forgotten = {}

-----------------------------------------------------------------------------
(* The phone (external).                                                   *)

Subscribed == link \in {"subscribing_data_source", "ready"}

\* The event is sent to a subscriber.
Announce(kind, u) ==
  \/ ~Subscribed /\ UNCHANGED source
  \/ /\ Subscribed /\ Len(source) < SourceLimit
     /\ source' = Append(source, [kind |-> kind, uid |-> u])

Post(u) ==
  /\ Announce("added", u)
  /\ standing' = standing \cup {u}
  /\ UNCHANGED <<data, link, failures, protocolVars, output>>

Modify(u) ==
  /\ u \in standing /\ Subscribed
  /\ Announce("modified", u)
  /\ UNCHANGED <<standing, data, link, failures, protocolVars, output>>

Dismiss(u) ==
  /\ u \in standing
  /\ Announce("removed", u)
  /\ standing' = standing \ {u}
  /\ UNCHANGED <<data, link, failures, protocolVars, output>>

\* It answers a request with some number of fragments, after the ones under way.
Answer(u, stream) ==
  \E n \in AnswerLengths :
    data' = stream \o [k \in 1..n |-> [of |-> u, part |-> k, parts |-> n]]

-----------------------------------------------------------------------------
(* The bearer's session.                                                   *)

\* Configuration, BlueZ and discovery succeed; connected() makes a fresh
\* protocol.
Connect ==
  /\ link = "disconnected"
  /\ link' = "subscribing_notification_source"
  /\ FreshProtocol
  /\ UNCHANGED <<standing, streamVars, failures, output>>

\* The phone announces what it shows to a new subscriber, in any order.
SubscribeNotificationSource ==
  /\ link = "subscribing_notification_source"
  /\ link' = "subscribing_data_source"
  /\ \E all \in SetToSeqs(standing) :
       source' = [k \in DOMAIN all |-> [kind |-> "added", uid |-> all[k]]]
  /\ UNCHANGED <<standing, data, failures, protocolVars, output>>

SubscribeDataSource ==
  /\ link = "subscribing_data_source"
  /\ link' = "ready"
  /\ failures' = 0
  /\ UNCHANGED <<standing, streamVars, protocolVars, output>>

\* The session returns an error: the streams are dropped, disconnected() makes
\* a fresh protocol and the bearer waits 2^failures seconds.
EndSession ==
  /\ link' = "backing_off"
  /\ failures' = IF failures < MaxFailures THEN failures + 1 ELSE failures
  /\ source' = <<>> /\ data' = <<>>
  /\ FreshProtocol

\* A lost link, an operation that fails or times out, at any point.
SessionFails ==
  /\ link # "backing_off"
  /\ EndSession
  /\ UNCHANGED <<standing, output>>

Retry ==
  /\ link = "backing_off"
  /\ link' = "disconnected"
  /\ UNCHANGED <<standing, streamVars, failures, protocolVars, output>>

-----------------------------------------------------------------------------
(* AncsProtocolConsumer::notification_source.                              *)

Known(u) == u \in ToSet(completed) \/ pending = u \/ u \in ToSet(queued)

\* Seeded fault: a request is sent although another one is pending.
AskBusy(u) ==
  /\ pending' = u /\ response' = <<>>
  /\ Answer(u, data)
  /\ UNCHANGED <<queued, completed, handed, forgotten>>

Ask(u) ==
  /\ pending = None
  /\ pending' = u /\ response' = <<>>
  /\ Answer(u, data)
  /\ UNCHANGED <<queued, completed, handed, forgotten>>

\* Seeded fault: the queue is full one entry too late.
EnqueueLate(u) ==
  /\ pending # None
  /\ queued' = IF Len(queued) <= QueueLimit THEN Append(queued, u) ELSE queued
  /\ UNCHANGED <<data, completed, pending, response, handed, forgotten>>

\* Beyond the limit the announcement is lost.
Enqueue(u) ==
  /\ pending # None
  /\ queued' = IF Len(queued) < QueueLimit THEN Append(queued, u) ELSE queued
  /\ UNCHANGED <<data, completed, pending, response, handed, forgotten>>

\* retain: a uid is queued once, if at all.
Dequeue(u) ==
  \/ u \notin ToSet(queued) /\ UNCHANGED queued
  \/ \E k \in DOMAIN queued : queued[k] = u /\ queued' = RemoveAt(queued, k)

NotificationSource ==
  LET event == Head(source)
      u == event.uid
  IN  /\ link = "ready" /\ source # <<>>
      /\ source' = Tail(source)
      /\ \/ /\ event.kind = "removed"
            /\ Dequeue(u)
            /\ UNCHANGED <<data, completed, pending, response, handed, forgotten>>
         \/ /\ event.kind # "removed" /\ Known(u)
            /\ UNCHANGED <<data, protocolVars>>
         \/ event.kind # "removed" /\ ~Known(u) /\ (Ask(u) \/ Enqueue(u))
      /\ UNCHANGED <<standing, link, failures, output>>

-----------------------------------------------------------------------------
(* AncsProtocolConsumer::data_source.                                      *)

\* start_next: the oldest queued uid is asked for.  `rest` is what is left of
\* the stream.
StartNext(rest) ==
  /\ response' = <<>>
  /\ \/ /\ queued = <<>>
        /\ pending' = None /\ data' = rest
        /\ UNCHANGED queued
     \/ /\ queued # <<>>
        /\ pending' = Head(queued) /\ queued' = Tail(queued)
        /\ Answer(Head(queued), rest)

\* parse_attributes: the fragments held are one whole answer.
Parses(fragments) ==
  /\ Len(fragments) = fragments[1].parts
  /\ \A k \in DOMAIN fragments : fragments[k].part = k /\ fragments[k].of = fragments[1].of

\* Seeded fault: a completed uid is not remembered.
CompletePendingForgets ==
  /\ UNCHANGED <<completed, forgotten>>
  /\ handed' = IF pending \in MessageUids /\ handed[pending] < 2
               THEN [handed EXCEPT ![pending] = @ + 1] ELSE handed

\* The pending uid is completed, the oldest beyond the limit forgotten.
CompletePending ==
  LET all == Append(completed, pending) IN
  /\ completed' = IF Len(all) > CompletedLimit THEN Tail(all) ELSE all
  /\ forgotten' = IF Len(all) > CompletedLimit THEN forgotten \cup {Head(all)} ELSE forgotten
  /\ handed' = IF pending \in MessageUids /\ handed[pending] < 2
               THEN [handed EXCEPT ![pending] = @ + 1] ELSE handed

\* Seeded fault: a fragment too many is dropped and the request kept.
AbandonNothing ==
  /\ link = "ready" /\ data # <<>>
  /\ pending = None \/ Len(response) = MaxResponse
  /\ data' = Tail(data)
  /\ UNCHANGED <<standing, source, link, failures, protocolVars, output>>

\* The fragment has no request, or one too many: the request is abandoned.
Abandon ==
  /\ link = "ready" /\ data # <<>>
  /\ pending = None \/ Len(response) = MaxResponse
  /\ StartNext(Tail(data))
  /\ UNCHANGED <<standing, source, link, failures, completed, handed, forgotten, output>>

\* The fragment is not the last.
Collect ==
  LET held == Append(response, Head(data)) IN
  /\ link = "ready" /\ data # <<>>
  /\ pending # None /\ Len(response) < MaxResponse
  /\ ~Parses(held)
  /\ response' = held
  /\ data' = Tail(data)
  /\ UNCHANGED <<standing, source, link, failures, queued, completed, pending, handed,
                 forgotten, output>>

\* It is the last: a message's metadata is handed over under the pending uid, and
\* the next request written; when the channel is full the session ends.
Resolve ==
  LET held == Append(response, Head(data))
      message == held[1].of \in MessageUids
  IN  /\ link = "ready" /\ data # <<>>
      /\ pending # None /\ Len(response) < MaxResponse
      /\ Parses(held)
      /\ \/ /\ ~message \/ Len(output) < ChannelCapacity
            /\ output' = IF message THEN Append(output, [uid |-> pending, of |-> held[1].of])
                         ELSE output
            /\ CompletePending
            /\ StartNext(Tail(data))
            /\ UNCHANGED <<source, link, failures>>
         \/ /\ message /\ Len(output) = ChannelCapacity
            /\ EndSession
            /\ UNCHANGED output
      /\ UNCHANGED standing

\* The ingest takes the next metadata.
Receive ==
  /\ output # <<>>
  /\ output' = Tail(output)
  /\ UNCHANGED <<standing, streamVars, link, failures, protocolVars>>

-----------------------------------------------------------------------------
PhoneStep == \E u \in Uids : Post(u) \/ Modify(u) \/ Dismiss(u)

SessionStep ==
  \/ Connect \/ SubscribeNotificationSource \/ SubscribeDataSource
  \/ SessionFails \/ Retry

ReadyStep == NotificationSource \/ Abandon \/ Collect \/ Resolve

Next == PhoneStep \/ SessionStep \/ ReadyStep \/ Receive

\* Tokio's select polls both streams in random order, so neither starves.
Fairness ==
  /\ WF_vars(NotificationSource) /\ WF_vars(Abandon \/ Collect \/ Resolve)
  /\ WF_vars(Retry) /\ WF_vars(Receive)

Spec == Init /\ [][Next]_vars /\ Fairness

-----------------------------------------------------------------------------
(* Properties.                                                             *)

\* Types; queues, channel and backoff keep their limits, and a bearer that is
\* not ready has asked for nothing.
TypeOK ==
  /\ standing \subseteq Uids
  /\ source \in Seq([kind : {"added", "modified", "removed"}, uid : Uids])
  /\ data \in Seq([of : Uids, part : Nat, parts : AnswerLengths])
  /\ link \in {"disconnected", "subscribing_notification_source",
               "subscribing_data_source", "ready", "backing_off"}
  /\ failures \in 0..MaxFailures
  /\ queued \in Seq(Uids) /\ Len(queued) <= QueueLimit
  /\ completed \in Seq(Uids) /\ Len(completed) <= CompletedLimit
  /\ pending \in Uids \cup {None}
  /\ response \in Seq([of : Uids, part : Nat, parts : AnswerLengths])
  /\ handed \in [Uids -> 0..2] /\ forgotten \subseteq Uids
  /\ output \in Seq([uid : MessageUids, of : MessageUids]) /\ Len(output) <= ChannelCapacity
  /\ link # "ready" => pending = None /\ data = <<>>

\* The metadata's uid is taken from the request, not from the answer: whatever
\* is announced, removed or abandoned in between, they agree.
MetadataIsOwn == \A k \in DOMAIN output : output[k].uid = output[k].of

\* Within a session a notification that is announced again (modified, or posted
\* again under its uid) is not handed over again while it is remembered.
NoReplayInSession == \A u \in Uids : handed[u] > 1 => u \in forgotten

\* A queued notification is asked for, removed, or its session ends: oversized
\* answers and a full channel do not block the queue.
QueuedIsServed ==
  \A u \in Uids : u \in ToSet(queued) ~> u \notin ToSet(queued)
=============================================================================
