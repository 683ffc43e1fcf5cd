----------------------------- MODULE AncsIngest ------------------------------
(***************************************************************************)
(* Which conversation a received message belongs to: the ANCS ingest of    *)
(* crates/analogconnectd/src/lib.rs, AncsMapCorrelator (ancs_groups.rs)    *)
(* and the group tables of the store (vendor/imsg-store/src/query.rs), on  *)
(* top of MessageSync.                                                     *)
(*                                                                         *)
(* MAP gives a message and its sender; ANCS gives a notification with the  *)
(* sender's name (Title) and the group (Subtitle).  The daemon pairs the   *)
(* two by name and time.  One task ingests notifications one after the     *)
(* other: observe, synchronize, list recent messages, correlate each.  The *)
(* correlator is used by this task alone, so what it does and what is done *)
(* with its result are one step.                                           *)
(*                                                                         *)
(* Every message has one notification, whose uid the model takes to be the *)
(* message itself; a reconnect delivers notifications again.               *)
(***************************************************************************)
EXTENDS MessageSync, SequencesExt

CONSTANTS
  Senders,          \* normalized names
  Groups,           \* normalized, non-empty Subtitles
  Direct,           \* the empty Subtitle
  Inboxes,          \* what the phone may receive: per message its sender and subtitle
  max_delta,        \* of the correlator (15 s), in clock ticks
  RecentWindow,     \* age of the messages considered (30 s)
  ListLimit,        \* messages listed (64)
  SeenLimit,        \* ancs_seen_map_handles (256)
  PendingLimit,     \* notifications, and messages, waiting for a partner (32)
  CompletedLimit,   \* completed_uids (64)
  ChannelCapacity,  \* metadata channel (32)
  MaxDeliveries     \* bound: notifications the phone delivers in all

ASSUME AncsIngestAssumption ==
  /\ Direct \notin Groups /\ None \notin Groups \cup {Direct}
  /\ Inboxes \subseteq [Messages -> [sender : Senders, subtitle : Groups \cup {Direct}]]
  /\ IsFiniteSet(Messages) /\ MaxDeliveries \in Nat
  /\ \A bound \in {ListLimit, SeenLimit, PendingLimit, CompletedLimit, ChannelCapacity} :
       bound \in Nat \ {0}

VARIABLES
  sender, subtitle,  \* phone, per message: who wrote it, and where
  deliveries,        \* phone: notifications it has delivered
  metadata,          \* the channel from the ANCS bearer: uids
  ingest,            \* the ingest task
  observed,          \* observed_unix_millis of the current ingest
  listed,            \* messages the current ingest has still to correlate
  notifications,     \* correlator: sequence of [uid, at]
  messages,          \* correlator: sequence of [handle, at]
  completed_uids,    \* correlator
  seen,              \* ancs_seen_map_handles
  assignment,        \* store, per message: ancs_group_message_assignments
  ambiguous,         \* store: ancs_ambiguous_messages
  conflict,          \* store: groups with identity_conflict
  paired,            \* history: pairs <<uid, handle>> made in this daemon lifetime
  forgotten,         \* history: uids evicted from completed_uids in it
  evicted            \* history: handles evicted from seen in it

inboxVars      == <<sender, subtitle, deliveries>>
correlatorVars == <<notifications, messages, completed_uids, paired, forgotten>>
seenVars       == <<seen, evicted>>
storeVars      == <<assignment, ambiguous, conflict>>
taskVars       == <<ingest, observed, listed>>
ancsVars == <<inboxVars, metadata, taskVars, correlatorVars, seenVars, storeVars>>
vars == <<syncVars, ancsVars>>

IngestInit ==
  /\ SyncInit
  /\ \E inbox \in Inboxes :
       /\ sender = [m \in Messages |-> inbox[m].sender]
       /\ subtitle = [m \in Messages |-> inbox[m].subtitle]
  /\ deliveries = 0 /\ metadata = <<>>
  /\ ingest = "idle" /\ observed = 0 /\ listed = <<>>
  /\ notifications = <<>> /\ messages = <<>> /\ completed_uids = <<>>
  /\ seen = <<>>
  /\ assignment = [m \in Messages |-> None]
  /\ ambiguous = {} /\ conflict = {}
  /\ paired = {} /\ forgotten = {} /\ evicted = {}

\* Seeded fault: one element too many stays.
PushBoundedLate(q, x, limit) ==
  IF Len(q) > limit THEN Tail(Append(q, x)) ELSE Append(q, x)

\* Push at the back, then pop from the front down to the limit.
PushBounded(q, x, limit) ==
  LET all == Append(q, x) IN
  IF Len(all) > limit THEN Tail(all) ELSE all

-----------------------------------------------------------------------------
(* The store.                                                              *)

\* Seeded fault: later evidence replaces the assignment.
AssignGroupOverwrites(m, g) ==
  /\ assignment' = [assignment EXCEPT ![m] = g]
  /\ conversation_key' = [conversation_key EXCEPT ![m] = g]
  /\ ambiguous' = ambiguous \ {m}
  /\ UNCHANGED conflict

\* assign_ancs_group: one transaction.
AssignGroup(m, g) ==
  \/ /\ assignment[m] \notin {None, g}
     /\ conflict' = conflict \cup {assignment[m], g}
     /\ UNCHANGED <<assignment, conversation_key, ambiguous>>
  \/ /\ assignment[m] \in {None, g}
     /\ assignment' = [assignment EXCEPT ![m] = g]
     /\ conversation_key' = [conversation_key EXCEPT ![m] = g]
     /\ ambiguous' = ambiguous \ {m}
     /\ UNCHANGED conflict

\* apply_correlation of a pair: a group, or a direct message.
ApplyPair(u, m) ==
  \/ subtitle[u] # Direct /\ AssignGroup(m, subtitle[u])
  \/ /\ subtitle[u] = Direct
     /\ ambiguous' = ambiguous \ {m}
     /\ UNCHANGED <<assignment, conversation_key, conflict>>

\* apply_correlation of Ambiguous marks one message after the other.
MarkAmbiguous(handles) ==
  /\ ambiguous' = ambiguous \cup handles
  /\ UNCHANGED <<assignment, conversation_key, conflict>>

\* The store refuses: the correlator has changed, the store has not.
ApplyFails == UNCHANGED <<storeVars, conversation_key>>

-----------------------------------------------------------------------------
(* The correlator.                                                         *)

\* AncsMapCorrelator::matches.
Matches(n, w) ==
  LET delta == n.at - w.at IN
  /\ delta <= max_delta /\ -delta <= max_delta
  /\ sender[n.uid] = sender[w.handle]

\* Seeded fault: a resolved notification is not remembered.
CompleteForgets(u, m) ==
  /\ UNCHANGED <<completed_uids, forgotten>>
  /\ paired' = paired \cup {<<u, m>>}

\* remember_completed, for the pair that was found.
Complete(u, m) ==
  /\ completed_uids' = PushBounded(completed_uids, u, CompletedLimit)
  /\ forgotten' = IF Len(completed_uids) = CompletedLimit
                  THEN forgotten \cup {Head(completed_uids)} ELSE forgotten
  /\ paired' = paired \cup {<<u, m>>}

\* observe_ancs, when the notification is new and has several or no partners.
Wait(n, candidates) ==
  /\ notifications' = PushBounded(notifications, n, PendingLimit)
  /\ \/ candidates = {} /\ UNCHANGED <<storeVars, conversation_key>> /\ ingest' = "observed"
     \/ /\ Cardinality(candidates) > 1
        /\ LET handles == {messages[k].handle : k \in candidates} IN
           \/ MarkAmbiguous(handles) /\ ingest' = "observed"
           \/ \E marked \in SUBSET handles : marked # handles /\ MarkAmbiguous(marked)
                                            /\ ingest' = "idle"
  /\ UNCHANGED <<messages, completed_uids, paired, forgotten>>

\* The ingest task takes the next notification: observe_ancs and its result.
Observe ==
  LET u == Head(metadata)
      n == [uid |-> u, at |-> now]
      known == {k \in DOMAIN notifications : notifications[k].uid = u}
      candidates == {k \in DOMAIN messages : Matches(n, messages[k])}
  IN  /\ ingest = "idle" /\ metadata # <<>>
      /\ metadata' = Tail(metadata)
      /\ observed' = now
      /\ \/ /\ \E k \in DOMAIN completed_uids : completed_uids[k] = u
            /\ ingest' = "observed"
            /\ UNCHANGED <<correlatorVars, storeVars, conversation_key>>
         \/ /\ u \notin ToSet(completed_uids) /\ known # {}
            /\ notifications' = [k \in DOMAIN notifications |->
                                   IF k \in known THEN n ELSE notifications[k]]
            /\ ingest' = "observed"
            /\ UNCHANGED <<messages, completed_uids, paired, forgotten, storeVars, conversation_key>>
         \/ /\ u \notin ToSet(completed_uids) /\ known = {}
            /\ \/ /\ Cardinality(candidates) = 1
                  /\ \E k \in candidates :
                       /\ messages' = RemoveAt(messages, k)
                       /\ Complete(u, messages[k].handle)
                       /\ \/ ApplyPair(u, messages[k].handle) /\ ingest' = "observed"
                          \/ ApplyFails /\ ingest' = "idle"
                  /\ UNCHANGED notifications
               \/ Cardinality(candidates) # 1 /\ Wait(n, candidates)
      /\ UNCHANGED <<now, phoneVars, synced_at, highest_ts, schedulerVars, state, imsgVars,
                     inboxVars, listed, seenVars>>

-----------------------------------------------------------------------------
(* The rest of ingest_ancs_metadata.                                       *)

NotifyCoordinator ==
  /\ ingest = "observed"
  /\ Notification
  /\ ingest' = "syncing"
  /\ UNCHANGED <<inboxVars, metadata, observed, listed, correlatorVars, seenVars, storeVars>>

\* The coordinator returns; on an error nothing is correlated.
SyncReturns ==
  /\ ingest = "syncing"
  /\ \/ SyncSucceeds("ingest") /\ ingest' = "listing"
     \/ SyncFails("ingest") /\ ingest' = "idle"
  /\ UNCHANGED <<inboxVars, metadata, observed, listed, correlatorVars, seenVars, storeVars>>

Rows == {m \in Messages : synced_at[m] # None}

\* The timestamp of a row, which an upsert of the same message does not change.
RowTime(m) == TimestampMs(m, synced_at[m])

Recent(m) ==
  /\ synced_at[m] - observed <= RecentWindow /\ observed - synced_at[m] <= RecentWindow

\* list_messages: the newest rows first, or an error; the old ones are passed over.
ListRecent ==
  /\ ingest = "listing"
  /\ \/ /\ \E newest \in SUBSET Rows : \E order \in SetToSeqs({m \in newest : Recent(m)}) :
            /\ Cardinality(newest) <= ListLimit
            /\ newest = Rows \/ Cardinality(newest) = ListLimit
            /\ \A m \in newest, older \in Rows \ newest : RowTime(m) >= RowTime(older)
            /\ \A j, k \in DOMAIN order : j < k => RowTime(order[j]) >= RowTime(order[k])
            /\ listed' = order
        /\ ingest' = "correlating"
     \/ ingest' = "idle" /\ UNCHANGED listed
  /\ UNCHANGED <<syncVars, inboxVars, metadata, observed, correlatorVars, seenVars, storeVars>>

\* ancs_seen_map_handles: the message was not handled before.
Unseen(m) == m \notin ToSet(seen)

See(m) ==
  /\ seen' = PushBounded(seen, m, SeenLimit)
  /\ evicted' = IF Len(seen) = SeenLimit THEN evicted \cup {Head(seen)} ELSE evicted

\* A message that was handled before, or the contact lookup fails: the message
\* counts as seen all the same.
PassOver ==
  /\ ingest = "correlating" /\ listed # <<>>
  /\ \/ /\ ~Unseen(Head(listed))
        /\ listed' = Tail(listed)
        /\ UNCHANGED <<seenVars, ingest>>
     \/ /\ Unseen(Head(listed))
        /\ See(Head(listed))
        /\ listed' = <<>>
        /\ ingest' = "idle"
  /\ UNCHANGED <<syncVars, inboxVars, metadata, observed, correlatorVars, storeVars>>

\* correlate_map of the next message, and its result.
Correlate ==
  LET m == Head(listed)
      w == [handle |-> m, at |-> synced_at[m]]
      candidates == {k \in DOMAIN notifications : Matches(notifications[k], w)}
      Proceed(applied) == /\ ingest' = IF applied THEN ingest ELSE "idle"
                          /\ listed' = IF applied THEN Tail(listed) ELSE <<>>
  IN  /\ ingest = "correlating" /\ listed # <<>> /\ Unseen(m)
      /\ See(m)
      /\ \/ /\ Cardinality(candidates) = 1
            /\ \E k \in candidates :
                 /\ notifications' = RemoveAt(notifications, k)
                 /\ Complete(notifications[k].uid, m)
                 /\ \/ ApplyPair(notifications[k].uid, m) /\ Proceed(TRUE)
                    \/ ApplyFails /\ Proceed(FALSE)
            /\ UNCHANGED messages
         \/ /\ candidates = {}
            /\ messages' = IF \E k \in DOMAIN messages : messages[k].handle = m
                           THEN messages ELSE PushBounded(messages, w, PendingLimit)
            /\ Proceed(TRUE)
            /\ UNCHANGED <<notifications, completed_uids, paired, forgotten,
                           storeVars, conversation_key>>
         \/ /\ Cardinality(candidates) > 1
            /\ \/ MarkAmbiguous({m}) /\ Proceed(TRUE)
               \/ ApplyFails /\ Proceed(FALSE)
            /\ UNCHANGED correlatorVars
      /\ UNCHANGED <<now, phoneVars, synced_at, highest_ts, schedulerVars, state, imsgVars,
                     inboxVars, metadata, observed>>

IngestDone ==
  /\ ingest = "correlating" /\ listed = <<>>
  /\ ingest' = "idle"
  /\ UNCHANGED <<syncVars, inboxVars, metadata, observed, listed, correlatorVars,
                 seenVars, storeVars>>

-----------------------------------------------------------------------------
\* The bearer hands over the notification of a message, the first time or after
\* a reconnect; a full channel ends its session instead.
Deliver(m) ==
  /\ datetime[m] # None
  /\ deliveries < MaxDeliveries /\ deliveries' = deliveries + 1
  /\ Len(metadata) < ChannelCapacity
  /\ metadata' = Append(metadata, m)
  /\ UNCHANGED <<syncVars, sender, subtitle, taskVars, correlatorVars, seenVars, storeVars>>

\* The daemon restarts, and with it its imsg processes; the store stays.
Restart ==
  /\ mode' = "polling" /\ last_notification_at' = None /\ next_poll_at' = now
  /\ state' = "idle"
  /\ syncing' = {}
  /\ stamp' = [a \in Actors |-> 0]
  /\ fetched' = [a \in Actors |-> {}]
  /\ highest_ts_seen' = [a \in Actors |-> -1]
  /\ metadata' = <<>> /\ seen' = <<>>
  /\ ingest' = "idle" /\ observed' = 0 /\ listed' = <<>>
  /\ notifications' = <<>> /\ messages' = <<>> /\ completed_uids' = <<>>
  /\ paired' = {} /\ forgotten' = {} /\ evicted' = {}
  /\ UNCHANGED <<now, phoneVars, rowVars, highest_ts, inboxVars, storeVars>>

SyncStep ==
  /\ \/ Tick \/ TaskTick
     \/ \E m \in Messages : Receive(m)
     \/ SyncSucceeds("task") \/ SyncFails("task")
  /\ UNCHANGED ancsVars

IngestStep ==
  \/ Observe \/ NotifyCoordinator \/ SyncReturns
  \/ ListRecent \/ PassOver \/ Correlate \/ IngestDone

Next == SyncStep \/ IngestStep \/ Restart \/ \E m \in Messages : Deliver(m)

Spec == IngestInit /\ [][Next]_vars

-----------------------------------------------------------------------------
(* Properties.                                                             *)

\* Types; the bounded collections keep their limits.
IngestTypeOK ==
  /\ SyncTypeOK
  /\ conversation_key \in [Messages -> Groups \cup {Private, None}]
  /\ metadata \in Seq(Messages) /\ Len(metadata) <= ChannelCapacity
  /\ ingest \in {"idle", "observed", "syncing", "listing", "correlating"}
  /\ observed \in 0..MaxTime
  /\ listed \in Seq(Messages) /\ Len(listed) <= ListLimit
  /\ notifications \in Seq([uid : Messages, at : 0..MaxTime])
  /\ messages \in Seq([handle : Messages, at : 0..MaxTime])
  /\ Len(notifications) <= PendingLimit /\ Len(messages) <= PendingLimit
  /\ completed_uids \in Seq(Messages) /\ Len(completed_uids) <= CompletedLimit
  /\ seen \in Seq(Messages) /\ Len(seen) <= SeenLimit
  /\ deliveries \in 0..MaxDeliveries
  /\ assignment \in [Messages -> Groups \cup {None}]
  /\ ambiguous \subseteq Messages /\ conflict \subseteq Groups
  /\ paired \subseteq Messages \X Messages
  /\ forgotten \subseteq Messages /\ evicted \subseteq Messages

\* A notification resolves one message, and a message is resolved by one, in
\* whatever order they come and however often they are delivered or listed again,
\* as long as the uid, or the handle, is remembered.
PairedOnce ==
  \A p, q \in paired :
    \/ p = q
    \/ /\ p[1] = q[1] => p[1] \in forgotten
       /\ p[2] = q[2] => p[2] \in evicted

\* Conflicting evidence, also after a restart, never rewrites an assignment.
AssignmentIsStable ==
  [][\A m \in Messages : assignment[m] # None => assignment'[m] = assignment[m]]_vars

\* docs/current-state.md: the correlator "rejects stale/competing candidates as
\* ambiguous, and atomically applies only proven groups": a message is assigned
\* to the group it was written in.
OnlyProvenGroups ==
  \A m \in Messages : assignment[m] # None => assignment[m] = subtitle[m]
=============================================================================
