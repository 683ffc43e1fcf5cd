----------------------------- MODULE MessageSync -----------------------------
(***************************************************************************)
(* Bringing messages from the phone into the store: MessageSyncScheduler   *)
(* and MessageSyncCoordinator (crates/analogconnectd/src/messages.rs), the *)
(* `imsg sync` they run (vendor/imsg-session/src/sync.rs) and the rows it  *)
(* writes (vendor/imsg-store/src/query.rs).                                *)
(*                                                                         *)
(* Two actors synchronize, and may overlap: the daemon's 30 s task and the *)
(* ingest of a notification.  The coordinator holds no lock while imsg     *)
(* runs.  A sync is two steps: imsg is started, reads the cursor and lists *)
(* the inbox; later it has written its rows and the cursor, or failed      *)
(* somewhere on the way, and the coordinator notes the outcome.            *)
(*                                                                         *)
(* Messages are compared with the cursor by the phone's datetime, which is *)
(* local, to the second, read without its zone, and may be absent: it has  *)
(* nothing to do with the order of arrival or with the daemon's clock.     *)
(***************************************************************************)
EXTENDS Integers, FiniteSetsExt

CONSTANTS
  Messages,             \* received messages, by MAP handle
  None,                 \* not there
  Undated,              \* the datetime of an entry is absent or malformed
  Datetimes,            \* per message: the datetimes the phone may list it with
  Private,              \* conversation key of the participants
  poll_interval,        \* of the scheduler (30 s), in clock ticks
  notification_timeout, \* of the scheduler (90 s)
  MaxTime               \* bound: the clock stops here

ASSUME MessageSyncAssumption ==
  /\ poll_interval \in Nat /\ notification_timeout \in Nat /\ MaxTime \in Nat
  /\ None \notin 0..MaxTime \cup {Undated} /\ Undated \notin 0..MaxTime
  /\ Datetimes \in [Messages -> SUBSET (0..MaxTime \cup {Undated})]

Actors == {"task", "ingest"}

VARIABLES
  now,                  \* the clock
  datetime,             \* phone, per message: in its listing entry, None if not received
  overtaken,            \* history: messages received behind a cursor
  synced_at,            \* store, per message: when its row was inserted, or None
  conversation_key,     \* store, per message
  highest_ts,           \* store: the inbox cursor, -1 if never written
  mode, last_notification_at, next_poll_at,  \* the scheduler
  state,                \* MessageSyncSummary.state
  syncing,              \* the actors whose imsg runs
  stamp,                \* per actor: the synced_at of its imsg process
  fetched,              \* per actor: the messages its imsg has listed
  highest_ts_seen       \* per actor: the cursor its imsg will write

phoneVars     == <<datetime, overtaken>>
rowVars       == <<synced_at, conversation_key>>
schedulerVars == <<mode, last_notification_at, next_poll_at>>
imsgVars      == <<syncing, stamp, fetched, highest_ts_seen>>
syncVars == <<now, phoneVars, rowVars, highest_ts, schedulerVars, state, imsgVars>>

SyncInit ==
  /\ now = 0
  /\ datetime = [m \in Messages |-> None] /\ overtaken = {}
  /\ synced_at = [m \in Messages |-> None]
  /\ conversation_key = [m \in Messages |-> None]
  /\ highest_ts = -1
  /\ mode = "polling" /\ last_notification_at = None /\ next_poll_at = 0
  /\ state = "idle"
  /\ syncing = {}
  /\ stamp = [a \in Actors |-> 0]
  /\ fetched = [a \in Actors |-> {}]
  /\ highest_ts_seen = [a \in Actors |-> -1]

Tick ==
  /\ now < MaxTime
  /\ now' = now + 1
  /\ UNCHANGED <<phoneVars, rowVars, highest_ts, schedulerVars, state, imsgVars>>

\* A message of this datetime would be older than the cursor, or than the one an
\* imsg under way is going to write.
Behind(d) ==
  /\ d # Undated
  /\ d < highest_ts \/ \E a \in syncing : d < highest_ts_seen[a]

\* The phone receives a message and lists it with some datetime (external).
Receive(m) ==
  /\ datetime[m] = None
  /\ \E d \in Datetimes[m] :
       /\ datetime' = [datetime EXCEPT ![m] = d]
       /\ overtaken' = IF Behind(d) THEN overtaken \cup {m} ELSE overtaken
  /\ UNCHANGED <<now, rowVars, highest_ts, schedulerVars, state, imsgVars>>

-----------------------------------------------------------------------------
(* MessageSyncState::transition_to: what it is afterwards, allowed or not. *)

Allowed(from, to) ==
  \/ from = to
  \/ from = "idle" /\ to \in {"syncing", "error"}
  \/ from = "syncing" /\ to \in {"idle", "backing_off", "error"}
  \/ from = "backing_off" /\ to \in {"syncing", "idle", "error"}
  \/ from = "error" /\ to \in {"idle", "backing_off"}

TransitionTo(to) == state' = IF Allowed(state, to) THEN to ELSE state

\* Seeded fault: an entry as old as the cursor counts as known.
SinceExclusive(m) ==
  datetime[m] # None /\ (datetime[m] = Undated \/ datetime[m] > highest_ts)

\* fetch_folder: entries older than the cursor are skipped, undated ones never.
Since(m) ==
  datetime[m] # None /\ (datetime[m] = Undated \/ datetime[m] >= highest_ts)

\* FetchedMessage::from_entry: an undated entry gets the time of the imsg process.
TimestampMs(m, at) == IF datetime[m] = Undated THEN at ELSE datetime[m]

\* The first half of synchronize; imsg reads the cursor and lists the inbox.
StartSync(a) ==
  LET new == {m \in Messages : Since(m)} IN
  /\ TransitionTo("syncing")
  /\ syncing' = syncing \cup {a}
  /\ stamp' = [stamp EXCEPT ![a] = now]
  /\ fetched' = [fetched EXCEPT ![a] = new]
  /\ highest_ts_seen' = [highest_ts_seen EXCEPT ![a] =
                           Max({0, highest_ts} \cup {TimestampMs(m, now) : m \in new})]

\* MessageSyncCoordinator::tick, called by the task.
TaskTick ==
  LET silent == last_notification_at # None
                /\ now - last_notification_at >= notification_timeout
      m == IF silent THEN "polling" ELSE mode
  IN  /\ "task" \notin syncing
      /\ mode' = m
      /\ \/ /\ m = "polling" /\ now >= next_poll_at
            /\ next_poll_at' = now + poll_interval
            /\ StartSync("task")
         \/ /\ m # "polling" \/ now < next_poll_at
            /\ UNCHANGED <<next_poll_at, state, imsgVars>>
      /\ UNCHANGED <<now, phoneVars, rowVars, highest_ts, last_notification_at>>

\* MessageSyncCoordinator::notification of a NewMessage.
Notification ==
  /\ "ingest" \notin syncing
  /\ mode' = "notifications"
  /\ last_notification_at' = now
  /\ next_poll_at' = now + poll_interval
  /\ StartSync("ingest")
  /\ UNCHANGED <<now, phoneVars, rowVars, highest_ts>>

-----------------------------------------------------------------------------
(* The end of imsg sync, and the second half of synchronize.               *)

\* Store::upsert: a new row, or the conversation key of the existing one.
Upsert(a, written) ==
  /\ synced_at' = [m \in Messages |->
                     IF m \in written /\ synced_at[m] = None THEN stamp[a] ELSE synced_at[m]]
  /\ conversation_key' = [m \in Messages |->
                            IF m \in written THEN Private ELSE conversation_key[m]]

ImsgExits(a) ==
  /\ a \in syncing
  /\ syncing' = syncing \ {a}
  /\ stamp' = [stamp EXCEPT ![a] = 0]
  /\ fetched' = [fetched EXCEPT ![a] = {}]
  /\ highest_ts_seen' = [highest_ts_seen EXCEPT ![a] = -1]

\* Every row is written, then the cursor, which is overwritten also when another
\* imsg has moved it further; the sent folder is done as well.
SyncSucceeds(a) ==
  /\ ImsgExits(a)
  /\ Upsert(a, fetched[a])
  /\ highest_ts' = highest_ts_seen[a]
  /\ TransitionTo("idle")
  /\ UNCHANGED <<now, phoneVars, schedulerVars>>

\* Seeded fault: a failed sync returns without leaving Syncing.
SyncFailsEarly(a) ==
  /\ ImsgExits(a)
  /\ \E written \in SUBSET fetched[a] : Upsert(a, written)
  /\ UNCHANGED <<now, phoneVars, highest_ts, schedulerVars, state>>

\* imsg fails on the inbox, with some rows written but not the cursor, or on the
\* sent folder, with the inbox done.
SyncFails(a) ==
  /\ ImsgExits(a)
  /\ \/ \E written \in SUBSET fetched[a] : Upsert(a, written) /\ UNCHANGED highest_ts
     \/ Upsert(a, fetched[a]) /\ highest_ts' = highest_ts_seen[a]
  /\ TransitionTo("backing_off")
  /\ UNCHANGED <<now, phoneVars, schedulerVars>>

-----------------------------------------------------------------------------
(* Properties.                                                             *)

SyncTypeOK ==
  /\ now \in 0..MaxTime
  /\ datetime \in [Messages -> 0..MaxTime \cup {Undated, None}]
  /\ overtaken \subseteq Messages
  /\ synced_at \in [Messages -> 0..MaxTime \cup {None}]
  /\ highest_ts \in -1..MaxTime
  /\ mode \in {"polling", "notifications"}
  /\ last_notification_at \in 0..MaxTime \cup {None}
  /\ next_poll_at \in 0..(MaxTime + poll_interval)
  /\ state \in {"idle", "syncing", "backing_off", "error"}
  /\ syncing \subseteq Actors
  /\ stamp \in [Actors -> 0..MaxTime]
  /\ fetched \in [Actors -> SUBSET Messages]
  /\ highest_ts_seen \in [Actors -> -1..MaxTime]

\* However the two actors overlap, the reported state is never left at Syncing
\* (nor stuck in Error) once nobody synchronizes.
SyncingIsTruthful ==
  syncing = {} => state \in {"idle", "backing_off"}

\* What arrives in front of the cursors is not skipped for good: without a row it
\* is fetched by the next sync, although overlapping and failing syncs read and
\* overwrite the cursor, undated messages move it to the daemon's clock, and others
\* arrive within its own instant.  A message that was listed with a datetime behind
\* a cursor (the phone's clock or zone went back, or the cursor is from an undated
\* message) is skipped for good by design of the cursor, and not spoken of here.
CursorSkipsNothing ==
  \A m \in Messages \ overtaken :
    datetime[m] # None /\ synced_at[m] = None => Since(m)
=============================================================================
