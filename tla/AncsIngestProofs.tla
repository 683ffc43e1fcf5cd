-------------------------- MODULE AncsIngestProofs ---------------------------
(***************************************************************************)
(* Proofs about AncsIngest and the MessageSync it is built on, for any     *)
(* messages, inboxes, limits and times.                                    *)
(***************************************************************************)
EXTENDS AncsIngest, WellFoundedInduction, FiniteSetTheorems, SequenceTheorems, TLAPS

-----------------------------------------------------------------------------
(* The inductive invariant.                                                *)

Types ==
  /\ now \in 0..MaxTime
  /\ datetime \in [Messages -> 0..MaxTime \cup {Undated, None}]
  /\ overtaken \in SUBSET Messages
  /\ synced_at \in [Messages -> 0..MaxTime \cup {None}]
  /\ highest_ts \in -1..MaxTime
  /\ syncing \in SUBSET Actors
  /\ stamp \in [Actors -> 0..MaxTime]
  /\ fetched \in [Actors -> SUBSET Messages]
  /\ highest_ts_seen \in [Actors -> -1..MaxTime]

\* An imsg under way has listed every message without a row that is older than
\* the cursor it will write, unless it arrived behind a cursor; so it may overwrite
\* the cursor with any value.
ListedEnough ==
  \A a \in syncing, m \in Messages \ overtaken :
    datetime[m] # None /\ synced_at[m] = None /\ m \notin fetched[a] =>
      datetime[m] = Undated \/ datetime[m] >= highest_ts_seen[a]

\* The summary is at Syncing only while somebody synchronizes.
StateInStep ==
  /\ state \in {"idle", "syncing", "backing_off"}
  /\ syncing = {} => state # "syncing"

SInv == Types /\ ListedEnough /\ CursorSkipsNothing /\ StateInStep

-----------------------------------------------------------------------------
\* A nonempty set of instants, -1 included, has a greatest one, which is its Max.
LEMMA GreatestInstant ==
  ASSUME NEW n \in Nat, NEW S \in SUBSET (-1..n), S # {}
  PROVE  Max(S) \in S /\ \A y \in S : y <= Max(S)
<1> DEFINE R == {p \in Nat \X Nat : p[1] < p[2]}
           T == {n - x : x \in S}
<1>1. IsWellFoundedOn(R, Nat)
  BY NatLessThanWellFounded DEF OpToRel
<1>2. T \in SUBSET Nat /\ T # {}
  <2>1. \A x \in S : x \in -1..n /\ n - x \in Nat
    OBVIOUS
  <2> QED
    BY <2>1
<1>3. PICK z \in T : \A y \in T : ~(<<y, z>> \in R)
  BY <1>1, <1>2, WFMin
<1>4. PICK x \in S : z = n - x
  BY <1>3
<1>5. \A y \in S : x >= y
  <2> TAKE y \in S
  <2>1. n - y \in T /\ n - x \in T
    OBVIOUS
  <2>2. ~(<<n - y, n - x>> \in R)
    BY <1>3, <1>4, <2>1
  <2>3. n - y \in Nat /\ n - x \in Nat
    BY <1>2, <2>1
  <2>4. ~(n - y < n - x)
    BY <2>2, <2>3
  <2>5. x \in Int /\ y \in Int
    OBVIOUS
  <2> QED
    BY <2>4, <2>5
<1> QED
  BY <1>5 DEF Max

LEMMA InitHolds == IngestInit => SInv
<1> SUFFICES ASSUME IngestInit PROVE SInv
  OBVIOUS
<1>1. SyncInit /\ MaxTime \in Nat
  BY MessageSyncAssumption DEF IngestInit
<1>2. Types
  BY <1>1 DEF SyncInit, Types, Actors
<1>3. ListedEnough /\ CursorSkipsNothing /\ StateInStep
  BY <1>1 DEF SyncInit, ListedEnough, CursorSkipsNothing, StateInStep, Actors
<1> QED
  BY <1>2, <1>3 DEF SInv

-----------------------------------------------------------------------------
(* The steps of MessageSync.                                               *)

LEMMA QuietHolds ==
  ASSUME SInv, UNCHANGED <<now, datetime, overtaken, synced_at, highest_ts, state, imsgVars>>
  PROVE  SInv'
BY DEF SInv, Types, ListedEnough, CursorSkipsNothing, Since, StateInStep, imsgVars

LEMMA TickHolds == ASSUME SInv, Tick PROVE SInv'
<1>1. Types /\ ListedEnough /\ CursorSkipsNothing /\ StateInStep
  BY DEF SInv
<1>2. /\ now' = now + 1 /\ now < MaxTime /\ MaxTime \in Nat
      /\ UNCHANGED <<datetime, overtaken, synced_at, highest_ts, state, syncing, stamp, fetched, highest_ts_seen>>
  BY MessageSyncAssumption DEF Tick, phoneVars, rowVars, imsgVars
<1>3. Types'
  BY <1>1, <1>2 DEF Types
<1>4. ListedEnough' /\ CursorSkipsNothing' /\ StateInStep'
  BY <1>1, <1>2 DEF ListedEnough, CursorSkipsNothing, Since, StateInStep
<1> QED
  BY <1>3, <1>4 DEF SInv

\* A message arrives in front of every cursor, or is overtaken.
LEMMA ReceiveHolds == ASSUME SInv, NEW m \in Messages, Receive(m) PROVE SInv'
<1>1. Types /\ ListedEnough /\ CursorSkipsNothing /\ StateInStep
  BY DEF SInv
<1>2. PICK d \in 0..MaxTime \cup {Undated} :
        /\ datetime' = [datetime EXCEPT ![m] = d]
        /\ overtaken' = IF Behind(d) THEN overtaken \cup {m} ELSE overtaken
  BY MessageSyncAssumption DEF Receive
<1>3. UNCHANGED <<now, synced_at, highest_ts, state, syncing, stamp, fetched, highest_ts_seen>>
  BY DEF Receive, rowVars, imsgVars
<1>4. /\ datetime'[m] = d /\ \A k \in Messages \ {m} : datetime'[k] = datetime[k]
      /\ highest_ts \in Int /\ \A a \in syncing : highest_ts_seen[a] \in Int
  BY <1>1, <1>2 DEF Types
<1>5. m \notin overtaken' => d = Undated \/ (d >= highest_ts /\ \A a \in syncing : d >= highest_ts_seen[a])
  BY <1>2, <1>4 DEF Behind
<1>6. \A k \in Messages \ {m} : k \notin overtaken' => k \notin overtaken
  BY <1>2
<1>7. Types'
  BY <1>1, <1>2, <1>3 DEF Types
<1>8. ListedEnough'
  BY <1>1, <1>3, <1>4, <1>5, <1>6 DEF ListedEnough
<1>9. CursorSkipsNothing'
  BY <1>1, <1>3, <1>4, <1>5, <1>6 DEF CursorSkipsNothing, Since
<1>10. StateInStep'
  BY <1>1, <1>3 DEF StateInStep
<1> QED
  BY <1>7, <1>8, <1>9, <1>10 DEF SInv

\* imsg lists every message without a row that was not overtaken: none of them is
\* older than the cursor.
LEMMA StartHolds ==
  ASSUME SInv, NEW a \in Actors, StartSync(a), UNCHANGED <<now, datetime, overtaken, synced_at, highest_ts>>
  PROVE  SInv'
<1> DEFINE new == {m \in Messages : Since(m)}
           instants == {0, highest_ts} \cup {TimestampMs(m, now) : m \in new}
<1>1. Types /\ ListedEnough /\ CursorSkipsNothing /\ StateInStep
  BY DEF SInv
<1>2. /\ TransitionTo("syncing") /\ syncing' = syncing \cup {a} /\ stamp' = [stamp EXCEPT ![a] = now]
      /\ fetched' = [fetched EXCEPT ![a] = new]
      /\ highest_ts_seen' = [highest_ts_seen EXCEPT ![a] = Max(instants)]
  BY DEF StartSync
<1>3. now \in 0..MaxTime /\ MaxTime \in Nat /\ highest_ts \in -1..MaxTime
  BY <1>1, MessageSyncAssumption DEF Types
<1>4. instants \in SUBSET (-1..MaxTime) /\ instants # {}
  <2>1. ASSUME NEW m \in new PROVE TimestampMs(m, now) \in 0..MaxTime
    <3>1. m \in Messages /\ datetime[m] # None
      BY DEF Since
    <3> QED
      BY <1>1, <1>3, <3>1 DEF Types, TimestampMs
  <2> QED
    BY <1>3, <2>1
<1>5. Max(instants) \in -1..MaxTime
  BY <1>3, <1>4, GreatestInstant
<1> HIDE DEF instants
<1>6. /\ fetched'[a] = new /\ highest_ts_seen'[a] = Max(instants)
      /\ \A b \in Actors \ {a} : fetched'[b] = fetched[b] /\ highest_ts_seen'[b] = highest_ts_seen[b]
  BY <1>1, <1>2 DEF Types
<1>7. Types'
  BY <1>1, <1>2, <1>5 DEF Types
<1>8. ListedEnough'
  <2> SUFFICES ASSUME NEW b \in syncing', NEW k \in Messages \ overtaken, datetime[k] # None,
                      synced_at[k] = None, k \notin fetched'[b]
               PROVE  datetime[k] = Undated \/ datetime[k] >= highest_ts_seen'[b]
    BY DEF ListedEnough
  <2>1. CASE b = a
    BY <1>1, <1>6, <2>1 DEF CursorSkipsNothing
  <2>2. CASE b # a
    <3>1. b \in syncing /\ b \in Actors
      BY <1>1, <1>2, <2>2 DEF Types
    <3> QED
      BY <1>1, <1>6, <2>2, <3>1 DEF ListedEnough
  <2> QED
    BY <2>1, <2>2
<1>9. CursorSkipsNothing'
  BY <1>1 DEF CursorSkipsNothing, Since
<1>10. StateInStep'
  BY <1>1, <1>2 DEF StateInStep, TransitionTo, Allowed
<1> QED
  BY <1>7, <1>8, <1>9, <1>10 DEF SInv

\* imsg ends: with all its rows and its cursor, or with some of them.
LEMMA ExitHolds ==
  ASSUME SInv, NEW a \in Actors, ImsgExits(a), NEW written \in SUBSET fetched[a], Upsert(a, written),
         \/ highest_ts' = highest_ts
         \/ highest_ts' = highest_ts_seen[a] /\ written = fetched[a],
         TransitionTo("idle") \/ TransitionTo("backing_off"), UNCHANGED <<now, datetime, overtaken>>
  PROVE  SInv'
<1>1. Types /\ ListedEnough /\ CursorSkipsNothing /\ StateInStep
  BY DEF SInv
<1>2. /\ a \in syncing /\ syncing' = syncing \ {a} /\ stamp' = [stamp EXCEPT ![a] = 0]
      /\ fetched' = [fetched EXCEPT ![a] = {}] /\ highest_ts_seen' = [highest_ts_seen EXCEPT ![a] = -1]
  BY DEF ImsgExits
<1>3. synced_at' = [m \in Messages |->
                      IF m \in written /\ synced_at[m] = None THEN stamp[a] ELSE synced_at[m]]
  BY DEF Upsert
<1>4. stamp[a] \in 0..MaxTime /\ stamp[a] # None /\ MaxTime \in Nat
  BY <1>1, MessageSyncAssumption DEF Types
<1>5. \A m \in Messages : synced_at'[m] = None => synced_at[m] = None /\ m \notin written
  BY <1>3, <1>4
<1>6. /\ highest_ts_seen'[a] = -1
      /\ \A b \in Actors \ {a} : fetched'[b] = fetched[b] /\ highest_ts_seen'[b] = highest_ts_seen[b]
  BY <1>1, <1>2 DEF Types
<1>7. Types'
  <2>1. synced_at' \in [Messages -> 0..MaxTime \cup {None}]
    BY <1>1, <1>3, <1>4 DEF Types
  <2>2. highest_ts' \in -1..MaxTime
    BY <1>1 DEF Types
  <2>3. /\ stamp' \in [Actors -> 0..MaxTime] /\ highest_ts_seen' \in [Actors -> -1..MaxTime]
    BY <1>1, <1>2, <1>4 DEF Types
  <2> QED
    BY <1>1, <1>2, <2>1, <2>2, <2>3 DEF Types
<1>8. ListedEnough'
  <2> SUFFICES ASSUME NEW b \in syncing', NEW k \in Messages \ overtaken, datetime[k] # None,
                      synced_at'[k] = None, k \notin fetched'[b]
               PROVE  datetime[k] = Undated \/ datetime[k] >= highest_ts_seen'[b]
    BY DEF ListedEnough
  <2>1. b \in syncing /\ b \in Actors \ {a}
    BY <1>1, <1>2 DEF Types
  <2> QED
    BY <1>1, <1>5, <1>6, <2>1 DEF ListedEnough
<1>9. CursorSkipsNothing'
  <2> SUFFICES ASSUME NEW k \in Messages \ overtaken, datetime[k] # None, synced_at'[k] = None
               PROVE  datetime[k] = Undated \/ datetime[k] >= highest_ts'
    BY DEF CursorSkipsNothing, Since
  <2>1. synced_at[k] = None /\ k \notin written
    BY <1>5
  <2>2. CASE highest_ts' = highest_ts
    BY <1>1, <2>1, <2>2 DEF CursorSkipsNothing, Since
  <2>3. CASE highest_ts' = highest_ts_seen[a] /\ written = fetched[a]
    BY <1>1, <1>2, <2>1, <2>3 DEF ListedEnough
  <2> QED
    BY <2>2, <2>3
<1>10. StateInStep'
  BY <1>1 DEF StateInStep, TransitionTo, Allowed
<1> QED
  BY <1>7, <1>8, <1>9, <1>10 DEF SInv

LEMMA SyncEndHolds ==
  ASSUME SInv, NEW a \in Actors, SyncSucceeds(a) \/ SyncFails(a)
  PROVE  SInv'
<1>1. ImsgExits(a) /\ UNCHANGED <<now, datetime, overtaken>>
  BY DEF SyncSucceeds, SyncFails, phoneVars
<1>2. fetched[a] \in SUBSET fetched[a]
  OBVIOUS
<1>3. CASE SyncSucceeds(a)
  BY <1>1, <1>2, <1>3, ExitHolds DEF SyncSucceeds
<1>4. CASE SyncFails(a)
  <2>1. PICK written \in SUBSET fetched[a] :
          /\ Upsert(a, written)
          /\ highest_ts' = highest_ts \/ (highest_ts' = highest_ts_seen[a] /\ written = fetched[a])
    BY <1>2, <1>4 DEF SyncFails
  <2>2. TransitionTo("backing_off")
    BY <1>4 DEF SyncFails
  <2> QED
    BY <1>1, <2>1, <2>2, ExitHolds
<1> QED
  BY <1>3, <1>4

LEMMA SyncStepHolds == ASSUME SInv, SyncStep PROVE SInv'
<1>1. "task" \in Actors
  BY DEF Actors
<1>2. CASE TaskTick
  <2>1. UNCHANGED <<now, datetime, overtaken, synced_at, highest_ts>>
    BY <1>2 DEF TaskTick, phoneVars, rowVars
  <2>2. StartSync("task") \/ UNCHANGED <<state, imsgVars>>
    BY <1>2 DEF TaskTick
  <2> QED
    BY <1>1, <2>1, <2>2, StartHolds, QuietHolds
<1> QED
  BY <1>1, <1>2, TickHolds, ReceiveHolds, SyncEndHolds DEF SyncStep

-----------------------------------------------------------------------------
(* The steps of the ingest.                                                *)

LEMMA IngestStepHolds == ASSUME SInv, IngestStep PROVE SInv'
<1>1. "ingest" \in Actors
  BY DEF Actors
<1>2. CASE Observe \/ Correlate
  BY <1>2, QuietHolds DEF Observe, Correlate, phoneVars
<1>3. CASE NotifyCoordinator
  <2>1. StartSync("ingest") /\ UNCHANGED <<now, datetime, overtaken, synced_at, highest_ts>>
    BY <1>3 DEF NotifyCoordinator, Notification, phoneVars, rowVars
  <2> QED
    BY <1>1, <2>1, StartHolds
<1>4. CASE SyncReturns
  BY <1>1, <1>4, SyncEndHolds DEF SyncReturns
<1>5. CASE ListRecent \/ PassOver \/ IngestDone
  BY <1>5, QuietHolds DEF ListRecent, PassOver, IngestDone, syncVars, phoneVars, rowVars
<1> QED
  BY <1>2, <1>3, <1>4, <1>5 DEF IngestStep

LEMMA RestartHolds == ASSUME SInv, Restart PROVE SInv'
<1>1. Types /\ CursorSkipsNothing /\ MaxTime \in Nat
  BY MessageSyncAssumption DEF SInv
<1>2. /\ state' = "idle" /\ syncing' = {} /\ stamp' = [a \in Actors |-> 0]
      /\ fetched' = [a \in Actors |-> {}] /\ highest_ts_seen' = [a \in Actors |-> -1]
      /\ UNCHANGED <<now, datetime, overtaken, synced_at, highest_ts>>
  BY DEF Restart, phoneVars, rowVars
<1>3. Types'
  BY <1>1, <1>2 DEF Types
<1>4. ListedEnough' /\ CursorSkipsNothing' /\ StateInStep'
  BY <1>1, <1>2 DEF ListedEnough, CursorSkipsNothing, Since, StateInStep
<1> QED
  BY <1>3, <1>4 DEF SInv

LEMMA NextHolds == ASSUME SInv, [Next]_vars PROVE SInv'
<1>1. CASE UNCHANGED vars \/ \E m \in Messages : Deliver(m)
  BY <1>1, QuietHolds DEF vars, Deliver, syncVars, phoneVars, rowVars
<1> QED
  BY <1>1, SyncStepHolds, IngestStepHolds, RestartHolds DEF Next

LEMMA Inductive == Spec => []SInv
<1>1. SInv /\ [Next]_vars => SInv'
  BY NextHolds
<1> QED
  BY InitHolds, <1>1, PTL DEF Spec

-----------------------------------------------------------------------------
(* The theorems.                                                           *)

\* However the two actors' syncs overlap, fail and overwrite each other's
\* cursor, whatever datetimes the phone gives, and whenever the daemon restarts,
\* no message that arrived in front of the cursors is skipped for good.
THEOREM NothingSkipped == Spec => []CursorSkipsNothing
<1>1. SInv => CursorSkipsNothing
  BY DEF SInv
<1> QED
  BY Inductive, <1>1, PTL

\* The reported state is never left at Syncing, nor stuck in Error.
THEOREM StateTruthful == Spec => []SyncingIsTruthful
<1>1. SInv => SyncingIsTruthful
  BY DEF SInv, StateInStep, SyncingIsTruthful
<1> QED
  BY Inductive, <1>1, PTL

-----------------------------------------------------------------------------
(* The assignments.                                                        *)

\* The store has an assignment, or none, of each message.
AssignmentTotal == DOMAIN assignment = Messages

\* A step leaves the assignments alone or gives one to a message without one.
Stable == \A m \in Messages : assignment[m] # None => assignment'[m] = assignment[m]

LEMMA AssignKeeps ==
  ASSUME NEW m, NEW g, AssignmentTotal, AssignGroup(m, g)
  PROVE  Stable /\ AssignmentTotal'
BY DEF AssignGroup, Stable, AssignmentTotal

LEMMA StepKeeps ==
  ASSUME AssignmentTotal, [Next]_vars
  PROVE  Stable /\ AssignmentTotal'
<1>1. CASE UNCHANGED assignment
  BY <1>1 DEF Stable, AssignmentTotal
<1>2. ASSUME NEW u, NEW m, ApplyPair(u, m) PROVE Stable /\ AssignmentTotal'
  BY <1>1, <1>2, AssignKeeps DEF ApplyPair
<1>3. CASE Observe
  <2>1. \/ UNCHANGED assignment
        \/ \E u, m : ApplyPair(u, m)
    BY <1>3 DEF Observe, Wait, MarkAmbiguous, ApplyFails, storeVars
  <2> QED
    BY <1>1, <1>2, <2>1
<1>4. CASE Correlate
  <2>1. \/ UNCHANGED assignment
        \/ \E u, m : ApplyPair(u, m)
    BY <1>4 DEF Correlate, MarkAmbiguous, ApplyFails, storeVars
  <2> QED
    BY <1>1, <1>2, <2>1
<1>5. CASE UNCHANGED vars \/ SyncStep \/ Restart \/ (\E m \in Messages : Deliver(m))
           \/ NotifyCoordinator \/ SyncReturns \/ ListRecent \/ PassOver \/ IngestDone
  BY <1>1, <1>5 DEF vars, ancsVars, storeVars, SyncStep, Restart, Deliver, NotifyCoordinator,
                    SyncReturns, ListRecent, PassOver, IngestDone
<1> QED
  BY <1>3, <1>4, <1>5 DEF Next, IngestStep

\* Conflicting evidence, also after a restart, never rewrites an assignment.
THEOREM AssignmentsStay == Spec => AssignmentIsStable
<1>1. IngestInit => AssignmentTotal
  BY DEF IngestInit, AssignmentTotal
<1>2. AssignmentTotal /\ [Next]_vars => AssignmentTotal'
  BY StepKeeps
<1>3. AssignmentTotal /\ [Next]_vars
      => [\A m \in Messages : assignment[m] # None => assignment'[m] = assignment[m]]_vars
  BY StepKeeps DEF Stable
<1> QED
  BY <1>1, <1>2, <1>3, PTL DEF Spec, AssignmentIsStable

-----------------------------------------------------------------------------
(* Types and limits.                                                       *)

SchedulerTypes ==
  /\ mode \in {"polling", "notifications"}
  /\ last_notification_at \in 0..MaxTime \cup {None}
  /\ next_poll_at \in 0..(MaxTime + poll_interval)

StoreTypes ==
  /\ conversation_key \in [Messages -> Groups \cup {Private, None}]
  /\ assignment \in [Messages -> Groups \cup {None}]
  /\ ambiguous \subseteq Messages /\ conflict \subseteq Groups
  /\ subtitle \in [Messages -> Groups \cup {Direct}]

\* The messages an ingest has listed have rows.
TaskTypes ==
  /\ metadata \in Seq(Messages) /\ Len(metadata) <= ChannelCapacity
  /\ deliveries \in 0..MaxDeliveries
  /\ ingest \in {"idle", "observed", "syncing", "listing", "correlating"}
  /\ observed \in 0..MaxTime
  /\ listed \in Seq(Messages) /\ Len(listed) <= ListLimit
  /\ \A k \in DOMAIN listed : synced_at[listed[k]] # None

Noticed == [uid : Messages, at : 0..MaxTime]
Waiting == [handle : Messages, at : 0..MaxTime]

CorrelatorTypes ==
  /\ notifications \in Seq(Noticed) /\ Len(notifications) <= PendingLimit
  /\ messages \in Seq(Waiting) /\ Len(messages) <= PendingLimit
  /\ completed_uids \in Seq(Messages) /\ Len(completed_uids) <= CompletedLimit
  /\ seen \in Seq(Messages) /\ Len(seen) <= SeenLimit
  /\ paired \subseteq Messages \X Messages
  /\ forgotten \subseteq Messages /\ evicted \subseteq Messages

\* A notification waits once, and is not completed.
NoticedOnce ==
  /\ \A j, k \in DOMAIN notifications : notifications[j].uid = notifications[k].uid => j = k
  /\ \A k \in DOMAIN notifications : notifications[k].uid \notin ToSet(completed_uids)

\* A message waits once, and was seen.
WaitingOnce ==
  /\ \A j, k \in DOMAIN messages : messages[j].handle = messages[k].handle => j = k
  /\ \A k \in DOMAIN messages : messages[k].handle \in ToSet(seen) \cup evicted

\* A message that waits was not paired.
WaitingUnpaired ==
  \A k \in DOMAIN messages, p \in paired : p[2] = messages[k].handle => p[2] \in evicted

\* Both halves of a pair are remembered until they are evicted.
PairsRemembered ==
  \A p \in paired : /\ p[1] \in ToSet(completed_uids) \cup forgotten
                    /\ p[2] \in ToSet(seen) \cup evicted

Pairing == NoticedOnce /\ WaitingOnce /\ WaitingUnpaired /\ PairsRemembered

PInv == /\ SInv /\ SchedulerTypes /\ StoreTypes /\ TaskTypes /\ CorrelatorTypes
        /\ Pairing /\ PairedOnce

-----------------------------------------------------------------------------
(* Bounded queues.                                                         *)

LEMMA HeadTail ==
  ASSUME NEW S, NEW s \in Seq(S), s # <<>>
  PROVE  /\ Head(s) = s[1] /\ Head(s) \in S /\ Tail(s) \in Seq(S)
         /\ Len(s) \in Nat /\ Len(s) > 0 /\ Len(Tail(s)) = Len(s) - 1
         /\ \A i \in 1..(Len(s) - 1) : Tail(s)[i] = s[i + 1]
  OBVIOUS

\* r is the queue q with x behind it, without the first d elements.
Shifted(r, q, x, d) ==
  \A i \in DOMAIN r :
    i + d \in 1..(Len(q) + 1) /\ r[i] = IF i + d = Len(q) + 1 THEN x ELSE q[i + d]

\* A bounded push keeps the order, the limit, and all but the oldest element when it
\* is full.
LEMMA PushProperties ==
  ASSUME NEW S, NEW q \in Seq(S), NEW x \in S, NEW limit \in Nat \ {0}, Len(q) <= limit
  PROVE  LET r == PushBounded(q, x, limit) IN
         /\ r \in Seq(S) /\ Len(r) <= limit
         /\ \E d \in {0, 1} : Shifted(r, q, x, d)
         /\ ToSet(r) \subseteq ToSet(q) \cup {x}
         /\ ToSet(q) \cup {x} \subseteq
              ToSet(r) \cup (IF Len(q) = limit THEN {Head(q)} ELSE {})
  <1> DEFINE all == Append(q, x)
             r == PushBounded(q, x, limit)
  <1>1. /\ all \in Seq(S) /\ all # <<>> /\ Len(all) = Len(q) + 1 /\ Len(q) \in Nat
        /\ \A i \in 1..(Len(q) + 1) : all[i] = IF i = Len(q) + 1 THEN x ELSE q[i]
    BY AppendProperties
  <1>2. r = IF Len(all) > limit THEN Tail(all) ELSE all
    BY DEF PushBounded
  <1> HIDE DEF all, r
  <1>3. /\ Tail(all) \in Seq(S) /\ Len(Tail(all)) = Len(q) /\ Head(all) = all[1]
        /\ \A i \in 1..Len(q) : Tail(all)[i] = all[i + 1]
    BY <1>1, HeadTail
  <1>4. r \in Seq(S) /\ Len(r) <= limit
    BY <1>1, <1>2, <1>3
  <1>5. ToSet(q) = {q[i] : i \in 1..Len(q)} /\ \A i \in 1..Len(q) : q[i] \in ToSet(q)
    BY <1>1 DEF ToSet
  <1>6. CASE Len(q) < limit
    <2>1. r = all /\ DOMAIN r = 1..(Len(q) + 1)
      BY <1>1, <1>2, <1>6
    <2>2. \A i \in DOMAIN r :
             i + 0 \in 1..(Len(q) + 1) /\ r[i] = IF i + 0 = Len(q) + 1 THEN x ELSE q[i + 0]
      BY <1>1, <2>1
    <2>3. ToSet(r) = ToSet(q) \cup {x}
      BY <1>1, <1>5, <2>1 DEF ToSet
    <2>4. Shifted(r, q, x, 0)
      BY <2>2 DEF Shifted
    <2> QED BY <1>4, <1>6, <2>3, <2>4 DEF r
  <1>7. CASE Len(q) = limit
    <2>1. r = Tail(all) /\ DOMAIN r = 1..Len(q)
      BY <1>1, <1>2, <1>3, <1>7
    <2>2. \A i \in DOMAIN r :
             i + 1 \in 1..(Len(q) + 1) /\ r[i] = IF i + 1 = Len(q) + 1 THEN x ELSE q[i + 1]
      BY <1>1, <1>3, <2>1
    <2>3. ToSet(r) \subseteq ToSet(q) \cup {x}
      BY <1>1, <1>5, <2>1, <2>2 DEF ToSet
    <2>4. x \in ToSet(r)
      <3>1. Len(q) \in DOMAIN r /\ r[Len(q)] = x
        BY <1>1, <1>7, <2>1, <2>2
      <3> QED BY <3>1 DEF ToSet
    <2>5. ASSUME NEW i \in 1..Len(q) PROVE q[i] \in ToSet(r) \cup {Head(q)}
      <3>1. CASE i = 1
        BY <3>1, <1>7, <1>1, HeadTail
      <3>2. CASE i # 1
        <4>1. i - 1 \in DOMAIN r /\ r[i - 1] = q[i]
          BY <3>2, <1>1, <2>1, <2>2
        <4> QED BY <4>1 DEF ToSet
      <3> QED BY <3>1, <3>2
    <2>6. ToSet(q) \subseteq ToSet(r) \cup {Head(q)}
      BY <1>5, <2>5
    <2>7. Shifted(r, q, x, 1)
      BY <2>2 DEF Shifted
    <2> QED BY <1>4, <1>7, <2>3, <2>4, <2>6, <2>7 DEF r
  <1> QED BY <1>1, <1>6, <1>7

\* A bounded push of a new key keeps the keys apart.
LEMMA PushDistinct ==
  ASSUME NEW S, NEW q \in Seq(S), NEW x \in S, NEW limit \in Nat \ {0}, Len(q) <= limit,
         NEW key, \A i, j \in DOMAIN q : key[q[i]] = key[q[j]] => i = j,
         \A i \in DOMAIN q : key[q[i]] # key[x]
  PROVE  LET r == PushBounded(q, x, limit) IN
         \A i, j \in DOMAIN r : key[r[i]] = key[r[j]] => i = j
  <1> DEFINE r == PushBounded(q, x, limit)
  <1>0. PICK d \in {0, 1} : Shifted(r, q, x, d)
    BY PushProperties
  <1>1. \A i \in DOMAIN r :
          i + d \in 1..(Len(q) + 1) /\ r[i] = IF i + d = Len(q) + 1 THEN x ELSE q[i + d]
    BY <1>0 DEF Shifted
  <1>2. DOMAIN r \subseteq Int /\ DOMAIN q = 1..Len(q) /\ Len(q) \in Nat
    BY PushProperties
  <1> HIDE DEF r
  <1>3. ASSUME NEW i \in DOMAIN r, NEW j \in DOMAIN r, key[r[i]] = key[r[j]]
        PROVE  i = j
    <2>1. CASE i + d = Len(q) + 1 /\ j + d = Len(q) + 1
      BY <2>1, <1>2
    <2>2. CASE i + d = Len(q) + 1 /\ j + d # Len(q) + 1
      BY <2>2, <1>1, <1>2, <1>3
    <2>3. CASE i + d # Len(q) + 1 /\ j + d = Len(q) + 1
      BY <2>3, <1>1, <1>2, <1>3
    <2>4. CASE i + d # Len(q) + 1 /\ j + d # Len(q) + 1
      <3>1. i + d \in DOMAIN q /\ j + d \in DOMAIN q
        BY <2>4, <1>1, <1>2
      <3>2. i + d = j + d
        BY <2>4, <1>1, <1>3, <3>1
      <3> QED BY <3>2, <1>2
    <2> QED BY <2>1, <2>2, <2>3, <2>4
  <1> QED BY <1>3 DEF r

\* RemoveAt closes the gap.
LEMMA RemoveAtProperties ==
  ASSUME NEW S, NEW s \in Seq(S), NEW k \in 1..Len(s)
  PROVE  /\ RemoveAt(s, k) \in Seq(S)
         /\ Len(RemoveAt(s, k)) = Len(s) - 1
         /\ \A i \in 1..(Len(s) - 1) :
              RemoveAt(s, k)[i] = IF i < k THEN s[i] ELSE s[i + 1]
  <1> DEFINE a == SubSeq(s, 1, k - 1)
             b == SubSeq(s, k + 1, Len(s))
  <1>1. a \in Seq(S) /\ Len(a) = k - 1 /\ \A i \in 1..(k - 1) : a[i] = s[i]
    OBVIOUS
  <1>2. /\ b \in Seq(S) /\ Len(b) = Len(s) - k
        /\ \A i \in 1..(Len(s) - k) : b[i] = s[k + i]
    OBVIOUS
  <1> HIDE DEF a, b
  <1>3. /\ a \o b \in Seq(S)
        /\ Len(a \o b) = Len(a) + Len(b)
        /\ \A i \in 1..(Len(a) + Len(b)) :
             (a \o b)[i] = IF i <= Len(a) THEN a[i] ELSE b[i - Len(a)]
    BY <1>1, <1>2, ConcatProperties
  <1>4. Len(a) \in Nat /\ Len(b) \in Nat /\ Len(s) \in Nat
    BY <1>1, <1>2
  <1>5. ASSUME NEW i \in 1..(Len(s) - 1)
        PROVE  (a \o b)[i] = IF i < k THEN s[i] ELSE s[i + 1]
    <2>1. CASE i < k
      BY <2>1, <1>1, <1>2, <1>3, <1>4
    <2>2. CASE ~(i < k)
      <3>1. i - Len(a) \in 1..(Len(s) - k) /\ k + (i - Len(a)) = i + 1
        BY <2>2, <1>1, <1>4
      <3>2. b[i - Len(a)] = s[i + 1]
        BY <3>1, <1>2
      <3> QED BY <2>2, <3>2, <1>1, <1>2, <1>3, <1>4
    <2> QED BY <2>1, <2>2
  <1>6. Len(a \o b) = Len(s) - 1
    BY <1>1, <1>2, <1>3, <1>4
  <1> QED BY <1>3, <1>5, <1>6 DEF RemoveAt, a, b

\* Without one of its elements a sequence keeps its keys apart, and has none of that
\* element's key.
LEMMA RemoveDistinct ==
  ASSUME NEW S, NEW q \in Seq(S), NEW k \in DOMAIN q,
         NEW key, \A i, j \in DOMAIN q : key[q[i]] = key[q[j]] => i = j
  PROVE  LET r == RemoveAt(q, k) IN
         /\ r \in Seq(S) /\ Len(r) = Len(q) - 1
         /\ \A i \in DOMAIN r : \E j \in DOMAIN q : j # k /\ r[i] = q[j]
         /\ \A i, j \in DOMAIN r : key[r[i]] = key[r[j]] => i = j
         /\ \A i \in DOMAIN r : key[r[i]] # key[q[k]]
  <1> DEFINE r == RemoveAt(q, k)
             old(i) == IF i < k THEN i ELSE i + 1
  <1>1. k \in 1..Len(q) /\ Len(q) \in Nat /\ DOMAIN q = 1..Len(q)
    OBVIOUS
  <1>2. /\ r \in Seq(S) /\ Len(r) = Len(q) - 1
        /\ \A i \in 1..(Len(q) - 1) : r[i] = IF i < k THEN q[i] ELSE q[i + 1]
    <2>1. q \in Seq(S) /\ k \in 1..Len(q)
      BY <1>1
    <2> QED BY ONLY <2>1, RemoveAtProperties
  <1> HIDE DEF r
  <1>3. DOMAIN r = 1..(Len(q) - 1)
    BY <1>1, <1>2
  <1>4. ASSUME NEW i \in DOMAIN r
        PROVE  old(i) \in DOMAIN q /\ old(i) # k /\ r[i] = q[old(i)]
    BY <1>1, <1>2, <1>3
  <1>5. ASSUME NEW i \in DOMAIN r, NEW j \in DOMAIN r, old(i) = old(j)
        PROVE  i = j
    BY <1>1, <1>3, <1>5
  <1> HIDE DEF old
  <1>6. ASSUME NEW i \in DOMAIN r, NEW j \in DOMAIN r, key[r[i]] = key[r[j]]
        PROVE  i = j
    BY <1>4, <1>5, <1>6
  <1> QED BY <1>2, <1>4, <1>6 DEF r

-----------------------------------------------------------------------------
(* The scheduler, the store and the task.                                  *)

LEMMA SchedulerHolds ==
  ASSUME SInv, SchedulerTypes, [Next]_vars
  PROVE  SchedulerTypes'
<1>1. /\ now \in 0..MaxTime /\ poll_interval \in Nat /\ MaxTime \in Nat
  BY MessageSyncAssumption DEF SInv, Types
<1>2. now \in 0..(MaxTime + poll_interval) /\ now + poll_interval \in 0..(MaxTime + poll_interval)
  BY <1>1
<1>3. CASE UNCHANGED schedulerVars
  BY <1>3 DEF SchedulerTypes, schedulerVars
<1>4. CASE TaskTick
  BY <1>2, <1>4 DEF SchedulerTypes, TaskTick
<1>5. CASE Notification
  BY <1>1, <1>2, <1>5 DEF SchedulerTypes, Notification
<1>6. CASE Restart
  BY <1>2, <1>6 DEF SchedulerTypes, Restart
<1>7. CASE SyncStep
  BY <1>3, <1>4, <1>7 DEF SyncStep, Tick, Receive, SyncSucceeds, SyncFails
<1>8. CASE IngestStep
  BY <1>3, <1>5, <1>8 DEF IngestStep, Observe, NotifyCoordinator, SyncReturns, SyncSucceeds, SyncFails,
                          ListRecent, PassOver, Correlate, IngestDone, syncVars
<1>9. CASE UNCHANGED vars \/ \E m \in Messages : Deliver(m)
  BY <1>3, <1>9 DEF vars, syncVars, Deliver
<1> QED
  BY <1>6, <1>7, <1>8, <1>9 DEF Next

\* What Observe does: nothing, an update of a waiting notification, a pair, or one
\* more waiting notification.
ObservePairs(u, k) ==
  /\ k \in DOMAIN messages
  /\ u \notin ToSet(completed_uids)
  /\ \A j \in DOMAIN notifications : notifications[j].uid # u
  /\ messages' = RemoveAt(messages, k)
  /\ Complete(u, messages[k].handle)
  /\ ApplyPair(u, messages[k].handle) \/ ApplyFails
  /\ UNCHANGED notifications

ObserveUpdates(u) ==
  /\ notifications' = [k \in DOMAIN notifications |->
                         IF notifications[k].uid = u THEN [uid |-> u, at |-> now]
                         ELSE notifications[k]]
  /\ UNCHANGED <<messages, completed_uids, paired, forgotten, storeVars, conversation_key>>

ObserveWaits(u) ==
  /\ u \notin ToSet(completed_uids)
  /\ \A j \in DOMAIN notifications : notifications[j].uid # u
  /\ notifications' = PushBounded(notifications, [uid |-> u, at |-> now], PendingLimit)
  /\ \/ UNCHANGED <<storeVars, conversation_key>>
     \/ \E marked \in SUBSET {messages[k].handle : k \in DOMAIN messages} : MarkAmbiguous(marked)
  /\ UNCHANGED <<messages, completed_uids, paired, forgotten>>

LEMMA ObserveCases ==
  ASSUME Observe
  PROVE  LET u == Head(metadata) IN
         /\ metadata # <<>> /\ metadata' = Tail(metadata)
         /\ observed' = now /\ ingest' \in {"observed", "idle"}
         /\ UNCHANGED <<synced_at, deliveries, subtitle, listed, seen, evicted>>
         /\ \/ UNCHANGED <<correlatorVars, storeVars, conversation_key>>
            \/ ObserveUpdates(u)
            \/ \E k \in DOMAIN messages : ObservePairs(u, k)
            \/ ObserveWaits(u)
<1> DEFINE u == Head(metadata)
           n == [uid |-> u, at |-> now]
           known == {k \in DOMAIN notifications : notifications[k].uid = u}
           candidates == {k \in DOMAIN messages : Matches(n, messages[k])}
<1>1. /\ metadata # <<>> /\ metadata' = Tail(metadata)
      /\ observed' = now /\ ingest' \in {"observed", "idle"}
      /\ UNCHANGED <<synced_at, deliveries, subtitle, listed, seen, evicted>>
  BY DEF Observe, Wait, inboxVars, seenVars
<1>2. CASE UNCHANGED <<correlatorVars, storeVars, conversation_key>>
  BY <1>1, <1>2
<1>3. CASE /\ notifications' = [k \in DOMAIN notifications |->
                                 IF k \in known THEN n ELSE notifications[k]]
           /\ UNCHANGED <<messages, completed_uids, paired, forgotten, storeVars, conversation_key>>
  BY <1>1, <1>3 DEF ObserveUpdates
<1>4. CASE /\ u \notin ToSet(completed_uids) /\ known = {}
           /\ \E k \in candidates :
                /\ messages' = RemoveAt(messages, k)
                /\ Complete(u, messages[k].handle)
                /\ ApplyPair(u, messages[k].handle) \/ ApplyFails
           /\ UNCHANGED notifications
  <2>1. PICK k \in candidates :
                /\ messages' = RemoveAt(messages, k)
                /\ Complete(u, messages[k].handle)
                /\ ApplyPair(u, messages[k].handle) \/ ApplyFails
    BY <1>4
  <2>2. k \in DOMAIN messages /\ ObservePairs(u, k)
    BY <1>4, <2>1 DEF ObservePairs
  <2> QED
    BY <1>1, <2>2
<1>5. CASE u \notin ToSet(completed_uids) /\ known = {} /\ Wait(n, candidates)
  <2>1. \/ UNCHANGED <<storeVars, conversation_key>>
        \/ \E marked \in SUBSET {messages[k].handle : k \in DOMAIN messages} : MarkAmbiguous(marked)
    <3> DEFINE handles == {messages[k].handle : k \in candidates}
    <3>1. \/ UNCHANGED <<storeVars, conversation_key>>
          \/ MarkAmbiguous(handles) \/ \E marked \in SUBSET handles : MarkAmbiguous(marked)
      BY <1>5 DEF Wait
    <3>2. SUBSET handles \subseteq SUBSET {messages[k].handle : k \in DOMAIN messages}
          /\ handles \in SUBSET handles
      OBVIOUS
    <3> QED
      BY <3>1, <3>2
  <2>2. ObserveWaits(u)
    BY <1>5, <2>1 DEF Wait, ObserveWaits
  <2> QED
    BY <1>1, <2>2
<1> QED
  BY <1>2, <1>3, <1>4, <1>5 DEF Observe

\* What Correlate does: a pair, one more waiting message, or nothing to the
\* correlator.
CorrelatePairs(m, k) ==
  /\ k \in DOMAIN notifications
  /\ notifications' = RemoveAt(notifications, k)
  /\ Complete(notifications[k].uid, m)
  /\ ApplyPair(notifications[k].uid, m) \/ ApplyFails
  /\ UNCHANGED messages

CorrelateWaits(m) ==
  /\ \/ UNCHANGED messages
     \/ /\ \A k \in DOMAIN messages : messages[k].handle # m
        /\ messages' = PushBounded(messages, [handle |-> m, at |-> synced_at[m]], PendingLimit)
  /\ UNCHANGED <<notifications, completed_uids, paired, forgotten, storeVars, conversation_key>>

LEMMA CorrelateCases ==
  ASSUME Correlate
  PROVE  LET m == Head(listed) IN
         /\ listed # <<>> /\ listed' \in {Tail(listed), <<>>}
         /\ ingest' \in {ingest, "idle"}
         /\ Unseen(m) /\ See(m)
         /\ UNCHANGED <<synced_at, deliveries, subtitle, metadata, observed>>
         /\ \/ \E k \in DOMAIN notifications : CorrelatePairs(m, k)
            \/ CorrelateWaits(m)
            \/ (MarkAmbiguous({m}) \/ ApplyFails) /\ UNCHANGED correlatorVars
<1> DEFINE m == Head(listed)
           w == [handle |-> m, at |-> synced_at[m]]
           candidates == {k \in DOMAIN notifications : Matches(notifications[k], w)}
<1>1. /\ listed # <<>> /\ listed' \in {Tail(listed), <<>>}
      /\ ingest' \in {ingest, "idle"}
      /\ Unseen(m) /\ See(m)
      /\ UNCHANGED <<synced_at, deliveries, subtitle, metadata, observed>>
  BY DEF Correlate, inboxVars
<1>2. CASE /\ \E k \in candidates :
                 /\ notifications' = RemoveAt(notifications, k)
                 /\ Complete(notifications[k].uid, m)
                 /\ ApplyPair(notifications[k].uid, m) \/ ApplyFails
           /\ UNCHANGED messages
  <2>1. \E k \in DOMAIN notifications : CorrelatePairs(m, k)
    BY <1>2 DEF CorrelatePairs
  <2> QED
    BY <1>1, <2>1
<1>3. CASE /\ messages' = IF \E k \in DOMAIN messages : messages[k].handle = m
                          THEN messages ELSE PushBounded(messages, w, PendingLimit)
           /\ UNCHANGED <<notifications, completed_uids, paired, forgotten,
                          storeVars, conversation_key>>
  <2>1. CorrelateWaits(m)
    BY <1>3 DEF CorrelateWaits
  <2> QED
    BY <1>1, <2>1
<1>4. CASE (MarkAmbiguous({m}) \/ ApplyFails) /\ UNCHANGED correlatorVars
  BY <1>1, <1>4
<1> QED
  BY <1>2, <1>3, <1>4 DEF Correlate

\* A pair leaves the store well-typed, whoever's it is.
LEMMA ApplyPairTypes ==
  ASSUME StoreTypes, NEW u \in Messages, NEW m \in Messages, ApplyPair(u, m), UNCHANGED subtitle
  PROVE  StoreTypes'
<1>1. CASE subtitle[u] = Direct
  BY <1>1 DEF ApplyPair, AssignGroup, StoreTypes
<1>2. CASE subtitle[u] # Direct
  <2>1. subtitle[u] \in Groups /\ AssignGroup(m, subtitle[u])
    BY <1>2 DEF StoreTypes, ApplyPair
  <2>2. assignment[m] \in Groups \cup {None}
    BY DEF StoreTypes
  <2> QED
    BY <2>1, <2>2 DEF AssignGroup, StoreTypes
<1> QED
  BY <1>1, <1>2

LEMMA EntryTypes ==
  ASSUME CorrelatorTypes
  PROVE  /\ \A k \in DOMAIN notifications :
              notifications[k] \in Noticed /\ notifications[k].uid \in Messages
         /\ \A k \in DOMAIN messages :
              messages[k] \in Waiting /\ messages[k].handle \in Messages
<1>1. notifications \in Seq(Noticed) /\ messages \in Seq(Waiting)
  BY DEF CorrelatorTypes
<1>2. \A k \in DOMAIN notifications : notifications[k] \in Noticed
  BY <1>1
<1>3. \A k \in DOMAIN messages : messages[k] \in Waiting
  BY <1>1
<1> QED
  BY <1>2, <1>3 DEF Noticed, Waiting

LEMMA StoreHolds ==
  ASSUME SInv, StoreTypes, TaskTypes, CorrelatorTypes, [Next]_vars
  PROVE  StoreTypes'
<1>1. CASE UNCHANGED <<storeVars, conversation_key, subtitle>>
  BY <1>1 DEF StoreTypes, storeVars
<1>2. ASSUME NEW a \in Actors, SyncSucceeds(a) \/ SyncFails(a), UNCHANGED <<storeVars, subtitle>>
      PROVE  StoreTypes'
  BY <1>2 DEF SyncSucceeds, SyncFails, Upsert, StoreTypes, storeVars
<1>3. ASSUME NEW marked \in SUBSET Messages, MarkAmbiguous(marked), UNCHANGED subtitle
      PROVE  StoreTypes'
  BY <1>3 DEF MarkAmbiguous, StoreTypes
<1>4. \A k \in DOMAIN messages : messages[k].handle \in Messages
  BY EntryTypes
<1>5. \A k \in DOMAIN notifications : notifications[k].uid \in Messages
  BY EntryTypes
<1>6. CASE Observe
  <2> DEFINE u == Head(metadata)
  <2>1. /\ metadata # <<>> /\ UNCHANGED subtitle
        /\ \/ UNCHANGED <<storeVars, conversation_key>>
           \/ \E k \in DOMAIN messages : ApplyPair(u, messages[k].handle) \/ ApplyFails
           \/ \E marked \in SUBSET {messages[k].handle : k \in DOMAIN messages} : MarkAmbiguous(marked)
    BY <1>6, ObserveCases DEF ObserveUpdates, ObservePairs, ObserveWaits
  <2>2. u \in Messages
    BY <2>1, HeadTail DEF TaskTypes
  <2> HIDE DEF u
  <2>3. SUBSET {messages[k].handle : k \in DOMAIN messages} \subseteq SUBSET Messages
    BY <1>4
  <2> QED
    BY <1>1, <1>3, <1>4, <2>1, <2>2, <2>3, ApplyPairTypes DEF ApplyFails
<1>7. CASE Correlate
  <2> DEFINE m == Head(listed)
  <2>1. /\ listed # <<>> /\ UNCHANGED subtitle
        /\ \/ UNCHANGED <<storeVars, conversation_key>>
           \/ \E k \in DOMAIN notifications : ApplyPair(notifications[k].uid, m)
           \/ MarkAmbiguous({m}) \/ ApplyFails
    BY <1>7, CorrelateCases DEF CorrelatePairs, CorrelateWaits, ApplyFails
  <2>2. m \in Messages
    BY <2>1, HeadTail DEF TaskTypes
  <2> HIDE DEF m
  <2> QED
    BY <1>1, <1>3, <1>5, <2>1, <2>2, ApplyPairTypes DEF ApplyFails
<1>8. CASE SyncStep
  <2>1. UNCHANGED <<storeVars, subtitle>>
    BY <1>8 DEF SyncStep, ancsVars, inboxVars
  <2>2. UNCHANGED conversation_key \/ SyncSucceeds("task") \/ SyncFails("task")
    BY <1>8 DEF SyncStep, Tick, TaskTick, Receive, rowVars
  <2> QED
    BY <1>1, <1>2, <2>1, <2>2 DEF Actors
<1>9. CASE SyncReturns
  BY <1>2, <1>9 DEF SyncReturns, inboxVars, Actors
<1>10. CASE \/ UNCHANGED vars \/ Restart \/ (\E m \in Messages : Deliver(m))
            \/ NotifyCoordinator \/ ListRecent \/ PassOver \/ IngestDone
  BY <1>1, <1>10 DEF vars, ancsVars, syncVars, rowVars, inboxVars, Restart, Deliver, NotifyCoordinator,
                     Notification, ListRecent, PassOver, IngestDone
<1> QED
  BY <1>6, <1>7, <1>8, <1>9, <1>10 DEF Next, IngestStep

\* A row stays.
LEMMA RowsStay ==
  ASSUME [Next]_vars, NEW m \in Messages, synced_at[m] # None
  PROVE  synced_at'[m] # None
<1>1. CASE UNCHANGED synced_at
  BY <1>1
<1>2. ASSUME NEW a, SyncSucceeds(a) \/ SyncFails(a) PROVE synced_at'[m] # None
  <2>1. PICK written : Upsert(a, written)
    BY <1>2 DEF SyncSucceeds, SyncFails
  <2> QED
    BY <2>1 DEF Upsert
<1>3. CASE SyncStep
  BY <1>1, <1>2, <1>3 DEF SyncStep, Tick, TaskTick, Receive, rowVars
<1>4. CASE IngestStep
  BY <1>1, <1>2, <1>4 DEF IngestStep, Observe, NotifyCoordinator, Notification, SyncReturns, ListRecent,
                          PassOver, Correlate, IngestDone, syncVars, rowVars
<1>5. CASE UNCHANGED vars \/ Restart \/ \E h \in Messages : Deliver(h)
  BY <1>1, <1>5 DEF vars, syncVars, rowVars, Restart, Deliver
<1> QED
  BY <1>3, <1>4, <1>5 DEF Next

\* What is listed keeps to the limit and has rows.
LEMMA ListedTypes ==
  ASSUME ListRecent, UNCHANGED synced_at, listed' # listed
  PROVE  /\ listed' \in Seq(Messages) /\ Len(listed') <= ListLimit
         /\ \A k \in DOMAIN listed' : synced_at'[listed'[k]] # None
<1>0. PICK newest \in SUBSET Rows : \E order \in SetToSeqs({m \in newest : Recent(m)}) :
        Cardinality(newest) <= ListLimit /\ listed' = order
  BY DEF ListRecent
<1>1. PICK order \in SetToSeqs({m \in newest : Recent(m)}) :
        Cardinality(newest) <= ListLimit /\ listed' = order
  BY <1>0
<1> DEFINE recent == {m \in newest : Recent(m)}
<1>2. newest \subseteq Messages /\ \A m \in newest : synced_at[m] # None
  BY DEF Rows
<1>3. IsFiniteSet(newest)
  BY <1>2, AncsIngestAssumption, FS_Subset
<1>4. IsFiniteSet(recent) /\ Cardinality(recent) <= Cardinality(newest)
  BY <1>3, FS_Subset
<1>5. Cardinality(recent) \in Nat /\ Cardinality(newest) \in Nat /\ ListLimit \in Nat
  BY <1>3, <1>4, FS_CardinalityType, AncsIngestAssumption
<1>6. order \in [1..Cardinality(recent) -> recent]
  BY DEF SetToSeqs
<1>7. order \in Seq(Messages) /\ Len(order) = Cardinality(recent)
  <2>1. order \in [1..Cardinality(recent) -> Messages]
    BY <1>2, <1>6
  <2> HIDE DEF recent
  <2> QED
    BY <1>5, <2>1
<1>8. \A k \in DOMAIN order : order[k] \in newest
  BY <1>6
<1> QED
  BY <1>1, <1>2, <1>4, <1>5, <1>7, <1>8

\* The rest of what is listed.
LEMMA RestListed ==
  ASSUME TaskTypes, listed # <<>>
  PROVE  /\ Tail(listed) \in Seq(Messages) /\ Len(Tail(listed)) <= ListLimit
         /\ \A k \in DOMAIN Tail(listed) :
              Tail(listed)[k] \in Messages /\ synced_at[Tail(listed)[k]] # None
<1>1. /\ listed \in Seq(Messages) /\ Len(listed) <= ListLimit /\ ListLimit \in Nat
      /\ \A k \in DOMAIN listed : synced_at[listed[k]] # None
  BY AncsIngestAssumption DEF TaskTypes
<1>2. /\ Tail(listed) \in Seq(Messages) /\ Len(Tail(listed)) = Len(listed) - 1 /\ Len(listed) \in Nat
      /\ \A i \in 1..(Len(listed) - 1) : Tail(listed)[i] = listed[i + 1]
  BY <1>1, HeadTail
<1>3. DOMAIN Tail(listed) = 1..(Len(listed) - 1)
  BY <1>2
<1>4. \A k \in DOMAIN Tail(listed) : k + 1 \in DOMAIN listed /\ Tail(listed)[k] = listed[k + 1]
  BY <1>1, <1>2, <1>3
<1> QED
  BY <1>1, <1>2, <1>4

LEMMA TaskHolds ==
  ASSUME SInv, TaskTypes, [Next]_vars
  PROVE  TaskTypes'
<1>1. /\ MaxTime \in Nat /\ now \in 0..MaxTime
      /\ MaxDeliveries \in Nat /\ ChannelCapacity \in Nat /\ ListLimit \in Nat
  BY MessageSyncAssumption, AncsIngestAssumption DEF SInv, Types
<1>2. ASSUME UNCHANGED listed
      PROVE  \A k \in DOMAIN listed' : synced_at'[listed'[k]] # None
  BY <1>2, RowsStay DEF TaskTypes
<1>3. ASSUME listed # <<>>, listed' \in {Tail(listed), <<>>}
      PROVE  /\ listed' \in Seq(Messages) /\ Len(listed') <= ListLimit
             /\ \A k \in DOMAIN listed' : synced_at'[listed'[k]] # None
  <2>1. CASE listed' = <<>>
    BY <1>1, <2>1
  <2>2. CASE listed' = Tail(listed)
    BY <1>3, <2>2, RestListed, RowsStay
  <2> QED
    BY <1>3, <2>1, <2>2
<1>4. ASSUME metadata # <<>>
      PROVE  Tail(metadata) \in Seq(Messages) /\ Len(Tail(metadata)) <= ChannelCapacity
  BY <1>1, <1>4, HeadTail DEF TaskTypes
<1>5. CASE UNCHANGED <<metadata, deliveries, taskVars>>
  BY <1>2, <1>5 DEF TaskTypes, taskVars
<1>6. CASE Observe
  <2>1. /\ metadata # <<>> /\ metadata' = Tail(metadata) /\ observed' = now
        /\ ingest' \in {"observed", "idle"} /\ UNCHANGED <<deliveries, listed>>
    BY <1>6, ObserveCases
  <2> QED
    BY <1>1, <1>2, <1>4, <2>1 DEF TaskTypes
<1>7. CASE NotifyCoordinator \/ SyncReturns \/ IngestDone
  <2>1. UNCHANGED <<metadata, deliveries, observed, listed>>
        /\ ingest' \in {"idle", "syncing", "listing"}
    BY <1>7 DEF NotifyCoordinator, SyncReturns, IngestDone, inboxVars
  <2> QED
    BY <1>2, <2>1 DEF TaskTypes
<1>8. CASE ListRecent
  <2>1. UNCHANGED <<metadata, deliveries, observed, synced_at>> /\ ingest' \in {"idle", "correlating"}
    BY <1>8 DEF ListRecent, inboxVars, syncVars, rowVars
  <2>2. /\ listed' \in Seq(Messages) /\ Len(listed') <= ListLimit
        /\ \A k \in DOMAIN listed' : synced_at'[listed'[k]] # None
    BY <1>2, <1>8, <2>1, ListedTypes DEF TaskTypes
  <2> QED
    BY <2>1, <2>2 DEF TaskTypes
<1>9. CASE PassOver
  <2>1. /\ UNCHANGED <<metadata, deliveries, observed>> /\ ingest' \in {ingest, "idle"}
        /\ listed # <<>> /\ listed' \in {Tail(listed), <<>>}
    BY <1>9 DEF PassOver, inboxVars
  <2> QED
    BY <1>3, <2>1 DEF TaskTypes
<1>10. CASE Correlate
  <2>1. /\ UNCHANGED <<metadata, deliveries, observed>> /\ ingest' \in {ingest, "idle"}
        /\ listed # <<>> /\ listed' \in {Tail(listed), <<>>}
    BY <1>10, CorrelateCases
  <2> QED
    BY <1>3, <2>1 DEF TaskTypes
<1>11. CASE Restart
  BY <1>1, <1>11 DEF Restart, inboxVars, TaskTypes
<1>12. ASSUME NEW m \in Messages, Deliver(m) PROVE TaskTypes'
  <2>1. /\ deliveries < MaxDeliveries /\ deliveries' = deliveries + 1
        /\ Len(metadata) < ChannelCapacity /\ metadata' = Append(metadata, m)
        /\ UNCHANGED <<ingest, observed, listed>>
    BY <1>12 DEF Deliver, taskVars
  <2>2. metadata' \in Seq(Messages) /\ Len(metadata') = Len(metadata) + 1 /\ Len(metadata) \in Nat
    BY <2>1, AppendProperties DEF TaskTypes
  <2>3. deliveries' \in 0..MaxDeliveries /\ Len(metadata') <= ChannelCapacity
    BY <1>1, <2>1, <2>2 DEF TaskTypes
  <2> QED
    BY <1>2, <2>1, <2>2, <2>3 DEF TaskTypes
<1>13. CASE UNCHANGED vars \/ SyncStep
  BY <1>5, <1>13 DEF vars, ancsVars, inboxVars, SyncStep
<1> QED
  BY <1>6, <1>7, <1>8, <1>9, <1>10, <1>11, <1>12, <1>13 DEF Next, IngestStep

-----------------------------------------------------------------------------
(* The correlator.                                                         *)

\* A handle that is pushed to the seen list pushes at most the oldest one out.
LEMMA SeenGrows ==
  ASSUME CorrelatorTypes, NEW m \in Messages, See(m)
  PROVE  /\ seen' \in Seq(Messages) /\ Len(seen') <= SeenLimit
         /\ evicted' \subseteq Messages /\ evicted \subseteq evicted'
         /\ ToSet(seen) \cup evicted \cup {m} \subseteq ToSet(seen') \cup evicted'
<1>1. seen \in Seq(Messages) /\ Len(seen) <= SeenLimit /\ SeenLimit \in Nat \ {0}
      /\ evicted \subseteq Messages
  BY AncsIngestAssumption DEF CorrelatorTypes
<1>2. /\ seen' \in Seq(Messages) /\ Len(seen') <= SeenLimit
      /\ ToSet(seen) \cup {m} \subseteq
           ToSet(seen') \cup (IF Len(seen) = SeenLimit THEN {Head(seen)} ELSE {})
  BY <1>1, PushProperties DEF See
<1>3. evicted' = IF Len(seen) = SeenLimit THEN evicted \cup {Head(seen)} ELSE evicted
  BY DEF See
<1>4. Len(seen) = SeenLimit => Head(seen) \in Messages
  BY <1>1, HeadTail
<1> QED
  BY <1>1, <1>2, <1>3, <1>4

\* The same of the completed uids.
LEMMA CompletedGrows ==
  ASSUME CorrelatorTypes, NEW u \in Messages, NEW m \in Messages, Complete(u, m)
  PROVE  /\ completed_uids' \in Seq(Messages) /\ Len(completed_uids') <= CompletedLimit
         /\ forgotten' \subseteq Messages /\ forgotten \subseteq forgotten'
         /\ ToSet(completed_uids') \subseteq ToSet(completed_uids) \cup {u}
         /\ ToSet(completed_uids) \cup forgotten \cup {u} \subseteq
              ToSet(completed_uids') \cup forgotten'
         /\ paired' = paired \cup {<<u, m>>} /\ paired' \subseteq Messages \X Messages
<1>1. completed_uids \in Seq(Messages) /\ Len(completed_uids) <= CompletedLimit
      /\ CompletedLimit \in Nat \ {0} /\ forgotten \subseteq Messages
      /\ paired \subseteq Messages \X Messages
  BY AncsIngestAssumption DEF CorrelatorTypes
<1>2. /\ completed_uids' \in Seq(Messages) /\ Len(completed_uids') <= CompletedLimit
      /\ ToSet(completed_uids') \subseteq ToSet(completed_uids) \cup {u}
      /\ ToSet(completed_uids) \cup {u} \subseteq
           ToSet(completed_uids')
             \cup (IF Len(completed_uids) = CompletedLimit THEN {Head(completed_uids)} ELSE {})
  BY <1>1, PushProperties DEF Complete
<1>3. /\ forgotten' = IF Len(completed_uids) = CompletedLimit
                      THEN forgotten \cup {Head(completed_uids)} ELSE forgotten
      /\ paired' = paired \cup {<<u, m>>}
  BY DEF Complete
<1>4. Len(completed_uids) = CompletedLimit => Head(completed_uids) \in Messages
  BY <1>1, HeadTail
<1> QED
  BY <1>1, <1>2, <1>3, <1>4

\* A pair of a uid that is not completed, and a message that is not seen or waits:
\* whatever it shares with an earlier pair is forgotten.
LEMMA NewPair ==
  ASSUME CorrelatorTypes, PairsRemembered, PairedOnce, NEW u \in Messages, NEW m \in Messages,
         Complete(u, m), u \notin ToSet(completed_uids),
         \A p \in paired : p[2] = m => m \in evicted,
         evicted \subseteq evicted'
  PROVE  PairedOnce'
<1>1. forgotten \subseteq forgotten' /\ paired' = paired \cup {<<u, m>>}
  BY CompletedGrows
<1>2. \A p \in paired : p[1] = u => u \in forgotten
  BY DEF PairsRemembered
<1> SUFFICES ASSUME NEW p \in paired', NEW q \in paired', p # q
             PROVE  (p[1] = q[1] => p[1] \in forgotten') /\ (p[2] = q[2] => p[2] \in evicted')
  BY DEF PairedOnce
<1>3. CASE p \in paired /\ q \in paired
  BY <1>1, <1>3 DEF PairedOnce
<1>4. CASE p = <<u, m>> /\ q \in paired
  BY <1>1, <1>2, <1>4
<1>5. CASE p \in paired /\ q = <<u, m>>
  BY <1>1, <1>2, <1>5
<1> QED
  BY <1>1, <1>3, <1>4, <1>5

\* The correlator as a whole.
CInv == CorrelatorTypes /\ Pairing /\ PairedOnce

LEMMA ObservePairsHolds ==
  ASSUME CInv, NEW u \in Messages, NEW k \in DOMAIN messages, ObservePairs(u, k),
         UNCHANGED <<seen, evicted>>
  PROVE  CInv'
<1> DEFINE m == messages[k].handle
           handleOf == [w \in Waiting |-> w.handle]
<1>1. CorrelatorTypes /\ NoticedOnce /\ WaitingOnce /\ WaitingUnpaired /\ PairsRemembered /\ PairedOnce
  BY DEF CInv, Pairing
<1>2. /\ u \notin ToSet(completed_uids)
      /\ \A j \in DOMAIN notifications : notifications[j].uid # u
      /\ messages' = RemoveAt(messages, k) /\ Complete(u, m) /\ UNCHANGED notifications
  BY DEF ObservePairs
<1>3. /\ messages \in Seq(Waiting) /\ Len(messages) <= PendingLimit /\ PendingLimit \in Nat
      /\ \A j \in DOMAIN messages : messages[j] \in Waiting /\ messages[j].handle \in Messages
  BY <1>1, EntryTypes, AncsIngestAssumption DEF CorrelatorTypes
<1>4. m \in Messages
  BY <1>3
<1>5. \A j \in DOMAIN messages : handleOf[messages[j]] = messages[j].handle
  BY <1>3
<1> HIDE DEF m, handleOf
<1>6. \A i, j \in DOMAIN messages : handleOf[messages[i]] = handleOf[messages[j]] => i = j
  BY <1>1, <1>5 DEF WaitingOnce
<1>7. /\ messages' \in Seq(Waiting) /\ Len(messages') = Len(messages) - 1
      /\ \A i \in DOMAIN messages' : \E j \in DOMAIN messages : j # k /\ messages'[i] = messages[j]
      /\ \A i, j \in DOMAIN messages' : handleOf[messages'[i]] = handleOf[messages'[j]] => i = j
  <2> DEFINE r == RemoveAt(messages, k)
  <2>1. /\ messages \in Seq(Waiting) /\ k \in DOMAIN messages
        /\ \A i, j \in DOMAIN messages : handleOf[messages[i]] = handleOf[messages[j]] => i = j
    BY <1>3, <1>6
  <2>2. /\ r \in Seq(Waiting) /\ Len(r) = Len(messages) - 1
        /\ \A i \in DOMAIN r : \E j \in DOMAIN messages : j # k /\ r[i] = messages[j]
        /\ \A i, j \in DOMAIN r : handleOf[r[i]] = handleOf[r[j]] => i = j
    BY ONLY <2>1, RemoveDistinct
  <2>3. messages' = r
    BY <1>2
  <2> HIDE DEF r
  <2> QED
    BY <2>2, <2>3
<1>8. Len(messages') <= PendingLimit
  BY <1>3, <1>7
<1>9. CorrelatorTypes'
  BY <1>1, <1>2, <1>4, <1>7, <1>8, CompletedGrows DEF CorrelatorTypes
<1>10. NoticedOnce'
  BY <1>1, <1>2, <1>4, CompletedGrows DEF NoticedOnce
<1>11. \A i \in DOMAIN messages' : \E j \in DOMAIN messages :
         j # k /\ messages'[i] = messages[j] /\ messages'[i].handle = messages[j].handle
         /\ messages[j].handle # m /\ handleOf[messages'[i]] = messages'[i].handle
  BY <1>1, <1>5, <1>7 DEF WaitingOnce, m
<1>12. WaitingOnce'
  BY <1>1, <1>7, <1>11 DEF WaitingOnce
<1>13. PairsRemembered'
  <2>1. /\ ToSet(completed_uids) \cup forgotten \cup {u} \subseteq ToSet(completed_uids') \cup forgotten'
        /\ paired' = paired \cup {<<u, m>>}
    BY <1>1, <1>2, <1>4, CompletedGrows
  <2>2. m \in ToSet(seen) \cup evicted
    BY <1>1 DEF WaitingOnce, m
  <2> QED
    BY <1>1, <2>1, <2>2 DEF PairsRemembered
<1>14. WaitingUnpaired'
  <2>1. paired' = paired \cup {<<u, m>>}
    BY <1>1, <1>2, <1>4, CompletedGrows
  <2> QED
    BY <1>1, <1>11, <2>1 DEF WaitingUnpaired
<1>15. PairedOnce'
  <2>1. \A p \in paired : p[2] = m => m \in evicted
    BY <1>1 DEF WaitingUnpaired, m
  <2> QED
    BY <1>1, <1>2, <1>4, <2>1, NewPair
<1> QED
  BY <1>9, <1>10, <1>12, <1>13, <1>14, <1>15 DEF CInv, Pairing

\* A notification that waits gets its new time.
LEMMA ObserveUpdatesHolds ==
  ASSUME CInv, now \in 0..MaxTime, NEW u \in Messages, ObserveUpdates(u), UNCHANGED <<seen, evicted>>
  PROVE  CInv'
<1>1. CorrelatorTypes /\ NoticedOnce /\ WaitingOnce /\ WaitingUnpaired /\ PairsRemembered /\ PairedOnce
  BY DEF CInv, Pairing
<1> DEFINE n == [uid |-> u, at |-> now]
<1>2. /\ notifications' = [k \in DOMAIN notifications |->
                             IF notifications[k].uid = u THEN n ELSE notifications[k]]
      /\ UNCHANGED <<messages, completed_uids, paired, forgotten>>
  BY DEF ObserveUpdates
<1>3. notifications \in Seq(Noticed) /\ \A k \in DOMAIN notifications : notifications[k] \in Noticed
  BY <1>1, EntryTypes DEF CorrelatorTypes
<1>4. n \in Noticed
  BY DEF Noticed
<1>5. notifications' \in [1..Len(notifications) -> Noticed] /\ Len(notifications) \in Nat
  BY <1>2, <1>3, <1>4
<1>6. notifications' \in Seq(Noticed) /\ Len(notifications') = Len(notifications)
  BY <1>5
<1>7. DOMAIN notifications' = DOMAIN notifications
      /\ \A k \in DOMAIN notifications : notifications'[k].uid = notifications[k].uid
  BY <1>2
<1>8. CorrelatorTypes'
  BY <1>1, <1>2, <1>6 DEF CorrelatorTypes
<1> QED
  BY <1>1, <1>2, <1>7, <1>8
  DEF CInv, Pairing, NoticedOnce, WaitingOnce, WaitingUnpaired, PairsRemembered, PairedOnce

\* A new notification waits: it was not waiting, and is not completed.
LEMMA ObserveWaitsHolds ==
  ASSUME CInv, now \in 0..MaxTime, NEW u \in Messages, ObserveWaits(u), UNCHANGED <<seen, evicted>>
  PROVE  CInv'
<1> DEFINE n == [uid |-> u, at |-> now]
           uidOf == [x \in Noticed |-> x.uid]
           r == PushBounded(notifications, n, PendingLimit)
<1>1. CorrelatorTypes /\ NoticedOnce /\ WaitingOnce /\ WaitingUnpaired /\ PairsRemembered /\ PairedOnce
  BY DEF CInv, Pairing
<1>2. /\ u \notin ToSet(completed_uids)
      /\ \A j \in DOMAIN notifications : notifications[j].uid # u
      /\ notifications' = r
      /\ UNCHANGED <<messages, completed_uids, paired, forgotten>>
  BY DEF ObserveWaits
<1>3. /\ notifications \in Seq(Noticed) /\ Len(notifications) <= PendingLimit
      /\ PendingLimit \in Nat \ {0} /\ n \in Noticed
  BY <1>1, AncsIngestAssumption DEF CorrelatorTypes, Noticed
<1>4. \A x \in Noticed : uidOf[x] = x.uid
  OBVIOUS
<1>5. \A k \in DOMAIN notifications : notifications[k] \in Noticed
  BY <1>3
<1>6. /\ \A i, j \in DOMAIN notifications : uidOf[notifications[i]] = uidOf[notifications[j]] => i = j
      /\ \A i \in DOMAIN notifications : uidOf[notifications[i]] # uidOf[n]
  BY <1>1, <1>2, <1>3, <1>4, <1>5 DEF NoticedOnce
<1> HIDE DEF uidOf, n
<1>7. /\ r \in Seq(Noticed) /\ Len(r) <= PendingLimit /\ ToSet(r) \subseteq ToSet(notifications) \cup {n}
  BY ONLY <1>3, PushProperties
<1>8. \A i, j \in DOMAIN r : uidOf[r[i]] = uidOf[r[j]] => i = j
  BY ONLY <1>3, <1>6, PushDistinct
<1> HIDE DEF r
<1>9. \A i \in DOMAIN r : uidOf[r[i]] = r[i].uid
  BY <1>4, <1>7
<1>10. \A i \in DOMAIN r : r[i] = n \/ \E j \in DOMAIN notifications : r[i] = notifications[j]
  BY <1>7 DEF ToSet
<1>11. NoticedOnce'
  <2>1. n.uid = u
    BY DEF n
  <2> QED
    BY <1>1, <1>2, <1>8, <1>9, <1>10, <2>1 DEF NoticedOnce
<1>12. CorrelatorTypes'
  BY <1>1, <1>2, <1>7 DEF CorrelatorTypes
<1> QED
  BY <1>1, <1>2, <1>11, <1>12 DEF CInv, Pairing, WaitingOnce, WaitingUnpaired, PairsRemembered, PairedOnce

\* The seen list grows and the correlator is left alone.
LEMMA SeeHolds ==
  ASSUME CInv, NEW m \in Messages, See(m), UNCHANGED correlatorVars
  PROVE  CInv'
<1>1. CorrelatorTypes
  BY DEF CInv
<1>2. /\ seen' \in Seq(Messages) /\ Len(seen') <= SeenLimit
      /\ evicted' \subseteq Messages /\ evicted \subseteq evicted'
      /\ ToSet(seen) \cup evicted \cup {m} \subseteq ToSet(seen') \cup evicted'
  BY <1>1, SeenGrows
<1>3. CorrelatorTypes'
  BY <1>1, <1>2 DEF CorrelatorTypes, correlatorVars
<1>4. NoticedOnce' /\ WaitingOnce' /\ WaitingUnpaired' /\ PairsRemembered' /\ PairedOnce'
  BY <1>2 DEF correlatorVars, CInv, Pairing, NoticedOnce, WaitingOnce, WaitingUnpaired,
              PairsRemembered, PairedOnce
<1> QED
  BY <1>3, <1>4 DEF CInv, Pairing

\* A message that is not seen finds a notification: unless it was evicted, it has not
\* been paired.
LEMMA CorrelatePairsHolds ==
  ASSUME CInv, NEW m \in Messages, Unseen(m), See(m), NEW k \in DOMAIN notifications,
         CorrelatePairs(m, k)
  PROVE  CInv'
<1> DEFINE u == notifications[k].uid
           uidOf == [x \in Noticed |-> x.uid]
           r == RemoveAt(notifications, k)
<1>1. CorrelatorTypes /\ NoticedOnce /\ WaitingOnce /\ WaitingUnpaired /\ PairsRemembered /\ PairedOnce
  BY DEF CInv, Pairing
<1>2. notifications' = r /\ Complete(u, m) /\ UNCHANGED messages
  BY DEF CorrelatePairs
<1>3. /\ notifications \in Seq(Noticed) /\ Len(notifications) <= PendingLimit /\ PendingLimit \in Nat
      /\ k \in DOMAIN notifications
  BY <1>1, AncsIngestAssumption DEF CorrelatorTypes
<1>4. \A j \in DOMAIN notifications :
        uidOf[notifications[j]] = notifications[j].uid /\ notifications[j].uid \in Messages
  BY <1>1, EntryTypes
<1>5. u \in Messages /\ u \notin ToSet(completed_uids)
  BY <1>1, <1>4 DEF NoticedOnce
<1> HIDE DEF u, uidOf
<1>6. \A i, j \in DOMAIN notifications : uidOf[notifications[i]] = uidOf[notifications[j]] => i = j
  BY <1>1, <1>4 DEF NoticedOnce
<1>7. /\ r \in Seq(Noticed) /\ Len(r) = Len(notifications) - 1
      /\ \A i \in DOMAIN r : \E j \in DOMAIN notifications : j # k /\ r[i] = notifications[j]
      /\ \A i, j \in DOMAIN r : uidOf[r[i]] = uidOf[r[j]] => i = j
  BY ONLY <1>3, <1>6, RemoveDistinct
<1> HIDE DEF r
<1>8. Len(r) <= PendingLimit
  BY <1>3, <1>7
<1>9. \A i \in DOMAIN r : \E j \in DOMAIN notifications :
        r[i].uid = notifications[j].uid /\ notifications[j].uid # u /\ uidOf[r[i]] = r[i].uid
  BY <1>1, <1>4, <1>7 DEF NoticedOnce, u
<1>10. /\ seen' \in Seq(Messages) /\ Len(seen') <= SeenLimit
       /\ evicted' \subseteq Messages /\ evicted \subseteq evicted'
       /\ ToSet(seen) \cup evicted \cup {m} \subseteq ToSet(seen') \cup evicted'
  BY <1>1, SeenGrows
<1>11. /\ completed_uids' \in Seq(Messages) /\ Len(completed_uids') <= CompletedLimit
       /\ forgotten' \subseteq Messages
       /\ ToSet(completed_uids') \subseteq ToSet(completed_uids) \cup {u}
       /\ ToSet(completed_uids) \cup forgotten \cup {u} \subseteq ToSet(completed_uids') \cup forgotten'
       /\ paired' = paired \cup {<<u, m>>} /\ paired' \subseteq Messages \X Messages
  BY <1>1, <1>2, <1>5, CompletedGrows
<1>12. CorrelatorTypes'
  BY <1>1, <1>2, <1>7, <1>8, <1>10, <1>11 DEF CorrelatorTypes
<1>13. NoticedOnce'
  BY <1>1, <1>2, <1>7, <1>9, <1>11 DEF NoticedOnce
<1>14. WaitingOnce'
  BY <1>1, <1>2, <1>10 DEF WaitingOnce
<1>15. PairsRemembered'
  BY <1>1, <1>10, <1>11 DEF PairsRemembered
<1>16. WaitingUnpaired'
  <2>1. \A j \in DOMAIN messages : messages[j].handle = m => m \in evicted
    BY <1>1 DEF WaitingOnce, Unseen
  <2> QED
    BY <1>1, <1>2, <1>10, <1>11, <2>1 DEF WaitingUnpaired
<1>17. PairedOnce'
  <2>1. \A p \in paired : p[2] = m => m \in evicted
    BY <1>1 DEF PairsRemembered, Unseen
  <2> QED
    BY <1>1, <1>2, <1>5, <1>10, <2>1, NewPair
<1> QED
  BY <1>12, <1>13, <1>14, <1>15, <1>16, <1>17 DEF CInv, Pairing

\* A message that is not seen waits: unless it was evicted, it has not been paired.
LEMMA CorrelateWaitsHolds ==
  ASSUME CInv, NEW m \in Messages, synced_at[m] \in 0..MaxTime, Unseen(m), See(m), CorrelateWaits(m)
  PROVE  CInv'
<1> DEFINE w == [handle |-> m, at |-> synced_at[m]]
           handleOf == [x \in Waiting |-> x.handle]
           r == PushBounded(messages, w, PendingLimit)
<1>1. CorrelatorTypes /\ NoticedOnce /\ WaitingOnce /\ WaitingUnpaired /\ PairsRemembered /\ PairedOnce
  BY DEF CInv, Pairing
<1>2. UNCHANGED <<notifications, completed_uids, paired, forgotten>>
  BY DEF CorrelateWaits
<1>3. CASE UNCHANGED messages
  BY <1>2, <1>3, SeeHolds DEF correlatorVars
<1>4. CASE messages' # messages
  <2>1. (\A k \in DOMAIN messages : messages[k].handle # m) /\ messages' = r
    BY <1>4 DEF CorrelateWaits
  <2>2. /\ messages \in Seq(Waiting) /\ Len(messages) <= PendingLimit
        /\ PendingLimit \in Nat \ {0} /\ w \in Waiting
    BY <1>1, AncsIngestAssumption DEF CorrelatorTypes, Waiting
  <2>3. \A x \in Waiting : handleOf[x] = x.handle
    OBVIOUS
  <2>4. \A k \in DOMAIN messages : messages[k] \in Waiting
    BY <2>2
  <2>5. /\ \A i, j \in DOMAIN messages : handleOf[messages[i]] = handleOf[messages[j]] => i = j
        /\ \A i \in DOMAIN messages : handleOf[messages[i]] # handleOf[w]
    BY <1>1, <2>1, <2>2, <2>3, <2>4 DEF WaitingOnce
  <2>6. w.handle = m
    OBVIOUS
  <2> HIDE DEF handleOf, w
  <2>7. r \in Seq(Waiting) /\ Len(r) <= PendingLimit /\ ToSet(r) \subseteq ToSet(messages) \cup {w}
    BY ONLY <2>2, PushProperties
  <2>8. \A i, j \in DOMAIN r : handleOf[r[i]] = handleOf[r[j]] => i = j
    BY ONLY <2>2, <2>5, PushDistinct
  <2> HIDE DEF r
  <2>9. \A i \in DOMAIN r : handleOf[r[i]] = r[i].handle
    BY <2>3, <2>7
  <2>10. \A i \in DOMAIN r : r[i].handle = m \/ \E j \in DOMAIN messages : r[i].handle = messages[j].handle
    BY <2>6, <2>7 DEF ToSet
  <2>11. /\ seen' \in Seq(Messages) /\ Len(seen') <= SeenLimit
         /\ evicted' \subseteq Messages /\ evicted \subseteq evicted'
         /\ ToSet(seen) \cup evicted \cup {m} \subseteq ToSet(seen') \cup evicted'
    BY <1>1, SeenGrows
  <2>12. CorrelatorTypes'
    BY <1>1, <1>2, <2>1, <2>7, <2>11 DEF CorrelatorTypes
  <2>13. WaitingOnce'
    BY <1>1, <2>1, <2>8, <2>9, <2>10, <2>11 DEF WaitingOnce
  <2>14. WaitingUnpaired'
    <3>1. \A p \in paired : p[2] = m => m \in evicted
      BY <1>1 DEF PairsRemembered, Unseen
    <3> QED
      BY <1>1, <1>2, <2>1, <2>10, <2>11, <3>1 DEF WaitingUnpaired
  <2>15. NoticedOnce' /\ PairsRemembered' /\ PairedOnce'
    BY <1>1, <1>2, <2>11 DEF NoticedOnce, PairsRemembered, PairedOnce
  <2> QED
    BY <2>12, <2>13, <2>14, <2>15 DEF CInv, Pairing
<1> QED
  BY <1>3, <1>4

LEMMA CorrelatorHolds ==
  ASSUME SInv, TaskTypes, CInv, [Next]_vars
  PROVE  CInv'
<1>1. now \in 0..MaxTime /\ synced_at \in [Messages -> 0..MaxTime \cup {None}]
  BY DEF SInv, Types
<1>2. CASE UNCHANGED <<correlatorVars, seenVars>>
  BY <1>2 DEF correlatorVars, seenVars, CInv, CorrelatorTypes, Pairing, NoticedOnce, WaitingOnce,
              WaitingUnpaired, PairsRemembered, PairedOnce
<1>3. CASE Observe
  <2> DEFINE u == Head(metadata)
  <2>1. /\ metadata # <<>> /\ UNCHANGED <<seen, evicted>>
        /\ \/ UNCHANGED correlatorVars
           \/ ObserveUpdates(u)
           \/ \E k \in DOMAIN messages : ObservePairs(u, k)
           \/ ObserveWaits(u)
    BY <1>3, ObserveCases
  <2>2. u \in Messages
    BY <2>1, HeadTail DEF TaskTypes
  <2> HIDE DEF u
  <2> QED
    BY <1>1, <1>2, <2>1, <2>2, ObserveUpdatesHolds, ObservePairsHolds, ObserveWaitsHolds DEF seenVars
<1>4. listed # <<>> => Head(listed) \in Messages /\ synced_at[Head(listed)] # None
  <2> SUFFICES ASSUME listed # <<>>
               PROVE  Head(listed) \in Messages /\ synced_at[Head(listed)] # None
    OBVIOUS
  <2>1. listed \in Seq(Messages) /\ \A k \in DOMAIN listed : synced_at[listed[k]] # None
    BY DEF TaskTypes
  <2>2. Head(listed) = listed[1] /\ Head(listed) \in Messages /\ 1 \in DOMAIN listed
    BY <2>1, HeadTail
  <2> QED
    BY <2>1, <2>2
<1>5. CASE Correlate
  <2> DEFINE m == Head(listed)
  <2>1. /\ listed # <<>> /\ Unseen(m) /\ See(m)
        /\ \/ \E k \in DOMAIN notifications : CorrelatePairs(m, k)
           \/ CorrelateWaits(m)
           \/ UNCHANGED correlatorVars
    BY <1>5, CorrelateCases
  <2>2. m \in Messages /\ synced_at[m] \in 0..MaxTime
    BY <1>1, <1>4, <2>1
  <2> HIDE DEF m
  <2> QED
    BY <2>1, <2>2, CorrelatePairsHolds, CorrelateWaitsHolds, SeeHolds
<1>6. CASE PassOver
  <2>1. /\ UNCHANGED correlatorVars /\ listed # <<>>
        /\ UNCHANGED seenVars \/ See(Head(listed))
    BY <1>6 DEF PassOver
  <2> QED
    BY <1>2, <1>4, <2>1, SeeHolds
<1>7. CASE Restart
  <2>1. /\ notifications' = <<>> /\ messages' = <<>> /\ completed_uids' = <<>> /\ seen' = <<>>
        /\ paired' = {} /\ forgotten' = {} /\ evicted' = {}
    BY <1>7 DEF Restart
  <2>2. CorrelatorTypes'
    BY <2>1, AncsIngestAssumption DEF CorrelatorTypes
  <2> QED
    BY <2>1, <2>2 DEF CInv, Pairing, NoticedOnce, WaitingOnce, WaitingUnpaired, PairsRemembered, PairedOnce
<1>8. CASE \/ UNCHANGED vars \/ SyncStep \/ (\E m \in Messages : Deliver(m))
           \/ NotifyCoordinator \/ SyncReturns \/ ListRecent \/ IngestDone
  BY <1>2, <1>8 DEF vars, ancsVars, SyncStep, Deliver, NotifyCoordinator, SyncReturns, ListRecent, IngestDone
<1> QED
  BY <1>3, <1>5, <1>6, <1>7, <1>8 DEF Next, IngestStep

-----------------------------------------------------------------------------
LEMMA PInitHolds == IngestInit => PInv
<1> SUFFICES ASSUME IngestInit PROVE PInv
  OBVIOUS
<1>1. SyncInit /\ MaxTime \in Nat /\ poll_interval \in Nat /\ MaxDeliveries \in Nat
  BY MessageSyncAssumption, AncsIngestAssumption DEF IngestInit
<1>2. SchedulerTypes
  BY <1>1 DEF SyncInit, SchedulerTypes
<1>3. StoreTypes
  <2>1. PICK inbox \in Inboxes : subtitle = [m \in Messages |-> inbox[m].subtitle]
    BY DEF IngestInit
  <2>2. inbox \in [Messages -> [sender : Senders, subtitle : Groups \cup {Direct}]]
    BY AncsIngestAssumption
  <2>3. subtitle \in [Messages -> Groups \cup {Direct}]
    BY <2>1, <2>2
  <2> QED
    BY <1>1, <2>3 DEF SyncInit, IngestInit, StoreTypes
<1>4. TaskTypes
  BY <1>1, AncsIngestAssumption DEF IngestInit, TaskTypes
<1>5. CorrelatorTypes
  BY AncsIngestAssumption DEF IngestInit, CorrelatorTypes
<1>6. Pairing /\ PairedOnce
  BY DEF IngestInit, Pairing, NoticedOnce, WaitingOnce, WaitingUnpaired, PairsRemembered, PairedOnce
<1> QED
  BY <1>2, <1>3, <1>4, <1>5, <1>6, InitHolds DEF PInv

LEMMA PInductive == Spec => []PInv
<1>1. PInv /\ [Next]_vars => PInv'
  BY NextHolds, SchedulerHolds, StoreHolds, TaskHolds, CorrelatorHolds DEF PInv, CInv
<1> QED
  BY PInitHolds, <1>1, PTL DEF Spec

\* Whatever ingest_ancs_metadata, the coordinator and the correlator do, their state is
\* well-typed and channel, list, pending and remembered queues keep their limits.
THEOREM IngestTypeCorrect == Spec => []IngestTypeOK
<1>1. PInv => IngestTypeOK
  BY DEF PInv, SInv, Types, StateInStep, SchedulerTypes, StoreTypes, TaskTypes, CorrelatorTypes,
         Noticed, Waiting, IngestTypeOK, SyncTypeOK
<1> QED
  BY PInductive, <1>1, PTL

\* AncsMapCorrelator pairs a notification with one message and a message with one
\* notification, for as long as completed_uids and ancs_seen_map_handles remember them.
THEOREM PairsAreUnique == Spec => []PairedOnce
<1>1. PInv => PairedOnce
  BY DEF PInv
<1> QED
  BY PInductive, <1>1, PTL
=============================================================================
