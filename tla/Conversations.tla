---------------------------- MODULE Conversations ----------------------------
(***************************************************************************)
(* Reading conversations: conversation_page and conversation_messages      *)
(* (crates/analogconnectd/src/lib.rs), ConversationRepository and          *)
(* ConversationAliases (conversations.rs), with the rows of imsg-store     *)
(* (vendor/imsg-store/src/read.rs) under them.                             *)
(*                                                                         *)
(* A page of conversations is cut from the rows first; then the contact    *)
(* names are looked up, one await after the other; then the rows get their *)
(* ids under the lock of the aliases.  Messages arrive, are moved into     *)
(* groups and out of them (AncsIngest), and the daemon restarts meanwhile. *)
(* The aliases are in memory, the messages are not.                        *)
(***************************************************************************)
EXTENDS Paging

CONSTANTS
  Privates, Groups,  \* conversation keys, as integers in their order
  Ids,               \* random ids
  Times,             \* timestamps
  MaxMessages,       \* bound: messages in the store
  MaxLag,            \* bound: how much older than the newest one a new message is
  None, Inbox        \* no list is walked; the list of conversations is

Keys == Privates \cup Groups

ASSUME ConversationsAssumption ==
  /\ Keys \subseteq Nat /\ Privates \cap Groups = {}
  /\ Ids \cap Keys = {} /\ {None, Inbox} \cap (Ids \cup Keys) = {} /\ None # Inbox
  /\ Times \subseteq Nat \ {0} /\ MaxMessages \in Nat /\ MaxLag \in Nat
  \* enough departures are counted for any walk: the one that left is not missed
  /\ IsFiniteSet(Keys) /\ Cardinality(Keys) <= MaxDeparted + 1 /\ MaxMessages <= MaxDeparted + 1

VARIABLES
  log,                   \* the messages in the order of their rowids
  key_to_id, id_to_key,  \* ConversationAliases
  request,               \* the request in progress: its step and its page
  subject,               \* what the client walks: None, Inbox or an id
  told                   \* history: the ids the client was given, with their keys

aliasVars == <<key_to_id, id_to_key>>
chatVars == <<log, aliasVars, request, subject, told, walk>>

-----------------------------------------------------------------------------
(* The rows (vendor/imsg-store/src/read.rs).                               *)

Of(l, k) == {i \in DOMAIN l : l[i].key = k}

\* MAX(m.timestamp_ms) of a conversation, 0 for one without messages.
Latest(l, k) == Max({0} \cup {l[i].time : i \in Of(l, k)})

\* conversations: newest first.  The SQL leaves the order of equal timestamps
\* open; it is taken to be the one in which GROUP BY comes to them, by key, as
\* InMemoryConversationRepository sorts them.
ThreadOrder(l) ==
  {p \in Keys \X Keys : \/ Latest(l, p[1]) > Latest(l, p[2])
                        \/ Latest(l, p[1]) = Latest(l, p[2]) /\ p[1] < p[2]}

Talking(l) == {k \in Keys : Of(l, k) # {}}

Threads(l) == Ordered(Talking(l), ThreadOrder(l))

\* messages_for: newest first, then by rowid, newest first.
MessageOrder(l) ==
  {p \in (DOMAIN l) \X (DOMAIN l) : \/ l[p[1]].time > l[p[2]].time
                                    \/ l[p[1]].time = l[p[2]].time /\ p[1] > p[2]}

MessagesFor(l, k) == Ordered(Of(l, k), MessageOrder(l))

\* The walk after the messages have become l: a conversation moves when its
\* latest timestamp changes, a message leaves with its key.
WalkOn(l) ==
  IF subject = Inbox
  THEN Disturbed(walk, {k \in Keys : Latest(l, k) # Latest(log, k)},
                 Cardinality({k \in Keys : Latest(l, k) < Latest(log, k)}))
  ELSE LET gone == {i \in DOMAIN log : <<subject, log[i].key>> \in told /\ l[i].key # log[i].key}
       IN  Disturbed(walk, gone, Cardinality(gone))

-----------------------------------------------------------------------------
Idle == [step |-> "idle", items |-> <<>>, more |-> FALSE]

ChatInit ==
  /\ log = <<>> /\ key_to_id = <<>> /\ id_to_key = <<>>
  /\ request = Idle /\ subject = None /\ walk = NoWalk
  /\ told = {}

\* A message is stored; it need not be the newest by its timestamp.
Arrive(k, t) ==
  LET l == Append(log, [origin |-> k, key |-> k, time |-> t])
  IN  /\ Len(log) < MaxMessages /\ \A i \in DOMAIN log : log[i].time <= t + MaxLag
      /\ log' = l /\ walk' = WalkOn(l)
      /\ UNCHANGED <<aliasVars, request, subject, told>>

\* A message is assigned to a group, or a sync puts its own key back.
Rekey(i, k) ==
  LET l == [log EXCEPT ![i].key = k]
  IN  /\ k \in (Groups \cup {log[i].origin}) \ {log[i].key}
      /\ log' = l /\ walk' = WalkOn(l)
      /\ UNCHANGED <<aliasVars, request, subject, told>>

\* The daemon stops, in the middle of a request or not, and starts again.
DaemonRestarts ==
  /\ key_to_id' = <<>> /\ id_to_key' = <<>> /\ request' = Idle
  /\ UNCHANGED <<log, subject, told, walk>>

-----------------------------------------------------------------------------
(* The list of conversations.                                              *)

\* conversation_page up to its page of rows.  The client goes on with a walk
\* or begins a new one.
ReadConversations(limit) ==
  LET rows == Threads(log)
      w    == IF subject = Inbox /\ walk.state = "open" THEN walk ELSE Begun(rows)
  IN  /\ request = Idle
      /\ subject' = Inbox /\ walk' = w
      /\ request' = [step |-> "named", items |-> Slice(rows, w.offset, limit),
                     more |-> w.offset + limit < Len(rows)]
      /\ UNCHANGED <<log, aliasVars, told>>

\* The lookup of a contact's name fails: the client may ask again.
Fail ==
  /\ request # Idle /\ request' = Idle
  /\ UNCHANGED <<log, aliasVars, subject, told, walk>>

\* The ids the client was ever given.
Given == {p[1] : p \in told}

\* Seeded fault: a random id is taken without looking for it.
FreshUnchecked == {id \in Ids : id \in DOMAIN id_to_key \/ id \notin Given}

\* What up to four random draws can give: one that is in use is drawn again,
\* and 128 random bits do not repeat an id that was given away by an earlier
\* run of the daemon.
Fresh == Ids \ (DOMAIN id_to_key \cup Given)

\* expose_stable_id for a group, id_for for the others.  No random id is a
\* group's key, so a group never finds its key taken.
IdFor(k) ==
  IF k \in DOMAIN key_to_id THEN {key_to_id[k]}
  ELSE IF k \in Groups THEN {k} ELSE Fresh

\* A map after the insertion of the entries of another one.
Inserted(entries, map) ==
  [x \in DOMAIN entries \cup DOMAIN map |-> IF x \in DOMAIN entries THEN entries[x] ELSE map[x]]

\* The rows of the page get their ids, under one lock.  When the random source
\* fails at a row the page is lost, but the rows before it keep theirs.
ExposeIds ==
  /\ request.step = "named"
  /\ \E n \in 0..Len(request.items) :
       LET page == ToSet(request.items)
           done == ToSet(SubSeq(request.items, 1, n))
       IN  /\ n < Len(request.items) => request.items[n + 1] \in Privates \ DOMAIN key_to_id
           /\ \E ids \in [done -> Ids \cup Groups] :
                /\ \A k \in done : ids[k] \in IdFor(k)
                /\ \A j, k \in done : ids[j] = ids[k] => j = k
                /\ key_to_id' = Inserted(ids, key_to_id)
                /\ id_to_key' = Inserted([i \in {ids[k] : k \in done} |->
                                            CHOOSE k \in done : ids[k] = i], id_to_key)
                /\ told' = IF done = page THEN told \cup {<<ids[k], k>> : k \in page} ELSE told
           /\ walk' = IF done = page THEN Turned(walk, request.items, request.more) ELSE walk
           /\ subject' = IF walk'.state = "open" THEN Inbox ELSE None
  /\ request' = Idle
  /\ UNCHANGED log

-----------------------------------------------------------------------------
(* The messages of a conversation.                                         *)

\* messages_for, with one row more than the limit to see whether there are more.
ReadMessages(w, rows, limit) ==
  LET fetched == Slice(rows, w.offset, limit + 1)
  IN  walk' = Turned(w, Slice(fetched, 0, limit), Len(fetched) > limit)

\* conversation_messages, for an id the client was given: it goes on with its
\* walk or begins a new one.  An id the daemon does not know is gone.  What
\* key_for finds stays so until the daemon stops, so it is one step with the
\* read.
ConversationMessages(id, limit) ==
  LET continued == subject = id /\ walk.state = "open"
  IN  /\ request = Idle
      /\ \/ /\ id \in DOMAIN id_to_key /\ (continued => walk.offset <= MaxOffset)
            /\ LET rows == MessagesFor(log, id_to_key[id])
               IN  ReadMessages(IF continued THEN walk ELSE Begun(rows), rows, limit)
            /\ subject' = IF walk'.state = "open" THEN id ELSE None
         \/ /\ id \notin DOMAIN id_to_key \/ (continued /\ walk.offset > MaxOffset)
            /\ subject' = None /\ walk' = NoWalk
      /\ UNCHANGED <<log, aliasVars, request, told>>

-----------------------------------------------------------------------------
StoreStep ==
  \/ \E k \in Privates, t \in Times : Arrive(k, t)
  \/ \E i \in DOMAIN log, k \in Keys : Rekey(i, k)

ReaderStep ==
  \/ \E limit \in Limits : ReadConversations(limit)
  \/ Fail \/ ExposeIds
  \/ \E id \in Given, limit \in Limits : ConversationMessages(id, limit)

ChatNext == StoreStep \/ ReaderStep \/ DaemonRestarts

ChatSpec == ChatInit /\ [][ChatNext]_chatVars

-----------------------------------------------------------------------------
\* An id the client was ever given means the conversation it was given for or
\* nothing at all: not another conversation, after a restart either, so no one
\* reads the wrong one.  (That 128 random bits do not repeat an id of an earlier run
\* is assumed.)
IdsNameOneConversation ==
  \A p \in told : p[1] \in DOMAIN id_to_key => id_to_key[p[1]] = p[2]
=============================================================================
