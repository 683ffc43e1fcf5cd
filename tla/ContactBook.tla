----------------------------- MODULE ContactBook -----------------------------
(***************************************************************************)
(* The contact store (crates/analogconnectd/src/contacts.rs), the task     *)
(* that replaces it (start_contact_sync_task in lib.rs), the parser of     *)
(* imsg's output (crates/analogconnect-core/src/contacts.rs) and the       *)
(* contact list of the API (contact_page in lib.rs).  The store is in      *)
(* memory: it is empty after a restart.                                    *)
(*                                                                         *)
(* A contact stands for its display name and numbers and is ordered as the *)
(* names are.                                                              *)
(***************************************************************************)
EXTENDS Paging

CONSTANTS
  Contacts,     \* contacts, as integers in the order of their names
  Usable,       \* those with a number PhoneNumber::parse takes
  Named,        \* those with a name: "(unknown)" is none
  Phonebooks    \* bound: what the phone can hold in an instance

ASSUME ContactBookAssumption ==
  /\ Contacts \subseteq Nat /\ Usable \subseteq Contacts /\ Named \subseteq Contacts
  /\ Phonebooks \subseteq SUBSET Contacts
  \* enough departures are counted for any walk: the one that left is not missed
  /\ IsFiniteSet(Usable) /\ Cardinality(Usable \cap Named) <= MaxDeparted + 1

VARIABLES
  phone,     \* the phonebook on the phone (external)
  book,      \* the rows of contacts that are committed
  task,      \* where the sync task is
  pulled,    \* the contacts it has pulled
  inserted,  \* the rows of its transaction
  summary,   \* contact_count of contact_summary
  whole      \* history: the pull that was committed last

taskVars == <<task, pulled, inserted>>
vars == <<phone, book, taskVars, summary, whole, walk>>

-----------------------------------------------------------------------------
Init ==
  /\ phone \in Phonebooks /\ book = {} /\ whole = {}
  /\ task = "pulling" /\ pulled = {} /\ inserted = {} /\ summary = 0
  /\ walk = NoWalk

\* The owner edits the phonebook.
PhoneChanges ==
  /\ phone' \in Phonebooks \ {phone}
  /\ UNCHANGED <<book, taskVars, summary, whole, walk>>

\* parse_imsg_contacts: a contact without a usable number is dropped.
Parsed(raw) == raw \cap Usable

\* NoUsableContacts: there are contacts, but none to keep.
Unparsable(raw) == raw # {} /\ Parsed(raw) = {}

\* ImsgContactSource::pull_all, and replace_all up to its DELETE.
Pull ==
  /\ task = "pulling" /\ ~Unparsable(phone)
  /\ task' = "replacing" /\ pulled' = Parsed(phone) /\ inserted' = {}
  /\ UNCHANGED <<phone, book, summary, whole, walk>>

\* imsg cannot be started, fails or prints what cannot be parsed.
PullFails ==
  /\ task = "pulling"
  /\ task' = "asleep"
  /\ UNCHANGED <<phone, book, pulled, inserted, summary, whole, walk>>

\* The INSERTs of one contact, in the order they were pulled.
Insert ==
  /\ task = "replacing" /\ inserted # pulled
  /\ inserted' = inserted \cup {CHOOSE c \in pulled \ inserted :
                                  \A d \in pulled \ inserted : c <= d}
  /\ UNCHANGED <<phone, book, task, pulled, summary, whole, walk>>

\* The attempt is over; what it held is dropped.
Sleep == task' = "asleep" /\ pulled' = {} /\ inserted' = {}

\* Seeded fault: what was inserted before an error stays.
InsertFailsKeeps ==
  /\ task = "replacing"
  /\ Sleep /\ book' = inserted
  /\ UNCHANGED <<phone, summary, whole, walk>>

\* A statement fails: the transaction is dropped, which rolls it back.
InsertFails ==
  /\ task = "replacing"
  /\ Sleep
  /\ UNCHANGED <<phone, book, summary, whole, walk>>

Listed(rows) == rows \cap Named

Commit ==
  /\ task = "replacing" /\ inserted = pulled
  /\ book' = inserted /\ whole' = pulled /\ task' = "summarizing"
  /\ LET gone == Listed(book) \ Listed(inserted)
     IN  walk' = Disturbed(walk, gone, Cardinality(gone))
  /\ UNCHANGED <<phone, pulled, inserted, summary>>

\* The task has the write lock of contact_summary.
Summarize ==
  /\ task = "summarizing"
  /\ summary' = Cardinality(pulled) /\ Sleep
  /\ UNCHANGED <<phone, book, whole, walk>>

\* Seeded fault: a task whose attempts have all failed is not woken again.
WakeWhenSynced ==
  /\ task = "asleep" /\ summary > 0
  /\ task' = "pulling"
  /\ UNCHANGED <<phone, book, pulled, inserted, summary, whole, walk>>

\* The quarter of an hour is over, whatever the attempt came to.
Wake ==
  /\ task = "asleep"
  /\ task' = "pulling"
  /\ UNCHANGED <<phone, book, pulled, inserted, summary, whole, walk>>

\* The daemon stops and starts again: AppState is new.
Restart ==
  /\ book' = {} /\ whole' = {} /\ summary' = 0
  /\ task' = "pulling" /\ pulled' = {} /\ inserted' = {}
  /\ walk' = Disturbed(walk, Listed(book), Cardinality(Listed(book)))
  /\ UNCHANGED phone

-----------------------------------------------------------------------------
\* ORDER BY the name, without regard to case, then the id.
NameOrder == {p \in Contacts \X Contacts : p[1] < p[2]}

NamePage == Ordered(Listed(book), NameOrder)

\* search_names_page: a name that is NULL matches no pattern.  One row more
\* than the limit is fetched to see whether there are more.
Page(w, limit) ==
  LET fetched == Slice(NamePage, w.offset, limit + 1)
      items   == Slice(fetched, 0, limit)
  IN  Turned(w, items, Len(fetched) > limit)

\* contact_page.  The store's lock is taken for the statement, so it waits for
\* the transaction of replace_all.
ContactPage(limit) ==
  /\ task # "replacing"
  /\ walk' = IF walk.state # "open"
             THEN Page(Begun(NamePage), limit)
             ELSE IF walk.offset <= MaxOffset
                  THEN Page(walk, limit)
                  ELSE NoWalk
  /\ UNCHANGED <<phone, book, taskVars, summary, whole>>

\* The client gives its list up.
Leave ==
  /\ walk # NoWalk /\ walk' = NoWalk
  /\ UNCHANGED <<phone, book, taskVars, summary, whole>>

-----------------------------------------------------------------------------
TaskStep == Pull \/ PullFails \/ Insert \/ InsertFails \/ Commit \/ Summarize \/ Wake

ClientStep == (\E limit \in Limits : ContactPage(limit)) \/ Leave

Next == PhoneChanges \/ TaskStep \/ Restart \/ ClientStep

\* The task is never starved; a phone that is asked again and again answers at
\* last, and no statement that is tried again and again fails every time.
Fairness ==
  /\ WF_vars(TaskStep)
  /\ SF_vars(Pull) /\ SF_vars(Commit)
  /\ \A n \in 0..Cardinality(Usable) : SF_vars(Insert /\ Cardinality(inserted) = n)

Spec == Init /\ [][Next]_vars

FairSpec == Spec /\ Fairness

-----------------------------------------------------------------------------
\* Whatever fails on the way, the contacts a reader can see are those of one
\* whole pull, the last one that went through: never a part of one, and never
\* a mixture of two.  The summary counts them, except between the commit and
\* its own write: a failed attempt leaves both alone, a restart empties both.
BookIsWhole ==
  /\ book = whole
  /\ task # "summarizing" => summary = Cardinality(book)

\* Once the owner leaves the phonebook alone, and the daemon runs on, the store
\* comes to hold it, unless nothing in it can be used: then the last contacts
\* are kept.
BookCatchesUp ==
  <>[][~PhoneChanges /\ ~Restart]_vars => <>[](book = Parsed(phone) \/ Unparsable(phone))
=============================================================================
