----------------------------- MODULE MessageSend -----------------------------
(***************************************************************************)
(* Sending one SMS: the Android composer with its MessageSendDraft, the    *)
(* send_message handler (crates/analogconnectd/src/lib.rs) and the         *)
(* MessageOperationRegistry (messages.rs) that suppresses duplicates.      *)
(*                                                                         *)
(* The handler holds the registry's mutex twice, once to begin and once to *)
(* record the outcome; in between it awaits a blocking `imsg send`.  The   *)
(* client gives up after its read timeout: the connection closes, the      *)
(* server drops the handler at its await, and the blocking send runs on    *)
(* alone.  Handler code before and after the await is one poll, hence one  *)
(* step here.                                                              *)
(*                                                                         *)
(* Left out: requests without operation_id (the registry never sees them)  *)
(* and poisoned mutexes (no code panics while it holds one).               *)
(***************************************************************************)
EXTENDS Integers, Sequences, FiniteSets

CONSTANTS
  Clients,      \* Android composer activities
  Contents,     \* recipient and body typed by the user
  Operations,   \* operation ids that can be drawn
  None,         \* no operation, no content, no client
  Requests,     \* HTTP requests that can be under way at once
  Capacity,     \* MessageOperationRegistry.capacity (256 in the daemon)
  MaxSends      \* bound: times imsg is invoked for one operation

ASSUME MessageSendAssumption ==
  /\ None \notin Clients \cup Contents \cup Operations
  /\ Capacity \in Nat \ {0}
  /\ MaxSends \in Nat

VARIABLES
  in_flight,       \* MessageOperationRegistry.in_flight
  accepted,        \* MessageOperationRegistry.accepted
  accepted_order,  \* MessageOperationRegistry.accepted_order
  handler,         \* per request: where send_message is
  operation,       \* per request: its operation id
  client,          \* per request: the composer waiting for it, None once gone
  job,             \* per request: the blocking send, which may outlive the handler
  reply,           \* per request: "ok" (202), "error" (any other status) or "none"
  draft,           \* per composer: MessageSendDraft (content and operationId)
  view,            \* per composer: "editing", "reviewing" or "sending"
  drawn,           \* operation ids generated so far
  invoked,         \* history: per operation, how often imsg send was started
  sent,            \* history: per operation, how often the phone took the message
  excused,         \* history: operations whose outcome the daemon cannot know
  evicted          \* history: ids evicted from accepted in this daemon lifetime

registryVars == <<in_flight, accepted, accepted_order>>
requestVars  == <<handler, operation, client, job, reply>>
composerVars == <<draft, view, drawn>>
historyVars  == <<invoked, sent, excused, evicted>>
vars == <<registryVars, requestVars, composerVars, historyVars>>

NoDraft == [content |-> None, operationId |-> None]

Init ==
  /\ in_flight = {} /\ accepted = {} /\ accepted_order = <<>>
  /\ handler = [r \in Requests |-> "free"]
  /\ operation = [r \in Requests |-> None]
  /\ client = [r \in Requests |-> None]
  /\ job = [r \in Requests |-> "none"]
  /\ reply = [r \in Requests |-> "none"]
  /\ draft = [c \in Clients |-> NoDraft]
  /\ view = [c \in Clients |-> "editing"]
  /\ drawn = {}
  /\ invoked = [o \in Operations |-> 0]
  /\ sent = [o \in Operations |-> 0]
  /\ excused = {} /\ evicted = {}

-----------------------------------------------------------------------------
(* The composer.                                                           *)

\* confirmSend: operationIdFor keeps the id of an unchanged draft and draws a
\* new one otherwise; then the confirmation dialog is up.
Review(c, content) ==
  /\ view[c] = "editing"
  /\ view' = [view EXCEPT ![c] = "reviewing"]
  /\ \/ /\ draft[c].content = content
        /\ UNCHANGED <<draft, drawn>>
     \/ /\ draft[c].content # content
        /\ \E o \in Operations \ drawn :
             /\ draft' = [draft EXCEPT ![c] = [content |-> content, operationId |-> o]]
             /\ drawn' = drawn \cup {o}
  /\ UNCHANGED <<registryVars, requestVars, historyVars>>

\* The dialog is dismissed; the draft keeps its id.
Cancel(c) ==
  /\ view[c] = "reviewing"
  /\ view' = [view EXCEPT ![c] = "editing"]
  /\ UNCHANGED <<registryVars, requestVars, draft, drawn, historyVars>>

\* ApiClient.sendMessage: the button is disabled until the call returns.
Submit(c, r) ==
  /\ view[c] = "reviewing"
  /\ handler[r] = "free" /\ job[r] = "none"
  /\ view' = [view EXCEPT ![c] = "sending"]
  /\ handler' = [handler EXCEPT ![r] = "arrived"]
  /\ operation' = [operation EXCEPT ![r] = draft[c].operationId]
  /\ client' = [client EXCEPT ![r] = c]
  /\ UNCHANGED <<registryVars, job, reply, draft, drawn, historyVars>>

\* The answer arrives: on success the draft is cleared, otherwise it is kept.
Answered(r) ==
  LET c == client[r] IN
  /\ reply[r] # "none" /\ c # None
  /\ view' = [view EXCEPT ![c] = "editing"]
  /\ draft' = IF reply[r] = "ok" THEN [draft EXCEPT ![c] = NoDraft] ELSE draft
  /\ handler' = [handler EXCEPT ![r] = "free"]
  /\ operation' = [operation EXCEPT ![r] = None]
  /\ client' = [client EXCEPT ![r] = None]
  /\ reply' = [reply EXCEPT ![r] = "none"]
  /\ UNCHANGED <<registryVars, job, drawn, historyVars>>

\* The client's timeout, or a lost connection: the send "failed", the draft is
\* kept for a retry, and the daemon will notice that nobody is there any more.
GiveUp(r) ==
  /\ client[r] # None
  /\ view' = [view EXCEPT ![client[r]] = "editing"]
  /\ client' = [client EXCEPT ![r] = None]
  /\ UNCHANGED <<registryVars, handler, operation, job, reply, draft, drawn, historyVars>>

\* The activity is destroyed, and with it the draft; nobody reads the answer.
LeaveActivity(c) ==
  /\ draft[c] # NoDraft
  /\ draft' = [draft EXCEPT ![c] = NoDraft]
  /\ view' = [view EXCEPT ![c] = "editing"]
  /\ client' = [r \in Requests |-> IF client[r] = c THEN None ELSE client[r]]
  /\ UNCHANGED <<registryVars, handler, operation, job, reply, drawn, historyVars>>

-----------------------------------------------------------------------------
(* The handler.                                                            *)

\* A request whose client is gone leaves nothing behind but its job.
Free(r) ==
  /\ handler' = [handler EXCEPT ![r] = "free"]
  /\ operation' = [operation EXCEPT ![r] = IF job[r] = "running" THEN @ ELSE None]
  /\ reply' = [reply EXCEPT ![r] = "none"]

Respond(r, status) ==
  /\ handler' = [handler EXCEPT ![r] = "answered"]
  /\ reply' = [reply EXCEPT ![r] = status]

\* Not authorized, over the mutation quota, or not a valid message.
Refuse(r) ==
  /\ handler[r] = "arrived"
  /\ Respond(r, "error")
  /\ UNCHANGED <<registryVars, operation, client, job, composerVars, historyVars>>

\* Seeded fault: a send under way counts as accepted.
BeginDuplicateInFlight(r) ==
  /\ handler[r] = "arrived"
  /\ operation[r] \in accepted \cup in_flight
  /\ Respond(r, "ok")
  /\ UNCHANGED <<registryVars, operation, client, job, composerVars, historyVars>>

\* MessageOperationRegistry::begin says AcceptedDuplicate: 202 without a send.
BeginDuplicate(r) ==
  /\ handler[r] = "arrived"
  /\ operation[r] \in accepted
  /\ Respond(r, "ok")
  /\ UNCHANGED <<registryVars, operation, client, job, composerVars, historyVars>>

\* It says InFlight: 409.
BeginConflict(r) ==
  /\ handler[r] = "arrived"
  /\ operation[r] \in in_flight \ accepted
  /\ Respond(r, "error")
  /\ UNCHANGED <<registryVars, operation, client, job, composerVars, historyVars>>

StartJob(r) ==
  /\ invoked[operation[r]] < MaxSends
  /\ job' = [job EXCEPT ![r] = "running"]
  /\ handler' = [handler EXCEPT ![r] = "awaiting"]
  /\ invoked' = [invoked EXCEPT ![operation[r]] = @ + 1]

\* Seeded fault: the accepted ids are not consulted.
BeginNewUnchecked(r) ==
  /\ handler[r] = "arrived"
  /\ operation[r] \notin in_flight
  /\ in_flight' = in_flight \cup {operation[r]}
  /\ StartJob(r)
  /\ UNCHANGED <<accepted, accepted_order, operation, client, reply, composerVars,
                 sent, excused, evicted>>

\* It says New: the id is in flight and the blocking send is spawned.
BeginNew(r) ==
  /\ handler[r] = "arrived"
  /\ operation[r] \notin accepted \cup in_flight
  /\ in_flight' = in_flight \cup {operation[r]}
  /\ StartJob(r)
  /\ UNCHANGED <<accepted, accepted_order, operation, client, reply, composerVars,
                 sent, excused, evicted>>

\* `imsg send` ends (external): the phone took the message and the exit status
\* says so; or it did not; or it did and the exit status reports a failure.
JobEnds(r, taken, ok) ==
  LET o == operation[r] IN
  /\ job[r] = "running"
  /\ ok => taken
  /\ sent' = [sent EXCEPT ![o] = IF taken THEN @ + 1 ELSE @]
  /\ excused' = IF taken /\ ~ok THEN excused \cup {o} ELSE excused
  /\ job' = [job EXCEPT ![r] = IF handler[r] = "free" THEN "none"
                               ELSE IF ok THEN "succeeded" ELSE "failed"]
  /\ operation' = [operation EXCEPT ![r] = IF handler[r] = "free" THEN None ELSE @]
  /\ UNCHANGED <<registryVars, handler, client, reply, composerVars, invoked, evicted>>

\* MessageOperationRegistry::accepted: the oldest ids beyond the capacity go.
Record(o) ==
  LET order == IF o \in accepted THEN accepted_order ELSE Append(accepted_order, o)
      excess == IF Len(order) > Capacity THEN Len(order) - Capacity ELSE 0
      expired == {order[k] : k \in 1..excess}
  IN  /\ in_flight' = in_flight \ {o}
      /\ accepted_order' = SubSeq(order, excess + 1, Len(order))
      /\ accepted' = (accepted \cup {o}) \ expired
      /\ evicted' = evicted \cup expired

\* The await returns: accepted or failed is recorded, then the answer goes out.
Finish(r) ==
  /\ handler[r] = "awaiting"
  /\ \/ /\ job[r] = "succeeded"
        /\ Record(operation[r])
        /\ Respond(r, "ok")
     \/ /\ job[r] = "failed"
        /\ in_flight' = in_flight \ {operation[r]}
        /\ Respond(r, "error")
        /\ UNCHANGED <<accepted, accepted_order, evicted>>
  /\ job' = [job EXCEPT ![r] = "none"]
  /\ UNCHANGED <<operation, client, composerVars, invoked, sent, excused>>

\* Seeded fault: dropping the handler clears the id although the send runs on.
DropHandlerClears(r) ==
  /\ client[r] = None
  /\ handler[r] \in {"arrived", "awaiting", "answered"}
  /\ in_flight' = IF handler[r] = "awaiting" THEN in_flight \ {operation[r]} ELSE in_flight
  /\ job' = [job EXCEPT ![r] = IF @ = "running" THEN @ ELSE "none"]
  /\ Free(r)
  /\ UNCHANGED <<accepted, accepted_order, client, composerVars, historyVars>>

\* The connection is closed under the handler (or the answer has no reader):
\* the future is dropped, and a send still running is detached, not stopped.
DropHandler(r) ==
  /\ client[r] = None
  /\ handler[r] \in {"arrived", "awaiting", "answered"}
  /\ job' = [job EXCEPT ![r] = IF @ = "running" THEN @ ELSE "none"]
  /\ Free(r)
  /\ UNCHANGED <<registryVars, client, composerVars, historyVars>>

\* The daemon restarts: registry, handlers and sends are gone; a send that was
\* under way may or may not have reached the phone.
Restart ==
  /\ \E taken \in SUBSET {operation[r] : r \in {q \in Requests : job[q] = "running"}} :
       sent' = [o \in Operations |-> IF o \in taken THEN sent[o] + 1 ELSE sent[o]]
  /\ excused' = excused \cup {o \in Operations : invoked[o] > 0}
  /\ evicted' = {}
  /\ in_flight' = {} /\ accepted' = {} /\ accepted_order' = <<>>
  /\ handler' = [r \in Requests |-> "free"]
  /\ operation' = [r \in Requests |-> None]
  /\ client' = [r \in Requests |-> None]
  /\ job' = [r \in Requests |-> "none"]
  /\ reply' = [r \in Requests |-> "none"]
  /\ view' = [c \in Clients |-> IF view[c] = "sending" THEN "editing" ELSE view[c]]
  /\ UNCHANGED <<draft, drawn, invoked>>

-----------------------------------------------------------------------------
ComposerStep(c) ==
  \/ \E content \in Contents : Review(c, content)
  \/ Cancel(c) \/ LeaveActivity(c)
  \/ \E r \in Requests : Submit(c, r)

RequestStep(r) ==
  \/ Refuse(r) \/ BeginDuplicate(r) \/ BeginConflict(r) \/ BeginNew(r)
  \/ \E taken, ok \in BOOLEAN : JobEnds(r, taken, ok)
  \/ Finish(r) \/ DropHandler(r) \/ Answered(r) \/ GiveUp(r)

Next ==
  \/ \E c \in Clients : ComposerStep(c)
  \/ \E r \in Requests : RequestStep(r)
  \/ Restart

Spec == Init /\ [][Next]_vars

-----------------------------------------------------------------------------
(* Properties.                                                             *)

\* Types, and that a running send knows the operation it is for.
TypeOK ==
  /\ in_flight \subseteq Operations /\ accepted \subseteq Operations
  /\ accepted_order \in Seq(Operations)
  /\ handler \in [Requests -> {"free", "arrived", "awaiting", "answered"}]
  /\ operation \in [Requests -> Operations \cup {None}]
  /\ client \in [Requests -> Clients \cup {None}]
  /\ job \in [Requests -> {"none", "running", "succeeded", "failed"}]
  /\ reply \in [Requests -> {"none", "ok", "error"}]
  /\ draft \in [Clients -> [content : Contents \cup {None},
                            operationId : Operations \cup {None}]]
  /\ view \in [Clients -> {"editing", "reviewing", "sending"}]
  /\ drawn \subseteq Operations
  /\ invoked \in [Operations -> Nat] /\ sent \in [Operations -> Nat]
  /\ excused \subseteq Operations /\ evicted \subseteq Operations
  /\ \A r \in Requests : operation[r] = None <=> handler[r] = "free" /\ job[r] = "none"

\* However clients time out and retry, two sends of one operation never run at
\* the same time, even when the handler of the first was dropped.
NoConcurrentSend ==
  \A q, r \in Requests :
    job[q] = "running" /\ job[r] = "running" /\ operation[q] = operation[r] => q = r

\* The phone takes a message at most once per operation, unless imsg reported a
\* failure after the phone took it, the id was evicted, or the daemon restarted.
AtMostOnce == \A o \in Operations \ (excused \cup evicted) : sent[o] <= 1

\* A client is told 202 only for a message the phone has taken.
AcknowledgedMeansSent ==
  \A r \in Requests : reply[r] = "ok" => sent[operation[r]] > 0

-----------------------------------------------------------------------------
(* The inductive invariant behind the last three.                          *)

\* A send that has not been recorded: running, or ended under its handler.
Unrecorded(r) == job[r] # "none"

\* Where the handler stands, its job and its reply go together.
HandlerDiscipline ==
  \A r \in Requests :
    /\ handler[r] = "awaiting" => Unrecorded(r)
    /\ handler[r] \in {"arrived", "answered"} => ~Unrecorded(r)
    /\ job[r] \in {"succeeded", "failed"} => handler[r] = "awaiting"
    /\ reply[r] # "none" => handler[r] = "answered"

\* An unrecorded send has its id in flight, alone.
UnrecordedInFlight ==
  /\ \A r \in Requests : Unrecorded(r) => operation[r] \in in_flight \ accepted
  /\ \A q, r \in Requests :
       Unrecorded(q) /\ Unrecorded(r) /\ operation[q] = operation[r] => q = r

\* What the phone took is never thought not to have been sent.
TakenIsRemembered ==
  \A o \in Operations \ (excused \cup evicted) :
    /\ sent[o] > 0 => o \in accepted \cup in_flight
    /\ \A r \in Requests :
         operation[r] = o /\ job[r] \in {"running", "failed"} => sent[o] = 0

\* What counts as sent was taken by the phone.
RememberedWasTaken ==
  /\ \A o \in accepted : sent[o] > 0
  /\ \A r \in Requests : job[r] = "succeeded" => sent[operation[r]] > 0

\* Nothing is taken that was not invoked, so that a restart excuses it.
TakenWasInvoked ==
  /\ \A o \in Operations : sent[o] > 0 => invoked[o] > 0
  /\ \A r \in Requests : Unrecorded(r) => invoked[operation[r]] > 0

\* What a composer submits has an id.
DraftHasId ==
  \A c \in Clients :
    draft[c].content # None \/ view[c] = "reviewing" => draft[c].operationId \in Operations

IInv ==
  /\ TypeOK /\ DraftHasId /\ HandlerDiscipline /\ UnrecordedInFlight
  /\ TakenIsRemembered /\ RememberedWasTaken /\ TakenWasInvoked
  /\ AtMostOnce /\ AcknowledgedMeansSent
=============================================================================
