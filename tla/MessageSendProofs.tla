------------------------- MODULE MessageSendProofs --------------------------
(***************************************************************************)
(* Duplicate suppression for any number of composers, requests and         *)
(* operations, any capacity of the registry and any number of retries.     *)
(*                                                                         *)
(* AtMostOnce alone is not inductive: that an id is not in the registry    *)
(* must imply that the phone has not taken it.  IInv (module MessageSend)  *)
(* follows a send from begin to its record, also when its handler is gone. *)
(***************************************************************************)
EXTENDS MessageSend, TLAPS

\* A fresh daemon satisfies the inductive invariant.
LEMMA InitEstablishesIInv == Init => IInv
  BY MessageSendAssumption
  DEF Init, IInv, TypeOK, NoDraft, HandlerDiscipline, UnrecordedInFlight, Unrecorded,
      DraftHasId, TakenIsRemembered, RememberedWasTaken, TakenWasInvoked, AtMostOnce,
      AcknowledgedMeansSent

\* Steps of the composer that leave the daemon alone keep the invariant.
LEMMA ComposerKeepsIInv ==
  ASSUME IInv, UNCHANGED <<registryVars, handler, operation, job, reply, historyVars>>,
         client' \in [Requests -> Clients \cup {None}],
         draft' \in [Clients -> [content : Contents \cup {None},
                                 operationId : Operations \cup {None}]],
         view' \in [Clients -> {"editing", "reviewing", "sending"}],
         drawn' \subseteq Operations,
         DraftHasId'
  PROVE  IInv'
  BY DEF IInv, TypeOK, registryVars, historyVars, HandlerDiscipline, UnrecordedInFlight,
         Unrecorded, TakenIsRemembered, RememberedWasTaken, TakenWasInvoked, AtMostOnce,
         AcknowledgedMeansSent

\* Reviewing keeps the invariant: an unchanged draft already has its id.
LEMMA ReviewKeepsIInv ==
  ASSUME IInv, NEW c \in Clients, NEW content \in Contents, Review(c, content)
  PROVE  IInv'
  <1>1. draft' \in [Clients -> [content : Contents \cup {None},
                                operationId : Operations \cup {None}]]
    <2>1. CASE UNCHANGED draft
      BY <2>1 DEF IInv, TypeOK
    <2>2. CASE \E o \in Operations \ drawn :
                 draft' = [draft EXCEPT ![c] = [content |-> content, operationId |-> o]]
      BY <2>2 DEF IInv, TypeOK
    <2> QED
      BY <2>1, <2>2 DEF Review
  <1>2. drawn' \subseteq Operations /\ view' \in [Clients -> {"editing", "reviewing", "sending"}]
    BY DEF IInv, TypeOK, Review
  <1>3. DraftHasId'
    <2>1. CASE UNCHANGED draft
      BY <2>1, MessageSendAssumption DEF IInv, TypeOK, DraftHasId, Review
    <2>2. CASE \E o \in Operations \ drawn :
                 draft' = [draft EXCEPT ![c] = [content |-> content, operationId |-> o]]
      BY <2>2 DEF IInv, TypeOK, DraftHasId, Review
    <2> QED
      BY <2>1, <2>2 DEF Review
  <1> QED
    BY <1>1, <1>2, <1>3, ComposerKeepsIInv DEF IInv, TypeOK, Review, requestVars

\* Dismissing the dialog keeps the invariant.
LEMMA CancelKeepsIInv ==
  ASSUME IInv, NEW c \in Clients, Cancel(c)
  PROVE  IInv'
  BY ComposerKeepsIInv, MessageSendAssumption DEF IInv, TypeOK, DraftHasId, Cancel, requestVars

\* So does leaving the activity, which forgets the draft.
LEMMA LeaveActivityKeepsIInv ==
  ASSUME IInv, NEW c \in Clients, LeaveActivity(c)
  PROVE  IInv'
  BY ComposerKeepsIInv, MessageSendAssumption DEF IInv, TypeOK, DraftHasId, LeaveActivity, NoDraft

\* So does a client that gives up: the daemon has not noticed yet.
LEMMA GiveUpKeepsIInv ==
  ASSUME IInv, NEW r \in Requests, GiveUp(r)
  PROVE  IInv'
  BY ComposerKeepsIInv, MessageSendAssumption DEF IInv, TypeOK, DraftHasId, GiveUp

-----------------------------------------------------------------------------
(* Requests.                                                               *)

\* A new request has no send and no reply.
LEMMA SubmitKeepsIInv ==
  ASSUME IInv, NEW c \in Clients, NEW r \in Requests, Submit(c, r)
  PROVE  IInv'
  <1>1. TypeOK'
    BY MessageSendAssumption
    DEF IInv, TypeOK, DraftHasId, Submit, registryVars, historyVars
  <1>2. DraftHasId'
    BY DEF IInv, DraftHasId, Submit
  <1>3. HandlerDiscipline'
    BY DEF IInv, HandlerDiscipline, Unrecorded, Submit
  <1>4. UnrecordedInFlight'
    BY DEF IInv, UnrecordedInFlight, Unrecorded, Submit, registryVars
  <1>5. TakenIsRemembered'
    BY DEF IInv, TakenIsRemembered, Submit, registryVars, historyVars
  <1>6. RememberedWasTaken'
    BY DEF IInv, RememberedWasTaken, Submit, registryVars, historyVars
  <1>7. TakenWasInvoked'
    BY DEF IInv, TakenWasInvoked, Unrecorded, Submit, historyVars
  <1>8. AtMostOnce'
    BY DEF IInv, AtMostOnce, Submit, historyVars
  <1>9. AcknowledgedMeansSent'
    BY DEF IInv, AcknowledgedMeansSent, HandlerDiscipline, Submit, historyVars
  <1> QED
    BY <1>1, <1>2, <1>3, <1>4, <1>5, <1>6, <1>7, <1>8, <1>9 DEF IInv

\* The answer has been read: the request is free again.
LEMMA AnsweredKeepsIInv ==
  ASSUME IInv, NEW r \in Requests, Answered(r)
  PROVE  IInv'
  <1>1. TypeOK'
    BY DEF IInv, TypeOK, HandlerDiscipline, Unrecorded, Answered, NoDraft, registryVars,
           historyVars
  <1>2. DraftHasId'
    BY DEF IInv, TypeOK, DraftHasId, Answered, NoDraft
  <1>3. HandlerDiscipline'
    BY DEF IInv, TypeOK, HandlerDiscipline, Unrecorded, Answered
  <1>4. UnrecordedInFlight'
    BY DEF IInv, UnrecordedInFlight, Unrecorded, HandlerDiscipline, Answered, registryVars
  <1>5. TakenIsRemembered'
    BY DEF IInv, TakenIsRemembered, HandlerDiscipline, Unrecorded, Answered, registryVars,
           historyVars
  <1>6. RememberedWasTaken'
    BY DEF IInv, RememberedWasTaken, HandlerDiscipline, Answered, registryVars, historyVars
  <1>7. TakenWasInvoked'
    BY DEF IInv, TakenWasInvoked, Unrecorded, HandlerDiscipline, Answered, historyVars
  <1>8. AtMostOnce'
    BY DEF IInv, AtMostOnce, Answered, historyVars
  <1>9. AcknowledgedMeansSent'
    BY DEF IInv, TypeOK, AcknowledgedMeansSent, Answered, historyVars
  <1> QED
    BY <1>1, <1>2, <1>3, <1>4, <1>5, <1>6, <1>7, <1>8, <1>9 DEF IInv

\* A refused request only gets its reply.
LEMMA RefuseKeepsIInv ==
  ASSUME IInv, NEW r \in Requests, Refuse(r)
  PROVE  IInv'
  <1>1. TypeOK'
    BY DEF IInv, TypeOK, Refuse, Respond, composerVars, registryVars, historyVars
  <1>2. DraftHasId'
    BY DEF IInv, DraftHasId, Refuse, composerVars
  <1>3. HandlerDiscipline'
    BY DEF IInv, TypeOK, HandlerDiscipline, Unrecorded, Refuse, Respond
  <1>4. UnrecordedInFlight'
    BY DEF IInv, UnrecordedInFlight, Unrecorded, Refuse, registryVars
  <1>5. TakenIsRemembered'
    BY DEF IInv, TakenIsRemembered, Refuse, registryVars, historyVars
  <1>6. RememberedWasTaken'
    BY DEF IInv, RememberedWasTaken, Refuse, registryVars, historyVars
  <1>7. TakenWasInvoked'
    BY DEF IInv, TakenWasInvoked, Unrecorded, Refuse, historyVars
  <1>8. AtMostOnce'
    BY DEF IInv, AtMostOnce, Refuse, historyVars
  <1>9. AcknowledgedMeansSent'
    BY DEF IInv, AcknowledgedMeansSent, Refuse, Respond, historyVars
  <1> QED
    BY <1>1, <1>2, <1>3, <1>4, <1>5, <1>6, <1>7, <1>8, <1>9 DEF IInv

\* A duplicate is acknowledged for what the registry has accepted.
LEMMA BeginDuplicateKeepsIInv ==
  ASSUME IInv, NEW r \in Requests, BeginDuplicate(r)
  PROVE  IInv'
  <1>1. TypeOK'
    BY DEF IInv, TypeOK, BeginDuplicate, Respond, composerVars, registryVars, historyVars
  <1>2. DraftHasId'
    BY DEF IInv, DraftHasId, BeginDuplicate, composerVars
  <1>3. HandlerDiscipline'
    BY DEF IInv, TypeOK, HandlerDiscipline, Unrecorded, BeginDuplicate, Respond
  <1>4. UnrecordedInFlight'
    BY DEF IInv, UnrecordedInFlight, Unrecorded, BeginDuplicate, registryVars
  <1>5. TakenIsRemembered'
    BY DEF IInv, TakenIsRemembered, BeginDuplicate, registryVars, historyVars
  <1>6. RememberedWasTaken'
    BY DEF IInv, RememberedWasTaken, BeginDuplicate, registryVars, historyVars
  <1>7. TakenWasInvoked'
    BY DEF IInv, TakenWasInvoked, Unrecorded, BeginDuplicate, historyVars
  <1>8. AtMostOnce'
    BY DEF IInv, AtMostOnce, BeginDuplicate, historyVars
  <1>9. AcknowledgedMeansSent'
    BY DEF IInv, AcknowledgedMeansSent, RememberedWasTaken, BeginDuplicate, Respond,
           historyVars
  <1> QED
    BY <1>1, <1>2, <1>3, <1>4, <1>5, <1>6, <1>7, <1>8, <1>9 DEF IInv

\* A simultaneous duplicate only gets its reply.
LEMMA BeginConflictKeepsIInv ==
  ASSUME IInv, NEW r \in Requests, BeginConflict(r)
  PROVE  IInv'
  <1>1. TypeOK'
    BY DEF IInv, TypeOK, BeginConflict, Respond, composerVars, registryVars, historyVars
  <1>2. DraftHasId'
    BY DEF IInv, DraftHasId, BeginConflict, composerVars
  <1>3. HandlerDiscipline'
    BY DEF IInv, TypeOK, HandlerDiscipline, Unrecorded, BeginConflict, Respond
  <1>4. UnrecordedInFlight'
    BY DEF IInv, UnrecordedInFlight, Unrecorded, BeginConflict, registryVars
  <1>5. TakenIsRemembered'
    BY DEF IInv, TakenIsRemembered, BeginConflict, registryVars, historyVars
  <1>6. RememberedWasTaken'
    BY DEF IInv, RememberedWasTaken, BeginConflict, registryVars, historyVars
  <1>7. TakenWasInvoked'
    BY DEF IInv, TakenWasInvoked, Unrecorded, BeginConflict, historyVars
  <1>8. AtMostOnce'
    BY DEF IInv, AtMostOnce, BeginConflict, historyVars
  <1>9. AcknowledgedMeansSent'
    BY DEF IInv, AcknowledgedMeansSent, BeginConflict, Respond, historyVars
  <1> QED
    BY <1>1, <1>2, <1>3, <1>4, <1>5, <1>6, <1>7, <1>8, <1>9 DEF IInv

\* A new send was never taken: the registry would know its id.
LEMMA BeginNewKeepsIInv ==
  ASSUME IInv, NEW r \in Requests, BeginNew(r)
  PROVE  IInv'
  <1>1. TypeOK'
    BY DEF IInv, TypeOK, BeginNew, StartJob, composerVars
  <1>2. DraftHasId'
    BY DEF IInv, DraftHasId, BeginNew, composerVars
  <1>3. HandlerDiscipline'
    BY DEF IInv, TypeOK, HandlerDiscipline, Unrecorded, BeginNew, StartJob
  <1>4. UnrecordedInFlight'
    BY DEF IInv, UnrecordedInFlight, Unrecorded, BeginNew, StartJob
  <1>5. TakenIsRemembered'
    BY DEF IInv, TypeOK, TakenIsRemembered, BeginNew, StartJob
  <1>6. RememberedWasTaken'
    BY DEF IInv, RememberedWasTaken, BeginNew, StartJob
  <1>7. TakenWasInvoked'
    BY DEF IInv, TypeOK, TakenWasInvoked, Unrecorded, BeginNew, StartJob
  <1>8. AtMostOnce'
    BY DEF IInv, AtMostOnce, BeginNew
  <1>9. AcknowledgedMeansSent'
    BY DEF IInv, AcknowledgedMeansSent, BeginNew
  <1> QED
    BY <1>1, <1>2, <1>3, <1>4, <1>5, <1>6, <1>7, <1>8, <1>9 DEF IInv

\* The phone takes the message of the only send of this operation, or not.
LEMMA JobEndsKeepsIInv ==
  ASSUME IInv, NEW r \in Requests, NEW taken \in BOOLEAN, NEW ok \in BOOLEAN, JobEnds(r, taken, ok)
  PROVE  IInv'
  <1>1. TypeOK'
    BY DEF IInv, TypeOK, JobEnds, registryVars, composerVars
  <1>2. DraftHasId'
    BY DEF IInv, DraftHasId, JobEnds, composerVars
  <1>3. HandlerDiscipline'
    BY DEF IInv, TypeOK, HandlerDiscipline, Unrecorded, JobEnds
  <1>4. UnrecordedInFlight'
    BY DEF IInv, TypeOK, UnrecordedInFlight, Unrecorded, JobEnds, registryVars
  <1>5. TakenIsRemembered'
    BY DEF IInv, TypeOK, TakenIsRemembered, UnrecordedInFlight, Unrecorded, JobEnds,
           registryVars
  <1>6. RememberedWasTaken'
    BY DEF IInv, TypeOK, RememberedWasTaken, JobEnds, registryVars
  <1>7. TakenWasInvoked'
    BY DEF IInv, TypeOK, TakenWasInvoked, Unrecorded, JobEnds
  <1>8. AtMostOnce'
    BY DEF IInv, AtMostOnce, TakenIsRemembered, JobEnds
  <1>9. AcknowledgedMeansSent'
    BY DEF IInv, TypeOK, AcknowledgedMeansSent, HandlerDiscipline, Unrecorded, JobEnds
  <1> QED
    BY <1>1, <1>2, <1>3, <1>4, <1>5, <1>6, <1>7, <1>8, <1>9 DEF IInv

\* What is recorded is accepted or evicted, and nothing else leaves or enters.
LEMMA RecordShape ==
  ASSUME TypeOK, NEW o \in Operations, Record(o)
  PROVE  /\ in_flight' = in_flight \ {o}
         /\ accepted' \subseteq accepted \cup {o}
         /\ accepted \cup {o} \subseteq accepted' \cup evicted'
         /\ evicted \subseteq evicted' /\ evicted' \subseteq Operations
         /\ accepted_order' \in Seq(Operations)
  <1> DEFINE order == IF o \in accepted THEN accepted_order ELSE Append(accepted_order, o)
             excess == IF Len(order) > Capacity THEN Len(order) - Capacity ELSE 0
             expired == {order[k] : k \in 1..excess}
  <1>1. order \in Seq(Operations)
    BY DEF TypeOK
  <1>2. excess \in 0..Len(order)
    BY <1>1, MessageSendAssumption
  <1>3. expired \subseteq Operations
    BY <1>1, <1>2
  <1>4. SubSeq(order, excess + 1, Len(order)) \in Seq(Operations)
    BY <1>1, <1>2
  <1>5. /\ in_flight' = in_flight \ {o}
        /\ accepted_order' = SubSeq(order, excess + 1, Len(order))
        /\ accepted' = (accepted \cup {o}) \ expired
        /\ evicted' = evicted \cup expired
    BY DEF Record
  <1> HIDE DEF order, excess, expired
  <1> QED
    BY <1>3, <1>4, <1>5 DEF TypeOK

\* The outcome is recorded.
LEMMA FinishKeepsIInv ==
  ASSUME IInv, NEW r \in Requests, Finish(r)
  PROVE  IInv'
  <1> DEFINE o == operation[r]
  <1>1. o \in Operations
    BY DEF IInv, TypeOK, Finish
  <1>2. /\ in_flight' = in_flight \ {o}
        /\ accepted' \subseteq accepted \cup {o}
        /\ accepted \subseteq accepted' \cup evicted'
        /\ evicted \subseteq evicted' /\ evicted' \subseteq Operations
        /\ accepted_order' \in Seq(Operations)
        /\ job[r] = "succeeded" => o \in accepted' \cup evicted'
        /\ job[r] # "succeeded" => job[r] = "failed" /\ accepted' = accepted
    <2>1. CASE job[r] = "succeeded"
      BY <1>1, <2>1, RecordShape DEF IInv, Finish
    <2>2. CASE job[r] = "failed"
      BY <1>1, <2>2 DEF IInv, TypeOK, Finish
    <2> QED
      BY <2>1, <2>2 DEF Finish
  <1>3. /\ handler' = [handler EXCEPT ![r] = "answered"]
        /\ reply' = [reply EXCEPT ![r] = IF job[r] = "succeeded" THEN "ok" ELSE "error"]
        /\ job' = [job EXCEPT ![r] = "none"]
        /\ handler[r] = "awaiting"
        /\ UNCHANGED <<operation, client, draft, view, drawn, invoked, sent, excused>>
    BY DEF Finish, Respond, composerVars
  <1> HIDE DEF o
  <1>o. o = operation[r]
    BY DEF o
  <1>4. TypeOK'
    BY <1>1, <1>2, <1>3, <1>o, MessageSendAssumption DEF IInv, TypeOK
  <1>5. DraftHasId'
    BY <1>3 DEF IInv, DraftHasId
  <1>6. HandlerDiscipline'
    BY <1>3 DEF IInv, TypeOK, HandlerDiscipline, Unrecorded
  <1>7. UnrecordedInFlight'
    BY <1>2, <1>3, <1>o DEF IInv, TypeOK, HandlerDiscipline, UnrecordedInFlight, Unrecorded
  <1>8. TakenIsRemembered'
    BY <1>1, <1>2, <1>3, <1>o DEF IInv, TypeOK, TakenIsRemembered
  <1>9. RememberedWasTaken'
    BY <1>2, <1>3, <1>o DEF IInv, TypeOK, RememberedWasTaken
  <1>10. TakenWasInvoked'
    BY <1>3 DEF IInv, TypeOK, TakenWasInvoked, Unrecorded
  <1>11. AtMostOnce'
    BY <1>2, <1>3 DEF IInv, AtMostOnce
  <1>12. AcknowledgedMeansSent'
    BY <1>3 DEF IInv, TypeOK, AcknowledgedMeansSent, RememberedWasTaken
  <1> QED
    BY <1>4, <1>5, <1>6, <1>7, <1>8, <1>9, <1>10, <1>11, <1>12 DEF IInv

\* A dropped handler leaves its send, and the id in flight.
LEMMA DropHandlerKeepsIInv ==
  ASSUME IInv, NEW r \in Requests, DropHandler(r)
  PROVE  IInv'
  <1>1. TypeOK'
    BY DEF IInv, TypeOK, DropHandler, Free, composerVars, registryVars, historyVars
  <1>2. DraftHasId'
    BY DEF IInv, DraftHasId, DropHandler, composerVars
  <1>3. HandlerDiscipline'
    BY DEF IInv, TypeOK, HandlerDiscipline, Unrecorded, DropHandler, Free
  <1>4. UnrecordedInFlight'
    BY DEF IInv, TypeOK, UnrecordedInFlight, Unrecorded, DropHandler, Free, registryVars
  <1>5. TakenIsRemembered'
    BY DEF IInv, TypeOK, TakenIsRemembered, DropHandler, Free, registryVars, historyVars
  <1>6. RememberedWasTaken'
    BY DEF IInv, TypeOK, RememberedWasTaken, DropHandler, Free, registryVars, historyVars
  <1>7. TakenWasInvoked'
    BY DEF IInv, TypeOK, TakenWasInvoked, Unrecorded, DropHandler, Free, historyVars
  <1>8. AtMostOnce'
    BY DEF IInv, AtMostOnce, DropHandler, historyVars
  <1>9. AcknowledgedMeansSent'
    BY DEF IInv, TypeOK, AcknowledgedMeansSent, DropHandler, Free, historyVars
  <1> QED
    BY <1>1, <1>2, <1>3, <1>4, <1>5, <1>6, <1>7, <1>8, <1>9 DEF IInv

\* After a restart everything that was ever invoked is excused.
LEMMA RestartKeepsIInv ==
  ASSUME IInv, Restart
  PROVE  IInv'
  <1>1. TypeOK'
    BY DEF IInv, TypeOK, Restart
  <1>2. DraftHasId'
    BY DEF IInv, DraftHasId, Restart
  <1>3. HandlerDiscipline'
    BY DEF IInv, HandlerDiscipline, Restart
  <1>4. UnrecordedInFlight'
    BY DEF IInv, UnrecordedInFlight, Unrecorded, Restart
  <1>5. TakenIsRemembered'
    BY DEF IInv, TakenIsRemembered, TakenWasInvoked, Unrecorded, Restart
  <1>6. RememberedWasTaken'
    BY DEF IInv, RememberedWasTaken, Restart
  <1>7. TakenWasInvoked'
    BY DEF IInv, TakenWasInvoked, Unrecorded, Restart
  <1>8. AtMostOnce'
    BY DEF IInv, TypeOK, AtMostOnce, TakenWasInvoked, Restart
  <1>9. AcknowledgedMeansSent'
    BY DEF IInv, AcknowledgedMeansSent, Restart
  <1> QED
    BY <1>1, <1>2, <1>3, <1>4, <1>5, <1>6, <1>7, <1>8, <1>9 DEF IInv

-----------------------------------------------------------------------------
(* The theorems.                                                           *)

\* Every step keeps the invariant.
LEMMA NextKeepsIInv == IInv /\ [Next]_vars => IInv'
  <1> SUFFICES ASSUME IInv, [Next]_vars PROVE IInv'
    OBVIOUS
  <1>1. ASSUME NEW c \in Clients, ComposerStep(c) PROVE IInv'
    BY <1>1, ReviewKeepsIInv, CancelKeepsIInv, LeaveActivityKeepsIInv, SubmitKeepsIInv
    DEF ComposerStep
  <1>2. ASSUME NEW r \in Requests, RequestStep(r) PROVE IInv'
    BY <1>2, RefuseKeepsIInv, BeginDuplicateKeepsIInv, BeginConflictKeepsIInv,
       BeginNewKeepsIInv, JobEndsKeepsIInv, FinishKeepsIInv, DropHandlerKeepsIInv,
       AnsweredKeepsIInv, GiveUpKeepsIInv
    DEF RequestStep
  <1>3. ASSUME UNCHANGED vars PROVE IInv'
    BY <1>3, ComposerKeepsIInv
    DEF vars, composerVars, requestVars, IInv, TypeOK, DraftHasId
  <1> QED
    BY <1>1, <1>2, <1>3, RestartKeepsIInv DEF Next

\* The inductive invariant holds in every reachable state.
LEMMA Invariance == Spec => []IInv
  BY InitEstablishesIInv, NextKeepsIInv, PTL DEF Spec

\* The variables of composer, handler and registry keep their types.
THEOREM TypeCorrect == Spec => []TypeOK
  <1>1. IInv => TypeOK
    BY DEF IInv
  <1> QED
    BY <1>1, Invariance, PTL

\* Two sends of one operation never run at once, whatever clients retry and
\* whichever handlers are dropped at the await in send_message.
THEOREM SendsAreExclusive == Spec => []NoConcurrentSend
  <1>1. IInv => NoConcurrentSend
    BY DEF IInv, UnrecordedInFlight, Unrecorded, NoConcurrentSend
  <1> QED
    BY <1>1, Invariance, PTL

\* The phone takes an operation at most once, except where the registry cannot
\* know: imsg misreports, the id was evicted, or the daemon restarted.
THEOREM DuplicatesSuppressed == Spec => []AtMostOnce
  <1>1. IInv => AtMostOnce
    BY DEF IInv
  <1> QED
    BY <1>1, Invariance, PTL

\* A 202, also one for a duplicate, is only given for a message the phone took.
THEOREM AcknowledgementsTruthful == Spec => []AcknowledgedMeansSent
  <1>1. IInv => AcknowledgedMeansSent
    BY DEF IInv
  <1> QED
    BY <1>1, Invariance, PTL
=============================================================================
