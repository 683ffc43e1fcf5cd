-------------------------- MODULE CallControlProofs --------------------------
(***************************************************************************)
(* Proofs about CallControl, for any number of requests and calls, any     *)
(* limit and any delays.                                                   *)
(***************************************************************************)
EXTENDS CallControl, FiniteSetTheorems, TLAPS

-----------------------------------------------------------------------------
(* The inductive invariant.                                                *)

LimiterTypes ==
  now \in 0..MaxTime /\ started_at \in 0..MaxTime /\ accepted \in 0..Maximum /\ recent \in [1..Window -> Nat]

\* An instant that was read is not in the future.
InstantsRead == \A r \in Requests : instant[r] <= now

\* The phone took the command of a request whose method was delivered.
DeliveredTookEffect == \A r \in Requests : pc[r] = "delivered" => effected[r]

IInv == TypeOK /\ InstantsRead /\ DeliveredTookEffect /\ AcceptedTookEffect

-----------------------------------------------------------------------------
LEMMA InitHolds == Init => IInv
<1> SUFFICES ASSUME Init PROVE IInv
  OBVIOUS
<1>1. TypeOK
  BY CallControlAssumption DEF Init, TypeOK, Command, Response
<1>2. InstantsRead /\ DeliveredTookEffect /\ AcceptedTookEffect
  BY DEF Init, InstantsRead, DeliveredTookEffect, AcceptedTookEffect
<1> QED
  BY <1>1, <1>2 DEF IInv

\* A request answers.
LEMMA RespondHolds ==
  ASSUME IInv, NEW r \in Requests, NEW status \in Response, Respond(r, status),
         UNCHANGED phoneVars, LimiterTypes', now' = now,
         \/ effected' = effected
         \/ effected' = [effected EXCEPT ![r] = FALSE],
         status = "accepted" => effected'[r]
  PROVE  IInv'
<1>1. TypeOK /\ InstantsRead /\ DeliveredTookEffect /\ AcceptedTookEffect
  BY DEF IInv
<1>2. /\ pc' = [pc EXCEPT ![r] = "idle"] /\ command' = [command EXCEPT ![r] = "invalid"]
      /\ instant' = [instant EXCEPT ![r] = 0] /\ target' = [target EXCEPT ![r] = None]
      /\ response' = [response EXCEPT ![r] = status]
  BY DEF Respond
<1>3. effected' \in [Requests -> BOOLEAN] /\ \A q \in Requests \ {r} : effected'[q] = effected[q]
  BY <1>1 DEF TypeOK
<1>4. /\ pc'[r] = "idle" /\ response'[r] = status /\ instant'[r] = 0
      /\ \A q \in Requests \ {r} : /\ pc'[q] = pc[q] /\ instant'[q] = instant[q]
                                   /\ response'[q] = response[q]
  BY <1>1, <1>2 DEF TypeOK
<1>5. TypeOK'
  <2>1. /\ pc' \in [Requests -> {"idle", "admit", "objects", "calls", "state", "command", "delivered"}]
        /\ target' \in [Requests -> Calls \cup {None}]
    BY <1>1, <1>2 DEF TypeOK
  <2>2. command' \in [Requests -> Command] /\ response' \in [Requests -> Response]
    BY <1>1, <1>2 DEF TypeOK, Command
  <2>3. instant' \in [Requests -> 0..MaxTime]
    BY <1>1, <1>2, CallControlAssumption DEF TypeOK
  <2>4. gateways' \in 0..2 /\ live' \in [Calls -> LiveCallState \cup {"gone"}]
    BY <1>1 DEF TypeOK, phoneVars
  <2> QED
    BY <1>3, <2>1, <2>2, <2>3, <2>4 DEF TypeOK, LimiterTypes
<1>6. InstantsRead'
  BY <1>1, <1>4 DEF InstantsRead, TypeOK
<1>7. DeliveredTookEffect' /\ AcceptedTookEffect'
  BY <1>1, <1>3, <1>4 DEF DeliveredTookEffect, AcceptedTookEffect
<1> QED
  BY <1>5, <1>6, <1>7 DEF IInv

\* A request takes a step of its own and touches nothing else.
LEMMA AdvanceHolds ==
  ASSUME IInv, NEW r \in Requests, NEW here \in {"objects", "calls", "state", "command"},
         pc' = [pc EXCEPT ![r] = here], target' \in [Requests -> Calls \cup {None}],
         \/ instant' = instant
         \/ instant' = [instant EXCEPT ![r] = 0],
         UNCHANGED <<phoneVars, command, response, effected>>, LimiterTypes', now' = now
  PROVE  IInv'
<1>1. TypeOK /\ InstantsRead /\ DeliveredTookEffect /\ AcceptedTookEffect
  BY DEF IInv
<1>2. UNCHANGED <<gateways, live, command, response, effected>>
  BY DEF phoneVars
<1>3. pc'[r] = here /\ \A q \in Requests \ {r} : pc'[q] = pc[q]
  BY <1>1 DEF TypeOK
<1>4. instant' \in [Requests -> 0..MaxTime] /\ \A q \in Requests : instant'[q] \in {0, instant[q]}
  <2>1. instant \in [Requests -> 0..MaxTime] /\ 0 \in 0..MaxTime
    BY <1>1, CallControlAssumption DEF TypeOK
  <2>2. CASE instant' = instant
    BY <2>1, <2>2
  <2>3. CASE instant' = [instant EXCEPT ![r] = 0]
    BY <2>1, <2>3
  <2> QED
    BY <2>2, <2>3
<1>5. TypeOK'
  BY <1>1, <1>2, <1>4 DEF TypeOK, LimiterTypes
<1>6. InstantsRead'
  BY <1>1, <1>4 DEF InstantsRead, TypeOK
<1>7. DeliveredTookEffect' /\ AcceptedTookEffect'
  BY <1>1, <1>2, <1>3 DEF DeliveredTookEffect, AcceptedTookEffect
<1> QED
  BY <1>5, <1>6, <1>7 DEF IInv

-----------------------------------------------------------------------------
(* The environment.                                                        *)

LEMMA TickHolds == ASSUME IInv, Tick PROVE IInv'
<1>1. TypeOK /\ InstantsRead /\ DeliveredTookEffect /\ AcceptedTookEffect
  BY DEF IInv
<1>2. /\ now < MaxTime /\ now' = now + 1
      /\ recent' = [t \in 1..Window |-> IF t = 1 THEN 0 ELSE recent[t - 1]]
      /\ UNCHANGED <<gateways, live, started_at, accepted, pc, command, instant, target, response, effected>>
  BY DEF Tick, phoneVars, requestVars
<1>3. recent' \in [1..Window -> Nat] /\ now' \in 0..MaxTime
  BY <1>1, <1>2, CallControlAssumption DEF TypeOK
<1>4. TypeOK'
  BY <1>1, <1>2, <1>3 DEF TypeOK
<1>5. InstantsRead'
  BY <1>1, <1>2 DEF InstantsRead, TypeOK
<1>6. DeliveredTookEffect' /\ AcceptedTookEffect'
  BY <1>1, <1>2 DEF DeliveredTookEffect, AcceptedTookEffect
<1> QED
  BY <1>4, <1>5, <1>6 DEF IInv

LEMMA PhoneHolds == ASSUME IInv, PhoneStep PROVE IInv'
<1>1. TypeOK /\ InstantsRead /\ DeliveredTookEffect /\ AcceptedTookEffect
  BY DEF IInv
<1>2. UNCHANGED <<now, started_at, accepted, recent, pc, command, instant, target, response, effected>>
  BY DEF PhoneStep, CallChanges, GatewayChanges, limiterVars, requestVars
<1>3. gateways' \in 0..2 /\ live' \in [Calls -> LiveCallState \cup {"gone"}]
  <2>1. ASSUME NEW k \in Calls, CallChanges(k) PROVE <1>3!1 /\ <1>3!2
    BY <1>1, <2>1, CallControlAssumption DEF CallChanges, TypeOK
  <2>2. CASE GatewayChanges
    BY <1>1, <2>2 DEF GatewayChanges, TypeOK
  <2> QED
    BY <2>1, <2>2 DEF PhoneStep
<1> QED
  BY <1>1, <1>2, <1>3 DEF IInv, TypeOK, InstantsRead, DeliveredTookEffect, AcceptedTookEffect

-----------------------------------------------------------------------------
(* A request.                                                              *)

\* What a step that leaves the limiter alone keeps of it.
LEMMA QuietLimiter ==
  ASSUME TypeOK, UNCHANGED limiterVars
  PROVE  LimiterTypes' /\ now' = now
BY DEF TypeOK, LimiterTypes, limiterVars

\* Steps before the backend is asked: Refuse, Authorize and Admit.
LEMMA HandlerHolds ==
  ASSUME IInv, NEW r \in Requests, Refuse(r) \/ (\E c \in Command : Authorize(r, c)) \/ Admit(r)
  PROVE  IInv'
<1>1. TypeOK /\ InstantsRead /\ DeliveredTookEffect /\ AcceptedTookEffect
  BY DEF IInv
<1>2. CASE Refuse(r)
  BY <1>1, <1>2, QuietLimiter, RespondHolds DEF Refuse, Response
<1>3. ASSUME NEW c \in Command, Authorize(r, c) PROVE IInv'
  <2>1. /\ pc' = [pc EXCEPT ![r] = "admit"] /\ command' = [command EXCEPT ![r] = c]
        /\ instant' = [instant EXCEPT ![r] = now]
        /\ response' = [response EXCEPT ![r] = "none"] /\ effected' = [effected EXCEPT ![r] = FALSE]
        /\ UNCHANGED <<gateways, live, now, started_at, accepted, recent, target>>
    BY <1>3 DEF Authorize, phoneVars, limiterVars
  <2>2. TypeOK'
    BY <1>1, <2>1 DEF TypeOK, Response
  <2>3. /\ pc'[r] = "admit" /\ response'[r] = "none" /\ instant'[r] = now
        /\ \A q \in Requests \ {r} : /\ pc'[q] = pc[q] /\ instant'[q] = instant[q]
                                     /\ response'[q] = response[q] /\ effected'[q] = effected[q]
    BY <1>1, <2>1 DEF TypeOK
  <2>4. InstantsRead'
    BY <1>1, <2>1, <2>3 DEF InstantsRead, TypeOK
  <2>5. DeliveredTookEffect' /\ AcceptedTookEffect'
    BY <1>1, <2>3 DEF DeliveredTookEffect, AcceptedTookEffect
  <2> QED
    BY <2>2, <2>4, <2>5 DEF IInv
<1>4. CASE Admit(r)
  <2> DEFINE n == IF Expired(r) THEN 0 ELSE accepted
  <2>1. n \in 0..Maximum
    BY <1>1, CallControlAssumption DEF TypeOK
  <2>2. now' = now /\ now \in 0..MaxTime /\ started_at' \in 0..MaxTime
    BY <1>1, <1>4 DEF Admit, Allow, WindowStart, TypeOK
  <2>3. UNCHANGED <<phoneVars, effected>>
    BY <1>4 DEF Admit
  <2>4. CASE Full(n)
    <3>1. accepted' = n /\ recent' = recent /\ Respond(r, "too_many_requests")
      BY <1>4, <2>4 DEF Admit, Allow
    <3>2. LimiterTypes'
      BY <1>1, <2>1, <2>2, <3>1 DEF TypeOK, LimiterTypes
    <3> QED
      BY <2>2, <2>3, <3>1, <3>2, RespondHolds DEF Response
  <2>5. CASE ~Full(n)
    <3>1. /\ accepted' = n + 1 /\ recent' = Noted(r)
          /\ IF command[r] = "invalid"
             THEN Respond(r, "unprocessable")
             ELSE /\ pc' = [pc EXCEPT ![r] = "objects"]
                  /\ instant' = [instant EXCEPT ![r] = 0]
                  /\ UNCHANGED <<command, target, response>>
      BY <1>4, <2>5 DEF Admit, Allow
    <3>2. accepted' \in 0..Maximum
      BY <2>1, <2>5, <3>1, CallControlAssumption DEF Full
    <3>3. recent' \in [1..Window -> Nat]
      BY <1>1, <3>1 DEF TypeOK, Noted
    <3>4. LimiterTypes'
      BY <2>2, <3>2, <3>3 DEF LimiterTypes
    <3>5. CASE command[r] = "invalid"
      BY <2>2, <2>3, <3>1, <3>4, <3>5, RespondHolds DEF Response
    <3>6. CASE command[r] # "invalid"
      <4>1. target' \in [Requests -> Calls \cup {None}]
        BY <1>1, <3>1, <3>6 DEF TypeOK
      <4> HIDE DEF n
      <4> QED
        BY <2>2, <2>3, <3>1, <3>4, <3>6, <4>1, AdvanceHolds
    <3> QED
      BY <3>5, <3>6
  <2> QED
    BY <2>4, <2>5
<1> QED
  BY <1>2, <1>3, <1>4

\* The questions to the backend, and its failures.
LEMMA BackendHolds ==
  ASSUME IInv, NEW r \in Requests, ListObjects(r) \/ ListCalls(r) \/ ReadState(r) \/ HelperFails(r)
  PROVE  IInv'
<1>1. TypeOK
  BY DEF IInv
<1>2. UNCHANGED <<phoneVars, effected>> /\ LimiterTypes' /\ now' = now
  BY <1>1, QuietLimiter DEF ListObjects, ListCalls, ReadState, HelperFails
<1>3. CASE Respond(r, "bad_gateway")
  BY <1>2, <1>3, RespondHolds DEF Response
<1>4. CASE ~Respond(r, "bad_gateway")
  <2>1. /\ \E here \in {"calls", "state", "command"} : pc' = [pc EXCEPT ![r] = here]
        /\ target' = target \/ \E k \in Existing : target' = [target EXCEPT ![r] = k]
        /\ UNCHANGED <<command, instant, response>>
    BY <1>4 DEF ListObjects, ListCalls, ReadState, HelperFails
  <2>2. target' \in [Requests -> Calls \cup {None}]
    BY <1>1, <2>1 DEF TypeOK, Existing
  <2> QED
    BY <1>2, <2>1, <2>2, AdvanceHolds
<1> QED
  BY <1>3, <1>4

\* The phone takes the method.
LEMMA DeliverHolds == ASSUME IInv, NEW r \in Requests, Deliver(r) PROVE IInv'
<1>1. TypeOK /\ InstantsRead /\ DeliveredTookEffect /\ AcceptedTookEffect
  BY DEF IInv
<1>2. /\ pc' = [pc EXCEPT ![r] = "delivered"] /\ effected' = [effected EXCEPT ![r] = TRUE]
      /\ UNCHANGED <<gateways, now, started_at, accepted, recent, command, instant, target, response>>
  BY DEF Deliver, limiterVars
<1>3. live' \in [Calls -> LiveCallState \cup {"gone"}]
  <2>1. Held \in [Calls -> LiveCallState \cup {"gone"}]
    BY <1>1 DEF Held, TypeOK, LiveCallState
  <2> QED
    BY <1>1, <2>1 DEF Deliver, TypeOK, LiveCallState
<1>4. TypeOK'
  BY <1>1, <1>2, <1>3 DEF TypeOK
<1>5. \A q \in Requests : effected'[q] = (effected[q] \/ q = r) /\ (q # r => pc'[q] = pc[q])
  BY <1>1, <1>2 DEF TypeOK
<1>6. InstantsRead' /\ DeliveredTookEffect' /\ AcceptedTookEffect'
  BY <1>1, <1>2, <1>5 DEF InstantsRead, DeliveredTookEffect, AcceptedTookEffect
<1> QED
  BY <1>4, <1>6 DEF IInv

\* busctl returns, or is killed, after the method was delivered.
LEMMA ReturnHolds ==
  ASSUME IInv, NEW r \in Requests, HelperReturns(r) \/ TimeOut(r)
  PROVE  IInv'
<1>1. TypeOK /\ DeliveredTookEffect
  BY DEF IInv
<1>2. /\ pc[r] = "delivered" /\ UNCHANGED phoneVars /\ effected' = effected
      /\ LimiterTypes' /\ now' = now
      /\ Respond(r, "accepted") \/ Respond(r, "bad_gateway")
  BY <1>1, QuietLimiter DEF HelperReturns, TimeOut
<1>3. effected'[r]
  BY <1>1, <1>2 DEF DeliveredTookEffect
<1> QED
  BY <1>2, <1>3, RespondHolds DEF Response

LEMMA NextHolds == ASSUME IInv, [Next]_vars PROVE IInv'
<1>1. CASE UNCHANGED vars
  BY <1>1 DEF vars, phoneVars, limiterVars, requestVars, IInv, TypeOK, InstantsRead,
              DeliveredTookEffect, AcceptedTookEffect
<1>2. ASSUME NEW r \in Requests, RequestStep(r) PROVE IInv'
  BY <1>2, HandlerHolds, BackendHolds, DeliverHolds, ReturnHolds DEF RequestStep
<1> QED
  BY <1>1, <1>2, TickHolds, PhoneHolds DEF Next

-----------------------------------------------------------------------------
(* The mutation limiter.                                                   *)

\* How long ago the window began.
Age == now - started_at

\* The admitted requests can be divided: at most Maximum of them were counted in
\* the windows before, and read the clock before this one began; this one has
\* counted the others, among them requests that read the clock before it began.
Split(old) ==
  /\ Cardinality(old) <= Maximum /\ Cardinality(Admitted \ old) <= accepted
  /\ \A p \in old : p[1] > Age

\* No request was admitted that read the clock when the window had run for longer
\* than Window.
Windows ==
  /\ IsFiniteSet(Admitted)
  /\ \A p \in Admitted : p[1] + Window > Age
  /\ \E old \in SUBSET Admitted : Split(old)

\* What Admitted is, for any counts.
LEMMA Pairs ==
  ASSUME NEW c \in [1..Window -> Nat], NEW A, A = UNION {{t} \X (1..c[t]) : t \in 1..Window}
  PROVE  /\ A \in SUBSET ((1..Window) \X Nat)
         /\ \A t, n : <<t, n>> \in A <=> t \in 1..Window /\ n \in 1..c[t]
BY CallControlAssumption

\* Admissions that are those of the tick before, one tick older, are no more.
LEMMA OlderByOne ==
  ASSUME NEW S \in SUBSET (Nat \X Nat), NEW T \in SUBSET (Nat \X Nat), IsFiniteSet(T),
         \A p \in S : <<p[1] - 1, p[2]>> \in T
  PROVE  IsFiniteSet(S) /\ Cardinality(S) <= Cardinality(T)
<1> DEFINE f == [p \in S |-> <<p[1] - 1, p[2]>>]
<1>1. f \in [S -> T]
  OBVIOUS
<1>2. ASSUME NEW p \in S, NEW q \in S, f[p] = f[q] PROVE p = q
  <2>1. p = <<p[1], p[2]>> /\ q = <<q[1], q[2]>> /\ {p[1], p[2], q[1], q[2]} \subseteq Nat
    OBVIOUS
  <2>2. f[p] = <<p[1] - 1, p[2]>> /\ f[q] = <<q[1] - 1, q[2]>>
    OBVIOUS
  <2>3. p[1] - 1 = q[1] - 1 /\ p[2] = q[2]
    BY <1>2, <2>2
  <2> QED
    BY <2>1, <2>3
<1>3. f \in Injection(S, T)
  BY <1>1, <1>2 DEF Injection, IsInjective
<1> QED
  BY <1>3, FS_Injection

LEMMA TickWindows == ASSUME TypeOK, TypeOK', Windows, Tick PROVE Windows'
<1>1. /\ Age' = Age + 1
      /\ recent' = [t \in 1..Window |-> IF t = 1 THEN 0 ELSE recent[t - 1]] /\ accepted' = accepted
  BY DEF Tick, Age, TypeOK
<1>2. Age \in Int /\ accepted \in Nat /\ Window \in Nat /\ Maximum \in Nat
  BY CallControlAssumption DEF TypeOK, Age
<1>3. /\ Admitted \in SUBSET ((1..Window) \X Nat)
      /\ \A t, n : <<t, n>> \in Admitted <=> t \in 1..Window /\ n \in 1..recent[t]
  BY Pairs DEF TypeOK, Admitted
<1>4. /\ Admitted' \in SUBSET ((1..Window) \X Nat)
      /\ \A t, n : <<t, n>> \in Admitted' <=> t \in 1..Window /\ n \in 1..recent'[t]
  BY Pairs DEF TypeOK, Admitted
<1>5. ASSUME NEW p \in Admitted' PROVE p[1] \in 2..Window /\ <<p[1] - 1, p[2]>> \in Admitted
  <2>1. p = <<p[1], p[2]>> /\ p[1] \in 1..Window
    BY <1>4
  <2>2. p[2] \in 1..recent'[p[1]]
    BY <1>4, <2>1
  <2>3. recent'[p[1]] = IF p[1] = 1 THEN 0 ELSE recent[p[1] - 1]
    BY <1>1, <2>1
  <2>4. p[1] # 1
    BY <2>2, <2>3
  <2>5. p[1] \in 2..Window /\ p[1] - 1 \in 1..Window /\ p[2] \in 1..recent[p[1] - 1]
    BY <1>2, <2>1, <2>2, <2>3, <2>4
  <2> QED
    BY <1>3, <2>5
<1>6. PICK old \in SUBSET Admitted : Split(old)
  BY DEF Windows
<1> DEFINE older == {p \in Admitted' : <<p[1] - 1, p[2]>> \in old}
<1>7. IsFiniteSet(Admitted) /\ IsFiniteSet(old) /\ IsFiniteSet(Admitted \ old)
  BY <1>6, FS_Subset DEF Windows
<1>8. /\ Admitted \in SUBSET (Nat \X Nat) /\ old \in SUBSET (Nat \X Nat)
      /\ Admitted \ old \in SUBSET (Nat \X Nat) /\ Admitted' \in SUBSET (Nat \X Nat)
      /\ older \in SUBSET (Nat \X Nat) /\ Admitted' \ older \in SUBSET (Nat \X Nat)
  BY <1>2, <1>3, <1>4
<1>9. IsFiniteSet(Admitted')
  BY <1>5, <1>7, <1>8, OlderByOne
<1>10. Cardinality(older) <= Cardinality(old) /\ IsFiniteSet(older)
  <2>1. \A p \in older : <<p[1] - 1, p[2]>> \in old
    OBVIOUS
  <2> HIDE DEF older
  <2> QED
    BY <1>7, <1>8, <2>1, OlderByOne
<1>11. Cardinality(Admitted' \ older) <= Cardinality(Admitted \ old) /\ IsFiniteSet(Admitted' \ older)
  <2>1. \A p \in Admitted' \ older : <<p[1] - 1, p[2]>> \in Admitted \ old
    <3> HIDE DEF older
    <3>1. ASSUME NEW p \in Admitted', p \notin older PROVE <<p[1] - 1, p[2]>> \in Admitted \ old
      BY <1>5, <3>1 DEF older
    <3> QED
      BY <3>1
  <2> HIDE DEF older
  <2> QED
    BY <1>7, <1>8, <2>1, OlderByOne
<1>12. \A p \in Admitted' : p[1] + Window > Age'
  <2> SUFFICES ASSUME NEW p \in Admitted' PROVE p[1] + Window > Age'
    OBVIOUS
  <2>1. p[1] \in 2..Window /\ <<p[1] - 1, p[2]>> \in Admitted
    BY <1>5
  <2>2. (p[1] - 1) + Window > Age
    BY <2>1 DEF Windows
  <2> QED
    BY <1>1, <1>2, <2>1, <2>2
<1>13. \A p \in older : p[1] > Age'
  <2> SUFFICES ASSUME NEW p \in older PROVE p[1] > Age'
    OBVIOUS
  <2>1. p[1] \in 2..Window /\ <<p[1] - 1, p[2]>> \in old
    BY <1>5
  <2>2. p[1] - 1 > Age
    BY <1>6, <2>1 DEF Split
  <2> QED
    BY <1>1, <1>2, <2>1, <2>2
<1>14. Cardinality(older) <= Maximum /\ Cardinality(Admitted' \ older) <= accepted'
  <2>1. Cardinality(old) <= Maximum /\ Cardinality(Admitted \ old) <= accepted
    BY <1>6 DEF Split
  <2>2. /\ Cardinality(old) \in Nat /\ Cardinality(older) \in Nat
        /\ Cardinality(Admitted \ old) \in Nat /\ Cardinality(Admitted' \ older) \in Nat
    BY <1>7, <1>10, <1>11, FS_CardinalityType
  <2> QED
    BY <1>1, <1>2, <1>10, <1>11, <2>1, <2>2
<1>15. older \in SUBSET Admitted'
  OBVIOUS
<1> HIDE DEF older
<1> QED
  BY <1>9, <1>12, <1>13, <1>14, <1>15 DEF Windows, Split

\* A request that read the clock t - 1 ticks ago is let through: one more.
LEMMA OneMore ==
  ASSUME TypeOK, Windows, NEW t \in 1..Window, recent' = [recent EXCEPT ![t] = @ + 1],
         NEW old \in SUBSET Admitted,
         Cardinality(old) <= Maximum, Cardinality(Admitted \ old) < accepted',
         accepted' \in Nat, t + Window > Age',
         \A p \in old : p[1] > Age', \A p \in Admitted : p[1] + Window > Age'
  PROVE  Windows'
<1> DEFINE x == <<t, recent[t] + 1>>
<1>1. Window \in Nat /\ recent \in [1..Window -> Nat]
  BY CallControlAssumption DEF TypeOK
<1>2. recent' \in [1..Window -> Nat] /\ recent'[t] = recent[t] + 1
      /\ \A u \in 1..Window : u # t => recent'[u] = recent[u]
  BY <1>1
<1>3. /\ Admitted \in SUBSET ((1..Window) \X Nat)
      /\ \A u, n : <<u, n>> \in Admitted <=> u \in 1..Window /\ n \in 1..recent[u]
  BY <1>1, Pairs DEF Admitted
<1>4. /\ Admitted' \in SUBSET ((1..Window) \X Nat)
      /\ \A u, n : <<u, n>> \in Admitted' <=> u \in 1..Window /\ n \in 1..recent'[u]
  BY <1>2, Pairs DEF Admitted
<1>5. \A u, n : <<u, n>> \in Admitted' <=> <<u, n>> \in Admitted \/ <<u, n>> = x
  <2> SUFFICES ASSUME NEW u, NEW n
               PROVE  <<u, n>> \in Admitted' <=> <<u, n>> \in Admitted \/ <<u, n>> = x
    OBVIOUS
  <2>1. CASE u = t
    <3>1. n \in 1..(recent[t] + 1) <=> n \in 1..recent[t] \/ n = recent[t] + 1
      BY <1>1
    <3> QED
      BY <1>1, <1>2, <1>3, <1>4, <2>1, <3>1
  <2>2. CASE u # t
    BY <1>1, <1>2, <1>3, <1>4, <2>2
  <2> QED
    BY <2>1, <2>2
<1>6. Admitted' = Admitted \cup {x}
  <2>1. x \in Admitted'
    BY <1>5
  <2>2. \A p \in Admitted' : p = <<p[1], p[2]>>
    BY <1>4
  <2>3. \A p \in Admitted : p = <<p[1], p[2]>>
    BY <1>3
  <2> HIDE DEF x
  <2> QED
    BY <1>5, <2>1, <2>2, <2>3
<1>7. x \notin Admitted
  BY <1>1, <1>3
<1>8. x[1] = t
  OBVIOUS
<1> HIDE DEF x
<1>9. IsFiniteSet(Admitted) /\ IsFiniteSet(Admitted \ old)
  BY FS_Subset DEF Windows
<1>10. Admitted' \ old = (Admitted \ old) \cup {x} /\ x \notin Admitted \ old
  BY <1>6, <1>7
<1>11. IsFiniteSet(Admitted') /\ Cardinality(Admitted' \ old) = Cardinality(Admitted \ old) + 1
  BY <1>6, <1>9, <1>10, FS_AddElement
<1>12. Cardinality(Admitted' \ old) <= accepted'
  BY <1>9, <1>11, FS_CardinalityType
<1>13. \A p \in Admitted' : p[1] + Window > Age'
  BY <1>6, <1>8
<1>14. old \in SUBSET Admitted'
  BY <1>6
<1> QED
  BY <1>11, <1>12, <1>13, <1>14 DEF Windows, Split

\* A request is let through, whenever it read the clock.
LEMMA NotedWindows ==
  ASSUME TypeOK, InstantsRead, Windows, NEW r \in Requests, recent' = Noted(r),
         NEW old \in SUBSET Admitted,
         Cardinality(old) <= Maximum, Cardinality(Admitted \ old) < accepted', accepted' \in Nat,
         (now - instant[r]) + 1 + Window > Age',
         \A p \in old : p[1] > Age', \A p \in Admitted : p[1] + Window > Age'
  PROVE  Windows'
<1> DEFINE t == (now - instant[r]) + 1
<1>1. t \in Nat \ {0} /\ Window \in Nat /\ recent \in [1..Window -> Nat]
  BY CallControlAssumption DEF TypeOK, InstantsRead
<1>2. recent' = [u \in 1..Window |-> IF u = t THEN recent[u] + 1 ELSE recent[u]]
  BY DEF Noted
<1>3. CASE t \in 1..Window
  <2>1. recent' = [recent EXCEPT ![t] = @ + 1]
    BY <1>1, <1>2, <1>3
  <2> HIDE DEF t
  <2>2. t + Window > Age'
    BY DEF t
  <2> QED
    BY <1>3, <2>1, <2>2, OneMore
<1>4. CASE t \notin 1..Window
  <2>1. recent' = recent
    BY <1>1, <1>2, <1>4
  <2>2. Admitted' = Admitted
    BY <2>1 DEF Admitted
  <2>3. Cardinality(Admitted \ old) \in Nat
    BY FS_Subset, FS_CardinalityType DEF Windows
  <2>4. Cardinality(Admitted \ old) <= accepted'
    BY <2>3
  <2>5. Split(old)'
    BY <2>2, <2>4 DEF Split
  <2> QED
    BY <2>2, <2>5 DEF Windows
<1> QED
  BY <1>3, <1>4

LEMMA AdmitWindows ==
  ASSUME TypeOK, InstantsRead, Windows, NEW r \in Requests, Admit(r)
  PROVE  Windows'
<1>1. /\ now \in Nat /\ started_at \in Nat /\ accepted \in 0..Maximum
      /\ instant[r] \in Nat /\ instant[r] <= now /\ now' = now
      /\ Window \in Nat \ {0} /\ Maximum \in Nat \ {0}
  BY CallControlAssumption DEF TypeOK, InstantsRead, Admit
<1>2. PICK old \in SUBSET Admitted : Split(old)
  BY DEF Windows
<1>3. /\ IsFiniteSet(Admitted) /\ IsFiniteSet(Admitted \ old)
      /\ Cardinality(Admitted) \in Nat /\ Cardinality(Admitted \ old) \in Nat
  BY FS_Subset, FS_CardinalityType DEF Windows
<1>4. \A p \in Admitted : p[1] \in 1..Window
  BY Pairs DEF Admitted, TypeOK
<1>5. CASE ~Expired(r)
  <2>1. Age' = Age /\ Age \in Int /\ (now - instant[r]) + 1 + Window > Age'
    BY <1>1, <1>5 DEF Admit, Allow, WindowStart, Expired, Age
  <2>2. CASE Full(accepted)
    <3>1. accepted' = accepted /\ recent' = recent
      BY <1>5, <2>2 DEF Admit, Allow
    <3> QED
      BY <2>1, <3>1 DEF Windows, Split, Admitted
  <2>3. CASE ~Full(accepted)
    <3>1. accepted' = accepted + 1 /\ recent' = Noted(r)
      BY <1>5, <2>3 DEF Admit, Allow
    <3>2. /\ Cardinality(old) <= Maximum /\ Cardinality(Admitted \ old) < accepted'
          /\ accepted' \in Nat /\ \A p \in old : p[1] > Age'
      BY <1>1, <1>2, <1>3, <2>1, <3>1 DEF Split
    <3>3. \A p \in Admitted : p[1] + Window > Age'
      BY <2>1 DEF Windows
    <3> QED
      BY <2>1, <3>1, <3>2, <3>3, NotedWindows
  <2> QED
    BY <2>2, <2>3
<1>6. CASE Expired(r)
  <2>1. Age' = now - instant[r] /\ Age' \in Nat /\ Age \in Int /\ Age >= Window + Age'
    BY <1>1, <1>6 DEF Admit, Allow, WindowStart, Expired, Age
  <2>2. ~Full(0)
    BY <1>1 DEF Full
  <2>3. accepted' = 1 /\ recent' = Noted(r)
    BY <1>6, <2>2 DEF Admit, Allow
  <2>4. old = {}
    <3>1. \A p \in old : p[1] \in 1..Window /\ p[1] > Age
      BY <1>2, <1>4 DEF Split
    <3>2. \A p \in old : FALSE
      BY <1>1, <2>1, <3>1
    <3> QED
      BY <3>2
  <2>5. Cardinality(Admitted) <= Maximum
    <3>1. Admitted \ old = Admitted
      BY <2>4
    <3> QED
      BY <1>1, <1>2, <1>3, <3>1 DEF Split
  <2>6. \A p \in Admitted : p[1] > Age' /\ p[1] + Window > Age'
    <3> SUFFICES ASSUME NEW p \in Admitted PROVE p[1] > Age' /\ p[1] + Window > Age'
      OBVIOUS
    <3>1. p[1] + Window > Age /\ p[1] \in 1..Window
      BY <1>4 DEF Windows
    <3> QED
      BY <1>1, <2>1, <3>1
  <2>7. Cardinality(Admitted \ Admitted) < accepted' /\ accepted' \in Nat
    BY <2>3, FS_EmptySet
  <2>8. (now - instant[r]) + 1 + Window > Age'
    BY <1>1, <2>1
  <2> QED
    BY <2>3, <2>5, <2>6, <2>7, <2>8, NotedWindows
<1> QED
  BY <1>5, <1>6

\* Nothing else touches the limiter.
LEMMA NextWindows == ASSUME IInv, IInv', Windows, [Next]_vars PROVE Windows'
<1>1. TypeOK /\ TypeOK' /\ InstantsRead
  BY DEF IInv
<1>2. CASE UNCHANGED <<now, started_at, accepted, recent>>
  BY <1>2 DEF Windows, Split, Admitted, Age
<1>3. CASE UNCHANGED vars \/ PhoneStep
  BY <1>2, <1>3 DEF vars, limiterVars, PhoneStep, CallChanges, GatewayChanges
<1>4. ASSUME NEW r \in Requests, RequestStep(r), ~Admit(r) PROVE Windows'
  BY <1>2, <1>4 DEF RequestStep, Refuse, Authorize, ListObjects, ListCalls, ReadState, HelperFails,
                    Deliver, HelperReturns, TimeOut, limiterVars
<1> QED
  BY <1>1, <1>3, <1>4, TickWindows, AdmitWindows DEF Next

LEMMA InitWindows == Init => Windows
<1> SUFFICES ASSUME Init PROVE Windows
  OBVIOUS
<1>1. Admitted = {}
  BY CallControlAssumption DEF Init, Admitted
<1>2. accepted = 0 /\ Maximum \in Nat
  BY CallControlAssumption DEF Init
<1>3. Split({})
  BY <1>1, <1>2, FS_EmptySet DEF Split
<1> QED
  BY <1>1, <1>3, FS_EmptySet DEF Windows

LEMMA WindowsBoundRate == ASSUME TypeOK, Windows PROVE RateBounded
<1>1. accepted \in 0..Maximum /\ Maximum \in Nat
  BY CallControlAssumption DEF TypeOK
<1>2. PICK old \in SUBSET Admitted : Split(old)
  BY DEF Windows
<1>3. IsFiniteSet(Admitted) /\ IsFiniteSet(old) /\ IsFiniteSet(Admitted \ old)
  BY FS_Subset DEF Windows
<1>4. old \cup (Admitted \ old) = Admitted /\ old \cap (Admitted \ old) = {}
  OBVIOUS
<1>5. Cardinality(Admitted) = Cardinality(old) + Cardinality(Admitted \ old) - 0
  BY <1>3, <1>4, FS_Union, FS_EmptySet
<1>6. Cardinality(old) \in Nat /\ Cardinality(Admitted \ old) \in Nat
  BY <1>3, FS_CardinalityType
<1> QED
  BY <1>1, <1>2, <1>5, <1>6 DEF Split, RateBounded

-----------------------------------------------------------------------------
(* The theorems.                                                           *)

LEMMA Inductive == Spec => []IInv
<1>1. IInv /\ [Next]_vars => IInv'
  BY NextHolds
<1> QED
  BY InitHolds, <1>1, PTL DEF Spec

\* Types hold, and the mutation limiter never counts more than its maximum.
THEOREM TypeCorrect == Spec => []TypeOK
<1>1. IInv => TypeOK
  BY DEF IInv
<1> QED
  BY Inductive, <1>1, PTL

\* An accepted response means that the phone took the command.
THEOREM ResponsesTruthful == Spec => []AcceptedTookEffect
<1>1. IInv => AcceptedTookEffect
  BY DEF IInv
<1> QED
  BY Inductive, <1>1, PTL

\* Of the requests that read the clock and were let through within the same Window
\* ticks, the limiter let at most twice its maximum through, however long requests
\* waited for its lock and in whatever order they got it.
THEOREM LimiterBoundsRate == Spec => []RateBounded
<1>1. Windows /\ IInv /\ IInv' /\ [Next]_vars => Windows'
  BY NextWindows
<1>2. Spec => []Windows
  BY Inductive, InitWindows, <1>1, PTL DEF Spec
<1>3. IInv /\ Windows => RateBounded
  BY WindowsBoundRate DEF IInv
<1> QED
  BY Inductive, <1>2, <1>3, PTL
=============================================================================
