--------------------------- MODULE LiveMediaProofs ---------------------------
(***************************************************************************)
(* Safety of the media-session registry (MediaSession), and of the media   *)
(* connections on top of it (LiveMedia), for any number of connections,    *)
(* issuers and grants, any lifetime and clock bound, and any sizes of      *)
(* queues and batches.                                                     *)
(*                                                                         *)
(* First the registry alone.  AtMostOneActiveLease is not inductive: it    *)
(* depends on who holds the mutex, on which grants clients know and on the *)
(* claimed flags.  IInv (module MediaSession) collects these facts; each   *)
(* action is shown to keep it, conjunct by conjunct.                       *)
(*                                                                         *)
(* Then the connections.  LiveMedia takes the steps of MediaSession and    *)
(* leaves its variables alone otherwise, so IInv carries over; what a      *)
(* bridge and the queues have to do with the leases is added to it.        *)
(***************************************************************************)
EXTENDS LiveMedia, SequenceTheorems, TLAPS

-----------------------------------------------------------------------------
(* The registry.                                                           *)

\* The initial registry satisfies the inductive invariant.
LEMMA InitEstablishesIInv == Init => IInv
  BY MediaSessionAssumption
  DEF Init, IInv, TypeOK, MutexDiscipline, FreshGrants, PresentedGrants,
      UnrevokedIsCurrent, OneConnectionPerGrant, ClaimedMeansHeld, Holds

\* A handler that answers leaves the per-connection variables in their types.
LEMMA IdleTypes ==
  ASSUME TypeOK, NEW s \in Streams, Idle(s)
  PROVE  /\ pc' \in [Streams -> {"idle", "claiming", "fetched", "authorized", "leased"}]
         /\ session' \in [Streams -> Grants \cup {NoGrant}]
         /\ token_ok' \in [Streams -> BOOLEAN]
         /\ asked' \in [Streams -> 0..MaxTime]
         /\ \A t \in Streams : pc'[t] = "idle" <=> session'[t] = NoGrant
  <1>1. asked' \in [Streams -> 0..MaxTime]
    BY MediaSessionAssumption DEF TypeOK, Idle
  <1> QED
    BY <1>1 DEF TypeOK, Idle

\* The clock keeps the invariant: it touches no grant and no lease.
LEMMA TickKeepsIInv ==
  ASSUME IInv, Tick
  PROVE  IInv'
  <1> USE DEF IInv
  <1>1. TypeOK'
    BY MediaSessionAssumption DEF Tick, registryVars, streamVars, TypeOK
  <1>2. (MutexDiscipline /\ FreshGrants /\ PresentedGrants /\ UnrevokedIsCurrent /\ OneConnectionPerGrant /\ ClaimedMeansHeld)'
    BY DEF Tick, registryVars, streamVars, MutexDiscipline, FreshGrants, PresentedGrants,
           UnrevokedIsCurrent, OneConnectionPerGrant, ClaimedMeansHeld,
               Holds
  <1> QED
    BY <1>1, <1>2

\* Drawing a grant outside the mutex keeps the invariant: nobody knows the grant.
LEMMA DrawGrantKeepsIInv ==
  ASSUME IInv, NEW i \in Issuers, NEW g \in Grants, DrawGrant(i, g)
  PROVE  IInv'
  <1> USE DEF IInv
  <1>1. TypeOK'
    BY MediaSessionAssumption DEF DrawGrant, registryVars, streamVars, TypeOK
  <1>2. MutexDiscipline'
    BY MediaSessionAssumption
    DEF DrawGrant, registryVars, streamVars, TypeOK, MutexDiscipline
  <1>3. FreshGrants'
    BY MediaSessionAssumption
    DEF DrawGrant, registryVars, streamVars, TypeOK, FreshGrants, PresentedGrants
  <1>4. PresentedGrants'
    BY DEF DrawGrant, registryVars, streamVars, TypeOK, PresentedGrants
  <1>5. UnrevokedIsCurrent'
    BY DEF DrawGrant, registryVars, streamVars, TypeOK, UnrevokedIsCurrent, FreshGrants
  <1>7. (OneConnectionPerGrant /\ ClaimedMeansHeld)'
    BY DEF DrawGrant, registryVars, streamVars, OneConnectionPerGrant, ClaimedMeansHeld,
           Holds
  <1> QED
    BY <1>1, <1>2, <1>3, <1>4, <1>5, <1>7

\* The swap under the mutex keeps the invariant: the displaced grant is remembered.
LEMMA ReplaceActiveKeepsIInv ==
  ASSUME IInv, NEW i \in Issuers, ReplaceActive(i)
  PROVE  IInv'
  <1> USE DEF IInv
  <1>1. TypeOK'
    BY MediaSessionAssumption DEF ReplaceActive, registryVars, streamVars, TypeOK
  <1>2. MutexDiscipline'
    BY MediaSessionAssumption
    DEF ReplaceActive, registryVars, streamVars, TypeOK, MutexDiscipline, FreshGrants
  <1>3. FreshGrants'
    BY MediaSessionAssumption
    DEF ReplaceActive, registryVars, streamVars, TypeOK, FreshGrants
  <1>4. UnrevokedIsCurrent'
    BY DEF ReplaceActive, registryVars, streamVars, TypeOK, UnrevokedIsCurrent,
           MutexDiscipline
  <1>5. (PresentedGrants /\ OneConnectionPerGrant /\ ClaimedMeansHeld)'
    BY DEF ReplaceActive, registryVars, streamVars, PresentedGrants,
           OneConnectionPerGrant, ClaimedMeansHeld, Holds
  <1> QED
    BY <1>1, <1>2, <1>3, <1>4, <1>5

\* Revoking the displaced grant before the mutex is released keeps the invariant.
LEMMA RevokePreviousKeepsIInv ==
  ASSUME IInv, NEW i \in Issuers, RevokePrevious(i)
  PROVE  IInv'
  <1> USE DEF IInv
  <1>1. TypeOK'
    BY MediaSessionAssumption
    DEF RevokePrevious, registryVars, streamVars, TypeOK, FreshGrants
  <1>2. MutexDiscipline'
    BY MediaSessionAssumption
    DEF RevokePrevious, registryVars, streamVars, TypeOK, MutexDiscipline
  <1>3. FreshGrants'
    BY MediaSessionAssumption
    DEF RevokePrevious, registryVars, streamVars, TypeOK, FreshGrants, MutexDiscipline
  <1>4. PresentedGrants'
    BY DEF RevokePrevious, registryVars, streamVars, TypeOK, PresentedGrants, FreshGrants
  <1>5. UnrevokedIsCurrent'
    BY MediaSessionAssumption
    DEF RevokePrevious, registryVars, streamVars, TypeOK, UnrevokedIsCurrent,
        MutexDiscipline
  <1>6. (OneConnectionPerGrant /\ ClaimedMeansHeld)'
    BY DEF RevokePrevious, registryVars, streamVars,
           OneConnectionPerGrant, ClaimedMeansHeld, Holds
  <1> QED
    BY <1>1, <1>2, <1>3, <1>4, <1>5, <1>6

\* Teardown revocation keeps the invariant.
LEMMA RevokeKeepsIInv ==
  ASSUME IInv, NEW g \in Grants, Revoke(g)
  PROVE  IInv'
  <1> USE DEF IInv
  <1>1. TypeOK'
    BY MediaSessionAssumption DEF Revoke, registryVars, streamVars, TypeOK
  <1>2. MutexDiscipline'
    BY MediaSessionAssumption DEF Revoke, registryVars, streamVars, TypeOK, MutexDiscipline
  <1>3. UnrevokedIsCurrent'
    BY DEF Revoke, registryVars, streamVars, TypeOK, UnrevokedIsCurrent, MutexDiscipline,
           PresentedGrants
  <1>4. (FreshGrants /\ PresentedGrants /\ OneConnectionPerGrant /\ ClaimedMeansHeld)'
    BY DEF Revoke, registryVars, streamVars, FreshGrants, PresentedGrants,
           OneConnectionPerGrant, ClaimedMeansHeld, Holds
  <1> QED
    BY <1>1, <1>2, <1>3, <1>4

\* A request that presents credentials keeps the invariant.
LEMMA BeginClaimKeepsIInv ==
  ASSUME IInv, NEW s \in Streams, NEW g \in Grants, NEW ok \in BOOLEAN, BeginClaim(s, g, ok)
  PROVE  IInv'
  <1> USE DEF IInv
  <1>1. TypeOK'
    BY MediaSessionAssumption DEF BeginClaim, registryVars, streamVars, TypeOK
  <1>2. PresentedGrants'
    BY DEF BeginClaim, registryVars, streamVars, TypeOK, PresentedGrants
  <1>4. OneConnectionPerGrant'
    BY DEF BeginClaim, registryVars, streamVars, OneConnectionPerGrant, ClaimedMeansHeld,
           Holds
  <1>5. ClaimedMeansHeld'
    BY DEF BeginClaim, registryVars, streamVars, TypeOK, ClaimedMeansHeld,
           OneConnectionPerGrant, Holds
  <1>6. (MutexDiscipline /\ FreshGrants /\ UnrevokedIsCurrent)'
    BY DEF BeginClaim, registryVars, streamVars, MutexDiscipline, FreshGrants,
           UnrevokedIsCurrent
  <1> QED
    BY <1>1, <1>2, <1>4, <1>5, <1>6

\* The lookup under the mutex keeps the invariant.
LEMMA LookUpKeepsIInv ==
  ASSUME IInv, NEW s \in Streams, LookUp(s)
  PROVE  IInv'
  <1> USE DEF IInv
  <1>1. TypeOK'
    <2>1. CASE Idle(s)
      BY <2>1, IdleTypes DEF LookUp, Idle, registryVars, streamVars, TypeOK
    <2>2. CASE ~Idle(s)
      BY <2>2, MediaSessionAssumption DEF LookUp, registryVars, streamVars, TypeOK
    <2> QED
      BY <2>1, <2>2
  <1>2. PresentedGrants'
    BY DEF LookUp, Idle, registryVars, streamVars, TypeOK, PresentedGrants
  <1>4. OneConnectionPerGrant'
    BY DEF LookUp, Idle, registryVars, streamVars, TypeOK, OneConnectionPerGrant,
           ClaimedMeansHeld, Holds
  <1>5. ClaimedMeansHeld'
    BY DEF LookUp, Idle, registryVars, streamVars, TypeOK, OneConnectionPerGrant,
           ClaimedMeansHeld, Holds
  <1>6. (MutexDiscipline /\ FreshGrants /\ UnrevokedIsCurrent)'
    BY DEF LookUp, Idle, registryVars, streamVars, MutexDiscipline, FreshGrants,
           UnrevokedIsCurrent
  <1> QED
    BY <1>1, <1>2, <1>4, <1>5, <1>6

\* The checks made after the mutex is released keep the invariant.
LEMMA AuthorizeKeepsIInv ==
  ASSUME IInv, NEW s \in Streams, Authorize(s)
  PROVE  IInv'
  <1> USE DEF IInv
  <1>1. TypeOK'
    <2>1. CASE Idle(s)
      BY <2>1, IdleTypes DEF Authorize, Authorized, Idle, registryVars, streamVars, TypeOK
    <2>2. CASE ~Idle(s)
      BY <2>2, MediaSessionAssumption
      DEF Authorize, Authorized, registryVars, streamVars, TypeOK
    <2> QED
      BY <2>1, <2>2
  <1>2. PresentedGrants'
    BY DEF Authorize, Authorized, Idle, registryVars, streamVars, TypeOK, PresentedGrants
  <1>4. OneConnectionPerGrant'
    BY DEF Authorize, Authorized, Idle, registryVars, streamVars, TypeOK,
           OneConnectionPerGrant, ClaimedMeansHeld, Holds
  <1>5. ClaimedMeansHeld'
    BY DEF Authorize, Authorized, Idle, registryVars, streamVars, TypeOK,
           OneConnectionPerGrant, ClaimedMeansHeld, Holds
  <1>6. (MutexDiscipline /\ FreshGrants /\ UnrevokedIsCurrent)'
    BY DEF Authorize, Authorized, Idle, registryVars, streamVars, MutexDiscipline,
           FreshGrants, UnrevokedIsCurrent
  <1> QED
    BY <1>1, <1>2, <1>4, <1>5, <1>6

\* The compare-exchange on claimed keeps the invariant.
LEMMA TakeClaimKeepsIInv ==
  ASSUME IInv, NEW s \in Streams, TakeClaim(s)
  PROVE  IInv'
  <1> USE DEF IInv
  <1>1. TypeOK'
    <2>1. CASE Idle(s)
      BY <2>1, IdleTypes DEF TakeClaim, Idle, registryVars, streamVars, TypeOK
    <2>2. CASE ~Idle(s)
      BY <2>2, MediaSessionAssumption DEF TakeClaim, registryVars, streamVars, TypeOK
    <2> QED
      BY <2>1, <2>2
  <1>2. PresentedGrants'
    BY DEF TakeClaim, Idle, registryVars, streamVars, TypeOK, PresentedGrants
  <1>4. OneConnectionPerGrant'
    BY DEF TakeClaim, Idle, registryVars, streamVars, TypeOK, OneConnectionPerGrant,
           ClaimedMeansHeld, Holds
  <1>5. ClaimedMeansHeld'
    BY DEF TakeClaim, Idle, registryVars, streamVars, TypeOK, OneConnectionPerGrant,
           ClaimedMeansHeld, Holds
  <1>6. (MutexDiscipline /\ FreshGrants /\ UnrevokedIsCurrent)'
    BY DEF TakeClaim, Idle, registryVars, streamVars, MutexDiscipline, FreshGrants,
           UnrevokedIsCurrent
  <1> QED
    BY <1>1, <1>2, <1>4, <1>5, <1>6

\* Dropping a lease keeps the invariant: nobody else held the grant.
LEMMA DropLeaseKeepsIInv ==
  ASSUME IInv, NEW s \in Streams, DropLease(s)
  PROVE  IInv'
  <1> USE DEF IInv
  <1>1. TypeOK'
    BY MediaSessionAssumption DEF DropLease, Idle, registryVars, streamVars, TypeOK
  <1>2. PresentedGrants'
    BY DEF DropLease, Idle, registryVars, streamVars, TypeOK, PresentedGrants
  <1>4. OneConnectionPerGrant'
    BY DEF DropLease, Idle, registryVars, streamVars, TypeOK, OneConnectionPerGrant,
           ClaimedMeansHeld, Holds
  <1>5. ClaimedMeansHeld'
    BY DEF DropLease, Idle, registryVars, streamVars, TypeOK, OneConnectionPerGrant,
           ClaimedMeansHeld, Holds
  <1>6. (MutexDiscipline /\ FreshGrants /\ UnrevokedIsCurrent)'
    BY DEF DropLease, Idle, registryVars, streamVars, MutexDiscipline, FreshGrants,
           UnrevokedIsCurrent
  <1> QED
    BY <1>1, <1>2, <1>4, <1>5, <1>6

\* A step that changes nothing keeps the invariant.
LEMMA StutterKeepsIInv ==
  ASSUME IInv, UNCHANGED vars
  PROVE  IInv'
  <1> USE DEF IInv
  <1>1. (TypeOK /\ MutexDiscipline /\ FreshGrants /\ PresentedGrants /\ UnrevokedIsCurrent /\ OneConnectionPerGrant /\ ClaimedMeansHeld)'
    BY DEF vars, TypeOK, MutexDiscipline, FreshGrants, PresentedGrants,
           UnrevokedIsCurrent, OneConnectionPerGrant, ClaimedMeansHeld,
               Holds
  <1> QED
    BY <1>1

\* The invariant is inductive.
LEMMA NextKeepsIInv == IInv /\ [Next]_vars => IInv'
  BY TickKeepsIInv, DrawGrantKeepsIInv, ReplaceActiveKeepsIInv, RevokePreviousKeepsIInv,
     RevokeKeepsIInv, BeginClaimKeepsIInv, LookUpKeepsIInv, AuthorizeKeepsIInv,
     TakeClaimKeepsIInv, DropLeaseKeepsIInv, StutterKeepsIInv
  DEF Next, IssueStep, ClaimStep

\* At most one lease is active: two active leases have grants that clients know
\* and that are not revoked; by UnrevokedIsCurrent and the mutex these are the
\* same grant, and a grant has one connection.
LEMMA OneActiveFromIInv == IInv => AtMostOneActiveLease
  <1> SUFFICES ASSUME IInv, NEW s \in Streams, NEW t \in Streams, IsActive(s), IsActive(t)
               PROVE  s = t
    BY DEF AtMostOneActiveLease
  <1> DEFINE g == session[s]
             h == session[t]
  <1>1. g \in enrolled \ revoked /\ h \in enrolled \ revoked /\ g \in Grants
    BY DEF IInv, TypeOK, PresentedGrants, IsActive
  <1>2. \A i \in Issuers : ipc[i] = "replaced" => active \notin enrolled
    BY DEF IInv, MutexDiscipline, FreshGrants
  <1>3. \A i, j \in Issuers : ipc[i] = "replaced" /\ ipc[j] = "replaced" => i = j
    BY DEF IInv, MutexDiscipline
  <1>4. g = h
    BY <1>1, <1>2, <1>3 DEF IInv, UnrevokedIsCurrent
  <1> QED
    BY <1>1, <1>4 DEF IInv, OneConnectionPerGrant, Holds, IsActive

\* The invariant holds throughout every behaviour of the registry.
LEMMA Invariance == Spec => []IInv
  BY InitEstablishesIInv, NextKeepsIInv, PTL DEF Spec

\* Type correctness of the registry, its issuers and its connections, and a
\* handler that has answered holds no grant.
THEOREM TypeCorrect == Spec => []TypeOK
  <1>1. IInv => TypeOK
    BY DEF IInv
  <1> QED
    BY <1>1, Invariance, PTL

\* However claims and drops interleave, a grant has at most one connection.
THEOREM OneConnection == Spec => []OneConnectionPerGrant
  <1>1. IInv => OneConnectionPerGrant
    BY DEF IInv
  <1> QED
    BY <1>1, Invariance, PTL

\* However issuing, claiming, dropping and revoking interleave, at most one
\* connection is the live owner of the call audio.
THEOREM SingleOwner == Spec => []AtMostOneActiveLease
  BY Invariance, OneActiveFromIInv, PTL

\* The claimed flag of a grant is set exactly while a connection holds its lease.
THEOREM ClaimedFlagTruthful == Spec => []ClaimedMeansHeld
  <1>1. IInv => ClaimedMeansHeld
    BY DEF IInv
  <1> QED
    BY <1>1, Invariance, PTL

(* The registry implements exclusive ownership.                            *)

\* owner names the one active connection, if there is one.
OwnerIsActive ==
  /\ \A s \in Streams : IsActive(s) => owner = s
  /\ (\A s \in Streams : ~IsActive(s)) => owner = Free

\* With the invariant, the refinement mapping is the active connection.
LEMMA OwnerNames == IInv => OwnerIsActive
  BY OneActiveFromIInv DEF AtMostOneActiveLease, owner, OwnerIsActive

\* The same after a step.
LEMMA OwnerNamesNext == IInv' => OwnerIsActive'
  BY OwnerNames, PTL

\* A step never makes one connection active and another one inactive: the
\* compare-exchange can only add an owner, every other action only removes one.
LEMMA ActiveSetChange ==
  ASSUME IInv, [Next]_vars
  PROVE  \/ \A s \in Streams : IsActive(s)' => IsActive(s)
         \/ \A s \in Streams : IsActive(s) => IsActive(s)'
  <1> USE DEF IsActive, registryVars, streamVars
  <1>1. CASE Tick \/ UNCHANGED vars
    BY <1>1 DEF Tick, vars
  <1>2. ASSUME NEW i \in Issuers, IssueStep(i)
        PROVE  \A s \in Streams : IsActive(s)' => IsActive(s)
    BY <1>2 DEF IssueStep, DrawGrant, ReplaceActive, RevokePrevious
  <1>3. ASSUME NEW g \in Grants, Revoke(g)
        PROVE  \A s \in Streams : IsActive(s)' => IsActive(s)
    BY <1>3 DEF Revoke
  <1>4. ASSUME NEW t \in Streams, ClaimStep(t)
        PROVE  \A s \in Streams : IsActive(s) => IsActive(s)'
    BY <1>4 DEF ClaimStep, BeginClaim, LookUp, Authorize, TakeClaim, Idle, IInv, TypeOK
  <1>5. ASSUME NEW t \in Streams, DropLease(t)
        PROVE  \A s \in Streams : IsActive(s)' => IsActive(s)
    BY <1>5 DEF DropLease, Idle, IInv, TypeOK
  <1> QED
    BY <1>1, <1>2, <1>3, <1>4, <1>5 DEF Next

\* The step simulation: a step of the registry is an Acquire, a Lose or a stutter.
LEMMA OwnerStep ==
  ASSUME IInv, IInv', [Next]_vars
  PROVE  [Ownership!Next]_owner
  <1> USE OwnerNames, OwnerNamesNext, MediaSessionAssumption
      DEF OwnerIsActive, Ownership!Next, Ownership!Acquire, Ownership!Lose
  <1>1. CASE \A s \in Streams : IsActive(s)' => IsActive(s)
    BY <1>1
  <1>2. CASE \A s \in Streams : IsActive(s) => IsActive(s)'
    BY <1>2
  <1> QED
    BY <1>1, <1>2, ActiveSetChange

\* Call audio never passes from one connection to another without the old one
\* having been cut off: the registry refines ExclusiveOwner.
THEOREM Refinement == Spec => ImplementsExclusiveOwner
  <1>1. Init => Ownership!Init
    BY DEF Init, Ownership!Init, owner, IsActive
  <1> QED
    BY <1>1, OwnerStep, Invariance, PTL DEF Spec, ImplementsExclusiveOwner, Ownership!Spec

-----------------------------------------------------------------------------
(* The connections: their inductive invariant.                             *)

\* media_socket runs under its lease; its bridge exists from the start of the
\* loops to the join; the processes are gone before the join; only a running
\* socket is suspended in a send.
Attached ==
  \A s \in Streams :
    /\ sock[s] # "none" => pc[s] = "leased"
    /\ BridgeAlive(s) => sock[s] \in {"running", "closing", "stopping", "killing", "joining"}
    /\ sock[s] = "joining" => child[s] = {}

Elems(q) == {q[k] : k \in DOMAIN q}

\* No frame in q came through the grant of s by way of another connection.
Unmixed(q, s) == \A f \in Elems(q) : f.grant = session[s] => f.from = s

UplinkReset   == {"resetting", "starting", "running", "closing"}
DownlinkReset == {"starting", "running", "closing"}

\* The uplink is reset a step before the downlink.
Clean ==
  \A s \in Streams :
    /\ sock[s] \in UplinkReset => Unmixed(uplink, s)
    /\ sock[s] \in DownlinkReset => Unmixed(downlink, s)

\* LiveTypeOK without the queues.
SocketTypes ==
  /\ sock \in [Streams -> {"none", "resetting", "starting", "refusing", "running",
                           "closing", "stopping", "killing", "joining", "finished"}]
  /\ batches \in [Streams -> 0..MaxBatches]
  /\ child \in [Streams -> SUBSET {"capture", "playback"}]
  /\ stop \in [Streams -> BOOLEAN]
  /\ failure \in [Streams -> {"ok", "capture", "playback"}]
  /\ capture \in [Streams -> {"none", "checking", "reading", "done"}]
  /\ playback \in [Streams -> {"none", "checking", "writing", "done"}]
  /\ \A s \in Streams : batches[s] > 0 => sock[s] = "running"

QueueTypes ==
  /\ uplink \in Seq(Frame) /\ Len(uplink) <= Capacity
  /\ downlink \in Seq(Frame) /\ Len(downlink) <= Capacity

LInv == IInv /\ SocketTypes /\ QueueTypes /\ Attached /\ Clean

-----------------------------------------------------------------------------
(* The queues.                                                             *)

\* A part of a sequence has no other elements.
LEMMA PartElems ==
  ASSUME NEW q \in Seq(Frame), NEW m \in Nat \ {0}
  PROVE  /\ SubSeq(q, m, Len(q)) \in Seq(Frame)
         /\ Len(SubSeq(q, m, Len(q))) = IF m <= Len(q) THEN Len(q) - m + 1 ELSE 0
         /\ Elems(SubSeq(q, m, Len(q))) \subseteq Elems(q)
<1> DEFINE p == SubSeq(q, m, Len(q))
<1>1. Len(q) \in Nat /\ DOMAIN q = 1..Len(q) /\ \A i \in m..Len(q) : q[i] \in Frame
  BY ElementOfSeq, LenProperties
<1>2. /\ p \in Seq(Frame) /\ Len(p) = IF m <= Len(q) THEN Len(q) - m + 1 ELSE 0
      /\ \A i \in 1..(Len(q) - m + 1) : p[i] = q[m + i - 1]
  BY <1>1, SubSeqProperties
<1>3. DOMAIN p = 1..Len(p)
  BY <1>2, LenProperties
<1>4. ASSUME NEW i \in DOMAIN p PROVE p[i] \in Elems(q)
  <2>1. i \in 1..(Len(q) - m + 1) /\ m + i - 1 \in DOMAIN q
    BY <1>1, <1>2, <1>3
  <2> QED
    BY <1>2, <2>1 DEF Elems
<1> QED
  BY <1>2, <1>4 DEF Elems

\* Pushing frames onto a queue keeps to the capacity and adds nothing else.
LEMMA PushElems ==
  ASSUME NEW q \in Seq(Frame), NEW f \in Seq(Frame)
  PROVE  /\ Push(q, f) \in Seq(Frame) /\ Len(Push(q, f)) <= Capacity
         /\ Elems(Push(q, f)) \subseteq Elems(q) \cup Elems(f)
<1> DEFINE all == q \o f
           excess == Len(all) - Capacity
<1>1. /\ all \in Seq(Frame) /\ Len(all) = Len(q) + Len(f)
      /\ \A i \in 1..(Len(q) + Len(f)) : all[i] = IF i <= Len(q) THEN q[i] ELSE f[i - Len(q)]
  BY ConcatProperties
<1>2. /\ Len(q) \in Nat /\ Len(f) \in Nat /\ Len(all) \in Nat /\ DOMAIN q = 1..Len(q)
      /\ DOMAIN f = 1..Len(f) /\ DOMAIN all = 1..Len(all) /\ Capacity \in Nat \ {0}
  BY <1>1, LenProperties, LiveMediaAssumption
<1>3. Elems(all) \subseteq Elems(q) \cup Elems(f)
  <2>1. ASSUME NEW i \in DOMAIN all PROVE all[i] \in Elems(q) \cup Elems(f)
    <3>1. CASE i <= Len(q)
      BY <1>1, <1>2, <3>1 DEF Elems
    <3>2. CASE i > Len(q)
      <4>1. i - Len(q) \in DOMAIN f /\ all[i] = f[i - Len(q)]
        BY <1>1, <1>2, <3>2
      <4> QED
        BY <4>1 DEF Elems
    <3> QED
      BY <1>2, <3>1, <3>2
  <2> QED
    BY <2>1 DEF Elems
<1>4. Push(q, f) = IF excess > 0 THEN SubSeq(all, excess + 1, Len(all)) ELSE all
  BY DEF Push
<1> HIDE DEF all
<1>5. CASE excess > 0
  <2>1. excess + 1 \in Nat \ {0} /\ excess + 1 <= Len(all)
    BY <1>2, <1>5
  <2>2. /\ SubSeq(all, excess + 1, Len(all)) \in Seq(Frame)
        /\ Len(SubSeq(all, excess + 1, Len(all))) = Len(all) - (excess + 1) + 1
        /\ Elems(SubSeq(all, excess + 1, Len(all))) \subseteq Elems(all)
    BY <1>1, <2>1, PartElems
  <2>3. Len(all) - (excess + 1) + 1 = Capacity
    BY <1>2
  <2> QED
    BY <1>2, <1>3, <1>4, <1>5, <2>2, <2>3
<1>6. CASE ~(excess > 0)
  <2>1. Len(all) <= Capacity
    BY <1>2, <1>6
  <2> QED
    BY <1>1, <1>3, <1>4, <1>6, <2>1
<1> QED
  BY <1>5, <1>6

\* Popping a batch, or one frame.
LEMMA PopElems ==
  ASSUME NEW q \in Seq(Frame), Len(q) <= Capacity
  PROVE  /\ PopBatch(q) \in Seq(Frame) /\ Len(PopBatch(q)) <= Capacity
         /\ Elems(PopBatch(q)) \subseteq Elems(q)
<1>1. MaxBatch + 1 \in Nat \ {0} /\ Len(q) \in Nat /\ Capacity \in Nat /\ MaxBatch \in Nat
  BY LiveMediaAssumption, LenProperties
<1>2. /\ PopBatch(q) \in Seq(Frame) /\ Elems(PopBatch(q)) \subseteq Elems(q)
      /\ Len(PopBatch(q)) = IF MaxBatch + 1 <= Len(q) THEN Len(q) - (MaxBatch + 1) + 1 ELSE 0
  BY <1>1, PartElems DEF PopBatch
<1>3. Len(PopBatch(q)) <= Capacity
  BY <1>1, <1>2
<1> QED
  BY <1>2, <1>3

LEMMA TailElems ==
  ASSUME NEW q \in Seq(Frame), q # <<>>, Len(q) <= Capacity
  PROVE  Tail(q) \in Seq(Frame) /\ Len(Tail(q)) <= Capacity /\ Elems(Tail(q)) \subseteq Elems(q)
<1>1. /\ Tail(q) \in Seq(Frame) /\ Len(Tail(q)) = Len(q) - 1
      /\ \A i \in 1..Len(Tail(q)) : Tail(q)[i] = q[i + 1]
  BY HeadTailProperties
<1>2. /\ DOMAIN Tail(q) = 1..Len(Tail(q)) /\ DOMAIN q = 1..Len(q) /\ Len(q) \in Nat
      /\ Capacity \in Nat
  BY <1>1, LenProperties, LiveMediaAssumption
<1>3. ASSUME NEW i \in DOMAIN Tail(q) PROVE Tail(q)[i] \in Elems(q)
  <2>1. i + 1 \in DOMAIN q /\ Tail(q)[i] = q[i + 1]
    BY <1>1, <1>2
  <2> QED
    BY <2>1 DEF Elems
<1>4. Elems(Tail(q)) \subseteq Elems(q)
  BY <1>3 DEF Elems
<1> QED
  BY <1>1, <1>2, <1>4

LEMMA EmptyElems == <<>> \in Seq(Frame) /\ Len(<<>>) = 0 /\ Elems(<<>>) = {}
BY EmptySeq DEF Elems

\* The frame a connection puts into a queue.
Own(s) == [from |-> s, grant |-> session[s]]

\* A connection with a lease puts frames of its own into the queues.
LEMMA OwnFrames ==
  ASSUME IInv, NEW s \in Streams, pc[s] = "leased", NEW n \in Nat
  PROVE  /\ Own(s) \in Frame /\ [k \in 1..n |-> Own(s)] \in Seq(Frame)
         /\ Elems([k \in 1..n |-> Own(s)]) \subseteq {Own(s)}
         /\ <<Own(s)>> \in Seq(Frame) /\ Elems(<<Own(s)>>) \subseteq {Own(s)}
<1>1. session[s] \in Grants
  BY DEF IInv, TypeOK
<1>2. Own(s) \in Frame
  BY <1>1 DEF Own, Frame
<1>3. [k \in 1..n |-> Own(s)] \in Seq(Frame)
  BY <1>2
<1>4. Elems([k \in 1..n |-> Own(s)]) \subseteq {Own(s)}
  BY DEF Elems
<1>5. <<Own(s)>> \in Seq(Frame) /\ Elems(<<Own(s)>>) \subseteq {Own(s)}
  BY <1>2 DEF Elems
<1> QED
  BY <1>2, <1>3, <1>4, <1>5

-----------------------------------------------------------------------------
(* The steps.                                                              *)

LEMMA InitLive == LiveInit => LInv
<1> SUFFICES ASSUME LiveInit PROVE LInv
  OBVIOUS
<1>1. IInv
  BY InitEstablishesIInv DEF LiveInit
<1>2. SocketTypes
  BY LiveMediaAssumption DEF LiveInit, SocketTypes
<1>3. QueueTypes
  BY EmptyElems, LiveMediaAssumption DEF LiveInit, QueueTypes
<1>4. Attached
  BY DEF LiveInit, Attached, BridgeAlive
<1>5. Clean
  BY DEF LiveInit, Clean, UplinkReset, DownlinkReset
<1> QED
  BY <1>1, <1>2, <1>3, <1>4, <1>5 DEF LInv

\* What a step that leaves the registry alone has to show: frames that enter a
\* queue are those of a connection under way, and a queue is empty when a
\* connection first counts on it.
LEMMA BridgeStep ==
  ASSUME LInv, UNCHANGED vars, SocketTypes', QueueTypes', Attached',
         Elems(uplink') \subseteq Elems(uplink) \cup {Own(u) : u \in {v \in Streams : sock[v] # "none"}},
         Elems(downlink') \subseteq Elems(downlink) \cup {Own(u) : u \in {v \in Streams : sock[v] # "none"}},
         \A s \in Streams : sock'[s] \in UplinkReset => sock[s] \in UplinkReset \/ Elems(uplink') = {},
         \A s \in Streams : sock'[s] \in DownlinkReset => sock[s] \in DownlinkReset \/ Elems(downlink') = {}
  PROVE  LInv'
<1>1. IInv /\ Attached /\ Clean
  BY DEF LInv
<1>2. pc' = pc /\ session' = session
  BY DEF vars
<1>3. IInv'
  BY <1>1, StutterKeepsIInv
<1>4. ASSUME NEW s \in Streams, NEW u \in Streams, sock[u] # "none", sock'[s] # "none",
             session[u] = session[s]
      PROVE  u = s
  <2>1. pc[u] = "leased" /\ pc[s] = "leased"
    BY <1>1, <1>2, <1>4 DEF Attached
  <2>2. session[s] \in Grants
    BY <1>1, <2>1 DEF IInv, TypeOK
  <2> QED
    BY <1>1, <1>4, <2>1, <2>2 DEF IInv, OneConnectionPerGrant, Holds
<1>5. ASSUME NEW s \in Streams, NEW f \in {Own(u) : u \in {v \in Streams : sock[v] # "none"}},
             sock'[s] # "none", f.grant = session[s]
      PROVE  f.from = s
  BY <1>4, <1>5 DEF Own
<1>6. ASSUME NEW s \in Streams, sock'[s] \in UplinkReset PROVE Unmixed(uplink, s)'
  <2>1. sock'[s] # "none"
    BY <1>6 DEF UplinkReset
  <2>2. CASE Elems(uplink') = {}
    BY <2>2 DEF Unmixed
  <2>3. CASE sock[s] \in UplinkReset
    <3>1. Unmixed(uplink, s)
      BY <1>1, <2>3 DEF Clean
    <3> QED
      BY <1>2, <1>5, <2>1, <3>1 DEF Unmixed
  <2> QED
    BY <1>6, <2>2, <2>3
<1>7. ASSUME NEW s \in Streams, sock'[s] \in DownlinkReset PROVE Unmixed(downlink, s)'
  <2>1. sock'[s] # "none"
    BY <1>7 DEF DownlinkReset
  <2>2. CASE Elems(downlink') = {}
    BY <2>2 DEF Unmixed
  <2>3. CASE sock[s] \in DownlinkReset
    <3>1. Unmixed(downlink, s)
      BY <1>1, <2>3 DEF Clean
    <3> QED
      BY <1>2, <1>5, <2>1, <3>1 DEF Unmixed
  <2> QED
    BY <1>7, <2>2, <2>3
<1>8. Clean'
  BY <1>6, <1>7 DEF Clean
<1> QED
  BY <1>3, <1>8 DEF LInv

\* What a step of the registry has to show: it leaves the connections that have
\* a socket alone.
LEMMA RegistryStep ==
  ASSUME LInv, Next, UNCHANGED <<uplink, downlink>>, SocketTypes', Attached',
         \A s \in Streams : sock'[s] # "none" => sock[s] = sock'[s] /\ session'[s] = session[s]
  PROVE  LInv'
<1>1. IInv'
  BY NextKeepsIInv DEF LInv
<1>2. QueueTypes'
  BY DEF LInv, QueueTypes
<1>3. Clean'
  BY DEF LInv, Clean, Unmixed, UplinkReset, DownlinkReset
<1> QED
  BY <1>1, <1>2, <1>3 DEF LInv

\* Issuing and claiming do not touch a lease that is held.
LEMMA ClaimLeavesLeases ==
  ASSUME TypeOK, SessionStep, NEW s \in Streams, pc[s] = "leased"
  PROVE  pc'[s] = "leased" /\ session'[s] = session[s]
<1>1. CASE Tick
  BY <1>1 DEF Tick, streamVars
<1>2. ASSUME NEW i \in Issuers, IssueStep(i) PROVE pc'[s] = "leased" /\ session'[s] = session[s]
  BY <1>2 DEF IssueStep, DrawGrant, ReplaceActive, RevokePrevious, streamVars
<1>3. ASSUME NEW t \in Streams, ClaimStep(t) PROVE pc'[s] = "leased" /\ session'[s] = session[s]
  <2>1. pc[t] # "leased"
    BY <1>3 DEF ClaimStep, BeginClaim, LookUp, Authorize, TakeClaim
  <2>2. s # t
    BY <2>1
  <2>3. CASE \E g \in Grants, ok \in BOOLEAN : BeginClaim(t, g, ok)
    BY <2>2, <2>3 DEF BeginClaim, TypeOK
  <2>4. CASE LookUp(t)
    BY <2>2, <2>4 DEF LookUp, Idle, TypeOK
  <2>5. CASE Authorize(t)
    BY <2>2, <2>5 DEF Authorize, Idle, TypeOK
  <2>6. CASE TakeClaim(t)
    BY <2>2, <2>6 DEF TakeClaim, Idle, TypeOK
  <2> QED
    BY <1>3, <2>3, <2>4, <2>5, <2>6 DEF ClaimStep
<1> QED
  BY <1>1, <1>2, <1>3 DEF SessionStep

LEMMA SessionHolds == ASSUME LInv, SessionStep PROVE LInv'
<1>1. TypeOK /\ Attached /\ SocketTypes
  BY DEF LInv, IInv
<1>2. Next
  BY DEF SessionStep, Next
<1>3. UNCHANGED <<uplink, downlink, sock, batches, child, stop, failure, capture, playback>>
  BY DEF SessionStep, liveVars
<1>4. SocketTypes'
  BY <1>1, <1>3 DEF SocketTypes
<1>5. \A s \in Streams : pc[s] = "leased" => pc'[s] = "leased" /\ session'[s] = session[s]
  BY <1>1, ClaimLeavesLeases
<1>6. Attached'
  BY <1>1, <1>3, <1>5 DEF Attached, BridgeAlive
<1>7. \A s \in Streams : sock'[s] # "none" => sock[s] = sock'[s] /\ session'[s] = session[s]
  BY <1>1, <1>3, <1>5 DEF Attached
<1> QED
  BY <1>2, <1>3, <1>4, <1>6, <1>7, RegistryStep

\* The lease of a connection without a bridge is dropped.
LEMMA DropHolds ==
  ASSUME LInv, NEW s \in Streams, UpgradeFails(s) \/ ReleaseLease(s)
  PROVE  LInv'
<1>1. TypeOK /\ Attached /\ SocketTypes
  BY DEF LInv, IInv
<1>2. Next
  BY DEF UpgradeFails, ReleaseLease, Next
<1>3. /\ UNCHANGED <<uplink, downlink, batches, child, stop, failure, capture, playback>>
      /\ sock[s] \in {"none", "finished"} /\ sock' = [sock EXCEPT ![s] = "none"] /\ DropLease(s)
  BY <1>1 DEF UpgradeFails, ReleaseLease, liveVars, SocketTypes
<1>4. SocketTypes'
  BY <1>1, <1>3 DEF SocketTypes
<1>5. \A t \in Streams \ {s} : pc'[t] = pc[t] /\ session'[t] = session[t] /\ sock'[t] = sock[t]
  BY <1>1, <1>3 DEF DropLease, Idle, TypeOK, SocketTypes
<1>6. sock'[s] = "none"
  BY <1>1, <1>3 DEF SocketTypes
<1>7. Attached'
  BY <1>1, <1>3, <1>5, <1>6 DEF Attached, BridgeAlive
<1> QED
  BY <1>2, <1>3, <1>4, <1>5, <1>6, <1>7, RegistryStep

\* The uplink and downlink after a step that puts nothing into them.
LEMMA SameQueues ==
  ASSUME LInv, UNCHANGED <<uplink, downlink>>
  PROVE  QueueTypes' /\ Elems(uplink') = Elems(uplink) /\ Elems(downlink') = Elems(downlink)
BY DEF LInv, QueueTypes

\* The start of a connection.
LEMMA StartHolds ==
  ASSUME LInv, NEW s \in Streams, ResetUplink(s) \/ ResetDownlink(s) \/ StartLive(s) \/ StartFails(s)
  PROVE  LInv'
<1>1. IInv /\ Attached /\ SocketTypes /\ QueueTypes
  BY DEF LInv
<1>2. CASE ResetUplink(s)
  <2>1. /\ pc[s] = "leased" /\ sock[s] = "none" /\ uplink' = <<>> /\ sock' = [sock EXCEPT ![s] = "resetting"]
        /\ UNCHANGED <<downlink, batches, child, stop, failure, capture, playback>> /\ UNCHANGED vars /\ pc' = pc
    BY <1>2 DEF ResetUplink, vars
  <2>2. SocketTypes'
    BY <1>1, <2>1, LiveMediaAssumption DEF SocketTypes
  <2>3. QueueTypes' /\ Elems(uplink') = {}
    BY <1>1, <2>1, EmptyElems, LiveMediaAssumption DEF QueueTypes
  <2>4. Attached'
    BY <1>1, <2>1 DEF Attached, SocketTypes, BridgeAlive
  <2>5. \A t \in Streams : sock'[t] \in DownlinkReset => sock[t] \in DownlinkReset
    BY <1>1, <2>1 DEF SocketTypes, DownlinkReset
  <2> QED
    BY <2>1, <2>2, <2>3, <2>4, <2>5, BridgeStep
<1>3. CASE ResetDownlink(s)
  <2>1. /\ sock[s] = "resetting" /\ downlink' = <<>> /\ sock' = [sock EXCEPT ![s] = "starting"]
        /\ UNCHANGED <<uplink, batches, child, stop, failure, capture, playback>> /\ UNCHANGED vars /\ pc' = pc
    BY <1>3 DEF ResetDownlink, vars
  <2>2. SocketTypes'
    BY <1>1, <2>1, LiveMediaAssumption DEF SocketTypes
  <2>3. QueueTypes' /\ Elems(downlink') = {}
    BY <1>1, <2>1, EmptyElems, LiveMediaAssumption DEF QueueTypes
  <2>4. Attached'
    BY <1>1, <2>1 DEF Attached, SocketTypes, BridgeAlive
  <2>5. \A t \in Streams : sock'[t] \in UplinkReset => sock[t] \in UplinkReset
    BY <1>1, <2>1 DEF SocketTypes, UplinkReset
  <2> QED
    BY <2>1, <2>2, <2>3, <2>4, <2>5, BridgeStep
<1>4. CASE StartLive(s)
  <2>1. /\ sock[s] = "starting" /\ child' = [child EXCEPT ![s] = {"capture", "playback"}]
        /\ capture' = [capture EXCEPT ![s] = "checking"] /\ playback' = [playback EXCEPT ![s] = "checking"]
        /\ sock' = [sock EXCEPT ![s] = IF IsActive(s) THEN "running" ELSE "stopping"]
        /\ UNCHANGED <<uplink, downlink, batches, stop, failure>> /\ UNCHANGED vars /\ pc' = pc
    BY <1>4 DEF StartLive, vars
  <2>2. SocketTypes'
    BY <1>1, <2>1, LiveMediaAssumption DEF SocketTypes
  <2>3. Attached'
    BY <1>1, <2>1 DEF Attached, SocketTypes, BridgeAlive
  <2>4. \A t \in Streams : /\ sock'[t] \in UplinkReset => sock[t] \in UplinkReset
                           /\ sock'[t] \in DownlinkReset => sock[t] \in DownlinkReset
    BY <1>1, <2>1 DEF SocketTypes, UplinkReset, DownlinkReset
  <2> QED
    BY <2>1, <2>2, <2>3, <2>4, SameQueues, BridgeStep
<1>5. CASE StartFails(s)
  <2>1. /\ sock[s] = "starting" /\ sock' = [sock EXCEPT ![s] = "refusing"]
        /\ downlink' = downlink \/ downlink' = Push(downlink, <<Own(s)>>)
        /\ UNCHANGED <<uplink, batches, child, stop, failure, capture, playback>> /\ UNCHANGED vars /\ pc' = pc
    BY <1>5 DEF StartFails, Own, vars
  <2>2. SocketTypes'
    BY <1>1, <2>1, LiveMediaAssumption DEF SocketTypes
  <2>3. Attached'
    BY <1>1, <2>1 DEF Attached, SocketTypes, BridgeAlive
  <2>4. <<Own(s)>> \in Seq(Frame) /\ Elems(<<Own(s)>>) \subseteq {Own(s)}
    BY <1>1, <2>1, OwnFrames DEF Attached
  <2>5. QueueTypes' /\ Elems(downlink') \subseteq Elems(downlink) \cup {Own(s)}
    BY <1>1, <2>1, <2>4, PushElems DEF QueueTypes
  <2>6. \A t \in Streams : /\ sock'[t] \in UplinkReset => sock[t] \in UplinkReset
                           /\ sock'[t] \in DownlinkReset => sock[t] \in DownlinkReset
    BY <1>1, <2>1 DEF SocketTypes, UplinkReset, DownlinkReset
  <2>7. Elems(downlink') \subseteq Elems(downlink) \cup {Own(u) : u \in {v \in Streams : sock[v] # "none"}}
    BY <2>1, <2>5
  <2> QED
    BY <2>1, <2>2, <2>3, <2>5, <2>6, <2>7, BridgeStep
<1> QED
  BY <1>2, <1>3, <1>4, <1>5

\* A socket that goes on, or begins to stop, or to close.
LEMMA LoopHolds ==
  ASSUME LInv, NEW s \in Streams, sock[s] \in {"running", "closing"}, UNCHANGED vars,
         UNCHANGED <<child, stop, failure, capture, playback>>, QueueTypes',
         sock' = sock \/ sock' = [sock EXCEPT ![s] = "stopping"] \/ sock' = [sock EXCEPT ![s] = "closing"],
         batches' \in [Streams -> 0..MaxBatches], \A t \in Streams \ {s} : batches'[t] = batches[t],
         batches'[s] > 0 => sock'[s] = "running",
         Elems(uplink') \subseteq Elems(uplink) \cup {Own(s)}, Elems(downlink') \subseteq Elems(downlink)
  PROVE  LInv'
<1>1. Attached /\ SocketTypes
  BY DEF LInv
<1>2. pc' = pc
  BY DEF vars
<1>3. SocketTypes'
  BY <1>1 DEF SocketTypes
<1>4. Attached'
  BY <1>1, <1>2 DEF Attached, SocketTypes, BridgeAlive
<1>5. \A t \in Streams : /\ sock'[t] \in UplinkReset => sock[t] \in UplinkReset
                         /\ sock'[t] \in DownlinkReset => sock[t] \in DownlinkReset
  BY <1>1 DEF SocketTypes, UplinkReset, DownlinkReset
<1>6. Elems(uplink') \subseteq Elems(uplink) \cup {Own(u) : u \in {v \in Streams : sock[v] # "none"}}
  OBVIOUS
<1> QED
  BY <1>3, <1>4, <1>5, <1>6, BridgeStep

\* The receive and send loops.
LEMMA LoopsHold ==
  ASSUME LInv, NEW s \in Streams,
         \/ \E n \in 1..MaxBatch : ReceiveFrames(s, n)
         \/ ReceiveEnd(s) \/ PlayoutTick(s) \/ SendDone(s) \/ SendFails(s)
  PROVE  LInv'
<1>1. IInv /\ Attached /\ SocketTypes /\ QueueTypes
  BY DEF LInv
<1>2. /\ UNCHANGED vars /\ UNCHANGED <<child, stop, failure, capture, playback>>
      /\ sock[s] \in {"running", "closing"}
  BY <1>1 DEF ReceiveFrames, ReceiveEnd, PlayoutTick, SendDone, SendFails, SocketTypes
<1>3. MaxBatches \in Nat \ {0} /\ batches[s] \in 0..MaxBatches /\ (batches[s] > 0 => sock[s] = "running")
  BY <1>1, LiveMediaAssumption DEF SocketTypes
<1>4. LoopTop(s) => sock' = sock \/ sock' = [sock EXCEPT ![s] = "stopping"]
  BY DEF LoopTop
<1>5. ASSUME NEW n \in 1..MaxBatch, ReceiveFrames(s, n) PROVE LInv'
  <2>1. /\ uplink' = Push(uplink, [k \in 1..n |-> Own(s)]) /\ downlink' = downlink /\ LoopTop(s)
        /\ batches' = IF IsActive(s) THEN batches ELSE [batches EXCEPT ![s] = 0]
    BY <1>5 DEF ReceiveFrames, Own
  <2>2. pc[s] = "leased" /\ n \in Nat
    BY <1>1, <1>2, LiveMediaAssumption DEF Attached
  <2>3. [k \in 1..n |-> Own(s)] \in Seq(Frame) /\ Elems([k \in 1..n |-> Own(s)]) \subseteq {Own(s)}
    BY <1>1, <2>2, OwnFrames
  <2>4. QueueTypes' /\ Elems(uplink') \subseteq Elems(uplink) \cup {Own(s)}
    BY <1>1, <2>1, <2>3, PushElems DEF QueueTypes
  <2>5. /\ batches' \in [Streams -> 0..MaxBatches] /\ \A t \in Streams \ {s} : batches'[t] = batches[t]
        /\ batches'[s] > 0 => sock'[s] = "running"
    BY <1>1, <1>3, <2>1 DEF SocketTypes, LoopTop
  <2> QED
    BY <1>2, <1>4, <2>1, <2>4, <2>5, LoopHolds
<1>6. CASE ReceiveEnd(s) \/ SendFails(s)
  <2>1. /\ UNCHANGED <<uplink, downlink>> /\ sock' = [sock EXCEPT ![s] = "stopping"]
        /\ batches' = [batches EXCEPT ![s] = 0]
    BY <1>6 DEF ReceiveEnd, SendFails
  <2>2. /\ batches' \in [Streams -> 0..MaxBatches] /\ \A t \in Streams \ {s} : batches'[t] = batches[t]
        /\ batches'[s] > 0 => sock'[s] = "running"
    BY <1>1, <1>3, <2>1 DEF SocketTypes
  <2>3. /\ QueueTypes' /\ Elems(downlink') \subseteq Elems(downlink)
        /\ Elems(uplink') \subseteq Elems(uplink) \cup {Own(s)}
    BY <2>1, SameQueues
  <2> QED
    BY <1>2, <2>1, <2>2, <2>3, LoopHolds
<1>7. ASSUME UNCHANGED uplink, downlink' = downlink \/ downlink' = PopBatch(downlink)
      PROVE  /\ QueueTypes' /\ Elems(downlink') \subseteq Elems(downlink)
             /\ Elems(uplink') \subseteq Elems(uplink) \cup {Own(s)}
  BY <1>1, <1>7, PopElems DEF QueueTypes
<1>8. CASE PlayoutTick(s)
  <2>1. /\ batches[s] = 0 /\ sock[s] = "running" /\ UNCHANGED uplink
        /\ downlink' = downlink \/ downlink' = PopBatch(downlink)
        /\ \/ sock' = [sock EXCEPT ![s] = "closing"] /\ batches' = batches
           \/ sock' = sock /\ batches' = [batches EXCEPT ![s] = 1]
           \/ LoopTop(s) /\ batches' = batches
    BY <1>8 DEF PlayoutTick
  <2>2. /\ batches' \in [Streams -> 0..MaxBatches] /\ \A t \in Streams \ {s} : batches'[t] = batches[t]
        /\ batches'[s] > 0 => sock'[s] = "running"
    BY <1>1, <1>3, <2>1 DEF SocketTypes
  <2> QED
    BY <1>2, <1>4, <1>7, <2>1, <2>2, LoopHolds
<1>9. CASE SendDone(s)
  <2>1. /\ batches[s] > 0 /\ UNCHANGED uplink
        /\ downlink' = downlink \/ downlink' = PopBatch(downlink)
        /\ \/ sock' = sock /\ batches' = [batches EXCEPT ![s] = @ + 1] /\ batches[s] < MaxBatches
           \/ LoopTop(s) /\ batches' = [batches EXCEPT ![s] = 0]
    BY <1>9 DEF SendDone
  <2>2. /\ batches' \in [Streams -> 0..MaxBatches] /\ \A t \in Streams \ {s} : batches'[t] = batches[t]
        /\ batches'[s] > 0 => sock'[s] = "running"
    BY <1>1, <1>3, <2>1 DEF SocketTypes
  <2> QED
    BY <1>2, <1>4, <1>7, <2>1, <2>2, LoopHolds
<1> QED
  BY <1>5, <1>6, <1>8, <1>9

\* The end of media_socket.
LEMMA TeardownHolds ==
  ASSUME LInv, NEW s \in Streams, CloseSent(s) \/ RaiseStop(s) \/ KillChildren(s) \/ JoinWorkers(s)
  PROVE  LInv'
<1>1. IInv /\ Attached /\ SocketTypes
  BY DEF LInv
<1>2. /\ UNCHANGED vars /\ UNCHANGED <<uplink, downlink, batches>> /\ pc' = pc
      /\ sock[s] \in {"closing", "refusing", "stopping", "killing", "joining"}
  BY DEF CloseSent, RaiseStop, KillChildren, JoinWorkers, vars
<1>3. SocketTypes' /\ Attached'
  <2>1. CASE CloseSent(s)
    BY <1>1, <1>2, <2>1 DEF CloseSent, SocketTypes, Attached, BridgeAlive
  <2>2. CASE RaiseStop(s)
    BY <1>1, <1>2, <2>2 DEF RaiseStop, SocketTypes, Attached, BridgeAlive
  <2>3. CASE KillChildren(s)
    BY <1>1, <1>2, <2>3 DEF KillChildren, SocketTypes, Attached, BridgeAlive
  <2>4. CASE JoinWorkers(s)
    BY <1>1, <1>2, <2>4 DEF JoinWorkers, SocketTypes, Attached, BridgeAlive
  <2> QED
    BY <2>1, <2>2, <2>3, <2>4
<1>4. \A t \in Streams : /\ sock'[t] \in UplinkReset => sock[t] \in UplinkReset
                         /\ sock'[t] \in DownlinkReset => sock[t] \in DownlinkReset
  BY <1>1 DEF SocketTypes, UplinkReset, DownlinkReset, CloseSent, RaiseStop, KillChildren, JoinWorkers
<1> QED
  BY <1>2, <1>3, <1>4, SameQueues, BridgeStep

\* The workers and processes.
LEMMA WorkersHold ==
  ASSUME LInv, NEW s \in Streams, WorkerStep(s) \/ \E c \in {"capture", "playback"} : ChildDies(s, c)
  PROVE  LInv'
<1>1. IInv /\ Attached /\ SocketTypes /\ QueueTypes
  BY DEF LInv
<1>2. UNCHANGED vars /\ UNCHANGED <<sock, batches, stop>> /\ pc' = pc
  BY DEF WorkerStep, CaptureCheck, CaptureFrame, CaptureEnd, PlaybackCheck, PlaybackWritten,
         PlaybackBroken, ChildDies, vars
<1>3. SocketTypes' /\ Attached'
  <2>1. CASE CaptureCheck(s) \/ CaptureFrame(s) \/ CaptureEnd(s)
    <3>1. /\ capture[s] # "none" /\ UNCHANGED <<child, playback>>
          /\ \E x \in {"checking", "reading", "done"} : capture' = [capture EXCEPT ![s] = x]
          /\ failure' = failure \/ failure' = [failure EXCEPT ![s] = "capture"]
      BY <1>1, <2>1 DEF CaptureCheck, CaptureFrame, CaptureEnd, SocketTypes
    <3> QED
      BY <1>1, <1>2, <3>1 DEF SocketTypes, Attached, BridgeAlive
  <2>2. CASE PlaybackCheck(s) \/ PlaybackWritten(s) \/ PlaybackBroken(s)
    <3>1. /\ playback[s] # "none" /\ UNCHANGED <<child, capture>>
          /\ \E x \in {"checking", "writing", "done"} : playback' = [playback EXCEPT ![s] = x]
          /\ failure' = failure \/ failure' = [failure EXCEPT ![s] = "playback"]
      BY <1>1, <2>2 DEF PlaybackCheck, PlaybackWritten, PlaybackBroken, SocketTypes
    <3> QED
      BY <1>1, <1>2, <3>1 DEF SocketTypes, Attached, BridgeAlive
  <2>3. CASE \E c \in {"capture", "playback"} : ChildDies(s, c)
    BY <1>1, <1>2, <2>3 DEF ChildDies, SocketTypes, Attached, BridgeAlive
  <2> QED
    BY <2>1, <2>2, <2>3 DEF WorkerStep
<1>4. CASE CaptureFrame(s)
  <2>1. capture[s] = "reading" /\ downlink' = Push(downlink, <<Own(s)>>) /\ uplink' = uplink
    BY <1>4 DEF CaptureFrame, Own
  <2>2. sock[s] # "none" /\ pc[s] = "leased"
    BY <1>1, <2>1 DEF Attached, BridgeAlive
  <2>3. <<Own(s)>> \in Seq(Frame) /\ Elems(<<Own(s)>>) \subseteq {Own(s)}
    BY <1>1, <2>2, OwnFrames
  <2>4. QueueTypes' /\ Elems(downlink') \subseteq Elems(downlink) \cup {Own(s)}
    BY <1>1, <2>1, <2>3, PushElems DEF QueueTypes
  <2>5. Elems(downlink') \subseteq Elems(downlink) \cup {Own(u) : u \in {v \in Streams : sock[v] # "none"}}
    BY <2>2, <2>4
  <2> QED
    BY <1>2, <1>3, <2>1, <2>4, <2>5, BridgeStep
<1>5. CASE PlaybackCheck(s)
  <2>1. downlink' = downlink /\ (uplink' = uplink \/ (uplink # <<>> /\ uplink' = Tail(uplink)))
    BY <1>5 DEF PlaybackCheck
  <2>2. QueueTypes' /\ Elems(uplink') \subseteq Elems(uplink)
    BY <1>1, <2>1, TailElems DEF QueueTypes
  <2> QED
    BY <1>2, <1>3, <2>1, <2>2, BridgeStep
<1>6. CASE UNCHANGED <<uplink, downlink>>
  BY <1>2, <1>3, <1>6, SameQueues, BridgeStep
<1> QED
  BY <1>4, <1>5, <1>6 DEF WorkerStep, CaptureCheck, CaptureEnd, PlaybackWritten, PlaybackBroken, ChildDies

LEMMA LiveNextHolds == ASSUME LInv, [LiveNext]_allVars PROVE LInv'
<1>1. CASE UNCHANGED allVars
  <2>1. UNCHANGED vars /\ UNCHANGED <<uplink, downlink, sock, batches, child, stop, failure, capture, playback>>
        /\ pc' = pc
    BY <1>1 DEF allVars, liveVars, vars
  <2>2. SocketTypes' /\ Attached'
    BY <2>1 DEF LInv, SocketTypes, Attached, BridgeAlive
  <2> QED
    BY <2>1, <2>2, SameQueues, BridgeStep
<1>2. ASSUME NEW s \in Streams, SocketStep(s) PROVE LInv'
  BY <1>2, DropHolds, StartHolds, LoopsHold, TeardownHolds DEF SocketStep
<1> QED
  BY <1>1, <1>2, SessionHolds, WorkersHold DEF LiveNext

LEMMA LiveInvariance == LiveSpec => []LInv
<1>1. LInv /\ [LiveNext]_allVars => LInv'
  BY LiveNextHolds
<1> QED
  BY InitLive, <1>1, PTL DEF LiveSpec

-----------------------------------------------------------------------------
(* What a revoked connection still moves.                                  *)

\* s has moved audio since its grant was revoked.
IsLate(s) == late_in[s] # 0 \/ late_out[s] # 0

LateTypes == late_in \in [Streams -> 0..1] /\ late_out \in [Streams -> 0..MaxBatches]

\* Only a revoked connection has moved anything too late, and its loops are over
\* once a message has come in, or once the tick that took messages out is.
CutOff ==
  /\ LateTypes
  /\ \A s \in Streams : IsLate(s) => sock[s] \in {"running", "closing", "stopping"} /\ ~IsActive(s)
  /\ \A s \in Streams : sock[s] \in {"running", "closing"} => late_in[s] = 0
  /\ \A s \in Streams : sock[s] = "running" => late_out[s] <= batches[s]

\* Steps that move no audio out of time, and do not start a socket over.
LEMMA QuietCutOff ==
  ASSUME CutOff, SocketTypes', UNCHANGED <<late_in, late_out>>,
         \A s \in Streams : IsLate(s) =>
           /\ IsActive(s)' = IsActive(s)
           /\ \/ sock'[s] = sock[s] /\ batches'[s] = batches[s]
              \/ sock'[s] = "stopping"
  PROVE  CutOff'
<1>1. ASSUME NEW s \in Streams, ~IsLate(s)
      PROVE  late_in[s] = 0 /\ (sock'[s] = "running" => late_out[s] <= batches'[s])
  BY <1>1, LiveMediaAssumption DEF IsLate, SocketTypes
<1>2. ASSUME NEW s \in Streams, IsLate(s)
      PROVE  /\ sock'[s] \in {"running", "closing", "stopping"} /\ ~IsActive(s)'
             /\ sock'[s] \in {"running", "closing"} => late_in[s] = 0
             /\ sock'[s] = "running" => late_out[s] <= batches'[s]
  BY <1>2 DEF CutOff
<1> QED
  BY <1>1, <1>2 DEF CutOff, LateTypes, IsLate

\* Steps of one connection's loops.
LEMMA LoopCutOff ==
  ASSUME CutOff, NEW s \in Streams, UNCHANGED <<pc, session, revoked>>, LateTypes',
         \A t \in Streams \ {s} : /\ late_in'[t] = late_in[t] /\ late_out'[t] = late_out[t]
                                  /\ sock'[t] = sock[t] /\ batches'[t] = batches[t],
         IsLate(s)' => sock'[s] \in {"running", "closing", "stopping"} /\ ~IsActive(s),
         sock'[s] \in {"running", "closing"} => late_in'[s] = 0,
         sock'[s] = "running" => late_out'[s] <= batches'[s]
  PROVE  CutOff'
<1>1. \A t \in Streams : IsActive(t)' = IsActive(t)
  BY DEF IsActive
<1> QED
  BY <1>1 DEF CutOff, IsLate

LEMMA InitCutOff == LiveInit => CutOff
BY LiveMediaAssumption DEF LiveInit, CutOff, LateTypes, IsLate

\* Issuing and claiming make no connection active that has a socket.
LEMMA SessionCutOff == ASSUME LInv, SocketTypes', CutOff, SessionStep PROVE CutOff'
<1>1. TypeOK /\ Attached
  BY DEF LInv, IInv
<1>2. UNCHANGED <<late_in, late_out, sock, batches>>
  BY DEF SessionStep, liveVars, late
<1>3. revoked \subseteq revoked'
  <2>1. CASE Tick
    BY <2>1 DEF Tick
  <2>2. ASSUME NEW i \in Issuers, IssueStep(i) PROVE revoked \subseteq revoked'
    BY <2>2 DEF IssueStep, DrawGrant, ReplaceActive, RevokePrevious
  <2>3. ASSUME NEW t \in Streams, ClaimStep(t) PROVE revoked \subseteq revoked'
    BY <2>3 DEF ClaimStep, BeginClaim, LookUp, Authorize, TakeClaim
  <2> QED
    BY <2>1, <2>2, <2>3 DEF SessionStep
<1>4. ASSUME NEW s \in Streams, IsLate(s) PROVE IsActive(s)' = IsActive(s)
  <2>1. pc[s] = "leased" /\ ~IsActive(s)
    BY <1>1, <1>4 DEF CutOff, Attached
  <2>2. session'[s] = session[s]
    BY <1>1, <2>1, ClaimLeavesLeases
  <2> QED
    BY <1>3, <2>1, <2>2 DEF IsActive
<1> QED
  BY <1>2, <1>4, QuietCutOff

\* A message that is queued or taken counts only for a revoked connection.
LEMMA LoopsCutOff ==
  ASSUME LInv, CutOff, NEW s \in Streams,
         (\E n \in 1..MaxBatch : ReceiveFrames(s, n)) \/ PlayoutTick(s) \/ SendDone(s)
  PROVE  CutOff'
<1>1. /\ SocketTypes /\ MaxBatches \in Nat \ {0} /\ batches[s] \in 0..MaxBatches
      /\ batches[s] > 0 => sock[s] = "running"
  BY LiveMediaAssumption DEF LInv, SocketTypes
<1>2. UNCHANGED <<pc, session, revoked>> /\ sock[s] \in {"running", "closing"}
  BY <1>1 DEF ReceiveFrames, PlayoutTick, SendDone, vars
<1>3. /\ LateTypes /\ late_in[s] = 0 /\ late_out[s] \in 0..MaxBatches
      /\ sock[s] = "running" => late_out[s] <= batches[s]
      /\ IsActive(s) => late_out[s] = 0
  BY <1>2 DEF CutOff, LateTypes, IsLate
<1>4. ASSUME LoopTop(s)
      PROVE  /\ \A t \in Streams \ {s} : sock'[t] = sock[t]
             /\ sock'[s] = IF IsActive(s) THEN sock[s] ELSE "stopping"
  BY <1>1, <1>4 DEF LoopTop, SocketTypes
<1>5. ASSUME NEW n \in 1..MaxBatch, ReceiveFrames(s, n) PROVE CutOff'
  <2>1. /\ LoopTop(s) /\ late_in' = Noted(late_in, s) /\ late_out' = late_out
        /\ batches' = IF IsActive(s) THEN batches ELSE [batches EXCEPT ![s] = 0]
    BY <1>5 DEF ReceiveFrames
  <2>2. CASE IsActive(s)
    <3>1. UNCHANGED <<late_in, late_out, batches>>
      BY <2>1, <2>2 DEF Noted
    <3> QED
      BY <1>1, <1>2, <1>3, <1>4, <2>1, <2>2, <3>1, LoopCutOff DEF LateTypes, IsLate
  <2>3. CASE ~IsActive(s)
    <3>1. late_in' = [late_in EXCEPT ![s] = 1]
      BY <1>1, <1>3, <2>1, <2>3 DEF Noted
    <3>2. LateTypes' /\ \A t \in Streams \ {s} : late_in'[t] = late_in[t] /\ batches'[t] = batches[t]
      BY <1>1, <1>3, <2>1, <2>3, <3>1 DEF SocketTypes, LateTypes
    <3> QED
      BY <1>2, <1>4, <2>1, <2>3, <3>2, LoopCutOff
  <2> QED
    BY <2>2, <2>3
<1>6. ASSUME late_out' = Noted(late_out, s), UNCHANGED <<sock, late_in>>, sock[s] = "running",
             batches' = [batches EXCEPT ![s] = batches[s] + 1], batches[s] < MaxBatches
      PROVE  CutOff'
  <2>1. batches'[s] = batches[s] + 1 /\ \A t \in Streams \ {s} : batches'[t] = batches[t]
    BY <1>1, <1>6 DEF SocketTypes
  <2>2. CASE IsActive(s)
    <3>1. late_out' = late_out
      BY <1>6, <2>2 DEF Noted
    <3>2. late_out[s] <= batches'[s]
      BY <1>1, <1>3, <1>6, <2>1
    <3> QED
      BY <1>2, <1>3, <1>6, <2>1, <2>2, <3>1, <3>2, LoopCutOff DEF LateTypes, IsLate
  <2>3. CASE ~IsActive(s)
    <3>1. late_out' = [late_out EXCEPT ![s] = late_out[s] + 1]
      BY <1>1, <1>3, <1>6, <2>3 DEF Noted
    <3>2. /\ LateTypes' /\ \A t \in Streams \ {s} : late_out'[t] = late_out[t]
          /\ late_out'[s] <= batches'[s]
      BY <1>1, <1>3, <1>6, <2>1, <3>1 DEF LateTypes
    <3> QED
      BY <1>2, <1>3, <1>6, <2>1, <2>3, <3>2, LoopCutOff
  <2> QED
    BY <2>2, <2>3
<1>7. ASSUME LoopTop(s), UNCHANGED <<late_in, late_out>>, sock[s] = "running", batches'[s] = 0,
             batches' = batches \/ batches' = [batches EXCEPT ![s] = 0]
      PROVE  CutOff'
  <2>1. \A t \in Streams \ {s} : batches'[t] = batches[t]
    BY <1>1, <1>7 DEF SocketTypes
  <2> QED
    BY <1>1, <1>2, <1>3, <1>4, <1>7, <2>1, LoopCutOff DEF LateTypes, IsLate
<1>8. CASE PlayoutTick(s)
  <2>1. batches[s] = 0 /\ sock[s] = "running"
    BY <1>8 DEF PlayoutTick
  <2>2. CASE sock' = [sock EXCEPT ![s] = "closing"] /\ UNCHANGED <<batches, late_in, late_out>>
    BY <1>1, <1>2, <1>3, <2>1, <2>2, LoopCutOff DEF SocketTypes, LateTypes, IsLate
  <2>3. CASE /\ batches' = [batches EXCEPT ![s] = 1] /\ late_out' = Noted(late_out, s)
             /\ UNCHANGED <<sock, late_in>>
    BY <1>1, <1>6, <2>1, <2>3
  <2>4. CASE LoopTop(s) /\ UNCHANGED <<batches, late_in, late_out>>
    BY <1>7, <2>1, <2>4
  <2> QED
    BY <1>8, <2>2, <2>3, <2>4 DEF PlayoutTick
<1>9. CASE SendDone(s)
  <2>1. batches[s] > 0 /\ sock[s] = "running"
    BY <1>1, <1>9 DEF SendDone
  <2>2. CASE /\ batches[s] < MaxBatches /\ batches' = [batches EXCEPT ![s] = @ + 1]
             /\ late_out' = Noted(late_out, s) /\ UNCHANGED <<sock, late_in>>
    BY <1>6, <2>1, <2>2
  <2>3. CASE LoopTop(s) /\ UNCHANGED <<late_in, late_out>> /\ batches' = [batches EXCEPT ![s] = 0]
    <3>1. batches'[s] = 0
      BY <1>1, <2>3 DEF SocketTypes
    <3> QED
      BY <1>7, <2>1, <2>3, <3>1
  <2> QED
    BY <1>9, <2>2, <2>3 DEF SendDone
<1> QED
  BY <1>5, <1>8, <1>9

\* The other steps of a connection: its loops end, and what was late is forgotten.
LEMMA SocketCutOff == ASSUME LInv, SocketTypes', CutOff, NEW s \in Streams, SocketStep(s) PROVE CutOff'
<1>1. SocketTypes /\ TypeOK /\ Attached
  BY DEF LInv, IInv
<1>2. CASE UpgradeFails(s) \/ ReleaseLease(s)
  <2>1. /\ UNCHANGED <<late_in, late_out>> /\ sock[s] \in {"none", "finished"}
        /\ \A t \in Streams \ {s} : /\ sock'[t] = sock[t] /\ batches'[t] = batches[t]
                                      /\ IsActive(t)' = IsActive(t)
    BY <1>1, <1>2 DEF UpgradeFails, ReleaseLease, liveVars, late, DropLease, Idle, TypeOK, SocketTypes, IsActive
  <2>2. ~IsLate(s)
    BY <2>1 DEF CutOff
  <2> QED
    BY <2>1, <2>2, QuietCutOff
<1>3. CASE RaiseStop(s)
  <2>1. /\ UNCHANGED vars /\ UNCHANGED batches /\ sock' = [sock EXCEPT ![s] = "killing"]
        /\ late_in' = [late_in EXCEPT ![s] = 0] /\ late_out' = [late_out EXCEPT ![s] = 0]
    BY <1>3 DEF RaiseStop
  <2>2. UNCHANGED <<pc, session, revoked>>
    BY <2>1 DEF vars
  <2>3. LateTypes' /\ ~IsLate(s)' /\ sock'[s] = "killing"
    BY <1>1, <2>1, LiveMediaAssumption DEF CutOff, LateTypes, IsLate, SocketTypes
  <2>4. \A t \in Streams \ {s} : /\ late_in'[t] = late_in[t] /\ late_out'[t] = late_out[t]
                                /\ sock'[t] = sock[t] /\ batches'[t] = batches[t]
    BY <1>1, <2>1 DEF CutOff, LateTypes, SocketTypes
  <2> QED
    BY <2>2, <2>3, <2>4, LoopCutOff
<1>4. CASE \/ ResetUplink(s) \/ ResetDownlink(s) \/ StartLive(s) \/ StartFails(s)
           \/ ReceiveEnd(s) \/ SendFails(s) \/ CloseSent(s) \/ KillChildren(s) \/ JoinWorkers(s)
  <2>1. UNCHANGED <<late_in, late_out>> /\ UNCHANGED vars
    BY <1>4 DEF ResetUplink, ResetDownlink, StartLive, StartFails, ReceiveEnd, SendFails, CloseSent,
                KillChildren, JoinWorkers, late
  <2>2. \A t \in Streams : IsActive(t)' = IsActive(t)
    BY <2>1 DEF vars, IsActive
  <2>3. \A t \in Streams \ {s} : sock'[t] = sock[t] /\ batches'[t] = batches[t]
    BY <1>1, <1>4 DEF ResetUplink, ResetDownlink, StartLive, StartFails, ReceiveEnd, SendFails,
                      CloseSent, KillChildren, JoinWorkers, SocketTypes
  <2>4. \/ sock[s] \in {"none", "resetting", "starting", "refusing", "killing", "joining"}
        \/ sock'[s] = "stopping"
    <3>1. CASE ReceiveEnd(s) \/ SendFails(s) \/ CloseSent(s)
      BY <1>1, <3>1 DEF ReceiveEnd, SendFails, CloseSent, SocketTypes
    <3> QED
      BY <1>4, <3>1 DEF ResetUplink, ResetDownlink, StartLive, StartFails, KillChildren, JoinWorkers
  <2>5. IsLate(s) => sock'[s] = "stopping"
    BY <2>4 DEF CutOff
  <2> QED
    BY <2>1, <2>2, <2>3, <2>5, QuietCutOff
<1> QED
  BY <1>2, <1>3, <1>4, LoopsCutOff DEF SocketStep

LEMMA NextCutOff == ASSUME LInv, SocketTypes', CutOff, [LiveNext]_allVars PROVE CutOff'
<1>1. ASSUME UNCHANGED <<late_in, late_out, sock, batches>>, UNCHANGED vars PROVE CutOff'
  <2>1. \A s \in Streams : IsActive(s)' = IsActive(s)
    BY <1>1 DEF vars, IsActive
  <2> QED
    BY <1>1, <2>1, QuietCutOff
<1>2. CASE UNCHANGED allVars
  BY <1>1, <1>2 DEF allVars, liveVars, late
<1>3. ASSUME NEW s \in Streams, WorkerStep(s) \/ \E c \in {"capture", "playback"} : ChildDies(s, c)
      PROVE  UNCHANGED <<late_in, late_out, sock, batches>> /\ UNCHANGED vars
  BY <1>3 DEF WorkerStep, CaptureCheck, CaptureFrame, CaptureEnd, PlaybackCheck, PlaybackWritten,
              PlaybackBroken, ChildDies, late
<1> QED
  BY <1>1, <1>2, <1>3, SessionCutOff, SocketCutOff DEF LiveNext

LEMMA CutOffInvariance == LiveSpec => []CutOff
<1>1. LInv /\ LInv' /\ CutOff /\ [LiveNext]_allVars => CutOff'
  BY NextCutOff DEF LInv
<1> QED
  BY InitCutOff, LiveInvariance, <1>1, PTL DEF LiveSpec

-----------------------------------------------------------------------------
(* The theorems.                                                           *)

\* The queues keep to their capacity, and only a running socket is suspended in
\* a send.
THEOREM LiveTypeCorrect == LiveSpec => []LiveTypeOK
<1>1. LInv /\ CutOff => LiveTypeOK
  <2> SUFFICES ASSUME LInv, CutOff PROVE LiveTypeOK
    OBVIOUS
  <2>1. /\ late_in \in [Streams -> 0..(MaxBatches + 1)]
        /\ late_out \in [Streams -> 0..(MaxBatches + 1)]
    BY LiveMediaAssumption DEF CutOff, LateTypes
  <2> QED
    BY <2>1 DEF LInv, SocketTypes, QueueTypes, LiveTypeOK
<1> QED
  BY LiveInvariance, CutOffInvariance, <1>1, PTL

\* After its grant is revoked a connection queues at most one more message, and
\* takes at most the messages of one playout tick, out of the queues it shares
\* with the connection that replaces it.
THEOREM ReplacedIsCutOff == LiveSpec => []RevokedIsCutOff
<1>1. LInv /\ CutOff => RevokedIsCutOff
  <2> SUFFICES ASSUME CutOff, NEW s \in Streams
               PROVE late_in[s] <= 1 /\ late_out[s] <= MaxBatches
    BY DEF RevokedIsCutOff
  <2>1. late_in[s] \in 0..1 /\ late_out[s] \in 0..MaxBatches
    BY DEF CutOff, LateTypes
  <2> QED
    BY <2>1, LiveMediaAssumption
<1> QED
  BY LiveInvariance, CutOffInvariance, <1>1, PTL

\* The registry's guarantee reaches the sockets: with all their threads and
\* processes, at most one connection is the live owner of the call audio.
THEOREM LiveSingleOwner == LiveSpec => []AtMostOneActiveLease
<1>1. LInv => AtMostOneActiveLease
  BY OneActiveFromIInv DEF LInv
<1> QED
  BY LiveInvariance, <1>1, PTL

\* While worker threads or pw-cat processes of a connection exist it holds its
\* lease.
THEOREM LeaseOutlivesBridge == LiveSpec => []BridgeHasLease
<1>1. LInv => BridgeHasLease
  BY DEF LInv, Attached, BridgeHasLease
<1> QED
  BY LiveInvariance, <1>1, PTL

\* A connection that has reset the queues never finds audio of an earlier
\* connection of its grant in them.
THEOREM ReconnectsStartClean == LiveSpec => []NoStaleAudioOnReconnect
<1>1. LInv => NoStaleAudioOnReconnect
  <2> SUFFICES ASSUME LInv, NEW s \in Streams, sock[s] \in {"starting", "running", "closing"},
                      NEW q \in {uplink, downlink}, NEW k \in DOMAIN q, q[k].grant = session[s]
               PROVE  q[k].from = s
    BY DEF NoStaleAudioOnReconnect
  <2>1. Unmixed(uplink, s) /\ Unmixed(downlink, s)
    BY DEF LInv, Clean, UplinkReset, DownlinkReset
  <2>2. q[k] \in Elems(q)
    BY DEF Elems
  <2> QED
    BY <2>1, <2>2 DEF Unmixed
<1> QED
  BY LiveInvariance, <1>1, PTL

-----------------------------------------------------------------------------
(* The daemon's connections, with their bridges, implement the registry.   *)

\* Issues, claims and the drop of a lease are steps of the registry; sockets,
\* workers and processes leave it alone.
LEMMA LiveStepIsRegistryStep == [LiveNext]_allVars => [Next]_vars
<1> SUFFICES ASSUME [LiveNext]_allVars PROVE [Next]_vars
  OBVIOUS
<1>1. CASE UNCHANGED allVars
  BY <1>1 DEF allVars
<1>2. CASE SessionStep
  BY <1>2 DEF SessionStep, Next
<1>3. ASSUME NEW s \in Streams, DropLease(s) PROVE [Next]_vars
  BY <1>3 DEF Next
<1>4. ASSUME NEW s \in Streams, SocketStep(s) PROVE [Next]_vars
  <2>1. CASE UpgradeFails(s) \/ ReleaseLease(s)
    BY <2>1, <1>3 DEF UpgradeFails, ReleaseLease
  <2>2. CASE \/ ResetUplink(s) \/ ResetDownlink(s) \/ StartLive(s) \/ StartFails(s)
             \/ \E n \in 1..MaxBatch : ReceiveFrames(s, n)
             \/ ReceiveEnd(s) \/ RaiseStop(s) \/ KillChildren(s) \/ JoinWorkers(s)
    BY <2>2 DEF ResetUplink, ResetDownlink, StartLive, StartFails, ReceiveFrames, ReceiveEnd,
                RaiseStop, KillChildren, JoinWorkers
  <2>3. CASE PlayoutTick(s) \/ SendDone(s) \/ SendFails(s) \/ CloseSent(s)
    BY <2>3 DEF PlayoutTick, SendDone, SendFails, CloseSent
  <2> QED
    BY <1>4, <2>1, <2>2, <2>3 DEF SocketStep
<1>5. ASSUME NEW s \in Streams, WorkerStep(s) PROVE UNCHANGED vars
  BY <1>5 DEF WorkerStep, CaptureCheck, CaptureFrame, CaptureEnd, PlaybackCheck, PlaybackWritten,
              PlaybackBroken
<1>6. ASSUME NEW s \in Streams, NEW c, ChildDies(s, c) PROVE UNCHANGED vars
  BY <1>6 DEF ChildDies
<1> QED
  BY <1>1, <1>2, <1>4, <1>5, <1>6 DEF LiveNext

\* media_socket and the audio bridge use the registry only as it allows: the daemon
\* implements the registry's specification, whatever its threads do.
THEOREM LiveImplementsRegistry == LiveSpec => Spec
<1>1. LiveInit => Init
  BY DEF LiveInit
<1> QED
  BY <1>1, LiveStepIsRegistryStep, PTL DEF LiveSpec, Spec

\* With bridges, workers and processes the ownership of the call audio still passes
\* through nobody (media_socket, MediaSessionRegistry).
THEOREM LiveImplementsExclusiveOwner == LiveSpec => ImplementsExclusiveOwner
  BY LiveImplementsRegistry, Refinement

\* However the claims and drops of media_socket interleave with its teardown, two
\* connections never hold leases of one grant.
THEOREM LiveOneConnection == LiveSpec => []OneConnectionPerGrant
  BY LiveImplementsRegistry, OneConnection
=============================================================================
