------------------------ MODULE AncsTransportProofs -------------------------
(***************************************************************************)
(* Proofs about AncsTransport: types and limits, metadata that carries the *)
(* attributes of its own notification, and no repeats within a session,    *)
(* for any notifications, limits and answer lengths.                       *)
(***************************************************************************)
EXTENDS AncsTransport, FiniteSetTheorems, SequenceTheorems, TLAPS

Fragments == [of : Uids, part : Nat, parts : AnswerLengths]

Events == [kind : {"added", "modified", "removed"}, uid : Uids]

Fragment(u, k, n) == [of |-> u, part |-> k, parts |-> n]

\* What is held and what is still to come are together the one answer to the
\* pending request, and without a request there is nothing of either.
OneAnswer ==
  /\ pending = None => data = <<>> /\ response = <<>>
  /\ pending # None =>
       \E n \in AnswerLengths :
         /\ Len(data) > 0 /\ Len(response) + Len(data) = n
         /\ Len(response) <= MaxResponse
         /\ \A k \in 1..Len(response) : response[k] = Fragment(pending, k, n)
         /\ \A k \in 1..Len(data) : data[k] = Fragment(pending, Len(response) + k, n)

\* A uid is in at most one place: queued once, pending, or completed.
OnePlace ==
  /\ \A i, j \in DOMAIN queued : queued[i] = queued[j] => i = j
  /\ \A i \in DOMAIN queued : queued[i] # pending
  /\ \A i \in DOMAIN completed :
       completed[i] # pending /\ \A j \in DOMAIN queued : queued[j] # completed[i]

\* Whatever was handed over is remembered, unless it was evicted.
Remembered ==
  \A u \in Uids : handed[u] > 0 =>
    u \in forgotten \/ \E i \in DOMAIN completed : completed[i] = u

\* The protocol's part of the invariant.
ProtocolInv == OneAnswer /\ OnePlace /\ Remembered /\ NoReplayInSession

TInv == TypeOK /\ IsFiniteSet(standing) /\ ProtocolInv /\ MetadataIsOwn

-----------------------------------------------------------------------------
(* Sequences.                                                              *)

\* RemoveAt closes the gap.
LEMMA RemoveAtProperties ==
  ASSUME NEW S, NEW s \in Seq(S), NEW k \in 1..Len(s)
  PROVE  /\ RemoveAt(s, k) \in Seq(S)
         /\ Len(RemoveAt(s, k)) = Len(s) - 1
         /\ \A i \in 1..(Len(s) - 1) :
              RemoveAt(s, k)[i] = IF i < k THEN s[i] ELSE s[i + 1]
  <1> DEFINE a == SubSeq(s, 1, k - 1)
             b == SubSeq(s, k + 1, Len(s))
  <1>1. a \in Seq(S) /\ Len(a) = k - 1 /\ \A i \in 1..(k - 1) : a[i] = s[i]
    OBVIOUS
  <1>2. /\ b \in Seq(S) /\ Len(b) = Len(s) - k
        /\ \A i \in 1..(Len(s) - k) : b[i] = s[k + i]
    OBVIOUS
  <1> HIDE DEF a, b
  <1>3. /\ a \o b \in Seq(S)
        /\ Len(a \o b) = Len(a) + Len(b)
        /\ \A i \in 1..(Len(a) + Len(b)) :
             (a \o b)[i] = IF i <= Len(a) THEN a[i] ELSE b[i - Len(a)]
    BY <1>1, <1>2, ConcatProperties
  <1>4. Len(a) \in Nat /\ Len(b) \in Nat /\ Len(s) \in Nat
    BY <1>1, <1>2
  <1>5. ASSUME NEW i \in 1..(Len(s) - 1)
        PROVE  (a \o b)[i] = IF i < k THEN s[i] ELSE s[i + 1]
    <2>1. CASE i < k
      BY <2>1, <1>1, <1>2, <1>3, <1>4
    <2>2. CASE ~(i < k)
      <3>1. i - Len(a) \in 1..(Len(s) - k) /\ k + (i - Len(a)) = i + 1
        BY <2>2, <1>1, <1>4
      <3>2. b[i - Len(a)] = s[i + 1]
        BY <3>1, <1>2
      <3> QED BY <2>2, <3>2, <1>1, <1>2, <1>3, <1>4
    <2> QED BY <2>1, <2>2
  <1>6. Len(a \o b) = Len(s) - 1
    BY <1>1, <1>2, <1>3, <1>4
  <1> QED BY <1>3, <1>5, <1>6 DEF RemoveAt, a, b

\* The first fragments and the rest of an answer.
LEMMA HeadTail ==
  ASSUME NEW S, NEW s \in Seq(S), s # <<>>
  PROVE  /\ Head(s) = s[1] /\ Head(s) \in S /\ Tail(s) \in Seq(S)
         /\ Len(s) > 0 /\ Len(Tail(s)) = Len(s) - 1
         /\ \A i \in 1..(Len(s) - 1) : Tail(s)[i] = s[i + 1]
  OBVIOUS

-----------------------------------------------------------------------------
(* What the pieces of a step do to the protocol.                           *)

\* The answer to a new request is whole.
LEMMA AskedIsWhole ==
  ASSUME NEW u \in Uids, Answer(u, <<>>), response' = <<>>, pending' = u
  PROVE  /\ data' \in Seq(Fragments)
         /\ OneAnswer'
  <1>1. PICK n \in AnswerLengths : data' = <<>> \o [k \in 1..n |-> Fragment(u, k, n)]
    BY DEF Answer, Fragment
  <1> DEFINE whole == [k \in 1..n |-> Fragment(u, k, n)]
  <1>2. n \in 1..(MaxResponse + 1) /\ MaxResponse \in Nat
    BY AnswerLengthsAssumption, AncsTransportAssumption
  <1>3. whole \in Seq(Fragments) /\ Len(whole) = n
    BY <1>2 DEF Fragment, Fragments
  <1>4. data' = whole
    BY <1>1, <1>3, ConcatEmptySeq
  <1>5. u # None
    BY AncsTransportAssumption
  <1>6. \A k \in 1..n : whole[k] = Fragment(u, 0 + k, n)
    BY <1>2
  <1> HIDE DEF whole
  <1>7. OneAnswer'
    BY <1>2, <1>3, <1>4, <1>5, <1>6 DEF OneAnswer
  <1> QED BY <1>3, <1>4, <1>7

\* The next request, or none, once the stream is empty.
LEMMA StartedIsWhole ==
  ASSUME TypeOK, StartNext(<<>>)
  PROVE  /\ data' \in Seq(Fragments)
         /\ response' = <<>>
         /\ pending' \in Uids \cup {None}
         /\ queued' \in Seq(Uids) /\ Len(queued') <= QueueLimit
         /\ OneAnswer'
  <1>1. CASE queued = <<>>
    BY <1>1 DEF StartNext, OneAnswer, TypeOK
  <1>2. CASE queued # <<>>
    <2> queued' = Tail(queued) /\ queued \in Seq(Uids)
      BY <1>2 DEF StartNext, TypeOK
    <2>1. /\ Head(queued) \in Uids /\ queued' \in Seq(Uids)
          /\ Len(queued') = Len(queued) - 1
      BY <1>2, HeadTail
    <2>2. Len(queued') <= QueueLimit
      BY <2>1, AncsTransportAssumption DEF TypeOK
    <2> QED BY <1>2, <2>1, <2>2, AskedIsWhole DEF StartNext
  <1> QED BY <1>1, <1>2

\* It was queued, once.
LEMMA StartedKeepsPlaces ==
  ASSUME TypeOK, OnePlace, NEW rest, StartNext(rest),
         completed' \in Seq(Uids),
         \A i \in DOMAIN completed' :
           \/ completed'[i] = pending
           \/ \E j \in DOMAIN completed : completed'[i] = completed[j]
  PROVE  OnePlace'
  <1>1. CASE queued = <<>>
    <2>1. queued' = <<>> /\ pending' = None
      BY <1>1 DEF StartNext
    <2> QED BY <2>1, AncsTransportAssumption DEF OnePlace
  <1>2. CASE queued # <<>>
    <2> /\ queued' = Tail(queued) /\ queued \in Seq(Uids)
        /\ pending' = Head(queued)
      BY <1>2 DEF StartNext, TypeOK
    <2>1. /\ pending' = queued[1] /\ queued' = Tail(queued)
          /\ queued' \in Seq(Uids) /\ Len(queued) > 0
          /\ Len(queued') = Len(queued) - 1
          /\ \A i \in 1..(Len(queued) - 1) : queued'[i] = queued[i + 1]
      BY <1>2, HeadTail
    <2>2. \A i \in DOMAIN queued' : i + 1 \in DOMAIN queued /\ queued'[i] = queued[i + 1]
      BY <2>1 DEF TypeOK
    <2>3. 1 \in DOMAIN queued /\ DOMAIN queued \subseteq Int /\ DOMAIN queued' \subseteq 1..Len(queued)
      BY <2>1 DEF TypeOK
    <2>4. ASSUME NEW i \in DOMAIN queued', NEW j \in DOMAIN queued', queued'[i] = queued'[j]
          PROVE  i = j
      BY <2>2, <2>3, <2>4 DEF OnePlace
    <2>5. ASSUME NEW i \in DOMAIN queued' PROVE queued'[i] # pending'
      BY <2>1, <2>2, <2>3 DEF OnePlace
    <2>6. ASSUME NEW i \in DOMAIN completed'
          PROVE  /\ completed'[i] # pending'
                 /\ \A j \in DOMAIN queued' : queued'[j] # completed'[i]
      BY <2>1, <2>2, <2>3 DEF OnePlace
    <2> QED BY <2>4, <2>5, <2>6 DEF OnePlace
  <1> QED BY <1>1, <1>2

Held == Append(response, Head(data))

\* The pending request's answer has n fragments: the ones held with the one at the
\* head of the stream, and the ones behind it.
Halves(n) ==
  /\ n \in Nat /\ n <= MaxResponse + 1 /\ MaxResponse \in Nat
  /\ Len(response) \in Nat /\ Len(data) \in Nat /\ Len(data) > 0
  /\ Len(response) + Len(data) = n /\ Len(response) <= MaxResponse
  /\ Held \in Seq(Fragments) /\ Len(Held) = Len(response) + 1
  /\ \A k \in 1..(Len(response) + 1) : Held[k] = Fragment(pending, k, n)
  /\ Tail(data) \in Seq(Fragments) /\ Len(Tail(data)) = Len(data) - 1
  /\ \A k \in 1..(Len(data) - 1) :
       Tail(data)[k] = Fragment(pending, Len(response) + 1 + k, n)

\* A pending request has such an answer.
LEMMA HeldAnswer ==
  ASSUME TypeOK, OneAnswer, pending # None
  PROVE  \E n \in AnswerLengths : Halves(n)
  <1>1. PICK n \in AnswerLengths :
          /\ Len(data) > 0 /\ Len(response) + Len(data) = n
          /\ Len(response) <= MaxResponse
          /\ \A k \in 1..Len(response) : response[k] = Fragment(pending, k, n)
          /\ \A k \in 1..Len(data) : data[k] = Fragment(pending, Len(response) + k, n)
    BY DEF OneAnswer
  <1>2. n \in 1..(MaxResponse + 1) /\ MaxResponse \in Nat
    BY AnswerLengthsAssumption, AncsTransportAssumption
  <1>3. response \in Seq(Fragments) /\ data \in Seq(Fragments)
    BY DEF TypeOK, Fragments
  <1>4. Len(response) \in Nat /\ Len(data) \in Nat
    BY <1>3
  <1>5. data # <<>>
    BY <1>1, <1>3
  <1>6. /\ Head(data) \in Fragments /\ Head(data) = data[1]
        /\ Tail(data) \in Seq(Fragments) /\ Len(Tail(data)) = Len(data) - 1
        /\ \A k \in 1..(Len(data) - 1) : Tail(data)[k] = data[k + 1]
    BY <1>3, <1>5, HeadTail
  <1>7. Head(data) = Fragment(pending, Len(response) + 1, n)
    BY <1>1, <1>4, <1>6
  <1>8. /\ Held \in Seq(Fragments) /\ Len(Held) = Len(response) + 1
        /\ Held[Len(response) + 1] = Head(data)
        /\ \A k \in 1..Len(response) : Held[k] = response[k]
    BY <1>3, <1>6, AppendProperties DEF Held
  <1>9. ASSUME NEW k \in 1..(Len(response) + 1)
        PROVE  Held[k] = Fragment(pending, k, n)
    <2>1. k \in 1..Len(response) \/ k = Len(response) + 1
      BY <1>4
    <2> QED BY <2>1, <1>1, <1>7, <1>8
  <1>10. ASSUME NEW k \in 1..(Len(data) - 1)
         PROVE  Tail(data)[k] = Fragment(pending, Len(response) + 1 + k, n)
    <2>1. k + 1 \in 1..Len(data) /\ Len(response) + (k + 1) = Len(response) + 1 + k
      BY <1>4
    <2> QED BY <2>1, <1>1, <1>6
  <1> QED BY <1>1, <1>2, <1>4, <1>6, <1>8, <1>9, <1>10 DEF Halves

\* An answer that ends with the fragment at the head leaves an empty stream.
LEMMA AnswerEnds ==
  ASSUME TypeOK, OneAnswer, pending # None, Parses(Held)
  PROVE  Tail(data) = <<>> /\ Held[1].of = pending
  <1>1. PICK n \in AnswerLengths : Halves(n)
    BY HeldAnswer
  <1>2. Held[1] = Fragment(pending, 1, n)
    BY <1>1 DEF Halves
  <1>3. Len(Held) = n
    BY <1>2 DEF Parses, Fragment
  <1>4. Len(Tail(data)) = 0
    BY <1>1, <1>3 DEF Halves
  <1>5. Tail(data) = <<>>
    BY <1>1, <1>4, EmptySeq DEF Halves
  <1> QED BY <1>2, <1>5 DEF Fragment

\* A fragment too many is the last of its answer.
LEMMA AbandonedEnds ==
  ASSUME TypeOK, OneAnswer, data # <<>>, pending = None \/ Len(response) = MaxResponse
  PROVE  Tail(data) = <<>>
  <1>1. pending # None /\ Len(response) = MaxResponse
    BY DEF OneAnswer
  <1>2. PICK n \in AnswerLengths : Halves(n)
    BY <1>1, HeldAnswer
  <1>3. Len(Tail(data)) = 0
    BY <1>1, <1>2 DEF Halves
  <1> QED BY <1>2, <1>3, EmptySeq DEF Halves

\* A fragment that does not complete its answer is followed by another.
LEMMA CollectedGoesOn ==
  ASSUME TypeOK, OneAnswer, Collect
  PROVE  OneAnswer' /\ data' \in Seq(Fragments) /\ response' \in Seq(Fragments)
  <1>1. /\ pending # None /\ Len(response) < MaxResponse /\ ~Parses(Held)
        /\ response' = Held /\ data' = Tail(data) /\ pending' = pending
    BY DEF Collect, Held
  <1>2. PICK n \in AnswerLengths : Halves(n)
    BY <1>1, HeldAnswer
  <1>3. Len(data) # 1
    <2>1. SUFFICES ASSUME Len(data) = 1 PROVE FALSE
      OBVIOUS
    <2>2. Len(Held) = n /\ Held[1] = Fragment(pending, 1, n)
      BY <1>2, <2>1 DEF Halves
    <2>3. \A k \in DOMAIN Held : Held[k] = Fragment(pending, k, n)
      BY <1>2 DEF Halves
    <2>4. Parses(Held)
      BY <2>2, <2>3 DEF Parses, Fragment
    <2> QED BY <1>1, <2>4
  <1>4. /\ Len(data') > 0 /\ Len(response') + Len(data') = n /\ Len(response') <= MaxResponse
        /\ data' \in Seq(Fragments) /\ response' \in Seq(Fragments)
        /\ \A k \in 1..Len(response') : response'[k] = Fragment(pending', k, n)
        /\ \A k \in 1..Len(data') : data'[k] = Fragment(pending', Len(response') + k, n)
    BY <1>1, <1>2, <1>3 DEF Halves
  <1> QED BY <1>1, <1>4 DEF OneAnswer

\* A fresh protocol has nothing to remember.
LEMMA FreshIsSound ==
  ASSUME FreshProtocol, data' = <<>>
  PROVE  /\ ProtocolInv'
         /\ data' \in Seq(Fragments) /\ response' \in Seq(Fragments)
         /\ queued' \in Seq(Uids) /\ Len(queued') <= QueueLimit
         /\ completed' \in Seq(Uids) /\ Len(completed') <= CompletedLimit
         /\ pending' = None /\ handed' \in [Uids -> 0..2] /\ forgotten' \subseteq Uids
  BY AncsTransportAssumption
  DEF FreshProtocol, ProtocolInv, OneAnswer, OnePlace, Remembered, NoReplayInSession

\* What is completed is the pending uid, which was not handed over unless it has
\* been forgotten.
LEMMA CompletedIsRemembered ==
  ASSUME TypeOK, OnePlace, Remembered, NoReplayInSession, pending # None, CompletePending
  PROVE  /\ completed' \in Seq(Uids) /\ Len(completed') <= CompletedLimit
         /\ handed' \in [Uids -> 0..2] /\ forgotten' \subseteq Uids
         /\ \A i \in DOMAIN completed' :
              \/ completed'[i] = pending
              \/ \E j \in DOMAIN completed : completed'[i] = completed[j]
         /\ Remembered' /\ NoReplayInSession'
  <1> DEFINE all == Append(completed, pending)
  <1>1. /\ pending \in Uids /\ completed \in Seq(Uids) /\ Len(completed) \in Nat
        /\ CompletedLimit \in Nat /\ Len(completed) <= CompletedLimit
        /\ handed \in [Uids -> 0..2] /\ forgotten \subseteq Uids
    BY AncsTransportAssumption DEF TypeOK
  <1>2. /\ all \in Seq(Uids) /\ all # <<>> /\ Len(all) = Len(completed) + 1
        /\ \A i \in 1..Len(completed) : all[i] = completed[i]
        /\ all[Len(completed) + 1] = pending
    BY <1>1, AppendProperties
  <1>3. \A i \in 1..Len(all) : all[i] = pending \/ \E j \in DOMAIN completed : all[i] = completed[j]
    <2> TAKE i \in 1..Len(all)
    <2>1. i \in 1..Len(completed) \/ i = Len(completed) + 1
      BY <1>1, <1>2
    <2> QED BY <1>1, <1>2, <2>1
  <1>4. /\ completed' = IF Len(all) > CompletedLimit THEN Tail(all) ELSE all
        /\ forgotten' = IF Len(all) > CompletedLimit THEN forgotten \cup {Head(all)} ELSE forgotten
        /\ handed' = IF pending \in MessageUids /\ handed[pending] < 2
                     THEN [handed EXCEPT ![pending] = @ + 1] ELSE handed
    BY DEF CompletePending
  <1> HIDE DEF all
  <1>5. /\ Head(all) = all[1] /\ Head(all) \in Uids /\ Tail(all) \in Seq(Uids)
        /\ Len(Tail(all)) = Len(all) - 1
        /\ \A i \in 1..(Len(all) - 1) : Tail(all)[i] = all[i + 1]
    BY <1>2, HeadTail
  <1>6. /\ completed' \in Seq(Uids) /\ Len(completed') <= CompletedLimit
        /\ forgotten' \subseteq Uids /\ forgotten \subseteq forgotten'
    BY <1>1, <1>2, <1>4, <1>5
  <1>7. \A i \in DOMAIN completed' : \E j \in 1..Len(all) : completed'[i] = all[j]
    <2> TAKE i \in DOMAIN completed'
    <2>1. CASE Len(all) > CompletedLimit
      <3>1. i \in 1..(Len(all) - 1) /\ i + 1 \in 1..Len(all) /\ completed'[i] = all[i + 1]
        BY <2>1, <1>1, <1>2, <1>4, <1>5
      <3> QED BY <3>1
    <2>2. CASE ~(Len(all) > CompletedLimit)
      BY <2>2, <1>2, <1>4
    <2> QED BY <2>1, <2>2
  <1>8. \A j \in 1..Len(all) : all[j] \in forgotten' \/ \E i \in DOMAIN completed' : completed'[i] = all[j]
    <2> TAKE j \in 1..Len(all)
    <2>1. CASE ~(Len(all) > CompletedLimit)
      BY <2>1, <1>2, <1>4
    <2>2. CASE Len(all) > CompletedLimit /\ j = 1
      BY <2>2, <1>4, <1>5
    <2>3. CASE Len(all) > CompletedLimit /\ j # 1
      <3>1. j - 1 \in 1..(Len(all) - 1) /\ (j - 1) + 1 = j
        BY <2>3, <1>1, <1>2
      <3>2. j - 1 \in DOMAIN completed' /\ completed'[j - 1] = all[j]
        BY <2>3, <3>1, <1>4, <1>5
      <3> QED BY <3>2
    <2> QED BY <2>1, <2>2, <2>3
  <1>9. /\ handed' \in [Uids -> 0..2]
        /\ \A u \in Uids : u # pending => handed'[u] = handed[u]
        /\ handed[pending] = 0 => handed'[pending] <= 1
    BY <1>1, <1>4
  <1>10. Remembered'
    <2> SUFFICES ASSUME NEW u \in Uids, handed'[u] > 0
                 PROVE  u \in forgotten' \/ \E i \in DOMAIN completed' : completed'[i] = u
      BY DEF Remembered
    <2>1. CASE u = pending
      <3>1. Len(completed) + 1 \in 1..Len(all)
        BY <1>1, <1>2
      <3> QED BY <2>1, <3>1, <1>2, <1>8
    <2>2. CASE u # pending
      <3>1. u \in forgotten \/ \E i \in DOMAIN completed : completed[i] = u
        BY <2>2, <1>9 DEF Remembered
      <3>2. ASSUME NEW i \in DOMAIN completed, completed[i] = u
            PROVE  i \in 1..Len(all) /\ all[i] = u
        BY <3>2, <1>1, <1>2
      <3> QED BY <3>1, <3>2, <1>6, <1>8
    <2> QED BY <2>1, <2>2
  <1>11. NoReplayInSession'
    <2> SUFFICES ASSUME NEW u \in Uids, handed'[u] > 1
                 PROVE  u \in forgotten'
      BY DEF NoReplayInSession
    <2>1. CASE u = pending
      <3>1. handed[u] > 0
        BY <2>1, <1>1, <1>9
      <3>2. u \in forgotten
        BY <2>1, <3>1 DEF Remembered, OnePlace
      <3> QED BY <3>2, <1>6
    <2>2. CASE u # pending
      BY <2>2, <1>6, <1>9 DEF NoReplayInSession
    <2> QED BY <2>1, <2>2
  <1>12. \A i \in DOMAIN completed' :
           completed'[i] = pending \/ \E j \in DOMAIN completed : completed'[i] = completed[j]
    BY <1>3, <1>7
  <1> QED BY <1>6, <1>9, <1>10, <1>11, <1>12

-----------------------------------------------------------------------------
(* One step of the specification.                                          *)

LEMMA InitSound == Init => TInv
  BY AncsTransportAssumption, FS_EmptySet
  DEF Init, TInv, TypeOK, ProtocolInv, OneAnswer, OnePlace, Remembered,
      NoReplayInSession, MetadataIsOwn

\* A step that leaves the protocol and its stream of fragments alone.
LEMMA ProtocolKept ==
  ASSUME ProtocolInv, UNCHANGED <<data, protocolVars>>
  PROVE  ProtocolInv'
  BY DEF ProtocolInv, OneAnswer, OnePlace, Remembered, NoReplayInSession, protocolVars

LEMMA AnnouncedIsEvent ==
  ASSUME TypeOK, NEW kind \in {"added", "modified", "removed"}, NEW u \in Uids,
         Announce(kind, u)
  PROVE  source' \in Seq(Events)
  <1>1. source \in Seq(Events)
    BY DEF TypeOK, Events
  <1>2. [kind |-> kind, uid |-> u] \in Events
    BY DEF Events
  <1>3. Append(source, [kind |-> kind, uid |-> u]) \in Seq(Events)
    BY <1>1, <1>2, AppendProperties
  <1> QED BY <1>1, <1>3 DEF Announce

LEMMA PhoneKeeps ==
  ASSUME TInv, PhoneStep
  PROVE  TInv'
  <1> USE DEF TInv
  <1>1. PICK u \in Uids : Post(u) \/ Modify(u) \/ Dismiss(u)
    BY DEF PhoneStep
  <1>2. /\ UNCHANGED <<data, link, failures, protocolVars, output>>
        /\ \E kind \in {"added", "modified", "removed"} : Announce(kind, u)
    BY <1>1 DEF Post, Modify, Dismiss
  <1>3. source' \in Seq(Events)
    BY <1>2, AnnouncedIsEvent
  <1>4. standing' \subseteq Uids /\ IsFiniteSet(standing')
    <2>1. standing' \in {standing, standing \cup {u}, standing \ {u}}
      BY <1>1 DEF Post, Modify, Dismiss
    <2>2. IsFiniteSet(standing \cup {u}) /\ IsFiniteSet(standing \ {u})
      BY FS_AddElement, FS_RemoveElement
    <2> QED BY <2>1, <2>2 DEF TypeOK
  <1>5. TypeOK'
    BY <1>2, <1>3, <1>4 DEF TypeOK, protocolVars, Events
  <1>6. ProtocolInv' /\ MetadataIsOwn'
    BY <1>2, ProtocolKept DEF MetadataIsOwn
  <1> QED BY <1>4, <1>5, <1>6

LEMMA EndedKeeps ==
  ASSUME TInv, EndSession, UNCHANGED <<standing, output>>
  PROVE  TInv'
  <1> USE DEF TInv
  <1>1. FreshProtocol /\ data' = <<>>
    BY DEF EndSession
  <1>2. /\ link' = "backing_off" /\ source' = <<>> /\ failures' \in 0..MaxFailures
    BY AncsTransportAssumption DEF EndSession, TypeOK
  <1>3. TypeOK'
    BY <1>1, <1>2, FreshIsSound DEF TypeOK, Fragments
  <1> QED BY <1>1, <1>3, FreshIsSound DEF MetadataIsOwn

LEMMA SessionKeeps ==
  ASSUME TInv, SessionStep
  PROVE  TInv'
  <1> USE DEF TInv
  <1>1. CASE Connect
    <2>1. FreshProtocol /\ data' = <<>> /\ link' = "subscribing_notification_source"
          /\ UNCHANGED <<standing, source, failures, output>>
      BY <1>1 DEF Connect, streamVars, TypeOK
    <2>2. TypeOK'
      BY <2>1, FreshIsSound DEF TypeOK, Fragments
    <2> QED BY <2>1, <2>2, FreshIsSound DEF MetadataIsOwn
  <1>2. CASE SubscribeNotificationSource
    <2>1. PICK all \in SetToSeqs(standing) :
            source' = [k \in DOMAIN all |-> [kind |-> "added", uid |-> all[k]]]
      BY <1>2 DEF SubscribeNotificationSource
    <2>2. all \in [1..Cardinality(standing) -> standing] /\ Cardinality(standing) \in Nat
      BY FS_CardinalityType DEF SetToSeqs
    <2>3. source' \in Seq(Events)
      <3>1. standing \subseteq Uids
        BY DEF TypeOK
      <3>2. source' \in [1..Cardinality(standing) -> Events]
        BY <2>1, <2>2, <3>1 DEF Events
      <3> HIDE DEF TInv
      <3> QED BY <2>2, <3>2
    <2>4. /\ UNCHANGED <<standing, data, failures, protocolVars, output>>
          /\ link = "subscribing_notification_source" /\ link' = "subscribing_data_source"
      BY <1>2 DEF SubscribeNotificationSource
    <2>5. TypeOK'
      BY <2>3, <2>4 DEF TypeOK, protocolVars, Events
    <2> QED BY <2>4, <2>5, ProtocolKept DEF MetadataIsOwn
  <1>3. CASE SubscribeDataSource
    <2>1. /\ UNCHANGED <<standing, source, data, protocolVars, output>>
          /\ link = "subscribing_data_source" /\ link' = "ready" /\ failures' = 0
      BY <1>3 DEF SubscribeDataSource, streamVars
    <2>2. TypeOK'
      BY <2>1, AncsTransportAssumption DEF TypeOK, protocolVars
    <2> QED BY <2>1, <2>2, ProtocolKept DEF MetadataIsOwn
  <1>4. CASE SessionFails
    BY <1>4, EndedKeeps DEF SessionFails
  <1>5. CASE Retry
    <2>1. /\ UNCHANGED <<standing, source, data, failures, protocolVars, output>>
          /\ link = "backing_off" /\ link' = "disconnected"
      BY <1>5 DEF Retry, streamVars
    <2>2. TypeOK'
      BY <2>1 DEF TypeOK, protocolVars
    <2> QED BY <2>1, <2>2, ProtocolKept DEF MetadataIsOwn
  <1> QED BY <1>1, <1>2, <1>3, <1>4, <1>5 DEF SessionStep

\* A removed notification leaves the queue.
LEMMA DequeuedKeeps ==
  ASSUME TypeOK, OnePlace, NEW u \in Uids, Dequeue(u), UNCHANGED <<completed, pending>>
  PROVE  queued' \in Seq(Uids) /\ Len(queued') <= QueueLimit /\ OnePlace'
  <1>1. CASE UNCHANGED queued
    BY <1>1 DEF TypeOK, OnePlace
  <1>2. CASE queued' # queued
    <2>1. PICK k \in DOMAIN queued : queued' = RemoveAt(queued, k)
      BY <1>2 DEF Dequeue
    <2>2. queued \in Seq(Uids) /\ k \in 1..Len(queued) /\ Len(queued) \in Nat
          /\ Len(queued) <= QueueLimit /\ QueueLimit \in Nat
      BY AncsTransportAssumption DEF TypeOK
    <2>3. /\ queued' \in Seq(Uids) /\ Len(queued') = Len(queued) - 1
          /\ \A i \in 1..(Len(queued) - 1) :
               queued'[i] = IF i < k THEN queued[i] ELSE queued[i + 1]
      BY <2>1, <2>2, RemoveAtProperties
    <2>4. DOMAIN queued = 1..Len(queued) /\ DOMAIN queued' = 1..(Len(queued) - 1)
      BY <2>2, <2>3
    <2>5. ASSUME NEW i \in DOMAIN queued', NEW j \in DOMAIN queued', queued'[i] = queued'[j]
          PROVE  i = j
      <3> DEFINE old(l) == IF l < k THEN l ELSE l + 1
      <3>1. old(i) \in DOMAIN queued /\ old(j) \in DOMAIN queued
        BY <2>2, <2>4
      <3>2. queued'[i] = queued[old(i)] /\ queued'[j] = queued[old(j)]
        BY <2>2, <2>3, <2>4
      <3>3. old(i) = old(j)
        BY <2>5, <3>1, <3>2 DEF OnePlace
      <3> QED BY <2>2, <2>4, <3>3
    <2>6. ASSUME NEW i \in DOMAIN queued' PROVE \E j \in DOMAIN queued : queued'[i] = queued[j]
      <3>1. CASE i < k
        <4>1. i \in DOMAIN queued /\ queued'[i] = queued[i]
          BY <2>2, <2>3, <2>4, <3>1
        <4> QED BY <4>1
      <3>2. CASE ~(i < k)
        <4>1. i + 1 \in DOMAIN queued /\ queued'[i] = queued[i + 1]
          BY <2>2, <2>3, <2>4, <3>2
        <4> QED BY <4>1
      <3> QED BY <3>1, <3>2
    <2>7. OnePlace'
      BY <2>5, <2>6 DEF OnePlace
    <2> QED BY <2>2, <2>3, <2>7
  <1> QED BY <1>1, <1>2

\* A new notification is in no place yet.
LEMMA AskedKeeps ==
  ASSUME TypeOK, ProtocolInv, NEW u \in Uids, ~Known(u), Ask(u)
  PROVE  /\ data' \in Seq(Fragments) /\ response' = <<>> /\ pending' \in Uids
         /\ ProtocolInv'
  <1>1. /\ pending = None /\ pending' = u /\ response' = <<>> /\ Answer(u, data)
        /\ UNCHANGED <<queued, completed, handed, forgotten>>
    BY DEF Ask
  <1>2. data = <<>>
    BY <1>1 DEF ProtocolInv, OneAnswer
  <1>3. data' \in Seq(Fragments) /\ OneAnswer'
    BY <1>1, <1>2, AskedIsWhole
  <1>4. OnePlace'
    BY <1>1 DEF ProtocolInv, OnePlace, Known, ToSet
  <1> QED BY <1>1, <1>3, <1>4 DEF ProtocolInv, Remembered, NoReplayInSession

LEMMA EnqueuedKeeps ==
  ASSUME TypeOK, ProtocolInv, NEW u \in Uids, ~Known(u), Enqueue(u)
  PROVE  queued' \in Seq(Uids) /\ Len(queued') <= QueueLimit /\ ProtocolInv'
  <1>1. UNCHANGED <<data, completed, pending, response, handed, forgotten>>
    BY DEF Enqueue
  <1>2. CASE UNCHANGED queued
    BY <1>1, <1>2, ProtocolKept DEF protocolVars, TypeOK
  <1>3. CASE queued' # queued
    <2>1. queued' = Append(queued, u) /\ Len(queued) < QueueLimit
      BY <1>3 DEF Enqueue
    <2>2. queued \in Seq(Uids) /\ Len(queued) \in Nat /\ QueueLimit \in Nat
      BY AncsTransportAssumption DEF TypeOK
    <2>3. /\ queued' \in Seq(Uids) /\ Len(queued') = Len(queued) + 1
          /\ queued'[Len(queued) + 1] = u
          /\ \A i \in 1..Len(queued) : queued'[i] = queued[i]
      BY <2>1, <2>2, AppendProperties
    <2>4. \A i \in DOMAIN queued : queued[i] # u
      BY DEF Known, ToSet
    <2>5. DOMAIN queued = 1..Len(queued) /\ DOMAIN queued' = 1..(Len(queued) + 1)
      BY <2>2, <2>3
    <2>6. \A i \in DOMAIN queued' :
            \/ i \in DOMAIN queued /\ queued'[i] = queued[i] /\ queued'[i] # u
            \/ i = Len(queued) + 1 /\ queued'[i] = u
      BY <2>2, <2>3, <2>4, <2>5
    <2>7. u # pending /\ \A i \in DOMAIN completed : completed[i] # u
      BY DEF Known, ToSet
    <2>8. OnePlace'
      BY <1>1, <2>6, <2>7 DEF ProtocolInv, OnePlace
    <2> QED BY <1>1, <2>1, <2>2, <2>3, <2>8
            DEF ProtocolInv, OneAnswer, Remembered, NoReplayInSession
  <1> QED BY <1>2, <1>3

LEMMA NotificationKeeps ==
  ASSUME TInv, NotificationSource
  PROVE  TInv'
  <1> USE DEF TInv
  <1> DEFINE event == Head(source)
             u == event.uid
  <1>1. /\ link = "ready" /\ source # <<>> /\ source' = Tail(source)
        /\ UNCHANGED <<standing, link, failures, output>>
    BY DEF NotificationSource
  <1>2. source \in Seq(Events)
    BY DEF TypeOK, Events
  <1>3. source' \in Seq(Events) /\ event \in Events
    BY <1>1, <1>2, HeadTail
  <1>4. u \in Uids
    BY <1>3 DEF Events
  <1>5. \/ /\ Dequeue(u)
           /\ UNCHANGED <<data, completed, pending, response, handed, forgotten>>
        \/ UNCHANGED <<data, protocolVars>>
        \/ ~Known(u) /\ Ask(u)
        \/ ~Known(u) /\ Enqueue(u)
    BY DEF NotificationSource
  <1> HIDE DEF u
  <1>6. CASE Dequeue(u) /\ UNCHANGED <<data, completed, pending, response, handed, forgotten>>
    <2>1. queued' \in Seq(Uids) /\ Len(queued') <= QueueLimit /\ OnePlace'
      BY <1>4, <1>6, DequeuedKeeps DEF ProtocolInv
    <2>2. TypeOK'
      BY <1>1, <1>3, <1>6, <2>1 DEF TypeOK, Events
    <2>3. ProtocolInv'
      BY <1>6, <2>1 DEF ProtocolInv, OneAnswer, Remembered, NoReplayInSession
    <2> QED BY <1>1, <2>2, <2>3 DEF MetadataIsOwn
  <1>7. CASE UNCHANGED <<data, protocolVars>>
    <2>1. TypeOK'
      BY <1>1, <1>3, <1>7 DEF TypeOK, Events, protocolVars
    <2> QED BY <1>1, <1>7, <2>1, ProtocolKept DEF MetadataIsOwn
  <1>8. CASE ~Known(u) /\ Ask(u)
    <2>1. /\ data' \in Seq(Fragments) /\ response' = <<>> /\ pending' \in Uids
          /\ ProtocolInv'
      BY <1>4, <1>8, AskedKeeps
    <2>2. UNCHANGED <<queued, completed, handed, forgotten>>
      BY <1>8 DEF Ask
    <2>3. TypeOK'
      BY <1>1, <1>3, <2>1, <2>2 DEF TypeOK, Events, Fragments
    <2> QED BY <1>1, <2>1, <2>3 DEF MetadataIsOwn
  <1>9. CASE ~Known(u) /\ Enqueue(u)
    <2>1. queued' \in Seq(Uids) /\ Len(queued') <= QueueLimit /\ ProtocolInv'
      BY <1>4, <1>9, EnqueuedKeeps
    <2>2. UNCHANGED <<data, completed, pending, response, handed, forgotten>>
      BY <1>9 DEF Enqueue
    <2>3. TypeOK'
      BY <1>1, <1>3, <2>1, <2>2 DEF TypeOK, Events
    <2> QED BY <1>1, <2>1, <2>3 DEF MetadataIsOwn
  <1> QED BY <1>5, <1>6, <1>7, <1>8, <1>9

LEMMA AbandonKeeps ==
  ASSUME TInv, Abandon
  PROVE  TInv'
  <1> USE DEF TInv
  <1>1. /\ link = "ready" /\ StartNext(Tail(data))
        /\ UNCHANGED <<standing, source, link, failures, completed, handed, forgotten, output>>
    BY DEF Abandon
  <1>2. Tail(data) = <<>>
    BY AbandonedEnds DEF Abandon, ProtocolInv
  <1>3. StartNext(<<>>)
    BY <1>1, <1>2
  <1>4. OnePlace'
    BY <1>1, <1>3, StartedKeepsPlaces DEF ProtocolInv, TypeOK
  <1>5. TypeOK'
    <2>1. /\ data' \in Seq(Fragments) /\ response' = <<>>
          /\ pending' \in Uids \cup {None}
          /\ queued' \in Seq(Uids) /\ Len(queued') <= QueueLimit
      BY <1>3, StartedIsWhole
    <2> QED BY <1>1, <2>1 DEF TypeOK, Fragments
  <1>6. ProtocolInv'
    BY <1>1, <1>3, <1>4, StartedIsWhole DEF ProtocolInv, Remembered, NoReplayInSession
  <1> QED BY <1>1, <1>5, <1>6 DEF MetadataIsOwn

LEMMA CollectKeeps ==
  ASSUME TInv, Collect
  PROVE  TInv'
  <1> USE DEF TInv
  <1>1. /\ link = "ready"
        /\ UNCHANGED <<standing, source, link, failures, queued, completed, pending, handed,
                       forgotten, output>>
    BY DEF Collect
  <1>2. OneAnswer' /\ data' \in Seq(Fragments) /\ response' \in Seq(Fragments)
    BY CollectedGoesOn DEF ProtocolInv
  <1>3. TypeOK'
    BY <1>1, <1>2 DEF TypeOK, Fragments
  <1>4. ProtocolInv'
    BY <1>1, <1>2 DEF ProtocolInv, OnePlace, Remembered, NoReplayInSession
  <1> QED BY <1>1, <1>3, <1>4 DEF MetadataIsOwn

LEMMA ResolveKeeps ==
  ASSUME TInv, Resolve
  PROVE  TInv'
  <1> USE DEF TInv
  <1> DEFINE message == Held[1].of \in MessageUids
  <1>1. /\ link = "ready" /\ data # <<>> /\ pending # None /\ Parses(Held)
        /\ UNCHANGED standing
    BY DEF Resolve, Held
  <1>2. Tail(data) = <<>> /\ Held[1].of = pending
    BY <1>1, AnswerEnds DEF ProtocolInv
  <1>3. CASE EndSession /\ UNCHANGED output
    BY <1>1, <1>3, EndedKeeps
  <1>4. CASE /\ ~message \/ Len(output) < ChannelCapacity
             /\ output' = IF message THEN Append(output, [uid |-> pending, of |-> Held[1].of])
                          ELSE output
             /\ CompletePending
             /\ StartNext(Tail(data))
             /\ UNCHANGED <<source, link, failures>>
    <2>1. StartNext(<<>>)
      BY <1>2, <1>4
    <2>2. /\ completed' \in Seq(Uids) /\ Len(completed') <= CompletedLimit
          /\ handed' \in [Uids -> 0..2] /\ forgotten' \subseteq Uids
          /\ \A i \in DOMAIN completed' :
               \/ completed'[i] = pending
               \/ \E j \in DOMAIN completed : completed'[i] = completed[j]
          /\ Remembered' /\ NoReplayInSession'
      BY <1>1, <1>4, CompletedIsRemembered DEF ProtocolInv
    <2>3. OnePlace'
      BY <2>1, <2>2, StartedKeepsPlaces DEF ProtocolInv
    <2>4. /\ data' \in Seq(Fragments) /\ response' = <<>>
          /\ pending' \in Uids \cup {None}
          /\ queued' \in Seq(Uids) /\ Len(queued') <= QueueLimit
          /\ OneAnswer'
      BY <2>1, StartedIsWhole
    <2>5. /\ output' \in Seq([uid : MessageUids, of : MessageUids])
          /\ Len(output') <= ChannelCapacity /\ MetadataIsOwn'
      <3> DEFINE M == [uid : MessageUids, of : MessageUids]
                 meta == [uid |-> pending, of |-> Held[1].of]
      <3>1. /\ output \in Seq(M) /\ Len(output) \in Nat /\ Len(output) <= ChannelCapacity
            /\ ChannelCapacity \in Nat
        BY AncsTransportAssumption DEF TypeOK
      <3>2. CASE ~message
        BY <1>4, <3>1, <3>2 DEF MetadataIsOwn
      <3>3. CASE message
        <4>1. meta \in M /\ meta.uid = meta.of
          BY <1>2, <3>3
        <4>2. output' = Append(output, meta) /\ Len(output) < ChannelCapacity
          BY <1>4, <3>3
        <4> HIDE DEF M, meta
        <4>3. /\ output' \in Seq(M) /\ Len(output') = Len(output) + 1
              /\ \A k \in 1..Len(output) : output'[k] = output[k]
              /\ output'[Len(output) + 1] = meta
          BY <3>1, <4>1, <4>2, AppendProperties
        <4>4. ASSUME NEW k \in DOMAIN output'
              PROVE  output'[k].uid = output'[k].of
          <5>1. k \in DOMAIN output \/ k = Len(output) + 1
            BY <3>1, <4>3
          <5>2. CASE k \in DOMAIN output
            BY <5>2, <3>1, <4>3 DEF MetadataIsOwn
          <5> QED BY <5>1, <5>2, <4>1, <4>3
        <4> QED BY <3>1, <4>2, <4>3, <4>4 DEF MetadataIsOwn, M
      <3> QED BY <3>2, <3>3
    <2>6. TypeOK'
      BY <1>1, <1>4, <2>2, <2>4, <2>5 DEF TypeOK, Fragments
    <2> QED BY <1>1, <2>2, <2>3, <2>4, <2>5, <2>6 DEF ProtocolInv
  <1> QED BY <1>3, <1>4 DEF Resolve, Held

LEMMA ReceiveKeeps ==
  ASSUME TInv, Receive
  PROVE  TInv'
  <1> USE DEF TInv
  <1> DEFINE M == [uid : MessageUids, of : MessageUids]
  <1>1. /\ output # <<>> /\ output' = Tail(output)
        /\ UNCHANGED <<standing, source, data, link, failures, protocolVars>>
    BY DEF Receive, streamVars
  <1>2. /\ output \in Seq(M) /\ Len(output) \in Nat /\ Len(output) <= ChannelCapacity
        /\ ChannelCapacity \in Nat
    BY AncsTransportAssumption DEF TypeOK
  <1> HIDE DEF M
  <1>3. /\ output' \in Seq(M) /\ Len(output') = Len(output) - 1
        /\ \A k \in 1..(Len(output) - 1) : output'[k] = output[k + 1]
    BY <1>1, <1>2, HeadTail
  <1>4. Len(output') <= ChannelCapacity
    BY <1>2, <1>3
  <1>5. \A k \in DOMAIN output' : k + 1 \in DOMAIN output /\ output'[k] = output[k + 1]
    BY <1>2, <1>3
  <1>6. MetadataIsOwn'
    BY <1>5 DEF MetadataIsOwn
  <1>7. TypeOK'
    BY <1>1, <1>3, <1>4 DEF TypeOK, protocolVars, M
  <1> QED BY <1>1, <1>6, <1>7, ProtocolKept

LEMMA NextSound == TInv /\ [Next]_vars => TInv'
  <1> SUFFICES ASSUME TInv, [Next]_vars PROVE TInv'
    OBVIOUS
  <1>1. CASE UNCHANGED vars
    BY <1>1 DEF vars, streamVars, protocolVars, TInv, TypeOK, ProtocolInv, OneAnswer, OnePlace,
                Remembered, NoReplayInSession, MetadataIsOwn
  <1>2. CASE ReadyStep
    BY <1>2, NotificationKeeps, AbandonKeeps, CollectKeeps, ResolveKeeps DEF ReadyStep
  <1> QED BY <1>1, <1>2, PhoneKeeps, SessionKeeps, ReceiveKeeps DEF Next

\* Every behaviour keeps the inductive invariant.
THEOREM Inductive == Spec => []TInv
  BY InitSound, NextSound, PTL DEF Spec

-----------------------------------------------------------------------------
\* notification_source, data_source and the session keep the protocol well-typed and
\* every queue within its limit, and ask for nothing outside of a ready session.
THEOREM TypeCorrect == Spec => []TypeOK
  BY Inductive, PTL DEF TInv

\* data_source labels the metadata with the pending uid: it is the uid whose
\* attributes the answer holds, as long as an answer exceeds what is held by one
\* fragment at most.
THEOREM AttributesAreOwn == Spec => []MetadataIsOwn
  BY Inductive, PTL DEF TInv

\* notification_source suppresses a uid that is queued, pending or completed: within
\* a session a notification is handed over again only after it left the completed list.
THEOREM NoRepeats == Spec => []NoReplayInSession
  BY Inductive, PTL DEF TInv, ProtocolInv
=============================================================================
