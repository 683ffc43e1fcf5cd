--------------------------- MODULE CallAudioProofs ---------------------------
(***************************************************************************)
(* Proofs about a call's audio: the buffers its frames pass (JitterBuffer, *)
(* for every capacity, target depth, range of sequences and number of      *)
(* frames), and what is reported about it (RuntimeStatus, for any number   *)
(* of calls and of overlapping refreshes, and any grace period).           *)
(***************************************************************************)
EXTENDS JitterBuffer, RuntimeStatus, FiniteSetTheorems, WellFoundedInduction, TLAPS

-----------------------------------------------------------------------------
(* The inductive invariant.                                                *)

Types ==
  /\ side \in {"daemon", "client"}
  /\ frames \in SUBSET Sequence
  /\ next \in Null..(MaxSequence + 1) /\ started \in BOOLEAN
  /\ count \in [Counters -> Nat]
  /\ pending \in Seq(Sequence) /\ held \in Sequence \cup {Null}
  /\ sinceTrim \in 0..TrimInterval /\ running \in BOOLEAN
  /\ highest \in Sequence \cup {Null} /\ last \in Sequence \cup {Null}
  /\ disorder \in BOOLEAN /\ crowdedOut \in SUBSET Sequence

\* The buffer keeps to its capacity, and the frames of a batch to the bound.
Bounded ==
  /\ Cardinality(frames) <= Capacity
  /\ count["received"] + Len(pending) <= MaxReceived

\* Nothing is expected, and nothing has come out, before playout starts; then
\* what has come out is behind what is expected, and the rest is not.
Ordered ==
  /\ ~started => next = Null /\ last = Null /\ crowdedOut = {}
  /\ next # Null => last < next /\ \A f \in frames : next <= f
  /\ ~disorder

\* What is in the buffer was received; the client expects at most the next one
\* after it, and nothing that gave way.
Tracking ==
  /\ \A f \in frames : f <= highest
  /\ side = "client" => next <= highest + 1
  /\ next # Null => \A c \in crowdedOut : c < next

IInv == Types /\ Bounded /\ Ordered /\ Conserved /\ Tracking

-----------------------------------------------------------------------------
(* Least and greatest elements.                                            *)

\* A nonempty set of sequences has a least element, which is its Min.
LEMMA MinIsLeast ==
  ASSUME NEW S \in SUBSET Nat, S # {}
  PROVE  Min(S) \in S /\ \A y \in S : Min(S) <= y
<1> DEFINE R == {p \in Nat \X Nat : p[1] < p[2]}
<1>1. IsWellFoundedOn(R, Nat)
  BY NatLessThanWellFounded DEF OpToRel
<1>2. PICK x \in S : \A y \in S : ~(<<y, x>> \in R)
  BY <1>1, WFMin
<1>3. \A y \in S : y < x => <<y, x>> \in R
  OBVIOUS
<1>4. \A y \in S : x <= y
  <2> TAKE y \in S
  <2>1. ~(y < x)
    BY <1>2, <1>3
  <2>2. x \in Nat /\ y \in Nat
    OBVIOUS
  <2> QED
    BY <2>1, <2>2
<1> QED
  BY <1>4 DEF Min

\* A nonempty set of sequences below a bound has a greatest, which is its Max.
LEMMA MaxIsGreatest ==
  ASSUME NEW n \in Nat, NEW S \in SUBSET (0..n), S # {}
  PROVE  Max(S) \in S /\ \A y \in S : y <= Max(S)
<1> DEFINE T == {n - x : x \in S}
<1>1. T \in SUBSET Nat /\ T # {}
  <2>1. \A x \in S : x \in 0..n /\ n - x \in Nat
    OBVIOUS
  <2> QED
    BY <2>1
<1>2. Min(T) \in T /\ \A y \in T : Min(T) <= y
  BY <1>1, MinIsLeast
<1>3. PICK x \in S : Min(T) = n - x
  BY <1>2
<1>4. \A y \in S : x >= y
  <2> TAKE y \in S
  <2>1. n - x <= n - y
    BY <1>2, <1>3
  <2> QED
    BY <2>1
<1> QED
  BY <1>4 DEF Max

LEMMA PairMax ==
  ASSUME NEW a \in Int, NEW b \in Int
  PROVE  Max({a, b}) = IF a >= b THEN a ELSE b
BY DEF Max

LEMMA PairMin ==
  ASSUME NEW a \in Int, NEW b \in Int
  PROVE  Min({a, b}) = IF a <= b THEN a ELSE b
BY DEF Min

\* Sets of sequences are finite.
LEMMA SequencesFinite ==
  ASSUME NEW S \in SUBSET Sequence
  PROVE  IsFiniteSet(S) /\ Cardinality(S) \in Nat
<1>1. IsFiniteSet(Sequence)
  BY JitterAssumption, FS_Interval DEF Sequence
<1>2. IsFiniteSet(S)
  BY <1>1, FS_Subset
<1> QED
  BY <1>2, FS_CardinalityType

\* One frame goes and another one comes.
LEMMA Exchange ==
  ASSUME NEW S \in SUBSET Sequence, NEW x \in S, NEW y \in Sequence \ S
  PROVE  Cardinality((S \ {x}) \cup {y}) = Cardinality(S)
<1>1. IsFiniteSet(S) /\ Cardinality(S) \in Nat
  BY SequencesFinite
<1>2. IsFiniteSet(S \ {x}) /\ Cardinality(S \ {x}) = Cardinality(S) - 1
  BY <1>1, FS_RemoveElement
<1>3. Cardinality((S \ {x}) \cup {y}) = Cardinality(S \ {x}) + 1
  BY <1>2, FS_AddElement
<1> QED
  BY <1>1, <1>2, <1>3

\* A frame comes, or goes.
LEMMA Growth ==
  ASSUME NEW S \in SUBSET Sequence, NEW y \in Sequence \ S
  PROVE  Cardinality(S \cup {y}) = Cardinality(S) + 1
BY SequencesFinite, FS_AddElement

LEMMA Shrinkage ==
  ASSUME NEW S \in SUBSET Sequence, NEW x \in S
  PROVE  Cardinality(S \ {x}) = Cardinality(S) - 1
BY SequencesFinite, FS_RemoveElement

\* A buffer that is full is not empty.
LEMMA FullIsNonempty ==
  ASSUME Types, NEW d \in Nat \ {0}, Cardinality(frames) >= d
  PROVE  frames # {}
BY SequencesFinite, FS_EmptySet DEF Types

\* What the two ways of counting do.
LEMMA CountedFacts ==
  ASSUME count \in [Counters -> Nat], NEW c \in {"duplicate", "late", "overflow"}
  PROVE  /\ Counted(c) \in [Counters -> Nat]
         /\ Counted(c)["received"] = count["received"] + 1
         /\ Counted(c)["emitted"] = count["emitted"]
         /\ Counted(c)["late"] + Counted(c)["duplicate"] + Counted(c)["overflow"]
            = count["late"] + count["duplicate"] + count["overflow"] + 1
BY DEF Counted, Counters

LEMMA ReceivedFacts ==
  ASSUME count \in [Counters -> Nat], NEW c \in {"received", "emitted"}, NEW d \in Counters \ {c}
  PROVE  /\ [count EXCEPT ![c] = @ + 1] \in [Counters -> Nat]
         /\ [count EXCEPT ![c] = @ + 1][c] = count[c] + 1
         /\ [count EXCEPT ![c] = @ + 1][d] = count[d]
BY DEF Counters

-----------------------------------------------------------------------------
(* The invariant holds initially and every step preserves it.              *)

LEMMA InitHolds == Init => IInv
<1> SUFFICES ASSUME Init PROVE IInv
  OBVIOUS
<1>1. Cardinality({}) = 0 /\ Len(<<>>) = 0 /\ <<>> \in Seq(Sequence)
  BY FS_EmptySet
<1>2. count \in [Counters -> Nat] /\ \A c \in Counters : count[c] = 0
  BY DEF Init
<1>3. Types
  <2>1. /\ next \in Null..(MaxSequence + 1) /\ sinceTrim \in 0..TrimInterval
        /\ frames \in SUBSET Sequence /\ crowdedOut \in SUBSET Sequence
    BY JitterAssumption DEF Init, Null
  <2>2. pending \in Seq(Sequence)
    BY <1>1 DEF Init
  <2> QED
    BY <1>2, <2>1, <2>2 DEF Init, Types
<1>4. Bounded
  BY <1>1, <1>2, JitterAssumption DEF Init, Bounded, Counters
<1>5. Conserved
  BY <1>1, <1>2 DEF Init, Conserved, Counters
<1>6. Ordered /\ Tracking
  BY DEF Init, Ordered, Tracking, Null
<1> QED
  BY <1>3, <1>4, <1>5, <1>6 DEF IInv

\* Sequences, and what is not one, are integers.
LEMMA Integral ==
  /\ Null = -1 /\ MaxSequence \in Nat
  /\ \A x : x \in Sequence <=> x \in Nat /\ x <= MaxSequence
BY JitterAssumption DEF Null, Sequence

\* What is left of the invariant once frames, next, crowdedOut and the order of
\* what came out are dealt with.
LEMMA InsertBounded ==
  ASSUME Types, Bounded, pending # <<>>, pending' = Tail(pending),
         count'["received"] = count["received"] + 1, Cardinality(frames') <= Capacity
  PROVE  Bounded'
<1>1. /\ Len(pending) \in Nat /\ Len(pending') = Len(pending) - 1
      /\ count["received"] \in Nat /\ MaxReceived \in Nat
  BY JitterAssumption DEF Types, Counters
<1> QED
  BY <1>1 DEF Bounded

\* Every way of inserting a frame, with the batch it comes from and the history
\* of what was received.
LEMMA InsertHolds == ASSUME IInv, Insert PROVE IInv'
<1> DEFINE s == Head(pending)
<1>1. Types /\ Bounded /\ Ordered /\ Conserved /\ Tracking
  BY DEF IInv
<1>2. /\ pending # <<>> /\ pending' = Tail(pending) /\ highest' = Max({highest, s})
      /\ UNCHANGED <<side, started, held, sinceTrim, running, last, disorder>>
      /\ Drop(s) \/ Keep(s) \/ Displace(s) \/ TurnAway(s) \/ CrowdOut(s)
  BY DEF Insert, pumpVars
<1>3. s \in Sequence /\ pending' \in Seq(Sequence)
  BY <1>1, <1>2 DEF Types
<1> HIDE DEF s
<1>4. /\ s \in Nat /\ s <= MaxSequence /\ highest \in Int /\ next \in Int /\ last \in Int
      /\ \A f \in Sequence : f \in Nat /\ f <= MaxSequence
  BY <1>1, <1>3, Integral DEF Types
<1>5. highest' \in Sequence /\ highest' \in Nat /\ highest' >= highest /\ highest' >= s
  <2>1. highest' = IF highest >= s THEN highest ELSE s
    BY <1>2, <1>4, PairMax
  <2>2. highest \in Sequence \/ highest = -1
    BY <1>1, Integral DEF Types
  <2>3. highest' \in Sequence
    BY <1>3, <1>4, <2>1, <2>2
  <2>4. highest' >= highest /\ highest' >= s
    BY <1>4, <2>1
  <2> QED
    BY <1>4, <2>3, <2>4
<1>6. /\ frames \in SUBSET Sequence /\ Cardinality(frames) \in Nat /\ Cardinality(frames) <= Capacity
      /\ Capacity \in Nat \ {0}
  BY <1>1, SequencesFinite, JitterAssumption DEF Types, Bounded
<1>7. \A c \in {"emitted", "duplicate", "late", "overflow", "received"} : count[c] \in Nat
  BY <1>1 DEF Types, Counters
<1>8. ASSUME count' \in [Counters -> Nat], frames' \in SUBSET Sequence,
             next' \in Null..(MaxSequence + 1), crowdedOut' \in SUBSET Sequence
      PROVE  Types'
  BY <1>1, <1>2, <1>3, <1>5, <1>8 DEF Types
<1>9. ASSUME frames' = frames, next' = next, crowdedOut' = crowdedOut
      PROVE  Ordered' /\ Tracking'
  <2>1. Ordered'
    BY <1>1, <1>2, <1>9 DEF Ordered
  <2>2. Tracking'
    BY <1>1, <1>2, <1>4, <1>5, <1>6, <1>9 DEF Tracking
  <2> QED
    BY <2>1, <2>2
<1>10. ASSUME ~Late(s), frames' \subseteq frames \cup {s}, next' = next, crowdedOut' = crowdedOut
       PROVE  Ordered' /\ Tracking'
  <2>1. Ordered'
    BY <1>1, <1>2, <1>4, <1>6, <1>10 DEF Ordered, Late
  <2>2. Tracking'
    BY <1>1, <1>2, <1>4, <1>5, <1>6, <1>10 DEF Tracking
  <2> QED
    BY <2>1, <2>2
<1>11. ASSUME NEW c \in {"duplicate", "late", "overflow"}, count' = Counted(c),
              Cardinality(frames') = Cardinality(frames)
       PROVE  /\ Conserved' /\ Bounded' /\ count' \in [Counters -> Nat]
  <2>1. /\ count' \in [Counters -> Nat]
        /\ count'["received"] = count["received"] + 1 /\ count'["emitted"] = count["emitted"]
        /\ count'["late"] + count'["duplicate"] + count'["overflow"]
           = count["late"] + count["duplicate"] + count["overflow"] + 1
    BY <1>1, <1>11, CountedFacts DEF Types
  <2>2. \A d \in {"emitted", "duplicate", "late", "overflow", "received"} : count'[d] \in Nat
    BY <2>1 DEF Counters
  <2>3. Conserved'
    <3>1. /\ count["emitted"] \in Nat /\ count["late"] \in Nat /\ count["duplicate"] \in Nat
          /\ count["overflow"] \in Nat /\ count'["late"] \in Nat /\ count'["duplicate"] \in Nat
          /\ count'["overflow"] \in Nat /\ Cardinality(frames) \in Nat
      BY <1>6, <1>7, <2>2
    <3>2. count["received"] = count["emitted"] + Cardinality(frames) + count["late"]
                              + count["duplicate"] + count["overflow"]
      BY <1>1 DEF Conserved
    <3>3. count'["received"] = count'["emitted"] + Cardinality(frames') + count'["late"]
                              + count'["duplicate"] + count'["overflow"]
      BY <1>11, <2>1, <3>1, <3>2
    <3> QED
      BY <3>3 DEF Conserved
  <2>4. Bounded'
    BY <1>1, <1>2, <1>6, <1>11, <2>1, InsertBounded
  <2> QED
    BY <2>1, <2>3, <2>4
<1>20. CASE Drop(s)
  <2>1. frames' = frames /\ next' = next /\ crowdedOut' = crowdedOut
    BY <1>20 DEF Drop
  <2>2. \E c \in {"duplicate", "late", "overflow"} : count' = Counted(c)
    BY <1>20 DEF Drop
  <2>3. Conserved' /\ Bounded' /\ count' \in [Counters -> Nat]
    BY <1>11, <2>1, <2>2
  <2>4. Types'
    BY <1>1, <1>8, <2>1, <2>3 DEF Types
  <2> QED
    BY <1>9, <2>1, <2>3, <2>4 DEF IInv
<1>21. CASE Keep(s)
  <2>1. /\ frames' = frames \cup {s} /\ next' = next /\ crowdedOut' = crowdedOut
        /\ ~Late(s) /\ s \notin frames /\ Cardinality(frames) < Capacity
    BY <1>6, <1>21 DEF Keep, Full
  <2>2. Cardinality(frames') = Cardinality(frames) + 1
    BY <1>3, <1>6, <2>1, Growth
  <2>3. /\ count' \in [Counters -> Nat] /\ count'["received"] = count["received"] + 1
        /\ \A d \in {"emitted", "duplicate", "late", "overflow"} : count'[d] = count[d]
    BY <1>1, <1>21, ReceivedFacts DEF Types, Keep, Counters
  <2>4. Types'
    BY <1>1, <1>3, <1>8, <2>1, <2>3 DEF Types
  <2>5. Conserved'
    BY <1>1, <1>6, <1>7, <2>2, <2>3 DEF Conserved
  <2>6. Bounded'
    BY <1>1, <1>2, <1>6, <2>1, <2>2, <2>3, InsertBounded
  <2> QED
    BY <1>10, <2>1, <2>4, <2>5, <2>6 DEF IInv
<1>22. CASE Displace(s)
  <2>1. frames # {}
    BY <1>1, <1>6, <1>22, FullIsNonempty DEF Displace, Full
  <2>2. Max(frames) \in frames
    BY <1>4, <1>6, <2>1, MaxIsGreatest, Integral DEF Sequence
  <2>3. /\ frames' = (frames \ {Max(frames)}) \cup {s} /\ next' = next /\ crowdedOut' = crowdedOut
        /\ count' = Counted("overflow") /\ ~Late(s) /\ s \notin frames
    BY <1>22 DEF Displace
  <2>4. Cardinality(frames') = Cardinality(frames) /\ frames' \subseteq frames \cup {s}
    BY <1>3, <1>6, <2>2, <2>3, Exchange
  <2>5. Conserved' /\ Bounded' /\ count' \in [Counters -> Nat]
    BY <1>11, <2>3, <2>4
  <2>6. Types'
    BY <1>1, <1>3, <1>8, <2>3, <2>4, <2>5 DEF Types
  <2> QED
    BY <1>10, <2>3, <2>4, <2>5, <2>6 DEF IInv
<1>23. CASE TurnAway(s)
  <2>1. frames' = frames /\ next' = next /\ crowdedOut' = crowdedOut /\ count' = Counted("overflow")
    BY <1>23 DEF TurnAway
  <2>2. Conserved' /\ Bounded' /\ count' \in [Counters -> Nat]
    BY <1>11, <2>1
  <2>3. Types'
    BY <1>1, <1>8, <2>1, <2>2 DEF Types
  <2> QED
    BY <1>9, <2>1, <2>2, <2>3 DEF IInv
<1>24. CASE CrowdOut(s)
  <2> DEFINE o == Min(frames)
             m == Min(frames')
  <2>1. frames # {}
    BY <1>1, <1>6, <1>24, FullIsNonempty DEF CrowdOut, Full
  <2>2. o \in frames /\ \A f \in frames : o <= f
    BY <1>4, <1>6, <2>1, MinIsLeast
  <2>3. Max(frames) \in frames /\ \A f \in frames : f <= Max(frames)
    BY <1>4, <1>6, <2>1, MaxIsGreatest, Integral DEF Sequence
  <2>4. /\ frames' = (frames \ {o}) \cup {s} /\ ~Late(s) /\ s > Max(frames)
        /\ next' = IF started /\ next # Null /\ next < m THEN m ELSE next
        /\ crowdedOut' = IF started THEN crowdedOut \cup {o} ELSE crowdedOut
        /\ count' = Counted("overflow")
    BY <1>24 DEF CrowdOut
  <2>5. s \notin frames /\ frames' \in SUBSET Sequence /\ \A f \in frames' : o < f
    <3>1. Max(frames) \in Nat /\ o \in Nat
      BY <1>4, <1>6, <2>2, <2>3
    <3>2. s \notin frames
      <4> SUFFICES ASSUME s \in frames PROVE FALSE
        OBVIOUS
      <4>1. s <= Max(frames)
        BY <2>3
      <4> QED
        BY <1>4, <2>4, <3>1, <4>1
    <3>3. frames' \in SUBSET Sequence
      BY <1>3, <1>6, <2>4
    <3>4. ASSUME NEW f \in frames' PROVE o < f
      <4>1. CASE f = s
        <5>1. o <= Max(frames)
          BY <2>2, <2>3
        <5> QED
          BY <1>4, <2>4, <3>1, <4>1, <5>1
      <4>2. CASE f \in frames /\ f # o
        <5>1. o <= f /\ f \in Nat
          BY <1>4, <1>6, <2>2, <4>2
        <5> QED
          BY <3>1, <4>2, <5>1
      <4> QED
        BY <2>4, <4>1, <4>2
    <3> QED
      BY <3>2, <3>3, <3>4
  <2>6. m \in frames' /\ \A f \in frames' : m <= f
    BY <1>4, <2>4, <2>5, MinIsLeast
  <2>7. Cardinality(frames') = Cardinality(frames)
    BY <1>3, <1>6, <2>2, <2>4, <2>5, Exchange
  <2> HIDE DEF o, m
  <2>8. o \in Sequence /\ m \in Sequence /\ o \in Nat /\ m \in Nat /\ o < m /\ m <= s
    BY <1>4, <1>6, <2>2, <2>4, <2>5, <2>6
  <2>9. next' \in Null..(MaxSequence + 1) /\ next' \in Int /\ next <= next'
    BY <1>1, <1>4, <2>4, <2>8, Integral DEF Types
  <2>10. Conserved' /\ Bounded' /\ count' \in [Counters -> Nat]
    BY <1>11, <2>4, <2>7
  <2>11. Types'
    BY <1>1, <1>8, <2>4, <2>5, <2>8, <2>9, <2>10 DEF Types
  <2>12. next' # Null => next # Null
    BY <2>4
  <2>13. next' # Null => last' < next'
    BY <1>1, <1>2, <1>4, <2>9, <2>12 DEF Ordered
  <2>14. next' # Null => \A f \in frames' : next' <= f
    <3> SUFFICES ASSUME next' # Null, NEW f \in frames' PROVE next' <= f
      OBVIOUS
    <3>1. CASE next' = m
      BY <2>6, <3>1
    <3>2. CASE next' = next
      <4>1. CASE f \in frames
        BY <1>1, <2>12, <3>2, <4>1 DEF Ordered
      <4>2. CASE f = s
        <5>1. ~(s < next)
          BY <2>4, <2>12 DEF Late
        <5> QED
          BY <1>4, <3>2, <4>2, <5>1
      <4> QED
        BY <2>4, <4>1, <4>2
    <3> QED
      BY <2>4, <3>1, <3>2
  <2>15. Ordered'
    BY <1>1, <1>2, <2>4, <2>13, <2>14 DEF Ordered
  <2>16. next' # Null => \A c \in crowdedOut' : c < next'
    <3> SUFFICES ASSUME next' # Null, NEW c \in crowdedOut' PROVE c < next'
      OBVIOUS
    <3>1. CASE c \in crowdedOut
      <4>1. c < next /\ c \in Nat
        BY <1>1, <1>4, <2>12, <3>1 DEF Tracking, Types
      <4> QED
        BY <1>4, <2>9, <4>1
    <3>2. CASE started /\ c = o
      BY <1>4, <2>4, <2>8, <2>12, <3>2
    <3> QED
      BY <2>4, <3>1, <3>2
  <2>17. \A f \in frames' : f <= highest'
    BY <1>1, <1>4, <1>5, <1>6, <2>4 DEF Tracking
  <2>18. side' = "client" => next' <= highest' + 1
    BY <1>1, <1>2, <1>4, <1>5, <2>4, <2>8 DEF Tracking
  <2>19. Tracking'
    BY <2>16, <2>17, <2>18 DEF Tracking
  <2> QED
    BY <2>10, <2>11, <2>15, <2>19 DEF IInv
<1> QED
  BY <1>2, <1>20, <1>21, <1>22, <1>23, <1>24

\* A batch arrives, or an unfit packet ends the session.
LEMMA ReceiveHolds ==
  ASSUME IInv, NEW s \in Sequence, NEW n \in 1..MaxBatch, Receive(s, n)
  PROVE  IInv'
<1>1. Types /\ Bounded /\ Ordered /\ Conserved /\ Tracking
  BY DEF IInv
<1>2. /\ UNCHANGED <<side, frames, next, started, count, held, sinceTrim, running,
                     highest, last, disorder, crowdedOut>>
      /\ pending' = [i \in 1..n |-> s + i - 1]
      /\ s + n - 1 <= MaxSequence /\ count["received"] + n <= MaxReceived
  BY DEF Receive, bufferVars, pumpVars
<1>3. n \in Nat /\ s \in Nat /\ MaxSequence \in Nat
  BY Integral, JitterAssumption
<1>4. \A i \in 1..n : s + i - 1 \in Sequence
  <2> TAKE i \in 1..n
  <2>1. s + i - 1 \in Nat /\ s + i - 1 <= MaxSequence
    BY <1>2, <1>3
  <2> QED
    BY <2>1, Integral
<1>5. pending' \in Seq(Sequence) /\ Len(pending') = n
  BY <1>2, <1>3, <1>4
<1>6. Types'
  BY <1>1, <1>2, <1>5 DEF Types
<1>7. Bounded'
  BY <1>1, <1>2, <1>5 DEF Bounded
<1>8. Ordered' /\ Conserved' /\ Tracking'
  BY <1>1, <1>2 DEF Ordered, Conserved, Tracking
<1> QED
  BY <1>6, <1>7, <1>8 DEF IInv

\* Steps that leave the buffer and the batch alone.
LEMMA QuietHolds ==
  ASSUME IInv, UNCHANGED <<side, frames, next, started, count, pending, highest, last,
                           disorder, crowdedOut>>,
         held' \in Sequence \cup {Null}, sinceTrim' \in 0..TrimInterval, running' \in BOOLEAN
  PROVE  IInv'
BY DEF IInv, Types, Bounded, Ordered, Conserved, Tracking

\* sinceTrim stays in its range.
LEMMA SinceTrim ==
  ASSUME Types, sinceTrim' = Min({sinceTrim + 1, TrimInterval}) \/ sinceTrim' = 0
  PROVE  sinceTrim' \in 0..TrimInterval
<1>1. sinceTrim \in 0..TrimInterval /\ TrimInterval \in Nat /\ sinceTrim + 1 \in Int
  BY JitterAssumption DEF Types
<1>2. Min({sinceTrim + 1, TrimInterval}) \in 0..TrimInterval
  BY <1>1, PairMin
<1> QED
  BY <1>1, <1>2

\* The sequence after s is not before it, and is not Null unless the client is
\* at its last.
LEMMA AfterFacts ==
  ASSUME Types, NEW s \in 0..(MaxSequence + 1)
  PROVE  /\ After(s) \in Null..(MaxSequence + 1)
         /\ After(s) # Null => (After(s) = s + 1 \/ After(s) = MaxSequence + 1) /\ s <= After(s)
         /\ After(s) # Null /\ s \in Sequence => After(s) = s + 1
BY Integral DEF After, Types

\* A frame that is expected comes out.
LEMMA EmitHolds ==
  ASSUME IInv, NEW s \in Sequence, s = next \/ (~started /\ s = Min(frames)), Emit(s),
         started' = TRUE, UNCHANGED <<side, pending, running, highest, crowdedOut>>,
         held' \in Sequence \cup {Null}, sinceTrim' \in 0..TrimInterval
  PROVE  IInv'
<1>1. Types /\ Bounded /\ Ordered /\ Conserved /\ Tracking
  BY DEF IInv
<1>2. /\ s \in frames /\ frames' = frames \ {s} /\ next' = After(s)
      /\ count' = [count EXCEPT !["emitted"] = @ + 1]
      /\ last' = s /\ disorder' = (disorder \/ s <= last)
  BY DEF Emit
<1>3. /\ s \in Nat /\ s <= MaxSequence /\ next \in Int /\ last \in Int /\ highest \in Int
      /\ MaxSequence \in Nat /\ Null = -1
      /\ \A f \in Sequence : f \in Nat /\ f <= MaxSequence
  BY <1>1, Integral DEF Types
<1>4. frames \in SUBSET Sequence /\ Cardinality(frames) \in Nat /\ Capacity \in Nat
  BY <1>1, SequencesFinite, JitterAssumption DEF Types
<1>5. Cardinality(frames') = Cardinality(frames) - 1
  BY <1>2, <1>4, Shrinkage
<1>6. \A f \in frames : s <= f
  <2>1. CASE s = next
    BY <1>1, <1>3, <2>1 DEF Ordered
  <2>2. CASE s = Min(frames)
    BY <1>2, <1>3, <1>4, <2>2, MinIsLeast
  <2> QED
    BY <2>1, <2>2
<1>7. last < s
  <2>1. CASE s = next
    BY <1>1, <1>3, <2>1 DEF Ordered
  <2>2. CASE ~started
    BY <1>1, <1>3, <2>2 DEF Ordered
  <2> QED
    BY <2>1, <2>2
<1>8. /\ next' \in Null..(MaxSequence + 1) /\ next' \in Int
      /\ next' # Null => next' = s + 1
  BY <1>1, <1>2, <1>3, AfterFacts
<1>9. /\ count' \in [Counters -> Nat] /\ count'["emitted"] = count["emitted"] + 1
      /\ \A d \in {"received", "duplicate", "late", "overflow"} : count'[d] = count[d]
  BY <1>1, <1>2, ReceivedFacts DEF Types, Counters
<1>10. disorder' = FALSE
  <2>1. disorder = FALSE
    BY <1>1 DEF Ordered, Types
  <2>2. ~(s <= last)
    BY <1>3, <1>7
  <2> QED
    BY <1>2, <2>1, <2>2
<1>11. Types'
  <2>1. frames' \in SUBSET Sequence /\ last' \in Sequence \cup {Null} /\ disorder' \in BOOLEAN
    BY <1>2, <1>4, <1>10
  <2> QED
    BY <1>1, <1>8, <1>9, <2>1 DEF Types
<1>12. Bounded'
  <2>1. Cardinality(frames') <= Capacity
    BY <1>1, <1>4, <1>5 DEF Bounded
  <2> QED
    BY <1>1, <1>9, <2>1 DEF Bounded
<1>13. Conserved'
  <2>1. /\ count["emitted"] \in Nat /\ count["late"] \in Nat /\ count["duplicate"] \in Nat
        /\ count["overflow"] \in Nat
    BY <1>1 DEF Types, Counters
  <2>2. count["received"] = count["emitted"] + Cardinality(frames) + count["late"]
                            + count["duplicate"] + count["overflow"]
    BY <1>1 DEF Conserved
  <2>3. count'["received"] = count'["emitted"] + Cardinality(frames') + count'["late"]
                             + count'["duplicate"] + count'["overflow"]
    BY <1>4, <1>5, <1>9, <2>1, <2>2
  <2> QED
    BY <2>3 DEF Conserved
<1>14. \A f \in frames' : s + 1 <= f
  <2> TAKE f \in frames'
  <2>1. s <= f /\ s # f /\ f \in Nat
    BY <1>2, <1>3, <1>4, <1>6
  <2> QED
    BY <1>3, <2>1
<1>15. Ordered'
  <2>1. next' # Null => last' < next' /\ \A f \in frames' : next' <= f
    BY <1>2, <1>3, <1>8, <1>14
  <2> QED
    BY <1>10, <2>1 DEF Ordered
<1>16. Tracking'
  <2>1. \A f \in frames' : f <= highest'
    BY <1>1, <1>2 DEF Tracking
  <2>2. next' <= highest' + 1
    <3>1. s <= highest
      BY <1>1, <1>2 DEF Tracking
    <3>2. highest >= -1
      BY <1>1, <1>3 DEF Types
    <3> QED
      BY <1>3, <1>8, <3>1, <3>2
  <2>3. ASSUME next' # Null, NEW c \in crowdedOut' PROVE c < next'
    <3>1. c \in crowdedOut /\ c \in Nat
      BY <1>1, <1>3, <2>3 DEF Types
    <3>2. s = next
      BY <1>1, <3>1 DEF Ordered
    <3>3. c < next
      BY <1>1, <1>3, <3>1, <3>2 DEF Tracking
    <3> QED
      BY <1>3, <1>8, <2>3, <3>1, <3>2, <3>3
  <2> QED
    BY <2>1, <2>2, <2>3 DEF Tracking
<1> QED
  BY <1>11, <1>12, <1>13, <1>15, <1>16 DEF IInv

\* A frame that is expected is missing: the playout goes on to the next one, or
\* waits.
LEMMA MissHolds ==
  ASSUME IInv, started, next # Null, Miss(next), started' = TRUE,
         UNCHANGED <<side, pending, running, highest, crowdedOut>>,
         held' \in Sequence \cup {Null}, sinceTrim' \in 0..TrimInterval
  PROVE  IInv'
<1>1. Types /\ Bounded /\ Ordered /\ Conserved /\ Tracking
  BY DEF IInv
<1>2. /\ next \notin frames /\ next' = IF Holds(next) THEN next ELSE After(next)
      /\ UNCHANGED <<frames, count, last, disorder>>
  BY DEF Miss
<1>3. /\ next \in 0..(MaxSequence + 1) /\ next \in Int /\ last \in Int /\ highest \in Int
      /\ MaxSequence \in Nat /\ Null = -1
      /\ \A f \in Sequence : f \in Nat /\ f <= MaxSequence
  BY <1>1, Integral DEF Types
<1>4. \A f \in frames : next + 1 <= f /\ f \in Nat /\ f <= highest /\ f <= MaxSequence
  <2> TAKE f \in frames
  <2>1. next <= f /\ next # f /\ f \in Nat /\ f <= highest /\ f <= MaxSequence
    BY <1>1, <1>2, <1>3 DEF Ordered, Tracking, Types
  <2> QED
    BY <1>3, <2>1
<1>5. /\ After(next) \in Null..(MaxSequence + 1)
      /\ After(next) # Null => next <= After(next)
      /\ After(next) # Null => After(next) = next + 1 \/ After(next) = MaxSequence + 1
  BY <1>1, <1>3, AfterFacts
<1>6. next' \in Null..(MaxSequence + 1) /\ next' \in Int /\ (next' # Null => next <= next')
  <2>1. next' = next \/ next' = After(next)
    BY <1>2
  <2>2. next \in Null..(MaxSequence + 1)
    BY <1>1 DEF Types
  <2>3. next' \in Null..(MaxSequence + 1)
    BY <1>5, <2>1, <2>2
  <2>4. next' # Null => next <= next'
    BY <1>3, <1>5, <2>1
  <2> QED
    BY <1>3, <2>3, <2>4
<1>7. next' # Null => \A f \in frames : next' <= f
  <2> SUFFICES ASSUME next' # Null, NEW f \in frames PROVE next' <= f
    OBVIOUS
  <2>1. next + 1 <= f /\ f \in Nat /\ f <= MaxSequence
    BY <1>4
  <2>2. next \in Sequence
    BY <1>3, <2>1, Integral
  <2>3. next' = next \/ next' = next + 1
    BY <1>1, <1>2, <2>2, <1>3, AfterFacts
  <2> QED
    BY <1>3, <2>1, <2>3
<1>8. Types'
  BY <1>1, <1>2, <1>6 DEF Types
<1>9. Bounded' /\ Conserved'
  BY <1>1, <1>2 DEF Bounded, Conserved
<1>10. Ordered'
  <2>1. next' # Null => last' < next'
    BY <1>1, <1>2, <1>3, <1>6 DEF Ordered
  <2> QED
    BY <1>1, <1>2, <1>7, <2>1 DEF Ordered
<1>11. Tracking'
  <2>1. ASSUME side = "client" PROVE next' <= highest' + 1
    <3>1. CASE Holds(next)
      BY <1>1, <1>2, <2>1, <3>1 DEF Tracking
    <3>2. CASE ~Holds(next)
      <4>1. PICK f \in frames : TRUE
        BY <2>1, <3>2 DEF Holds
      <4>2. next + 1 <= f /\ f <= highest /\ f \in Nat
        BY <1>4
      <4>3. next' # Null => next' <= f
        BY <1>7
      <4> QED
        BY <1>3, <1>6, <4>2, <4>3
    <3> QED
      BY <3>1, <3>2
  <2>2. ASSUME next' # Null, NEW c \in crowdedOut' PROVE c < next'
    <3>1. c < next /\ c \in Nat
      BY <1>1, <1>3, <2>2 DEF Tracking, Types
    <3> QED
      BY <1>3, <1>6, <2>2, <3>1
  <2> QED
    BY <1>1, <1>2, <2>1, <2>2 DEF Tracking
<1> QED
  BY <1>8, <1>9, <1>10, <1>11 DEF IInv

\* A tick, the first one included.
LEMMA TickHolds == ASSUME IInv, Tick PROVE IInv'
<1>1. Types /\ Ordered
  BY DEF IInv
<1>2. /\ Expected # Null /\ held = Null /\ started' = TRUE
      /\ UNCHANGED <<side, pending, sinceTrim, running, highest, crowdedOut>>
  BY DEF Tick
<1>3. sinceTrim' \in 0..TrimInterval
  BY <1>1, <1>2 DEF Types
<1>4. ASSUME ~started PROVE Expected = Min(frames) /\ Expected \in frames
  <2>1. Cardinality(frames) >= TargetDepth /\ Expected = Min(frames)
    BY <1>2, <1>4 DEF Expected
  <2>2. frames # {}
    BY <1>1, <2>1, FullIsNonempty, JitterAssumption
  <2>3. frames \in SUBSET Nat
    BY <1>1, Integral DEF Types
  <2> QED
    BY <2>1, <2>2, <2>3, MinIsLeast
<1>5. started => Expected = next
  BY DEF Expected
<1>6. CASE Emit(Expected) /\ held' = IF side = "client" THEN Expected ELSE Null
  <2>1. Expected \in Sequence
    BY <1>1, <1>6 DEF Emit, Types
  <2>2. Expected = next \/ (~started /\ Expected = Min(frames))
    BY <1>4, <1>5
  <2>3. held' \in Sequence \cup {Null}
    BY <1>6, <2>1
  <2> QED
    BY <1>2, <1>3, <1>6, <2>1, <2>2, <2>3, EmitHolds
<1>7. CASE Miss(Expected) /\ held' = held
  <2>1. started
    BY <1>4, <1>7 DEF Miss
  <2>2. held' \in Sequence \cup {Null}
    BY <1>2, <1>7
  <2> QED
    BY <1>2, <1>3, <1>5, <1>7, <2>1, <2>2, MissHolds
<1> QED
  <2>1. (Emit(Expected) /\ held' = IF side = "client" THEN Expected ELSE Null)
        \/ (Miss(Expected) /\ held' = held)
    BY DEF Tick
  <2> QED
    BY <1>6, <1>7, <2>1

\* The playout writes a frame, and may skip one to catch up.
LEMMA PlayoutHolds == ASSUME IInv, Write \/ Trim PROVE IInv'
<1>1. Types /\ Ordered
  BY DEF IInv
<1>2. CASE Write
  <2>1. /\ UNCHANGED <<side, frames, next, started, count, pending, running, highest, last,
                       disorder, crowdedOut>>
        /\ held' = Null /\ sinceTrim' = Min({sinceTrim + 1, TrimInterval})
    BY <1>2 DEF Write, bufferVars
  <2>2. sinceTrim' \in 0..TrimInterval /\ running' \in BOOLEAN
    BY <1>1, <2>1, SinceTrim DEF Types
  <2> QED
    BY <2>1, <2>2, QuietHolds
<1>3. CASE Trim
  <2>1. /\ next # Null /\ held' = Null /\ UNCHANGED <<side, started, pending, running, highest, crowdedOut>>
        /\ sinceTrim' = Min({sinceTrim + 1, TrimInterval}) \/ sinceTrim' = 0
        /\ Emit(next) \/ Miss(next)
    BY <1>3 DEF Trim
  <2>2. sinceTrim' \in 0..TrimInterval /\ held' \in Sequence \cup {Null}
    BY <1>1, <2>1, SinceTrim
  <2>3. started /\ started' = TRUE
    BY <1>1, <2>1 DEF Ordered, Types
  <2>4. CASE Emit(next)
    <3>1. next \in Sequence
      BY <1>1, <2>4 DEF Emit, Types
    <3> QED
      BY <2>1, <2>2, <2>3, <2>4, <3>1, EmitHolds
  <2>5. CASE Miss(next)
    BY <2>1, <2>2, <2>3, <2>5, MissHolds
  <2> QED
    BY <2>1, <2>4, <2>5
<1> QED
  BY <1>2, <1>3

\* Every step preserves the invariant.
LEMMA NextHolds == ASSUME IInv, [Next]_vars PROVE IInv'
<1>1. CASE \E s \in Sequence, n \in 1..MaxBatch : Receive(s, n)
  BY <1>1, ReceiveHolds
<1>2. CASE ReceiveUnfit
  <2>1. Types
    BY DEF IInv
  <2>2. /\ UNCHANGED <<side, frames, next, started, count, pending, held, sinceTrim, highest,
                       last, disorder, crowdedOut>>
        /\ running' = FALSE
    BY <1>2 DEF ReceiveUnfit, bufferVars
  <2> QED
    BY <2>1, <2>2, QuietHolds DEF Types
<1>3. CASE UNCHANGED vars
  <2>1. Types
    BY DEF IInv
  <2>2. UNCHANGED <<side, frames, next, started, count, pending, held, sinceTrim, running, highest,
                    last, disorder, crowdedOut>>
    BY <1>3 DEF vars, bufferVars, pumpVars
  <2> QED
    BY <2>1, <2>2, QuietHolds DEF Types
<1> QED
  BY <1>1, <1>2, <1>3, InsertHolds, TickHolds, PlayoutHolds DEF Next

-----------------------------------------------------------------------------
(* The theorems.                                                           *)

LEMMA Inductive == Spec => []IInv
<1>1. IInv /\ [Next]_vars => IInv'
  BY NextHolds
<1> QED
  BY InitHolds, <1>1, PTL DEF Spec

\* What is summed is no more than the sum.
LEMMA Summands ==
  ASSUME NEW a \in Nat, NEW b \in Nat, NEW c \in Nat, NEW d \in Nat, NEW e \in Nat,
         NEW n \in Nat, a + b + c + d + e <= n
  PROVE  a <= n /\ c <= n /\ d <= n /\ e <= n
OBVIOUS

\* A jitter buffer of either side never holds more frames than its capacity,
\* and its counters stay within the frames received.
THEOREM TypeCorrect == Spec => []TypeOK
<1>1. IInv => TypeOK
  <2> SUFFICES ASSUME IInv PROVE TypeOK
    OBVIOUS
  <2>1. Types /\ Bounded /\ Conserved
    BY DEF IInv
  <2>2. /\ Cardinality(frames) \in Nat /\ Len(pending) \in Nat /\ MaxReceived \in Nat
        /\ \A c \in Counters : count[c] \in Nat
    BY <2>1, SequencesFinite, JitterAssumption DEF Types
  <2>3. count["received"] <= MaxReceived
    BY <2>1, <2>2 DEF Bounded, Counters
  <2>4. \A c \in Counters : count[c] \in 0..MaxReceived
    <3>1. /\ count["received"] \in Nat /\ count["emitted"] \in Nat /\ count["late"] \in Nat
          /\ count["duplicate"] \in Nat /\ count["overflow"] \in Nat
      BY <2>2 DEF Counters
    <3>2. count["received"] = count["emitted"] + Cardinality(frames) + count["late"]
                              + count["duplicate"] + count["overflow"]
      BY <2>1 DEF Conserved
    <3>3. /\ count["emitted"] <= MaxReceived /\ count["late"] <= MaxReceived
          /\ count["duplicate"] <= MaxReceived /\ count["overflow"] <= MaxReceived
      <4>1. count["emitted"] + Cardinality(frames) + count["late"]
            + count["duplicate"] + count["overflow"] <= MaxReceived
        BY <2>3, <3>2
      <4>2. Cardinality(frames) \in Nat /\ MaxReceived \in Nat
        BY <2>2
      <4> QED
        BY <3>1, <4>1, <4>2, Summands
    <3> SUFFICES ASSUME NEW c \in Counters PROVE count[c] \in 0..MaxReceived
      OBVIOUS
    <3>4. count[c] \in Nat /\ count[c] <= MaxReceived
      BY <2>2, <2>3, <3>3 DEF Counters
    <3> QED
      BY <2>2, <3>4
  <2>5. count \in [Counters -> 0..MaxReceived]
    BY <2>1, <2>4 DEF Types
  <2> QED
    BY <2>1, <2>5 DEF Types, Bounded, TypeOK
<1> QED
  BY Inductive, <1>1, PTL

\* Frames come out of either jitter buffer in the order of their sequences and
\* none twice, whatever arrives and however small the buffer.
THEOREM InOrder == Spec => []PlayedInOrder
<1>1. IInv => PlayedInOrder
  BY DEF IInv, Ordered, PlayedInOrder
<1> QED
  BY Inductive, <1>1, PTL

\* The summary of either jitter buffer accounts for every frame received.
THEOREM AllAccounted == Spec => []Conserved
<1>1. IInv => Conserved
  BY DEF IInv
<1> QED
  BY Inductive, <1>1, PTL

\* The client's playout never overtakes its sender and never waits for a frame
\* that gave way.
THEOREM TracksSender == Spec => []PlayoutTracksSender
<1>1. IInv => PlayoutTracksSender
  <2> SUFFICES ASSUME IInv, side = "client" PROVE next <= highest + 1 /\ (started => next \notin crowdedOut)
    BY DEF PlayoutTracksSender
  <2>1. Types /\ Tracking
    BY DEF IInv
  <2>2. next \in Int /\ \A c \in crowdedOut : c \in Nat
    BY <2>1, Integral DEF Types
  <2>3. next \notin crowdedOut
    <3>1. CASE next = Null
      BY <2>2, <3>1, Integral
    <3>2. CASE next # Null
      <4>1. next \in crowdedOut => next < next
        BY <2>1, <3>2 DEF Tracking
      <4> QED
        BY <2>2, <4>1
    <3> QED
      BY <3>1, <3>2
  <2> QED
    BY <2>1, <2>3 DEF Tracking
<1> QED
  BY Inductive, <1>1, PTL

-----------------------------------------------------------------------------
(* The runtime status.                                                     *)

\* The watchdog has not been waiting for longer than the status is in disagreement.
WatchdogInStep ==
  /\ quiet \in 0..GracePeriod
  /\ inconsistent_since = None \/ (inconsistent_since \in 0..GracePeriod /\ inconsistent_since <= quiet)

StatusInv == WatchdogInStep /\ ActiveAudioHasCall /\ StalledMeansPersistent

LEMMA StatusInitHolds == StatusInit => StatusInv
BY RuntimeStatusAssumption
   DEF StatusInit, StatusInv, WatchdogInStep, ActiveAudioHasCall, StalledMeansPersistent

\* A step of a request, or of the phone, that does not write the status.
LEMMA StatusQuietHolds ==
  ASSUME StatusInv, UNCHANGED <<call, audio, last_error, inconsistent_since, quiet>>
  PROVE  StatusInv'
BY DEF StatusInv, WatchdogInStep, ActiveAudioHasCall, StalledMeansPersistent

LEMMA ClockTickHolds == ASSUME StatusInv, ClockTick PROVE StatusInv'
<1>1. WatchdogInStep /\ ActiveAudioHasCall /\ StalledMeansPersistent /\ GracePeriod \in Nat
  BY RuntimeStatusAssumption DEF StatusInv
<1>2. /\ inconsistent_since' = IF inconsistent_since = None THEN None ELSE Older(inconsistent_since)
      /\ quiet' = Older(quiet) /\ UNCHANGED <<call, audio, last_error>>
  BY DEF ClockTick
<1>3. quiet' \in 0..GracePeriod /\ quiet <= quiet'
  BY <1>1, <1>2 DEF Older, WatchdogInStep
<1>4. WatchdogInStep'
  BY <1>1, <1>2, <1>3 DEF Older, WatchdogInStep
<1>5. StalledMeansPersistent'
  BY <1>1, <1>2, <1>3 DEF StalledMeansPersistent, WatchdogInStep
<1>6. ActiveAudioHasCall'
  BY <1>1, <1>2 DEF ActiveAudioHasCall
<1> QED
  BY <1>4, <1>5, <1>6 DEF StatusInv

\* Whatever snapshots are applied, and in whatever order.
LEMMA ObserveHolds ==
  ASSUME StatusInv, NEW c, NEW a, call' = c, Observe(c, a)
  PROVE  StatusInv'
<1>1. WatchdogInStep /\ GracePeriod \in Nat
  BY RuntimeStatusAssumption DEF StatusInv
<1>2. CASE Inconsistent(c, a)
  <2> DEFINE since == IF inconsistent_since = None THEN 0 ELSE inconsistent_since
  <2>1. /\ inconsistent_since' = since /\ quiet' = quiet
        /\ audio' = IF since >= GracePeriod THEN "error" ELSE "sco_tearing_down"
        /\ last_error' = IF since >= GracePeriod THEN "sco_teardown_stalled" ELSE "none"
    BY <1>2 DEF Observe
  <2>2. since \in 0..GracePeriod /\ since <= quiet /\ quiet \in 0..GracePeriod
    BY <1>1 DEF WatchdogInStep
  <2> HIDE DEF since
  <2>3. WatchdogInStep'
    BY <2>1, <2>2 DEF WatchdogInStep
  <2>4. ActiveAudioHasCall'
    BY <2>1 DEF ActiveAudioHasCall
  <2>5. StalledMeansPersistent'
    BY <1>1, <2>1, <2>2 DEF StalledMeansPersistent
  <2> QED
    BY <2>3, <2>4, <2>5 DEF StatusInv
<1>3. CASE ~Inconsistent(c, a)
  <2>1. inconsistent_since' = None /\ audio' = a /\ last_error' = "none" /\ quiet' = 0
    BY <1>3 DEF Observe
  <2>2. WatchdogInStep' /\ StalledMeansPersistent'
    BY <1>1, <2>1 DEF WatchdogInStep, StalledMeansPersistent
  <2>3. ActiveAudioHasCall'
    BY <1>3, <2>1 DEF ActiveAudioHasCall, Inconsistent
  <2> QED
    BY <2>2, <2>3 DEF StatusInv
<1> QED
  BY <1>2, <1>3

LEMMA StatusNextHolds == ASSUME StatusInv, [StatusNext]_runtimeVars PROVE StatusInv'
<1>1. CASE PhoneStep \/ UNCHANGED runtimeVars
  BY <1>1, StatusQuietHolds DEF PhoneStep, CallChanges, GatewayChanges, ScoChanges, runtimeVars, statusVars
<1>2. ASSUME NEW r \in Requests, Apply(r) PROVE StatusInv'
  BY <1>2, ObserveHolds DEF Apply
<1>3. ASSUME NEW r \in Requests, RequestStep(r), ~Apply(r) PROVE StatusInv'
  <2>1. UNCHANGED statusVars
    BY <1>3 DEF RequestStep, RefreshStep, ListCalls, ReadCall, ReadTransport, HelperFails, ReadNodes,
                DumpFails, Answer, Approve, Issue
  <2> QED
    BY <2>1, StatusQuietHolds DEF statusVars
<1> QED
  BY <1>1, <1>2, <1>3, ClockTickHolds DEF StatusNext

LEMMA StatusInductive == StatusSpec => []StatusInv
<1>1. StatusInv /\ [StatusNext]_runtimeVars => StatusInv'
  BY StatusNextHolds
<1> QED
  BY StatusInitHolds, <1>1, PTL DEF StatusSpec

\* However many refreshes overlap, and whatever torn snapshots they apply, SCO
\* audio is never reported active for a call that is idle or has ended.
THEOREM AudioHasCall == StatusSpec => []ActiveAudioHasCall
<1>1. StatusInv => ActiveAudioHasCall
  BY DEF StatusInv
<1> QED
  BY StatusInductive, <1>1, PTL

\* The watchdog reports a stalled teardown only after a whole grace period in
\* which no refresh found call and audio in agreement.
THEOREM StallIsPersistent == StatusSpec => []StalledMeansPersistent
<1>1. StatusInv => StalledMeansPersistent
  BY DEF StatusInv
<1> QED
  BY StatusInductive, <1>1, PTL
=============================================================================
