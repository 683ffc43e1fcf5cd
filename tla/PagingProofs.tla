---------------------------- MODULE PagingProofs ----------------------------
(***************************************************************************)
(* Proofs about ContactBook and about Conversations, and about the walks   *)
(* over both lists.                                                        *)
(***************************************************************************)
EXTENDS ContactBook, Conversations, FiniteSetTheorems, SequenceTheorems, WellFoundedInduction, TLAPS

-----------------------------------------------------------------------------
(* The contact store.                                                      *)

\* What is committed and not yet counted is what the task has pulled.
CommittedIsPulled == task = "summarizing" => pulled = book

IInv == BookIsWhole /\ CommittedIsPulled

LEMMA InitHolds == Init => IInv
BY FS_EmptySet DEF Init, IInv, BookIsWhole, CommittedIsPulled

LEMMA NextHolds == ASSUME IInv, [Next]_vars PROVE IInv'
<1>1. BookIsWhole /\ CommittedIsPulled
  BY DEF IInv
<1>2. CASE Commit
  BY <1>1, <1>2 DEF Commit, IInv, BookIsWhole, CommittedIsPulled
<1>3. CASE Summarize
  BY <1>1, <1>3 DEF Summarize, Sleep, IInv, BookIsWhole, CommittedIsPulled
<1>4. CASE Restart
  BY <1>4, FS_EmptySet DEF Restart, IInv, BookIsWhole, CommittedIsPulled
<1>5. CASE Pull \/ PullFails \/ Insert \/ InsertFails \/ Wake
  <2>1. /\ UNCHANGED <<book, summary, whole>>
        /\ task # "summarizing" /\ task' # "summarizing"
    BY <1>5 DEF Pull, PullFails, Insert, InsertFails, Wake, Sleep
  <2> QED
    BY <1>1, <2>1 DEF IInv, BookIsWhole, CommittedIsPulled
<1>6. CASE PhoneChanges \/ ClientStep \/ UNCHANGED vars
  <2>1. UNCHANGED <<book, summary, whole, task, pulled>>
    BY <1>6 DEF PhoneChanges, ClientStep, ContactPage, Leave, vars, taskVars
  <2> QED
    BY <1>1, <2>1 DEF IInv, BookIsWhole, CommittedIsPulled
<1> QED
  BY <1>2, <1>3, <1>4, <1>5, <1>6 DEF Next, TaskStep

\* Readers of the contact store never see a part of a pull or a mixture of two,
\* and the summary counts what they see, whatever fails or restarts between the
\* statements of replace_all.
THEOREM StoreIsWhole == Spec => []BookIsWhole
<1>1. IInv /\ [Next]_vars => IInv'
  BY NextHolds
<1>2. IInv => BookIsWhole
  BY DEF IInv
<1> QED
  BY InitHolds, <1>1, <1>2, PTL DEF Spec

-----------------------------------------------------------------------------
(* Lists: what Ordered and Slice give for any order.                       *)

StrictOrder(S, R) ==
  /\ \A x, y \in S : <<x, y>> \in R => <<y, x>> \notin R
  /\ \A x, y \in S : x # y => <<x, y>> \in R \/ <<y, x>> \in R
  /\ \A x, y, z \in S : <<x, y>> \in R /\ <<y, z>> \in R => <<x, z>> \in R

LEMMA NatOrder ==
  ASSUME NEW S, NEW R, \A x, y \in S : x \in Nat /\ (<<x, y>> \in R <=> x < y)
  PROVE  StrictOrder(S, R)
<1>1. \A x, y \in S : <<x, y>> \in R => <<y, x>> \notin R
  OBVIOUS
<1>2. \A x, y \in S : x # y => <<x, y>> \in R \/ <<y, x>> \in R
  OBVIOUS
<1>3. \A x, y, z \in S : <<x, y>> \in R /\ <<y, z>> \in R => <<x, z>> \in R
  <2> SUFFICES ASSUME NEW x \in S, NEW y \in S, NEW z \in S, <<x, y>> \in R, <<y, z>> \in R
               PROVE  <<x, z>> \in R
    OBVIOUS
  <2>1. x < y /\ y < z /\ x \in Nat /\ y \in Nat /\ z \in Nat
    OBVIOUS
  <2>2. x < z
    BY <2>1
  <2> QED
    BY <2>2
<1> QED
  BY <1>1, <1>2, <1>3, Zenon DEF StrictOrder

\* The place of a member in its list.
Place(S, R, x) == Cardinality({y \in S : <<y, x>> \in R}) + 1

LEMMA PlaceInRange ==
  ASSUME NEW S, IsFiniteSet(S), NEW R, StrictOrder(S, R), NEW x \in S
  PROVE  Place(S, R, x) \in 1..Cardinality(S)
<1> DEFINE B == {y \in S : <<y, x>> \in R}
<1>1. x \notin B
  BY DEF StrictOrder
<1>2. B \in SUBSET S /\ B # S
  BY <1>1
<1>3. /\ IsFiniteSet(B) /\ Cardinality(B) \in Nat /\ Cardinality(S) \in Nat
      /\ Cardinality(B) <= Cardinality(S) /\ Cardinality(B) # Cardinality(S)
  <2> HIDE DEF B
  <2> QED
    BY <1>2, FS_Subset, FS_CardinalityType
<1> QED
  BY <1>3 DEF Place

LEMMA PlaceGrows ==
  ASSUME NEW S, IsFiniteSet(S), NEW R, StrictOrder(S, R), NEW x \in S, NEW y \in S, <<x, y>> \in R
  PROVE  Place(S, R, x) < Place(S, R, y)
<1> DEFINE B == {z \in S : <<z, x>> \in R}
           C == {z \in S : <<z, y>> \in R}
<1>1. B \subseteq C
  BY DEF StrictOrder
<1>2. x \in C /\ x \notin B
  BY DEF StrictOrder
<1>3. C \in SUBSET S
  OBVIOUS
<1>4. /\ IsFiniteSet(B) /\ IsFiniteSet(C) /\ Cardinality(B) <= Cardinality(C)
      /\ Cardinality(B) # Cardinality(C) /\ Cardinality(B) \in Nat /\ Cardinality(C) \in Nat
  <2> HIDE DEF B, C
  <2>1. IsFiniteSet(C)
    BY <1>3, FS_Subset
  <2> QED
    BY <1>1, <1>2, <2>1, FS_Subset, FS_CardinalityType
<1> QED
  BY <1>4 DEF Place

LEMMA PlaceIsOwn ==
  ASSUME NEW S, IsFiniteSet(S), NEW R, StrictOrder(S, R), NEW x \in S, NEW y \in S,
         Place(S, R, x) = Place(S, R, y)
  PROVE  x = y
<1>1. Place(S, R, x) \in Nat /\ Place(S, R, y) \in Nat
  BY PlaceInRange
<1>2. ~(<<x, y>> \in R) /\ ~(<<y, x>> \in R)
  BY <1>1, PlaceGrows
<1> QED
  BY <1>2 DEF StrictOrder

LEMMA PlaceIsTaken ==
  ASSUME NEW S, IsFiniteSet(S), NEW R, StrictOrder(S, R), NEW i \in 1..Cardinality(S)
  PROVE  \E x \in S : Place(S, R, x) = i
<1> DEFINE f == [x \in S |-> Place(S, R, x)]
           T == 1..Cardinality(S)
<1>1. f \in [S -> T]
  BY PlaceInRange
<1>2. \A x, y \in S : f[x] = f[y] => x = y
  BY PlaceIsOwn
<1>3. f \in Injection(S, T)
  BY <1>1, <1>2 DEF Injection, IsInjective
<1>4. Cardinality(S) \in Nat
  BY FS_CardinalityType
<1>5. IsFiniteSet(T) /\ Cardinality(T) = Cardinality(S)
  BY <1>4, FS_Interval
<1> HIDE DEF f, T
<1>6. f \in Surjection(S, T)
  BY <1>3, <1>5, FS_Injection
<1> USE DEF f, T
<1>7. \E x \in S : f[x] = i
  BY <1>6 DEF Surjection
<1> QED
  BY <1>7

LEMMA OrderedRows ==
  ASSUME NEW S, IsFiniteSet(S), NEW R, StrictOrder(S, R)
  PROVE  /\ Cardinality(S) \in Nat
         /\ Ordered(S, R) \in Seq(S) /\ Len(Ordered(S, R)) = Cardinality(S)
         /\ \A i \in 1..Cardinality(S) : Place(S, R, Ordered(S, R)[i]) = i
         /\ \A x \in S : Ordered(S, R)[Place(S, R, x)] = x
<1> DEFINE n == Cardinality(S)
           places == {<<Cardinality({y \in S : <<y, x>> \in R}) + 1, x>> : x \in S}
<1>1. n \in Nat
  BY FS_CardinalityType
<1>2. ASSUME NEW i \in 1..n
      PROVE  LET p == CHOOSE p \in places : p[1] = i
             IN  p[2] \in S /\ Place(S, R, p[2]) = i
  <2>1. PICK x \in S : Place(S, R, x) = i
    BY PlaceIsTaken
  <2>2. <<i, x>> \in places
    BY <2>1 DEF Place
  <2>3. \E p \in places : p[1] = i
    BY <2>2
  <2> DEFINE p == CHOOSE p \in places : p[1] = i
  <2>4. p \in places /\ p[1] = i
    <3> HIDE DEF places
    <3> QED
      BY <2>3
  <2>5. PICK z \in S : p = <<Cardinality({y \in S : <<y, z>> \in R}) + 1, z>>
    BY <2>4
  <2> HIDE DEF p, places
  <2>6. p[2] = z /\ Place(S, R, z) = i
    BY <2>4, <2>5 DEF Place
  <2> QED
    BY <2>6 DEF p
<1> DEFINE rows == [i \in 1..n |-> (CHOOSE p \in places : p[1] = i)[2]]
<1>3. Ordered(S, R) = rows
  BY DEF Ordered
<1> HIDE DEF places
<1>4. \A i \in 1..n : rows[i] \in S /\ Place(S, R, rows[i]) = i
  BY <1>2
<1>5. rows \in [1..n -> S]
  BY <1>4
<1> HIDE DEF rows, n
<1>6. rows \in Seq(S) /\ Len(rows) = n
  BY <1>1, <1>5
<1>7. \A x \in S : rows[Place(S, R, x)] = x
  <2> SUFFICES ASSUME NEW x \in S PROVE rows[Place(S, R, x)] = x
    OBVIOUS
  <2>1. Place(S, R, x) \in 1..n
    BY PlaceInRange DEF n
  <2>2. rows[Place(S, R, x)] \in S /\ Place(S, R, rows[Place(S, R, x)]) = Place(S, R, x)
    BY <1>4, <2>1
  <2> QED
    BY <2>2, PlaceIsOwn
<1> QED
  BY <1>1, <1>3, <1>4, <1>6, <1>7 DEF n

\* The rows of a page are those with the places that come next.
IsSlice(page, S, rows, o, l) ==
  /\ page \in Seq(S) /\ Len(page) \in Nat /\ Len(page) <= l
  /\ o + l < Len(rows) => Len(page) = l
  /\ Len(rows) <= o + l => o + Len(page) >= Len(rows)
  /\ Len(rows) <= o => Len(page) = 0
  /\ o + Len(page) <= Len(rows) \/ Len(rows) <= o
  /\ \A i \in 1..Len(page) : o + i \in 1..Len(rows) /\ page[i] = rows[o + i]

LEMMA SliceRows ==
  ASSUME NEW S, NEW rows \in Seq(S), NEW o \in Nat, NEW l \in Nat
  PROVE  IsSlice(Slice(rows, o, l), S, rows, o, l)
<1> DEFINE a == Least(o, Len(rows)) + 1
           b == Least(o + l, Len(rows))
<1>1. Len(rows) \in Nat
  OBVIOUS
<1>2. a \in Int /\ b \in Int /\ 1 <= a /\ b <= Len(rows)
  BY <1>1 DEF Least
<1>3. \A i \in a..b : rows[i] \in S
  <2> SUFFICES ASSUME NEW i \in a..b PROVE rows[i] \in S
    OBVIOUS
  <2>1. i \in 1..Len(rows)
    BY <1>1, <1>2
  <2> QED
    BY <2>1
<1>4. /\ SubSeq(rows, a, b) \in Seq(S)
      /\ Len(SubSeq(rows, a, b)) = IF a <= b THEN b - a + 1 ELSE 0
      /\ \A i \in 1..(b - a + 1) : SubSeq(rows, a, b)[i] = rows[a + i - 1]
  <2> HIDE DEF a, b
  <2> QED
    BY <1>2, <1>3, SubSeqProperties
<1>5. Slice(rows, o, l) = SubSeq(rows, a, b)
  BY DEF Slice
<1> DEFINE n == Len(SubSeq(rows, a, b))
<1>6. n = IF o >= Len(rows) THEN 0 ELSE IF o + l < Len(rows) THEN l ELSE Len(rows) - o
  <2>1. /\ a = IF o < Len(rows) THEN o + 1 ELSE Len(rows) + 1
        /\ b = IF o + l < Len(rows) THEN o + l ELSE Len(rows)
    BY <1>1 DEF Least
  <2>2. n = IF a <= b THEN b - a + 1 ELSE 0
    BY <1>4
  <2> HIDE DEF a, b, n
  <2>3. CASE o >= Len(rows)
    BY <1>1, <2>1, <2>2, <2>3
  <2>4. CASE o < Len(rows) /\ o + l < Len(rows)
    BY <1>1, <2>1, <2>2, <2>4
  <2>5. CASE o < Len(rows) /\ ~(o + l < Len(rows))
    BY <1>1, <2>1, <2>2, <2>5
  <2> QED
    BY <1>1, <2>3, <2>4, <2>5
<1>7. \A i \in 1..n : o + i \in 1..Len(rows) /\ SubSeq(rows, a, b)[i] = rows[o + i]
  <2> SUFFICES ASSUME NEW i \in 1..n
               PROVE  o + i \in 1..Len(rows) /\ SubSeq(rows, a, b)[i] = rows[o + i]
    OBVIOUS
  <2>1. i \in 1..n /\ n = IF a <= b THEN b - a + 1 ELSE 0
    BY <1>4
  <2> HIDE DEF n
  <2>2. o < Len(rows) /\ o + i \in 1..Len(rows)
    BY <1>1, <1>6, <2>1
  <2>3. a = o + 1
    BY <1>1, <2>2 DEF Least
  <2> HIDE DEF a, b
  <2>4. i \in 1..(b - a + 1) /\ a + i - 1 = o + i
    BY <1>2, <2>1, <2>3
  <2>5. SubSeq(rows, a, b)[i] = rows[a + i - 1]
    BY <1>4, <2>4
  <2> QED
    BY <2>2, <2>4, <2>5
<1> HIDE DEF a, b
<1>8. /\ n <= l /\ (o + l < Len(rows) => n = l) /\ (Len(rows) <= o + l => o + n >= Len(rows))
      /\ (Len(rows) <= o => n = 0) /\ (o + n <= Len(rows) \/ Len(rows) <= o)
  BY <1>1, <1>6
<1>9. n \in Nat
  BY <1>4
<1> QED
  BY <1>4, <1>5, <1>7, <1>8, <1>9 DEF IsSlice

\* As many members have one of the first places as there are such places.
LEMMA FirstPlaces ==
  ASSUME NEW S, IsFiniteSet(S), NEW R, StrictOrder(S, R), NEW o \in Nat, o <= Cardinality(S)
  PROVE  o <= Cardinality({x \in S : Place(S, R, x) <= o})
<1> DEFINE F == {x \in S : Place(S, R, x) <= o}
           rows == Ordered(S, R)
           f == [i \in 1..o |-> rows[i]]
<1>1. /\ Cardinality(S) \in Nat /\ rows \in Seq(S) /\ Len(rows) = Cardinality(S)
      /\ \A i \in 1..Cardinality(S) : Place(S, R, rows[i]) = i
  BY OrderedRows
<1> HIDE DEF rows
<1>2. \A i \in 1..o : f[i] = rows[i] /\ f[i] \in F /\ Place(S, R, f[i]) = i
  <2> SUFFICES ASSUME NEW i \in 1..o PROVE rows[i] \in F /\ Place(S, R, rows[i]) = i
    OBVIOUS
  <2>1. i \in 1..Cardinality(S) /\ rows[i] \in S
    BY <1>1
  <2> QED
    BY <1>1, <2>1
<1>3. f \in [1..o -> F]
  BY <1>2
<1>4. \A i, j \in 1..o : f[i] = f[j] => i = j
  BY <1>2
<1>5. IsFiniteSet(F)
  BY FS_Subset
<1>6. f \in Injection(1..o, F)
  BY <1>3, <1>4 DEF Injection, IsInjective
<1> HIDE DEF F, f
<1>7. Cardinality(1..o) <= Cardinality(F)
  BY <1>5, <1>6, FS_Injection
<1>8. Cardinality(1..o) = o
  BY FS_Interval
<1> QED
  BY <1>7, <1>8 DEF F

\* Of some members of a list one comes last.
LEMMA LastOne ==
  ASSUME NEW S, IsFiniteSet(S), NEW R, StrictOrder(S, R), NEW A \in SUBSET S, A # {}
  PROVE  \E x \in A : \A y \in A : y = x \/ <<y, x>> \in R
<1> DEFINE D == {Cardinality(S) - Place(S, R, x) : x \in A}
           L == {p \in Nat \X Nat : p[1] < p[2]}
<1>1. \A x \in S : Place(S, R, x) \in 1..Cardinality(S)
  BY PlaceInRange
<1>2. Cardinality(S) \in Nat
  BY FS_CardinalityType
<1>3. D \in SUBSET Nat /\ D # {}
  BY <1>1, <1>2
<1>4. IsWellFoundedOn(L, Nat)
  BY NatLessThanWellFounded DEF OpToRel
<1>5. \E d \in D : \A e \in D : ~(<<e, d>> \in L)
  <2> HIDE DEF D, L
  <2> QED
    BY <1>3, <1>4, WFMin
<1>6. PICK x \in A : \A e \in D : ~(<<e, Cardinality(S) - Place(S, R, x)>> \in L)
  BY <1>5
<1>7. ASSUME NEW y \in A, <<x, y>> \in R PROVE FALSE
  <2>1. Place(S, R, x) < Place(S, R, y)
    BY <1>7, PlaceGrows
  <2>2. /\ Cardinality(S) - Place(S, R, y) \in D
        /\ Cardinality(S) - Place(S, R, y) \in Nat /\ Cardinality(S) - Place(S, R, x) \in Nat
        /\ Cardinality(S) - Place(S, R, y) < Cardinality(S) - Place(S, R, x)
    BY <1>1, <1>2, <2>1
  <2> QED
    BY <1>6, <2>2
<1>8. \A y \in A : y = x \/ <<y, x>> \in R
  BY <1>7 DEF StrictOrder
<1> QED
  BY <1>8

\* When a list changes, what came before a member of X and is not gone still
\* does.
KeepsPlace(S, R, S2, R2, gone, X) ==
  \A y \in S \ gone, x \in X : <<y, x>> \in R => y \in S2 /\ <<y, x>> \in R2

\* Of the members that keep their place among the others at most as many as are
\* gone get one of the first places.
LEMMA ListChange ==
  ASSUME NEW S, IsFiniteSet(S), NEW R, StrictOrder(S, R),
         NEW S2, IsFiniteSet(S2), NEW R2, StrictOrder(S2, R2),
         NEW gone, IsFiniteSet(gone), NEW X \in SUBSET (S \cap S2), NEW o \in Nat,
         KeepsPlace(S, R, S2, R2, gone, X)
  PROVE  Cardinality({x \in X : Place(S2, R2, x) <= o})
           <= Cardinality({x \in X : Place(S, R, x) <= o}) + Cardinality(gone)
<1> DEFINE A == {x \in X : Place(S2, R2, x) <= o /\ ~(Place(S, R, x) <= o)}
           C == {x \in X : Place(S, R, x) <= o}
           E == {x \in X : Place(S2, R2, x) <= o}
           F == {x \in S : Place(S, R, x) <= o}
           B == F \ gone
<1>1. /\ A \in SUBSET S /\ C \in SUBSET S /\ E \in SUBSET S /\ F \in SUBSET S /\ B \in SUBSET S
      /\ A \in SUBSET S2 /\ E \subseteq A \cup C /\ A \cap B = {} /\ F \subseteq B \cup gone
  OBVIOUS
<1>2. ASSUME NEW x \in A
      PROVE  Place(S2, R2, x) \in Nat /\ Place(S2, R2, x) <= o /\ x \in X /\ Place(S, R, x) \in 1..Cardinality(S) /\ o < Place(S, R, x)
  BY PlaceInRange
<1>3. ASSUME NEW y \in B, NEW x \in A PROVE y \in S2 /\ <<y, x>> \in R2
  <2>1. Place(S, R, y) <= o /\ Place(S, R, y) \in Nat /\ y \in S /\ x \in S /\ y \notin gone
    BY PlaceInRange
  <2>2. Place(S, R, y) < Place(S, R, x)
    BY <1>2, <2>1
  <2>3. <<y, x>> \in R
    <3>1. ~(<<x, y>> \in R)
      BY <1>2, <2>1, <2>2, PlaceGrows
    <3>2. y # x
      BY <1>2, <2>1, <2>2
    <3> QED
      BY <2>1, <3>1, <3>2 DEF StrictOrder
  <2> QED
    BY <1>2, <2>1, <2>3 DEF KeepsPlace
<1> HIDE DEF A, B, C, E
<1>4. /\ IsFiniteSet(A) /\ IsFiniteSet(B) /\ IsFiniteSet(C) /\ IsFiniteSet(E) /\ IsFiniteSet(F)
  BY <1>1, FS_Subset
<1>5. /\ Cardinality(A) \in Nat /\ Cardinality(B) \in Nat /\ Cardinality(C) \in Nat
      /\ Cardinality(E) \in Nat /\ Cardinality(F) \in Nat /\ Cardinality(gone) \in Nat /\ Cardinality(S) \in Nat
  BY <1>4, FS_CardinalityType
<1>6. Cardinality(A) <= Cardinality(gone)
  <2>1. CASE A = {}
    BY <1>5, <2>1, FS_EmptySet
  <2>2. CASE A # {}
    <3>1. PICK x \in A : \A y \in A : y = x \/ <<y, x>> \in R2
      BY <1>1, <2>2, LastOne
    <3> DEFINE G == {y \in S2 : <<y, x>> \in R2}
    <3>2. (A \ {x}) \cup B \in SUBSET G
      BY <1>1, <1>3, <3>1
    <3>3. IsFiniteSet(G) /\ Cardinality(G) + 1 = Place(S2, R2, x)
      BY FS_Subset DEF Place
    <3> HIDE DEF G
    <3>4. Cardinality((A \ {x}) \cup B) <= Cardinality(G) /\ Cardinality(G) \in Nat
      BY <3>2, <3>3, FS_Subset, FS_CardinalityType
    <3>5. (A \ {x}) \cap B = {} /\ IsFiniteSet(A \ {x}) /\ Cardinality(A \ {x}) = Cardinality(A) - 1
      BY <1>1, <1>4, FS_RemoveElement
    <3>6. Cardinality((A \ {x}) \cup B) = Cardinality(A) - 1 + Cardinality(B)
      <4>1. Cardinality((A \ {x}) \cup B)
              = Cardinality(A \ {x}) + Cardinality(B) - Cardinality((A \ {x}) \cap B)
        BY <1>4, <3>5, FS_Union
      <4>2. Cardinality((A \ {x}) \cap B) = 0
        BY <3>5, FS_EmptySet
      <4> QED
        BY <1>5, <3>5, <4>1, <4>2
    <3>7. Cardinality(A) + Cardinality(B) <= o
      BY <1>2, <1>5, <3>3, <3>4, <3>6
    <3>8. o <= Cardinality(F)
      BY <1>2, <1>5, FirstPlaces
    <3>9. Cardinality(F) <= Cardinality(B) + Cardinality(gone)
      <4>1. IsFiniteSet(B \cup gone) /\ Cardinality(F) <= Cardinality(B \cup gone)
        BY <1>1, <1>4, FS_Union, FS_Subset
      <4>2. /\ Cardinality(B \cup gone) = Cardinality(B) + Cardinality(gone) - Cardinality(B \cap gone)
            /\ Cardinality(B \cap gone) \in Nat
        BY <1>4, FS_Union, FS_Intersection, FS_CardinalityType
      <4> QED
        BY <1>5, <4>1, <4>2
    <3> QED
      BY <1>5, <3>7, <3>8, <3>9
  <2> QED
    BY <2>1, <2>2
<1>7. Cardinality(E) <= Cardinality(C) + Cardinality(A)
  <2>1. IsFiniteSet(A \cup C) /\ Cardinality(E) <= Cardinality(A \cup C)
    BY <1>1, <1>4, FS_Union, FS_Subset
  <2>2. /\ Cardinality(A \cup C) = Cardinality(A) + Cardinality(C) - Cardinality(A \cap C)
        /\ Cardinality(A \cap C) \in Nat
    BY <1>4, FS_Union, FS_Intersection, FS_CardinalityType
  <2> QED
    BY <1>5, <2>1, <2>2
<1> QED
  BY <1>5, <1>6, <1>7 DEF C, E

-----------------------------------------------------------------------------
(* Walks over a list whose members are in U.                               *)

Walks(U) ==
  [state : {"none", "open", "complete"}, offset : Nat, seen : SUBSET U, steady : SUBSET U,
   departed : 0..MaxDeparted]

\* The members that stayed and that a walk which has come to place o is past
\* without having seen them.
Skipped(S, R, w, seen, o) == {x \in w.steady \ seen : Place(S, R, x) <= o}

\* There are no more of them than have departed, as far as those are counted.
Counted(w, X) == Cardinality(X) <= w.departed \/ w.departed = MaxDeparted

\* The invariant of an open walk over the list of S in the order R.
OnTrack(S, R, U, w) ==
  /\ w.steady \subseteq S
  /\ w.departed > 0 => w.steady # U
  /\ Counted(w, Skipped(S, R, w, w.seen, w.offset))

\* The same for any walk: one that is complete missed no more than departed.
WalkOnTrack(S, R, U, w) ==
  /\ w \in Walks(U)
  /\ w.state = "open" => OnTrack(S, R, U, w)
  /\ w.state = "complete" => Cardinality(w.steady) <= w.departed

\* What a page may leave behind, now or when it is turned later on.
PageCounted(S, R, w, items, more) ==
  /\ Counted(w, Skipped(S, R, w, w.seen \cup ToSet(items), w.offset + Len(items)))
  /\ ~more => Counted(w, w.steady \ (w.seen \cup ToSet(items)))

\* A list that a walk can be over.
Listing(S, R, U) ==
  /\ S \subseteq U /\ StrictOrder(S, R)
  /\ IsFiniteSet(U) /\ Cardinality(U) <= MaxDeparted + 1

LEMMA SkippedIsFinite ==
  ASSUME NEW U, IsFiniteSet(U), NEW w \in Walks(U)
  PROVE  \A X : X \subseteq w.steady => IsFiniteSet(X) /\ Cardinality(X) \in Nat
<1>1. w.steady \in SUBSET U
  BY DEF Walks
<1> QED
  BY <1>1, FS_Subset, FS_CardinalityType

\* The list becomes another one: the gone have left it or gone down in it, and
\* those that are not moved have their place.
Shifted(S, R, S2, R2, U, moved, gone) ==
  /\ gone \in SUBSET U /\ gone \subseteq moved /\ S \ moved \subseteq S2
  /\ KeepsPlace(S, R, S2, R2, gone, S \ moved)

\* The list changes under an open walk: what is counted stays so, for the walk
\* itself and for a page that is on its way.
LEMMA DisturbedOnTrack ==
  ASSUME NEW U, NEW S, NEW R, Listing(S, R, U), NEW S2, NEW R2, Listing(S2, R2, U),
         NEW w \in Walks(U), w.state = "open", OnTrack(S, R, U, w),
         NEW moved, NEW gone, Shifted(S, R, S2, R2, U, moved, gone)
  PROVE  LET w2 == Disturbed(w, moved, Cardinality(gone))
         IN  /\ WalkOnTrack(S2, R2, U, w2) /\ w2.state = "open"
             /\ \A items, more : items \in Seq(U) /\ PageCounted(S, R, w, items, more)
                                   => PageCounted(S2, R2, w2, items, more)
<1> DEFINE w2 == Disturbed(w, moved, Cardinality(gone))
<1>0. /\ w.steady \subseteq S /\ gone \in SUBSET U /\ gone \subseteq moved
      /\ w.departed > 0 => w.steady # U
      /\ w.steady \ moved \subseteq S2 /\ KeepsPlace(S, R, S2, R2, gone, w.steady \ moved)
  BY DEF OnTrack, Shifted, KeepsPlace
<1> USE <1>0
<1>1. /\ S \in SUBSET U /\ S2 \in SUBSET U /\ StrictOrder(S, R) /\ StrictOrder(S2, R2) /\ IsFiniteSet(U)
  BY DEF Listing
<1>2. IsFiniteSet(S) /\ IsFiniteSet(S2) /\ IsFiniteSet(gone) /\ Cardinality(gone) \in Nat
  BY <1>1, FS_Subset, FS_CardinalityType
<1>3. MaxDeparted \in Nat \ {0} /\ w.departed \in 0..MaxDeparted /\ w.offset \in Nat
      /\ w.seen \in SUBSET U /\ w.steady \in SUBSET U
  BY PagingAssumption DEF Walks
<1>4. w2 = [w EXCEPT !.steady = @ \ moved,
                     !.departed = Least(@ + Cardinality(gone), MaxDeparted)]
  BY DEF Disturbed
<1>5. /\ w2.state = "open" /\ w2.offset = w.offset /\ w2.seen = w.seen
      /\ w2.steady = w.steady \ moved /\ w2.departed = Least(w.departed + Cardinality(gone), MaxDeparted)
  BY <1>4 DEF Walks
<1>6. w2.departed \in 0..MaxDeparted
  BY <1>2, <1>3, <1>5 DEF Least
<1>7. w2 \in Walks(U)
  BY <1>3, <1>4, <1>5, <1>6 DEF Walks
<1> HIDE DEF w2
<1>8. /\ w2.departed >= w.departed /\ (w.departed = MaxDeparted => w2.departed = MaxDeparted)
      /\ w2.departed = w.departed + Cardinality(gone) \/ w2.departed = MaxDeparted
  BY <1>2, <1>3, <1>5 DEF Least
<1>9. w2.departed > 0 => w2.steady # U
  <2>1. CASE gone = {}
    <3>1. Cardinality(gone) = 0
      BY <2>1, FS_EmptySet
    <3>2. w2.departed = w.departed
      BY <1>3, <1>5, <3>1 DEF Least
    <3> QED
      BY <1>3, <1>5, <3>2
  <2>2. CASE gone # {}
    BY <1>5, <2>2
  <2> QED
    BY <2>1, <2>2
<1>10. ASSUME NEW seen, Counted(w, w.steady \ seen) PROVE Counted(w2, w2.steady \ seen)
  <2>1. w2.steady \ seen \in SUBSET (w.steady \ seen)
    BY <1>5
  <2>2. /\ IsFiniteSet(w.steady \ seen) /\ Cardinality(w.steady \ seen) \in Nat
        /\ Cardinality(w2.steady \ seen) \in Nat
    BY <1>1, <1>5, SkippedIsFinite
  <2>3. Cardinality(w2.steady \ seen) <= Cardinality(w.steady \ seen)
    BY <2>1, <2>2, FS_Subset
  <2> QED
    BY <1>3, <1>6, <1>8, <1>10, <2>2, <2>3 DEF Counted
<1>11. ASSUME NEW seen, NEW o \in Nat, Counted(w, Skipped(S, R, w, seen, o))
       PROVE  Counted(w2, Skipped(S2, R2, w2, seen, o))
  <2> DEFINE X == w2.steady \ seen
  <2>1. X \in SUBSET (S \cap S2)
    BY <1>5
  <2>2. KeepsPlace(S, R, S2, R2, gone, X)
    BY <1>5 DEF KeepsPlace
  <2>3. Skipped(S2, R2, w2, seen, o) = {x \in X : Place(S2, R2, x) <= o}
    BY DEF Skipped
  <2>4. {x \in X : Place(S, R, x) <= o} \in SUBSET Skipped(S, R, w, seen, o)
    BY <1>5 DEF Skipped
  <2> HIDE DEF X
  <2>5. Cardinality({x \in X : Place(S2, R2, x) <= o})
          <= Cardinality({x \in X : Place(S, R, x) <= o}) + Cardinality(gone)
    BY <1>1, <1>2, <2>1, <2>2, ListChange
  <2>6. IsFiniteSet(Skipped(S, R, w, seen, o)) /\ Cardinality(Skipped(S, R, w, seen, o)) \in Nat
    BY <1>1, SkippedIsFinite DEF Skipped
  <2>7. /\ Cardinality({x \in X : Place(S, R, x) <= o}) <= Cardinality(Skipped(S, R, w, seen, o))
        /\ Cardinality({x \in X : Place(S, R, x) <= o}) \in Nat
    BY <2>4, <2>6, FS_Subset, FS_CardinalityType
  <2>8. Cardinality(Skipped(S2, R2, w2, seen, o)) \in Nat
    BY <1>1, <1>7, SkippedIsFinite DEF Skipped
  <2>9. Cardinality(Skipped(S2, R2, w2, seen, o))
          <= Cardinality(Skipped(S, R, w, seen, o)) + Cardinality(gone)
    BY <1>2, <2>3, <2>5, <2>6, <2>7, <2>8
  <2> QED
    BY <1>2, <1>3, <1>6, <1>8, <1>11, <2>6, <2>8, <2>9 DEF Counted
<1>12. OnTrack(S2, R2, U, w2)
  <2>1. Counted(w, Skipped(S, R, w, w.seen, w.offset))
    BY DEF OnTrack
  <2> QED
    BY <1>3, <1>5, <1>9, <1>11, <2>1 DEF OnTrack
<1>13. ASSUME NEW items \in Seq(U), NEW more, PageCounted(S, R, w, items, more)
       PROVE  PageCounted(S2, R2, w2, items, more)
  <2>1. w.offset + Len(items) \in Nat
    BY <1>3
  <2> QED
    BY <1>5, <1>10, <1>11, <1>13, <2>1 DEF PageCounted
<1>14. WalkOnTrack(S2, R2, U, w2)
  BY <1>5, <1>7, <1>12 DEF WalkOnTrack
<1> QED
  BY <1>5, <1>13, <1>14 DEF w2

LEMMA DisturbedWalk ==
  ASSUME NEW U, NEW S, NEW R, Listing(S, R, U), NEW S2, NEW R2, Listing(S2, R2, U),
         NEW w, WalkOnTrack(S, R, U, w),
         NEW moved, NEW gone, Shifted(S, R, S2, R2, U, moved, gone)
  PROVE  LET w2 == Disturbed(w, moved, Cardinality(gone))
         IN  /\ WalkOnTrack(S2, R2, U, w2) /\ w2.state = w.state
             /\ \A items, more : w.state = "open" /\ items \in Seq(U) /\ PageCounted(S, R, w, items, more)
                                   => PageCounted(S2, R2, w2, items, more)
<1> DEFINE w2 == Disturbed(w, moved, Cardinality(gone))
<1>1. CASE w.state # "open"
  <2>1. w2 = w
    BY <1>1 DEF Disturbed
  <2> QED
    BY <1>1, <2>1 DEF WalkOnTrack
<1>2. CASE w.state = "open"
  <2>1. w \in Walks(U) /\ OnTrack(S, R, U, w)
    BY <1>2 DEF WalkOnTrack
  <2> QED
    BY <1>2, <2>1, DisturbedOnTrack
<1> QED
  BY <1>1, <1>2

\* A page is turned.
LEMMA TurnedOnTrack ==
  ASSUME NEW U, NEW S, NEW R, Listing(S, R, U), NEW w \in Walks(U), w.state = "open",
         OnTrack(S, R, U, w), NEW items \in Seq(U), NEW more, PageCounted(S, R, w, items, more)
  PROVE  WalkOnTrack(S, R, U, Turned(w, items, more))
<1> DEFINE w2 == Turned(w, items, more)
           seen == w.seen \cup ToSet(items)
           missed == w.steady \ seen
<1>1. /\ w.offset \in Nat /\ w.seen \in SUBSET U /\ w.steady \in SUBSET U /\ w.departed \in 0..MaxDeparted
      /\ MaxDeparted \in Nat \ {0} /\ MaxCursorOffset \in Nat
  BY PagingAssumption DEF Walks
<1>2. ToSet(items) \in SUBSET U /\ Len(items) \in Nat
  BY DEF ToSet
<1>3. IsFiniteSet(U) /\ Cardinality(U) <= MaxDeparted + 1
  BY DEF Listing
<1>4. CASE more
  <2>1. w2 = [w EXCEPT !.seen = seen, !.offset = Advance(@, Len(items))]
    BY <1>4 DEF Turned
  <2>2. /\ w2.state = "open" /\ w2.seen = seen /\ w2.offset = Advance(w.offset, Len(items))
        /\ w2.steady = w.steady /\ w2.departed = w.departed
    BY <2>1 DEF Walks
  <2>3. w2.offset \in Nat /\ w2.offset <= w.offset + Len(items)
    BY <1>1, <1>2, <2>2 DEF Advance, Least
  <2>4. w2 \in Walks(U)
    BY <1>1, <1>2, <2>1, <2>2, <2>3 DEF Walks
  <2> DEFINE A == Skipped(S, R, w, seen, w.offset + Len(items))
             B == Skipped(S, R, w2, w2.seen, w2.offset)
  <2>5. \A x \in w.steady : Place(S, R, x) \in Nat
    <3>1. w.steady \subseteq S /\ IsFiniteSet(S) /\ StrictOrder(S, R)
      BY <1>3, FS_Subset DEF OnTrack, Listing
    <3> QED
      BY <3>1, PlaceInRange
  <2>6. B \in SUBSET A
    BY <1>1, <1>2, <2>2, <2>3, <2>5 DEF Skipped
  <2>7. IsFiniteSet(A) /\ Cardinality(A) \in Nat
    BY <1>3, SkippedIsFinite DEF Skipped
  <2>8. Counted(w, A)
    BY DEF PageCounted
  <2> HIDE DEF A, B
  <2>9. Cardinality(B) <= Cardinality(A) /\ Cardinality(B) \in Nat
    BY <2>6, <2>7, FS_Subset, FS_CardinalityType
  <2>10. Counted(w2, B)
    BY <1>1, <2>2, <2>7, <2>8, <2>9 DEF Counted
  <2> QED
    BY <2>2, <2>4, <2>10 DEF WalkOnTrack, OnTrack, B
<1>5. CASE ~more
  <2>1. w2 = [NoWalk EXCEPT !.state = "complete", !.steady = missed,
                            !.departed = IF missed = {} THEN 0 ELSE w.departed]
    BY <1>5 DEF Turned
  <2>2. /\ w2.state = "complete" /\ w2.steady = missed
        /\ w2.departed = IF missed = {} THEN 0 ELSE w.departed
    BY <2>1 DEF NoWalk
  <2> DEFINE left == IF missed = {} THEN 0 ELSE w.departed
  <2>3. w2 \in Walks(U)
    <3>1. missed \in SUBSET U /\ left \in 0..MaxDeparted
      BY <1>1
    <3> HIDE DEF missed, left
    <3>2. w2 = [state |-> "complete", offset |-> 0, seen |-> {}, steady |-> missed, departed |-> left]
      BY <2>1 DEF NoWalk, left
    <3> QED
      BY <3>1, <3>2 DEF Walks
  <2>4. IsFiniteSet(missed) /\ Cardinality(missed) \in Nat /\ missed \subseteq w.steady
    BY <1>3, SkippedIsFinite
  <2>5. Counted(w, missed)
    BY <1>5 DEF PageCounted
  <2> HIDE DEF missed
  <2>6. CASE missed = {}
    BY <2>2, <2>3, <2>6, FS_EmptySet DEF WalkOnTrack
  <2>7. CASE missed # {} /\ Cardinality(missed) <= w.departed
    BY <2>2, <2>3, <2>7 DEF WalkOnTrack
  <2>8. CASE missed # {} /\ w.departed = MaxDeparted
    <3>1. w.steady # U
      BY <1>1, <2>8 DEF OnTrack
    <3>2. Cardinality(missed) <= Cardinality(U) /\ Cardinality(missed) # Cardinality(U) /\ Cardinality(U) \in Nat
      BY <1>1, <1>3, <2>4, <3>1, FS_Subset, FS_CardinalityType
    <3>3. Cardinality(missed) <= MaxDeparted
      BY <1>1, <1>3, <2>4, <3>2
    <3> QED
      BY <2>2, <2>3, <2>8, <3>3 DEF WalkOnTrack
  <2> QED
    BY <2>5, <2>6, <2>7, <2>8 DEF Counted
<1> QED
  BY <1>4, <1>5

\* A page that is cut from the list leaves no more behind.
LEMMA PageOnTrack ==
  ASSUME NEW U, NEW S, NEW R, Listing(S, R, U), NEW w \in Walks(U), OnTrack(S, R, U, w),
         NEW limit \in Nat
  PROVE  LET rows  == Ordered(S, R)
             items == Slice(rows, w.offset, limit)
         IN  /\ items \in Seq(U) /\ rows \in Seq(U)
             /\ PageCounted(S, R, w, items, w.offset + limit < Len(rows))
<1> DEFINE rows == Ordered(S, R)
           items == Slice(rows, w.offset, limit)
           seen == w.seen \cup ToSet(items)
<1>1. IsFiniteSet(U) /\ S \in SUBSET U /\ StrictOrder(S, R) /\ w.offset \in Nat /\ w.steady \subseteq S
      /\ w.departed \in 0..MaxDeparted /\ MaxDeparted \in Nat
  BY PagingAssumption DEF Listing, Walks, OnTrack
<1>2. IsFiniteSet(S)
  BY <1>1, FS_Subset
<1>3. /\ Cardinality(S) \in Nat /\ rows \in Seq(S) /\ Len(rows) = Cardinality(S)
      /\ \A x \in S : rows[Place(S, R, x)] = x
  BY <1>1, <1>2, OrderedRows
<1>4. \A x \in S : Place(S, R, x) \in 1..Cardinality(S)
  BY <1>1, <1>2, PlaceInRange
<1> HIDE DEF rows
<1>5. /\ items \in Seq(S) /\ Len(items) \in Nat
      /\ Len(rows) <= w.offset + limit => w.offset + Len(items) >= Len(rows)
      /\ \A i \in 1..Len(items) : items[i] = rows[w.offset + i]
  <2>1. rows \in Seq(S) /\ w.offset \in Nat /\ limit \in Nat
    BY <1>1, <1>3
  <2>2. IsSlice(Slice(rows, w.offset, limit), S, rows, w.offset, limit)
    BY ONLY <2>1, SliceRows
  <2> HIDE DEF items
  <2>3. IsSlice(items, S, rows, w.offset, limit)
    BY <2>2 DEF items
  <2> QED
    BY <2>3 DEF IsSlice
<1> HIDE DEF items
<1>6. ASSUME NEW x \in S, w.offset < Place(S, R, x), Place(S, R, x) <= w.offset + Len(items)
      PROVE  x \in ToSet(items)
  <2>1. Place(S, R, x) - w.offset \in 1..Len(items)
    BY <1>1, <1>3, <1>4, <1>5, <1>6
  <2>2. items[Place(S, R, x) - w.offset] = rows[w.offset + (Place(S, R, x) - w.offset)]
    BY <1>5, <2>1
  <2>3. w.offset + (Place(S, R, x) - w.offset) = Place(S, R, x)
    BY <1>1, <1>3, <1>4
  <2>4. items[Place(S, R, x) - w.offset] = x
    BY <1>3, <2>2, <2>3
  <2> QED
    BY <1>5, <2>1, <2>4 DEF ToSet
<1> DEFINE A == Skipped(S, R, w, w.seen, w.offset)
           B == Skipped(S, R, w, seen, w.offset + Len(items))
           C == w.steady \ seen
<1>7. B \in SUBSET A
  <2> SUFFICES ASSUME NEW x \in w.steady \ seen, Place(S, R, x) <= w.offset + Len(items)
               PROVE  Place(S, R, x) <= w.offset
    BY DEF Skipped
  <2>1. x \in S /\ x \notin ToSet(items) /\ Place(S, R, x) \in Nat
    BY <1>1, <1>3, <1>4
  <2> QED
    BY <1>1, <1>6, <2>1
<1>8. Len(rows) <= w.offset + limit => C \in SUBSET B
  <2> SUFFICES ASSUME Len(rows) <= w.offset + limit, NEW x \in w.steady \ seen
               PROVE  Place(S, R, x) <= w.offset + Len(items)
    BY DEF Skipped
  <2>1. Place(S, R, x) \in 1..Cardinality(S)
    BY <1>1, <1>4
  <2> QED
    BY <1>1, <1>3, <1>5, <2>1
<1>9. IsFiniteSet(A) /\ Cardinality(A) \in Nat /\ IsFiniteSet(B) /\ Cardinality(B) \in Nat
      /\ Cardinality(C) \in Nat
  BY <1>1, SkippedIsFinite DEF Skipped
<1>10. Counted(w, A)
  BY DEF OnTrack
<1>11. items \in Seq(U) /\ rows \in Seq(U)
  BY <1>1, <1>3, <1>5
<1> HIDE DEF A, B, C
<1>12. Cardinality(B) <= Cardinality(A) /\ (Len(rows) <= w.offset + limit => Cardinality(C) <= Cardinality(B))
  BY <1>7, <1>8, <1>9, FS_Subset
<1>13. Counted(w, B) /\ (Len(rows) <= w.offset + limit => Counted(w, C))
  BY <1>1, <1>9, <1>10, <1>12 DEF Counted
<1>14. ~(w.offset + limit < Len(rows)) => Len(rows) <= w.offset + limit
  BY <1>1, <1>3
<1> QED
  BY <1>11, <1>13, <1>14 DEF PageCounted, B, C, items, rows

\* One row more than the limit is fetched, and cut off again.
LEMMA FetchedPage ==
  ASSUME NEW U, NEW rows \in Seq(U), NEW o \in Nat, NEW limit \in Nat
  PROVE  LET fetched == Slice(rows, o, limit + 1)
         IN  /\ Slice(fetched, 0, limit) = Slice(rows, o, limit)
             /\ Len(fetched) > limit <=> o + limit < Len(rows)
<1> DEFINE fetched == Slice(rows, o, limit + 1)
           page == Slice(rows, o, limit)
           cut == Slice(fetched, 0, limit)
<1>1. IsSlice(fetched, U, rows, o, limit + 1)
  <2>1. limit + 1 \in Nat
    OBVIOUS
  <2> QED
    BY <2>1, SliceRows
<1>2. IsSlice(page, U, rows, o, limit)
  BY SliceRows
<1> HIDE DEF fetched, page
<1>3. IsSlice(cut, U, fetched, 0, limit)
  <2>1. fetched \in Seq(U) /\ 0 \in Nat
    BY <1>1 DEF IsSlice
  <2> QED
    BY <2>1, SliceRows
<1> HIDE DEF cut
<1>4. Len(rows) \in Nat /\ Len(fetched) \in Nat /\ Len(page) \in Nat /\ Len(cut) \in Nat
  BY <1>1, <1>2, <1>3 DEF IsSlice
<1>5. Len(fetched) > limit <=> o + limit < Len(rows)
  BY <1>1, <1>4 DEF IsSlice
<1>6. Len(cut) = Len(page)
  BY <1>1, <1>2, <1>3, <1>4, <1>5 DEF IsSlice
<1>7. \A i \in 1..Len(cut) : cut[i] = page[i]
  <2> SUFFICES ASSUME NEW i \in 1..Len(cut) PROVE cut[i] = page[i]
    OBVIOUS
  <2>1. 0 + i \in 1..Len(fetched) /\ cut[i] = fetched[0 + i] /\ 0 + i = i
    BY <1>3, <1>4 DEF IsSlice
  <2> QED
    BY <1>1, <1>2, <1>6, <2>1 DEF IsSlice
<1>8. cut = page
  BY <1>2, <1>3, <1>6, <1>7 DEF IsSlice
<1> QED
  BY <1>5, <1>8 DEF fetched, page, cut

LEMMA FetchedOnTrack ==
  ASSUME NEW U, NEW S, NEW R, Listing(S, R, U), NEW w \in Walks(U), w.state = "open",
         OnTrack(S, R, U, w), NEW limit \in Nat
  PROVE  LET fetched == Slice(Ordered(S, R), w.offset, limit + 1)
         IN  WalkOnTrack(S, R, U, Turned(w, Slice(fetched, 0, limit), Len(fetched) > limit))
<1> DEFINE rows == Ordered(S, R)
           items == Slice(rows, w.offset, limit)
           fetched == Slice(rows, w.offset, limit + 1)
           more == Len(fetched) > limit
<1>1. items \in Seq(U) /\ rows \in Seq(U) /\ PageCounted(S, R, w, items, w.offset + limit < Len(rows))
  BY PageOnTrack
<1>2. w.offset \in Nat
  BY DEF Walks
<1> HIDE DEF rows
<1>3. Slice(fetched, 0, limit) = items /\ (more <=> w.offset + limit < Len(rows))
  BY <1>1, <1>2, FetchedPage
<1>4. PageCounted(S, R, w, items, more)
  BY <1>1, <1>3 DEF PageCounted
<1> HIDE DEF items, more
<1>5. WalkOnTrack(S, R, U, Turned(w, items, more))
  BY <1>1, <1>4, TurnedOnTrack
<1> QED
  BY <1>3, <1>5 DEF more, rows

\* A walk begins.
LEMMA BegunOnTrack ==
  ASSUME NEW U, NEW S, NEW R, Listing(S, R, U)
  PROVE  LET w == Begun(Ordered(S, R))
         IN  /\ w \in Walks(U) /\ w.state = "open" /\ w.offset = 0 /\ OnTrack(S, R, U, w)
<1> DEFINE rows == Ordered(S, R)
           w == Begun(rows)
<1>1. IsFiniteSet(S) /\ StrictOrder(S, R) /\ S \subseteq U /\ MaxDeparted \in Nat
  BY PagingAssumption, FS_Subset DEF Listing
<1>2. rows \in Seq(S)
  BY <1>1, OrderedRows
<1>3. ToSet(rows) \subseteq S
  BY <1>2 DEF ToSet
<1>4. w = [NoWalk EXCEPT !.state = "open", !.steady = ToSet(rows)]
  BY DEF Begun
<1> HIDE DEF rows
<1>5. w.state = "open" /\ w.offset = 0 /\ w.seen = {} /\ w.steady = ToSet(rows) /\ w.departed = 0
  BY <1>4 DEF NoWalk
<1>6. w \in Walks(U)
  <2>1. w = [state |-> "open", offset |-> 0, seen |-> {}, steady |-> ToSet(rows), departed |-> 0]
    BY <1>4 DEF NoWalk
  <2>2. ToSet(rows) \in SUBSET U /\ 0 \in 0..MaxDeparted
    BY <1>1, <1>3
  <2> HIDE DEF w
  <2> QED
    BY <2>1, <2>2 DEF Walks
<1> HIDE DEF w
<1>7. Skipped(S, R, w, w.seen, w.offset) = {}
  <2>1. \A x \in w.steady : Place(S, R, x) \in Nat /\ Place(S, R, x) >= 1
    BY <1>1, <1>3, <1>5, PlaceInRange
  <2> QED
    BY <1>5, <2>1 DEF Skipped
<1>8. OnTrack(S, R, U, w)
  BY <1>3, <1>5, <1>7, FS_EmptySet DEF OnTrack, Counted
<1> QED
  BY <1>5, <1>6, <1>8 DEF w, rows

-----------------------------------------------------------------------------
(* The walk over the contact list.                                         *)

Listable == Usable \cap Named

\* The walk is on track in the list as it is, and the next one will be too.
NameWalk ==
  /\ book \subseteq Usable /\ pulled \subseteq Usable
  /\ WalkOnTrack(Listed(book), NameOrder, Listable, walk)

LEMMA NameListing ==
  ASSUME NEW rows, rows \subseteq Usable
  PROVE  Listing(Listed(rows), NameOrder, Listable)
<1>1. /\ Usable \subseteq Nat /\ Usable \subseteq Contacts /\ IsFiniteSet(Usable)
      /\ Cardinality(Listable) <= MaxDeparted + 1
  BY ContactBookAssumption DEF Listable
<1>2. Listed(rows) \subseteq Listable /\ Listable \in SUBSET Usable
  BY DEF Listed, Listable
<1>3. StrictOrder(Listed(rows), NameOrder)
  <2>1. \A x, y \in Listed(rows) : x \in Nat /\ (<<x, y>> \in NameOrder <=> x < y)
    BY <1>1, <1>2 DEF NameOrder
  <2> QED
    BY <2>1, NatOrder
<1>4. IsFiniteSet(Listable)
  BY <1>1, <1>2, FS_Subset
<1> QED
  BY <1>1, <1>2, <1>3, <1>4 DEF Listing

LEMMA NoWalkIsWalk == ASSUME NEW U PROVE NoWalk \in Walks(U) /\ NoWalk.state = "none"
BY PagingAssumption DEF NoWalk, Walks

LEMMA NameInit == Init => NameWalk
BY NoWalkIsWalk DEF Init, NameWalk, WalkOnTrack

\* The store is replaced or emptied under the walk.
LEMMA ReplacedOnTrack ==
  ASSUME NameWalk, NEW rows, rows \subseteq Usable,
         LET gone == Listed(book) \ Listed(rows)
         IN  walk' = Disturbed(walk, gone, Cardinality(gone))
  PROVE  WalkOnTrack(Listed(rows), NameOrder, Listable, walk')
<1> DEFINE gone == Listed(book) \ Listed(rows)
           S == Listed(book)
           S2 == Listed(rows)
<1>1. Listing(S, NameOrder, Listable) /\ Listing(S2, NameOrder, Listable)
  BY NameListing DEF NameWalk
<1>2. Shifted(S, NameOrder, S2, NameOrder, Listable, gone, gone)
  BY <1>1 DEF Listing, Shifted, KeepsPlace
<1>3. WalkOnTrack(S, NameOrder, Listable, walk) /\ walk' = Disturbed(walk, gone, Cardinality(gone))
  BY DEF NameWalk
<1> HIDE DEF gone, S, S2
<1>4. WalkOnTrack(S2, NameOrder, Listable, Disturbed(walk, gone, Cardinality(gone)))
  BY <1>1, <1>2, <1>3, DisturbedWalk
<1> QED
  BY <1>3, <1>4 DEF S2

\* A page of names is turned.
LEMMA NamePageOnTrack ==
  ASSUME book \subseteq Usable, NEW limit \in Nat, NEW w \in Walks(Listable), w.state = "open",
         OnTrack(Listed(book), NameOrder, Listable, w)
  PROVE  WalkOnTrack(Listed(book), NameOrder, Listable, Page(w, limit))
<1>1. Listing(Listed(book), NameOrder, Listable)
  BY NameListing
<1> QED
  BY <1>1, FetchedOnTrack DEF Page, NamePage

LEMMA NameNext == ASSUME NameWalk, [Next]_vars PROVE NameWalk'
<1>1. CASE Commit
  <2>1. inserted \subseteq Usable /\ book' = inserted /\ pulled' = pulled
    BY <1>1 DEF Commit, NameWalk
  <2>2. LET gone == Listed(book) \ Listed(inserted)
        IN  walk' = Disturbed(walk, gone, Cardinality(gone))
    BY <1>1 DEF Commit
  <2>3. WalkOnTrack(Listed(inserted), NameOrder, Listable, walk')
    BY <2>1, <2>2, ReplacedOnTrack
  <2> QED
    BY <2>1, <2>3 DEF NameWalk
<1>2. CASE Restart
  <2>1. book' = {} /\ pulled' = {} /\ {} \subseteq Usable
    BY <1>2 DEF Restart
  <2>2. Listed(book) \ Listed({}) = Listed(book)
    BY DEF Listed
  <2>3. LET gone == Listed(book) \ Listed({})
        IN  walk' = Disturbed(walk, gone, Cardinality(gone))
    BY <1>2, <2>2 DEF Restart
  <2>4. WalkOnTrack(Listed({}), NameOrder, Listable, walk')
    BY <2>1, <2>3, ReplacedOnTrack
  <2> QED
    BY <2>1, <2>4 DEF NameWalk
<1>3. ASSUME NEW limit \in Limits, ContactPage(limit) PROVE NameWalk'
  <2>1. limit \in Nat /\ book' = book /\ pulled' = pulled /\ book \subseteq Usable
    BY <1>3, PagingAssumption DEF ContactPage, Limits, taskVars, NameWalk
  <2> DEFINE b == Begun(Ordered(Listed(book), NameOrder))
  <2>2. b \in Walks(Listable) /\ b.state = "open" /\ OnTrack(Listed(book), NameOrder, Listable, b)
    BY <2>1, NameListing, BegunOnTrack
  <2>3. b = Begun(NamePage)
    BY DEF NamePage
  <2> HIDE DEF b
  <2>4. WalkOnTrack(Listed(book), NameOrder, Listable, walk')
    <3>1. CASE walk.state # "open"
      <4>1. walk' = Page(b, limit)
        BY <1>3, <2>3, <3>1 DEF ContactPage
      <4> QED
        BY <2>1, <2>2, <4>1, NamePageOnTrack
    <3>2. CASE walk.state = "open" /\ walk.offset <= MaxOffset
      <4>1. walk' = Page(walk, limit)
        BY <1>3, <3>2 DEF ContactPage
      <4> QED
        BY <2>1, <3>2, <4>1, NamePageOnTrack DEF NameWalk, WalkOnTrack
    <3>3. CASE walk.state = "open" /\ ~(walk.offset <= MaxOffset)
      <4>1. walk' = NoWalk
        BY <1>3, <3>3 DEF ContactPage
      <4> QED
        BY <4>1, NoWalkIsWalk DEF WalkOnTrack
    <3> QED
      BY <3>1, <3>2, <3>3
  <2> QED
    BY <2>1, <2>4 DEF NameWalk
<1>4. CASE Leave
  <2>1. walk' = NoWalk /\ book' = book /\ pulled' = pulled
    BY <1>4 DEF Leave, taskVars
  <2>2. walk' \in Walks(Listable) /\ walk'.state = "none"
    BY <2>1, NoWalkIsWalk
  <2> QED
    BY <2>1, <2>2 DEF NameWalk, WalkOnTrack
<1>5. CASE \/ PhoneChanges \/ Pull \/ PullFails \/ Insert \/ InsertFails \/ Summarize \/ Wake
           \/ UNCHANGED vars
  <2>1. UNCHANGED <<book, walk>> /\ pulled' \subseteq Usable
    BY <1>5 DEF PhoneChanges, Pull, PullFails, Insert, InsertFails, Summarize, Wake, Sleep, Parsed,
                vars, taskVars, NameWalk
  <2> QED
    BY <2>1 DEF NameWalk
<1> QED
  BY <1>1, <1>2, <1>3, <1>4, <1>5 DEF Next, TaskStep, ClientStep

\* A client that pages through the contacts to the end while they are replaced
\* under it, or while the daemon restarts, misses no more of those that stayed
\* than have left: for any names, page sizes and any number of changes.
THEOREM NamesAreNotSkipped == Spec => []MissedAtMostDeparted
<1>1. NameWalk /\ [Next]_vars => NameWalk'
  BY NameNext
<1>2. NameWalk => MissedAtMostDeparted
  BY DEF NameWalk, WalkOnTrack, MissedAtMostDeparted
<1> QED
  BY NameInit, <1>1, <1>2, PTL DEF Spec

-----------------------------------------------------------------------------
(* The ids of conversations.                                               *)

\* Rows that have an id are found under it, a group's id is its key, and what a
\* client was told agrees with that.
Aliases ==
  /\ \A k \in DOMAIN key_to_id : /\ key_to_id[k] \in DOMAIN id_to_key
                                 /\ id_to_key[key_to_id[k]] = k
  /\ \A i \in Groups \cap DOMAIN id_to_key : id_to_key[i] = i
  /\ \A p \in told : p[1] \in Groups => p[1] = p[2]
  /\ IdsNameOneConversation

LEMMA AliasesInit == ChatInit => Aliases
<1> SUFFICES ASSUME ChatInit PROVE Aliases
  OBVIOUS
<1>1. DOMAIN key_to_id = {} /\ DOMAIN id_to_key = {} /\ told = {}
  BY DEF ChatInit
<1> QED
  BY <1>1 DEF Aliases, IdsNameOneConversation

\* The rows of a page get ids: those they have, a group its key, or fresh ones.
LEMMA ExposeKeepsAliases ==
  ASSUME Aliases, NEW done, NEW ids \in [done -> Ids \cup Groups],
         \A k \in done : ids[k] \in IdFor(k),
         \A j, k \in done : ids[j] = ids[k] => j = k,
         key_to_id' = Inserted(ids, key_to_id),
         id_to_key' = Inserted([i \in {ids[k] : k \in done} |-> CHOOSE k \in done : ids[k] = i],
                                    id_to_key),
         told' \subseteq told \cup {<<ids[k], k>> : k \in done}
  PROVE  Aliases'
<1> DEFINE new == {ids[k] : k \in done}
<1>1. /\ DOMAIN key_to_id' = done \cup DOMAIN key_to_id
      /\ \A k \in done : key_to_id'[k] = ids[k]
      /\ \A k \in DOMAIN key_to_id \ done : key_to_id'[k] = key_to_id[k]
  BY DEF Inserted
<1>2. \A k \in done : (CHOOSE j \in done : ids[j] = ids[k]) = k
  OBVIOUS
<1>3. /\ DOMAIN id_to_key' = new \cup DOMAIN id_to_key
      /\ \A i \in new : id_to_key'[i] = CHOOSE k \in done : ids[k] = i
      /\ \A i \in DOMAIN id_to_key \ new : id_to_key'[i] = id_to_key[i]
  BY DEF Inserted
<1>4. \A k \in done : ids[k] \in new /\ id_to_key'[ids[k]] = k
  BY <1>2, <1>3
<1>5. \A i \in new : \E k \in done : i = ids[k]
  OBVIOUS
<1> HIDE DEF new
<1>6. Ids \cap Groups = {}
  BY ConversationsAssumption DEF Keys
\* An id that has a meaning already, or was given away, keeps it.
<1>7. ASSUME NEW k \in done
      PROVE  \/ k \in DOMAIN key_to_id /\ ids[k] = key_to_id[k]
             \/ k \in Groups /\ ids[k] = k
             \/ ids[k] \in Ids /\ ids[k] \notin DOMAIN id_to_key /\ ids[k] \notin {p[1] : p \in told}
  BY <1>7 DEF IdFor, Fresh, Given
<1>8. ASSUME NEW k \in done, ids[k] \in DOMAIN id_to_key PROVE id_to_key[ids[k]] = k
  BY <1>7, <1>8 DEF Aliases
<1>9. ASSUME NEW k \in done, NEW p \in told, ids[k] = p[1] PROVE p[2] = k
  BY <1>7, <1>9 DEF Aliases, IdsNameOneConversation
<1>10. ASSUME NEW k \in done, ids[k] \in Groups PROVE ids[k] = k
  BY <1>6, <1>7, <1>10 DEF Aliases
<1>11. ASSUME NEW k \in DOMAIN key_to_id'
       PROVE  key_to_id'[k] \in DOMAIN id_to_key' /\ id_to_key'[key_to_id'[k]] = k
  <2>1. CASE k \in done
    BY <1>1, <1>3, <1>4, <2>1
  <2>2. CASE k \notin done
    <3>1. /\ k \in DOMAIN key_to_id /\ key_to_id'[k] = key_to_id[k]
          /\ key_to_id[k] \in DOMAIN id_to_key /\ id_to_key[key_to_id[k]] = k
      BY <1>1, <2>2 DEF Aliases
    <3>2. key_to_id[k] \notin new
      BY <1>5, <1>8, <2>2, <3>1
    <3> QED
      BY <1>3, <3>1, <3>2
  <2> QED
    BY <2>1, <2>2
<1>12. ASSUME NEW i \in Groups \cap DOMAIN id_to_key' PROVE id_to_key'[i] = i
  <2>1. CASE i \in new
    BY <1>4, <1>5, <1>10, <2>1
  <2>2. CASE i \notin new
    BY <1>3, <2>2 DEF Aliases
  <2> QED
    BY <2>1, <2>2
<1>13. ASSUME NEW p \in told'
       PROVE  /\ p[1] \in Groups => p[1] = p[2]
              /\ p[1] \in DOMAIN id_to_key' => id_to_key'[p[1]] = p[2]
  <2>1. CASE p \in told
    <3>1. CASE p[1] \in new
      BY <1>4, <1>5, <1>9, <2>1, <3>1 DEF Aliases
    <3>2. CASE p[1] \notin new
      BY <1>3, <2>1, <3>2 DEF Aliases, IdsNameOneConversation
    <3> QED
      BY <3>1, <3>2
  <2>2. CASE p \notin told
    <3>1. PICK k \in done : p = <<ids[k], k>>
      BY <2>2
    <3> QED
      BY <1>4, <1>10, <3>1
  <2> QED
    BY <2>1, <2>2
<1> QED
  BY <1>11, <1>12, <1>13 DEF Aliases, IdsNameOneConversation

LEMMA AliasesNext ==
  ASSUME Aliases, [ChatNext]_chatVars PROVE Aliases'
<1>1. CASE UNCHANGED <<key_to_id, id_to_key, told>>
  BY <1>1 DEF Aliases, IdsNameOneConversation
<1>2. CASE DaemonRestarts
  <2>1. DOMAIN key_to_id' = {} /\ DOMAIN id_to_key' = {} /\ told' = told
    BY <1>2 DEF DaemonRestarts
  <2> QED
    BY <2>1 DEF Aliases, IdsNameOneConversation
<1>3. CASE ExposeIds
  <2>1. PICK n \in 0..Len(request.items) :
          LET page == ToSet(request.items)
              done == ToSet(SubSeq(request.items, 1, n))
          IN  \E ids \in [done -> Ids \cup Groups] :
                /\ \A k \in done : ids[k] \in IdFor(k)
                /\ \A j, k \in done : ids[j] = ids[k] => j = k
                /\ key_to_id' = Inserted(ids, key_to_id)
                /\ id_to_key' = Inserted([i \in {ids[k] : k \in done} |->
                                            CHOOSE k \in done : ids[k] = i], id_to_key)
                /\ told' = IF done = page THEN told \cup {<<ids[k], k>> : k \in page} ELSE told
    BY <1>3, Zenon DEF ExposeIds
  <2> DEFINE page == ToSet(request.items)
             done == ToSet(SubSeq(request.items, 1, n))
  <2>2. PICK ids \in [done -> Ids \cup Groups] :
          /\ \A k \in done : ids[k] \in IdFor(k)
          /\ \A j, k \in done : ids[j] = ids[k] => j = k
          /\ key_to_id' = Inserted(ids, key_to_id)
          /\ id_to_key' = Inserted([i \in {ids[k] : k \in done} |->
                                      CHOOSE k \in done : ids[k] = i], id_to_key)
          /\ told' = IF done = page THEN told \cup {<<ids[k], k>> : k \in page} ELSE told
    BY <2>1
  <2> HIDE DEF page, done
  <2>3. told' \subseteq told \cup {<<ids[k], k>> : k \in done}
    BY <2>2
  <2> QED
    BY <2>2, <2>3, ExposeKeepsAliases
<1>4. CASE StoreStep \/ UNCHANGED chatVars
  <2>1. UNCHANGED <<key_to_id, id_to_key, told>>
    BY <1>4 DEF StoreStep, Arrive, Rekey, chatVars, aliasVars
  <2> QED
    BY <1>1, <2>1
<1>5. CASE ReaderStep /\ ~ExposeIds
  <2>1. UNCHANGED <<key_to_id, id_to_key, told>>
    BY <1>5 DEF ReaderStep, ReadConversations, Fail, ConversationMessages,
                aliasVars
  <2> QED
    BY <1>1, <2>1
<1> QED
  BY <1>2, <1>3, <1>4, <1>5 DEF ChatNext

\* An id the client was ever given means the conversation it was given for, or
\* nothing at all, whatever pages are lost halfway and however often the daemon
\* restarts.
THEOREM IdsStayTrue ==
  ChatSpec => []IdsNameOneConversation
<1>1. Aliases /\ [ChatNext]_chatVars => Aliases'
  BY AliasesNext
<1>2. Aliases => IdsNameOneConversation
  BY DEF Aliases
<1> QED
  BY AliasesInit, <1>1, <1>2, PTL DEF ChatSpec

-----------------------------------------------------------------------------
(* The walks over conversations and their messages.                        *)

Logs == {l \in Seq([origin : Keys, key : Keys, time : Times]) : Len(l) <= MaxMessages}

Places == 1..MaxMessages

LEMMA LogEntries ==
  ASSUME NEW l \in Logs
  PROVE  /\ Len(l) \in Nat /\ DOMAIN l = 1..Len(l) /\ DOMAIN l \subseteq Places
         /\ \A i \in DOMAIN l : /\ l[i] \in [origin : Keys, key : Keys, time : Times]
                                /\ l[i].time \in Nat \ {0}
<1> DEFINE E == [origin : Keys, key : Keys, time : Times]
<1>1. Times \subseteq Nat \ {0} /\ MaxMessages \in Nat
  BY ConversationsAssumption
<1>2. l \in Seq(E) /\ Len(l) <= MaxMessages
  BY DEF Logs
<1>3. \A e \in E : e.time \in Nat \ {0}
  BY <1>1
<1> HIDE DEF E
<1>4. Len(l) \in Nat /\ DOMAIN l = 1..Len(l) /\ \A i \in DOMAIN l : l[i] \in E
  BY <1>2
<1>5. DOMAIN l \subseteq Places
  BY <1>1, <1>2, <1>4 DEF Places
<1> QED
  BY <1>3, <1>4, <1>5 DEF E

LEMMA LargestOne ==
  ASSUME NEW A, IsFiniteSet(A), A \in SUBSET Nat, A # {} PROVE \E x \in A : \A y \in A : x >= y
<1> DEFINE R == {p \in Nat \X Nat : p[1] < p[2]}
<1>1. \A x, y \in A : x \in Nat /\ (<<x, y>> \in R <=> x < y)
  OBVIOUS
<1> HIDE DEF R
<1>2. StrictOrder(A, R)
  BY <1>1, NatOrder
<1>3. ASSUME NEW B \in SUBSET A, B # {} PROVE \E x \in B : \A y \in B : y = x \/ <<y, x>> \in R
  <2>1. IsFiniteSet(A) /\ StrictOrder(A, R) /\ B \in SUBSET A /\ B # {}
    BY <1>2, <1>3
  <2> QED
    BY ONLY <2>1, LastOne
<1>4. PICK x \in A : \A y \in A : y = x \/ <<y, x>> \in R
  BY ONLY <1>3, A # {}, A \in SUBSET A, Zenon
<1>5. ASSUME NEW y \in A PROVE x >= y
  <2>1. y = x \/ <<y, x>> \in R
    BY <1>4
  <2>2. x \in Nat /\ y \in Nat /\ (<<y, x>> \in R <=> y < x)
    BY <1>1
  <2> QED
    BY <2>1, <2>2
<1> QED
  BY <1>5

\* A timestamp is positive, so that a conversation without messages is told by
\* the latest one.
LEMMA LatestTells ==
  ASSUME NEW l \in Logs, NEW k \in Keys
  PROVE  Latest(l, k) \in Nat /\ (k \in Talking(l) <=> Latest(l, k) # 0)
<1> DEFINE T == {l[i].time : i \in Of(l, k)}
           A == {0} \cup T
<1>1. \A i \in DOMAIN l : l[i].time \in Nat /\ l[i].time # 0
  BY LogEntries
<1>2. Of(l, k) \in SUBSET (1..Len(l)) /\ Len(l) \in Nat
  BY LogEntries DEF Of
<1>3. IsFiniteSet(Of(l, k))
  <2>1. IsFiniteSet(1..Len(l))
    BY <1>2, FS_Interval
  <2> QED
    BY <1>2, <2>1, FS_Subset
<1>4. IsFiniteSet(T)
  <2> DEFINE O == Of(l, k)
             f == [i \in O |-> l[i].time]
  <2>1. f \in Surjection(O, T)
    BY DEF Surjection
  <2> HIDE DEF O, T, f
  <2> QED
    BY <1>3, <2>1, FS_Surjection DEF O
<1>5. T \in SUBSET Nat /\ 0 \notin T
  BY <1>1 DEF Of
<1>6. T = {} <=> Of(l, k) = {}
  OBVIOUS
<1> HIDE DEF T
<1>7. IsFiniteSet(A) /\ A \in SUBSET Nat /\ A # {}
  <2>1. IsFiniteSet({0})
    BY FS_Singleton
  <2>2. IsFiniteSet({0} \cup T)
    BY ONLY <1>4, <2>1, FS_Union
  <2> QED
    BY <1>5, <2>2
<1> HIDE DEF A
<1>8. PICK x \in A : \A y \in A : x >= y
  BY <1>7, LargestOne
<1>9. Latest(l, k) = CHOOSE z \in A : \A y \in A : z >= y
  BY DEF Latest, Max, A, T
<1>10. Latest(l, k) \in A /\ \A y \in A : Latest(l, k) >= y
  BY <1>8, <1>9
<1>11. Latest(l, k) \in Nat
  BY <1>7, <1>10
<1>12. CASE T = {}
  BY <1>6, <1>10, <1>11, <1>12 DEF A, Talking
<1>13. CASE T # {}
  <2>1. PICK t \in T : TRUE
    BY <1>13
  <2>2. t \in Nat /\ t # 0 /\ t \in A
    BY <1>5, <2>1 DEF A
  <2>3. Latest(l, k) # 0
    BY <1>10, <1>11, <2>2
  <2> QED
    BY <1>6, <1>11, <1>13, <2>3 DEF Talking
<1> QED
  BY <1>12, <1>13

LEMMA ThreadListing ==
  ASSUME NEW l \in Logs
  PROVE  Listing(Talking(l), ThreadOrder(l), Keys)
<1> DEFINE S == Talking(l)
           R == ThreadOrder(l)
           t(k) == Latest(l, k)
<1>1. IsFiniteSet(Keys) /\ Cardinality(Keys) <= MaxDeparted + 1 /\ Keys \subseteq Nat
  BY ConversationsAssumption
<1>2. S \subseteq Keys
  BY DEF Talking
<1>3. \A k \in Keys : t(k) \in Nat
  BY LatestTells
<1>4. ASSUME NEW x \in S, NEW y \in S
      PROVE  /\ x \in Nat /\ t(x) \in Nat
             /\ <<x, y>> \in R <=> t(x) > t(y) \/ (t(x) = t(y) /\ x < y)
  BY <1>1, <1>2, <1>3 DEF ThreadOrder
<1> HIDE DEF S, R, t
<1>5. \A x, y \in S : <<x, y>> \in R => <<y, x>> \notin R
  BY <1>4
<1>6. \A x, y \in S : x # y => <<x, y>> \in R \/ <<y, x>> \in R
  BY <1>4
<1>7. \A x, y, z \in S : <<x, y>> \in R /\ <<y, z>> \in R => <<x, z>> \in R
  <2> SUFFICES ASSUME NEW x \in S, NEW y \in S, NEW z \in S, <<x, y>> \in R, <<y, z>> \in R
               PROVE  <<x, z>> \in R
    OBVIOUS
  <2>1. /\ t(x) > t(y) \/ (t(x) = t(y) /\ x < y)
        /\ t(y) > t(z) \/ (t(y) = t(z) /\ y < z)
        /\ x \in Nat /\ y \in Nat /\ z \in Nat /\ t(x) \in Nat /\ t(y) \in Nat /\ t(z) \in Nat
    BY <1>4
  <2>2. t(x) > t(z) \/ (t(x) = t(z) /\ x < z)
    BY <2>1
  <2> QED
    BY <1>4, <2>2
<1>8. StrictOrder(S, R)
  BY <1>5, <1>6, <1>7, Zenon DEF StrictOrder
<1> QED
  BY <1>1, <1>2, <1>8 DEF Listing, S, R

LEMMA MessageListing ==
  ASSUME NEW l \in Logs, NEW k
  PROVE  Listing(Of(l, k), MessageOrder(l), Places)
<1> DEFINE S == Of(l, k)
           R == MessageOrder(l)
<1>1. MaxMessages \in Nat /\ MaxMessages <= MaxDeparted + 1 /\ Times \subseteq Nat
  BY ConversationsAssumption
<1>2. IsFiniteSet(Places) /\ Cardinality(Places) <= MaxDeparted + 1
  <2>1. IsFiniteSet(Places) /\ Cardinality(Places) = MaxMessages
    BY <1>1, FS_Interval DEF Places
  <2> QED
    BY <1>1, <2>1
<1>3. S \subseteq DOMAIN l /\ DOMAIN l \subseteq Places /\ DOMAIN l \subseteq Nat
  BY LogEntries DEF Of
<1>4. \A i \in DOMAIN l : l[i].time \in Nat
  BY LogEntries
<1>5. ASSUME NEW x \in S, NEW y \in S
      PROVE  /\ x \in Nat /\ l[x].time \in Nat
             /\ <<x, y>> \in R <=> l[x].time > l[y].time \/ (l[x].time = l[y].time /\ x > y)
  BY <1>3, <1>4 DEF MessageOrder
<1> HIDE DEF S, R
<1>6. \A x, y \in S : <<x, y>> \in R => <<y, x>> \notin R
  BY <1>5
<1>7. \A x, y \in S : x # y => <<x, y>> \in R \/ <<y, x>> \in R
  BY <1>5
<1>8. \A x, y, z \in S : <<x, y>> \in R /\ <<y, z>> \in R => <<x, z>> \in R
  <2> SUFFICES ASSUME NEW x \in S, NEW y \in S, NEW z \in S, <<x, y>> \in R, <<y, z>> \in R
               PROVE  <<x, z>> \in R
    OBVIOUS
  <2> DEFINE t(i) == l[i].time
  <2>1. /\ t(x) > t(y) \/ (t(x) = t(y) /\ x > y)
        /\ t(y) > t(z) \/ (t(y) = t(z) /\ y > z)
        /\ x \in Nat /\ y \in Nat /\ z \in Nat /\ t(x) \in Nat /\ t(y) \in Nat /\ t(z) \in Nat
    BY <1>5
  <2> HIDE DEF t
  <2>2. t(x) > t(z) \/ (t(x) = t(z) /\ x > z)
    BY <2>1
  <2> QED
    BY <1>5, <2>2 DEF t
<1>9. StrictOrder(S, R)
  BY <1>6, <1>7, <1>8, Zenon DEF StrictOrder
<1> QED
  BY <1>2, <1>3, <1>9 DEF Listing, S, R

Inboxed(w, l) == WalkOnTrack(Talking(l), ThreadOrder(l), Keys, w)

Read(w, l, k) == WalkOnTrack(Of(l, k), MessageOrder(l), Places, w)

\* The page of a request that waits for its ids, of a walk over the log l.
Waiting(w, l, items, more) ==
  PageCounted(Talking(l), ThreadOrder(l), w, items, more)

\* An id has been given away for one conversation only.
OneKey == told \subseteq (Ids \cup Groups) \X Keys /\ \A p, q \in told : p[1] = q[1] => p[2] = q[2]

\* The walk is on track in the list that the client is in, whichever it is, and
\* so is the page that is on its way to it.
ChatWalk ==
  /\ Aliases /\ OneKey /\ log \in Logs
  /\ subject \in {None, Inbox} \cup Given
  /\ subject = None => walk.state # "open"
  /\ walk.state = "complete" => Cardinality(walk.steady) <= walk.departed
  /\ subject = Inbox => Inboxed(walk, log)
  /\ \A p \in told : subject = p[1] => Read(walk, log, p[2])
  /\ request # Idle => /\ subject = Inbox /\ walk.state = "open"
                       /\ request.items \in Seq(Keys)
                       /\ Waiting(walk, log, request.items, request.more)

LEMMA ChatWalkInit == ASSUME ChatInit PROVE ChatWalk
<1>1. Aliases
  BY AliasesInit
<1>2. log = <<>> /\ told = {} /\ request = Idle /\ subject = None /\ walk = NoWalk
  BY DEF ChatInit
<1>3. log \in Logs
  BY <1>2, ConversationsAssumption DEF Logs
<1>4. walk.state = "none"
  BY <1>2 DEF NoWalk
<1>5. None # Inbox
  BY ConversationsAssumption
<1> QED
  BY <1>1, <1>2, <1>3, <1>4, <1>5 DEF ChatWalk, OneKey

\* The messages change: one arrives, or one is moved.
LEMMA StoreChange ==
  ASSUME ChatWalk, NEW l \in Logs, DOMAIN log \subseteq DOMAIN l,
         \A i \in DOMAIN log : l[i].time = log[i].time
  PROVE  LET w == WalkOn(l)
         IN  /\ w.state = walk.state
             /\ w.state = "complete" => Cardinality(w.steady) <= w.departed
             /\ subject = Inbox => Inboxed(w, l)
             /\ \A p \in told : subject = p[1] => Read(w, l, p[2])
             /\ request # Idle => Waiting(w, l, request.items, request.more)
<1> DEFINE w == WalkOn(l)
<1>1. log \in Logs
  BY DEF ChatWalk
<1>2. CASE subject = Inbox
  <2> DEFINE t(k) == Latest(log, k)
             t2(k) == Latest(l, k)
             moved == {k \in Keys : t2(k) # t(k)}
             gone == {k \in Keys : t2(k) < t(k)}
             S == Talking(log)
             S2 == Talking(l)
             R == ThreadOrder(log)
             R2 == ThreadOrder(l)
  <2>1. w = Disturbed(walk, moved, Cardinality(gone))
    BY <1>2 DEF WalkOn
  <2>2. \A k \in Keys : /\ t(k) \in Nat /\ t2(k) \in Nat /\ k \in Nat
                        /\ k \in S <=> t(k) # 0
                        /\ k \in S2 <=> t2(k) # 0
    BY <1>1, LatestTells, ConversationsAssumption
  <2>3. S \subseteq Keys /\ S2 \subseteq Keys
    BY DEF Talking
  <2>4. \A x, y \in Keys : /\ <<y, x>> \in R <=> t(y) > t(x) \/ (t(y) = t(x) /\ y < x)
                           /\ <<y, x>> \in R2 <=> t2(y) > t2(x) \/ (t2(y) = t2(x) /\ y < x)
    BY DEF ThreadOrder
  <2>5. Listing(S, R, Keys) /\ Listing(S2, R2, Keys)
    BY <1>1, ThreadListing
  <2>6. WalkOnTrack(S, R, Keys, walk)
    BY <1>2 DEF ChatWalk, Inboxed
  <2> HIDE DEF t, t2, S, S2, R, R2, w
  <2>7. gone \in SUBSET Keys /\ gone \subseteq moved /\ S \ moved \subseteq S2
    <3>1. gone \in SUBSET Keys
      OBVIOUS
    <3>2. \A k \in Keys : t2(k) < t(k) => t2(k) # t(k)
      BY <2>2
    <3>3. gone \subseteq moved
      BY <3>2
    <3>4. ASSUME NEW k \in S \ moved PROVE k \in S2
      BY <2>2, <2>3
    <3> QED
      BY <3>1, <3>3, <3>4
  <2>8. KeepsPlace(S, R, S2, R2, gone, S \ moved)
    <3> SUFFICES ASSUME NEW y \in S \ gone, NEW x \in S \ moved, <<y, x>> \in R
                 PROVE  y \in S2 /\ <<y, x>> \in R2
      BY DEF KeepsPlace
    <3>1. /\ x \in Keys /\ y \in Keys /\ t(x) \in Nat /\ t(y) \in Nat
          /\ t2(x) \in Nat /\ t2(y) \in Nat
          /\ t2(x) = t(x) /\ t2(y) >= t(y) /\ t(y) # 0
      BY <2>2, <2>3
    <3>2. t(y) > t(x) \/ (t(y) = t(x) /\ y < x)
      BY <2>4, <3>1
    <3>3. t2(y) > t2(x) \/ (t2(y) = t2(x) /\ y < x)
      BY <3>1, <3>2
    <3> QED
      BY <2>2, <2>4, <3>1, <3>3
  <2> HIDE DEF moved, gone
  <2> DEFINE w2 == Disturbed(walk, moved, Cardinality(gone))
  <2>9. /\ WalkOnTrack(S2, R2, Keys, w2) /\ w2.state = walk.state
        /\ \A items, more : walk.state = "open" /\ items \in Seq(Keys) /\ PageCounted(S, R, walk, items, more)
                              => PageCounted(S2, R2, w2, items, more)
    <3>1. Shifted(S, R, S2, R2, Keys, moved, gone)
      BY <2>7, <2>8 DEF Shifted
    <3> QED
      BY <2>5, <2>6, <3>1, DisturbedWalk
  <2>10. w = w2
    BY <2>1
  <2> HIDE DEF w2
  <2>11. w.state = "complete" => Cardinality(w.steady) <= w.departed
    BY <2>9, <2>10 DEF WalkOnTrack
  <2>12. Inboxed(w, l)
    BY <2>9, <2>10 DEF Inboxed, S2, R2
  <2>13. \A p \in told : subject # p[1]
    BY <1>2, ConversationsAssumption DEF ChatWalk, OneKey, Keys
  <2>14. ASSUME request # Idle PROVE Waiting(w, l, request.items, request.more)
    <3>1. walk.state = "open" /\ request.items \in Seq(Keys)
          /\ PageCounted(S, R, walk, request.items, request.more)
      BY <2>14 DEF ChatWalk, Waiting, S, R
    <3> QED
      BY <2>9, <2>10, <3>1 DEF Waiting, S2, R2
  <2> QED
    BY <1>2, <2>9, <2>10, <2>11, <2>12, <2>13, <2>14 DEF w
<1>3. CASE subject # Inbox
  <2> DEFINE gone == {i \in DOMAIN log : <<subject, log[i].key>> \in told /\ l[i].key # log[i].key}
  <2>1. w = Disturbed(walk, gone, Cardinality(gone))
    BY <1>3 DEF WalkOn
  <2>2. request = Idle
    BY <1>3 DEF ChatWalk
  <2>3. CASE subject \in Given
    <3>1. PICK p \in told : subject = p[1]
      BY <2>3 DEF Given
    <3> DEFINE k == p[2]
               S == Of(log, k)
               S2 == Of(l, k)
               R == MessageOrder(log)
               R2 == MessageOrder(l)
    <3>2. \A q \in told : q[1] = subject => q[2] = k
      BY <3>1 DEF ChatWalk, OneKey
    <3>3. \A i \in gone : i \in S /\ i \notin S2
      <4> SUFFICES ASSUME NEW i \in gone PROVE log[i].key = k /\ i \in DOMAIN log /\ l[i].key # k
        BY DEF Of
      <4>1. <<subject, log[i].key>> \in told /\ l[i].key # log[i].key /\ i \in DOMAIN log
        OBVIOUS
      <4>2. log[i].key = k
        BY <3>2, <4>1
      <4> QED
        BY <4>1, <4>2
    <3>4. \A i \in S \ gone : i \in S2
      <4> SUFFICES ASSUME NEW i \in S \ gone PROVE i \in S2
        OBVIOUS
      <4>1. i \in DOMAIN log /\ i \in DOMAIN l /\ log[i].key = k
        BY DEF Of
      <4>2. <<subject, k>> = p
        BY <3>1 DEF ChatWalk, OneKey
      <4>3. l[i].key = log[i].key
        BY <4>1, <4>2
      <4> QED
        BY <4>1, <4>3 DEF Of
    <3>5. Listing(S, R, Places) /\ Listing(S2, R2, Places)
      BY <1>1, MessageListing
    <3>6. WalkOnTrack(S, R, Places, walk)
      BY <3>1 DEF ChatWalk, Read
    <3>7. gone \in SUBSET Places /\ gone \subseteq gone /\ S \ gone \subseteq S2
      BY <3>3, <3>4, <3>5 DEF Listing
    <3>8. KeepsPlace(S, R, S2, R2, gone, S \ gone)
      <4>1. S \subseteq DOMAIN log
        BY DEF Of
      <4>2. \A x, y \in DOMAIN log : <<y, x>> \in R => <<y, x>> \in R2
        BY DEF MessageOrder
      <4> HIDE DEF S, S2, R, R2, gone
      <4> QED
        BY <3>4, <4>1, <4>2 DEF KeepsPlace
    <3> HIDE DEF S, S2, R, R2, gone, w
    <3> DEFINE w2 == Disturbed(walk, gone, Cardinality(gone))
    <3>9. WalkOnTrack(S2, R2, Places, w2) /\ w2.state = walk.state
      <4>1. Shifted(S, R, S2, R2, Places, gone, gone)
        BY <3>7, <3>8 DEF Shifted
      <4> QED
        BY <3>5, <3>6, <4>1, DisturbedWalk
    <3>10. w = w2
      BY <2>1
    <3> HIDE DEF w2
    <3>11. w.state = "complete" => Cardinality(w.steady) <= w.departed
      BY <3>9, <3>10 DEF WalkOnTrack
    <3>12. \A q \in told : subject = q[1] => Read(w, l, q[2])
      BY <3>2, <3>9, <3>10 DEF Read, S2, R2
    <3> QED
      BY <1>3, <2>2, <3>9, <3>10, <3>11, <3>12 DEF w
  <2>4. CASE subject \notin Given
    <3>1. walk.state # "open"
      BY <1>3, <2>4 DEF ChatWalk
    <3>2. w = walk
      BY <2>1, <3>1 DEF Disturbed
    <3>3. \A p \in told : subject # p[1]
      BY <2>4 DEF Given
    <3> HIDE DEF w
    <3>4. w.state = walk.state /\ (w.state = "complete" => Cardinality(w.steady) <= w.departed)
      BY <3>2 DEF ChatWalk
    <3> QED
      BY <1>3, <2>2, <3>3, <3>4 DEF w
  <2> QED
    BY <2>3, <2>4
<1> QED
  BY <1>2, <1>3

LEMMA StoreKeepsWalk ==
  ASSUME ChatWalk, Aliases', NEW l \in Logs,
         DOMAIN log \subseteq DOMAIN l, \A i \in DOMAIN log : l[i].time = log[i].time,
         log' = l, walk' = WalkOn(l), UNCHANGED <<request, subject, told>>
  PROVE  ChatWalk'
<1> DEFINE w == WalkOn(l)
<1>1. /\ w.state = walk.state
      /\ w.state = "complete" => Cardinality(w.steady) <= w.departed
      /\ subject = Inbox => Inboxed(w, l)
      /\ \A p \in told : subject = p[1] => Read(w, l, p[2])
      /\ request # Idle => Waiting(w, l, request.items, request.more)
  BY StoreChange
<1> HIDE DEF w
<1>2. walk' = w
  BY DEF w
<1>3. OneKey'
  BY DEF ChatWalk, OneKey
<1>4. /\ log' \in Logs /\ subject' \in {None, Inbox} \cup Given'
      /\ subject' = None => walk'.state # "open"
  BY <1>1, <1>2 DEF ChatWalk, Given
<1>5. /\ subject' = Inbox => Inboxed(walk', log')
      /\ \A p \in told' : subject' = p[1] => Read(walk', log', p[2])
  BY <1>1, <1>2
<1>6. request' # Idle => /\ subject' = Inbox /\ walk'.state = "open"
                         /\ request'.items \in Seq(Keys)
                         /\ Waiting(walk', log', request'.items, request'.more)
  BY <1>1, <1>2 DEF ChatWalk
<1> QED
  BY <1>1, <1>2, <1>3, <1>4, <1>5, <1>6 DEF ChatWalk, Logs

\* The ids a page is given keep every id to one conversation.
LEMMA ExposeKeepsOneKey ==
  ASSUME Aliases, OneKey, NEW done \in SUBSET Keys,
         NEW ids \in [done -> Ids \cup Groups],
         \A k \in done : ids[k] \in IdFor(k),
         \A j, k \in done : ids[j] = ids[k] => j = k,
         told' \subseteq told \cup {<<ids[k], k>> : k \in done}
  PROVE  OneKey'
<1>1. ASSUME NEW k \in done, NEW p \in told, ids[k] = p[1] PROVE p[2] = k
  <2>1. \/ k \in DOMAIN key_to_id /\ ids[k] = key_to_id[k]
        \/ k \in Groups /\ ids[k] = k
        \/ ids[k] \in Ids /\ ids[k] \notin {q[1] : q \in told}
    BY DEF IdFor, Fresh, Given
  <2> QED
    BY <1>1, <2>1 DEF Aliases, IdsNameOneConversation
<1>2. told' \subseteq (Ids \cup Groups) \X Keys
  BY DEF OneKey
<1>3. ASSUME NEW p \in told', NEW q \in told', p[1] = q[1] PROVE p[2] = q[2]
  <2>1. CASE p \in told /\ q \in told
    BY <1>3, <2>1 DEF OneKey
  <2>2. CASE p \in told /\ q \notin told
    <3>1. PICK k \in done : q = <<ids[k], k>>
      BY <2>2
    <3> QED
      BY <1>1, <1>3, <2>2, <3>1
  <2>3. CASE p \notin told /\ q \in told
    <3>1. PICK k \in done : p = <<ids[k], k>>
      BY <2>3
    <3> QED
      BY <1>1, <1>3, <2>3, <3>1
  <2>4. CASE p \notin told /\ q \notin told
    <3>1. PICK j \in done : p = <<ids[j], j>>
      BY <2>4
    <3>2. PICK k \in done : q = <<ids[k], k>>
      BY <2>4
    <3> QED
      BY <1>3, <3>1, <3>2
  <2> QED
    BY <2>1, <2>2, <2>3, <2>4
<1> QED
  BY <1>2, <1>3 DEF OneKey

LEMMA ExposeKeepsWalk ==
  ASSUME ChatWalk, Aliases', ExposeIds PROVE ChatWalk'
<1>1. /\ subject = Inbox /\ walk.state = "open" /\ request.items \in Seq(Keys)
      /\ Waiting(walk, log, request.items, request.more) /\ Inboxed(walk, log)
  <2>1. request # Idle
    BY DEF ExposeIds, Idle
  <2> QED
    BY <2>1 DEF ChatWalk
<1>2. PICK n \in 0..Len(request.items) :
        LET page == ToSet(request.items)
            done == ToSet(SubSeq(request.items, 1, n))
        IN  /\ \E ids \in [done -> Ids \cup Groups] :
                 /\ \A k \in done : ids[k] \in IdFor(k)
                 /\ \A j, k \in done : ids[j] = ids[k] => j = k
                 /\ told' = IF done = page THEN told \cup {<<ids[k], k>> : k \in page} ELSE told
            /\ walk' = IF done = page THEN Turned(walk, request.items, request.more) ELSE walk
            /\ subject' = IF walk'.state = "open" THEN Inbox ELSE None
  BY Zenon DEF ExposeIds
<1> DEFINE page == ToSet(request.items)
           done == ToSet(SubSeq(request.items, 1, n))
<1>3. PICK ids \in [done -> Ids \cup Groups] :
        /\ \A k \in done : ids[k] \in IdFor(k)
        /\ \A j, k \in done : ids[j] = ids[k] => j = k
        /\ told' = IF done = page THEN told \cup {<<ids[k], k>> : k \in page} ELSE told
  BY <1>2
<1>4. /\ walk' = walk \/ walk' = Turned(walk, request.items, request.more)
      /\ subject' = IF walk'.state = "open" THEN Inbox ELSE None
  BY <1>2
<1>5. done \in SUBSET Keys
  <2>1. SubSeq(request.items, 1, n) \in Seq(Keys)
    <3>1. Len(request.items) \in Nat /\ \A i \in 1..Len(request.items) : request.items[i] \in Keys
      BY <1>1
    <3>2. 1 \in Int /\ n \in Int /\ \A i \in 1..n : request.items[i] \in Keys
      BY <3>1
    <3> QED
      BY <3>2, SubSeqProperties
  <2> QED
    BY <2>1 DEF ToSet
<1> HIDE DEF page, done
<1>6. told' \subseteq told \cup {<<ids[k], k>> : k \in done}
  BY <1>3
<1>7. OneKey'
  <2>1. Aliases /\ OneKey
    BY DEF ChatWalk
  <2> QED
    BY <1>3, <1>5, <1>6, <2>1, ExposeKeepsOneKey
<1>8. Inboxed(walk', log)
  <2>1. Listing(Talking(log), ThreadOrder(log), Keys)
    BY ThreadListing DEF ChatWalk
  <2>2. /\ walk \in Walks(Keys)
        /\ OnTrack(Talking(log), ThreadOrder(log), Keys, walk)
    BY <1>1 DEF Inboxed, WalkOnTrack
  <2>3. WalkOnTrack(Talking(log), ThreadOrder(log), Keys,
                    Turned(walk, request.items, request.more))
    BY <1>1, <2>1, <2>2, TurnedOnTrack DEF Waiting
  <2> QED
    BY <1>1, <1>4, <2>3 DEF Inboxed
<1>9. request' = Idle /\ log' = log
  BY DEF ExposeIds
<1>10. \A p \in told' : p[1] # Inbox /\ p[1] # None
  BY <1>7, ConversationsAssumption DEF OneKey, Keys
<1>11. walk'.state = "complete" => Cardinality(walk'.steady) <= walk'.departed
  BY <1>8 DEF Inboxed, WalkOnTrack
<1>12. (subject' = None => walk'.state # "open") /\ subject' \in {None, Inbox}
  BY <1>4, ConversationsAssumption
<1> QED
  BY <1>7, <1>8, <1>9, <1>10, <1>11, <1>12 DEF ChatWalk, Logs

LEMMA ReadKeepsWalk ==
  ASSUME ChatWalk, Aliases', NEW limit \in Limits,
         ReadConversations(limit)
  PROVE  ChatWalk'
<1> DEFINE S == Talking(log)
           R == ThreadOrder(log)
           rows == Ordered(S, R)
           w == IF subject = Inbox /\ walk.state = "open" THEN walk ELSE Begun(rows)
           items == Slice(rows, w.offset, limit)
           more == w.offset + limit < Len(rows)
<1>1. /\ subject' = Inbox /\ walk' = w /\ UNCHANGED <<log, told>>
      /\ request' = [step |-> "named", items |-> items, more |-> more]
  BY DEF ReadConversations, Threads
<1>2. log \in Logs /\ OneKey /\ limit \in Nat
  BY PagingAssumption DEF ChatWalk, Limits
<1>3. Listing(S, R, Keys)
  BY <1>2, ThreadListing
<1> HIDE DEF S, R
<1>4. w \in Walks(Keys) /\ w.state = "open" /\ OnTrack(S, R, Keys, w)
  <2>1. CASE subject = Inbox /\ walk.state = "open"
    BY <2>1 DEF ChatWalk, Inboxed, WalkOnTrack, S, R
  <2>2. CASE ~(subject = Inbox /\ walk.state = "open")
    BY <1>3, <2>2, BegunOnTrack
  <2> QED
    BY <2>1, <2>2
<1> HIDE DEF w
<1>5. items \in Seq(Keys) /\ PageCounted(S, R, w, items, more)
  BY <1>2, <1>3, <1>4, PageOnTrack
<1> HIDE DEF items, more
<1>6. Inboxed(walk', log')
  BY <1>1, <1>4 DEF Inboxed, WalkOnTrack, S, R
<1>7. /\ request'.items \in Seq(Keys)
      /\ Waiting(walk', log', request'.items, request'.more)
  BY <1>1, <1>5 DEF Waiting, S, R
<1>8. OneKey' /\ \A p \in told' : p[1] # Inbox
  BY <1>1, <1>2, ConversationsAssumption DEF OneKey, Keys
<1>9. Inbox # None
  BY ConversationsAssumption
<1> QED
  BY <1>1, <1>2, <1>4, <1>6, <1>7, <1>8, <1>9 DEF ChatWalk, Logs

LEMMA MessagesKeepWalk ==
  ASSUME ChatWalk, Aliases', NEW id \in Given, NEW limit \in Limits,
         ConversationMessages(id, limit)
  PROVE  ChatWalk'
<1> DEFINE continued == subject = id /\ walk.state = "open"
           k == id_to_key[id]
           S == Of(log, k)
           R == MessageOrder(log)
           rows == Ordered(S, R)
           w == IF continued THEN walk ELSE Begun(rows)
<1>1. UNCHANGED <<log, told, request>> /\ request = Idle
  BY DEF ConversationMessages
<1>2. log \in Logs /\ OneKey /\ limit \in Nat
  BY PagingAssumption DEF ChatWalk, Limits
<1>3. OneKey' /\ \A p \in told : p[1] # Inbox /\ p[1] # None
  BY <1>1, <1>2, ConversationsAssumption DEF OneKey, Keys
<1>4. Inbox # None
  BY ConversationsAssumption
<1>5. CASE subject' = None /\ walk' = NoWalk
  <2>1. walk'.state = "none"
    BY <1>5 DEF NoWalk
  <2> QED
    BY <1>1, <1>2, <1>3, <1>4, <1>5, <2>1 DEF ChatWalk, Logs
<1>6. CASE /\ id \in DOMAIN id_to_key
           /\ LET fetched == Slice(rows, w.offset, limit + 1)
              IN  walk' = Turned(w, Slice(fetched, 0, limit), Len(fetched) > limit)
           /\ subject' = IF walk'.state = "open" THEN id ELSE None
  <2>1. \A p \in told : p[1] = id => p[2] = k
    BY <1>6 DEF ChatWalk, Aliases, IdsNameOneConversation
  <2>2. Listing(S, R, Places)
    BY <1>2, MessageListing
  <2>3. continued => WalkOnTrack(S, R, Places, walk)
    BY <2>1 DEF ChatWalk, Read, Given
  <2> HIDE DEF S, R, k
  <2>4. w \in Walks(Places) /\ w.state = "open" /\ OnTrack(S, R, Places, w)
    <3>1. CASE continued
      BY <2>3, <3>1 DEF WalkOnTrack
    <3>2. CASE ~continued
      BY <2>2, <3>2, BegunOnTrack
    <3> QED
      BY <3>1, <3>2
  <2>5. WalkOnTrack(S, R, Places, walk')
    <3> HIDE DEF w
    <3>1. LET fetched == Slice(Ordered(S, R), w.offset, limit + 1)
          IN  walk' = Turned(w, Slice(fetched, 0, limit), Len(fetched) > limit)
      BY <1>6
    <3> QED
      BY <1>2, <2>2, <2>4, <3>1, FetchedOnTrack
  <2>6. \A p \in told' : subject' = p[1] => Read(walk', log', p[2])
    BY <1>1, <1>3, <1>6, <2>1, <2>5 DEF Read, S, R, k
  <2>7. walk'.state = "complete" => Cardinality(walk'.steady) <= walk'.departed
    BY <2>5 DEF WalkOnTrack
  <2>8. /\ subject' \in {None, Inbox} \cup Given' /\ subject' # Inbox
        /\ subject' = None => walk'.state # "open"
    BY <1>1, <1>3, <1>4, <1>6 DEF Given
  <2> QED
    BY <1>1, <1>2, <1>3, <2>6, <2>7, <2>8 DEF ChatWalk, Logs
<1> QED
  BY <1>5, <1>6
     DEF ConversationMessages, ReadMessages, MessagesFor

LEMMA ChatWalkNext ==
  ASSUME ChatWalk, [ChatNext]_chatVars PROVE ChatWalk'
<1>1. Aliases'
  BY AliasesNext DEF ChatWalk
<1>2. log \in Logs
  BY DEF ChatWalk
<1>3. ASSUME NEW k \in Privates, NEW t \in Times, Arrive(k, t) PROVE ChatWalk'
  <2> DEFINE e == [origin |-> k, key |-> k, time |-> t]
             l == Append(log, e)
  <2>1. /\ log' = l /\ walk' = WalkOn(l) /\ UNCHANGED <<request, subject, told>>
        /\ Len(log) < MaxMessages
    BY <1>3 DEF Arrive
  <2>2. e \in [origin : Keys, key : Keys, time : Times]
    BY DEF Keys
  <2>3. /\ l \in Logs /\ DOMAIN log \subseteq DOMAIN l
        /\ \A i \in DOMAIN log : l[i].time = log[i].time
    <3> DEFINE E == [origin : Keys, key : Keys, time : Times]
    <3>1. log \in Seq(E) /\ e \in E /\ MaxMessages \in Nat
      BY <1>2, <2>2, ConversationsAssumption DEF Logs
    <3> HIDE DEF E, e
    <3>2. /\ l \in Seq(E) /\ Len(l) <= MaxMessages /\ DOMAIN log \subseteq DOMAIN l
          /\ \A i \in DOMAIN log : l[i] = log[i]
      BY <2>1, <3>1
    <3> QED
      BY <3>2 DEF Logs, E
  <2> HIDE DEF l
  <2> QED
    BY <1>1, <2>1, <2>3, StoreKeepsWalk
<1>4. ASSUME NEW i \in DOMAIN log, NEW k \in Keys, Rekey(i, k) PROVE ChatWalk'
  <2> DEFINE l == [log EXCEPT ![i].key = k]
  <2>1. log' = l /\ walk' = WalkOn(l) /\ UNCHANGED <<request, subject, told>>
    BY <1>4 DEF Rekey
  <2>2. /\ l \in Logs /\ DOMAIN log \subseteq DOMAIN l
        /\ \A j \in DOMAIN log : l[j].time = log[j].time
    <3> DEFINE E == [origin : Keys, key : Keys, time : Times]
               e == [log[i] EXCEPT !.key = k]
    <3>1. log \in Seq(E) /\ log[i] \in E /\ Len(log) <= MaxMessages
      <4>1. log[i] \in E
        BY <1>2, LogEntries
      <4> QED
        BY <1>2, <4>1 DEF Logs
    <3>2. e \in E /\ e.time = log[i].time
      BY <3>1
    <3>3. l = [log EXCEPT ![i] = e]
      OBVIOUS
    <3> HIDE DEF E, e, l
    <3>4. /\ l \in Seq(E) /\ Len(l) = Len(log) /\ DOMAIN l = DOMAIN log
          /\ l[i] = e /\ \A j \in DOMAIN log \ {i} : l[j] = log[j]
      BY <3>1, <3>2, <3>3
    <3>5. \A j \in DOMAIN log : l[j].time = log[j].time
      BY <3>2, <3>4
    <3> QED
      BY <3>1, <3>4, <3>5 DEF Logs, E
  <2> HIDE DEF l
  <2> QED
    BY <1>1, <2>1, <2>2, StoreKeepsWalk
<1>5. ASSUME UNCHANGED <<log, subject, told, walk>>, request' = request \/ request' = Idle
      PROVE  ChatWalk'
  <2>1. OneKey' /\ subject' \in {None, Inbox} \cup Given'
    BY <1>5 DEF ChatWalk, OneKey, Given
  <2> QED
    BY <1>1, <1>5, <2>1 DEF ChatWalk, Logs
<1>6. CASE DaemonRestarts \/ Fail \/ UNCHANGED chatVars
  BY <1>5, <1>6 DEF DaemonRestarts, Fail, chatVars
<1>7. CASE ExposeIds
  BY <1>1, <1>7, ExposeKeepsWalk
<1>8. ASSUME NEW limit \in Limits, ReadConversations(limit) PROVE ChatWalk'
  BY <1>1, <1>8, ReadKeepsWalk
<1>9. ASSUME NEW id \in Given, NEW limit \in Limits, ConversationMessages(id, limit)
      PROVE  ChatWalk'
  BY <1>1, <1>9, MessagesKeepWalk
<1>10. Limits = Limits
  BY DEF Limits, Limits
<1> QED
  BY <1>3, <1>4, <1>6, <1>7, <1>8, <1>9, <1>10 DEF ChatNext, StoreStep, ReaderStep

\* A client that pages through its conversations, or through the messages of
\* one, while messages arrive, move between conversations and the daemon
\* restarts, misses no more of those that kept their place than have left the
\* list or gone down in it.
THEOREM ConversationsAreNotSkipped ==
  ChatSpec => []MissedAtMostDeparted
<1>1. ChatInit => ChatWalk
  BY ChatWalkInit
<1>2. ChatWalk /\ [ChatNext]_chatVars => ChatWalk'
  BY ChatWalkNext
<1>3. ChatWalk => MissedAtMostDeparted
  BY DEF ChatWalk, MissedAtMostDeparted
<1> QED
  BY <1>1, <1>2, <1>3, PTL DEF ChatSpec
=============================================================================
