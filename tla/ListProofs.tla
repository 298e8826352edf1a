------------------------------ MODULE ListProofs ------------------------------
(***************************************************************************)
(* What the other proofs need to know of numbers and of lists: least and   *)
(* greatest, counting a set off, joining and cutting, and which elements   *)
(* of a list Picked keeps.                                                 *)
(***************************************************************************)
EXTENDS Lists, Integers, SequencesExt, FiniteSetsExt, FiniteSetTheorems, FunctionTheorems,
        NaturalsInduction, WellFoundedInduction, TLAPS

(***************************************************************************)
(* Sets of numbers, and lists                                              *)
(***************************************************************************)
LEMMA LeastMember ==
  ASSUME NEW S \in SUBSET Nat, S # {}
  PROVE  \E i \in S : \A j \in S : i <= j
<1>1. \E i \in S : \A j \in S : ~ (j < i)
  <2>1. \E i \in S : \A j \in S : ~ (<<j, i>> \in OpToRel(<, Nat))
    BY NatLessThanWellFounded, WFMin
  <2>2. QED  BY <2>1 DEF OpToRel
<1>2. QED  BY <1>1

LEMMA MinIn ==
  ASSUME NEW n \in Nat, NEW S \in SUBSET (1..n), S # {}
  PROVE  Min(S) \in S /\ \A j \in S : Min(S) <= j
<1>1. S \in SUBSET Nat
  OBVIOUS
<1> QED  BY <1>1, LeastMember DEF Min

LEMMA MaxIn ==
  ASSUME NEW n \in Nat, NEW S \in SUBSET (1..n), S # {}
  PROVE  Max(S) \in S /\ \A j \in S : j <= Max(S)
<1> DEFINE Far == {n - k : k \in S}
<1>0. \A k \in S : k \in Int /\ n - k \in Nat
  OBVIOUS
<1>1. Far \in SUBSET Nat /\ Far # {}
  BY <1>0
<1>2. PICK f \in Far : \A g \in Far : f <= g
  BY <1>1, LeastMember
<1>3. PICK k \in S : f = n - k
  BY <1>2
<1>4. ASSUME NEW j \in S  PROVE k >= j
  <2>1. n - k <= n - j
    BY <1>2, <1>3
  <2>2. QED  BY <1>0, <2>1
<1> QED  BY <1>3, <1>4 DEF Max

\* How many of a set of numbers come up to k.
CountTo(S, k) == Cardinality({j \in S : j <= k})

LEMMA Finite ==
  ASSUME NEW n \in Nat, NEW S \in SUBSET (1..n)
  PROVE  IsFiniteSet(S) /\ Cardinality(S) \in Nat /\ Cardinality(S) <= n
<1>1. IsFiniteSet(1..n) /\ Cardinality(1..n) = n
  BY FS_Interval
<1>2. IsFiniteSet(S) /\ Cardinality(S) <= n
  BY <1>1, FS_Subset
<1>3. Cardinality(S) \in Nat
  BY <1>2, FS_CardinalityType
<1> QED  BY <1>2, <1>3

\* What is strictly ordered has a first.
LEMMA FirstInOrder ==
  ASSUME NEW n \in Nat, NEW D \in SUBSET (1..n), D # {}, NEW R,
         \A i \in D : <<i, i>> \notin R,
         \A i, j, k \in D : <<i, j>> \in R /\ <<j, k>> \in R => <<i, k>> \in R
  PROVE  \E j \in D : \A i \in D : <<i, j>> \notin R
<1> DEFINE Before(j) == {i \in D : <<i, j>> \in R}
           rank == [j \in D |-> Cardinality(Before(j))]
           Ranks == {rank[j] : j \in D}
<1>1. ASSUME NEW j \in D
      PROVE  IsFiniteSet(Before(j)) /\ rank[j] \in Nat /\ rank[j] = Cardinality(Before(j))
  <2>1. Before(j) \in SUBSET (1..n)
    OBVIOUS
  <2>2. rank[j] = Cardinality(Before(j))
    OBVIOUS
  <2> HIDE DEF Before, rank
  <2>3. IsFiniteSet(Before(j)) /\ Cardinality(Before(j)) \in Nat
    BY <2>1, Finite
  <2>4. QED  BY <2>2, <2>3
<1> HIDE DEF rank
<1>2. \A j \in D : rank[j] \in Nat
  BY <1>1
<1>3. PICK j \in D : \A i \in D : rank[j] <= rank[i]
  <2> HIDE DEF Before
  <2>0. PICK first \in D : TRUE
    OBVIOUS
  <2>1. Ranks \in SUBSET Nat /\ rank[first] \in Ranks
    BY <1>2
  <2>2. \A i \in D : rank[i] \in Ranks
    OBVIOUS
  <2>3. \A q \in Ranks : \E j \in D : q = rank[j]
    OBVIOUS
  <2> HIDE DEF Ranks
  <2>4. PICK r \in Ranks : \A q \in Ranks : r <= q
    BY <2>1, LeastMember
  <2>5. QED  BY <2>2, <2>3, <2>4
<1>4. SUFFICES ASSUME NEW i \in D, <<i, j>> \in R
               PROVE  FALSE
  OBVIOUS
<1> DEFINE A == Before(i)
           B == Before(j)
<1>5. A \subseteq B /\ i \in B /\ i \notin A
  BY <1>4
<1>6. rank[j] <= rank[i]
  BY <1>3
<1>7. /\ IsFiniteSet(A) /\ IsFiniteSet(B) /\ rank[i] \in Nat /\ rank[j] \in Nat
      /\ rank[i] = Cardinality(A) /\ rank[j] = Cardinality(B)
  BY <1>1
<1> HIDE DEF A, B
<1>8. Cardinality(A) <= Cardinality(B) /\ (Cardinality(B) = Cardinality(A) => B = A)
  BY <1>5, <1>7, FS_Subset
<1> QED  BY <1>5, <1>6, <1>7, <1>8

LEMMA CountType ==
  ASSUME NEW n \in Nat, NEW S \in SUBSET (1..n), NEW k
  PROVE  CountTo(S, k) \in Nat /\ CountTo(S, k) <= Cardinality(S)
<1> DEFINE T == {j \in S : j <= k}
<1>1. IsFiniteSet(S) /\ Cardinality(S) \in Nat
  BY Finite
<1>2. T \in SUBSET S
  OBVIOUS
<1>3. IsFiniteSet(T) /\ Cardinality(T) <= Cardinality(S)
  BY <1>1, <1>2, FS_Subset
<1>4. Cardinality(T) \in Nat
  BY <1>3, FS_CardinalityType
<1> HIDE DEF T
<1> QED  BY <1>3, <1>4 DEF CountTo, T

\* The next member has the next count.
LEMMA NextCount ==
  ASSUME NEW n \in Nat, NEW S \in SUBSET (1..n),
         NEW k \in S, NEW m \in S, k < m, \A j \in S : k < j => m <= j
  PROVE  CountTo(S, m) = CountTo(S, k) + 1
<1>0. k \in Int /\ m \in Int /\ \A j \in S : j \in Int
  OBVIOUS
<1> DEFINE T == {j \in S : j <= k}
<1>1. {j \in S : j <= m} = T \cup {m}
  <2>1. \A j \in S : j <= m <=> (j <= k \/ j = m)
    BY <1>0
  <2>2. QED  BY <2>1
<1>2. m \notin T
  BY <1>0
<1>3. T \in SUBSET (1..n)
  BY <1>0
<1>4. IsFiniteSet(T)
  BY <1>3, Finite
<1> HIDE DEF T
<1>5. Cardinality(T \cup {m}) = Cardinality(T) + 1
  BY <1>2, <1>4, FS_AddElement
<1> QED  BY <1>1, <1>5 DEF CountTo, T

LEMMA CountGrows ==
  ASSUME NEW n \in Nat, NEW S \in SUBSET (1..n), NEW k \in S, NEW m \in S, k < m
  PROVE  CountTo(S, k) < CountTo(S, m)
<1>0. k \in Int /\ m \in Int /\ \A j \in S : j \in Int
  OBVIOUS
<1> DEFINE T == {j \in S : j <= k}
           U == {j \in S : j <= m}
<1>1. T \cup {m} \in SUBSET U /\ m \notin T
  <2>1. m <= m /\ ~(m <= k) /\ \A j \in S : j <= k => j <= m
    BY <1>0
  <2>2. QED  BY <2>1
<1>2. T \in SUBSET (1..n) /\ U \in SUBSET (1..n)
  OBVIOUS
<1>3. IsFiniteSet(T) /\ IsFiniteSet(U) /\ Cardinality(T) \in Nat /\ Cardinality(U) \in Nat
  BY <1>2, Finite
<1> HIDE DEF T, U
<1>4. Cardinality(T \cup {m}) = Cardinality(T) + 1
  BY <1>1, <1>3, FS_AddElement
<1>5. Cardinality(T \cup {m}) <= Cardinality(U)
  BY <1>1, <1>3, FS_Subset
<1> QED  BY <1>3, <1>4, <1>5 DEF CountTo, T, U

\* Each count is some member's.
LEMMA CountMet ==
  ASSUME NEW n \in Nat, NEW S \in SUBSET (1..n), NEW r \in 1..Cardinality(S)
  PROVE  \E k \in S : CountTo(S, k) = r
<1>0. S \in SUBSET Nat /\ \A j \in S : j \in Int
  OBVIOUS
<1> DEFINE Missed == {q \in 1..Cardinality(S) : \A k \in S : CountTo(S, k) # q}
<1>1. SUFFICES ASSUME Missed # {} PROVE FALSE
  OBVIOUS
<1>2. IsFiniteSet(S) /\ Cardinality(S) \in Nat
  BY Finite
<1>3. PICK q \in Missed : \A p \in Missed : q <= p
  <2>1. Missed \in SUBSET Nat
    OBVIOUS
  <2> HIDE DEF Missed
  <2>2. QED  BY <1>1, <2>1, LeastMember
<1>4. CASE q = 1
  <2>1. S # {}
    BY <1>2, <1>3, FS_EmptySet
  <2>2. PICK k \in S : \A j \in S : k <= j
    BY <1>0, <2>1, LeastMember
  <2>3. {j \in S : j <= k} = {k}
    <3>1. \A j \in S : j <= k <=> j = k
      BY <1>0, <2>2
    <3>2. QED  BY <3>1
  <2>4. CountTo(S, k) = 1
    BY <2>3, FS_Singleton DEF CountTo
  <2>5. QED  BY <1>3, <1>4, <2>2, <2>4
<1>5. CASE q > 1
  <2>1. q - 1 \in 1..Cardinality(S) /\ q - 1 < Cardinality(S) /\ q - 1 \notin Missed
    BY <1>2, <1>3, <1>5
  <2>2. PICK k \in S : CountTo(S, k) = q - 1
    BY <2>1
  <2> DEFINE Above == {j \in S : k < j}
  <2>3. Above # {}
    <3>1. SUFFICES ASSUME Above = {} PROVE FALSE
      OBVIOUS
    <3>2. {j \in S : j <= k} = S
      <4>1. \A j \in S : j <= k
        BY <1>0, <3>1
      <4>2. QED  BY <4>1
    <3>3. CountTo(S, k) = Cardinality(S)
      BY <3>2 DEF CountTo
    <3>4. QED  BY <1>2, <2>1, <2>2, <3>3
  <2>4. PICK m \in Above : \A j \in Above : m <= j
    <3>1. Above \in SUBSET Nat
      BY <1>0
    <3> HIDE DEF Above
    <3>2. QED  BY <2>3, <3>1, LeastMember
  <2>5. m \in S /\ k < m /\ \A j \in S : k < j => m <= j
    BY <2>4
  <2>6. CountTo(S, m) = CountTo(S, k) + 1
    BY <2>5, NextCount
  <2>7. CountTo(S, m) = q
    BY <1>3, <2>2, <2>6
  <2>8. QED  BY <1>3, <2>5, <2>7
<1> QED  BY <1>2, <1>3, <1>4, <1>5

\* Nth counts a set off in order, all of it.
LEMMA NthIs ==
  ASSUME NEW n \in Nat, NEW S \in SUBSET (1..n), NEW r \in 1..Cardinality(S)
  PROVE  Nth(S, r) \in S /\ CountTo(S, Nth(S, r)) = r
<1>1. \E k \in S : CountTo(S, k) = r
  BY CountMet
<1> QED  BY <1>1 DEF Nth, CountTo

LEMMA NthInOrder ==
  ASSUME NEW n \in Nat, NEW S \in SUBSET (1..n),
         NEW q \in 1..Cardinality(S), NEW r \in 1..Cardinality(S), q < r
  PROVE  Nth(S, q) < Nth(S, r)
<1>1. Nth(S, q) \in S /\ CountTo(S, Nth(S, q)) = q /\ Nth(S, r) \in S /\ CountTo(S, Nth(S, r)) = r
  BY NthIs
<1>2. CASE Nth(S, q) = Nth(S, r)
  BY <1>1, <1>2
<1>3. CASE Nth(S, r) < Nth(S, q)
  <2>1. CountTo(S, Nth(S, r)) < CountTo(S, Nth(S, q))
    BY <1>1, <1>3, CountGrows
  <2>2. Cardinality(S) \in Nat
    BY Finite
  <2>3. QED  BY <1>1, <2>1, <2>2
<1>4. \A j \in S : j \in Int
  OBVIOUS
<1>5. \/ Nth(S, q) < Nth(S, r) \/ Nth(S, q) = Nth(S, r) \/ Nth(S, r) < Nth(S, q)
  <2>1. \A a, b \in Int : a < b \/ a = b \/ b < a
    OBVIOUS
  <2>2. Nth(S, q) \in Int /\ Nth(S, r) \in Int
    BY <1>1, <1>4
  <2>3. QED  BY <2>1, <2>2
<1> QED  BY <1>2, <1>3, <1>5

LEMMA NthMeetsAll ==
  ASSUME NEW n \in Nat, NEW S \in SUBSET (1..n), NEW k \in S
  PROVE  \E r \in 1..Cardinality(S) : Nth(S, r) = k
<1>0. \A j \in S : j \in Int
  OBVIOUS
<1>1. CountTo(S, k) \in Nat /\ CountTo(S, k) <= Cardinality(S) /\ Cardinality(S) \in Nat
  BY CountType, Finite
<1>2. CountTo(S, k) # 0
  <2> DEFINE T == {j \in S : j <= k}
  <2>1. k \in T
    BY <1>0
  <2>4. T \in SUBSET (1..n)
    OBVIOUS
  <2>2. IsFiniteSet(T)
    BY <2>4, Finite
  <2> HIDE DEF T
  <2>3. Cardinality(T) # 0
    BY <2>1, <2>2, FS_EmptySet
  <2>5. QED  BY <2>3 DEF CountTo, T
<1>3. CountTo(S, k) \in 1..Cardinality(S)
  BY <1>1, <1>2
<1>4. Nth(S, CountTo(S, k)) \in S /\ CountTo(S, Nth(S, CountTo(S, k))) = CountTo(S, k)
  BY <1>3, NthIs
<1>5. CASE Nth(S, CountTo(S, k)) < k
  <2>1. CountTo(S, Nth(S, CountTo(S, k))) < CountTo(S, k)
    BY <1>4, <1>5, CountGrows
  <2>2. QED  BY <1>1, <1>4, <2>1
<1>6. CASE k < Nth(S, CountTo(S, k))
  <2>1. CountTo(S, k) < CountTo(S, Nth(S, CountTo(S, k)))
    BY <1>4, <1>6, CountGrows
  <2>2. QED  BY <1>1, <1>4, <2>1
<1>7. \/ Nth(S, CountTo(S, k)) < k \/ Nth(S, CountTo(S, k)) = k \/ k < Nth(S, CountTo(S, k))
  <2>1. \A a, b \in Int : a < b \/ a = b \/ b < a
    OBVIOUS
  <2>2. Nth(S, CountTo(S, k)) \in Int /\ k \in Int
    BY <1>0, <1>4
  <2>3. QED  BY <2>1, <2>2
<1> QED  BY <1>3, <1>5, <1>6, <1>7

\* A member with that count is the one.
LEMMA NthOnly ==
  ASSUME NEW n \in Nat, NEW S \in SUBSET (1..n), NEW r \in 1..Cardinality(S),
         NEW k \in S, CountTo(S, k) = r
  PROVE  Nth(S, r) = k
<1>1. Nth(S, r) \in S /\ CountTo(S, Nth(S, r)) = r
  BY NthIs
<1>2. r \in Nat
  BY Finite
<1>3. ~(Nth(S, r) < k)
  <2>1. Nth(S, r) < k => CountTo(S, Nth(S, r)) < CountTo(S, k)
    BY <1>1, CountGrows
  <2>2. QED  BY <1>1, <1>2, <2>1
<1>4. ~(k < Nth(S, r))
  <2>1. k < Nth(S, r) => CountTo(S, k) < CountTo(S, Nth(S, r))
    BY <1>1, CountGrows
  <2>2. QED  BY <1>1, <1>2, <2>1
<1>5. \A a, b \in 1..n : a < b \/ a = b \/ b < a
  OBVIOUS
<1> QED  BY <1>1, <1>3, <1>4, <1>5

\* With one more number above the others, that one is counted last.
LEMMA NthMore ==
  ASSUME NEW n \in Nat, NEW S \in SUBSET (1..n)
  PROVE  LET U == S \cup {n + 1}
             c == Cardinality(S)
         IN  /\ U \in SUBSET (1..(n + 1)) /\ c \in Nat /\ Cardinality(U) = c + 1
             /\ \A r \in 1..c : Nth(U, r) = Nth(S, r) /\ Nth(S, r) \in S
             /\ Nth(U, c + 1) = n + 1
<1> DEFINE U == S \cup {n + 1}
           c == Cardinality(S)
<1>1. U \in SUBSET (1..(n + 1)) /\ n + 1 \in Nat /\ n + 1 \notin S
  OBVIOUS
<1>2. IsFiniteSet(S) /\ c \in Nat
  BY Finite
<1>3. Cardinality(U) = c + 1
  BY <1>1, <1>2, FS_AddElement
<1>4. ASSUME NEW k \in S  PROVE CountTo(U, k) = CountTo(S, k)
  <2>1. {j \in U : j <= k} = {j \in S : j <= k}
    <3>1. k \in 1..n
      OBVIOUS
    <3>2. ~(n + 1 <= k)
      BY <3>1
    <3>3. QED  BY <3>2
  <2>2. QED  BY <2>1 DEF CountTo
<1>5. CountTo(U, n + 1) = c + 1
  <2>1. \A j \in U : j <= n + 1
    BY <1>1
  <2>2. {j \in U : j <= n + 1} = U
    BY <2>1
  <2>3. QED  BY <1>3, <2>2 DEF CountTo
<1>6. ASSUME NEW r \in 1..c  PROVE Nth(U, r) = Nth(S, r) /\ Nth(S, r) \in S
  <2>1. Nth(S, r) \in S /\ CountTo(S, Nth(S, r)) = r
    BY NthIs
  <2>2. Nth(S, r) \in U /\ CountTo(U, Nth(S, r)) = r
    BY <1>4, <2>1
  <2>3. r \in 1..Cardinality(U)
    BY <1>2, <1>3
  <2> HIDE DEF U
  <2>4. Nth(U, r) = Nth(S, r)
    BY <1>1, <2>2, <2>3, NthOnly
  <2>5. QED  BY <2>1, <2>4
<1>7. Nth(U, c + 1) = n + 1
  <2>1. n + 1 \in U /\ c + 1 \in 1..Cardinality(U)
    BY <1>2, <1>3
  <2> HIDE DEF U
  <2>2. QED  BY <1>1, <1>5, <2>1, NthOnly
<1> QED  BY <1>1, <1>2, <1>3, <1>6, <1>7

\* What Picked gives: the elements at those places, in their order, all of them.
LEMMA PickedIs ==
  ASSUME NEW S, NEW s \in Seq(S), NEW places \in SUBSET (1..Len(s))
  PROVE  /\ Picked(s, places) \in Seq(S) /\ Len(Picked(s, places)) = Cardinality(places)
         /\ Cardinality(places) \in Nat
         /\ \A r \in 1..Cardinality(places) :
              Nth(places, r) \in places /\ Picked(s, places)[r] = s[Nth(places, r)]
         /\ \A q, r \in 1..Cardinality(places) : q < r => Nth(places, q) < Nth(places, r)
         /\ \A k \in places : \E r \in 1..Cardinality(places) : Nth(places, r) = k
<1> DEFINE c == Cardinality(places)
           p == Picked(s, places)
<1>1. Len(s) \in Nat /\ \A i \in 1..Len(s) : s[i] \in S
  OBVIOUS
<1>2. c \in Nat
  BY <1>1, Finite
<1>3. \A r \in 1..c : Nth(places, r) \in places
  BY <1>1, NthIs
<1>4. p = [r \in 1..c |-> s[Nth(places, r)]]
  BY DEF Picked
<1>5. \A q, r \in 1..c : q < r => Nth(places, q) < Nth(places, r)
  BY <1>1, NthInOrder
<1>6. \A k \in places : \E r \in 1..c : Nth(places, r) = k
  BY <1>1, NthMeetsAll
<1>7. \A r \in 1..c : s[Nth(places, r)] \in S
  BY <1>1, <1>3
<1> HIDE DEF c, p
<1>8. p \in Seq(S) /\ Len(p) = c /\ \A r \in 1..c : p[r] = s[Nth(places, r)]
  BY <1>2, <1>4, <1>7
<1> QED  BY <1>2, <1>3, <1>5, <1>6, <1>8 DEF c, p

LEMMA Joined ==
  ASSUME NEW S, NEW a \in Seq(S), NEW b \in Seq(S)
  PROVE  /\ a \o b \in Seq(S) /\ Len(a \o b) = Len(a) + Len(b)
         /\ \A i \in 1..Len(a) : (a \o b)[i] = a[i]
         /\ \A i \in 1..Len(b) : (a \o b)[Len(a) + i] = b[i]
OBVIOUS

LEMMA PartOf ==
  ASSUME NEW S, NEW s \in Seq(S), NEW m \in 1..Len(s)
  PROVE  /\ SubSeq(s, m, Len(s)) \in Seq(S) /\ Len(SubSeq(s, m, Len(s))) = Len(s) - m + 1
         /\ \A i \in 1..(Len(s) - m + 1) : SubSeq(s, m, Len(s))[i] = s[m + i - 1]
OBVIOUS

LEMMA Indices ==
  ASSUME NEW S, NEW s \in Seq(S)
  PROVE  Len(s) \in Nat /\ DOMAIN s = 1..Len(s) /\ \A i \in 1..Len(s) : s[i] \in S
OBVIOUS

\* Two lists with the same elements are one.
LEMMA SameList ==
  ASSUME NEW S, NEW s \in Seq(S), NEW t \in Seq(S), Len(s) = Len(t),
         \A i \in 1..Len(s) : s[i] = t[i]
  PROVE  s = t
<1>1. s = [i \in 1..Len(s) |-> s[i]] /\ t = [i \in 1..Len(t) |-> t[i]]
  OBVIOUS
<1>2. QED  BY <1>1

LEMMA JoinedWithNone ==
  ASSUME NEW S, NEW s \in Seq(S)
  PROVE  s \o << >> = s /\ << >> \o s = s
OBVIOUS

\* Three lists of the same; a fact of its own, for the lemmas on three lists.
Three(S, a, b, c) == a \in Seq(S) /\ b \in Seq(S) /\ c \in Seq(S)

LEMMA JoinedThrice ==
  ASSUME NEW S, NEW a, NEW b, NEW c, Three(S, a, b, c)
  PROVE  (a \o b) \o c = a \o (b \o c)
<1> a \in Seq(S) /\ b \in Seq(S) /\ c \in Seq(S)
  BY DEF Three
<1> DEFINE l == Len(a)
           m == Len(b)
           n == Len(c)
           ab == a \o b
           bc == b \o c
           x == ab \o c
           y == a \o bc
<1>0. l \in Nat /\ m \in Nat /\ n \in Nat
  OBVIOUS
<1>1. /\ ab \in Seq(S) /\ Len(ab) = l + m
      /\ \A i \in 1..l : ab[i] = a[i]
      /\ \A i \in 1..m : ab[l + i] = b[i]
  BY Joined
<1>2. /\ bc \in Seq(S) /\ Len(bc) = m + n
      /\ \A i \in 1..m : bc[i] = b[i]
      /\ \A i \in 1..n : bc[m + i] = c[i]
  BY Joined
<1> HIDE DEF ab, bc
<1>3. /\ x \in Seq(S) /\ Len(x) = Len(ab) + n
      /\ \A i \in 1..Len(ab) : x[i] = ab[i]
      /\ \A i \in 1..n : x[Len(ab) + i] = c[i]
  <2>1. ab \in Seq(S) /\ c \in Seq(S)
    BY <1>1
  <2>2. QED  BY <2>1, Joined
<1>4. /\ y \in Seq(S) /\ Len(y) = l + Len(bc)
      /\ \A i \in 1..l : y[i] = a[i]
      /\ \A i \in 1..Len(bc) : y[l + i] = bc[i]
  <2>1. a \in Seq(S) /\ bc \in Seq(S)
    BY <1>2
  <2>2. QED  BY <2>1, Joined
<1> HIDE DEF x, y, l, m, n
<1>5. Len(x) = l + m + n /\ Len(y) = l + m + n
  BY <1>0, <1>1, <1>2, <1>3, <1>4
<1>6. ASSUME NEW i \in 1..Len(x)
      PROVE  x[i] = y[i]
  <2>1. CASE i <= l
    <3>1. i \in 1..l /\ i \in 1..Len(ab)
      BY <1>0, <1>1, <1>5, <2>1
    <3>2. QED  BY <1>1, <1>3, <1>4, <3>1
  <2>2. CASE l < i /\ i <= l + m
    <3> DEFINE j == i - l
    <3>1. j \in 1..m /\ l + j = i /\ i \in 1..Len(ab) /\ j \in 1..Len(bc)
      BY <1>0, <1>1, <1>2, <1>5, <2>2
    <3> HIDE DEF j
    <3>2. x[i] = ab[l + j] /\ y[l + j] = bc[j] /\ ab[l + j] = b[j] /\ bc[j] = b[j]
      BY <1>1, <1>2, <1>3, <1>4, <3>1
    <3>3. QED  BY <3>1, <3>2
  <2>3. CASE l + m < i
    <3> DEFINE j == i - (l + m)
    <3>1. j \in 1..n /\ Len(ab) + j = i /\ m + j \in 1..Len(bc) /\ l + (m + j) = i
      BY <1>0, <1>1, <1>2, <1>5, <2>3
    <3> HIDE DEF j
    <3>2. x[Len(ab) + j] = c[j] /\ y[l + (m + j)] = bc[m + j] /\ bc[m + j] = c[j]
      BY <1>2, <1>3, <1>4, <3>1
    <3>3. QED  BY <3>1, <3>2
  <2>4. i \in Int /\ l \in Int /\ l + m \in Int
    BY <1>0
  <2>5. QED  BY <2>1, <2>2, <2>3, <2>4
<1>7. x = y
  BY <1>3, <1>4, <1>5, <1>6, SameList
<1>8. QED  BY <1>7 DEF x, y, ab, bc

LEMMA AppendJoined ==
  ASSUME NEW S, NEW a \in Seq(S), NEW b \in Seq(S), NEW e \in S
  PROVE  Append(a \o b, e) = a \o Append(b, e) /\ Append(b, e) = b \o <<e>>
<1>1. /\ a \o b \in Seq(S) /\ Len(a \o b) = Len(a) + Len(b)
      /\ \A i \in 1..Len(a) : (a \o b)[i] = a[i]
      /\ \A i \in 1..Len(b) : (a \o b)[Len(a) + i] = b[i]
  BY Joined
<1>2. \A s \in Seq(S) : Append(s, e) = s \o <<e>>
  OBVIOUS
<1>3. Append(a \o b, e) = (a \o b) \o <<e>>
  BY <1>1, <1>2
<1>4. Append(b, e) = b \o <<e>>
  BY <1>2
<1>5. <<e>> \in Seq(S)
  OBVIOUS
<1>6. (a \o b) \o <<e>> = a \o (b \o <<e>>)
  <2> DEFINE x == <<e>>
  <2> HIDE DEF x
  <2>1. Three(S, a, b, x)
    BY <1>5 DEF Three, x
  <2>2. (a \o b) \o x = a \o (b \o x)
    BY <2>1, JoinedThrice
  <2>3. QED  BY <2>2 DEF x
<1>7. QED  BY <1>3, <1>4, <1>6

\* A joined list cut between its parts, and cut within the first.
LEMMA CutApart ==
  ASSUME NEW S, NEW a \in Seq(S), NEW b \in Seq(S)
  PROVE  /\ SubSeq(a \o b, 1, Len(a)) = a
         /\ SubSeq(a \o b, Len(a) + 1, Len(a \o b)) = b
<1> DEFINE l == Len(a)
           m == Len(b)
           s == a \o b
<1>0. l \in Nat /\ m \in Nat
  OBVIOUS
<1>1. /\ s \in Seq(S) /\ Len(s) = l + m
      /\ \A i \in 1..l : s[i] = a[i]
      /\ \A i \in 1..m : s[l + i] = b[i]
  BY Joined
<1>2. a = [i \in 1..l |-> a[i]] /\ b = [i \in 1..m |-> b[i]]
  OBVIOUS
<1> HIDE DEF s, l, m
<1>3. SubSeq(s, 1, l) = [i \in 1..l |-> s[i]]
  <2>1. SubSeq(s, 1, l) = [i \in 1..(1 + l - 1) |-> s[i + 1 - 1]]
    BY <1>0, <1>1
  <2>2. 1 + l - 1 = l /\ \A i \in 1..l : i + 1 - 1 = i
    BY <1>0
  <2>3. QED  BY <2>1, <2>2
<1>4. SubSeq(s, l + 1, l + m) = [i \in 1..m |-> s[l + i]]
  <2> DEFINE z == SubSeq(s, l + 1, l + m)
  <2>1. z \in Seq(S) /\ Len(z) = m /\ \A i \in 1..m : z[i] = s[l + i]
    <3>1. CASE m = 0
      BY <1>0, <1>1, <3>1
    <3>2. CASE m > 0
      <4>1. l + 1 \in 1..Len(s)
        BY <1>0, <1>1, <3>2
      <4> DEFINE k == l + 1
      <4>2. k \in 1..Len(s)
        BY <4>1
      <4> HIDE DEF k
      <4>3. /\ SubSeq(s, k, Len(s)) \in Seq(S) /\ Len(SubSeq(s, k, Len(s))) = Len(s) - k + 1
            /\ \A i \in 1..(Len(s) - k + 1) : SubSeq(s, k, Len(s))[i] = s[k + i - 1]
        BY <1>1, <4>2, PartOf
      <4>4. Len(s) - k + 1 = m /\ \A i \in 1..m : k + i - 1 = l + i
        BY <1>0, <1>1 DEF k
      <4>5. QED  BY <1>1, <4>3, <4>4 DEF k
    <3>3. m = 0 \/ m > 0
      BY <1>0
    <3>4. QED  BY <3>1, <3>2, <3>3
  <2> HIDE DEF z
  <2>2. z = [i \in 1..m |-> z[i]]
    BY <2>1
  <2>3. z = [i \in 1..m |-> s[l + i]]
    BY <2>1, <2>2
  <2>4. QED  BY <2>3 DEF z
<1>5. SubSeq(s, 1, l) = a
  BY <1>1, <1>2, <1>3
<1>6. SubSeq(s, l + 1, Len(s)) = b
  BY <1>1, <1>2, <1>4
<1>7. QED  BY <1>5, <1>6 DEF s, l

\* What is before a place, and from it on.
LEMMA Parted ==
  ASSUME NEW S, NEW s \in Seq(S), NEW n \in 1..(Len(s) + 1)
  PROVE  /\ SubSeq(s, 1, n - 1) \in Seq(S) /\ Len(SubSeq(s, 1, n - 1)) = n - 1
         /\ \A i \in 1..(n - 1) : SubSeq(s, 1, n - 1)[i] = s[i]
         /\ SubSeq(s, n, Len(s)) \in Seq(S) /\ Len(SubSeq(s, n, Len(s))) = Len(s) - n + 1
         /\ \A i \in 1..(Len(s) - n + 1) : SubSeq(s, n, Len(s))[i] = s[n + i - 1]
         /\ s = SubSeq(s, 1, n - 1) \o SubSeq(s, n, Len(s))
<1> DEFINE l == n - 1
           a == SubSeq(s, 1, l)
           b == SubSeq(s, n, Len(s))
           m == Len(s) - n + 1
<1>0. l \in Nat /\ m \in Nat /\ Len(s) \in Nat /\ l + m = Len(s) /\ l <= Len(s)
  OBVIOUS
<1>1. a \in Seq(S) /\ Len(a) = l /\ \A i \in 1..l : a[i] = s[i]
  <2> HIDE DEF l
  <2>1. \A i \in 1..l : s[i] \in S
    BY <1>0
  <2>2. a = [i \in 1..l |-> s[i]]
    <3>1. a = [i \in 1..(1 + l - 1) |-> s[i + 1 - 1]]
      BY <1>0
    <3>2. 1 + l - 1 = l /\ \A i \in 1..l : i + 1 - 1 = i
      BY <1>0
    <3>3. QED  BY <3>1, <3>2
  <2> HIDE DEF a
  <2>3. QED  BY <1>0, <2>1, <2>2
<1>2. b \in Seq(S) /\ Len(b) = m /\ \A i \in 1..m : b[i] = s[n + i - 1]
  <2>1. CASE n = Len(s) + 1
    BY <2>1
  <2>2. CASE n \in 1..Len(s)
    BY <2>2, PartOf
  <2>3. QED  BY <2>1, <2>2
<1> HIDE DEF a, b, l, m
<1> DEFINE t == a \o b
<1>3. /\ t \in Seq(S) /\ Len(t) = l + m
      /\ \A i \in 1..l : t[i] = a[i]
      /\ \A i \in 1..m : t[l + i] = b[i]
  <2>1. /\ a \o b \in Seq(S) /\ Len(a \o b) = Len(a) + Len(b)
        /\ \A i \in 1..Len(a) : (a \o b)[i] = a[i]
        /\ \A i \in 1..Len(b) : (a \o b)[Len(a) + i] = b[i]
    <3>1. a \in Seq(S) /\ b \in Seq(S)
      BY <1>1, <1>2
    <3>2. QED  BY <3>1, Joined
  <2>2. QED  BY <1>1, <1>2, <2>1
<1> HIDE DEF t
<1>4. ASSUME NEW i \in 1..Len(s)
      PROVE  s[i] = t[i]
  <2>1. CASE i <= l
    <3>1. i \in 1..l
      BY <1>0, <2>1
    <3>2. QED  BY <1>1, <1>3, <3>1
  <2>2. CASE ~(i <= l)
    <3> DEFINE j == i - l
    <3>1. j \in 1..m /\ l + j = i /\ n + j - 1 = i
      BY <1>0, <2>2 DEF l
    <3> HIDE DEF j
    <3>2. t[l + j] = b[j] /\ b[j] = s[n + j - 1]
      BY <1>2, <1>3, <3>1
    <3>3. QED  BY <3>1, <3>2
  <2>3. QED  BY <2>1, <2>2
<1>5. s = t
  BY <1>0, <1>3, <1>4, SameList
<1>6. QED  BY <1>1, <1>2, <1>5 DEF a, b, l, m, t

LEMMA CutWithin ==
  ASSUME NEW S, NEW a \in Seq(S), NEW b \in Seq(S), NEW n \in 1..(Len(a) + 1)
  PROVE  SubSeq(a \o b, n, Len(a \o b)) = SubSeq(a, n, Len(a)) \o b
<1> DEFINE p == SubSeq(a, 1, n - 1)
           q == SubSeq(a, n, Len(a))
           qb == q \o b
<1>1. /\ p \in Seq(S) /\ Len(p) = n - 1 /\ q \in Seq(S) /\ a = p \o q
  BY Parted
<1>2. (n - 1) + 1 = n
  OBVIOUS
<1> HIDE DEF p, q
<1>3. a \o b = p \o qb
  <2>1. Three(S, p, q, b)
    BY <1>1 DEF Three
  <2>2. (p \o q) \o b = p \o (q \o b)
    BY <2>1, JoinedThrice
  <2>3. QED  BY <1>1, <2>2
<1>4. qb \in Seq(S)
  BY <1>1, Joined
<1> HIDE DEF qb
<1>5. SubSeq(p \o qb, Len(p) + 1, Len(p \o qb)) = qb
  BY <1>1, <1>4, CutApart
<1>6. Len(p) + 1 = n
  BY <1>1, <1>2
<1>7. QED  BY <1>3, <1>5, <1>6 DEF qb, q

LEMMA SuffixOfJoined ==
  ASSUME NEW S, NEW a \in Seq(S), NEW s \in Seq(S), NEW c \in 1..Len(s), NEW m \in 1..Len(s), c <= m
  PROVE  IsSuffix(SubSeq(s, m, Len(s)), a \o SubSeq(s, c, Len(s)))
<1> DEFINE n == Len(s)
           p == SubSeq(s, m, n)
           q == SubSeq(s, c, n)
           t == a \o q
           k == Len(p)
           z == Len(t)
           x == Reverse(p)
           y == Reverse(t)
<1>1. n \in Nat /\ Len(a) \in Nat
  OBVIOUS
<1>2. /\ p \in Seq(S) /\ k = n - m + 1 /\ \A i \in 1..(n - m + 1) : p[i] = s[m + i - 1]
      /\ q \in Seq(S) /\ Len(q) = n - c + 1 /\ \A i \in 1..(n - c + 1) : q[i] = s[c + i - 1]
  BY PartOf
<1> HIDE DEF p, q
<1>3. /\ t \in Seq(S) /\ z = Len(a) + Len(q) /\ \A i \in 1..Len(q) : t[Len(a) + i] = q[i]
  <2>1. a \in Seq(S) /\ q \in Seq(S)
    BY <1>2
  <2>2. QED  BY <2>1, Joined
<1> HIDE DEF t
<1>4. k \in Nat /\ z \in Nat /\ k <= z
  BY <1>1, <1>2, <1>3
<1>5. ASSUME NEW i \in 1..k
      PROVE  (k - i) + 1 \in 1..k /\ (z - i) + 1 \in 1..z /\ p[(k - i) + 1] = t[(z - i) + 1]
  <2> DEFINE j == n - c + 2 - i
  <2>1. (k - i) + 1 \in 1..(n - m + 1) /\ m + ((k - i) + 1) - 1 = n - i + 1
    BY <1>1, <1>2, <1>4
  <2>2. j \in 1..(n - c + 1) /\ c + j - 1 = n - i + 1 /\ Len(a) + j = (z - i) + 1
    BY <1>1, <1>2, <1>3, <1>4
  <2> HIDE DEF j
  <2>3. p[(k - i) + 1] = s[n - i + 1]
    <3>1. \A l \in 1..(n - m + 1) : p[l] = s[m + l - 1]
      BY <1>2
    <3>2. p[(k - i) + 1] = s[m + ((k - i) + 1) - 1]
      BY <2>1, <3>1
    <3>3. QED  BY <2>1, <3>2
  <2>4. q[j] = s[n - i + 1] /\ t[(z - i) + 1] = q[j]
    BY <1>2, <1>3, <2>2
  <2>5. QED  BY <1>2, <1>4, <2>1, <2>3, <2>4
<1> HIDE DEF n, k, z
<1>6. x = [i \in 1..k |-> p[(k - i) + 1]] /\ y = [i \in 1..z |-> t[(z - i) + 1]]
  BY DEF Reverse, k, z
<1> HIDE DEF x, y
<1>7. x \in Seq(S) /\ Len(x) = k /\ y \in Seq(S) /\ Len(y) = z
  <2>1. \A i \in 1..k : p[(k - i) + 1] \in S
    BY <1>2, <1>5 DEF k
  <2>2. \A i \in 1..z : (z - i) + 1 \in 1..z /\ t[(z - i) + 1] \in S
    BY <1>3, <1>4 DEF z
  <2>3. x \in Seq(S) /\ Len(x) = k
    BY <1>4, <1>6, <2>1
  <2>4. y \in Seq(S) /\ Len(y) = z
    BY <1>4, <1>6, <2>2
  <2>5. QED  BY <2>3, <2>4
<1>8. \A i \in 1..k : x[i] = y[i]
  BY <1>4, <1>5, <1>6
<1>9. SubSeq(x, 1, k) = SubSeq(y, 1, k)
  <2>1. SubSeq(x, 1, k) = [i \in 1..k |-> x[i]] /\ SubSeq(y, 1, k) = [i \in 1..k |-> y[i]]
    BY <1>4, <1>7
  <2>2. QED  BY <1>8, <2>1
<1>10. IsPrefix(x, y)
  BY <1>4, <1>7, <1>9 DEF IsPrefix
<1> QED  BY <1>10 DEF IsSuffix, x, y, p, q, t, n

\* A part is a suffix of what it ends.
LEMMA EndIsSuffix ==
  ASSUME NEW S, NEW a \in Seq(S), NEW s \in Seq(S), s # << >>
  PROVE  IsSuffix(s, a \o s)
<1>1. Len(s) \in Nat \ {0} /\ 1 \in 1..Len(s) /\ 1 <= 1
  OBVIOUS
<1>2. IsSuffix(SubSeq(s, 1, Len(s)), a \o SubSeq(s, 1, Len(s)))
  BY <1>1, SuffixOfJoined
<1>3. SubSeq(s, 1, Len(s)) = s
  OBVIOUS
<1>4. QED  BY <1>2, <1>3

-----------------------------------------------------------------------------
(***************************************************************************)
(* What Picked keeps                                                       *)
(***************************************************************************)
\* A list that has the elements at those places, in their order and all of
\* them, is what Picked gives; `at` says where each of it comes from.
CountsOff(at, n, places) ==
  /\ at \in [1..n -> places]
  /\ \A q, r \in 1..n : q < r => at[q] < at[r]
  /\ \A k \in places : \E r \in 1..n : at[r] = k

LEMMA PickedOnly ==
  ASSUME NEW S, NEW s \in Seq(S), NEW places \in SUBSET (1..Len(s)), NEW n \in Nat,
         NEW at, CountsOff(at, n, places)
  PROVE  Picked(s, places) = [r \in 1..n |-> s[at[r]]]
<1> USE DEF CountsOff
<1>0. Len(s) \in Nat /\ \A j \in places : j \in Int
  OBVIOUS
<1>1. \A q, r \in 1..n : at[q] = at[r] => q = r
  <2>1. SUFFICES ASSUME NEW q \in 1..n, NEW r \in 1..n, at[q] = at[r] PROVE q = r
    OBVIOUS
  <2>2. at[q] \in Int /\ at[r] \in Int
    BY <1>0
  <2>3. ~(q < r) /\ ~(r < q)
    BY <2>1, <2>2
  <2>4. QED  BY <2>3
<1>2. Cardinality(places) = n
  <2>1. at \in Bijection(1..n, places)
    BY <1>1, Fun_IsBij
  <2>2. ExistsBijection(1..n, places)
    BY <2>1 DEF ExistsBijection
  <2>3. QED  BY <2>2, FS_CountingElements
<1>3. ASSUME NEW r \in 1..n
      PROVE  Nth(places, r) = at[r]
  <2> DEFINE T == {j \in places : j <= at[r]}
             f == [q \in 1..r |-> at[q]]
  <2>1. f \in Bijection(1..r, T)
    <3>1. \A q \in 1..r : at[q] \in T
      <4>1. ASSUME NEW q \in 1..r PROVE at[q] <= at[r]
        <5>1. q = r \/ q < r
          OBVIOUS
        <5>2. q \in 1..n /\ q \in Int /\ r \in Int
          OBVIOUS
        <5>3. at[q] \in places /\ at[r] \in places
          BY <5>2
        <5>4. at[q] \in Int /\ at[r] \in Int
          BY <1>0, <5>3
        <5>5. q < r => at[q] < at[r]
          BY <5>2
        <5>6. QED  BY <5>1, <5>4, <5>5
      <4>2. QED  BY <4>1
    <3>2. ASSUME NEW j \in T PROVE \E q \in 1..r : f[q] = j
      <4>1. PICK q \in 1..n : at[q] = j
        OBVIOUS
      <4>2. ~(r < q)
        <5>1. at[q] <= at[r] /\ at[q] \in Int /\ at[r] \in Int
          BY <1>0, <4>1
        <5>2. QED  BY <5>1
      <4>3. QED  BY <4>1, <4>2
    <3>3. \A q, t \in 1..r : f[q] = f[t] => q = t
      BY <1>1
    <3>4. f \in [1..r -> T]
      BY <3>1
    <3> HIDE DEF f, T
    <3>5. QED  BY <3>2, <3>3, <3>4, Fun_IsBij
  <2>2. Cardinality(T) = r
    <3>1. ExistsBijection(1..r, T)
      BY <2>1 DEF ExistsBijection
    <3> HIDE DEF T
    <3>2. QED  BY <3>1, FS_CountingElements
  <2>3. CountTo(places, at[r]) = r
    BY <2>2 DEF CountTo
  <2>4. r \in 1..Cardinality(places)
    BY <1>2
  <2>5. Nth(places, r) \in places /\ CountTo(places, Nth(places, r)) = r
    BY <1>0, <2>4, NthIs
  <2>6. ~(Nth(places, r) < at[r]) /\ ~(at[r] < Nth(places, r))
    <3>1. at[r] \in places
      OBVIOUS
    <3>2. Nth(places, r) < at[r] => CountTo(places, Nth(places, r)) < CountTo(places, at[r])
      BY <1>0, <2>5, <3>1, CountGrows
    <3>3. at[r] < Nth(places, r) => CountTo(places, at[r]) < CountTo(places, Nth(places, r))
      BY <1>0, <2>5, <3>1, CountGrows
    <3>4. QED  BY <2>3, <2>5, <3>2, <3>3
  <2>7. at[r] \in places
    OBVIOUS
  <2>8. at[r] \in Int /\ Nth(places, r) \in Int
    BY <1>0, <2>5, <2>7
  <2>9. QED  BY <2>6, <2>8
<1>4. QED  BY <1>2, <1>3 DEF Picked

\* The elements of a list that are in T.
Among(s, T) == Picked(s, {k \in 1..Len(s) : s[k] \in T})

LEMMA AmongIs ==
  ASSUME NEW S, NEW s \in Seq(S), NEW T
  PROVE  /\ Among(s, T) \in Seq(S \cap T)
         /\ Len(Among(s, T)) = Cardinality({k \in 1..Len(s) : s[k] \in T})
<1> DEFINE places == {k \in 1..Len(s) : s[k] \in T}
           p == Picked(s, places)
           c == Cardinality(places)
<1>1. places \in SUBSET (1..Len(s)) /\ \A k \in places : s[k] \in S \cap T
  OBVIOUS
<1> HIDE DEF places
<1>2. /\ p \in Seq(S) /\ Len(p) = c /\ c \in Nat
      /\ \A r \in 1..c : Nth(places, r) \in places /\ p[r] = s[Nth(places, r)]
  BY <1>1, PickedIs
<1>3. \A r \in 1..c : p[r] \in S \cap T
  BY <1>1, <1>2
<1> HIDE DEF p, c
<1>4. p \in Seq(S \cap T)
  BY <1>2, <1>3
<1>5. QED  BY <1>2, <1>4 DEF Among, p, c, places

\* All of a list, or nothing of it.
LEMMA AmongAll ==
  ASSUME NEW S, NEW s \in Seq(S), NEW T, S \subseteq T
  PROVE  Among(s, T) = s
<1> DEFINE n == Len(s)
           places == {k \in 1..n : s[k] \in T}
           at == [r \in 1..n |-> r]
<1>1. n \in Nat /\ places = 1..n /\ s = [r \in 1..n |-> s[r]]
  OBVIOUS
<1>2. at \in [1..n -> places] /\ \A r \in 1..n : at[r] = r
  BY <1>1
<1> HIDE DEF at, places
<1>3. /\ \A q, r \in 1..n : q < r => at[q] < at[r]
      /\ \A k \in places : \E r \in 1..n : at[r] = k
      /\ places \in SUBSET (1..Len(s))
  BY <1>1, <1>2
<1>4. Picked(s, places) = [r \in 1..n |-> s[at[r]]]
  <2>1. n \in Nat /\ at \in [1..n -> places] /\ places \in SUBSET (1..Len(s))
    BY <1>1, <1>2, <1>3
  <2> HIDE DEF n
  <2>2. /\ \A q, r \in 1..n : q < r => at[q] < at[r]
        /\ \A k \in places : \E r \in 1..n : at[r] = k
    BY <1>3 DEF n
  <2>3. CountsOff(at, n, places)
    BY <2>1, <2>2 DEF CountsOff
  <2>4. QED  BY <2>1, <2>3, PickedOnly
<1>5. [r \in 1..n |-> s[at[r]]] = [r \in 1..n |-> s[r]]
  BY <1>2
<1>6. QED  BY <1>1, <1>4, <1>5 DEF Among, places

LEMMA AmongNone ==
  ASSUME NEW S, NEW s \in Seq(S), NEW T, S \cap T = {}
  PROVE  Among(s, T) = << >>
<1>1. Among(s, T) \in Seq({})
  BY AmongIs
<1>2. \A t \in Seq({}) : t = << >>
  OBVIOUS
<1>3. QED  BY <1>1, <1>2

LEMMA AmongTwice ==
  ASSUME NEW S, NEW s \in Seq(S), NEW T, NEW V, V \subseteq T
  PROVE  Among(Among(s, T), V) = Among(s, V)
<1> DEFINE p == {k \in 1..Len(s) : s[k] \in T}
           t == Picked(s, p)
           c == Cardinality(p)
           q == {k \in 1..Len(t) : t[k] \in V}
           u == Picked(t, q)
           d == Cardinality(q)
           at == [r \in 1..d |-> Nth(p, Nth(q, r))]
           w == {k \in 1..Len(s) : s[k] \in V}
<1>1. p \in SUBSET (1..Len(s)) /\ w \in SUBSET p /\ \A k \in p : k \in w <=> s[k] \in V
  OBVIOUS
<1>2. \A k \in q : k \in 1..Len(t) /\ t[k] \in V
  OBVIOUS
<1>3. \A k \in 1..Len(t) : t[k] \in V => k \in q
  OBVIOUS
<1> HIDE DEF p, q, w
<1>4. /\ t \in Seq(S) /\ Len(t) = c /\ c \in Nat
      /\ \A r \in 1..c : Nth(p, r) \in p /\ t[r] = s[Nth(p, r)]
      /\ \A x, r \in 1..c : x < r => Nth(p, x) < Nth(p, r)
      /\ \A k \in p : \E r \in 1..c : Nth(p, r) = k
  BY <1>1, PickedIs
<1> HIDE DEF t, c
<1>5. q \in SUBSET (1..Len(t))
  BY <1>2
<1>6. /\ u \in Seq(S) /\ Len(u) = d /\ d \in Nat
      /\ \A r \in 1..d : Nth(q, r) \in q /\ u[r] = t[Nth(q, r)]
      /\ \A x, r \in 1..d : x < r => Nth(q, x) < Nth(q, r)
      /\ \A k \in q : \E r \in 1..d : Nth(q, r) = k
  BY <1>4, <1>5, PickedIs
<1> HIDE DEF u, d
<1>7. ASSUME NEW r \in 1..d
      PROVE  Nth(q, r) \in 1..c /\ Nth(p, Nth(q, r)) \in w /\ u[r] = s[Nth(p, Nth(q, r))]
  <2>1. Nth(q, r) \in q /\ Nth(q, r) \in 1..c /\ u[r] = t[Nth(q, r)] /\ t[Nth(q, r)] \in V
    BY <1>2, <1>4, <1>6
  <2>2. Nth(p, Nth(q, r)) \in p /\ t[Nth(q, r)] = s[Nth(p, Nth(q, r))]
    BY <1>4, <2>1
  <2>3. QED  BY <1>1, <2>1, <2>2
<1>8. at \in [1..d -> w] /\ \A r \in 1..d : at[r] = Nth(p, Nth(q, r))
  BY <1>7
<1> HIDE DEF at
<1>9. ASSUME NEW x \in 1..d, NEW r \in 1..d, x < r
      PROVE  at[x] < at[r]
  <2>1. Nth(q, x) < Nth(q, r) /\ Nth(q, x) \in 1..c /\ Nth(q, r) \in 1..c
    BY <1>6, <1>7, <1>9
  <2>2. Nth(p, Nth(q, x)) < Nth(p, Nth(q, r))
    BY <1>4, <2>1
  <2>3. QED  BY <1>8, <2>2
<1>10. ASSUME NEW k \in w
       PROVE  \E r \in 1..d : at[r] = k
  <2>1. k \in p /\ s[k] \in V
    BY <1>1
  <2>2. PICK x \in 1..c : Nth(p, x) = k
    BY <1>4, <2>1
  <2>3. x \in q
    BY <1>3, <1>4, <2>1, <2>2
  <2>4. PICK r \in 1..d : Nth(q, r) = x
    BY <1>6, <2>3
  <2>5. QED  BY <1>8, <2>2, <2>4
<1>11. w \in SUBSET (1..Len(s))
  BY <1>1
<1>12. Picked(s, w) = [r \in 1..d |-> s[at[r]]]
  <2>1. d \in Nat /\ at \in [1..d -> w] /\ w \in SUBSET (1..Len(s))
    BY <1>6, <1>8, <1>11
  <2>2. \A h, r \in 1..d : h < r => at[h] < at[r]
    BY <1>9
  <2>3. \A k \in w : \E r \in 1..d : at[r] = k
    BY <1>10
  <2>4. CountsOff(at, d, w)
    BY <2>1, <2>2, <2>3 DEF CountsOff
  <2>5. QED  BY <2>1, <2>4, PickedOnly
<1>13. u = [r \in 1..d |-> s[at[r]]]
  <2>1. u = [r \in 1..d |-> u[r]]
    BY <1>6
  <2>2. \A r \in 1..d : u[r] = s[at[r]]
    BY <1>7, <1>8
  <2>3. QED  BY <2>1, <2>2
<1>14. Picked(t, q) = Picked(s, w)
  BY <1>12, <1>13 DEF u
<1>15. Among(s, T) = t /\ Among(s, V) = Picked(s, w) /\ Among(t, V) = Picked(t, q)
  BY DEF Among, t, p, w, q
<1>16. QED  BY <1>14, <1>15

LEMMA AmongJoined ==
  ASSUME NEW S, NEW a \in Seq(S), NEW b \in Seq(S), NEW T
  PROVE  Among(a \o b, T) = Among(a, T) \o Among(b, T)
<1> DEFINE m == Len(a)
           s == a \o b
           p == {k \in 1..Len(a) : a[k] \in T}
           q == {k \in 1..Len(b) : b[k] \in T}
           w == {k \in 1..Len(s) : s[k] \in T}
           c == Cardinality(p)
           d == Cardinality(q)
           x == Picked(a, p)
           y == Picked(b, q)
           z == x \o y
           at == [r \in 1..(c + d) |-> IF r <= c THEN Nth(p, r) ELSE m + Nth(q, r - c)]
<1>1. m \in Nat /\ Len(b) \in Nat
  OBVIOUS
<1>2. /\ s \in Seq(S) /\ Len(s) = m + Len(b)
      /\ \A i \in 1..m : s[i] = a[i]
      /\ \A i \in 1..Len(b) : s[m + i] = b[i]
  BY Joined
<1>3. /\ p \in SUBSET (1..Len(a)) /\ \A k \in 1..Len(a) : k \in p <=> a[k] \in T
      /\ q \in SUBSET (1..Len(b)) /\ \A k \in 1..Len(b) : k \in q <=> b[k] \in T
      /\ w \in SUBSET (1..Len(s)) /\ \A k \in 1..Len(s) : k \in w <=> s[k] \in T
  OBVIOUS
<1> HIDE DEF s, p, q, w
<1>4. /\ x \in Seq(S) /\ Len(x) = c /\ c \in Nat
      /\ \A r \in 1..c : Nth(p, r) \in p /\ x[r] = a[Nth(p, r)]
      /\ \A i, r \in 1..c : i < r => Nth(p, i) < Nth(p, r)
      /\ \A k \in p : \E r \in 1..c : Nth(p, r) = k
  BY <1>3, PickedIs
<1>5. /\ y \in Seq(S) /\ Len(y) = d /\ d \in Nat
      /\ \A r \in 1..d : Nth(q, r) \in q /\ y[r] = b[Nth(q, r)]
      /\ \A i, r \in 1..d : i < r => Nth(q, i) < Nth(q, r)
      /\ \A k \in q : \E r \in 1..d : Nth(q, r) = k
  BY <1>3, PickedIs
<1> HIDE DEF x, y, c, d
<1>6. /\ z \in Seq(S) /\ Len(z) = c + d
      /\ \A i \in 1..c : z[i] = x[i]
      /\ \A i \in 1..d : z[c + i] = y[i]
  <2>1. x \in Seq(S) /\ y \in Seq(S)
    BY <1>4, <1>5
  <2>2. /\ x \o y \in Seq(S) /\ Len(x \o y) = Len(x) + Len(y)
        /\ \A i \in 1..Len(x) : (x \o y)[i] = x[i]
        /\ \A i \in 1..Len(y) : (x \o y)[Len(x) + i] = y[i]
    BY <2>1, Joined
  <2>3. QED  BY <1>4, <1>5, <2>2
<1> HIDE DEF z, m
<1>7. /\ \A r \in 1..c : Nth(p, r) \in 1..m /\ Nth(p, r) \in w /\ z[r] = s[Nth(p, r)]
      /\ \A r \in 1..d : Nth(q, r) \in 1..Len(b) /\ m + Nth(q, r) \in w /\ z[c + r] = s[m + Nth(q, r)]
  <2>1. ASSUME NEW r \in 1..c
        PROVE  Nth(p, r) \in 1..m /\ Nth(p, r) \in w /\ z[r] = s[Nth(p, r)]
    <3>1. Nth(p, r) \in p /\ z[r] = a[Nth(p, r)]
      BY <1>4, <1>6
    <3>2. Nth(p, r) \in 1..m /\ a[Nth(p, r)] \in T
      BY <1>3, <3>1 DEF m
    <3>3. s[Nth(p, r)] = a[Nth(p, r)] /\ Nth(p, r) \in 1..Len(s)
      BY <1>1, <1>2, <3>2
    <3>4. QED  BY <1>3, <3>1, <3>2, <3>3
  <2>2. ASSUME NEW r \in 1..d
        PROVE  Nth(q, r) \in 1..Len(b) /\ m + Nth(q, r) \in w /\ z[c + r] = s[m + Nth(q, r)]
    <3>1. Nth(q, r) \in q /\ z[c + r] = b[Nth(q, r)]
      BY <1>5, <1>6
    <3>2. Nth(q, r) \in 1..Len(b) /\ b[Nth(q, r)] \in T
      BY <1>3, <3>1
    <3>3. s[m + Nth(q, r)] = b[Nth(q, r)] /\ m + Nth(q, r) \in 1..Len(s)
      BY <1>1, <1>2, <3>2
    <3>4. QED  BY <1>3, <3>1, <3>2, <3>3
  <2>3. QED  BY <2>1, <2>2
<1>8. /\ \A r \in 1..c : r \in 1..(c + d) /\ at[r] = Nth(p, r)
      /\ \A r \in 1..d : c + r \in 1..(c + d) /\ at[c + r] = m + Nth(q, r)
  <2>1. \A r \in 1..d : c + r \in 1..(c + d) /\ ~(c + r <= c) /\ (c + r) - c = r
    BY <1>4, <1>5
  <2>2. \A r \in 1..c : r \in 1..(c + d) /\ r <= c
    BY <1>4, <1>5
  <2>3. \A r \in 1..d : at[c + r] = m + Nth(q, (c + r) - c)
    BY <2>1
  <2>4. QED  BY <2>1, <2>2, <2>3
<1>9. \A r \in 1..(c + d) : r \in 1..c \/ \E i \in 1..d : r = c + i
  <2>1. ASSUME NEW r \in 1..(c + d), ~(r <= c)
        PROVE  r - c \in 1..d /\ r = c + (r - c)
    BY <1>4, <1>5, <2>1
  <2>2. \A r \in 1..(c + d) : r <= c => r \in 1..c
    BY <1>4, <1>5
  <2>3. QED  BY <2>1, <2>2
<1>10. at = [r \in 1..(c + d) |-> at[r]]
  OBVIOUS
<1> HIDE DEF at
<1>11. \A r \in 1..(c + d) : at[r] \in w /\ z[r] = s[at[r]]
  BY <1>7, <1>8, <1>9
<1>12. at \in [1..(c + d) -> w]
  BY <1>10, <1>11
<1>13. ASSUME NEW i \in 1..(c + d), NEW r \in 1..(c + d), i < r
       PROVE  at[i] < at[r]
  <2>1. CASE i \in 1..c /\ r \in 1..c
    BY <1>4, <1>8, <1>13, <2>1
  <2>2. ASSUME i \in 1..c, NEW j \in 1..d, r = c + j
        PROVE  at[i] < at[r]
    <3>1. at[i] = Nth(p, i) /\ at[r] = m + Nth(q, j)
      BY <1>8, <2>2
    <3>2. Nth(p, i) \in 1..m /\ Nth(q, j) \in 1..Len(b)
      BY <1>7, <2>2
    <3>3. QED  BY <1>1, <3>1, <3>2
  <2>3. ASSUME NEW h \in 1..d, i = c + h, r \in 1..c
        PROVE  FALSE
    BY <1>4, <1>5, <1>13, <2>3
  <2>4. ASSUME NEW h \in 1..d, i = c + h, NEW j \in 1..d, r = c + j
        PROVE  at[i] < at[r]
    <3>1. h < j
      BY <1>4, <1>5, <1>13, <2>4
    <3>2. at[i] = m + Nth(q, h) /\ at[r] = m + Nth(q, j)
      BY <1>8, <2>4
    <3>3. Nth(q, h) < Nth(q, j) /\ Nth(q, h) \in 1..Len(b) /\ Nth(q, j) \in 1..Len(b)
      BY <1>5, <1>7, <3>1
    <3>4. QED  BY <1>1, <3>2, <3>3
  <2>5. QED  BY <1>9, <2>1, <2>2, <2>3, <2>4
<1>14. ASSUME NEW k \in w
       PROVE  \E r \in 1..(c + d) : at[r] = k
  <2>1. k \in 1..Len(s) /\ s[k] \in T
    BY <1>3
  <2>2. CASE k <= m
    <3>1. k \in 1..m /\ k \in p
      BY <1>1, <1>2, <1>3, <2>1, <2>2 DEF m
    <3>2. PICK r \in 1..c : Nth(p, r) = k
      BY <1>4, <3>1
    <3>3. QED  BY <1>8, <3>2
  <2>3. CASE ~(k <= m)
    <3>1. PICK j \in 1..Len(b) : k = m + j
      <4>1. k - m \in 1..Len(b) /\ k = m + (k - m)
        BY <1>1, <1>2, <2>1, <2>3
      <4>2. QED  BY <4>1
    <3>2. j \in q
      BY <1>2, <1>3, <2>1, <3>1
    <3>3. PICK r \in 1..d : Nth(q, r) = j
      BY <1>5, <3>2
    <3>4. QED  BY <1>8, <3>1, <3>3
  <2>4. QED  BY <2>2, <2>3
<1>15. c + d \in Nat
  BY <1>4, <1>5
<1>16. Picked(s, w) = [r \in 1..(c + d) |-> s[at[r]]]
  <2>1. s \in Seq(S) /\ w \in SUBSET (1..Len(s))
    BY <1>2, <1>3
  <2> DEFINE n == c + d
  <2>2. n \in Nat /\ at \in [1..n -> w]
    BY <1>12, <1>15
  <2>3. \A i, r \in 1..n : i < r => at[i] < at[r]
    BY <1>13
  <2>4. \A k \in w : \E r \in 1..n : at[r] = k
    BY <1>14
  <2> HIDE DEF n
  <2>5. CountsOff(at, n, w)
    BY <2>2, <2>3, <2>4 DEF CountsOff
  <2>6. Picked(s, w) = [r \in 1..n |-> s[at[r]]]
    <3>1. n \in Nat
      BY <2>2
    <3>2. w \in SUBSET (1..Len(s))
      BY <2>1
    <3>3. s \in Seq(S)
      BY <2>1
    <3> QED BY <2>5, <3>1, <3>2, <3>3, PickedOnly
  <2>7. QED  BY <2>6 DEF n
<1>17. z = [r \in 1..(c + d) |-> s[at[r]]]
  <2>1. z = [r \in 1..(c + d) |-> z[r]]
    BY <1>6
  <2>2. QED  BY <1>11, <2>1
<1>18. Picked(s, w) = z
  BY <1>16, <1>17
<1>19. Among(a, T) = x /\ Among(b, T) = y /\ Among(s, T) = Picked(s, w)
  BY DEF Among, x, y, p, q, w
<1>20. QED  BY <1>18, <1>19 DEF s, z

LEMMA AmongThree ==
  ASSUME NEW S, NEW a, NEW b, NEW c, NEW T, Three(S, a, b, c)
  PROVE  Among((a \o b) \o c, T) = (Among(a, T) \o Among(b, T)) \o Among(c, T)
<1> a \in Seq(S) /\ b \in Seq(S) /\ c \in Seq(S)
  BY DEF Three
<1>1. Among(a \o b, T) = Among(a, T) \o Among(b, T)
  BY AmongJoined
<1> DEFINE ab == a \o b
<1>2. ab \in Seq(S)
  BY Joined
<1> HIDE DEF ab
<1>3. Among(ab \o c, T) = Among(ab, T) \o Among(c, T)
  BY <1>2, AmongJoined
<1>4. QED  BY <1>1, <1>3 DEF ab
=============================================================================
