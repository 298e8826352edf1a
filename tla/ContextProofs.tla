---------------------------- MODULE ContextProofs ----------------------------
(***************************************************************************)
(* What leaves the list of messages and what gets into it.  First the two  *)
(* layers of SpoolCompression, for all sizes, limits and results; then the *)
(* trust in the scripts of Skills and the order of the active ones, for    *)
(* all directories, levels, callers, edits and installations.              *)
(***************************************************************************)
EXTENDS SpoolCompression, Skills, ListProofs

\* What the lists of SpoolCompression are lists of.
M == [role : {"user", "assistant", "tool"}, text : Texts]

(***************************************************************************)
(* Texts and their links                                                   *)
(***************************************************************************)
LEMMA PreviewIs ==
  ASSUME NEW t \in Texts
  PROVE  /\ Preview(t) \in Texts /\ Links(Preview(t)) \subseteq Links(t) \cup {t}
         /\ Links(t) \subseteq Texts
<1>1. PICK s \in Contents, n \in Nat : t = [src |-> s, depth |-> n]
  BY DEF Texts
<1>2. Preview(t) = [src |-> s, depth |-> n + 1]
  BY <1>1 DEF Preview
<1>3. \A k \in Nat : [src |-> s, depth |-> k] \in Texts
  BY DEF Texts
<1>4. ASSUME NEW m \in Nat
      PROVE  Links([src |-> s, depth |-> m]) = {[src |-> s, depth |-> d] : d \in {d \in 0..(m - 1) : d >= m - 2}}
  <2>1. \A d : [[src |-> s, depth |-> m] EXCEPT !.depth = d] = [src |-> s, depth |-> d]
    OBVIOUS
  <2>2. [src |-> s, depth |-> m].depth = m
    OBVIOUS
  <2>3. QED  BY <2>1, <2>2 DEF Links
<1>5. Links(t) = {[src |-> s, depth |-> d] : d \in {d \in 0..(n - 1) : d >= n - 2}}
  BY <1>1, <1>4
<1>6. Links(Preview(t)) = {[src |-> s, depth |-> d] : d \in {d \in 0..n : d >= n - 1}}
  <2>1. n + 1 \in Nat /\ (n + 1) - 1 = n /\ (n + 1) - 2 = n - 1
    OBVIOUS
  <2>2. Links(Preview(t)) = {[src |-> s, depth |-> d] : d \in {d \in 0..((n + 1) - 1) : d >= (n + 1) - 2}}
    BY <1>2, <1>4, <2>1
  <2>3. QED  BY <2>1, <2>2
<1>7. Links(Preview(t)) \subseteq Links(t) \cup {t}
  <2>1. ASSUME NEW d \in 0..n, d >= n - 1
        PROVE  [src |-> s, depth |-> d] \in Links(t) \cup {t}
    <3>1. d = n \/ (d \in 0..(n - 1) /\ d >= n - 2)
      BY <2>1
    <3>2. QED  BY <1>1, <1>5, <3>1
  <2>2. QED  BY <1>6, <2>1
<1>8. Links(t) \subseteq Texts
  <2>1. \A d \in 0..(n - 1) : d \in Nat
    OBVIOUS
  <2>2. QED  BY <1>3, <1>5, <2>1
<1>9. Preview(t) \in Texts
  BY <1>2, <1>3
<1> QED  BY <1>7, <1>8, <1>9

\* What came from outside links to nothing.
LEMMA FreshLinks ==
  ASSUME NEW s \in Contents, NEW role \in {"user", "assistant", "tool"}
  PROVE  Message(role, s) \in M /\ Links(Message(role, s).text) = {}
<1>1. Message(role, s) = [role |-> role, text |-> Text(s)] /\ Text(s) = [src |-> s, depth |-> 0]
  BY DEF Message, Text
<1>2. Text(s) \in Texts
  BY <1>1 DEF Texts
<1>3. \A d \in 0..(0 - 1) : FALSE
  OBVIOUS
<1>4. Text(s).depth = 0
  BY <1>1
<1>5. Links(Text(s)) = {}
  BY <1>3, <1>4 DEF Links
<1>6. Message(role, s).text = Text(s)
  BY <1>1
<1> QED  BY <1>1, <1>2, <1>5, <1>6 DEF M

LEMMA LinksInOf ==
  ASSUME NEW s \in Seq(M)
  PROVE  /\ \A i \in 1..Len(s) : Links(s[i].text) \subseteq LinksIn(s)
         /\ \A l \in LinksIn(s) : \E i \in 1..Len(s) : l \in Links(s[i].text)
  BY Indices DEF LinksIn

LEMMA JoinedLinks ==
  ASSUME NEW a \in Seq(M), NEW b \in Seq(M)
  PROVE  a \o b \in Seq(M) /\ LinksIn(a \o b) = LinksIn(a) \cup LinksIn(b)
<1> DEFINE c == a \o b
<1>1. /\ c \in Seq(M) /\ Len(c) = Len(a) + Len(b)
      /\ \A i \in 1..Len(a) : c[i] = a[i]
      /\ \A i \in 1..Len(b) : c[Len(a) + i] = b[i]
  BY Joined
<1>2. Len(a) \in Nat /\ Len(b) \in Nat
  OBVIOUS
<1> HIDE DEF c
<1>3. ASSUME NEW l \in LinksIn(c)  PROVE l \in LinksIn(a) \cup LinksIn(b)
  <2>1. PICK i \in 1..Len(c) : l \in Links(c[i].text)
    BY <1>1, <1>3, LinksInOf
  <2>2. CASE i <= Len(a)
    <3>1. i \in 1..Len(a)
      BY <1>1, <1>2, <2>2
    <3>2. QED  BY <1>1, <2>1, <3>1, LinksInOf
  <2>3. CASE i > Len(a)
    <3>1. i - Len(a) \in 1..Len(b) /\ Len(a) + (i - Len(a)) = i
      BY <1>1, <1>2, <2>3
    <3>2. c[i] = b[i - Len(a)]
      BY <1>1, <3>1
    <3>3. QED  BY <2>1, <3>1, <3>2, LinksInOf
  <2>4. QED  BY <1>1, <1>2, <2>2, <2>3
<1>4. ASSUME NEW l \in LinksIn(a)  PROVE l \in LinksIn(c)
  <2>1. PICK i \in 1..Len(a) : l \in Links(a[i].text)
    BY <1>4, LinksInOf
  <2>2. i \in 1..Len(c) /\ c[i] = a[i]
    BY <1>1, <1>2
  <2>3. QED  BY <1>1, <2>1, <2>2, LinksInOf
<1>5. ASSUME NEW l \in LinksIn(b)  PROVE l \in LinksIn(c)
  <2>1. PICK i \in 1..Len(b) : l \in Links(b[i].text)
    BY <1>5, LinksInOf
  <2>2. Len(a) + i \in 1..Len(c) /\ c[Len(a) + i] = b[i]
    BY <1>1, <1>2
  <2>3. QED  BY <1>1, <2>1, <2>2, LinksInOf
<1> QED  BY <1>1, <1>3, <1>4, <1>5 DEF c

LEMMA PartLinks ==
  ASSUME NEW s \in Seq(M), NEW m \in 1..Len(s)
  PROVE  SubSeq(s, m, Len(s)) \in Seq(M) /\ LinksIn(SubSeq(s, m, Len(s))) \subseteq LinksIn(s)
<1> DEFINE p == SubSeq(s, m, Len(s))
<1>1. /\ p \in Seq(M) /\ Len(p) = Len(s) - m + 1
      /\ \A i \in 1..(Len(s) - m + 1) : p[i] = s[m + i - 1]
  BY PartOf
<1> HIDE DEF p
<1>2. ASSUME NEW l \in LinksIn(p)  PROVE l \in LinksIn(s)
  <2>1. PICK i \in 1..Len(p) : l \in Links(p[i].text)
    BY <1>1, <1>2, LinksInOf
  <2>2. p[i] = s[m + i - 1] /\ m + i - 1 \in 1..Len(s)
    <3>1. Len(s) \in Nat
      OBVIOUS
    <3>2. QED  BY <1>1, <3>1
  <2>3. QED  BY <2>1, <2>2, LinksInOf
<1> QED  BY <1>1, <1>2 DEF p

LEMMA SingleLinks ==
  ASSUME NEW s \in Contents, NEW role \in {"user", "assistant", "tool"}
  PROVE  <<Message(role, s)>> \in Seq(M) /\ LinksIn(<<Message(role, s)>>) = {}
<1> DEFINE m == Message(role, s)
           q == <<m>>
<1>1. m \in M /\ Links(m.text) = {}
  BY FreshLinks
<1> HIDE DEF m
<1>2. q \in Seq(M) /\ Len(q) = 1 /\ q[1] = m
  BY <1>1
<1> HIDE DEF q
<1>3. \A i \in 1..Len(q) : i = 1
  BY <1>2
<1> QED  BY <1>1, <1>2, <1>3, LinksInOf DEF m, q

\* What links to nothing adds nothing.
LEMMA PlainLinks ==
  ASSUME NEW a \in Seq(M), NEW b \in Seq(M), LinksIn(b) = {}
  PROVE  a \o b \in Seq(M) /\ LinksIn(a \o b) = LinksIn(a)
<1>1. a \o b \in Seq(M) /\ LinksIn(a \o b) = LinksIn(a) \cup LinksIn(b)
  BY JoinedLinks
<1>2. \A S : S \cup {} = S
  OBVIOUS
<1> QED  BY <1>1, <1>2

(***************************************************************************)
(* Layer one                                                               *)
(***************************************************************************)
LEMMA ReplaceIs ==
  ASSUME NEW s \in Seq(M), NEW spooled \in SUBSET (1..Len(s))
  PROVE  /\ Replace(s, spooled) \in Seq(M) /\ Len(Replace(s, spooled)) = Len(s)
         /\ Written(s, spooled) \subseteq Texts
         /\ LinksIn(Replace(s, spooled)) \subseteq LinksIn(s) \cup Written(s, spooled)
<1> DEFINE r == Replace(s, spooled)
<1>1. Len(s) \in Nat /\ DOMAIN s = 1..Len(s) /\ \A i \in 1..Len(s) : s[i] \in M
  BY Indices
<1>2. \A i \in 1..Len(s) : s[i].text \in Texts /\ s[i].role \in {"user", "assistant", "tool"}
  BY <1>1 DEF M
<1>3. ASSUME NEW i \in 1..Len(s)
      PROVE  /\ r[i] \in M /\ r[i].role = s[i].role
             /\ Links(r[i].text) \subseteq Links(s[i].text) \cup (IF i \in spooled THEN {s[i].text} ELSE {})
  <2> DEFINE n == s[i]
             q == Preview(n.text)
  <2>1. n \in M /\ q \in Texts /\ Links(q) \subseteq Links(n.text) \cup {n.text}
    BY <1>1, <1>2, PreviewIs
  <2>2. r[i] = IF i \in spooled THEN [n EXCEPT !.text = Preview(@)] ELSE n
    BY <1>1 DEF Replace
  <2> HIDE DEF n, r
  <2>3. CASE i \in spooled
    <3>1. r[i] = [n EXCEPT !.text = q]
      BY <2>2, <2>3
    <3> HIDE DEF q
    <3>2. r[i].text = q /\ r[i].role = n.role /\ r[i] \in M
      BY <2>1, <3>1 DEF M
    <3>3. QED  BY <2>1, <2>3, <3>2 DEF n
  <2>4. CASE i \notin spooled
    BY <2>1, <2>2, <2>4 DEF n
  <2>5. QED  BY <2>3, <2>4
<1>4. r \in Seq(M) /\ Len(r) = Len(s)
  <2>1. r = [i \in 1..Len(s) |-> r[i]]
    BY <1>1 DEF Replace
  <2> HIDE DEF r
  <2>2. QED  BY <1>1, <1>3, <2>1
<1>5. Written(s, spooled) \subseteq Texts
  BY <1>2 DEF Written
<1> HIDE DEF r
<1>6. ASSUME NEW l \in LinksIn(r)  PROVE l \in LinksIn(s) \cup Written(s, spooled)
  <2>1. PICK i \in 1..Len(s) : l \in Links(r[i].text)
    BY <1>4, <1>6, LinksInOf
  <2>2. l \in Links(s[i].text) \/ (i \in spooled /\ l = s[i].text)
    BY <1>3, <2>1
  <2>3. QED  BY <2>2, LinksInOf DEF Written
<1> QED  BY <1>4, <1>5, <1>6 DEF r

LEMMA SpooledInBlock ==
  ASSUME NEW s, NEW block, NEW ok
  PROVE  SpooledIn(s, block, ok) \subseteq block
  BY DEF SpooledIn, Singles, Forced, Tools

LEMMA RecheckIs ==
  ASSUME NEW s \in Seq(M), NEW ok
  PROVE  /\ Recheck(s, ok) \in Seq(M)
         /\ Written(s, RecheckSpools(s, ok)) \subseteq Texts
         /\ LinksIn(Recheck(s, ok)) \subseteq LinksIn(s) \cup Written(s, RecheckSpools(s, ok))
<1>1. ASSUME NEW turn \in Turns(s)  PROVE turn \subseteq 1..Len(s)
  <2>1. PICK u \in Users(s) : turn = {i \in u..Len(s) : \A v \in Users(s) : v <= u \/ v > i}
    BY DEF Turns
  <2>2. u \in 1..Len(s) /\ Len(s) \in Nat
    BY Indices DEF Users
  <2>3. u..Len(s) \subseteq 1..Len(s)
    BY <2>2
  <2>4. QED  BY <2>1, <2>3
<1>2. RecheckSpools(s, ok) \in SUBSET (1..Len(s))
  BY <1>1, SpooledInBlock DEF RecheckSpools
<1> QED  BY <1>2, ReplaceIs DEF Recheck

(***************************************************************************)
(* Layer two                                                               *)
(***************************************************************************)
LEMMA CutIs ==
  ASSUME NEW s \in Seq(M), Compressible(s)
  PROVE  /\ Users(s) # {} /\ Cut(s) \in Users(s) /\ Cut(s) \in 1..Len(s)
         /\ Max(Users(s)) \in 1..Len(s) /\ Cut(s) <= Max(Users(s))
<1> DEFINE U == Users(s)
           first == Min(U)
           later == U \ {first}
           fits == {u \in later : Estimate(SubSeq(s, u, Len(s))) <= Target}
<1>1. Len(s) \in Nat /\ U \in SUBSET (1..Len(s))
  BY Indices DEF Users
<1>2. Cardinality(U) >= 2
  BY DEF Compressible
<1>3. Cut(s) = IF fits = {} THEN Max(later) ELSE Min(fits)
  BY DEF Cut
<1> HIDE DEF U, first
<1>4. later # {}
  <2>1. SUFFICES ASSUME later = {} PROVE FALSE
    OBVIOUS
  <2>2. U \subseteq {first}
    BY <2>1
  <2>3. IsFiniteSet({first}) /\ Cardinality({first}) = 1
    BY FS_Singleton
  <2>4. IsFiniteSet(U) /\ Cardinality(U) <= 1
    BY <2>2, <2>3, FS_Subset
  <2>5. Cardinality(U) \in Nat
    BY <2>4, FS_CardinalityType
  <2>6. QED  BY <1>2, <2>4, <2>5
<1>5. later \in SUBSET (1..Len(s)) /\ fits \in SUBSET (1..Len(s)) /\ fits \subseteq U /\ later \subseteq U
  BY <1>1
<1> HIDE DEF later, fits
<1>6. Cut(s) \in U
  <2>1. CASE fits = {}
    BY <1>1, <1>3, <1>4, <1>5, <2>1, MaxIn
  <2>2. CASE fits # {}
    BY <1>1, <1>3, <1>5, <2>2, MinIn
  <2>3. QED  BY <2>1, <2>2
<1>7. Max(U) \in U /\ Cut(s) <= Max(U)
  BY <1>1, <1>6, MaxIn
<1> QED  BY <1>1, <1>6, <1>7 DEF U

LEMMA CompressedIs ==
  ASSUME NEW s \in Seq(M), Compressible(s), NEW summary \in Contents
  PROVE  Compressed(s, summary) \in Seq(M) /\ LinksIn(Compressed(s, summary)) \subseteq LinksIn(s)
<1> DEFINE x == Message("user", summary)
           y == Message("user", "boundary")
           head == <<x, y>>
           c == SubSeq(s, Cut(s), Len(s))
<1>1. x \in M /\ Links(x.text) = {} /\ y \in M /\ Links(y.text) = {}
  BY FreshLinks DEF Contents
<1>2. c \in Seq(M) /\ LinksIn(c) \subseteq LinksIn(s)
  BY CutIs, PartLinks
<1>3. Compressed(s, summary) = head \o c
  BY DEF Compressed
<1> HIDE DEF x, y, c
<1>4. head \in Seq(M) /\ Len(head) = 2 /\ head[1] = x /\ head[2] = y
  BY <1>1
<1> HIDE DEF head
<1>5. LinksIn(head) = {}
  <2>1. \A i \in 1..Len(head) : i = 1 \/ i = 2
    BY <1>4
  <2>2. QED  BY <1>1, <1>4, <2>1, LinksInOf
<1> QED  BY <1>2, <1>3, <1>4, <1>5, JoinedLinks

LEMMA ShortenedIs ==
  ASSUME NEW s \in Seq(M)
  PROVE  Shortened(s) \in Seq(M) /\ LinksIn(Shortened(s)) \subseteq LinksIn(s)
<1> DEFINE fits == {u \in Users(s) \ {Min(Users(s))} : Estimate(SubSeq(s, u, Len(s))) <= Target}
           b == <<Message("user", "boundary")>>
<1>1. Len(s) \in Nat /\ fits \in SUBSET (1..Len(s))
  BY Indices DEF Users
<1>2. Shortened(s) = IF fits = {} THEN s ELSE b \o SubSeq(s, Max(fits), Len(s))
  BY DEF Shortened
<1> HIDE DEF fits
<1>3. CASE fits = {}
  BY <1>2, <1>3
<1>4. CASE fits # {}
  <2>1. Max(fits) \in 1..Len(s)
    BY <1>1, <1>4, MaxIn
  <2>2. SubSeq(s, Max(fits), Len(s)) \in Seq(M) /\ LinksIn(SubSeq(s, Max(fits), Len(s))) \subseteq LinksIn(s)
    BY <2>1, PartLinks
  <2>3. b \in Seq(M) /\ LinksIn(b) = {}
    BY SingleLinks DEF Contents
  <2> HIDE DEF b
  <2>4. QED  BY <1>2, <1>4, <2>2, <2>3, JoinedLinks
<1> QED  BY <1>3, <1>4

(***************************************************************************)
(* The invariant                                                           *)
(***************************************************************************)
\* Who asks for a summary has something to cut.
AsksWithCause ==
  /\ run # Nothing /\ run.pc = "summarising" => Compressible(run.history)
  /\ waiting # Nothing => Compressible(waiting.asked)

SpoolSound == TypeOK /\ LinkedIsKept /\ AsksWithCause

Kept == files \cup writtenOff

\* What the links of a list are once it is one of those in use.
Safe(msgs) == msgs \in Seq(M) /\ LinksIn(msgs) \subseteq Kept

LEMMA SoundFacts ==
  ASSUME SpoolSound
  PROVE  /\ Safe(messages) /\ Safe(archive)
         /\ run # Nothing => /\ Safe(run.history) /\ Safe(run.added)
                             /\ run \in [pc : {"prepare", "summarising", "model"}, history : Seq(M), added : Seq(M)]
                             /\ waiting = Nothing
         /\ waiting # Nothing => Safe(waiting.asked) /\ waiting.what \in {"compact", "resume"}
         /\ MaxTurns \in Nat /\ MaxBatches \in Nat /\ Batches \subseteq Seq(Results)
         /\ run = Nothing \/ run # Nothing
<1>1. MaxTurns \in Nat /\ MaxBatches \in Nat /\ Batches \subseteq Seq(Results)
  BY SpoolAssumption
<1>2. messages \in Seq(M) /\ archive \in Seq(M)
  BY DEF SpoolSound, TypeOK, MessageLists, M
<1>3. ASSUME run # Nothing
      PROVE  /\ run \in [pc : {"prepare", "summarising", "model"}, history : Seq(M), added : Seq(M)]
             /\ waiting = Nothing
  BY <1>3 DEF SpoolSound, TypeOK, MessageLists, M
<1>4. ASSUME waiting # Nothing
      PROVE  waiting.what \in {"compact", "resume"} /\ waiting.asked \in Seq(M)
  <2>1. waiting \in [what : {"compact", "resume"}, asked : Seq(M)]
    BY <1>4 DEF SpoolSound, TypeOK, MessageLists, M
  <2>2. QED  BY <2>1
<1>5. InUse \subseteq Kept
  BY DEF SpoolSound, LinkedIsKept, Kept
<1>6. LinksIn(messages) \subseteq InUse /\ LinksIn(archive) \subseteq InUse
  BY DEF InUse
<1>7. run # Nothing => LinksIn(run.history) \subseteq InUse /\ LinksIn(run.added) \subseteq InUse
  BY DEF InUse
<1>8. waiting # Nothing => LinksIn(waiting.asked) \subseteq InUse
  BY DEF InUse
<1> QED  BY <1>1, <1>2, <1>3, <1>4, <1>5, <1>6, <1>7, <1>8 DEF Safe

\* The other way: a state is sound when its lists are safe.
LEMMA SoundNext ==
  ASSUME Safe(messages)', Safe(archive)',
         run' = Nothing \/ /\ run' \in [pc : {"prepare", "summarising", "model"}, history : Seq(M), added : Seq(M)]
                           /\ Safe(run.history)' /\ Safe(run.added)' /\ waiting' = Nothing
                           /\ run'.pc = "summarising" => Compressible(run.history)',
         waiting' = Nothing \/ /\ waiting' \in [what : {"compact", "resume"}, asked : Seq(M)] /\ run' = Nothing
                               /\ Safe(waiting.asked)' /\ Compressible(waiting.asked)',
         files' \subseteq Texts, writtenOff' \subseteq Texts, failures' \in Nat,
         turns' \in 0..MaxTurns, batches' \in 0..MaxBatches
  PROVE  SpoolSound'
<1>1. TypeOK'
  BY DEF TypeOK, Safe, M, MessageLists
<1>2. InUse' \subseteq Kept'
  <2>1. LinksIn(messages)' \subseteq Kept' /\ LinksIn(archive)' \subseteq Kept'
    BY DEF Safe
  <2>2. (IF run = Nothing THEN {} ELSE LinksIn(run.history) \cup LinksIn(run.added))' \subseteq Kept'
    BY DEF Safe
  <2>3. (IF waiting = Nothing THEN {} ELSE LinksIn(waiting.asked))' \subseteq Kept'
    BY DEF Safe
  <2>4. QED  BY <2>1, <2>2, <2>3 DEF InUse
<1>3. AsksWithCause'
  BY DEF AsksWithCause
<1> QED  BY <1>1, <1>2, <1>3 DEF SpoolSound, LinkedIsKept, Kept

\* A list that stays stays safe, when nothing readable is lost.
LEMMA StaysSafe ==
  ASSUME NEW s \in Seq(M), Kept \subseteq Kept', LinksIn(s) \subseteq Kept
  PROVE  LinksIn(s) \subseteq Kept'
OBVIOUS

\* Of a cleanup: what it deletes is written off.
LEMMA CleanupKeeps ==
  ASSUME SpoolSound, NEW s \in Seq(M), NEW summary, Cleanup(s, summary), LinksIn(SubSeq(s, 1, Cut(s) - 1)) \subseteq Texts
  PROVE  /\ Kept \subseteq Kept' /\ files' \subseteq Texts /\ writtenOff' \subseteq Texts
<1>1. files \subseteq Texts /\ writtenOff \subseteq Texts
  BY DEF SpoolSound, TypeOK
<1> DEFINE gone == LinksIn(SubSeq(s, 1, Cut(s) - 1))
<1>2. \/ files' = files \ gone /\ writtenOff' = writtenOff \cup gone
      \/ files' = files /\ writtenOff' = writtenOff
  BY DEF Cleanup
<1> HIDE DEF gone
<1>3. gone \subseteq Texts
  BY DEF gone
<1> QED  BY <1>1, <1>2, <1>3 DEF Kept

LEMMA BeforeTyped ==
  ASSUME NEW s \in Seq(M), Compressible(s)
  PROVE  LinksIn(SubSeq(s, 1, Cut(s) - 1)) \subseteq Texts
<1> DEFINE m == Cut(s) - 1
           p == SubSeq(s, 1, m)
<1>1. m \in Nat /\ m <= Len(s) /\ Len(s) \in Nat
  <2>1. Cut(s) \in 1..Len(s) /\ Len(s) \in Nat
    BY CutIs, Indices
  <2>2. QED  BY <2>1
<1> HIDE DEF m
<1>2. p \in Seq(M)
  BY <1>1
<1> HIDE DEF p
<1>3. \A i \in 1..Len(p) : p[i].text \in Texts
  <2>1. \A i \in 1..Len(p) : p[i] \in M
    BY <1>2, Indices
  <2>2. QED  BY <2>1 DEF M
<1>4. \A i \in 1..Len(p) : Links(p[i].text) \subseteq Texts
  BY <1>3, PreviewIs
<1>5. LinksIn(p) \subseteq Texts
  BY <1>2, <1>4, LinksInOf
<1> QED  BY <1>5 DEF m, p

\* What a pass over some messages writes, or cuts off, is kept one way or the other.
LEMMA WritesKeep ==
  ASSUME NEW s, NEW spooled, NEW tried, NEW ok, WriteFiles(s, spooled, tried, ok),
         Written(s, spooled) \subseteq Texts, files \subseteq Texts, writtenOff \subseteq Texts
  PROVE  /\ Kept \subseteq Kept' /\ Written(s, spooled) \subseteq Kept'
         /\ files' \subseteq Texts /\ writtenOff' \subseteq Texts
<1> DEFINE w == Written(s, spooled)
<1>1. PICK lost \in SUBSET files :
        files' = (files \cup w) \ lost /\ writtenOff' = (writtenOff \ w) \cup lost
  BY DEF WriteFiles
<1>2. w \subseteq Texts
  OBVIOUS
<1> HIDE DEF w
<1>3. /\ Kept \subseteq Kept' /\ w \subseteq Kept'
      /\ files' \subseteq Texts /\ writtenOff' \subseteq Texts
  BY <1>1, <1>2 DEF Kept
<1> QED  BY <1>3 DEF w

LEMMA StartRunSound ==
  ASSUME SpoolSound, StartRun
  PROVE  SpoolSound'
<1>1. /\ Safe(messages) /\ Safe(archive) /\ MaxTurns \in Nat /\ files \subseteq Texts /\ writtenOff \subseteq Texts
      /\ failures \in Nat /\ turns \in 0..MaxTurns /\ batches \in 0..MaxBatches
  BY SoundFacts DEF SpoolSound, TypeOK
<1>2. PICK ok \in BOOLEAN :
        /\ messages' = Recheck(messages, ok)
        /\ WriteFiles(messages, RecheckSpools(messages, ok), RecheckTries(messages), ok)
  BY DEF StartRun
<1>3. /\ turns' = turns + 1 /\ turns < MaxTurns /\ waiting' = Nothing
      /\ run' = [pc |-> "prepare", history |-> Append(messages', Typed), added |-> <<Typed>>]
      /\ UNCHANGED <<archive, failures, batches>>
  BY DEF StartRun
<1>4. messages \in Seq(M) /\ archive \in Seq(M)
  BY <1>1 DEF Safe
<1>5. /\ messages' \in Seq(M)
      /\ Written(messages, RecheckSpools(messages, ok)) \subseteq Texts
      /\ LinksIn(messages') \subseteq LinksIn(messages) \cup Written(messages, RecheckSpools(messages, ok))
  BY <1>2, <1>4, RecheckIs
<1>6. /\ Kept \subseteq Kept' /\ Written(messages, RecheckSpools(messages, ok)) \subseteq Kept'
      /\ files' \subseteq Texts /\ writtenOff' \subseteq Texts
  BY <1>1, <1>2, <1>5, WritesKeep
<1>7. LinksIn(messages') \subseteq Kept'
  <2>1. LinksIn(messages) \subseteq Kept
    BY <1>1 DEF Safe
  <2>2. QED  BY <1>5, <1>6, <2>1
<1>8. <<Typed>> \in Seq(M) /\ LinksIn(<<Typed>>) = {}
  BY SingleLinks DEF Typed, Contents
<1>9. Append(messages', Typed) = messages' \o <<Typed>>
  <2> DEFINE y == Typed
             x == messages'
  <2> HIDE DEF y, x
  <2>1. x \in Seq(M)
    BY <1>5 DEF x
  <2>2. y \in M
    BY FreshLinks DEF y, Typed, Contents
  <2>3. Append(x, y) = x \o <<y>>
    BY <2>1, <2>2
  <2>4. QED  BY <2>3 DEF x, y
<1>10. Append(messages', Typed) \in Seq(M) /\ LinksIn(Append(messages', Typed)) = LinksIn(messages')
  <2> DEFINE x == messages'
             y == <<Typed>>
  <2>1. x \in Seq(M) /\ y \in Seq(M) /\ LinksIn(y) = {} /\ Append(x, Typed) = x \o y
    BY <1>5, <1>8, <1>9
  <2> HIDE DEF x, y
  <2>2. x \o y \in Seq(M) /\ LinksIn(x \o y) = LinksIn(x)
    BY <2>1, PlainLinks
  <2>3. QED  BY <2>1, <2>2 DEF x
<1>11. /\ run'.pc = "prepare" /\ run'.history = Append(messages', Typed) /\ run'.added = <<Typed>>
       /\ run' \in [pc : {"prepare", "summarising", "model"}, history : Seq(M), added : Seq(M)]
  <2> DEFINE h == Append(messages', Typed)
             a == <<Typed>>
  <2>1. run' = [pc |-> "prepare", history |-> h, added |-> a] /\ h \in Seq(M) /\ a \in Seq(M)
    BY <1>3, <1>8, <1>10
  <2> HIDE DEF h, a
  <2>2. /\ run'.pc = "prepare" /\ run'.history = h /\ run'.added = a
        /\ run' \in [pc : {"prepare", "summarising", "model"}, history : Seq(M), added : Seq(M)]
    BY <2>1
  <2>3. QED  BY <2>2 DEF h, a
<1>12. Safe(run.history)' /\ Safe(run.added)' /\ run'.pc # "summarising"
  BY <1>7, <1>8, <1>10, <1>11 DEF Safe
<1>13. Safe(messages)' /\ Safe(archive)'
  BY <1>1, <1>3, <1>4, <1>5, <1>6, <1>7 DEF Safe
<1>14. turns' \in 0..MaxTurns
  BY <1>1, <1>3
<1> QED  BY <1>1, <1>3, <1>6, <1>11, <1>12, <1>13, <1>14, SoundNext

LEMMA PrepareSound ==
  ASSUME SpoolSound, Prepare
  PROVE  SpoolSound'
<1>1. /\ run # Nothing
      /\ UNCHANGED <<messages, waiting, archive, failures, turns, batches>>
  BY DEF Prepare
<1>2. PICK ok \in BOOLEAN :
        /\ WriteFiles(run.history, RecheckSpools(run.history, ok), RecheckTries(run.history), ok)
        /\ run' = [run EXCEPT !.history = Recheck(run.history, ok),
                     !.pc = IF Estimate(Recheck(run.history, ok)) >= Trigger /\ failures < BreakerLimit
                                 /\ Compressible(Recheck(run.history, ok))
                            THEN "summarising" ELSE "model"]
  BY DEF Prepare
<1>3. /\ Safe(messages) /\ Safe(archive) /\ Safe(run.history) /\ Safe(run.added) /\ waiting = Nothing
      /\ run \in [pc : {"prepare", "summarising", "model"}, history : Seq(M), added : Seq(M)]
      /\ files \subseteq Texts /\ writtenOff \subseteq Texts
      /\ failures \in Nat /\ turns \in 0..MaxTurns /\ batches \in 0..MaxBatches
  BY <1>1, SoundFacts DEF SpoolSound, TypeOK
<1> DEFINE h == Recheck(run.history, ok)
           w == Written(run.history, RecheckSpools(run.history, ok))
<1>4. run.history \in Seq(M)
  BY <1>3 DEF Safe
<1>5. h \in Seq(M) /\ w \subseteq Texts /\ LinksIn(h) \subseteq LinksIn(run.history) \cup w
  BY <1>4, RecheckIs
<1>6. PICK pc \in {"summarising", "model"} :
        /\ run' = [run EXCEPT !.history = h, !.pc = pc]
        /\ pc = "summarising" => Compressible(h)
  BY <1>2
<1>7. /\ Kept \subseteq Kept' /\ w \subseteq Kept'
      /\ files' \subseteq Texts /\ writtenOff' \subseteq Texts
  BY <1>2, <1>3, <1>5, WritesKeep
<1> HIDE DEF h, w
<1>8. /\ run' \in [pc : {"prepare", "summarising", "model"}, history : Seq(M), added : Seq(M)]
      /\ run'.pc = pc /\ run'.history = h /\ run'.added = run.added
  BY <1>3, <1>5, <1>6
<1>9. Safe(messages)' /\ Safe(archive)' /\ Safe(run.history)' /\ Safe(run.added)'
  BY <1>1, <1>3, <1>5, <1>7, <1>8 DEF Safe
<1>10. run'.pc = "summarising" => Compressible(run.history)'
  BY <1>6, <1>8
<1> QED  BY <1>1, <1>3, <1>7, <1>8, <1>9, <1>10, SoundNext

LEMMA SummaryFailsSound ==
  ASSUME SpoolSound, SummaryFails
  PROVE  SpoolSound'
<1>1. /\ run # Nothing /\ failures' = failures + 1 /\ run' = [run EXCEPT !.pc = "model"]
      /\ UNCHANGED <<messages, waiting, archive, files, turns, batches, writtenOff>>
  BY DEF SummaryFails
<1>2. /\ Safe(messages) /\ Safe(archive) /\ Safe(run.history) /\ Safe(run.added) /\ waiting = Nothing
      /\ run \in [pc : {"prepare", "summarising", "model"}, history : Seq(M), added : Seq(M)]
      /\ files \subseteq Texts /\ writtenOff \subseteq Texts
      /\ failures \in Nat /\ turns \in 0..MaxTurns /\ batches \in 0..MaxBatches
  BY <1>1, SoundFacts DEF SpoolSound, TypeOK
<1>3. /\ run' \in [pc : {"prepare", "summarising", "model"}, history : Seq(M), added : Seq(M)]
      /\ run'.pc = "model" /\ run'.history = run.history /\ run'.added = run.added
  BY <1>1, <1>2
<1>4. Kept' = Kept
  BY <1>1 DEF Kept
<1>5. Safe(messages)' /\ Safe(archive)' /\ Safe(run.history)' /\ Safe(run.added)'
  BY <1>1, <1>2, <1>3, <1>4 DEF Safe
<1> QED  BY <1>1, <1>2, <1>3, <1>5, SoundNext

LEMMA SummaryComesSound ==
  ASSUME SpoolSound, SummaryComes
  PROVE  SpoolSound'
<1>1. /\ run # Nothing /\ run.pc = "summarising"
      /\ UNCHANGED <<messages, waiting, archive, turns, batches>>
  BY DEF SummaryComes
<1>2. PICK summary \in Summaries :
        /\ run' = [run EXCEPT !.pc = "model",
                     !.history = IF Fits(run.history, summary) THEN Compressed(run.history, summary) ELSE run.history]
        /\ Cleanup(run.history, summary)
        /\ Breaker(Fits(run.history, summary))
  BY DEF SummaryComes
<1>3. /\ Safe(messages) /\ Safe(archive) /\ Safe(run.history) /\ Safe(run.added) /\ waiting = Nothing
      /\ run \in [pc : {"prepare", "summarising", "model"}, history : Seq(M), added : Seq(M)]
      /\ Compressible(run.history)
      /\ failures \in Nat /\ turns \in 0..MaxTurns /\ batches \in 0..MaxBatches
  BY <1>1, SoundFacts DEF SpoolSound, TypeOK, AsksWithCause
<1>4. PICK h \in Seq(M) : run' = [run EXCEPT !.pc = "model", !.history = h] /\ LinksIn(h) \subseteq LinksIn(run.history)
  <2>1. run.history \in Seq(M)
    BY <1>3 DEF Safe
  <2>2. /\ Compressed(run.history, summary) \in Seq(M)
        /\ LinksIn(Compressed(run.history, summary)) \subseteq LinksIn(run.history)
    BY <1>3, <2>1, CompressedIs DEF Contents
  <2>3. QED  BY <1>2, <2>1, <2>2
<1>5. /\ run' \in [pc : {"prepare", "summarising", "model"}, history : Seq(M), added : Seq(M)]
      /\ run'.pc = "model" /\ run'.history = h /\ run'.added = run.added
  BY <1>3, <1>4
<1>6. Kept \subseteq Kept' /\ files' \subseteq Texts /\ writtenOff' \subseteq Texts
  <2>1. run.history \in Seq(M)
    BY <1>3 DEF Safe
  <2>2. QED  BY <1>2, <1>3, <2>1, CleanupKeeps, BeforeTyped
<1>7. Safe(messages)' /\ Safe(archive)' /\ Safe(run.history)' /\ Safe(run.added)'
  BY <1>1, <1>3, <1>4, <1>5, <1>6 DEF Safe
<1>8. failures' \in Nat
  BY <1>2, <1>3 DEF Breaker
<1> QED  BY <1>1, <1>3, <1>5, <1>6, <1>7, <1>8, SoundNext

LEMMA ToolResultsSound ==
  ASSUME SpoolSound, ToolResults
  PROVE  SpoolSound'
<1>1. /\ run # Nothing /\ batches < MaxBatches /\ batches' = batches + 1
      /\ UNCHANGED <<messages, waiting, archive, failures, turns>>
  BY DEF ToolResults
<1>2. PICK results \in Batches, ok \in BOOLEAN :
        LET batch   == [i \in DOMAIN results |-> Message("tool", results[i])]
            spooled == SpooledIn(batch, DOMAIN batch, ok)
        IN  /\ WriteFiles(batch, spooled, Tried(batch, DOMAIN batch), ok)
            /\ run' = [pc |-> "prepare", history |-> run.history \o Replace(batch, spooled),
                       added |-> run.added \o Replace(batch, spooled)]
  BY DEF ToolResults
<1> DEFINE batch   == [i \in DOMAIN results |-> Message("tool", results[i])]
           spooled == SpooledIn(batch, DOMAIN batch, ok)
           filled  == Replace(batch, spooled)
           w       == Written(batch, spooled)
           h       == run.history \o filled
           a       == run.added \o filled
<1>3. /\ Safe(messages) /\ Safe(archive) /\ Safe(run.history) /\ Safe(run.added) /\ waiting = Nothing
      /\ run \in [pc : {"prepare", "summarising", "model"}, history : Seq(M), added : Seq(M)]
      /\ files \subseteq Texts /\ writtenOff \subseteq Texts
      /\ MaxBatches \in Nat /\ Batches \subseteq Seq(Results)
      /\ failures \in Nat /\ turns \in 0..MaxTurns /\ batches \in 0..MaxBatches
  BY <1>1, SoundFacts DEF SpoolSound, TypeOK
<1>4. batch \in Seq(M) /\ Len(batch) = Len(results) /\ DOMAIN batch = 1..Len(batch) /\ LinksIn(batch) = {}
  <2>1. results \in Seq(Results)
    BY <1>3
  <2>2. Len(results) \in Nat /\ DOMAIN results = 1..Len(results) /\ \A i \in 1..Len(results) : results[i] \in Contents
    BY <2>1, Indices DEF Contents
  <2>3. \A i \in 1..Len(results) : batch[i] \in M /\ Links(batch[i].text) = {}
    BY <2>2, FreshLinks
  <2>4. batch = [i \in 1..Len(results) |-> batch[i]]
    BY <2>2
  <2> HIDE DEF batch
  <2>5. batch \in Seq(M) /\ Len(batch) = Len(results)
    BY <2>2, <2>3, <2>4
  <2>6. DOMAIN batch = 1..Len(batch)
    BY <2>5
  <2>7. QED  BY <2>3, <2>5, <2>6, LinksInOf
<1>5. WriteFiles(batch, spooled, Tried(batch, DOMAIN batch), ok) /\ run' = [pc |-> "prepare", history |-> h, added |-> a]
  BY <1>2
<1>6. spooled \in SUBSET (1..Len(batch))
  BY <1>4, SpooledInBlock
<1> HIDE DEF batch, spooled
<1>7. filled \in Seq(M) /\ w \subseteq Texts /\ LinksIn(filled) \subseteq w
  BY <1>4, <1>6, ReplaceIs
<1> HIDE DEF filled, w
<1>8. /\ h \in Seq(M) /\ LinksIn(h) = LinksIn(run.history) \cup LinksIn(filled)
      /\ a \in Seq(M) /\ LinksIn(a) = LinksIn(run.added) \cup LinksIn(filled)
  BY <1>3, <1>7, JoinedLinks DEF Safe
<1> HIDE DEF h, a
<1>9. /\ run' \in [pc : {"prepare", "summarising", "model"}, history : Seq(M), added : Seq(M)]
      /\ run'.pc = "prepare" /\ run'.history = h /\ run'.added = a
  BY <1>5, <1>8
<1>10. /\ Kept \subseteq Kept' /\ w \subseteq Kept'
       /\ files' \subseteq Texts /\ writtenOff' \subseteq Texts
  BY <1>3, <1>5, <1>7, WritesKeep DEF w
<1>11. Safe(messages)' /\ Safe(archive)' /\ Safe(run.history)' /\ Safe(run.added)'
  BY <1>1, <1>3, <1>7, <1>8, <1>9, <1>10 DEF Safe
<1>12. batches' \in 0..MaxBatches
  BY <1>1, <1>3
<1> QED  BY <1>1, <1>3, <1>9, <1>10, <1>11, <1>12, SoundNext

LEMMA RunCompletesSound ==
  ASSUME SpoolSound, RunCompletes
  PROVE  SpoolSound'
<1>1. /\ run # Nothing /\ run' = Nothing
      /\ UNCHANGED <<waiting, files, failures, turns, batches, writtenOff>>
  BY DEF RunCompletes
<1>2. PICK reply \in {<< >>, <<Reply>>} :
        messages' = run.history \o reply /\ archive' = archive \o run.added \o reply
  BY DEF RunCompletes
<1>3. /\ Safe(archive) /\ Safe(run.history) /\ Safe(run.added) /\ waiting = Nothing
      /\ files \subseteq Texts /\ writtenOff \subseteq Texts
      /\ failures \in Nat /\ turns \in 0..MaxTurns /\ batches \in 0..MaxBatches
  BY <1>1, SoundFacts DEF SpoolSound, TypeOK
<1>4. reply \in Seq(M) /\ LinksIn(reply) = {}
  <2>1. CASE reply = <<Reply>>
    BY <2>1, SingleLinks DEF Reply, Contents
  <2>2. CASE reply = << >>
    <3>1. << >> \in Seq(M) /\ Len(<< >>) = 0 /\ \A i \in 1..0 : FALSE
      OBVIOUS
    <3>2. QED  BY <2>2, <3>1, LinksInOf
  <2>3. QED  BY <2>1, <2>2
<1>5. archive \in Seq(M) /\ run.history \in Seq(M) /\ run.added \in Seq(M)
  BY <1>3 DEF Safe
<1>6. messages' \in Seq(M) /\ LinksIn(messages') = LinksIn(run.history)
  <2>1. run.history \o reply \in Seq(M) /\ LinksIn(run.history \o reply) = LinksIn(run.history)
    BY <1>4, <1>5, PlainLinks
  <2>2. QED  BY <1>2, <2>1
<1>7. archive' \in Seq(M) /\ LinksIn(archive') = LinksIn(archive) \cup LinksIn(run.added)
  <2>1. archive \o run.added \in Seq(M) /\ LinksIn(archive \o run.added) = LinksIn(archive) \cup LinksIn(run.added)
    BY <1>5, JoinedLinks
  <2> DEFINE b == archive \o run.added
  <2>2. archive' = b \o reply
    BY <1>2
  <2> HIDE DEF b
  <2>3. b \o reply \in Seq(M) /\ LinksIn(b \o reply) = LinksIn(b)
    BY <1>4, <2>1, PlainLinks DEF b
  <2>4. QED  BY <2>1, <2>2, <2>3 DEF b
<1>8. Kept' = Kept
  BY <1>1 DEF Kept
<1>9. Safe(messages)' /\ Safe(archive)'
  BY <1>3, <1>6, <1>7, <1>8 DEF Safe
<1> QED  BY <1>1, <1>3, <1>9, SoundNext

LEMMA RunAbandonedSound ==
  ASSUME SpoolSound, RunAbandoned
  PROVE  SpoolSound'
<1>1. /\ run # Nothing /\ run' = Nothing
      /\ UNCHANGED <<messages, waiting, archive, files, failures, turns, batches, writtenOff>>
  BY DEF RunAbandoned
<1>2. /\ Safe(messages) /\ Safe(archive) /\ waiting = Nothing
      /\ files \subseteq Texts /\ writtenOff \subseteq Texts
      /\ failures \in Nat /\ turns \in 0..MaxTurns /\ batches \in 0..MaxBatches
  BY <1>1, SoundFacts DEF SpoolSound, TypeOK
<1>3. Kept' = Kept
  BY <1>1 DEF Kept
<1>4. Safe(messages)' /\ Safe(archive)'
  BY <1>1, <1>2, <1>3 DEF Safe
<1> QED  BY <1>1, <1>2, <1>4, SoundNext

LEMMA StartCompactSound ==
  ASSUME SpoolSound, StartCompact
  PROVE  SpoolSound'
<1>1. /\ run = Nothing
      /\ UNCHANGED <<messages, run, archive, failures, turns, batches>>
  BY DEF StartCompact, Idle
<1>2. PICK ok \in BOOLEAN :
        /\ Compressible(Recheck(messages, ok))
        /\ waiting' = [what |-> "compact", asked |-> Recheck(messages, ok)]
        /\ WriteFiles(messages, RecheckSpools(messages, ok), RecheckTries(messages), ok)
  BY DEF StartCompact
<1>3. /\ Safe(messages) /\ Safe(archive)
      /\ files \subseteq Texts /\ writtenOff \subseteq Texts
      /\ failures \in Nat /\ turns \in 0..MaxTurns /\ batches \in 0..MaxBatches
  BY SoundFacts DEF SpoolSound, TypeOK
<1> DEFINE h == Recheck(messages, ok)
           w == Written(messages, RecheckSpools(messages, ok))
<1>4. messages \in Seq(M)
  BY <1>3 DEF Safe
<1>5. h \in Seq(M) /\ w \subseteq Texts /\ LinksIn(h) \subseteq LinksIn(messages) \cup w
  BY <1>4, RecheckIs
<1>6. waiting' = [what |-> "compact", asked |-> h] /\ Compressible(h)
  BY <1>2
<1>7. /\ Kept \subseteq Kept' /\ w \subseteq Kept'
      /\ files' \subseteq Texts /\ writtenOff' \subseteq Texts
  BY <1>2, <1>3, <1>5, WritesKeep
<1> HIDE DEF h, w
<1>8. /\ waiting' \in [what : {"compact", "resume"}, asked : Seq(M)]
      /\ waiting'.asked = h
  BY <1>5, <1>6
<1>9. Safe(messages)' /\ Safe(archive)' /\ Safe(waiting.asked)'
  BY <1>1, <1>3, <1>5, <1>7, <1>8 DEF Safe
<1>10. Compressible(waiting.asked)'
  BY <1>6, <1>8
<1> QED  BY <1>1, <1>3, <1>7, <1>8, <1>9, <1>10, SoundNext

LEMMA ResumeShortSound ==
  ASSUME SpoolSound, ResumeShort
  PROVE  SpoolSound'
<1>1. /\ run = Nothing /\ messages' = archive
      /\ UNCHANGED <<run, waiting, archive, files, failures, turns, batches, writtenOff>>
  BY DEF ResumeShort, Idle
<1>2. /\ Safe(archive)
      /\ waiting # Nothing => Safe(waiting.asked) /\ Compressible(waiting.asked)
      /\ files \subseteq Texts /\ writtenOff \subseteq Texts
      /\ failures \in Nat /\ turns \in 0..MaxTurns /\ batches \in 0..MaxBatches
      /\ waiting = Nothing \/ waiting \in [what : {"compact", "resume"}, asked : Seq(M)]
  BY SoundFacts DEF SpoolSound, TypeOK, AsksWithCause, MessageLists, M
<1>3. Kept' = Kept
  BY <1>1 DEF Kept
<1>4. Safe(messages)' /\ Safe(archive)'
  BY <1>1, <1>2, <1>3 DEF Safe
<1>5. waiting' = waiting /\ waiting'.asked = waiting.asked
  BY <1>1
<1>6. ASSUME waiting' # Nothing  PROVE Safe(waiting.asked)' /\ Compressible(waiting.asked)'
  <2>1. Safe(waiting.asked) /\ Compressible(waiting.asked)
    BY <1>2, <1>5, <1>6
  <2>2. QED  BY <1>3, <1>5, <2>1 DEF Safe
<1> QED  BY <1>1, <1>2, <1>4, <1>5, <1>6, SoundNext

LEMMA StartResumeSound ==
  ASSUME SpoolSound, StartResume
  PROVE  SpoolSound'
<1>1. /\ run = Nothing /\ Compressible(archive)
      /\ waiting' = [what |-> "resume", asked |-> archive]
      /\ UNCHANGED <<messages, run, archive, files, failures, turns, batches, writtenOff>>
  BY DEF StartResume, Idle
<1>2. /\ Safe(messages) /\ Safe(archive)
      /\ files \subseteq Texts /\ writtenOff \subseteq Texts
      /\ failures \in Nat /\ turns \in 0..MaxTurns /\ batches \in 0..MaxBatches
  BY SoundFacts DEF SpoolSound, TypeOK
<1>3. Kept' = Kept
  BY <1>1 DEF Kept
<1>4. archive \in Seq(M)
  BY <1>2 DEF Safe
<1>5. /\ waiting' \in [what : {"compact", "resume"}, asked : Seq(M)]
      /\ waiting'.asked = archive
  BY <1>1, <1>4
<1>6. Safe(messages)' /\ Safe(archive)' /\ Safe(waiting.asked)'
  BY <1>1, <1>2, <1>3, <1>5 DEF Safe
<1>7. Compressible(waiting.asked)'
  BY <1>1, <1>5
<1> QED  BY <1>1, <1>2, <1>5, <1>6, <1>7, SoundNext

LEMMA WaitingFailsSound ==
  ASSUME SpoolSound, WaitingFails
  PROVE  SpoolSound'
<1>1. /\ run = Nothing /\ waiting # Nothing /\ waiting' = Nothing
      /\ messages' = IF waiting.what = "resume" THEN Shortened(waiting.asked) ELSE messages
      /\ UNCHANGED <<run, archive, files, failures, turns, batches, writtenOff>>
  BY DEF WaitingFails, Idle
<1>2. /\ Safe(messages) /\ Safe(archive) /\ Safe(waiting.asked)
      /\ files \subseteq Texts /\ writtenOff \subseteq Texts
      /\ failures \in Nat /\ turns \in 0..MaxTurns /\ batches \in 0..MaxBatches
  BY <1>1, SoundFacts DEF SpoolSound, TypeOK
<1>3. Kept' = Kept
  BY <1>1 DEF Kept
<1>4. Safe(messages)' /\ Safe(archive)'
  <2>1. Shortened(waiting.asked) \in Seq(M) /\ LinksIn(Shortened(waiting.asked)) \subseteq LinksIn(waiting.asked)
    BY <1>2, ShortenedIs DEF Safe
  <2>2. QED  BY <1>1, <1>2, <1>3, <2>1 DEF Safe
<1> QED  BY <1>1, <1>2, <1>4, SoundNext

LEMMA WaitingSucceedsSound ==
  ASSUME SpoolSound, WaitingSucceeds
  PROVE  SpoolSound'
<1>1. /\ run = Nothing /\ waiting # Nothing /\ waiting' = Nothing
      /\ failures' = IF waiting.what = "compact" THEN 0 ELSE failures
      /\ UNCHANGED <<run, archive, turns, batches>>
  BY DEF WaitingSucceeds, Idle
<1>2. PICK summary \in Summaries :
        messages' = Compressed(waiting.asked, summary) /\ Cleanup(waiting.asked, summary)
  BY DEF WaitingSucceeds
<1>3. /\ Safe(archive) /\ Safe(waiting.asked) /\ Compressible(waiting.asked)
      /\ failures \in Nat /\ turns \in 0..MaxTurns /\ batches \in 0..MaxBatches
  BY <1>1, SoundFacts DEF SpoolSound, TypeOK, AsksWithCause
<1>4. waiting.asked \in Seq(M) /\ LinksIn(waiting.asked) \subseteq Kept
  BY <1>3 DEF Safe
<1>5. messages' \in Seq(M) /\ LinksIn(messages') \subseteq LinksIn(waiting.asked)
  <2>1. /\ Compressed(waiting.asked, summary) \in Seq(M)
        /\ LinksIn(Compressed(waiting.asked, summary)) \subseteq LinksIn(waiting.asked)
    BY <1>3, <1>4, CompressedIs DEF Contents
  <2>2. QED  BY <1>2, <2>1
<1>6. Kept \subseteq Kept' /\ files' \subseteq Texts /\ writtenOff' \subseteq Texts
  BY <1>2, <1>3, <1>4, CleanupKeeps, BeforeTyped
<1>7. Safe(messages)' /\ Safe(archive)'
  BY <1>1, <1>3, <1>4, <1>5, <1>6 DEF Safe
<1>8. failures' \in Nat
  BY <1>1, <1>3
<1> QED  BY <1>1, <1>3, <1>6, <1>7, <1>8, SoundNext

LEMMA KilledSound ==
  ASSUME SpoolSound, Killed
  PROVE  SpoolSound'
<1>1. /\ messages' = << >> /\ run' = Nothing /\ waiting' = Nothing /\ failures' = 0
      /\ UNCHANGED <<archive, turns, batches>>
  BY DEF Killed
<1>2. PICK lost \in SUBSET files : files' = files \ lost /\ writtenOff' = writtenOff \cup lost
  BY DEF Killed
<1>3. /\ Safe(archive) /\ files \subseteq Texts /\ writtenOff \subseteq Texts
      /\ turns \in 0..MaxTurns /\ batches \in 0..MaxBatches
  BY SoundFacts DEF SpoolSound, TypeOK
<1>4. << >> \in Seq(M) /\ LinksIn(<< >>) = {}
  <2>1. << >> \in Seq(M) /\ Len(<< >>) = 0 /\ \A i \in 1..0 : FALSE
    OBVIOUS
  <2>2. QED  BY <2>1, LinksInOf
<1>5. Kept \subseteq Kept' /\ files' \subseteq Texts /\ writtenOff' \subseteq Texts
  BY <1>2, <1>3 DEF Kept
<1>6. Safe(messages)' /\ Safe(archive)'
  BY <1>1, <1>3, <1>4, <1>5 DEF Safe
<1>7. failures' \in Nat
  BY <1>1
<1> QED  BY <1>1, <1>3, <1>5, <1>6, <1>7, SoundNext

LEMMA StutterSound ==
  ASSUME SpoolSound, UNCHANGED vars
  PROVE  SpoolSound'
<1>1. /\ messages' = messages /\ run' = run /\ waiting' = waiting /\ archive' = archive /\ files' = files
      /\ failures' = failures /\ turns' = turns /\ batches' = batches /\ writtenOff' = writtenOff
  BY DEF vars
<1> QED  BY <1>1 DEF SpoolSound, TypeOK, LinkedIsKept, InUse, AsksWithCause

LEMMA InitSound ==
  ASSUME Init
  PROVE  SpoolSound
<1>1. << >> \in Seq(M) /\ LinksIn(<< >>) = {}
  <2>1. << >> \in Seq(M) /\ Len(<< >>) = 0 /\ \A i \in 1..0 : FALSE
    OBVIOUS
  <2>2. QED  BY <2>1, LinksInOf
<1>2. MaxTurns \in Nat /\ MaxBatches \in Nat
  BY SpoolAssumption
<1>3. TypeOK
  BY <1>1, <1>2 DEF Init, TypeOK, MessageLists, M
<1>4. InUse = {}
  BY <1>1 DEF Init, InUse
<1>5. AsksWithCause
  BY DEF Init, AsksWithCause
<1> QED  BY <1>3, <1>4, <1>5 DEF SpoolSound, LinkedIsKept

\* The links that are in use, and who waits for a summary with what, for all
\* sizes, limits and results.
THEOREM SpoolInductive == Spec => []SpoolSound
<1>1. Init => SpoolSound
  BY InitSound
<1>2. SpoolSound /\ [Next]_vars => SpoolSound'
  <2> SUFFICES ASSUME SpoolSound, [Next]_vars PROVE SpoolSound'
    OBVIOUS
  <2>1. CASE StartRun
    BY <2>1, StartRunSound
  <2>2. CASE Prepare
    BY <2>2, PrepareSound
  <2>3. CASE SummaryFails
    BY <2>3, SummaryFailsSound
  <2>4. CASE SummaryComes
    BY <2>4, SummaryComesSound
  <2>5. CASE ToolResults
    BY <2>5, ToolResultsSound
  <2>6. CASE RunCompletes
    BY <2>6, RunCompletesSound
  <2>7. CASE RunAbandoned
    BY <2>7, RunAbandonedSound
  <2>8. CASE StartCompact
    BY <2>8, StartCompactSound
  <2>9. CASE ResumeShort
    BY <2>9, ResumeShortSound
  <2>10. CASE StartResume
    BY <2>10, StartResumeSound
  <2>11. CASE WaitingFails
    BY <2>11, WaitingFailsSound
  <2>12. CASE WaitingSucceeds
    BY <2>12, WaitingSucceedsSound
  <2>13. CASE Killed
    BY <2>13, KilledSound
  <2>14. CASE UNCHANGED vars
    BY <2>14, StutterSound
  <2> QED  BY <2>1, <2>2, <2>3, <2>4, <2>5, <2>6, <2>7, <2>8, <2>9, <2>10, <2>11, <2>12, <2>13, <2>14 DEF Next
<1> QED  BY <1>1, <1>2, PTL DEF Spec

\* Every variable has its type, and nobody else waits for a summary beside a run.
THEOREM SpoolTypesHold == Spec => []TypeOK
<1>1. SpoolSound => TypeOK
  BY DEF SpoolSound
<1> QED  BY SpoolInductive, <1>1, PTL

\* What a preview in use points to can be read, unless a summary took the place of
\* a block that linked it, or a later write of the same text broke off.
THEOREM LinksAreKept == Spec => []LinkedIsKept
<1>1. SpoolSound => LinkedIsKept
  BY DEF SpoolSound
<1> QED  BY SpoolInductive, <1>1, PTL

(***************************************************************************)
(* What a compression leaves                                               *)
(***************************************************************************)

\* A run goes on within the target, with the turn at hand word for word.
THEOREM TurnIsKept == Spec => CompressionKeepsTurn
<1>1. SpoolSound /\ [Next]_vars =>
        (run # Nothing /\ run' # Nothing /\ run.pc = "summarising" /\ run'.history # run.history =>
           /\ Estimate(run'.history) <= Target
           /\ IsSuffix(Newest(run.history), run'.history))
  <2> SUFFICES ASSUME SpoolSound, [Next]_vars, run # Nothing, run' # Nothing, run.pc = "summarising",
                      run'.history # run.history
               PROVE  /\ Estimate(run'.history) <= Target
                      /\ IsSuffix(Newest(run.history), run'.history)
    OBVIOUS
  <2>1. Safe(run.history) /\ Compressible(run.history)
        /\ run \in [pc : {"prepare", "summarising", "model"}, history : Seq(M), added : Seq(M)]
    BY SoundFacts DEF SpoolSound, AsksWithCause
  <2>2. SummaryComes
    BY <2>1 DEF Next, vars, StartRun, Prepare, SummaryFails, ToolResults, RunCompletes, RunAbandoned,
                StartCompact, ResumeShort, StartResume, WaitingFails, WaitingSucceeds, Killed, Idle
  <2>3. PICK summary \in Summaries :
          run' = [run EXCEPT !.pc = "model",
                    !.history = IF Fits(run.history, summary) THEN Compressed(run.history, summary) ELSE run.history]
    BY <2>2 DEF SummaryComes
  <2>4. run'.history = IF Fits(run.history, summary) THEN Compressed(run.history, summary) ELSE run.history
    BY <2>1, <2>3
  <2>5. Fits(run.history, summary) /\ run'.history = Compressed(run.history, summary)
    BY <2>4
  <2>6. Estimate(run'.history) <= Target
    BY <2>5 DEF Fits
  <2> DEFINE h == run.history
             head == <<Message("user", summary), Message("user", "boundary")>>
  <2>7. h \in Seq(M)
    BY <2>1 DEF Safe
  <2>8. head \in Seq(M)
    <3>1. Message("user", summary) \in M /\ Message("user", "boundary") \in M
      BY FreshLinks DEF Contents
    <3>2. QED  BY <3>1
  <2>9. /\ Cut(h) \in 1..Len(h) /\ Max(Users(h)) \in 1..Len(h) /\ Cut(h) <= Max(Users(h))
    BY <2>1, <2>7, CutIs
  <2>10. run'.history = head \o SubSeq(h, Cut(h), Len(h)) /\ Newest(h) = SubSeq(h, Max(Users(h)), Len(h))
    BY <2>5 DEF Compressed, Newest
  <2> HIDE DEF h, head
  <2>11. IsSuffix(Newest(h), run'.history)
    BY <2>7, <2>8, <2>9, <2>10, SuffixOfJoined
  <2>12. QED  BY <2>6, <2>11 DEF h
<1> QED  BY SpoolInductive, <1>1, PTL DEF Spec, CompressionKeepsTurn

(***************************************************************************)
(* What a batch of results leaves                                          *)
(***************************************************************************)
\* How long a text that came from outside is, and how long its preview.
LEMMA FreshLength ==
  ASSUME NEW t \in Texts, t.depth = 0
  PROVE  /\ Size[t.src] \in Nat /\ TextLen(t) = Size[t.src]
         /\ Preview(t) = [src |-> t.src, depth |-> 1]
         /\ TextLen(Preview(t)) = Header + Digits(Size[t.src])
<1>1. PICK s \in Contents : t = [src |-> s, depth |-> 0]
  BY DEF Texts
<1>2. Size[s] \in Nat /\ Header \in Nat
  BY SpoolAssumption
<1>3. Preview(t) = [src |-> s, depth |-> 1]
  BY <1>1 DEF Preview
<1>4. TextLen(t) = Size[s]
  <2>1. \A d \in 0..0 : d = 0
    OBVIOUS
  <2> DEFINE len == [d \in 0..0 |-> Size[s]]
  <2>2. len = [d \in 0..0 |-> IF d = 0 THEN Size[s] ELSE Header + Digits(len[d - 1])]
    BY <2>1
  <2>3. t.depth = 0 /\ t.src = s
    BY <1>1
  <2> DEFINE f == CHOOSE g : g = [d \in 0..0 |-> IF d = 0 THEN Size[s] ELSE Header + Digits(g[d - 1])]
  <2> HIDE DEF len
  <2>4. f = [d \in 0..0 |-> IF d = 0 THEN Size[s] ELSE Header + Digits(f[d - 1])]
    BY <2>2
  <2> HIDE DEF f
  <2>5. f[0] = Size[s]
    BY <2>4
  <2>6. TextLen(t) = f[0]
    BY <2>3 DEF TextLen, f
  <2>7. QED  BY <2>5, <2>6
<1>5. TextLen(Preview(t)) = Header + Digits(Size[s])
  <2>1. (\A d \in 0..1 : d # 0 => d = 1) /\ 1 - 1 = 0
    OBVIOUS
  <2> DEFINE len == [d \in 0..1 |-> IF d = 0 THEN Size[s] ELSE Header + Digits(Size[s])]
  <2>2. len = [d \in 0..1 |-> IF d = 0 THEN Size[s] ELSE Header + Digits(len[d - 1])]
    <3>1. \A d \in 0..1 : len[d] = IF d = 0 THEN Size[s] ELSE Header + Digits(len[d - 1])
      <4>1. 0 \in 0..1
        OBVIOUS
      <4>2. len[0] = Size[s]
        BY <4>1
      <4>3. QED  BY <2>1, <4>2
    <3>2. QED  BY <3>1
  <2>3. Preview(t).depth = 1 /\ Preview(t).src = s
    BY <1>3
  <2> DEFINE f == CHOOSE g : g = [d \in 0..1 |-> IF d = 0 THEN Size[s] ELSE Header + Digits(g[d - 1])]
  <2> HIDE DEF len
  <2>4. f = [d \in 0..1 |-> IF d = 0 THEN Size[s] ELSE Header + Digits(f[d - 1])]
    BY <2>2
  <2> HIDE DEF f
  <2>5. f[0] = Size[s] /\ f[1] = Header + Digits(f[0])
    <3>1. \A d \in 0..1 : f[d] = IF d = 0 THEN Size[s] ELSE Header + Digits(f[d - 1])
      BY <2>4
    <3>2. 0 \in 0..1 /\ 1 \in 0..1 /\ 1 - 1 = 0 /\ 1 # 0
      OBVIOUS
    <3>3. QED  BY <3>1, <3>2
  <2>6. TextLen(Preview(t)) = f[1]
    BY <2>3 DEF TextLen, f
  <2>7. QED  BY <2>5, <2>6
<1>6. t.src = s
  BY <1>1
<1> QED  BY <1>2, <1>3, <1>4, <1>5, <1>6

\* If a preview of a text is shorter, then so is one of a longer text.
LEMMA LongerSpools ==
  ASSUME NEW t \in Texts, NEW u \in Texts, t.depth = 0, u.depth = 0, NEW ok \in BOOLEAN,
         TextLen(u) <= TextLen(t), CanSpool(u, ok)
  PROVE  CanSpool(t, ok)
<1>1. Header \in Nat
  BY SpoolAssumption
<1>2. /\ TextLen(t) \in Nat /\ TextLen(Preview(t)) = Header + Digits(TextLen(t))
      /\ TextLen(u) \in Nat /\ TextLen(Preview(u)) = Header + Digits(TextLen(u))
  BY FreshLength
<1>3. ok /\ Header + Digits(TextLen(u)) < TextLen(u)
  BY <1>2 DEF CanSpool
<1>4. \A m, n \in Nat : m <= n /\ Header + Digits(m) < m => Header + Digits(n) < n
  BY <1>1 DEF Digits
<1> QED  BY <1>2, <1>3, <1>4 DEF CanSpool

\* What a total says of one of its texts.
LEMMA TotalWithout ==
  ASSUME NEW n \in Nat, NEW S \in SUBSET (1..n), NEW msgs, NEW i \in S,
         \A j \in S : TextLen(msgs[j].text) \in Nat
  PROVE  /\ Total(msgs, S) \in Nat /\ Total(msgs, S \ {i}) \in Nat
         /\ Total(msgs, S) = Total(msgs, S \ {i}) + TextLen(msgs[i].text)
<1> DEFINE Row(j) == {j} \X (1..TextLen(msgs[j].text))
           T == S \ {i}
           Rows == {Row(j) : j \in T}
           C == Characters(msgs, T)
           k == TextLen(msgs[i].text)
<1>1. ASSUME NEW j \in S
      PROVE  IsFiniteSet(Row(j)) /\ Cardinality(Row(j)) = TextLen(msgs[j].text)
  <2> DEFINE m == TextLen(msgs[j].text)
  <2>1. m \in Nat
    OBVIOUS
  <2> HIDE DEF m
  <2>2. IsFiniteSet(1..m) /\ Cardinality(1..m) = m
    <3>1. 1 \in Int /\ m \in Int /\ (1 > m => m = 0) /\ (~(1 > m) => m - 1 + 1 = m)
      BY <2>1
    <3>2. QED  BY <3>1, FS_Interval
  <2>3. IsFiniteSet({j}) /\ Cardinality({j}) = 1
    BY FS_Singleton
  <2> DEFINE A == {j}
             B == 1..m
  <2>4. IsFiniteSet(A) /\ IsFiniteSet(B) /\ Cardinality(A) = 1 /\ Cardinality(B) = m
    BY <2>2, <2>3
  <2> HIDE DEF A, B
  <2>5. IsFiniteSet(A \X B) /\ Cardinality(A \X B) = 1 * m
    BY <2>4, FS_Product
  <2>6. 1 * m = m
    BY <2>1
  <2>7. QED  BY <2>5, <2>6 DEF A, B, m
<1>2. IsFiniteSet(Rows)
  <2> DEFINE f == [j \in T |-> Row(j)]
  <2>1. T \in SUBSET (1..n)
    OBVIOUS
  <2>2. f \in [T -> Rows] /\ \A r \in Rows : \E j \in T : f[j] = r
    OBVIOUS
  <2> HIDE DEF f, T, Rows
  <2>3. f \in Surjection(T, Rows)
    BY <2>2 DEF Surjection
  <2>4. IsFiniteSet(T)
    BY <2>1, Finite
  <2>5. QED  BY <2>3, <2>4, FS_Surjection
<1>3. IsFiniteSet(C)
  <2>1. \A r \in Rows : IsFiniteSet(r)
    BY <1>1
  <2>2. C = UNION Rows
    BY DEF Characters
  <2> HIDE DEF C, Rows
  <2>3. QED  BY <1>2, <2>1, <2>2, FS_UNION
<1>4. Characters(msgs, S) = C \cup Row(i)
  BY DEF Characters
<1>5. C \cap Row(i) = {}
  <2>1. \A c \in C : \E j \in T : c \in Row(j)
    BY DEF Characters
  <2>2. \A j \in T : Row(j) \cap Row(i) = {}
    OBVIOUS
  <2>3. QED  BY <2>1, <2>2
<1>6. k \in Nat /\ IsFiniteSet(Row(i)) /\ Cardinality(Row(i)) = k
  BY <1>1
<1> DEFINE R == Row(i)
<1>7. IsFiniteSet(R) /\ Cardinality(R) = k /\ C \cap R = {} /\ Characters(msgs, S) = C \cup R
  BY <1>4, <1>5, <1>6
<1> HIDE DEF C, R, k
<1>8. Cardinality(C \cup R) = Cardinality(C) + Cardinality(R) - Cardinality({}) /\ Cardinality({}) = 0
  BY <1>3, <1>7, FS_Union, FS_EmptySet
<1>9. Cardinality(C) \in Nat
  BY <1>3, FS_CardinalityType
<1> QED  BY <1>6, <1>7, <1>8, <1>9 DEF Total, C, k

\* A total is about the lengths.
LEMMA TotalSame ==
  ASSUME NEW S, NEW a, NEW b, \A i \in S : TextLen(a[i].text) = TextLen(b[i].text)
  PROVE  Total(a, S) = Total(b, S)
<1>1. Characters(a, S) = Characters(b, S)
  BY DEF Characters
<1> QED  BY <1>1 DEF Total

\* A batch as it comes: results of tools, none of them a preview.
FreshBatch(b) ==
  b \in Seq(M) /\ \A i \in 1..Len(b) : b[i].role = "tool" /\ b[i].text.depth = 0

\* What the batch rule has to choose from, and what of it goes before a place.
BatchRest(b, ok) == Tools(b, DOMAIN b) \ Singles(b, DOMAIN b, ok)
GoesBefore(b, ok, i) == {j \in BatchRest(b, ok) : GoesFirst(b, j, i)}
ForcedOut(b, ok) == Forced(b, DOMAIN b, ok)

LEMMA FreshFacts ==
  ASSUME NEW b, FreshBatch(b)
  PROVE  /\ Len(b) \in Nat /\ DOMAIN b = 1..Len(b)
         /\ \A i \in 1..Len(b) :
              /\ b[i] \in M /\ b[i].text \in Texts /\ b[i].text.depth = 0
              /\ TextLen(b[i].text) \in Nat /\ TextLen(b[i].text) = Size[b[i].text.src]
              /\ TextLen(Preview(b[i].text)) = Header + Digits(TextLen(b[i].text))
              /\ TextLen(Preview(b[i].text)) \in Nat
<1>1. b \in Seq(M)
  BY DEF FreshBatch
<1>2. Len(b) \in Nat /\ DOMAIN b = 1..Len(b) /\ \A i \in 1..Len(b) : b[i] \in M
  BY <1>1, Indices
<1>3. ASSUME NEW i \in 1..Len(b)
      PROVE  /\ b[i] \in M /\ b[i].text \in Texts /\ b[i].text.depth = 0
             /\ TextLen(b[i].text) \in Nat /\ TextLen(b[i].text) = Size[b[i].text.src]
             /\ TextLen(Preview(b[i].text)) = Header + Digits(TextLen(b[i].text))
             /\ TextLen(Preview(b[i].text)) \in Nat
  <2> DEFINE t == b[i].text
  <2>1. t \in Texts /\ t.depth = 0
    BY <1>2 DEF M, FreshBatch
  <2>2. \A n \in Nat : Header + Digits(n) \in Nat
    BY SpoolAssumption DEF Digits
  <2>3. b[i] \in M
    BY <1>2
  <2> HIDE DEF t
  <2>4. /\ Size[t.src] \in Nat /\ TextLen(t) = Size[t.src]
        /\ TextLen(Preview(t)) = Header + Digits(Size[t.src])
    BY <2>1, FreshLength
  <2>5. QED  BY <2>1, <2>2, <2>3, <2>4 DEF t
<1> QED  BY <1>2, <1>3

LEMMA ForcedIs ==
  ASSUME NEW b, FreshBatch(b), NEW ok \in BOOLEAN
  PROVE  /\ BatchRest(b, ok) \in SUBSET (1..Len(b)) /\ ForcedOut(b, ok) \in SUBSET BatchRest(b, ok)
         /\ \A i \in BatchRest(b, ok) :
              i \in ForcedOut(b, ok) <=>
                \A j \in GoesBefore(b, ok, i) \cup {i} :
                  /\ Total(Replace(b, GoesBefore(b, ok, j)), BatchRest(b, ok)) > BatchLimit
                  /\ CanSpool(b[j].text, ok)
<1>1. DOMAIN b = 1..Len(b)
  BY FreshFacts
<1>2. BatchRest(b, ok) \in SUBSET (1..Len(b))
  BY <1>1 DEF BatchRest, Tools
<1> QED  BY <1>2 DEF ForcedOut, Forced, BatchRest, GoesBefore

\* The order the batch rule takes its texts in.
LEMMA TakenInOrder ==
  ASSUME NEW b, FreshBatch(b)
  PROVE  /\ \A i \in 1..Len(b) : ~GoesFirst(b, i, i)
         /\ \A i, j \in 1..Len(b) : i = j \/ GoesFirst(b, i, j) \/ GoesFirst(b, j, i)
         /\ \A i, j \in 1..Len(b) : ~GoesFirst(b, i, j) => TextLen(b[i].text) <= TextLen(b[j].text)
         /\ \A i, j, k \in 1..Len(b) : GoesFirst(b, i, j) /\ GoesFirst(b, j, k) => GoesFirst(b, i, k)
<1> DEFINE len(k) == TextLen(b[k].text)
<1>1. \A i, j : GoesFirst(b, i, j) <=> len(i) > len(j) \/ (len(i) = len(j) /\ i < j)
  BY DEF GoesFirst
<1>2. Len(b) \in Nat /\ \A i \in 1..Len(b) : len(i) \in Nat
  BY FreshFacts
<1>3. \A i \in 1..Len(b) : i \in Int
  OBVIOUS
<1> HIDE DEF len
<1>4. \A i \in 1..Len(b) : ~GoesFirst(b, i, i)
  BY <1>1, <1>2, <1>3
<1>5. \A i, j \in 1..Len(b) : i = j \/ GoesFirst(b, i, j) \/ GoesFirst(b, j, i)
  BY <1>1, <1>2, <1>3
<1>6. \A i, j \in 1..Len(b) : ~GoesFirst(b, i, j) => len(i) <= len(j)
  BY <1>1, <1>2, <1>3
<1>7. \A i, j, k \in 1..Len(b) : GoesFirst(b, i, j) /\ GoesFirst(b, j, k) => GoesFirst(b, i, k)
  BY <1>1, <1>2, <1>3
<1> QED  BY <1>4, <1>5, <1>6, <1>7 DEF len

\* What goes before something that is spooled is spooled.
LEMMA ForcedInOrder ==
  ASSUME NEW b, FreshBatch(b), NEW ok \in BOOLEAN,
         NEW i \in ForcedOut(b, ok), NEW j \in GoesBefore(b, ok, i)
  PROVE  j \in ForcedOut(b, ok)
<1> DEFINE R == BatchRest(b, ok)
           F == ForcedOut(b, ok)
<1>1. R \in SUBSET (1..Len(b)) /\ F \in SUBSET R
  BY ForcedIs
<1>2. i \in R /\ j \in R /\ GoesFirst(b, j, i)
  BY <1>1 DEF GoesBefore
<1>3. \A k \in GoesBefore(b, ok, j) \cup {j} : k \in GoesBefore(b, ok, i) \cup {i}
  <2>1. \A k \in R : GoesFirst(b, k, j) => GoesFirst(b, k, i)
    BY <1>1, <1>2, TakenInOrder
  <2>2. QED  BY <1>2, <2>1 DEF GoesBefore
<1> QED  BY <1>1, <1>2, <1>3, ForcedIs

\* The lengths in a batch some of which was replaced.
LEMMA ReplacedLength ==
  ASSUME NEW b, FreshBatch(b), NEW F \in SUBSET (1..Len(b)), NEW i \in 1..Len(b)
  PROVE  /\ Replace(b, F)[i].text = IF i \in F THEN Preview(b[i].text) ELSE b[i].text
         /\ TextLen(Replace(b, F)[i].text) \in Nat
<1>1. i \in DOMAIN b /\ b[i] \in M
  BY FreshFacts
<1>2. Replace(b, F)[i] = IF i \in F THEN [b[i] EXCEPT !.text = Preview(b[i].text)] ELSE b[i]
  BY <1>1 DEF Replace
<1>3. [b[i] EXCEPT !.text = Preview(b[i].text)].text = Preview(b[i].text)
  BY <1>1 DEF M
<1>4. TextLen(b[i].text) \in Nat /\ TextLen(Preview(b[i].text)) \in Nat
  BY FreshFacts
<1> QED  BY <1>2, <1>3, <1>4

LEMMA ReplacedTotal ==
  ASSUME NEW b, FreshBatch(b), NEW F \in SUBSET (1..Len(b)), NEW R \in SUBSET (1..Len(b))
  PROVE  Total(Replace(b, F), R) \in Nat
<1>1. Len(b) \in Nat
  BY FreshFacts
<1> DEFINE msgs == Replace(b, F)
<1>2. \A i \in R : TextLen(msgs[i].text) \in Nat
  BY ReplacedLength
<1> HIDE DEF msgs
<1>3. CASE R = {}
  <2>1. Characters(msgs, R) = {}
    BY <1>3 DEF Characters
  <2>2. QED  BY <2>1, FS_EmptySet DEF Total, msgs
<1>4. CASE R # {}
  <2>1. PICK i \in R : TRUE
    BY <1>4
  <2>2. Total(msgs, R) \in Nat
    BY <1>1, <1>2, <2>1, TotalWithout
  <2>3. QED  BY <2>2 DEF msgs
<1> QED  BY <1>3, <1>4

\* The first that was left whole had all that was spooled before it.
LEMMA LeftOver ==
  ASSUME NEW b, FreshBatch(b), NEW ok \in BOOLEAN,
         NEW k \in BatchRest(b, ok) \ ForcedOut(b, ok), CanSpool(b[k].text, ok)
  PROVE  Total(Replace(b, ForcedOut(b, ok)), BatchRest(b, ok)) <= BatchLimit
<1> DEFINE R == BatchRest(b, ok)
           F == ForcedOut(b, ok)
           D == R \ F
           Order == {p \in R \X R : GoesFirst(b, p[1], p[2])}
<1>1. R \in SUBSET (1..Len(b)) /\ F \in SUBSET R /\ Len(b) \in Nat
  BY ForcedIs, FreshFacts
<1>2. PICK j \in D : \A i \in D : ~GoesFirst(b, i, j)
  <2>1. \A i, l \in R : <<i, l>> \in Order <=> GoesFirst(b, i, l)
    OBVIOUS
  <2>2. D \in SUBSET (1..Len(b)) /\ k \in D /\ D \in SUBSET R
    BY <1>1
  <2> HIDE DEF D, R, F, Order
  <2>3. \A i \in D : <<i, i>> \notin Order
    BY <1>1, <2>1, <2>2, TakenInOrder
  <2>4. \A i, l, m \in D : <<i, l>> \in Order /\ <<l, m>> \in Order => <<i, m>> \in Order
    BY <1>1, <2>1, <2>2, TakenInOrder
  <2> DEFINE n == Len(b)
  <2>5. n \in Nat /\ D \in SUBSET (1..n) /\ D # {}
    BY <1>1, <2>2
  <2> HIDE DEF n
  <2>6. \E j \in D : \A i \in D : <<i, j>> \notin Order
    BY <2>3, <2>4, <2>5, FirstInOrder
  <2>7. QED  BY <2>1, <2>2, <2>6
<1>3. GoesBefore(b, ok, j) = F
  <2>1. \A i \in GoesBefore(b, ok, j) : i \in F
    BY <1>2 DEF GoesBefore
  <2>2. ASSUME NEW i \in F  PROVE i \in GoesBefore(b, ok, j)
    <3>1. i # j /\ i \in R /\ j \in R
      BY <1>1, <1>2
    <3>2. ~GoesFirst(b, j, i)
      <4>1. GoesFirst(b, j, i) => j \in GoesBefore(b, ok, i)
        BY <3>1 DEF GoesBefore
      <4>2. j \in GoesBefore(b, ok, i) => j \in F
        BY ForcedInOrder
      <4>3. QED  BY <1>2, <4>1, <4>2
    <3>3. GoesFirst(b, i, j)
      BY <1>1, <3>1, <3>2, TakenInOrder
    <3>4. QED  BY <3>1, <3>3 DEF GoesBefore
  <2>3. QED  BY <2>1, <2>2
<1>4. CanSpool(b[j].text, ok)
  <2>1. ~GoesFirst(b, k, j) /\ k \in 1..Len(b) /\ j \in 1..Len(b)
    BY <1>1, <1>2
  <2>2. TextLen(b[k].text) <= TextLen(b[j].text)
    BY <2>1, TakenInOrder
  <2> DEFINE t == b[j].text
             u == b[k].text
  <2>3. t \in Texts /\ t.depth = 0 /\ u \in Texts /\ u.depth = 0
    BY <2>1, FreshFacts
  <2>4. TextLen(u) <= TextLen(t) /\ CanSpool(u, ok)
    BY <2>2
  <2> HIDE DEF t, u
  <2>5. CanSpool(t, ok)
    BY <2>3, <2>4, LongerSpools
  <2>6. QED  BY <2>5 DEF t
<1>5. \A i \in F : /\ Total(Replace(b, GoesBefore(b, ok, i)), R) > BatchLimit
                   /\ CanSpool(b[i].text, ok)
  BY <1>1, ForcedIs
<1>6. ~(Total(Replace(b, GoesBefore(b, ok, j)), R) > BatchLimit)
  <2>1. j \in R /\ j \notin F
    BY <1>2
  <2>2. \E i \in F \cup {j} : ~(/\ Total(Replace(b, GoesBefore(b, ok, i)), R) > BatchLimit
                                /\ CanSpool(b[i].text, ok))
    BY <1>3, <2>1, ForcedIs
  <2>3. QED  BY <1>4, <1>5, <2>2
<1> DEFINE total == Total(Replace(b, F), R)
<1>7. ~(total > BatchLimit)
  BY <1>3, <1>6
<1>8. total \in Nat
  <2>1. SUFFICES Total(Replace(b, F), R) \in Nat
    OBVIOUS
  <2> HIDE DEF R, F
  <2>2. QED  BY <1>1, ReplacedTotal DEF R
<1>9. BatchLimit \in Nat
  BY SpoolAssumption
<1> HIDE DEF total
<1>10. total <= BatchLimit
  BY <1>7, <1>8, <1>9
<1> QED  BY <1>10 DEF total

\* What it took last could not have stayed.
LEMMA LastForced ==
  ASSUME NEW b, FreshBatch(b), NEW ok \in BOOLEAN, NEW i \in ForcedOut(b, ok),
         \A j \in ForcedOut(b, ok) : TextLen(b[i].text) <= TextLen(b[j].text)
  PROVE  Total(Replace(b, ForcedOut(b, ok)), BatchRest(b, ok))
           - TextLen(Replace(b, ForcedOut(b, ok))[i].text) + TextLen(b[i].text) > BatchLimit
<1> DEFINE R == BatchRest(b, ok)
           F == ForcedOut(b, ok)
           Order == {p \in R \X R : GoesFirst(b, p[2], p[1])}
<1>1. R \in SUBSET (1..Len(b)) /\ F \in SUBSET R /\ Len(b) \in Nat
  BY ForcedIs, FreshFacts
<1>2. PICK l \in F : \A k \in F : ~GoesFirst(b, l, k)
  <2>1. \A k, m \in R : <<k, m>> \in Order <=> GoesFirst(b, m, k)
    OBVIOUS
  <2>2. F \in SUBSET (1..Len(b)) /\ i \in F /\ F \in SUBSET R
    BY <1>1
  <2> HIDE DEF R, F, Order
  <2>3. \A k \in F : <<k, k>> \notin Order
    BY <1>1, <2>1, <2>2, TakenInOrder
  <2>4. \A k, m, o \in F : <<k, m>> \in Order /\ <<m, o>> \in Order => <<k, o>> \in Order
    BY <1>1, <2>1, <2>2, TakenInOrder
  <2> DEFINE n == Len(b)
  <2>5. n \in Nat /\ F \in SUBSET (1..n) /\ F # {}
    BY <1>1, <2>2
  <2> HIDE DEF n
  <2>6. \E l \in F : \A k \in F : <<k, l>> \notin Order
    BY <2>3, <2>4, <2>5, FirstInOrder
  <2>7. QED  BY <2>1, <2>2, <2>6
<1>3. l \in R /\ l \in 1..Len(b) /\ i \in R /\ i \in 1..Len(b)
  BY <1>1, <1>2
<1>4. GoesBefore(b, ok, l) = F \ {l}
  <2>1. \A k \in GoesBefore(b, ok, l) : k \in F
    BY <1>2, ForcedInOrder
  <2>2. l \notin GoesBefore(b, ok, l)
    BY <1>2 DEF GoesBefore
  <2>3. ASSUME NEW k \in F, k # l  PROVE k \in GoesBefore(b, ok, l)
    <3>1. k \in R /\ k \in 1..Len(b) /\ ~GoesFirst(b, l, k)
      BY <1>1, <1>2, <2>3
    <3>2. GoesFirst(b, k, l)
      BY <1>3, <2>3, <3>1, TakenInOrder
    <3>3. QED  BY <3>1, <3>2 DEF GoesBefore
  <2>4. QED  BY <2>1, <2>2, <2>3
<1> DEFINE whole == Replace(b, F \ {l})
           short == Replace(b, F)
<1>5. Total(whole, R) > BatchLimit
  BY <1>2, <1>3, <1>4, ForcedIs
<1>6. TextLen(b[l].text) = TextLen(b[i].text)
  <2>1. TextLen(b[i].text) <= TextLen(b[l].text)
    BY <1>2
  <2>2. TextLen(b[l].text) <= TextLen(b[i].text)
    BY <1>2, <1>3, TakenInOrder
  <2>3. TextLen(b[i].text) \in Nat /\ TextLen(b[l].text) \in Nat
    BY <1>3, FreshFacts
  <2>4. QED  BY <2>1, <2>2, <2>3
<1>7. /\ F \in SUBSET (1..Len(b)) /\ F \ {l} \in SUBSET (1..Len(b))
      /\ l \in F /\ i \in F /\ l \notin F \ {l}
  BY <1>1, <1>2
<1>8. /\ TextLen(short[i].text) = TextLen(Preview(b[i].text))
      /\ TextLen(short[l].text) = TextLen(Preview(b[l].text))
      /\ TextLen(whole[l].text) = TextLen(b[l].text)
  BY <1>3, <1>7, ReplacedLength
<1>9. TextLen(Preview(b[i].text)) = TextLen(Preview(b[l].text))
  BY <1>3, <1>6, FreshFacts
<1>10. \A k \in R \ {l} : TextLen(whole[k].text) = TextLen(short[k].text)
  <2>1. ASSUME NEW k \in R \ {l}
        PROVE  TextLen(whole[k].text) = TextLen(short[k].text)
    <3>1. k \in 1..Len(b) /\ (k \in F <=> k \in F \ {l})
      BY <1>1
    <3>2. whole[k].text = short[k].text
      BY <1>7, <3>1, ReplacedLength
    <3>3. QED  BY <3>2
  <2>2. QED  BY <2>1
<1>11. \A k \in R : TextLen(whole[k].text) \in Nat /\ TextLen(short[k].text) \in Nat
  BY <1>1, <1>7, ReplacedLength
<1> HIDE DEF whole, short, R, F
<1>12. Total(whole, R \ {l}) = Total(short, R \ {l})
  BY <1>10, TotalSame
<1> DEFINE n == Len(b)
<1>13. n \in Nat /\ R \in SUBSET (1..n)
  BY <1>1
<1> HIDE DEF n
<1>14. /\ Total(whole, R) = Total(whole, R \ {l}) + TextLen(whole[l].text)
       /\ Total(whole, R \ {l}) \in Nat
  BY <1>3, <1>11, <1>13, TotalWithout
<1>15. Total(short, R) = Total(short, R \ {l}) + TextLen(short[l].text)
  BY <1>3, <1>11, <1>13, TotalWithout
<1> DEFINE most == Total(short, R \ {l})
           p    == TextLen(short[l].text)
           k    == TextLen(b[l].text)
<1>16. most \in Nat /\ p \in Nat /\ k \in Nat
  BY <1>3, <1>11, <1>12, <1>14, <1>8
<1>17. most + k > BatchLimit
  BY <1>5, <1>8, <1>12, <1>14
<1>18. Total(short, R) = most + p /\ TextLen(short[i].text) = p /\ TextLen(b[i].text) = k
  BY <1>6, <1>8, <1>9, <1>15
<1>19. BatchLimit \in Nat
  BY SpoolAssumption
<1> HIDE DEF most, p, k
<1>20. (most + p) - p + k > BatchLimit
  BY <1>16, <1>17, <1>19
<1>21. Total(short, R) - TextLen(short[i].text) + TextLen(b[i].text) > BatchLimit
  BY <1>18, <1>20
<1> QED  BY <1>21 DEF short, R, F

\* What BatchBounded says of the results a run was given.
Bounded(filled) ==
  LET len(i)  == Size[filled[i].text.src]
      spooled == {i \in DOMAIN filled : filled[i].text.depth > 0}
      forced  == {i \in spooled : len(i) <= SingleLimit}
      total   == Total(filled, (DOMAIN filled \ spooled) \cup forced)
  IN  spooled # {} =>
        /\ total <= BatchLimit \/ \A i \in DOMAIN filled \ spooled : ~CanSpool(filled[i].text, TRUE)
        /\ \A i \in forced : (\A j \in forced : len(j) >= len(i)) =>
             total - TextLen(filled[i].text) + len(i) > BatchLimit

LEMMA FilledBounded ==
  ASSUME NEW b, FreshBatch(b), NEW ok \in BOOLEAN
  PROVE  Bounded(Replace(b, SpooledIn(b, DOMAIN b, ok)))
<1> DEFINE R       == BatchRest(b, ok)
           F       == ForcedOut(b, ok)
           S       == Singles(b, DOMAIN b, ok)
           filled  == Replace(b, SpooledIn(b, DOMAIN b, ok))
           short   == Replace(b, F)
           len(i)  == Size[filled[i].text.src]
           spooled == {i \in DOMAIN filled : filled[i].text.depth > 0}
           forced  == {i \in spooled : len(i) <= SingleLimit}
<1>1. /\ R \in SUBSET (1..Len(b)) /\ F \in SUBSET R /\ Len(b) \in Nat
      /\ DOMAIN b = 1..Len(b) /\ DOMAIN filled = 1..Len(b)
  <2>1. DOMAIN filled = DOMAIN b
    BY DEF Replace
  <2>2. QED  BY <2>1, ForcedIs, FreshFacts
<1>2. /\ S \in SUBSET (1..Len(b)) /\ R = (1..Len(b)) \ S
      /\ \A i \in S : TextLen(b[i].text) > SingleLimit /\ CanSpool(b[i].text, ok)
      /\ \A i \in R : CanSpool(b[i].text, ok) => ~(TextLen(b[i].text) > SingleLimit)
  <2>1. Tools(b, DOMAIN b) = 1..Len(b)
    BY <1>1 DEF Tools, FreshBatch
  <2>2. S = {i \in 1..Len(b) : TextLen(b[i].text) > SingleLimit /\ CanSpool(b[i].text, ok)}
    BY <2>1 DEF Singles
  <2>3. R = (1..Len(b)) \ S
    BY <2>1 DEF BatchRest
  <2> HIDE DEF S, R
  <2>4. QED  BY <2>2, <2>3
<1>3. SpooledIn(b, DOMAIN b, ok) = S \cup F
  BY DEF SpooledIn, ForcedOut
<1>4. \A i \in F : CanSpool(b[i].text, ok)
  BY <1>1, ForcedIs
<1>5. S \cup F \in SUBSET (1..Len(b))
  BY <1>1, <1>2
<1>6. \A i \in 1..Len(b) : filled[i].text = IF i \in S \cup F THEN Preview(b[i].text) ELSE b[i].text
  BY <1>3, <1>5, ReplacedLength
<1>7. F \in SUBSET (1..Len(b))
  BY <1>1
<1>8. \A i \in 1..Len(b) : short[i].text = IF i \in F THEN Preview(b[i].text) ELSE b[i].text
  BY <1>7, ReplacedLength
<1>9. ASSUME NEW i \in 1..Len(b)
      PROVE  /\ len(i) = TextLen(b[i].text)
             /\ filled[i].text.depth > 0 <=> i \in S \cup F
  <2> DEFINE t == b[i].text
  <2>1. t \in Texts /\ t.depth = 0
    BY FreshFacts
  <2>2. TextLen(b[i].text) = Size[t.src]
    BY FreshFacts
  <2>3. filled[i].text = IF i \in S \cup F THEN Preview(t) ELSE t
    BY <1>6
  <2> HIDE DEF t, filled, S, F
  <2>4. Preview(t) = [src |-> t.src, depth |-> 1]
    BY <2>1, FreshLength
  <2>5. Preview(t).src = t.src /\ Preview(t).depth = 1
    BY <2>4
  <2>6. filled[i].text.src = t.src /\ (filled[i].text.depth > 0 <=> i \in S \cup F)
    BY <2>1, <2>3, <2>5
  <2>7. QED  BY <2>2, <2>6
<1> HIDE DEF R, F, S, filled, short
<1>10. spooled = S \cup F
  BY <1>1, <1>5, <1>9
<1>11. forced = F
  <2>1. SingleLimit \in Nat
    BY SpoolAssumption
  <2>2. \A i \in 1..Len(b) : TextLen(b[i].text) \in Nat
    BY FreshFacts
  <2>3. \A i \in F : i \in spooled /\ len(i) <= SingleLimit
    BY <1>1, <1>2, <1>4, <1>9, <1>10, <2>1, <2>2
  <2>4. \A i \in S : ~(len(i) <= SingleLimit)
    BY <1>2, <1>9, <2>1, <2>2
  <2>5. QED  BY <1>10, <2>3, <2>4
<1>12. (DOMAIN filled \ spooled) \cup forced = R /\ DOMAIN filled \ spooled = R \ F
  BY <1>1, <1>2, <1>10, <1>11
<1>13. \A i \in R : filled[i].text = short[i].text
  BY <1>1, <1>2, <1>6, <1>8
<1>14. Total(filled, R) = Total(short, R)
  <2>1. \A i \in R : TextLen(filled[i].text) = TextLen(short[i].text)
    BY <1>13
  <2>2. QED  BY <2>1, TotalSame
<1>15. ASSUME spooled # {}, ~(Total(filled, R) <= BatchLimit), NEW i \in R \ F
       PROVE  ~CanSpool(filled[i].text, TRUE)
  <2>1. ok = TRUE
    BY <1>2, <1>4, <1>10, <1>15 DEF CanSpool
  <2>2. filled[i].text = b[i].text
    BY <1>1, <1>2, <1>6
  <2>3. ~CanSpool(b[i].text, ok)
    <3>1. ~(Total(short, R) <= BatchLimit)
      BY <1>14, <1>15
    <3>2. QED  BY <3>1, LeftOver DEF R, F, short
  <2>4. QED  BY <2>1, <2>2, <2>3
<1>16. ASSUME NEW i \in F, \A j \in F : len(j) >= len(i)
       PROVE  Total(filled, R) - TextLen(filled[i].text) + len(i) > BatchLimit
  <2>1. i \in R /\ i \in 1..Len(b)
    BY <1>1
  <2>2. \A j \in F : TextLen(b[i].text) <= TextLen(b[j].text)
    <3>1. ASSUME NEW j \in F  PROVE TextLen(b[i].text) <= TextLen(b[j].text)
      <4>1. j \in 1..Len(b) /\ len(j) >= len(i)
        BY <1>7, <1>16
      <4>2. len(j) = TextLen(b[j].text) /\ len(i) = TextLen(b[i].text)
        BY <1>9, <2>1, <4>1
      <4>3. QED  BY <4>1, <4>2
    <3>2. QED  BY <3>1
  <2>3. Total(short, R) - TextLen(short[i].text) + TextLen(b[i].text) > BatchLimit
    BY <2>2, LastForced DEF R, F, short
  <2>4. filled[i].text = short[i].text /\ len(i) = TextLen(b[i].text)
    BY <1>9, <1>13, <2>1
  <2>5. QED  BY <1>14, <2>3, <2>4
<1> DEFINE total == Total(filled, (DOMAIN filled \ spooled) \cup forced)
<1>17. total = Total(filled, R)
  BY <1>12
<1>18. spooled # {} =>
         /\ total <= BatchLimit \/ \A i \in DOMAIN filled \ spooled : ~CanSpool(filled[i].text, TRUE)
         /\ \A i \in forced : (\A j \in forced : len(j) >= len(i)) =>
              total - TextLen(filled[i].text) + len(i) > BatchLimit
  <2> HIDE DEF total, spooled, forced, len
  <2>1. QED  BY <1>11, <1>12, <1>15, <1>16, <1>17
<1>19. Bounded(filled)
  BY <1>18 DEF Bounded
<1> QED  BY <1>19 DEF filled

\* A batch that was given to a run is bounded, for all limits and results.
THEOREM BatchesAreBounded == Spec => BatchBounded
<1>1. SpoolSound /\ [Next]_vars =>
        (batches' # batches => Bounded(SubSeq(run'.history, Len(run.history) + 1, Len(run'.history))))
  <2> SUFFICES ASSUME SpoolSound, [Next]_vars, batches' # batches
               PROVE  Bounded(SubSeq(run'.history, Len(run.history) + 1, Len(run'.history)))
    OBVIOUS
  <2>1. ToolResults
    BY DEF Next, vars, StartRun, Prepare, SummaryFails, SummaryComes, RunCompletes, RunAbandoned,
           StartCompact, ResumeShort, StartResume, WaitingFails, WaitingSucceeds, Killed
  <2>2. run # Nothing /\ run.history \in Seq(M) /\ Batches \subseteq Seq(Results)
    BY <2>1, SoundFacts DEF ToolResults, Safe
  <2>3. PICK results \in Batches, ok \in BOOLEAN :
          LET batch   == [i \in DOMAIN results |-> Message("tool", results[i])]
              spooled == SpooledIn(batch, DOMAIN batch, ok)
          IN  run' = [pc |-> "prepare", history |-> run.history \o Replace(batch, spooled),
                      added |-> run.added \o Replace(batch, spooled)]
    BY <2>1 DEF ToolResults
  <2> DEFINE batch   == [i \in DOMAIN results |-> Message("tool", results[i])]
             spooled == SpooledIn(batch, DOMAIN batch, ok)
             filled  == Replace(batch, spooled)
             h       == run.history
  <2>4. FreshBatch(batch)
    <3>1. results \in Seq(Results)
      BY <2>2
    <3>2. Len(results) \in Nat /\ DOMAIN results = 1..Len(results) /\ \A i \in 1..Len(results) : results[i] \in Contents
      BY <3>1, Indices DEF Contents
    <3>3. \A i \in 1..Len(results) : batch[i] \in M /\ batch[i].role = "tool" /\ batch[i].text.depth = 0
      <4>1. \A s \in Contents : Message("tool", s) \in M
        BY FreshLinks
      <4>2. \A s : Message("tool", s).role = "tool" /\ Message("tool", s).text.depth = 0
        BY DEF Message, Text
      <4>3. QED  BY <3>2, <4>1, <4>2
    <3>4. batch = [i \in 1..Len(results) |-> batch[i]]
      BY <3>2
    <3> HIDE DEF batch
    <3>5. batch \in Seq(M) /\ Len(batch) = Len(results)
      BY <3>2, <3>3, <3>4
    <3>6. QED  BY <3>3, <3>5 DEF FreshBatch
  <2>5. Bounded(filled)
    <3> HIDE DEF batch
    <3>1. QED  BY <2>4, FilledBounded
  <2>6. filled \in Seq(M)
    <3>1. batch \in Seq(M) /\ DOMAIN batch = 1..Len(batch)
      BY <2>4, FreshFacts DEF FreshBatch
    <3> HIDE DEF batch
    <3>2. spooled \in SUBSET (1..Len(batch))
      BY <3>1, SpooledInBlock
    <3> HIDE DEF spooled
    <3>3. QED  BY <3>1, <3>2, ReplaceIs
  <2>7. run'.history = h \o filled
    BY <2>3
  <2>8. h \in Seq(M)
    BY <2>2
  <2> HIDE DEF batch, spooled, filled, h
  <2>9. SubSeq(h \o filled, Len(h) + 1, Len(h \o filled)) = filled
    BY <2>6, <2>8, CutApart
  <2>10. SubSeq(run'.history, Len(h) + 1, Len(run'.history)) = filled
    BY <2>7, <2>9
  <2>11. QED  BY <2>5, <2>10 DEF h
<1>2. (batches' # batches => Bounded(SubSeq(run'.history, Len(run.history) + 1, Len(run'.history))))
        <=> (batches' # batches =>
               LET filled  == SubSeq(run'.history, Len(run.history) + 1, Len(run'.history))
                   len(i)  == Size[filled[i].text.src]
                   spooled == {i \in DOMAIN filled : filled[i].text.depth > 0}
                   forced  == {i \in spooled : len(i) <= SingleLimit}
                   total   == Total(filled, (DOMAIN filled \ spooled) \cup forced)
               IN  spooled # {} =>
                     /\ total <= BatchLimit \/ \A i \in DOMAIN filled \ spooled : ~CanSpool(filled[i].text, TRUE)
                     /\ \A i \in forced : (\A j \in forced : len(j) >= len(i)) =>
                          total - TextLen(filled[i].text) + len(i) > BatchLimit)
  BY DEF Bounded
<1> QED  BY SpoolInductive, <1>1, <1>2, PTL DEF Spec, BatchBounded

(***************************************************************************)
(* Skills: consent                                                         *)
(***************************************************************************)
\* What is active was allowed, and what is trusted was allowed for the session.
SkillsSound == ScriptsConsented /\ TrustIsLasting

\* An active Skill is what some directory held when it was trusted.
LEMMA KeepSound ==
  ASSUME SkillsSound, NEW kept, Keep(kept),
         UNCHANGED trust
  PROVE  SkillsSound'
  BY DEF SkillsSound, ScriptsConsented, TrustIsLasting, Keep, trust

\* Activating a Skill with a trust that was consented to.
LEMMA ActivateSound ==
  ASSUME SkillsSound, NEW n, NEW trustedDirs,
         trustedDirs \subseteq consents', consents \subseteq consents',
         trusted' \cup scriptRoots' \subseteq consents', trusted' = lasting',
         Activates(n, index, trustedDirs), Activate(n)
  PROVE  SkillsSound'
<1>1. ASSUME NEW m \in DOMAIN active', active'[m].scripts,
             LevelOf[active'[m].dir] # "builtin"
      PROVE  active'[m].dir \in consents'
  <2>1. CASE m = n
    BY <1>1, <2>1 DEF Activates, Activate, Loaded, NeedsConsent
  <2>2. CASE m # n
    BY <1>1, <2>2 DEF Activate, SkillsSound, ScriptsConsented
  <2> QED BY <2>1, <2>2
<1> QED BY <1>1 DEF SkillsSound, ScriptsConsented, TrustIsLasting

\* Whatever confirm_activate and run_isolated do once the question is settled.
LEMMA ProceedSound ==
  ASSUME SkillsSound, NEW c, NEW n, NEW wanted, NEW during, NEW after,
         during \subseteq consents', consents \subseteq consents',
         trusted' \cup scriptRoots' \subseteq consents', trusted' = lasting',
         Proceed(c, n, wanted, during, after)
  PROVE  SkillsSound'
<1>1. CASE UNCHANGED <<active, order>>
  BY <1>1 DEF SkillsSound, ScriptsConsented, TrustIsLasting
<1>2. CASE Activates(n, index, during) /\ Activate(n)
  BY <1>2, ActivateSound
<1>3. CASE Deactivate(n)
  BY <1>3 DEF Deactivate, Keep, SkillsSound, ScriptsConsented, TrustIsLasting
<1> QED BY <1>1, <1>2, <1>3 DEF Proceed

\* Rescanning activates again what stays.
LEMMA RescanSound ==
  ASSUME SkillsSound, Rescan, UNCHANGED trust
  PROVE  SkillsSound'
<1>1. ASSUME NEW m \in DOMAIN active', active'[m].scripts,
             LevelOf[active'[m].dir] # "builtin"
      PROVE  active'[m].dir \in consents'
  <2>1. /\ Activates(m, Scanned, trusted)
        /\ active'[m] = Loaded(Scanned[m].dir)
    BY <1>1 DEF Rescan
  <2> QED BY <1>1, <2>1 DEF Activates, Loaded, NeedsConsent, SkillsSound, ScriptsConsented, trust
<1> QED BY <1>1 DEF SkillsSound, ScriptsConsented, TrustIsLasting, trust

\* Where the Skills and their trust stay as they are.
LEMMA NothingActivated ==
  ASSUME SkillsSound, UNCHANGED <<active, order, trust>>
  PROVE  SkillsSound'
  BY DEF SkillsSound, ScriptsConsented, TrustIsLasting, trust

\* In every reachable state the scripts of an active Skill were allowed, and
\* the trusted directories are those allowed for the session.
THEOREM SkillsInductive == SkillsSpec => []SkillsSound
<1>1. SkillsInit => SkillsSound
  BY DEF SkillsInit, SkillsSound, ScriptsConsented, TrustIsLasting
<1>2. SkillsSound /\ [SkillsNext]_skillVars => SkillsSound'
  <2> SUFFICES ASSUME SkillsSound, [SkillsNext]_skillVars PROVE SkillsSound'
    OBVIOUS
  <2>1. ASSUME NEW c \in Callers, NEW n, NEW wanted, Call(c, n, wanted)
        PROVE  SkillsSound'
    <3>1. UNCHANGED trust
      BY <2>1 DEF Call
    <3>2. CASE UNCHANGED <<active, order>>
      BY <3>1, <3>2, NothingActivated DEF trust
    <3>3. CASE Proceed(c, n, wanted, trusted, trusted)
      BY <3>1, <3>3, ProceedSound DEF trust, SkillsSound, ScriptsConsented, TrustIsLasting
    <3> QED BY <2>1, <3>2, <3>3 DEF Call
  <2>2. ASSUME NEW c \in Callers, NEW choice \in {"once", "session"}, Allow(c, choice)
        PROVE  SkillsSound'
    <3> DEFINE dir == calls[c].dir
    <3>1. /\ trusted' = TrustAfter(dir, choice)
          /\ scriptRoots' = scriptRoots \cup {dir}
          /\ consents' = consents \cup {dir}
          /\ lasting' = IF choice = "session" THEN lasting \cup {dir} ELSE lasting
          /\ Proceed(c, calls[c].name, calls[c].wanted, trusted \cup {dir}, TrustAfter(dir, choice))
      BY <2>2 DEF Allow
    <3>2. TrustAfter(dir, choice) \subseteq trusted \cup {dir}
      BY DEF TrustAfter
    <3>3. trusted \cup scriptRoots \subseteq consents /\ trusted = lasting
      BY DEF SkillsSound, ScriptsConsented, TrustIsLasting
    <3>4. trusted' = lasting'
      BY <3>1, <3>3 DEF TrustAfter
    <3> QED BY <3>1, <3>2, <3>3, <3>4, ProceedSound
  <2>3. ASSUME NEW c \in Callers, RunEnds(c)
        PROVE  SkillsSound'
    BY <2>3, KeepSound DEF RunEnds, Deactivate
  <2>4. CASE Clear
    BY <2>4 DEF Clear, Keep, SkillsSound, ScriptsConsented, TrustIsLasting
  <2>5. CASE Rescan /\ UNCHANGED trust
    BY <2>5, RescanSound
  <2>6. CASE UNCHANGED <<active, order, trust>>
    BY <2>6, NothingActivated
  <2>7. ASSUME NEW i \in Installs, InstallReported(i)
        PROVE  SkillsSound'
    BY <2>5, <2>6, <2>7 DEF InstallReported, trust
  <2>8. ASSUME NEW i \in Installs,
               \/ \E d \in Dirs : InstallBegins(i, d)
               \/ DownloadFails(i) \/ MakeDir(i) \/ WriteFile(i) \/ WriteFails(i) \/ InstallParses(i)
        PROVE  UNCHANGED <<active, order, trust>>
    BY <2>8 DEF InstallBegins, DownloadFails, MakeDir, WriteFile, WriteFails, InstallParses,
                InstallOnly, trust
  <2>9. ASSUME NEW c \in Callers, Deny(c)
        PROVE  UNCHANGED <<active, order, trust>>
    BY <2>9 DEF Deny, trust
  <2>10. ASSUME NEW d \in Dirs, UserEdits(d)
         PROVE  UNCHANGED <<active, order, trust>>
    BY <2>10 DEF UserEdits, trust
  <2>11. CASE UNCHANGED skillVars
    BY <2>6, <2>11 DEF skillVars, trust
  <2>12. CASE RescanCommand
    BY <2>5, <2>12 DEF RescanCommand
  <2> QED BY <2>1, <2>2, <2>3, <2>4, <2>6, <2>7, <2>8, <2>9, <2>10, <2>11, <2>12
          DEF SkillsNext, LoadSkill, RunSkill
<1> QED BY <1>1, <1>2, PTL DEF SkillsSpec

\* No script of an active Skill was loaded without the user's consent.
THEOREM NoScriptWithoutConsent == SkillsSpec => []ScriptsConsented
<1>1. SkillsSound => ScriptsConsented
  BY DEF SkillsSound
<1> QED BY SkillsInductive, <1>1, PTL

\* "Once" leaves no trust behind, "session" is not asked for again.
THEOREM TrustLasts == SkillsSpec => []TrustIsLasting
<1>1. SkillsSound => TrustIsLasting
  BY DEF SkillsSound
<1> QED BY SkillsInductive, <1>1, PTL

(***************************************************************************)
(* Skills: their types, and the order of what is active                    *)
(***************************************************************************)
CallTypes ==
  [phase : {"idle", "asking", "running"}, name : Names \cup {""}, dir : Dirs \cup {""},
   wanted : {"", "loaded"} \cup Entries]
InstallTypes ==
  [phase : {"idle", "downloading", "writing", "installed"}, dir : Dirs \cup {""}, entry : Entries,
   left : SUBSET {"entry", "scripts"}]

\* The order lists each active Skill once.
Listed(names, list) ==
  /\ list \in Seq(Names)
  /\ names = {list[k] : k \in 1..Len(list)}
  /\ \A j, k \in 1..Len(list) : list[j] = list[k] => j = k

\* What waits is typed as well, and so is the mode that the index gives.
SkillsTyped ==
  /\ disk \in [Dirs -> Files]
  /\ DOMAIN index \subseteq Names
  /\ \A n \in DOMAIN index : index[n].dir \in Dirs /\ index[n].mode \in Entries
  /\ DOMAIN active \subseteq Names /\ \A n \in DOMAIN active : active[n] \in ActiveSkills
  /\ Listed(DOMAIN active, order)
  /\ trusted \subseteq Dirs /\ scriptRoots \subseteq Dirs /\ consents \subseteq Dirs /\ lasting \subseteq Dirs
  /\ calls \in [Callers -> CallTypes]
  /\ \A c \in Callers : calls[c].phase = "asking" => calls[c].dir \in Dirs
  /\ installs \in [Installs -> InstallTypes]

LEMMA LeftIs ==
  ASSUME SkillsTyped, NEW kept
  PROVE  Listed(DOMAIN active \cap kept, Left(kept))
<1> DEFINE places == {k \in DOMAIN order : order[k] \in kept}
           p == Picked(order, places)
           c == Cardinality(places)
<1>1. order \in Seq(Names) /\ Len(order) \in Nat /\ DOMAIN order = 1..Len(order)
  BY DEF SkillsTyped, Listed
<1>2. places \in SUBSET (1..Len(order))
  BY <1>1
<1>3. /\ p \in Seq(Names) /\ Len(p) = c /\ c \in Nat
      /\ \A r \in 1..c : Nth(places, r) \in places /\ p[r] = order[Nth(places, r)]
      /\ \A q, r \in 1..c : q < r => Nth(places, q) < Nth(places, r)
      /\ \A k \in places : \E r \in 1..c : Nth(places, r) = k
  <2>1. order \in Seq(Names) /\ places \in SUBSET (1..Len(order))
    BY <1>1, <1>2
  <2> HIDE DEF places
  <2>2. /\ Picked(order, places) \in Seq(Names)
        /\ Len(Picked(order, places)) = Cardinality(places)
        /\ Cardinality(places) \in Nat
    BY <2>1, PickedIs
  <2>3. \A r \in 1..Cardinality(places) :
          Nth(places, r) \in places /\ Picked(order, places)[r] = order[Nth(places, r)]
    BY <2>1, PickedIs
  <2>4. \A q, r \in 1..Cardinality(places) : q < r => Nth(places, q) < Nth(places, r)
    BY <2>1, PickedIs
  <2>5. \A k \in places : \E r \in 1..Cardinality(places) : Nth(places, r) = k
    BY <2>1, PickedIs
  <2>6. QED  BY <2>2, <2>3, <2>4, <2>5
<1> HIDE DEF p, c
<1>4. ASSUME NEW n \in DOMAIN active \cap kept
      PROVE  n \in {p[k] : k \in 1..Len(p)}
  <2>1. PICK k \in 1..Len(order) : order[k] = n
    BY <1>4 DEF SkillsTyped, Listed
  <2>2. k \in places
    BY <1>1, <1>4, <2>1
  <2>3. PICK r \in 1..c : Nth(places, r) = k
    BY <1>3, <2>2
  <2>4. QED  BY <1>3, <2>1, <2>3
<1>5. ASSUME NEW r \in 1..Len(p)
      PROVE  p[r] \in DOMAIN active \cap kept
  <2>1. Nth(places, r) \in places /\ p[r] = order[Nth(places, r)]
    BY <1>3
  <2>2. QED  BY <1>1, <2>1 DEF SkillsTyped, Listed
<1>6. ASSUME NEW q \in 1..Len(p), NEW r \in 1..Len(p), p[q] = p[r]
      PROVE  q = r
  <2>1. /\ Nth(places, q) \in 1..Len(order) /\ Nth(places, r) \in 1..Len(order)
        /\ order[Nth(places, q)] = order[Nth(places, r)]
    BY <1>1, <1>3, <1>6
  <2>2. Nth(places, q) = Nth(places, r)
    BY <2>1 DEF SkillsTyped, Listed
  <2>3. q \in 1..c /\ r \in 1..c
    BY <1>3
  <2>4. ~(q < r) /\ ~(r < q)
    <3>1. \A k \in 1..Len(order) : ~(k < k)
      BY <1>1
    <3>2. QED  BY <1>3, <2>1, <2>2, <2>3, <3>1
  <2>5. QED  BY <1>3, <2>3, <2>4
<1>7. p = Left(kept)
  BY DEF Left, p
<1>8. DOMAIN active \cap kept = {p[k] : k \in 1..Len(p)}
  BY <1>4, <1>5
<1> QED  BY <1>3, <1>6, <1>7, <1>8 DEF Listed

LEMMA ScannedIs ==
  ASSUME disk \in [Dirs -> Files]
  PROVE  /\ DOMAIN Scanned \subseteq Names
         /\ \A n \in DOMAIN Scanned : Scanned[n].dir \in Dirs /\ Scanned[n].mode \in Entries
<1>1. DOMAIN Scanned = {NameOf[d] : d \in Winners}
  BY DEF Scanned
<1>2. Winners \subseteq Dirs
  BY DEF Winners
<1>3. ASSUME NEW n \in DOMAIN Scanned
      PROVE  Scanned[n].dir \in Dirs /\ Scanned[n].mode \in Entries
  <2> DEFINE d == CHOOSE w \in Winners : NameOf[w] = n
  <2>1. Scanned[n] = [dir |-> d, mode |-> disk[d].entry]
    BY <1>1, <1>3 DEF Scanned
  <2>2. d \in Winners
    BY <1>1, <1>3
  <2> HIDE DEF d
  <2>3. d \in Dirs /\ disk[d].entry \in Entries
    BY <1>2, <2>2 DEF Files
  <2>4. QED  BY <2>1, <2>3
<1> QED  BY <1>1, <1>2, <1>3 DEF Names

LEMMA LoadedIs ==
  ASSUME disk \in [Dirs -> Files], NEW d \in Dirs, disk[d].entry \in {"shared", "isolated"}
  PROVE  Loaded(d) \in ActiveSkills
  BY DEF Files, Loaded, ActiveSkills

\* What is active after Keep and after Activate.
LEMMA KeepTyped ==
  ASSUME SkillsTyped, NEW kept, Keep(kept)
  PROVE  /\ DOMAIN active' \subseteq Names /\ \A n \in DOMAIN active' : active'[n] \in ActiveSkills
         /\ Listed(DOMAIN active', order')
<1>1. active' = [m \in DOMAIN active \cap kept |-> active[m]] /\ order' = Left(kept)
  BY DEF Keep
<1>2. DOMAIN active' = DOMAIN active \cap kept /\ \A n \in DOMAIN active' : active'[n] = active[n]
  BY <1>1
<1> QED  BY <1>1, <1>2, LeftIs DEF SkillsTyped

LEMMA ActivateTyped ==
  ASSUME SkillsTyped, NEW n, NEW during, Activates(n, index, during), Activate(n)
  PROVE  /\ DOMAIN active' \subseteq Names /\ \A m \in DOMAIN active' : active'[m] \in ActiveSkills
         /\ Listed(DOMAIN active', order')
<1>1. n \in Names /\ n \in DOMAIN index /\ index[n].dir \in Dirs /\ Loaded(index[n].dir) \in ActiveSkills
  BY LoadedIs DEF SkillsTyped, Activates
<1>2. /\ DOMAIN active' = DOMAIN active \cup {n}
      /\ \A m \in DOMAIN active' : active'[m] = IF m = n THEN Loaded(index[n].dir) ELSE active[m]
      /\ order' = IF n \in DOMAIN active THEN order ELSE Append(order, n)
  BY DEF Activate
<1>3. Listed(DOMAIN active', order')
  <2>1. /\ order \in Seq(Names) /\ Len(order) \in Nat
        /\ DOMAIN active = {order[k] : k \in 1..Len(order)}
        /\ \A j, k \in 1..Len(order) : order[j] = order[k] => j = k
    BY DEF SkillsTyped, Listed
  <2>2. CASE n \in DOMAIN active
    <3>1. DOMAIN active' = DOMAIN active /\ order' = order
      BY <1>2, <2>2
    <3>2. QED  BY <2>1, <3>1 DEF Listed
  <2>3. CASE n \notin DOMAIN active
    <3> DEFINE o == Append(order, n)
    <3>1. /\ o \in Seq(Names) /\ Len(o) = Len(order) + 1 /\ o[Len(order) + 1] = n
          /\ \A k \in 1..Len(order) : o[k] = order[k]
      BY <1>1, <2>1
    <3> HIDE DEF o
    <3>2. \A k \in 1..Len(o) : k \in 1..Len(order) \/ k = Len(order) + 1
      BY <2>1, <3>1
    <3>3. \A k \in 1..Len(order) : k \in 1..Len(o)
      BY <2>1, <3>1
    <3>4. Len(order) + 1 \in 1..Len(o)
      BY <2>1, <3>1
    <3>5. DOMAIN active \cup {n} = {o[k] : k \in 1..Len(o)}
      <4>1. \A k \in 1..Len(o) : o[k] \in DOMAIN active \cup {n}
        BY <2>1, <3>1, <3>2
      <4>2. \A m \in DOMAIN active : \E k \in 1..Len(o) : o[k] = m
        BY <2>1, <3>1, <3>3
      <4>3. QED  BY <3>1, <3>4, <4>1, <4>2
    <3>6. ASSUME NEW j \in 1..Len(o), NEW k \in 1..Len(o), o[j] = o[k]
          PROVE  j = k
      <4>1. \A i \in 1..Len(order) : o[i] # n
        BY <2>1, <2>3, <3>1
      <4>2. QED  BY <2>1, <3>1, <3>2, <3>6, <4>1
    <3>7. order' = o
      BY <1>2, <2>3 DEF o
    <3>8. Listed(DOMAIN active \cup {n}, o)
      BY <3>1, <3>5, <3>6 DEF Listed
    <3>9. QED  BY <1>2, <3>7, <3>8
  <2>4. QED  BY <2>2, <2>3
<1>4. \A m \in DOMAIN active' : active'[m] \in ActiveSkills
  BY <1>1, <1>2 DEF SkillsTyped
<1> QED  BY <1>1, <1>2, <1>3, <1>4 DEF SkillsTyped

LEMMA LetGoTyped ==
  ASSUME SkillsTyped, NEW c \in Callers, LetGo(c)
  PROVE  /\ calls' \in [Callers -> CallTypes]
         /\ \A b \in Callers : calls'[b].phase = "asking" => calls'[b].dir \in Dirs
<1>1. NoCall \in CallTypes /\ NoCall.phase = "idle"
  BY DEF NoCall, CallTypes
<1>2. calls' = [calls EXCEPT ![c] = NoCall] /\ calls \in [Callers -> CallTypes]
  BY DEF LetGo, SkillsTyped
<1>3. \A b \in Callers : calls'[b] = IF b = c THEN NoCall ELSE calls[b]
  BY <1>2
<1> QED  BY <1>1, <1>2, <1>3 DEF SkillsTyped

LEMMA ProceedTyped ==
  ASSUME SkillsTyped, NEW c \in Callers, NEW n, NEW wanted, NEW during, NEW after,
         Proceed(c, n, wanted, during, after)
  PROVE  /\ DOMAIN active' \subseteq Names /\ \A m \in DOMAIN active' : active'[m] \in ActiveSkills
         /\ Listed(DOMAIN active', order')
         /\ calls' \in [Callers -> CallTypes]
         /\ \A b \in Callers : calls'[b].phase = "asking" => calls'[b].dir \in Dirs
<1>1. CASE LetGo(c) /\ UNCHANGED <<active, order>>
  BY <1>1, LetGoTyped DEF SkillsTyped
<1>2. CASE Activates(n, index, during) /\ Activate(n) /\ LetGo(c)
  BY <1>2, LetGoTyped, ActivateTyped
<1>3. CASE Deactivate(n) /\ LetGo(c)
  BY <1>3, LetGoTyped, KeepTyped DEF Deactivate
<1>4. CASE /\ Activates(n, index, during) /\ Activate(n)
           /\ calls' = [calls EXCEPT ![c] = [phase |-> "running", name |-> n, dir |-> "", wanted |-> ""]]
  <2> DEFINE r == [phase |-> "running", name |-> n, dir |-> "", wanted |-> ""]
  <2>1. n \in Names
    BY <1>4 DEF Activates, SkillsTyped
  <2>2. r \in CallTypes /\ r.phase = "running"
    BY <2>1 DEF CallTypes
  <2>3. calls' = [calls EXCEPT ![c] = r] /\ calls \in [Callers -> CallTypes]
    BY <1>4 DEF SkillsTyped
  <2> HIDE DEF r
  <2>4. \A b \in Callers : calls'[b] = IF b = c THEN r ELSE calls[b]
    BY <2>3
  <2>5. /\ calls' \in [Callers -> CallTypes]
        /\ \A b \in Callers : calls'[b].phase = "asking" => calls'[b].dir \in Dirs
    BY <2>2, <2>3, <2>4 DEF SkillsTyped
  <2>6. QED  BY <1>4, <2>5, ActivateTyped
<1> QED  BY <1>1, <1>2, <1>3, <1>4 DEF Proceed

LEMMA CallTyped ==
  ASSUME SkillsTyped, NEW c \in Callers, NEW n, NEW wanted \in {"", "loaded"} \cup Entries,
         Call(c, n, wanted)
  PROVE  SkillsTyped'
<1>1. n \in DOMAIN index /\ n \in Names /\ index[n].dir \in Dirs /\ UNCHANGED <<disk, index, trust, installs>>
  BY DEF Call, SkillsTyped
<1>2. CASE Proceed(c, n, wanted, trusted, trusted)
  BY <1>1, <1>2, ProceedTyped DEF SkillsTyped, trust
<1>3. CASE /\ calls' = [calls EXCEPT ![c] = [phase |-> "asking", name |-> n,
                                             dir |-> index[n].dir, wanted |-> wanted]]
           /\ UNCHANGED <<active, order>>
  <2> DEFINE r == [phase |-> "asking", name |-> n, dir |-> index[n].dir, wanted |-> wanted]
  <2>1. r \in CallTypes /\ r.dir \in Dirs
    BY <1>1 DEF CallTypes
  <2>2. calls' = [calls EXCEPT ![c] = r] /\ calls \in [Callers -> CallTypes]
    BY <1>3 DEF SkillsTyped
  <2> HIDE DEF r
  <2>3. \A b \in Callers : calls'[b] = IF b = c THEN r ELSE calls[b]
    BY <2>2
  <2>4. /\ calls' \in [Callers -> CallTypes]
        /\ \A b \in Callers : calls'[b].phase = "asking" => calls'[b].dir \in Dirs
    BY <2>1, <2>2, <2>3 DEF SkillsTyped
  <2>5. QED  BY <1>1, <1>3, <2>4 DEF SkillsTyped, trust
<1> QED  BY <1>2, <1>3 DEF Call

LEMMA AllowTyped ==
  ASSUME SkillsTyped, NEW c \in Callers, NEW choice, Allow(c, choice)
  PROVE  SkillsTyped'
<1> DEFINE dir == calls[c].dir
<1>1. dir \in Dirs
  BY DEF Allow, SkillsTyped
<1>2. /\ trusted' = TrustAfter(dir, choice) /\ scriptRoots' = scriptRoots \cup {dir}
      /\ consents' = consents \cup {dir}
      /\ lasting' = IF choice = "session" THEN lasting \cup {dir} ELSE lasting
      /\ Proceed(c, calls[c].name, calls[c].wanted, trusted \cup {dir}, TrustAfter(dir, choice))
      /\ UNCHANGED <<disk, index, installs>>
  BY DEF Allow
<1>3. trusted' \subseteq Dirs /\ scriptRoots' \subseteq Dirs /\ consents' \subseteq Dirs /\ lasting' \subseteq Dirs
  BY <1>1, <1>2 DEF TrustAfter, SkillsTyped
<1>4. /\ DOMAIN active' \subseteq Names /\ \A m \in DOMAIN active' : active'[m] \in ActiveSkills
      /\ Listed(DOMAIN active', order')
      /\ calls' \in [Callers -> CallTypes]
      /\ \A b \in Callers : calls'[b].phase = "asking" => calls'[b].dir \in Dirs
  BY <1>2, ProceedTyped
<1> QED  BY <1>2, <1>3, <1>4 DEF SkillsTyped

\* Rescanning keeps of the order what it can activate again.
LEMMA RescanTyped ==
  ASSUME SkillsTyped, Rescan
  PROVE  /\ DOMAIN index' \subseteq Names
         /\ \A n \in DOMAIN index' : index'[n].dir \in Dirs /\ index'[n].mode \in Entries
         /\ DOMAIN active' \subseteq Names /\ \A n \in DOMAIN active' : active'[n] \in ActiveSkills
         /\ Listed(DOMAIN active', order')
<1> DEFINE kept == {n \in DOMAIN active : Activates(n, Scanned, trusted)}
<1>1. index' = Scanned /\ active' = [n \in kept |-> Loaded(Scanned[n].dir)] /\ order' = Left(kept)
  BY DEF Rescan
<1>2. disk \in [Dirs -> Files]
  BY DEF SkillsTyped
<1>3. ASSUME NEW n \in kept  PROVE Loaded(Scanned[n].dir) \in ActiveSkills
  BY <1>2, <1>3, ScannedIs, LoadedIs DEF Activates
<1>4. Listed(DOMAIN active \cap kept, Left(kept))
  BY LeftIs
<1>5. DOMAIN active \cap kept = kept /\ kept \subseteq DOMAIN active
  OBVIOUS
<1> HIDE DEF kept
<1>6. DOMAIN active' = kept /\ \A n \in kept : active'[n] \in ActiveSkills
  BY <1>1, <1>3
<1> QED  BY <1>1, <1>2, <1>4, <1>5, <1>6, ScannedIs DEF SkillsTyped

\* What an installation does to a directory.
LEMMA DiskTyped ==
  ASSUME SkillsTyped, NEW d, NEW held \in Files, disk' = [disk EXCEPT ![d] = held]
  PROVE  disk' \in [Dirs -> Files]
  BY DEF SkillsTyped

LEMMA InstallTyped ==
  ASSUME SkillsTyped, NEW i \in Installs, NEW r \in InstallTypes, installs' = [installs EXCEPT ![i] = r]
  PROVE  installs' \in [Installs -> InstallTypes]
  BY DEF SkillsTyped

LEMMA NoneTyped == NoFiles \in Files /\ NoInstall \in InstallTypes
  BY DEF NoFiles, Files, NoInstall, InstallTypes, Entries

LEMMA RollbackTyped ==
  ASSUME SkillsTyped, NEW i \in Installs, Rollback(i)
  PROVE  disk' \in [Dirs -> Files] /\ installs' \in [Installs -> InstallTypes]
  BY NoneTyped, DiskTyped, InstallTyped DEF Rollback

\* The steps of an installation leave the rest alone.
LEMMA InstallStepTyped ==
  ASSUME SkillsTyped, InstallOnly, disk' \in [Dirs -> Files], installs' \in [Installs -> InstallTypes]
  PROVE  SkillsTyped'
  BY DEF SkillsTyped, InstallOnly, trust

LEMMA InstallBeginsTyped ==
  ASSUME SkillsTyped, NEW i \in Installs, NEW d \in Dirs, InstallBegins(i, d)
  PROVE  SkillsTyped'
<1>1. PICK p \in Payloads :
        installs' = [installs EXCEPT ![i] =
          [phase |-> "downloading", dir |-> d, entry |-> p.entry,
           left |-> {"entry"} \cup (IF p.scripts THEN {"scripts"} ELSE {})]]
  BY DEF InstallBegins
<1>2. p.entry \in Entries
  BY SkillsAssumption
<1> DEFINE r == [phase |-> "downloading", dir |-> d, entry |-> p.entry,
                 left |-> {"entry"} \cup (IF p.scripts THEN {"scripts"} ELSE {})]
<1>3. r \in InstallTypes
  BY <1>2 DEF InstallTypes
<1>4. installs' = [installs EXCEPT ![i] = r]
  BY <1>1
<1> HIDE DEF r
<1>5. installs' \in [Installs -> InstallTypes]
  BY <1>3, <1>4, InstallTyped
<1>6. disk' \in [Dirs -> Files] /\ InstallOnly
  BY DEF InstallBegins, SkillsTyped
<1> QED  BY <1>5, <1>6, InstallStepTyped

LEMMA DownloadFailsTyped ==
  ASSUME SkillsTyped, NEW i \in Installs, DownloadFails(i)
  PROVE  SkillsTyped'
<1>1. installs' \in [Installs -> InstallTypes]
  BY NoneTyped, InstallTyped DEF DownloadFails
<1>2. disk' \in [Dirs -> Files] /\ InstallOnly
  BY DEF DownloadFails, SkillsTyped
<1> QED  BY <1>1, <1>2, InstallStepTyped

LEMMA MakeDirTyped ==
  ASSUME SkillsTyped, NEW i \in Installs, MakeDir(i)
  PROVE  SkillsTyped'
<1>1. InstallOnly
  BY DEF MakeDir
<1>2. CASE Rollback(i)
  BY <1>1, <1>2, RollbackTyped, InstallStepTyped
<1>3. CASE /\ disk' = [disk EXCEPT ![installs[i].dir].there = TRUE]
           /\ installs' = [installs EXCEPT ![i].phase = "writing"]
  <2>1. disk' \in [Dirs -> Files]
    BY <1>3 DEF SkillsTyped, Files
  <2>2. installs' \in [Installs -> InstallTypes]
    BY <1>3 DEF SkillsTyped, InstallTypes
  <2>3. QED  BY <1>1, <2>1, <2>2, InstallStepTyped
<1> QED  BY <1>2, <1>3 DEF MakeDir

LEMMA WriteFileTyped ==
  ASSUME SkillsTyped, NEW i \in Installs, WriteFile(i)
  PROVE  SkillsTyped'
<1>1. InstallOnly
  BY DEF WriteFile
<1>2. PICK part \in installs[i].left :
        /\ disk' = [disk EXCEPT ![installs[i].dir] =
                      [there |-> TRUE,
                       entry |-> IF part = "entry" THEN installs[i].entry ELSE @.entry,
                       scripts |-> @.scripts \/ part = "scripts"]]
        /\ installs' = [installs EXCEPT ![i].left = @ \ {part}]
  BY DEF WriteFile
<1>3. installs[i] \in InstallTypes /\ installs \in [Installs -> InstallTypes] /\ disk \in [Dirs -> Files]
  BY DEF SkillsTyped
<1>4. installs' \in [Installs -> InstallTypes]
  BY <1>2, <1>3 DEF InstallTypes
<1>5. disk' \in [Dirs -> Files]
  <2> DEFINE d == installs[i].dir
             e == IF part = "entry" THEN installs[i].entry ELSE disk[d].entry
             s == disk[d].scripts \/ part = "scripts"
  <2>1. disk' = [disk EXCEPT ![d] = [there |-> TRUE, entry |-> e, scripts |-> s]]
    BY <1>2
  <2>2. CASE d \in Dirs
    <3>1. e \in Entries
      BY <1>3, <2>2 DEF Files, InstallTypes
    <3>2. s \in BOOLEAN
      OBVIOUS
    <3> HIDE DEF d, e, s
    <3>3. [there |-> TRUE, entry |-> e, scripts |-> s] \in Files
      BY <3>1, <3>2 DEF Files
    <3>4. QED  BY <1>3, <2>1, <2>2, <3>3
  <2>3. CASE d \notin Dirs
    <3> HIDE DEF d, e, s
    <3>1. disk' = disk
      BY <1>3, <2>1, <2>3
    <3>2. QED  BY <1>3, <3>1
  <2>4. QED  BY <2>2, <2>3
<1> QED  BY <1>1, <1>4, <1>5, InstallStepTyped

LEMMA WriteFailsTyped ==
  ASSUME SkillsTyped, NEW i \in Installs, WriteFails(i)
  PROVE  SkillsTyped'
  BY RollbackTyped, InstallStepTyped DEF WriteFails

LEMMA InstallParsesTyped ==
  ASSUME SkillsTyped, NEW i \in Installs, InstallParses(i)
  PROVE  SkillsTyped'
<1>1. InstallOnly
  BY DEF InstallParses
<1>2. CASE Rollback(i)
  BY <1>1, <1>2, RollbackTyped, InstallStepTyped
<1>3. CASE installs' = [installs EXCEPT ![i].phase = "installed"] /\ UNCHANGED disk
  <2>1. installs' \in [Installs -> InstallTypes]
    BY <1>3 DEF SkillsTyped, InstallTypes
  <2>2. disk' \in [Dirs -> Files]
    BY <1>3 DEF SkillsTyped
  <2>3. QED  BY <1>1, <2>1, <2>2, InstallStepTyped
<1> QED  BY <1>2, <1>3 DEF InstallParses

LEMMA InstallReportedTyped ==
  ASSUME SkillsTyped, NEW i \in Installs, InstallReported(i)
  PROVE  SkillsTyped'
<1>1. installs' \in [Installs -> InstallTypes] /\ UNCHANGED <<disk, trust, calls>>
  BY NoneTyped, InstallTyped DEF InstallReported
<1>2. CASE Rescan
  BY <1>1, <1>2, RescanTyped DEF SkillsTyped, trust
<1>3. CASE UNCHANGED <<index, active, order>>
  BY <1>1, <1>3 DEF SkillsTyped, trust
<1> QED  BY <1>2, <1>3 DEF InstallReported

LEMMA InitTyped ==
  ASSUME SkillsInit
  PROVE  SkillsTyped
<1>1. disk \in [Dirs -> Files]
  BY SkillsAssumption DEF SkillsInit
<1>2. /\ DOMAIN index \subseteq Names
      /\ \A n \in DOMAIN index : index[n].dir \in Dirs /\ index[n].mode \in Entries
  BY <1>1, ScannedIs DEF SkillsInit
<1>3. DOMAIN active = {} /\ order = << >>
  BY DEF SkillsInit
<1>4. Listed(DOMAIN active, order)
  <2>1. << >> \in Seq(Names) /\ Len(<< >>) = 0 /\ \A k \in 1..0 : FALSE
    OBVIOUS
  <2>2. QED  BY <1>3, <2>1 DEF Listed
<1>5. NoCall \in CallTypes /\ NoCall.phase = "idle"
  BY DEF NoCall, CallTypes
<1>6. calls = [c \in Callers |-> NoCall] /\ installs = [i \in Installs |-> NoInstall]
      /\ trusted = {} /\ scriptRoots = {} /\ consents = {} /\ lasting = {}
  BY DEF SkillsInit
<1> QED  BY <1>1, <1>2, <1>3, <1>4, <1>5, <1>6, NoneTyped DEF SkillsTyped

\* Types are inductive, with what waits.
THEOREM SkillsTypesInductive == SkillsSpec => []SkillsTyped
<1>1. SkillsInit => SkillsTyped
  BY InitTyped
<1>2. SkillsTyped /\ [SkillsNext]_skillVars => SkillsTyped'
  <2> SUFFICES ASSUME SkillsTyped, [SkillsNext]_skillVars PROVE SkillsTyped'
    OBVIOUS
  <2>1. ASSUME NEW c \in Callers, NEW n \in Names, LoadSkill(c, n) \/ RunSkill(c, n)
        PROVE  SkillsTyped'
    <3>1. CASE LoadSkill(c, n)
      BY <3>1, CallTyped DEF LoadSkill
    <3>2. CASE RunSkill(c, n)
      <4>1. index[n].mode \in Entries
        BY <3>2 DEF RunSkill, SkillsTyped
      <4>2. QED  BY <3>2, <4>1, CallTyped DEF RunSkill
    <3>3. QED  BY <2>1, <3>1, <3>2
  <2>2. ASSUME NEW c \in Callers, NEW choice \in {"once", "session"}, Allow(c, choice)
        PROVE  SkillsTyped'
    BY <2>2, AllowTyped
  <2>3. ASSUME NEW c \in Callers, Deny(c)
        PROVE  SkillsTyped'
    BY <2>3, LetGoTyped DEF Deny, SkillsTyped, trust
  <2>4. ASSUME NEW c \in Callers, RunEnds(c)
        PROVE  SkillsTyped'
    BY <2>4, LetGoTyped, KeepTyped DEF RunEnds, Deactivate, SkillsTyped, trust
  <2>5. CASE RescanCommand
    BY <2>5, RescanTyped DEF RescanCommand, SkillsTyped, trust
  <2>6. CASE Clear
    BY <2>6, KeepTyped DEF Clear, SkillsTyped
  <2>7. ASSUME NEW d \in Dirs, UserEdits(d)
        PROVE  SkillsTyped'
    <3>1. PICK held \in Edits : disk' = [disk EXCEPT ![d] = held]
      BY <2>7 DEF UserEdits
    <3>2. disk' \in [Dirs -> Files]
      BY <3>1, SkillsAssumption, DiskTyped
    <3>3. QED  BY <2>7, <3>2 DEF UserEdits, SkillsTyped, trust
  <2>8. ASSUME NEW i \in Installs, NEW d \in Dirs, InstallBegins(i, d)
        PROVE  SkillsTyped'
    BY <2>8, InstallBeginsTyped
  <2>9. ASSUME NEW i \in Installs,
               \/ DownloadFails(i) \/ MakeDir(i) \/ WriteFile(i) \/ WriteFails(i)
               \/ InstallParses(i) \/ InstallReported(i)
        PROVE  SkillsTyped'
    BY <2>9, DownloadFailsTyped, MakeDirTyped, WriteFileTyped, WriteFailsTyped, InstallParsesTyped,
       InstallReportedTyped
  <2>10. CASE UNCHANGED skillVars
    BY <2>10 DEF skillVars, SkillsTyped
  <2> QED  BY <2>1, <2>2, <2>3, <2>4, <2>5, <2>6, <2>7, <2>8, <2>9, <2>10 DEF SkillsNext
<1> QED  BY <1>1, <1>2, PTL DEF SkillsSpec

\* Every variable has its type, and the order lists each active Skill once:
\* through activations, isolated runs that end, rescans that drop some, /clear.
THEOREM OrderListsActive == SkillsSpec => []SkillsTypeOK
<1>1. SkillsTyped => SkillsTypeOK
  <2> SUFFICES ASSUME SkillsTyped PROVE SkillsTypeOK
    OBVIOUS
  <2>1. \A c \in Callers : calls[c].phase \in {"idle", "asking", "running"}
    BY DEF SkillsTyped, CallTypes
  <2>2. \A i \in Installs : installs[i].phase \in {"idle", "downloading", "writing", "installed"}
    BY DEF SkillsTyped, InstallTypes
  <2>3. QED  BY <2>1, <2>2 DEF SkillsTyped, SkillsTypeOK, Listed
<1> QED  BY SkillsTypesInductive, <1>1, PTL
=============================================================================
