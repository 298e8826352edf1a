--------------------------------- MODULE AppProofs --------------------------------
(***************************************************************************)
(* Proofs about ChatApp, about CommandSurface in front of it and about the *)
(* sub-workers of WorkerTasks, for every value of their constants.  The    *)
(* names of WorkerTasks are distinct, so that one module extends them all. *)
(***************************************************************************)
EXTENDS CommandSurface, WorkerTasks, FiniteSetTheorems, TLAPS

-----------------------------------------------------------------------------
(***************************************************************************)
(* The inductive invariant                                                 *)
(***************************************************************************)
\* Turns that are over: begun, and no Skill or reply that still runs.
Past == {t \in 1..turns : t \notin skills /\ (gen # Nothing => t # gen.turn)}

\* A conversation of turns that are over, each of them once.
Whole(c, past) ==
  /\ c \in [turns : Seq(past), folded : 0..MaxTurns]
  /\ \A i, j \in 1..Len(c.turns) : c.turns[i] = c.turns[j] => i = j

\* What a turn that runs has of its own: a number nothing else has.
TurnsApart ==
  /\ skills \subseteq 1..turns
  /\ turnCount <= turns
  /\ gen # Nothing => gen.turn \in 1..turns /\ gen.turn \notin skills /\ turnCount < turns

\* Every conversation there is, the ones that workers hold included, is whole.
ConvsWhole ==
  /\ Whole(conv, Past)
  /\ gen # Nothing => Whole(gen.asked, Past) /\ Whole(gen.history, Past)
  /\ compacting # Nothing => Whole(compacting.asked, Past)
  /\ \A r \in resuming : Whole(r.asked, Past) /\ r.id \in drawn

\* A turn is archived once, and it is not among those that were lost.
ArchivedOnce ==
  /\ \A i \in Ids : archive[i] \in Seq(Past)
  /\ \A i, j \in Ids : \A k \in 1..Len(archive[i]), l \in 1..Len(archive[j]) :
       archive[i][k] = archive[j][l] => i = j /\ k = l
  /\ gone \subseteq Past
  /\ \A i \in Ids : \A k \in 1..Len(archive[i]) : archive[i][k] \notin gone

\* No other worker waits while a reply is generated, and the Skills that run
\* were started before.
ReplyAlone ==
  gen # Nothing =>
    /\ compacting = Nothing /\ resuming = {}
    /\ gen.history.turns = gen.asked.turns
    /\ \A skill \in skills : skill < gen.turn

\* One update at a time, and it was shown all that is in the notes by now.
OneUpdate ==
  /\ \A u, v \in updates : u = v
  /\ \A u \in updates : notes \subseteq u.base

ChatIInv ==
  /\ TypeOK /\ TurnsApart /\ ConvsWhole /\ ArchivedOnce
  /\ ReplyAlone /\ ReplyOwnsConversation /\ OneUpdate /\ MemoryIsArchive

-----------------------------------------------------------------------------
(***************************************************************************)
(* Conversations                                                           *)
(***************************************************************************)
\* A conversation that is whole stays so as more turns are over.
LEMMA WholeGrows ==
  ASSUME NEW c, NEW past, NEW more, past \subseteq more, Whole(c, past)
  PROVE  Whole(c, more)
<1>1. c.turns \in Seq(past) /\ c = [turns |-> c.turns, folded |-> c.folded]
      /\ c.folded \in 0..MaxTurns
  BY DEF Whole
<1>2. c.turns \in Seq(more)
  BY <1>1
<1>3. c \in [turns : Seq(more), folded : 0..MaxTurns]
  BY <1>1, <1>2
<1>4. QED  BY <1>3 DEF Whole

\* A sequence is a function on its positions.
LEMMA SeqFunction ==
  ASSUME NEW S, NEW s \in Seq(S)
  PROVE  Len(s) \in Nat /\ s \in [1..Len(s) -> S]
OBVIOUS

\* It has no more turns than there are.
LEMMA WholeShort ==
  ASSUME NEW c, Whole(c, 1..MaxTurns)
  PROVE  Len(c.turns) \in 0..MaxTurns
<1>0. c.turns \in Seq(1..MaxTurns)
  BY DEF Whole
<1>1. c.turns \in [1..Len(c.turns) -> 1..MaxTurns] /\ Len(c.turns) \in Nat
  BY <1>0, SeqFunction
<1>2. c.turns \in Injection(1..Len(c.turns), 1..MaxTurns)
  BY <1>1 DEF Whole, Injection, IsInjective
<1>3. MaxTurns \in Nat
  BY ChatAssumption
<1>4. IsFiniteSet(1..MaxTurns) /\ Cardinality(1..MaxTurns) = MaxTurns
  BY <1>3, FS_Interval
<1>5. Cardinality(1..Len(c.turns)) <= Cardinality(1..MaxTurns)
  BY <1>2, <1>4, FS_Injection
<1>6. Cardinality(1..Len(c.turns)) = Len(c.turns)
  BY <1>1, FS_Interval
<1>7. QED  BY <1>1, <1>3, <1>4, <1>5, <1>6

\* A compression leaves the turns as they are.
LEMMA CompactionWhole ==
  ASSUME NEW past, past \subseteq 1..MaxTurns, NEW c, Whole(c, past), NEW d \in Compactions(c)
  PROVE  Whole(d, past) /\ d.turns = c.turns /\ d.folded \in 1..MaxTurns
<1>1. c \in [turns : Seq(past), folded : 0..MaxTurns]
  BY DEF Whole
<1>2. PICK k \in 1..(Len(c.turns) - 1) : d = [c EXCEPT !.folded = k]
  BY DEF Compactions
<1>3. Len(c.turns) \in 0..MaxTurns
  BY WholeGrows, WholeShort
<1>4. k \in 1..MaxTurns /\ MaxTurns \in Nat
  BY <1>2, <1>3, ChatAssumption
<1>5. d = [turns |-> c.turns, folded |-> k]
  BY <1>1, <1>2
<1>6. d \in [turns : Seq(past), folded : 0..MaxTurns] /\ d.turns = c.turns /\ d.folded = k
  BY <1>1, <1>4, <1>5
<1>7. QED  BY <1>4, <1>6 DEF Whole

\* A turn that was not over before may join it at the end.
Joined(c, t) == [c EXCEPT !.turns = Append(@, t)]

LEMMA AppendWhole ==
  ASSUME NEW past, NEW more, past \subseteq more, NEW t, t \in more, t \notin past,
         NEW c, Whole(c, past), NEW d, d = Joined(c, t)
  PROVE  Whole(d, more)
<1>0. d = [c EXCEPT !.turns = Append(@, t)]
  BY DEF Joined
<1>1. c \in [turns : Seq(past), folded : 0..MaxTurns]
  BY DEF Whole
<1>2. d.turns = Append(c.turns, t) /\ d.folded = c.folded
      /\ d = [turns |-> d.turns, folded |-> d.folded]
  BY <1>0, <1>1
<1>3. d.turns \in Seq(more) /\ Len(d.turns) = Len(c.turns) + 1 /\ c.turns \in Seq(more)
  BY <1>1, <1>2
<1>4. \A i \in 1..Len(c.turns) : d.turns[i] = c.turns[i] /\ d.turns[i] \in past
  BY <1>1, <1>2
<1>5. d.turns[Len(c.turns) + 1] = t
  BY <1>1, <1>2
<1>6. \A i \in 1..Len(d.turns) : i \in 1..Len(c.turns) \/ i = Len(c.turns) + 1
  BY <1>1, <1>3
<1>7. \A i, j \in 1..Len(d.turns) : d.turns[i] = d.turns[j] => i = j
  BY <1>4, <1>5, <1>6 DEF Whole
<1>8. d \in [turns : Seq(more), folded : 0..MaxTurns]
  BY <1>1, <1>2, <1>3
<1>9. QED  BY <1>2, <1>7, <1>8 DEF Whole

-----------------------------------------------------------------------------
(***************************************************************************)
(* Sequences without some of their members                                 *)
(***************************************************************************)
\* All of them are lost.
LEMMA WithoutAll ==
  ASSUME NEW S, NEW s \in Seq(S), NEW lost, \A k \in 1..Len(s) : s[k] \in lost
  PROVE  IsWithout(<< >>, s, lost)
<1> DEFINE at == [i \in 1..0 |-> 1]
<1>1. at \in [1..Len(<< >>) -> 1..Len(s)]
  OBVIOUS
<1>2. /\ \A i, j \in 1..Len(<< >>) : i < j => at[i] < at[j]
      /\ \A i \in 1..Len(<< >>) : << >>[i] = s[at[i]]
      /\ {at[i] : i \in 1..Len(<< >>)} = {}
      /\ {k \in 1..Len(s) : s[k] \notin lost} = {}
  OBVIOUS
<1> HIDE DEF at
<1>3. QED  BY <1>1, <1>2 DEF IsWithout

\* None of them is lost.
LEMMA WithoutNone ==
  ASSUME NEW S, NEW s \in Seq(S), NEW lost, \A k \in 1..Len(s) : s[k] \notin lost
  PROVE  IsWithout(s, s, lost)
<1> DEFINE at == [i \in 1..Len(s) |-> i]
<1>1. at \in [1..Len(s) -> 1..Len(s)] /\ \A i \in 1..Len(s) : at[i] = i
  OBVIOUS
<1> HIDE DEF at
<1>2. {at[i] : i \in 1..Len(s)} = {k \in 1..Len(s) : s[k] \notin lost}
  BY <1>1
<1>3. \A i, j \in 1..Len(s) : i < j => at[i] < at[j]
  BY <1>1
<1>4. QED  BY <1>1, <1>2, <1>3 DEF IsWithout

\* Only the members that are in the sequence count.
LEMMA WithoutSame ==
  ASSUME NEW a, NEW s, NEW lost, NEW other, IsWithout(a, s, lost),
         \A k \in 1..Len(s) : s[k] \in lost <=> s[k] \in other
  PROVE  IsWithout(a, s, other)
<1>1. {k \in 1..Len(s) : s[k] \notin lost} = {k \in 1..Len(s) : s[k] \notin other}
  OBVIOUS
<1>2. QED  BY <1>1 DEF IsWithout

\* One more member, which is lost at once.
LEMMA WithoutLast ==
  ASSUME NEW S, NEW T, NEW a \in Seq(T), NEW s \in Seq(S), NEW lost, NEW t, t \notin S,
         IsWithout(a, s, lost)
  PROVE  IsWithout(a, Append(s, t), lost \cup {t})
<1>1. PICK at \in [1..Len(a) -> 1..Len(s)] :
        /\ \A i, j \in 1..Len(a) : i < j => at[i] < at[j]
        /\ {at[i] : i \in 1..Len(a)} = {k \in 1..Len(s) : s[k] \notin lost}
        /\ \A i \in 1..Len(a) : a[i] = s[at[i]]
  BY DEF IsWithout
<1> DEFINE r == Append(s, t)
<1>2. Len(r) = Len(s) + 1 /\ \A k \in 1..Len(s) : r[k] = s[k] /\ s[k] # t
  OBVIOUS
<1>3. r[Len(s) + 1] = t /\ Len(s) \in Nat
  OBVIOUS
<1> HIDE DEF r
<1>4. {k \in 1..Len(r) : r[k] \notin lost \cup {t}} = {k \in 1..Len(s) : s[k] \notin lost}
  <2>1. \A k \in 1..Len(r) : k \in 1..Len(s) \/ k = Len(s) + 1
    BY <1>2, <1>3
  <2>2. \A k \in 1..Len(s) : k \in 1..Len(r)
    BY <1>2, <1>3
  <2>3. QED  BY <1>2, <1>3, <2>1, <2>2
<1>5. at \in [1..Len(a) -> 1..Len(r)] /\ \A i \in 1..Len(a) : at[i] \in 1..Len(s)
  BY <1>1, <1>2, <1>3
<1>6. \A i \in 1..Len(a) : a[i] = r[at[i]]
  BY <1>1, <1>2, <1>5
<1>7. IsWithout(a, r, lost \cup {t})
  BY <1>1, <1>4, <1>5, <1>6 DEF IsWithout
<1>8. QED  BY <1>7 DEF r

\* One more member, which is not lost.
LEMMA WithoutBoth ==
  ASSUME NEW S, NEW T, NEW a \in Seq(T), NEW s \in Seq(S), NEW lost, NEW t, t \notin lost,
         IsWithout(a, s, lost)
  PROVE  IsWithout(Append(a, t), Append(s, t), lost)
<1>1. PICK at \in [1..Len(a) -> 1..Len(s)] :
        /\ \A i, j \in 1..Len(a) : i < j => at[i] < at[j]
        /\ {at[i] : i \in 1..Len(a)} = {k \in 1..Len(s) : s[k] \notin lost}
        /\ \A i \in 1..Len(a) : a[i] = s[at[i]]
  BY DEF IsWithout
<1> DEFINE r == Append(s, t)
           b == Append(a, t)
           n == Len(s) + 1
           m == Len(a) + 1
           to == [i \in 1..m |-> IF i = m THEN n ELSE at[i]]
<1>2. Len(r) = n /\ r[n] = t /\ \A k \in 1..Len(s) : r[k] = s[k]
  OBVIOUS
<1>3. Len(b) = m /\ b[m] = t /\ \A k \in 1..Len(a) : b[k] = a[k]
  OBVIOUS
<1>4. n = Len(s) + 1 /\ m = Len(a) + 1 /\ Len(s) \in Nat /\ Len(a) \in Nat
  OBVIOUS
<1>5. to[m] = n /\ \A i \in 1..Len(a) : to[i] = at[i] /\ at[i] \in 1..Len(s)
  BY <1>1
<1>6. DOMAIN to = 1..m
  OBVIOUS
<1>7. \A i \in 1..m : i \in 1..Len(a) \/ i = m
  OBVIOUS
<1>8. \A k \in 1..n : k \in 1..Len(s) \/ k = n
  OBVIOUS
<1>9. to = [i \in 1..m |-> to[i]]
  OBVIOUS
<1> HIDE DEF r, b, n, m, to
<1>10. \A i \in 1..m : to[i] \in 1..n
  BY <1>4, <1>5, <1>7
<1>11. to \in [1..m -> 1..n]
  BY <1>9, <1>10
<1>12. \A i, j \in 1..m : i < j => to[i] < to[j]
  BY <1>1, <1>4, <1>5, <1>7
<1>13. \A i \in 1..m : b[i] = r[to[i]]
  <2>1. \A i \in 1..Len(a) : b[i] = r[to[i]]
    BY <1>1, <1>2, <1>3, <1>5
  <2>2. b[m] = r[to[m]]
    BY <1>2, <1>3, <1>5
  <2>3. QED  BY <1>7, <2>1, <2>2
<1>14. {to[i] : i \in 1..m} = {k \in 1..n : r[k] \notin lost}
  <2>1. \A i \in 1..m : to[i] \in 1..n /\ r[to[i]] \notin lost
    BY <1>1, <1>2, <1>5, <1>7, <1>10
  <2>2. ASSUME NEW k \in 1..n, r[k] \notin lost PROVE \E i \in 1..m : to[i] = k
    <3>1. CASE k = n
      BY <1>4, <1>5, <3>1
    <3>2. CASE k # n
      <4>1. k \in 1..Len(s) /\ s[k] \notin lost
        BY <1>2, <1>8, <2>2, <3>2
      <4>2. PICK i \in 1..Len(a) : at[i] = k
        BY <1>1, <4>1
      <4>3. i \in 1..m
        BY <1>4
      <4>4. QED  BY <1>5, <4>2, <4>3
    <3>3. QED  BY <3>1, <3>2
  <2>3. QED  BY <2>1, <2>2
<1>15. IsWithout(b, r, lost)
  BY <1>2, <1>3, <1>11, <1>12, <1>13, <1>14 DEF IsWithout
<1>16. QED  BY <1>15 DEF r, b

-----------------------------------------------------------------------------
(***************************************************************************)
(* What a step has to keep                                                 *)
(***************************************************************************)
\* Numbers of turns are in the bound.
LEMMA PastTyped ==
  ASSUME TypeOK
  PROVE  Past \subseteq 1..turns /\ Past \subseteq 1..MaxTurns /\ turns \in Nat /\ MaxTurns \in Nat
BY ChatAssumption DEF Past, TypeOK

\* A conversation of turns in the bound is one of those the types name.
LEMMA WholeTyped ==
  ASSUME NEW c, NEW past, Whole(c, past), past \subseteq 1..MaxTurns
  PROVE  c \in Convs
<1>1. Whole(c, 1..MaxTurns)
  BY WholeGrows
<1>2. QED  BY <1>1 DEF Whole, Convs

\* Turns that are over stay over.
LEMMA PastGrows ==
  ASSUME TypeOK, turns' \in Nat, turns <= turns', skills' \subseteq skills \cup ((turns + 1)..turns'),
         gen' = gen \/ gen' = Nothing \/ gen'.turn \in (turns + 1)..turns'
         \/ (gen # Nothing /\ gen'.turn = gen.turn)
  PROVE  Past \subseteq Past'
<1>1. SUFFICES ASSUME NEW t \in Past PROVE t \in Past'
  OBVIOUS
<1>2. t \in 1..turns /\ t \notin skills /\ (gen # Nothing => t # gen.turn) /\ turns \in Nat
  BY PastTyped DEF Past
<1>3. t \in 1..turns' /\ t \notin skills'
  BY <1>2
<1>4. gen' # Nothing => t # gen'.turn
  BY <1>2
<1>5. QED  BY <1>3, <1>4 DEF Past

\* The conversations that are there after a step.
LEMMA ConvsKept ==
  ASSUME ConvsWhole, Past \subseteq Past', drawn \subseteq drawn',
         conv' = conv \/ Whole(conv', Past'),
         \/ gen' = gen \/ gen' = Nothing
         \/ Whole(gen'.asked, Past') /\ Whole(gen'.history, Past'),
         compacting' = compacting \/ compacting' = Nothing \/ Whole(compacting'.asked, Past'),
         \A r \in resuming' : r \in resuming \/ (Whole(r.asked, Past') /\ r.id \in drawn')
  PROVE  ConvsWhole'
<1>1. \A c : Whole(c, Past) => Whole(c, Past')
  BY WholeGrows
<1>2. Whole(conv', Past')
  BY <1>1 DEF ConvsWhole
<1>3. gen' # Nothing => Whole(gen'.asked, Past') /\ Whole(gen'.history, Past')
  BY <1>1 DEF ConvsWhole
<1>4. compacting' # Nothing => Whole(compacting'.asked, Past')
  BY <1>1 DEF ConvsWhole
<1>5. \A r \in resuming' : Whole(r.asked, Past') /\ r.id \in drawn'
  BY <1>1 DEF ConvsWhole
<1>6. QED  BY <1>2, <1>3, <1>4, <1>5 DEF ConvsWhole

\* The archive, when nothing is written and nothing deleted.
LEMMA ArchiveKept ==
  ASSUME ArchivedOnce, Past \subseteq Past', UNCHANGED <<archive, gone>>
  PROVE  ArchivedOnce'
<1>1. \A i \in Ids : archive[i] \in Seq(Past')
  BY DEF ArchivedOnce
<1>2. gone \subseteq Past'
  BY DEF ArchivedOnce
<1>3. QED  BY <1>1, <1>2 DEF ArchivedOnce

\* A step that touches neither the conversation nor the archive, and gives a
\* reply no company it has not had.
LEMMA UntouchedStep ==
  ASSUME ChatIInv, UNCHANGED <<conv, sid, archive, drawn, gone, raced>>,
         TypeOK', TurnsApart', OneUpdate', turns <= turns',
         skills' \subseteq skills \cup ((turns + 1)..turns'),
         gen' = gen \/ gen' = Nothing,
         \/ compacting' = compacting \/ compacting' = Nothing
         \/ gen' = Nothing /\ compacting' = [asked |-> conv, from |-> sid],
         \/ resuming' \subseteq resuming
         \/ /\ gen' = Nothing
            /\ \A r \in resuming' \ resuming :
                 r.id \in Ids /\ archive[r.id] # << >> /\ r.asked = Recovered(r.id),
         gen' # Nothing => skills' \subseteq skills
  PROVE  ChatIInv'
<1>1. TypeOK /\ TurnsApart /\ ConvsWhole /\ ArchivedOnce /\ ReplyAlone
      /\ ReplyOwnsConversation /\ OneUpdate /\ MemoryIsArchive
  BY DEF ChatIInv
<1>2. turns \in Nat /\ turns' \in Nat
  BY <1>1, PastTyped DEF TypeOK
<1>3. Past \subseteq Past'
  BY <1>1, <1>2, PastGrows
<1>4. \A c : Whole(c, Past) => Whole(c, Past')
  BY <1>3, WholeGrows
<1>5. compacting' = compacting \/ compacting' = Nothing \/ Whole(compacting'.asked, Past')
  BY <1>1, <1>4 DEF ConvsWhole
<1>6. \A id \in Ids : archive[id] # << >> => id \in drawn
  BY <1>1 DEF TypeOK
<1>7. \A id \in Ids : Whole(Recovered(id), Past)
  <2>1. TAKE id \in Ids
  <2>2. archive[id] \in Seq(Past)
    BY <1>1 DEF ArchivedOnce
  <2>3. 0 \in 0..MaxTurns
    BY ChatAssumption
  <2>4. Recovered(id) \in [turns : Seq(Past), folded : 0..MaxTurns] /\ Recovered(id).turns = archive[id]
    BY <2>2, <2>3 DEF Recovered
  <2>5. QED  BY <1>1, <2>4 DEF Whole, ArchivedOnce
<1>8. \A r \in resuming' : r \in resuming \/ (Whole(r.asked, Past') /\ r.id \in drawn')
  BY <1>4, <1>6, <1>7
<1>9. ConvsWhole'
  BY <1>1, <1>3, <1>5, <1>8, ConvsKept
<1>10. ArchivedOnce'
  BY <1>1, <1>3, ArchiveKept
<1>11. ReplyAlone'
  BY <1>1 DEF ReplyAlone
<1>12. ReplyOwnsConversation'
  BY <1>1 DEF ReplyOwnsConversation
<1>13. MemoryIsArchive'
  BY <1>1 DEF MemoryIsArchive
<1>14. QED  BY <1>9, <1>10, <1>11, <1>12, <1>13 DEF ChatIInv
-----------------------------------------------------------------------------
(***************************************************************************)
(* Steps that touch neither the conversation nor the archive               *)
(***************************************************************************)
\* A command that leaves all of ChatApp as it is.
Counted == Command /\ Unchanged

\* The turns of a conversation, as a set; and the one that an archive makes.
LEMMA ConvTyped ==
  ASSUME NEW c \in Convs
  PROVE  Range(c.turns) \subseteq 1..MaxTurns
<1>1. c.turns \in Seq(1..MaxTurns)
  BY DEF Convs
<1>2. c.turns \in [1..Len(c.turns) -> 1..MaxTurns]
  BY <1>1, SeqFunction
<1>3. QED  BY <1>2 DEF Range

\* What an archive makes is a conversation.
LEMMA RecoveredTyped ==
  ASSUME TypeOK, NEW id \in Ids
  PROVE  Recovered(id) \in Convs
BY ChatAssumption DEF TypeOK, Recovered, Convs

\* A reply is given up: its turn is over, and nothing else has changed.
LEMMA GenerateAbandonsKeeps ==
  ASSUME ChatIInv, GenerateAbandons
  PROVE  ChatIInv'
<1>1. TypeOK /\ TurnsApart /\ ConvsWhole /\ ReplyAlone /\ OneUpdate /\ MaxTurns \in Nat /\ MaxCommands \in Nat
  BY ChatAssumption DEF ChatIInv
<1>2. UNCHANGED <<conv, sid, archive, drawn, gone, raced>>
  BY DEF GenerateAbandons, noteVars, ghosts
<1>3. TypeOK'
  BY <1>1, <1>2 DEF GenerateAbandons, noteVars, ghosts, TypeOK
<1>4. TurnsApart'
  BY <1>1 DEF GenerateAbandons, noteVars, ghosts, TypeOK, TurnsApart
<1>5. OneUpdate'
  BY <1>1 DEF GenerateAbandons, noteVars, ghosts, OneUpdate
<1>6. /\ turns <= turns' /\ skills' \subseteq skills \cup ((turns + 1)..turns')
      /\ gen' = gen \/ gen' = Nothing
      /\ \/ compacting' = compacting \/ compacting' = Nothing
         \/ gen' = Nothing /\ compacting' = [asked |-> conv, from |-> sid]
      /\ gen' # Nothing => skills' \subseteq skills
  BY <1>1 DEF GenerateAbandons, noteVars, ghosts, TypeOK
<1>7. \/ resuming' \subseteq resuming
      \/ /\ gen' = Nothing
         /\ \A r \in resuming' \ resuming :
              r.id \in Ids /\ archive[r.id] # << >> /\ r.asked = Recovered(r.id)
  BY <1>1 DEF GenerateAbandons, noteVars, ghosts
<1>8. QED  BY <1>2, <1>3, <1>4, <1>5, <1>6, <1>7, UntouchedStep

\* A compression is given the conversation as it is, or there is nothing to fold.
LEMMA StartCompactKeeps ==
  ASSUME ChatIInv, StartCompact
  PROVE  ChatIInv'
<1>1. TypeOK /\ TurnsApart /\ ConvsWhole /\ ReplyAlone /\ OneUpdate /\ MaxTurns \in Nat /\ MaxCommands \in Nat
  BY ChatAssumption DEF ChatIInv
<1>2. UNCHANGED <<conv, sid, archive, drawn, gone, raced>>
  BY DEF StartCompact, Command, Idle, noteVars, ghosts
<1>3. TypeOK'
  BY <1>1, <1>2 DEF StartCompact, Command, Idle, noteVars, ghosts, TypeOK
<1>4. TurnsApart'
  BY <1>1 DEF StartCompact, Command, Idle, noteVars, ghosts, TypeOK, TurnsApart
<1>5. OneUpdate'
  BY <1>1 DEF StartCompact, Command, Idle, noteVars, ghosts, OneUpdate
<1>6. /\ turns <= turns' /\ skills' \subseteq skills \cup ((turns + 1)..turns')
      /\ gen' = gen \/ gen' = Nothing
      /\ \/ compacting' = compacting \/ compacting' = Nothing
         \/ gen' = Nothing /\ compacting' = [asked |-> conv, from |-> sid]
      /\ gen' # Nothing => skills' \subseteq skills
  BY <1>1 DEF StartCompact, Command, Idle, noteVars, ghosts, TypeOK
<1>7. \/ resuming' \subseteq resuming
      \/ /\ gen' = Nothing
         /\ \A r \in resuming' \ resuming :
              r.id \in Ids /\ archive[r.id] # << >> /\ r.asked = Recovered(r.id)
  BY <1>1 DEF StartCompact, Command, Idle, noteVars, ghosts
<1>8. QED  BY <1>2, <1>3, <1>4, <1>5, <1>6, <1>7, UntouchedStep

\* A compression that fails changes nothing.
LEMMA CompactFailsKeeps ==
  ASSUME ChatIInv, CompactFails
  PROVE  ChatIInv'
<1>1. TypeOK /\ TurnsApart /\ ConvsWhole /\ ReplyAlone /\ OneUpdate /\ MaxTurns \in Nat /\ MaxCommands \in Nat
  BY ChatAssumption DEF ChatIInv
<1>2. UNCHANGED <<conv, sid, archive, drawn, gone, raced>>
  BY DEF CompactFails, noteVars, ghosts
<1>3. TypeOK'
  BY <1>1, <1>2 DEF CompactFails, noteVars, ghosts, TypeOK
<1>4. TurnsApart'
  BY <1>1 DEF CompactFails, noteVars, ghosts, TypeOK, TurnsApart
<1>5. OneUpdate'
  BY <1>1 DEF CompactFails, noteVars, ghosts, OneUpdate
<1>6. /\ turns <= turns' /\ skills' \subseteq skills \cup ((turns + 1)..turns')
      /\ gen' = gen \/ gen' = Nothing
      /\ \/ compacting' = compacting \/ compacting' = Nothing
         \/ gen' = Nothing /\ compacting' = [asked |-> conv, from |-> sid]
      /\ gen' # Nothing => skills' \subseteq skills
  BY <1>1 DEF CompactFails, noteVars, ghosts, TypeOK
<1>7. \/ resuming' \subseteq resuming
      \/ /\ gen' = Nothing
         /\ \A r \in resuming' \ resuming :
              r.id \in Ids /\ archive[r.id] # << >> /\ r.asked = Recovered(r.id)
  BY <1>1 DEF CompactFails, noteVars, ghosts
<1>8. QED  BY <1>2, <1>3, <1>4, <1>5, <1>6, <1>7, UntouchedStep

\* A recovery begins with what the archive holds, under an id that was drawn.
LEMMA ResumeLargeKeeps ==
  ASSUME ChatIInv, ResumeLarge
  PROVE  ChatIInv'
<1>1. TypeOK /\ TurnsApart /\ ConvsWhole /\ ReplyAlone /\ OneUpdate /\ MaxTurns \in Nat /\ MaxCommands \in Nat
  BY ChatAssumption DEF ChatIInv
<1>2. UNCHANGED <<conv, sid, archive, drawn, gone, raced>>
  BY DEF ResumeLarge, Command, Idle, noteVars, ghosts
<1>3. TypeOK'
  <2>1. resuming' \subseteq [id : Ids, asked : Convs]
    BY <1>1, RecoveredTyped DEF ResumeLarge, TypeOK
  <2>2. QED  BY <1>1, <1>2, <2>1 DEF ResumeLarge, Command, Idle, noteVars, ghosts, TypeOK
<1>4. TurnsApart'
  BY <1>1 DEF ResumeLarge, Command, Idle, noteVars, ghosts, TypeOK, TurnsApart
<1>5. OneUpdate'
  BY <1>1 DEF ResumeLarge, Command, Idle, noteVars, ghosts, OneUpdate
<1>6. /\ turns <= turns' /\ skills' \subseteq skills \cup ((turns + 1)..turns')
      /\ gen' = gen \/ gen' = Nothing
      /\ \/ compacting' = compacting \/ compacting' = Nothing
         \/ gen' = Nothing /\ compacting' = [asked |-> conv, from |-> sid]
      /\ gen' # Nothing => skills' \subseteq skills
  BY <1>1 DEF ResumeLarge, Command, Idle, noteVars, ghosts, TypeOK
<1>7. \/ resuming' \subseteq resuming
      \/ /\ gen' = Nothing
         /\ \A r \in resuming' \ resuming :
              r.id \in Ids /\ archive[r.id] # << >> /\ r.asked = Recovered(r.id)
  BY <1>1 DEF ResumeLarge, Command, Idle, noteVars, ghosts
<1>8. QED  BY <1>2, <1>3, <1>4, <1>5, <1>6, <1>7, UntouchedStep

\* A Skill is given the next number.
LEMMA StartSkillKeeps ==
  ASSUME ChatIInv, StartSkill
  PROVE  ChatIInv'
<1>1. TypeOK /\ TurnsApart /\ ConvsWhole /\ ReplyAlone /\ OneUpdate /\ MaxTurns \in Nat /\ MaxCommands \in Nat
  BY ChatAssumption DEF ChatIInv
<1>2. UNCHANGED <<conv, sid, archive, drawn, gone, raced>>
  BY DEF StartSkill, Command, Idle, NewTurn, noteVars, ghosts
<1>3. TypeOK'
  BY <1>1, <1>2 DEF StartSkill, Command, Idle, NewTurn, noteVars, ghosts, TypeOK
<1>4. TurnsApart'
  BY <1>1 DEF StartSkill, Command, Idle, NewTurn, noteVars, ghosts, TypeOK, TurnsApart
<1>5. OneUpdate'
  BY <1>1 DEF StartSkill, Command, Idle, NewTurn, noteVars, ghosts, OneUpdate
<1>6. /\ turns <= turns' /\ skills' \subseteq skills \cup ((turns + 1)..turns')
      /\ gen' = gen \/ gen' = Nothing
      /\ \/ compacting' = compacting \/ compacting' = Nothing
         \/ gen' = Nothing /\ compacting' = [asked |-> conv, from |-> sid]
      /\ gen' # Nothing => skills' \subseteq skills
  BY <1>1 DEF StartSkill, Command, Idle, NewTurn, noteVars, ghosts, TypeOK
<1>7. \/ resuming' \subseteq resuming
      \/ /\ gen' = Nothing
         /\ \A r \in resuming' \ resuming :
              r.id \in Ids /\ archive[r.id] # << >> /\ r.asked = Recovered(r.id)
  BY <1>1 DEF StartSkill, Command, Idle, NewTurn, noteVars, ghosts
<1>8. QED  BY <1>2, <1>3, <1>4, <1>5, <1>6, <1>7, UntouchedStep

\* A Skill that fails leaves its number unused.
LEMMA SkillFailsKeeps ==
  ASSUME ChatIInv, SkillFails
  PROVE  ChatIInv'
<1>1. TypeOK /\ TurnsApart /\ ConvsWhole /\ ReplyAlone /\ OneUpdate /\ MaxTurns \in Nat /\ MaxCommands \in Nat
  BY ChatAssumption DEF ChatIInv
<1>2. UNCHANGED <<conv, sid, archive, drawn, gone, raced>>
  BY DEF SkillFails, noteVars, ghosts
<1>3. TypeOK'
  BY <1>1, <1>2 DEF SkillFails, noteVars, ghosts, TypeOK
<1>4. TurnsApart'
  BY <1>1 DEF SkillFails, noteVars, ghosts, TypeOK, TurnsApart
<1>5. OneUpdate'
  BY <1>1 DEF SkillFails, noteVars, ghosts, OneUpdate
<1>6. /\ turns <= turns' /\ skills' \subseteq skills \cup ((turns + 1)..turns')
      /\ gen' = gen \/ gen' = Nothing
      /\ \/ compacting' = compacting \/ compacting' = Nothing
         \/ gen' = Nothing /\ compacting' = [asked |-> conv, from |-> sid]
      /\ gen' # Nothing => skills' \subseteq skills
  BY <1>1 DEF SkillFails, noteVars, ghosts, TypeOK
<1>7. \/ resuming' \subseteq resuming
      \/ /\ gen' = Nothing
         /\ \A r \in resuming' \ resuming :
              r.id \in Ids /\ archive[r.id] # << >> /\ r.asked = Recovered(r.id)
  BY <1>1 DEF SkillFails, noteVars, ghosts
<1>8. QED  BY <1>2, <1>3, <1>4, <1>5, <1>6, <1>7, UntouchedStep

\* The one update that runs writes the notes, and none is left.
LEMMA UpdateFinishesKeeps ==
  ASSUME ChatIInv, UpdateFinishes
  PROVE  ChatIInv'
<1>1. TypeOK /\ TurnsApart /\ ConvsWhole /\ ReplyAlone /\ OneUpdate /\ MaxTurns \in Nat /\ MaxCommands \in Nat
  BY ChatAssumption DEF ChatIInv
<1>2. UNCHANGED <<conv, sid, archive, drawn, gone, raced>>
  BY DEF UpdateFinishes, workers, noteVars, ghosts
<1>3. TypeOK'
  BY <1>1, <1>2 DEF UpdateFinishes, workers, noteVars, ghosts, TypeOK
<1>4. TurnsApart'
  BY <1>1 DEF UpdateFinishes, workers, noteVars, ghosts, TypeOK, TurnsApart
<1>5. OneUpdate'
  BY <1>1 DEF UpdateFinishes, workers, noteVars, ghosts, OneUpdate
<1>6. /\ turns <= turns' /\ skills' \subseteq skills \cup ((turns + 1)..turns')
      /\ gen' = gen \/ gen' = Nothing
      /\ \/ compacting' = compacting \/ compacting' = Nothing
         \/ gen' = Nothing /\ compacting' = [asked |-> conv, from |-> sid]
      /\ gen' # Nothing => skills' \subseteq skills
  BY <1>1 DEF UpdateFinishes, workers, noteVars, ghosts, TypeOK
<1>7. \/ resuming' \subseteq resuming
      \/ /\ gen' = Nothing
         /\ \A r \in resuming' \ resuming :
              r.id \in Ids /\ archive[r.id] # << >> /\ r.asked = Recovered(r.id)
  BY <1>1 DEF UpdateFinishes, workers, noteVars, ghosts
<1>8. QED  BY <1>2, <1>3, <1>4, <1>5, <1>6, <1>7, UntouchedStep

\* The one update that runs is gone.
LEMMA UpdateFailsKeeps ==
  ASSUME ChatIInv, UpdateFails
  PROVE  ChatIInv'
<1>1. TypeOK /\ TurnsApart /\ ConvsWhole /\ ReplyAlone /\ OneUpdate /\ MaxTurns \in Nat /\ MaxCommands \in Nat
  BY ChatAssumption DEF ChatIInv
<1>2. UNCHANGED <<conv, sid, archive, drawn, gone, raced>>
  BY DEF UpdateFails, workers, noteVars, ghosts
<1>3. TypeOK'
  BY <1>1, <1>2 DEF UpdateFails, workers, noteVars, ghosts, TypeOK
<1>4. TurnsApart'
  BY <1>1 DEF UpdateFails, workers, noteVars, ghosts, TypeOK, TurnsApart
<1>5. OneUpdate'
  BY <1>1 DEF UpdateFails, workers, noteVars, ghosts, OneUpdate
<1>6. /\ turns <= turns' /\ skills' \subseteq skills \cup ((turns + 1)..turns')
      /\ gen' = gen \/ gen' = Nothing
      /\ \/ compacting' = compacting \/ compacting' = Nothing
         \/ gen' = Nothing /\ compacting' = [asked |-> conv, from |-> sid]
      /\ gen' # Nothing => skills' \subseteq skills
  BY <1>1 DEF UpdateFails, workers, noteVars, ghosts, TypeOK
<1>7. \/ resuming' \subseteq resuming
      \/ /\ gen' = Nothing
         /\ \A r \in resuming' \ resuming :
              r.id \in Ids /\ archive[r.id] # << >> /\ r.asked = Recovered(r.id)
  BY <1>1 DEF UpdateFails, workers, noteVars, ghosts
<1>8. QED  BY <1>2, <1>3, <1>4, <1>5, <1>6, <1>7, UntouchedStep

\* Empty notes are part of whatever an update was shown.
LEMMA ClearNotesKeeps ==
  ASSUME ChatIInv, ClearNotes
  PROVE  ChatIInv'
<1>1. TypeOK /\ TurnsApart /\ ConvsWhole /\ ReplyAlone /\ OneUpdate /\ MaxTurns \in Nat /\ MaxCommands \in Nat
  BY ChatAssumption DEF ChatIInv
<1>2. UNCHANGED <<conv, sid, archive, drawn, gone, raced>>
  BY DEF ClearNotes, Command, Idle, workers, noteVars, ghosts
<1>3. TypeOK'
  BY <1>1, <1>2 DEF ClearNotes, Command, Idle, workers, noteVars, ghosts, TypeOK
<1>4. TurnsApart'
  BY <1>1 DEF ClearNotes, Command, Idle, workers, noteVars, ghosts, TypeOK, TurnsApart
<1>5. OneUpdate'
  BY <1>1 DEF ClearNotes, Command, Idle, workers, noteVars, ghosts, OneUpdate
<1>6. /\ turns <= turns' /\ skills' \subseteq skills \cup ((turns + 1)..turns')
      /\ gen' = gen \/ gen' = Nothing
      /\ \/ compacting' = compacting \/ compacting' = Nothing
         \/ gen' = Nothing /\ compacting' = [asked |-> conv, from |-> sid]
      /\ gen' # Nothing => skills' \subseteq skills
  BY <1>1 DEF ClearNotes, Command, Idle, workers, noteVars, ghosts, TypeOK
<1>7. \/ resuming' \subseteq resuming
      \/ /\ gen' = Nothing
         /\ \A r \in resuming' \ resuming :
              r.id \in Ids /\ archive[r.id] # << >> /\ r.asked = Recovered(r.id)
  BY <1>1 DEF ClearNotes, Command, Idle, workers, noteVars, ghosts
<1>8. QED  BY <1>2, <1>3, <1>4, <1>5, <1>6, <1>7, UntouchedStep

\* The workers are cancelled.
LEMMA CloseKeeps ==
  ASSUME ChatIInv, Close
  PROVE  ChatIInv'
<1>1. TypeOK /\ TurnsApart /\ ConvsWhole /\ ReplyAlone /\ OneUpdate /\ MaxTurns \in Nat /\ MaxCommands \in Nat
  BY ChatAssumption DEF ChatIInv
<1>2. UNCHANGED <<conv, sid, archive, drawn, gone, raced>>
  BY DEF Close, noteVars, ghosts
<1>3. TypeOK'
  BY <1>1, <1>2 DEF Close, noteVars, ghosts, TypeOK
<1>4. TurnsApart'
  BY <1>1 DEF Close, noteVars, ghosts, TypeOK, TurnsApart
<1>5. OneUpdate'
  BY <1>1 DEF Close, noteVars, ghosts, OneUpdate
<1>6. /\ turns <= turns' /\ skills' \subseteq skills \cup ((turns + 1)..turns')
      /\ gen' = gen \/ gen' = Nothing
      /\ \/ compacting' = compacting \/ compacting' = Nothing
         \/ gen' = Nothing /\ compacting' = [asked |-> conv, from |-> sid]
      /\ gen' # Nothing => skills' \subseteq skills
  BY <1>1 DEF Close, noteVars, ghosts, TypeOK
<1>7. \/ resuming' \subseteq resuming
      \/ /\ gen' = Nothing
         /\ \A r \in resuming' \ resuming :
              r.id \in Ids /\ archive[r.id] # << >> /\ r.asked = Recovered(r.id)
  BY <1>1 DEF Close, noteVars, ghosts
<1>8. QED  BY <1>2, <1>3, <1>4, <1>5, <1>6, <1>7, UntouchedStep

\* At most one last update is left.
LEMMA LastUpdateKeeps ==
  ASSUME ChatIInv, LastUpdate
  PROVE  ChatIInv'
<1>1. TypeOK /\ TurnsApart /\ ConvsWhole /\ ReplyAlone /\ OneUpdate /\ MaxTurns \in Nat /\ MaxCommands \in Nat
  BY ChatAssumption DEF ChatIInv
<1>2. UNCHANGED <<conv, sid, archive, drawn, gone, raced>>
  BY DEF LastUpdate, workers, ghosts
<1>3. TypeOK'
  <2>1. Range(conv.turns) \subseteq 1..MaxTurns
    BY <1>1, ConvTyped DEF TypeOK
  <2>2. updates' \subseteq [base : SUBSET (1..MaxTurns), digest : SUBSET (1..MaxTurns)]
    BY <1>1, <2>1 DEF LastUpdate, TypeOK
  <2>3. app' \in {"noting", "down"}
    BY DEF LastUpdate
  <2>4. QED  BY <1>1, <1>2, <2>2, <2>3 DEF LastUpdate, workers, ghosts, TypeOK
<1>4. TurnsApart'
  BY <1>1 DEF LastUpdate, workers, ghosts, TypeOK, TurnsApart
<1>5. OneUpdate'
  BY <1>1 DEF LastUpdate, workers, ghosts, OneUpdate
<1>6. /\ turns <= turns' /\ skills' \subseteq skills \cup ((turns + 1)..turns')
      /\ gen' = gen \/ gen' = Nothing
      /\ \/ compacting' = compacting \/ compacting' = Nothing
         \/ gen' = Nothing /\ compacting' = [asked |-> conv, from |-> sid]
      /\ gen' # Nothing => skills' \subseteq skills
  BY <1>1 DEF LastUpdate, workers, ghosts, TypeOK
<1>7. \/ resuming' \subseteq resuming
      \/ /\ gen' = Nothing
         /\ \A r \in resuming' \ resuming :
              r.id \in Ids /\ archive[r.id] # << >> /\ r.asked = Recovered(r.id)
  BY <1>1 DEF LastUpdate, workers, ghosts
<1>8. QED  BY <1>2, <1>3, <1>4, <1>5, <1>6, <1>7, UntouchedStep

\* A command that is only counted.
LEMMA CountedKeeps ==
  ASSUME ChatIInv, Counted
  PROVE  ChatIInv'
<1>1. TypeOK /\ TurnsApart /\ ConvsWhole /\ ReplyAlone /\ OneUpdate /\ MaxTurns \in Nat /\ MaxCommands \in Nat
  BY ChatAssumption DEF ChatIInv
<1>2. UNCHANGED <<conv, sid, archive, drawn, gone, raced>>
  BY DEF Counted, Command, Idle, Unchanged, workers, noteVars, ghosts
<1>3. TypeOK'
  BY <1>1, <1>2 DEF Counted, Command, Idle, Unchanged, workers, noteVars, ghosts, TypeOK
<1>4. TurnsApart'
  BY <1>1 DEF Counted, Command, Idle, Unchanged, workers, noteVars, ghosts, TypeOK, TurnsApart
<1>5. OneUpdate'
  BY <1>1 DEF Counted, Command, Idle, Unchanged, workers, noteVars, ghosts, OneUpdate
<1>6. /\ turns <= turns' /\ skills' \subseteq skills \cup ((turns + 1)..turns')
      /\ gen' = gen \/ gen' = Nothing
      /\ \/ compacting' = compacting \/ compacting' = Nothing
         \/ gen' = Nothing /\ compacting' = [asked |-> conv, from |-> sid]
      /\ gen' # Nothing => skills' \subseteq skills
  BY <1>1 DEF Counted, Command, Idle, Unchanged, workers, noteVars, ghosts, TypeOK
<1>7. \/ resuming' \subseteq resuming
      \/ /\ gen' = Nothing
         /\ \A r \in resuming' \ resuming :
              r.id \in Ids /\ archive[r.id] # << >> /\ r.asked = Recovered(r.id)
  BY <1>1 DEF Counted, Command, Idle, Unchanged, workers, noteVars, ghosts
<1>8. QED  BY <1>2, <1>3, <1>4, <1>5, <1>6, <1>7, UntouchedStep

-----------------------------------------------------------------------------
(***************************************************************************)
(* Steps that replace the conversation                                     *)
(***************************************************************************)
\* A sequence over a set is one over a larger set.
LEMMA SeqGrows ==
  ASSUME NEW S, NEW T, S \subseteq T, NEW s \in Seq(S)
  PROVE  s \in Seq(T)
OBVIOUS

\* A turn is archived, or lost: t was running, and is the last of the
\* conversation now.
LEMMA PersistKeeps ==
  ASSUME TypeOK, ArchivedOnce, MemoryIsArchive, Whole(conv, Past),
         Past \subseteq Past', Past' \subseteq 1..MaxTurns,
         NEW t \in Past', t \notin Past, Persist(t),
         ~raced' => ~raced /\ conv'.turns = Append(conv.turns, t)
  PROVE  /\ ArchivedOnce' /\ MemoryIsArchive'
         /\ sid' \in Ids /\ (sid # Nothing => sid' = sid)
         /\ drawn \subseteq drawn' /\ drawn' \subseteq Ids /\ sid' \in drawn'
         /\ archive' \in [Ids -> Seq(1..MaxTurns)]
         /\ \A id \in Ids \ drawn' : archive'[id] = << >>
         /\ gone' \subseteq 1..MaxTurns
<1>1. PICK id \in (IF sid = Nothing THEN Ids \ drawn ELSE {sid}) :
        /\ sid' = id /\ drawn' = drawn \cup {id}
        /\ \/ archive' = [archive EXCEPT ![id] = Append(@, t)] /\ UNCHANGED gone
           \/ UNCHANGED archive /\ gone' = gone \cup {t}
  BY DEF Persist
<1>2. id \in Ids /\ (sid # Nothing => id = sid) /\ (sid = Nothing => archive[id] = << >>) /\ id # Nothing
  BY <1>1, ChatAssumption DEF TypeOK
<1>3. archive \in [Ids -> Seq(1..MaxTurns)] /\ archive[id] \in Seq(Past) /\ conv.turns \in Seq(Past) /\ t \in 1..MaxTurns
  BY <1>2 DEF TypeOK, ArchivedOnce, Whole
<1>4. ~raced => IsWithout(archive[id], conv.turns, gone)
  <2>1. CASE sid # Nothing
    BY <1>2, <2>1 DEF MemoryIsArchive
  <2>2. CASE sid = Nothing
    <3>1. ~raced => conv.turns = << >>
      BY <2>2 DEF MemoryIsArchive
    <3>2. << >> \in Seq(Past) /\ \A k \in 1..Len(<< >>) : << >>[k] \in gone
      OBVIOUS
    <3>3. IsWithout(<< >>, << >>, gone)
      BY <3>2, WithoutAll
    <3>4. QED  BY <1>2, <2>2, <3>1, <3>3
  <2>3. QED  BY <2>1, <2>2
<1>5. t \notin gone /\ \A i \in Ids : \A k \in 1..Len(archive[i]) : archive[i][k] # t /\ archive[i][k] \in Past
  BY DEF ArchivedOnce
<1>6. CASE archive' = [archive EXCEPT ![id] = Append(@, t)] /\ UNCHANGED gone
  <2>1. archive'[id] = Append(archive[id], t) /\ \A i \in Ids \ {id} : archive'[i] = archive[i]
    BY <1>2, <1>3, <1>6
  <2>2. archive' \in [Ids -> Seq(1..MaxTurns)]
    BY <1>2, <1>3, <1>6
  <2>3. /\ Len(archive'[id]) = Len(archive[id]) + 1 /\ Len(archive[id]) \in Nat
        /\ archive'[id][Len(archive[id]) + 1] = t
        /\ \A k \in 1..Len(archive[id]) : archive'[id][k] = archive[id][k]
    BY <1>3, <2>1
  <2>4. \A k \in 1..Len(archive'[id]) : k \in 1..Len(archive[id]) \/ k = Len(archive[id]) + 1
    BY <2>3
  <2>5. \A i \in Ids : archive'[i] \in Seq(Past')
    <3>1. \A i \in Ids : archive[i] \in Seq(Past')
      BY SeqGrows DEF ArchivedOnce
    <3>2. archive'[id] \in Seq(Past')
      BY <1>2, <2>1, <3>1
    <3>3. QED  BY <2>1, <3>1, <3>2
  <2>6. \A i \in Ids : \A k \in 1..Len(archive'[i]) :
          \/ k \in 1..Len(archive[i]) /\ archive'[i][k] = archive[i][k]
          \/ i = id /\ k = Len(archive[id]) + 1 /\ archive'[i][k] = t
    BY <2>1, <2>3, <2>4
  <2>7. \A i, j \in Ids : \A k \in 1..Len(archive'[i]), l \in 1..Len(archive'[j]) :
          archive'[i][k] = archive'[j][l] => i = j /\ k = l
    <3>1. SUFFICES ASSUME NEW i \in Ids, NEW j \in Ids, NEW k \in 1..Len(archive'[i]),
                          NEW l \in 1..Len(archive'[j]), archive'[i][k] = archive'[j][l]
                   PROVE  i = j /\ k = l
      OBVIOUS
    <3>2. CASE k \in 1..Len(archive[i]) /\ archive'[i][k] = archive[i][k]
      <4>1. CASE l \in 1..Len(archive[j]) /\ archive'[j][l] = archive[j][l]
        <5>1. archive[i][k] = archive[j][l]
          BY <3>1, <3>2, <4>1
        <5>2. \A m, n \in Ids : \A x \in 1..Len(archive[m]), y \in 1..Len(archive[n]) :
                archive[m][x] = archive[n][y] => m = n /\ x = y
          BY DEF ArchivedOnce
        <5>3. QED  BY <3>2, <4>1, <5>1, <5>2
      <4>2. CASE archive'[j][l] = t
        BY <1>5, <3>1, <3>2, <4>2
      <4>3. QED  BY <2>6, <4>1, <4>2
    <3>3. CASE i = id /\ k = Len(archive[id]) + 1 /\ archive'[i][k] = t
      BY <1>5, <2>6, <3>1, <3>3
    <3>4. QED  BY <2>6, <3>2, <3>3
  <2>8. \A i \in Ids : \A k \in 1..Len(archive'[i]) : archive'[i][k] \notin gone'
    BY <1>5, <1>6, <2>6 DEF ArchivedOnce
  <2>9. gone' \subseteq Past'
    BY <1>6 DEF ArchivedOnce
  <2>10. ArchivedOnce'
    BY <2>5, <2>7, <2>8, <2>9 DEF ArchivedOnce
  <2>11. MemoryIsArchive'
    <3>1. ~raced' => IsWithout(Append(archive[id], t), Append(conv.turns, t), gone)
      BY <1>3, <1>4, <1>5, WithoutBoth
    <3>2. ~raced' => IsWithout(archive'[sid'], conv'.turns, gone')
      BY <1>1, <1>6, <2>1, <3>1
    <3>3. QED  BY <1>1, <1>2, <3>2 DEF MemoryIsArchive
  <2>12. \A i \in Ids \ drawn' : archive'[i] = << >>
    BY <1>1, <2>1 DEF TypeOK
  <2>13. QED  BY <1>1, <1>2, <1>6, <2>2, <2>10, <2>11, <2>12 DEF TypeOK
<1>7. CASE UNCHANGED archive /\ gone' = gone \cup {t}
  <2>1. ArchivedOnce'
    <3>1. \A i \in Ids : archive'[i] \in Seq(Past')
      BY <1>7, SeqGrows DEF ArchivedOnce
    <3>2. gone' \subseteq Past'
      BY <1>7 DEF ArchivedOnce
    <3>3. \A i \in Ids : \A k \in 1..Len(archive'[i]) : archive'[i][k] \notin gone'
      BY <1>5, <1>7 DEF ArchivedOnce
    <3>4. QED  BY <1>7, <3>1, <3>2, <3>3 DEF ArchivedOnce
  <2>2. MemoryIsArchive'
    <3>1. ~raced' => IsWithout(archive[id], Append(conv.turns, t), gone \cup {t})
      BY <1>3, <1>4, WithoutLast
    <3>2. QED  BY <1>1, <1>2, <1>7, <3>1 DEF MemoryIsArchive
  <2>3. QED  BY <1>1, <1>2, <1>3, <1>7, <2>1, <2>2 DEF TypeOK
<1>8. QED  BY <1>1, <1>6, <1>7

\* Its turns are a sequence, and a prefix of it.
LEMMA WholeLength ==
  ASSUME NEW c, NEW past, Whole(c, past)
  PROVE  c.turns \in Seq(past) /\ Len(c.turns) \in Nat
<1>1. c.turns \in Seq(past)
  BY DEF Whole
<1>2. QED  BY <1>1, SeqFunction

\* A whole conversation begins with itself.
LEMMA PrefixOfItself ==
  ASSUME NEW c, NEW past, Whole(c, past)
  PROVE  IsPrefix(c.turns, c.turns)
BY WholeLength DEF IsPrefix

\* A prefix stays one when a turn is added.
LEMMA PrefixGrows ==
  ASSUME NEW S, NEW s \in Seq(S), NEW T, NEW r \in Seq(T), NEW t, IsPrefix(s, r)
  PROVE  IsPrefix(s, Append(r, t)) /\ Len(s) <= Len(r)
<1>1. Len(s) <= Len(r) /\ SubSeq(s, 1, Len(s)) = SubSeq(r, 1, Len(s))
  BY DEF IsPrefix
<1>2. Len(Append(r, t)) = Len(r) + 1 /\ Len(r) \in Nat /\ Len(s) \in Nat
  OBVIOUS
<1>3. SubSeq(Append(r, t), 1, Len(s)) = SubSeq(r, 1, Len(s))
  BY <1>1, <1>2
<1>4. QED  BY <1>1, <1>2, <1>3 DEF IsPrefix

\* Whole conversations are typed.
LEMMA IInvFacts ==
  ASSUME ChatIInv
  PROVE  /\ TypeOK /\ TurnsApart /\ ConvsWhole /\ ArchivedOnce
         /\ ReplyAlone /\ ReplyOwnsConversation /\ OneUpdate /\ MemoryIsArchive
         /\ turns \in Nat /\ MaxTurns \in Nat /\ MaxCommands \in Nat
         /\ Past \subseteq 1..turns /\ Past \subseteq 1..MaxTurns
BY PastTyped, ChatAssumption DEF ChatIInv

\* A reply begins: it owns the conversation as it is, and nobody else waits.
LEMMA StartGenerateKeeps ==
  ASSUME ChatIInv, StartGenerate
  PROVE  ChatIInv'
<1>1. /\ TypeOK /\ TurnsApart /\ ConvsWhole /\ ArchivedOnce /\ OneUpdate /\ MemoryIsArchive
      /\ turns \in Nat /\ MaxTurns \in Nat
  BY IInvFacts
<1>2. /\ app = "up" /\ gen = Nothing /\ turns < MaxTurns /\ turns' = turns + 1
      /\ compacting' = Nothing /\ resuming' = {}
      /\ UNCHANGED <<app, conv, sid, archive, skills, notes, updates, turnCount, drawn, commands, gone, raced>>
      /\ gen' = [turn |-> turns + 1, asked |-> conv, from |-> sid, history |-> conv]
  BY DEF StartGenerate, Idle, NewTurn, noteVars, ghosts
<1>3. gen'.turn = turns + 1 /\ gen'.asked = conv /\ gen'.from = sid /\ gen'.history = conv
  BY <1>2
<1>4. TypeOK'
  BY <1>1, <1>2 DEF TypeOK
<1>5. TurnsApart'
  BY <1>1, <1>2, <1>3 DEF TurnsApart, TypeOK
<1>6. Past \subseteq Past'
  BY <1>1, <1>2, <1>3, PastGrows
<1>7. Whole(conv, Past')
  BY <1>1, <1>6, WholeGrows DEF ConvsWhole
<1>8. ConvsWhole'
  BY <1>1, <1>2, <1>3, <1>6, <1>7, ConvsKept
<1>9. ArchivedOnce'
  BY <1>1, <1>2, <1>6, ArchiveKept
<1>10. ReplyAlone'
  BY <1>1, <1>2, <1>3 DEF ReplyAlone, TurnsApart
<1>11. ReplyOwnsConversation'
  <2>1. \A k \in (Len(conv.turns) + 1)..Len(conv.turns) : FALSE
    BY <1>1, WholeLength DEF ConvsWhole
  <2>2. IsPrefix(conv.turns, conv.turns)
    BY <1>1, PrefixOfItself DEF ConvsWhole
  <2>3. QED  BY <1>2, <1>3, <2>1, <2>2 DEF ReplyOwnsConversation
<1>12. OneUpdate' /\ MemoryIsArchive'
  BY <1>1, <1>2 DEF OneUpdate, MemoryIsArchive
<1>13. QED  BY <1>4, <1>5, <1>8, <1>9, <1>10, <1>11, <1>12 DEF ChatIInv

\* The history of a reply is folded, not shortened.
LEMMA LoopCompressesKeeps ==
  ASSUME ChatIInv, LoopCompresses
  PROVE  ChatIInv'
<1>1. /\ TypeOK /\ TurnsApart /\ ConvsWhole /\ ArchivedOnce /\ ReplyAlone /\ ReplyOwnsConversation
      /\ OneUpdate /\ MemoryIsArchive /\ turns \in Nat /\ Past \subseteq 1..MaxTurns
  BY IInvFacts
<1>2. PICK c \in Compactions(gen.history) : gen' = [gen EXCEPT !.history = c]
  BY DEF LoopCompresses
<1>3. /\ gen # Nothing
      /\ UNCHANGED <<app, conv, sid, archive, compacting, resuming, skills, notes>>
      /\ UNCHANGED <<updates, turnCount, turns, drawn, commands, gone, raced>>
  BY DEF LoopCompresses, noteVars, ghosts
<1>4. gen \in [turn : 1..MaxTurns, asked : Convs, from : Ids \cup {Nothing}, history : Convs]
  BY <1>1, <1>3 DEF TypeOK
<1>5. gen' = [turn |-> gen.turn, asked |-> gen.asked, from |-> gen.from, history |-> c]
  BY <1>2, <1>4
<1>6. gen'.turn = gen.turn /\ gen'.asked = gen.asked /\ gen'.from = gen.from /\ gen'.history = c
  BY <1>5
<1>7. Whole(gen.history, Past) /\ Whole(gen.asked, Past)
  BY <1>1, <1>3 DEF ConvsWhole
<1>8. Whole(c, Past) /\ c.turns = gen.history.turns
  BY <1>1, <1>7, CompactionWhole
<1>9. c \in Convs
  BY <1>1, <1>8, WholeTyped
<1>10. TypeOK'
  <2>1. gen' \in [turn : 1..MaxTurns, asked : Convs, from : Ids \cup {Nothing}, history : Convs]
    BY <1>4, <1>5, <1>9
  <2>2. QED  BY <1>1, <1>3, <2>1 DEF TypeOK
<1>11. TurnsApart'
  BY <1>1, <1>3, <1>6 DEF TurnsApart
<1>12. Past \subseteq Past'
  BY <1>1, <1>3, <1>6, PastGrows
<1>13. Whole(gen'.asked, Past') /\ Whole(gen'.history, Past')
  BY <1>6, <1>7, <1>8, <1>12, WholeGrows
<1>14. ConvsWhole'
  BY <1>1, <1>3, <1>12, <1>13, ConvsKept
<1>15. ArchivedOnce'
  BY <1>1, <1>3, <1>12, ArchiveKept
<1>16. ReplyAlone' /\ ReplyOwnsConversation'
  BY <1>1, <1>3, <1>6, <1>8 DEF ReplyAlone, ReplyOwnsConversation
<1>17. OneUpdate' /\ MemoryIsArchive'
  BY <1>1, <1>3 DEF OneUpdate, MemoryIsArchive
<1>18. QED  BY <1>10, <1>11, <1>14, <1>15, <1>16, <1>17 DEF ChatIInv

\* An update that starts was shown the notes as they are.
LEMMA TurnCompletedUpdates ==
  ASSUME TypeOK, OneUpdate, TurnCompleted, conv' \in Convs
  PROVE  /\ turnCount' = turnCount + 1 /\ UNCHANGED notes /\ OneUpdate'
         /\ updates' \subseteq [base : SUBSET (1..MaxTurns), digest : SUBSET (1..MaxTurns)]
<1>1. turnCount' = turnCount + 1 /\ UNCHANGED notes
  BY DEF TurnCompleted
<1>2. updates' = updates \/ updates' = {NewUpdate}
  BY DEF TurnCompleted
<1>3. Range(conv'.turns) \subseteq 1..MaxTurns
  BY ConvTyped
<1>4. NewUpdate \in [base : SUBSET (1..MaxTurns), digest : SUBSET (1..MaxTurns)] /\ NewUpdate.base = notes
  BY <1>3 DEF NewUpdate, TypeOK
<1>5. OneUpdate'
  BY <1>1, <1>2, <1>4 DEF OneUpdate
<1>6. QED  BY <1>1, <1>2, <1>4, <1>5 DEF TypeOK

\* A reply is there: its history is the conversation, its turn is archived.
LEMMA GenerateCompletesKeeps ==
  ASSUME ChatIInv, GenerateCompletes
  PROVE  ChatIInv'
<1>1. /\ TypeOK /\ TurnsApart /\ ConvsWhole /\ ArchivedOnce /\ ReplyAlone /\ ReplyOwnsConversation
      /\ OneUpdate /\ MemoryIsArchive /\ turns \in Nat /\ MaxTurns \in Nat /\ Past \subseteq 1..MaxTurns
  BY IInvFacts
<1>2. /\ app = "up" /\ gen # Nothing /\ gen' = Nothing
      /\ conv' = [gen.history EXCEPT !.turns = Append(@, gen.turn)]
      /\ Persist(gen.turn) /\ TurnCompleted
      /\ raced' = (raced \/ conv.turns # gen.asked.turns)
      /\ UNCHANGED <<app, compacting, resuming, skills, turns, commands>>
  BY DEF GenerateCompletes
<1>3. gen.turn \in 1..turns /\ gen.turn \notin skills /\ turnCount < turns /\ gen.turn \notin Past
  BY <1>1, <1>2 DEF TurnsApart, Past
<1>4. Past \subseteq Past'
  BY <1>1, <1>2, PastGrows
<1>5. gen.turn \in Past' /\ Past' \subseteq 1..MaxTurns
  BY <1>1, <1>2, <1>3 DEF Past, TypeOK
<1>6. Whole(gen.history, Past) /\ Whole(conv, Past) /\ gen.history.turns = gen.asked.turns
  BY <1>1, <1>2 DEF ConvsWhole, ReplyAlone
<1>7. Whole(conv', Past') /\ conv'.turns = Append(gen.history.turns, gen.turn)
  <2>1. conv' = Joined(gen.history, gen.turn)
    BY <1>2 DEF Joined
  <2>2. Whole(conv', Past')
    BY <1>3, <1>4, <1>5, <1>6, <2>1, AppendWhole
  <2>3. gen.history \in [turns : Seq(Past), folded : 0..MaxTurns]
    BY <1>6 DEF Whole
  <2>4. conv'.turns = Append(gen.history.turns, gen.turn)
    BY <1>2, <2>3
  <2>5. QED  BY <2>2, <2>4
<1>8. conv' \in Convs
  BY <1>5, <1>7, WholeTyped
<1>9. ~raced' => ~raced /\ conv'.turns = Append(conv.turns, gen.turn)
  BY <1>2, <1>6, <1>7
<1>10. /\ ArchivedOnce' /\ MemoryIsArchive'
       /\ sid' \in Ids /\ drawn \subseteq drawn' /\ drawn' \subseteq Ids /\ sid' \in drawn'
       /\ archive' \in [Ids -> Seq(1..MaxTurns)]
       /\ \A id \in Ids \ drawn' : archive'[id] = << >>
       /\ gone' \subseteq 1..MaxTurns
  BY <1>1, <1>2, <1>3, <1>4, <1>5, <1>6, <1>9, PersistKeeps
<1>11. /\ turnCount' = turnCount + 1 /\ UNCHANGED notes /\ OneUpdate'
       /\ updates' \subseteq [base : SUBSET (1..MaxTurns), digest : SUBSET (1..MaxTurns)]
  BY <1>1, <1>2, <1>8, TurnCompletedUpdates
<1>12. TypeOK'
  <2>1. turnCount' \in 0..MaxTurns
    BY <1>1, <1>3, <1>11 DEF TypeOK
  <2>2. raced' \in BOOLEAN
    BY <1>1, <1>2 DEF TypeOK
  <2>3. QED  BY <1>1, <1>2, <1>8, <1>10, <1>11, <2>1, <2>2 DEF TypeOK
<1>13. TurnsApart'
  BY <1>1, <1>2, <1>3, <1>11 DEF TurnsApart, TypeOK
<1>14. ConvsWhole'
  BY <1>1, <1>2, <1>4, <1>7, <1>10, ConvsKept
<1>15. ReplyAlone' /\ ReplyOwnsConversation'
  BY <1>2 DEF ReplyAlone, ReplyOwnsConversation
<1>16. QED  BY <1>10, <1>11, <1>12, <1>13, <1>14, <1>15 DEF ChatIInv

\* A Skill is done: its turn joins the conversation, of a reply as well.
LEMMA SkillFinishesKeeps ==
  ASSUME ChatIInv, SkillFinishes
  PROVE  ChatIInv'
<1>1. /\ TypeOK /\ TurnsApart /\ ConvsWhole /\ ArchivedOnce /\ ReplyAlone /\ ReplyOwnsConversation
      /\ OneUpdate /\ MemoryIsArchive /\ turns \in Nat /\ MaxTurns \in Nat /\ Past \subseteq 1..MaxTurns
  BY IInvFacts
<1>2. PICK skill \in skills :
        /\ conv' = [conv EXCEPT !.turns = Append(@, skill)]
        /\ Persist(skill)
        /\ skills' = skills \ {skill}
  BY DEF SkillFinishes
<1>3. UNCHANGED <<app, gen, compacting, resuming, notes, updates, turnCount, turns, commands, raced>>
  BY DEF SkillFinishes, noteVars
<1>4. skill \in 1..turns /\ skill \notin Past /\ (gen # Nothing => gen.turn # skill)
  BY <1>1, <1>2 DEF TurnsApart, Past
<1>5. Past \subseteq Past'
  BY <1>1, <1>2, <1>3, PastGrows
<1>6. skill \in Past' /\ Past' \subseteq 1..MaxTurns
  BY <1>1, <1>2, <1>3, <1>4 DEF Past, TypeOK
<1>7. Whole(conv, Past)
  BY <1>1 DEF ConvsWhole
<1>8. Whole(conv', Past') /\ conv'.turns = Append(conv.turns, skill) /\ conv'.folded = conv.folded
  <2>1. conv' = Joined(conv, skill)
    BY <1>2 DEF Joined
  <2>2. Whole(conv', Past')
    BY <1>4, <1>5, <1>6, <1>7, <2>1, AppendWhole
  <2>3. conv \in [turns : Seq(Past), folded : 0..MaxTurns]
    BY <1>7 DEF Whole
  <2>4. conv'.turns = Append(conv.turns, skill) /\ conv'.folded = conv.folded
    BY <1>2, <2>3
  <2>5. QED  BY <2>2, <2>4
<1>9. conv' \in Convs
  BY <1>6, <1>8, WholeTyped
<1>10. /\ ArchivedOnce' /\ MemoryIsArchive'
       /\ sid' \in Ids /\ (sid # Nothing => sid' = sid)
       /\ drawn \subseteq drawn' /\ drawn' \subseteq Ids /\ sid' \in drawn'
       /\ archive' \in [Ids -> Seq(1..MaxTurns)]
       /\ \A id \in Ids \ drawn' : archive'[id] = << >>
       /\ gone' \subseteq 1..MaxTurns
  BY <1>1, <1>2, <1>3, <1>4, <1>5, <1>6, <1>7, <1>8, PersistKeeps
<1>11. TypeOK'
  BY <1>1, <1>2, <1>3, <1>9, <1>10 DEF TypeOK
<1>12. TurnsApart'
  BY <1>1, <1>2, <1>3 DEF TurnsApart
<1>13. ConvsWhole'
  BY <1>1, <1>3, <1>5, <1>8, <1>10, ConvsKept
<1>14. ReplyAlone'
  BY <1>1, <1>2, <1>3 DEF ReplyAlone
<1>15. ReplyOwnsConversation'
  <2>1. SUFFICES ASSUME gen # Nothing
                 PROVE  /\ sid' = gen.from \/ gen.from = Nothing
                        /\ conv'.folded = gen.asked.folded /\ IsPrefix(gen.asked.turns, conv'.turns)
                        /\ \A k \in (Len(gen.asked.turns) + 1)..Len(conv'.turns) : conv'.turns[k] < gen.turn
    BY <1>3 DEF ReplyOwnsConversation
  <2>2. /\ sid = gen.from \/ gen.from = Nothing
        /\ conv.folded = gen.asked.folded /\ IsPrefix(gen.asked.turns, conv.turns)
        /\ \A k \in (Len(gen.asked.turns) + 1)..Len(conv.turns) : conv.turns[k] < gen.turn
    BY <1>1, <2>1 DEF ReplyOwnsConversation
  <2>3. /\ conv.turns \in Seq(Past) /\ Len(conv.turns) \in Nat
        /\ gen.asked.turns \in Seq(Past) /\ Len(gen.asked.turns) \in Nat
    BY <1>1, <1>7, <2>1, WholeLength DEF ConvsWhole
  <2>4. IsPrefix(gen.asked.turns, conv'.turns)
    BY <1>8, <2>2, <2>3, PrefixGrows
  <2>5. /\ Len(conv'.turns) = Len(conv.turns) + 1
        /\ conv'.turns[Len(conv.turns) + 1] = skill
        /\ \A k \in 1..Len(conv.turns) : conv'.turns[k] = conv.turns[k]
    BY <1>8, <2>3
  <2>6. skill < gen.turn
    BY <1>1, <1>2, <2>1 DEF ReplyAlone
  <2>7. ASSUME NEW k \in (Len(gen.asked.turns) + 1)..Len(conv'.turns) PROVE conv'.turns[k] < gen.turn
    <3>1. CASE k = Len(conv.turns) + 1
      BY <2>5, <2>6, <3>1
    <3>2. CASE k # Len(conv.turns) + 1
      <4>1. k \in (Len(gen.asked.turns) + 1)..Len(conv.turns) /\ k \in 1..Len(conv.turns)
        BY <2>3, <2>5, <3>2
      <4>2. QED  BY <2>2, <2>5, <4>1
    <3>3. QED  BY <3>1, <3>2
  <2>8. QED  BY <1>8, <1>10, <2>2, <2>4, <2>7
<1>16. OneUpdate'
  BY <1>1, <1>3 DEF OneUpdate
<1>17. QED  BY <1>10, <1>11, <1>12, <1>13, <1>14, <1>15, <1>16 DEF ChatIInv

\* A step that puts a conversation in place of the one there was, while no
\* reply is generated.
LEMMA ReplacedStep ==
  ASSUME ChatIInv, gen = Nothing, UNCHANGED <<app, archive, gen, skills, notes, updates, turnCount, turns, drawn, gone>>,
         app = "up", commands' \in 0..MaxCommands, raced' \in BOOLEAN,
         Whole(conv', Past), sid' \in drawn \cup {Nothing},
         compacting' = compacting \/ compacting' = Nothing, resuming' \subseteq resuming,
         ~raced' => IF sid' = Nothing THEN conv'.turns = << >>
                    ELSE IsWithout(archive[sid'], conv'.turns, gone)
  PROVE  ChatIInv'
<1>1. /\ TypeOK /\ TurnsApart /\ ConvsWhole /\ ArchivedOnce /\ ReplyAlone /\ ReplyOwnsConversation
      /\ OneUpdate /\ MemoryIsArchive /\ turns \in Nat /\ MaxTurns \in Nat /\ Past \subseteq 1..MaxTurns
  BY IInvFacts
<1>2. conv' \in Convs
  BY <1>1, WholeTyped
<1>3. TypeOK'
  BY <1>1, <1>2 DEF TypeOK
<1>4. TurnsApart'
  BY <1>1 DEF TurnsApart
<1>5. Past' = Past
  BY DEF Past
<1>6. ConvsWhole'
  BY <1>1, <1>5, ConvsKept
<1>7. ArchivedOnce'
  BY <1>1, <1>5, ArchiveKept
<1>8. ReplyAlone' /\ ReplyOwnsConversation'
  BY DEF ReplyAlone, ReplyOwnsConversation
<1>9. OneUpdate' /\ MemoryIsArchive'
  BY <1>1 DEF OneUpdate, MemoryIsArchive
<1>10. QED  BY <1>3, <1>4, <1>6, <1>7, <1>8, <1>9 DEF ChatIInv

\* What an archive gives back, and what is lost of it: nothing.
LEMMA RecoveredWhole ==
  ASSUME ChatIInv, NEW id \in Ids
  PROVE  Whole(Recovered(id), Past) /\ IsWithout(archive[id], Recovered(id).turns, gone)
<1>1. archive[id] \in Seq(Past) /\ \A k \in 1..Len(archive[id]) : archive[id][k] \notin gone
  BY IInvFacts DEF ArchivedOnce
<1>2. 0 \in 0..MaxTurns
  BY ChatAssumption
<1>3. Recovered(id) \in [turns : Seq(Past), folded : 0..MaxTurns] /\ Recovered(id).turns = archive[id]
  BY <1>1, <1>2 DEF Recovered
<1>4. Whole(Recovered(id), Past)
  BY <1>3, IInvFacts DEF Whole, ArchivedOnce
<1>5. IsWithout(archive[id], archive[id], gone)
  BY <1>1, WithoutNone
<1>6. QED  BY <1>3, <1>4, <1>5

\* The summary replaces what it was made of, or raced says so.
LEMMA CompactFinishesKeeps ==
  ASSUME ChatIInv, CompactFinishes
  PROVE  ChatIInv'
<1>1. /\ TypeOK /\ ConvsWhole /\ ReplyAlone /\ MemoryIsArchive /\ Past \subseteq 1..MaxTurns
  BY IInvFacts
<1>2. /\ app = "up" /\ compacting # Nothing /\ compacting' = Nothing
      /\ conv' \in Compactions(compacting.asked)
      /\ raced' = (raced \/ conv.turns # compacting.asked.turns \/ sid # compacting.from)
      /\ UNCHANGED <<app, sid, archive, gen, resuming, skills, notes, updates, turnCount, turns, drawn, commands, gone>>
  BY DEF CompactFinishes, noteVars
<1>3. gen = Nothing
  BY <1>1, <1>2 DEF ReplyAlone
<1>4. Whole(conv', Past) /\ conv'.turns = compacting.asked.turns
  BY <1>1, <1>2, CompactionWhole DEF ConvsWhole
<1>5. ~raced' => IF sid' = Nothing THEN conv'.turns = << >>
                 ELSE IsWithout(archive[sid'], conv'.turns, gone)
  BY <1>1, <1>2, <1>4 DEF MemoryIsArchive
<1>6. commands' \in 0..MaxCommands /\ raced' \in BOOLEAN /\ sid' \in drawn \cup {Nothing}
  BY <1>1, <1>2 DEF TypeOK
<1>7. QED  BY <1>2, <1>3, <1>4, <1>5, <1>6, ReplacedStep

\* What is recovered is what is archived.
LEMMA ResumeSmallKeeps ==
  ASSUME ChatIInv, ResumeSmall
  PROVE  ChatIInv'
<1>1. /\ TypeOK /\ MaxCommands \in Nat
  BY IInvFacts
<1>2. PICK id \in Ids : archive[id] # << >> /\ conv' = Recovered(id) /\ sid' = id
  BY DEF ResumeSmall
<1>3. /\ app = "up" /\ gen = Nothing /\ commands < MaxCommands /\ commands' = commands + 1
      /\ UNCHANGED <<app, archive, gen, compacting, resuming, skills, notes, updates, turnCount, turns, drawn, gone, raced>>
  BY DEF ResumeSmall, Command, Idle, noteVars, ghosts
<1>4. Whole(conv', Past) /\ IsWithout(archive[sid'], conv'.turns, gone)
  BY <1>2, RecoveredWhole
<1>5. sid' \in drawn /\ sid' # Nothing
  BY <1>1, <1>2, ChatAssumption DEF TypeOK
<1>6. commands' \in 0..MaxCommands /\ raced' \in BOOLEAN
  BY <1>1, <1>3 DEF TypeOK
<1>7. QED  BY <1>3, <1>4, <1>5, <1>6, ReplacedStep

\* The same after a wait: the archive has not moved, or raced says so.
LEMMA ResumeFinishesKeeps ==
  ASSUME ChatIInv, ResumeFinishes
  PROVE  ChatIInv'
<1>1. /\ TypeOK /\ ConvsWhole /\ ReplyAlone /\ ArchivedOnce /\ Past \subseteq 1..MaxTurns /\ MaxTurns \in Nat
  BY IInvFacts
<1>2. PICK r \in resuming :
        /\ conv' \in Compactions(r.asked) \cup {r.asked}
        /\ sid' = r.id
        /\ resuming' = resuming \ {r}
        /\ raced' = (raced \/ archive[r.id] # r.asked.turns)
  BY DEF ResumeFinishes
<1>3. /\ app = "up"
      /\ UNCHANGED <<app, archive, gen, compacting, skills, notes, updates, turnCount, turns, drawn, commands, gone>>
  BY DEF ResumeFinishes, noteVars
<1>4. gen = Nothing
  BY <1>1, <1>2 DEF ReplyAlone
<1>5. Whole(r.asked, Past) /\ r.id \in drawn /\ r.id \in Ids
  BY <1>1, <1>2 DEF ConvsWhole, TypeOK
<1>6. Whole(conv', Past) /\ conv'.turns = r.asked.turns
  BY <1>1, <1>2, <1>5, CompactionWhole
<1>7. ~raced' => IsWithout(archive[sid'], conv'.turns, gone)
  <2>1. IsWithout(archive[r.id], Recovered(r.id).turns, gone)
    BY <1>5, RecoveredWhole
  <2>2. Recovered(r.id).turns = archive[r.id]
    BY DEF Recovered
  <2>3. QED  BY <1>2, <1>6, <2>1, <2>2
<1>8. sid' # Nothing /\ sid' \in drawn /\ commands' \in 0..MaxCommands /\ raced' \in BOOLEAN
  BY <1>1, <1>2, <1>3, <1>5, ChatAssumption DEF TypeOK
<1>9. QED  BY <1>2, <1>3, <1>4, <1>6, <1>7, <1>8, ReplacedStep

\* A conversation without an id is empty.
LEMMA ClearKeeps ==
  ASSUME ChatIInv, Clear
  PROVE  ChatIInv'
<1>1. TypeOK /\ MaxTurns \in Nat /\ MaxCommands \in Nat
  BY IInvFacts
<1>2. /\ app = "up" /\ gen = Nothing /\ commands < MaxCommands /\ commands' = commands + 1
      /\ conv' = Empty /\ sid' = Nothing
      /\ UNCHANGED <<app, archive, gen, compacting, resuming, skills, notes, updates, turnCount, turns, drawn, gone, raced>>
  BY DEF Clear, Command, Idle, noteVars, ghosts
<1>3. Whole(Empty, Past) /\ Empty.turns = << >>
  BY <1>1 DEF Empty, Whole
<1>4. commands' \in 0..MaxCommands /\ raced' \in BOOLEAN
  BY <1>1, <1>2 DEF TypeOK
<1>5. QED  BY <1>2, <1>3, <1>4, ReplacedStep

\* Sessions are deleted: their turns are lost, and no other's.
LEMMA DeleteKeeps ==
  ASSUME ChatIInv, Delete
  PROVE  ChatIInv'
<1>1. /\ TypeOK /\ TurnsApart /\ ConvsWhole /\ ArchivedOnce /\ ReplyAlone /\ ReplyOwnsConversation
      /\ OneUpdate /\ MemoryIsArchive /\ MaxCommands \in Nat /\ Past \subseteq 1..MaxTurns
  BY IInvFacts
<1>2. PICK ids \in SUBSET Ids :
        /\ archive' = [id \in Ids |-> IF id \in ids THEN << >> ELSE archive[id]]
        /\ gone' = gone \cup UNION {Range(archive[id]) : id \in ids}
  BY DEF Delete
<1>3. /\ app = "up" /\ gen = Nothing /\ commands < MaxCommands /\ commands' = commands + 1
      /\ UNCHANGED <<app, conv, sid, gen, compacting, resuming, skills, notes, updates, turnCount, turns, drawn, raced>>
  BY DEF Delete, Command, Idle, noteVars
<1>4. Past' = Past
  BY <1>3 DEF Past
<1>5. \A id \in Ids : archive[id] \in Seq(Past) /\ archive[id] \in Seq(1..MaxTurns)
  BY <1>1 DEF ArchivedOnce, TypeOK
<1>6. \A id \in Ids : \A t : t \in Range(archive[id]) <=> \E k \in 1..Len(archive[id]) : t = archive[id][k]
  <2>1. \A id \in Ids : DOMAIN archive[id] = 1..Len(archive[id])
    BY <1>5, SeqFunction
  <2>2. QED  BY <2>1 DEF Range
<1>7. \A t : t \in gone' <=> t \in gone \/ \E id \in ids : \E k \in 1..Len(archive[id]) : t = archive[id][k]
  <2>1. \A t : t \in gone' <=> t \in gone \/ \E id \in ids : t \in Range(archive[id])
    BY <1>2
  <2>2. \A id \in ids : id \in Ids
    OBVIOUS
  <2>3. ASSUME NEW id \in ids, NEW t
        PROVE  t \in Range(archive[id]) <=> \E k \in 1..Len(archive[id]) : t = archive[id][k]
    BY <1>6, <2>2
  <2>4. ASSUME NEW t, NEW id \in ids, t \in Range(archive[id])
        PROVE  \E n \in ids : \E k \in 1..Len(archive[n]) : t = archive[n][k]
    BY <2>3, <2>4
  <2>5. ASSUME NEW t, NEW id \in ids, NEW k \in 1..Len(archive[id]), t = archive[id][k]
        PROVE  \E n \in ids : t \in Range(archive[n])
    BY <2>3, <2>5
  <2>6. QED  BY <2>1, <2>4, <2>5
<1>8. \A id \in Ids : archive'[id] = IF id \in ids THEN << >> ELSE archive[id]
  BY <1>2
<1>9. \A id \in Ids : archive'[id] \in Seq(1..MaxTurns) /\ archive'[id] \in Seq(Past)
  <2>1. << >> \in Seq(1..MaxTurns) /\ << >> \in Seq(Past)
    OBVIOUS
  <2>2. QED  BY <1>5, <1>8, <2>1
<1>10. \A id \in Ids : \A k \in 1..Len(archive[id]) : archive[id][k] \in Past
  <2>1. TAKE id \in Ids
  <2>2. archive[id] \in [1..Len(archive[id]) -> Past]
    BY <1>5, SeqFunction
  <2>3. QED  BY <2>2
<1>11. gone' \subseteq Past
  <2>1. gone \subseteq Past
    BY <1>1 DEF ArchivedOnce
  <2>2. QED  BY <1>7, <1>10, <2>1
<1>12. TypeOK'
  <2>1. archive' \in [Ids -> Seq(1..MaxTurns)]
    <3>1. << >> \in Seq(1..MaxTurns)
      OBVIOUS
    <3>2. QED  BY <1>2, <1>5, <3>1
  <2>2. \A id \in Ids \ drawn' : archive'[id] = << >>
    BY <1>1, <1>3, <1>8 DEF TypeOK
  <2>3. gone' \subseteq 1..MaxTurns
    BY <1>1, <1>11
  <2>4. QED  BY <1>1, <1>3, <2>1, <2>2, <2>3 DEF TypeOK
<1>13. \A id \in Ids : \A k \in 1..Len(archive'[id]) : id \notin ids /\ archive'[id] = archive[id]
  <2>1. \A k \in 1..Len(<< >>) : FALSE
    OBVIOUS
  <2>2. QED  BY <1>8, <2>1
<1>14. \A i, j \in Ids : \A k \in 1..Len(archive[i]), l \in 1..Len(archive[j]) :
         archive[i][k] = archive[j][l] => i = j /\ k = l
  BY <1>1 DEF ArchivedOnce
<1>15. ArchivedOnce'
  <2>1. \A i, j \in Ids : \A k \in 1..Len(archive'[i]), l \in 1..Len(archive'[j]) :
          archive'[i][k] = archive'[j][l] => i = j /\ k = l
    BY <1>13, <1>14
  <2>2. ASSUME NEW i \in Ids, NEW k \in 1..Len(archive'[i]) PROVE archive'[i][k] \notin gone'
    <3>1. i \notin ids /\ archive'[i] = archive[i] /\ k \in 1..Len(archive[i])
      BY <1>13
    <3>2. archive[i][k] \notin gone
      BY <1>1, <3>1 DEF ArchivedOnce
    <3>3. QED  BY <1>7, <1>14, <3>1, <3>2
  <2>3. QED  BY <1>4, <1>9, <1>11, <2>1, <2>2 DEF ArchivedOnce
<1>16. MemoryIsArchive'
  <2>1. SUFFICES ASSUME ~raced, sid # Nothing
                 PROVE  IsWithout(archive'[sid], conv.turns, gone')
    BY <1>1, <1>3 DEF MemoryIsArchive
  <2>2. IsWithout(archive[sid], conv.turns, gone) /\ sid \in Ids
    BY <1>1, <2>1 DEF MemoryIsArchive, TypeOK
  <2>3. PICK at \in [1..Len(archive[sid]) -> 1..Len(conv.turns)] :
          /\ {at[i] : i \in 1..Len(archive[sid])} = {k \in 1..Len(conv.turns) : conv.turns[k] \notin gone}
          /\ \A i \in 1..Len(archive[sid]) : archive[sid][i] = conv.turns[at[i]]
    BY <2>2 DEF IsWithout
  <2>4. \A k \in 1..Len(conv.turns) :
          conv.turns[k] \in gone \/ \E i \in 1..Len(archive[sid]) : conv.turns[k] = archive[sid][i]
    BY <2>3
  <2>5. CASE sid \in ids
    <3>1. \A k \in 1..Len(conv.turns) : conv.turns[k] \in gone'
      BY <1>7, <2>4, <2>5
    <3>2. conv.turns \in Seq(Past)
      BY <1>1, WholeLength DEF ConvsWhole
    <3>3. IsWithout(<< >>, conv.turns, gone')
      BY <3>1, <3>2, WithoutAll
    <3>4. QED  BY <1>8, <2>2, <2>5, <3>3
  <2>6. CASE sid \notin ids
    <3>1. \A k \in 1..Len(conv.turns) : conv.turns[k] \in gone <=> conv.turns[k] \in gone'
      BY <1>7, <1>14, <2>2, <2>4, <2>6
    <3>2. IsWithout(archive[sid], conv.turns, gone')
      BY <2>2, <3>1, WithoutSame
    <3>3. QED  BY <1>8, <2>2, <2>6, <3>2
  <2>7. QED  BY <2>5, <2>6
<1>17. TurnsApart' /\ ReplyAlone' /\ ReplyOwnsConversation' /\ OneUpdate'
  BY <1>1, <1>3 DEF TurnsApart, ReplyAlone, ReplyOwnsConversation, OneUpdate
<1>18. ConvsWhole'
  BY <1>1, <1>3, <1>4, ConvsKept
<1>19. QED  BY <1>12, <1>15, <1>16, <1>17, <1>18 DEF ChatIInv

-----------------------------------------------------------------------------
(***************************************************************************)
(* ChatApp                                                                 *)
(***************************************************************************)
\* What the app finds when it starts.
LEMMA ChatInit ==
  ASSUME Init
  PROVE  ChatIInv
<1>1. /\ app = "up" /\ conv = Empty /\ sid = Nothing /\ archive \in OldArchives
      /\ gen = Nothing /\ compacting = Nothing /\ resuming = {} /\ skills = {}
      /\ notes = {} /\ updates = {} /\ turnCount = 0 /\ commands = 0 /\ gone = {} /\ raced = FALSE
      /\ turns = Cardinality(UNION {Range(archive[i]) : i \in Ids})
      /\ drawn = {i \in Ids : archive[i] # << >>}
  BY DEF Init
<1>2. archive \in [Ids -> Seq(1..MaxTurns)] /\ NumberedOnce(archive) /\ MaxTurns \in Nat /\ MaxCommands \in Nat
  BY <1>1, ChatAssumption
<1>3. PICK n \in 0..MaxTurns : UNION {Range(archive[i]) : i \in Ids} = 1..n
  BY <1>2 DEF NumberedOnce
<1>4. turns = n /\ turns \in 0..MaxTurns
  <2>1. Cardinality(1..n) = n
    BY FS_Interval
  <2>2. QED  BY <1>1, <1>3, <2>1
<1>5. Past = 1..turns
  BY <1>1 DEF Past
<1>6. \A i \in Ids : DOMAIN archive[i] = 1..Len(archive[i])
  BY <1>2
<1>7. \A i \in Ids : archive[i] \in Seq(Past)
  <2>1. TAKE i \in Ids
  <2>2. archive[i] \in Seq(1..MaxTurns)
    BY <1>2
  <2>3. archive[i] \in [1..Len(archive[i]) -> 1..MaxTurns] /\ Len(archive[i]) \in Nat
    BY <2>2, SeqFunction
  <2>4. \A k \in 1..Len(archive[i]) : archive[i][k] \in Range(archive[i])
    BY <2>3 DEF Range
  <2>5. Range(archive[i]) \subseteq 1..n
    BY <1>3
  <2>6. archive[i] \in [1..Len(archive[i]) -> Past]
    BY <1>4, <1>5, <2>3, <2>4, <2>5
  <2>7. QED  BY <2>3, <2>6
<1>8. ArchivedOnce
  <2>1. \A i, j \in Ids : \A k \in 1..Len(archive[i]), l \in 1..Len(archive[j]) :
          archive[i][k] = archive[j][l] => i = j /\ k = l
    BY <1>2, <1>6 DEF NumberedOnce
  <2>2. QED  BY <1>1, <1>7, <2>1 DEF ArchivedOnce
<1>9. Whole(conv, Past) /\ conv \in Convs /\ conv.turns = << >>
  BY <1>1, <1>2 DEF Empty, Whole, Convs
<1>10. TypeOK
  <2>1. drawn \subseteq Ids /\ \A id \in Ids \ drawn : archive[id] = << >>
    BY <1>1
  <2>2. turnCount \in 0..MaxTurns /\ commands \in 0..MaxCommands
    BY <1>1, <1>2
  <2>3. QED  BY <1>1, <1>2, <1>4, <1>9, <2>1, <2>2 DEF TypeOK
<1>11. TurnsApart /\ ConvsWhole /\ ReplyAlone /\ ReplyOwnsConversation /\ OneUpdate
  BY <1>1, <1>4, <1>9 DEF TurnsApart, ConvsWhole, ReplyAlone, ReplyOwnsConversation, OneUpdate
<1>12. MemoryIsArchive
  BY <1>1, <1>9 DEF MemoryIsArchive
<1>13. QED  BY <1>8, <1>10, <1>11, <1>12 DEF ChatIInv

\* A step of the app, or a command that is only counted here.
ChatStep == Next \/ Counted \/ UNCHANGED vars

\* Every step keeps the invariant.
LEMMA ChatNext ==
  ASSUME ChatIInv, ChatStep
  PROVE  ChatIInv'
<1>1. CASE StartGenerate  BY <1>1, StartGenerateKeeps
<1>2. CASE LoopCompresses  BY <1>2, LoopCompressesKeeps
<1>3. CASE GenerateCompletes  BY <1>3, GenerateCompletesKeeps
<1>4. CASE GenerateAbandons  BY <1>4, GenerateAbandonsKeeps
<1>5. CASE StartCompact  BY <1>5, StartCompactKeeps
<1>6. CASE CompactFinishes  BY <1>6, CompactFinishesKeeps
<1>7. CASE CompactFails  BY <1>7, CompactFailsKeeps
<1>8. CASE ResumeSmall  BY <1>8, ResumeSmallKeeps
<1>9. CASE ResumeLarge  BY <1>9, ResumeLargeKeeps
<1>10. CASE ResumeFinishes  BY <1>10, ResumeFinishesKeeps
<1>11. CASE Clear  BY <1>11, ClearKeeps
<1>12. CASE Delete  BY <1>12, DeleteKeeps
<1>13. CASE StartSkill  BY <1>13, StartSkillKeeps
<1>14. CASE SkillFinishes  BY <1>14, SkillFinishesKeeps
<1>15. CASE SkillFails  BY <1>15, SkillFailsKeeps
<1>16. CASE UpdateFinishes  BY <1>16, UpdateFinishesKeeps
<1>17. CASE UpdateFails  BY <1>17, UpdateFailsKeeps
<1>18. CASE ClearNotes  BY <1>18, ClearNotesKeeps
<1>19. CASE Close  BY <1>19, CloseKeeps
<1>20. CASE LastUpdate  BY <1>20, LastUpdateKeeps
<1>21. CASE Counted  BY <1>21, CountedKeeps
<1>22. CASE UNCHANGED vars
  <2>1. /\ UNCHANGED <<app, conv, sid, archive, gen, compacting, resuming, skills>>
        /\ UNCHANGED <<notes, updates, turnCount, turns, drawn, commands, gone, raced>>
    BY <1>22 DEF vars
  <2>2. /\ TypeOK /\ TurnsApart /\ ConvsWhole /\ ArchivedOnce
        /\ ReplyAlone /\ ReplyOwnsConversation /\ OneUpdate /\ MemoryIsArchive
    BY IInvFacts
  <2>3. Past' = Past
    BY <2>1 DEF Past
  <2>4. TypeOK'
    BY <2>1, <2>2 DEF TypeOK
  <2>5. TurnsApart' /\ ReplyAlone' /\ ReplyOwnsConversation' /\ OneUpdate'
    BY <2>1, <2>2 DEF TurnsApart, ReplyAlone, ReplyOwnsConversation, OneUpdate
  <2>6. ConvsWhole'
    BY <2>1, <2>2, <2>3, ConvsKept
  <2>7. ArchivedOnce'
    BY <2>1, <2>2, <2>3, ArchiveKept
  <2>8. MemoryIsArchive'
    BY <2>1, <2>2 DEF MemoryIsArchive
  <2>9. QED  BY <2>4, <2>5, <2>6, <2>7, <2>8 DEF ChatIInv
<1>23. QED
  BY <1>1, <1>2, <1>3, <1>4, <1>5, <1>6, <1>7, <1>8, <1>9, <1>10, <1>11, <1>12, <1>13, <1>14,
     <1>15, <1>16, <1>17, <1>18, <1>19, <1>20, <1>21, <1>22 DEF ChatStep, Next

\* What a step makes of the notes: an update was shown all of them.
LEMMA NotesStep ==
  ASSUME OneUpdate, ChatStep
  PROVE  notes \subseteq notes' \/ notes' = {}
<1>1. CASE UpdateFinishes
  BY <1>1 DEF UpdateFinishes, OneUpdate
<1>2. CASE ClearNotes
  BY <1>2 DEF ClearNotes
<1>3. CASE ~UpdateFinishes /\ ~ClearNotes
  <2>1. CASE GenerateCompletes
    BY <2>1 DEF GenerateCompletes, TurnCompleted
  <2>2. CASE ~GenerateCompletes
    <3>1. UNCHANGED notes
      BY <1>3, <2>2 DEF ChatStep, Next, StartGenerate, LoopCompresses, GenerateAbandons, StartCompact,
         CompactFinishes, CompactFails, ResumeSmall, ResumeLarge, ResumeFinishes, Clear, Delete, StartSkill,
         SkillFinishes, SkillFails, UpdateFails, Close, LastUpdate, Counted, Unchanged, noteVars, vars
    <3>2. QED  BY <3>1
  <2>3. QED  BY <2>1, <2>2
<1>4. QED  BY <1>1, <1>2, <1>3

\* The invariant holds of the app on its own.
THEOREM ChatInductive == Spec => []ChatIInv
<1>1. ChatIInv /\ [Next]_vars => ChatIInv'
  BY ChatNext DEF ChatStep
<1>2. QED  BY ChatInit, <1>1, PTL DEF Spec

-----------------------------------------------------------------------------
(***************************************************************************)
(* The surface                                                             *)
(***************************************************************************)
\* The names of the built-ins, and whose they are.
LEMMA BuiltinsAre ==
  /\ Builtins = BuiltinNames \cup {"h", "mode", "s", "n", "st"}
  /\ \A d \in Builtins : OwnerOf(d) \in BuiltinNames
  /\ \A n \in BuiltinNames : OwnerOf(n) = n
<1>1. /\ BuiltinAliases["help"] = {"h"} /\ BuiltinAliases["plan"] = {"mode"}
      /\ BuiltinAliases["sessions"] = {"s"} /\ BuiltinAliases["notes"] = {"n"}
      /\ BuiltinAliases["status"] = {"st"}
      /\ \A n \in BuiltinNames \ {"help", "plan", "sessions", "notes", "status"} : BuiltinAliases[n] = {}
  BY DEF BuiltinAliases, BuiltinNames
<1>2. \A n \in BuiltinNames : \A d \in DisplayNames(n, BuiltinAliases[n]) :
        d = n \/ d \in {"h", "mode", "s", "n", "st"}
  BY <1>1 DEF DisplayNames, BuiltinNames
<1>3. /\ "help" \in BuiltinNames /\ "h" \in DisplayNames("help", BuiltinAliases["help"])
      /\ "plan" \in BuiltinNames /\ "mode" \in DisplayNames("plan", BuiltinAliases["plan"])
      /\ "sessions" \in BuiltinNames /\ "s" \in DisplayNames("sessions", BuiltinAliases["sessions"])
      /\ "notes" \in BuiltinNames /\ "n" \in DisplayNames("notes", BuiltinAliases["notes"])
      /\ "status" \in BuiltinNames /\ "st" \in DisplayNames("status", BuiltinAliases["status"])
  BY <1>1 DEF DisplayNames, BuiltinNames
<1>4. \A n \in BuiltinNames : n \in DisplayNames(n, BuiltinAliases[n])
  BY DEF DisplayNames
<1>5. \A d : d \in Builtins <=> \E n \in BuiltinNames : d \in DisplayNames(n, BuiltinAliases[n])
  BY DEF Builtins
<1>6. Builtins = BuiltinNames \cup {"h", "mode", "s", "n", "st"}
  <2>1. \A d \in Builtins : d \in BuiltinNames \cup {"h", "mode", "s", "n", "st"}
    BY <1>2, <1>5
  <2>2. \A d \in BuiltinNames \cup {"h", "mode", "s", "n", "st"} : d \in Builtins
    BY <1>3, <1>4, <1>5
  <2>3. QED  BY <2>1, <2>2
<1>7. \A d \in Builtins : OwnerOf(d) \in BuiltinNames /\ d \in DisplayNames(OwnerOf(d), BuiltinAliases[OwnerOf(d)])
  BY <1>5 DEF OwnerOf
<1>8. BuiltinNames \cap {"h", "mode", "s", "n", "st"} = {}
  BY DEF BuiltinNames
<1>9. \A n \in BuiltinNames : OwnerOf(n) = n
  BY <1>2, <1>6, <1>7, <1>8
<1>10. QED  BY <1>6, <1>7, <1>9

\* A registry with its built-ins: everything else stands for itself.
TableWhole(table) ==
  /\ DOMAIN table \subseteq Words
  /\ \A d \in Builtins : d \in DOMAIN table /\ table[d] = OwnerOf(d)
  /\ \A d \in {"skills", "rules", "workers"} : d \in DOMAIN table /\ table[d] = d
  /\ \A d \in DOMAIN table : d \in Builtins \/ table[d] = d

\* What is shown is what is there, Skills and mode.
ShownIsThere ==
  /\ TableWhole(lookup)
  /\ index \subseteq SkillNames /\ index \subseteq DOMAIN lookup /\ offered = index
  /\ installing \in BOOLEAN

SurfaceIInv == ChatIInv /\ ShownIsThere

\* What is registered stays, and what is added comes after it.
IsExtended(new, table, more) ==
  /\ DOMAIN new = DOMAIN table \cup DOMAIN more
  /\ \A d \in DOMAIN table : new[d] = table[d]
  /\ \A d \in DOMAIN more \ DOMAIN table : new[d] = more[d]

LEMMA ExtendedTable ==
  ASSUME NEW table, NEW more, NEW new, new = Extended(table, more)
  PROVE  IsExtended(new, table, more)
BY DEF Extended, IsExtended

\* The shortcuts of the Skills leave the names that are taken.
HasShortcuts(new, table, names) ==
  /\ DOMAIN new = DOMAIN table \cup names
  /\ \A d \in DOMAIN table : new[d] = table[d]
  /\ \A d \in names \ DOMAIN table : new[d] = d

LEMMA Shortcuts ==
  ASSUME NEW table, NEW names, NEW new, new = WithShortcuts(table, names)
  PROVE  HasShortcuts(new, table, names)
<1> DEFINE free == {n \in names : ~Conflicts(table, n, {})}
           more == [n \in free |-> n]
<1>1. \A n \in names : n \in free <=> n \notin DOMAIN table
  BY DEF Conflicts, DisplayNames
<1>2. DOMAIN more = free /\ \A n \in free : more[n] = n
  OBVIOUS
<1>3. new = Extended(table, more)
  BY DEF WithShortcuts
<1>4. \A n \in free : n \in names
  OBVIOUS
<1> HIDE DEF more, free
<1>5. DOMAIN table \cup free = DOMAIN table \cup names
  BY <1>1, <1>4
<1>6. IsExtended(new, table, more)
  BY <1>3, ExtendedTable
<1>7. QED  BY <1>1, <1>2, <1>5, <1>6 DEF IsExtended, HasShortcuts

\* A registry is whole with the shortcuts of a scan as well.
LEMMA ShortcutsWhole ==
  ASSUME NEW table, TableWhole(table), NEW names, names \subseteq SkillNames,
         NEW new, new = WithShortcuts(table, names)
  PROVE  TableWhole(new) /\ names \subseteq DOMAIN new
<1>1. names \subseteq Words
  BY DEF Words
<1>2. HasShortcuts(new, table, names)
  BY Shortcuts
<1>3. QED  BY <1>1, <1>2 DEF TableWhole, HasShortcuts

\* The registry of an app that has started.
LEMMA StartTableWhole ==
  ASSUME NEW names, names \subseteq SkillNames
  PROVE  TableWhole(StartTable(names)) /\ names \subseteq DOMAIN StartTable(names)
<1>1. PICK one : one = [d \in DisplayNames("skills", {}) |-> "skills"]  OBVIOUS
<1>2. PICK two : two = [d \in DisplayNames("rules", {}) |-> "rules"]  OBVIOUS
<1>3. PICK three : three = [d \in DisplayNames("workers", {}) |-> "workers"]  OBVIOUS
<1>4. /\ DOMAIN one = {"skills"} /\ one["skills"] = "skills"
      /\ DOMAIN two = {"rules"} /\ two["rules"] = "rules"
      /\ DOMAIN three = {"workers"} /\ three["workers"] = "workers"
  BY <1>1, <1>2, <1>3 DEF DisplayNames
<1>5. PICK t1 : t1 = Extended(BuiltinTable, one)  OBVIOUS
<1>6. PICK t2 : t2 = WithShortcuts(t1, names)  OBVIOUS
<1>7. PICK t3 : t3 = Extended(t2, two)  OBVIOUS
<1>8. PICK t4 : t4 = Extended(t3, three)  OBVIOUS
<1>9. StartTable(names) = t4
  BY <1>1, <1>2, <1>3, <1>5, <1>6, <1>7, <1>8 DEF StartTable, FirstTable, Registered
<1>10. DOMAIN BuiltinTable = Builtins /\ \A d \in Builtins : BuiltinTable[d] = OwnerOf(d)
  BY DEF BuiltinTable
<1>11. "skills" \notin Builtins /\ "rules" \notin Builtins /\ "workers" \notin Builtins
  BY BuiltinsAre DEF BuiltinNames
<1>12. /\ DOMAIN t1 = Builtins \cup {"skills"} /\ t1["skills"] = "skills"
       /\ \A d \in Builtins : t1[d] = OwnerOf(d)
  <2>0. IsExtended(t1, BuiltinTable, one)
    BY <1>5, ExtendedTable
  <2>1. /\ DOMAIN t1 = DOMAIN BuiltinTable \cup DOMAIN one
        /\ \A d \in DOMAIN BuiltinTable : t1[d] = BuiltinTable[d]
        /\ \A d \in DOMAIN one \ DOMAIN BuiltinTable : t1[d] = one[d]
    BY <2>0 DEF IsExtended
  <2>2. QED  BY <1>4, <1>10, <1>11, <2>1
<1>13. /\ DOMAIN t2 = Builtins \cup {"skills"} \cup names /\ t2["skills"] = "skills"
       /\ \A d \in Builtins : t2[d] = OwnerOf(d)
       /\ \A d \in DOMAIN t2 : d \in Builtins \/ t2[d] = d
  <2>0. HasShortcuts(t2, t1, names)
    BY <1>6, Shortcuts
  <2>1. /\ DOMAIN t2 = DOMAIN t1 \cup names
        /\ \A d \in DOMAIN t1 : t2[d] = t1[d]
        /\ \A d \in names \ DOMAIN t1 : t2[d] = d
    BY <2>0 DEF HasShortcuts
  <2>2. QED  BY <1>12, <2>1
<1>14. /\ DOMAIN t3 = Builtins \cup {"skills", "rules"} \cup names /\ t3["skills"] = "skills" /\ t3["rules"] = "rules"
       /\ \A d \in Builtins : t3[d] = OwnerOf(d)
       /\ \A d \in DOMAIN t3 : d \in Builtins \/ t3[d] = d
  <2>0. IsExtended(t3, t2, two)
    BY <1>7, ExtendedTable
  <2>1. /\ DOMAIN t3 = DOMAIN t2 \cup DOMAIN two
        /\ \A d \in DOMAIN t2 : t3[d] = t2[d]
        /\ \A d \in DOMAIN two \ DOMAIN t2 : t3[d] = two[d]
    BY <2>0 DEF IsExtended
  <2>2. t3["rules"] = "rules"
    BY <1>4, <1>11, <1>13, <2>1
  <2>3. QED  BY <1>4, <1>13, <2>1, <2>2
<1>15. /\ DOMAIN t4 = Builtins \cup {"skills", "rules", "workers"} \cup names
       /\ t4["skills"] = "skills" /\ t4["rules"] = "rules" /\ t4["workers"] = "workers"
       /\ \A d \in Builtins : t4[d] = OwnerOf(d)
       /\ \A d \in DOMAIN t4 : d \in Builtins \/ t4[d] = d
  <2>0. IsExtended(t4, t3, three)
    BY <1>8, ExtendedTable
  <2>1. /\ DOMAIN t4 = DOMAIN t3 \cup DOMAIN three
        /\ \A d \in DOMAIN t3 : t4[d] = t3[d]
        /\ \A d \in DOMAIN three \ DOMAIN t3 : t4[d] = three[d]
    BY <2>0 DEF IsExtended
  <2>2. t4["workers"] = "workers"
    BY <1>4, <1>11, <1>14, <2>1
  <2>3. QED  BY <1>4, <1>14, <2>1, <2>2
<1>16. DOMAIN t4 \subseteq Words
  BY <1>15 DEF Words
<1>17. TableWhole(t4) /\ names \subseteq DOMAIN t4
  BY <1>15, <1>16 DEF TableWhole
<1>18. QED  BY <1>9, <1>17

\* What the surface is when the app has started.
LEMMA SurfaceStarts ==
  ASSUME NEW names, names \subseteq SkillNames, SurfaceInit(names)
  PROVE  SurfaceIInv
<1>1. /\ Init /\ index = names /\ offered = names /\ lookup = StartTable(names)
      /\ installing = FALSE
  BY DEF SurfaceInit
<1>2. TableWhole(lookup) /\ index \subseteq DOMAIN lookup
  BY <1>1, StartTableWhole
<1>3. QED  BY <1>1, <1>2, ChatInit DEF SurfaceIInv, ShownIsThere

\* What a command may do: a step of the app that leaves the surface, or one of
\* two that the app only counts.
LEMMA HandlerSteps ==
  ASSUME NEW command, Handler(command)
  PROVE  \/ (Next \/ UNCHANGED vars) /\ UNCHANGED surface
         \/ SkillsRescan \/ SkillsInstall
<1>1. CASE command = "clear"
  BY <1>1 DEF Handler, Next
<1>2. CASE command = "compact"
  BY <1>2 DEF Handler, Next
<1>3. CASE command = "resume"
  BY <1>3 DEF Handler, Resume, Next
<1>4. CASE command = "sessions"
  BY <1>4 DEF Handler, OnlyShows, surfaceVars, Next
<1>5. CASE command = "notes"
  BY <1>5 DEF Handler, OnlyShows, surfaceVars, Next
<1>6. CASE command = "exit"
  BY <1>6 DEF Handler, Next
<1>7. CASE command = "skills"
  BY <1>7 DEF Handler, OnlyShows, surfaceVars
<1>8. CASE command \in {"help", "model", "plan", "status", "permissions", "rules", "workers",
                        "unknown"}
  BY <1>8 DEF Handler, OnlyShows, surfaceVars
<1>9. CASE command \notin {"clear", "compact", "resume", "sessions", "notes", "exit", "plan", "skills",
                           "help", "model", "status", "permissions", "rules", "workers", "unknown"}
  <2>1. RunSkill(command)
    BY <1>9 DEF Handler
  <2>2. QED  BY <2>1 DEF RunSkill, OnlyShows, surfaceVars, Next
<1>10. QED
  BY <1>1, <1>2, <1>3, <1>4, <1>5, <1>6, <1>7, <1>8, <1>9

\* A step of the surface is a step of ChatApp, or one that it only counts.
LEMMA SurfaceIsChat ==
  ASSUME SurfaceNext \/ UNCHANGED surfaceVars
  PROVE  ChatStep
<1>1. CASE UNCHANGED surfaceVars
  BY <1>1 DEF surfaceVars, ChatStep
<1>2. CASE InstallByReply
  BY <1>2 DEF InstallByReply, ChatStep, vars
<1>3. CASE InstallReported
  BY <1>3 DEF InstallReported, ChatStep, vars
<1>4. CASE Elsewhere
  BY <1>4 DEF Elsewhere, ChatStep, Next
<1>5. ASSUME NEW word \in Words, Enter(word)
      PROVE  ChatStep
  <2>1. Handler(Found(word))
    BY <1>5 DEF Enter
  <2>2. \/ Next \/ UNCHANGED vars
        \/ SkillsRescan \/ SkillsInstall
    BY <2>1, HandlerSteps
  <2>3. QED  BY <2>2 DEF ChatStep, Counted, SkillsRescan, SkillsInstall
<1>6. QED  BY <1>1, <1>2, <1>3, <1>4, <1>5 DEF SurfaceNext

\* However the surface changes, its parts change together.
LEMMA SurfaceKept ==
  ASSUME SurfaceIInv, SurfaceNext \/ UNCHANGED surfaceVars
  PROVE  SurfaceIInv'
<1>1. /\ ChatIInv /\ TableWhole(lookup)
      /\ index \subseteq SkillNames /\ index \subseteq DOMAIN lookup /\ offered = index
      /\ installing \in BOOLEAN
  BY DEF SurfaceIInv, ShownIsThere
<1>2. ChatIInv'
  BY <1>1, SurfaceIsChat, ChatNext
<1>3. ASSUME NEW names \in Scans, RescanFinds(names), installing' \in BOOLEAN
      PROVE  ShownIsThere'
  <2>1. names \subseteq SkillNames
    BY SurfaceAssumption
  <2>2. index' = names /\ offered' = names /\ lookup' = WithShortcuts(lookup, names)
    BY <1>3 DEF RescanFinds
  <2>3. TableWhole(lookup') /\ names \subseteq DOMAIN lookup'
    BY <1>1, <2>1, <2>2, ShortcutsWhole
  <2>4. QED  BY <1>3, <2>1, <2>2, <2>3 DEF ShownIsThere
<1>4. ASSUME UNCHANGED <<lookup, index, offered>>, installing' \in BOOLEAN
      PROVE  ShownIsThere'
  BY <1>1, <1>4 DEF ShownIsThere
<1> SUFFICES ShownIsThere'
  BY <1>2 DEF SurfaceIInv
<1>5. CASE UNCHANGED surface
  BY <1>1, <1>4, <1>5 DEF surface
<1>6. CASE SkillsInstall
  BY <1>1, <1>4, <1>6 DEF SkillsInstall
<1>7. CASE SkillsRescan
  BY <1>1, <1>3, <1>7 DEF SkillsRescan
<1>8. CASE InstallByReply
  BY <1>1, <1>3, <1>8 DEF InstallByReply
<1>9. CASE InstallReported
  BY <1>1, <1>3, <1>4, <1>9 DEF InstallReported
<1>10. \/ UNCHANGED surface \/ SkillsInstall \/ SkillsRescan
       \/ InstallByReply \/ InstallReported
  <2>1. ASSUME NEW word \in Words, Enter(word)
        PROVE  UNCHANGED surface \/ SkillsInstall \/ SkillsRescan
    <3>1. Handler(Found(word))
      BY <2>1 DEF Enter
    <3>2. QED  BY <3>1, HandlerSteps
  <2>2. QED  BY <2>1 DEF SurfaceNext, Elsewhere, surfaceVars
<1>11. QED  BY <1>5, <1>6, <1>7, <1>8, <1>9, <1>10

-----------------------------------------------------------------------------
(***************************************************************************)
(* Theorems                                                                *)
(***************************************************************************)
\* ChatApp behind its input box keeps the invariant, whatever is typed and
\* whatever the scans find.
THEOREM SurfaceInductive == SurfaceSpec => []SurfaceIInv
<1>1. (\E names \in SUBSET SkillNames : Startable(names) /\ SurfaceInit(names)) => SurfaceIInv
  BY SurfaceStarts
<1>2. SurfaceIInv /\ [SurfaceNext]_surfaceVars => SurfaceIInv'
  BY SurfaceKept
<1>3. QED  BY <1>1, <1>2, PTL DEF SurfaceSpec

\* Every variable has its type, no archive is written under an id that was not
\* drawn, and a name in the registry leads to a command shown under its own.
THEOREM SurfaceTypeCorrect == SurfaceSpec => []SurfaceTypeOK
<1>1. SurfaceIInv => SurfaceTypeOK
  <2>1. SUFFICES ASSUME SurfaceIInv PROVE SurfaceTypeOK
    OBVIOUS
  <2>2. TypeOK /\ TableWhole(lookup)
    BY <2>1 DEF SurfaceIInv, ShownIsThere, ChatIInv
  <2>3. ASSUME NEW d \in DOMAIN lookup
        PROVE  lookup[d] \in DOMAIN lookup /\ lookup[lookup[d]] = lookup[d]
    <3>1. CASE d \in Builtins
      <4>1. lookup[d] \in BuiltinNames
        BY <2>2, <3>1, BuiltinsAre DEF TableWhole
      <4>2. lookup[d] \in Builtins /\ OwnerOf(lookup[d]) = lookup[d]
        BY <4>1, BuiltinsAre
      <4>3. QED  BY <2>2, <4>2 DEF TableWhole
    <3>2. CASE d \notin Builtins
      BY <2>2, <3>2 DEF TableWhole
    <3>3. QED  BY <3>1, <3>2
  <2>4. QED  BY <2>1, <2>2, <2>3 DEF SurfaceIInv, ShownIsThere, SurfaceTypeOK, TableWhole
<1>2. QED  BY SurfaceInductive, <1>1, PTL

\* While a reply is generated, what it was asked about stays in place.
THEOREM ReplyKeepsItsConversation == SurfaceSpec => []ReplyOwnsConversation
<1>1. SurfaceIInv => ReplyOwnsConversation
  BY DEF SurfaceIInv, ChatIInv
<1>2. QED  BY SurfaceInductive, <1>1, PTL

\* Memory and archive agree, unless a worker wrote back over a conversation
\* that had changed.
THEOREM ArchiveFollowsMemory == SurfaceSpec => []MemoryIsArchive
<1>1. SurfaceIInv => MemoryIsArchive
  BY DEF SurfaceIInv, ChatIInv
<1>2. QED  BY SurfaceInductive, <1>1, PTL

\* The notes grow, or the user clears them.
THEOREM NotesOnlyGrow == SurfaceSpec => NotesGrow
<1>1. SurfaceIInv /\ [SurfaceNext]_surfaceVars => [notes \subseteq notes' \/ notes' = {}]_notes
  BY SurfaceIsChat, NotesStep DEF SurfaceIInv, ChatIInv
<1>2. QED  BY SurfaceInductive, <1>1, PTL DEF SurfaceSpec, NotesGrow

\* Registry, Skills and their list for the model agree.
THEOREM SurfaceShowsWhatIsThere == SurfaceSpec => []SurfaceAgrees
<1>1. SurfaceIInv => SurfaceAgrees
  BY DEF SurfaceIInv, ShownIsThere, SurfaceAgrees, TableWhole
<1>2. QED  BY SurfaceInductive, <1>1, PTL

-----------------------------------------------------------------------------
(***************************************************************************)
(* Tool sets and records                                                   *)
(***************************************************************************)
\* Whatever its role or its parent allows, a worker cannot start another.
LEMMA NoNesting ==
  ASSUME NEW allow \in Allowances, NEW mode
  PROVE  WorkerTools(mode, allow) \in SUBSET (Registry \ {SpawnWorker})
BY WorkerAssumption DEF WorkerTools, FilterToolNames, GlobalDeny, Registry

\* A table keeps its type when one field of one record is set.
LEMMA FutureMoves ==
  ASSUME NEW t \in Tasks, futures \in [Tasks -> FutureRecord],
         NEW p \in {"created", "following", "done"}
  PROVE  [futures EXCEPT ![t].phase = p] \in [Tasks -> FutureRecord]
BY DEF FutureRecord

LEMMA StatusMoves ==
  ASSUME NEW t \in Tasks, tasks \in [Tasks -> TaskRecord], NEW s \in Finished
  PROVE  [tasks EXCEPT ![t].status = s] \in [Tasks -> TaskRecord]
BY DEF TaskRecord, Finished

LEMMA BackgroundMoves ==
  ASSUME NEW t \in Tasks, tasks \in [Tasks -> TaskRecord], NEW b \in BOOLEAN
  PROVE  [tasks EXCEPT ![t].background = b] \in [Tasks -> TaskRecord]
BY DEF TaskRecord

-----------------------------------------------------------------------------
(***************************************************************************)
(* The inductive invariant                                                 *)
(***************************************************************************)
LEMMA TasksIInvInit == TasksInit => TasksIInv
<1> SUFFICES ASSUME TasksInit PROVE TasksIInv
  OBVIOUS
<1>1. TasksTypeOK
  BY WorkerAssumption DEF TasksInit, TasksTypeOK, PartsAgree, NoTask, NoAgent, TaskRecord,
     FutureRecord, AgentRecord, ChannelRecord, CallStates
<1>2. NoWorkerSpawns /\ StatusFollows /\ NothingBeforeStart /\ ToldOnce /\ CancelledIsKilled /\ AnswerIsFinal
  BY DEF TasksInit, NoWorkerSpawns, StatusFollows, NothingBeforeStart, ToldOnce, CancelledIsKilled,
     AnswerIsFinal, NoTask, NoAgent, Finished
<1>3. QED  BY <1>1, <1>2 DEF TasksIInv

\* A task is started once, under an id nothing is known of.
LEMMA IInvStart ==
  ASSUME TasksIInv, NEW t \in Tasks, NEW mode \in {"definition", "fork"},
         NEW background \in BOOLEAN, NEW allow \in Allowances,
         Start(t, mode, background, allow)
  PROVE  TasksIInv'
<1> USE DEF TasksIInv
<1>1. WorkerTools(mode, allow) \in SUBSET (Registry \ {SpawnWorker})
  BY NoNesting
<1>2. agents[t].used = {} /\ agents[t].phase = "none" /\ calls[t] = "none" /\ futures[t].phase = "none"
  BY DEF Start, StatusFollows, NothingBeforeStart, TasksTypeOK, PartsAgree, AgentRecord
<1>3. TasksTypeOK'
  <2>1. tasks' \in [Tasks -> TaskRecord]
    BY DEF Start, TasksTypeOK, TaskRecord
  <2>2. futures' \in [Tasks -> FutureRecord]
    BY FutureMoves DEF Start, TasksTypeOK
  <2>3. agents' \in [Tasks -> AgentRecord]
    BY <1>1 DEF Start, TasksTypeOK, AgentRecord
  <2>4. calls' \in [Tasks -> CallStates]
    BY DEF Start, TasksTypeOK, CallStates
  <2>5. PartsAgree'
    BY <1>1, <1>2 DEF Start, TasksTypeOK, PartsAgree, TaskRecord, FutureRecord, AgentRecord
  <2>6. QED  BY <2>1, <2>2, <2>3, <2>4, <2>5 DEF Start, TasksTypeOK
<1>4. StatusFollows'
  BY DEF Start, TasksTypeOK, StatusFollows, Finished, TaskRecord, FutureRecord
<1>5. NothingBeforeStart'
  BY <1>2 DEF Start, TasksTypeOK, NothingBeforeStart, TaskRecord, AgentRecord
<1>6. ToldOnce' /\ CancelledIsKilled'
  BY DEF Start, TasksTypeOK, ToldOnce, CancelledIsKilled, TaskRecord
<1>7. AnswerIsFinal'
  BY <1>2 DEF Start, TasksTypeOK, AnswerIsFinal, TaskRecord
<1>8. NoWorkerSpawns'
  BY <1>1 DEF Start, TasksTypeOK, NoWorkerSpawns, AgentRecord
<1>9. QED  BY <1>3, <1>4, <1>5, <1>6, <1>7, <1>8

\* The end of _run: a task that was not over gets its one final status, and its
\* one announcement unless it was killed.
LEMMA IInvFinish ==
  ASSUME TasksIInv, NEW t \in Tasks, NEW status \in Finished,
         futures[t].phase \in {"created", "following"},
         futures[t].cancelled <=> status = "cancelled",
         Finish(t, status), UNCHANGED <<agents, calls, killed>>,
         channels' \in [Tasks -> ChannelRecord]
  PROVE  TasksIInv'
<1> USE DEF TasksIInv
<1>1. tasks[t].status = IF status = "cancelled" THEN "cancelled" ELSE "running"
  BY DEF StatusFollows, Finished
<1>2. notices[t] = 0
  BY <1>1 DEF ToldOnce
<1>3. TasksTypeOK'
  <2>1. tasks' \in [Tasks -> TaskRecord] /\ futures' \in [Tasks -> FutureRecord]
    BY StatusMoves, FutureMoves DEF Finish, TasksTypeOK
  <2>2. notices' \in [Tasks -> 0..1]
    BY <1>2 DEF Finish, TasksTypeOK
  <2>3. PartsAgree'
    BY DEF Finish, TasksTypeOK, PartsAgree, TaskRecord, FutureRecord, Finished
  <2>4. QED  BY <2>1, <2>2, <2>3 DEF TasksTypeOK
<1>4. StatusFollows'
  BY <1>1 DEF Finish, TasksTypeOK, StatusFollows, TaskRecord, FutureRecord, Finished
<1>5. NothingBeforeStart'
  BY <1>1 DEF Finish, TasksTypeOK, NothingBeforeStart, TaskRecord, Finished
<1>6. ToldOnce'
  BY <1>1, <1>2 DEF Finish, TasksTypeOK, ToldOnce, TaskRecord, Finished
<1>7. CancelledIsKilled' /\ AnswerIsFinal'
  BY <1>1 DEF Finish, TasksTypeOK, CancelledIsKilled, AnswerIsFinal, TaskRecord, Finished
<1>8. QED  BY <1>3, <1>4, <1>5, <1>6, <1>7 DEF NoWorkerSpawns

\* _run ends as cancelled exactly if its future was cancelled.
LEMMA FinishWith ==
  ASSUME TasksIInv, NEW t \in Tasks, RunFailsEarly(t) \/ FollowerEnds(t) \/ CancelArrives(t)
  PROVE  \E status \in Finished :
           /\ Finish(t, status)
           /\ futures[t].cancelled <=> status = "cancelled"
<1>1. futures[t].cancelled \in BOOLEAN
  BY DEF TasksIInv, TasksTypeOK, FutureRecord
<1>2. CASE RunFailsEarly(t)
  BY <1>2 DEF RunFailsEarly, Finished
<1>3. CASE FollowerEnds(t)
  BY <1>3 DEF FollowerEnds, Following, Finished
<1>4. CASE CancelArrives(t)
  BY <1>4 DEF CancelArrives, Finished
<1>5. QED  BY <1>2, <1>3, <1>4

\* Steps that concern the agent and its channel only.
LEMMA IInvAgent ==
  ASSUME TasksIInv, UNCHANGED <<tasks, calls, notices, killed>>, NEW t \in Tasks,
         RunBegins(t) \/ AgentUses(t) \/ AgentEnds(t) \/ FollowerReads(t)
  PROVE  TasksIInv'
<1> USE DEF TasksIInv
<1>1. TasksTypeOK' /\ StatusFollows' /\ NothingBeforeStart'
  <2>1. CASE RunBegins(t)
    <3>1. futures' \in [Tasks -> FutureRecord]
      BY <2>1, FutureMoves DEF RunBegins, TasksTypeOK
    <3>2. agents' \in [Tasks -> AgentRecord]
      BY <2>1 DEF RunBegins, TasksTypeOK, AgentRecord
    <3>3. PartsAgree'
      BY <2>1 DEF RunBegins, TasksTypeOK, PartsAgree, FutureRecord, AgentRecord
    <3>4. TasksTypeOK'
      BY <2>1, <3>1, <3>2, <3>3 DEF RunBegins, TasksTypeOK
    <3>5. StatusFollows' /\ NothingBeforeStart'
      BY <2>1 DEF RunBegins, TasksTypeOK, StatusFollows, NothingBeforeStart, FutureRecord, AgentRecord
    <3>6. QED  BY <3>4, <3>5
  <2>2. CASE AgentUses(t)
    <3>1. PICK tool \in agents[t].tools : agents' = [agents EXCEPT ![t].used = @ \cup {tool}]
      BY <2>2 DEF AgentUses
    <3>2. agents[t] \in AgentRecord /\ channels[t] \in ChannelRecord
      BY DEF TasksTypeOK
    <3>3. agents[t].used \cup {tool} \in SUBSET Registry
      BY <3>1, <3>2 DEF AgentRecord
    <3>4. agents' \in [Tasks -> AgentRecord]
      BY <3>1, <3>3 DEF TasksTypeOK, AgentRecord
    <3>5. channels' \in [Tasks -> ChannelRecord]
      BY <2>2, <3>2, WorkerAssumption DEF AgentUses, HasRoom, TasksTypeOK, ChannelRecord
    <3>6. PartsAgree'
      <4>1. SpawnWorker \notin agents[t].tools
        BY DEF NoWorkerSpawns
      <4>2. QED  BY <2>2, <3>1, <4>1 DEF AgentUses, TasksTypeOK, PartsAgree, AgentRecord
    <3>7. StatusFollows' /\ NothingBeforeStart'
      BY <2>2, <3>1 DEF AgentUses, TasksTypeOK, StatusFollows, NothingBeforeStart, AgentRecord
    <3>8. QED  BY <2>2, <3>4, <3>5, <3>6, <3>7 DEF AgentUses, TasksTypeOK
  <2>3. CASE AgentEnds(t)
    <3>1. agents' \in [Tasks -> AgentRecord]
      BY <2>3 DEF AgentEnds, TasksTypeOK, AgentRecord
    <3>2. channels[t] \in ChannelRecord
      BY DEF TasksTypeOK
    <3>3. channels' \in [Tasks -> ChannelRecord]
      <4>1. channels[t].queued + 1 \in 0..Capacity
        BY <2>3, <3>2, WorkerAssumption DEF AgentEnds, HasRoom, ChannelRecord
      <4>2. QED  BY <2>3, <4>1 DEF AgentEnds, TasksTypeOK, ChannelRecord
    <3>4. PartsAgree' /\ StatusFollows' /\ NothingBeforeStart'
      BY <2>3 DEF AgentEnds, TasksTypeOK, PartsAgree, StatusFollows, NothingBeforeStart, AgentRecord
    <3>5. QED  BY <2>3, <3>1, <3>3, <3>4 DEF AgentEnds, TasksTypeOK
  <2>4. CASE FollowerReads(t)
    <3>1. channels' \in [Tasks -> ChannelRecord]
      BY <2>4, WorkerAssumption DEF FollowerReads, Drain, TasksTypeOK, ChannelRecord
    <3>2. QED
      BY <2>4, <3>1 DEF FollowerReads, TasksTypeOK, PartsAgree, StatusFollows, NothingBeforeStart
  <2>5. QED  BY <2>1, <2>2, <2>3, <2>4
<1>2. ToldOnce' /\ CancelledIsKilled' /\ AnswerIsFinal'
  BY DEF ToldOnce, CancelledIsKilled, AnswerIsFinal
<1>3. NoWorkerSpawns'
  <2>1. \A u \in Tasks : agents'[u].tools = agents[u].tools
    <3>1. agents \in [Tasks -> AgentRecord]
      BY DEF TasksTypeOK
    <3>2. CASE RunBegins(t)
      BY <3>1, <3>2 DEF RunBegins, AgentRecord
    <3>3. CASE AgentUses(t)
      BY <3>1, <3>3 DEF AgentUses, AgentRecord
    <3>4. CASE AgentEnds(t)
      BY <3>1, <3>4 DEF AgentEnds, AgentRecord
    <3>5. QED  BY <3>2, <3>3, <3>4 DEF FollowerReads
  <2>2. QED  BY <2>1 DEF NoWorkerSpawns
<1>4. QED  BY <1>1, <1>2, <1>3

\* A kill changes a running task only, and then marks its future.
LEMMA IInvKill ==
  ASSUME TasksIInv, NEW t \in Tasks, Kill(t)
  PROVE  TasksIInv'
<1> USE DEF TasksIInv
<1>1. tasks[t] \in TaskRecord /\ futures[t] \in FutureRecord
  BY DEF TasksTypeOK
<1>2. tasks' \in [Tasks -> TaskRecord]
  <2>1. [tasks[t] EXCEPT !.status = "cancelled"] \in TaskRecord
    BY <1>1 DEF TaskRecord, Finished
  <2>2. QED  BY <1>1, <2>1 DEF Kill, TasksTypeOK, TaskRecord, Finished
<1>3. futures' \in [Tasks -> FutureRecord]
  BY <1>1 DEF Kill, TasksTypeOK, FutureRecord
<1>4. PartsAgree'
  BY DEF Kill, TasksTypeOK, PartsAgree, TaskRecord, FutureRecord
<1>5. TasksTypeOK'
  BY <1>2, <1>3, <1>4 DEF Kill, TasksTypeOK
<1>6. StatusFollows'
  <2>1. /\ \A u \in Tasks : u # t => tasks'[u] = tasks[u] /\ futures'[u] = futures[u]
        /\ futures'[t].phase = futures[t].phase
        /\ futures'[t].cancelled = (futures[t].cancelled \/ futures[t].phase # "done")
    BY DEF Kill, TasksTypeOK, FutureRecord
  <2>2. CASE tasks[t].status = "running"
    <3>1. tasks'[t].status = "cancelled" /\ futures[t].phase \in {"created", "following"}
      BY <2>2 DEF Kill, TasksTypeOK, TaskRecord, PartsAgree
    <3>2. QED  BY <2>1, <2>2, <3>1 DEF StatusFollows
  <2>3. CASE tasks[t].status # "running"
    <3>1. tasks'[t].status = tasks[t].status /\ tasks[t].status # "none"
      BY <2>3 DEF Kill, TasksTypeOK, TaskRecord
    <3>2. futures[t].phase # "done" => tasks[t].status = "cancelled"
      BY <1>1, <2>3, <3>1 DEF StatusFollows, FutureRecord
    <3>3. futures'[t].cancelled <=> tasks'[t].status = "cancelled"
      BY <2>1, <3>1, <3>2 DEF StatusFollows
    <3>4. QED  BY <2>1, <2>3, <3>1, <3>3 DEF StatusFollows
  <2>4. QED  BY <2>2, <2>3
<1>7. NothingBeforeStart' /\ ToldOnce'
  BY DEF Kill, TasksTypeOK, NothingBeforeStart, ToldOnce, TaskRecord
<1>8. CancelledIsKilled' /\ AnswerIsFinal'
  BY DEF Kill, TasksTypeOK, CancelledIsKilled, AnswerIsFinal, TaskRecord
<1>9. QED  BY <1>5, <1>6, <1>7, <1>8 DEF Kill, NoWorkerSpawns

\* A call that waits is let go in one of three ways.
LEMMA IInvCall ==
  ASSUME TasksIInv, NEW t \in Tasks,
         CallReturns(t) \/ CallTimesOut(t) \/ CallerCancelled(t)
  PROVE  TasksIInv'
<1> USE DEF TasksIInv
<1>1. PICK b \in BOOLEAN, end \in {"answered", "timeout", "cancelled"} :
        /\ tasks' = [tasks EXCEPT ![t].background = b]
        /\ calls' = [calls EXCEPT ![t] = end]
        /\ tasks[t].background => b
        /\ end # "answered" => b
        /\ end = "answered" => futures[t].phase = "done" /\ ~futures[t].cancelled
  <2>1. tasks[t].background \in BOOLEAN /\ futures[t].cancelled \in BOOLEAN
    BY DEF TasksTypeOK, TaskRecord, FutureRecord
  <2>2. CASE CallReturns(t)
    BY <2>1, <2>2 DEF CallReturns
  <2>3. CASE CallTimesOut(t) \/ CallerCancelled(t)
    BY <2>3 DEF CallTimesOut, CallerCancelled
  <2>4. QED  BY <2>2, <2>3
<1>2. UNCHANGED <<futures, agents, channels, notices, killed>> /\ calls[t] = "waiting"
  BY DEF CallReturns, CallTimesOut, CallerCancelled
<1>3. /\ tasks' \in [Tasks -> TaskRecord]
      /\ \A u \in Tasks : tasks'[u].status = tasks[u].status
      /\ \A u \in Tasks : u # t => tasks'[u] = tasks[u]
      /\ tasks'[t].background = b
  BY <1>1, BackgroundMoves DEF TasksTypeOK, TaskRecord
<1>4. TasksTypeOK'
  BY <1>1, <1>2, <1>3 DEF TasksTypeOK, PartsAgree, CallStates
<1>5. StatusFollows' /\ ToldOnce' /\ CancelledIsKilled'
  BY <1>2, <1>3 DEF StatusFollows, ToldOnce, CancelledIsKilled
<1>6. tasks[t].status # "none"
  BY <1>2 DEF NothingBeforeStart
<1>7. NothingBeforeStart'
  BY <1>1, <1>2, <1>3, <1>6 DEF NothingBeforeStart, TasksTypeOK
<1>8. AnswerIsFinal'
  BY <1>1, <1>2, <1>3 DEF AnswerIsFinal, StatusFollows, Finished, TasksTypeOK
<1>9. QED  BY <1>2, <1>4, <1>5, <1>7, <1>8 DEF NoWorkerSpawns

-----------------------------------------------------------------------------
\* Every action keeps the invariant.
LEMMA TasksIInvNext == TasksIInv /\ [TasksNext]_taskVars => TasksIInv'
<1> SUFFICES ASSUME TasksIInv, [TasksNext]_taskVars PROVE TasksIInv'
  OBVIOUS
<1>1. CASE UNCHANGED taskVars
  BY <1>1 DEF taskVars, TasksIInv, TasksTypeOK, PartsAgree, NoWorkerSpawns, StatusFollows,
     NothingBeforeStart, ToldOnce, CancelledIsKilled, AnswerIsFinal
<1>2. ASSUME NEW t \in Tasks, RunFailsEarly(t) \/ FollowerEnds(t) \/ CancelArrives(t)
      PROVE  TasksIInv'
  <2>1. channels' \in [Tasks -> ChannelRecord]
    BY <1>2, WorkerAssumption
       DEF RunFailsEarly, FollowerEnds, CancelArrives, Drain, TasksIInv, TasksTypeOK, ChannelRecord
  <2>2. PICK status \in Finished :
          /\ Finish(t, status)
          /\ futures[t].cancelled <=> status = "cancelled"
    BY <1>2, FinishWith
  <2>3. futures[t].phase \in {"created", "following"} /\ UNCHANGED <<agents, calls, killed>>
    BY <1>2 DEF RunFailsEarly, FollowerEnds, CancelArrives, Following
  <2>4. QED  BY <2>1, <2>2, <2>3, IInvFinish
<1>3. ASSUME NEW t \in Tasks, RunBegins(t) \/ FollowerReads(t) \/ AgentSteps(t)
      PROVE  TasksIInv'
  <2>1. UNCHANGED <<tasks, calls, notices, killed>>
    BY <1>3 DEF RunBegins, FollowerReads, AgentSteps, AgentUses, AgentEnds
  <2>2. QED  BY <1>3, <2>1, IInvAgent DEF AgentSteps
<1>4. QED
  BY <1>1, <1>2, <1>3, IInvStart, IInvKill, IInvCall DEF TasksNext, LoopSteps

-----------------------------------------------------------------------------
(***************************************************************************)
(* WorkerTasks implements TaskLifecycle                                    *)
(***************************************************************************)
LEMMA LifecycleInit == TasksInit => Lifecycle!Init
BY DEF TasksInit, Lifecycle!Init, NoTask

\* Setting the status of one task sets it in the tasks as others see them.
LEMMA StatusSeen ==
  ASSUME NEW t \in Tasks, tasks \in [Tasks -> TaskRecord], NEW s,
         tasks' = [tasks EXCEPT ![t].status = s]
  PROVE  [u \in Tasks |-> tasks'[u].status] =
           [[u \in Tasks |-> tasks[u].status] EXCEPT ![t] = s]
BY DEF TaskRecord

\* A step that leaves every status alone is not seen in them.
LEMMA StatusUnseen ==
  ASSUME \A u \in Tasks : tasks'[u].status = tasks[u].status
  PROVE  [u \in Tasks |-> tasks'[u].status] = [u \in Tasks |-> tasks[u].status]
OBVIOUS

\* Starting a task is starting it, whatever it is to be answered with.
LEMMA LifecycleStart ==
  ASSUME TasksIInv, NEW t \in Tasks, NEW mode \in {"definition", "fork"},
         NEW background \in BOOLEAN, NEW allow \in Allowances,
         Start(t, mode, background, allow)
  PROVE  Lifecycle!Starts(t)
<1>1. [u \in Tasks |-> tasks'[u].status] =
        [[u \in Tasks |-> tasks[u].status] EXCEPT ![t] = "running"]
  BY DEF Start, TasksIInv, TasksTypeOK, TaskRecord
<1>2. calls' \in {[calls EXCEPT ![t] = r] : r \in {"waiting", "named"}}
  BY DEF Start
<1>3. QED  BY <1>1, <1>2 DEF Start, Lifecycle!Starts

\* The end of _run ends a task that nobody killed; after a kill it is not seen.
LEMMA LifecycleFinish ==
  ASSUME TasksIInv, NEW t \in Tasks, NEW status \in Finished,
         futures[t].phase \in {"created", "following"},
         futures[t].cancelled <=> status = "cancelled",
         Finish(t, status), UNCHANGED calls
  PROVE  [Lifecycle!Next]_Lifecycle!vars
<1>1. tasks \in [Tasks -> TaskRecord] /\ notices \in [Tasks -> 0..1]
  BY DEF TasksIInv, TasksTypeOK
<1>2. [u \in Tasks |-> tasks'[u].status] =
        [[u \in Tasks |-> tasks[u].status] EXCEPT ![t] = status]
  BY <1>1, StatusSeen DEF Finish
<1>3. CASE status = "cancelled"
  <2>1. tasks[t].status = "cancelled"
    BY <1>3 DEF TasksIInv, StatusFollows
  <2>2. [u \in Tasks |-> tasks'[u].status] = [u \in Tasks |-> tasks[u].status]
    BY <1>2, <1>3, <2>1
  <2>3. notices' = notices
    BY <1>1, <1>3 DEF Finish
  <2>4. QED  BY <2>2, <2>3 DEF Lifecycle!vars
<1>4. CASE status # "cancelled"
  <2>1. tasks[t].status = "running"
    BY <1>4 DEF TasksIInv, StatusFollows
  <2>2. notices' = [notices EXCEPT ![t] = @ + 1]
    BY <1>4 DEF Finish
  <2>3. status \in {"succeeded", "failed"}
    BY <1>4 DEF Finished
  <2>4. Lifecycle!EndsByItself(t)
    BY <1>2, <2>1, <2>2, <2>3 DEF Lifecycle!EndsByItself
  <2>5. QED  BY <2>4 DEF Lifecycle!Next
<1>5. QED  BY <1>3, <1>4

\* A kill that finds the task running kills it; any other is not seen.
LEMMA LifecycleKill ==
  ASSUME TasksIInv, NEW t \in Tasks, Kill(t)
  PROVE  [Lifecycle!Next]_Lifecycle!vars
<1>1. tasks \in [Tasks -> TaskRecord]
  BY DEF TasksIInv, TasksTypeOK
<1>2. CASE tasks[t].status = "running"
  <2>1. tasks' = [tasks EXCEPT ![t].status = "cancelled"]
    BY <1>2 DEF Kill
  <2>2. Lifecycle!Killed(t)
    BY <1>1, <1>2, <2>1, StatusSeen DEF Kill, Lifecycle!Killed
  <2>3. QED  BY <2>2 DEF Lifecycle!Next
<1>3. CASE tasks[t].status # "running"
  <2>1. \A u \in Tasks : tasks'[u].status = tasks[u].status
    BY <1>1, <1>3 DEF Kill, TaskRecord
  <2>2. QED  BY <2>1, StatusUnseen DEF Kill, Lifecycle!vars
<1>4. QED  BY <1>2, <1>3

\* A call that waits is answered by a task that is over, cancelled with one
\* that was killed, or gives up.
LEMMA LifecycleCall ==
  ASSUME TasksIInv, NEW t \in Tasks,
         CallReturns(t) \/ CallTimesOut(t) \/ CallerCancelled(t)
  PROVE  Lifecycle!Next
<1>1. \A u \in Tasks : tasks'[u].status = tasks[u].status
  BY DEF CallReturns, CallTimesOut, CallerCancelled, TasksIInv, TasksTypeOK, TaskRecord
<1>2. [u \in Tasks |-> tasks'[u].status] = [u \in Tasks |-> tasks[u].status]
  BY <1>1, StatusUnseen
<1>3. CASE CallReturns(t)
  <2>1. tasks[t].status \in Finished
    BY <1>3 DEF CallReturns, TasksIInv, StatusFollows
  <2>2. futures[t].cancelled <=> tasks[t].status = "cancelled"
    BY DEF TasksIInv, StatusFollows
  <2>3. Lifecycle!Answered(t)
    BY <1>2, <1>3, <2>1, <2>2 DEF CallReturns, Finished, Lifecycle!Answered
  <2>4. QED  BY <2>3 DEF Lifecycle!Next
<1>4. CASE CallTimesOut(t) \/ CallerCancelled(t)
  <2>1. Lifecycle!GivesUp(t)
    BY <1>2, <1>4 DEF CallTimesOut, CallerCancelled, Lifecycle!GivesUp
  <2>2. QED  BY <2>1 DEF Lifecycle!Next
<1>5. QED  BY <1>3, <1>4

LEMMA LifecycleNext == TasksIInv /\ [TasksNext]_taskVars => [Lifecycle!Next]_Lifecycle!vars
<1> SUFFICES ASSUME TasksIInv, [TasksNext]_taskVars PROVE [Lifecycle!Next]_Lifecycle!vars
  OBVIOUS
<1>1. CASE UNCHANGED taskVars
  BY <1>1 DEF taskVars, Lifecycle!vars
<1>2. ASSUME NEW t \in Tasks, RunFailsEarly(t) \/ FollowerEnds(t) \/ CancelArrives(t)
      PROVE  [Lifecycle!Next]_Lifecycle!vars
  <2>1. PICK status \in Finished :
          /\ Finish(t, status)
          /\ futures[t].cancelled <=> status = "cancelled"
    BY <1>2, FinishWith
  <2>2. futures[t].phase \in {"created", "following"} /\ UNCHANGED calls
    BY <1>2 DEF RunFailsEarly, FollowerEnds, CancelArrives, Following
  <2>3. QED  BY <2>1, <2>2, LifecycleFinish
<1>3. ASSUME NEW t \in Tasks, RunBegins(t) \/ FollowerReads(t) \/ AgentSteps(t)
      PROVE  [Lifecycle!Next]_Lifecycle!vars
  BY <1>3 DEF RunBegins, FollowerReads, AgentSteps, AgentUses, AgentEnds, Lifecycle!vars
<1>4. ASSUME NEW t \in Tasks, NEW mode \in {"definition", "fork"},
             NEW background \in BOOLEAN, NEW allow \in Allowances,
             Start(t, mode, background, allow)
      PROVE  [Lifecycle!Next]_Lifecycle!vars
  BY <1>4, LifecycleStart DEF Lifecycle!Next
<1>5. QED
  BY <1>1, <1>2, <1>3, <1>4, LifecycleKill, LifecycleCall DEF TasksNext, LoopSteps

-----------------------------------------------------------------------------
(***************************************************************************)
(* Theorems                                                                *)
(***************************************************************************)
\* The strengthening holds in every reachable state.
THEOREM TasksInductive == TasksSpec => []TasksIInv
<1>1. QED  BY TasksIInvInit, TasksIInvNext, PTL DEF TasksSpec

\* Every table keeps its type, whatever runs, is killed or times out.
THEOREM TasksTypeCorrect == TasksSpec => []TasksTypeOK
<1>1. TasksIInv => TasksTypeOK
  BY DEF TasksIInv
<1>2. QED  BY <1>1, TasksInductive, PTL

\* TaskManager announces a task that came to its own end once, and no other.
THEOREM ToldExactlyOnce == TasksSpec => []ToldOnce
<1>1. TasksIInv => ToldOnce
  BY DEF TasksIInv
<1>2. QED  BY <1>1, TasksInductive, PTL

\* A task ends as cancelled exactly if TaskManager.kill found it running.
THEOREM KilledAndNothingElse == TasksSpec => []CancelledIsKilled
<1>1. TasksIInv => CancelledIsKilled
  BY DEF TasksIInv
<1>2. QED  BY <1>1, TasksInductive, PTL

\* A SpawnWorker call answers with the result of a task that is over, or
\* leaves the task in the background.
THEOREM AnswersAreFinal == TasksSpec => []AnswerIsFinal
<1>1. TasksIInv => AnswerIsFinal
  BY DEF TasksIInv
<1>2. QED  BY <1>1, TasksInductive, PTL

\* Whatever order results, kills, timeouts and cancelled callers come in,
\* TaskManager.start, kill and _run do with a task what TaskLifecycle allows:
\* one end, announced if it is the task's own, and no wait that moves it.
THEOREM ImplementsLifecycle == TasksSpec => IsLifecycle
<1>1. QED
  BY TasksInductive, LifecycleInit, LifecycleNext, PTL DEF TasksSpec, IsLifecycle, Lifecycle!Spec
=============================================================================
