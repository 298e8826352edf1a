------------------------ MODULE SessionArchiveProofs ------------------------
(***************************************************************************)
(* Proofs about SessionArchive, for any number of turns, calls and faults  *)
(* and any limits of the recovery.                                         *)
(***************************************************************************)
EXTENDS SessionArchive, ListProofs

(***************************************************************************)
(* Reading back, truncating and shrinking                                  *)
(***************************************************************************)
Precedes(a, b) == a[1] < b[1] \/ (a[1] = b[1] /\ a[2] < b[2])

\* What read_raw_lines returns is the good lines, each once and in order.
LEMMA ParsedIs ==
  ASSUME lines \in Seq(Seq(Fragments))
  PROVE  /\ Parsed \in Seq(Keys)
         /\ Good \in SUBSET (1..Len(lines)) /\ Len(lines) \in Nat
         /\ Len(Parsed) = Cardinality(Good)
         /\ \A i \in 1..Len(Parsed) : \E l \in Good : Parsed[i] = lines[l][1].key
         /\ \A l \in Good : \E i \in 1..Len(Parsed) : Parsed[i] = lines[l][1].key
         /\ \A i, j \in 1..Len(Parsed) : i < j =>
              \E l, m \in Good : l < m /\ Parsed[i] = lines[l][1].key /\ Parsed[j] = lines[m][1].key
<1>1. Len(lines) \in Nat /\ Good \in SUBSET (1..Len(lines))
  BY DEF Good
<1>2. ASSUME NEW l \in Good  PROVE lines[l][1].key \in Keys
  <2>1. lines[l] \in Seq(Fragments) /\ Len(lines[l]) = 1
    BY <1>2 DEF Good, Parses
  <2>2. lines[l][1] \in Fragments
    BY <2>1
  <2>3. QED  BY <2>2 DEF Fragments
<1> DEFINE N == Cardinality(Good)
<1>3. N \in Nat
  BY <1>1, Finite
<1>4. \A r \in 1..N : Nth(Good, r) \in Good
  BY <1>1, NthIs
<1>5. Parsed = [n \in 1..N |-> lines[Nth(Good, n)][1].key]
  BY DEF Parsed
<1>6. \A q, r \in 1..N : q < r => Nth(Good, q) < Nth(Good, r)
  BY <1>1, NthInOrder
<1>7. \A l \in Good : \E r \in 1..N : Nth(Good, r) = l
  BY <1>1, NthMeetsAll
<1> HIDE DEF N
<1>8. \A r \in 1..N : Parsed[r] = lines[Nth(Good, r)][1].key /\ Parsed[r] \in Keys
  BY <1>2, <1>4, <1>5
<1>9. Parsed \in Seq(Keys) /\ Len(Parsed) = N
  BY <1>3, <1>5, <1>8
<1>10. \A i \in 1..Len(Parsed) : \E l \in Good : Parsed[i] = lines[l][1].key
  BY <1>4, <1>8, <1>9
<1>11. \A l \in Good : \E i \in 1..Len(Parsed) : Parsed[i] = lines[l][1].key
  BY <1>7, <1>8, <1>9
<1>12. ASSUME NEW i \in 1..Len(Parsed), NEW j \in 1..Len(Parsed), i < j
       PROVE  \E l, m \in Good : l < m /\ Parsed[i] = lines[l][1].key /\ Parsed[j] = lines[m][1].key
  BY <1>4, <1>6, <1>8, <1>9, <1>12
<1> QED  BY <1>1, <1>9, <1>10, <1>11, <1>12 DEF N

LEMMA FromIs ==
  ASSUME NEW keys \in Seq(Keys), NEW u \in 1..Len(keys)
  PROVE  /\ From(keys, u) \in Seq(Keys) /\ Len(From(keys, u)) = Len(keys) - u + 1
         /\ \A n \in 1..Len(From(keys, u)) : From(keys, u)[n] = keys[u + n - 1]
BY DEF From

LEMMA Limits ==
  MaxAppends \in Nat /\ MaxFaults \in Nat /\ Trigger \in Nat /\ Target \in Nat
BY BoundsAssumption

LEMMA AddedKeys ==
  /\ Summary \in Keys /\ Boundary \in Keys
  /\ <<Boundary>> \in Seq(Keys) /\ <<Summary, Boundary>> \in Seq(Keys)
<1>1. Summary \in Keys /\ Boundary \in Keys
  BY Limits DEF Keys, Summary, Boundary
<1> QED  BY <1>1

\* _drop_oldest_turns leaves everything, or cuts before a user message.
LEMMA DropIs ==
  ASSUME NEW keys \in Seq(Keys)
  PROVE  \/ DropOldestTurns(keys) = keys
         \/ \E u \in Users(keys) : /\ Len(From(keys, u)) <= Target
                                   /\ DropOldestTurns(keys) = <<Boundary>> \o From(keys, u)
<1> DEFINE users == Users(keys)
           fits  == {u \in users : u > Min(users) /\ Len(From(keys, u)) <= Target}
<1>1. CASE fits = {}
  BY <1>1 DEF DropOldestTurns
<1>2. CASE fits # {}
  <2>1. DropOldestTurns(keys) = <<Boundary>> \o From(keys, Max(fits))
    BY <1>2 DEF DropOldestTurns
  <2>2. fits \in SUBSET (1..Len(keys)) /\ Len(keys) \in Nat
    BY DEF Users
  <2>3. fits \subseteq users /\ \A u \in fits : Len(From(keys, u)) <= Target
    OBVIOUS
  <2> HIDE DEF fits
  <2>4. Max(fits) \in fits
    BY <1>2, <2>2, MaxIn
  <2>5. QED  BY <2>1, <2>3, <2>4
<1> QED  BY <1>1, <1>2

\* A compression that succeeds cuts before a user message.
LEMMA CompressedIs ==
  ASSUME NEW keys \in Seq(Keys), Compressible(keys)
  PROVE  \E u \in Users(keys) :
           /\ Len(From(keys, u)) <= Target
           /\ Compressed(keys) = <<Summary, Boundary>> \o From(keys, u)
           /\ u # Min(Users(keys))
           /\ \A v \in Users(keys) \ {Min(Users(keys))} : Len(From(keys, v)) <= Target => u <= v
<1> DEFINE users == Users(keys)
           later == users \ {Min(users)}
           fits  == {u \in later : Len(From(keys, u)) <= Target}
<1>1. later \in SUBSET (1..Len(keys)) /\ fits \in SUBSET (1..Len(keys)) /\ Len(keys) \in Nat
  BY DEF Users
<1>2. later # {}
  <2>1. SUFFICES ASSUME later = {} PROVE FALSE
    OBVIOUS
  <2>2. users \in SUBSET {Min(users)}
    BY <2>1
  <2>3. IsFiniteSet({Min(users)}) /\ Cardinality({Min(users)}) = 1
    BY FS_Singleton
  <2>4. Cardinality(users) <= 1
    BY <2>2, <2>3, FS_Subset
  <2>5. Cardinality(users) >= 2
    BY DEF Compressible
  <2>6. Cardinality(users) \in Nat
    BY <2>2, <2>3, FS_Subset, FS_CardinalityType
  <2> HIDE DEF users
  <2>7. QED  BY <2>4, <2>5, <2>6
<1>3. CompressionCut(keys) = IF fits # {} THEN Min(fits) ELSE Max(later)
  BY DEF CompressionCut
<1>4. fits \subseteq users /\ later \subseteq users /\ users \in SUBSET (1..Len(keys))
  BY DEF Users
<1>5. /\ CompressionCut(keys) \in later /\ CompressionCut(keys) \in users
      /\ fits # {} => \A v \in fits : CompressionCut(keys) <= v
  <2>1. fits \subseteq later
    OBVIOUS
  <2> HIDE DEF users, later, fits
  <2>2. Max(later) \in later
    BY <1>1, <1>2, MaxIn
  <2>3. fits # {} => Min(fits) \in fits /\ \A v \in fits : Min(fits) <= v
    BY <1>1, MinIn
  <2>4. QED  BY <1>3, <1>4, <2>1, <2>2, <2>3
<1> DEFINE u == CompressionCut(keys)
<1>6. u \in 1..Len(keys)
  BY <1>4, <1>5
<1> HIDE DEF users, later, fits, u
<1>7. Compressed(keys) = <<Summary, Boundary>> \o From(keys, u)
  BY DEF Compressed, u
<1>8. Len(Compressed(keys)) <= Target
  BY DEF Compressible
<1>9. From(keys, u) \in Seq(Keys) /\ Len(From(keys, u)) \in Nat
  BY <1>6, FromIs
<1>10. Len(From(keys, u)) <= Target
  <2>1. Len(<<Summary, Boundary>> \o From(keys, u)) = 2 + Len(From(keys, u))
    BY <1>9, AddedKeys
  <2>2. 2 + Len(From(keys, u)) <= Target
    BY <1>7, <1>8, <2>1
  <2>3. QED  BY <1>9, <2>2, Limits
<1>11. u \in fits
  BY <1>5, <1>10 DEF fits, u
<1>12. \A v \in fits : u <= v
  BY <1>5, <1>11 DEF u
<1>13. u # Min(users) /\ \A v \in users \ {Min(users)} : Len(From(keys, v)) <= Target => u <= v
  BY <1>5, <1>12 DEF fits, later, u
<1> QED  BY <1>5, <1>7, <1>10, <1>13 DEF users, u

\* truncate_dangling leaves everything, or what is before the newest message
\* with an open call.
LEMMA TruncateIs ==
  ASSUME NEW keys \in Seq(Keys)
  PROVE  LET msgs == Contents(keys)
             open == {k \in 1..Len(keys) : /\ msgs[k].role = "assistant"
                                           /\ ~(msgs[k].calls \subseteq Answered(msgs))}
         IN  \/ /\ TruncateDangling(keys) = keys
                /\ open = {} \/ \E k \in Users(keys) : \A m \in open : k > m
             \/ \E m \in open : TruncateDangling(keys) = SubSeq(keys, 1, m - 1)
<1> DEFINE msgs == Contents(keys)
           open == {k \in 1..Len(keys) : /\ msgs[k].role = "assistant"
                                         /\ ~(msgs[k].calls \subseteq Answered(msgs))}
<1>1. DOMAIN msgs = 1..Len(keys)
  BY DEF Contents
<1>2. TruncateDangling(keys) = IF open = {} \/ (\E k \in Users(keys) : k > Max(open)) THEN keys
                               ELSE SubSeq(keys, 1, Max(open) - 1)
  BY <1>1 DEF TruncateDangling
<1>3. open \in SUBSET (1..Len(keys)) /\ Len(keys) \in Nat /\ Users(keys) \in SUBSET (1..Len(keys))
  BY DEF Users
<1> HIDE DEF open, msgs
<1>4. CASE open = {}
  BY <1>2, <1>4 DEF open, msgs
<1>5. CASE open # {}
  <2>1. Max(open) \in open /\ \A m \in open : m <= Max(open)
    BY <1>3, <1>5, MaxIn
  <2>2. ASSUME NEW k \in Users(keys), k > Max(open)
        PROVE  \A m \in open : k > m
    <3>1. k \in Int /\ \A m \in open : m \in Int
      BY <1>3
    <3>2. QED  BY <2>1, <2>2, <3>1
  <2>3. CASE \E k \in Users(keys) : k > Max(open)
    <3>1. TruncateDangling(keys) = keys /\ \E k \in Users(keys) : \A m \in open : k > m
      BY <1>2, <2>2, <2>3
    <3>2. QED  BY <3>1 DEF open, msgs
  <2>4. CASE ~ \E k \in Users(keys) : k > Max(open)
    <3>1. \E m \in open : TruncateDangling(keys) = SubSeq(keys, 1, m - 1)
      BY <1>2, <1>5, <2>1, <2>4
    <3>2. QED  BY <3>1 DEF open, msgs
  <2>5. QED  BY <2>3, <2>4
<1> QED  BY <1>4, <1>5

LEMMA RecoveredTyped ==
  ASSUME lines \in Seq(Seq(Fragments))
  PROVE  Recovered \in Seq(Keys)
<1>1. Parsed \in Seq(Keys)
  BY ParsedIs
<1>2. \A m \in 1..Len(Parsed) : SubSeq(Parsed, 1, m - 1) \in Seq(Keys)
  BY <1>1
<1>3. TruncateDangling(Parsed) = Parsed \/ \E m \in 1..Len(Parsed) : TruncateDangling(Parsed) = SubSeq(Parsed, 1, m - 1)
  BY <1>1, TruncateIs
<1> QED  BY <1>1, <1>2, <1>3 DEF Recovered

LEMMA ShrunkIs ==
  ASSUME NEW keys \in Seq(Keys), NEW some \in Shrunk(keys), some # keys
  PROVE  \E u \in Users(keys) :
           /\ some \in {<<Boundary>> \o From(keys, u), <<Summary, Boundary>> \o From(keys, u)}
           /\ Len(From(keys, u)) <= Target
<1>1. CASE some = DropOldestTurns(keys)
  BY <1>1, DropIs
<1>2. CASE Compressible(keys) /\ some = Compressed(keys)
  BY <1>2, CompressedIs
<1> QED  BY <1>1, <1>2 DEF Shrunk

LEMMA ShrunkTyped ==
  ASSUME NEW keys \in Seq(Keys), NEW some \in Shrunk(keys)
  PROVE  some \in Seq(Keys)
<1>1. CASE some = keys
  BY <1>1
<1>2. CASE some # keys
  <2>1. PICK u \in Users(keys) :
          some \in {<<Boundary>> \o From(keys, u), <<Summary, Boundary>> \o From(keys, u)}
    BY <1>2, ShrunkIs
  <2>2. u \in 1..Len(keys)
    BY DEF Users
  <2>3. From(keys, u) \in Seq(Keys)
    BY <2>2, FromIs
  <2>4. \A a, b \in Seq(Keys) : a \o b \in Seq(Keys)
    OBVIOUS
  <2>5. <<Boundary>> \o From(keys, u) \in Seq(Keys) /\ <<Summary, Boundary>> \o From(keys, u) \in Seq(Keys)
    BY <2>3, <2>4, AddedKeys
  <2>6. QED  BY <2>1, <2>5
<1> QED  BY <1>1, <1>2

(***************************************************************************)
(* What a provider accepts                                                 *)
(***************************************************************************)
Messages ==
  [role : {"user"}] \cup [role : {"assistant"}, calls : SUBSET (Nat \X Nat)]
    \cup [role : {"tool"}, call : Nat \X Nat, code : {"ok"}]

\* The user's text, the calls, their results in order, the reply.
IsTurn(t, b) ==
  \E c \in 0..(Len(b) - 2) :
    /\ b[1].role = "user"
    /\ \A i \in 2..Len(b) : b[i].role = IF 3 <= i /\ i <= c + 2 THEN "tool" ELSE "assistant"
    /\ b[2].calls = {<<t, j>> : j \in 1..c}
    /\ \A i \in 3..Len(b) : IF i <= c + 2 THEN b[i].call = <<t, i - 2>> ELSE b[i].calls = {}

Turns ==
  /\ batches \in Seq(Seq(Messages))
  /\ \A t \in 1..Len(batches) : IsTurn(t, batches[t])

LEMMA TurnMessagesAre ==
  ASSUME NEW t \in Nat, NEW c \in Nat, NEW replied \in BOOLEAN, c > 0 \/ replied
  PROVE  TurnMessages(t, c, replied) \in Seq(Messages) /\ IsTurn(t, TurnMessages(t, c, replied))
<1> DEFINE ids  == {<<t, i>> : i \in 1..c}
           tool == [i \in 1..c |-> ToolMessage(<<t, i>>, "ok")]
           asks == <<AssistantMessage(ids)>> \o tool
           end  == IF replied THEN <<AssistantMessage({})>> ELSE << >>
           b    == TurnMessages(t, c, replied)
<1>1. UserMessage \in Messages /\ UserMessage.role = "user"
  BY DEF UserMessage, Messages
<1>2. ids \in SUBSET (Nat \X Nat)
  OBVIOUS
<1>3. /\ AssistantMessage(ids) \in Messages /\ AssistantMessage({}) \in Messages
      /\ AssistantMessage(ids).role = "assistant" /\ AssistantMessage(ids).calls = ids
      /\ AssistantMessage({}).role = "assistant" /\ AssistantMessage({}).calls = {}
  BY <1>2 DEF AssistantMessage, Messages
<1>4. \A i \in 1..c : /\ ToolMessage(<<t, i>>, "ok") \in Messages
                      /\ ToolMessage(<<t, i>>, "ok").role = "tool"
                      /\ ToolMessage(<<t, i>>, "ok").call = <<t, i>>
  BY DEF ToolMessage, Messages
<1>5. tool \in Seq(Messages) /\ Len(tool) = c /\ \A i \in 1..c : tool[i] = ToolMessage(<<t, i>>, "ok")
  BY <1>4
<1>6. /\ end \in Seq(Messages) /\ Len(end) = IF replied THEN 1 ELSE 0
      /\ replied => end[1] = AssistantMessage({})
  BY <1>3
<1> DEFINE one == <<AssistantMessage(ids)>>
           user == <<UserMessage>>
<1>7. one \in Seq(Messages) /\ Len(one) = 1 /\ one[1] = AssistantMessage(ids)
  BY <1>3
<1>8. user \in Seq(Messages) /\ Len(user) = 1 /\ user[1] = UserMessage
  BY <1>1
<1>9. b = user \o (IF c = 0 THEN << >> ELSE one \o tool) \o end
  BY DEF TurnMessages
<1>10. CASE c = 0
  <2>1. b = (user \o << >>) \o end
    BY <1>9, <1>10
  <2>2. user \o << >> = user
    BY <1>8
  <2>3. b \in Seq(Messages) /\ Len(b) = 2 /\ b[1] = UserMessage /\ b[2] = AssistantMessage({})
    <3> HIDE DEF b, user, end
    <3>1. replied
      BY <1>10
    <3>2. /\ user \o end \in Seq(Messages) /\ Len(user \o end) = Len(user) + Len(end)
          /\ \A i \in 1..Len(user) : (user \o end)[i] = user[i]
          /\ \A i \in 1..Len(end) : (user \o end)[Len(user) + i] = end[i]
      BY <1>6, <1>8, Joined
    <3>3. 1 \in 1..Len(user) /\ 1 \in 1..Len(end) /\ Len(end) = 1
      BY <1>6, <1>8, <3>1
    <3>4. QED  BY <1>6, <1>8, <2>1, <2>2, <3>1, <3>2, <3>3
  <2>4. {<<t, j>> : j \in 1..c} = {}
    BY <1>10
  <2> HIDE DEF b
  <2>5. IsTurn(t, b)
    <3>1. 0 \in 0..(Len(b) - 2)
      BY <2>3
    <3>2. \A i \in 2..Len(b) : b[i].role = IF 3 <= i /\ i <= 0 + 2 THEN "tool" ELSE "assistant"
      BY <1>3, <2>3
    <3>3. b[2].calls = {<<t, j>> : j \in 1..0}
      BY <1>3, <2>3
    <3>4. QED  BY <1>1, <2>3, <3>1, <3>2, <3>3 DEF IsTurn
  <2>6. QED  BY <2>3, <2>5 DEF b
<1>11. CASE c > 0
  <2> HIDE DEF b, user, one, tool, end
  <2>1. b = (user \o (one \o tool)) \o end
    <3>1. c # 0
      BY <1>11
    <3>2. QED  BY <1>9, <3>1
  <2>2. one \in Seq(Messages) /\ tool \in Seq(Messages)
    BY <1>5, <1>7
  <2>3. /\ one \o tool \in Seq(Messages) /\ Len(one \o tool) = Len(one) + Len(tool)
        /\ \A i \in 1..Len(one) : (one \o tool)[i] = one[i]
        /\ \A i \in 1..Len(tool) : (one \o tool)[Len(one) + i] = tool[i]
    BY <2>2, Joined
  <2>4. one \o tool \in Seq(Messages) /\ Len(one \o tool) = c + 1
    BY <1>5, <1>7, <2>3
  <2>5. (one \o tool)[1] = AssistantMessage(ids) /\ \A i \in 1..c : (one \o tool)[1 + i] = tool[i]
    BY <1>5, <1>7, <2>3
  <2> DEFINE most == user \o (one \o tool)
  <2>6. /\ most \in Seq(Messages) /\ Len(most) = c + 2
        /\ most[1] = UserMessage /\ most[2] = AssistantMessage(ids)
        /\ \A i \in 1..(c + 1) : most[1 + i] = (one \o tool)[i]
    <3>1. user \in Seq(Messages) /\ one \o tool \in Seq(Messages)
      BY <1>8, <2>4
    <3>2. /\ user \o (one \o tool) \in Seq(Messages) /\ Len(user \o (one \o tool)) = Len(user) + Len(one \o tool)
          /\ \A i \in 1..Len(user) : (user \o (one \o tool))[i] = user[i]
          /\ \A i \in 1..Len(one \o tool) : (user \o (one \o tool))[Len(user) + i] = (one \o tool)[i]
      BY <3>1, Joined
    <3>3. most[1] = UserMessage /\ \A i \in 1..(c + 1) : most[1 + i] = (one \o tool)[i]
      BY <1>8, <2>4, <3>2
    <3>4. 1 \in 1..(c + 1) /\ 1 + 1 = 2
      OBVIOUS
    <3>5. most[2] = AssistantMessage(ids)
      BY <2>5, <3>3, <3>4
    <3>6. most \in Seq(Messages) /\ Len(most) = c + 2
      BY <1>8, <2>4, <3>2
    <3>7. QED  BY <3>3, <3>5, <3>6
  <2>7. ASSUME NEW i \in 3..(c + 2)  PROVE most[i] = ToolMessage(<<t, i - 2>>, "ok")
    <3>1. i - 1 \in 1..(c + 1) /\ i - 2 \in 1..c /\ 1 + (i - 2) = i - 1 /\ 1 + (i - 1) = i
      BY <2>4
    <3>2. most[i] = (one \o tool)[i - 1]
      BY <2>6, <3>1
    <3>3. (one \o tool)[i - 1] = tool[i - 2]
      BY <2>5, <3>1
    <3>4. QED  BY <1>5, <3>1, <3>2, <3>3
  <2> HIDE DEF most
  <2>8. b = most \o end
    BY <2>1 DEF most
  <2>9. /\ b \in Seq(Messages) /\ Len(b) = c + 2 + Len(end)
        /\ \A i \in 1..(c + 2) : b[i] = most[i]
        /\ replied => b[c + 3] = AssistantMessage({})
    BY <1>6, <2>6, <2>8
  <2>10. Len(b) \in {c + 2, c + 3} /\ (Len(b) = c + 3 => replied)
    BY <1>6, <2>9
  <2>11. c \in 0..(Len(b) - 2) /\ b[1].role = "user"
    BY <1>1, <2>6, <2>9, <2>10
  <2>12. ASSUME NEW i \in 2..Len(b)
         PROVE  b[i].role = IF 3 <= i /\ i <= c + 2 THEN "tool" ELSE "assistant"
    <3>1. i \in Int /\ (i = 2 \/ i \in 3..(c + 2) \/ (i = c + 3 /\ replied))
      BY <2>10
    <3>2. CASE i = 2
      BY <1>3, <2>6, <2>9, <3>2
    <3>3. CASE i \in 3..(c + 2)
      <4>1. b[i] = ToolMessage(<<t, i - 2>>, "ok") /\ i - 2 \in 1..c
        BY <2>7, <2>9, <3>3
      <4>2. QED  BY <1>4, <3>3, <4>1
    <3>4. CASE i = c + 3 /\ replied
      BY <1>3, <2>9, <3>4
    <3>5. QED  BY <3>1, <3>2, <3>3, <3>4
  <2>13. b[2].calls = {<<t, j>> : j \in 1..c}
    <3>1. 2 \in 1..(c + 2)
      OBVIOUS
    <3>2. b[2] = AssistantMessage(ids)
      BY <2>6, <2>9, <3>1
    <3>3. QED  BY <1>3, <3>2
  <2>14. ASSUME NEW i \in 3..Len(b)
         PROVE  IF i <= c + 2 THEN b[i].call = <<t, i - 2>> ELSE b[i].calls = {}
    <3>1. i \in Int /\ (i \in 3..(c + 2) \/ (i = c + 3 /\ replied))
      BY <2>10
    <3>2. CASE i \in 3..(c + 2)
      <4>1. b[i] = ToolMessage(<<t, i - 2>>, "ok") /\ i - 2 \in 1..c
        BY <2>7, <2>9, <3>2
      <4>2. QED  BY <1>4, <3>2, <4>1
    <3>3. CASE i = c + 3 /\ replied
      BY <1>3, <2>9, <3>3
    <3>4. QED  BY <3>1, <3>2, <3>3
  <2>15. IsTurn(t, b)
    BY <2>11, <2>12, <2>13, <2>14 DEF IsTurn
  <2>16. QED  BY <2>9, <2>15 DEF b
<1> QED  BY <1>10, <1>11

\* What a message of a turn is, by its place.
LEMMA PlaceSays ==
  ASSUME NEW t, NEW b \in Seq(Messages), IsTurn(t, b), NEW i \in 1..Len(b)
  PROVE  /\ b[i].role = "user" <=> i = 1
         /\ b[i].role \in {"user", "assistant", "tool"}
         /\ b[i].role = "tool" =>
              i >= 3 /\ b[i].call = <<t, i - 2>> /\ b[2].role = "assistant" /\ <<t, i - 2>> \in b[2].calls
         /\ b[i].role = "assistant" => \A x \in b[i].calls :
              i = 2 /\ \E j \in 3..Len(b) : /\ x = <<t, j - 2>>
                                            /\ \A m \in 3..j : b[m].role = "tool"
<1>1. PICK c \in 0..(Len(b) - 2) :
        /\ b[1].role = "user"
        /\ \A k \in 2..Len(b) : b[k].role = IF 3 <= k /\ k <= c + 2 THEN "tool" ELSE "assistant"
        /\ b[2].calls = {<<t, j>> : j \in 1..c}
        /\ \A k \in 3..Len(b) : IF k <= c + 2 THEN b[k].call = <<t, k - 2>> ELSE b[k].calls = {}
  BY DEF IsTurn
<1>2. Len(b) \in Nat /\ c \in Nat /\ c + 2 <= Len(b)
  BY <1>1
<1>3. CASE i = 1
  BY <1>1, <1>3
<1>4. CASE i = 2
  <2>1. b[i].role = "assistant"
    BY <1>1, <1>2, <1>4
  <2>2. ASSUME NEW x \in b[i].calls
        PROVE  \E j \in 3..Len(b) : x = <<t, j - 2>> /\ \A m \in 3..j : b[m].role = "tool"
    <3>1. PICK q \in 1..c : x = <<t, q>>
      BY <1>1, <1>4, <2>2
    <3>2. q + 2 \in 3..Len(b) /\ (q + 2) - 2 = q
      BY <1>2
    <3>3. \A m \in 3..(q + 2) : b[m].role = "tool"
      BY <1>1, <1>2
    <3>4. QED  BY <3>1, <3>2, <3>3
  <2>3. QED  BY <1>4, <2>1, <2>2
<1>5. CASE i > 2 /\ i <= c + 2
  <2>1. b[i].role = "tool" /\ b[i].call = <<t, i - 2>> /\ b[2].role = "assistant"
    <3>1. i \in 3..Len(b) /\ i \in 2..Len(b) /\ 2 \in 2..Len(b) /\ 3 <= i /\ ~(3 <= 2)
      BY <1>2, <1>5
    <3>2. QED  BY <1>1, <1>5, <3>1
  <2>2. i - 2 \in 1..c
    BY <1>2, <1>5
  <2>3. <<t, i - 2>> \in b[2].calls
    BY <1>1, <2>2
  <2>4. QED  BY <1>5, <2>1, <2>3
<1>6. CASE i > c + 2
  <2>1. b[i].role = "assistant" /\ b[i].calls = {}
    BY <1>1, <1>2, <1>6
  <2>2. QED  BY <1>2, <1>6, <2>1
<1> QED  BY <1>2, <1>3, <1>4, <1>5, <1>6

Has(keys, t, i) == \E n \in 1..Len(keys) : keys[n] = <<t, i>>

Ordered(keys) == \A j, k \in 1..Len(keys) : j < k => Precedes(keys[j], keys[k])

\* Keys in order, of messages there are; of a turn what comes before, and the
\* result of every call if the calls are there, but for turn T.
TidyBut(keys, T) ==
  /\ Ordered(keys)
  /\ \A k \in 1..Len(keys) : keys[k][1] # 0 =>
       LET t == keys[k][1]
           i == keys[k][2]
       IN  /\ t \in 1..Len(batches) /\ i \in 1..Len(batches[t])
           /\ \A h \in 1..(i - 1) : Has(keys, t, h)
           /\ t # T /\ i >= 2 =>
                \A h \in 1..Len(batches[t]) : batches[t][h].role = "tool" => Has(keys, t, h)

Tidy(keys) == TidyBut(keys, 0)

LEMMA MessageSays ==
  ASSUME Turns, NEW key \in Keys,
         key[1] # 0 => key[1] \in 1..Len(batches) /\ key[2] \in 1..Len(batches[key[1]])
  PROVE  LET m == MessageOf(key)
             t == key[1]
             i == key[2]
             b == batches[t]
         IN  /\ m.role \in {"user", "assistant", "tool"}
             /\ m.role = "user" <=> t = 0 \/ i = 1
             /\ t # 0 => m = b[i]
             /\ m.role = "tool" => i >= 3 /\ m.call = <<t, i - 2>> /\ 2 \in 1..Len(b)
                                   /\ b[2].role = "assistant" /\ <<t, i - 2>> \in b[2].calls
             /\ m.role = "assistant" => \A x \in m.calls :
                  i = 2 /\ \E j \in 3..Len(b) : x = <<t, j - 2>> /\ \A h \in 3..j : b[h].role = "tool"
<1>1. CASE key[1] = 0
  <2>1. MessageOf(key) = UserMessage
    BY <1>1 DEF MessageOf
  <2>2. UserMessage.role = "user"
    BY DEF UserMessage
  <2>3. QED  BY <1>1, <2>1, <2>2
<1>2. CASE key[1] # 0
  <2> DEFINE t == key[1]
             i == key[2]
             b == batches[t]
  <2>1. MessageOf(key) = b[i]
    BY <1>2 DEF MessageOf
  <2>2. t \in 1..Len(batches) /\ i \in 1..Len(b)
    BY <1>2
  <2>3. b \in Seq(Messages) /\ IsTurn(t, b)
    BY <2>2 DEF Turns
  <2> HIDE DEF t, i, b
  <2>4. /\ b[i].role = "user" <=> i = 1
        /\ b[i].role \in {"user", "assistant", "tool"}
        /\ b[i].role = "tool" =>
             i >= 3 /\ b[i].call = <<t, i - 2>> /\ b[2].role = "assistant" /\ <<t, i - 2>> \in b[2].calls
        /\ b[i].role = "assistant" => \A x \in b[i].calls :
             i = 2 /\ \E j \in 3..Len(b) : x = <<t, j - 2>> /\ \A h \in 3..j : b[h].role = "tool"
    BY <2>2, <2>3, PlaceSays
  <2>5. i >= 3 => 2 \in 1..Len(b)
    BY <2>2, <2>3
  <2>6. t # 0
    BY <1>2 DEF t
  <2>7. QED  BY <2>1, <2>4, <2>5, <2>6 DEF t, i, b
<1> QED  BY <1>1, <1>2

LEMMA PrecedesOnce ==
  ASSUME NEW a \in Keys, NEW b \in Keys, Precedes(a, b)
  PROVE  a # b /\ ~Precedes(b, a)
BY Limits DEF Precedes, Keys

\* The order of the keys is the order of the places.
LEMMA OrderedPlaces ==
  ASSUME NEW keys \in Seq(Keys), Ordered(keys),
         NEW j \in 1..Len(keys), NEW k \in 1..Len(keys), Precedes(keys[j], keys[k])
  PROVE  j < k
<1>1. keys[j] \in Keys /\ keys[k] \in Keys /\ j \in Int /\ k \in Int
  OBVIOUS
<1>2. ~Precedes(keys[k], keys[j]) /\ keys[j] # keys[k]
  BY <1>1, PrecedesOnce
<1>3. ~(k < j) /\ j # k
  BY <1>2 DEF Ordered
<1> QED  BY <1>1, <1>3

\* Tidy keys are keys of a transcript that a provider accepts.
LEMMA TidyIsClean ==
  ASSUME Turns, NEW keys \in Seq(Keys), Tidy(keys)
  PROVE  WellFormed(Contents(keys)) /\ Dangling(Contents(keys)) = {}
<1> DEFINE msgs == Contents(keys)
<1>0. Ordered(keys)
  BY DEF Tidy, TidyBut
<1>1. /\ DOMAIN msgs = 1..Len(keys) /\ Len(msgs) = Len(keys) /\ Len(keys) \in Nat
      /\ \A k \in 1..Len(keys) : msgs[k] = MessageOf(keys[k])
  BY DEF Contents
<1>2. ASSUME NEW k \in 1..Len(keys)
      PROVE  /\ keys[k] \in Keys
             /\ keys[k][1] \in Nat /\ keys[k][2] \in Nat \ {0} /\ keys[k] = <<keys[k][1], keys[k][2]>>
             /\ keys[k][1] # 0 => keys[k][1] \in 1..Len(batches) /\ keys[k][2] \in 1..Len(batches[keys[k][1]])
  <2>1. keys[k] \in Keys
    OBVIOUS
  <2>2. QED  BY <2>1, Limits DEF Tidy, TidyBut, Keys
<1>3. ASSUME NEW k \in 1..Len(keys)
      PROVE  LET t == keys[k][1]
                 i == keys[k][2]
                 b == batches[t]
             IN  /\ msgs[k].role \in {"user", "assistant", "tool"}
                 /\ msgs[k].role = "user" <=> t = 0 \/ i = 1
                 /\ t # 0 => msgs[k] = b[i]
                 /\ msgs[k].role = "tool" => i >= 3 /\ msgs[k].call = <<t, i - 2>> /\ 2 \in 1..Len(b)
                                       /\ b[2].role = "assistant" /\ <<t, i - 2>> \in b[2].calls
                 /\ msgs[k].role = "assistant" => \A x \in msgs[k].calls :
                      i = 2 /\ \E j \in 3..Len(b) : x = <<t, j - 2>> /\ \A h \in 3..j : b[h].role = "tool"
  <2>1. msgs[k] = MessageOf(keys[k]) /\ keys[k] \in Keys
    BY <1>1
  <2>2. QED  BY <1>2, <2>1, MessageSays
<1> HIDE DEF msgs
<1>10. ASSUME NEW k \in 1..Len(keys), NEW t \in Nat, NEW i \in Nat, keys[k] = <<t, i>>
       PROVE  /\ t # 0 => msgs[k] = batches[t][i]
              /\ msgs[k].role = "tool" => msgs[k].call = <<t, i - 2>>
  <2>1. keys[k][1] = t /\ keys[k][2] = i
    BY <1>10
  <2>2. QED  BY <1>3, <2>1
\* A call that is asked is answered, and only tool messages are between.
<1>4. ASSUME NEW q \in 1..Len(keys), msgs[q].role = "assistant", NEW x \in msgs[q].calls
      PROVE  \E r \in 1..Len(keys) :
               /\ q < r /\ msgs[r].role = "tool" /\ msgs[r].call = x
               /\ \A k \in 1..Len(keys) : q < k /\ k < r => msgs[k].role = "tool"
  <2> DEFINE t == keys[q][1]
             b == batches[t]
  <2>1. keys[q][2] = 2 /\ t # 0
    BY <1>3, <1>4
  <2>2. PICK j \in 3..Len(b) : x = <<t, j - 2>> /\ \A h \in 3..j : b[h].role = "tool"
    BY <1>3, <1>4
  <2>3. t \in 1..Len(batches) /\ b \in Seq(Messages)
    BY <1>2, <2>1 DEF Turns
  <2>4. j \in Int /\ j >= 3 /\ j \in 1..Len(b) /\ b[j].role = "tool"
    BY <2>2, <2>3
  <2>5. Has(keys, t, j)
    BY <2>1, <2>4 DEF Tidy, TidyBut
  <2>6. PICK r \in 1..Len(keys) : keys[r] = <<t, j>>
    BY <2>5 DEF Has
  <2>7. msgs[r] = b[j]
    <3>1. t \in Nat /\ j \in Nat
      BY <1>2, <2>4
    <3>2. QED  BY <1>10, <2>1, <2>6, <3>1
  <2>8. msgs[r].role = "tool" /\ msgs[r].call = x
    <3>1. msgs[r].role = "tool"
      BY <2>4, <2>7
    <3>2. msgs[r].call = <<t, j - 2>>
      <4>1. t \in Nat /\ j \in Nat
        BY <1>2, <2>4
      <4>2. QED  BY <1>10, <2>6, <3>1, <4>1
    <3>3. QED  BY <2>2, <3>1, <3>2
  <2>9. q < r
    <3>1. Precedes(keys[q], keys[r])
      BY <2>1, <2>4, <2>6 DEF Precedes
    <3>2. QED  BY <1>0, <3>1, OrderedPlaces
  <2>10. ASSUME NEW k \in 1..Len(keys), q < k, k < r  PROVE msgs[k].role = "tool"
    <3>1. Precedes(keys[q], keys[k]) /\ Precedes(keys[k], keys[r])
      BY <1>0, <2>10 DEF Ordered
    <3>2. keys[k][1] \in Nat /\ keys[k][2] \in Nat /\ keys[q][1] \in Nat
      BY <1>2
    <3>3. keys[k][1] = t /\ 2 < keys[k][2] /\ keys[k][2] < j
      BY <2>1, <2>4, <2>6, <3>1, <3>2 DEF Precedes
    <3>4. keys[k][2] \in 3..j
      BY <2>4, <3>2, <3>3
    <3>5. msgs[k] = b[keys[k][2]]
      <4>1. keys[k] = <<t, keys[k][2]>> /\ t \in Nat
        BY <1>2, <3>3
      <4>2. QED  BY <1>10, <2>1, <3>2, <4>1
    <3>6. QED  BY <2>2, <3>4, <3>5
  <2>11. QED  BY <2>8, <2>9, <2>10
\* What a result answers was asked, and is answered once.
<1>5. ASSUME NEW k \in 1..Len(keys), msgs[k].role = "tool"
      PROVE  \E q \in 1..Len(keys) :
               q < k /\ msgs[q].role = "assistant" /\ msgs[k].call \in msgs[q].calls
  <2> DEFINE t == keys[k][1]
             i == keys[k][2]
             b == batches[t]
  <2>1. /\ i >= 3 /\ msgs[k].call = <<t, i - 2>> /\ 2 \in 1..Len(b)
        /\ b[2].role = "assistant" /\ <<t, i - 2>> \in b[2].calls
    BY <1>3, <1>5
  <2>2. t # 0
    BY <1>3, <1>5
  <2>3. i \in Int /\ 2 \in 1..(i - 1)
    BY <1>2, <2>1
  <2>4. Has(keys, t, 2)
    BY <2>2, <2>3 DEF Tidy, TidyBut
  <2>5. PICK q \in 1..Len(keys) : keys[q] = <<t, 2>>
    BY <2>4 DEF Has
  <2>6. msgs[q] = b[2]
    <3>1. t \in Nat /\ 2 \in Nat
      BY <1>2
    <3>2. QED  BY <1>10, <2>2, <2>5, <3>1
  <2>7. Precedes(keys[q], keys[k])
    BY <2>1, <2>3, <2>5 DEF Precedes
  <2>8. q < k
    BY <1>0, <2>7, OrderedPlaces
  <2>9. QED  BY <2>1, <2>6, <2>8
<1>6. ASSUME NEW k \in 1..Len(keys), NEW r \in 1..Len(keys), msgs[k].role = "tool", msgs[r].role = "tool",
             msgs[k].call = msgs[r].call
      PROVE  k = r
  <2>1. keys[k][1] = keys[r][1] /\ keys[k][2] - 2 = keys[r][2] - 2
    <3>1. msgs[k].call = <<keys[k][1], keys[k][2] - 2>> /\ msgs[r].call = <<keys[r][1], keys[r][2] - 2>>
      BY <1>2, <1>6, <1>10
    <3>2. <<keys[k][1], keys[k][2] - 2>> = <<keys[r][1], keys[r][2] - 2>>
      BY <1>6, <3>1
    <3>3. QED  BY <3>2
  <2>2. keys[k] = keys[r]
    <3>1. keys[k][2] = keys[r][2]
      BY <1>2, <2>1
    <3>2. keys[k] = <<keys[k][1], keys[k][2]>> /\ keys[r] = <<keys[r][1], keys[r][2]>>
      BY <1>2
    <3>3. QED  BY <2>1, <3>1, <3>2
  <2>3. ~Precedes(keys[k], keys[r]) /\ ~Precedes(keys[r], keys[k])
    BY <1>2, <2>2, PrecedesOnce
  <2>4. ~(k < r) /\ ~(r < k)
    BY <1>0, <2>3 DEF Ordered
  <2>5. QED  BY <2>4
<1>7. Dangling(msgs) = {}
  <2>1. ASSUME NEW x \in Asked(msgs)  PROVE x \in Answered(msgs)
    <3>1. PICK q \in 1..Len(keys) : msgs[q].role = "assistant" /\ x \in msgs[q].calls
      BY <1>1, <2>1 DEF Asked
    <3>2. PICK r \in 1..Len(keys) : msgs[r].role = "tool" /\ msgs[r].call = x
      BY <1>4, <3>1
    <3>3. QED  BY <1>1, <3>2 DEF Answered
  <2>2. QED  BY <2>1 DEF Dangling
<1>8. ASSUME NEW k \in 1..Len(keys)
      PROVE  IF msgs[k].role = "tool" THEN msgs[k].call \in Dangling(Before(msgs, k))
             ELSE Dangling(Before(msgs, k)) = {}
  <2> DEFINE past == Before(msgs, k)
  <2>1. DOMAIN past = 1..(k - 1) /\ \A q \in 1..(k - 1) : past[q] = msgs[q]
    <3>1. \A q \in 1..(k - 1) : q \in 1..Len(keys)
      BY <1>1
    <3>2. QED  BY <1>1, <3>1 DEF Before
  <2>2. Asked(past) = UNION {msgs[q].calls : q \in {p \in 1..(k - 1) : msgs[p].role = "assistant"}}
    BY <2>1 DEF Asked
  <2>3. Answered(past) = {msgs[q].call : q \in {p \in 1..(k - 1) : msgs[p].role = "tool"}}
    BY <2>1 DEF Answered
  <2> HIDE DEF past
  <2>4. CASE msgs[k].role = "tool"
    <3>1. PICK q \in 1..Len(keys) : q < k /\ msgs[q].role = "assistant" /\ msgs[k].call \in msgs[q].calls
      BY <1>5, <2>4
    <3>2. q \in 1..(k - 1)
      BY <3>1
    <3>3. msgs[k].call \in Asked(past)
      BY <2>2, <3>1, <3>2
    <3>4. ASSUME msgs[k].call \in Answered(past)  PROVE FALSE
      <4>1. PICK r \in 1..(k - 1) : msgs[r].role = "tool" /\ msgs[k].call = msgs[r].call
        BY <2>3, <3>4
      <4>2. r \in 1..Len(keys) /\ r # k
        BY <1>1
      <4>3. QED  BY <1>6, <2>4, <4>1, <4>2
    <3>5. QED  BY <2>4, <3>3, <3>4 DEF Dangling, past
  <2>5. CASE msgs[k].role # "tool"
    <3>1. ASSUME NEW x \in Asked(past)  PROVE x \in Answered(past)
      <4>1. PICK q \in 1..(k - 1) : msgs[q].role = "assistant" /\ x \in msgs[q].calls
        BY <2>2, <3>1
      <4>2. q \in 1..Len(keys) /\ q < k
        BY <1>1
      <4>3. PICK r \in 1..Len(keys) :
               /\ q < r /\ msgs[r].role = "tool" /\ msgs[r].call = x
               /\ \A p \in 1..Len(keys) : q < p /\ p < r => msgs[p].role = "tool"
        BY <1>4, <4>1, <4>2
      <4>4. r # k /\ ~(k < r)
        BY <2>5, <4>2, <4>3
      <4>5. r \in 1..(k - 1)
        BY <4>4
      <4>6. QED  BY <2>3, <4>3, <4>5
    <3>2. QED  BY <2>5, <3>1 DEF Dangling, past
  <2>6. QED  BY <2>4, <2>5
<1>9. WellFormed(msgs)
  BY <1>1, <1>8 DEF WellFormed
<1> QED  BY <1>7, <1>9 DEF msgs

\* The first message of a turn is its user's, and no other.
LEMMA UsersAre ==
  ASSUME Turns, NEW keys \in Seq(Keys), NEW T \in Nat, TidyBut(keys, T), NEW u \in Users(keys), keys[u][1] # 0
  PROVE  u \in 1..Len(keys) /\ keys[u][2] = 1
<1>1. u \in 1..Len(keys) /\ MessageOf(keys[u]).role = "user"
  BY DEF Users
<1>2. keys[u] \in Keys
  BY <1>1
<1>3. keys[u][1] \in 1..Len(batches) /\ keys[u][2] \in 1..Len(batches[keys[u][1]])
  BY <1>1 DEF TidyBut
<1> QED  BY <1>1, <1>2, <1>3, MessageSays

\* Cut before a user message, with user messages put in front, tidy keys are tidy.
LEMMA SuffixTidy ==
  ASSUME Turns, NEW keys \in Seq(Keys), Tidy(keys), \A k \in 1..Len(keys) : keys[k][1] # 0,
         NEW u \in Users(keys),
         NEW lead \in {<<Boundary>>, <<Summary, Boundary>>}
  PROVE  Tidy(lead \o From(keys, u)) /\ lead \o From(keys, u) \in Seq(Keys)
<1> DEFINE rest == From(keys, u)
           L == Len(lead)
           out == lead \o rest
<1>1. u \in 1..Len(keys) /\ keys[u][2] = 1
  <2>1. TidyBut(keys, 0) /\ 0 \in Nat
    BY DEF Tidy
  <2>2. keys[u][1] # 0
    BY DEF Users
  <2>3. QED  BY <2>1, <2>2, UsersAre
<1>2. /\ rest \in Seq(Keys) /\ Len(rest) = Len(keys) - u + 1
      /\ \A n \in 1..Len(rest) : rest[n] = keys[u + n - 1]
  BY <1>1, FromIs
<1>3. /\ lead \in Seq(Keys) /\ L \in {1, 2}
      /\ \A n \in 1..L : lead[n][1] = 0
      /\ \A m, n \in 1..L : m < n => Precedes(lead[m], lead[n])
  <2>1. CASE lead = <<Boundary>>
    BY <2>1, AddedKeys DEF Boundary
  <2>2. CASE lead = <<Summary, Boundary>>
    <3>1. lead \in Seq(Keys) /\ L = 2 /\ lead[1] = <<0, 1>> /\ lead[2] = <<0, 2>>
      BY <2>2, AddedKeys DEF Summary, Boundary
    <3>2. Precedes(lead[1], lead[2])
      BY <3>1 DEF Precedes
    <3>3. \A n \in 1..2 : n = 1 \/ n = 2
      OBVIOUS
    <3>4. lead[1][1] = 0 /\ lead[2][1] = 0
      BY <3>1
    <3>5. \A m, n \in 1..2 : m < n => m = 1 /\ n = 2
      OBVIOUS
    <3> HIDE DEF L
    <3>6. \A m, n \in 1..L : m < n => Precedes(lead[m], lead[n])
      BY <3>1, <3>2, <3>5
    <3>7. QED  BY <3>1, <3>3, <3>4, <3>6
  <2>3. QED  BY <2>1, <2>2
<1>4. Ordered(keys) /\ Len(keys) \in Nat
  BY DEF Tidy, TidyBut
<1> HIDE DEF rest, L, out
<1>5. /\ out \in Seq(Keys) /\ Len(out) = L + Len(rest)
      /\ \A n \in 1..L : out[n] = lead[n]
      /\ \A n \in 1..Len(rest) : out[L + n] = rest[n]
  <2>1. lead \in Seq(Keys) /\ rest \in Seq(Keys)
    BY <1>2, <1>3
  <2>2. QED  BY <2>1, Joined DEF out, L
<1>6. ASSUME NEW n \in 1..Len(out)
      PROVE  \/ n \in 1..L /\ out[n] = lead[n]
             \/ n - L + u - 1 \in u..Len(keys) /\ out[n] = keys[n - L + u - 1]
  <2>1. n \in Int /\ L \in Int
    BY <1>3
  <2>2. CASE n <= L
    BY <1>5, <2>1, <2>2
  <2>3. CASE n > L
    <3>1. n - L \in 1..Len(rest) /\ L + (n - L) = n
      BY <1>2, <1>3, <1>5, <2>1, <2>3
    <3>2. out[n] = keys[u + (n - L) - 1]
      BY <1>2, <1>5, <3>1
    <3>3. u + (n - L) - 1 = n - L + u - 1 /\ n - L + u - 1 \in u..Len(keys)
      BY <1>1, <1>2, <1>4, <2>1, <3>1
    <3>4. QED  BY <3>2, <3>3
  <2>4. QED  BY <2>1, <2>2, <2>3
<1>7. ASSUME NEW m \in u..Len(keys)
      PROVE  L + (m - u + 1) \in 1..Len(out) /\ out[L + (m - u + 1)] = keys[m]
  <2>1. m - u + 1 \in 1..Len(rest) /\ u + (m - u + 1) - 1 = m
    BY <1>1, <1>2, <1>4
  <2>2. rest[m - u + 1] = keys[m]
    BY <1>2, <2>1
  <2>3. QED  BY <1>2, <1>3, <1>5, <2>1, <2>2
<1>8. ASSUME NEW k \in 1..Len(keys)
      PROVE  keys[k] \in Keys /\ keys[k][1] \in Nat \ {0} /\ keys[k][2] \in Nat \ {0}
  <2>1. keys[k] \in Keys
    OBVIOUS
  <2>2. QED  BY <2>1 DEF Keys
<1>9. Ordered(out)
  <2>1. SUFFICES ASSUME NEW i \in 1..Len(out), NEW j \in 1..Len(out), i < j
                 PROVE  Precedes(out[i], out[j])
    BY DEF Ordered
  <2>2. CASE i \in 1..L /\ j \in 1..L
    BY <1>3, <1>5, <2>1, <2>2
  <2>3. CASE i \in 1..L /\ j \notin 1..L
    <3>1. out[i][1] = 0
      BY <1>3, <1>5, <2>3
    <3>2. out[j][1] \in Nat \ {0}
      <4>1. j - L + u - 1 \in 1..Len(keys) /\ out[j] = keys[j - L + u - 1]
        BY <1>1, <1>6, <2>3
      <4>2. QED  BY <1>8, <4>1
    <3>3. QED  BY <3>1, <3>2 DEF Precedes
  <2>4. CASE i \notin 1..L /\ j \in 1..L
    BY <1>3, <2>1, <2>4
  <2>5. CASE i \notin 1..L /\ j \notin 1..L
    <3>1. /\ i - L + u - 1 \in 1..Len(keys) /\ out[i] = keys[i - L + u - 1]
          /\ j - L + u - 1 \in 1..Len(keys) /\ out[j] = keys[j - L + u - 1]
      BY <1>1, <1>6, <2>5
    <3>2. i - L + u - 1 < j - L + u - 1
      BY <1>1, <1>3, <2>1
    <3>3. QED  BY <1>4, <3>1, <3>2 DEF Ordered
  <2>6. QED  BY <2>2, <2>3, <2>4, <2>5
\* What a message of the rest needs is in the rest.
<1>10. ASSUME NEW k \in u..Len(keys), NEW h \in Nat \ {0}, Has(keys, keys[k][1], h)
       PROVE  Has(out, keys[k][1], h)
  <2>1. PICK m \in 1..Len(keys) : keys[m] = <<keys[k][1], h>>
    BY <1>10 DEF Has
  <2>2. k \in 1..Len(keys) /\ u <= k
    BY <1>1
  <2>3. ~(m < u)
    <3>1. SUFFICES ASSUME m < u PROVE FALSE
      OBVIOUS
    <3>2. Precedes(keys[m], keys[u])
      BY <1>1, <1>4, <3>1 DEF Ordered
    <3>3. keys[u][1] <= keys[k][1]
      <4>1. CASE u = k
        BY <1>1, <1>8, <4>1
      <4>2. CASE u # k
        <5>1. u < k
          BY <1>1, <2>2, <4>2
        <5>2. Precedes(keys[u], keys[k])
          BY <1>1, <1>4, <2>2, <5>1 DEF Ordered
        <5>3. QED  BY <1>1, <1>8, <2>2, <5>2 DEF Precedes
      <4>3. QED  BY <4>1, <4>2
    <3>4. keys[m][1] = keys[k][1] /\ keys[m][2] = h
      BY <2>1
    <3>5. keys[u][1] \in Nat /\ keys[k][1] \in Nat
      BY <1>1, <1>8, <2>2
    <3>6. QED  BY <1>1, <3>2, <3>3, <3>4, <3>5 DEF Precedes
  <2>4. m \in u..Len(keys)
    BY <1>1, <2>3
  <2>5. QED  BY <1>7, <2>1, <2>4 DEF Has
<1>11. ASSUME NEW n \in 1..Len(out), out[n][1] # 0
       PROVE  LET t == out[n][1]
                  i == out[n][2]
              IN  /\ t \in 1..Len(batches) /\ i \in 1..Len(batches[t])
                  /\ \A h \in 1..(i - 1) : Has(out, t, h)
                  /\ t # 0 /\ i >= 2 =>
                       \A h \in 1..Len(batches[t]) : batches[t][h].role = "tool" => Has(out, t, h)
  <2>1. n \notin 1..L
    BY <1>3, <1>5, <1>11
  <2>2. PICK k \in u..Len(keys) : out[n] = keys[k]
    BY <1>6, <2>1
  <2>3. k \in 1..Len(keys)
    BY <1>1
  <2> DEFINE t == keys[k][1]
             i == keys[k][2]
  <2>4. /\ t \in 1..Len(batches) /\ i \in 1..Len(batches[t])
        /\ \A h \in 1..(i - 1) : Has(keys, t, h)
        /\ t # 0 /\ i >= 2 =>
             \A h \in 1..Len(batches[t]) : batches[t][h].role = "tool" => Has(keys, t, h)
    BY <2>3 DEF Tidy, TidyBut
  <2>5. \A h \in Nat \ {0} : Has(keys, t, h) => Has(out, t, h)
    BY <1>10
  <2>6. i \in Nat /\ \A h \in 1..(i - 1) : h \in Nat \ {0}
    BY <1>8, <2>3
  <2>7. \A h \in 1..Len(batches[t]) : h \in Nat \ {0}
    <3>1. Len(batches[t]) \in Nat
      BY <2>4 DEF Turns
    <3>2. QED  BY <3>1
  <2>8. QED  BY <2>2, <2>4, <2>5, <2>6, <2>7
<1>12. Tidy(out)
  BY <1>9, <1>11 DEF Tidy, TidyBut
<1> QED  BY <1>5, <1>12 DEF out, rest

\* Truncated, keys are tidy that were but for the newest turn.
LEMMA TruncatedTidy ==
  ASSUME Turns, NEW keys \in Seq(Keys), NEW T \in Nat, TidyBut(keys, T),
         \A k \in 1..Len(keys) : keys[k][1] # 0 /\ keys[k][1] <= T
  PROVE  /\ Tidy(TruncateDangling(keys)) /\ TruncateDangling(keys) \in Seq(Keys)
         /\ \A k \in 1..Len(TruncateDangling(keys)) : TruncateDangling(keys)[k][1] # 0
<1> DEFINE msgs == Contents(keys)
           open == {k \in 1..Len(keys) : /\ msgs[k].role = "assistant"
                                         /\ ~(msgs[k].calls \subseteq Answered(msgs))}
           out  == TruncateDangling(keys)
<1>1. /\ DOMAIN msgs = 1..Len(keys) /\ Len(keys) \in Nat
      /\ \A k \in 1..Len(keys) : msgs[k] = MessageOf(keys[k])
  BY DEF Contents
<1>2. ASSUME NEW k \in 1..Len(keys)
      PROVE  /\ keys[k] \in Keys /\ keys[k] = <<keys[k][1], keys[k][2]>>
             /\ keys[k][1] \in 1..Len(batches) /\ keys[k][2] \in 1..Len(batches[keys[k][1]])
             /\ keys[k][1] \in Nat /\ keys[k][2] \in Nat
             /\ batches[keys[k][1]] \in Seq(Messages) /\ IsTurn(keys[k][1], batches[keys[k][1]])
             /\ msgs[k] = batches[keys[k][1]][keys[k][2]]
  <2>1. keys[k] \in Keys /\ keys[k][1] # 0
    OBVIOUS
  <2>2. keys[k][1] \in 1..Len(batches) /\ keys[k][2] \in 1..Len(batches[keys[k][1]])
    BY <2>1 DEF TidyBut
  <2>3. keys[k] = <<keys[k][1], keys[k][2]>> /\ keys[k][1] \in Nat /\ keys[k][2] \in Nat
    BY <2>1 DEF Keys
  <2>4. batches[keys[k][1]] \in Seq(Messages) /\ IsTurn(keys[k][1], batches[keys[k][1]])
    BY <2>2 DEF Turns
  <2>5. msgs[k] = batches[keys[k][1]][keys[k][2]]
    BY <1>1, <2>1 DEF MessageOf
  <2>6. QED  BY <2>1, <2>2, <2>3, <2>4, <2>5
<1>3. Ordered(keys)
  BY DEF TidyBut
\* A result that is there answers its call.
<1>4. ASSUME NEW t \in Nat, NEW h \in 3..Len(batches[t]), t \in 1..Len(batches), batches[t][h].role = "tool", Has(keys, t, h)
      PROVE  <<t, h - 2>> \in Answered(msgs)
  <2>1. PICK n \in 1..Len(keys) : keys[n] = <<t, h>>
    BY <1>4 DEF Has
  <2>2. msgs[n] = batches[t][h]
    BY <1>2, <2>1
  <2>3. batches[t] \in Seq(Messages) /\ IsTurn(t, batches[t])
    BY <1>4 DEF Turns
  <2>4. h \in 1..Len(batches[t])
    BY <2>3
  <2>5. batches[t][h].call = <<t, h - 2>>
    BY <1>4, <2>3, <2>4, PlaceSays
  <2>6. msgs[n].role = "tool" /\ msgs[n].call = <<t, h - 2>>
    BY <1>4, <2>2, <2>5
  <2>7. QED  BY <1>1, <2>6 DEF Answered
<1> HIDE DEF msgs
<1>5. CASE out = keys /\ (open = {} \/ \E k \in Users(keys) : \A m \in open : k > m)
  <2>1. ASSUME NEW k \in 1..Len(keys), keys[k][1] = T, keys[k][2] >= 2,
               NEW h \in 1..Len(batches[T]), batches[T][h].role = "tool", ~Has(keys, T, h)
        PROVE  FALSE
    <3>1. /\ T \in 1..Len(batches) /\ batches[T] \in Seq(Messages) /\ IsTurn(T, batches[T])
      BY <1>2, <2>1
    <3>2. h >= 3 /\ batches[T][h].call = <<T, h - 2>> /\ batches[T][2].role = "assistant" /\ <<T, h - 2>> \in batches[T][2].calls
      BY <2>1, <3>1, PlaceSays
    <3>3. PICK q \in 1..Len(keys) : keys[q] = <<T, 2>>
      <4>1. CASE keys[k][2] = 2
        BY <1>2, <2>1, <4>1
      <4>2. CASE keys[k][2] # 2
        <5>1. 2 \in 1..(keys[k][2] - 1) /\ keys[k][1] # 0
          BY <1>2, <2>1, <4>2
        <5>2. Has(keys, T, 2)
          BY <2>1, <5>1 DEF TidyBut
        <5>3. QED  BY <5>2 DEF Has
      <4>3. QED  BY <4>1, <4>2
    <3>4. msgs[q] = batches[T][2]
      BY <1>2, <3>3
    <3>5. <<T, h - 2>> \notin Answered(msgs)
      <4>1. SUFFICES ASSUME <<T, h - 2>> \in Answered(msgs) PROVE FALSE
        OBVIOUS
      <4>2. PICK r \in 1..Len(keys) : msgs[r].role = "tool" /\ msgs[r].call = <<T, h - 2>>
        BY <1>1, <4>1 DEF Answered
      <4>3. msgs[r].call = <<keys[r][1], keys[r][2] - 2>>
        <5> DEFINE t == keys[r][1]
                   b == batches[t]
                   i == keys[r][2]
        <5>1. b \in Seq(Messages) /\ IsTurn(t, b) /\ i \in 1..Len(b) /\ msgs[r] = b[i]
          BY <1>2
        <5> HIDE DEF t, b, i
        <5>2. b[i].role = "tool" => b[i].call = <<t, i - 2>>
          BY <5>1, PlaceSays
        <5>3. msgs[r].call = <<t, i - 2>>
          BY <4>2, <5>1, <5>2
        <5>4. QED  BY <5>3 DEF t, i
      <4>4. <<keys[r][1], keys[r][2] - 2>> = <<T, h - 2>>
        BY <4>2, <4>3
      <4>5. keys[r][1] = T /\ keys[r][2] - 2 = h - 2
        BY <4>4
      <4>6. keys[r] = <<T, h>>
        BY <1>2, <3>1, <3>2, <4>5
      <4>7. QED  BY <2>1, <4>6 DEF Has
    <3>6. q \in open
      BY <3>2, <3>4, <3>5
    <3>7. PICK v \in Users(keys) : v > q
      BY <1>5, <3>6
    <3>8. v \in 1..Len(keys) /\ keys[v][2] = 1
      <4>1. keys[v][1] # 0
        BY DEF Users
      <4>2. QED  BY <4>1, UsersAre
    <3>9. Precedes(keys[q], keys[v])
      BY <1>3, <3>7, <3>8 DEF Ordered
    <3>10. keys[v][1] <= T /\ keys[v][1] \in Nat
      BY <1>2, <3>8
    <3>11. QED  BY <3>3, <3>8, <3>9, <3>10 DEF Precedes
  <2>2. Tidy(keys)
    BY <2>1 DEF Tidy, TidyBut
  <2>3. QED  BY <1>5, <2>2
<1>6. CASE \E m \in open : out = SubSeq(keys, 1, m - 1)
  <2>1. PICK m \in open : out = SubSeq(keys, 1, m - 1)
    BY <1>6
  <2>2. m \in 1..Len(keys) /\ msgs[m].role = "assistant" /\ ~(msgs[m].calls \subseteq Answered(msgs))
    OBVIOUS
  <2>3. /\ out \in Seq(Keys) /\ Len(out) = m - 1
        /\ \A n \in 1..(m - 1) : out[n] = keys[n] /\ n \in 1..Len(keys)
    BY <1>1, <2>1, <2>2
  <2> HIDE DEF open, out
  <2>4. keys[m][1] = T /\ keys[m][2] = 2
    <3> DEFINE t == keys[m][1]
               b == batches[t]
    <3>1. PICK x \in msgs[m].calls : x \notin Answered(msgs)
      BY <2>2
    <3>2. msgs[m] = b[keys[m][2]] /\ keys[m][2] \in 1..Len(b) /\ b \in Seq(Messages) /\ IsTurn(t, b) /\ t \in 1..Len(batches)
      BY <1>2, <2>2
    <3>3. b[keys[m][2]].role = "assistant" => \A y \in b[keys[m][2]].calls :
              keys[m][2] = 2 /\ \E j \in 3..Len(b) : /\ y = <<t, j - 2>>
                                            /\ \A g \in 3..j : b[g].role = "tool"
      <4> DEFINE i == keys[m][2]
      <4>1. i \in 1..Len(b)
        BY <3>2
      <4> HIDE DEF t, b, i
      <4>2. b[i].role = "assistant" => \A y \in b[i].calls :
              i = 2 /\ \E j \in 3..Len(b) : y = <<t, j - 2>> /\ \A g \in 3..j : b[g].role = "tool"
        BY <3>2, <4>1, PlaceSays
      <4>3. QED  BY <4>2 DEF i
    <3>4. keys[m][2] = 2 /\ \E j \in 3..Len(b) : x = <<t, j - 2>> /\ \A g \in 3..j : b[g].role = "tool"
      BY <2>2, <3>1, <3>2, <3>3
    <3>5. PICK j \in 3..Len(b) : x = <<t, j - 2>> /\ \A g \in 3..j : b[g].role = "tool"
      BY <3>4
    <3>6. j \in 3..j /\ j \in 1..Len(b) /\ t \in Nat
      BY <3>2
    <3>7. b[j].role = "tool"
      BY <3>5, <3>6
    <3>8. ~Has(keys, t, j)
      BY <1>4, <3>1, <3>2, <3>5, <3>6, <3>7
    <3>9. t # 0
      BY <2>2
    <3>10. t = T
      <4>1. t # T /\ keys[m][2] >= 2 =>
              \A h \in 1..Len(b) : b[h].role = "tool" => Has(keys, t, h)
        BY <2>2, <3>9 DEF TidyBut
      <4>2. keys[m][2] >= 2
        BY <3>4
      <4> HIDE DEF t, b
      <4>3. QED  BY <3>6, <3>7, <3>8, <4>1, <4>2
    <3>11. QED  BY <3>4, <3>10
  <2>5. Ordered(out)
    BY <1>3, <2>3 DEF Ordered
  \* What comes before is there, and a result before the newest turn's calls.
  <2>6. ASSUME NEW k \in 1..(m - 1), NEW h \in Nat, Has(keys, keys[k][1], h),
               h < keys[k][2] \/ keys[k][1] # T
        PROVE  Has(out, keys[k][1], h)
    <3>1. PICK n \in 1..Len(keys) : keys[n] = <<keys[k][1], h>>
      BY <2>6 DEF Has
    <3>2. k \in 1..Len(keys) /\ k < m /\ k \in Int /\ m \in Int /\ n \in Int
      BY <2>2, <2>3
    <3>3. Precedes(keys[n], keys[m])
      <4>1. keys[n][1] = keys[k][1] /\ keys[n][2] = h
        BY <3>1
      <4>2. Precedes(keys[k], keys[m])
        BY <1>3, <2>2, <3>2 DEF Ordered
      <4>3. keys[k][1] \in Nat /\ keys[k][2] \in Nat /\ keys[k][1] <= T
        BY <1>2, <3>2
      <4>4. QED  BY <2>4, <2>6, <4>1, <4>2, <4>3 DEF Precedes
    <3>4. n < m
      BY <1>3, <2>2, <3>3, OrderedPlaces
    <3>5. n \in 1..(m - 1)
      BY <3>2, <3>4
    <3>6. QED  BY <2>3, <3>1, <3>5 DEF Has
  <2>7. ASSUME NEW k \in 1..Len(out)
        PROVE  LET t == out[k][1]
                   i == out[k][2]
               IN  /\ t # 0 /\ t \in 1..Len(batches) /\ i \in 1..Len(batches[t])
                   /\ \A h \in 1..(i - 1) : Has(out, t, h)
                   /\ t # 0 /\ i >= 2 =>
                        \A h \in 1..Len(batches[t]) : batches[t][h].role = "tool" => Has(out, t, h)
    <3>1. k \in 1..(m - 1) /\ k \in 1..Len(keys) /\ out[k] = keys[k] /\ k < m
      BY <2>2, <2>3
    <3> DEFINE t == keys[k][1]
               i == keys[k][2]
    <3>2. /\ t # 0 /\ t \in 1..Len(batches) /\ i \in 1..Len(batches[t])
          /\ \A h \in 1..(i - 1) : Has(keys, t, h)
          /\ t # T /\ i >= 2 =>
               \A h \in 1..Len(batches[t]) : batches[t][h].role = "tool" => Has(keys, t, h)
      BY <3>1 DEF TidyBut
    <3>3. ASSUME NEW h \in 1..(i - 1)  PROVE Has(out, t, h)
      <4>1. h \in Nat /\ h < i
        BY <1>2, <3>1
      <4>2. QED  BY <2>6, <3>1, <3>2, <4>1
    <3>4. ASSUME i >= 2, NEW h \in 1..Len(batches[t]), batches[t][h].role = "tool"
          PROVE  Has(out, t, h)
      <4>1. t # T
        <5>1. Precedes(keys[k], keys[m])
          BY <1>3, <2>2, <3>1 DEF Ordered
        <5>2. t \in Nat /\ i \in Nat /\ T \in Nat
          BY <1>2, <3>1
        <5>3. QED  BY <2>4, <3>4, <5>1, <5>2 DEF Precedes
      <4>2. Has(keys, t, h)
        BY <3>2, <3>4, <4>1
      <4>3. h \in Nat
        BY <1>2, <3>1
      <4>4. QED  BY <2>6, <3>1, <4>1, <4>2, <4>3
    <3>5. QED  BY <3>1, <3>2, <3>3, <3>4
  <2>8. Tidy(out)
    BY <2>5, <2>7 DEF Tidy, TidyBut
  <2>9. QED  BY <2>3, <2>7, <2>8 DEF out
<1>7. \/ out = keys /\ (open = {} \/ \E k \in Users(keys) : \A m \in open : k > m)
      \/ \E m \in open : out = SubSeq(keys, 1, m - 1)
  BY TruncateIs DEF msgs
<1> QED  BY <1>5, <1>6, <1>7

-----------------------------------------------------------------------------
(***************************************************************************)
(* The inductive invariant                                                 *)
(***************************************************************************)
Statuses == {"open", "kept", "cut", "deleted"}
Metas == [state : {"none", "ok", "broken"}, count : Nat]

Excused(t, i) == i = 1 /\ t > 1 /\ Cut(t - 1)
ReadBack(t, i) == \E l \in Good : lines[l][1].key = <<t, i>>
ComesBack(t, i) == ReadBack(t, i) \/ Excused(t, i)
Written(t) == IF fates[t] = "open" THEN Len(batches[t]) - Len(pending) ELSE Len(batches[t])

\* The newest turn is open while it is written, and no other.
TurnsSound ==
  /\ Turns /\ Len(batches) <= MaxAppends
  /\ fates \in Seq(Statuses) /\ Len(fates) = Len(batches)
  /\ \A t \in 1..Len(fates) : fates[t] = "open" <=> Writing /\ t = Len(fates)
  /\ Writing => Len(fates) >= 1

\* What waits is the rest of the newest turn.
RestWaits ==
  Writing =>
    LET T == Len(batches)
    IN  /\ Len(pending) <= Len(batches[T])
        /\ \A n \in 1..Len(pending) : pending[n] = <<T, Len(batches[T]) - Len(pending) + n>>

\* What is in the file is some turn's, and what comes before it can be read.
FileSound ==
  \A l \in 1..Len(lines) :
    /\ lines[l] # << >>
    /\ \A n \in 1..Len(lines[l]) :
         LET t == lines[l][n].key[1]
             i == lines[l][n].key[2]
         IN  /\ t \in 1..Len(batches) /\ i \in 1..Len(batches[t])
             /\ fates[t] # "deleted" /\ i <= Written(t)
             /\ \A h \in 1..(i - 1) : ComesBack(t, h)

LinesInOrder ==
  \A l, m \in 1..Len(lines) : l < m =>
    \A n \in 1..Len(lines[l]), o \in 1..Len(lines[m]) : Precedes(lines[l][n].key, lines[m][o].key)

\* What was written of a turn that was not cut can be read.
WrittenSound ==
  \A t \in 1..Len(batches) : fates[t] \in {"kept", "open"} =>
    \A i \in 1..Written(t) : ComesBack(t, i)

\* A line without its end is of turns that were cut, the last one just now.
TornSound ==
  ~ended =>
    /\ lines # << >> /\ Len(fates) >= 1
    /\ \A n \in 1..Len(lines[Len(lines)]) : Cut(lines[Len(lines)][n].key[1])
    /\ IF Writing THEN Len(fates) > 1 /\ Cut(Len(fates) - 1) /\ Len(pending) = Len(batches[Len(batches)])
       ELSE Cut(Len(fates))

\* While nothing is cut, lines are messages and the count counts them, and those
\* whose lines a deletion took without the meta file.
CountSound ==
  (\A t \in 1..Len(fates) : ~Cut(t)) =>
    /\ ended /\ Good = 1..Len(lines)
    /\ Writing => countBefore + Written(Len(batches)) = Len(lines) + orphans
    /\ ~Writing /\ meta.state = "ok" => meta.count = Len(lines) + orphans

ArchiveSound ==
  /\ TurnsSound /\ RestWaits /\ FileSound /\ LinesInOrder
  /\ WrittenSound /\ TornSound /\ CountSound

\* Only a good meta file counts anything.
MetaSound == meta \in Metas /\ (meta.state # "ok" => meta.count = 0 /\ orphans = 0)

\* Only a process that runs writes.
WriterUp == Writing => app # "down"

IInv == TypeOK /\ MetaSound /\ WriterUp /\ ArchiveSound

(***************************************************************************)
(* What it implies                                                         *)
(***************************************************************************)
LEMMA LinesTyped ==
  ASSUME TypeOK
  PROVE  /\ lines \in Seq(Seq(Fragments)) /\ Len(lines) \in Nat /\ Good \in SUBSET (1..Len(lines))
         /\ \A l \in 1..Len(lines) :
              /\ lines[l] \in Seq(Fragments) /\ Len(lines[l]) \in Nat
              /\ \A n \in 1..Len(lines[l]) :
                   /\ lines[l][n] \in Fragments /\ lines[l][n].key \in Keys
                   /\ lines[l][n].key = <<lines[l][n].key[1], lines[l][n].key[2]>>
                   /\ lines[l][n].key[1] \in Nat /\ lines[l][n].key[2] \in Nat \ {0}
         /\ \A l \in Good : lines[l] \in Seq(Fragments) /\ Len(lines[l]) = 1 /\ lines[l][1].part = "whole"
<1>1. lines \in Seq(Seq(Fragments))
  BY DEF TypeOK
<1>2. \A f \in Fragments : f.key \in Keys
  BY DEF Fragments
<1>3. \A key \in Keys : key = <<key[1], key[2]>> /\ key[1] \in Nat /\ key[2] \in Nat \ {0}
  BY Limits DEF Keys
<1>4. ASSUME NEW l \in 1..Len(lines)  PROVE lines[l] \in Seq(Fragments) /\ Len(lines[l]) \in Nat
  BY <1>1
<1>5. ASSUME NEW l \in 1..Len(lines), NEW n \in 1..Len(lines[l])  PROVE lines[l][n] \in Fragments
  BY <1>4
<1>6. Len(lines) \in Nat /\ Good \in SUBSET (1..Len(lines))
  BY <1>1 DEF Good
<1>7. \A l \in Good : Len(lines[l]) = 1 /\ lines[l][1].part = "whole"
  BY DEF Good, Parses
<1> QED  BY <1>1, <1>2, <1>3, <1>4, <1>5, <1>6, <1>7

\* Read back means read, in order.
LEMMA ReadIs ==
  ASSUME TypeOK, LinesInOrder
  PROVE  /\ Parsed \in Seq(Keys) /\ Ordered(Parsed)
         /\ \A k \in 1..Len(Parsed) : \E l \in Good : Parsed[k] = lines[l][1].key
         /\ \A t, i : ReadBack(t, i) => Has(Parsed, t, i)
<1>1. lines \in Seq(Seq(Fragments))
  BY DEF TypeOK
<1>2. ASSUME NEW i \in 1..Len(Parsed), NEW j \in 1..Len(Parsed), i < j
      PROVE  Precedes(Parsed[i], Parsed[j])
  <2>1. PICK l, m \in Good : l < m /\ Parsed[i] = lines[l][1].key /\ Parsed[j] = lines[m][1].key
    BY <1>1, <1>2, ParsedIs
  <2>2. l \in 1..Len(lines) /\ m \in 1..Len(lines) /\ Len(lines[l]) = 1 /\ Len(lines[m]) = 1
    BY LinesTyped
  <2>3. 1 \in 1..Len(lines[l]) /\ 1 \in 1..Len(lines[m])
    BY <2>2
  <2>4. Precedes(lines[l][1].key, lines[m][1].key)
    BY <2>1, <2>2, <2>3 DEF LinesInOrder
  <2>5. QED  BY <2>1, <2>4
<1>3. Ordered(Parsed)
  BY <1>2 DEF Ordered
<1>4. ASSUME NEW t, NEW i, ReadBack(t, i)  PROVE Has(Parsed, t, i)
  <2>1. PICK l \in Good : lines[l][1].key = <<t, i>>
    BY <1>4 DEF ReadBack
  <2>2. PICK n \in 1..Len(Parsed) : Parsed[n] = lines[l][1].key
    BY <1>1, ParsedIs
  <2>3. QED  BY <2>1, <2>2 DEF Has
<1> QED  BY <1>1, <1>3, <1>4, ParsedIs

LEMMA TearCosts ==
  ASSUME TypeOK, ArchiveSound
  PROVE  TearCostsOneLine
<1>1. /\ TurnsSound /\ WrittenSound /\ LinesInOrder /\ CountSound
  BY DEF ArchiveSound
<1>2. batches \in Seq(Seq(Messages)) /\ Len(fates) = Len(batches) /\ fates \in Seq(Statuses)
  BY <1>1 DEF TurnsSound, Turns
<1>3. DOMAIN batches = 1..Len(batches) /\ DOMAIN fates = 1..Len(fates)
  BY <1>2
<1>4. Parsed \in Seq(Keys) /\ Ordered(Parsed) /\ \A t, i : ReadBack(t, i) => Has(Parsed, t, i)
  BY <1>1, ReadIs
<1>5. ASSUME NEW t \in DOMAIN batches, Kept(t), NEW key \in Range(KeysOf(t)) \ Range(Parsed)
      PROVE  key[2] = 1 /\ t > 1 /\ Cut(t - 1)
  <2>1. batches[t] \in Seq(Messages) /\ t \in 1..Len(batches) /\ fates[t] = "kept"
    BY <1>2, <1>3, <1>5 DEF Kept
  <2>2. PICK i \in 1..Len(batches[t]) : key = <<t, i>>
    <3>1. DOMAIN KeysOf(t) = 1..Len(batches[t]) /\ \A i \in 1..Len(batches[t]) : KeysOf(t)[i] = <<t, i>>
      BY <2>1 DEF KeysOf
    <3>2. QED  BY <1>5, <3>1 DEF Range
  <2>3. ~Has(Parsed, t, i)
    <3>1. DOMAIN Parsed = 1..Len(Parsed)
      BY <1>4
    <3>2. QED  BY <1>5, <2>2, <3>1 DEF Has, Range
  <2>4. i \in 1..Written(t)
    BY <2>1 DEF Written
  <2>5. ComesBack(t, i)
    BY <1>1, <2>1, <2>4 DEF WrittenSound
  <2>6. Excused(t, i)
    BY <1>4, <2>3, <2>5 DEF ComesBack
  <2>7. QED  BY <2>2, <2>6 DEF Excused
<1>6. ASSUME NEW i \in 2..Len(Parsed)
      PROVE  \/ Parsed[i - 1][1] < Parsed[i][1]
             \/ Parsed[i - 1][1] = Parsed[i][1] /\ Parsed[i - 1][2] < Parsed[i][2]
  <2>1. i - 1 \in 1..Len(Parsed) /\ i \in 1..Len(Parsed) /\ i - 1 < i
    BY <1>4
  <2>2. QED  BY <1>4, <2>1 DEF Ordered, Precedes
<1>7. ASSUME ~Writing, meta.state = "ok", \A t \in DOMAIN fates : ~Cut(t)
      PROVE  meta.count = Len(Parsed) + orphans
  <2>1. Good = 1..Len(lines) /\ meta.count = Len(lines) + orphans
    BY <1>1, <1>3, <1>7 DEF CountSound
  <2>2. lines \in Seq(Seq(Fragments)) /\ Len(lines) \in Nat
    BY LinesTyped
  <2>3. Len(Parsed) = Cardinality(Good)
    BY <2>2, ParsedIs
  <2>4. Cardinality(1..Len(lines)) = Len(lines)
    <3>1. Cardinality(1..Len(lines)) = IF 1 > Len(lines) THEN 0 ELSE Len(lines) - 1 + 1
      <4>1. 1 \in Int /\ Len(lines) \in Int
        BY <2>2
      <4>2. QED  BY <4>1, FS_Interval
    <3>2. QED  BY <2>2, <3>1
  <2>5. QED  BY <2>1, <2>3, <2>4
<1> QED  BY <1>5, <1>6, <1>7 DEF TearCostsOneLine

\* Only the newest turn may be incomplete in what is read.
LEMMA ReadTidy ==
  ASSUME TypeOK, ArchiveSound, ~Writing, \A t \in DOMAIN fates : Cut(t) => t = Len(fates)
  PROVE  /\ Parsed \in Seq(Keys) /\ TidyBut(Parsed, Len(fates))
         /\ \A k \in 1..Len(Parsed) : Parsed[k][1] # 0 /\ Parsed[k][1] <= Len(fates)
<1>1. /\ TurnsSound /\ WrittenSound /\ LinesInOrder /\ FileSound
  BY DEF ArchiveSound
<1>2. batches \in Seq(Seq(Messages)) /\ Len(fates) = Len(batches) /\ fates \in Seq(Statuses) /\ Len(fates) \in Nat
  BY <1>1 DEF TurnsSound, Turns
<1>3. /\ Parsed \in Seq(Keys) /\ Ordered(Parsed)
      /\ \A k \in 1..Len(Parsed) : \E l \in Good : Parsed[k] = lines[l][1].key
      /\ \A t, i : ReadBack(t, i) => Has(Parsed, t, i)
  BY <1>1, ReadIs
<1>4. ASSUME NEW t \in 1..Len(batches), NEW i, ComesBack(t, i)  PROVE Has(Parsed, t, i)
  <2>1. ~Excused(t, i)
    <3>1. SUFFICES ASSUME t > 1, Cut(t - 1) PROVE FALSE
      BY DEF Excused
    <3>2. t - 1 \in DOMAIN fates /\ t - 1 # Len(fates)
      BY <1>2, <3>1
    <3>3. QED  BY <3>1, <3>2
  <2>2. QED  BY <1>3, <1>4, <2>1 DEF ComesBack
<1>5. ASSUME NEW k \in 1..Len(Parsed)
      PROVE  LET t == Parsed[k][1]
                 i == Parsed[k][2]
             IN  /\ t # 0 /\ t <= Len(fates) /\ t \in 1..Len(batches) /\ i \in 1..Len(batches[t])
                 /\ \A h \in 1..(i - 1) : Has(Parsed, t, h)
                 /\ t # Len(fates) /\ i >= 2 =>
                      \A h \in 1..Len(batches[t]) : batches[t][h].role = "tool" => Has(Parsed, t, h)
  <2>1. PICK l \in Good : Parsed[k] = lines[l][1].key
    BY <1>3
  <2>2. l \in 1..Len(lines) /\ 1 \in 1..Len(lines[l])
    BY LinesTyped
  <2> DEFINE t == lines[l][1].key[1]
             i == lines[l][1].key[2]
  <2>3. /\ t \in 1..Len(batches) /\ i \in 1..Len(batches[t]) /\ fates[t] # "deleted"
        /\ \A h \in 1..(i - 1) : ComesBack(t, h)
    BY <1>1, <2>2 DEF FileSound
  <2>4. t # 0 /\ t <= Len(fates)
    BY <1>2, <2>3
  <2>5. \A h \in 1..(i - 1) : Has(Parsed, t, h)
    BY <1>4, <2>3
  <2>6. ASSUME t # Len(fates), NEW h \in 1..Len(batches[t])  PROVE Has(Parsed, t, h)
    <3>1. fates[t] \in Statuses /\ t \in DOMAIN fates /\ t \in 1..Len(fates)
      BY <1>2, <2>3
    <3>2. fates[t] # "open" /\ fates[t] # "cut"
      BY <1>1, <2>6, <3>1 DEF TurnsSound, Cut
    <3>3. fates[t] = "kept"
      BY <2>3, <3>1, <3>2 DEF Statuses
    <3>4. h \in 1..Written(t)
      BY <2>6, <3>3 DEF Written
    <3>5. ComesBack(t, h)
      BY <1>1, <2>3, <3>3, <3>4 DEF WrittenSound
    <3>6. QED  BY <1>4, <2>3, <3>5
  <2>7. QED  BY <2>1, <2>3, <2>4, <2>5, <2>6
<1> QED  BY <1>3, <1>5 DEF TidyBut

LEMMA ResumedClean ==
  ASSUME TypeOK, ArchiveSound
  PROVE  ResumeClean
<1>1. SUFFICES ASSUME ~Writing, \A t \in DOMAIN fates : Cut(t) => t = Len(fates),
                      NEW keys \in {Recovered} \cup Shrunk(Recovered)
               PROVE  WellFormed(Contents(keys)) /\ Dangling(Contents(keys)) = {}
  BY DEF ResumeClean
<1>2. /\ Parsed \in Seq(Keys) /\ TidyBut(Parsed, Len(fates))
      /\ \A k \in 1..Len(Parsed) : Parsed[k][1] # 0 /\ Parsed[k][1] <= Len(fates)
  BY <1>1, ReadTidy
<1>3. Turns /\ Len(fates) \in Nat
  BY DEF ArchiveSound, TurnsSound
<1>4. /\ Tidy(Recovered) /\ Recovered \in Seq(Keys)
      /\ \A k \in 1..Len(Recovered) : Recovered[k][1] # 0
  BY <1>2, <1>3, TruncatedTidy DEF Recovered
<1>5. CASE keys = Recovered
  BY <1>3, <1>4, <1>5, TidyIsClean
<1>6. CASE keys # Recovered
  <2>1. keys \in Shrunk(Recovered)
    BY <1>6
  <2>2. PICK u \in Users(Recovered) :
          keys \in {<<Boundary>> \o From(Recovered, u), <<Summary, Boundary>> \o From(Recovered, u)}
    BY <1>4, <1>6, <2>1, ShrunkIs
  <2>3. PICK lead \in {<<Boundary>>, <<Summary, Boundary>>} : keys = lead \o From(Recovered, u)
    BY <2>2
  <2>4. Tidy(keys) /\ keys \in Seq(Keys)
    BY <1>3, <1>4, <2>3, SuffixTidy
  <2>5. QED  BY <1>3, <2>4, TidyIsClean
<1> QED  BY <1>5, <1>6

\* A user message with one before it is one that is not the first.
LEMMA CutsAre ==
  ASSUME NEW keys \in Seq(Keys)
  PROVE  /\ Users(keys) \in SUBSET (1..Len(keys)) /\ Len(keys) \in Nat
         /\ \A u \in Users(keys) :
              /\ (\E v \in Users(keys) : v < u) <=> u > Min(Users(keys))
              /\ (\E v \in Users(keys) : v < u) <=> u # Min(Users(keys))
<1> DEFINE users == Users(keys)
<1>1. users \in SUBSET (1..Len(keys)) /\ Len(keys) \in Nat
  BY DEF Users
<1> HIDE DEF users
<1>2. ASSUME NEW u \in users
      PROVE  /\ (\E v \in users : v < u) <=> u > Min(users)
             /\ (\E v \in users : v < u) <=> u # Min(users)
  <2>1. Min(users) \in users /\ \A v \in users : Min(users) <= v
    BY <1>1, <1>2, MinIn
  <2>2. \A v \in users : v \in Int
    BY <1>1
  <2>3. QED  BY <1>2, <2>1, <2>2
<1> QED  BY <1>1, <1>2 DEF users

\* The last cut that fits is the newest turn if that fits, for earlier cuts
\* leave more.
LEMMA DropKeepsOne ==
  ASSUME NEW keys \in Seq(Keys), NEW u \in Users(keys), \E v \in Users(keys) : v < u,
         \A w \in Users(keys) : (\E v \in Users(keys) : v < w) => w <= u
  PROVE  DropOldestTurns(keys) = IF Len(From(keys, u)) <= Target
                                 THEN <<Boundary>> \o From(keys, u) ELSE keys
<1> DEFINE users == Users(keys)
           fits  == {w \in users : w > Min(users) /\ Len(From(keys, w)) <= Target}
<1>1. DropOldestTurns(keys) = IF fits = {} THEN keys ELSE <<Boundary>> \o From(keys, Max(fits))
  BY DEF DropOldestTurns
<1>2. fits \in SUBSET (1..Len(keys)) /\ Len(keys) \in Nat /\ users \in SUBSET (1..Len(keys))
  BY CutsAre
<1>3. u > Min(users) /\ \A w \in fits : w <= u
  BY CutsAre
<1>4. \A w \in 1..Len(keys) : Len(From(keys, w)) = Len(keys) - w + 1
  BY FromIs
<1>5. CASE Len(From(keys, u)) <= Target
  <2>1. u \in fits
    BY <1>3, <1>5
  <2>2. fits # {}
    BY <2>1
  <2> HIDE DEF fits
  <2>3. Max(fits) \in fits /\ \A w \in fits : w <= Max(fits)
    BY <1>2, <2>1, MaxIn
  <2>4. Max(fits) <= u /\ u <= Max(fits)
    BY <1>3, <2>1, <2>3
  <2>5. u \in fits /\ Max(fits) \in fits
    BY <2>1, <2>3
  <2>6. \A w \in fits : w \in Int
    BY <1>2
  <2>7. Max(fits) = u
    BY <2>4, <2>5, <2>6
  <2>8. QED  BY <1>1, <1>5, <2>2, <2>7
<1>6. CASE ~(Len(From(keys, u)) <= Target)
  <2>1. SUFFICES ASSUME NEW w \in fits PROVE FALSE
    BY <1>1, <1>6
  <2>2. w \in 1..Len(keys) /\ u \in 1..Len(keys) /\ w <= u /\ Len(From(keys, w)) <= Target
    BY <1>2, <1>3
  <2>3. QED  BY <1>2, <1>4, <1>6, <2>2, Limits
<1> QED  BY <1>5, <1>6

LEMMA NewestKept ==
  ASSUME TypeOK
  PROVE  ShrinkKeepsNewest
<1> DEFINE r == Recovered
           cuts == {u \in Users(r) : \E v \in Users(r) : v < u}
<1>1. r \in Seq(Keys)
  BY RecoveredTyped DEF TypeOK
<1> HIDE DEF r
<1>2. ASSUME Compressible(r)
      PROVE  \E u \in cuts : /\ Len(From(r, u)) <= Target
                             /\ \A v \in cuts : Len(From(r, v)) <= Target => u <= v
                             /\ Compressed(r) = <<Summary, Boundary>> \o From(r, u)
  <2>1. PICK u \in Users(r) :
          /\ Len(From(r, u)) <= Target
          /\ Compressed(r) = <<Summary, Boundary>> \o From(r, u)
          /\ u # Min(Users(r))
          /\ \A v \in Users(r) \ {Min(Users(r))} : Len(From(r, v)) <= Target => u <= v
    BY <1>1, <1>2, CompressedIs
  <2>2. \A v \in Users(r) : v \in cuts <=> v # Min(Users(r))
    BY <1>1, CutsAre
  <2>3. u \in cuts /\ cuts \subseteq Users(r) \ {Min(Users(r))}
    BY <2>1, <2>2
  <2>4. QED  BY <2>1, <2>3
<1>3. ASSUME NEW u \in cuts, \A v \in cuts : v <= u
      PROVE  DropOldestTurns(r) = IF Len(From(r, u)) <= Target THEN <<Boundary>> \o From(r, u) ELSE r
  BY <1>1, <1>3, DropKeepsOne
<1> QED  BY <1>2, <1>3 DEF ShrinkKeepsNewest, r

-----------------------------------------------------------------------------
(***************************************************************************)
(* Every step keeps it                                                     *)
(***************************************************************************)
LEMMA Appended ==
  ASSUME NEW S, NEW s \in Seq(S), NEW e \in S
  PROVE  /\ Append(s, e) \in Seq(S) /\ Len(Append(s, e)) = Len(s) + 1 /\ Append(s, e)[Len(s) + 1] = e
         /\ \A l \in 1..Len(s) : Append(s, e)[l] = s[l]
OBVIOUS

LEMMA Replaced ==
  ASSUME NEW S, NEW s \in Seq(S), NEW n \in 1..Len(s), NEW e \in S
  PROVE  /\ [s EXCEPT ![n] = e] \in Seq(S) /\ Len([s EXCEPT ![n] = e]) = Len(s)
         /\ [s EXCEPT ![n] = e][n] = e
         /\ \A l \in 1..Len(s) : l # n => [s EXCEPT ![n] = e][l] = s[l]
OBVIOUS

InFile(key) == \E m \in 1..Len(lines) : \E o \in 1..Len(lines[m]) : lines[m][o].key = key

\* One more fragment: on a line of its own, or on the torn line.
LEMMA Glued ==
  ASSUME TypeOK, ArchiveSound, Writing, pending # << >>,
         NEW part \in {"whole", "cut", "garbled"},
         lines' = Glue(Fragment(Head(pending), part))
  PROVE  LET T == Len(batches)
             p == Head(pending)
         IN  /\ lines' \in Seq(Seq(Fragments)) /\ lines' # << >>
             /\ T \in 1..Len(batches) /\ p = <<T, Written(T) + 1>> /\ p[2] \in 1..Len(batches[T])
             /\ ended \/ (Written(T) = 0 /\ T > 1 /\ Cut(T - 1))
             \* what is in the file
             /\ \A l \in 1..Len(lines') :
                  /\ lines'[l] # << >>
                  /\ \A n \in 1..Len(lines'[l]) :
                       \/ lines'[l][n].key = p
                       \/ InFile(lines'[l][n].key)
             /\ LinesInOrder'
             \* what can be read of it
             /\ \A t, i : ReadBack(t, i) /\ (~Cut(t) \/ \E j \in Nat : i < j /\ InFile(<<t, j>>))
                  => ReadBack(t, i)'
             /\ ended /\ part = "whole" => \A t, i : p = <<t, i>> => ReadBack(t, i)'
             /\ ended /\ part = "whole" /\ Good = 1..Len(lines) =>
                  Good' = 1..Len(lines') /\ Len(lines') = Len(lines) + 1
             \* the last line
             /\ \A n \in 1..Len(lines'[Len(lines')]) :
                  \/ lines'[Len(lines')][n].key = p
                  \/ ~ended /\ Cut(lines'[Len(lines')][n].key[1])
<1> DEFINE T == Len(batches)
           p == Head(pending)
           f == Fragment(p, part)
           N == Len(lines)
<1>1. TurnsSound /\ RestWaits /\ FileSound /\ LinesInOrder /\ TornSound
  BY DEF ArchiveSound
<1>2. /\ batches \in Seq(Seq(Messages)) /\ Len(fates) = Len(batches) /\ fates \in Seq(Statuses)
      /\ T \in 1..Len(batches) /\ T \in Nat /\ T <= MaxAppends /\ fates[T] = "open"
      /\ batches[T] \in Seq(Messages) /\ Len(batches[T]) \in Nat
  BY <1>1, Limits DEF TurnsSound, Turns
<1>3. pending \in Seq(Keys) /\ Len(pending) \in Nat \ {0} /\ Len(pending) <= Len(batches[T]) /\ p = pending[1] /\ p \in Keys
  BY <1>1 DEF TypeOK, RestWaits
<1>4. Written(T) = Len(batches[T]) - Len(pending) /\ Written(T) \in Nat
  BY <1>2, <1>3 DEF Written
<1>5. p = <<T, Written(T) + 1>> /\ p[1] = T /\ p[2] = Written(T) + 1 /\ p[2] \in 1..Len(batches[T])
  <2>1. 1 \in 1..Len(pending)
    BY <1>3
  <2>2. pending[1] = <<T, Len(batches[T]) - Len(pending) + 1>>
    BY <1>1, <2>1 DEF RestWaits
  <2>3. p = <<T, Written(T) + 1>>
    BY <1>3, <1>4, <2>2
  <2>4. Written(T) + 1 \in 1..Len(batches[T])
    BY <1>2, <1>3, <1>4
  <2>5. QED  BY <2>3, <2>4
<1>6. ended \/ (Written(T) = 0 /\ T > 1 /\ Cut(T - 1))
  BY <1>1, <1>2, <1>3, <1>4 DEF TornSound
<1>7. f \in Fragments /\ f.key = p /\ f.part = part
  BY <1>3 DEF Fragment, Fragments
<1> HIDE DEF f, p, T
\* All keys in the file come before the next one.
<1>8. ASSUME NEW l \in 1..N, NEW n \in 1..Len(lines[l])  PROVE Precedes(lines[l][n].key, p)
  <2>1. /\ lines[l][n].key[1] \in 1..Len(batches)
        /\ lines[l][n].key[2] <= Written(lines[l][n].key[1])
    BY <1>1 DEF FileSound
  <2>2. lines[l][n].key[1] \in Nat /\ lines[l][n].key[2] \in Nat
    BY LinesTyped
  <2>3. lines[l][n].key[1] <= T
    BY <2>1 DEF T
  <2>4. CASE lines[l][n].key[1] = T
    BY <1>4, <1>5, <2>1, <2>2, <2>4 DEF Precedes
  <2>5. CASE lines[l][n].key[1] # T
    BY <1>2, <1>5, <2>2, <2>3, <2>5 DEF Precedes
  <2>6. QED  BY <2>4, <2>5
<1>9. CASE ended
  <2> DEFINE one == <<f>>
  <2>1. lines' = Append(lines, one)
    BY <1>9 DEF Glue, f, p
  <2>2. one \in Seq(Fragments) /\ Len(one) = 1 /\ one[1] = f
    BY <1>7
  <2> HIDE DEF one
  <2>3. /\ lines' \in Seq(Seq(Fragments)) /\ Len(lines') = N + 1 /\ N \in Nat
        /\ lines'[N + 1] = one /\ \A l \in 1..N : lines'[l] = lines[l]
    <3>1. lines \in Seq(Seq(Fragments)) /\ N \in Nat
      BY LinesTyped
    <3>2. /\ Append(lines, one) \in Seq(Seq(Fragments)) /\ Len(Append(lines, one)) = Len(lines) + 1
          /\ Append(lines, one)[Len(lines) + 1] = one
          /\ \A l \in 1..Len(lines) : Append(lines, one)[l] = lines[l]
      BY <2>2, <3>1, Appended
    <3>3. QED  BY <2>1, <3>1, <3>2
  <2>4. \A l \in 1..Len(lines') : l \in 1..N \/ l = N + 1
    BY <2>3
  <2>5. ASSUME NEW l \in 1..Len(lines')
        PROVE  /\ lines'[l] # << >>
               /\ \A n \in 1..Len(lines'[l]) :
                    \/ lines'[l][n].key = p
                    \/ InFile(lines'[l][n].key)
    <3>1. CASE l \in 1..N
      BY <1>1, <2>3, <3>1 DEF FileSound, InFile
    <3>2. CASE l = N + 1
      <4>1. lines'[l] = one
        BY <2>3, <3>2
      <4>2. \A n \in 1..Len(lines'[l]) : lines'[l][n] = f
        BY <2>2, <4>1
      <4>3. lines'[l] # << >>
        BY <2>2, <4>1
      <4>4. QED  BY <1>7, <4>2, <4>3
    <3>3. QED  BY <2>4, <3>1, <3>2
  <2>6. LinesInOrder'
    <3>1. SUFFICES ASSUME NEW l \in 1..Len(lines'), NEW m \in 1..Len(lines'), l < m,
                          NEW n \in 1..Len(lines'[l]), NEW o \in 1..Len(lines'[m])
                   PROVE  Precedes(lines'[l][n].key, lines'[m][o].key)
      BY DEF LinesInOrder
    <3>2. l \in 1..N /\ lines'[l] = lines[l]
      BY <2>3, <2>4, <3>1
    <3>3. CASE m \in 1..N
      BY <1>1, <2>3, <3>1, <3>2, <3>3 DEF LinesInOrder
    <3>4. CASE m = N + 1
      <4>1. lines'[m][o] = f
        BY <2>2, <2>3, <3>4
      <4>2. QED  BY <1>7, <1>8, <3>2, <4>1
    <3>5. QED  BY <2>4, <3>3, <3>4
  <2>7. \A l \in 1..N : l \in Good <=> l \in Good'
    BY <2>3 DEF Good, Parses
  <2>8. part = "whole" => N + 1 \in Good'
    <3>1. N + 1 \in 1..Len(lines') /\ Len(lines'[N + 1]) = 1 /\ lines'[N + 1][1] = f
      BY <2>2, <2>3
    <3>2. DOMAIN lines' = 1..Len(lines')
      BY <2>3
    <3>3. QED  BY <1>7, <3>1, <3>2 DEF Good, Parses
  <2>9. ASSUME NEW t, NEW i, ReadBack(t, i)  PROVE ReadBack(t, i)'
    <3>1. PICK l \in Good : lines[l][1].key = <<t, i>>
      BY <2>9 DEF ReadBack
    <3>2. l \in 1..N
      BY LinesTyped
    <3>3. l \in Good' /\ lines'[l] = lines[l]
      BY <2>3, <2>7, <3>2
    <3>4. QED  BY <3>1, <3>3 DEF ReadBack
  <2>10. ASSUME part = "whole", NEW t, NEW i, p = <<t, i>>  PROVE ReadBack(t, i)'
    <3>1. lines'[N + 1][1].key = <<t, i>> /\ N + 1 \in Good'
      BY <1>7, <2>2, <2>3, <2>8, <2>10
    <3>2. QED  BY <3>1 DEF ReadBack
  <2>11. ASSUME part = "whole", Good = 1..N  PROVE Good' = 1..Len(lines')
    <3>1. Good' \subseteq 1..Len(lines')
      BY <2>3 DEF Good
    <3>2. \A l \in 1..Len(lines') : l \in Good'
      BY <2>4, <2>7, <2>8, <2>11
    <3>3. QED  BY <3>1, <3>2
  <2>12. \A n \in 1..Len(lines'[Len(lines')]) : lines'[Len(lines')][n].key = p
    BY <1>7, <2>2, <2>3
  <2>13. lines' # << >>
    BY <2>3
  <2>14. QED  BY <1>2, <1>5, <1>6, <1>9, <2>3, <2>5, <2>6, <2>9, <2>10, <2>11, <2>12, <2>13 DEF T, p
<1>10. CASE ~ended
  <2>1. lines # << >> /\ \A n \in 1..Len(lines[N]) : Cut(lines[N][n].key[1])
    BY <1>1, <1>10 DEF TornSound
  <2>2. N \in 1..N /\ N \in Nat
    BY <2>1, LinesTyped
  <2> DEFINE glued == Append(lines[N], f)
  <2>3. lines' = [lines EXCEPT ![N] = glued]
    BY <1>10, <2>2 DEF Glue, f, p
  <2>4. /\ lines[N] \in Seq(Fragments) /\ Len(lines[N]) \in Nat /\ lines[N] # << >>
    BY <1>1, <2>2, LinesTyped DEF FileSound
  <2>5. /\ glued \in Seq(Fragments) /\ Len(glued) = Len(lines[N]) + 1 /\ Len(lines[N]) >= 1
        /\ glued[Len(lines[N]) + 1] = f /\ \A n \in 1..Len(lines[N]) : glued[n] = lines[N][n]
    BY <1>7, <2>4
  <2> HIDE DEF glued
  <2>6. /\ lines' \in Seq(Seq(Fragments)) /\ Len(lines') = N
        /\ lines'[N] = glued /\ \A l \in 1..N : l # N => lines'[l] = lines[l]
    <3>1. lines \in Seq(Seq(Fragments))
      BY LinesTyped
    <3>2. /\ [lines EXCEPT ![N] = glued] \in Seq(Seq(Fragments)) /\ Len([lines EXCEPT ![N] = glued]) = Len(lines)
          /\ [lines EXCEPT ![N] = glued][N] = glued
          /\ \A l \in 1..Len(lines) : l # N => [lines EXCEPT ![N] = glued][l] = lines[l]
      BY <2>2, <2>5, <3>1, Replaced
    <3>3. QED  BY <2>3, <3>2
  <2>7. \A n \in 1..Len(glued) : n \in 1..Len(lines[N]) \/ (n = Len(lines[N]) + 1 /\ glued[n] = f)
    BY <2>4, <2>5
  <2>8. ASSUME NEW l \in 1..Len(lines')
        PROVE  /\ lines'[l] # << >>
               /\ \A n \in 1..Len(lines'[l]) :
                    \/ lines'[l][n].key = p
                    \/ InFile(lines'[l][n].key)
    <3>1. CASE l # N
      BY <1>1, <2>6, <3>1 DEF FileSound, InFile
    <3>2. CASE l = N
      <4>1. lines'[l] = glued /\ glued # << >>
        BY <2>4, <2>5, <2>6, <3>2
      <4>2. ASSUME NEW n \in 1..Len(glued)
            PROVE  \/ glued[n].key = p
                   \/ InFile(glued[n].key)
        <5>1. CASE n \in 1..Len(lines[N])
          BY <2>2, <2>5, <5>1 DEF InFile
        <5>2. CASE glued[n] = f
          BY <1>7, <5>2
        <5>3. QED  BY <2>7, <5>1, <5>2
      <4>3. QED  BY <4>1, <4>2
    <3>3. QED  BY <3>1, <3>2
  <2>9. LinesInOrder'
    <3>1. SUFFICES ASSUME NEW l \in 1..N, NEW m \in 1..N, l < m,
                          NEW n \in 1..Len(lines'[l]), NEW o \in 1..Len(lines'[m])
                   PROVE  Precedes(lines'[l][n].key, lines'[m][o].key)
      BY <2>6 DEF LinesInOrder
    <3>2. l # N /\ lines'[l] = lines[l]
      BY <2>2, <2>6, <3>1
    <3>3. CASE m # N
      BY <1>1, <2>6, <3>1, <3>2, <3>3 DEF LinesInOrder
    <3>4. CASE m = N /\ o \in 1..Len(lines[N])
      <4>1. lines'[m][o] = lines[N][o]
        BY <2>5, <2>6, <3>4
      <4>2. QED  BY <1>1, <3>1, <3>2, <3>4, <4>1 DEF LinesInOrder
    <3>5. CASE m = N /\ lines'[m][o] = f
      BY <1>7, <1>8, <3>2, <3>5
    <3>6. m = N => o \in 1..Len(lines[N]) \/ lines'[m][o] = f
      BY <2>6, <2>7
    <3>7. QED  BY <3>3, <3>4, <3>5, <3>6
  <2>10. \A l \in 1..N : l # N => (l \in Good <=> l \in Good')
    BY <2>6 DEF Good, Parses
  \* What is lost is the torn line: a cut turn's, and nothing of it comes after.
  <2>11. ASSUME NEW t, NEW i, ReadBack(t, i),
                ~Cut(t) \/ \E j \in Nat : i < j /\ InFile(<<t, j>>)
         PROVE  ReadBack(t, i)'
    <3>1. PICK l \in Good : lines[l][1].key = <<t, i>>
      BY <2>11 DEF ReadBack
    <3>2. l \in 1..N /\ Len(lines[l]) = 1 /\ 1 \in 1..Len(lines[l])
      BY LinesTyped
    <3>3. l # N
      <4>1. SUFFICES ASSUME l = N PROVE FALSE
        OBVIOUS
      <4>2. lines[N][1].key[1] = t /\ lines[N][1].key[2] = i /\ t \in Nat /\ i \in Nat
        BY <3>1, <3>2, <4>1, LinesTyped
      <4>3. Cut(t)
        BY <2>1, <3>2, <4>1, <4>2
      <4>4. PICK j \in Nat : i < j /\ InFile(<<t, j>>)
        BY <2>11, <4>3
      <4>5. PICK m \in 1..N : \E o \in 1..Len(lines[m]) : lines[m][o].key = <<t, j>>
        BY <4>4 DEF InFile
      <4>6. PICK o \in 1..Len(lines[m]) : lines[m][o].key = <<t, j>>
        BY <4>5
      <4>7. i < j /\ lines[m][o].key = <<t, j>>
        BY <4>4, <4>6
      <4>8. lines[m][o].key[1] = t /\ lines[m][o].key[2] = j
        BY <4>7
      <4>9. CASE m = N
        <5>1. o = 1
          <6>1. Len(lines[m]) = 1
            BY <3>2, <4>1, <4>9
          <6>2. o \in 1..1
            BY <6>1
          <6>3. QED  BY <6>2
        <5>2. QED  BY <4>2, <4>7, <4>8, <4>9, <5>1
      <4>10. CASE m # N
        <5>1. m < N
          BY <2>2, <4>10
        <5>2. Precedes(lines[m][o].key, lines[N][1].key)
          BY <1>1, <2>2, <3>2, <4>1, <5>1 DEF LinesInOrder
        <5>3. QED  BY <4>2, <4>7, <4>8, <5>2 DEF Precedes
      <4>11. QED  BY <4>9, <4>10
    <3>4. l \in Good' /\ lines'[l] = lines[l]
      BY <2>6, <2>10, <3>2, <3>3
    <3>5. QED  BY <3>1, <3>4 DEF ReadBack
  <2>12. ASSUME NEW n \in 1..Len(lines'[Len(lines')])
         PROVE  lines'[Len(lines')][n].key = p \/ Cut(lines'[Len(lines')][n].key[1])
    <3>1. lines'[Len(lines')] = glued /\ n \in 1..Len(glued)
      BY <2>6
    <3>2. CASE n \in 1..Len(lines[N])
      <4>1. glued[n] = lines[N][n]
        BY <2>5, <3>2
      <4>2. QED  BY <2>1, <3>1, <3>2, <4>1
    <3>3. CASE glued[n] = f
      BY <1>7, <3>1, <3>3
    <3>4. QED  BY <2>7, <3>1, <3>2, <3>3
  <2>13. lines' # << >>
    BY <2>2, <2>6
  <2>14. QED  BY <1>2, <1>5, <1>6, <1>10, <2>6, <2>8, <2>9, <2>11, <2>12, <2>13 DEF T, p
<1> QED  BY <1>9, <1>10

\* What the invariant says of the turns, spelled out.
LEMMA TurnsAre ==
  ASSUME TypeOK, ArchiveSound
  PROVE  /\ batches \in Seq(Seq(Messages)) /\ Len(batches) \in Nat /\ Len(batches) <= MaxAppends
         /\ fates \in Seq(Statuses) /\ Len(fates) = Len(batches)
         /\ \A t \in 1..Len(batches) :
              /\ batches[t] \in Seq(Messages) /\ Len(batches[t]) \in Nat /\ Len(batches[t]) >= 2
              /\ fates[t] \in Statuses /\ (fates[t] = "open" <=> Writing /\ t = Len(batches))
              /\ fates[t] # "open" => Written(t) = Len(batches[t])
         /\ Writing => /\ Len(batches) \in 1..Len(batches) /\ pending \in Seq(Keys)
                       /\ Written(Len(batches)) = Len(batches[Len(batches)]) - Len(pending)
                       /\ Written(Len(batches)) \in Nat
<1>1. TurnsSound /\ RestWaits
  BY DEF ArchiveSound
<1>2. /\ batches \in Seq(Seq(Messages)) /\ Len(batches) \in Nat /\ Len(batches) <= MaxAppends
      /\ fates \in Seq(Statuses) /\ Len(fates) = Len(batches)
  BY <1>1 DEF TurnsSound, Turns
<1>3. ASSUME NEW t \in 1..Len(batches)
      PROVE  /\ batches[t] \in Seq(Messages) /\ Len(batches[t]) \in Nat /\ Len(batches[t]) >= 2
             /\ fates[t] \in Statuses /\ (fates[t] = "open" <=> Writing /\ t = Len(batches))
             /\ fates[t] # "open" => Written(t) = Len(batches[t])
  <2>1. batches[t] \in Seq(Messages) /\ Len(batches[t]) \in Nat /\ fates[t] \in Statuses
    BY <1>2
  <2>2. PICK c \in 0..(Len(batches[t]) - 2) : TRUE
    BY <1>1 DEF TurnsSound, Turns, IsTurn
  <2>3. Len(batches[t]) >= 2
    BY <2>1, <2>2
  <2>4. fates[t] = "open" <=> Writing /\ t = Len(batches)
    BY <1>1, <1>2 DEF TurnsSound
  <2>5. QED  BY <2>1, <2>3, <2>4 DEF Written
<1>4. ASSUME Writing
      PROVE  /\ Len(batches) \in 1..Len(batches) /\ pending \in Seq(Keys)
             /\ Written(Len(batches)) = Len(batches[Len(batches)]) - Len(pending)
             /\ Written(Len(batches)) \in Nat
  <2>1. Len(batches) \in 1..Len(batches)
    BY <1>1, <1>2, <1>4 DEF TurnsSound
  <2>2. pending \in Seq(Keys) /\ Len(pending) \in Nat /\ Len(pending) <= Len(batches[Len(batches)])
    BY <1>1, <1>4 DEF RestWaits, TypeOK
  <2>3. Written(Len(batches)) = Len(batches[Len(batches)]) - Len(pending)
    BY <1>3, <1>4, <2>1 DEF Written
  <2>4. QED  BY <1>3, <2>1, <2>2, <2>3
<1> QED  BY <1>2, <1>3, <1>4

\* With one more fragment, what can be read is still all but what a tear costs.
LEMMA GluedSound ==
  ASSUME TypeOK, ArchiveSound, Writing, pending # << >>,
         NEW part \in {"whole", "cut", "garbled"},
         lines' = Glue(Fragment(Head(pending), part)),
         batches' = batches, fates' \in Seq(Statuses), Len(fates') = Len(fates),
         \A t \in 1..Len(batches) : t # Len(batches) => fates'[t] = fates[t],
         fates'[Len(batches)] \in {"open", "cut"},
         \A t \in 1..Len(batches) : t = Len(batches) => Written(t)' \in Nat /\ Written(t)' >= Written(t) + 1
  PROVE  FileSound' /\ \A t \in 1..Len(batches) : fates'[t] \in {"kept", "open"} =>
                          \A i \in 1..Written(t) : ComesBack(t, i)'
<1>1. FileSound /\ WrittenSound
  BY DEF ArchiveSound
<1> DEFINE T == Len(batches)
           p == Head(pending)
<1>2. /\ T \in 1..Len(batches) /\ p = <<T, Written(T) + 1>> /\ p[2] \in 1..Len(batches[T])
      /\ \A l \in 1..Len(lines') :
           /\ lines'[l] # << >>
           /\ \A n \in 1..Len(lines'[l]) : lines'[l][n].key = p \/ InFile(lines'[l][n].key)
      /\ \A t, i : ReadBack(t, i) /\ (~Cut(t) \/ \E j \in Nat : i < j /\ InFile(<<t, j>>))
           => ReadBack(t, i)'
  BY Glued
<1>3. /\ batches \in Seq(Seq(Messages)) /\ Len(batches) \in Nat
      /\ Len(fates) = Len(batches) /\ Written(T) \in Nat /\ Written(T) = Len(batches[T]) - Len(pending)
      /\ \A t \in 1..Len(batches) :
           /\ Len(batches[t]) \in Nat
           /\ fates[t] \in Statuses /\ (fates[t] = "open" <=> t = T)
           /\ fates[t] # "open" => Written(t) = Len(batches[t])
  BY TurnsAre
<1>4. pending \in Seq(Keys) /\ Len(pending) \in Nat
  BY DEF TypeOK
<1>5. ASSUME NEW t \in 1..Len(batches), t # T  PROVE fates'[t] = fates[t] /\ Written(t)' = Written(t)
  BY <1>3, <1>5 DEF Written
<1>6. ASSUME NEW t \in 1..Len(batches)
      PROVE  /\ Written(t) \in Nat /\ Written(t)' \in Int /\ Written(t) <= Written(t)'
             /\ fates[t] # "deleted" => fates'[t] # "deleted"
  <2>1. Written(t) \in Nat
    BY <1>3
  <2>2. CASE t = T
    BY <2>1, <2>2
  <2>3. CASE t # T
    BY <1>5, <2>1, <2>3
  <2>4. QED  BY <2>2, <2>3
<1>7. ASSUME NEW t \in 1..Len(batches), NEW h, ComesBack(t, h),
             ~Cut(t) \/ \E j \in Nat : h < j /\ InFile(<<t, j>>)
      PROVE  ComesBack(t, h)'
  <2>1. CASE ReadBack(t, h)
    BY <1>2, <1>7, <2>1 DEF ComesBack
  <2>2. CASE Excused(t, h)
    <3>1. h = 1 /\ t > 1 /\ t - 1 \in 1..Len(batches) /\ fates[t - 1] = "cut"
      BY <1>3, <2>2 DEF Excused, Cut
    <3>2. fates'[t - 1] = "cut"
      BY <1>3, <1>5, <3>1
    <3>3. QED  BY <3>1, <3>2 DEF ComesBack, Excused, Cut
  <2>3. QED  BY <1>7, <2>1, <2>2 DEF ComesBack
<1>8. ASSUME NEW h \in 1..Written(T)  PROVE ComesBack(T, h)
  BY <1>1, <1>2, <1>3 DEF WrittenSound
<1>9. ~Cut(T)
  BY <1>2, <1>3 DEF Cut
<1>10. ASSUME NEW l \in 1..Len(lines'), NEW n \in 1..Len(lines'[l]), NEW t, NEW i,
              t = lines'[l][n].key[1], i = lines'[l][n].key[2]
       PROVE  /\ t \in 1..Len(batches) /\ i \in 1..Len(batches[t])
              /\ fates'[t] # "deleted" /\ i <= Written(t)'
              /\ \A h \in 1..(i - 1) : ComesBack(t, h)'
  <2>1. CASE lines'[l][n].key = p
    <3>1. t = T /\ i = Written(T) + 1 /\ i \in 1..Len(batches[t])
      BY <1>2, <1>10, <2>1
    <3>2. fates'[t] # "deleted" /\ i <= Written(t)'
      BY <1>2, <3>1
    <3>3. ASSUME NEW h \in 1..(i - 1)  PROVE ComesBack(t, h)'
      <4>1. h \in 1..Written(T)
        BY <1>3, <3>1
      <4>2. QED  BY <1>2, <1>7, <1>8, <1>9, <3>1, <4>1
    <3>4. QED  BY <1>2, <3>1, <3>2, <3>3
  <2>2. CASE InFile(lines'[l][n].key)
    <3>1. PICK m \in 1..Len(lines) : \E o \in 1..Len(lines[m]) : lines[m][o].key = lines'[l][n].key
      BY <2>2 DEF InFile
    <3>2. PICK o \in 1..Len(lines[m]) : lines[m][o].key = lines'[l][n].key
      BY <3>1
    <3>3. t = lines[m][o].key[1] /\ i = lines[m][o].key[2] /\ lines[m][o].key = <<t, i>> /\ i \in Nat
      BY <1>10, <3>2, LinesTyped
    <3>4. /\ t \in 1..Len(batches) /\ i \in 1..Len(batches[t])
          /\ fates[t] # "deleted" /\ i <= Written(t)
          /\ \A h \in 1..(i - 1) : ComesBack(t, h)
      BY <1>1, <3>3 DEF FileSound
    <3>5. ASSUME NEW h \in 1..(i - 1)  PROVE ComesBack(t, h)'
      <4>1. lines[m][o].key = <<t, i>>
        BY <3>3
      <4>2. InFile(<<t, i>>)
        BY <4>1 DEF InFile
      <4>3. h < i
        BY <3>3
      <4>4. QED  BY <1>7, <3>3, <3>4, <4>2, <4>3
    <3>6. fates'[t] # "deleted" /\ i <= Written(t)'
      <4>1. t \in 1..Len(batches) /\ fates[t] # "deleted" /\ i <= Written(t) /\ i \in Nat
        BY <3>3, <3>4
      <4>2. /\ Written(t) \in Nat /\ Written(t)' \in Int /\ Written(t) <= Written(t)'
            /\ fates'[t] # "deleted"
        BY <1>6, <4>1
      <4>3. QED  BY <4>1, <4>2
    <3>7. QED  BY <3>4, <3>5, <3>6
  <2>3. QED  BY <1>2, <2>1, <2>2
<1>11. FileSound'
  <2>1. \A l \in 1..Len(lines') : lines'[l] # << >>
    BY <1>2
  <2>2. SUFFICES ASSUME NEW l \in 1..Len(lines'), NEW n \in 1..Len(lines'[l]), NEW t, NEW i,
                        t = lines'[l][n].key[1], i = lines'[l][n].key[2]
                 PROVE  /\ t \in 1..Len(batches) /\ i \in 1..Len(batches[t])
                        /\ fates'[t] # "deleted" /\ i <= Written(t)'
                        /\ \A h \in 1..(i - 1) : ComesBack(t, h)'
    BY <2>1 DEF FileSound
  <2>3. QED  BY <1>10, <2>2
<1>12. ASSUME NEW t \in 1..Len(batches), fates'[t] \in {"kept", "open"}, NEW i \in 1..Written(t)
       PROVE  ComesBack(t, i)'
  <2>1. fates[t] \in {"kept", "open"}
    BY <1>2, <1>3, <1>5, <1>12
  <2>2. ComesBack(t, i) /\ ~Cut(t)
    BY <1>1, <1>12, <2>1 DEF WrittenSound, Cut
  <2>3. QED  BY <1>7, <2>2
<1> QED  BY <1>11, <1>12

LEMMA TurnsKept ==
  ASSUME Turns, batches' = batches  PROVE Turns'
<1>1. ASSUME NEW t \in 1..Len(batches')  PROVE IsTurn(t, batches'[t])
  BY DEF Turns
<1> QED  BY <1>1 DEF Turns

LEMMA WriteLineSound ==
  ASSUME TypeOK, ArchiveSound, WriteLine
  PROVE  ArchiveSound'
<1> DEFINE T == Len(batches)
           p == Head(pending)
<1>1. /\ TurnsSound /\ RestWaits /\ FileSound /\ WrittenSound /\ CountSound
  BY DEF ArchiveSound
<1>2. /\ Writing /\ pending # << >> /\ lines' = Glue(Fragment(p, "whole"))
      /\ ended' = TRUE /\ pending' = Tail(pending)
      /\ batches' = batches /\ fates' = fates /\ countBefore' = countBefore /\ meta' = meta
      /\ orphans' = orphans /\ orphans \in Nat
  BY DEF WriteLine, TypeOK
<1>3. /\ T \in 1..Len(batches) /\ T \in Nat
      /\ Len(fates) = T /\ fates \in Seq(Statuses) /\ Written(T) \in Nat /\ Written(T) = Len(batches[T]) - Len(pending)
      /\ \A t \in 1..T : /\ Len(batches[t]) \in Nat /\ (fates[t] = "open" <=> t = T)
                         /\ fates[t] # "open" => Written(t) = Len(batches[t])
  BY <1>2, TurnsAre
<1>4. /\ pending \in Seq(Keys) /\ Len(pending) \in Nat \ {0}
      /\ pending' \in Seq(Keys) /\ Len(pending') = Len(pending) - 1
      /\ \A n \in 1..Len(pending') : pending'[n] = pending[n + 1] /\ n + 1 \in 1..Len(pending)
  <2>1. pending \in Seq(Keys)
    BY DEF TypeOK
  <2>2. Len(pending) \in Nat \ {0}
    BY <1>2, <2>1
  <2>3. QED  BY <1>2, <2>1, <2>2
<1>5. ASSUME NEW t \in 1..Len(batches)
      PROVE  /\ t = T => Written(t)' = Written(t) + 1
             /\ t # T => Written(t)' = Written(t)
  BY <1>2, <1>3, <1>4 DEF Written
<1>6. /\ FileSound' /\ LinesInOrder'
      /\ \A t \in 1..Len(batches) : fates'[t] \in {"kept", "open"} =>
           \A i \in 1..Written(t) : ComesBack(t, i)'
      /\ p = <<T, Written(T) + 1>> /\ (ended \/ (Written(T) = 0 /\ T > 1 /\ Cut(T - 1)))
      /\ ended => \A t, i : p = <<t, i>> => ReadBack(t, i)'
      /\ ended /\ Good = 1..Len(lines) =>
           Good' = 1..Len(lines') /\ Len(lines') = Len(lines) + 1
  <2>1. "whole" \in {"whole", "cut", "garbled"}
    OBVIOUS
  <2>2. /\ \A t \in 1..Len(batches) : t # Len(batches) => fates'[t] = fates[t]
        /\ fates'[Len(batches)] \in {"open", "cut"} /\ fates' \in Seq(Statuses) /\ Len(fates') = Len(fates)
        /\ \A t \in 1..Len(batches) : t = Len(batches) => Written(t)' \in Nat /\ Written(t)' >= Written(t) + 1
    BY <1>2, <1>3, <1>5
  <2>3. /\ FileSound'
        /\ \A t \in 1..Len(batches) : fates'[t] \in {"kept", "open"} =>
             \A i \in 1..Written(t) : ComesBack(t, i)'
    BY <1>2, <2>1, <2>2, GluedSound
  <2>4. /\ LinesInOrder'
        /\ p = <<T, Written(T) + 1>> /\ (ended \/ (Written(T) = 0 /\ T > 1 /\ Cut(T - 1)))
        /\ ended => \A t, i : p = <<t, i>> => ReadBack(t, i)'
        /\ ended /\ Good = 1..Len(lines) =>
             Good' = 1..Len(lines') /\ Len(lines') = Len(lines) + 1
    BY <1>2, <2>1, Glued
  <2>5. QED  BY <2>3, <2>4
<1>7. TurnsSound'
  <2>1. Turns'
    BY <1>1, <1>2, TurnsKept DEF TurnsSound
  <2>2. QED  BY <1>1, <1>2, <2>1 DEF TurnsSound, Writing
<1>8. RestWaits'
  <2>1. Len(pending') <= Len(batches[T])
    BY <1>1, <1>2, <1>3, <1>4 DEF RestWaits
  <2>2. ASSUME NEW n \in 1..Len(pending')
        PROVE  pending'[n] = <<T, Len(batches[T]) - Len(pending') + n>>
    <3>1. pending[n + 1] = <<T, Len(batches[T]) - Len(pending) + (n + 1)>>
      BY <1>1, <1>2, <1>4 DEF RestWaits
    <3> DEFINE a == Len(batches[T])
               b == Len(pending)
               d == Len(pending')
    <3>2. a \in Int /\ b \in Int /\ d \in Int /\ d = b - 1
      BY <1>3, <1>4
    <3>3. n \in Int
      BY <1>4
    <3>4. pending'[n] = <<T, a - b + (n + 1)>>
      BY <1>4, <3>1
    <3> HIDE DEF a, b, d
    <3>5. a - b + (n + 1) = a - d + n
      BY <3>2, <3>3
    <3>6. pending'[n] = <<T, a - d + n>>
      BY <3>4, <3>5
    <3>7. QED  BY <3>6 DEF a, d
  <2>3. QED  BY <1>2, <2>1, <2>2 DEF RestWaits
<1>9. WrittenSound'
  <2>1. SUFFICES ASSUME NEW t \in 1..Len(batches), fates'[t] \in {"kept", "open"}, NEW i \in 1..Written(t)'
                 PROVE  ComesBack(t, i)'
    BY <1>2 DEF WrittenSound
  <2>2. CASE i \in 1..Written(t)
    BY <1>6, <2>1, <2>2
  <2>3. CASE ~(i \in 1..Written(t))
    <3>1. t = T /\ i = Written(T) + 1
      BY <1>3, <1>5, <2>1, <2>3
    <3>2. CASE ended
      BY <1>6, <3>1, <3>2 DEF ComesBack
    <3>3. CASE ~ended
      <4>1. i = 1 /\ t > 1 /\ Cut(t - 1)
        BY <1>6, <3>1, <3>3
      <4>2. Cut(t - 1)'
        BY <1>2, <4>1 DEF Cut
      <4>3. QED  BY <4>1, <4>2 DEF ComesBack, Excused
    <3>4. QED  BY <3>2, <3>3
  <2>4. QED  BY <2>2, <2>3
<1>10. TornSound'
  BY <1>2 DEF TornSound
<1>11. CountSound'
  <2>1. SUFFICES ASSUME \A t \in 1..Len(fates) : ~Cut(t)
                 PROVE  Good' = 1..Len(lines') /\ countBefore + Written(T)' = Len(lines') + orphans
    BY <1>2 DEF CountSound, Cut, Writing
  <2>2. ended /\ Good = 1..Len(lines) /\ countBefore + Written(T) = Len(lines) + orphans
    BY <1>1, <1>2, <2>1 DEF CountSound
  <2>3. Written(T)' = Written(T) + 1
    BY <1>2, <1>3, <1>4, <1>5 DEF Written
  <2>4. countBefore \in Nat
    BY <1>2 DEF TypeOK, Writing
  <2>5. Good' = 1..Len(lines') /\ Len(lines') = Len(lines) + 1
    BY <1>6, <2>2
  <2>6. Len(lines) \in Nat /\ Written(T) \in Nat /\ orphans \in Nat
    BY <1>2, <1>3, LinesTyped
  <2>7. \A a, b, c, d \in Nat : a + b = c + d => a + (b + 1) = (c + 1) + d
    OBVIOUS
  <2>8. countBefore + (Written(T) + 1) = (Len(lines) + 1) + orphans
    BY <2>2, <2>4, <2>6, <2>7
  <2>9. countBefore + Written(T)' = Len(lines') + orphans
    BY <2>3, <2>5, <2>8
  <2>10. QED  BY <2>5, <2>9
<1> QED  BY <1>6, <1>7, <1>8, <1>9, <1>10, <1>11 DEF ArchiveSound

\* A step that leaves the file and the turns alone, and the count of a good
\* meta file.
LEMMA FileKept ==
  ASSUME TypeOK, ArchiveSound, UNCHANGED <<lines, ended, batches, fates, pending, countBefore>>,
         Writing => UNCHANGED orphans,
         meta'.state = "ok" => meta.state = "ok" /\ meta'.count = meta.count /\ orphans' = orphans
  PROVE  ArchiveSound'
<1>1. /\ TurnsSound /\ RestWaits /\ FileSound /\ LinesInOrder
      /\ WrittenSound /\ TornSound /\ CountSound
  BY DEF ArchiveSound
<1>2. Turns'
  BY <1>1, TurnsKept DEF TurnsSound
<1>3. TurnsSound'
  BY <1>1, <1>2 DEF TurnsSound, Writing
<1>4. Good' = Good
  BY DEF Good, Parses
<1>5. \A t, i : ComesBack(t, i)' <=> ComesBack(t, i)
  BY <1>4 DEF ComesBack, ReadBack, Excused, Cut
<1>6. \A t : Written(t)' = Written(t)
  BY DEF Written
<1>7. FileSound'
  BY <1>1, <1>5, <1>6 DEF FileSound
<1>8. WrittenSound'
  BY <1>1, <1>5, <1>6 DEF WrittenSound
<1>9. RestWaits' /\ LinesInOrder' /\ TornSound'
  <2>1. (Writing' <=> Writing) /\ \A t : Cut(t)' <=> Cut(t)
    BY DEF Writing, Cut
  <2>2. RestWaits'
    BY <1>1, <2>1 DEF RestWaits
  <2>3. LinesInOrder'
    BY <1>1 DEF LinesInOrder
  <2>4. TornSound'
    BY <1>1, <2>1 DEF TornSound
  <2>5. QED  BY <2>2, <2>3, <2>4
<1>10. CountSound'
  BY <1>1, <1>4 DEF CountSound, Writing, Cut, Written
<1> QED  BY <1>3, <1>7, <1>8, <1>9, <1>10 DEF ArchiveSound

LEMMA WriteStopsSound ==
  ASSUME TypeOK, ArchiveSound, WriteStops, UNCHANGED <<meta, orphans, batches>>
  PROVE  ArchiveSound'
<1> DEFINE T == Len(batches)
<1>1. /\ TurnsSound /\ FileSound /\ LinesInOrder /\ WrittenSound /\ TornSound
  BY DEF ArchiveSound
<1>2. pending' = << >> /\ ~Writing' /\ batches' = batches
  BY DEF WriteStops, Writing
<1>3. CASE ~Writing
  <2>1. pending = << >> /\ countBefore = Nothing
    BY <1>3 DEF TypeOK, Writing
  <2>2. UNCHANGED <<lines, ended, fates, pending, countBefore>>
    BY <1>3, <2>1 DEF WriteStops
  <2>3. QED  BY <2>2, FileKept
<1>4. CASE Writing
  <2>1. /\ T \in 1..Len(batches) /\ T \in Nat
        /\ Len(fates) = T /\ fates \in Seq(Statuses) /\ Written(T) \in Nat
        /\ Written(T) = Len(batches[T]) - Len(pending)
        /\ \A t \in 1..T : /\ Len(batches[t]) \in Nat /\ (fates[t] = "open" <=> t = T)
                           /\ fates[t] # "open" => Written(t) = Len(batches[t])
    BY <1>4, TurnsAre
  <2>2. /\ fates' \in Seq(Statuses) /\ Len(fates') = T /\ fates'[T] = "cut"
        /\ \A t \in 1..T : t # T => fates'[t] = fates[t]
    <3>1. fates' = [fates EXCEPT ![T] = "cut"]
      BY <1>4, <2>1 DEF WriteStops
    <3>2. "cut" \in Statuses
      BY DEF Statuses
    <3>3. QED  BY <2>1, <3>1, <3>2, Replaced
  <2>3. ASSUME NEW t \in 1..T
        PROVE  /\ t = T => Written(t)' = Len(batches[t])
               /\ t # T => Written(t)' = Written(t)
               /\ Cut(t) => Cut(t)'
    BY <1>2, <2>1, <2>2 DEF Written, Cut
  <2>4. TurnsSound'
    <3>1. Turns'
      BY <1>1, <1>2, TurnsKept DEF TurnsSound
    <3>2. \A t \in 1..Len(fates') : fates'[t] # "open"
      BY <2>1, <2>2
    <3>3. QED  BY <1>1, <1>2, <2>1, <2>2, <3>1, <3>2 DEF TurnsSound
  <2>5. RestWaits' /\ CountSound'
    <3>1. Cut(T)' /\ T \in 1..Len(fates')
      BY <2>1, <2>2, <1>2 DEF Cut
    <3>2. CountSound'
      BY <1>2, <2>1, <2>2, <3>1 DEF CountSound, Cut
    <3>3. QED  BY <1>2, <3>2 DEF RestWaits
  <2>6. ASSUME FileSound', \A t \in 1..Len(batches) : fates'[t] \in {"kept", "open"} =>
                             \A i \in 1..Written(t) : ComesBack(t, i)'
        PROVE  FileSound' /\ WrittenSound'
    <3>1. SUFFICES ASSUME NEW t \in 1..Len(batches), fates'[t] \in {"kept", "open"}, NEW i \in 1..Written(t)'
                   PROVE  ComesBack(t, i)'
      BY <1>2, <2>6 DEF WrittenSound
    <3>2. t # T
      BY <2>2, <3>1
    <3>3. QED  BY <2>3, <2>6, <3>1, <3>2
  <2>7. CASE UNCHANGED <<lines, ended>>
    <3>1. \A t \in 1..T : \A i : ComesBack(t, i) => ComesBack(t, i)'
      <4>1. ASSUME NEW t \in 1..T, NEW i, Excused(t, i)  PROVE Excused(t, i)'
        <5>1. i = 1 /\ t > 1 /\ Cut(t - 1) /\ t - 1 \in 1..T
          BY <2>1, <4>1 DEF Excused
        <5>2. Cut(t - 1)'
          BY <2>3, <5>1
        <5>3. QED  BY <5>1, <5>2 DEF Excused
      <4>2. \A t, i : ReadBack(t, i) => ReadBack(t, i)'
        BY <2>7 DEF ReadBack, Good, Parses
      <4>3. QED  BY <4>1, <4>2 DEF ComesBack
    <3>2. \A t \in 1..T : fates[t] # "deleted" => fates'[t] # "deleted"
      BY <2>1, <2>2
    <3>3. \A t \in 1..T : Written(t) \in Nat /\ Written(t)' \in Nat /\ Written(t) <= Written(t)'
      <4>1. Len(pending) \in Nat
        BY DEF TypeOK
      <4>2. ASSUME NEW t \in 1..T, t = T  PROVE Written(t) \in Nat /\ Written(t)' \in Nat /\ Written(t) <= Written(t)'
        BY <2>1, <2>3, <4>1, <4>2
      <4>3. ASSUME NEW t \in 1..T, t # T  PROVE Written(t) \in Nat /\ Written(t)' \in Nat /\ Written(t) <= Written(t)'
        BY <2>1, <2>3, <4>3
      <4>4. QED  BY <4>2, <4>3
    <3>4. FileSound'
      <4>1. SUFFICES ASSUME NEW l \in 1..Len(lines), NEW n \in 1..Len(lines[l]), NEW t, NEW i,
                            t = lines[l][n].key[1], i = lines[l][n].key[2]
                     PROVE  /\ t \in 1..Len(batches) /\ i \in 1..Len(batches[t])
                            /\ fates'[t] # "deleted" /\ i <= Written(t)'
                            /\ \A h \in 1..(i - 1) : ComesBack(t, h)'
        BY <1>1, <1>2, <2>7 DEF FileSound
      <4>2. /\ t \in 1..Len(batches) /\ i \in 1..Len(batches[t])
            /\ fates[t] # "deleted" /\ i <= Written(t)
            /\ \A h \in 1..(i - 1) : ComesBack(t, h)
        BY <1>1, <4>1 DEF FileSound
      <4>3. fates'[t] # "deleted" /\ \A h \in 1..(i - 1) : ComesBack(t, h)'
        BY <3>1, <3>2, <4>2
      <4>4. i \in Int /\ Written(t) \in Nat /\ Written(t)' \in Nat /\ Written(t) <= Written(t)'
        BY <3>3, <4>2
      <4>5. i <= Written(t)'
        BY <4>2, <4>4
      <4>6. QED  BY <4>2, <4>3, <4>5
    <3>5. ASSUME NEW t \in 1..Len(batches), fates'[t] \in {"kept", "open"}, NEW i \in 1..Written(t)
          PROVE  ComesBack(t, i)'
      <4>1. fates[t] \in {"kept", "open"}
        BY <2>2, <3>5
      <4>2. QED  BY <1>1, <3>1, <3>5, <4>1 DEF WrittenSound
    <3>6. LinesInOrder'
      BY <1>1, <2>7 DEF LinesInOrder
    <3>7. TornSound'
      <4>1. SUFFICES ASSUME ~ended PROVE /\ lines' # << >> /\ Len(fates') >= 1
                                         /\ (\A n \in 1..Len(lines[Len(lines)]) : Cut(lines[Len(lines)][n].key[1]))'
                                         /\ fates'[Len(fates')] = "cut"
        BY <1>2, <2>1, <2>2, <2>7 DEF TornSound, Cut
      <4>2. lines # << >> /\ \A n \in 1..Len(lines[Len(lines)]) : Cut(lines[Len(lines)][n].key[1])
        BY <1>1, <4>1 DEF TornSound
      <4>3. Len(lines) \in 1..Len(lines)
        BY <4>2, LinesTyped
      <4>4. ASSUME NEW n \in 1..Len(lines[Len(lines)]), NEW t, t = lines[Len(lines)][n].key[1]
            PROVE  Cut(t)'
        <5>1. t \in 1..T
          BY <1>1, <4>3, <4>4 DEF FileSound
        <5>2. QED  BY <2>3, <4>2, <4>4, <5>1
      <4>5. (\A n \in 1..Len(lines[Len(lines)]) : Cut(lines[Len(lines)][n].key[1]))'
        BY <2>7, <4>4 DEF Cut
      <4>6. fates'[Len(fates')] = "cut"
        BY <2>1, <2>2
      <4>7. QED  BY <2>1, <2>2, <2>7, <4>2, <4>5, <4>6
    <3>8. QED  BY <2>4, <2>5, <2>6, <3>4, <3>5, <3>6, <3>7 DEF ArchiveSound
  <2>8. CASE ~UNCHANGED <<lines, ended>>
    <3>1. /\ pending # << >> /\ ended' = FALSE
          /\ \E part \in {"whole", "cut", "garbled"} : lines' = Glue(Fragment(Head(pending), part))
      BY <2>8 DEF WriteStops
    <3>2. PICK part \in {"whole", "cut", "garbled"} : lines' = Glue(Fragment(Head(pending), part))
      BY <3>1
    <3>3. \A t \in 1..T : t = T => Written(t)' \in Nat /\ Written(t)' >= Written(t) + 1
      <4>1. Len(pending) \in Nat \ {0}
        BY <3>1 DEF TypeOK
      <4>2. QED  BY <2>1, <2>3, <4>1
    <3>4. /\ FileSound'
          /\ \A t \in 1..Len(batches) : fates'[t] \in {"kept", "open"} =>
               \A i \in 1..Written(t) : ComesBack(t, i)'
      BY <1>2, <1>4, <2>1, <2>2, <3>1, <3>2, <3>3, GluedSound
    <3>5. /\ LinesInOrder' /\ lines' # << >>
          /\ Head(pending) = <<T, Written(T) + 1>>
          /\ \A n \in 1..Len(lines'[Len(lines')]) :
               \/ lines'[Len(lines')][n].key = Head(pending)
               \/ ~ended /\ Cut(lines'[Len(lines')][n].key[1])
      BY <1>4, <3>1, <3>2, Glued
    <3>6. TornSound'
      <4>1. fates'[Len(fates')] = "cut" /\ Len(fates') >= 1
        BY <2>1, <2>2
      <4>2. ASSUME NEW n \in 1..Len(lines'[Len(lines')]), NEW t, t = lines'[Len(lines')][n].key[1]
            PROVE  Cut(t)'
        <5>1. CASE lines'[Len(lines')][n].key = Head(pending)
          <6>1. t = T
            BY <3>5, <4>2, <5>1
          <6>2. QED  BY <2>2, <6>1 DEF Cut
        <5>2. CASE lines'[Len(lines')][n].key # Head(pending)
          <6>1. Cut(t)
            BY <3>5, <4>2, <5>2
          <6>2. t # T => fates'[t] = fates[t]
            <7>1. Len(lines') \in 1..Len(lines')
              <8>1. lines' \in Seq(Seq(Fragments))
                BY <1>4, <3>1, <3>2, Glued
              <8>2. QED  BY <3>5, <8>1
            <7>2. t \in 1..Len(batches')
              BY <3>4, <4>2, <7>1 DEF FileSound
            <7>3. QED  BY <1>2, <2>2, <7>2
          <6>3. QED  BY <2>2, <6>1, <6>2 DEF Cut
        <5>3. QED  BY <5>1, <5>2
      <4>3. (\A n \in 1..Len(lines[Len(lines)]) : Cut(lines[Len(lines)][n].key[1]))'
        BY <4>2 DEF Cut
      <4>4. QED  BY <1>2, <3>5, <4>1, <4>3 DEF TornSound, Cut
    <3>7. QED  BY <2>4, <2>5, <2>6, <3>4, <3>5, <3>6 DEF ArchiveSound
  <2>9. QED  BY <2>7, <2>8
<1> QED  BY <1>3, <1>4

LEMMA RefreshMetaSound ==
  ASSUME TypeOK, ArchiveSound, RefreshMeta
  PROVE  ArchiveSound'
<1> DEFINE T == Len(batches)
<1>1. /\ TurnsSound /\ FileSound /\ LinesInOrder /\ WrittenSound /\ TornSound /\ CountSound
  BY DEF ArchiveSound
<1>2. /\ Writing /\ pending = << >> /\ UNCHANGED <<lines, ended, batches, pending>> /\ ~Writing'
      /\ meta'.count = countBefore + Len(Last(batches)) /\ orphans' = orphans
  BY DEF RefreshMeta, Writing, TypeOK
<1>3. /\ T \in 1..Len(batches) /\ T \in Nat /\ batches \in Seq(Seq(Messages))
      /\ Len(fates) = T /\ fates \in Seq(Statuses) /\ Written(T) = Len(batches[T])
      /\ \A t \in 1..T : /\ Len(batches[t]) \in Nat /\ Len(batches[t]) >= 2 /\ (fates[t] = "open" <=> t = T)
                         /\ fates[t] # "open" => Written(t) = Len(batches[t])
  BY <1>2, TurnsAre
<1>4. /\ fates' \in Seq(Statuses) /\ Len(fates') = T /\ fates'[T] = "kept"
      /\ \A t \in 1..T : t # T => fates'[t] = fates[t]
  <2>1. fates' = [fates EXCEPT ![T] = "kept"]
    BY <1>3 DEF RefreshMeta
  <2>2. "kept" \in Statuses
    BY DEF Statuses
  <2>3. QED  BY <1>3, <2>1, <2>2, Replaced
<1>5. ASSUME NEW t \in 1..T
      PROVE  Written(t)' = Written(t) /\ (Cut(t)' <=> Cut(t)) /\ (fates'[t] # "deleted" <=> fates[t] # "deleted")
  <2>1. Len(batches[t]) - Len(pending) = Len(batches[t])
    BY <1>2, <1>3
  <2>2. CASE t = T
    BY <1>2, <1>3, <1>4, <2>1, <2>2 DEF Written, Cut
  <2>3. CASE t # T
    BY <1>2, <1>3, <1>4, <2>1, <2>3 DEF Written, Cut
  <2>4. QED  BY <2>2, <2>3
<1>6. Good' = Good
  BY <1>2 DEF Good, Parses
<1>7. ASSUME NEW t \in 1..T, NEW i  PROVE ComesBack(t, i)' <=> ComesBack(t, i)
  <2>1. ReadBack(t, i)' <=> ReadBack(t, i)
    BY <1>2, <1>6 DEF ReadBack
  <2>2. Excused(t, i)' <=> Excused(t, i)
    <3>1. t > 1 => t - 1 \in 1..T
      BY <1>3
    <3>2. t > 1 => (Cut(t - 1)' <=> Cut(t - 1))
      BY <1>5, <3>1
    <3>3. QED  BY <3>2 DEF Excused
  <2>3. QED  BY <2>1, <2>2 DEF ComesBack
<1>8. TurnsSound'
  <2>1. Turns'
    BY <1>1, <1>2, TurnsKept DEF TurnsSound
  <2>2. \A t \in 1..Len(fates') : fates'[t] # "open"
    BY <1>3, <1>4
  <2>3. QED  BY <1>1, <1>2, <1>3, <1>4, <2>1, <2>2 DEF TurnsSound
<1>9. FileSound'
  <2>1. SUFFICES ASSUME NEW l \in 1..Len(lines), NEW n \in 1..Len(lines[l]), NEW t, NEW i,
                        t = lines[l][n].key[1], i = lines[l][n].key[2]
                 PROVE  /\ t \in 1..Len(batches) /\ i \in 1..Len(batches[t])
                        /\ fates'[t] # "deleted" /\ i <= Written(t)'
                        /\ \A h \in 1..(i - 1) : ComesBack(t, h)'
    BY <1>1, <1>2 DEF FileSound
  <2>2. /\ t \in 1..Len(batches) /\ i \in 1..Len(batches[t])
        /\ fates[t] # "deleted" /\ i <= Written(t)
        /\ \A h \in 1..(i - 1) : ComesBack(t, h)
    BY <1>1, <2>1 DEF FileSound
  <2>3. QED  BY <1>5, <1>7, <2>2
<1>10. WrittenSound'
  <2>1. SUFFICES ASSUME NEW t \in 1..T, fates'[t] \in {"kept", "open"}, NEW i \in 1..Written(t)'
                 PROVE  ComesBack(t, i)'
    BY <1>2 DEF WrittenSound
  <2>2. fates[t] \in {"kept", "open"} /\ i \in 1..Written(t)
    BY <1>3, <1>4, <1>5, <2>1
  <2>3. ComesBack(t, i)
    BY <1>1, <2>2 DEF WrittenSound
  <2>4. QED  BY <1>7, <2>3
<1>11. LinesInOrder' /\ RestWaits'
  BY <1>1, <1>2 DEF LinesInOrder, RestWaits
\* The turn is not empty, so its first line is written by now.
<1>12. ended
  <2>1. ~ended => Len(pending) = Len(batches[T])
    BY <1>1, <1>2 DEF TornSound
  <2>2. Len(pending) = 0 /\ Len(batches[T]) >= 2
    BY <1>2, <1>3
  <2>3. QED  BY <2>1, <2>2
<1>13. TornSound'
  BY <1>2, <1>12 DEF TornSound
<1>14. CountSound'
  <2>1. SUFFICES ASSUME \A t \in 1..T : ~Cut(t)'
                 PROVE  Good' = 1..Len(lines') /\ meta'.count = Len(lines') + orphans
    BY <1>2, <1>4, <1>12 DEF CountSound, Cut
  <2>2. \A t \in 1..Len(fates) : ~Cut(t)
    BY <1>3, <1>5, <2>1
  <2>3. Good = 1..Len(lines) /\ countBefore + Written(T) = Len(lines) + orphans
    BY <1>1, <1>2, <2>2 DEF CountSound
  <2>4. Last(batches) = batches[T]
    BY DEF Last
  <2>5. QED  BY <1>2, <1>3, <1>6, <2>3, <2>4
<1> QED  BY <1>8, <1>9, <1>10, <1>11, <1>13, <1>14 DEF ArchiveSound

LEMMA StartAppendSound ==
  ASSUME TypeOK, MetaSound, ArchiveSound, StartAppend
  PROVE  ArchiveSound' /\ pending' \in Seq(Keys) /\ session' \in Seq(Keys)
         /\ Len(fates') = Len(fates) + 1 /\ fates' \in Seq(Statuses) /\ fates'[Len(fates')] = "open"
         /\ Len(batches') = Len(fates')
<1> DEFINE N == Len(batches)
           T == N + 1
<1>1. /\ TurnsSound /\ FileSound /\ LinesInOrder /\ WrittenSound /\ TornSound /\ CountSound
  BY DEF ArchiveSound
<1>2. /\ ~Writing /\ T <= MaxAppends /\ UNCHANGED <<lines, ended, meta, orphans>>
      /\ fates' = Append(fates, "open")
      /\ pending' = [k \in DOMAIN batches'[T] |-> <<T, k>>] /\ session' = session \o pending'
      /\ countBefore' = IF meta.state = "ok" THEN meta.count ELSE CountLines
  BY DEF StartAppend, files
<1>3. PICK calls \in CallCounts, replied \in BOOLEAN :
        (calls > 0 \/ replied) /\ batches' = Append(batches, TurnMessages(T, calls, replied))
  BY DEF StartAppend
<1> DEFINE b == TurnMessages(T, calls, replied)
<1>4. /\ batches \in Seq(Seq(Messages)) /\ N \in Nat /\ Len(fates) = N /\ fates \in Seq(Statuses)
      /\ \A t \in 1..N : fates[t] # "open" /\ Written(t) = Len(batches[t])
  BY <1>2, TurnsAre
<1>5. b \in Seq(Messages) /\ IsTurn(T, b) /\ Len(b) \in Nat
  <2>1. calls \in Nat /\ T \in Nat
    BY <1>4, BoundsAssumption
  <2>2. b \in Seq(Messages) /\ IsTurn(T, b)
    BY <1>3, <2>1, TurnMessagesAre
  <2>3. QED  BY <2>2
<1> HIDE DEF b
<1>6. /\ batches' \in Seq(Seq(Messages)) /\ Len(batches') = T /\ batches'[T] = b
      /\ \A t \in 1..N : batches'[t] = batches[t]
  <2>1. batches' = Append(batches, b)
    BY <1>3 DEF b
  <2>2. QED  BY <1>4, <1>5, <2>1, Appended
<1>7. /\ fates' \in Seq(Statuses) /\ Len(fates') = T /\ fates'[T] = "open"
      /\ \A t \in 1..N : fates'[t] = fates[t]
  <2>1. "open" \in Statuses
    BY DEF Statuses
  <2>2. QED  BY <1>2, <1>4, <2>1, Appended
<1>8. /\ pending' \in Seq(Keys) /\ Len(pending') = Len(b) /\ \A k \in 1..Len(b) : pending'[k] = <<T, k>>
  <2>1. pending' = [k \in 1..Len(b) |-> <<T, k>>]
    BY <1>2, <1>5, <1>6
  <2>2. \A k \in 1..Len(b) : <<T, k>> \in Keys
    BY <1>2, <1>4, <1>5, Limits DEF Keys
  <2>3. QED  BY <1>5, <2>1, <2>2
<1>9. Writing'
  <2>1. countBefore' \in Nat
    BY <1>2, LinesTyped DEF TypeOK, CountLines
  <2>2. QED  BY <2>1, BoundsAssumption DEF Writing
<1>10. ASSUME NEW t, t = T  PROVE Written(t)' = 0
  <2>1. Written(t)' = Len(b) - Len(b)
    BY <1>6, <1>7, <1>8, <1>10 DEF Written
  <2>2. QED  BY <1>5, <2>1
<1>11. ASSUME NEW t \in 1..N
       PROVE  fates'[t] = fates[t] /\ Written(t)' = Written(t) /\ (Cut(t)' <=> Cut(t)) /\ batches'[t] = batches[t]
  BY <1>4, <1>6, <1>7 DEF Written, Cut
<1>12. Good' = Good
  BY <1>2 DEF Good, Parses
<1>13. ASSUME NEW t \in 1..N, NEW i  PROVE ComesBack(t, i)' <=> ComesBack(t, i)
  <2>1. ReadBack(t, i)' <=> ReadBack(t, i)
    BY <1>2, <1>12 DEF ReadBack
  <2>2. t > 1 => t - 1 \in 1..N
    BY <1>4
  <2>3. t > 1 => (Cut(t - 1)' <=> Cut(t - 1))
    BY <1>11, <2>2
  <2>4. QED  BY <2>1, <2>3 DEF ComesBack, Excused
<1>14. \A t \in 1..T : t \in 1..N \/ t = T
  BY <1>4
<1>15. TurnsSound'
  <2>1. ASSUME NEW t \in 1..Len(batches')  PROVE IsTurn(t, batches'[t])
    <3>1. CASE t \in 1..N
      BY <1>1, <1>11, <3>1 DEF TurnsSound, Turns
    <3>2. CASE t = T
      BY <1>5, <1>6, <3>2
    <3>3. QED  BY <1>6, <1>14, <2>1, <3>1, <3>2
  <2>2. Turns'
    BY <1>6, <2>1 DEF Turns
  <2>3. \A t \in 1..Len(fates') : fates'[t] = "open" <=> t = T
    BY <1>4, <1>7, <1>14
  <2>4. QED  BY <1>2, <1>4, <1>6, <1>7, <1>9, <2>2, <2>3 DEF TurnsSound
<1>16. RestWaits'
  <2>1. ASSUME NEW n \in 1..Len(pending')
        PROVE  pending'[n] = <<T, Len(batches'[T]) - Len(pending') + n>>
    <3>1. Len(batches'[T]) - Len(pending') + n = n
      BY <1>5, <1>6, <1>8
    <3>2. QED  BY <1>8, <3>1
  <2>2. Len(pending') <= Len(batches'[T])
    BY <1>5, <1>6, <1>8
  <2>3. QED  BY <1>6, <2>1, <2>2 DEF RestWaits
<1>17. FileSound'
  <2>1. SUFFICES ASSUME NEW l \in 1..Len(lines), NEW n \in 1..Len(lines[l]), NEW t, NEW i,
                        t = lines[l][n].key[1], i = lines[l][n].key[2]
                 PROVE  /\ t \in 1..Len(batches') /\ i \in 1..Len(batches'[t])
                        /\ fates'[t] # "deleted" /\ i <= Written(t)'
                        /\ \A h \in 1..(i - 1) : ComesBack(t, h)'
    BY <1>1, <1>2 DEF FileSound
  <2>2. /\ t \in 1..N /\ i \in 1..Len(batches[t])
        /\ fates[t] # "deleted" /\ i <= Written(t)
        /\ \A h \in 1..(i - 1) : ComesBack(t, h)
    BY <1>1, <2>1 DEF FileSound
  <2>3. t \in 1..Len(batches')
    BY <1>4, <1>6, <2>2
  <2>4. QED  BY <1>11, <1>13, <2>2, <2>3
<1>18. WrittenSound'
  <2>1. SUFFICES ASSUME NEW t \in 1..T, fates'[t] \in {"kept", "open"}, NEW i \in 1..Written(t)'
                 PROVE  ComesBack(t, i)'
    BY <1>6 DEF WrittenSound
  <2>2. t # T
    <3>1. SUFFICES ASSUME t = T PROVE FALSE
      OBVIOUS
    <3>2. i \in 1..0
      BY <1>10, <2>1, <3>1
    <3>3. QED  BY <3>2
  <2>3. t \in 1..N
    BY <1>14, <2>2
  <2>4. fates[t] \in {"kept", "open"} /\ i \in 1..Written(t)
    BY <1>11, <2>1, <2>3
  <2>5. ComesBack(t, i)
    BY <1>1, <2>3, <2>4 DEF WrittenSound
  <2>6. QED  BY <1>13, <2>3, <2>5
<1>19. LinesInOrder'
  BY <1>1, <1>2 DEF LinesInOrder
<1>20. TornSound'
  <2>1. SUFFICES ASSUME ~ended
                 PROVE  /\ lines # << >> /\ T > 1 /\ fates'[T - 1] = "cut"
                        /\ \A n \in 1..Len(lines[Len(lines)]) : fates'[lines[Len(lines)][n].key[1]] = "cut"
    <3>1. fates'[Len(fates') - 1] = fates'[T - 1]
      BY <1>7
    <3>2. Len(fates') >= 1 /\ Len(pending') = Len(batches'[Len(batches')])
      BY <1>4, <1>6, <1>7, <1>8
    <3>3. SUFFICES ASSUME ~ended
                   PROVE  /\ lines # << >> /\ Len(fates') > 1 /\ fates'[Len(fates') - 1] = "cut"
                          /\ \A n \in 1..Len(lines[Len(lines)]) : fates'[lines[Len(lines)][n].key[1]] = "cut"
      BY <1>2, <1>9, <3>2 DEF TornSound, Cut
    <3>4. QED  BY <1>7, <3>1, <3>3
  <2>2. /\ lines # << >> /\ N >= 1 /\ fates[N] = "cut"
        /\ \A n \in 1..Len(lines[Len(lines)]) : fates[lines[Len(lines)][n].key[1]] = "cut"
    BY <1>1, <1>2, <1>4, <2>1 DEF TornSound, Cut
  <2>3. T - 1 = N /\ N \in 1..N
    BY <1>4, <2>2
  <2>4. ASSUME NEW n \in 1..Len(lines[Len(lines)]), NEW t, t = lines[Len(lines)][n].key[1]
        PROVE  fates'[t] = "cut"
    <3>1. Len(lines) \in 1..Len(lines)
      BY <2>2, LinesTyped
    <3>2. t \in 1..N
      BY <1>1, <2>4, <3>1 DEF FileSound
    <3>3. QED  BY <1>11, <2>2, <2>4, <3>2
  <2>5. QED  BY <1>4, <1>11, <2>2, <2>3, <2>4
<1>21. CountSound'
  <2>1. SUFFICES ASSUME \A t \in 1..T : fates'[t] # "cut"
                 PROVE  ended /\ Good = 1..Len(lines) /\ countBefore' + 0 = Len(lines) + orphans
    <3>1. Written(Len(batches))' = 0
      BY <1>6, <1>10
    <3>2. QED  BY <1>2, <1>6, <1>7, <1>9, <1>12, <3>1 DEF CountSound, Cut
  <2>2. \A t \in 1..Len(fates) : ~Cut(t)
    BY <1>4, <1>7, <2>1 DEF Cut
  <2>3. ended /\ Good = 1..Len(lines) /\ (meta.state = "ok" => meta.count = Len(lines) + orphans)
    BY <1>1, <1>2, <2>2 DEF CountSound
  <2>4. Len(lines) \in Nat /\ orphans \in Nat /\ (meta.state # "ok" => orphans = 0)
    BY LinesTyped DEF MetaSound, TypeOK
  <2>5. countBefore' = Len(lines) + orphans
    BY <1>2, <2>3, <2>4 DEF CountLines
  <2>6. QED  BY <2>3, <2>4, <2>5
<1>22. session' \in Seq(Keys)
  BY <1>2, <1>8, Joined DEF TypeOK
<1> QED  BY <1>4, <1>6, <1>7, <1>8, <1>15, <1>16, <1>17, <1>18, <1>19, <1>20, <1>21, <1>22 DEF ArchiveSound

\* A deletion: the lines go, and what the meta file still counts are orphans.
LEMMA UnlinkLinesSound ==
  ASSUME TypeOK, ArchiveSound, UnlinkLines, ~Writing, UNCHANGED <<batches, pending, countBefore>>,
         meta'.state = "ok" => meta'.count = orphans' /\ orphans' \in Nat
  PROVE  ArchiveSound' /\ fates' \in Seq(Statuses) /\ Len(fates') = Len(batches)
<1>1. /\ TurnsSound /\ ~Writing /\ ~Writing' /\ batches' = batches
      /\ lines' = << >> /\ ended' = TRUE
      /\ fates' = [t \in DOMAIN fates |-> "deleted"]
      /\ meta'.state = "ok" => meta'.count = orphans' /\ orphans' \in Nat
  BY DEF ArchiveSound, UnlinkLines, Writing
<1>2. batches \in Seq(Seq(Messages)) /\ Len(batches) \in Nat /\ fates \in Seq(Statuses) /\ Len(fates) = Len(batches)
  BY TurnsAre
<1>3. fates' \in Seq(Statuses) /\ Len(fates') = Len(batches) /\ \A t \in 1..Len(batches) : fates'[t] = "deleted"
  <2>1. "deleted" \in Statuses
    BY DEF Statuses
  <2>2. DOMAIN fates = 1..Len(batches)
    BY <1>2
  <2>3. QED  BY <1>1, <1>2, <2>1, <2>2
<1>4. TurnsSound'
  <2>1. Turns'
    BY <1>1, TurnsKept DEF TurnsSound
  <2>2. QED  BY <1>1, <1>3, <2>1 DEF TurnsSound
<1>5. Len(lines') = 0
  BY <1>1
<1>6. FileSound' /\ LinesInOrder' /\ RestWaits' /\ TornSound'
  BY <1>1, <1>5 DEF FileSound, LinesInOrder, RestWaits, TornSound
<1>7. WrittenSound'
  BY <1>1, <1>3 DEF WrittenSound
<1>8. CountSound'
  <2>1. Good' = {} /\ 1..0 = {}
    BY <1>1 DEF Good
  <2>2. meta'.state = "ok" => orphans' = meta'.count /\ orphans' \in Nat /\ meta'.count = 0 + orphans'
    BY <1>1
  <2>3. QED  BY <1>1, <1>5, <2>1, <2>2 DEF CountSound
<1> QED  BY <1>3, <1>4, <1>6, <1>7, <1>8 DEF ArchiveSound

LEMMA DeletionSound ==
  ASSUME TypeOK, MetaSound, ArchiveSound, Delete \/ UnlinkFails \/ DeleteStops
  PROVE  /\ ArchiveSound' /\ MetaSound'
         /\ UNCHANGED <<lines, ended, fates>> \/ UnlinkLines
<1>1. ~Writing /\ UNCHANGED <<batches, pending, countBefore>>
  BY DEF Delete, UnlinkFails, DeleteStops
<1>2. meta.count \in Nat /\ NoMeta \in Metas /\ NoMeta.state = "none" /\ NoMeta.count = 0
  BY DEF TypeOK, NoMeta, Metas
<1>3. CASE UnlinkLines /\ UnlinkMeta
  <2>1. meta' = NoMeta /\ orphans' = 0
    BY <1>3 DEF UnlinkMeta
  <2>2. meta'.state # "ok" /\ UnlinkLines
    BY <1>2, <1>3, <2>1
  <2>3. ArchiveSound'
    BY <1>1, <2>2, UnlinkLinesSound
  <2>4. QED  BY <1>2, <2>1, <2>2, <2>3 DEF MetaSound
<1>4. CASE UnlinkLines /\ orphans' = meta.count /\ UNCHANGED meta
  <2>1. meta'.count = orphans' /\ orphans' \in Nat /\ UnlinkLines
    BY <1>2, <1>4
  <2>2. ArchiveSound'
    BY <1>1, <2>1, UnlinkLinesSound
  <2>3. QED  BY <1>4, <2>1, <2>2 DEF MetaSound
<1>5. CASE UnlinkMeta /\ UNCHANGED <<lines, ended, fates>>
  <2>1. meta' = NoMeta /\ orphans' = 0
    BY <1>5 DEF UnlinkMeta
  <2>2. meta'.state # "ok"
    BY <1>2, <2>1
  <2>3. UNCHANGED <<lines, ended, batches, fates, pending, countBefore>>
    BY <1>1, <1>5
  <2>4. ArchiveSound'
    BY <1>1, <2>2, <2>3, FileKept
  <2>5. QED  BY <1>2, <1>5, <2>1, <2>2, <2>4 DEF MetaSound
<1> QED  BY <1>1, <1>3, <1>4, <1>5 DEF Delete, UnlinkFails, DeleteStops

LEMMA InitSound ==
  ASSUME Init
  PROVE  IInv
<1>1. /\ lines = << >> /\ ended = TRUE /\ batches = << >> /\ fates = << >> /\ pending = << >>
      /\ ~Writing /\ session = << >> /\ meta = NoMeta /\ app = "attached" /\ recovering = Nothing /\ faults = 0
      /\ countBefore = Nothing /\ orphans = 0
  BY DEF Init, Writing
<1>2. TypeOK
  BY <1>1, Limits DEF TypeOK, NoMeta
<1>3. MetaSound /\ WriterUp
  BY <1>1 DEF MetaSound, Metas, NoMeta, WriterUp
<1>4. TurnsSound
  BY <1>1, Limits DEF TurnsSound, Turns
<1>5. Good = {} /\ 1..0 = {}
  BY <1>1 DEF Good
<1>6. ArchiveSound
  BY <1>1, <1>4, <1>5 DEF ArchiveSound, RestWaits, FileSound, LinesInOrder, WrittenSound,
                          TornSound, CountSound, NoMeta
<1> QED  BY <1>2, <1>3, <1>6 DEF IInv

\* The conversation in memory, and one that waits for its compression.
LEMMA SessionsTyped ==
  ASSUME TypeOK, Next
  PROVE  /\ session' \in Seq(Keys) \/ StartAppend
         /\ recovering' = Nothing \/ recovering' \in Seq(Keys)
         /\ app' \in {"down", "elsewhere", "attached"} /\ faults' \in 0..MaxFaults
<1>1. /\ session \in Seq(Keys) /\ (recovering = Nothing \/ recovering \in Seq(Keys))
      /\ app \in {"down", "elsewhere", "attached"} /\ faults \in 0..MaxFaults /\ << >> \in Seq(Keys)
  BY DEF TypeOK
<1>2. Recovered \in Seq(Keys)
  BY RecoveredTyped DEF TypeOK
<1>3. CASE ResumeFinishes
  <2>1. recovering \in Seq(Keys)
    BY <1>1, <1>3 DEF ResumeFinishes
  <2>2. session' \in Shrunk(recovering)
    BY <1>3 DEF ResumeFinishes, Shrunk
  <2>3. session' \in Seq(Keys)
    BY <2>1, <2>2, ShrunkTyped
  <2>4. QED  BY <1>1, <1>3, <2>3 DEF ResumeFinishes
<1>4. CASE ResumeSmall \/ ResumeLarge \/ ResumeRaises
  BY <1>1, <1>2, <1>4 DEF ResumeSmall, ResumeLarge, ResumeRaises, files
<1>5. CASE StartAppend \/ AppendRaises \/ WriteLine \/ RefreshMeta \/ Quit
  BY <1>1, <1>5 DEF StartAppend, AppendRaises, WriteLine, RefreshMeta, Quit, files
<1>6. ASSUME Fault  PROVE faults' \in 0..MaxFaults
  BY <1>1, <1>6, Limits DEF Fault
<1>7. CASE Crash \/ WriteFails \/ MetaBreaks \/ UnlinkFails \/ DeleteStops
  BY <1>1, <1>6, <1>7 DEF Crash, WriteFails, MetaBreaks, UnlinkFails, DeleteStops
<1>8. CASE StartApp \/ LeaveSession \/ Delete
  BY <1>1, <1>8 DEF StartApp, LeaveSession, Delete, files
<1> QED  BY <1>3, <1>4, <1>5, <1>7, <1>8 DEF Next

\* The file and what is being written have their types if the turns are sound.
LEMMA FileTyped ==
  ASSUME TypeOK, MetaSound, ArchiveSound, Next
  PROVE  /\ lines' \in Seq(Seq(Fragments)) /\ (~ended' => lines' # << >>)
         /\ pending' \in Seq(Keys) /\ countBefore' \in Nat \cup {Nothing}
         /\ pending' # << >> => Writing'
<1>1. /\ lines \in Seq(Seq(Fragments)) /\ (~ended => lines # << >>) /\ pending \in Seq(Keys)
      /\ countBefore \in Nat \cup {Nothing} /\ (pending # << >> => Writing) /\ meta.count \in Nat
      /\ CountLines \in Nat
  BY DEF TypeOK, CountLines
<1>2. << >> \in Seq(Seq(Fragments)) /\ << >> \in Seq(Keys)
  OBVIOUS
<1>3. CASE StartAppend
  <2>1. pending' \in Seq(Keys) /\ countBefore' \in Nat /\ UNCHANGED <<lines, ended>>
    BY <1>1, <1>3, StartAppendSound DEF StartAppend, files
  <2>2. QED  BY <1>1, <2>1, BoundsAssumption DEF Writing
<1>4. CASE WriteLine
  <2>1. Writing /\ pending # << >> /\ lines' = Glue(Fragment(Head(pending), "whole"))
    BY <1>4 DEF WriteLine
  <2>2. "whole" \in {"whole", "cut", "garbled"}
    OBVIOUS
  <2>3. lines' \in Seq(Seq(Fragments))
    BY <2>1, <2>2, Glued
  <2>4. pending' \in Seq(Keys)
    BY <1>1, <1>4, <2>1 DEF WriteLine
  <2>5. QED  BY <1>1, <1>4, <2>1, <2>3, <2>4 DEF WriteLine, Writing
<1>5. CASE WriteStops
  <2>1. pending' = << >> /\ countBefore' = Nothing
    BY <1>5 DEF WriteStops
  <2>2. CASE UNCHANGED <<lines, ended>>
    BY <1>1, <1>2, <2>1, <2>2
  <2>3. CASE ~UNCHANGED <<lines, ended>>
    <3>1. /\ Writing /\ pending # << >>
          /\ \E part \in {"whole", "cut", "garbled"} : lines' = Glue(Fragment(Head(pending), part))
      BY <1>5, <2>3 DEF WriteStops
    <3>2. PICK part \in {"whole", "cut", "garbled"} : lines' = Glue(Fragment(Head(pending), part))
      BY <3>1
    <3>3. lines' \in Seq(Seq(Fragments)) /\ lines' # << >>
      BY <3>1, <3>2, Glued
    <3>4. QED  BY <1>2, <2>1, <3>3
  <2>4. QED  BY <2>2, <2>3
<1>6. CASE Crash \/ WriteFails
  BY <1>5, <1>6 DEF Crash, WriteFails
<1>7. CASE RefreshMeta \/ AppendRaises \/ Quit \/ MetaBreaks \/ StartApp \/ LeaveSession
  BY <1>1, <1>7 DEF RefreshMeta, AppendRaises, Quit, MetaBreaks, StartApp, LeaveSession, files, Writing
<1>8. CASE ResumeSmall \/ ResumeLarge \/ ResumeRaises \/ ResumeFinishes
  BY <1>1, <1>8 DEF ResumeSmall, ResumeLarge, ResumeRaises, ResumeFinishes, files, Writing
<1>9. CASE Delete \/ UnlinkFails \/ DeleteStops
  <2>1. UNCHANGED <<pending, countBefore>>
    BY <1>9 DEF Delete, UnlinkFails, DeleteStops
  <2>2. CASE UnlinkLines
    BY <1>1, <1>2, <2>1, <2>2 DEF UnlinkLines, Writing
  <2>3. CASE UNCHANGED <<lines, ended, fates>>
    BY <1>1, <2>1, <2>3 DEF Writing
  <2>4. QED  BY <1>9, <2>2, <2>3, DeletionSound
<1> QED  BY <1>3, <1>4, <1>6, <1>7, <1>8, <1>9 DEF Next

LEMMA MetaTyped ==
  ASSUME TypeOK, ArchiveSound, MetaSound, Next
  PROVE  MetaSound' /\ orphans' \in Nat
<1>1. /\ NoMeta \in Metas /\ Broken \in Metas
      /\ \A m \in Metas, c \in Nat : [m EXCEPT !.state = "ok", !.count = c] \in Metas
      /\ Broken.count = 0 /\ 0 \in Nat /\ meta \in Metas /\ orphans \in Nat /\ meta.count \in Nat
  BY DEF Metas, NoMeta, Broken, MetaSound, TypeOK
<1>2. CASE RefreshMeta
  <2> DEFINE c == countBefore + Len(Last(batches))
  <2>1. c \in Nat
    <3>1. Writing
      BY <1>2 DEF RefreshMeta
    <3>2. countBefore \in Nat
      BY <3>1 DEF TypeOK, Writing
    <3>3. Last(batches) = batches[Len(batches)] /\ Len(batches[Len(batches)]) \in Nat
      BY <3>1, TurnsAre DEF Last
    <3>4. QED  BY <3>2, <3>3
  <2>2. meta' = [meta EXCEPT !.state = "ok", !.count = c]
    BY <1>2 DEF RefreshMeta
  <2> HIDE DEF c
  <2>3. meta' \in Metas
    BY <1>1, <2>1, <2>2
  <2>4. meta'.state = "ok"
    BY <1>1, <2>2 DEF Metas
  <2>5. orphans' = orphans
    BY <1>2 DEF RefreshMeta
  <2>6. QED  BY <1>1, <2>3, <2>4, <2>5 DEF MetaSound
<1>3. CASE MetaBreaks
  BY <1>1, <1>3 DEF MetaBreaks, MetaSound
<1>4. CASE Delete \/ UnlinkFails \/ DeleteStops
  <2>1. orphans' \in {0, meta.count}
    BY <1>4 DEF Delete, UnlinkFails, DeleteStops, UnlinkMeta
  <2>2. MetaSound'
    BY <1>4, DeletionSound
  <2>3. QED  BY <1>1, <2>1, <2>2
<1>5. ASSUME UNCHANGED <<meta, orphans>>  PROVE MetaSound' /\ orphans' \in Nat
  BY <1>1, <1>5 DEF MetaSound
<1>6. CASE StartAppend \/ AppendRaises \/ WriteLine \/ Crash \/ WriteFails \/ StartApp \/ LeaveSession \/ Quit
  BY <1>5, <1>6 DEF StartAppend, AppendRaises, WriteLine, Crash, WriteFails, StartApp, LeaveSession, Quit, files
<1>7. CASE ResumeSmall \/ ResumeLarge \/ ResumeRaises \/ ResumeFinishes
  BY <1>5, <1>7 DEF ResumeSmall, ResumeLarge, ResumeRaises, ResumeFinishes, files
<1> QED  BY <1>2, <1>3, <1>4, <1>6, <1>7 DEF Next

LEMMA WriterStaysUp ==
  ASSUME WriterUp, Next
  PROVE  WriterUp'
<1>1. CASE StartAppend \/ AppendRaises \/ WriteLine \/ RefreshMeta \/ Quit
  BY <1>1 DEF StartAppend, AppendRaises, WriteLine, RefreshMeta, Quit, files, WriterUp, Writing
<1>2. CASE Crash \/ WriteFails \/ MetaBreaks \/ StartApp \/ LeaveSession
  BY <1>2 DEF Crash, WriteFails, WriteStops, MetaBreaks, StartApp, LeaveSession, files, WriterUp, Writing
<1>3. CASE ResumeSmall \/ ResumeLarge \/ ResumeRaises \/ ResumeFinishes
  BY <1>3 DEF ResumeSmall, ResumeLarge, ResumeRaises, ResumeFinishes, MayResume, files, WriterUp, Writing
<1>4. CASE Delete \/ UnlinkFails \/ DeleteStops
  BY <1>4 DEF Delete, UnlinkFails, DeleteStops, WriterUp, Writing
<1> QED  BY <1>1, <1>2, <1>3, <1>4 DEF Next

LEMMA NextSound ==
  ASSUME TypeOK, ArchiveSound, MetaSound, WriterUp, Next
  PROVE  ArchiveSound'
<1>1. CASE StartAppend
  BY <1>1, StartAppendSound
<1>2. CASE WriteLine
  BY <1>2, WriteLineSound
<1>3. CASE RefreshMeta
  BY <1>3, RefreshMetaSound
<1>4. CASE Crash
  BY <1>4, WriteStopsSound DEF Crash
<1>5. CASE WriteFails
  BY <1>5, WriteStopsSound DEF WriteFails
<1>6. CASE Delete \/ UnlinkFails \/ DeleteStops
  BY <1>6, DeletionSound
<1>7. CASE Quit
  BY <1>7, FileKept DEF Quit, files
<1>8. CASE MetaBreaks
  <2>1. meta'.state # "ok"
    BY <1>8 DEF MetaBreaks, Broken
  <2>2. ~Writing
    BY <1>8 DEF MetaBreaks, WriterUp
  <2>3. QED  BY <1>8, <2>1, <2>2, FileKept DEF MetaBreaks
<1>9. CASE AppendRaises \/ StartApp \/ LeaveSession
  BY <1>9, FileKept DEF AppendRaises, StartApp, LeaveSession, files
<1>10. CASE ResumeSmall \/ ResumeLarge \/ ResumeRaises \/ ResumeFinishes
  BY <1>10, FileKept DEF ResumeSmall, ResumeLarge, ResumeRaises, ResumeFinishes, files
<1> QED  BY <1>1, <1>2, <1>3, <1>4, <1>5, <1>6, <1>7, <1>8, <1>9, <1>10 DEF Next

\* The rest of the type invariant follows from the sound turns.
LEMMA NextTyped ==
  ASSUME TypeOK, ArchiveSound, MetaSound, WriterUp, Next
  PROVE  TypeOK'
<1>1. /\ TurnsSound' /\ meta' \in Metas /\ orphans' \in Nat
  BY NextSound, MetaTyped DEF ArchiveSound, MetaSound
<1>2. /\ batches' \in Seq(Seq(Messages)) /\ fates' \in Seq(Statuses) /\ Len(fates') = Len(batches')
  BY <1>1 DEF TurnsSound, Turns
<1>3. /\ DOMAIN fates' = DOMAIN batches'
      /\ \A t \in DOMAIN fates' : fates'[t] \in {"open", "kept", "cut", "deleted"}
  BY <1>2 DEF Statuses
<1>4. Writing' => fates'[Len(fates')] = "open"
  <2>1. Writing' => Len(fates') \in 1..Len(fates')
    BY <1>1, <1>2 DEF TurnsSound
  <2>2. QED  BY <1>1, <2>1 DEF TurnsSound
<1>5. meta'.state \in {"none", "ok", "broken"} /\ {meta'.count, orphans'} \subseteq Nat
  BY <1>1 DEF Metas
<1>6. session' \in Seq(Keys)
  BY SessionsTyped, StartAppendSound
<1>7. QED  BY <1>3, <1>4, <1>5, <1>6, SessionsTyped, FileTyped DEF TypeOK

LEMMA StutterSound ==
  ASSUME IInv, UNCHANGED vars
  PROVE  IInv'
<1>1. ArchiveSound'
  BY FileKept DEF IInv, vars
<1>2. TypeOK' /\ MetaSound' /\ WriterUp'
  BY DEF IInv, TypeOK, vars, Writing, MetaSound, WriterUp
<1> QED  BY <1>1, <1>2 DEF IInv

-----------------------------------------------------------------------------
(***************************************************************************)
(* The file is a log of turns                                              *)
(***************************************************************************)
\* What is read of the lines at some places.
Read(ls, places) == [n \in 1..Cardinality(places) |-> ls[Nth(places, n)][1].key]

LEMMA ReadSame ==
  ASSUME NEW ls, NEW lt, NEW n \in Nat, NEW S \in SUBSET (1..n),
         \A l \in S : lt[l][1].key = ls[l][1].key
  PROVE  Read(lt, S) = Read(ls, S)
<1>1. \A r \in 1..Cardinality(S) : lt[Nth(S, r)][1].key = ls[Nth(S, r)][1].key
  BY NthIs
<1> QED  BY <1>1 DEF Read

\* The same keys at those places, and e at the next.
OneMore(K, ls, lt, n, S, e) ==
  /\ n \in Nat /\ S \in SUBSET (1..n)
  /\ \A l \in S : ls[l][1].key \in K /\ lt[l][1].key = ls[l][1].key
  /\ e \in K /\ e = lt[n + 1][1].key

ReadsMore(K, ls, lt, n, S, e) ==
  /\ Read(ls, S) \in Seq(K)
  /\ Read(lt, S \cup {n + 1}) = Append(Read(ls, S), e)

LEMMA ReadMore ==
  ASSUME NEW K, NEW ls, NEW lt, NEW n, NEW S, NEW e, OneMore(K, ls, lt, n, S, e)
  PROVE  ReadsMore(K, ls, lt, n, S, e)
<1> DEFINE c == Cardinality(S)
           U == S \cup {n + 1}
           a == Read(ls, S)
           b == Read(lt, U)
<1>0. n \in Nat /\ S \in SUBSET (1..n)
  BY DEF OneMore
<1>1. /\ c \in Nat /\ Cardinality(U) = c + 1 /\ Nth(U, c + 1) = n + 1
      /\ \A r \in 1..c : Nth(U, r) = Nth(S, r) /\ Nth(S, r) \in S
  BY <1>0, NthMore
<1>2. a = [r \in 1..c |-> ls[Nth(S, r)][1].key]
  BY DEF Read
<1>3. b = [r \in 1..(c + 1) |-> lt[Nth(U, r)][1].key]
  BY <1>1 DEF Read
<1>4. \A r \in 1..c : ls[Nth(S, r)][1].key \in K /\ lt[Nth(U, r)][1].key = ls[Nth(S, r)][1].key
  BY <1>1 DEF OneMore
<1>5. e \in K /\ lt[Nth(U, c + 1)][1].key = e
  BY <1>1 DEF OneMore
<1> HIDE DEF c, U, a, b
<1>6. a \in Seq(K) /\ Len(a) = c /\ \A r \in 1..c : a[r] = ls[Nth(S, r)][1].key
  BY <1>1, <1>2, <1>4
<1>7. \A r \in 1..(c + 1) : r \in 1..c \/ r = c + 1
  BY <1>1
<1>8. \A r \in 1..(c + 1) : b[r] \in K /\ b[r] = IF r = c + 1 THEN e ELSE a[r]
  BY <1>1, <1>3, <1>4, <1>5, <1>6, <1>7
<1>9. b \in Seq(K) /\ Len(b) = c + 1
  BY <1>1, <1>3, <1>8
<1> DEFINE d == Append(a, e)
<1>10. /\ d \in Seq(K) /\ Len(d) = c + 1 /\ d[c + 1] = e /\ \A r \in 1..c : d[r] = a[r]
  <2>1. /\ Append(a, e) \in Seq(K) /\ Len(Append(a, e)) = Len(a) + 1 /\ Append(a, e)[Len(a) + 1] = e
        /\ \A l \in 1..Len(a) : Append(a, e)[l] = a[l]
    BY <1>5, <1>6, Appended
  <2>2. QED  BY <1>6, <2>1
<1> HIDE DEF d
<1>11. \A r \in 1..Len(b) : b[r] = d[r]
  <2>1. \A r \in 1..c : r # c + 1
    BY <1>1
  <2>2. QED  BY <1>7, <1>8, <1>9, <1>10, <2>1
<1>12. b = d
  BY <1>9, <1>10, <1>11, SameList
<1> QED  BY <1>6, <1>12 DEF a, b, d, U, ReadsMore

LEMMA ParsedRead == Parsed = Read(lines, Good)
BY DEF Parsed, Read

LEMMA ParsedReadNext == Parsed' = Read(lines', Good')
BY DEF Parsed, Read

\* What is read after one more fragment: the message that is now whole, the
\* same as before, or all but the message on the unended line.
LEMMA GlueReads ==
  ASSUME TypeOK, ArchiveSound, Writing, pending # << >>,
         NEW part \in {"whole", "cut", "garbled"},
         lines' = Glue(Fragment(Head(pending), part))
  PROVE  /\ ended /\ part = "whole" =>
              Parsed' = Append(Parsed, Head(pending)) /\ Parses(lines'[Len(lines')])
         /\ ended /\ part # "whole" => Parsed' = Parsed /\ ~Parses(lines'[Len(lines')])
         /\ ~ended => ~Parses(lines'[Len(lines')])
         /\ ~ended /\ ~Unended => Parsed' = Parsed
         /\ Unended => /\ Parsed' \in Seq(Keys)
                       /\ Parsed = Append(Parsed', lines[Len(lines)][1].key)
                       /\ lines[Len(lines)][1].key[1] \in 1..Len(batches)
                       /\ Cut(lines[Len(lines)][1].key[1])
<1> DEFINE p == Head(pending)
           f == Fragment(p, part)
           N == Len(lines)
           G == Good
           H == Good'
<1>0. Parsed = Read(lines, G) /\ Parsed' = Read(lines', H)
  BY ParsedRead, ParsedReadNext
<1>1. pending \in Seq(Keys) /\ p \in Keys
  BY DEF TypeOK
<1>2. f \in Fragments /\ f.key = p /\ f.part = part
  BY <1>1 DEF Fragment, Fragments
<1>3. /\ lines \in Seq(Seq(Fragments)) /\ N \in Nat /\ G \in SUBSET (1..N)
      /\ \A l \in 1..N : l \in G <=> Parses(lines[l])
      /\ \A l \in G : lines[l][1].key \in Keys
  <2>1. \A l \in 1..N : l \in G <=> Parses(lines[l])
    BY LinesTyped DEF Good
  <2>2. ASSUME NEW l \in G  PROVE lines[l][1].key \in Keys
    <3>1. l \in 1..N /\ Len(lines[l]) = 1 /\ 1 \in 1..Len(lines[l])
      BY LinesTyped
    <3>2. QED  BY <3>1, LinesTyped
  <2>3. QED  BY <2>1, <2>2, LinesTyped
<1>4. Good' = {l \in DOMAIN lines' : Parses(lines'[l])}
  BY DEF Good, Parses
<1> HIDE DEF p, f, G, H
<1>5. CASE ended
  <2> DEFINE one == <<f>>
  <2>1. lines' = Append(lines, one)
    BY <1>5 DEF Glue, f, p
  <2>2. one \in Seq(Fragments) /\ Len(one) = 1 /\ one[1] = f
    BY <1>2
  <2> HIDE DEF one
  <2>3. /\ lines' \in Seq(Seq(Fragments)) /\ Len(lines') = N + 1
        /\ lines'[N + 1] = one /\ \A l \in 1..N : lines'[l] = lines[l]
    <3>1. /\ Append(lines, one) \in Seq(Seq(Fragments)) /\ Len(Append(lines, one)) = Len(lines) + 1
          /\ Append(lines, one)[Len(lines) + 1] = one
          /\ \A l \in 1..Len(lines) : Append(lines, one)[l] = lines[l]
      BY <1>3, <2>2, Appended
    <3>2. QED  BY <2>1, <3>1
  <2>4. Parses(lines'[N + 1]) <=> part = "whole"
    BY <1>2, <2>2, <2>3 DEF Parses
  <2>5. DOMAIN lines' = 1..(N + 1)
    BY <1>3, <2>3
  <2>6. \A l : l \in H <=> (l \in G \/ (l = N + 1 /\ part = "whole"))
    <3>1. \A l : l \in H <=> l \in 1..(N + 1) /\ Parses(lines'[l])
      BY <1>4, <2>5 DEF H
    <3>2. \A l : l \in 1..(N + 1) <=> l \in 1..N \/ l = N + 1
      BY <1>3
    <3>3. N + 1 \notin 1..N
      BY <1>3
    <3>4. QED  BY <1>3, <2>3, <2>4, <3>1, <3>2, <3>3
  <2>7. \A l \in G : lines'[l][1].key = lines[l][1].key
    BY <1>3, <2>3
  <2>8. ASSUME part = "whole"  PROVE Parsed' = Append(Parsed, p)
    <3>1. H = G \cup {N + 1}
      BY <2>6, <2>8
    <3>2. lines'[N + 1][1].key = p
      BY <1>2, <2>2, <2>3
    <3>3. OneMore(Keys, lines, lines', N, G, p)
      BY <1>1, <1>3, <2>7, <3>2 DEF OneMore, p
    <3>4. ReadsMore(Keys, lines, lines', N, G, p)
      BY <3>3, ReadMore
    <3>5. QED  BY <1>0, <3>1, <3>4 DEF ReadsMore
  <2>9. ASSUME part # "whole"  PROVE Parsed' = Parsed
    <3>1. H = G
      BY <2>6, <2>9
    <3>2. Read(lines', G) = Read(lines, G)
      BY <1>3, <2>7, ReadSame
    <3>3. QED  BY <1>0, <3>1, <3>2
  <2>10. QED  BY <1>5, <2>3, <2>4, <2>8, <2>9 DEF p, Unended
<1>6. CASE ~ended
  <2>1. lines # << >> /\ \A n \in 1..Len(lines[N]) : Cut(lines[N][n].key[1])
    BY <1>6 DEF ArchiveSound, TornSound
  <2>2. N \in 1..N /\ N - 1 \in Nat /\ (N - 1) + 1 = N
    BY <1>3, <2>1
  <2> DEFINE glued == Append(lines[N], f)
  <2>3. lines' = [lines EXCEPT ![N] = glued]
    BY <1>6, <2>2 DEF Glue, f, p
  <2>4. lines[N] \in Seq(Fragments) /\ Len(lines[N]) \in Nat \ {0}
    BY <2>2, LinesTyped DEF FileSound, ArchiveSound
  <2>5. glued \in Seq(Fragments) /\ Len(glued) # 1
    BY <1>2, <2>4
  <2> HIDE DEF glued
  <2>6. /\ Len(lines') = N /\ lines' \in Seq(Seq(Fragments))
        /\ lines'[N] = glued /\ \A l \in 1..N : l # N => lines'[l] = lines[l]
    <3>0. lines \in Seq(Seq(Fragments)) /\ N \in 1..Len(lines) /\ glued \in Seq(Fragments)
      BY <1>3, <2>2, <2>5
    <3>1. /\ [lines EXCEPT ![N] = glued] \in Seq(Seq(Fragments)) /\ Len([lines EXCEPT ![N] = glued]) = Len(lines)
          /\ [lines EXCEPT ![N] = glued][N] = glued
          /\ \A l \in 1..Len(lines) : l # N => [lines EXCEPT ![N] = glued][l] = lines[l]
      BY <3>0, Replaced
    <3>2. QED  BY <2>3, <3>1
  <2>7. ~Parses(lines'[N])
    BY <2>5, <2>6 DEF Parses
  <2>8. DOMAIN lines' = 1..N
    BY <1>3, <2>6
  <2>9. \A l : l \in H <=> l \in G /\ l # N
    <3>1. \A l : l \in H <=> l \in 1..N /\ Parses(lines'[l])
      BY <1>4, <2>8 DEF H
    <3>2. QED  BY <1>3, <2>6, <2>7, <3>1
  <2>10. H \in SUBSET (1..(N - 1)) /\ \A l \in H : lines'[l][1].key = lines[l][1].key
    <3>1. \A l \in 1..N : l # N => l \in 1..(N - 1)
      BY <1>3
    <3>2. QED  BY <1>3, <2>6, <2>9, <3>1
  <2>11. Unended <=> N \in G
    BY <1>3, <1>6, <2>2 DEF Unended
  <2>12. ASSUME ~Unended  PROVE Parsed' = Parsed
    <3>1. H = G
      BY <2>9, <2>11, <2>12
    <3>2. \A l \in G : lines'[l][1].key = lines[l][1].key
      BY <2>10, <3>1
    <3>3. Read(lines', G) = Read(lines, G)
      BY <1>3, <3>2, ReadSame
    <3>4. QED  BY <1>0, <3>1, <3>3
  <2>13. ASSUME Unended
         PROVE  /\ Parsed' \in Seq(Keys) /\ Parsed = Append(Parsed', lines[N][1].key)
                /\ lines[N][1].key[1] \in 1..Len(batches) /\ Cut(lines[N][1].key[1])
    <3>1. G = H \cup {N}
      BY <2>9, <2>11, <2>13
    <3>2. lines[N][1].key \in Keys
      BY <1>3, <3>1
    <3>3. \A l \in H : lines'[l][1].key \in Keys /\ lines[l][1].key = lines'[l][1].key
      BY <1>3, <2>9, <2>10
    <3>4. /\ Read(lines', H) \in Seq(Keys)
          /\ Read(lines, H \cup {N}) = Append(Read(lines', H), lines[N][1].key)
      <4> DEFINE m == N - 1
                 e == lines[N][1].key
      <4>1. m \in Nat /\ H \in SUBSET (1..m) /\ m + 1 = N
        BY <2>2, <2>10
      <4>2. e \in Keys /\ e = lines[m + 1][1].key
        BY <3>2, <4>1
      <4> HIDE DEF m, e
      <4>3. OneMore(Keys, lines', lines, m, H, e)
        BY <3>3, <4>1, <4>2 DEF OneMore
      <4>4. ReadsMore(Keys, lines', lines, m, H, e)
        BY <4>3, ReadMore
      <4>5. QED  BY <4>1, <4>4 DEF e, ReadsMore
    <3>5. 1 \in 1..Len(lines[N])
      BY <2>4
    <3>6. lines[N][1].key[1] \in 1..Len(batches)
      BY <2>2, <3>5 DEF ArchiveSound, FileSound
    <3>7. QED  BY <1>0, <2>1, <2>2, <3>1, <3>4, <3>5, <3>6
  <2>14. QED  BY <1>6, <2>6, <2>7, <2>12, <2>13
<1> QED  BY <1>5, <1>6

\* Which of a turn's messages are in the log.
LEMMA InLogIs ==
  ASSUME TypeOK, ArchiveSound, NEW t
  PROVE  \A i : i \in Log!InLog(t) <=> ReadBack(t, i)
<1>1. /\ Parsed \in Seq(Keys) /\ \A h, i : ReadBack(h, i) => Has(Parsed, h, i)
      /\ \A k \in 1..Len(Parsed) : \E l \in Good : Parsed[k] = lines[l][1].key
  BY ReadIs DEF ArchiveSound
<1>2. DOMAIN Parsed = 1..Len(Parsed)
  BY <1>1
<1>3. \A i : i \in Log!InLog(t) <=> \E k \in 1..Len(Parsed) : Parsed[k][1] = t /\ Parsed[k][2] = i
  BY <1>2 DEF Log!InLog, Log!Range
<1>4. ASSUME NEW i, NEW k \in 1..Len(Parsed), Parsed[k][1] = t, Parsed[k][2] = i
      PROVE  ReadBack(t, i)
  <2>1. PICK l \in Good : Parsed[k] = lines[l][1].key
    BY <1>1
  <2>2. l \in 1..Len(lines) /\ Len(lines[l]) = 1 /\ 1 \in 1..Len(lines[l])
    BY LinesTyped
  <2>3. lines[l][1].key = <<lines[l][1].key[1], lines[l][1].key[2]>>
    BY <2>2, LinesTyped
  <2>4. QED  BY <1>4, <2>1, <2>3 DEF ReadBack
<1>5. ASSUME NEW i, ReadBack(t, i)
      PROVE  \E k \in 1..Len(Parsed) : Parsed[k][1] = t /\ Parsed[k][2] = i
  <2>1. PICK k \in 1..Len(Parsed) : Parsed[k] = <<t, i>>
    BY <1>1, <1>5 DEF Has
  <2>2. QED  BY <2>1
<1> QED  BY <1>3, <1>4, <1>5

\* The open turn is in the log as far as it was written.
LEMMA OpenReadTo ==
  ASSUME TypeOK, ArchiveSound, Writing
  PROVE  /\ Log!IsOpen /\ Len(fates) = Len(batches)
         /\ Log!ReadTo(Len(batches), Written(Len(batches)))
         /\ Written(Len(batches)) = 0 => Log!InLog(Len(batches)) = {}
<1> DEFINE T == Len(batches)
           w == Written(T)
           A == Log!InLog(T)
<1>1. /\ T \in 1..Len(batches) /\ T \in Nat /\ Len(fates) = T /\ w \in Nat /\ fates[T] = "open"
      /\ fates # << >>
  BY TurnsAre
<1>2. FileSound /\ WrittenSound
  BY DEF ArchiveSound
<1>3. ASSUME NEW i \in A  PROVE i \in 1..w
  <2>1. ReadBack(T, i)
    BY <1>3, InLogIs
  <2>2. PICK l \in Good : lines[l][1].key = <<T, i>>
    BY <2>1 DEF ReadBack
  <2>3. l \in 1..Len(lines) /\ Len(lines[l]) = 1 /\ 1 \in 1..Len(lines[l])
    BY LinesTyped
  <2>4. lines[l][1].key[1] = T /\ lines[l][1].key[2] = i /\ i \in Nat \ {0}
    BY <2>2, <2>3, LinesTyped
  <2>5. i <= w
    BY <1>2, <2>3, <2>4 DEF FileSound
  <2>6. QED  BY <1>1, <2>4, <2>5
<1>4. ASSUME NEW i \in 1..w  PROVE i \in A \/ (i = 1 /\ Log!AfterTear(T))
  <2>1. ComesBack(T, i)
    BY <1>1, <1>2 DEF WrittenSound
  <2>2. QED  BY <2>1, InLogIs DEF ComesBack, Excused, Cut, Log!AfterTear
<1> HIDE DEF T, w, A
<1>5. A = 1..w \/ (Log!AfterTear(T) /\ A = 2..w)
  <2>1. CASE 1 \in A \/ w = 0
    <3>1. \A i \in 1..w : i \in A
      BY <1>1, <1>4, <2>1
    <3>2. QED  BY <1>3, <3>1
  <2>2. CASE 1 \notin A /\ w # 0
    <3>1. Log!AfterTear(T)
      BY <1>1, <1>4, <2>2
    <3>2. \A i : i \in 2..w <=> i \in 1..w /\ i # 1
      BY <1>1
    <3>3. \A i : i \in A <=> i \in 2..w
      BY <1>3, <1>4, <2>2, <3>2
    <3>4. QED  BY <3>1, <3>3
  <2>3. QED  BY <2>1, <2>2
<1>6. Log!ReadTo(T, w)
  BY <1>5 DEF Log!ReadTo, A
<1>7. w = 0 => A = {}
  BY <1>3
<1>8. Log!IsOpen
  BY <1>1 DEF Log!IsOpen, Log!Newest
<1> QED  BY <1>1, <1>6, <1>7, <1>8 DEF T, w, A

\* A step that leaves the file and the turns alone is none of the log.
LEMMA LogKept ==
  ASSUME UNCHANGED <<lines, ended, batches, fates>>
  PROVE  UNCHANGED Log!vars
<1>1. Parsed' = Parsed
  BY DEF Parsed, Good, Parses
<1>2. Unended' = Unended
  BY DEF Unended, Parses
<1> QED  BY <1>1, <1>2 DEF Log!vars

LEMMA BeginsTurn ==
  ASSUME TypeOK, ArchiveSound, StartAppend
  PROVE  Log!Begins
<1> DEFINE s == [t \in DOMAIN batches |-> Len(batches[t])]
           u == [t \in DOMAIN batches' |-> Len(batches'[t])]
           N == Len(batches)
<1>1. /\ batches \in Seq(Seq(Messages)) /\ N \in Nat /\ fates \in Seq(Statuses) /\ Len(fates) = N
      /\ \A t \in 1..N : fates[t] = "open" <=> Writing /\ t = N
  BY TurnsAre
<1>2. ~Writing /\ UNCHANGED <<lines, ended>> /\ fates' = Append(fates, "open")
  BY DEF StartAppend, files
<1>3. ~Log!IsOpen
  <2>1. fates # << >> => Len(fates) \in 1..N
    BY <1>1
  <2>2. QED  BY <1>1, <1>2, <2>1 DEF Log!IsOpen, Log!Newest
<1>4. PICK calls \in CallCounts, replied \in BOOLEAN :
        (calls > 0 \/ replied) /\ batches' = Append(batches, TurnMessages(N + 1, calls, replied))
  BY DEF StartAppend
<1> DEFINE b == TurnMessages(N + 1, calls, replied)
<1>5. b \in Seq(Messages) /\ Len(b) \in Nat
  <2>1. calls \in Nat /\ N + 1 \in Nat
    BY <1>1, BoundsAssumption
  <2>2. b \in Seq(Messages)
    BY <1>4, <2>1, TurnMessagesAre
  <2>3. QED  BY <2>2
<1> HIDE DEF b
<1>6. /\ batches' \in Seq(Seq(Messages)) /\ Len(batches') = N + 1
      /\ \A t \in 1..N : batches'[t] = batches[t]
  <2>1. batches' = Append(batches, b)
    BY <1>4 DEF b
  <2>2. QED  BY <1>1, <1>5, <2>1, Appended
<1>7. s \in Seq(Nat) /\ Len(s) = N /\ \A t \in 1..N : s[t] = Len(batches[t])
  <2>1. DOMAIN batches = 1..N /\ \A t \in 1..N : Len(batches[t]) \in Nat
    BY <1>1
  <2>2. QED  BY <1>1, <2>1
<1>8. u \in Seq(Nat) /\ Len(u) = N + 1 /\ \A t \in 1..(N + 1) : u[t] = Len(batches'[t])
  <2>1. DOMAIN batches' = 1..(N + 1) /\ N + 1 \in Nat /\ \A t \in 1..(N + 1) : Len(batches'[t]) \in Nat
    BY <1>1, <1>6
  <2>2. QED  BY <2>1
<1> HIDE DEF s, u
<1>9. Log!IsPrefix(s, u)
  <2>1. Len(s) <= Len(u)
    BY <1>1, <1>7, <1>8
  <2>2. \A t \in 1..N : s[t] = u[t]
    <3>1. \A t \in 1..N : t \in 1..(N + 1)
      BY <1>1
    <3>2. QED  BY <1>6, <1>7, <1>8, <3>1
  <2>3. SubSeq(s, 1, N) = SubSeq(u, 1, N)
    <3> DEFINE c == SubSeq(s, 1, N)
               d == SubSeq(u, 1, N)
    <3>1. c \in Seq(Nat) /\ Len(c) = N /\ \A t \in 1..N : c[t] = s[t]
      BY <1>1, <1>7
    <3>2. d \in Seq(Nat) /\ Len(d) = N /\ \A t \in 1..N : d[t] = u[t]
      BY <1>1, <1>8
    <3> HIDE DEF c, d
    <3>3. c = d
      BY <2>2, <3>1, <3>2, SameList
    <3>4. QED  BY <3>3 DEF c, d
  <2>4. QED  BY <1>7, <2>1, <2>3 DEF Log!IsPrefix
<1>10. Parsed' = Parsed /\ Unended' = Unended
  BY <1>2 DEF Parsed, Good, Parses, Unended
<1> QED  BY <1>1, <1>2, <1>3, <1>8, <1>9, <1>10 DEF Log!Begins, Log!Newest, s, u

\* One more fragment is one more message, or one less, or none.
LEMMA GlueLogs ==
  ASSUME TypeOK, ArchiveSound, Writing, pending # << >>,
         NEW part \in {"whole", "cut", "garbled"},
         lines' = Glue(Fragment(Head(pending), part)), ended' \in BOOLEAN
  PROVE  /\ ended /\ part = "whole" => Log!Adds
         /\ Unended => Log!TakesBack
         /\ ~Unended /\ ~(ended /\ part = "whole") => Parsed' = Parsed
         /\ Unended' = (~ended' /\ ended /\ part = "whole")
<1> DEFINE T == Len(batches)
           p == Head(pending)
           w == Written(T)
           s == [t \in DOMAIN batches |-> Len(batches[t])]
<1>1. /\ T \in 1..Len(batches) /\ p = <<T, w + 1>> /\ p[2] \in 1..Len(batches[T])
      /\ ended \/ (w = 0 /\ T > 1 /\ Cut(T - 1))
  BY Glued
<1>2. /\ ended /\ part = "whole" => Parsed' = Append(Parsed, p) /\ Parses(lines'[Len(lines')])
      /\ ended /\ part # "whole" => Parsed' = Parsed /\ ~Parses(lines'[Len(lines')])
      /\ ~ended => ~Parses(lines'[Len(lines')])
      /\ ~ended /\ ~Unended => Parsed' = Parsed
      /\ Unended => /\ Parsed' \in Seq(Keys) /\ Parsed = Append(Parsed', lines[Len(lines)][1].key)
                    /\ Cut(lines[Len(lines)][1].key[1])
  BY GlueReads
<1>3. /\ Log!IsOpen /\ Len(fates) = T /\ Log!ReadTo(T, w) /\ (w = 0 => Log!InLog(T) = {}) /\ w \in Nat
      /\ DOMAIN batches = 1..T
  BY OpenReadTo, TurnsAre
<1> HIDE DEF p, w
<1>4. Unended' = (~ended' /\ ended /\ part = "whole")
  <2>1. Parses(lines'[Len(lines')]) <=> ended /\ part = "whole"
    BY <1>2
  <2>2. Unended' <=> ~ended' /\ Parses(lines'[Len(lines')])
    BY DEF Unended
  <2>3. Unended' \in BOOLEAN
    BY DEF Unended, Parses
  <2>4. QED  BY <2>1, <2>2, <2>3
<1>5. ASSUME ended, part = "whole"  PROVE Log!Adds
  <2>1. ~Unended
    BY <1>5 DEF Unended
  <2>2. s[T] = Len(batches[T]) /\ Log!Newest = T
    BY <1>1, <1>3 DEF Log!Newest
  <2>3. w + 1 \in 1..Len(batches[T]) /\ (w + 1) - 1 = w
    BY <1>1, <1>3
  <2>4. Parsed' = Append(Parsed, <<T, w + 1>>)
    BY <1>1, <1>2, <1>5
  <2> HIDE DEF s, T
  <2>5. \E i \in 1..s[T] : Parsed' = Append(Parsed, <<T, i>>) /\ Log!ReadTo(T, i - 1)
    BY <1>3, <2>2, <2>3, <2>4
  <2>6. QED  BY <2>1, <2>2, <2>5 DEF Log!Adds, s
<1>6. ASSUME Unended  PROVE Log!TakesBack
  <2>1. ~ended /\ w = 0 /\ T > 1 /\ fates[T - 1] = "cut"
    BY <1>1, <1>6 DEF Unended, Cut
  <2>2. ~Unended' /\ Unended' \in BOOLEAN
    BY <1>4, <2>1
  <2> DEFINE k == lines[Len(lines)][1].key
             q == Parsed'
  <2>3. q \in Seq(Keys) /\ Parsed = Append(q, k) /\ fates[k[1]] = "cut"
    BY <1>2, <1>6 DEF Cut
  <2> HIDE DEF k, q
  <2>4. Log!Last(Parsed) = k /\ q = Log!Front(Parsed)
    <3>1. Len(Append(q, k)) = Len(q) + 1 /\ Append(q, k)[Len(q) + 1] = k /\ Len(q) \in Nat
      BY <2>3
    <3>2. SubSeq(Append(q, k), 1, Len(q)) = q
      BY <2>3
    <3>3. QED  BY <2>3, <3>1, <3>2 DEF Log!Last, Log!Front
  <2>5. Log!AfterTear(Log!Newest) /\ Log!InLog(Log!Newest) = {}
    BY <1>3, <2>1 DEF Log!AfterTear, Log!Newest
  <2>6. fates[Log!Last(Parsed)[1]] = "cut"
    BY <2>3, <2>4
  <2>7. Parsed' = Log!Front(Parsed)
    BY <2>4 DEF q
  <2>8. QED  BY <1>6, <2>2, <2>5, <2>6, <2>7 DEF Log!TakesBack
<1>7. ~Unended /\ ~(ended /\ part = "whole") => Parsed' = Parsed
  BY <1>2
<1> QED  BY <1>4, <1>5, <1>6, <1>7

LEMMA WritesTurn ==
  ASSUME TypeOK, ArchiveSound, WriteLine
  PROVE  Log!Writes \/ UNCHANGED Log!vars
<1>1. /\ Writing /\ pending # << >> /\ lines' = Glue(Fragment(Head(pending), "whole"))
      /\ ended' = TRUE /\ UNCHANGED <<batches, fates>>
  BY DEF WriteLine
<1>2. "whole" \in {"whole", "cut", "garbled"} /\ ended' \in BOOLEAN
  BY <1>1
<1>3. /\ ended => Log!Adds
      /\ Unended => Log!TakesBack
      /\ ~Unended /\ ~ended => Parsed' = Parsed
      /\ Unended' = FALSE
  BY <1>1, <1>2, GlueLogs
<1>4. Log!IsOpen
  BY <1>1, OpenReadTo
<1>5. CASE ended \/ Unended
  BY <1>1, <1>3, <1>4, <1>5 DEF Log!Writes
<1>6. CASE ~ended /\ ~Unended
  <2>1. Unended = FALSE
    BY <1>6 DEF Unended, Parses
  <2>2. QED  BY <1>1, <1>3, <1>6, <2>1 DEF Log!vars
<1> QED  BY <1>5, <1>6

LEMMA SettlesTurn ==
  ASSUME TypeOK, ArchiveSound, RefreshMeta
  PROVE  Log!Settles
<1> DEFINE T == Len(batches)
           s == [t \in DOMAIN batches |-> Len(batches[t])]
<1>1. Writing /\ pending = << >> /\ UNCHANGED <<lines, ended, batches>>
      /\ fates' = [fates EXCEPT ![Len(fates)] = "kept"]
  BY DEF RefreshMeta
<1>2. Log!IsOpen /\ Len(fates) = T /\ Log!ReadTo(T, Written(T))
  BY <1>1, OpenReadTo
<1>3. T \in 1..T /\ DOMAIN batches = 1..T /\ Written(T) = Len(batches[T]) - 0 /\ Len(batches[T]) \in Nat
  <2>1. Written(T) = Len(batches[T]) - Len(pending)
    BY <1>1, TurnsAre
  <2>2. QED  BY <1>1, <2>1, TurnsAre
<1>4. s[T] = Written(T)
  BY <1>3
<1>5. Parsed' = Parsed /\ Unended' = Unended
  BY <1>1 DEF Parsed, Good, Parses, Unended
<1> HIDE DEF T
<1> QED  BY <1>1, <1>2, <1>4, <1>5 DEF Log!Settles, Log!Newest, Log!Becomes

LEMMA TearsTurn ==
  ASSUME TypeOK, ArchiveSound, WriteStops, UNCHANGED batches
  PROVE  Log!IsTorn \/ UNCHANGED Log!vars
<1>1. CASE ~Writing
  BY <1>1, LogKept DEF WriteStops
<1>2. CASE Writing
  <2>1. Log!IsOpen /\ Log!Becomes("cut")
    BY <1>2, OpenReadTo DEF WriteStops, Log!Becomes, Log!Newest
  <2>2. \/ Log!Adds /\ Unended' = TRUE
        \/ Log!TakesBack
        \/ Parsed' = Parsed /\ Unended' = Unended
    <3>1. CASE UNCHANGED <<lines, ended>>
      BY <3>1 DEF Parsed, Good, Parses, Unended
    <3>2. CASE ~UNCHANGED <<lines, ended>>
      <4>1. pending # << >> /\ ended' = FALSE
        BY <3>2 DEF WriteStops
      <4>2. PICK part \in {"whole", "cut", "garbled"} : lines' = Glue(Fragment(Head(pending), part))
        BY <3>2 DEF WriteStops
      <4>3. /\ ended /\ part = "whole" => Log!Adds
            /\ Unended => Log!TakesBack
            /\ ~Unended /\ ~(ended /\ part = "whole") => Parsed' = Parsed
            /\ Unended' = (~ended' /\ ended /\ part = "whole")
        BY <1>2, <4>1, <4>2, GlueLogs
      <4>4. Unended \in BOOLEAN
        BY DEF Unended, Parses
      <4>5. QED  BY <4>1, <4>3, <4>4
    <3>3. QED  BY <3>1, <3>2
  <2>3. QED  BY <2>1, <2>2 DEF Log!IsTorn
<1> QED  BY <1>1, <1>2

LEMMA ClearsLog ==
  ASSUME TypeOK, ArchiveSound, UnlinkLines, ~Writing, batches' = batches
  PROVE  Log!IsCleared
<1>1. /\ ~Writing /\ lines' = << >> /\ ended' = TRUE /\ batches' = batches
      /\ fates' = [t \in DOMAIN fates |-> "deleted"]
  BY DEF UnlinkLines
<1>2. ~Log!IsOpen
  <2>1. /\ fates \in Seq(Statuses) /\ Len(fates) = Len(batches)
        /\ \A t \in 1..Len(batches) : fates[t] = "open" <=> Writing /\ t = Len(batches)
    BY TurnsAre
  <2>2. fates # << >> => Len(fates) \in 1..Len(batches)
    BY <2>1
  <2>3. QED  BY <1>1, <2>1, <2>2 DEF Log!IsOpen, Log!Newest
<1>3. Parsed' = << >>
  <2>1. Good' = {}
    BY <1>1 DEF Good
  <2>2. Cardinality({}) = 0
    BY FS_EmptySet
  <2>3. Parsed' = [n \in 1..Cardinality(Good') |-> lines'[Nth(Good', n)][1].key]
    BY DEF Parsed
  <2>4. QED  BY <2>1, <2>2, <2>3
<1>4. Unended' = FALSE
  BY <1>1 DEF Unended
<1> QED  BY <1>1, <1>2, <1>3, <1>4 DEF Log!IsCleared

LEMMA LogInit ==
  ASSUME Init
  PROVE  Log!Init
<1>1. lines = << >> /\ ended = TRUE /\ batches = << >> /\ fates = << >>
  BY DEF Init
<1>2. Parsed = << >>
  <2>1. Good = {}
    BY <1>1 DEF Good
  <2>2. Cardinality({}) = 0
    BY FS_EmptySet
  <2>3. QED  BY <2>1, <2>2 DEF Parsed
<1>3. Unended = FALSE /\ [t \in DOMAIN batches |-> Len(batches[t])] = << >>
  BY <1>1 DEF Unended
<1> QED  BY <1>1, <1>2, <1>3 DEF Log!Init

LEMMA LogNext ==
  ASSUME IInv, [Next]_vars
  PROVE  [Log!Next]_Log!vars
<1>1. TypeOK /\ ArchiveSound
  BY DEF IInv
<1>2. CASE StartAppend
  BY <1>1, <1>2, BeginsTurn DEF Log!Next
<1>3. CASE WriteLine
  BY <1>1, <1>3, WritesTurn DEF Log!Next
<1>4. CASE RefreshMeta
  BY <1>1, <1>4, SettlesTurn DEF Log!Next
<1>5. CASE Crash \/ WriteFails
  BY <1>1, <1>5, TearsTurn DEF Log!Next, Crash, WriteFails
<1>6. CASE Delete \/ UnlinkFails \/ DeleteStops
  <2>1. ~Writing /\ batches' = batches
    BY <1>6 DEF Delete, UnlinkFails, DeleteStops
  <2>2. CASE UnlinkLines
    BY <1>1, <2>1, <2>2, ClearsLog DEF Log!Next
  <2>3. CASE UNCHANGED <<lines, ended, fates>>
    BY <2>1, <2>3, LogKept
  <2>4. QED  BY <1>6, <2>2, <2>3 DEF Delete, UnlinkFails, DeleteStops
<1>7. CASE AppendRaises \/ Quit \/ MetaBreaks \/ StartApp \/ LeaveSession
  <2>1. UNCHANGED <<lines, ended, batches, fates>>
    BY <1>7 DEF AppendRaises, Quit, MetaBreaks, StartApp, LeaveSession, files
  <2>2. QED  BY <2>1, LogKept
<1>8. CASE ResumeSmall \/ ResumeLarge \/ ResumeRaises \/ ResumeFinishes
  <2>1. UNCHANGED <<lines, ended, batches, fates>>
    BY <1>8 DEF ResumeSmall, ResumeLarge, ResumeRaises, ResumeFinishes, files
  <2>2. QED  BY <2>1, LogKept
<1>9. CASE UNCHANGED vars
  BY <1>9, LogKept DEF vars
<1> QED  BY <1>2, <1>3, <1>4, <1>5, <1>6, <1>7, <1>8, <1>9 DEF Next

-----------------------------------------------------------------------------
(***************************************************************************)
(* Theorems                                                                *)
(***************************************************************************)
\* Through turns, torn writes, crashes, broken meta files, recoveries and
\* deletions the file is in order, what precedes a written message can be read
\* unless it was glued to a torn line, and the count in the meta file counts
\* the lines, and those a deletion took without it, as long as nothing was torn.
THEOREM Inductive == Spec => []IInv
<1>1. Init => IInv
  BY InitSound
<1>2. IInv /\ [Next]_vars => IInv'
  BY NextSound, NextTyped, MetaTyped, WriterStaysUp, StutterSound DEF IInv
<1> QED  BY <1>1, <1>2, PTL DEF Spec

\* Every variable has its type, an unended file has a last line, and there is
\* something to write only while append_messages is at it.
THEOREM TypeCorrect == Spec => []TypeOK
<1>1. IInv => TypeOK
  BY DEF IInv
<1> QED  BY <1>1, Inductive, PTL

\* append_messages, read_raw_lines and delete_session: a torn write costs
\* acknowledged turns at most the first message of the turn after it, nothing is
\* read twice or out of order, and without a tear the session list counts what
\* is read and what a deletion took without the meta file.
THEOREM TearCostsALine == Spec => []TearCostsOneLine
<1>1. IInv => TearCostsOneLine
  BY TearCosts DEF IInv
<1> QED  BY <1>1, Inductive, PTL

\* recover_session: after a tear in the last turn, what is resumed, shrunk or
\* not, is a transcript a provider accepts.
THEOREM ResumesClean == Spec => []ResumeClean
<1>1. IInv => ResumeClean
  BY ResumedClean DEF IInv
<1> QED  BY <1>1, Inductive, PTL

\* _size_control: with a summary the longest run of newest turns that fits the
\* target stays; without one the newest turn alone, or everything when it does
\* not fit.
THEOREM ShrinkingKeepsNewest == Spec => []ShrinkKeepsNewest
<1>1. IInv => ShrinkKeepsNewest
  BY NewestKept DEF IInv
<1> QED  BY <1>1, Inductive, PTL

\* The archive is the log of turns TurnLog promises: what can be read grows by
\* one message of the turn being written, a tear costs at most the message on
\* the unended line, a turn is acknowledged with all but that one readable, and
\* only delete_session and clear_all take back more.
THEOREM KeepsALog == Spec => IsTurnLog
<1>1. Init => Log!Init
  BY LogInit
<1>2. IInv /\ [Next]_vars => [Log!Next]_Log!vars
  BY LogNext
<1> QED  BY <1>1, <1>2, Inductive, PTL DEF Spec, IsTurnLog, Log!Spec
=============================================================================
