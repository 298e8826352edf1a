--------------------------- MODULE AgentLoopProofs ---------------------------
(***************************************************************************)
(* Proofs about AgentLoop, for every value of its constants.               *)
(***************************************************************************)
EXTENDS AgentLoop, FiniteSetTheorems, TLAPS

-----------------------------------------------------------------------------
(***************************************************************************)
(* Lemmas about transcripts                                                *)
(***************************************************************************)
\* The ids a transcript asks for, and those it answers, message by message.
LEMMA AskedMember ==
  \A m \in Seq(Messages) : \A id :
    id \in Asked(m) <=>
      \E k \in 1..Len(m) : m[k].role = "assistant" /\ id \in m[k].calls
BY DEF Asked

\* The same for the calls a transcript answers.
LEMMA AnsweredMember ==
  \A m \in Seq(Messages) : \A id :
    id \in Answered(m) <=> \E k \in 1..Len(m) : m[k].role = "tool" /\ m[k].call = id
BY DEF Answered

\* Call ids are pairs of a turn and a position.
LEMMA IdsTyped ==
  ASSUME NEW m \in Seq(Messages)
  PROVE  Asked(m) \subseteq ToolIds /\ Answered(m) \subseteq ToolIds
<1>1. \A k \in 1..Len(m) : m[k] \in Messages
  OBVIOUS
<1>2. \A id \in Asked(m) : id \in ToolIds
  BY <1>1, AskedMember DEF Messages
<1>3. \A id \in Answered(m) : id \in ToolIds
  BY <1>1, AnsweredMember DEF Messages
<1>4. QED  BY <1>2, <1>3

\* A message of m \o a is one of m, in its place, or one of a.
LEMMA ConcatMember ==
  ASSUME NEW m \in Seq(Messages), NEW a \in Seq(Messages)
  PROVE  \A k \in DOMAIN (m \o a) :
           \/ k \in DOMAIN m /\ (m \o a)[k] = m[k]
           \/ \E j \in 1..Len(a) : (m \o a)[k] = a[j]
<1>1. SUFFICES ASSUME NEW k \in DOMAIN (m \o a)
               PROVE  \/ k \in DOMAIN m /\ (m \o a)[k] = m[k]
                      \/ \E j \in 1..Len(a) : (m \o a)[k] = a[j]
  OBVIOUS
<1>2. CASE k <= Len(m)
  BY <1>2
<1>3. CASE k > Len(m)
  <2>1. k - Len(m) \in 1..Len(a) /\ (m \o a)[k] = a[k - Len(m)]
    BY <1>3
  <2>2. QED  BY <2>1
<1>4. QED  BY <1>2, <1>3

\* A longer transcript asks for and answers what its two parts do.
LEMMA AskedConcat ==
  ASSUME NEW m \in Seq(Messages), NEW a \in Seq(Messages)
  PROVE  /\ m \o a \in Seq(Messages)
         /\ Asked(m \o a) = Asked(m) \cup Asked(a)
         /\ Answered(m \o a) = Answered(m) \cup Answered(a)
<1>1. m \o a \in Seq(Messages)
  OBVIOUS
<1>2. \A k \in 1..Len(m) : k \in 1..Len(m \o a) /\ (m \o a)[k] = m[k]
  OBVIOUS
<1>3. \A k \in 1..Len(a) : Len(m) + k \in 1..Len(m \o a) /\ (m \o a)[Len(m) + k] = a[k]
  OBVIOUS
<1>4. ASSUME NEW k \in 1..Len(m \o a)
      PROVE  \/ k \in 1..Len(m)
             \/ \E j \in 1..Len(a) : k = Len(m) + j
  <2>1. CASE k <= Len(m)
    BY <2>1
  <2>2. CASE k > Len(m)
    <3>1. k - Len(m) \in 1..Len(a) /\ k = Len(m) + (k - Len(m))
      BY <2>2
    <3>2. QED  BY <3>1
  <2>3. QED  BY <2>1, <2>2
<1>5. ASSUME NEW id
      PROVE  id \in Asked(m \o a) <=> id \in Asked(m) \/ id \in Asked(a)
  <2>1. ASSUME id \in Asked(m \o a)
        PROVE  id \in Asked(m) \/ id \in Asked(a)
    <3>1. PICK k \in 1..Len(m \o a) :
             (m \o a)[k].role = "assistant" /\ id \in (m \o a)[k].calls
      BY <2>1, <1>1, AskedMember
    <3>2. QED  BY <3>1, <1>2, <1>3, <1>4, AskedMember
  <2>2. ASSUME id \in Asked(m)
        PROVE  id \in Asked(m \o a)
    <3>1. PICK k \in 1..Len(m) : m[k].role = "assistant" /\ id \in m[k].calls
      BY <2>2, AskedMember
    <3>2. QED  BY <3>1, <1>1, <1>2, AskedMember
  <2>3. ASSUME id \in Asked(a)
        PROVE  id \in Asked(m \o a)
    <3>1. PICK k \in 1..Len(a) : a[k].role = "assistant" /\ id \in a[k].calls
      BY <2>3, AskedMember
    <3>2. QED  BY <3>1, <1>1, <1>3, AskedMember
  <2>4. QED  BY <2>1, <2>2, <2>3
<1>6. ASSUME NEW id
      PROVE  id \in Answered(m \o a) <=> id \in Answered(m) \/ id \in Answered(a)
  <2>1. ASSUME id \in Answered(m \o a)
        PROVE  id \in Answered(m) \/ id \in Answered(a)
    <3>1. PICK k \in 1..Len(m \o a) :
             (m \o a)[k].role = "tool" /\ (m \o a)[k].call = id
      BY <2>1, <1>1, AnsweredMember
    <3>2. QED  BY <3>1, <1>2, <1>3, <1>4, AnsweredMember
  <2>2. ASSUME id \in Answered(m)
        PROVE  id \in Answered(m \o a)
    <3>1. PICK k \in 1..Len(m) : m[k].role = "tool" /\ m[k].call = id
      BY <2>2, AnsweredMember
    <3>2. QED  BY <3>1, <1>1, <1>2, AnsweredMember
  <2>3. ASSUME id \in Answered(a)
        PROVE  id \in Answered(m \o a)
    <3>1. PICK k \in 1..Len(a) : a[k].role = "tool" /\ a[k].call = id
      BY <2>3, AnsweredMember
    <3>2. /\ Len(m) + k \in 1..Len(m \o a)
          /\ (m \o a)[Len(m) + k].role = "tool" /\ (m \o a)[Len(m) + k].call = id
      BY <3>1, <1>3
    <3>3. QED  BY <3>2, <1>1, AnsweredMember
  <2>4. QED  BY <2>1, <2>2, <2>3
<1>7. QED  BY <1>1, <1>5, <1>6

\* What comes before a message of m \o a.
LEMMA BeforeConcat ==
  ASSUME NEW m \in Seq(Messages), NEW a \in Seq(Messages)
  PROVE  /\ \A k \in 1..Len(m) : Before(m \o a, k) = Before(m, k)
         /\ \A k \in 1..Len(a) :
              Before(m \o a, Len(m) + k) = m \o Before(a, k)
BY DEF Before

\* A reply to a transcript with nothing open leaves exactly its calls open.
LEMMA ReplyWellFormed ==
  ASSUME NEW m \in Seq(Messages), NEW ids \in SUBSET ToolIds,
         WellFormed(m), Dangling(m) = {}, ids \cap Answered(m) = {}
  PROVE  LET r == m \o <<AssistantMessage(ids)>>
         IN  WellFormed(r) /\ Dangling(r) = ids /\ Asked(r) = Asked(m) \cup ids
             /\ Answered(r) = Answered(m)
<1> DEFINE a == <<AssistantMessage(ids)>>
<1>1. /\ a \in Seq(Messages) /\ Len(a) = 1 /\ 1..Len(a) = {1}
      /\ a[1].role = "assistant" /\ a[1].calls = ids
  BY DEF Messages, AssistantMessage
<1> HIDE DEF a
<1>2. Asked(a) = ids /\ Answered(a) = {}
  <2>1. \A id : id \in Asked(a) <=> id \in ids
    BY <1>1, AskedMember
  <2>2. \A id : id \notin Answered(a)
    BY <1>1, AnsweredMember
  <2>3. QED  BY <2>1, <2>2
<1>3. Asked(m \o a) = Asked(m) \cup ids /\ Answered(m \o a) = Answered(m)
  <2>1. /\ Asked(m \o a) = Asked(m) \cup Asked(a)
        /\ Answered(m \o a) = Answered(m) \cup Answered(a)
    BY <1>1, AskedConcat
  <2>2. QED  BY <1>2, <2>1
<1>4. Dangling(m \o a) = ids
  BY <1>3 DEF Dangling
<1>5. WellFormed(m \o a)
  <2>1. m \o a \in Seq(Messages) /\ Len(m \o a) = Len(m) + 1
    <3>1. a \in Seq(Messages)
      BY <1>1
    <3>2. m \o a \in Seq(Messages) /\ Len(m \o a) = Len(m) + Len(a)
      BY <3>1
    <3>3. QED  BY <3>2, <1>1
  <2>2. ASSUME NEW k \in 1..Len(m)
        PROVE  (m \o a)[k] = m[k] /\ Before(m \o a, k) = Before(m, k)
    BY <1>1, BeforeConcat
  <2>3. /\ (m \o a)[Len(m) + 1].role = "assistant"
        /\ (m \o a)[Len(m) + 1].calls = ids
    <3>1. a \in Seq(Messages) /\ 1 \in 1..Len(a)
      BY <1>1
    <3>2. (m \o a)[Len(m) + 1] = a[1]
      BY <3>1
    <3>3. QED  BY <3>2, <1>1
  <2>4. Before(m \o a, Len(m) + 1) = m
    <3>1. Before(a, 1) = << >> /\ 1 \in 1..Len(a)
      BY <1>1 DEF Before
    <3>2. Before(m \o a, Len(m) + 1) = m \o Before(a, 1)
      BY <1>1, <3>1, BeforeConcat
    <3>3. QED  BY <3>1, <3>2
  <2>5. DOMAIN (m \o a) = 1..Len(m) \cup {Len(m) + 1} /\ DOMAIN m = 1..Len(m)
    BY <2>1
  <2>6. QED  BY <2>2, <2>3, <2>4, <2>5 DEF WellFormed
<1>6. QED  BY <1>3, <1>4, <1>5 DEF a

\* Answering distinct open calls keeps a transcript well formed and closes
\* exactly those calls.
LEMMA AnswersWellFormed ==
  ASSUME NEW m \in Seq(Messages), NEW a \in Seq(Messages),
         WellFormed(m),
         \A k \in 1..Len(a) : a[k].role = "tool" /\ a[k].call \in Dangling(m),
         \A j, k \in 1..Len(a) : a[j].call = a[k].call => j = k
  PROVE  /\ WellFormed(m \o a)
         /\ Dangling(m \o a) = Dangling(m) \ {a[k].call : k \in 1..Len(a)}
         /\ Asked(m \o a) = Asked(m)
         /\ Answered(m \o a) = Answered(m) \cup {a[k].call : k \in 1..Len(a)}
<1>1. Asked(a) = {} /\ Answered(a) = {a[k].call : k \in 1..Len(a)}
  <2>1. \A id : id \notin Asked(a)
    BY AskedMember
  <2>2. \A id : id \in Answered(a) <=> \E k \in 1..Len(a) : id = a[k].call
    BY AnsweredMember
  <2>3. QED  BY <2>1, <2>2
<1>2. /\ Asked(m \o a) = Asked(m)
      /\ Answered(m \o a) = Answered(m) \cup {a[k].call : k \in 1..Len(a)}
  <2>1. /\ Asked(m \o a) = Asked(m) \cup Asked(a)
        /\ Answered(m \o a) = Answered(m) \cup Answered(a)
    BY AskedConcat
  <2>2. QED  BY <1>1, <2>1
<1>3. Dangling(m \o a) = Dangling(m) \ {a[k].call : k \in 1..Len(a)}
  BY <1>2 DEF Dangling
<1>4. WellFormed(m \o a)
  <2>1. SUFFICES ASSUME NEW k \in 1..Len(m \o a)
                 PROVE  IF (m \o a)[k].role = "tool"
                        THEN (m \o a)[k].call \in Dangling(Before(m \o a, k))
                        ELSE Dangling(Before(m \o a, k)) = {}
    BY AskedConcat DEF WellFormed
  <2>2. CASE k \in 1..Len(m)
    BY <2>2, BeforeConcat DEF WellFormed
  <2>3. CASE k \notin 1..Len(m)
    <3> DEFINE j == k - Len(m)
               b == Before(a, j)
    <3>1. j \in 1..Len(a) /\ k = Len(m) + j /\ (m \o a)[k] = a[j]
      BY <2>3
    <3>2. Before(m \o a, k) = m \o b
      <4>1. Before(m \o a, Len(m) + j) = m \o Before(a, j)
        BY <3>1, BeforeConcat
      <4>2. QED  BY <3>1, <4>1
    <3>3. b \in Seq(Messages) /\ Len(b) = j - 1 /\ \A i \in 1..(j - 1) : b[i] = a[i]
      BY <3>1 DEF Before
    <3>4. a[j].call \notin Answered(b)
      <4>1. ASSUME NEW i \in 1..Len(b)
            PROVE  b[i].call # a[j].call
        BY <3>1, <3>3
      <4>2. QED  BY <3>3, <4>1, AnsweredMember
    <3>5. a[j].call \in Dangling(m \o b)
      BY <3>1, <3>3, <3>4, AskedConcat DEF Dangling
    <3>6. QED  BY <3>1, <3>2, <3>5
  <2>4. QED  BY <2>2, <2>3
<1>5. QED  BY <1>2, <1>3, <1>4

\* The clean-up's sequence of open calls names each of them exactly once.
LEMMA SetToSeqBijective ==
  ASSUME NEW S, IsFiniteSet(S)
  PROVE  /\ SetToSeq(S) \in Seq(S)
         /\ {SetToSeq(S)[k] : k \in 1..Len(SetToSeq(S))} = S
         /\ \A j, k \in 1..Len(SetToSeq(S)) :
              SetToSeq(S)[j] = SetToSeq(S)[k] => j = k
<1> DEFINE n == Cardinality(S)
           Inj(f) == f \in [1..n -> S] /\ IsInjective(f)
           q == SetToSeq(S)
<1>1. n \in Nat /\ IsFiniteSet(1..n) /\ Cardinality(1..n) = n
  BY FS_CardinalityType, FS_Interval
<1>2. PICK g : Inj(g) /\ \A t \in S : \E k \in 1..n : g[k] = t
  <2>1. PICK m \in Nat : ExistsBijection(1..m, S)
    BY FS_NatBijection
  <2>2. m = n
    BY <2>1, FS_CountingElements
  <2>3. QED
    BY <2>1, <2>2 DEF ExistsBijection, Bijection, Injection, Surjection
<1>3. Inj(q)
  BY <1>2 DEF SetToSeq
<1>4. q \in Seq(S) /\ Len(q) = n
  BY <1>1, <1>3
<1>5. {q[k] : k \in 1..n} = S
  <2> DEFINE T == {q[k] : k \in 1..n}
  <2>1. T \subseteq S
    BY <1>3
  <2>2. ExistsBijection(1..n, T)
    <3>1. q \in Bijection(1..n, T)
      BY <1>3 DEF Bijection, Injection, Surjection, IsInjective
    <3>2. QED  BY <3>1 DEF ExistsBijection
  <2>3. Cardinality(T) = n
    BY <1>1, <2>2, FS_CountingElements
  <2>4. QED  BY <2>1, <2>3, FS_Subset
<1>6. QED  BY <1>3, <1>4, <1>5 DEF IsInjective

\* _pair_dangling closes every open call and keeps the transcript well formed.
LEMMA PairDanglingPairs ==
  ASSUME NEW m \in Seq(Messages), WellFormed(m), IsFiniteSet(Dangling(m)),
         Dangling(m) \subseteq ToolIds
  PROVE  LET p == PairDangling(m)
         IN  /\ p \in Seq(Messages) /\ WellFormed(p) /\ Dangling(p) = {}
             /\ Asked(p) = Asked(m)
             /\ Answered(p) = Answered(m) \cup Dangling(m)
             /\ \E a \in Seq(Messages) :
                  /\ p = m \o a
                  /\ \A k \in 1..Len(a) : a[k].role = "tool" /\ a[k].code = "cancelled"
<1> DEFINE ids == SetToSeq(Dangling(m))
           a == [k \in DOMAIN ids |-> ToolMessage(ids[k], "cancelled")]
<1>1. /\ ids \in Seq(Dangling(m))
      /\ {ids[k] : k \in 1..Len(ids)} = Dangling(m)
      /\ \A j, k \in 1..Len(ids) : ids[j] = ids[k] => j = k
  BY SetToSeqBijective
<1> HIDE DEF ids
<1>2. /\ a \in Seq(Messages) /\ Len(a) = Len(ids)
      /\ \A k \in 1..Len(a) :
           a[k].role = "tool" /\ a[k].call = ids[k] /\ a[k].code = "cancelled"
  <2>1. DOMAIN ids = 1..Len(ids) /\ \A k \in 1..Len(ids) : ids[k] \in ToolIds
    BY <1>1
  <2>2. \A k \in 1..Len(ids) : ToolMessage(ids[k], "cancelled") \in Messages
    BY <2>1 DEF Messages, ToolMessage
  <2>3. QED  BY <1>1, <2>1, <2>2 DEF ToolMessage
<1>3. PairDangling(m) = m \o a
  BY DEF PairDangling, ids
<1> HIDE DEF a
<1>4. {a[k].call : k \in 1..Len(a)} = Dangling(m)
  BY <1>1, <1>2
<1>5. /\ \A k \in 1..Len(a) : a[k].role = "tool" /\ a[k].call \in Dangling(m)
      /\ \A j, k \in 1..Len(a) : a[j].call = a[k].call => j = k
  BY <1>1, <1>2
<1>6. /\ WellFormed(m \o a)
      /\ Dangling(m \o a) = Dangling(m) \ {a[k].call : k \in 1..Len(a)}
      /\ Asked(m \o a) = Asked(m)
      /\ Answered(m \o a) = Answered(m) \cup {a[k].call : k \in 1..Len(a)}
  BY <1>2, <1>5, AnswersWellFormed
<1>7. m \o a \in Seq(Messages)
  BY <1>2
<1>8. QED  BY <1>2, <1>3, <1>4, <1>6, <1>7

-----------------------------------------------------------------------------
(***************************************************************************)
(* The invariant                                                           *)
(***************************************************************************)
\* The transitions the loop asks for are in the table.
LEMMA MachineMoves ==
  /\ After("IDLE", "start") = "RUNNING"
  /\ After("TOOL_EXECUTING", "tool_done") = "RUNNING"
  /\ After("RUNNING", "tool_call") = "TOOL_EXECUTING"
  /\ After("RUNNING", "terminate") = "TERMINATED"
  /\ \A s \in LoopStates, action \in {"cancel", "cleanup_done"} :
       AfterIfCan(s, action) \in LoopStates
BY DEF After, AfterIfCan, Can, Transitions, LoopStates

\* A batch has finitely many ids.
LEMMA BatchIdsFinite ==
  ASSUME slots \in Seq(SlotType)
  PROVE  IsFiniteSet(BatchIds)
<1> DEFINE f == [i \in 1..Len(slots) |-> CallId(i)]
<1>1. f \in Surjection(1..Len(slots), BatchIds)
  <2>1. DOMAIN slots = 1..Len(slots)
    OBVIOUS
  <2>2. BatchIds = {f[i] : i \in 1..Len(slots)}
    BY <2>1 DEF BatchIds
  <2>3. QED  BY <2>2 DEF Surjection
<1>2. IsFiniteSet(1..Len(slots))
  BY FS_Interval
<1>3. QED  BY <1>1, <1>2, FS_Surjection

\* A run starts in the invariant.
LEMMA IInvInit == Init => IInv
<1> SUFFICES ASSUME Init
             PROVE  IInv
  OBVIOUS
<1>1. TypeOK
  <2>1. verdict \in GuardReasons \cup {Continue, "end_turn", "cancelled", "error"}
    BY DEF Init
  <2>2. slots \in Seq(SlotType) /\ history \in Seq(Messages) /\ turnMessages \in Seq(Messages)
    BY DEF Init
  <2>3. QED  BY <2>1, <2>2 DEF Init, TypeOK, PcStates, LoopStates
<1>2. /\ turnMessages = << >> /\ DOMAIN turnMessages = {}
      /\ Asked(turnMessages) = {} /\ Answered(turnMessages) = {}
  BY DEF Init, Asked, Answered
<1>3. TranscriptSound
  BY <1>2 DEF Init, TranscriptSound, WellFormed, Dangling
<1>4. MachineFollows /\ SlotsSound /\ WriterWaited /\ PlanOnlyHarmless
  BY <1>2 DEF Init, MachineFollows, SlotsSound, WriterWaited, PlanOnlyHarmless
<1>5. QED  BY <1>1, <1>3, <1>4 DEF IInv

\* A step that leaves the batch, the transcript and the outside world alone
\* preserves the invariant when it keeps pc, the machine and the turn in step.
LEMMA ControlStep ==
  ASSUME IInv, UNCHANGED <<planOnly, slots, history, turnMessages, blocked, executed>>,
         TypeOK', MachineFollows',
         \/ UNCHANGED <<pc, turn>>
         \/ pc = "top" /\ pc' \in {"preparing", "streaming", "failed", "cancelled"} /\ UNCHANGED turn
         \/ pc = "preparing" /\ pc' = "streaming" /\ UNCHANGED turn
         \/ pc = "streaming" /\ pc' \in {"cancelled", "failed"} /\ UNCHANGED turn
         \/ pc = "final" /\ pc' = "ended" /\ UNCHANGED turn
         \/ /\ pc = "dispatch" /\ pc' = "observing" /\ UNCHANGED turn
            /\ \A i \in DOMAIN slots : slots[i].phase = "done"
         \/ pc = "observing" /\ pc' = "failed" /\ UNCHANGED turn
         \/ pc = "turn_end" /\ pc' \in {"ended", "cancelled"} /\ UNCHANGED turn
         \/ pc = "turn_end" /\ pc' = "top" /\ turn' = turn + 1
         \/ pc = "cancelling" /\ pc' = "ended" /\ UNCHANGED turn
  PROVE  IInv'
<1> USE DEF IInv
<1>1. pc \in PcStates /\ turn \in Nat
  BY DEF TypeOK
<1>2. SlotsSound'
  BY <1>1 DEF SlotsSound, CallId
<1>3. WriterWaited'
  BY <1>1 DEF WriterWaited, IsWrite, IsRead, Active, ReadsDone, WritesBefore
<1>4. TranscriptSound'
  <2>1. \A id \in Asked(turnMessages) \cup Answered(turnMessages) :
          id[1] \in Nat /\ id[1] <= turn
    BY IdsTyped DEF TypeOK, TranscriptSound, ToolIds
  <2>2. \A id \in Asked(turnMessages) \cup Answered(turnMessages) :
          id[1] < turn + 1
    BY <1>1, <2>1
  <2>3. UNCHANGED slots /\ UNCHANGED turnMessages
    OBVIOUS
  <2>4. pc \in {"cancelled", "failed", "dispatch", "observing"} /\ UNCHANGED turn
          => BatchIds' = BatchIds
    BY DEF BatchIds, CallId
  <2>5. QED
    BY <1>1, <2>1, <2>2, <2>3, <2>4 DEF TranscriptSound, BatchIds, CallId
<1>5. PlanOnlyHarmless'
  BY DEF PlanOnlyHarmless
<1>6. QED  BY <1>2, <1>3, <1>4, <1>5

\* What MoveSlot does to the slots.
LEMMA SlotMoved ==
  ASSUME slots \in Seq(SlotType), NEW i \in DOMAIN slots,
         NEW ph \in Phases, NEW res \in Results, MoveSlot(i, ph, res)
  PROVE  /\ slots' \in Seq(SlotType) /\ DOMAIN slots' = DOMAIN slots
         /\ slots'[i].phase = ph /\ slots'[i].result = res
         /\ \A j \in DOMAIN slots :
              /\ slots'[j].tool = slots[j].tool /\ slots'[j].json = slots[j].json
              /\ j # i => slots'[j] = slots[j]
<1>1. slots[i] \in SlotType /\ i \in 1..Len(slots)
  OBVIOUS
<1>2. [slots[i] EXCEPT !.phase = ph, !.result = res] \in SlotType
  BY <1>1 DEF SlotType
<1>3. slots' = [slots EXCEPT ![i] = [slots[i] EXCEPT !.phase = ph, !.result = res]]
  BY <1>1 DEF MoveSlot
<1>4. slots' \in Seq(SlotType) /\ DOMAIN slots' = DOMAIN slots
  BY <1>1, <1>2, <1>3
<1>5. slots'[i] = [slots[i] EXCEPT !.phase = ph, !.result = res]
  BY <1>1, <1>3
<1>6. /\ slots'[i].phase = ph /\ slots'[i].result = res
      /\ slots'[i].tool = slots[i].tool /\ slots'[i].json = slots[i].json
  BY <1>1, <1>5 DEF SlotType
<1>7. \A j \in DOMAIN slots : j # i => slots'[j] = slots[j]
  BY <1>3
<1>8. QED  BY <1>4, <1>6, <1>7

\* The step of one call preserves the invariant.
LEMMA SlotStep ==
  ASSUME IInv, NEW i \in DOMAIN slots, NEW ph \in Phases, NEW res \in Results,
         MoveSlot(i, ph, res), slots[i].json,
         slots[i].phase \in {"waiting", "hooks", "running"},
         ph # "hooks" => Active(i),
         ph = "done" => res # NoResult,
         res.code = "plan_only_blocked" => CallId(i) \in blocked',
         ph \in {"hooks", "running"} /\ IsWrite(i) =>
           pc = "dispatch" /\ ReadsDone /\ WritesBefore(i),
         blocked \subseteq blocked', blocked' \subseteq ToolIds,
         executed' \subseteq ToolIds \X Tools,
         planOnly => \A e \in executed' : e[2] \notin WriteTools,
         pc' = IF ph = "raised" /\ pc = "dispatch" THEN "failed" ELSE pc,
         UNCHANGED <<machine, token, planOnly, turn, cursor, history,
                     turnMessages, term, progress, verdict>>
  PROVE  IInv'
<1> USE DEF IInv
<1>1. /\ slots' \in Seq(SlotType) /\ DOMAIN slots' = DOMAIN slots
      /\ slots'[i].phase = ph /\ slots'[i].result = res
      /\ \A j \in DOMAIN slots :
           /\ slots'[j].tool = slots[j].tool /\ slots'[j].json = slots[j].json
           /\ j # i => slots'[j] = slots[j]
  BY SlotMoved DEF TypeOK
<1>2. TypeOK'
  BY <1>1 DEF TypeOK, PcStates
<1>3. MachineFollows'
  BY DEF MachineFollows
<1>4. pc \notin {"observing", "turn_end"}
  BY DEF SlotsSound
<1>5. SlotsSound'
  <2>1. \A j \in DOMAIN slots : CallId(j)' = CallId(j)
    BY DEF CallId
  <2>2. pc' \in {"replied", "dispatch", "observing"} => pc' = pc
    OBVIOUS
  <2>3. pc' \notin {"observing", "turn_end"}
    BY <1>4
  <2>4. ASSUME NEW j \in DOMAIN slots
        PROVE  /\ ~slots'[j].json => slots'[j].phase = "done"
               /\ slots'[j].phase = "done" => slots'[j].result # NoResult
               /\ pc' \in {"replied", "dispatch", "observing"} =>
                    (slots'[j].result.code = "plan_only_blocked" => CallId(j) \in blocked')
    <3>1. CASE j = i
      BY <1>1, <3>1
    <3>2. CASE j # i
      BY <1>1, <2>2, <3>2 DEF SlotsSound
    <3>3. QED  BY <3>1, <3>2
  <2>5. QED  BY <1>1, <2>1, <2>3, <2>4 DEF SlotsSound
<1>6. IsRead(i) \/ IsWrite(i)
  <2>1. slots[i] \in SlotType
    BY DEF TypeOK
  <2>2. slots[i].tool \in ReadTools \cup WriteTools
    BY <2>1 DEF SlotType, Tools
  <2>3. QED  BY <2>2 DEF IsRead, IsWrite
<1>7. ASSUME NEW j \in DOMAIN slots, j # i, IsWrite(j), Active(j)
      PROVE  FALSE
  <2>1. i \in Nat /\ j \in Nat /\ i \in 1..Len(slots) /\ j \in 1..Len(slots)
    BY DEF TypeOK
  <2>2. ReadsDone /\ WritesBefore(j) /\ slots[j].phase # "done"
    BY <1>7 DEF WriterWaited, Active
  <2>3. IsWrite(i) /\ ~(i < j)
    BY <1>6, <2>1, <2>2 DEF ReadsDone, WritesBefore
  <2>4. WritesBefore(i)
    BY <2>3 DEF WriterWaited
  <2>5. QED  BY <1>7, <2>1, <2>2, <2>3, <2>4 DEF WritesBefore
<1>8. WriterWaited'
  <2>1. SUFFICES ASSUME NEW j \in DOMAIN slots, IsWrite(j)', Active(j)'
                 PROVE  (pc = "dispatch" /\ ReadsDone /\ WritesBefore(j))'
    BY <1>1 DEF WriterWaited
  <2>2. j = i
    BY <1>1, <1>7, <2>1 DEF IsWrite, Active
  <2>3. IsWrite(i) /\ ph \in {"hooks", "running"}
    BY <1>1, <2>1, <2>2 DEF IsWrite, Active
  <2>4. pc = "dispatch" /\ ReadsDone /\ WritesBefore(i) /\ UNCHANGED pc
    BY <2>3
  <2>5. ReadsDone'
    BY <1>1, <2>3, <2>4, ToolsAssumption DEF ReadsDone, IsRead, IsWrite
  <2>6. WritesBefore(i)'
    <3>1. ASSUME NEW k \in 1..(i - 1)
          PROVE  k \in DOMAIN slots /\ k # i
      BY DEF TypeOK
    <3>2. QED  BY <1>1, <2>4, <3>1 DEF WritesBefore, IsWrite
  <2>7. QED  BY <2>2, <2>4, <2>5, <2>6
<1>9. TranscriptSound'
  <2>1. BatchIds' = BatchIds
    BY <1>1 DEF BatchIds, CallId
  <2>2. slots = << >> => FALSE
    OBVIOUS
  <2>3. QED  BY <2>1, <2>2 DEF TranscriptSound
<1>10. PlanOnlyHarmless'
  BY DEF PlanOnlyHarmless
<1>11. QED  BY <1>2, <1>3, <1>5, <1>8, <1>9, <1>10

\* The calls of a reply are new: nothing asked or answered so far shares an id.
LEMMA BatchIdsNew ==
  ASSUME IInv, pc = "replied"
  PROVE  BatchIds \cap (Asked(turnMessages) \cup Answered(turnMessages)) = {}
<1>1. \A id \in BatchIds : id[1] = turn /\ turn \in Nat
  BY DEF BatchIds, CallId, IInv, TypeOK
<1>2. \A id \in Asked(turnMessages) \cup Answered(turnMessages) : id[1] < turn
  BY DEF IInv, TranscriptSound
<1>3. QED  BY <1>1, <1>2

\* A reply of the model, well formed or with bad JSON in it.
LEMMA IInvModelReplies ==
  ASSUME IInv, ModelReplies
  PROVE  IInv'
<1> USE DEF IInv
<1>1. PICK reply \in Replies : slots' = [i \in DOMAIN reply |-> Slot(reply[i])]
  BY DEF ModelReplies
<1>2. reply \in Seq(Calls) /\ DOMAIN reply = 1..Len(reply)
  BY <1>1 DEF Replies
<1>3. \A i \in 1..Len(reply) :
        /\ Slot(reply[i]) \in SlotType
        /\ Slot(reply[i]).phase = IF Slot(reply[i]).json THEN "waiting" ELSE "done"
        /\ Slot(reply[i]).phase = "done" => Slot(reply[i]).result # NoResult
        /\ Slot(reply[i]).result.code # "plan_only_blocked"
  <2>1. Err("invalid_arguments") \in Results /\ NoResult \in Results
    BY DEF Results, ErrorCodes
  <2>2. /\ Err("invalid_arguments") # NoResult
        /\ Err("invalid_arguments").code # "plan_only_blocked"
        /\ NoResult.code # "plan_only_blocked"
    BY ToolsAssumption DEF Err, NoResult, HookErrors
  <2>3. \A i \in 1..Len(reply) : reply[i].tool \in Tools /\ reply[i].json \in BOOLEAN
    <3>1. \A i \in 1..Len(reply) : reply[i] \in Calls
      BY <1>2
    <3>2. QED  BY <3>1 DEF Calls
  <2>4. QED  BY <2>1, <2>2, <2>3 DEF Slot, SlotType, Phases
<1>4. slots' \in Seq(SlotType) /\ DOMAIN slots' = 1..Len(reply)
  BY <1>1, <1>2, <1>3
<1>5. TypeOK'
  BY <1>4 DEF ModelReplies, TypeOK, PcStates
<1>6. MachineFollows'
  BY DEF ModelReplies, MachineFollows
<1>7. SlotsSound'
  BY <1>1, <1>2, <1>3, <1>4 DEF ModelReplies, SlotsSound
<1>8. WriterWaited'
  BY <1>1, <1>2, <1>3, <1>4 DEF WriterWaited, Active
<1>9. TranscriptSound'
  BY DEF ModelReplies, TranscriptSound
<1>10. PlanOnlyHarmless'
  BY DEF ModelReplies, PlanOnlyHarmless
<1>11. QED  BY <1>5, <1>6, <1>7, <1>8, <1>9, <1>10

\* The reply joins both lists, and its reads are scheduled.
LEMMA RecordReplyEffect ==
  ASSUME IInv, RecordReply
  PROVE  LET said == <<AssistantMessage(BatchIds)>>
         IN  /\ pc = "replied" /\ machine = "RUNNING" /\ said \in Seq(Messages)
             /\ history' = history \o said /\ turnMessages' = turnMessages \o said
             /\ WellFormed(turnMessages') /\ Dangling(turnMessages') = BatchIds
             /\ Asked(turnMessages') = Asked(turnMessages) \cup BatchIds
             /\ Answered(turnMessages') = Answered(turnMessages)
             /\ slots' \in Seq(SlotType) /\ DOMAIN slots' = DOMAIN slots
             /\ \A i \in DOMAIN slots :
                  /\ slots'[i].tool = slots[i].tool /\ slots'[i].json = slots[i].json
                  /\ slots'[i].result = slots[i].result
                  /\ \/ slots'[i].phase = slots[i].phase
                     \/ IsRead(i) /\ slots'[i].phase = "hooks"
<1> USE DEF IInv
<1> DEFINE said == <<AssistantMessage(BatchIds)>>
<1>1. pc = "replied" /\ machine = "RUNNING"
  BY DEF RecordReply, MachineFollows
<1>2. BatchIds \subseteq ToolIds
  BY DEF BatchIds, CallId, ToolIds, TypeOK
<1>3. said \in Seq(Messages)
  BY <1>2 DEF Messages, AssistantMessage
<1>4. history' = history \o said /\ turnMessages' = turnMessages \o said
  BY DEF RecordReply, Remember, Archive, BatchIds
<1>5. /\ WellFormed(turnMessages') /\ Dangling(turnMessages') = BatchIds
      /\ Asked(turnMessages') = Asked(turnMessages) \cup BatchIds
      /\ Answered(turnMessages') = Answered(turnMessages)
  <2>1. WellFormed(turnMessages) /\ Dangling(turnMessages) = {}
    BY <1>1 DEF TranscriptSound
  <2>2. turnMessages \in Seq(Messages)
    BY DEF TypeOK
  <2>3. QED  BY <1>1, <1>2, <1>4, <2>1, <2>2, BatchIdsNew, ReplyWellFormed
<1>6. /\ slots' \in Seq(SlotType) /\ DOMAIN slots' = DOMAIN slots
      /\ \A i \in DOMAIN slots :
           /\ slots'[i].tool = slots[i].tool /\ slots'[i].json = slots[i].json
           /\ slots'[i].result = slots[i].result
           /\ \/ slots'[i].phase = slots[i].phase
              \/ IsRead(i) /\ slots'[i].phase = "hooks"
  <2>1. \A i \in DOMAIN slots : slots[i] \in SlotType
    BY DEF TypeOK
  <2>2. \A i \in DOMAIN slots : [slots[i] EXCEPT !.phase = "hooks"] \in SlotType
    BY <2>1 DEF SlotType, Phases
  <2>3. /\ ReadsScheduled \in Seq(SlotType) /\ DOMAIN ReadsScheduled = DOMAIN slots
        /\ \A i \in DOMAIN slots :
             ReadsScheduled[i] = IF IsRead(i) THEN [slots[i] EXCEPT !.phase = "hooks"]
                                 ELSE slots[i]
    <3>1. DOMAIN slots = 1..Len(slots) /\ Len(slots) \in Nat
      BY DEF TypeOK
    <3>2. ReadsScheduled \in [1..Len(slots) -> SlotType]
      BY <2>1, <2>2, <3>1 DEF ReadsScheduled
    <3>3. QED  BY <3>1, <3>2 DEF ReadsScheduled
  <2>4. slots' = slots \/ slots' = ReadsScheduled
    BY DEF RecordReply
  <2>5. CASE slots' = slots
    BY <2>5 DEF TypeOK
  <2>6. CASE slots' = ReadsScheduled
    BY <2>1, <2>3, <2>6 DEF SlotType
  <2>7. QED  BY <2>4, <2>5, <2>6
<1>7. QED  BY <1>1, <1>3, <1>4, <1>5, <1>6

LEMMA IInvRecordReply ==
  ASSUME IInv, RecordReply
  PROVE  IInv'
<1> USE DEF IInv
<1> DEFINE said == <<AssistantMessage(BatchIds)>>
<1>1. pc = "replied" /\ machine = "RUNNING"
  BY RecordReplyEffect
<1>3. said \in Seq(Messages)
  BY RecordReplyEffect
<1>4. history' = history \o said /\ turnMessages' = turnMessages \o said
  BY RecordReplyEffect
<1>5. /\ WellFormed(turnMessages') /\ Dangling(turnMessages') = BatchIds
      /\ Asked(turnMessages') = Asked(turnMessages) \cup BatchIds
      /\ Answered(turnMessages') = Answered(turnMessages)
  BY RecordReplyEffect
<1>6. /\ slots' \in Seq(SlotType) /\ DOMAIN slots' = DOMAIN slots
      /\ \A i \in DOMAIN slots :
           /\ slots'[i].tool = slots[i].tool /\ slots'[i].json = slots[i].json
           /\ slots'[i].result = slots[i].result
           /\ \/ slots'[i].phase = slots[i].phase
              \/ IsRead(i) /\ slots'[i].phase = "hooks"
  BY RecordReplyEffect
<1>7. TypeOK'
  <2>1. history' \in Seq(Messages) /\ turnMessages' \in Seq(Messages)
    BY <1>3, <1>4 DEF TypeOK
  <2>2. machine' \in LoopStates /\ pc' \in PcStates
    BY <1>1, MachineMoves DEF RecordReply, LoopStates, PcStates
  <2>3. QED  BY <1>6, <2>1, <2>2 DEF RecordReply, TypeOK
<1>8. MachineFollows'
  BY <1>1, MachineMoves DEF RecordReply, MachineFollows
<1>9. BatchIds' = BatchIds
  BY <1>6 DEF RecordReply, BatchIds, CallId
<1>10. SlotsSound'
  <2>1. \A i \in DOMAIN slots : CallId(i)' = CallId(i) /\ UNCHANGED blocked
    BY DEF RecordReply, CallId
  <2>2. pc' \notin {"observing", "turn_end"}
    BY DEF RecordReply
  <2>3. ASSUME NEW i \in DOMAIN slots
        PROVE  /\ ~slots'[i].json => slots'[i].phase = "done"
               /\ slots'[i].phase = "done" => slots'[i].result # NoResult
               /\ slots'[i].result.code = "plan_only_blocked" => CallId(i) \in blocked'
    BY <1>1, <1>6, <2>1 DEF SlotsSound, IsRead
  <2>4. QED  BY <1>6, <2>1, <2>2, <2>3 DEF SlotsSound
<1>11. WriterWaited'
  BY <1>1, <1>6, ToolsAssumption DEF WriterWaited, IsWrite, IsRead, Active
<1>12. TranscriptSound'
  <2>1. \A id \in BatchIds : id[1] <= turn
    BY DEF BatchIds, CallId, TypeOK
  <2>2. slots = << >> => BatchIds = {}
    BY DEF BatchIds
  <2>3. UNCHANGED turn /\ (pc' = "final" => slots = << >> /\ slots' = << >>)
    BY DEF RecordReply
  <2>4. QED
    BY <1>1, <1>5, <1>9, <2>1, <2>2, <2>3 DEF RecordReply, TranscriptSound
<1>13. PlanOnlyHarmless'
  <2>1. \A k \in DOMAIN turnMessages' :
          \/ k \in DOMAIN turnMessages /\ turnMessages'[k] = turnMessages[k]
          \/ turnMessages'[k].role = "assistant"
    BY <1>3, <1>4 DEF TypeOK, AssistantMessage
  <2>2. QED  BY <2>1 DEF RecordReply, PlanOnlyHarmless
<1>14. QED  BY <1>7, <1>8, <1>10, <1>11, <1>12, <1>13

\* The results of the batch close exactly the calls of the batch.
LEMMA BackfillEffect ==
  ASSUME IInv, Backfill
  PROVE  \E answers :
             /\ pc = "observing" /\ pc' = "turn_end" /\ machine = "TOOL_EXECUTING"
             /\ history' = history \o answers /\ turnMessages' = turnMessages \o answers
             /\ answers \in Seq(Messages) /\ Len(answers) = Len(slots)
             /\ DOMAIN slots = 1..Len(answers)
             /\ \A k \in 1..Len(answers) :
                  /\ answers[k].role = "tool" /\ answers[k].call = CallId(k)
                  /\ answers[k].code = slots[k].result.code
             /\ WellFormed(turnMessages') /\ Dangling(turnMessages') = {}
             /\ Asked(turnMessages') = Asked(turnMessages)
             /\ Answered(turnMessages') = Answered(turnMessages) \cup BatchIds
<1> USE DEF IInv
<1> DEFINE answers == [i \in DOMAIN slots |-> ToolMessage(CallId(i), slots[i].result.code)]
<1>1. pc = "observing" /\ pc' = "turn_end" /\ machine = "TOOL_EXECUTING"
  BY DEF Backfill, MachineFollows
<1>2. history' = history \o answers /\ turnMessages' = turnMessages \o answers
  BY DEF Backfill, Remember, Archive
<1>3. ASSUME NEW i \in DOMAIN slots
      PROVE  /\ CallId(i) \in ToolIds
             /\ slots[i].result.code \in ErrorCodes \cup {"ok", "cancelled"}
  <2>1. slots[i] \in SlotType /\ i \in Nat
    BY DEF TypeOK
  <2>2. slots[i].result \in Results /\ slots[i].result # NoResult
    BY <1>1, <2>1 DEF SlotType, SlotsSound
  <2>3. slots[i].result.code \in ErrorCodes \cup {"ok"}
    BY <2>2 DEF Results, Ok, Err
  <2>4. QED  BY <2>1, <2>3 DEF CallId, ToolIds, TypeOK
<1>4. /\ answers \in Seq(Messages) /\ Len(answers) = Len(slots)
      /\ DOMAIN slots = 1..Len(answers)
      /\ \A k \in 1..Len(answers) :
           /\ answers[k].role = "tool" /\ answers[k].call = CallId(k)
           /\ answers[k].code = slots[k].result.code
  <2>1. DOMAIN slots = 1..Len(slots) /\ Len(slots) \in Nat
    BY DEF TypeOK
  <2>2. \A i \in 1..Len(slots) :
          /\ answers[i] \in Messages
          /\ answers[i].role = "tool" /\ answers[i].call = CallId(i)
          /\ answers[i].code = slots[i].result.code
    BY <1>3, <2>1 DEF Messages, ToolMessage
  <2>3. QED  BY <2>1, <2>2
<1> HIDE DEF answers
<1>5. /\ \A k \in 1..Len(answers) : answers[k].role = "tool" /\ answers[k].call \in BatchIds
      /\ \A j, k \in 1..Len(answers) : answers[j].call = answers[k].call => j = k
      /\ {answers[k].call : k \in 1..Len(answers)} = BatchIds
  <2>1. BatchIds = {CallId(k) : k \in 1..Len(answers)}
    BY <1>4 DEF BatchIds
  <2>2. {answers[k].call : k \in 1..Len(answers)} = {CallId(k) : k \in 1..Len(answers)}
    BY <1>4
  <2>3. \A j, k \in 1..Len(answers) : CallId(j) = CallId(k) => j = k
    BY DEF CallId
  <2>4. QED  BY <1>4, <2>1, <2>2, <2>3
<1>6. /\ WellFormed(turnMessages') /\ Dangling(turnMessages') = {}
      /\ Asked(turnMessages') = Asked(turnMessages)
      /\ Answered(turnMessages') = Answered(turnMessages) \cup BatchIds
  <2>1. WellFormed(turnMessages) /\ Dangling(turnMessages) = BatchIds
    BY <1>1 DEF TranscriptSound
  <2>2. turnMessages \in Seq(Messages)
    BY DEF TypeOK
  <2>3. /\ WellFormed(turnMessages \o answers)
        /\ Dangling(turnMessages \o answers) = BatchIds \ BatchIds
        /\ Asked(turnMessages \o answers) = Asked(turnMessages)
        /\ Answered(turnMessages \o answers) = Answered(turnMessages) \cup BatchIds
    <3>1. /\ answers \in Seq(Messages)
          /\ \A k \in 1..Len(answers) :
               answers[k].role = "tool" /\ answers[k].call \in Dangling(turnMessages)
          /\ \A j, k \in 1..Len(answers) : answers[j].call = answers[k].call => j = k
      BY <1>4, <1>5, <2>1
    <3>2. QED  BY <1>5, <2>1, <2>2, <3>1, AnswersWellFormed
  <2>4. QED  BY <1>2, <2>3
<1>7. QED  BY <1>1, <1>2, <1>4, <1>6

LEMMA IInvBackfill ==
  ASSUME IInv, Backfill
  PROVE  IInv'
<1> USE DEF IInv
<1>0. PICK answers :
             /\ pc = "observing" /\ pc' = "turn_end" /\ machine = "TOOL_EXECUTING"
             /\ history' = history \o answers /\ turnMessages' = turnMessages \o answers
             /\ answers \in Seq(Messages) /\ Len(answers) = Len(slots)
             /\ DOMAIN slots = 1..Len(answers)
             /\ \A k \in 1..Len(answers) :
                  /\ answers[k].role = "tool" /\ answers[k].call = CallId(k)
                  /\ answers[k].code = slots[k].result.code
             /\ WellFormed(turnMessages') /\ Dangling(turnMessages') = {}
             /\ Asked(turnMessages') = Asked(turnMessages)
             /\ Answered(turnMessages') = Answered(turnMessages) \cup BatchIds
  BY BackfillEffect
<1>1. pc = "observing" /\ pc' = "turn_end" /\ machine = "TOOL_EXECUTING"
  BY <1>0
<1>2. history' = history \o answers /\ turnMessages' = turnMessages \o answers
  BY <1>0
<1>4. /\ answers \in Seq(Messages) /\ Len(answers) = Len(slots)
      /\ DOMAIN slots = 1..Len(answers)
      /\ \A k \in 1..Len(answers) :
           /\ answers[k].role = "tool" /\ answers[k].call = CallId(k)
           /\ answers[k].code = slots[k].result.code
  BY <1>0
<1>6. /\ WellFormed(turnMessages') /\ Dangling(turnMessages') = {}
      /\ Asked(turnMessages') = Asked(turnMessages)
      /\ Answered(turnMessages') = Answered(turnMessages) \cup BatchIds
  BY <1>0
<1>7. TypeOK'
  <2>1. history' \in Seq(Messages) /\ turnMessages' \in Seq(Messages)
    BY <1>2, <1>4 DEF TypeOK
  <2>2. verdict' \in GuardReasons \cup {Continue, "end_turn", "cancelled", "error"}
    BY DEF Backfill, TypeOK, CheckProgress, CheckTurn, Decided, Verdict, GuardReasons
  <2>3. QED  BY <1>1, <2>1, <2>2 DEF Backfill, TypeOK, PcStates
<1>8. MachineFollows'
  BY <1>1 DEF Backfill, MachineFollows
<1>9. SlotsSound'
  BY <1>1 DEF Backfill, SlotsSound
<1>10. WriterWaited'
  BY <1>1 DEF Backfill, WriterWaited, SlotsSound, IsWrite, Active
<1>11. TranscriptSound'
  <2>1. \A id \in BatchIds : id[1] <= turn
    BY DEF BatchIds, CallId, TypeOK
  <2>2. UNCHANGED turn
    BY DEF Backfill
  <2>3. QED  BY <1>1, <1>6, <2>1, <2>2 DEF TranscriptSound
<1>12. PlanOnlyHarmless'
  <2>1. \A k \in DOMAIN turnMessages' :
          \/ k \in DOMAIN turnMessages /\ turnMessages'[k] = turnMessages[k]
          \/ \E i \in 1..Len(answers) : turnMessages'[k] = answers[i]
    BY <1>2, <1>4, ConcatMember DEF TypeOK
  <2>2. \A i \in 1..Len(answers) :
          answers[i].code = "plan_only_blocked" => answers[i].call \in blocked
    BY <1>1, <1>4 DEF SlotsSound
  <2>3. UNCHANGED <<planOnly, executed, blocked>>
    BY DEF Backfill
  <2>4. QED  BY <2>1, <2>2, <2>3 DEF PlanOnlyHarmless
<1>13. QED  BY <1>7, <1>8, <1>9, <1>10, <1>11, <1>12

\* Pairing answers every open call "cancelled", and no other.
LEMMA CleanUpEffect ==
  ASSUME IInv, turnMessages' = PairDangling(turnMessages), pc \in {"cancelled", "failed"}
  PROVE  /\ turnMessages \in Seq(Messages) /\ WellFormed(turnMessages)
         /\ Dangling(turnMessages) \subseteq Asked(turnMessages)
         /\ turnMessages' \in Seq(Messages) /\ WellFormed(turnMessages')
         /\ Dangling(turnMessages') = {}
         /\ Asked(turnMessages') = Asked(turnMessages)
         /\ Answered(turnMessages') = Answered(turnMessages) \cup Dangling(turnMessages)
         /\ \E a \in Seq(Messages) :
              /\ turnMessages' = turnMessages \o a
              /\ \A k \in 1..Len(a) : a[k].role = "tool" /\ a[k].code = "cancelled"
<1> USE DEF IInv
<1>1. /\ turnMessages \in Seq(Messages) /\ WellFormed(turnMessages)
      /\ Dangling(turnMessages) \subseteq BatchIds
      /\ Dangling(turnMessages) \subseteq Asked(turnMessages)
  BY DEF TypeOK, TranscriptSound, Dangling
<1>2. IsFiniteSet(Dangling(turnMessages))
  <2>1. IsFiniteSet(BatchIds)
    BY BatchIdsFinite DEF TypeOK
  <2>2. QED  BY <1>1, <2>1, FS_Subset
<1>3. Dangling(turnMessages) \subseteq ToolIds
  BY <1>1, IdsTyped
<1>4. /\ turnMessages' \in Seq(Messages) /\ WellFormed(turnMessages')
      /\ Dangling(turnMessages') = {}
      /\ Asked(turnMessages') = Asked(turnMessages)
      /\ Answered(turnMessages') = Answered(turnMessages) \cup Dangling(turnMessages)
  BY <1>1, <1>2, <1>3, PairDanglingPairs
<1>5. PICK a \in Seq(Messages) :
        /\ turnMessages' = turnMessages \o a
        /\ \A k \in 1..Len(a) : a[k].role = "tool" /\ a[k].code = "cancelled"
  <2>1. \E a \in Seq(Messages) :
          /\ PairDangling(turnMessages) = turnMessages \o a
          /\ \A k \in 1..Len(a) : a[k].role = "tool" /\ a[k].code = "cancelled"
    BY <1>1, <1>2, <1>3, PairDanglingPairs
  <2>2. QED  BY <2>1
<1>6. QED  BY <1>1, <1>4, <1>5

\* The clean-up of either exception handler: every open call is answered
\* "cancelled" and the rest of the state, the slots included, stays.
LEMMA IInvCleanUp ==
  ASSUME IInv, turnMessages' = PairDangling(turnMessages),
         \/ pc = "cancelled" /\ pc' = "cancelling"
         \/ pc = "failed" /\ pc' = "ended",
         machine' \in LoopStates,
         verdict' \in GuardReasons \cup {Continue, "end_turn", "cancelled", "error"},
         UNCHANGED <<token, planOnly, turn, slots, cursor, history, term,
                     progress, blocked, executed>>
  PROVE  IInv'
<1> USE DEF IInv
<1>0. pc \in {"cancelled", "failed"}
  OBVIOUS
<1>1. /\ turnMessages \in Seq(Messages) /\ WellFormed(turnMessages)
      /\ Dangling(turnMessages) \subseteq Asked(turnMessages)
  BY <1>0, CleanUpEffect
<1>4. /\ turnMessages' \in Seq(Messages) /\ WellFormed(turnMessages')
      /\ Dangling(turnMessages') = {}
      /\ Asked(turnMessages') = Asked(turnMessages)
      /\ Answered(turnMessages') = Answered(turnMessages) \cup Dangling(turnMessages)
  BY <1>0, CleanUpEffect
<1>5. PICK a \in Seq(Messages) :
        /\ turnMessages' = turnMessages \o a
        /\ \A k \in 1..Len(a) : a[k].role = "tool" /\ a[k].code = "cancelled"
  BY <1>0, CleanUpEffect
<1>6. TypeOK'
  BY <1>4 DEF TypeOK, PcStates
<1>7. MachineFollows'
  BY DEF MachineFollows
<1>8. SlotsSound'
  BY DEF SlotsSound
<1>9. WriterWaited'
  BY DEF WriterWaited, IsWrite, IsRead, Active, ReadsDone, WritesBefore
<1>10. TranscriptSound'
  <2>1. \A id \in Asked(turnMessages') \cup Answered(turnMessages') : id[1] <= turn
    BY <1>1, <1>4 DEF TranscriptSound
  <2>2. QED  BY <1>4, <2>1 DEF TranscriptSound
<1>11. PlanOnlyHarmless'
  <2>1. \A k \in DOMAIN turnMessages' :
          \/ k \in DOMAIN turnMessages /\ turnMessages'[k] = turnMessages[k]
          \/ turnMessages'[k].code = "cancelled"
    BY <1>1, <1>5, ConcatMember
  <2>2. QED  BY <2>1 DEF PlanOnlyHarmless
<1>12. QED  BY <1>6, <1>7, <1>8, <1>9, <1>10, <1>11

\* The host cancels the task wherever it is parked.
LEMMA IInvTaskAborted ==
  ASSUME IInv, TaskAborted
  PROVE  IInv'
<1> USE DEF IInv
<1>1. /\ slots' \in Seq(SlotType) /\ DOMAIN slots' = DOMAIN slots
      /\ \A i \in DOMAIN slots :
           \/ slots'[i] = slots[i] /\ (pc = "dispatch" => slots[i].phase = "done")
           \/ /\ slots'[i].json = slots[i].json /\ slots'[i].phase = "dropped"
              /\ slots[i].phase # "done"
  <2> DEFINE dropped(i) == [slots[i] EXCEPT !.phase = "dropped"]
  <2>1. \A i \in DOMAIN slots : slots[i] \in SlotType
    BY DEF TypeOK
  <2>2. \A i \in DOMAIN slots :
          /\ dropped(i) \in SlotType
          /\ dropped(i).phase = "dropped" /\ dropped(i).json = slots[i].json
    BY <2>1 DEF SlotType, Phases
  <2> HIDE DEF dropped
  <2>3. CASE pc # "dispatch"
    BY <2>3 DEF TaskAborted, TypeOK
  <2>4. CASE pc = "dispatch"
    <3>1. slots' = [i \in DOMAIN slots |->
                      IF slots[i].phase = "done" THEN slots[i] ELSE dropped(i)]
      BY <2>4 DEF TaskAborted, dropped
    <3>2. DOMAIN slots = 1..Len(slots) /\ Len(slots) \in Nat
      BY DEF TypeOK
    <3>3. slots' \in [1..Len(slots) -> SlotType]
      BY <2>1, <2>2, <3>1, <3>2
    <3>4. QED  BY <2>2, <3>1, <3>2, <3>3
  <2>5. QED  BY <2>3, <2>4
<1>2. pc' = "aborted" /\ UNCHANGED <<turn, turnMessages, planOnly, blocked, executed>>
  BY DEF TaskAborted
<1>3. TypeOK'
  BY <1>1 DEF TaskAborted, TypeOK, PcStates
<1>4. MachineFollows'
  BY <1>2 DEF MachineFollows
<1>5. SlotsSound'
  <2>1. \A i \in DOMAIN slots :
          /\ ~slots'[i].json => slots'[i].phase = "done"
          /\ slots'[i].phase = "done" => slots'[i].result # NoResult
    BY <1>1 DEF SlotsSound
  <2>2. QED  BY <1>1, <1>2, <2>1 DEF SlotsSound
<1>6. WriterWaited'
  <2>1. \A i \in DOMAIN slots : ~(IsWrite(i)' /\ Active(i)')
    BY <1>1 DEF WriterWaited, IsWrite, Active
  <2>2. QED  BY <1>1, <2>1 DEF WriterWaited
<1>7. TranscriptSound'
  BY <1>2 DEF TranscriptSound
<1>8. PlanOnlyHarmless'
  BY <1>2 DEF PlanOnlyHarmless
<1>9. QED  BY <1>3, <1>4, <1>5, <1>6, <1>7, <1>8

\* The steps of the loop that move no message and no slot.
LEMMA IInvControl ==
  ASSUME IInv,
         \/ UserCancels \/ BeginTurn \/ PrepareReturns \/ StreamCancelled
         \/ StreamFails \/ FinalReply \/ DispatchReturns \/ ObserveResult
         \/ SpoolRaises \/ StopOnVerdict \/ NextTurn \/ CancelCompletes
  PROVE  IInv'
<1> USE DEF IInv
<1> USE DEF PcStates, LoopStates
<1>1. CASE UserCancels
  <2>1. TypeOK' /\ MachineFollows'
    BY <1>1 DEF UserCancels, TypeOK, MachineFollows
  <2>2. QED  BY <1>1, <2>1, ControlStep DEF UserCancels
<1>2. CASE BeginTurn
  <2>1. machine' \in LoopStates /\ (pc' \in {"preparing", "streaming"} => machine' = "RUNNING")
    BY <1>2, MachineMoves DEF BeginTurn, MachineFollows, TypeOK
  <2>2. TypeOK' /\ MachineFollows'
    BY <1>2, <2>1 DEF BeginTurn, TypeOK, MachineFollows
  <2>3. QED  BY <1>2, <2>2, ControlStep DEF BeginTurn
<1>3. CASE PrepareReturns
  <2>1. TypeOK' /\ MachineFollows'
    BY <1>3 DEF PrepareReturns, TypeOK, MachineFollows
  <2>2. QED  BY <1>3, <2>1, ControlStep DEF PrepareReturns
<1>4. CASE StreamCancelled \/ StreamFails
  <2>1. TypeOK' /\ MachineFollows'
    BY <1>4 DEF StreamCancelled, StreamFails, TypeOK, MachineFollows
  <2>2. QED  BY <1>4, <2>1, ControlStep DEF StreamCancelled, StreamFails
<1>5. CASE FinalReply
  <2>1. machine' = "TERMINATED"
    BY <1>5, MachineMoves DEF FinalReply, MachineFollows
  <2>2. TypeOK' /\ MachineFollows'
    BY <1>5, <2>1 DEF FinalReply, TypeOK, MachineFollows
  <2>3. QED  BY <1>5, <2>2, ControlStep DEF FinalReply
<1>6. CASE DispatchReturns
  <2>1. TypeOK' /\ MachineFollows'
    BY <1>6 DEF DispatchReturns, TypeOK, MachineFollows
  <2>2. QED  BY <1>6, <2>1, ControlStep DEF DispatchReturns
<1>7. CASE ObserveResult
  <2> DEFINE s == slots[cursor + 1]
             key == <<s.tool, s.result.out>>
  <2>1. cursor + 1 \in DOMAIN slots /\ s \in SlotType
    BY <1>7 DEF ObserveResult, TypeOK
  <2>2. s.result.code = "ok" => key \in Tools \X Outputs
    <3>1. s.tool \in Tools /\ s.result \in Results
      BY <2>1 DEF SlotType
    <3>2. s.result.code = "ok" => s.result.out \in Outputs
      <4>1. "ok" \notin ErrorCodes /\ Nothing # "ok"
        BY ToolsAssumption DEF ErrorCodes, HookErrors
      <4>2. NoResult.code = Nothing /\ \A e \in ErrorCodes : Err(e).code = e
        BY DEF NoResult, Err
      <4>3. \A o \in Outputs : Ok(o).out = o
        BY DEF Ok
      <4>4. \/ s.result = NoResult
            \/ \E o \in Outputs : s.result = Ok(o)
            \/ \E e \in ErrorCodes : s.result = Err(e)
        BY <3>1 DEF Results
      <4>5. QED  BY <4>1, <4>2, <4>3, <4>4
    <3>3. QED  BY <3>1, <3>2
  <2>3. progress' \subseteq Tools \X Outputs
    BY <1>7, <2>2 DEF ObserveResult, TypeOK
  <2>4. verdict' \in GuardReasons \cup {Continue, "end_turn", "cancelled", "error"}
    <3>1. verdict' = verdict
            \/ \E e : verdict' = CheckError(term, turn, e).verdict
            \/ \E o : verdict' = CheckObservation(term, turn, o).verdict
      BY <1>7 DEF ObserveResult
    <3>2. /\ \A e : CheckError(term, turn, e).verdict \in GuardReasons \cup {Continue}
          /\ \A o : CheckObservation(term, turn, o).verdict \in GuardReasons \cup {Continue}
      BY DEF CheckError, CheckObservation, CheckTurn, Decided, Verdict, GuardReasons
    <3>3. QED  BY <3>1, <3>2 DEF TypeOK
  <2>5. TypeOK' /\ MachineFollows'
    BY <1>7, <2>3, <2>4 DEF ObserveResult, TypeOK, MachineFollows
  <2>6. QED  BY <1>7, <2>5, ControlStep DEF ObserveResult
<1>8. CASE StopOnVerdict
  <2>1. machine' = "TERMINATED"
    BY <1>8, MachineMoves DEF StopOnVerdict, MachineFollows
  <2>2. TypeOK' /\ MachineFollows'
    BY <1>8, <2>1 DEF StopOnVerdict, TypeOK, MachineFollows
  <2>3. QED  BY <1>8, <2>2, ControlStep DEF StopOnVerdict
<1>9. CASE NextTurn
  <2>1. TypeOK' /\ MachineFollows'
    BY <1>9 DEF NextTurn, TypeOK, MachineFollows
  <2>2. QED  BY <1>9, <2>1, ControlStep DEF NextTurn
<1>10. CASE CancelCompletes
  <2>1. machine' \in LoopStates
    BY <1>10, MachineMoves DEF CancelCompletes, TypeOK
  <2>2. TypeOK' /\ MachineFollows'
    BY <1>10, <2>1 DEF CancelCompletes, TypeOK, MachineFollows
  <2>3. QED  BY <1>10, <2>2, ControlStep DEF CancelCompletes
<1>11. CASE SpoolRaises
  <2>1. TypeOK' /\ MachineFollows'
    BY <1>11 DEF SpoolRaises, TypeOK, MachineFollows
  <2>2. QED  BY <1>11, <2>1, ControlStep DEF SpoolRaises
<1>12. QED
  BY <1>1, <1>2, <1>3, <1>4, <1>5, <1>6, <1>7, <1>8, <1>9, <1>10, <1>11

\* What is left of the loop: the two handlers.
LEMMA IInvHandlers ==
  ASSUME IInv, CancelUnwinds \/ ErrorCompletes
  PROVE  IInv'
<1>1. machine' \in LoopStates
  BY MachineMoves DEF CancelUnwinds, ErrorCompletes, IInv, TypeOK
<1>2. verdict' \in GuardReasons \cup {Continue, "end_turn", "cancelled", "error"}
  BY DEF CancelUnwinds, ErrorCompletes, IInv, TypeOK
<1>3. QED  BY <1>1, <1>2, IInvCleanUp DEF CancelUnwinds, ErrorCompletes

\* A step of one call of the batch.
LEMMA IInvCallSteps ==
  ASSUME IInv, NEW i \in DOMAIN slots, CallSteps(i)
  PROVE  IInv'
<1> USE DEF IInv
<1>1. /\ slots[i] \in SlotType /\ i \in Nat
      /\ CallId(i) \in ToolIds
      /\ ~slots[i].json => slots[i].phase = "done"
  BY DEF TypeOK, SlotsSound, CallId, ToolIds
<1>2. /\ NoResult \in Results /\ NoResult.code # "plan_only_blocked"
      /\ \A e \in ErrorCodes :
           Err(e) \in Results /\ Err(e) # NoResult /\ Err(e).code = e
      /\ \A o \in Outputs :
           Ok(o) \in Results /\ Ok(o) # NoResult /\ Ok(o).code # "plan_only_blocked"
  <2>1. Nothing \notin ErrorCodes \cup {"ok"}
    BY ToolsAssumption DEF ErrorCodes
  <2>2. Nothing # "plan_only_blocked"
    BY <2>1 DEF ErrorCodes, HookErrors
  <2>3. \A e \in ErrorCodes : Err(e).code = e /\ NoResult.code = Nothing
    BY DEF Err, NoResult
  <2>4. \A o \in Outputs : Ok(o).code = "ok" /\ NoResult.code = Nothing
    BY DEF Ok, NoResult
  <2>5. \A e \in ErrorCodes : Err(e) \in Results /\ Err(e) # NoResult
    BY <2>1, <2>3 DEF Results
  <2>6. \A o \in Outputs : Ok(o) \in Results /\ Ok(o) # NoResult
    BY <2>1, <2>4 DEF Results
  <2>7. NoResult \in Results /\ NoResult.code # "plan_only_blocked"
    BY <2>2 DEF Results, NoResult
  <2>8. QED  BY <2>3, <2>4, <2>5, <2>6, <2>7
<1>3. HookErrors \subseteq ErrorCodes /\ ExecErrors \subseteq ErrorCodes
  BY DEF ErrorCodes
<1>4. /\ \A e \in ExecErrors : e # "plan_only_blocked"
      /\ {"rule_rejected", "plan_only_blocked", "security_blocked"} = HookErrors
  BY ToolsAssumption DEF HookErrors
<1>5. /\ blocked \subseteq ToolIds /\ executed \subseteq ToolIds \X Tools
      /\ slots[i].tool \in Tools
      /\ (planOnly => \A e \in executed : e[2] \notin WriteTools)
  BY <1>1 DEF TypeOK, SlotType, PlanOnlyHarmless
<1> USE DEF loopVars, Phases
<1>6. CASE WriteBegins(i)
  BY <1>1, <1>2, <1>5, <1>6, SlotStep DEF WriteBegins, IsWrite
<1>7. CASE RuleRejects(i)
  <2>1. Err("rule_rejected").code # "plan_only_blocked"
    BY <1>2, <1>3, <1>4
  <2>2. QED  BY <1>1, <1>2, <1>3, <1>4, <1>5, <1>7, <2>1, SlotStep DEF RuleRejects, Active
<1>8. CASE PlanOnlyBlocks(i)
  <2>1. blocked' = blocked \cup {CallId(i)}
    BY <1>8 DEF PlanOnlyBlocks
  <2>2. QED
    BY <1>1, <1>2, <1>3, <1>4, <1>5, <1>8, <2>1, SlotStep DEF PlanOnlyBlocks, Active
<1>9. CASE SecurityBlocks(i)
  <2>1. blocked' = blocked \cup {CallId(i)}
    BY <1>9 DEF SecurityBlocks
  <2>2. QED
    BY <1>1, <1>2, <1>3, <1>4, <1>5, <1>9, <2>1, SlotStep DEF SecurityBlocks, Active
<1>10. CASE ToolStarts(i)
  <2>1. executed' = executed \cup {<<CallId(i), slots[i].tool>>}
    BY <1>10 DEF ToolStarts
  <2>2. executed' \subseteq ToolIds \X Tools
    BY <1>1, <1>5, <2>1
  <2>3. slots[i].json
    BY <1>1, <1>10 DEF ToolStarts
  <2>4. planOnly => slots[i].tool \notin WriteTools
    BY <1>10, <2>3 DEF ToolStarts, IsWrite
  <2>5. planOnly => \A e \in executed' : e[2] \notin WriteTools
    BY <1>5, <2>1, <2>4
  <2>6. IsWrite(i) => pc = "dispatch" /\ ReadsDone /\ WritesBefore(i)
    BY <1>10 DEF ToolStarts, WriterWaited, Active
  <2>7. QED
    BY <1>1, <1>2, <1>5, <1>10, <2>2, <2>3, <2>5, <2>6, SlotStep DEF ToolStarts, Active
<1>11. CASE ToolReturns(i)
  <2>1. slots[i].json /\ Active(i)
    BY <1>1, <1>11 DEF ToolReturns, Active
  <2>2. PICK res \in Results : /\ MoveSlot(i, "done", res) /\ res # NoResult
                               /\ res.code # "plan_only_blocked"
    BY <1>2, <1>3, <1>4, <1>11 DEF ToolReturns
  <2>3. QED
    BY <1>5, <1>11, <2>1, <2>2, SlotStep DEF ToolReturns
<1>12. CASE CallRaises(i)
  <2>1. slots[i].json /\ Active(i)
    BY <1>1, <1>12 DEF CallRaises, Active
  <2>2. QED
    BY <1>2, <1>5, <1>12, <2>1, SlotStep DEF CallRaises
<1>13. QED
  BY <1>6, <1>7, <1>8, <1>9, <1>10, <1>11, <1>12 DEF CallSteps

\* Nothing happens: every part of the invariant reads the same.
LEMMA IInvStutter ==
  ASSUME IInv, UNCHANGED vars
  PROVE  IInv'
<1> USE DEF IInv, vars
<1>1. TypeOK' /\ MachineFollows'
  BY DEF TypeOK, MachineFollows
<1>2. QED  BY <1>1, ControlStep

\* Every action keeps the invariant.
LEMMA IInvNext ==
  ASSUME IInv, [Next]_vars
  PROVE  IInv'
<1>1. CASE LoopSteps
  BY <1>1, IInvControl, IInvRecordReply, IInvBackfill, IInvHandlers DEF LoopSteps
<1>2. CASE ModelSteps
  BY <1>2, IInvModelReplies, IInvControl DEF ModelSteps
<1>3. CASE \E i \in DOMAIN slots : CallSteps(i)
  BY <1>3, IInvCallSteps
<1>4. CASE UserCancels
  BY <1>4, IInvControl
<1>5. CASE TaskAborted
  BY <1>5, IInvTaskAborted
<1>6. CASE UNCHANGED vars
  BY <1>6, IInvStutter
<1>7. QED  BY <1>1, <1>2, <1>3, <1>4, <1>5, <1>6 DEF Next

-----------------------------------------------------------------------------
(***************************************************************************)
(* The invariant behind the refinement of ReplyContract                    *)
(***************************************************************************)
\* Different calls of a batch have different ids.
LEMMA CallIdsDiffer == \A i, j : CallId(i) = CallId(j) => i = j
BY DEF CallId

LEMMA ReplyInit == Init => SameConversation /\ RunsTold
BY DEF Init, SameConversation, RunsTold, Ran, Asked, Over

\* A step that leaves the batch, the transcripts and the outside world alone.
LEMMA ReplyControl ==
  ASSUME ReplyIInv, UNCHANGED <<slots, history, turnMessages, executed>>,
         ~Over' => verdict' \in GuardReasons \cup {Continue},
         \/ UNCHANGED <<pc, turn, verdict>>
         \/ pc = "top" /\ pc' \in {"preparing", "streaming", "failed", "cancelled"} /\ UNCHANGED turn
         \/ pc = "preparing" /\ pc' = "streaming" /\ UNCHANGED turn
         \/ pc = "streaming" /\ pc' \in {"cancelled", "failed"} /\ UNCHANGED turn
         \/ pc = "final" /\ pc' = "ended" /\ UNCHANGED turn
         \/ /\ pc = "dispatch" /\ pc' = "observing" /\ UNCHANGED turn
            /\ \A i \in DOMAIN slots : slots[i].phase = "done"
         \/ pc = "observing" /\ pc' \in {"observing", "failed"} /\ UNCHANGED turn
         \/ pc = "turn_end" /\ pc' \in {"ended", "cancelled"} /\ UNCHANGED turn
         \/ pc = "turn_end" /\ pc' = "top" /\ turn' = turn + 1
         \/ pc = "cancelling" /\ pc' = "ended" /\ UNCHANGED turn
  PROVE  SameConversation' /\ RunsTold'
<1> USE DEF ReplyIInv
<1>1. SameConversation'
  BY DEF SameConversation
<1>2. UNCHANGED Ran
  BY DEF Ran
<1>3. pc' = "cancelled" => Dangling(turnMessages') \cap Ran' = {}
  BY <1>2 DEF RunsTold, IInv, TranscriptSound
<1>4. ASSUME NEW i \in DOMAIN slots
      PROVE  SlotTold(i)'
  <2>1. SlotTold(i)
    BY DEF RunsTold
  <2>2. CASE UNCHANGED <<pc, turn, verdict>>
    BY <1>2, <2>1, <2>2 DEF SlotTold, CallId
  <2>3. CASE pc \in {"dispatch", "observing"} /\ pc' \in {"observing", "failed"} /\ UNCHANGED turn
    <3>1. slots[i].phase = "done"
      BY <2>3 DEF IInv, SlotsSound
    <3>2. CallId(i)' = CallId(i)
      BY <2>3 DEF CallId
    <3>3. QED  BY <1>2, <2>1, <2>3, <3>1, <3>2 DEF SlotTold
  <2>4. CASE pc \notin {"dispatch", "failed", "ended", "aborted"}
             /\ pc' \notin {"replied", "dispatch", "observing"}
    BY <2>1, <2>4 DEF SlotTold
  <2>5. QED  BY <2>2, <2>3, <2>4
<1>5. QED  BY <1>1, <1>2, <1>3, <1>4 DEF RunsTold

\* The steps of the loop that move no message and no slot, one by one.
LEMMA ReplyControlSteps ==
  ASSUME ReplyIInv,
         \/ UserCancels \/ BeginTurn \/ PrepareReturns \/ StreamCancelled
         \/ StreamFails \/ FinalReply \/ DispatchReturns \/ ObserveResult
         \/ SpoolRaises \/ StopOnVerdict \/ NextTurn \/ CancelCompletes
  PROVE  SameConversation' /\ RunsTold'
<1>1. /\ \A e : CheckError(term, turn, e).verdict \in GuardReasons \cup {Continue}
      /\ \A o : CheckObservation(term, turn, o).verdict \in GuardReasons \cup {Continue}
  BY DEF CheckError, CheckObservation, CheckTurn, Decided, Verdict, GuardReasons
<1>2. pc \notin {"ended", "aborted"} => verdict \in GuardReasons \cup {Continue}
  BY DEF ReplyIInv, SameConversation, Over
<1>3. CASE UserCancels
  BY <1>2, <1>3, ReplyControl DEF UserCancels, Over
<1>4. CASE BeginTurn
  BY <1>2, <1>4, ReplyControl DEF BeginTurn, Over
<1>5. CASE PrepareReturns
  BY <1>2, <1>5, ReplyControl DEF PrepareReturns, Over
<1>6. CASE StreamCancelled
  BY <1>2, <1>6, ReplyControl DEF StreamCancelled, Over
<1>7. CASE StreamFails
  BY <1>2, <1>7, ReplyControl DEF StreamFails, Over
<1>8. CASE FinalReply
  BY <1>2, <1>8, ReplyControl DEF FinalReply, Over
<1>9. CASE DispatchReturns
  BY <1>2, <1>9, ReplyControl DEF DispatchReturns, Over
<1>10. CASE ObserveResult
  <2>1. verdict' = verdict
          \/ \E e : verdict' = CheckError(term, turn, e).verdict
          \/ \E o : verdict' = CheckObservation(term, turn, o).verdict
    BY <1>10 DEF ObserveResult
  <2>2. pc = "observing" /\ UNCHANGED <<pc, turn, slots, history, turnMessages, executed>>
    BY <1>10 DEF ObserveResult
  <2>3. verdict' \in GuardReasons \cup {Continue}
    BY <1>1, <1>2, <2>1, <2>2
  <2>4. QED  BY <2>2, <2>3, ReplyControl
<1>11. CASE StopOnVerdict
  BY <1>2, <1>11, ReplyControl DEF StopOnVerdict, Over
<1>12. CASE NextTurn
  BY <1>2, <1>12, ReplyControl DEF NextTurn, Over
<1>13. CASE CancelCompletes
  BY <1>2, <1>13, ReplyControl DEF CancelCompletes, Over
<1>14. CASE SpoolRaises
  BY <1>2, <1>14, ReplyControl DEF SpoolRaises, Over
<1>15. QED
  BY <1>3, <1>4, <1>5, <1>6, <1>7, <1>8, <1>9, <1>10, <1>11, <1>12, <1>13, <1>14

\* How a call of the batch moves, and what that says of whether it was run.
CallMoves(i, ph, res) ==
  /\ MoveSlot(i, ph, res)
  /\ \/ /\ slots[i].phase = "waiting" /\ ph = "hooks" /\ pc = "dispatch"
        /\ Ran' = Ran /\ UNCHANGED pc
     \/ /\ slots[i].phase = "hooks" /\ ph = "done" /\ res.code \in HookErrors
        /\ Ran' = Ran /\ UNCHANGED pc
     \/ /\ slots[i].phase = "hooks" /\ ph = "running"
        /\ Ran' = Ran \cup {CallId(i)} /\ UNCHANGED pc
     \/ /\ slots[i].phase = "running" /\ ph = "done" /\ res.code \notin HookErrors
        /\ Ran' = Ran /\ UNCHANGED pc
     \/ /\ slots[i].phase \in {"hooks", "running"} /\ ph = "raised"
        /\ Ran' = Ran /\ pc' = IF pc = "dispatch" THEN "failed" ELSE pc

LEMMA CallStepMoves ==
  ASSUME ReplyIInv, NEW i \in DOMAIN slots, CallSteps(i)
  PROVE  /\ \E ph \in Phases, res \in Results : CallMoves(i, ph, res)
         /\ UNCHANGED <<turn, history, turnMessages, verdict>>
<1> USE DEF Phases
<1>1. /\ NoResult \in Results
      /\ \A e \in ErrorCodes : Err(e) \in Results /\ Err(e).code = e
      /\ \A o \in Outputs : Ok(o) \in Results /\ Ok(o).code = "ok"
  BY DEF Results, Err, Ok
<1>2. /\ HookErrors \subseteq ErrorCodes /\ ExecErrors \subseteq ErrorCodes
      /\ HookErrors \cap ExecErrors = {} /\ "ok" \notin HookErrors
      /\ {"rule_rejected", "plan_only_blocked", "security_blocked"} = HookErrors
  BY ToolsAssumption DEF ErrorCodes, HookErrors
<1>3. executed' = executed => Ran' = Ran
  BY DEF Ran
<1>4. UNCHANGED <<turn, history, turnMessages, verdict>>
  BY DEF CallSteps, WriteBegins, RuleRejects, PlanOnlyBlocks, SecurityBlocks, ToolStarts,
     ToolReturns, CallRaises, loopVars
<1>5. CASE WriteBegins(i)
  BY <1>1, <1>3, <1>5 DEF WriteBegins, CallMoves, loopVars
<1>6. CASE RuleRejects(i)
  BY <1>1, <1>2, <1>3, <1>6 DEF RuleRejects, CallMoves, loopVars
<1>7. CASE PlanOnlyBlocks(i)
  BY <1>1, <1>2, <1>3, <1>7 DEF PlanOnlyBlocks, CallMoves, loopVars
<1>8. CASE SecurityBlocks(i)
  BY <1>1, <1>2, <1>3, <1>8 DEF SecurityBlocks, CallMoves, loopVars
<1>9. CASE ToolStarts(i)
  <2>1. executed' = executed \cup {<<CallId(i), slots[i].tool>>}
    BY <1>9 DEF ToolStarts
  <2>2. Ran' = Ran \cup {CallId(i)}
    <3>1. {e[1] : e \in executed'} = {e[1] : e \in executed} \cup {<<CallId(i), slots[i].tool>>[1]}
      BY <2>1
    <3>2. <<CallId(i), slots[i].tool>>[1] = CallId(i)
      OBVIOUS
    <3>3. QED  BY <3>1, <3>2 DEF Ran
  <2>3. QED  BY <1>1, <1>9, <2>2 DEF ToolStarts, CallMoves, loopVars
<1>10. CASE ToolReturns(i)
  BY <1>1, <1>2, <1>3, <1>10 DEF ToolReturns, CallMoves, loopVars
<1>11. CASE CallRaises(i)
  BY <1>1, <1>3, <1>11 DEF CallRaises, CallMoves
<1>12. QED
  BY <1>4, <1>5, <1>6, <1>7, <1>8, <1>9, <1>10, <1>11 DEF CallSteps

\* The step of one call says of that call what the others' phases do not
\* contradict.
LEMMA ReplyCallSteps ==
  ASSUME ReplyIInv, NEW i \in DOMAIN slots, CallSteps(i)
  PROVE  SameConversation' /\ RunsTold'
<1> USE DEF ReplyIInv
<1>1. PICK ph \in Phases, res \in Results : CallMoves(i, ph, res)
  BY CallStepMoves
<1>2. UNCHANGED <<turn, history, turnMessages, verdict>>
  BY CallStepMoves
<1>3. /\ DOMAIN slots' = DOMAIN slots
      /\ slots'[i].phase = ph /\ slots'[i].result = res
      /\ \A j \in DOMAIN slots : j # i => slots'[j] = slots[j]
  BY <1>1, SlotMoved DEF CallMoves, IInv, TypeOK
<1>4. /\ pc' = pc \/ (pc = "dispatch" /\ pc' = "failed")
      /\ Ran' = Ran \/ Ran' = Ran \cup {CallId(i)}
  BY <1>1 DEF CallMoves
<1>5. SameConversation'
  BY <1>2, <1>4 DEF SameConversation, Over
<1>6. Ran' \subseteq Asked(turnMessages')
  <2>1. slots[i].phase = "hooks" => CallId(i) \in Asked(turnMessages)
    BY DEF RunsTold, SlotTold
  <2>2. Ran \subseteq Asked(turnMessages)
    BY DEF RunsTold
  <2>3. QED  BY <1>1, <1>2, <2>1, <2>2 DEF CallMoves
<1>7. pc' # "cancelled"
  <2>1. slots[i].phase \in {"hooks", "running"} => pc # "cancelled"
    BY DEF RunsTold, SlotTold
  <2>2. QED  BY <1>1, <2>1 DEF CallMoves
<1>8. \A j \in DOMAIN slots : CallId(j)' = CallId(j)
  BY <1>2 DEF CallId
<1>9. ASSUME NEW j \in DOMAIN slots, j # i
      PROVE  SlotTold(j)'
  <2>1. slots'[j] = slots[j] /\ SlotTold(j)
    BY <1>3, <1>9 DEF RunsTold
  <2>2. CallId(j) \in Ran' <=> CallId(j) \in Ran
    BY <1>4, <1>9, CallIdsDiffer
  <2>3. QED  BY <1>2, <1>4, <1>8, <2>1, <2>2 DEF SlotTold
<1>10. SlotTold(i)'
  <2>1. SlotTold(i)
    BY DEF RunsTold
  <2>2. slots[i].phase = "waiting" /\ pc = "dispatch" =>
          CallId(i) \in Dangling(turnMessages) /\ CallId(i) \notin Ran
    BY <2>1 DEF SlotTold, IInv, TranscriptSound, BatchIds
  <2>3. Dangling(turnMessages) \subseteq Asked(turnMessages)
    BY DEF Dangling
  <2>4. "ok" \notin HookErrors
    BY DEF HookErrors
  <2>5. CASE slots[i].phase = "waiting" /\ ph = "hooks"
    BY <1>1, <1>2, <1>3, <1>8, <2>2, <2>3, <2>5 DEF CallMoves, SlotTold
  <2>6. CASE slots[i].phase = "hooks" /\ ph = "done"
    BY <1>1, <1>2, <1>3, <1>8, <2>1, <2>4, <2>6 DEF CallMoves, SlotTold
  <2>7. CASE slots[i].phase = "hooks" /\ ph = "running"
    BY <1>1, <1>2, <1>3, <1>8, <2>1, <2>7 DEF CallMoves, SlotTold
  <2>8. CASE slots[i].phase = "running" /\ ph = "done"
    BY <1>1, <1>2, <1>3, <1>8, <2>1, <2>8 DEF CallMoves, SlotTold
  <2>9. CASE ph = "raised"
    BY <1>1, <1>2, <1>3, <1>8, <2>1, <2>9 DEF CallMoves, SlotTold
  <2>10. QED  BY <1>1, <2>5, <2>6, <2>7, <2>8, <2>9 DEF CallMoves
<1>11. QED  BY <1>3, <1>5, <1>6, <1>7, <1>9, <1>10 DEF RunsTold

\* A reply brings new calls, none of which has begun.
LEMMA ReplyModelReplies ==
  ASSUME ReplyIInv, ModelReplies
  PROVE  SameConversation' /\ RunsTold'
<1>1. PICK reply \in Replies : slots' = [i \in DOMAIN reply |-> Slot(reply[i])]
  BY DEF ModelReplies
<1>2. DOMAIN slots' = DOMAIN reply
  BY <1>1
<1>3. ASSUME NEW i \in DOMAIN reply
      PROVE  \/ slots'[i].phase = "waiting"
             \/ slots'[i].phase = "done" /\ slots'[i].result.code = "invalid_arguments"
  BY <1>1 DEF Slot, Err
<1>4. UNCHANGED <<turn, history, turnMessages, executed, verdict>> /\ pc = "streaming" /\ pc' = "replied"
  BY DEF ModelReplies
<1>5. UNCHANGED Ran
  BY <1>4 DEF Ran
<1>6. \A i \in DOMAIN slots' : SlotTold(i)'
  BY <1>2, <1>3, <1>4 DEF SlotTold
<1>7. QED
  BY <1>4, <1>5, <1>6 DEF ReplyIInv, SameConversation, RunsTold, Over

\* When the reply is recorded its calls are open, and none was run before.
LEMMA ReplyRecordReply ==
  ASSUME ReplyIInv, RecordReply
  PROVE  SameConversation' /\ RunsTold'
<1> USE DEF ReplyIInv
<1>1. /\ pc = "replied" /\ pc' \in {"final", "cancelled", "dispatch"}
      /\ UNCHANGED <<turn, executed, verdict>>
  BY DEF RecordReply
<1>2. /\ history' = history \o <<AssistantMessage(BatchIds)>>
      /\ turnMessages' = turnMessages \o <<AssistantMessage(BatchIds)>>
      /\ Dangling(turnMessages') = BatchIds
      /\ Asked(turnMessages') = Asked(turnMessages) \cup BatchIds
  BY RecordReplyEffect
<1>3. /\ DOMAIN slots' = DOMAIN slots
      /\ \A i \in DOMAIN slots :
           /\ slots'[i].result = slots[i].result
           /\ \/ slots'[i].phase = slots[i].phase
              \/ IsRead(i) /\ slots'[i].phase = "hooks"
  BY RecordReplyEffect
<1>4. SameConversation'
  BY <1>1, <1>2 DEF SameConversation, Over
<1>5. UNCHANGED Ran /\ Ran \subseteq Asked(turnMessages)
  BY <1>1 DEF Ran, RunsTold
<1>6. BatchIds \cap Ran = {}
  BY <1>1, <1>5, BatchIdsNew
<1>7. ASSUME NEW i \in DOMAIN slots
      PROVE  SlotTold(i)'
  <2>1. CallId(i)' = CallId(i) /\ CallId(i) \in BatchIds
    BY <1>1 DEF CallId, BatchIds
  <2>2. \/ slots[i].phase = "waiting"
        \/ slots[i].phase = "done" /\ slots[i].result.code = "invalid_arguments"
    BY <1>1 DEF RunsTold, SlotTold
  <2>3. slots'[i].phase = "hooks" => pc' = "dispatch"
    <3>1. slots' = slots \/ pc' = "dispatch"
      BY DEF RecordReply
    <3>2. QED  BY <2>2, <3>1
  <2>4. "invalid_arguments" \notin HookErrors
    BY DEF HookErrors
  <2>5. QED
    BY <1>1, <1>2, <1>3, <1>5, <1>6, <2>1, <2>2, <2>3, <2>4 DEF SlotTold
<1>8. QED  BY <1>1, <1>2, <1>3, <1>4, <1>5, <1>6, <1>7 DEF RunsTold

\* The answers go to both conversations.
LEMMA ReplyBackfill ==
  ASSUME ReplyIInv, Backfill
  PROVE  SameConversation' /\ RunsTold'
<1> USE DEF ReplyIInv
<1>1. /\ pc = "observing" /\ pc' = "turn_end" /\ history = turnMessages
      /\ UNCHANGED <<turn, slots, executed>>
  BY DEF Backfill, SameConversation
<1>2. /\ Asked(turnMessages') = Asked(turnMessages)
      /\ history' = turnMessages'
  BY <1>1, BackfillEffect
<1>3. verdict' \in GuardReasons \cup {Continue}
  BY DEF Backfill, SameConversation, Over, CheckProgress, CheckTurn, Decided, Verdict, GuardReasons
<1>4. UNCHANGED Ran
  BY <1>1 DEF Ran
<1>5. \A i \in DOMAIN slots : SlotTold(i)'
  BY <1>1 DEF IInv, SlotsSound, SlotTold
<1>6. QED
  BY <1>1, <1>2, <1>3, <1>4, <1>5 DEF SameConversation, RunsTold

\* The clean-up opens no call and runs none.
LEMMA ReplyCleanUp ==
  ASSUME ReplyIInv, CancelUnwinds \/ ErrorCompletes
  PROVE  SameConversation' /\ RunsTold'
<1> USE DEF ReplyIInv
<1>1. /\ turnMessages' = PairDangling(turnMessages) /\ pc \in {"cancelled", "failed"}
      /\ UNCHANGED <<turn, slots, executed>>
      /\ \/ pc = "cancelled" /\ pc' = "cancelling" /\ UNCHANGED verdict
         \/ pc = "failed" /\ pc' = "ended" /\ verdict' = "error"
  BY DEF CancelUnwinds, ErrorCompletes
<1>2. Asked(turnMessages') = Asked(turnMessages)
  BY <1>1, CleanUpEffect
<1>3. SameConversation'
  BY <1>1 DEF SameConversation, Over
<1>4. UNCHANGED Ran
  BY <1>1 DEF Ran
<1>5. ASSUME NEW i \in DOMAIN slots
      PROVE  SlotTold(i)'
  <2>1. SlotTold(i) /\ CallId(i)' = CallId(i)
    BY <1>1 DEF RunsTold, CallId
  <2>2. QED  BY <1>1, <1>2, <1>4, <2>1 DEF SlotTold
<1>6. QED  BY <1>1, <1>2, <1>3, <1>4, <1>5 DEF RunsTold

\* What an abort leaves at work is still open.
LEMMA ReplyTaskAborted ==
  ASSUME ReplyIInv, TaskAborted
  PROVE  SameConversation' /\ RunsTold'
<1> USE DEF ReplyIInv
<1>1. /\ ~Over /\ pc' = "aborted" /\ UNCHANGED <<turn, history, turnMessages, executed, verdict>>
      /\ DOMAIN slots' = DOMAIN slots
      /\ \A i \in DOMAIN slots :
           slots'[i].phase \in {"hooks", "running"} => slots'[i] = slots[i]
  <2>1. /\ ~Over /\ pc' = "aborted"
        /\ UNCHANGED <<turn, history, turnMessages, executed, verdict>>
    BY DEF TaskAborted
  <2>2. CASE pc # "dispatch"
    BY <2>1, <2>2 DEF TaskAborted
  <2>3. CASE pc = "dispatch"
    <3> DEFINE dropped(i) == [slots[i] EXCEPT !.phase = "dropped"]
    <3>1. \A i \in DOMAIN slots : dropped(i).phase = "dropped"
      <4>1. \A i \in DOMAIN slots : slots[i] \in SlotType
        BY DEF IInv, TypeOK
      <4>2. QED  BY <4>1 DEF SlotType
    <3>2. slots' = [i \in DOMAIN slots |->
                      IF slots[i].phase = "done" THEN slots[i] ELSE dropped(i)]
      BY <2>3 DEF TaskAborted
    <3> HIDE DEF dropped
    <3>3. QED  BY <2>1, <3>1, <3>2
  <2>4. QED  BY <2>2, <2>3
<1>2. UNCHANGED Ran
  BY <1>1 DEF Ran
<1>3. ASSUME NEW i \in DOMAIN slots
      PROVE  SlotTold(i)'
  <2>1. SlotTold(i) /\ CallId(i)' = CallId(i)
    BY <1>1 DEF RunsTold, CallId
  <2>2. QED  BY <1>1, <1>2, <2>1 DEF SlotTold, Over
<1>4. QED  BY <1>1, <1>2, <1>3 DEF SameConversation, RunsTold, Over

\* Every action keeps what the refinement needs.
LEMMA ReplyNext ==
  ASSUME ReplyIInv, [Next]_vars
  PROVE  SameConversation' /\ RunsTold'
<1>1. CASE LoopSteps
  BY <1>1, ReplyControlSteps, ReplyRecordReply, ReplyBackfill, ReplyCleanUp DEF LoopSteps
<1>2. CASE ModelSteps
  BY <1>2, ReplyModelReplies, ReplyControlSteps DEF ModelSteps
<1>3. CASE \E i \in DOMAIN slots : CallSteps(i)
  BY <1>3, ReplyCallSteps
<1>4. CASE UserCancels
  BY <1>4, ReplyControlSteps
<1>5. CASE TaskAborted
  BY <1>5, ReplyTaskAborted
<1>6. CASE UNCHANGED vars
  <2>1. UNCHANGED <<pc, slots, history, turnMessages, executed, turn, verdict>>
    BY <1>6 DEF vars
  <2>2. ~Over' => verdict' \in GuardReasons \cup {Continue}
    BY <2>1 DEF ReplyIInv, SameConversation, Over
  <2>3. QED  BY <2>1, <2>2, ReplyControl
<1>7. QED  BY <1>1, <1>2, <1>3, <1>4, <1>5, <1>6 DEF Next

-----------------------------------------------------------------------------
(***************************************************************************)
(* AgentLoop implements ReplyContract                                      *)
(***************************************************************************)
\* The contract reads transcripts as the loop does.
LEMMA ContractOperators ==
  /\ \A m : Contract!Asked(m) = Asked(m)
  /\ \A m : Contract!Dangling(m) = Dangling(m)
  /\ \A m : Contract!WellFormed(m) <=> WellFormed(m)
  /\ \A ids : Contract!AssistantMessage(ids) = AssistantMessage(ids)
  /\ \A s, t : Contract!IsPrefix(s, t) <=> IsPrefix(s, t)
<1>1. \A m : Contract!Asked(m) = Asked(m) /\ Contract!Answered(m) = Answered(m)
  BY DEF Asked, Answered, Contract!Asked, Contract!Answered
<1>2. \A m : Contract!Dangling(m) = Dangling(m)
  BY <1>1 DEF Dangling, Contract!Dangling
<1>3. \A m, k : Contract!Before(m, k) = Before(m, k)
  BY DEF Before, Contract!Before
<1>4. \A m : Contract!WellFormed(m) <=> WellFormed(m)
  BY <1>2, <1>3 DEF WellFormed, Contract!WellFormed
<1>5. /\ \A ids : Contract!AssistantMessage(ids) = AssistantMessage(ids)
      /\ \A s, t : Contract!IsPrefix(s, t) <=> IsPrefix(s, t)
  BY DEF AssistantMessage, Contract!AssistantMessage, IsPrefix, Contract!IsPrefix
<1>6. QED  BY <1>1, <1>2, <1>4, <1>5

LEMMA ContractInit == Init => Contract!Init
BY DEF Init, Contract!Init, Ran, Outcome

\* What a sequence adds to the one it extends.
LEMMA Extension ==
  ASSUME NEW m \in Seq(Messages), NEW a \in Seq(Messages)
  PROVE  IsPrefix(m, m \o a) /\ SubSeq(m \o a, Len(m) + 1, Len(m \o a)) = a
<1>1. m \o a \in Seq(Messages) /\ Len(m \o a) = Len(m) + Len(a)
  OBVIOUS
<1>2. \A k \in 1..Len(m) : (m \o a)[k] = m[k]
  OBVIOUS
<1>3. IsPrefix(m, m \o a)
  BY <1>1, <1>2 DEF IsPrefix
<1>4. SubSeq(m \o a, Len(m) + 1, Len(m \o a)) = a
  BY <1>1
<1>5. QED  BY <1>3, <1>4

\* The loop's own steps move the outcome at most.
LEMMA ContractControl ==
  ASSUME ReplyIInv,
         \/ UserCancels \/ BeginTurn \/ PrepareReturns \/ StreamCancelled
         \/ StreamFails \/ DispatchReturns \/ ObserveResult \/ SpoolRaises \/ NextTurn
         \/ ModelReplies
  PROVE  UNCHANGED Contract!vars
<1>1. UNCHANGED <<history, turnMessages, executed>>
  BY DEF UserCancels, BeginTurn, PrepareReturns, StreamCancelled, StreamFails,
     DispatchReturns, ObserveResult, SpoolRaises, NextTurn, ModelReplies
<1>2. \/ pc' = pc /\ verdict' = verdict
      \/ pc \notin {"ended", "aborted", "cancelling"} /\ pc' \notin {"ended", "aborted", "cancelling"}
  BY DEF UserCancels, BeginTurn, PrepareReturns, StreamCancelled, StreamFails,
     DispatchReturns, ObserveResult, SpoolRaises, NextTurn, ModelReplies
<1>3. UNCHANGED Outcome
  BY <1>2 DEF Outcome
<1>4. QED  BY <1>1, <1>3 DEF Contract!vars, Ran

\* A run that was not interrupted ends with one conversation, nothing open.
LEMMA ContractEnds ==
  ASSUME ReplyIInv, FinalReply \/ StopOnVerdict
  PROVE  Contract!Ends
<1>1. pc \in {"final", "turn_end"} /\ pc' = "ended"
  BY DEF FinalReply, StopOnVerdict
<1>2. verdict' \in GuardReasons \cup {"end_turn"}
  BY DEF FinalReply, StopOnVerdict, ReplyIInv, SameConversation, Over
<1>3. Outcome = "running" /\ Outcome' \in GuardReasons \cup {"end_turn"}
  BY <1>1, <1>2 DEF Outcome
<1>4. Dangling(turnMessages) = {} /\ history = turnMessages
  BY <1>1 DEF ReplyIInv, IInv, TranscriptSound, SameConversation
<1>5. UNCHANGED <<history, turnMessages, executed>>
  BY DEF FinalReply, StopOnVerdict
<1>6. UNCHANGED Ran
  BY <1>5 DEF Ran
<1>7. QED
  BY <1>3, <1>4, <1>5, <1>6, ContractOperators DEF Contract!Ends, Contract!Open

LEMMA ContractCancelCompletes ==
  ASSUME CancelCompletes
  PROVE  Contract!IsCancelled
BY DEF CancelCompletes, Contract!IsCancelled, Outcome, Ran

LEMMA ContractAborts ==
  ASSUME ReplyIInv, TaskAborted
  PROVE  Contract!Aborts
BY DEF TaskAborted, Contract!Aborts, Outcome, Ran, Over

\* The reply asks for calls that are new while none is open.
LEMMA ContractAsks ==
  ASSUME ReplyIInv, RecordReply
  PROVE  Contract!Asks
<1> DEFINE said == AssistantMessage(BatchIds)
<1>1. IInv
  BY DEF ReplyIInv
<1>2. /\ pc = "replied" /\ <<said>> \in Seq(Messages)
      /\ history' = history \o <<said>> /\ turnMessages' = turnMessages \o <<said>>
      /\ Asked(turnMessages') = Asked(turnMessages) \cup BatchIds
  BY <1>1, RecordReplyEffect
<1>3. history \in Seq(Messages) /\ turnMessages \in Seq(Messages)
  BY <1>1 DEF IInv, TypeOK
<1>4. Asked(turnMessages') \ Asked(turnMessages) = BatchIds
  BY <1>1, <1>2, BatchIdsNew
<1> HIDE DEF said
<1>5. said \in Messages
  BY <1>2
<1>6. /\ Len(turnMessages') = Len(turnMessages) + 1
      /\ turnMessages'[Len(turnMessages')] = said
      /\ turnMessages' = Append(turnMessages, said) /\ history' = Append(history, said)
  BY <1>2, <1>3, <1>5
<1>7. Dangling(turnMessages) = {}
  BY <1>1, <1>2 DEF IInv, TranscriptSound
<1>8. Outcome = "running" /\ Outcome' = "running"
  BY DEF RecordReply, Outcome
<1>9. UNCHANGED Ran
  BY DEF RecordReply, Ran
<1>10. said = AssistantMessage(Asked(turnMessages') \ Asked(turnMessages))
  BY <1>4 DEF said
<1>11. QED
  BY <1>6, <1>7, <1>8, <1>9, <1>10, ContractOperators DEF Contract!Asks, Contract!Open

\* A tool is started for a call that was not run, and that is open unless the
\* run has failed and answered it in its stead.
LEMMA ContractCallSteps ==
  ASSUME ReplyIInv, NEW i \in DOMAIN slots, CallSteps(i)
  PROVE  Contract!Runs \/ UNCHANGED Contract!vars
<1>1. PICK ph \in Phases, res \in Results : CallMoves(i, ph, res)
  BY CallStepMoves
<1>2. UNCHANGED <<turn, history, turnMessages, verdict>>
  BY CallStepMoves
<1>3. UNCHANGED Outcome
  BY <1>1, <1>2 DEF CallMoves, Outcome
<1>4. CASE Ran' = Ran
  BY <1>2, <1>3, <1>4 DEF Contract!vars
<1>5. CASE slots[i].phase = "hooks" /\ Ran' = Ran \cup {CallId(i)}
  <2>1. /\ CallId(i) \in Asked(turnMessages) \ Ran
        /\ CallId(i) \in Dangling(turnMessages) \/ (pc = "ended" /\ verdict = "error")
    BY <1>5 DEF ReplyIInv, RunsTold, SlotTold
  <2>2. CallId(i) \in Dangling(turnMessages) \/ Outcome = "error"
    BY <2>1 DEF Outcome
  <2>3. Contract!Runs
    BY <1>2, <1>3, <1>5, <2>1, <2>2, ContractOperators DEF Contract!Runs, Contract!Open
  <2>4. QED  BY <2>3
<1>6. QED  BY <1>1, <1>4, <1>5 DEF CallMoves

\* The answers of a batch tell the truth about it.
LEMMA ContractAnswers ==
  ASSUME ReplyIInv, Backfill
  PROVE  Contract!Answers
<1>1. IInv
  BY DEF ReplyIInv
<1>2. PICK answers :
        /\ pc = "observing" /\ pc' = "turn_end"
        /\ history' = history \o answers /\ turnMessages' = turnMessages \o answers
        /\ answers \in Seq(Messages) /\ DOMAIN slots = 1..Len(answers)
        /\ \A k \in 1..Len(answers) :
             answers[k].call = CallId(k) /\ answers[k].code = slots[k].result.code
        /\ WellFormed(turnMessages') /\ Dangling(turnMessages') = {}
        /\ Asked(turnMessages') = Asked(turnMessages)
  BY <1>1, BackfillEffect
<1>3. turnMessages \in Seq(Messages)
  BY <1>1 DEF IInv, TypeOK
<1>4. IsPrefix(turnMessages, turnMessages') /\ Contract!Added = answers
  BY <1>2, <1>3, Extension DEF Contract!Added
<1>5. Contract!Settles
  BY <1>2, <1>4, ContractOperators DEF Contract!Settles
<1>6. \A k \in DOMAIN answers :
        /\ answers[k].code = "ok" => answers[k].call \in Ran
        /\ answers[k].code \in HookErrors => answers[k].call \notin Ran
  <2>1. \A k \in DOMAIN slots : slots[k].phase = "done" /\ SlotTold(k)
    BY <1>1, <1>2 DEF ReplyIInv, IInv, SlotsSound, RunsTold
  <2>2. DOMAIN answers = DOMAIN slots
    BY <1>2
  <2>3. QED  BY <1>2, <2>1, <2>2 DEF SlotTold
<1>7. Outcome = "running" /\ Outcome' = "running" /\ UNCHANGED Ran
  BY <1>2 DEF Backfill, Outcome, Ran
<1>8. QED  BY <1>2, <1>4, <1>5, <1>6, <1>7 DEF Contract!Answers

\* The made-up answers of an interrupted run say "cancelled", of calls that
\* were not run if it was cancelled.
LEMMA ContractUnwinds ==
  ASSUME ReplyIInv, CancelUnwinds \/ ErrorCompletes
  PROVE  Contract!Unwinds
<1>1. IInv
  BY DEF ReplyIInv
<1>2. /\ turnMessages' = PairDangling(turnMessages) /\ pc \in {"cancelled", "failed"}
      /\ UNCHANGED <<history, executed>>
      /\ \/ pc = "cancelled" /\ pc' = "cancelling"
         \/ pc = "failed" /\ pc' = "ended" /\ verdict' = "error"
  BY DEF CancelUnwinds, ErrorCompletes
<1>3. /\ turnMessages \in Seq(Messages) /\ WellFormed(turnMessages')
      /\ Dangling(turnMessages') = {} /\ Asked(turnMessages') = Asked(turnMessages)
  BY <1>1, <1>2, CleanUpEffect
<1>4. PICK a \in Seq(Messages) :
        /\ turnMessages' = turnMessages \o a
        /\ \A k \in 1..Len(a) : a[k].role = "tool" /\ a[k].code = "cancelled"
  BY <1>1, <1>2, CleanUpEffect
<1>5. IsPrefix(turnMessages, turnMessages') /\ Contract!Added = a
  BY <1>3, <1>4, Extension DEF Contract!Added
<1>6. Contract!Settles
  BY <1>3, <1>5, ContractOperators DEF Contract!Settles
<1>7. /\ Outcome = "running"
      /\ \/ Outcome' = "unwinding" /\ Dangling(turnMessages) \cap Ran = {}
         \/ Outcome' = "error"
  BY <1>2 DEF Outcome, ReplyIInv, RunsTold
<1>8. UNCHANGED Ran
  BY <1>2 DEF Ran
<1>9. QED
  BY <1>2, <1>4, <1>5, <1>6, <1>7, <1>8, ContractOperators DEF Contract!Unwinds, Contract!Open

LEMMA ContractNext ==
  ReplyIInv /\ [Next]_vars => [Contract!Next]_Contract!vars
<1> SUFFICES ASSUME ReplyIInv, [Next]_vars
             PROVE  Contract!Next \/ UNCHANGED Contract!vars
  OBVIOUS
<1>1. CASE LoopSteps
  BY <1>1, ContractControl, ContractEnds, ContractCancelCompletes, ContractAsks,
     ContractAnswers, ContractUnwinds DEF LoopSteps, Contract!Next
<1>2. CASE ModelSteps \/ UserCancels
  BY <1>2, ContractControl DEF ModelSteps
<1>3. CASE \E i \in DOMAIN slots : CallSteps(i)
  BY <1>3, ContractCallSteps DEF Contract!Next
<1>4. CASE TaskAborted
  BY <1>4, ContractAborts DEF Contract!Next
<1>5. CASE UNCHANGED vars
  BY <1>5 DEF vars, Contract!vars, Ran, Outcome
<1>6. QED  BY <1>1, <1>2, <1>3, <1>4, <1>5 DEF Next

-----------------------------------------------------------------------------
(***************************************************************************)
(* The count of steps                                                      *)
(***************************************************************************)
\* A smaller factor makes room for all that the other summand can be.
LEMMA Outweighs ==
  ASSUME NEW a \in Int, NEW b \in Nat, NEW k \in Nat, a < b
  PROVE  a * k + k <= b * k
<1>1. PICK d \in Nat : b = a + 1 + d
  <2>1. b - a - 1 \in Nat /\ b = a + 1 + (b - a - 1)
    OBVIOUS
  <2>2. QED  BY <2>1
<1>2. (a + 1 + d) * k = a * k + k + d * k
  OBVIOUS
<1>3. d * k \in Nat /\ a * k \in Int
  OBVIOUS
<1>4. QED  BY <1>1, <1>2, <1>3

\* The calls at some distance from their end are finitely many.
LEMMA CallsCounted ==
  ASSUME NEW s \in Seq(SlotType), Len(s) <= MaxCalls
  PROVE  /\ \A k : IsFiniteSet(AtLeast(s, k)) /\ Cardinality(AtLeast(s, k)) \in 0..MaxCalls
         /\ CallsLeft(s) \in 0..(3 * MaxCalls)
<1>1. Len(s) \in Nat /\ DOMAIN s = 1..Len(s) /\ MaxCalls \in Nat
  BY ToolsAssumption
<1>2. IsFiniteSet(1..Len(s)) /\ Cardinality(1..Len(s)) = Len(s)
  <2>1. \A n \in Nat : IsFiniteSet(1..n) /\ Cardinality(1..n) = n
    BY FS_Interval
  <2>2. QED  BY <1>1, <2>1
<1>3. ASSUME NEW k
      PROVE  IsFiniteSet(AtLeast(s, k)) /\ Cardinality(AtLeast(s, k)) \in 0..MaxCalls
  <2>1. AtLeast(s, k) \in SUBSET (1..Len(s))
    BY <1>1 DEF AtLeast
  <2>2. IsFiniteSet(AtLeast(s, k)) /\ Cardinality(AtLeast(s, k)) <= Len(s)
    BY <1>2, <2>1, FS_Subset
  <2>3. Cardinality(AtLeast(s, k)) \in Nat
    BY <2>2, FS_CardinalityType
  <2>4. QED  BY <1>1, <2>2, <2>3
<1>4. /\ Cardinality(AtLeast(s, 1)) \in 0..MaxCalls /\ Cardinality(AtLeast(s, 2)) \in 0..MaxCalls
      /\ Cardinality(AtLeast(s, 3)) \in 0..MaxCalls
  BY <1>3
<1>5. CallsLeft(s) \in 0..(3 * MaxCalls)
  BY <1>1, <1>4 DEF CallsLeft
<1>6. QED  BY <1>3, <1>5

\* No call is further from its end than it was.
LEMMA CallsGoOn ==
  ASSUME NEW s \in Seq(SlotType), NEW u \in Seq(SlotType), Len(s) <= MaxCalls, Len(u) = Len(s),
         \A i \in 1..Len(s) : StepsToGo(u[i]) <= StepsToGo(s[i])
  PROVE  /\ \A k \in 1..3 : AtLeast(u, k) \subseteq AtLeast(s, k)
         /\ \A k \in 1..3 : Cardinality(AtLeast(u, k)) <= Cardinality(AtLeast(s, k))
         /\ CallsLeft(u) <= CallsLeft(s)
<1>1. DOMAIN s = 1..Len(s) /\ DOMAIN u = 1..Len(s) /\ Len(u) <= MaxCalls
  OBVIOUS
<1>2. \A i \in 1..Len(s) : StepsToGo(u[i]) \in 0..3 /\ StepsToGo(s[i]) \in 0..3
  BY DEF StepsToGo
<1>3. ASSUME NEW k \in 1..3
      PROVE  /\ AtLeast(u, k) \subseteq AtLeast(s, k)
             /\ Cardinality(AtLeast(u, k)) <= Cardinality(AtLeast(s, k))
  <2>1. AtLeast(u, k) \subseteq AtLeast(s, k)
    BY <1>1, <1>2 DEF AtLeast
  <2>2. IsFiniteSet(AtLeast(s, k))
    BY CallsCounted
  <2>3. QED  BY <2>1, <2>2, FS_Subset
<1>4. \A k \in 1..3 : Cardinality(AtLeast(u, k)) \in Nat /\ Cardinality(AtLeast(s, k)) \in Nat
  BY <1>1, CallsCounted, ToolsAssumption
<1>5. CallsLeft(u) <= CallsLeft(s)
  BY <1>3, <1>4 DEF CallsLeft
<1>6. QED  BY <1>3, <1>5

\* A call that takes a step brings the batch nearer to its end.
LEMMA CallGoesOn ==
  ASSUME NEW s \in Seq(SlotType), NEW u \in Seq(SlotType), Len(s) <= MaxCalls, Len(u) = Len(s),
         NEW i \in 1..Len(s), StepsToGo(u[i]) < StepsToGo(s[i]),
         \A j \in 1..Len(s) : j # i => u[j] = s[j]
  PROVE  CallsLeft(u) < CallsLeft(s)
<1>1. StepsToGo(u[i]) \in 0..3 /\ StepsToGo(s[i]) \in 0..3
  BY DEF StepsToGo
<1>2. \A j \in 1..Len(s) : StepsToGo(u[j]) <= StepsToGo(s[j])
  <2>1. \A j \in 1..Len(s) : StepsToGo(s[j]) \in 0..3
    BY DEF StepsToGo
  <2>2. QED  BY <1>1, <2>1
<1>3. /\ \A k \in 1..3 : AtLeast(u, k) \subseteq AtLeast(s, k)
      /\ \A k \in 1..3 : Cardinality(AtLeast(u, k)) <= Cardinality(AtLeast(s, k))
  BY <1>2, CallsGoOn
<1>4. Len(u) <= MaxCalls /\ MaxCalls \in Nat
  BY ToolsAssumption
<1>5. \A k \in 1..3 : Cardinality(AtLeast(u, k)) \in Nat /\ Cardinality(AtLeast(s, k)) \in Nat
  BY <1>4, CallsCounted
<1> DEFINE m == StepsToGo(s[i])
<1>6. m \in 1..3
  BY <1>1
<1>7. i \in AtLeast(s, m) /\ i \notin AtLeast(u, m)
  BY <1>1 DEF AtLeast
<1> HIDE DEF m
<1>8. Cardinality(AtLeast(u, m)) < Cardinality(AtLeast(s, m))
  <2>1. IsFiniteSet(AtLeast(s, m)) /\ AtLeast(u, m) \in SUBSET AtLeast(s, m)
    BY <1>3, <1>6, CallsCounted
  <2>2. Cardinality(AtLeast(u, m)) # Cardinality(AtLeast(s, m))
    BY <1>7, <2>1, FS_Subset
  <2>3. QED  BY <1>3, <1>5, <1>6, <2>2
<1>9. QED
  BY <1>3, <1>5, <1>6, <1>8 DEF CallsLeft

LEMMA CountedInit == Init => StepsCounted
BY LimitsAssumption, ToolsAssumption DEF Init, StepsCounted

\* The run stays within its limits: a turn is followed by another only if the
\* guard has seen that there is one, and a reply has no more calls than allowed.
LEMMA CountedNext ==
  ASSUME ReplyIInv, StepsCounted, [Next]_vars
  PROVE  StepsCounted'
<1>1. slots \in Seq(SlotType) /\ turn \in Nat /\ cursor \in Nat
  BY DEF ReplyIInv, IInv, TypeOK
<1> DEFINE Kept == turn' = turn /\ Len(slots') = Len(slots)
<1>2. ASSUME Kept, cursor' = cursor, pc' \notin {"replied", "observing", "turn_end"},
             pc' = "dispatch" => pc \in {"dispatch", "replied"}
      PROVE  StepsCounted'
  BY <1>2 DEF StepsCounted
<1>3. CASE BeginTurn \/ PrepareReturns \/ StreamCancelled \/ FinalReply \/ StopOnVerdict
           \/ CancelUnwinds \/ CancelCompletes \/ ErrorCompletes \/ StreamFails \/ SpoolRaises
  BY <1>2, <1>3 DEF BeginTurn, PrepareReturns, StreamCancelled, FinalReply, StopOnVerdict,
     CancelUnwinds, CancelCompletes, ErrorCompletes, StreamFails, SpoolRaises
<1>4. CASE RecordReply
  <2>1. Len(ReadsScheduled) = Len(slots)
    BY <1>1 DEF ReadsScheduled
  <2>2. QED  BY <1>2, <1>4, <2>1 DEF RecordReply
<1>5. CASE DispatchReturns
  BY <1>5 DEF DispatchReturns, StepsCounted
<1>6. CASE ObserveResult
  <2>1. pc = "observing" /\ cursor < Len(slots) /\ cursor' = cursor + 1
        /\ UNCHANGED <<pc, turn, slots>>
    BY <1>6 DEF ObserveResult
  <2>2. QED  BY <1>1, <2>1 DEF StepsCounted
<1>7. CASE Backfill
  <2>1. pc' = "turn_end" /\ UNCHANGED <<turn, slots, cursor>>
    BY <1>7 DEF Backfill
  <2>2. verdict' = Continue => ~OutOfTurns(turn + 1)
    BY <1>7 DEF Backfill, CheckTurn, Decided, Verdict, Continue
  <2>3. QED  BY <1>1, <2>1, <2>2, LimitsAssumption DEF OutOfTurns, StepsCounted
<1>8. CASE NextTurn
  BY <1>1, <1>8 DEF NextTurn, StepsCounted
<1>9. CASE ModelReplies
  <2>1. PICK reply \in Replies : slots' = [i \in DOMAIN reply |-> Slot(reply[i])]
    BY <1>9 DEF ModelReplies
  <2>2. PICK n \in 0..MaxCalls : reply \in [1..n -> Calls]
    BY DEF Replies
  <2>3. Len(slots') = n /\ n \in Nat /\ n <= MaxCalls
    BY <2>1, <2>2, ToolsAssumption
  <2>4. cursor' = 0 /\ pc' = "replied" /\ turn' = turn
    BY <1>9 DEF ModelReplies
  <2>5. QED  BY <2>3, <2>4 DEF StepsCounted
<1>10. CASE \E i \in DOMAIN slots : CallSteps(i)
  <2>1. PICK i \in DOMAIN slots : CallSteps(i)
    BY <1>10
  <2>2. PICK ph \in Phases, res \in Results : CallMoves(i, ph, res)
    BY <2>1, CallStepMoves
  <2>3. Len(slots') = Len(slots)
    BY <1>1, <2>2, SlotMoved DEF CallMoves
  <2>4. UNCHANGED <<turn, cursor, verdict>>
    BY <2>1 DEF CallSteps, WriteBegins, RuleRejects, PlanOnlyBlocks, SecurityBlocks,
       ToolStarts, ToolReturns, CallRaises, loopVars
  <2>5. QED  BY <2>2, <2>3, <2>4 DEF CallMoves, StepsCounted
<1>11. CASE UserCancels
  BY <1>11 DEF UserCancels, StepsCounted
<1>12. CASE TaskAborted
  <2>1. Len(slots') = Len(slots)
    BY <1>1, <1>12 DEF TaskAborted
  <2>2. QED  BY <1>2, <1>12, <2>1 DEF TaskAborted
<1>13. CASE UNCHANGED vars
  BY <1>13 DEF vars, StepsCounted
<1>14. QED
  BY <1>3, <1>4, <1>5, <1>6, <1>7, <1>8, <1>9, <1>10, <1>11, <1>12, <1>13
  DEF Next, LoopSteps, ModelSteps

\* What is left of a turn is less than a turn.
LEMMA LoopLeftCounted ==
  ASSUME TypeOK, StepsCounted
  PROVE  StepsInTurn \in 0..(MaxCalls + 9) /\ LoopLeft \in Nat
<1>1. /\ MaxCalls \in Nat /\ MaxTurns \in Nat /\ turn \in Nat /\ turn < MaxTurns
      /\ Len(slots) \in Nat /\ Len(slots) <= MaxCalls /\ cursor \in Nat
      /\ pc = "observing" => cursor <= Len(slots)
  BY ToolsAssumption, LimitsAssumption DEF TypeOK, StepsCounted
<1>2. StepsInTurn \in 0..(MaxCalls + 9)
  BY <1>1 DEF StepsInTurn
<1>3. MaxTurns - 1 - turn \in Nat /\ MaxCalls + 10 \in Nat
  BY <1>1
<1>4. \A a, b \in Nat : a * b \in Nat
  OBVIOUS
<1>5. (MaxTurns - 1 - turn) * (MaxCalls + 10) \in Nat
  BY <1>3, <1>4
<1>6. QED  BY <1>1, <1>2, <1>5 DEF LoopLeft

LEMMA LoopLeftCountedNext ==
  (TypeOK /\ StepsCounted)' => (StepsInTurn \in 0..(MaxCalls + 9) /\ LoopLeft \in Nat)'
<1>1. TypeOK /\ StepsCounted => StepsInTurn \in 0..(MaxCalls + 9) /\ LoopLeft \in Nat
  BY LoopLeftCounted
<1>2. QED  BY <1>1, PTL

\* A step of the loop counts for more than anything the calls do.
LEMMA LoopStepCounts ==
  ASSUME TypeOK, StepsCounted, TypeOK', StepsCounted', LoopLeft' < LoopLeft, token' = token
  PROVE  StepsLeft' \in 0..(StepsLeft - 1)
<1> DEFINE k == 3 * MaxCalls + 1
<1>1. LoopLeft \in Nat /\ CallsLeft(slots) \in 0..(3 * MaxCalls)
  BY LoopLeftCounted, CallsCounted DEF TypeOK, StepsCounted
<1>2. LoopLeft' \in Nat
  BY LoopLeftCountedNext
<1>3. CallsLeft(slots') \in 0..(3 * MaxCalls)
  BY CallsCounted DEF TypeOK, StepsCounted
<1>4. MaxCalls \in Nat /\ k \in Nat
  BY ToolsAssumption
<1>5. LoopLeft' * k + k <= LoopLeft * k
  <2>1. \A a, b \in Nat : a < b => a * k + k <= b * k
    BY <1>4, Outweighs
  <2>2. QED  BY <1>1, <1>2, <2>1
<1>6. LoopLeft * k \in Nat /\ LoopLeft' * k \in Nat
  <2>1. \A a \in Nat : a * k \in Nat
    BY <1>4
  <2>2. QED  BY <1>1, <1>2, <2>1
<1> DEFINE p == LoopLeft * k
           q == LoopLeft' * k
           c == CallsLeft(slots)
           d == CallsLeft(slots')
           t == IF token THEN 0 ELSE 1
<1>7. /\ p \in Nat /\ q \in Nat /\ q + k <= p /\ k = 3 * MaxCalls + 1
      /\ c \in 0..(3 * MaxCalls) /\ d \in 0..(3 * MaxCalls) /\ t \in 0..1
  BY <1>1, <1>3, <1>5, <1>6
<1>8. StepsLeft = p + c + t /\ StepsLeft' = q + d + t
  BY DEF StepsLeft
<1> HIDE DEF p, q, c, d, t, k
<1>9. QED  BY <1>4, <1>7, <1>8

\* A step of a call counts if it leaves the loop where it is, or moves it on.
LEMMA CallStepCounts ==
  ASSUME TypeOK, StepsCounted, TypeOK', StepsCounted', LoopLeft' = LoopLeft, token' = token,
         CallsLeft(slots') < CallsLeft(slots)
  PROVE  StepsLeft' \in 0..(StepsLeft - 1)
<1> DEFINE k == 3 * MaxCalls + 1
           p == LoopLeft * k
           c == CallsLeft(slots)
           d == CallsLeft(slots')
           t == IF token THEN 0 ELSE 1
<1>1. LoopLeft \in Nat /\ c \in 0..(3 * MaxCalls)
  BY LoopLeftCounted, CallsCounted DEF TypeOK, StepsCounted
<1>2. d \in 0..(3 * MaxCalls)
  BY CallsCounted DEF TypeOK, StepsCounted
<1>3. MaxCalls \in Nat /\ p \in Nat
  BY <1>1, ToolsAssumption
<1>4. StepsLeft = p + c + t /\ StepsLeft' = p + d + t
  BY DEF StepsLeft
<1>5. t \in 0..1 /\ d < c
  OBVIOUS
<1> HIDE DEF p, c, d, t
<1>6. QED  BY <1>1, <1>2, <1>3, <1>4, <1>5

LEMMA CancelCounts ==
  ASSUME TypeOK, StepsCounted, UserCancels
  PROVE  StepsLeft' \in 0..(StepsLeft - 1)
<1> DEFINE k == 3 * MaxCalls + 1
           p == LoopLeft * k
           c == CallsLeft(slots)
<1>1. LoopLeft \in Nat /\ c \in 0..(3 * MaxCalls) /\ MaxCalls \in Nat
  BY LoopLeftCounted, CallsCounted, ToolsAssumption DEF TypeOK, StepsCounted
<1>2. p \in Nat
  BY <1>1
<1>3. /\ ~token /\ token' = TRUE
      /\ UNCHANGED <<pc, turn, slots, cursor>>
  BY DEF UserCancels, TypeOK
<1>4. UNCHANGED LoopLeft
  BY <1>3 DEF LoopLeft, StepsInTurn
<1>5. StepsLeft = p + c + 1 /\ StepsLeft' = p + c
  <2>1. StepsLeft = LoopLeft * k + CallsLeft(slots) + 1
    BY <1>3 DEF StepsLeft
  <2>2. StepsLeft' = LoopLeft * k + CallsLeft(slots)
    <3>1. StepsLeft' = LoopLeft' * k + CallsLeft(slots') + 0
      BY <1>3 DEF StepsLeft
    <3>2. QED  BY <1>1, <1>2, <1>3, <1>4, <3>1
  <2>3. QED  BY <2>1, <2>2
<1> HIDE DEF p, c
<1>6. QED  BY <1>1, <1>2, <1>5

\* A step of the loop moves on in the turn, or to the next turn.
LEMMA LoopMovesOn ==
  ASSUME TypeOK, StepsCounted, TypeOK', StepsCounted',
         LoopSteps \/ ModelSteps \/ TaskAborted
  PROVE  LoopLeft' < LoopLeft
<1>1. /\ MaxCalls \in Nat /\ MaxTurns \in Nat /\ turn \in Nat /\ turn < MaxTurns
      /\ Len(slots) \in Nat /\ Len(slots) <= MaxCalls /\ cursor \in Nat
      /\ Len(slots') \in Nat /\ Len(slots') <= MaxCalls
      /\ pc = "observing" => cursor <= Len(slots)
  BY ToolsAssumption, LimitsAssumption DEF TypeOK, StepsCounted
<1>2. ASSUME turn' = turn, StepsInTurn' < StepsInTurn
      PROVE  LoopLeft' < LoopLeft
  <2> DEFINE p == (MaxTurns - 1 - turn) * (MaxCalls + 10)
  <2>1. p \in Int
    BY <1>1
  <2>2. LoopLeft = p + StepsInTurn /\ LoopLeft' = p + StepsInTurn'
    BY <1>2 DEF LoopLeft
  <2>3. StepsInTurn \in Nat /\ StepsInTurn' \in Nat
    BY LoopLeftCounted, LoopLeftCountedNext, ToolsAssumption
  <2>4. \A a \in Int : \A x, y \in Nat : y < x => a + y < a + x
    OBVIOUS
  <2> HIDE DEF p
  <2>5. p + StepsInTurn' < p + StepsInTurn
    BY <1>2, <2>1, <2>3, <2>4
  <2>6. QED  BY <2>2, <2>5
<1>3. CASE BeginTurn \/ PrepareReturns \/ StreamCancelled \/ FinalReply \/ StopOnVerdict
           \/ CancelUnwinds \/ CancelCompletes \/ ErrorCompletes \/ SpoolRaises
  <2>1. turn' = turn /\ StepsInTurn' < StepsInTurn
    BY <1>1, <1>3 DEF BeginTurn, PrepareReturns, StreamCancelled, FinalReply, StopOnVerdict,
       CancelUnwinds, CancelCompletes, ErrorCompletes, SpoolRaises, StepsInTurn
  <2>2. QED  BY <1>2, <2>1
<1>4. CASE RecordReply \/ DispatchReturns \/ Backfill \/ ModelSteps
  <2>1. turn' = turn /\ StepsInTurn' < StepsInTurn
    BY <1>1, <1>4 DEF RecordReply, DispatchReturns, Backfill, ModelSteps, PrepareReturns, ModelReplies,
       StreamFails, StepsInTurn
  <2>2. QED  BY <1>2, <2>1
<1>5. CASE ObserveResult
  <2>1. /\ pc = "observing" /\ pc' = "observing" /\ cursor' = cursor + 1
        /\ UNCHANGED <<turn, slots>>
    BY <1>5 DEF ObserveResult
  <2>2. StepsInTurn' < StepsInTurn
    BY <1>1, <2>1 DEF StepsInTurn
  <2>3. QED  BY <1>2, <2>1, <2>2
<1>6. CASE TaskAborted
  <2>1. turn' = turn /\ pc' = "aborted" /\ pc \in PcStates \ {"ended", "aborted"}
    BY <1>6 DEF TaskAborted, Over, TypeOK
  <2>2. StepsInTurn' = 0
    BY <2>1 DEF StepsInTurn
  <2>3. StepsInTurn \in Nat
    BY LoopLeftCounted, ToolsAssumption
  <2>4. StepsInTurn # 0
    BY <1>1, <2>1 DEF PcStates, StepsInTurn
  <2>5. QED  BY <1>2, <2>1, <2>2, <2>3, <2>4
<1>7. CASE NextTurn
  <2>1. CASE turn' = turn
    <3>1. StepsInTurn' < StepsInTurn
      BY <1>1, <1>7, <2>1 DEF NextTurn, StepsInTurn
    <3>2. QED  BY <1>2, <2>1, <3>1
  <2>2. CASE turn' # turn
    <3> DEFINE a == MaxTurns - 1 - turn'
               b == MaxTurns - 1 - turn
               k == MaxCalls + 10
    <3>1. turn' = turn + 1 /\ pc = "turn_end" /\ pc' = "top"
      BY <1>7, <2>2 DEF NextTurn
    <3>2. a \in Int /\ b \in Nat /\ k \in Nat /\ a < b
      BY <1>1, <3>1
    <3>3. StepsInTurn = 3 /\ StepsInTurn' = MaxCalls + 9
      BY <3>1 DEF StepsInTurn
    <3>4. LoopLeft = b * k + 3 /\ LoopLeft' = a * k + (k - 1)
      BY <1>1, <3>3 DEF LoopLeft
    <3> HIDE DEF a, b, k
    <3>5. a * k + k <= b * k /\ a * k \in Int /\ b * k \in Int
      BY <3>2, Outweighs
    <3>6. QED  BY <3>2, <3>4, <3>5
  <2>3. QED  BY <2>1, <2>2
<1>8. QED
  BY <1>3, <1>4, <1>5, <1>6, <1>7 DEF LoopSteps

\* A call that takes a step moves on, and the loop stays or gives up with it.
LEMMA CallMovesOn ==
  ASSUME ReplyIInv, StepsCounted, TypeOK', StepsCounted', NEW i \in DOMAIN slots, CallSteps(i)
  PROVE  StepsLeft' \in 0..(StepsLeft - 1)
<1>1. PICK ph \in Phases, res \in Results : CallMoves(i, ph, res)
  BY CallStepMoves
<1>2. UNCHANGED <<turn, cursor, token>>
  BY DEF CallSteps, WriteBegins, RuleRejects, PlanOnlyBlocks, SecurityBlocks, ToolStarts,
     ToolReturns, CallRaises, loopVars
<1>3. TypeOK /\ slots \in Seq(SlotType) /\ Len(slots) <= MaxCalls
  BY DEF ReplyIInv, IInv, TypeOK, StepsCounted
<1>4. /\ slots' \in Seq(SlotType) /\ Len(slots') = Len(slots) /\ i \in 1..Len(slots)
      /\ slots'[i].phase = ph
      /\ \A j \in 1..Len(slots) : j # i => slots'[j] = slots[j]
  BY <1>1, <1>3, SlotMoved DEF CallMoves
<1>5. StepsToGo(slots'[i]) < StepsToGo(slots[i])
  BY <1>1, <1>4 DEF CallMoves, StepsToGo
<1>6. CallsLeft(slots') < CallsLeft(slots)
  <2>1. \A u \in Seq(SlotType) :
          Len(u) = Len(slots) /\ StepsToGo(u[i]) < StepsToGo(slots[i])
          /\ (\A j \in 1..Len(slots) : j # i => u[j] = slots[j])
          => CallsLeft(u) < CallsLeft(slots)
    BY <1>3, <1>4, CallGoesOn
  <2>2. QED  BY <1>4, <1>5, <2>1
<1>7. CASE pc' = pc
  <2>1. LoopLeft' = LoopLeft
    BY <1>2, <1>4, <1>7 DEF LoopLeft, StepsInTurn
  <2>2. QED  BY <1>2, <1>3, <1>6, <2>1, CallStepCounts
<1>8. CASE pc' # pc
  <2>1. pc = "dispatch" /\ pc' = "failed" /\ MaxCalls \in Nat
    BY <1>1, <1>8, ToolsAssumption DEF CallMoves
  <2>2. StepsInTurn = MaxCalls + 5 /\ StepsInTurn' = 1
    BY <2>1 DEF StepsInTurn
  <2>3. LoopLeft' < LoopLeft
    <3> DEFINE p == (MaxTurns - 1 - turn) * (MaxCalls + 10)
    <3>1. p \in Int
      BY <1>3, ToolsAssumption, LimitsAssumption DEF TypeOK
    <3>2. LoopLeft = p + (MaxCalls + 5) /\ LoopLeft' = p + 1
      BY <1>2, <2>2 DEF LoopLeft
    <3> HIDE DEF p
    <3>3. QED  BY <2>1, <3>1, <3>2
  <2>4. QED  BY <1>2, <1>3, <2>3, LoopStepCounts
<1>9. QED  BY <1>7, <1>8

\* Every step counts.
LEMMA EveryStepOnward ==
  ASSUME ReplyIInv, StepsCounted, TypeOK', StepsCounted', Next
  PROVE  StepsLeft' \in 0..(StepsLeft - 1)
<1>1. TypeOK
  BY DEF ReplyIInv, IInv
<1>2. CASE LoopSteps \/ ModelSteps \/ TaskAborted
  <2>1. token' = token
    BY <1>2 DEF LoopSteps, ModelSteps, TaskAborted, BeginTurn, PrepareReturns, StreamCancelled,
       RecordReply, FinalReply, DispatchReturns, ObserveResult, Backfill, StopOnVerdict,
       NextTurn, CancelUnwinds, CancelCompletes, ErrorCompletes, SpoolRaises, ModelReplies, StreamFails
  <2>2. LoopLeft' < LoopLeft
    BY <1>1, <1>2, LoopMovesOn
  <2>3. QED  BY <1>1, <2>1, <2>2, LoopStepCounts
<1>3. CASE \E i \in DOMAIN slots : CallSteps(i)
  BY <1>3, CallMovesOn
<1>4. CASE UserCancels
  BY <1>1, <1>4, CancelCounts
<1>5. QED  BY <1>2, <1>3, <1>4 DEF Next

-----------------------------------------------------------------------------
(***************************************************************************)
(* Theorems                                                                *)
(***************************************************************************)
\* The inductive invariant: the machine follows pc, the open calls of the
\* archived transcript are those of the batch at hand, and a write at work has
\* seen the reads and the earlier writes come back.
THEOREM Inductive == Spec => []IInv
<1>1. IInv /\ [Next]_vars => IInv'
  BY IInvNext
<1>2. QED  BY IInvInit, <1>1, PTL DEF Spec

\* Every variable keeps its type; LoopStateMachine.transition never raises.
THEOREM TypeCorrect == Spec => []TypeOK
<1>1. IInv => TypeOK
  BY DEF IInv
<1>2. QED  BY Inductive, <1>1, PTL

\* Whatever the number of turns, calls and tools, and wherever the run is
\* cancelled or fails, the messages it returns for the archive are a
\* well-formed transcript with every call answered.
THEOREM TranscriptsPaired == Spec => []ArchivePaired
<1>1. IInv => ArchivePaired
  BY DEF IInv, TranscriptSound, ArchivePaired
<1>2. QED  BY Inductive, <1>1, PTL

\* A write tool never runs beside another call of its batch, nor after the
\* run has given the batch up.
THEOREM WritersAlone == Spec => []WriterAlone
<1>1. IInv => WriterAlone
  <2>1. SUFFICES ASSUME IInv, NEW i \in DOMAIN slots, NEW j \in DOMAIN slots,
                        IsWrite(i), Active(i)
                 PROVE  pc = "dispatch" /\ (Active(j) => i = j)
    BY DEF WriterAlone
  <2>2. pc = "dispatch" /\ ReadsDone /\ WritesBefore(i)
    BY <2>1 DEF IInv, WriterWaited
  <2>3. ASSUME Active(j)
        PROVE  i = j
    <3>1. i \in Nat /\ j \in Nat /\ i >= 1 /\ j >= 1 /\ slots[j] \in SlotType
      BY <2>1 DEF IInv, TypeOK
    <3>2. slots[j].phase # "done"
      BY <2>3 DEF Active
    <3>3. slots[j].json
      BY <2>1, <3>2 DEF IInv, SlotsSound
    <3>4. ~IsRead(j)
      BY <2>2, <3>2 DEF ReadsDone
    <3>5. IsWrite(j)
      BY <3>1, <3>3, <3>4 DEF IsRead, IsWrite, SlotType, Tools
    <3>6. WritesBefore(j)
      BY <2>1, <2>3, <3>5 DEF IInv, WriterWaited
    <3>7. ~(j < i) /\ ~(i < j)
      BY <2>1, <2>2, <3>1, <3>2, <3>5, <3>6 DEF WritesBefore, Active
    <3>8. QED  BY <3>1, <3>7
  <2>4. QED  BY <2>2, <2>3
<1>2. QED  BY Inductive, <1>1, PTL

\* Under plan-only no write tool is ever executed, and every write that the
\* plan-only check answered is in the report.
THEOREM PlanOnlySafe == Spec => []PlanOnlyHarmless
<1>1. IInv => PlanOnlyHarmless
  BY DEF IInv
<1>2. QED  BY Inductive, <1>1, PTL

\* The stronger invariant behind the refinement.
THEOREM ReplyInductive == Spec => []ReplyIInv
<1>1. Init => ReplyIInv
  BY IInvInit, ReplyInit DEF ReplyIInv
<1>2. ReplyIInv /\ [Next]_vars => ReplyIInv'
  BY IInvNext, ReplyNext DEF ReplyIInv
<1>3. QED  BY <1>1, <1>2, PTL DEF Spec

\* Every run of AgentLoop._run, whatever the model asks for and wherever it is
\* cancelled, fails or is aborted, is the dialogue of ReplyContract: a tool
\* runs once and for an open call, every answer tells the truth about it, and
\* the session and the archive are left the same conversation unless the run
\* was interrupted.
THEOREM ImplementsReply == Spec => IsReply
<1>1. QED
  BY ReplyInductive, ContractInit, ContractNext, PTL DEF Spec, IsReply, Contract!Spec

\* The run keeps within its turns and its calls.
THEOREM StepsInductive == Spec => [](ReplyIInv /\ StepsCounted)
<1>1. Init => StepsCounted
  BY CountedInit
<1>2. ReplyIInv /\ StepsCounted /\ [Next]_vars => StepsCounted'
  BY CountedNext
<1>3. QED  BY <1>1, <1>2, ReplyInductive, PTL DEF Spec

\* However many turns and calls there may be, and whatever the model, the tools, the
\* user and the host do: every step of a run brings its end nearer, so that a run
\* has at most as many steps as StepsLeft says when it begins.
THEOREM EveryStepCounts == Spec => NoStepInVain
<1>1. (ReplyIInv /\ StepsCounted) /\ (ReplyIInv /\ StepsCounted)' /\ [Next]_vars
      => [StepsLeft' \in 0..(StepsLeft - 1)]_vars
  BY EveryStepOnward DEF ReplyIInv, IInv
<1>2. QED  BY <1>1, StepsInductive, PTL DEF Spec, NoStepInVain
=============================================================================
