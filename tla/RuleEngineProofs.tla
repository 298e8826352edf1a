-------------------------- MODULE RuleEngineProofs --------------------------
(***************************************************************************)
(* Proofs about RuleEngine, for all actors, contexts and lists of rules,   *)
(* and any number of reloads.                                              *)
(***************************************************************************)
EXTENDS RulePrompts, ListProofs

-----------------------------------------------------------------------------
(***************************************************************************)
(* Scripts and lists                                                       *)
(***************************************************************************)
LEMMA Scripts ==
  ASSUME NEW a \in Actors
  PROVE  /\ Before(a) \in Nat \ {0} /\ Len(Script(a)) \in Nat
         /\ Before(a) <= Len(Script(a))
         /\ a # App => Before(a) < Len(Script(a))
         /\ \A s \in 1..Len(Script(a)) : Script(a)[s] \in Events
<1>1. CASE a \in Tools
  <2>1. Script(a) = <<"pre_tool_use", "post_tool_use">> /\ Before(a) = 1
    BY <1>1, EngineAssumption DEF Before, Script
  <2> QED BY <2>1 DEF Events
<1>2. CASE a \in Loops
  <2>1. /\ Script(a) = <<"turn_start", "pre_message", "post_message", "turn_end">>
        /\ Before(a) = 2
    BY <1>2, EngineAssumption DEF Before, Script
  <2> QED BY <2>1 DEF Events
<1>3. CASE a = App
  <2>1. Script(a) = <<"session_end", "system_exit">> /\ Before(a) = 2
    BY <1>3, EngineAssumption DEF Before, Script
  <2> QED BY <1>3, <2>1 DEF Events
<1> QED BY <1>1, <1>2, <1>3 DEF Actors

LEMMA ToolScript ==
  ASSUME NEW a \in Tools
  PROVE  /\ Before(a) = 1 /\ Len(Script(a)) = 2
         /\ Script(a)[1] = "pre_tool_use"
         /\ a \in Actors /\ a \notin Loops /\ a # App
  BY EngineAssumption DEF Actors, Before, Script

\* What the assumption on load_rules says of a rule.
LEMMA RulesAccepted ==
  ASSUME NEW list \in RuleLists
  PROVE  /\ list \in Seq(Rules) /\ Len(list) \in Nat
         /\ \A k \in 1..Len(list) : list[k] \in Rules /\ Accepted(list[k])
  BY EngineAssumption

-----------------------------------------------------------------------------
(***************************************************************************)
(* Once                                                                    *)
(***************************************************************************)
\* In one stretch at most one once rule of an id fires, and none that is done.
LEMMA FiresOnce ==
  ASSUME NEW list \in RuleLists, NEW from \in Nat \ {0}, NEW event, NEW context,
         NEW fires \in SUBSET (from..Len(list)),
         \A k \in fires : Fires(list, from, k, event, context),
         NEW i
  PROVE  /\ Cardinality(OnceNamed(list, fires, i)) =
              IF i \in FiredOnce(list, fires) THEN 1 ELSE 0
         /\ i \in FiredOnce(list, fires) => i \notin done
<1> DEFINE S == OnceNamed(list, fires, i)
<1>1. i \in FiredOnce(list, fires) <=> S # {}
  BY DEF FiredOnce, OnceNamed
<1>2. \A j, k \in S : ~(j < k)
  <2>1. SUFFICES ASSUME NEW j \in S, NEW k \in S, j < k  PROVE FALSE
    OBVIOUS
  <2>2. j \in from..(k - 1) /\ j \in fires /\ k \in fires
    BY <2>1, RulesAccepted DEF OnceNamed
  <2>3. list[j].once /\ list[k].once /\ list[j].id = list[k].id
    BY DEF OnceNamed
  <2>4. Matches(list, j, event, context)
    BY <2>2 DEF Fires
  <2> QED BY <2>2, <2>3, <2>4 DEF Fires
<1>3. S \subseteq Nat
  <2>1. fires \subseteq Nat
    BY RulesAccepted
  <2> QED BY <2>1 DEF OnceNamed
<1>4. i \in FiredOnce(list, fires) => i \notin done
  BY DEF FiredOnce, Fires
<1>5. Cardinality(S) = IF S = {} THEN 0 ELSE 1
  <2>1. ASSUME NEW k \in S  PROVE S = {k}
    BY <1>2, <1>3
  <2> HIDE DEF S
  <2>2. CASE S = {}
    BY <2>2, FS_EmptySet
  <2>3. CASE S # {}
    <3>1. PICK k \in S : S = {k}
      BY <2>1, <2>3
    <3>2. Cardinality({k}) = 1
      BY FS_Singleton
    <3> QED BY <2>3, <3>1, <3>2
  <2> QED BY <2>2, <2>3
<1> QED BY <1>1, <1>4, <1>5

\* A once rule that matches and was passed without firing was fired before, or
\* fires in this stretch.
LEMMA PassedIsDone ==
  ASSUME NEW list \in RuleLists, NEW from \in Nat \ {0}, NEW event, NEW context,
         NEW k \in from..Len(list),
         Matches(list, k, event, context), list[k].once,
         list[k].id \notin done
  PROVE  \E j \in from..k : /\ Fires(list, from, j, event, context)
                            /\ list[j].once /\ list[j].id = list[k].id
<1> DEFINE S == {j \in from..k : /\ Matches(list, j, event, context)
                                 /\ list[j].once /\ list[j].id = list[k].id}
<1>1. S \subseteq Nat /\ k \in S
  BY RulesAccepted
<1>2. PICK j \in S : \A m \in S : j <= m
  BY <1>1, LeastMember
<1>3. \A m \in from..(j - 1) : m \notin S
  BY <1>1, <1>2
<1>4. \A m \in from..(j - 1) :
        ~(Matches(list, m, event, context) /\ list[m].once /\ list[m].id = list[j].id)
  BY <1>1, <1>2, <1>3
<1> QED BY <1>2, <1>4 DEF Fires

-----------------------------------------------------------------------------
(***************************************************************************)
(* The steps                                                               *)
(***************************************************************************)
LEMMA IInvInit == Init => IInv
<1> SUFFICES ASSUME Init  PROVE IInv
  OBVIOUS
<1>1. ASSUME NEW a \in Actors
      PROVE  /\ actors[a].phase = "waiting" /\ actors[a].step = 1
             /\ actors[a].step \in 1..(Len(Script(a)) + 1)
  <2>1. actors[a] = Waiting
    BY DEF Init
  <2>2. Waiting.phase = "waiting" /\ Waiting.step = 1
    BY DEF Waiting
  <2>3. Len(Script(a)) \in Nat
    BY Scripts
  <2> QED BY <2>1, <2>2, <2>3
<1>2. TypeOK
  <2>2. /\ rules \in RuleLists /\ done \subseteq Ids /\ reloads \in 0..MaxReloads
        /\ fired \in [Ids -> Nat] /\ awaited \subseteq Actors \X Events \X Nat
        /\ \A t \in DOMAIN background : background[t] \in Nat \ {0}
    BY EngineAssumption DEF Init
  <2>3. Waiting \in Emitters
    BY DEF Waiting, Emitters, Phases
  <2>4. actors \in [Actors -> Emitters]
    BY <2>3 DEF Init
  <2> QED BY <1>1, <2>2, <2>4 DEF TypeOK
<1>3. StepsSound /\ Vetted /\ RejectedNeverRuns
  <2>2. \A a \in Tools : a \in Actors
    BY DEF Actors
  <2> QED BY <1>1, <2>2 DEF StepsSound, Vetted, RejectedNeverRuns
<1>4. BackgroundSound /\ Counted
  BY EngineAssumption DEF Init, BackgroundSound, Counted
<1> QED BY <1>2, <1>3, <1>4 DEF IInv

\* A rule that is excused stays so while its id is only counted up.
LEMMA ExcusedStays ==
  ASSUME TypeOK, NEW b \in Tools, NEW n \in Nat, n <= Len(actors[b].list),
         actors'[b].list = actors[b].list, actors'[b].context = actors[b].context,
         fired \in [Ids -> Nat], fired' \in [Ids -> Nat],
         \A i \in Ids : fired'[i] >= fired[i],
         \A k \in Rejecting(b, n) : Excused(b, k)
  PROVE  \A k \in Rejecting(b, n)' : Excused(b, k)'
<1> SUFFICES ASSUME NEW k \in 1..n, actors[b].list[k].reject,
                    Matches(actors[b].list, k, "pre_tool_use", actors[b].context)
             PROVE  Excused(b, k)'
  BY DEF Rejecting, Matches
<1>1. actors[b].list[k].once /\ fired[actors[b].list[k].id] > 0
  BY DEF Rejecting, Excused
<1>2. actors[b] \in Emitters
  BY DEF TypeOK, Actors
<1>3. actors[b].list \in RuleLists
  <2>1. actors[b].list # <<>>
    BY DEF TypeOK
  <2> QED BY <1>2, <2>1 DEF Emitters
<1>4. actors[b].list[k] \in Rules
  BY <1>3, RulesAccepted
<1>5. actors[b].list[k].id \in Ids
  BY <1>4 DEF Rules
<1> QED BY <1>1, <1>5 DEF Excused

\* A step that leaves the lists, contexts, positions of the tools and what was
\* fired alone leaves the verdicts alone.
LEMMA VerdictsStay ==
  ASSUME IInv, NEW b \in Tools,
         actors'[b].list = actors[b].list, actors'[b].context = actors[b].context,
         fired' \in [Ids -> Nat], \A i \in Ids : fired'[i] >= fired[i]
  PROVE  /\ actors[b].phase = "acting" /\ actors[b].step = 1 /\ actors'[b].at = actors[b].at =>
              \A k \in Rejecting(b, actors[b].at)' : Excused(b, k)'
         /\ actors[b].phase = "body" =>
              \A k \in Rejecting(b, Len(actors[b].list))' : Excused(b, k)'
<1>0. b \in Actors /\ actors[b] \in Emitters /\ fired \in [Ids -> Nat]
  BY DEF IInv, TypeOK, Actors
<1>1. ASSUME actors[b].phase = "acting", actors[b].step = 1, actors'[b].at = actors[b].at
      PROVE  \A k \in Rejecting(b, actors[b].at)' : Excused(b, k)'
  <2>1. PICK n \in Nat : n = actors[b].at /\ n <= Len(actors[b].list)
    BY <1>0, <1>1 DEF IInv, TypeOK
  <2>2. \A k \in Rejecting(b, n) : Excused(b, k)
    BY <1>1, <2>1 DEF IInv, Vetted
  <2>3. \A k \in Rejecting(b, n)' : Excused(b, k)'
    BY <1>0, <2>1, <2>2, ExcusedStays DEF IInv
  <2> QED BY <1>1, <2>1, <2>3 DEF Rejecting
<1>2. ASSUME actors[b].phase = "body"
      PROVE  \A k \in Rejecting(b, Len(actors[b].list))' : Excused(b, k)'
  <2>0. actors[b].list \in RuleLists \cup {<<>>}
    BY <1>0 DEF Emitters
  <2>1. PICK n \in Nat : n = Len(actors[b].list)
    BY <2>0, RulesAccepted
  <2>2. \A k \in Rejecting(b, n) : Excused(b, k)
    BY <1>2, <2>1 DEF IInv, RejectedNeverRuns
  <2>3. \A k \in Rejecting(b, n)' : Excused(b, k)'
    BY <1>0, <2>1, <2>2, ExcusedStays DEF IInv
  <2> QED BY <2>1, <2>3 DEF Rejecting
<1> QED BY <1>1, <1>2

\* What the loop of emit leaves behind, when it goes on from a position up to
\* which no rule rejected the call.
LEMMA IterateSound ==
  ASSUME IInv, NEW a \in Actors, NEW list \in RuleLists, NEW from \in 1..(Len(list) + 1),
         actors[a].phase \in {"ready", "acting"},
         Iterate(a, list, from), UNCHANGED <<rules, awaited, reloads>>,
         a \in Tools /\ actors[a].step = 1 =>
           \A k \in 1..(from - 1) :
             list[k].reject /\ Matches(list, k, "pre_tool_use", actors[a].context) =>
               list[k].once /\ fired[list[k].id] > 0
  PROVE  IInv'
<1> DEFINE s == actors[a].step
           event == Script(a)[s]
           context == actors[a].context
           Here(k) == Fires(list, from, k, event, context)
           passed(stop) == {k \in from..(stop - 1) : Here(k)}
           stops(stop) == stop <= Len(list)
           fires(stop) == passed(stop) \cup (IF stops(stop) THEN {stop} ELSE {})
<1>0. /\ Len(list) \in Nat /\ \A k \in 1..Len(list) : list[k] \in Rules /\ Accepted(list[k])
      /\ s \in 1..Len(Script(a)) /\ event \in Events
  BY RulesAccepted, Scripts DEF IInv, TypeOK, StepsSound
<1>1. PICK stop \in from..(Len(list) + 1) :
        /\ \A k \in passed(stop) : list[k].async
        /\ stops(stop) => Here(stop) /\ ~list[stop].async
        /\ done' = Mark(list, fires(stop))
        /\ fired' = [i \in Ids |-> fired[i] + Cardinality(OnceNamed(list, fires(stop), i))]
        /\ background' = [t \in DOMAIN background \cup {<<a, event, k>> : k \in passed(stop)} |->
                            IF t \in DOMAIN background THEN background[t] ELSE list[t[3]].actions]
        /\ actors' = [actors EXCEPT ![a] =
             IF ~stops(stop) THEN [@ EXCEPT !.phase = PhaseAfter(a, s), !.list = list, !.step = s + 1]
             ELSE IF list[stop].reject THEN [@ EXCEPT !.phase = "rejected", !.list = list]
             ELSE [@ EXCEPT !.phase = "acting", !.list = list,
                            !.at = stop, !.left = list[stop].actions]]
  BY DEF Iterate
<1>2. /\ passed(stop) \subseteq from..Len(list) /\ fires(stop) \in SUBSET (from..Len(list))
      /\ \A k \in fires(stop) : Here(k)
  BY <1>0, <1>1
<1>3. \A k \in passed(stop) : /\ k \in 1..Len(list) /\ list[k].event = event
                              /\ event # "pre_tool_use" /\ list[k].actions \in Nat \ {0}
  <2> SUFFICES ASSUME NEW k \in passed(stop)
               PROVE  /\ k \in 1..Len(list) /\ list[k].event = event
                      /\ event # "pre_tool_use" /\ list[k].actions \in Nat \ {0}
    OBVIOUS
  <2>1. k \in 1..Len(list)
    BY <1>0, <1>2
  <2>2. list[k].async
    BY <1>1
  <2>3. list[k].event = event
    BY DEF Fires, Matches
  <2>4. list[k] \in Rules /\ Accepted(list[k])
    BY <1>0, <2>1
  <2> QED BY <2>1, <2>2, <2>3, <2>4 DEF Accepted, Rules
<1>4. ASSUME NEW i \in Ids
      PROVE  /\ fired'[i] = fired[i] + (IF i \in FiredOnce(list, fires(stop)) THEN 1 ELSE 0)
             /\ i \in FiredOnce(list, fires(stop)) => i \notin done
  <2>1. \A k \in fires(stop) : Fires(list, from, k, event, context)
    BY <1>2
  <2>2. from \in Nat \ {0}
    BY <1>0
  <2>3. fires(stop) \in SUBSET (from..Len(list))
    BY <1>2
  <2>4. fired'[i] = fired[i] + Cardinality(OnceNamed(list, fires(stop), i))
    BY <1>1
  <2> HIDE DEF fires, Here, event, context
  <2>5. /\ Cardinality(OnceNamed(list, fires(stop), i)) =
             IF i \in FiredOnce(list, fires(stop)) THEN 1 ELSE 0
        /\ i \in FiredOnce(list, fires(stop)) => i \notin done
    BY <2>1, <2>2, <2>3, FiresOnce
  <2> QED BY <2>4, <2>5
<1>5. FiredOnce(list, fires(stop)) \subseteq Ids
  BY <1>0, <1>2 DEF FiredOnce, Rules
<1>6. /\ fired \in [Ids -> Nat] /\ fired' \in [Ids -> Nat] /\ done' \subseteq Ids
      /\ \A i \in Ids : fired'[i] >= fired[i]
      /\ reloads \in Nat /\ Counted'
  <2>1. /\ fired \in [Ids -> Nat] /\ done \subseteq Ids /\ reloads \in Nat /\ reloads' = reloads
        /\ done' = done \cup FiredOnce(list, fires(stop))
    BY <1>1, EngineAssumption DEF IInv, TypeOK, Mark
  <2>2. fired' \in [Ids -> Nat]
    <3>1. ASSUME NEW i \in Ids  PROVE fired'[i] \in Nat
      <4> HIDE DEF fires
      <4> QED BY <1>4, <2>1
    <3>2. fired' = [i \in Ids |-> fired'[i]]
      BY <1>1
    <3> QED BY <3>1, <3>2
  <2>3. ASSUME NEW i \in Ids  PROVE fired'[i] >= fired[i]
    <3> HIDE DEF fires
    <3> QED BY <1>4, <2>1
  <2>4. Counted'
    <3> SUFFICES ASSUME NEW i \in Ids
                 PROVE  /\ i \in done' => fired'[i] \in 1..(reloads + 1)
                        /\ i \notin done' => fired'[i] <= reloads
      BY <2>1 DEF Counted
    <3>1. CASE i \in FiredOnce(list, fires(stop))
      BY <1>4, <2>1, <3>1 DEF IInv, Counted
    <3>2. CASE i \notin FiredOnce(list, fires(stop))
      BY <1>4, <2>1, <3>2 DEF IInv, Counted
    <3> QED BY <3>1, <3>2
  <2> QED BY <1>5, <2>1, <2>2, <2>3, <2>4
<1>7. /\ BackgroundSound'
      /\ \A t \in DOMAIN background' : background'[t] \in Nat \ {0}
  <2>1. \A t \in DOMAIN background' :
          \/ t \in DOMAIN background /\ background'[t] = background[t]
          \/ \E k \in passed(stop) : t = <<a, event, k>> /\ background'[t] = list[k].actions
    BY <1>1
  <2>2. ASSUME NEW t \in DOMAIN background'
        PROVE  t \in Actors \X Events \X Nat /\ background'[t] \in Nat \ {0}
    <3>1. CASE t \in DOMAIN background /\ background'[t] = background[t]
      BY <3>1 DEF IInv, TypeOK, BackgroundSound
    <3>2. CASE \E k \in passed(stop) : t = <<a, event, k>> /\ background'[t] = list[k].actions
      <4>1. PICK k \in passed(stop) : t = <<a, event, k>> /\ background'[t] = list[k].actions
        BY <3>2
      <4>2. k \in Nat /\ list[k].actions \in Nat \ {0}
        BY <1>0, <1>3
      <4> HIDE DEF passed, event
      <4> QED BY <1>0, <4>1, <4>2
    <3> QED BY <2>1, <3>1, <3>2
  <2> QED BY <2>2 DEF BackgroundSound
<1>8. actors \in [Actors -> Emitters] /\ actors[a] \in Emitters
  BY DEF IInv, TypeOK
<1>9. stop \in Nat /\ s \in 1..Len(Script(a)) /\ s + 1 \in Nat
  BY <1>0, Scripts
<1>10. /\ actors'[a] \in Emitters
       /\ actors'[a].list = list /\ actors'[a].context = context
       /\ \/ actors'[a].phase = "rejected" /\ actors'[a].step = s
          \/ /\ actors'[a].phase = "acting" /\ actors'[a].step = s
             /\ actors'[a].at = stop /\ stop \in 1..Len(list) /\ ~list[stop].reject
          \/ /\ actors'[a].phase = PhaseAfter(a, s) /\ actors'[a].step = s + 1
             /\ stop = Len(list) + 1
  <2>1. CASE ~stops(stop)
    <3>1. actors'[a] = [actors[a] EXCEPT !.phase = PhaseAfter(a, s), !.list = list, !.step = s + 1]
      BY <1>1, <1>8, <2>1
    <3>2. PhaseAfter(a, s) \in Phases
      BY DEF PhaseAfter, Phases
    <3>3. stop = Len(list) + 1
      BY <1>0, <2>1
    <3>4. list \in RuleLists \cup {<<>>}
      OBVIOUS
    <3> HIDE DEF s
    <3>5. /\ actors'[a] \in Emitters
          /\ actors'[a].list = list /\ actors'[a].context = context
          /\ actors'[a].phase = PhaseAfter(a, s) /\ actors'[a].step = s + 1
      BY <1>8, <1>9, <3>1, <3>2, <3>4 DEF Emitters
    <3> QED BY <3>3, <3>5
  <2>2. CASE stops(stop) /\ list[stop].reject
    <3>1. actors'[a] = [actors[a] EXCEPT !.phase = "rejected", !.list = list]
      BY <1>1, <1>8, <2>2
    <3> QED BY <1>0, <1>8, <1>9, <3>1 DEF Emitters, Phases
  <2>3. CASE stops(stop) /\ ~list[stop].reject
    <3>1. actors'[a] = [actors[a] EXCEPT !.phase = "acting", !.list = list,
                                         !.at = stop, !.left = list[stop].actions]
      BY <1>1, <1>8, <2>3
    <3>2. stop \in 1..Len(list) /\ list[stop].actions \in Nat
      BY <1>0, <1>9, <2>3 DEF Rules
    <3> QED BY <1>0, <1>8, <1>9, <2>3, <3>1, <3>2 DEF Emitters, Phases
  <2> QED BY <2>1, <2>2, <2>3
<1>11. \A b \in Actors \ {a} : actors'[b] = actors[b]
  BY <1>1, <1>8
<1>12. actors' \in [Actors -> Emitters]
  BY <1>1, <1>8, <1>10, <1>11
<1>13. TypeOK' /\ StepsSound'
  <2>1. ASSUME NEW b \in Actors
        PROVE  /\ actors'[b].step \in 1..(Len(Script(b)) + 1)
               /\ actors'[b].phase = "acting" =>
                    actors'[b].at \in 1..Len(actors'[b].list) /\ actors'[b].list \in RuleLists
               /\ actors'[b].phase = "waiting" => actors'[b].step = 1
               /\ actors'[b].phase \in {"ready", "acting"} => actors'[b].step <= Len(Script(b))
               /\ actors'[b].phase = "body" => actors'[b].step = Before(b) + 1
    <3>1. CASE b # a
      BY <1>11, <3>1 DEF IInv, TypeOK, StepsSound
    <3>2. CASE b = a
      <4>1. CASE actors'[a].phase = "rejected" /\ actors'[a].step = s
        BY <1>9, <1>10, <3>2, <4>1, Scripts
      <4>2. CASE /\ actors'[a].phase = "acting" /\ actors'[a].step = s
                 /\ actors'[a].at = stop /\ stop \in 1..Len(list)
        BY <1>9, <1>10, <3>2, <4>2, Scripts
      <4>3. CASE actors'[a].phase = PhaseAfter(a, s) /\ actors'[a].step = s + 1
        BY <1>9, <3>2, <4>3, Scripts DEF PhaseAfter
      <4> QED BY <1>10, <4>1, <4>2, <4>3
    <3> QED BY <3>1, <3>2
  <2>2. rules' \in RuleLists /\ reloads' \in 0..MaxReloads
        /\ awaited' \subseteq Actors \X Events \X Nat
    BY DEF IInv, TypeOK
  <2> QED BY <1>6, <1>7, <1>12, <2>1, <2>2 DEF TypeOK, StepsSound
\* Of the rules it has passed none rejects the call, save those that are done.
<1>14. ASSUME a \in Tools, s = 1, NEW k \in 1..(stop - 1),
              list[k].reject, Matches(list, k, "pre_tool_use", context)
       PROVE  list[k].once /\ fired'[list[k].id] > 0
  <2>1. event = "pre_tool_use" /\ k \in 1..Len(list) /\ list[k] \in Rules /\ list[k].id \in Ids
    BY <1>0, <1>9, <1>14, ToolScript DEF Rules
  <2>2. CASE k < from
    BY <1>6, <1>14, <2>1, <2>2
  <2>3. CASE k >= from
    <3>1. passed(stop) = {}
      BY <1>3, <2>1
    <3>2. \A j \in from..k : ~Fires(list, from, j, event, context)
      BY <1>9, <3>1
    <3>3. list[k].once
      BY <1>14, <2>1, <2>3, <3>2 DEF Fires
    <3>4. list[k].id \in done
      BY <1>14, <2>1, <2>3, <3>2, <3>3, PassedIsDone
    <3>5. fired[list[k].id] >= 1
      BY <1>6, <2>1, <3>4 DEF IInv, Counted
    <3> QED BY <1>6, <2>1, <3>3, <3>5
  <2> QED BY <1>9, <2>2, <2>3
<1>15. Vetted'
  <2> SUFFICES ASSUME NEW b \in Tools, actors'[b].phase = "acting", actors'[b].step = 1
               PROVE  \A k \in Rejecting(b, actors[b].at)' : Excused(b, k)'
    BY DEF Vetted
  <2>1. CASE b # a
    <3>1. actors'[b] = actors[b]
      BY <1>11, <2>1, ToolScript
    <3> QED BY <1>6, <3>1, VerdictsStay
  <2>2. CASE b = a
    <3>1. /\ actors'[a].at = stop /\ ~list[stop].reject /\ s = 1
          /\ actors'[a].list = list /\ actors'[a].context = context
      BY <1>9, <1>10, <2>2 DEF PhaseAfter
    <3> SUFFICES ASSUME NEW k \in 1..stop, list[k].reject,
                        Matches(list, k, "pre_tool_use", context)
                 PROVE  list[k].once /\ fired'[list[k].id] > 0
      BY <2>2, <3>1 DEF Rejecting, Excused, Matches
    <3>2. k \in 1..(stop - 1)
      BY <1>9, <3>1
    <3> QED BY <1>14, <2>2, <3>1, <3>2
  <2> QED BY <2>1, <2>2
<1>16. RejectedNeverRuns'
  <2> SUFFICES ASSUME NEW b \in Tools, actors'[b].phase = "body"
               PROVE  \A k \in Rejecting(b, Len(actors[b].list))' : Excused(b, k)'
    BY DEF RejectedNeverRuns
  <2>1. CASE b # a
    <3>1. actors'[b] = actors[b]
      BY <1>11, <2>1, ToolScript
    <3> QED BY <1>6, <3>1, VerdictsStay
  <2>2. CASE b = a
    <3>1. /\ stop = Len(list) + 1 /\ s = 1
          /\ actors'[a].list = list /\ actors'[a].context = context
      BY <1>10, <2>2, ToolScript DEF PhaseAfter
    <3> SUFFICES ASSUME NEW k \in 1..Len(list), list[k].reject,
                        Matches(list, k, "pre_tool_use", context)
                 PROVE  list[k].once /\ fired'[list[k].id] > 0
      BY <2>2, <3>1 DEF Rejecting, Excused, Matches
    <3>2. k \in 1..(stop - 1)
      BY <1>0, <3>1
    <3> QED BY <1>14, <2>2, <3>1, <3>2
  <2> QED BY <2>1, <2>2
<1> QED BY <1>6, <1>7, <1>13, <1>15, <1>16 DEF IInv

\* A step of one actor between its emits, or between two actions of a rule.
LEMMA QuietSound ==
  ASSUME IInv, NEW a \in Actors, NEW e \in Emitters,
         actors' = [actors EXCEPT ![a] = e],
         e.list = actors[a].list, e.step = actors[a].step,
         e.phase \notin {"waiting", "body"},
         e.phase = "ready" => e.step <= Len(Script(a)),
         e.phase = "acting" => /\ actors[a].phase = "acting"
                               /\ e.at = actors[a].at /\ e.context = actors[a].context,
         UNCHANGED <<rules, done, reloads, fired>>,
         BackgroundSound', \A t \in DOMAIN background' : background'[t] \in Nat \ {0},
         awaited' \subseteq Actors \X Events \X Nat
  PROVE  IInv'
<1>1. /\ actors \in [Actors -> Emitters] /\ actors'[a] = e
      /\ \A b \in Actors \ {a} : actors'[b] = actors[b]
      /\ actors' \in [Actors -> Emitters]
  BY DEF IInv, TypeOK
<1>2. TypeOK' /\ StepsSound'
  BY <1>1 DEF IInv, TypeOK, StepsSound
<1>3. Counted' /\ fired' \in [Ids -> Nat] /\ \A i \in Ids : fired'[i] >= fired[i]
  BY DEF IInv, TypeOK, Counted
<1>4. Vetted'
  <2> SUFFICES ASSUME NEW b \in Tools, actors'[b].phase = "acting", actors'[b].step = 1
               PROVE  \A k \in Rejecting(b, actors[b].at)' : Excused(b, k)'
    BY DEF Vetted
  <2>1. /\ actors[b].phase = "acting" /\ actors[b].step = 1 /\ actors'[b].at = actors[b].at
        /\ actors'[b].list = actors[b].list /\ actors'[b].context = actors[b].context
    BY <1>1, ToolScript
  <2> QED BY <1>3, <2>1, VerdictsStay
<1>5. RejectedNeverRuns'
  <2> SUFFICES ASSUME NEW b \in Tools, actors'[b].phase = "body"
               PROVE  \A k \in Rejecting(b, Len(actors[b].list))' : Excused(b, k)'
    BY DEF RejectedNeverRuns
  <2>1. /\ actors[b].phase = "body"
        /\ actors'[b].list = actors[b].list /\ actors'[b].context = actors[b].context
    BY <1>1, ToolScript
  <2> QED BY <1>3, <2>1, VerdictsStay
<1> QED BY <1>2, <1>3, <1>4, <1>5 DEF IInv

\* A step that leaves the actors and what they wait for alone.
LEMMA EnvironmentSound ==
  ASSUME IInv, UNCHANGED <<actors, awaited, fired>>,
         rules' \in RuleLists, done' \subseteq Ids, reloads' \in 0..MaxReloads, Counted',
         BackgroundSound', \A t \in DOMAIN background' : background'[t] \in Nat \ {0}
  PROVE  IInv'
<1>1. TypeOK' /\ StepsSound'
  BY DEF IInv, TypeOK, StepsSound
<1>2. fired' \in [Ids -> Nat] /\ \A i \in Ids : fired'[i] >= fired[i]
  BY DEF IInv, TypeOK
<1>3. Vetted' /\ RejectedNeverRuns'
  BY <1>2, VerdictsStay DEF Vetted, RejectedNeverRuns
<1> QED BY <1>1, <1>3 DEF IInv

\* A step that only takes an actor to another phase.
LEMMA PhaseSound ==
  ASSUME IInv, NEW a \in Actors, NEW phase \in Phases \ {"waiting", "acting", "body"},
         actors' = [actors EXCEPT ![a].phase = phase],
         phase = "ready" => actors[a].step <= Len(Script(a)),
         UNCHANGED <<rules, done, reloads, fired>>,
         BackgroundSound', \A t \in DOMAIN background' : background'[t] \in Nat \ {0},
         awaited' \subseteq Actors \X Events \X Nat
  PROVE  IInv'
<1> DEFINE e == [actors[a] EXCEPT !.phase = phase]
<1>0. actors \in [Actors -> Emitters]
  BY DEF IInv, TypeOK
<1>1. e \in Emitters /\ actors' = [actors EXCEPT ![a] = e]
  BY <1>0 DEF Emitters
<1>2. e.list = actors[a].list /\ e.step = actors[a].step /\ e.phase = phase
  BY <1>0 DEF Emitters
<1> HIDE DEF e
<1> QED BY <1>1, <1>2, QuietSound

LEMMA IInvNext == IInv /\ [Next]_vars => IInv'
<1> SUFFICES ASSUME IInv, [Next]_vars  PROVE IInv'
  OBVIOUS
<1>0. /\ actors \in [Actors -> Emitters] /\ MaxReloads \in Nat /\ reloads \in 0..MaxReloads
      /\ {"ready", "cancelled", "draining", "done"} \subseteq Phases \ {"waiting", "acting", "body"}
  BY EngineAssumption DEF IInv, TypeOK, Phases
<1>1. ASSUME NEW a \in Actors, Begin(a)  PROVE IInv'
  <2>1. PICK context \in ContextOf[a] :
          actors' = [actors EXCEPT ![a].phase = "ready", ![a].context = context]
    BY <1>1 DEF Begin
  <2> DEFINE e == [actors[a] EXCEPT !.phase = "ready", !.context = context]
  <2>2. context \in Contexts
    BY <2>1, EngineAssumption
  <2>3. e \in Emitters /\ actors' = [actors EXCEPT ![a] = e]
    BY <1>0, <2>1, <2>2 DEF Emitters
  <2>4. e.list = actors[a].list /\ e.step = actors[a].step /\ e.phase = "ready"
    BY <1>0 DEF Emitters
  <2>5. actors[a].step <= Len(Script(a))
    <3>1. actors[a].step = 1
      BY <1>1 DEF Begin, IInv, StepsSound
    <3> QED BY <3>1, Scripts
  <2> HIDE DEF e
  <2> QED BY <1>1, <2>3, <2>4, <2>5, QuietSound DEF Begin, IInv, TypeOK, BackgroundSound
<1>2. ASSUME NEW a \in Actors, Emit(a)  PROVE IInv'
  <2>1. rules \in RuleLists
    BY DEF IInv, TypeOK
  <2>2. 1 \in 1..(Len(rules) + 1) /\ \A k \in 1..(1 - 1) : FALSE
    BY <2>1, RulesAccepted
  <2> QED BY <1>2, <2>1, <2>2, IterateSound DEF Emit
<1>3. ASSUME NEW a \in Actors, ActionEnds(a)  PROVE IInv'
  <2>1. CASE actors[a].left > 1 /\ actors' = [actors EXCEPT ![a].left = @ - 1]
             /\ UNCHANGED <<done, background, fired>>
    <3> DEFINE e == [actors[a] EXCEPT !.left = @ - 1]
    <3>1. e \in Emitters /\ actors' = [actors EXCEPT ![a] = e]
      <4>0. actors[a] \in Emitters /\ actors[a].left \in Nat
        BY <1>0 DEF Emitters
      <4>1. actors[a].left - 1 \in Nat /\ actors[a] \in Emitters
        BY <2>1, <4>0
      <4>2. e \in Emitters
        BY <4>1 DEF Emitters
      <4> QED BY <1>0, <2>1, <4>2
    <3>2. /\ e.list = actors[a].list /\ e.step = actors[a].step /\ e.phase = "acting"
          /\ actors[a].phase = "acting" /\ e.at = actors[a].at /\ e.context = actors[a].context
      BY <1>0, <1>3 DEF ActionEnds, Emitters
    <3> HIDE DEF e
    <3> QED BY <1>3, <2>1, <3>1, <3>2, QuietSound DEF ActionEnds, IInv, TypeOK, BackgroundSound
  <2>2. CASE actors[a].left = 1 /\ Iterate(a, ListHeld(a), actors[a].at + 1)
    <3>1. /\ actors[a].phase = "acting" /\ ListHeld(a) \in RuleLists
          /\ actors[a].at \in 1..Len(ListHeld(a))
      BY <1>3 DEF ActionEnds, ListHeld, IInv, TypeOK, StepsSound
    <3>2. actors[a].at + 1 \in 1..(Len(ListHeld(a)) + 1) /\ actors[a].at = (actors[a].at + 1) - 1
      BY <3>1, RulesAccepted
    <3>3. a \in Tools /\ actors[a].step = 1 =>
            \A k \in 1..actors[a].at :
              ListHeld(a)[k].reject /\ Matches(ListHeld(a), k, "pre_tool_use", actors[a].context) =>
                ListHeld(a)[k].once /\ fired[ListHeld(a)[k].id] > 0
      BY <3>1 DEF IInv, Vetted, Rejecting, Excused, ListHeld
    <3> QED BY <1>3, <2>2, <3>1, <3>2, <3>3, IterateSound DEF ActionEnds
  <2> QED BY <1>3, <2>1, <2>2 DEF ActionEnds
<1>4. /\ BackgroundSound /\ \A t \in DOMAIN background : background[t] \in Nat \ {0}
      /\ awaited \subseteq Actors \X Events \X Nat
  BY DEF IInv, TypeOK
<1>5. ASSUME NEW a \in Actors, BodyEnds(a)  PROVE IInv'
  <2>1. actors[a].step <= Len(Script(a))
    BY <1>5, Scripts DEF BodyEnds, IInv, StepsSound
  <2>2. /\ actors' = [actors EXCEPT ![a].phase = "ready"]
        /\ UNCHANGED <<rules, done, background, awaited, reloads, fired>>
    BY <1>5 DEF BodyEnds
  <2>3. BackgroundSound' /\ \A t \in DOMAIN background' : background'[t] \in Nat \ {0}
    BY <1>4, <2>2 DEF BackgroundSound
  <2> QED BY <1>0, <1>4, <2>1, <2>2, <2>3, PhaseSound
<1>6. ASSUME NEW a \in Actors, Cancel(a)  PROVE IInv'
  <2>1. /\ \/ actors' = [actors EXCEPT ![a].phase = "cancelled"]
           \/ actors' = [actors EXCEPT ![a].phase = "ready"] /\ actors[a].phase = "body" /\ a # App
        /\ UNCHANGED <<rules, done, background, awaited, reloads, fired>>
    BY <1>6 DEF Cancel
  <2>2. actors[a].phase = "body" /\ a # App => actors[a].step <= Len(Script(a))
    BY Scripts DEF IInv, StepsSound
  <2>3. BackgroundSound' /\ \A t \in DOMAIN background' : background'[t] \in Nat \ {0}
    BY <1>4, <2>1 DEF BackgroundSound
  <2>4. CASE actors' = [actors EXCEPT ![a].phase = "cancelled"]
    BY <1>0, <1>4, <2>1, <2>3, <2>4, PhaseSound
  <2>5. CASE /\ actors' = [actors EXCEPT ![a].phase = "ready"]
             /\ actors[a].phase = "body" /\ a # App
    BY <1>0, <1>4, <2>1, <2>2, <2>3, <2>5, PhaseSound
  <2> QED BY <2>1, <2>4, <2>5
<1>7. ASSUME NEW a \in Actors, Blocked(a)  PROVE IInv'
  <2>1. /\ actors' = [actors EXCEPT ![a].phase = "done"]
        /\ UNCHANGED <<rules, done, background, awaited, reloads, fired>>
    BY <1>7 DEF Blocked
  <2>2. BackgroundSound' /\ \A t \in DOMAIN background' : background'[t] \in Nat \ {0}
    BY <1>4, <2>1 DEF BackgroundSound
  <2> QED BY <1>0, <1>4, <2>1, <2>2, PhaseSound
<1>8. App \in Actors
  BY DEF Actors
<1>9. CASE DrainBegins
  <2>1. /\ actors' = [actors EXCEPT ![App].phase = "draining"]
        /\ awaited' = DOMAIN background /\ UNCHANGED <<rules, done, background, reloads, fired>>
    BY <1>9 DEF DrainBegins
  <2>2. /\ BackgroundSound' /\ \A t \in DOMAIN background' : background'[t] \in Nat \ {0}
        /\ awaited' \subseteq Actors \X Events \X Nat
    BY <1>4, <2>1 DEF BackgroundSound
  <2> QED BY <1>0, <1>8, <2>1, <2>2, PhaseSound
<1>10. CASE DrainEnds
  <2>1. /\ actors' = [actors EXCEPT ![App].phase = "done"]
        /\ UNCHANGED <<rules, done, background, awaited, reloads, fired>>
    BY <1>10 DEF DrainEnds
  <2>2. BackgroundSound' /\ \A t \in DOMAIN background' : background'[t] \in Nat \ {0}
    BY <1>4, <2>1 DEF BackgroundSound
  <2> QED BY <1>0, <1>4, <1>8, <2>1, <2>2, PhaseSound
<1>11. CASE DrainTimesOut
  <2>1. BackgroundSound' /\ \A t \in DOMAIN background' : background'[t] \in Nat \ {0}
    BY <1>4, <1>11 DEF DrainTimesOut, BackgroundSound
  <2>2. /\ actors' = [actors EXCEPT ![App].phase = "done"]
        /\ UNCHANGED <<rules, done, awaited, reloads, fired>>
    BY <1>11 DEF DrainTimesOut
  <2> QED BY <1>0, <1>4, <1>8, <2>1, <2>2, PhaseSound
<1>12. ASSUME NEW t \in DOMAIN background, BackgroundActs(t)  PROVE IInv'
  <2>1. BackgroundSound' /\ \A u \in DOMAIN background' : background'[u] \in Nat \ {0}
    BY <1>4, <1>12 DEF BackgroundActs, BackgroundSound
  <2>2. /\ rules' \in RuleLists /\ done' \subseteq Ids /\ reloads' \in 0..MaxReloads /\ Counted'
        /\ UNCHANGED <<actors, awaited, fired>>
    BY <1>12 DEF BackgroundActs, IInv, TypeOK, Counted
  <2> QED BY <2>1, <2>2, EnvironmentSound
<1>13. CASE Reload
  <2>1. /\ rules' \in RuleLists /\ done' = {} /\ reloads' \in 0..MaxReloads /\ reloads' = reloads + 1
        /\ UNCHANGED <<actors, awaited, fired, background>>
    BY <1>0, <1>13 DEF Reload
  <2>2. Counted'
    <3> SUFFICES ASSUME NEW i \in Ids  PROVE fired[i] <= reloads + 1
      BY <2>1 DEF Counted
    <3>1. fired[i] \in Nat
      BY DEF IInv, TypeOK
    <3> QED BY <1>0, <3>1 DEF IInv, Counted
  <2> QED BY <1>4, <2>1, <2>2, EnvironmentSound DEF BackgroundSound
<1>14. CASE UNCHANGED vars
  BY <1>4, <1>14, EnvironmentSound DEF vars, IInv, TypeOK, Counted, BackgroundSound
<1> QED
  BY <1>1, <1>2, <1>3, <1>5, <1>6, <1>7, <1>9, <1>10, <1>11, <1>12, <1>13, <1>14 DEF Next, Step

-----------------------------------------------------------------------------
(***************************************************************************)
(* The theorems                                                            *)
(***************************************************************************)
\* The invariant behind the theorems below: where every actor is in its script,
\* how often an id was fired, and what a waiting emit has passed.
THEOREM Inductive == Spec => []IInv
<1>1. QED  BY IInvInit, IInvNext, PTL DEF Spec

\* Every variable keeps its type, and an emit that waits is at a rule of the
\* list it holds, whatever /rules reload has loaded meanwhile.
THEOREM TypeCorrect == Spec => []TypeOK
<1>1. IInv => TypeOK
  BY DEF IInv
<1> QED BY <1>1, Inductive, PTL

\* A once rule is fired at most once per load, as it is marked before its
\* actions are waited for (engine.py:84) and not after.
THEOREM FiredOncePerLoad == Spec => []OncePerLoad
<1>1. IInv => OncePerLoad
  <2> SUFFICES ASSUME IInv, NEW i \in Ids  PROVE fired[i] <= reloads + 1
    BY DEF OncePerLoad
  <2>1. fired[i] \in Nat /\ reloads \in Nat
    BY EngineAssumption DEF IInv, TypeOK
  <2> QED BY <2>1 DEF IInv, Counted
<1> QED BY <1>1, Inductive, PTL

\* A call that a rule rejects is not run (dispatch.py:148), whatever rules come
\* before it, how long their actions take and what is reloaded meanwhile.
THEOREM RejectedCallsDoNotRun == Spec => []RejectedNeverRuns
<1>1. IInv => RejectedNeverRuns
  BY DEF IInv
<1> QED BY <1>1, Inductive, PTL

-----------------------------------------------------------------------------
(***************************************************************************)
(* One reply over the engine: RulePrompts                                  *)
(***************************************************************************)
\* Messages there are, and the kinds of them.
Known ==
  {Message(k) : k \in Kinds} \cup {SkillText(n) : n \in UNION {Range(list) : list \in ActiveLists}}
    \cup {Prompt(i) : i \in PromptRules} \cup UNION {Range(s) : s \in Sessions}
Of(kinds) == {m \in Known : m.is \in kinds}
TheQuestion == Message("question")
Instructing == Of(SystemKinds)
Earlier == Of(UserKinds \cup Spoken) \ {TheQuestion}
Saying == {Message("answer"), Message("result")}
Stable == {Message("stable"), Message("environment"), Message("instructions")}

LEMMA KindsApart ==
  /\ SystemKinds \cap (UserKinds \cup Spoken) = {} /\ Kinds = SystemKinds \cup UserKinds \cup Spoken
  /\ \A k : Message(k).is = k /\ SkillText(k).is = "skill" /\ Prompt(k).is = "prompt"
  /\ \A k, l : Message(k) = Message(l) => k = l
BY DEF SystemKinds, UserKinds, Spoken, Kinds, Message, SkillText, Prompt

LEMMA KnownKinds ==
  /\ \A m \in Known : m.is \in Kinds
  /\ \A m \in Known : IsSystem(m) <=> m \in Instructing
  /\ \A m \in Known : m \in Instructing \/ m \in Earlier \/ m = TheQuestion
  /\ Instructing \cap Earlier = {} /\ TheQuestion \notin Instructing /\ TheQuestion \notin Earlier
  /\ Saying \subseteq Earlier /\ Stable \subseteq Instructing /\ TheQuestion \in Known
  /\ Instructing \subseteq Known /\ Earlier \subseteq Known /\ Saying \subseteq Known
  /\ \A k \in Kinds : Message(k) \in Known
  /\ Message("plan") \in Instructing
<1>1. ASSUME NEW m \in Known  PROVE m.is \in Kinds
  <2>1. CASE \E k \in Kinds : m = Message(k)
    BY <2>1, KindsApart
  <2>2. CASE \E n : m = SkillText(n)
    BY <2>2, KindsApart DEF SystemKinds
  <2>3. CASE \E n : m = Prompt(n)
    BY <2>3, KindsApart DEF SystemKinds
  <2>4. CASE \E s \in Sessions : m \in Range(s)
    <3>1. PICK s \in Sessions : m \in Range(s)
      BY <2>4
    <3>2. PICK k \in DOMAIN s : m = s[k]
      BY <3>1 DEF Range
    <3>3. m.is \in {"gap"} \cup UserKinds \cup Spoken
      BY <3>2, PromptAssumption DEF Resumable
    <3>4. "gap" \in SystemKinds
      BY DEF SystemKinds
    <3>5. QED  BY <3>3, <3>4, KindsApart
  <2>5. QED  BY <2>1, <2>2, <2>3, <2>4 DEF Known
<1>2. \A m \in Known : IsSystem(m) <=> m \in Instructing
  BY DEF IsSystem, Instructing, Of
<1>3. \A m \in Known : m \in Instructing \/ m \in Earlier \/ m = TheQuestion
  BY <1>1, KindsApart DEF Instructing, Earlier, Of
<1>4. \A k \in Kinds : Message(k) \in Known
  BY DEF Known
<1>5. /\ {"answer", "result", "question"} \subseteq Spoken
      /\ {"stable", "environment", "instructions", "plan"} \subseteq SystemKinds
  BY DEF Spoken, SystemKinds
<1>6. Instructing \cap Earlier = {}
  BY KindsApart DEF Instructing, Earlier, Of
<1>7. TheQuestion \notin Instructing /\ TheQuestion \notin Earlier /\ TheQuestion \in Known
  BY <1>4, <1>5, KindsApart DEF Instructing, Earlier, TheQuestion, Of
<1>8. Saying \subseteq Earlier
  <2>1. \A k \in {"answer", "result"} : Message(k) \in Known /\ Message(k).is \in Spoken /\ Message(k) # TheQuestion
    BY <1>4, <1>5, KindsApart DEF TheQuestion
  <2>2. QED  BY <2>1 DEF Saying, Earlier, Of
<1>9. Stable \subseteq Instructing /\ Message("plan") \in Instructing
  <2>1. \A k \in {"stable", "environment", "instructions", "plan"} : Message(k) \in Known /\ Message(k).is \in SystemKinds
    BY <1>4, <1>5, KindsApart
  <2>2. QED  BY <2>1 DEF Stable, Instructing, Of
<1>10. Instructing \subseteq Known /\ Earlier \subseteq Known /\ Saying \subseteq Known
  BY <1>8 DEF Instructing, Earlier, Of
<1>11. QED  BY <1>1, <1>2, <1>3, <1>4, <1>6, <1>7, <1>8, <1>9, <1>10

LEMMA InKnown ==
  ASSUME NEW S \in SUBSET Known, NEW s \in Seq(S)
  PROVE  s \in Seq(Known)
OBVIOUS

\* Only takes the messages of some kinds.
LEMMA OnlyIs ==
  ASSUME NEW h \in Seq(Known), NEW kinds
  PROVE  Only(h, kinds) = Among(h, Of(kinds))
<1>1. DOMAIN h = 1..Len(h) /\ \A k \in 1..Len(h) : h[k] \in Known
  OBVIOUS
<1>2. {k \in DOMAIN h : h[k].is \in kinds} = {k \in 1..Len(h) : h[k] \in Of(kinds)}
  BY <1>1 DEF Of
<1>3. QED  BY <1>2 DEF Only, Among

\* How often a message is in a list.
LEMMA CountIs ==
  ASSUME NEW h \in Seq(Known), NEW m
  PROVE  Cardinality({k \in DOMAIN h : h[k] = m}) = Len(Among(h, {m}))
<1>1. DOMAIN h = 1..Len(h)
  OBVIOUS
<1>2. {k \in DOMAIN h : h[k] = m} = {k \in 1..Len(h) : h[k] \in {m}}
  BY <1>1
<1>3. Len(Among(h, {m})) = Cardinality({k \in 1..Len(h) : h[k] \in {m}})
  <2> DEFINE T == {m}
  <2> HIDE DEF T
  <2>1. Len(Among(h, T)) = Cardinality({k \in 1..Len(h) : h[k] \in T})
    BY AmongIs
  <2>2. QED  BY <2>1 DEF T
<1>4. QED  BY <1>2, <1>3

\* The system messages in front.
LEMMA PrefixIs ==
  ASSUME NEW P \in Seq(Instructing), NEW Q \in Seq(Known), Q # << >>, Q[1] \notin Instructing
  PROVE  /\ PrefixLength(P \o Q) = Len(P)
         /\ SubSeq(P \o Q, 1, PrefixLength(P \o Q)) = P
         /\ SubSeq(P \o Q, PrefixLength(P \o Q) + 1, Len(P \o Q)) = Q
<1> DEFINE h == P \o Q
           l == Len(P)
           others == {k \in DOMAIN h : ~IsSystem(h[k])}
<1>0. P \in Seq(Known) /\ l \in Nat /\ Len(Q) \in Nat \ {0} /\ \A i \in 1..l : P[i] \in Instructing
  BY KnownKinds
<1>1. /\ h \in Seq(Known) /\ Len(h) = l + Len(Q)
      /\ \A i \in 1..l : h[i] = P[i]
      /\ \A i \in 1..Len(Q) : h[l + i] = Q[i]
  BY <1>0, Joined
<1>2. SubSeq(h, 1, l) = P /\ SubSeq(h, l + 1, Len(h)) = Q
  BY <1>0, CutApart
<1> HIDE DEF h, l
<1>3. \A k \in 1..Len(h) : h[k] \in Known /\ (IsSystem(h[k]) <=> h[k] \in Instructing)
  BY <1>1, KnownKinds
<1>4. l + 1 \in 1..Len(h) /\ h[l + 1] = Q[1]
  <2>1. 1 \in 1..Len(Q)
    BY <1>0
  <2>2. QED  BY <1>0, <1>1, <2>1
<1>5. l + 1 \in others
  BY <1>1, <1>3, <1>4
<1>6. \A k \in others : l + 1 <= k
  <2>1. ASSUME NEW k \in others, k < l + 1 PROVE FALSE
    <3>1. k \in 1..Len(h) /\ k \in 1..l
      BY <1>0, <1>1, <2>1
    <3>2. h[k] \in Instructing
      BY <1>0, <1>1, <3>1
    <3>3. QED  BY <1>3, <2>1, <3>1, <3>2
  <2>2. \A k \in others : k \in Int
    BY <1>1
  <2>3. QED  BY <1>0, <2>1, <2>2
<1>7. others \in SUBSET (1..Len(h)) /\ Len(h) \in Nat
  BY <1>1
<1> HIDE DEF others
<1>8. Min(others) = l + 1
  <2>1. Min(others) \in others /\ \A j \in others : Min(others) <= j
    BY <1>5, <1>7, MinIn
  <2>2. Min(others) <= l + 1 /\ l + 1 <= Min(others)
    BY <1>5, <1>6, <2>1
  <2>3. Min(others) \in Int
    <3>1. \A k \in others : k \in Int
      BY <1>7
    <3>2. QED  BY <2>1, <3>1
  <2>4. QED  BY <1>0, <2>2, <2>3
<1>9. PrefixLength(h) = l
  <2>1. PrefixLength(h) = Min(others) - 1
    BY <1>5 DEF PrefixLength, others
  <2>2. QED  BY <1>0, <1>8, <2>1
<1>10. QED  BY <1>2, <1>9 DEF h, l

(***************************************************************************)
(* What a request is made of                                               *)
(***************************************************************************)
PromptTexts(ids) == [k \in DOMAIN ids |-> Prompt(ids[k])]
SkillTexts(list) == [k \in DOMAIN list |-> SkillText(list[k])]
Opening == <<Message("stable"), Message("environment"), Message("instructions")>>

\* The system messages: each part of the opening once, the prompts of rules in
\* order, and the plan note or not.
InFront(P, ids, plan) ==
  /\ P \in Seq(Instructing)
  /\ \A m \in Stable : Len(Among(P, {m})) = 1
  /\ Among(P, Of({"prompt"})) = PromptTexts(ids)
  /\ Len(Among(P, {Message("plan")})) = IF plan THEN 1 ELSE 0

\* What follows them: what is left of the conversation, the question, what the
\* run said.
Follows(Q, old, told) ==
  \E A \in Seq(Earlier) :
    /\ Q = (A \o <<TheQuestion>>) \o told
    /\ \E c \in Seq(Known) : Conversation(old) = c \o Among(A, Of(Spoken))
    /\ Message("summary") \in Range(A) \/ Conversation(old) = Among(A, Of(Spoken))

LEMMA TextsAre ==
  /\ \A ids \in Seq(PromptRules) : PromptTexts(ids) \in Seq(Of({"prompt"}))
  /\ \A list \in ActiveLists : SkillTexts(list) \in Seq(Of({"skill"})) /\ Len(SkillTexts(list)) = Len(list)
<1>1. ASSUME NEW ids \in Seq(PromptRules)
      PROVE  PromptTexts(ids) \in Seq(Of({"prompt"}))
  <2>1. Len(ids) \in Nat /\ DOMAIN ids = 1..Len(ids) /\ \A k \in 1..Len(ids) : ids[k] \in PromptRules
    OBVIOUS
  <2>2. \A k \in 1..Len(ids) : Prompt(ids[k]) \in Of({"prompt"})
    BY <2>1, KindsApart DEF Known, Of
  <2>3. PromptTexts(ids) = [k \in 1..Len(ids) |-> Prompt(ids[k])]
    BY <2>1 DEF PromptTexts
  <2>4. QED  BY <2>1, <2>2, <2>3
<1>2. ASSUME NEW list \in ActiveLists
      PROVE  SkillTexts(list) \in Seq(Of({"skill"})) /\ Len(SkillTexts(list)) = Len(list)
  <2>1. list \in Seq(Range(list))
    BY PromptAssumption
  <2>2. Len(list) \in Nat /\ DOMAIN list = 1..Len(list) /\ \A k \in 1..Len(list) : list[k] \in Range(list)
    BY <2>1
  <2>3. \A k \in 1..Len(list) : SkillText(list[k]) \in Of({"skill"})
    <3>1. \A k \in 1..Len(list) : list[k] \in UNION {Range(l) : l \in ActiveLists}
      BY <2>2
    <3>2. QED  BY <3>1, KindsApart DEF Known, Of
  <2>4. SkillTexts(list) = [k \in 1..Len(list) |-> SkillText(list[k])]
    BY <2>2 DEF SkillTexts
  <2>5. QED  BY <2>2, <2>3, <2>4
<1>3. QED  BY <1>1, <1>2

\* Messages of some kinds, and those of others.
LEMMA OfApart ==
  /\ \A k, l : k \cap l = {} => Of(k) \cap Of(l) = {}
  /\ \A k \in SUBSET SystemKinds : Of(k) \subseteq Instructing
  /\ \A k : Of(k) \subseteq Known
  /\ \A k, m : m \in Of(k) => m \in Known /\ m.is \in k
  /\ \A k, n : n \notin k => Of(k) \cap {Message(n)} = {}
  /\ {"gap"} \subseteq SystemKinds /\ {"skill"} \subseteq SystemKinds /\ {"prompt"} \subseteq SystemKinds
BY KindsApart DEF Of, Instructing, SystemKinds

LEMMA OpeningIs ==
  /\ Opening \in Seq(Stable)
  /\ \A m \in Stable : Len(Among(Opening, {m})) = 1
<1>1. Opening \in Seq(Stable) /\ Len(Opening) = 3
  BY DEF Opening, Stable
<1>2. ASSUME NEW m \in Stable
      PROVE  Len(Among(Opening, {m})) = 1
  <2> DEFINE T == {m}
             places == {k \in 1..Len(Opening) : Opening[k] \in T}
  <2>1. \E j \in 1..3 : places = {j}
    <3>1. /\ Opening[1] = Message("stable") /\ Opening[2] = Message("environment")
          /\ Opening[3] = Message("instructions")
      BY DEF Opening
    <3>2. /\ Message("stable") # Message("environment") /\ Message("stable") # Message("instructions")
          /\ Message("environment") # Message("instructions")
      BY KindsApart
    <3>3. 1..3 = {1, 2, 3}
      OBVIOUS
    <3>4. \A k \in {1, 2, 3} : k \in places <=> Opening[k] = m
      BY <1>1, <3>3
    <3>5. CASE m = Message("stable")
      <4>1. places = {1}
        BY <1>1, <3>1, <3>2, <3>3, <3>4, <3>5
      <4>2. QED  BY <3>3, <4>1
    <3>6. CASE m = Message("environment")
      <4>1. places = {2}
        BY <1>1, <3>1, <3>2, <3>3, <3>4, <3>6
      <4>2. QED  BY <3>3, <4>1
    <3>7. CASE m = Message("instructions")
      <4>1. places = {3}
        BY <1>1, <3>1, <3>2, <3>3, <3>4, <3>7
      <4>2. QED  BY <3>3, <4>1
    <3>8. QED  BY <3>5, <3>6, <3>7 DEF Stable
  <2> HIDE DEF T
  <2>2. Len(Among(Opening, T)) = Cardinality(places)
    BY <1>1, AmongIs
  <2>3. Cardinality(places) = 1
    BY <2>1, FS_Singleton
  <2>4. QED  BY <2>2, <2>3 DEF T
<1>3. QED  BY <1>1, <1>2

\* An idle reminder, then the conversation.
LEMMA SessionParts ==
  ASSUME NEW old \in Sessions
  PROVE  /\ old \in Seq(Known)
         /\ \E G \in Seq(Of({"gap"})), A \in Seq(Earlier) : old = G \o A
<1> DEFINE l == PrefixLength(old)
           others == {k \in DOMAIN old : ~IsSystem(old[k])}
           G == SubSeq(old, 1, (l + 1) - 1)
           A == SubSeq(old, l + 1, Len(old))
<1>0. /\ old \in Seq(Range(old))
      /\ \A k \in DOMAIN old : old[k].is \in {"gap"} \cup UserKinds \cup Spoken /\ old[k] # TheQuestion
      /\ \A j, k \in DOMAIN old : j < k /\ IsSystem(old[k]) => IsSystem(old[j])
  BY PromptAssumption DEF Resumable, TheQuestion
<1>1. Range(old) \subseteq Known
  BY DEF Known
<1>2. old \in Seq(Known) /\ DOMAIN old = 1..Len(old) /\ Len(old) \in Nat
  BY <1>0, <1>1
<1>3. \A k \in 1..Len(old) : old[k] \in Known
  BY <1>2
<1>4. /\ l \in 0..Len(old)
      /\ \A k \in 1..l : IsSystem(old[k])
      /\ \A k \in (l + 1)..Len(old) : ~IsSystem(old[k])
  <2>1. CASE others = {}
    <3>1. l = Len(old)
      BY <2>1 DEF PrefixLength
    <3>2. \A k \in 1..Len(old) : IsSystem(old[k])
      BY <1>2, <2>1
    <3>3. QED  BY <1>2, <3>1, <3>2
  <2>2. CASE others # {}
    <3> DEFINE u == Min(others)
    <3>1. l = u - 1
      BY <2>2 DEF PrefixLength
    <3>2. others \in SUBSET (1..Len(old))
      BY <1>2
    <3>3. u \in others /\ \A j \in others : u <= j
      <4> HIDE DEF others
      <4>1. QED  BY <1>2, <2>2, <3>2, MinIn
    <3>4. u \in 1..Len(old) /\ ~IsSystem(old[u])
      BY <1>2, <3>3
    <3> HIDE DEF u, l
    <3>5. ASSUME NEW k \in 1..l  PROVE IsSystem(old[k])
      <4>1. k \in 1..Len(old) /\ ~(u <= k)
        BY <1>2, <3>1, <3>4
      <4>2. QED  BY <1>2, <3>3, <4>1
    <3>6. ASSUME NEW k \in (l + 1)..Len(old)  PROVE ~IsSystem(old[k])
      <4>1. k \in 1..Len(old) /\ (u = k \/ u < k)
        BY <1>2, <3>1, <3>4
      <4>2. QED  BY <1>0, <1>2, <3>4, <4>1
    <3>7. l \in 0..Len(old)
      BY <1>2, <3>1, <3>4
    <3>8. QED  BY <3>5, <3>6, <3>7
  <2>3. QED  BY <2>1, <2>2
<1> HIDE DEF l
<1>5. l + 1 \in 1..(Len(old) + 1) /\ (l + 1) - 1 = l
  BY <1>2, <1>4
<1>6. /\ G \in Seq(Known) /\ Len(G) = l /\ \A i \in 1..l : G[i] = old[i]
      /\ A \in Seq(Known) /\ Len(A) = Len(old) - (l + 1) + 1
      /\ \A i \in 1..(Len(old) - (l + 1) + 1) : A[i] = old[(l + 1) + i - 1]
      /\ old = G \o A
  <2> DEFINE n == l + 1
  <2>1. n \in 1..(Len(old) + 1)
    BY <1>5
  <2> HIDE DEF n
  <2>2. /\ SubSeq(old, 1, n - 1) \in Seq(Known) /\ Len(SubSeq(old, 1, n - 1)) = n - 1
        /\ \A i \in 1..(n - 1) : SubSeq(old, 1, n - 1)[i] = old[i]
        /\ SubSeq(old, n, Len(old)) \in Seq(Known) /\ Len(SubSeq(old, n, Len(old))) = Len(old) - n + 1
        /\ \A i \in 1..(Len(old) - n + 1) : SubSeq(old, n, Len(old))[i] = old[n + i - 1]
        /\ old = SubSeq(old, 1, n - 1) \o SubSeq(old, n, Len(old))
    BY <1>2, <2>1, Parted
  <2>3. n - 1 = l
    BY <1>5 DEF n
  <2>4. QED  BY <2>2, <2>3 DEF n
<1> HIDE DEF G, A
<1>7. G \in Seq(Of({"gap"}))
  <2>1. ASSUME NEW k \in 1..l  PROVE G[k] \in Of({"gap"})
    <3>1. k \in 1..Len(old) /\ G[k] = old[k]
      BY <1>2, <1>4, <1>6
    <3>2. old[k].is \in SystemKinds
      BY <1>4 DEF IsSystem
    <3>3. old[k].is = "gap"
      BY <1>0, <1>2, <3>1, <3>2, KindsApart
    <3>4. QED  BY <1>3, <3>1, <3>3 DEF Of
  <2>2. G \in Seq(Of({"gap"})) <=> \A k \in 1..Len(G) : G[k] \in Of({"gap"})
    BY <1>6
  <2>3. QED  BY <1>6, <2>1, <2>2
<1>8. A \in Seq(Earlier)
  <2>1. ASSUME NEW k \in 1..Len(A)  PROVE A[k] \in Earlier
    <3> DEFINE j == (l + 1) + k - 1
    <3>1. j \in (l + 1)..Len(old) /\ j \in 1..Len(old)
      BY <1>2, <1>4, <1>6
    <3>2. A[k] = old[j]
      BY <1>6
    <3> HIDE DEF j
    <3>3. ~IsSystem(old[j]) /\ old[j] # TheQuestion /\ old[j] \in Known
      BY <1>0, <1>2, <1>3, <1>4, <3>1
    <3>4. old[j] \notin Instructing
      BY <3>3, KnownKinds
    <3>5. QED  BY <3>2, <3>3, <3>4, KnownKinds
  <2>2. QED  BY <1>6, <2>1
<1>9. QED  BY <1>2, <1>6, <1>7, <1>8

\* What follows the system messages is none, and has the question once.
LEMMA FollowsIs ==
  ASSUME NEW Q, NEW old, NEW told \in Seq(Saying), Follows(Q, old, told)
  PROVE  /\ Q \in Seq(Known) /\ Q \in Seq(Known \ Instructing)
         /\ Q # << >> /\ Q[1] \notin Instructing
         /\ \A k \in 1..Len(Q) : Q[k] \notin Instructing
         /\ Len(Among(Q, {TheQuestion})) = 1
<1> DEFINE N == Known \ Instructing
           q == <<TheQuestion>>
           T == {TheQuestion}
<1>1. PICK A \in Seq(Earlier) : Q = (A \o q) \o told
  BY DEF Follows
<1>2. Earlier \subseteq N /\ Saying \subseteq N /\ TheQuestion \in N
  BY KnownKinds
<1>3. A \in Seq(N) /\ told \in Seq(N) /\ q \in Seq(N)
  BY <1>2
<1> DEFINE Aq == A \o q
<1>4. Aq \in Seq(N) /\ Len(Aq) = Len(A) + 1
  BY <1>3, Joined
<1>5. Len(A) \in Nat /\ Len(told) \in Nat
  OBVIOUS
<1>6. Q \in Seq(N) /\ Len(Q) = Len(Aq) + Len(told)
  <2> HIDE DEF Aq, N
  <2>1. Q = Aq \o told
    BY <1>1 DEF Aq
  <2>2. Aq \o told \in Seq(N) /\ Len(Aq \o told) = Len(Aq) + Len(told)
    BY <1>3, <1>4, Joined
  <2>3. QED  BY <2>1, <2>2
<1>7. \A k \in 1..Len(Q) : Q[k] \in N
  BY <1>6
<1>8. Q # << >> /\ 1 \in 1..Len(Q)
  BY <1>4, <1>5, <1>6
<1>9. Len(Among(Q, T)) = 1
  <2> HIDE DEF q, T, N
  <2>0. Among((A \o q) \o told, T) = (Among(A, T) \o Among(q, T)) \o Among(told, T)
    <3>1. Three(N, A, q, told)
      BY <1>3 DEF Three
    <3>2. QED  BY <3>1, AmongThree
  <2>1. Among(Q, T) = (Among(A, T) \o Among(q, T)) \o Among(told, T)
    BY <1>1, <2>0
  <2>2. Among(A, T) = << >>
    <3>1. Earlier \cap T = {}
      BY KnownKinds DEF T
    <3>2. QED  BY <3>1, AmongNone
  <2>3. Among(told, T) = << >>
    <3>1. Saying \cap T = {}
      BY KnownKinds DEF T
    <3>2. QED  BY <3>1, AmongNone
  <2>4. Among(q, T) = q
    <3>1. q \in Seq(T)
      BY DEF q, T
    <3>2. QED  BY <3>1, AmongAll
  <2>5. (<< >> \o q) \o << >> = q
    BY <1>3, JoinedWithNone
  <2>6. QED  BY <2>1, <2>2, <2>3, <2>4, <2>5 DEF q
<1>10. Q \in Seq(Known)
  BY <1>6
<1>11. QED  BY <1>6, <1>7, <1>8, <1>9, <1>10

\* Parts of the front that have nothing of a kind do not matter for it.
LEMMA NothingAdded ==
  ASSUME NEW P \in Seq(Instructing), NEW D \in SUBSET Instructing, NEW d \in Seq(D), NEW T, D \cap T = {}
  PROVE  /\ Among(P \o d, T) = Among(P, T)
         /\ Among(d \o P, T) = Among(P, T)
<1>0. d \in Seq(Instructing)
  OBVIOUS
<1>1. Among(d, T) = << >>
  BY AmongNone
<1>2. Among(P, T) \in Seq(Instructing \cap T)
  BY AmongIs
<1>3. Among(P \o d, T) = Among(P, T) \o Among(d, T) /\ Among(d \o P, T) = Among(d, T) \o Among(P, T)
  <2>1. Among(P \o d, T) = Among(P, T) \o Among(d, T)
    BY <1>0, AmongJoined
  <2>2. Among(d \o P, T) = Among(d, T) \o Among(P, T)
    BY <1>0, AmongJoined
  <2>3. QED  BY <2>1, <2>2
<1>4. Among(P, T) \o << >> = Among(P, T) /\ << >> \o Among(P, T) = Among(P, T)
  <2> DEFINE x == Among(P, T)
             X == Instructing \cap T
  <2>1. x \in Seq(X)
    BY <1>2
  <2> HIDE DEF x, X
  <2>2. x \o << >> = x /\ << >> \o x = x
    BY <2>1, JoinedWithNone
  <2>3. QED  BY <2>2 DEF x
<1>5. QED  BY <1>1, <1>3, <1>4

\* The plan note behind the system messages.
LEMMA NoteIs ==
  ASSUME NEW P, NEW ids, InFront(P, ids, FALSE)
  PROVE  InFront(P \o <<Message("plan")>>, ids, TRUE)
<1> DEFINE d == <<Message("plan")>>
           D == {Message("plan")}
           R == P \o d
<1>1. P \in Seq(Instructing) /\ D \in SUBSET Instructing /\ d \in Seq(D) /\ d \in Seq(Instructing) /\ Len(d) = 1
  BY KnownKinds DEF InFront
<1>2. R \in Seq(Instructing)
  BY <1>1, Joined
<1>3. ASSUME NEW T, D \cap T = {}
      PROVE  Among(R, T) = Among(P, T)
  <2> HIDE DEF d, D
  <2>1. QED  BY <1>1, <1>3, NothingAdded
<1>4. ASSUME NEW m \in Stable
      PROVE  Len(Among(R, {m})) = 1
  <2>1. D \cap {m} = {}
    BY KindsApart DEF Stable
  <2>2. Among(R, {m}) = Among(P, {m})
    BY <1>3, <2>1
  <2>3. QED  BY <2>2 DEF InFront
<1>5. Among(R, Of({"prompt"})) = PromptTexts(ids)
  <2>1. D \cap Of({"prompt"}) = {}
    BY OfApart
  <2>2. Among(R, Of({"prompt"})) = Among(P, Of({"prompt"}))
    BY <1>3, <2>1
  <2>3. QED  BY <2>2 DEF InFront
<1>6. Len(Among(R, D)) = 1
  <2> HIDE DEF d, D
  <2>1. Among(R, D) = Among(P, D) \o Among(d, D)
    BY <1>1, AmongJoined
  <2>2. Among(d, D) = d
    BY <1>1, AmongAll
  <2>3. Among(P, D) \in Seq(Instructing \cap D) /\ Len(Among(P, D)) = 0
    <3>1. Len(Among(P, D)) = 0
      BY DEF InFront, D
    <3>2. QED  BY <1>1, <3>1, AmongIs
  <2>4. Among(P, D) = << >>
    BY <2>3
  <2>5. << >> \o d = d
    BY <1>1, JoinedWithNone
  <2>6. QED  BY <1>1, <2>1, <2>2, <2>4, <2>5
<1>7. QED  BY <1>2, <1>4, <1>5, <1>6 DEF InFront

LEMMA NoteInserted ==
  ASSUME NEW P \in Seq(Instructing), NEW Q \in Seq(Known), Q # << >>, Q[1] \notin Instructing, NEW m
  PROVE  Inserted(P \o Q, PrefixLength(P \o Q), <<m>>) = (P \o <<m>>) \o Q
BY PrefixIs DEF Inserted

\* The request, with the prompts of rules before it.
LEMMA RequestIs ==
  ASSUME NEW old \in Sessions, NEW ids \in Seq(PromptRules)
  PROVE  \E P \in Seq(Instructing), A \in Seq(Earlier) :
           /\ PromptTexts(ids) \o ((Opening \o old) \o <<TheQuestion>>) = P \o ((A \o <<TheQuestion>>) \o << >>)
           /\ InFront(P, ids, FALSE)
           /\ Conversation(old) = Among(A, Of(Spoken))
<1> DEFINE X == PromptTexts(ids)
           q == <<TheQuestion>>
           O == Opening
<1>1. PICK G \in Seq(Of({"gap"})), A \in Seq(Earlier) : old = G \o A
  BY SessionParts
<1> DEFINE P == (X \o O) \o G
<1>2. X \in Seq(Of({"prompt"})) /\ O \in Seq(Stable)
  BY TextsAre, OpeningIs
<1>3. X \in Seq(Instructing) /\ O \in Seq(Instructing) /\ G \in Seq(Instructing)
  <2>1. Of({"prompt"}) \subseteq Instructing /\ Of({"gap"}) \subseteq Instructing /\ Stable \subseteq Instructing
    BY OfApart, KnownKinds
  <2>2. QED  BY <1>2, <2>1
<1>4. X \in Seq(Known) /\ O \in Seq(Known) /\ G \in Seq(Known) /\ A \in Seq(Known) /\ q \in Seq(Known)
  BY <1>3, KnownKinds
<1> HIDE DEF X, O, q
<1>5. P \in Seq(Instructing)
  <2>1. X \o O \in Seq(Instructing)
    BY <1>3, Joined
  <2> DEFINE xo == X \o O
  <2> HIDE DEF xo
  <2>2. xo \o G \in Seq(Instructing)
    BY <1>3, <2>1, Joined DEF xo
  <2>3. QED  BY <2>2 DEF xo
<1>6. X \o ((O \o old) \o q) = P \o ((A \o q) \o << >>)
  <2> DEFINE GA == G \o A
             Aq == A \o q
             XO == X \o O
             GAq == GA \o q
  <2>1. GA \in Seq(Known) /\ Aq \in Seq(Known) /\ XO \in Seq(Known)
    BY <1>4, Joined
  <2>2. GA \o q = G \o Aq
    <3>1. Three(Known, G, A, q)
      BY <1>4 DEF Three
    <3>2. QED  BY <3>1, JoinedThrice
  <2>3. Aq \o << >> = Aq
    <3> HIDE DEF Aq
    <3>1. QED  BY <2>1, JoinedWithNone
  <2> HIDE DEF GA, Aq, XO
  <2>4. (O \o GA) \o q = O \o (GA \o q)
    <3>1. Three(Known, O, GA, q)
      BY <1>4, <2>1 DEF Three
    <3>2. QED  BY <3>1, JoinedThrice
  <2>5. GAq \in Seq(Known)
    BY <1>4, <2>1, Joined
  <2> HIDE DEF GAq
  <2>6. X \o (O \o GAq) = (X \o O) \o GAq
    <3>1. Three(Known, X, O, GAq)
      BY <1>4, <2>5 DEF Three
    <3>2. QED  BY <3>1, JoinedThrice
  <2>7. (XO \o G) \o Aq = XO \o (G \o Aq)
    <3>1. Three(Known, XO, G, Aq)
      BY <1>4, <2>1 DEF Three
    <3>2. QED  BY <3>1, JoinedThrice
  <2>8. X \o ((O \o GA) \o q) = X \o (O \o GAq)
    BY <2>4 DEF GAq
  <2>9. GAq = G \o Aq
    BY <2>2 DEF GAq
  <2>10. X \o ((O \o GA) \o q) = (XO \o G) \o Aq
    BY <2>6, <2>7, <2>8, <2>9 DEF XO
  <2>11. X \o ((O \o old) \o q) = X \o ((O \o GA) \o q)
    BY <1>1 DEF GA
  <2>12. P \o ((A \o q) \o << >>) = (XO \o G) \o Aq
    BY <2>3 DEF Aq, XO
  <2>13. QED  BY <2>10, <2>11, <2>12
<1>7. ASSUME NEW T
      PROVE  Among(P, T) = (Among(X, T) \o Among(O, T)) \o Among(G, T)
  <2>1. Three(Instructing, X, O, G)
    BY <1>3 DEF Three
  <2>2. QED  BY <2>1, AmongThree
<1>8. ASSUME NEW m \in Stable
      PROVE  Len(Among(P, {m})) = 1
  <2> DEFINE T == {m}
             D == Of({"prompt"})
             E == Of({"gap"})
  <2>1. D \cap T = {} /\ E \cap T = {}
    BY OfApart DEF Stable
  <2>2. G \in Seq(E) /\ X \in Seq(D)
    BY <1>2
  <2>3. Len(Among(O, T)) = 1
    BY OpeningIs DEF O
  <2> HIDE DEF T, D, E
  <2>4. Among(X, T) = << >> /\ Among(G, T) = << >>
    BY <2>1, <2>2, AmongNone
  <2> DEFINE o == Among(O, T)
  <2>5. o \in Seq(Instructing \cap T)
    BY <1>3, AmongIs
  <2>6. (<< >> \o o) \o << >> = o
    BY <2>5
  <2>7. Among(P, T) = o
    BY <1>7, <2>4, <2>6
  <2>8. QED  BY <2>3, <2>7 DEF T
<1>9. Among(P, Of({"prompt"})) = PromptTexts(ids)
  <2> DEFINE T == Of({"prompt"})
             E == Of({"gap"})
  <2>1. Stable \cap T = {} /\ E \cap T = {}
    <3>1. Stable \cap T = {}
      BY OfApart DEF Stable
    <3>2. E \cap T = {}
      BY OfApart
    <3>3. QED  BY <3>1, <3>2
  <2>2. G \in Seq(E) /\ X \in Seq(T)
    BY <1>2
  <2> HIDE DEF T, E
  <2>3. Among(O, T) = << >> /\ Among(G, T) = << >>
    BY <1>2, <2>1, <2>2, AmongNone
  <2>4. Among(X, T) = X
    BY <2>2, AmongAll
  <2>5. (X \o << >>) \o << >> = X
    BY <2>2
  <2>6. QED  BY <1>7, <2>3, <2>4, <2>5 DEF T, X
<1>10. Len(Among(P, {Message("plan")})) = 0
  <2> DEFINE T == {Message("plan")}
             D == Of({"prompt"})
             E == Of({"gap"})
  <2>1. Stable \cap T = {} /\ E \cap T = {} /\ D \cap T = {}
    <3>1. Stable \cap T = {}
      BY KindsApart DEF Stable
    <3>2. E \cap T = {} /\ D \cap T = {}
      BY OfApart
    <3>3. QED  BY <3>1, <3>2
  <2>2. G \in Seq(E) /\ X \in Seq(D)
    BY <1>2
  <2> HIDE DEF T, D, E
  <2>3. Among(O, T) = << >> /\ Among(G, T) = << >> /\ Among(X, T) = << >>
    BY <1>2, <2>1, <2>2, AmongNone
  <2>4. Among(P, T) = << >>
    BY <1>7, <2>3
  <2>5. QED  BY <2>4 DEF T
<1>11. Conversation(old) = Among(A, Of(Spoken))
  <2> DEFINE T == Of(Spoken)
             E == Of({"gap"})
  <2>1. E \cap T = {}
    <3>1. {"gap"} \cap Spoken = {}
      BY DEF Spoken
    <3>2. QED  BY <3>1, OfApart
  <2>2. G \in Seq(E)
    OBVIOUS
  <2>3. old \in Seq(Known)
    BY SessionParts
  <2>4. Conversation(old) = Among(old, T)
    BY <2>3, OnlyIs DEF Conversation
  <2> HIDE DEF T, E
  <2>5. Among(G, T) = << >>
    BY <2>1, <2>2, AmongNone
  <2>6. Among(G \o A, T) = Among(G, T) \o Among(A, T)
    <3>1. G \in Seq(Known)
      BY <1>4
    <3>2. A \in Seq(Known)
      BY <1>4
    <3>3. QED  BY <3>1, <3>2, AmongJoined
  <2>7. << >> \o Among(A, T) = Among(A, T)
    <3>1. Among(A, T) \in Seq(Known \cap T)
      BY <1>4, AmongIs
    <3>2. QED  BY <3>1
  <2>8. QED  BY <1>1, <2>4, <2>5, <2>6, <2>7 DEF T
<1>12. InFront(P, ids, FALSE)
  BY <1>5, <1>8, <1>9, <1>10 DEF InFront
<1>13. QED  BY <1>5, <1>6, <1>11, <1>12 DEF X, q, O

(***************************************************************************)
(* What a turn makes of it                                                 *)
(***************************************************************************)
\* Joined lists with nothing of a kind in the middle.
LEMMA NoneBetween ==
  ASSUME NEW S, NEW x \in Seq(S), NEW y \in Seq(S)
  PROVE  (x \o << >>) \o y = x \o y /\ (<< >> \o x) \o << >> = x
<1>1. x \o << >> = x /\ << >> \o x = x
  BY JoinedWithNone
<1>2. QED  BY <1>1

LEMMA FirstOf ==
  ASSUME NEW S, NEW s \in Seq(S), s # << >>
  PROVE  SubSeq(s, 1, 1) = <<s[1]>> /\ s[1] \in S
<1>1. Len(s) \in Nat \ {0} /\ 2 \in 1..(Len(s) + 1) /\ 2 - 1 = 1 /\ s[1] \in S
  OBVIOUS
<1> DEFINE a == SubSeq(s, 1, 1)
           b == <<s[1]>>
<1>2. a \in Seq(S) /\ Len(a) = 1 /\ \A i \in 1..1 : a[i] = s[i]
  <2>1. /\ SubSeq(s, 1, 2 - 1) \in Seq(S) /\ Len(SubSeq(s, 1, 2 - 1)) = 2 - 1
        /\ \A i \in 1..(2 - 1) : SubSeq(s, 1, 2 - 1)[i] = s[i]
    BY <1>1, Parted
  <2>2. QED  BY <1>1, <2>1
<1>3. b \in Seq(S) /\ Len(b) = 1 /\ \A i \in 1..1 : b[i] = s[i]
  BY <1>1
<1> HIDE DEF a, b
<1>4. \A i \in 1..Len(a) : a[i] = b[i]
  BY <1>2, <1>3
<1>5. a = b
  BY <1>2, <1>3, <1>4, SameList
<1>6. QED  BY <1>1, <1>5 DEF a, b

LEMMA NoneAmongNone ==
  ASSUME NEW T
  PROVE  Among(<< >>, T) = << >>
<1> DEFINE S == {}
<1>1. << >> \in Seq(S) /\ S \cap T = {}
  OBVIOUS
<1> HIDE DEF S
<1>2. QED  BY <1>1, AmongNone

LEMMA Wider ==
  ASSUME NEW S, NEW T, S \subseteq T, NEW s \in Seq(S)
  PROVE  s \in Seq(T)
OBVIOUS

\* The texts of the Skills behind the first of the system messages.
LEMMA SkillsSet ==
  ASSUME NEW P, NEW ids, NEW plan, InFront(P, ids, plan),
         NEW Q, NEW old, NEW told \in Seq(Saying), Follows(Q, old, told),
         NEW list \in ActiveLists, list # << >>
  PROVE  \E R : /\ WithSkills(P \o Q, list) = R \o Q
                /\ InFront(R, ids, plan)
                /\ Among(R, Of({"skill"})) = SkillTexts(list)
<1> DEFINE K == Of(Kinds \ {"skill"})
           Z == Of({"skill"})
           X == SkillTexts(list)
           O == Among(P, K)
           N == Known \ Instructing
           M == Instructing \cap K
<1>0. Q \in Seq(N) /\ Q # << >> /\ Q[1] \notin Instructing
  BY FollowsIs
<1>1. P \in Seq(Instructing) /\ P \in Seq(Known) /\ Q \in Seq(Known)
  BY <1>0, KnownKinds, FollowsIs DEF InFront
<1>2. N \subseteq K /\ M \cap Z = {} /\ M \subseteq Instructing /\ Instructing \subseteq Known
  <2>1. ASSUME NEW m \in N  PROVE m \in K
    <3>1. m \in Known /\ m.is \in Kinds /\ m.is \notin SystemKinds
      BY KnownKinds DEF Instructing, Of
    <3>2. m.is # "skill"
      BY <3>1 DEF SystemKinds
    <3>3. QED  BY <3>1, <3>2 DEF Of
  <2>2. (Kinds \ {"skill"}) \cap {"skill"} = {}
    OBVIOUS
  <2>3. K \cap Z = {}
    BY <2>2, OfApart
  <2>4. QED  BY <2>1, <2>3, KnownKinds
<1>3. X \in Seq(Z) /\ X \in Seq(Instructing) /\ Len(X) = Len(list)
  <2>1. Z \subseteq Instructing
    BY OfApart
  <2>2. X \in Seq(Z) /\ Len(X) = Len(list)
    BY TextsAre
  <2>3. QED  BY <2>1, <2>2
<1> DEFINE h == P \o Q
           kept == Only(h, Kinds \ {"skill"})
<1>4. WithSkills(h, list) = Inserted(kept, Min({1, PrefixLength(kept)}), X)
  BY DEF WithSkills, SkillTexts
<1>5. kept = O \o Q
  <2>1. h \in Seq(Known)
    BY <1>1, Joined
  <2>2. kept = Among(h, K)
    <3> HIDE DEF h
    <3>1. QED  BY <2>1, OnlyIs
  <2>3. Among(P \o Q, K) = Among(P, K) \o Among(Q, K)
    <3> HIDE DEF K
    <3>1. P \in Seq(Known)
      BY <1>1
    <3>2. Q \in Seq(Known)
      BY <1>1
    <3>3. QED  BY <3>1, <3>2, AmongJoined
  <2>4. Among(Q, K) = Q
    <3> HIDE DEF K, N
    <3>1. Q \in Seq(N)
      BY <1>0
    <3>2. QED  BY <1>2, <3>1, AmongAll
  <2>5. QED  BY <2>2, <2>3, <2>4
<1>6. O \in Seq(M)
  <2> HIDE DEF K
  <2>1. QED  BY <1>1, AmongIs
<1>7. O \in Seq(Instructing) /\ O \in Seq(Known)
  BY <1>2, <1>6
<1>8. ASSUME NEW T, T \subseteq K
      PROVE  Among(O, T) = Among(P, T)
  <2> HIDE DEF K
  <2>1. QED  BY <1>1, <1>8, AmongTwice
<1>9. {Message("stable")} \subseteq K
  <2>1. "stable" \in Kinds \ {"skill"}
    BY KindsApart DEF SystemKinds
  <2>2. QED  BY <2>1, KnownKinds, KindsApart DEF Of
<1>10. O # << >> /\ Len(O) \in Nat \ {0}
  <2> DEFINE T == {Message("stable")}
  <2>1. Len(Among(P, T)) = 1
    BY DEF InFront, Stable
  <2>2. Among(O, T) = Among(P, T)
    <3> HIDE DEF O, K
    <3>1. QED  BY <1>8, <1>9
  <2> HIDE DEF T, O
  <2>3. SUFFICES ASSUME O = << >>  PROVE FALSE
    <3>1. Len(O) \in Nat /\ (Len(O) = 0 => O = << >>)
      BY <1>7
    <3>2. QED  BY <2>3, <3>1
  <2>4. Len(Among(O, T)) = 0
    <3>1. Among(<< >>, T) = << >>
      BY NoneAmongNone
    <3>2. QED  BY <2>3, <3>1
  <2>5. QED  BY <2>1, <2>2, <2>4
<1> HIDE DEF h, kept, O
<1>11. PrefixLength(kept) = Len(O)
  BY <1>0, <1>1, <1>5, <1>7, PrefixIs
<1>12. Min({1, Len(O)}) = 1
  <2> DEFINE l == Len(O)
             S == {1, l}
  <2>1. l \in Nat /\ S \in SUBSET (1..l) /\ S # {}
    BY <1>10
  <2>2. \A j \in S : j \in Int /\ 1 <= j
    BY <2>1
  <2>3. 1 \in S
    OBVIOUS
  <2> HIDE DEF S, l
  <2>4. Min(S) \in S /\ \A j \in S : Min(S) <= j
    BY <2>1, MinIn
  <2>5. Min(S) = 1
    BY <2>2, <2>3, <2>4
  <2>6. QED  BY <2>5 DEF S, l
<1> DEFINE a == SubSeq(O, 1, 1)
           b == SubSeq(O, 2, Len(O))
<1>13. a \in Seq(M) /\ b \in Seq(M) /\ O = a \o b /\ a = <<O[1]>>
  <2>1. 2 \in 1..(Len(O) + 1) /\ 2 - 1 = 1
    BY <1>10
  <2>2. /\ SubSeq(O, 1, 2 - 1) \in Seq(M) /\ SubSeq(O, 2, Len(O)) \in Seq(M)
        /\ O = SubSeq(O, 1, 2 - 1) \o SubSeq(O, 2, Len(O))
    <3> HIDE DEF M
    <3>1. QED  BY <1>6, <2>1, Parted
  <2>3. a = <<O[1]>>
    BY <1>7, <1>10, FirstOf
  <2>4. QED  BY <2>1, <2>2, <2>3
<1>14. SubSeq(kept, 1, 1) = a /\ SubSeq(kept, 1 + 1, Len(kept)) = b \o Q
  <2>1. kept \in Seq(Known) /\ Len(kept) = Len(O) + Len(Q) /\ kept[1] = O[1]
    <3>1. /\ O \o Q \in Seq(Known) /\ Len(O \o Q) = Len(O) + Len(Q)
          /\ \A i \in 1..Len(O) : (O \o Q)[i] = O[i]
      BY <1>1, <1>7, Joined
    <3>2. 1 \in 1..Len(O)
      BY <1>10
    <3>3. QED  BY <1>5, <3>1, <3>2
  <2>2. kept # << >>
    BY <1>1, <1>10, <2>1
  <2>3. SubSeq(kept, 1, 1) = <<kept[1]>>
    BY <2>1, <2>2, FirstOf
  <2>4. SubSeq(O \o Q, 2, Len(O \o Q)) = SubSeq(O, 2, Len(O)) \o Q
    <3>1. 2 \in 1..(Len(O) + 1)
      BY <1>10
    <3>2. O \in Seq(Known)
      BY <1>7
    <3>3. Q \in Seq(Known)
      BY <1>1
    <3>4. QED  BY <3>1, <3>2, <3>3, CutWithin
  <2>5. QED  BY <1>5, <1>13, <2>1, <2>3, <2>4
<1> HIDE DEF a, b, X, K, Z, M
<1>15. a \in Seq(Instructing) /\ b \in Seq(Instructing)
  <2>1. a \in Seq(M) /\ b \in Seq(M)
    BY <1>13
  <2>2. M \subseteq Instructing
    BY <1>2
  <2>3. QED  BY <2>1, <2>2, Wider
<1> DEFINE aX == a \o X
           R == aX \o b
<1>16. WithSkills(h, list) = R \o Q
  <2>1. WithSkills(h, list) = aX \o (b \o Q)
    BY <1>4, <1>11, <1>12, <1>14 DEF Inserted
  <2>2. aX \in Seq(Known)
    <3>1. aX \in Seq(Instructing)
      BY <1>3, <1>15, Joined
    <3> HIDE DEF aX
    <3>2. QED  BY <1>2, <3>1
  <2>3. Three(Known, aX, b, Q)
    BY <1>1, <1>2, <1>15, <2>2 DEF Three
  <2> HIDE DEF aX
  <2>4. (aX \o b) \o Q = aX \o (b \o Q)
    BY <2>3, JoinedThrice
  <2>5. QED  BY <2>1, <2>4
<1>17. R \in Seq(Instructing)
  <2>1. aX \in Seq(Instructing)
    BY <1>3, <1>15, Joined
  <2> HIDE DEF aX
  <2>2. QED  BY <1>15, <2>1, Joined
<1>18. ASSUME NEW T
       PROVE  Among(R, T) = (Among(a, T) \o Among(X, T)) \o Among(b, T)
  <2>1. Three(Instructing, a, X, b)
    BY <1>3, <1>15 DEF Three
  <2>2. QED  BY <2>1, AmongThree
<1> HIDE DEF R, aX
<1>19. ASSUME NEW T, T \subseteq K, Z \cap T = {}
       PROVE  Among(R, T) = Among(P, T)
  <2> DEFINE x == Among(a, T)
             y == Among(b, T)
             I == Instructing \cap T
  <2>1. Among(X, T) = << >>
    BY <1>3, <1>19, AmongNone
  <2>2. x \in Seq(I) /\ y \in Seq(I)
    BY <1>15, AmongIs
  <2>3. Among(a \o b, T) = Among(a, T) \o Among(b, T)
    <3>1. a \in Seq(Instructing)
      BY <1>15
    <3>2. b \in Seq(Instructing)
      BY <1>15
    <3>3. QED  BY <3>1, <3>2, AmongJoined
  <2>4. (x \o << >>) \o y = x \o y
    <3> HIDE DEF x, y, I
    <3>1. QED  BY <2>2, NoneBetween
  <2>5. Among(R, T) = x \o y
    BY <1>18, <2>1, <2>4
  <2>6. Among(O, T) = Among(P, T)
    BY <1>8, <1>19
  <2>7. QED  BY <1>13, <2>3, <2>5, <2>6
<1>20. Among(R, Z) = X
  <2>1. Among(a, Z) = << >>
    BY <1>2, <1>13, AmongNone
  <2>2. Among(b, Z) = << >>
    BY <1>2, <1>13, AmongNone
  <2>3. Among(X, Z) = X
    BY <1>3, AmongAll
  <2>4. (<< >> \o X) \o << >> = X
    BY <1>3, NoneBetween
  <2>5. QED  BY <1>18, <2>1, <2>2, <2>3, <2>4
<1>21. ASSUME NEW k, k \in Kinds, k # "skill"
       PROVE  {Message(k)} \subseteq K /\ Z \cap {Message(k)} = {}
  <2>1. Message(k) \in Known /\ Message(k).is = k
    BY <1>21, KnownKinds, KindsApart
  <2>2. Message(k) \in K
    BY <1>21, <2>1 DEF K, Of
  <2>3. Message(k) \notin Z
    BY <1>21, <2>1 DEF Z, Of
  <2>4. QED  BY <2>2, <2>3
<1>22. ASSUME NEW m \in Stable
       PROVE  Len(Among(R, {m})) = 1
  <2> DEFINE T == {m}
  <2>1. PICK k \in {"stable", "environment", "instructions"} : m = Message(k)
    BY DEF Stable
  <2>2. k \in Kinds /\ k # "skill"
    BY KindsApart DEF SystemKinds
  <2>3. T \subseteq K /\ Z \cap T = {}
    BY <1>21, <2>1, <2>2
  <2>4. Len(Among(P, T)) = 1
    BY DEF InFront
  <2> HIDE DEF T
  <2>5. Among(R, T) = Among(P, T)
    BY <1>19, <2>3
  <2>6. QED  BY <2>4, <2>5 DEF T
<1>23. Among(R, Of({"prompt"})) = PromptTexts(ids)
  <2> DEFINE T == Of({"prompt"})
  <2>1. T \subseteq K /\ Z \cap T = {}
    <3>1. \A m \in T : m \in Known /\ m.is = "prompt"
      BY DEF Of
    <3>2. "prompt" \in Kinds \ {"skill"} /\ "prompt" # "skill"
      BY KindsApart DEF SystemKinds
    <3>3. QED  BY <3>1, <3>2 DEF K, Z, Of
  <2>2. Among(P, T) = PromptTexts(ids)
    BY DEF InFront
  <2> HIDE DEF T
  <2>3. Among(R, T) = Among(P, T)
    BY <1>19, <2>1
  <2>4. QED  BY <2>2, <2>3 DEF T
<1>24. Len(Among(R, {Message("plan")})) = IF plan THEN 1 ELSE 0
  <2> DEFINE T == {Message("plan")}
  <2>1. T \subseteq K /\ Z \cap T = {}
    <3>1. "plan" \in Kinds /\ "plan" # "skill"
      BY KindsApart DEF SystemKinds
    <3>2. QED  BY <1>21, <3>1
  <2>2. Len(Among(P, T)) = IF plan THEN 1 ELSE 0
    BY DEF InFront
  <2> HIDE DEF T
  <2>3. Among(R, T) = Among(P, T)
    BY <1>19, <2>1
  <2>4. QED  BY <2>2, <2>3 DEF T
<1>25. InFront(R, ids, plan)
  BY <1>17, <1>22, <1>23, <1>24 DEF InFront
<1>26. QED  BY <1>16, <1>20, <1>25 DEF h, X, Z

\* What is cut behind the first of two joined lists is cut from the second.
LEMMA CutBehind ==
  ASSUME NEW S, NEW a \in Seq(S), NEW b \in Seq(S), NEW j \in 1..Len(b)
  PROVE  SubSeq(a \o b, Len(a) + j, Len(a \o b)) = SubSeq(b, j, Len(b))
<1> DEFINE s == a \o b
           m == Len(a) + j
           x == SubSeq(s, m, Len(s))
           y == SubSeq(b, j, Len(b))
           n == Len(b) - j + 1
<1>1. /\ s \in Seq(S) /\ Len(s) = Len(a) + Len(b)
      /\ \A i \in 1..Len(b) : s[Len(a) + i] = b[i]
  BY Joined
<1>2. Len(a) \in Nat /\ Len(b) \in Nat /\ n \in Nat /\ m \in 1..Len(s) /\ Len(s) - m + 1 = n
  BY <1>1
<1> HIDE DEF s
<1>3. x \in Seq(S) /\ Len(x) = n /\ \A i \in 1..n : x[i] = s[m + i - 1]
  <2> HIDE DEF m
  <2>1. /\ SubSeq(s, m, Len(s)) \in Seq(S) /\ Len(SubSeq(s, m, Len(s))) = Len(s) - m + 1
        /\ \A i \in 1..(Len(s) - m + 1) : SubSeq(s, m, Len(s))[i] = s[m + i - 1]
    BY <1>1, <1>2, PartOf
  <2>2. QED  BY <1>2, <2>1
<1>4. y \in Seq(S) /\ Len(y) = n /\ \A i \in 1..n : y[i] = b[j + i - 1]
  BY PartOf
<1> HIDE DEF x, y
<1>5. ASSUME NEW i \in 1..Len(x)
      PROVE  x[i] = y[i]
  <2> DEFINE k == j + i - 1
  <2>1. i \in 1..n /\ k \in 1..Len(b) /\ m + i - 1 = Len(a) + k
    BY <1>2, <1>3
  <2> HIDE DEF k, m, n
  <2>2. x[i] = s[Len(a) + k] /\ y[i] = b[j + i - 1]
    BY <1>3, <1>4, <2>1
  <2>3. QED  BY <1>1, <2>1, <2>2 DEF k
<1>6. x = y
  <2> HIDE DEF n
  <2>1. Len(x) = Len(y)
    BY <1>3, <1>4
  <2>2. QED  BY <1>3, <1>4, <1>5, <2>1, SameList
<1>7. QED  BY <1>6 DEF x, y, s

\* What the model is left with by a compression: the system messages, the
\* summary, and what follows some user message up to the question.
LEMMA Compressed ==
  ASSUME NEW P \in Seq(Instructing), NEW Q, NEW old, NEW told \in Seq(Saying),
         Follows(Q, old, told), NEW h \in Compressions(P \o Q)
  PROVE  \E R : h = P \o R /\ Follows(R, old, told)
<1> DEFINE N == Known \ Instructing
           q == <<TheQuestion>>
           Sp == Of(Spoken)
           g == P \o Q
           users == {k \in DOMAIN g : IsUser(g[k])}
           front == SubSeq(g, 1, PrefixLength(g))
           sb == <<Message("summary"), Message("boundary")>>
<1>1. PICK A \in Seq(Earlier) :
        /\ Q = (A \o q) \o told
        /\ \E c \in Seq(Known) : Conversation(old) = c \o Among(A, Sp)
        /\ Message("summary") \in Range(A) \/ Conversation(old) = Among(A, Sp)
  BY DEF Follows
<1>2. PICK c \in Seq(Known) : Conversation(old) = c \o Among(A, Sp)
  BY <1>1
<1>3. /\ Q \in Seq(Known) /\ Q # << >> /\ Q[1] \notin Instructing
      /\ \A k \in 1..Len(Q) : Q[k] \notin Instructing
  BY FollowsIs
<1>4. P \in Seq(Known) /\ A \in Seq(Known) /\ q \in Seq(Known) /\ told \in Seq(Known)
  BY KnownKinds
<1>5. PrefixLength(g) = Len(P) /\ front = P
  BY <1>3, PrefixIs
<1>6. PICK u \in users : h = (front \o sb) \o SubSeq(g, u, Len(g))
  <2>1. h \in {SubSeq(g, 1, PrefixLength(g)) \o <<Message("summary"), Message("boundary")>>
                 \o SubSeq(g, u, Len(g)) : u \in {k \in users : k > Min(users)}}
    BY DEF Compressions
  <2> HIDE DEF users, g
  <2>2. QED  BY <2>1
<1> DEFINE Aq == A \o q
<1>7. Aq \in Seq(Known) /\ Len(Aq) = Len(A) + 1 /\ Len(A) \in Nat /\ Len(told) \in Nat
  <2>1. Aq \in Seq(Known) /\ Len(Aq) = Len(A) + Len(q)
    BY <1>4, Joined
  <2>2. QED  BY <2>1
<1>8. /\ Len(Q) = Len(A) + 1 + Len(told)
      /\ \A i \in 1..Len(told) : Q[Len(A) + 1 + i] = told[i]
  <2> HIDE DEF Aq
  <2>1. /\ Len(Aq \o told) = Len(Aq) + Len(told)
        /\ \A i \in 1..Len(told) : (Aq \o told)[Len(Aq) + i] = told[i]
    <3>1. Aq \in Seq(Known)
      BY <1>7
    <3>2. told \in Seq(Known)
      BY <1>4
    <3>3. QED  BY <3>1, <3>2, Joined
  <2>2. Q = Aq \o told
    BY <1>1 DEF Aq
  <2>3. QED  BY <1>7, <2>1, <2>2
<1>9. /\ g \in Seq(Known) /\ Len(g) = Len(P) + Len(Q)
      /\ \A i \in 1..Len(P) : g[i] = P[i]
      /\ \A i \in 1..Len(Q) : g[Len(P) + i] = Q[i]
  BY <1>3, <1>4, Joined
<1> HIDE DEF g
<1>10. u \in 1..Len(g) /\ g[u].is \in UserKinds /\ Len(P) \in Nat
  BY <1>9 DEF IsUser
<1> DEFINE j == u - Len(P)
<1>11. j \in 1..(Len(A) + 1) /\ Len(P) + j = u /\ j \in 1..Len(Q)
  <2>1. ~(u <= Len(P))
    <3>1. SUFFICES ASSUME u <= Len(P)  PROVE FALSE
      OBVIOUS
    <3>2. u \in 1..Len(P) /\ g[u] = P[u]
      BY <1>9, <1>10, <3>1
    <3>3. P[u].is \in SystemKinds
      BY <3>2 DEF Instructing, Of
    <3>4. QED  BY <1>10, <3>2, <3>3, KindsApart
  <2>2. ~(u > Len(P) + Len(A) + 1)
    <3>1. SUFFICES ASSUME u > Len(P) + Len(A) + 1  PROVE FALSE
      OBVIOUS
    <3> DEFINE i == u - (Len(P) + Len(A) + 1)
    <3>2. i \in 1..Len(told) /\ u = Len(P) + (Len(A) + 1 + i) /\ Len(A) + 1 + i \in 1..Len(Q)
      BY <1>7, <1>8, <1>9, <1>10, <3>1
    <3> HIDE DEF i
    <3>3. g[u] = told[i]
      BY <1>8, <1>9, <3>2
    <3>4. told[i] \in Saying
      BY <3>2
    <3>5. told[i].is \in {"answer", "result"}
      BY <3>4, KindsApart DEF Saying
    <3>6. UserKinds \cap {"answer", "result"} = {}
      BY DEF UserKinds
    <3>7. QED  BY <1>10, <3>3, <3>5, <3>6
  <2>3. QED  BY <1>7, <1>8, <1>10, <2>1, <2>2
<1> HIDE DEF j, users, front
<1> DEFINE A1 == SubSeq(A, 1, j - 1)
           A2 == SubSeq(A, j, Len(A))
<1>12. A1 \in Seq(Earlier) /\ A2 \in Seq(Earlier) /\ A = A1 \o A2
  BY <1>11, Parted
<1>13. SubSeq(g, u, Len(g)) = (A2 \o q) \o told
  <2>1. SubSeq(P \o Q, Len(P) + j, Len(P \o Q)) = SubSeq(Q, j, Len(Q))
    <3>1. P \in Seq(Known)
      BY <1>4
    <3>2. Q \in Seq(Known)
      BY <1>3
    <3>3. j \in 1..Len(Q)
      BY <1>11
    <3>4. QED  BY <3>1, <3>2, <3>3, CutBehind
  <2>2. SubSeq(Aq \o told, j, Len(Aq \o told)) = SubSeq(Aq, j, Len(Aq)) \o told
    <3>1. j \in 1..(Len(Aq) + 1)
      BY <1>7, <1>11
    <3>2. Aq \in Seq(Known)
      BY <1>7
    <3>3. told \in Seq(Known)
      BY <1>4
    <3> HIDE DEF Aq
    <3>4. QED  BY <3>1, <3>2, <3>3, CutWithin
  <2>3. SubSeq(A \o q, j, Len(A \o q)) = SubSeq(A, j, Len(A)) \o q
    <3>1. A \in Seq(Known)
      BY <1>4
    <3>2. q \in Seq(Known)
      BY <1>4
    <3> HIDE DEF q
    <3>3. QED  BY <1>11, <3>1, <3>2, CutWithin
  <2>4. Q = Aq \o told
    BY <1>1
  <2>5. SubSeq(g, u, Len(g)) = SubSeq(Q, j, Len(Q))
    BY <1>11, <2>1 DEF g
  <2>6. QED  BY <2>2, <2>3, <2>4, <2>5
<1> HIDE DEF A1, A2, q
<1> DEFINE B == sb \o A2
           R == (B \o q) \o told
<1>14. sb \in Seq(Earlier) /\ sb[1] = Message("summary") /\ Len(sb) = 2
  <2>1. \A k \in {"summary", "boundary"} : k \in UserKinds /\ k \in Kinds /\ k # "question"
    BY KindsApart DEF UserKinds
  <2>2. \A k \in {"summary", "boundary"} : Message(k) \in Earlier
    BY <2>1, KnownKinds, KindsApart DEF Earlier, Of, TheQuestion
  <2>3. QED  BY <2>2
<1>15. Among(sb, Sp) = << >>
  <2> DEFINE S == {Message("summary"), Message("boundary")}
  <2>1. sb \in Seq(S)
    OBVIOUS
  <2>2. S \cap Sp = {}
    <3>1. Message("summary").is \notin Spoken /\ Message("boundary").is \notin Spoken
      BY KindsApart DEF Spoken
    <3>2. QED  BY <3>1 DEF Of
  <2> HIDE DEF S, sb, Sp
  <2>3. QED  BY <2>1, <2>2, AmongNone
<1> HIDE DEF sb, Sp
<1>16. B \in Seq(Earlier) /\ Message("summary") \in Range(B)
  <2>1. /\ B \in Seq(Earlier) /\ Len(B) = Len(sb) + Len(A2)
        /\ \A i \in 1..Len(sb) : B[i] = sb[i]
    <3>1. sb \in Seq(Earlier)
      BY <1>14
    <3>2. A2 \in Seq(Earlier)
      BY <1>12
    <3>3. QED  BY <3>1, <3>2, Joined
  <2>2. Len(A2) \in Nat
    BY <1>12
  <2> HIDE DEF B
  <2>3. 1 \in DOMAIN B /\ B[1] = Message("summary")
    BY <1>14, <2>1, <2>2
  <2>4. QED  BY <2>1, <2>3 DEF Range
<1>17. h = P \o R
  <2> DEFINE t == (A2 \o q) \o told
             Bq == B \o q
             Ps == P \o sb
             A2q == A2 \o q
  <2>1. A2 \in Seq(Known) /\ sb \in Seq(Known) /\ B \in Seq(Known)
    BY <1>12, <1>14, <1>16, KnownKinds, Wider
  <2>2. A2q \in Seq(Known) /\ Ps \in Seq(Known)
    <3>1. A2q \in Seq(Known)
      BY <1>4, <2>1, Joined
    <3>2. Ps \in Seq(Known)
      BY <1>4, <2>1, Joined
    <3>3. QED  BY <3>1, <3>2
  <2>3. t \in Seq(Known)
    <3> HIDE DEF A2q
    <3>1. A2q \o told \in Seq(Known)
      BY <1>4, <2>2, Joined
    <3>2. QED  BY <3>1 DEF A2q
  <2>4. (P \o sb) \o t = P \o (sb \o t)
    <3> HIDE DEF t
    <3>1. Three(Known, P, sb, t)
      BY <1>4, <2>1, <2>3 DEF Three
    <3>2. QED  BY <3>1, JoinedThrice
  <2>5. sb \o t = (sb \o A2q) \o told
    <3> HIDE DEF A2q
    <3>1. Three(Known, sb, A2q, told)
      BY <1>4, <2>1, <2>2 DEF Three
    <3>2. (sb \o A2q) \o told = sb \o (A2q \o told)
      BY <3>1, JoinedThrice
    <3>3. QED  BY <3>2 DEF A2q
  <2>6. (sb \o A2) \o q = sb \o (A2 \o q)
    <3>1. Three(Known, sb, A2, q)
      BY <1>4, <2>1 DEF Three
    <3>2. QED  BY <3>1, JoinedThrice
  <2>7. h = (P \o sb) \o t
    BY <1>5, <1>6, <1>13
  <2>8. sb \o t = R
    BY <2>5, <2>6
  <2> HIDE DEF t, R
  <2>9. QED  BY <2>4, <2>7, <2>8
<1>18. \E d \in Seq(Known) : Conversation(old) = d \o Among(B, Sp)
  <2> DEFINE x == Among(A1, Sp)
             y == Among(A2, Sp)
             d == c \o x
  <2>1. Among(A1 \o A2, Sp) = Among(A1, Sp) \o Among(A2, Sp)
    <3>1. A1 \in Seq(Earlier)
      BY <1>12
    <3>2. A2 \in Seq(Earlier)
      BY <1>12
    <3>3. QED  BY <3>1, <3>2, AmongJoined
  <2>2. Among(sb \o A2, Sp) = Among(sb, Sp) \o Among(A2, Sp)
    <3>1. sb \in Seq(Earlier)
      BY <1>14
    <3>2. A2 \in Seq(Earlier)
      BY <1>12
    <3>3. QED  BY <3>1, <3>2, AmongJoined
  <2>3. x \in Seq(Known) /\ y \in Seq(Known)
    <3>1. x \in Seq(Earlier \cap Sp) /\ y \in Seq(Earlier \cap Sp)
      BY <1>12, AmongIs
    <3>2. Earlier \cap Sp \subseteq Known
      BY KnownKinds
    <3> DEFINE E == Earlier \cap Sp
    <3> HIDE DEF x, y, E
    <3>3. x \in Seq(E) /\ y \in Seq(E)
      BY <3>1 DEF E
    <3>4. E \subseteq Known
      BY <3>2 DEF E
    <3>5. QED  BY <3>3, <3>4, Wider
  <2> HIDE DEF x, y
  <2>4. << >> \o y = y
    BY <2>3, JoinedWithNone
  <2>5. Among(B, Sp) = y
    BY <1>15, <2>2, <2>4 DEF y
  <2>6. Three(Known, c, x, y)
    BY <2>3 DEF Three
  <2>7. (c \o x) \o y = c \o (x \o y)
    BY <2>6, JoinedThrice
  <2>8. Conversation(old) = c \o (x \o y)
    BY <1>2, <1>12, <2>1 DEF x, y
  <2>9. d \in Seq(Known)
    BY <2>3, Joined
  <2>10. QED  BY <2>5, <2>7, <2>8, <2>9
<1> HIDE DEF B
<1>19. Follows(R, old, told)
  BY <1>16, <1>18 DEF Follows, q, Sp
<1>20. QED  BY <1>17, <1>19

\* An answer or the results at the end of both.
LEMMA Answered ==
  ASSUME NEW P \in Seq(Instructing), NEW Q, NEW old, NEW told \in Seq(Saying),
         Follows(Q, old, told), NEW m \in Saying
  PROVE  \E R : Append(P \o Q, m) = P \o R /\ Follows(R, old, Append(told, m))
<1> DEFINE q == <<TheQuestion>>
           Sp == Of(Spoken)
<1>1. PICK A \in Seq(Earlier) :
        /\ Q = (A \o q) \o told
        /\ \E c \in Seq(Known) : Conversation(old) = c \o Among(A, Sp)
        /\ Message("summary") \in Range(A) \/ Conversation(old) = Among(A, Sp)
  BY DEF Follows
<1>2. Q \in Seq(Known)
  BY FollowsIs
<1>3. P \in Seq(Known) /\ A \in Seq(Known) /\ q \in Seq(Known) /\ told \in Seq(Known) /\ m \in Known
  BY KnownKinds
<1> DEFINE Aq == A \o q
           R == Append(Q, m)
<1>4. Aq \in Seq(Known)
  BY <1>3, Joined
<1>5. Append(P \o Q, m) = P \o R
  <2>1. P \in Seq(Known)
    BY <1>3
  <2>2. m \in Known
    BY <1>3
  <2>3. Append(P \o Q, m) = P \o Append(Q, m) /\ Append(Q, m) = Q \o <<m>>
    BY <1>2, <2>1, <2>2, AppendJoined
  <2>4. QED  BY <2>3
<1>6. R = Aq \o Append(told, m)
  <2>0. Aq \in Seq(Known)
    BY <1>4
  <2>1. told \in Seq(Known)
    BY <1>3
  <2>2. m \in Known
    BY <1>3
  <2> HIDE DEF Aq
  <2>3. ASSUME NEW s \in Seq(Known)
        PROVE  Append(Aq \o s, m) = Aq \o Append(s, m) /\ Append(s, m) = s \o <<m>>
    BY <2>0, <2>2, AppendJoined
  <2>4. Q = Aq \o told
    BY <1>1 DEF Aq
  <2>5. QED  BY <2>1, <2>3, <2>4
<1> HIDE DEF R, Sp, q
<1>7. Follows(R, old, Append(told, m))
  BY <1>1, <1>6 DEF Follows, q, Sp
<1>8. QED  BY <1>5, <1>7 DEF R

\* What is kept of it is the end of the conversation, the question and what
\* was said: all of it, unless a summary is in front.
LEMMA KeptIs ==
  ASSUME NEW Q, NEW old, NEW told \in Seq(Saying), Follows(Q, old, told)
  PROVE  /\ IsSuffix(Conversation(Q), Conversation(old) \o <<TheQuestion>> \o told)
         /\ TheQuestion \in Range(Q)
         /\ ~(\E m \in Range(Q) : IsSystem(m))
         /\ \/ Message("summary") \in Range(Q)
            \/ Conversation(Q) = Conversation(old) \o <<TheQuestion>> \o told
<1> DEFINE q == <<TheQuestion>>
           Sp == Of(Spoken)
<1>1. PICK A \in Seq(Earlier) :
        /\ Q = (A \o q) \o told
        /\ \E c \in Seq(Known) : Conversation(old) = c \o Among(A, Sp)
        /\ Message("summary") \in Range(A) \/ Conversation(old) = Among(A, Sp)
  BY DEF Follows
<1>2. PICK c \in Seq(Known) : Conversation(old) = c \o Among(A, Sp)
  BY <1>1
<1>3. Q \in Seq(Known) /\ \A k \in 1..Len(Q) : Q[k] \notin Instructing
  BY FollowsIs
<1>4. A \in Seq(Known) /\ q \in Seq(Known) /\ told \in Seq(Known)
  BY KnownKinds
<1> DEFINE x == Among(A, Sp)
           xq == x \o q
           t == xq \o told
<1>5. x \in Seq(Known)
  <2> DEFINE E == Known \cap Sp
  <2>1. E \subseteq Known
    OBVIOUS
  <2>2. x \in Seq(E)
    <3> HIDE DEF Sp
    <3>1. A \in Seq(Known)
      BY <1>4
    <3>2. QED  BY <3>1, AmongIs
  <2> HIDE DEF E, x
  <2>3. QED  BY <2>1, <2>2, Wider
<1>6. Conversation(Q) = t
  <2>1. Conversation(Q) = Among(Q, Sp)
    BY <1>3, OnlyIs DEF Conversation
  <2>2. q \in Seq(Sp) /\ Saying \subseteq Sp
    <3>1. \A k \in {"question", "answer", "result"} : k \in Kinds /\ k \in Spoken
      BY KindsApart DEF Spoken
    <3>2. \A k \in {"question", "answer", "result"} : Message(k) \in Sp
      BY <3>1, KnownKinds, KindsApart DEF Of
    <3>3. QED  BY <3>2 DEF Saying, TheQuestion
  <2> HIDE DEF Sp, q
  <2>3. Among(q, Sp) = q
    BY <2>2, AmongAll
  <2>4. Among(told, Sp) = told
    BY <2>2, AmongAll
  <2>5. Three(Known, A, q, told)
    BY <1>4 DEF Three
  <2>6. Among((A \o q) \o told, Sp) = (Among(A, Sp) \o Among(q, Sp)) \o Among(told, Sp)
    BY <2>5, AmongThree
  <2>7. QED  BY <1>1, <2>1, <2>3, <2>4, <2>6
<1> HIDE DEF x, Sp
<1>7. xq \in Seq(Known)
  <2> HIDE DEF q
  <2>1. q \in Seq(Known)
    BY <1>4
  <2>2. QED  BY <1>5, <2>1, Joined
<1>8. t \in Seq(Known) /\ t # << >>
  <2> HIDE DEF xq
  <2>1. told \in Seq(Known)
    BY <1>4
  <2>2. t \in Seq(Known) /\ Len(t) = Len(xq) + Len(told)
    BY <1>7, <2>1, Joined
  <2>3. Len(xq) = Len(x) + 1
    <3>1. q \in Seq(Known) /\ Len(q) = 1
      BY <1>4
    <3> HIDE DEF q
    <3>2. Len(x \o q) = Len(x) + Len(q)
      BY <1>5, <3>1, Joined
    <3>3. QED  BY <3>1, <3>2 DEF xq
  <2>4. Len(x) \in Nat /\ Len(told) \in Nat
    BY <1>4, <1>5
  <2>5. Len(t) # 0
    BY <2>2, <2>3, <2>4
  <2>6. QED  BY <2>2, <2>5
<1>9. Conversation(old) \o q \o told = c \o t
  <2> DEFINE cx == c \o x
  <2>1. Three(Known, c, x, q) /\ Three(Known, c, xq, told)
    BY <1>4, <1>5, <1>7 DEF Three
  <2>2. (c \o x) \o q = c \o (x \o q)
    BY <2>1, JoinedThrice
  <2>3. (c \o xq) \o told = c \o (xq \o told)
    <3> HIDE DEF xq
    <3>1. QED  BY <2>1, JoinedThrice
  <2>4. Conversation(old) = c \o x
    BY <1>2 DEF x
  <2>5. QED  BY <2>2, <2>3, <2>4
<1>10. IsSuffix(Conversation(Q), Conversation(old) \o q \o told)
  <2>1. IsSuffix(t, c \o t)
    <3> HIDE DEF t
    <3>1. QED  BY <1>8, EndIsSuffix
  <2>2. QED  BY <1>6, <1>9, <2>1
<1> DEFINE Aq == A \o q
<1>11. /\ Aq \in Seq(Known) /\ Len(Aq) = Len(A) + 1
       /\ \A i \in 1..Len(A) : Aq[i] = A[i]
       /\ Aq[Len(A) + 1] = TheQuestion
  <2>1. Len(q) = 1 /\ q[1] = TheQuestion
    OBVIOUS
  <2>0. q \in Seq(Known)
    BY <1>4
  <2> HIDE DEF q
  <2>2. A \in Seq(Known)
    BY <1>4
  <2>3. /\ A \o q \in Seq(Known) /\ Len(A \o q) = Len(A) + Len(q)
        /\ \A i \in 1..Len(A) : (A \o q)[i] = A[i]
        /\ \A i \in 1..Len(q) : (A \o q)[Len(A) + i] = q[i]
    BY <2>0, <2>2, Joined
  <2>4. QED  BY <2>1, <2>3
<1>12. /\ Len(Q) = Len(Aq) + Len(told) /\ Len(Aq) \in Nat /\ Len(told) \in Nat
       /\ \A i \in 1..Len(Aq) : Q[i] = Aq[i]
  <2>0. Q = Aq \o told
    BY <1>1
  <2> HIDE DEF Aq
  <2>1. told \in Seq(Known)
    BY <1>4
  <2>2. Aq \in Seq(Known)
    BY <1>11
  <2>3. /\ Len(Aq \o told) = Len(Aq) + Len(told)
        /\ \A i \in 1..Len(Aq) : (Aq \o told)[i] = Aq[i]
    BY <2>1, <2>2, Joined
  <2>4. QED  BY <2>0, <2>1, <2>2, <2>3
<1> HIDE DEF Aq
<1>13. /\ DOMAIN Q = 1..Len(Q) /\ DOMAIN A = 1..Len(A) /\ Len(A) \in Nat
       /\ \A i \in 1..Len(A) : i \in 1..Len(Q) /\ Q[i] = A[i]
       /\ Len(A) + 1 \in 1..Len(Q) /\ Q[Len(A) + 1] = TheQuestion
  <2>1. DOMAIN Q = 1..Len(Q) /\ DOMAIN A = 1..Len(A) /\ Len(A) \in Nat
    BY <1>3, <1>4
  <2>2. ASSUME NEW i \in 1..Len(A)
        PROVE  i \in 1..Len(Q) /\ Q[i] = A[i]
    <3>1. i \in 1..Len(Aq) /\ i \in 1..Len(Q)
      BY <1>11, <1>12, <2>1
    <3>2. QED  BY <1>11, <1>12, <3>1
  <2>3. Len(A) + 1 \in 1..Len(Aq) /\ Len(A) + 1 \in 1..Len(Q)
    BY <1>11, <1>12, <2>1
  <2>4. Q[Len(A) + 1] = TheQuestion
    BY <1>11, <1>12, <2>3
  <2>5. QED  BY <2>1, <2>2, <2>3, <2>4
<1>14. TheQuestion \in Range(Q) /\ Range(A) \subseteq Range(Q)
  BY <1>13 DEF Range
<1>15. ~(\E m \in Range(Q) : IsSystem(m))
  <2>1. ASSUME NEW k \in DOMAIN Q  PROVE ~IsSystem(Q[k])
    <3>1. k \in 1..Len(Q)
      BY <1>13
    <3>2. Q[k] \in Known /\ Q[k] \notin Instructing
      BY <1>3, <3>1
    <3>3. QED  BY <3>2, KnownKinds
  <2>2. QED  BY <2>1 DEF Range
<1>16. CASE Message("summary") \in Range(A)
  BY <1>10, <1>14, <1>15, <1>16
<1>17. CASE Conversation(old) = Among(A, Sp)
  BY <1>6, <1>10, <1>14, <1>15, <1>17 DEF x
<1>18. QED  BY <1>1, <1>16, <1>17 DEF Sp

\* What the model is asked with has everything once and in its place.
Whole(h, P, ids, plan) ==
  /\ \A k \in (PrefixLength(h) + 1)..Len(h) : ~IsSystem(h[k])
  /\ \A m \in Stable \cup {TheQuestion} : Cardinality({k \in DOMAIN h : h[k] = m}) = 1
  /\ Only(h, {"prompt"}) = PromptTexts(ids)
  /\ Cardinality({k \in DOMAIN h : h[k] = Message("plan")}) = (IF plan THEN 1 ELSE 0)
  /\ Only(h, {"skill"}) = Among(P, Of({"skill"}))

LEMMA WholeIs ==
  ASSUME NEW P, NEW ids, NEW plan, NEW Q, NEW old, NEW told \in Seq(Saying),
         InFront(P, ids, plan), Follows(Q, old, told)
  PROVE  Whole(P \o Q, P, ids, plan)
<1> DEFINE h == P \o Q
<1> DEFINE N == Known \ Instructing
<1>1. /\ Q \in Seq(Known) /\ Q \in Seq(N) /\ Q # << >> /\ Q[1] \notin Instructing
      /\ \A k \in 1..Len(Q) : Q[k] \notin Instructing
      /\ Len(Among(Q, {TheQuestion})) = 1
  BY FollowsIs
<1>2. P \in Seq(Instructing) /\ P \in Seq(Known)
  BY KnownKinds DEF InFront
<1>3. /\ h \in Seq(Known) /\ Len(h) = Len(P) + Len(Q)
      /\ \A i \in 1..Len(Q) : h[Len(P) + i] = Q[i]
  <2>1. P \in Seq(Known)
    BY <1>2
  <2>2. Q \in Seq(Known)
    BY <1>1
  <2>3. QED  BY <2>1, <2>2, Joined
<1>4. PrefixLength(h) = Len(P)
  BY <1>1, <1>2, PrefixIs
<1>5. ASSUME NEW k \in (PrefixLength(h) + 1)..Len(h)
      PROVE  ~IsSystem(h[k])
  <2> DEFINE i == k - Len(P)
  <2>1. Len(P) \in Nat /\ Len(Q) \in Nat
    BY <1>1, <1>2
  <2>2. i \in 1..Len(Q) /\ Len(P) + i = k
    BY <1>3, <1>4, <2>1
  <2> HIDE DEF i
  <2>3. h[k] = Q[i] /\ Q[i] \in Known /\ Q[i] \notin Instructing
    BY <1>1, <1>3, <2>2
  <2>4. QED  BY <2>3, KnownKinds
<1>6. ASSUME NEW T
      PROVE  Among(h, T) = Among(P, T) \o Among(Q, T)
  <2>1. P \in Seq(Known)
    BY <1>2
  <2>2. Q \in Seq(Known)
    BY <1>1
  <2>3. Among(P \o Q, T) = Among(P, T) \o Among(Q, T)
    BY <2>1, <2>2, AmongJoined
  <2>4. QED  BY <2>3
\* What only the front may have.
<1>7. ASSUME NEW T \in SUBSET Instructing
      PROVE  Among(h, T) = Among(P, T)
  <2> DEFINE x == Among(P, T)
             I == Instructing \cap T
  <2>1. Among(Q, T) = << >>
    <3>1. N \cap T = {}
      OBVIOUS
    <3>2. Q \in Seq(N)
      BY <1>1
    <3> HIDE DEF N
    <3>3. QED  BY <3>1, <3>2, AmongNone
  <2>2. x \in Seq(I)
    BY <1>2, AmongIs
  <2> HIDE DEF I
  <2>3. x \o << >> = x
    <3> HIDE DEF x
    <3>1. QED  BY <2>2, JoinedWithNone
  <2>4. QED  BY <1>6, <2>1, <2>3
<1>8. ASSUME NEW m \in Stable
      PROVE  Cardinality({k \in DOMAIN h : h[k] = m}) = 1
  <2> DEFINE T == {m}
  <2>1. T \in SUBSET Instructing
    BY KnownKinds
  <2>2. Len(Among(P, T)) = 1
    BY DEF InFront
  <2> HIDE DEF T
  <2>3. Among(h, T) = Among(P, T)
    BY <1>7, <2>1
  <2>4. Len(Among(h, {m})) = 1
    BY <2>2, <2>3 DEF T
  <2>5. QED  BY <1>3, <2>4, CountIs
<1>9. Cardinality({k \in DOMAIN h : h[k] = TheQuestion}) = 1
  <2> DEFINE T == {TheQuestion}
             y == Among(Q, T)
             J == Known \cap T
  <2>1. Instructing \cap T = {}
    BY KnownKinds
  <2>2. Len(y) = 1
    BY <1>1
  <2> HIDE DEF T
  <2>3. Among(P, T) = << >>
    BY <1>2, <2>1, AmongNone
  <2>4. y \in Seq(J)
    BY <1>1, AmongIs
  <2>5. << >> \o y = y
    <3> HIDE DEF y, J
    <3>1. QED  BY <2>4, JoinedWithNone
  <2>6. Among(h, T) = y
    BY <1>6, <2>3, <2>5
  <2>7. Len(Among(h, {TheQuestion})) = 1
    BY <2>2, <2>6 DEF T
  <2>8. QED  BY <1>3, <2>7, CountIs
<1>10. Only(h, {"prompt"}) = PromptTexts(ids)
  <2> DEFINE T == Of({"prompt"})
  <2>1. T \in SUBSET Instructing
    BY OfApart
  <2>2. Among(P, T) = PromptTexts(ids)
    BY DEF InFront
  <2>3. Only(h, {"prompt"}) = Among(h, T)
    BY <1>3, OnlyIs
  <2> HIDE DEF T
  <2>4. QED  BY <1>7, <2>1, <2>2, <2>3
<1>11. Cardinality({k \in DOMAIN h : h[k] = Message("plan")}) = (IF plan THEN 1 ELSE 0)
  <2> DEFINE T == {Message("plan")}
  <2>1. T \in SUBSET Instructing
    BY KnownKinds
  <2>2. Len(Among(P, T)) = IF plan THEN 1 ELSE 0
    BY DEF InFront
  <2> HIDE DEF T
  <2>3. Among(h, T) = Among(P, T)
    BY <1>7, <2>1
  <2>4. Len(Among(h, {Message("plan")})) = (IF plan THEN 1 ELSE 0)
    BY <2>2, <2>3 DEF T
  <2>5. QED  BY <1>3, <2>4, CountIs
<1>12. Only(h, {"skill"}) = Among(P, Of({"skill"}))
  <2> DEFINE T == Of({"skill"})
  <2>1. T \in SUBSET Instructing
    BY OfApart
  <2>2. Only(h, {"skill"}) = Among(h, T)
    BY <1>3, OnlyIs
  <2> HIDE DEF T
  <2>3. QED  BY <1>7, <2>1, <2>2 DEF T
<1>13. QED  BY <1>5, <1>8, <1>9, <1>10, <1>11, <1>12 DEF Whole

-----------------------------------------------------------------------------
(***************************************************************************)
(* Its steps                                                               *)
(***************************************************************************)
LEMMA ReplyIs ==
  /\ Reply \in Actors /\ Reply \notin Tools /\ Reply \in Loops /\ Reply # App
  /\ Before(Reply) = 2 /\ Len(Script(Reply)) = 4
BY PromptAssumption, EngineAssumption DEF Actors, Before, Script

LEMMA EngineSteps == [PromptNext]_promptVars => [Next]_vars
<1>1. ASSUME PromptNext  PROVE Next \/ UNCHANGED vars
  <2>1. CASE Ask
    BY <1>1, <2>1, ReplyIs DEF PromptNext, Next, Step, Ask
  <2>2. CASE EmitOfReply
    BY <1>1, <2>2, ReplyIs DEF PromptNext, Next, Step, EmitOfReply
  <2>3. CASE PromptOrAction
    BY <1>1, <2>3, ReplyIs DEF PromptNext, Next, Step, PromptOrAction
  <2>4. CASE Turn \/ Answer \/ Results
    BY <2>4 DEF Turn, Answer, Results
  <2>5. CASE RunEnds
    BY <1>1, <2>5, ReplyIs DEF PromptNext, Next, Step, RunEnds
  <2>6. CASE Others
    BY <1>1, <2>6 DEF PromptNext, Next, Others
  <2>7. QED  BY <1>1, <2>1, <2>2, <2>3, <2>4, <2>5, <2>6 DEF PromptNext
<1>2. QED  BY <1>1 DEF promptVars

\* Where the loop of emit leaves the reply.
Passes(s, e) ==
  \/ e.phase \in {"rejected", "acting"} /\ e.step = s
  \/ e.phase = PhaseAfter(Reply, s) /\ e.step = s + 1

LEMMA IteratePasses ==
  ASSUME TypeOK, NEW list, NEW from, Iterate(Reply, list, from)
  PROVE  Passes(actors[Reply].step, actors'[Reply])
<1> DEFINE s == actors[Reply].step
<1>1. actors \in [Actors -> Emitters] /\ actors[Reply] \in Emitters /\ Reply \in Actors
  BY ReplyIs DEF TypeOK
<1>2. PICK stop : 
        actors' = [actors EXCEPT ![Reply] =
             IF ~(stop <= Len(list)) THEN [@ EXCEPT !.phase = PhaseAfter(Reply, s), !.list = list, !.step = s + 1]
             ELSE IF list[stop].reject THEN [@ EXCEPT !.phase = "rejected", !.list = list]
             ELSE [@ EXCEPT !.phase = "acting", !.list = list,
                            !.at = stop, !.left = list[stop].actions]]
  BY DEF Iterate
<1>3. CASE ~(stop <= Len(list))
  <2>1. actors'[Reply] = [actors[Reply] EXCEPT !.phase = PhaseAfter(Reply, s), !.list = list, !.step = s + 1]
    BY <1>1, <1>2, <1>3
  <2> HIDE DEF s
  <2>2. actors'[Reply].phase = PhaseAfter(Reply, s) /\ actors'[Reply].step = s + 1
    BY <1>1, <2>1 DEF Emitters
  <2>3. QED  BY <2>2 DEF Passes, s
<1>4. CASE stop <= Len(list) /\ list[stop].reject
  <2>1. actors'[Reply] = [actors[Reply] EXCEPT !.phase = "rejected", !.list = list]
    BY <1>1, <1>2, <1>4
  <2>2. QED  BY <1>1, <2>1 DEF Passes, Emitters
<1>5. CASE stop <= Len(list) /\ ~list[stop].reject
  <2>1. actors'[Reply] = [actors[Reply] EXCEPT !.phase = "acting", !.list = list,
                                               !.at = stop, !.left = list[stop].actions]
    BY <1>1, <1>2, <1>5
  <2>2. QED  BY <1>1, <2>1 DEF Passes, Emitters
<1>6. QED  BY <1>3, <1>4, <1>5

\* What the request is, from the event before the run to what is committed.
Going == {"ready", "acting"}

PartsSound ==
  /\ prompts \in Seq(PromptRules) /\ said \in Seq(Saying)
  /\ actors[Reply].phase # "done" => session \in Sessions

WaitsSound ==
  /\ waits # "" => actors[Reply].phase = "body"
  /\ actors[Reply].phase = "waiting" => said = << >>

BeforeRun ==
  actors[Reply].phase \in Going /\ actors[Reply].step <= 2 => history = Request /\ said = << >>

InRun ==
  actors[Reply].phase = "body" =>
    \E P, Q : /\ history = P \o Q
              /\ InFront(P, prompts, planned) /\ Follows(Q, session, said)
              /\ waits = "model" /\ active # << >> =>
                   Among(P, Of({"skill"})) = SkillTexts(active)

AfterRun ==
  actors[Reply].phase \in Going /\ actors[Reply].step > 2 =>
    said = << >> \/ Follows(history, session, said)

PromptInv == PartsSound /\ WaitsSound /\ BeforeRun /\ InRun /\ AfterRun

LEMMA PromptInvInit == PromptInit => PromptInv
<1> SUFFICES ASSUME PromptInit  PROVE PromptInv
  OBVIOUS
<1>1. actors[Reply].phase = "waiting"
  BY ReplyIs DEF PromptInit, Init, Waiting
<1>2. session \in Sessions /\ prompts = << >> /\ waits = "" /\ said = << >>
  BY DEF PromptInit
<1>3. PartsSound /\ WaitsSound
  <2>1. << >> \in Seq(PromptRules) /\ << >> \in Seq(Saying)
    OBVIOUS
  <2>2. PartsSound
    BY <1>2, <2>1 DEF PartsSound
  <2>3. WaitsSound
    BY <1>1, <1>2 DEF WaitsSound
  <2>4. QED  BY <2>2, <2>3
<1>4. BeforeRun /\ InRun /\ AfterRun
  BY <1>1 DEF BeforeRun, InRun, AfterRun, Going
<1>5. QED  BY <1>3, <1>4 DEF PromptInv

\* The run begins with the request, the prompts in front of it and the note.
Fronted(old, ids) == PromptTexts(ids) \o ((Opening \o old) \o <<TheQuestion>>)
Noted(h, plan) == IF plan THEN Inserted(h, PrefixLength(h), <<Message("plan")>>) ELSE h

LEMMA Assembled ==
  ASSUME NEW old \in Sessions, NEW ids \in Seq(PromptRules), NEW plan \in BOOLEAN
  PROVE  \E P, Q : /\ Noted(Fronted(old, ids), plan) = P \o Q
                  /\ InFront(P, ids, plan) /\ Follows(Q, old, << >>)
<1> DEFINE q == <<TheQuestion>>
           h == Fronted(old, ids)
           g == Noted(h, plan)
<1>1. PICK P \in Seq(Instructing), A \in Seq(Earlier) :
        /\ h = P \o ((A \o q) \o << >>)
        /\ InFront(P, ids, FALSE)
        /\ Conversation(old) = Among(A, Of(Spoken))
  BY RequestIs DEF Fronted
<1> HIDE DEF h
<1>0. g = IF plan THEN Inserted(h, PrefixLength(h), <<Message("plan")>>) ELSE h
  BY DEF Noted
<1> HIDE DEF g
<1> DEFINE Q == (A \o q) \o << >>
           x == Among(A, Of(Spoken))
           none == << >>
<1>2. none \in Seq(Saying) /\ none \in Seq(Known)
  OBVIOUS
<1>3. Follows(Q, old, none)
  <2>1. x \in Seq(Earlier \cap Of(Spoken))
    <3> DEFINE T == Of(Spoken)
    <3> HIDE DEF T
    <3>1. Among(A, T) \in Seq(Earlier \cap T)
      BY AmongIs
    <3>2. QED  BY <3>1 DEF T
  <2> DEFINE E == Earlier \cap Of(Spoken)
  <2> HIDE DEF x, E
  <2>2. none \o x = x
    <3>1. x \in Seq(E)
      BY <2>1 DEF E
    <3>2. QED  BY <3>1, JoinedWithNone
  <2>3. Conversation(old) = none \o x
    BY <1>1, <2>2 DEF x
  <2>4. Conversation(old) = x
    BY <1>1 DEF x
  <2> HIDE DEF none
  <2>5. \E c \in Seq(Known) : Conversation(old) = c \o Among(A, Of(Spoken))
    BY <1>2, <2>3 DEF x
  <2>6. Q = (A \o <<TheQuestion>>) \o none
    BY DEF none
  <2> HIDE DEF Q
  <2>7. QED  BY <2>4, <2>5, <2>6 DEF Follows, x
<1>4. Q \in Seq(Known) /\ Q # << >> /\ Q[1] \notin Instructing
  <2> HIDE DEF Q, none
  <2>1. QED  BY <1>2, <1>3, FollowsIs
<1> HIDE DEF Q
<1>5. CASE ~plan
  <2>1. g = P \o Q
    BY <1>0, <1>1, <1>5 DEF Q
  <2>2. InFront(P, ids, plan)
    BY <1>1, <1>5
  <2>3. QED  BY <1>3, <2>1, <2>2 DEF g, h
<1>6. CASE plan
  <2> DEFINE m == Message("plan")
             R == P \o <<m>>
  <2>1. h = P \o Q
    BY <1>1 DEF Q
  <2>2. g = Inserted(h, PrefixLength(h), <<m>>)
    BY <1>0, <1>6
  <2> HIDE DEF m
  <2>3. Inserted(P \o Q, PrefixLength(P \o Q), <<m>>) = (P \o <<m>>) \o Q
    BY <1>4, NoteInserted
  <2>4. g = R \o Q
    BY <2>1, <2>2, <2>3
  <2>5. InFront(R, ids, TRUE)
    BY <1>1, NoteIs DEF m
  <2>6. InFront(R, ids, plan)
    BY <1>6, <2>5
  <2> HIDE DEF R
  <2>7. QED  BY <1>3, <2>4, <2>6 DEF g, h
<1>7. QED  BY <1>5, <1>6

\* The emits of the reply.
LEMMA EmitKeeps ==
  ASSUME IInv, PromptInv, NEW ids \in Seq(PromptRules), Commit(ids), waits' = waits,
         actors[Reply].phase \in Going,
         Passes(actors[Reply].step, actors'[Reply])
  PROVE  PromptInv'
<1> DEFINE s == actors[Reply].step
           e == actors'[Reply]
<1>1. s \in 1..4 /\ Reply \in Actors
  <2>1. s \in Nat /\ s \in 1..(Len(Script(Reply)) + 1) /\ s <= Len(Script(Reply))
    BY ReplyIs DEF IInv, TypeOK, StepsSound, Going, Emitters
  <2>2. QED  BY <2>1, ReplyIs
<1>2. /\ session \in Sessions /\ prompts \in Seq(PromptRules) /\ said \in Seq(Saying)
      /\ waits = "" /\ waits' = ""
  BY DEF PromptInv, PartsSound, WaitsSound, Going
<1>3. PhaseAfter(Reply, s) = IF s = 2 THEN "body" ELSE IF s = 4 THEN "done" ELSE "ready"
  BY ReplyIs DEF PhaseAfter
<1>4. Returns <=> e.phase = "done"
  BY DEF Returns, Going
<1>5. BodyBegins <=> e.phase = "body"
  BY DEF BodyBegins, Going
<1> HIDE DEF e
\* An action of a rule is waited for, or the call is refused.
<1>6. CASE e.phase \in {"rejected", "acting"} /\ e.step = s
  <2>1. /\ session' = session /\ said' = said /\ prompts' = ids /\ history' = history
    BY <1>4, <1>5, <1>6 DEF Commit, Assemble
  <2>2. PartsSound' /\ WaitsSound'
    BY <1>2, <1>6, <2>1 DEF PartsSound, WaitsSound, e
  <2>3. BeforeRun'
    BY <2>1, <1>6 DEF PromptInv, BeforeRun, Request, Going, e
  <2>4. InRun'
    BY <1>6 DEF InRun, e
  <2>5. AfterRun'
    BY <2>1, <1>6 DEF PromptInv, AfterRun, Going, e
  <2>6. QED  BY <2>2, <2>3, <2>4, <2>5 DEF PromptInv
\* The next event.
<1>7. CASE e.phase = "ready" /\ e.step = s + 1 /\ s \in {1, 3}
  <2>1. /\ session' = session /\ said' = said /\ prompts' = ids /\ history' = history
    BY <1>4, <1>5, <1>7 DEF Commit, Assemble
  <2>2. PartsSound' /\ WaitsSound'
    BY <1>2, <1>7, <2>1 DEF PartsSound, WaitsSound, e
  <2>3. BeforeRun'
    BY <2>1, <1>7 DEF PromptInv, BeforeRun, Request, Going, e
  <2>4. InRun'
    BY <1>7 DEF InRun, e
  <2>5. AfterRun'
    BY <2>1, <1>7 DEF PromptInv, AfterRun, Going, e
  <2>6. QED  BY <2>2, <2>3, <2>4, <2>5 DEF PromptInv
\* The run.
<1>8. CASE e.phase = "body" /\ s = 2
  <2>1. /\ session' = session /\ said' = said /\ prompts' = ids
        /\ planned' \in BOOLEAN /\ history' = WithPlan(WithPrompts(history, ids))
    BY <1>4, <1>5, <1>8 DEF Commit, Assemble
  <2>2. PartsSound' /\ WaitsSound'
    BY <1>2, <1>8, <2>1 DEF PartsSound, WaitsSound, e
  <2>3. BeforeRun' /\ AfterRun'
    BY <1>8 DEF BeforeRun, AfterRun, Going, e
  <2>4. history = Request /\ said = << >>
    BY <1>8 DEF PromptInv, BeforeRun
  <2>5. WithPrompts(history, ids) = Fronted(session, ids)
    BY <2>4 DEF WithPrompts, PromptTexts, Request, Opening, TheQuestion, Fronted
  <2>6. history' = WithPlan(Fronted(session, ids))
    BY <2>1, <2>5
  <2>7. history' = Noted(Fronted(session, ids), planned')
    BY <2>6 DEF WithPlan, Noted
  <2>8. PICK P, Q : history' = P \o Q /\ InFront(P, ids, planned') /\ Follows(Q, session, << >>)
    <3> DEFINE plan == planned'
    <3>1. plan \in BOOLEAN
      BY <2>1
    <3> HIDE DEF plan
    <3>2. \E P, Q : /\ Noted(Fronted(session, ids), plan) = P \o Q
                   /\ InFront(P, ids, plan) /\ Follows(Q, session, << >>)
      BY <1>2, <3>1, Assembled
    <3>3. QED  BY <2>7, <3>2 DEF plan
  <2>9. InRun'
    <3>1. InFront(P, prompts', planned') /\ Follows(Q, session', said')
      BY <2>1, <2>4, <2>8
    <3>2. waits' # "model"
      BY <1>2
    <3>3. QED  BY <2>8, <3>1, <3>2 DEF InRun
  <2>10. QED  BY <2>2, <2>3, <2>9 DEF PromptInv
\* The end.
<1>9. CASE e.phase = "done" /\ s = 4
  <2>1. said' = << >> /\ prompts' = prompts
    BY <1>4, <1>9 DEF Commit
  <2>2. << >> \in Seq(Saying)
    OBVIOUS
  <2>3. PartsSound'
    BY <1>2, <1>9, <2>1, <2>2 DEF PartsSound, e
  <2>4. WaitsSound'
    BY <1>2, <2>1 DEF WaitsSound
  <2>5. BeforeRun' /\ InRun' /\ AfterRun'
    BY <1>9 DEF BeforeRun, InRun, AfterRun, Going, e
  <2>6. QED  BY <2>3, <2>4, <2>5 DEF PromptInv
<1>10. s \in {1, 2, 3, 4}
  BY <1>1
<1>11. \/ e.phase \in {"rejected", "acting"} /\ e.step = s
       \/ e.phase = PhaseAfter(Reply, s) /\ e.step = s + 1
  BY DEF Passes, e
<1>12. QED  BY <1>3, <1>6, <1>7, <1>8, <1>9, <1>10, <1>11

\* The turns, answers and results of the run.
LEMMA RunKeeps ==
  ASSUME IInv, PromptInv, Turn \/ Answer \/ Results
  PROVE  PromptInv'
<1>1. /\ actors[Reply].phase = "body" /\ actors' = actors
      /\ UNCHANGED <<session, prompts, planned>>
  BY DEF Turn, Answer, Results, InBody, vars
<1>2. /\ session \in Sessions /\ prompts \in Seq(PromptRules) /\ said \in Seq(Saying)
  BY <1>1 DEF PromptInv, PartsSound
<1>3. BeforeRun' /\ AfterRun'
  BY <1>1 DEF BeforeRun, AfterRun, Going
<1>4. WaitsSound'
  BY <1>1 DEF WaitsSound
<1>5. PICK P, Q : /\ history = P \o Q
                  /\ InFront(P, prompts, planned) /\ Follows(Q, session, said)
  BY <1>1 DEF PromptInv, InRun
<1>6. P \in Seq(Instructing)
  BY <1>5 DEF InFront
<1>7. CASE Turn
  <2>1. PICK list \in ActiveLists :
          active' = list /\ history' \in {WithSkills(history, list)} \cup Compressions(WithSkills(history, list))
    BY <1>7 DEF Turn
  <2>2. said' = said
    BY <1>7 DEF Turn
  <2>3. \E R : /\ WithSkills(P \o Q, list) = R \o Q
               /\ InFront(R, prompts, planned)
               /\ list # << >> => Among(R, Of({"skill"})) = SkillTexts(list)
    <3>1. CASE list = << >>
      <4>1. WithSkills(P \o Q, list) = P \o Q
        BY <3>1 DEF WithSkills
      <4>2. QED  BY <1>5, <3>1, <4>1
    <3>2. CASE list # << >>
      <4>0. said \in Seq(Saying)
        BY <1>2
      <4>1. InFront(P, prompts, planned) /\ Follows(Q, session, said)
        BY <1>5
      <4>2. \E R : /\ WithSkills(P \o Q, list) = R \o Q
                  /\ InFront(R, prompts, planned)
                  /\ Among(R, Of({"skill"})) = SkillTexts(list)
        BY <3>2, <4>0, <4>1, SkillsSet, SMTT(60)
      <4>3. QED  BY <4>2
    <3>3. QED  BY <3>1, <3>2
  <2>4. PICK R : /\ WithSkills(P \o Q, list) = R \o Q
                 /\ InFront(R, prompts, planned)
                 /\ list # << >> => Among(R, Of({"skill"})) = SkillTexts(list)
    BY <2>3
  <2>5. R \in Seq(Instructing)
    BY <2>4 DEF InFront
  <2>6. history' \in {R \o Q} \cup Compressions(R \o Q)
    BY <1>5, <2>1, <2>4
  <2>7. \E T : history' = R \o T /\ Follows(T, session, said)
    <3>1. CASE history' = R \o Q
      BY <1>5, <3>1
    <3>2. CASE history' \in Compressions(R \o Q)
      <4>1. PICK h \in Compressions(R \o Q) : h = history'
        BY <3>2
      <4>2. \E T : h = R \o T /\ Follows(T, session, said)
        BY <1>2, <1>5, <2>5, Compressed
      <4>3. QED  BY <4>1, <4>2
    <3>3. QED  BY <2>6, <3>1, <3>2
  <2>8. InRun'
    <3>1. PICK T : history' = R \o T /\ Follows(T, session, said)
      BY <2>7
    <3>2. InFront(R, prompts', planned') /\ Follows(T, session', said')
      BY <1>1, <2>2, <2>4, <3>1
    <3>3. active' # << >> => Among(R, Of({"skill"})) = SkillTexts(active')
      BY <2>1, <2>4
    <3>4. QED  BY <3>1, <3>2, <3>3 DEF InRun
  <2>9. PartsSound'
    BY <1>1, <1>2, <2>2 DEF PartsSound
  <2>10. QED  BY <1>3, <1>4, <2>8, <2>9 DEF PromptInv
<1>8. CASE Answer \/ Results
  <2>1. PICK m \in Saying : history' = Append(history, m) /\ said' = Append(said, m)
    BY <1>8 DEF Answer, Results, Saying
  <2>2. waits' # "model"
    BY <1>8 DEF Answer, Results
  <2>3. said' \in Seq(Saying)
    BY <1>2, <2>1
  <2>4. \E R : Append(P \o Q, m) = P \o R /\ Follows(R, session, Append(said, m))
    BY <1>2, <1>5, <1>6, Answered
  <2>5. PICK R : Append(P \o Q, m) = P \o R /\ Follows(R, session, Append(said, m))
    BY <2>4
  <2>6. history' = P \o R /\ Follows(R, session', said') /\ InFront(P, prompts', planned')
    BY <1>1, <1>5, <2>1, <2>5
  <2>7. InRun'
    BY <2>2, <2>6 DEF InRun
  <2>8. PartsSound'
    BY <1>1, <1>2, <2>3 DEF PartsSound
  <2>9. QED  BY <1>3, <1>4, <2>7, <2>8 DEF PromptInv
<1>9. QED  BY <1>7, <1>8

\* A step of somebody else.
LEMMA OthersKeep ==
  ASSUME IInv, PromptInv, Others
  PROVE  PromptInv'
<1>1. UNCHANGED request
  BY DEF Others
<1>2. actors'[Reply] = actors[Reply]
  <2>1. actors \in [Actors -> Emitters] /\ Reply \in Actors /\ Reply # App
    BY ReplyIs DEF IInv, TypeOK
  <2>2. ASSUME NEW a \in Actors \ {Reply}, Step(a)  PROVE actors'[Reply] = actors[Reply]
    <3>1. \E e : actors' = [actors EXCEPT ![a] = e]
      <4>1. CASE Begin(a)
        <5>1. PICK context : actors' = [actors EXCEPT ![a].phase = "ready", ![a].context = context]
          BY <4>1 DEF Begin
        <5>2. QED  BY <5>1, <2>1
      <4>2. CASE Emit(a)
        BY <4>2 DEF Emit, Iterate
      <4>3. CASE ActionEnds(a)
        BY <4>3 DEF ActionEnds, Iterate
      <4>4. CASE BodyEnds(a) \/ Blocked(a) \/ Cancel(a)
        BY <4>4 DEF BodyEnds, Blocked, Cancel
      <4>5. QED  BY <2>2, <4>1, <4>2, <4>3, <4>4 DEF Step
    <3>2. QED  BY <2>1, <2>2, <3>1
  <2>3. ASSUME NEW t \in DOMAIN background, BackgroundActs(t)  PROVE actors'[Reply] = actors[Reply]
    BY <2>3 DEF BackgroundActs
  <2>4. CASE Reload
    BY <2>4 DEF Reload
  <2>5. CASE DrainBegins \/ DrainEnds \/ DrainTimesOut
    BY <2>1, <2>5 DEF DrainBegins, DrainEnds, DrainTimesOut
  <2>6. QED  BY <2>2, <2>3, <2>4, <2>5 DEF Others
<1>3. QED
  BY <1>1, <1>2 DEF request, PromptInv, PartsSound, WaitsSound, BeforeRun, InRun, AfterRun, Request

LEMMA PromptInvNext == IInv /\ PromptInv /\ [PromptNext]_promptVars => PromptInv'
<1> SUFFICES ASSUME IInv, PromptInv, [PromptNext]_promptVars  PROVE PromptInv'
  OBVIOUS
<1>0. actors \in [Actors -> Emitters] /\ Reply \in Actors /\ actors[Reply] \in Emitters
  BY ReplyIs DEF IInv, TypeOK
<1>1. CASE Ask
  <2>1. PICK context : actors' = [actors EXCEPT ![Reply].phase = "ready", ![Reply].context = context]
    BY <1>1 DEF Ask, Begin
  <2>2. actors[Reply].phase = "waiting" /\ actors[Reply].step = 1
    BY <1>0, <1>1 DEF Ask, Begin, IInv, StepsSound
  <2>3. actors'[Reply].phase = "ready" /\ actors'[Reply].step = 1
    BY <1>0, <2>1, <2>2 DEF Emitters
  <2>4. /\ session \in Sessions /\ prompts \in Seq(PromptRules) /\ said \in Seq(Saying)
        /\ waits = "" /\ said = << >>
    BY <2>2 DEF PromptInv, PartsSound, WaitsSound
  <2>5. history' = Request /\ UNCHANGED <<session, prompts, planned, active, waits, said>>
    BY <1>1 DEF Ask
  <2>6. PartsSound' /\ WaitsSound'
    BY <2>3, <2>4, <2>5 DEF PartsSound, WaitsSound
  <2>7. BeforeRun' /\ InRun' /\ AfterRun'
    BY <2>3, <2>4, <2>5 DEF BeforeRun, InRun, AfterRun, Going, Request
  <2>8. QED  BY <2>6, <2>7 DEF PromptInv
<1>2. CASE EmitOfReply
  <2>1. Iterate(Reply, rules, 1) /\ actors[Reply].phase \in Going /\ Commit(prompts) /\ waits' = waits
    BY <1>2 DEF EmitOfReply, Emit, Going
  <2>2. Passes(actors[Reply].step, actors'[Reply])
    BY <2>1, IteratePasses DEF IInv
  <2>3. prompts \in Seq(PromptRules)
    BY DEF PromptInv, PartsSound
  <2>4. QED  BY <2>1, <2>2, <2>3, EmitKeeps
<1>3. CASE PromptOrAction
  <2> DEFINE rule == actors[Reply].list[actors[Reply].at]
  <2>1. PICK ids : /\ ids = IF rule.event = "pre_message" /\ rule.id \in PromptRules
                            THEN Append(prompts, rule.id) ELSE prompts
                   /\ Commit(ids)
    BY <1>3 DEF PromptOrAction
  <2>2. waits' = waits /\ ActionEnds(Reply)
    BY <1>3 DEF PromptOrAction
  <2>3. ids \in Seq(PromptRules)
    <3>1. prompts \in Seq(PromptRules)
      BY DEF PromptInv, PartsSound
    <3> HIDE DEF rule
    <3>2. rule.id \in PromptRules => Append(prompts, rule.id) \in Seq(PromptRules)
      BY <3>1
    <3>3. QED  BY <2>1, <3>1, <3>2 DEF rule
  <2>4. actors[Reply].phase \in Going
    BY <2>2 DEF ActionEnds, Going
  <2>5. Passes(actors[Reply].step, actors'[Reply])
    <3>1. CASE actors' = [actors EXCEPT ![Reply].left = @ - 1]
      <4>1. actors'[Reply].phase = actors[Reply].phase /\ actors'[Reply].step = actors[Reply].step
        BY <1>0, <3>1 DEF Emitters
      <4>2. actors[Reply].phase = "acting"
        BY <2>2 DEF ActionEnds
      <4>3. QED  BY <4>1, <4>2 DEF Passes
    <3>2. CASE Iterate(Reply, ListHeld(Reply), actors[Reply].at + 1)
      BY <3>2, IteratePasses DEF IInv
    <3>3. QED  BY <2>2, <3>1, <3>2 DEF ActionEnds
  <2>6. QED  BY <2>1, <2>2, <2>3, <2>4, <2>5, EmitKeeps
<1>4. CASE Turn \/ Answer \/ Results
  BY <1>4, RunKeeps
<1>5. CASE RunEnds
  <2>1. waits' = "" /\ prompts' = << >> /\ session' = session
    BY <1>5 DEF RunEnds
  <2>2. << >> \in Seq(PromptRules) /\ << >> \in Seq(Saying) /\ said \in Seq(Saying)
    BY DEF PromptInv, PartsSound
  <2>3. CASE BodyEnds(Reply) /\ history' = Rebuilt(history) /\ UNCHANGED said
    <3>1. actors[Reply].phase = "body" /\ actors' = [actors EXCEPT ![Reply].phase = "ready"]
      BY <2>3 DEF BodyEnds
    <3>2. actors[Reply].step = 3
      BY <1>0, <3>1, ReplyIs DEF IInv, StepsSound
    <3>3. actors'[Reply].phase = "ready" /\ actors'[Reply].step = 3
      BY <1>0, <3>1, <3>2 DEF Emitters
    <3>4. PICK P, Q : /\ history = P \o Q
                      /\ InFront(P, prompts, planned) /\ Follows(Q, session, said)
      BY <3>1 DEF PromptInv, InRun
    <3>5. Q \in Seq(Known) /\ Q # << >> /\ Q[1] \notin Instructing
      BY <2>2, <3>4, FollowsIs
    <3>6. Rebuilt(history) = Q
      BY <3>4, <3>5, PrefixIs DEF Rebuilt, InFront
    <3>7. session \in Sessions
      BY <3>1 DEF PromptInv, PartsSound
    <3>8. PartsSound' /\ WaitsSound'
      BY <2>1, <2>2, <2>3, <3>3, <3>7 DEF PartsSound, WaitsSound
    <3>9. BeforeRun' /\ InRun'
      BY <3>3 DEF BeforeRun, InRun
    <3>10. AfterRun'
      <4>1. Follows(history', session', said')
        BY <2>1, <2>3, <3>4, <3>6
      <4>2. QED  BY <4>1 DEF AfterRun
    <3>11. QED  BY <3>8, <3>9, <3>10 DEF PromptInv
  <2>4. CASE Cancel(Reply) /\ history' = << >> /\ said' = << >>
    <3>1. /\ actors[Reply].phase \in {"acting", "body"}
          /\ actors' = [actors EXCEPT ![Reply].phase =
                          IF actors[Reply].phase = "body" THEN "ready" ELSE "cancelled"]
      BY <2>4, ReplyIs DEF Cancel
    <3>2. /\ actors'[Reply].phase = IF actors[Reply].phase = "body" THEN "ready" ELSE "cancelled"
          /\ actors'[Reply].step = actors[Reply].step
      BY <1>0, <3>1 DEF Emitters
    <3>3. actors[Reply].phase = "body" => actors[Reply].step = 3
      BY <1>0, ReplyIs DEF IInv, StepsSound
    <3>4. session \in Sessions
      BY <3>1 DEF PromptInv, PartsSound
    <3>5. PartsSound' /\ WaitsSound'
      BY <2>1, <2>2, <2>4, <3>4 DEF PartsSound, WaitsSound
    <3>6. BeforeRun'
      BY <3>2, <3>3 DEF BeforeRun, Going
    <3>7. InRun' /\ AfterRun'
      BY <2>4, <3>2 DEF InRun, AfterRun
    <3>8. QED  BY <3>5, <3>6, <3>7 DEF PromptInv
  <2>5. QED  BY <1>5, <2>3, <2>4 DEF RunEnds
<1>6. CASE Others
  BY <1>6, OthersKeep
<1>7. CASE UNCHANGED promptVars
  <2>1. UNCHANGED request /\ actors' = actors
    BY <1>7 DEF promptVars, vars
  <2>2. QED
    BY <2>1 DEF request, PromptInv, PartsSound, WaitsSound, BeforeRun, InRun, AfterRun, Request
<1>8. QED  BY <1>1, <1>2, <1>3, <1>4, <1>5, <1>6, <1>7 DEF PromptNext

\* Only the end of the reply writes the session, and only with a history that
\* the run left.
LEMMA CommitsWhatFollows ==
  ASSUME IInv, PromptInv, PromptNext, session' # session
  PROVE  session' = history /\ Follows(history, session, said)
<1>0. actors \in [Actors -> Emitters] /\ Reply \in Actors
  BY ReplyIs DEF IInv, TypeOK
<1>1. \E ids : Commit(ids) /\ (EmitOfReply \/ PromptOrAction)
  BY DEF PromptNext, Ask, EmitOfReply, PromptOrAction, Turn, Answer, Results, RunEnds, Others, request
<1>2. Returns /\ session' = (IF said = << >> THEN session ELSE history)
  BY <1>1 DEF Commit
<1>3. said # << >> /\ session' = history
  BY <1>2
<1>4. actors[Reply].phase \in Going
  BY <1>1 DEF EmitOfReply, Emit, PromptOrAction, ActionEnds, Going
<1>5. actors'[Reply].phase = "done" /\ actors[Reply].step \in Nat
  BY <1>0, <1>2 DEF Returns, Emitters
<1>6. actors[Reply].step > 2
  <2>1. Passes(actors[Reply].step, actors'[Reply])
    <3>1. CASE Emit(Reply)
      BY <3>1, IteratePasses DEF Emit, IInv
    <3>2. CASE ActionEnds(Reply)
      <4>1. CASE actors' = [actors EXCEPT ![Reply].left = @ - 1]
        <5>1. actors'[Reply].phase = "acting"
          BY <1>0, <3>2, <4>1 DEF ActionEnds, Emitters
        <5>2. QED  BY <1>5, <5>1
      <4>2. CASE Iterate(Reply, ListHeld(Reply), actors[Reply].at + 1)
        BY <4>2, IteratePasses DEF IInv
      <4>3. QED  BY <3>2, <4>1, <4>2 DEF ActionEnds
    <3>3. QED  BY <1>1, <3>1, <3>2 DEF EmitOfReply, PromptOrAction
  <2>2. PhaseAfter(Reply, actors[Reply].step) = "done"
    BY <1>5, <2>1 DEF Passes
  <2>3. actors[Reply].step = 4
    BY <2>2, ReplyIs DEF PhaseAfter
  <2>4. QED  BY <2>3
<1>7. QED  BY <1>3, <1>4, <1>6 DEF PromptInv, AfterRun

-----------------------------------------------------------------------------
(***************************************************************************)
(* The theorems of the reply                                               *)
(***************************************************************************)
\* What the reply does to the engine are steps of the engine: its invariant,
\* and with it the theorems above, hold while a reply goes on.
THEOREM ReplyRunsTheEngine == PromptSpec => Spec
<1>1. PromptInit => Init
  BY DEF PromptInit
<1>2. QED  BY <1>1, EngineSteps, PTL DEF PromptSpec, Spec

\* The invariant behind the two theorems below: from the request to what is
\* committed, the list is system messages in front, and behind them the end of
\* the conversation, the question, and what the run has said.
THEOREM PromptInductive == PromptSpec => [](IInv /\ PromptInv)
<1>1. PromptInit => IInv /\ PromptInv
  BY IInvInit, PromptInvInit DEF PromptInit
<1>2. (IInv /\ PromptInv) /\ [PromptNext]_promptVars => (IInv /\ PromptInv)'
  BY IInvNext, EngineSteps, PromptInvNext
<1>3. QED  BY <1>1, <1>2, PTL DEF PromptSpec

\* Whenever the model is asked, the instructions, the question, the prompts of
\* rules, the plan note and the texts of the active Skills are in the list once
\* and in their place (session.py, prompts.py, agent.py), for all rules,
\* sessions, Skills and turns, and however often it was compressed.
THEOREM RequestsAreWhole == PromptSpec => []RequestWhole
<1>1. IInv /\ PromptInv => RequestWhole
  <2> SUFFICES ASSUME PromptInv, waits = "model"  PROVE RequestWhole
    BY DEF RequestWhole
  <2>1. actors[Reply].phase = "body" /\ said \in Seq(Saying)
    BY DEF PromptInv, WaitsSound, PartsSound
  <2>2. PICK P, Q : /\ history = P \o Q
                    /\ InFront(P, prompts, planned) /\ Follows(Q, session, said)
                    /\ waits = "model" /\ active # << >> =>
                         Among(P, Of({"skill"})) = SkillTexts(active)
    BY <2>1 DEF PromptInv, InRun
  <2>3. /\ \A k \in (PrefixLength(history) + 1)..Len(history) : ~IsSystem(history[k])
        /\ \A m \in Stable \cup {TheQuestion} : Cardinality({k \in DOMAIN history : history[k] = m}) = 1
        /\ Only(history, {"prompt"}) = PromptTexts(prompts)
        /\ Cardinality({k \in DOMAIN history : history[k] = Message("plan")}) = (IF planned THEN 1 ELSE 0)
        /\ Only(history, {"skill"}) = Among(P, Of({"skill"}))
    <3>1. Whole(P \o Q, P, prompts, planned)
      BY <2>1, <2>2, WholeIs
    <3>2. Whole(history, P, prompts, planned)
      BY <2>2, <3>1
    <3>3. QED  BY <3>2 DEF Whole
  <2>4. Stable \cup {TheQuestion} =
          {Message("stable"), Message("environment"), Message("instructions"), Message("question")}
    BY DEF Stable, TheQuestion
  <2>5. active # << >> => Only(history, {"skill"}) = SkillTexts(active)
    BY <2>2, <2>3
  <2>6. QED  BY <2>3, <2>4, <2>5 DEF RequestWhole, PromptTexts, SkillTexts
<1>2. QED  BY <1>1, PromptInductive, PTL

\* A reply adds the question and what the run said to the conversation, and
\* nothing of what was put around them (agent.py: rebuild_from_history,
\* session.py: commit_turn).
THEOREM ConversationIsKept == PromptSpec => OnlyConversationKept
<1>1. /\ IInv /\ PromptInv
      /\ [PromptNext]_promptVars
      => [LET whole == Conversation(session) \o <<Message("question")>> \o said
          IN  /\ IsSuffix(Conversation(session'), whole)
              /\ Message("question") \in Range(session')
              /\ ~(\E m \in Range(session') : IsSystem(m))
              /\ Message("summary") \in Range(session') \/ Conversation(session') = whole]_session
  <2> SUFFICES ASSUME IInv, PromptInv, [PromptNext]_promptVars, session' # session
               PROVE  LET whole == Conversation(session) \o <<Message("question")>> \o said
                      IN  /\ IsSuffix(Conversation(session'), whole)
                          /\ Message("question") \in Range(session')
                          /\ ~(\E m \in Range(session') : IsSystem(m))
                          /\ \/ Message("summary") \in Range(session')
                             \/ Conversation(session') = whole
    OBVIOUS
  <2>1. PromptNext
    BY DEF promptVars, request
  <2>2. session' = history /\ Follows(history, session, said)
    BY <2>1, CommitsWhatFollows
  <2>3. said \in Seq(Saying)
    BY DEF PromptInv, PartsSound
  <2>4. /\ IsSuffix(Conversation(history), Conversation(session) \o <<TheQuestion>> \o said)
        /\ TheQuestion \in Range(history)
        /\ ~(\E m \in Range(history) : IsSystem(m))
        /\ \/ Message("summary") \in Range(history)
           \/ Conversation(history) = Conversation(session) \o <<TheQuestion>> \o said
    BY <2>2, <2>3, KeptIs
  <2>5. QED  BY <2>2, <2>4 DEF TheQuestion
<1>2. QED  BY <1>1, PromptInductive, PTL DEF PromptSpec, OnlyConversationKept
=============================================================================
