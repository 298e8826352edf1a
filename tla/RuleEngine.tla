----------------------------- MODULE RuleEngine -----------------------------
(***************************************************************************)
(* The rule engine (src/zxcode/rules/engine.py, executor.py, matcher.py)   *)
(* and those who emit events to it: tool calls (dispatch.py), runs of the  *)
(* agent loop (agent.py) and the app as it exits (app.py).  All of them    *)
(* share one engine; /rules reload changes it under them.                  *)
(*                                                                         *)
(* emit waits only while an action of a rule runs: that is where others    *)
(* come in.  Left out: what an action does (it ends, fails, times out: the *)
(* engine goes on), conditions (a rule matches some contexts), templates,  *)
(* and what prompts inject.                                                *)
(***************************************************************************)
EXTENDS Integers, Sequences, FiniteSets

CONSTANTS
  Tools, Loops,    \* calls of tools and runs of the loop
  App,             \* the exit of the app
  Ids,
  Contexts,        \* what the conditions of rules tell apart
  ContextOf,       \* those that the events of an actor may have
  RuleLists,       \* what load_rules may return
  MaxReloads       \* bound

Actors == Tools \cup Loops \cup {App}

Events == {"pre_tool_use", "post_tool_use", "turn_start", "pre_message",
           "post_message", "turn_end", "session_end", "system_exit"}

Rules == [id : Ids, event : Events, when : SUBSET Contexts, once : BOOLEAN,
          async : BOOLEAN, reject : BOOLEAN, actions : Nat]

\* What _parse_rule lets through; ids are distinct within a file only.
Accepted(rule) ==
  /\ rule \in Rules
  /\ (rule.reject \/ rule.actions > 0)
  /\ rule.reject => rule.event = "pre_tool_use"
  /\ rule.async => rule.event # "pre_tool_use"

ASSUME EngineAssumption ==
  /\ App \notin Tools \cup Loops /\ Tools \cap Loops = {}
  /\ ContextOf \in [Actors -> SUBSET Contexts]
  /\ RuleLists \subseteq Seq(Rules)
  /\ \A list \in RuleLists : \A k \in 1..Len(list) : Accepted(list[k])
  /\ MaxReloads \in Nat

VARIABLES
  rules,           \* RuleEngine._rules, by event in _by_event
  done,            \* RuleEngine._done
  background,      \* RuleEngine._background: actions left of each task
  actors,          \* where each emitter is, and what its emit holds
  awaited,         \* the tasks drain found and waits for
  reloads,         \* how often the rules were reloaded
  fired            \* ghost: how often a once rule of this id was fired

vars == <<rules, done, background, actors, awaited, reloads, fired>>

\* The events an actor emits, and how many of them before its body.
Script(a) ==
  CASE a \in Tools -> <<"pre_tool_use", "post_tool_use">>
    [] a \in Loops -> <<"turn_start", "pre_message", "post_message", "turn_end">>
    [] OTHER -> <<"session_end", "system_exit">>

Before(a) == IF a \in Tools THEN 1 ELSE 2

Waiting == [phase |-> "waiting", step |-> 1, context |-> "", list |-> <<>>, at |-> 0, left |-> 0]

Init ==
  /\ rules \in RuleLists
  /\ done = {} /\ fired = [i \in Ids |-> 0] /\ reloads = 0
  /\ background = [t \in {} |-> 0]
  /\ actors = [a \in Actors |-> Waiting]
  /\ awaited = {}

Closed == actors[App].phase = "done"

(***************************************************************************)
(* emit, from one wait to the next                                         *)
(***************************************************************************)
Matches(list, k, event, context) ==
  list[k].event = event /\ context \in list[k].when

\* Rule k is reached and fires when the loop goes on from position `from`: a
\* once rule not if its id is done, here or earlier in the same stretch.
Fires(list, from, k, event, context) ==
  /\ Matches(list, k, event, context)
  /\ list[k].once =>
       /\ list[k].id \notin done
       /\ \A j \in from..(k - 1) :
            ~(Matches(list, j, event, context) /\ list[j].once /\ list[j].id = list[k].id)

\* The once rules among those that fire, and their ids.
OnceNamed(list, fires, i) == {k \in fires : list[k].once /\ list[k].id = i}
FiredOnce(list, fires) == {list[k].id : k \in {j \in fires : list[j].once}}

\* Mutant: a rule is marked when its actions have run, which is too late.
MarkAsynchronous(list, fires) == done \cup FiredOnce(list, {k \in fires : list[k].async})

Mark(list, fires) == done \cup FiredOnce(list, fires)

\* Where an actor is when its emit of event number s returns.
PhaseAfter(a, s) ==
  IF s = Before(a) THEN "body" ELSE IF s = Len(Script(a)) THEN "done" ELSE "ready"

\* The loop of emit, up to a rule that rejects, one whose actions are awaited,
\* or the end; asynchronous rules on the way become background tasks.
Iterate(a, list, from) ==
  LET s == actors[a].step
      event == Script(a)[s]
      context == actors[a].context
      Here(k) == Fires(list, from, k, event, context)
  IN  \E stop \in from..(Len(list) + 1) :
        LET passed == {k \in from..(stop - 1) : Here(k)}
            stops == stop <= Len(list)
            fires == passed \cup (IF stops THEN {stop} ELSE {})
        IN  /\ \A k \in passed : list[k].async
            /\ stops => Here(stop) /\ ~list[stop].async
            /\ done' = Mark(list, fires)
            /\ fired' = [i \in Ids |-> fired[i] + Cardinality(OnceNamed(list, fires, i))]
            /\ background' = [t \in DOMAIN background \cup {<<a, event, k>> : k \in passed} |->
                                IF t \in DOMAIN background THEN background[t] ELSE list[t[3]].actions]
            /\ actors' = [actors EXCEPT ![a] =
                 IF ~stops THEN [@ EXCEPT !.phase = PhaseAfter(a, s), !.list = list, !.step = s + 1]
                 ELSE IF list[stop].reject THEN [@ EXCEPT !.phase = "rejected", !.list = list]
                 ELSE [@ EXCEPT !.phase = "acting", !.list = list,
                                !.at = stop, !.left = list[stop].actions]]

Begin(a) ==
  /\ actors[a].phase = "waiting"
  /\ \E context \in ContextOf[a] :
       actors' = [actors EXCEPT ![a].phase = "ready", ![a].context = context]
  /\ UNCHANGED <<rules, done, background, awaited, reloads, fired>>

Emit(a) ==
  /\ actors[a].phase = "ready"
  /\ Iterate(a, rules, 1)
  /\ UNCHANGED <<rules, awaited, reloads>>

\* Mutant: the list is looked up again after the wait.
ListNow(a) == rules

\* The iterator stays on the list it was made for, whatever reload has done.
ListHeld(a) == actors[a].list

\* An action ends: output, failure, exception or its time limit, all the same
\* to the engine.  After the last one the loop goes on behind the rule.
ActionEnds(a) ==
  /\ actors[a].phase = "acting"
  /\ \/ /\ actors[a].left > 1
        /\ actors' = [actors EXCEPT ![a].left = @ - 1]
        /\ UNCHANGED <<done, background, fired>>
     \/ /\ actors[a].left = 1
        /\ Iterate(a, ListHeld(a), actors[a].at + 1)
  /\ UNCHANGED <<rules, awaited, reloads>>

\* The same in the background; a task that is done is discarded.
BackgroundActs(t) ==
  /\ background' =
       [u \in {v \in DOMAIN background : v # t \/ background[t] > 1} |->
          IF u = t THEN background[u] - 1 ELSE background[u]]
  /\ UNCHANGED <<rules, done, actors, awaited, reloads, fired>>

Reload ==
  /\ reloads < MaxReloads
  /\ rules' \in RuleLists
  /\ done' = {}
  /\ reloads' = reloads + 1
  /\ UNCHANGED <<background, actors, awaited, fired>>

(***************************************************************************)
(* What happens between the events                                         *)
(***************************************************************************)
\* The tool runs, the loop runs.
BodyEnds(a) ==
  /\ a # App /\ actors[a].phase = "body"
  /\ actors' = [actors EXCEPT ![a].phase = "ready"]
  /\ UNCHANGED <<rules, done, background, awaited, reloads, fired>>

\* _pre_hook refuses the call: it does not run, and no event follows.
Blocked(a) ==
  /\ a \in Tools /\ actors[a].phase = "body"
  /\ actors' = [actors EXCEPT ![a].phase = "done"]
  /\ UNCHANGED <<rules, done, background, awaited, reloads, fired>>

\* A cancellation ends what waits; the body of a loop has a finally that emits
\* the rest of the script.
Cancel(a) ==
  /\ a # App /\ actors[a].phase \in {"acting", "body"}
  /\ actors' = [actors EXCEPT ![a].phase =
                  IF a \in Loops /\ actors[a].phase = "body" THEN "ready" ELSE "cancelled"]
  /\ UNCHANGED <<rules, done, background, awaited, reloads, fired>>

\* drain takes the tasks there are and gathers them.
DrainBegins ==
  /\ actors[App].phase = "body"
  /\ awaited' = DOMAIN background
  /\ actors' = [actors EXCEPT ![App].phase = "draining"]
  /\ UNCHANGED <<rules, done, background, reloads, fired>>

DrainEnds ==
  /\ actors[App].phase = "draining"
  /\ awaited \cap DOMAIN background = {}
  /\ actors' = [actors EXCEPT ![App].phase = "done"]
  /\ UNCHANGED <<rules, done, background, awaited, reloads, fired>>

\* After five seconds wait_for cancels the gathering, and with it the tasks.
DrainTimesOut ==
  /\ actors[App].phase = "draining"
  /\ background' = [t \in DOMAIN background \ awaited |-> background[t]]
  /\ actors' = [actors EXCEPT ![App].phase = "done"]
  /\ UNCHANGED <<rules, done, awaited, reloads, fired>>

(***************************************************************************)
(* The specification                                                       *)
(***************************************************************************)
Step(a) == Begin(a) \/ Emit(a) \/ ActionEnds(a) \/ BodyEnds(a) \/ Blocked(a) \/ Cancel(a)

Next ==
  /\ ~Closed
  /\ \/ \E a \in Actors : Step(a)
     \/ \E t \in DOMAIN background : BackgroundActs(t)
     \/ Reload \/ DrainBegins \/ DrainEnds \/ DrainTimesOut

Spec == Init /\ [][Next]_vars

(***************************************************************************)
(* Properties                                                              *)
(***************************************************************************)
Phases == {"waiting", "ready", "acting", "body", "rejected", "cancelled", "draining", "done"}
Emitters == [phase : Phases, step : Nat, context : Contexts \cup {""},
             list : RuleLists \cup {<<>>}, at : Nat, left : Nat]

\* Every variable has its type, an action that is awaited is one of the list
\* its emit holds, and a background task has something left to do.
TypeOK ==
  /\ rules \in RuleLists
  /\ done \subseteq Ids
  /\ \A t \in DOMAIN background : background[t] \in Nat \ {0}
  /\ actors \in [Actors -> Emitters]
  /\ \A a \in Actors :
       /\ actors[a].step \in 1..(Len(Script(a)) + 1)
       /\ actors[a].phase = "acting" => actors[a].at \in 1..Len(actors[a].list)
  /\ awaited \subseteq Actors \X Events \X Nat
  /\ reloads \in 0..MaxReloads
  /\ fired \in [Ids -> Nat]

\* A once rule fires at most once per load of the rules, whoever emits while
\* its actions run, the emits of calls that began before a reload included.
OncePerLoad == \A i \in Ids : fired[i] <= reloads + 1

\* The rules of the list an emit holds, up to position n, that reject the call.
Rejecting(a, n) ==
  {k \in 1..n : /\ actors[a].list[k].reject
                /\ Matches(actors[a].list, k, "pre_tool_use", actors[a].context)}

\* Such a rule lets a call go only when it has rejected its one call already.
Excused(a, k) == actors[a].list[k].once /\ fired[actors[a].list[k].id] > 0

\* A tool runs only if no rule of the list that its emit went through rejects
\* the call, unless it is a once rule that was fired before: whatever rules
\* come first, however long their actions take, and whatever is reloaded.
RejectedNeverRuns ==
  \A a \in Tools : actors[a].phase = "body" =>
    \A k \in Rejecting(a, Len(actors[a].list)) : Excused(a, k)

-----------------------------------------------------------------------------
(***************************************************************************)
(* The inductive invariant behind them                                     *)
(***************************************************************************)
\* Where an actor is in its script, and what an emit that waits holds.
StepsSound ==
  \A a \in Actors :
    /\ actors[a].phase = "waiting" => actors[a].step = 1
    /\ actors[a].phase \in {"ready", "acting"} => actors[a].step <= Len(Script(a))
    /\ actors[a].phase = "body" => actors[a].step = Before(a) + 1
    /\ actors[a].phase = "acting" => actors[a].list \in RuleLists

BackgroundSound == DOMAIN background \subseteq Actors \X Events \X Nat

\* An id is done when it was fired since the last load.
Counted ==
  \A i \in Ids :
    /\ i \in done => fired[i] \in 1..(reloads + 1)
    /\ i \notin done => fired[i] <= reloads

\* The rules a waiting pre_tool_use has passed do not reject the call.
Vetted ==
  \A a \in Tools : actors[a].phase = "acting" /\ actors[a].step = 1 =>
    \A k \in Rejecting(a, actors[a].at) : Excused(a, k)

IInv == TypeOK /\ StepsSound /\ BackgroundSound /\ Counted /\ Vetted /\ RejectedNeverRuns
=============================================================================
