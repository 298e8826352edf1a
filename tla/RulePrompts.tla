----------------------------- MODULE RulePrompts -----------------------------
(***************************************************************************)
(* RuleEngine around one reply of the app, and what the reply sends: the   *)
(* request of session.py and prompts.py, the prompts that rules put in     *)
(* (agent.py), the plan-only note, the texts of active Skills, a           *)
(* compression on the way, and what of it comes back into the session.     *)
(*                                                                         *)
(* A message is what it is there for: the words are left out, and so is    *)
(* what AgentLoop has in detail.  Bound: the run makes one batch of calls, *)
(* the Tools.  Skills has how Skills come and go.                          *)
(***************************************************************************)
EXTENDS RuleEngine, Lists, SequencesExt, FiniteSetsExt

CONSTANTS
  Reply,           \* the run of the loop that generate started
  PromptRules,     \* ids of rules whose actions are prompts
  Sessions,        \* what ChatSession.messages may hold
  ActiveLists      \* bound: what may be active when a turn begins

VARIABLES
  session,         \* ChatSession.messages
  history,         \* the list the run works on
  prompts,         \* EmitResult.injected of pre_message
  planned,         \* config.plan_only as _run read it
  active,          \* the order of the active Skills at the last turn
  waits,           \* what the run waits for: "model", "tools" or nothing
  said             \* turn_messages

request == <<session, history, prompts, planned, active, waits, said>>
promptVars == <<vars, request>>

Message(kind) == [is |-> kind, of |-> ""]
SkillText(n) == [is |-> "skill", of |-> n]
Prompt(id) == [is |-> "prompt", of |-> id]

SystemKinds == {"stable", "environment", "instructions", "gap", "plan", "skill", "prompt"}
UserKinds == {"question", "summary", "boundary"}
Spoken == {"question", "answer", "result"}
Kinds == SystemKinds \cup UserKinds \cup Spoken
IsSystem(m) == m.is \in SystemKinds
IsUser(m) == m.is \in UserKinds

\* A conversation before this question: what was said, or summed up, and an
\* idle reminder in front, where recovery puts it.
Resumable(s) ==
  /\ s \in Seq(Range(s))
  /\ \A k \in DOMAIN s : s[k].is \in {"gap"} \cup UserKinds \cup Spoken /\ s[k] # Message("question")
  /\ \A j, k \in DOMAIN s : j < k /\ IsSystem(s[k]) => IsSystem(s[j])

ASSUME PromptAssumption ==
  /\ Reply \in Loops /\ PromptRules \subseteq Ids
  /\ \A s \in Sessions : Resumable(s)
  /\ \A list \in ActiveLists : list \in Seq(Range(list))

(***************************************************************************)
(* Lists of messages                                                       *)
(***************************************************************************)
\* How many system messages a list begins with.
PrefixLength(h) ==
  LET others == {k \in DOMAIN h : ~IsSystem(h[k])}
  IN  IF others = {} THEN Len(h) ELSE Min(others) - 1

\* The messages of some kinds.
Only(h, kinds) == Picked(h, {k \in DOMAIN h : h[k].is \in kinds})

Inserted(h, k, ms) == SubSeq(h, 1, k) \o ms \o SubSeq(h, k + 1, Len(h))

\* request_messages.
Request ==
  <<Message("stable"), Message("environment"), Message("instructions")>>
  \o session \o <<Message("question")>>

\* run puts what pre_message injected in front of everything.
WithPrompts(h, ids) == [k \in DOMAIN ids |-> Prompt(ids[k])] \o h

\* Mutant: the note comes last.
WithPlanLast(h) == IF planned' THEN Append(h, Message("plan")) ELSE h

\* _apply_plan_only_prompt.
WithPlan(h) == IF planned' THEN Inserted(h, PrefixLength(h), <<Message("plan")>>) ELSE h

\* Mutant: the texts of the last turn stay.
WithMoreSkills(h, list) == Inserted(h, 1, [k \in DOMAIN list |-> SkillText(list[k])])

\* _apply_skill_context: nothing, not even for old texts, when none is active.
WithSkills(h, list) ==
  LET kept == Only(h, Kinds \ {"skill"})
  IN  IF list = << >> THEN h
      ELSE Inserted(kept, Min({1, PrefixLength(kept)}), [k \in DOMAIN list |-> SkillText(list[k])])

\* What compress_history may return: a cut before one of the later user messages.
Compressions(h) ==
  LET users == {k \in DOMAIN h : IsUser(h[k])}
  IN  {SubSeq(h, 1, PrefixLength(h)) \o <<Message("summary"), Message("boundary")>>
         \o SubSeq(h, u, Len(h)) : u \in {k \in users : k > Min(users)}}

\* rebuild_from_history.
Rebuilt(h) == SubSeq(h, PrefixLength(h) + 1, Len(h))

(***************************************************************************)
(* The reply                                                               *)
(***************************************************************************)
PromptInit ==
  /\ Init
  /\ session \in Sessions
  /\ history = << >> /\ prompts = << >> /\ planned = FALSE
  /\ active = << >> /\ waits = "" /\ said = << >>

\* generate: the request is made before the run emits anything.
Ask ==
  /\ Begin(Reply)
  /\ history' = Request
  /\ UNCHANGED <<session, prompts, planned, active, waits, said>>

\* _run begins in the step in which pre_message returns.
BodyBegins == actors'[Reply].phase = "body" /\ actors[Reply].phase # "body"

Assemble(ids) ==
  \/ /\ BodyBegins
     /\ planned' \in BOOLEAN
     /\ history' = WithPlan(WithPrompts(history, ids))
  \/ /\ ~BodyBegins
     /\ UNCHANGED <<planned, history>>

\* generate goes on when turn_end has returned: what the run said is committed
\* with its history, and a run that said nothing is abandoned.
Returns == actors'[Reply].phase = "done" /\ actors[Reply].phase # "done"

Commit(ids) ==
  \/ /\ Returns
     /\ session' = IF said = << >> THEN session ELSE history
     /\ history' = << >> /\ said' = << >>
     /\ UNCHANGED <<prompts, planned, active>>
  \/ /\ ~Returns
     /\ prompts' = ids
     /\ Assemble(ids)
     /\ UNCHANGED <<session, active, said>>

EmitOfReply ==
  /\ Emit(Reply)
  /\ Commit(prompts)
  /\ UNCHANGED waits

\* An awaited prompt of a pre_message rule is injected; those of other events
\* are dropped with their result, and those of the background have none.
PromptOrAction ==
  LET rule == actors[Reply].list[actors[Reply].at]
  IN  /\ ActionEnds(Reply)
      /\ Commit(IF rule.event = "pre_message" /\ rule.id \in PromptRules
                THEN Append(prompts, rule.id) ELSE prompts)
      /\ UNCHANGED waits

InBody == actors[Reply].phase = "body"

\* A turn: the texts of the Skills that are active by now, a compression if it
\* is due and succeeds, and the model is asked.
Turn ==
  /\ InBody /\ waits = ""
  /\ ~(said # << >> /\ Last(said).is = "answer")
  /\ \E list \in ActiveLists :
       LET h == WithSkills(history, list)
       IN  active' = list /\ history' \in {h} \cup Compressions(h)
  /\ waits' = "model"
  /\ UNCHANGED <<vars, session, prompts, planned, said>>

\* The model answers, once with calls of tools.
Answer ==
  /\ InBody /\ waits = "model"
  /\ history' = Append(history, Message("answer"))
  /\ said' = Append(said, Message("answer"))
  /\ waits' \in {""} \cup (IF said = << >> THEN {"tools"} ELSE {})
  /\ UNCHANGED <<vars, session, prompts, planned, active>>

\* dispatch returns when every call has: refused, cancelled or with a result.
Results ==
  /\ InBody /\ waits = "tools"
  /\ \A a \in Tools : actors[a].phase \in {"rejected", "cancelled", "done"}
  /\ history' = Append(history, Message("result"))
  /\ said' = Append(said, Message("result"))
  /\ waits' = ""
  /\ UNCHANGED <<vars, session, prompts, planned, active>>

\* The run ends, with its last answer or before it: of its history the part
\* behind the system messages counts from here on.  Or it is cancelled with its
\* worker, which abandons what it has.
RunEnds ==
  /\ \/ /\ waits # "tools"
        /\ BodyEnds(Reply)
        /\ history' = Rebuilt(history)
        /\ UNCHANGED said
     \/ /\ Cancel(Reply)
        /\ history' = << >> /\ said' = << >>
  /\ waits' = "" /\ prompts' = << >> /\ planned' = FALSE /\ active' = << >>
  /\ UNCHANGED session

\* The calls are those of the reply.
Called(a) == a \in Tools /\ actors[a].phase = "waiting" => waits = "tools"

Others ==
  /\ \/ \E a \in Actors \ {Reply} : Called(a) /\ Step(a)
     \/ \E t \in DOMAIN background : BackgroundActs(t)
     \/ Reload \/ DrainBegins \/ DrainEnds \/ DrainTimesOut
  /\ UNCHANGED request

PromptNext ==
  /\ ~Closed
  /\ Ask \/ EmitOfReply \/ PromptOrAction \/ Turn \/ Answer \/ Results \/ RunEnds \/ Others

PromptSpec == PromptInit /\ [][PromptNext]_promptVars

-----------------------------------------------------------------------------
(***************************************************************************)
(* Properties                                                              *)
(***************************************************************************)
Conversation(ms) == Only(ms, Spoken)

\* A reply leaves the conversation, the question and what the run said, in
\* order and up to what a summary replaced, and nothing else: no instructions,
\* plan note, rule prompt, Skill text or idle reminder gets into the session,
\* whatever was put into the request, where, and however often it was cut.
OnlyConversationKept ==
  [][LET whole == Conversation(session) \o <<Message("question")>> \o said
     IN  /\ IsSuffix(Conversation(session'), whole)
         /\ Message("question") \in Range(session')
         /\ ~(\E m \in Range(session') : IsSystem(m))
         /\ Message("summary") \in Range(session') \/ Conversation(session') = whole]_session

\* Whenever the model is asked, the list has its system messages in front, the
\* stable prompt, the question and each injected prompt once, the plan note if
\* and only if the run is plan-only, and the texts of the Skills that are active.
RequestWhole ==
  waits = "model" =>
    LET Count(m) == Cardinality({k \in DOMAIN history : history[k] = m})
    IN  /\ \A k \in (PrefixLength(history) + 1)..Len(history) : ~IsSystem(history[k])
        /\ \A m \in {Message("stable"), Message("environment"), Message("instructions"),
                     Message("question")} : Count(m) = 1
        /\ Only(history, {"prompt"}) = [k \in DOMAIN prompts |-> Prompt(prompts[k])]
        /\ Count(Message("plan")) = (IF planned THEN 1 ELSE 0)
        /\ active # << >> =>
             Only(history, {"skill"}) = [k \in DOMAIN active |-> SkillText(active[k])]
=============================================================================
