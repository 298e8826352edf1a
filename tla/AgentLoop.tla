----------------------------- MODULE AgentLoop ------------------------------
(***************************************************************************)
(* One run of the ReAct loop: AgentLoop._run of src/zxcode/agent.py with   *)
(* the tool dispatcher of dispatch.py, the executor it calls, the state    *)
(* table of state.py, the cancel token of cancel.py and the guards of      *)
(* terminator.py.                                                          *)
(*                                                                         *)
(* The loop is one coroutine; pc names the await it is parked at.  The     *)
(* tools of a batch are coroutines of their own (asyncio.gather): each     *)
(* slot of the batch has a phase.  The user may fire the cancel token      *)
(* between any two awaits, and the host may cancel the task outright.      *)
(*                                                                         *)
(* Abstractions: a tool stands for a name with its arguments; an output is *)
(* an opaque value; a failed result keeps only its error code; messages    *)
(* keep their role and the call ids that pair them.  Events are emitted to *)
(* a channel whose reader keeps up; WorkerTasks has one that does not.     *)
(***************************************************************************)
EXTENDS LoopTerminator, Transcript, Sequences, FiniteSets, SequencesExt

CONSTANTS
  ReadTools,       \* read-only tools, and names the registry does not know
  WriteTools,      \* tools with read_only = False
  Outputs,         \* what a successful tool may print
  ExecErrors,      \* error codes the executor may return
  MaxCalls         \* bound: tool calls in one reply

\* Error codes the dispatcher gives without executing the call.
HookErrors == {"rule_rejected", "plan_only_blocked", "security_blocked"}

ASSUME ToolsAssumption ==
  /\ ReadTools \cap WriteTools = {}
  /\ MaxCalls \in Nat
  /\ ({"ok"} \cup HookErrors) \cap ExecErrors = {}
  /\ Nothing \notin {"ok", "invalid_arguments"} \cup HookErrors \cup ExecErrors

VARIABLES
  pc,              \* where the loop is parked
  machine,         \* LoopStateMachine._state
  token,           \* CancelToken._cancelled
  planOnly,        \* config.plan_only, fixed for the run
  turn,
  slots,           \* the calls of the current reply and how far each has got
  cursor,          \* calls of the batch whose TOOL_RESULT has been emitted
  history,         \* what the model is sent; returned as final_history
  turnMessages,    \* what the run produced; returned as messages
  term,            \* LoopTerminator's counters
  progress,        \* distinct successful (tool, output) pairs
  blocked,         \* ids in blocked_calls
  verdict,         \* the stop decision, and in the end termination_reason
  executed         \* <<id, tool>> whose execution started (the outside world)

loopVars == <<pc, machine, token, planOnly, turn, cursor, history,
              turnMessages, term, progress, verdict>>
vars == <<pc, machine, token, planOnly, turn, slots, cursor, history,
          turnMessages, term, progress, blocked, verdict, executed>>

Tools == ReadTools \cup WriteTools
ToolIds == Nat \X Nat

(***************************************************************************)
(* state.py                                                                *)
(***************************************************************************)
LoopStates == {"IDLE", "RUNNING", "TOOL_EXECUTING", "PLAN_ONLY", "CANCELLED",
               "TERMINATED"}

\* The table of legal transitions, as <<state, action, target>>.
Transitions ==
  {<<"IDLE", "start", "RUNNING">>,
   <<"RUNNING", "tool_call", "TOOL_EXECUTING">>,
   <<"TOOL_EXECUTING", "tool_done", "RUNNING">>,
   <<"RUNNING", "terminate", "TERMINATED">>,
   <<"RUNNING", "cancel", "CANCELLED">>,
   <<"TOOL_EXECUTING", "cancel", "CANCELLED">>,
   <<"CANCELLED", "cleanup_done", "TERMINATED">>,
   <<"RUNNING", "enter_plan_only", "PLAN_ONLY">>,
   <<"PLAN_ONLY", "exit_plan_only", "RUNNING">>}

Can(s, action) == \E q \in LoopStates : <<s, action, q>> \in Transitions

\* transition() raises on a move outside the table: "illegal" stands for that.
After(s, action) ==
  IF Can(s, action) THEN CHOOSE q \in LoopStates : <<s, action, q>> \in Transitions
  ELSE "illegal"

AfterIfCan(s, action) == IF Can(s, action) THEN After(s, action) ELSE s

(***************************************************************************)
(* Messages                                                                *)
(***************************************************************************)
CallId(i) == <<turn, i>>

\* Mutant: the clean-up forgets to pair.
PairNothing(msgs) == msgs

\* _pair_dangling: a "cancelled" answer for every call without one.  Nothing
\* below depends on the order of these answers.
PairDangling(msgs) ==
  LET ids == SetToSeq(Dangling(msgs))
  IN  msgs \o [k \in DOMAIN ids |-> ToolMessage(ids[k], "cancelled")]

(***************************************************************************)
(* Slots                                                                   *)
(***************************************************************************)
NoResult == [code |-> Nothing, out |-> Nothing]
Ok(out)  == [code |-> "ok", out |-> out]
Err(code) == [code |-> code, out |-> Nothing]

ErrorCodes == HookErrors \cup ExecErrors \cup {"invalid_arguments"}
Results == {NoResult} \cup {Ok(o) : o \in Outputs} \cup {Err(e) : e \in ErrorCodes}

\* A call whose arguments are not a JSON object gets its result at once.
Slot(call) ==
  [tool   |-> call.tool,
   json   |-> call.json,
   phase  |-> IF call.json THEN "waiting" ELSE "done",
   result |-> IF call.json THEN NoResult ELSE Err("invalid_arguments")]

Calls == [tool : Tools, json : BOOLEAN]
Replies == UNION {[1..n -> Calls] : n \in 0..MaxCalls}

IsWrite(i) == slots[i].json /\ slots[i].tool \in WriteTools
IsRead(i)  == slots[i].json /\ slots[i].tool \in ReadTools
Active(i)  == slots[i].phase \in {"hooks", "running"}

\* asyncio.gather schedules every read of the batch at once.
ReadsScheduled ==
  [i \in DOMAIN slots |->
     IF IsRead(i) THEN [slots[i] EXCEPT !.phase = "hooks"] ELSE slots[i]]

MoveSlot(i, phase, result) ==
  slots' = [slots EXCEPT ![i].phase = phase, ![i].result = result]

(***************************************************************************)
(* The two lists                                                           *)
(***************************************************************************)
Remember(msgs) == history' = history \o msgs
Archive(msgs)  == turnMessages' = turnMessages \o msgs

-----------------------------------------------------------------------------
Init ==
  /\ pc = "top"
  /\ machine = "IDLE"
  /\ token = FALSE
  /\ planOnly \in BOOLEAN
  /\ turn = 0
  /\ slots = << >>
  /\ cursor = 0
  /\ history = << >>
  /\ turnMessages = << >>
  /\ term = FreshTerminator
  /\ progress = {}
  /\ blocked = {}
  /\ verdict = Continue
  /\ executed = {}

Over == pc \in {"ended", "aborted"}

\* CancelToken.cancel, by the user or by the killer of a worker.
UserCancels ==
  /\ ~token /\ ~Over
  /\ token' = TRUE
  /\ UNCHANGED <<pc, machine, planOnly, turn, slots, cursor, history,
                 turnMessages, term, progress, blocked, verdict, executed>>

\* The head of a turn: _check_cancel, the state transition, and what prepare does
\* before it waits.  It asks for a summary, or there is nothing to wait for, or it
\* raises (a text of the history that cannot be encoded).
BeginTurn ==
  /\ pc = "top"
  /\ IF token
     THEN pc' = "cancelled" /\ UNCHANGED machine
     ELSE /\ pc' \in {"preparing", "streaming", "failed"}
          /\ machine' = After(machine, IF turn = 0 THEN "start" ELSE "tool_done")
  /\ UNCHANGED <<token, planOnly, turn, slots, cursor, history, turnMessages,
                 term, progress, blocked, verdict, executed>>

\* CompressionManager.prepare returns with a summary or without one: the stream
\* of the summary has ended, which nobody races with the token.  It may replace
\* messages older than this run's; the run's own, which history lists here, stay.
PrepareReturns ==
  /\ pc = "preparing"
  /\ pc' = "streaming"
  /\ UNCHANGED <<machine, token, planOnly, turn, slots, cursor, history,
                 turnMessages, term, progress, blocked, verdict, executed>>

\* The stream yields its AssistantMessage and ends.  _cancellable drops what
\* arrives after the token fired.
ModelReplies ==
  /\ pc = "streaming" /\ ~token
  /\ \E reply \in Replies : slots' = [i \in DOMAIN reply |-> Slot(reply[i])]
  /\ cursor' = 0
  /\ pc' = "replied"
  /\ UNCHANGED <<machine, token, planOnly, turn, history, turnMessages, term,
                 progress, blocked, verdict, executed>>

\* Mutant: the stream is consumed without racing the token.
StreamUncancellable == FALSE /\ UNCHANGED vars

StreamCancelled ==
  /\ pc = "streaming" /\ token
  /\ pc' = "cancelled"
  /\ UNCHANGED <<machine, token, planOnly, turn, slots, cursor, history,
                 turnMessages, term, progress, blocked, verdict, executed>>

\* A provider error, a timeout, or a stream without an assistant message.
StreamFails ==
  /\ pc = "streaming"
  /\ pc' = "failed"
  /\ UNCHANGED <<machine, token, planOnly, turn, slots, cursor, history,
                 turnMessages, term, progress, blocked, verdict, executed>>

\* The reply is appended to both lists before the token is looked at again.
RecordReply ==
  LET said == AssistantMessage({CallId(i) : i \in DOMAIN slots})
  IN  /\ pc = "replied"
      /\ Remember(<<said>>) /\ Archive(<<said>>)
      /\ \/ /\ slots = << >>
            /\ pc' = "final" /\ UNCHANGED machine
         \/ /\ slots # << >> /\ token
            /\ pc' = "cancelled" /\ UNCHANGED machine
         \/ /\ slots # << >> /\ ~token
            /\ pc' = "dispatch" /\ machine' = After(machine, "tool_call")
      /\ slots' = IF pc' = "dispatch" THEN ReadsScheduled ELSE slots
      /\ UNCHANGED <<token, planOnly, turn, cursor, term, progress, blocked,
                     verdict, executed>>

\* FINAL_REPLY and TURN_END are out; the run completes without a look at the
\* token.
FinalReply ==
  /\ pc = "final"
  /\ machine' = After(machine, "terminate")
  /\ verdict' = "end_turn"
  /\ pc' = "ended"
  /\ UNCHANGED <<token, planOnly, turn, slots, cursor, history, turnMessages,
                 term, progress, blocked, executed>>

(***************************************************************************)
(* One call of the batch: ToolDispatcher._run_one                          *)
(***************************************************************************)
\* Mutant: the batch of reads is scheduled but not awaited.
ReadsScheduledOnly == \A i \in DOMAIN slots : IsRead(i) => slots[i].phase # "waiting"

ReadsDone == \A i \in DOMAIN slots : IsRead(i) => slots[i].phase = "done"

\* Mutant: a write waits for itself as well.
WritesUpTo(i) == \A j \in 1..i : IsWrite(j) => slots[j].phase = "done"

WritesBefore(i) == \A j \in 1..(i - 1) : IsWrite(j) => slots[j].phase = "done"

\* A write waits for all the reads and for the writes before it.
WriteBegins(i) ==
  /\ pc = "dispatch"
  /\ slots[i].phase = "waiting" /\ IsWrite(i)
  /\ ReadsDone /\ WritesBefore(i)
  /\ MoveSlot(i, "hooks", NoResult)
  /\ UNCHANGED <<loopVars, blocked, executed>>

\* A pre_tool_use rule rejects the call.
RuleRejects(i) ==
  /\ slots[i].phase = "hooks"
  /\ MoveSlot(i, "done", Err("rule_rejected"))
  /\ UNCHANGED <<loopVars, blocked, executed>>

\* _pre_hook under plan-only: a write is answered without being executed.
PlanOnlyBlocks(i) ==
  /\ slots[i].phase = "hooks" /\ IsWrite(i) /\ planOnly
  /\ MoveSlot(i, "done", Err("plan_only_blocked"))
  /\ blocked' = blocked \cup {CallId(i)}
  /\ UNCHANGED <<loopVars, executed>>

\* The permission policy has an opinion on the write tools only.
SecurityBlocks(i) ==
  /\ slots[i].phase = "hooks" /\ IsWrite(i) /\ ~planOnly
  /\ MoveSlot(i, "done", Err("security_blocked"))
  /\ blocked' = blocked \cup {CallId(i)}
  /\ UNCHANGED <<loopVars, executed>>

\* Mutant: the call goes to the executor before the plan-only check.
ToolStartsUnchecked(i) ==
  /\ slots[i].phase = "hooks"
  /\ MoveSlot(i, "running", NoResult)
  /\ executed' = executed \cup {<<CallId(i), slots[i].tool>>}
  /\ UNCHANGED <<loopVars, blocked>>

\* The hooks let the call through to the executor.
ToolStarts(i) ==
  /\ slots[i].phase = "hooks"
  /\ ~(IsWrite(i) /\ planOnly)
  /\ MoveSlot(i, "running", NoResult)
  /\ executed' = executed \cup {<<CallId(i), slots[i].tool>>}
  /\ UNCHANGED <<loopVars, blocked>>

\* ToolExecutor.execute returns: output, timeout, bad arguments, failure.
ToolReturns(i) ==
  /\ slots[i].phase = "running"
  /\ \/ \E o \in Outputs : MoveSlot(i, "done", Ok(o))
     \/ \E e \in ExecErrors : MoveSlot(i, "done", Err(e))
  /\ UNCHANGED <<loopVars, blocked, executed>>

\* An exception leaves _run_one: from guard_call (the existence test of a
\* path too long for the file system) or from the executor after the tool
\* (an output that cannot be encoded).  gather and the serial writes both
\* pass it on; the other reads of the batch run on unobserved.
CallRaises(i) ==
  /\ \/ slots[i].phase = "hooks" /\ IsWrite(i) /\ ~planOnly
     \/ slots[i].phase = "running"
  /\ MoveSlot(i, "raised", NoResult)
  /\ pc' = IF pc = "dispatch" THEN "failed" ELSE pc
  /\ UNCHANGED <<machine, token, planOnly, turn, cursor, history, turnMessages,
                 term, progress, blocked, verdict, executed>>

CallSteps(i) ==
  \/ WriteBegins(i)
  \/ RuleRejects(i)
  \/ PlanOnlyBlocks(i)
  \/ SecurityBlocks(i)
  \/ ToolStarts(i)
  \/ ToolReturns(i)
  \/ CallRaises(i)

(***************************************************************************)
(* The batch is back                                                       *)
(***************************************************************************)
\* Mutant: the token is looked at before the results are recorded.
DispatchReturnsUnlessCancelled ==
  /\ pc = "dispatch"
  /\ \A i \in DOMAIN slots : slots[i].phase = "done"
  /\ pc' = IF token THEN "cancelled" ELSE "observing"
  /\ UNCHANGED <<machine, token, planOnly, turn, slots, cursor, history,
                 turnMessages, term, progress, blocked, verdict, executed>>

DispatchReturns ==
  /\ pc = "dispatch"
  /\ \A i \in DOMAIN slots : slots[i].phase = "done"
  /\ pc' = "observing"
  /\ UNCHANGED <<machine, token, planOnly, turn, slots, cursor, history,
                 turnMessages, term, progress, blocked, verdict, executed>>

\* TOOL_RESULT is out for the next call; _guard counts it.  The first stop
\* decision of the batch stands.
ObserveResult ==
  LET i   == cursor + 1
      s   == slots[i]
      key == <<s.tool, s.result.out>>
      chk == IF s.result.code = "ok"
             THEN CheckObservation(term, turn, key)
             ELSE CheckError(term, turn, s.result.code)
  IN  /\ pc = "observing" /\ cursor < Len(slots)
      /\ cursor' = i
      /\ progress' = IF s.result.code = "ok" THEN progress \cup {key} ELSE progress
      /\ term' = chk.term
      /\ verdict' = IF verdict = Continue THEN chk.verdict ELSE verdict
      /\ UNCHANGED <<pc, machine, token, planOnly, turn, slots, history,
                     turnMessages, blocked, executed>>

\* All results are observed: they are appended to both lists, the progress
\* guard and the turn guard run, TURN_END goes out.
Backfill ==
  LET answers == [i \in DOMAIN slots |-> ToolMessage(CallId(i), slots[i].result.code)]
      stalled == CheckProgress(term, turn, Cardinality(progress))
      last    == CheckTurn(stalled.term, turn + 1)
  IN  /\ pc = "observing" /\ cursor = Len(slots)
      /\ Remember(answers) /\ Archive(answers)
      /\ IF verdict # Continue THEN UNCHANGED <<term, verdict>>
         ELSE /\ term' = stalled.term
              /\ verdict' = IF stalled.verdict # Continue THEN stalled.verdict
                            ELSE last.verdict
      /\ pc' = "turn_end"
      /\ UNCHANGED <<machine, token, planOnly, turn, slots, cursor, progress,
                     blocked, executed>>

\* spool_batch raises on a result that cannot be encoded, and none is recorded.
SpoolRaises ==
  /\ pc = "observing" /\ cursor = Len(slots)
  /\ pc' = "failed"
  /\ UNCHANGED <<machine, token, planOnly, turn, slots, cursor, history,
                 turnMessages, term, progress, blocked, verdict, executed>>

StopOnVerdict ==
  /\ pc = "turn_end" /\ verdict # Continue
  /\ machine' = After(After(machine, "tool_done"), "terminate")
  /\ pc' = "ended"
  /\ UNCHANGED <<token, planOnly, turn, slots, cursor, history, turnMessages,
                 term, progress, blocked, verdict, executed>>

\* The for loop over the turns never runs out by itself: see StepsCounted.
NextTurn ==
  /\ pc = "turn_end" /\ verdict = Continue
  /\ IF token
     THEN pc' = "cancelled" /\ UNCHANGED turn
     ELSE pc' = "top" /\ turn' = turn + 1
  /\ UNCHANGED <<machine, token, planOnly, slots, cursor, history,
                 turnMessages, term, progress, blocked, verdict, executed>>

(***************************************************************************)
(* The other ways out                                                      *)
(***************************************************************************)
\* except _Cancelled: only turn_messages is paired, history is left as it is.
CancelUnwinds ==
  /\ pc = "cancelled"
  /\ turnMessages' = PairDangling(turnMessages)
  /\ machine' = AfterIfCan(machine, "cancel")
  /\ pc' = "cancelling"
  /\ UNCHANGED <<token, planOnly, turn, slots, cursor, history, term, progress,
                 blocked, verdict, executed>>

CancelCompletes ==
  /\ pc = "cancelling"
  /\ machine' = AfterIfCan(machine, "cleanup_done")
  /\ verdict' = "cancelled"
  /\ pc' = "ended"
  /\ UNCHANGED <<token, planOnly, turn, slots, cursor, history, turnMessages,
                 term, progress, blocked, executed>>

\* except Exception: paired likewise; the state machine is not told.
ErrorCompletes ==
  /\ pc = "failed"
  /\ turnMessages' = PairDangling(turnMessages)
  /\ verdict' = "error"
  /\ pc' = "ended"
  /\ UNCHANGED <<machine, token, planOnly, turn, slots, cursor, history, term,
                 progress, blocked, executed>>

\* The asyncio task is cancelled (a new exclusive worker, exit): neither
\* handler runs and nothing is returned.  A batch in flight goes with it.
TaskAborted ==
  /\ ~Over
  /\ pc' = "aborted"
  /\ slots' = IF pc # "dispatch" THEN slots
              ELSE [i \in DOMAIN slots |->
                      IF slots[i].phase = "done" THEN slots[i]
                      ELSE [slots[i] EXCEPT !.phase = "dropped"]]
  /\ UNCHANGED <<machine, token, planOnly, turn, cursor, history, turnMessages,
                 term, progress, blocked, verdict, executed>>

LoopSteps ==
  \/ BeginTurn
  \/ StreamCancelled
  \/ RecordReply
  \/ FinalReply
  \/ DispatchReturns
  \/ ObserveResult
  \/ Backfill
  \/ SpoolRaises
  \/ StopOnVerdict
  \/ NextTurn
  \/ CancelUnwinds
  \/ CancelCompletes
  \/ ErrorCompletes

\* What takes an answer of the model, be it a summary.
ModelSteps == PrepareReturns \/ ModelReplies \/ StreamFails

Next ==
  \/ LoopSteps
  \/ ModelSteps
  \/ \E i \in DOMAIN slots : CallSteps(i)
  \/ UserCancels
  \/ TaskAborted

Spec == Init /\ [][Next]_vars

\* Fairness: the event loop runs what is ready, and every tool returns or is cut off by
\* asyncio.timeout.  Nothing is assumed of the user or of the model.
FairSpec ==
  /\ Spec
  /\ WF_vars(LoopSteps)
  /\ \A i \in 1..MaxCalls : WF_vars(i \in DOMAIN slots /\ CallSteps(i))

-----------------------------------------------------------------------------
(***************************************************************************)
(* Properties                                                              *)
(***************************************************************************)
Phases == {"waiting", "hooks", "running", "done", "raised", "dropped"}
PcStates == {"top", "preparing", "streaming", "replied", "final", "dispatch",
             "observing", "turn_end", "cancelled", "cancelling", "failed",
             "ended", "aborted"}
Messages == [role : {"assistant"}, calls : SUBSET ToolIds]
            \cup [role : {"tool"}, call : ToolIds,
                  code : ErrorCodes \cup {"ok", "cancelled"}]
SlotType == [tool : Tools, json : BOOLEAN, phase : Phases, result : Results]

\* Every variable has its type.  In particular the machine is never asked for
\* a transition that LoopStateMachine.transition would refuse with
\* IllegalStateTransition.
TypeOK ==
  /\ pc \in PcStates
  /\ machine \in LoopStates
  /\ token \in BOOLEAN /\ planOnly \in BOOLEAN
  /\ turn \in Nat /\ cursor \in Nat
  /\ slots \in Seq(SlotType)
  /\ history \in Seq(Messages) /\ turnMessages \in Seq(Messages)
  /\ progress \subseteq Tools \X Outputs
  /\ blocked \subseteq ToolIds /\ executed \subseteq ToolIds \X Tools
  /\ verdict \in GuardReasons \cup {Continue, "end_turn", "cancelled", "error"}

\* What a run returns as its messages, and the app archives, is a well-formed
\* transcript without a dangling call, on every way out: final reply, guard,
\* cancellation at any await, provider failure, exception in a tool.
ArchivePaired ==
  pc = "ended" => WellFormed(turnMessages) /\ Dangling(turnMessages) = {}

\* A write tool in flight has the batch to itself, with the loop waiting for
\* it: no other call, read or write, is past its start and not back yet, and
\* no write is at work once the run is over or has given up on its batch.
WriterAlone ==
  \A i, j \in DOMAIN slots :
    IsWrite(i) /\ Active(i) => pc = "dispatch" /\ (Active(j) => i = j)

\* Under plan-only no write tool is executed, and the final report lists every
\* write that got as far as the plan-only check.
PlanOnlyHarmless ==
  planOnly =>
    /\ \A e \in executed : e[2] \notin WriteTools
    /\ \A k \in DOMAIN turnMessages :
         turnMessages[k].role = "tool" /\ turnMessages[k].code = "plan_only_blocked"
           => turnMessages[k].call \in blocked

\* The run as those around it see it: the calls whose tool was started, and
\* how far the run is.
Ran == {e[1] : e \in executed}

Outcome ==
  CASE pc = "ended" -> verdict
    [] pc = "aborted" -> "aborted"
    [] pc = "cancelling" -> "unwinding"
    [] OTHER -> "running"

Contract == INSTANCE ReplyContract WITH
  Reasons <- GuardReasons \cup {"end_turn"},
  NotRun <- HookErrors,
  sent <- history,
  transcript <- turnMessages,
  ran <- Ran,
  outcome <- Outcome

\* Whatever interrupts it, and wherever, a run is the dialogue it should be: a
\* tool runs once and for an open call; answers tell the truth about what was
\* run, also those that a cancelled run makes up; and the session and the
\* archive are left with the same conversation unless it was interrupted.
IsReply == Contract!Spec

\* How many steps the loop can still take in its turn and in those that are left.
StepsInTurn ==
  CASE pc = "top" -> MaxCalls + 9
    [] pc = "preparing" -> MaxCalls + 8
    [] pc = "streaming" -> MaxCalls + 7
    [] pc = "replied" -> MaxCalls + 6
    [] pc = "dispatch" -> MaxCalls + 5
    [] pc = "observing" -> 4 + Len(slots) - cursor
    [] pc = "turn_end" -> 3
    [] pc = "cancelled" -> 2
    [] pc \in {"final", "cancelling", "failed"} -> 1
    [] OTHER -> 0

LoopLeft == (MaxTurns - 1 - turn) * (MaxCalls + 10) + StepsInTurn

\* The same for a call, and for all calls of the batch: how many are at least
\* so many steps from their end.
StepsToGo(slot) ==
  CASE slot.phase = "waiting" -> 3
    [] slot.phase = "hooks" -> 2
    [] slot.phase = "running" -> 1
    [] OTHER -> 0

AtLeast(calls, k) == {i \in DOMAIN calls : StepsToGo(calls[i]) >= k}

CallsLeft(calls) ==
  Cardinality(AtLeast(calls, 1)) + Cardinality(AtLeast(calls, 2)) + Cardinality(AtLeast(calls, 3))

StepsLeft == LoopLeft * (3 * MaxCalls + 1) + CallsLeft(slots) + (IF token THEN 0 ELSE 1)

\* Whatever the model asks for, and whatever comes of the calls, a run has only so
\* many steps: each brings its end nearer, fairness or not.  The turns that are
\* left, the place in the turn and the calls at work are counted down together.
NoStepInVain == [][StepsLeft' \in 0..(StepsLeft - 1)]_vars

\* A fired token ends the run without the model's help, unless it waits for a
\* summary, whose stream does not look at the token and has no limit: wherever else
\* the loop is parked, the stream is dropped, a batch runs to its end, it stops, and
\* no further summary is asked for.
CancelEnds == (token /\ pc # "preparing") ~> Over

\* Every run ends whatever the model asks for, provided it answers or fails
\* (the client's read timeout), summaries included: the turns run out.
RunEnds == WF_vars(ModelSteps) => <>Over

\* Said by docs/agent-loop/spec.md:76: after every way out each tool call of
\* the conversation history has its tool message.
NoDanglingInHistory == pc = "ended" => Dangling(history) = {}

-----------------------------------------------------------------------------
(***************************************************************************)
(* The inductive invariant behind the safety properties                    *)
(***************************************************************************)
BatchIds == {CallId(i) : i \in DOMAIN slots}

\* The state machine follows pc.
MachineFollows ==
  /\ pc = "top" => machine = (IF turn = 0 THEN "IDLE" ELSE "TOOL_EXECUTING")
  /\ pc \in {"preparing", "streaming", "replied", "final"} => machine = "RUNNING"
  /\ pc \in {"dispatch", "observing", "turn_end"} => machine = "TOOL_EXECUTING"

\* What a slot can look like.
SlotsSound ==
  \A i \in DOMAIN slots :
    /\ ~slots[i].json => slots[i].phase = "done"
    /\ slots[i].phase = "done" => slots[i].result # NoResult
    /\ pc \in {"observing", "turn_end"} => slots[i].phase = "done"
    /\ pc \in {"replied", "dispatch", "observing"} =>
         (slots[i].result.code = "plan_only_blocked" => CallId(i) \in blocked)

\* A write at work has seen the reads and the earlier writes come back.
WriterWaited ==
  \A i \in DOMAIN slots : IsWrite(i) /\ Active(i) =>
    pc = "dispatch" /\ ReadsDone /\ WritesBefore(i)

\* The archived transcript: open calls are those of the batch at hand.
TranscriptSound ==
  /\ WellFormed(turnMessages)
  /\ pc \in {"top", "preparing", "streaming", "replied", "final", "turn_end",
             "cancelling", "ended"} => Dangling(turnMessages) = {}
  /\ pc \in {"dispatch", "observing"} => Dangling(turnMessages) = BatchIds
  /\ pc \in {"cancelled", "failed"} => Dangling(turnMessages) \subseteq BatchIds
  /\ pc = "final" => slots = << >>
  /\ \A id \in Asked(turnMessages) \cup Answered(turnMessages) : id[1] <= turn
  /\ pc \in {"top", "preparing", "streaming", "replied"} =>
       \A id \in Asked(turnMessages) \cup Answered(turnMessages) : id[1] < turn

IInv ==
  /\ TypeOK
  /\ MachineFollows
  /\ SlotsSound
  /\ WriterWaited
  /\ TranscriptSound
  /\ PlanOnlyHarmless

\* What the refinement of ReplyContract needs besides: the two conversations
\* are one, and no reason to end is that of an interruption, until the run is
\* interrupted,
SameConversation ==
  /\ pc \notin {"cancelling", "ended", "aborted"} => history = turnMessages
  /\ ~Over => verdict \in GuardReasons \cup {Continue}

\* a call at work is one of the batch, is open as long as the batch may come
\* back, and was run exactly if its phase, or its answer, says so.
SlotTold(i) ==
  LET id == CallId(i)
      s  == slots[i]
  IN  /\ s.phase \in {"hooks", "running"} => pc \in {"dispatch", "failed", "ended", "aborted"}
      /\ s.phase = "hooks" =>
           /\ id \in Asked(turnMessages) /\ id \notin Ran
           /\ id \in Dangling(turnMessages) \/ (pc = "ended" /\ verdict = "error")
      /\ pc = "replied" =>
           s.phase = "waiting" \/ (s.phase = "done" /\ s.result.code = "invalid_arguments")
      /\ pc \in {"dispatch", "observing"} =>
           /\ s.phase = "waiting" => id \notin Ran
           /\ s.phase = "running" => id \in Ran
           /\ s.phase = "done" /\ s.result.code = "ok" => id \in Ran
           /\ s.phase = "done" /\ s.result.code \in HookErrors => id \notin Ran

RunsTold ==
  /\ Ran \subseteq Asked(turnMessages)
  /\ pc = "cancelled" => Dangling(turnMessages) \cap Ran = {}
  /\ \A i \in DOMAIN slots : SlotTold(i)

ReplyIInv == IInv /\ SameConversation /\ RunsTold

\* What the count of steps needs: the turns and the batch are within their
\* limits, and a run that goes on to another turn has one left.
StepsCounted ==
  /\ turn < MaxTurns
  /\ pc = "turn_end" /\ verdict = Continue => turn + 1 < MaxTurns
  /\ Len(slots) <= MaxCalls
  /\ pc \in {"replied", "dispatch", "observing"} => cursor <= Len(slots)
=============================================================================
