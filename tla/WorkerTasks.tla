----------------------------- MODULE WorkerTasks -----------------------------
(***************************************************************************)
(* Sub-workers: the SpawnWorker tool (src/zxcode/workers/tool.py), the     *)
(* TaskManager (manager.py) and run_worker (runner.py).  Each task is two  *)
(* asyncio tasks: the future the manager holds, which follows an           *)
(* EventChannel (events.py), and the agent run that fills it.  The calls   *)
(* that wait for a task, their timeouts, /workers kill and both asyncio    *)
(* tasks take turns at every await.                                        *)
(*                                                                         *)
(* Left out: what the agents say (AgentLoop has one run of the loop),      *)
(* models, messages, token counts and times, and TaskManager.wait, which   *)
(* the app never calls.                                                    *)
(***************************************************************************)
EXTENDS Integers, FiniteSets

CONSTANTS
  Tasks,           \* task ids
  ReadTools,       \* names in the registry, SpawnWorker apart
  WriteTools,
  SpawnWorker,
  Allowances,      \* what roles allow, or the parent's tools for a fork
  Capacity         \* maxsize of the EventChannel

ASSUME WorkerAssumption ==
  /\ ReadTools \cap WriteTools = {} /\ SpawnWorker \notin ReadTools \cup WriteTools
  /\ Allowances \subseteq SUBSET (ReadTools \cup WriteTools \cup {SpawnWorker})
  /\ Capacity \in Nat \ {0}

VARIABLES
  tasks,           \* TaskManager._tasks
  futures,         \* TaskManager._futures, and whether a cancellation is under way
  agents,          \* the agent.run tasks of run_worker
  channels,        \* their EventChannels: events queued, closed
  calls,           \* the SpawnWorker call that started the task
  notices,         \* calls of on_complete
  killed           \* ghost: tasks a kill found running

taskVars == <<tasks, futures, agents, channels, calls, notices, killed>>

Registry == ReadTools \cup WriteTools \cup {SpawnWorker}
Finished == {"succeeded", "failed", "cancelled"}

NoTask == [status |-> "none", mode |-> "none", background |-> FALSE]
NoAgent == [phase |-> "none", tools |-> {}, used |-> {}]

TasksInit ==
  /\ tasks = [t \in Tasks |-> NoTask]
  /\ futures = [t \in Tasks |-> [phase |-> "none", cancelled |-> FALSE]]
  /\ agents = [t \in Tasks |-> NoAgent]
  /\ channels = [t \in Tasks |-> [queued |-> 0, closed |-> FALSE]]
  /\ calls = [t \in Tasks |-> "none"]
  /\ notices = [t \in Tasks |-> 0]
  /\ killed = {}

(***************************************************************************)
(* The tool sets                                                           *)
(***************************************************************************)
GlobalDeny == {SpawnWorker}

\* filter_tool_names.
FilterToolNames(allow, background) ==
  LET allowed == allow \ GlobalDeny
  IN  IF background THEN allowed \cap ReadTools ELSE allowed

\* run_worker: a fork takes the parent's tools; definition mode what the role
\* allows, never filtered as a background task.
WorkerTools(mode, allow) ==
  IF mode = "fork" THEN allow \ GlobalDeny ELSE FilterToolNames(allow, FALSE)

(***************************************************************************)
(* Starting                                                                *)
(***************************************************************************)
\* SpawnWorker.execute and TaskManager.start up to the wait: a fork and a
\* background task are answered with the id at once.
Start(t, mode, background, allow) ==
  /\ tasks[t].status = "none"
  /\ tasks' = [tasks EXCEPT ![t] = [status |-> "running", mode |-> mode,
                                    background |-> mode = "fork" \/ background]]
  /\ futures' = [futures EXCEPT ![t].phase = "created"]
  /\ agents' = [agents EXCEPT ![t].tools = WorkerTools(mode, allow)]
  /\ calls' = [calls EXCEPT ![t] = IF mode = "fork" \/ background THEN "named" ELSE "waiting"]
  /\ UNCHANGED <<channels, notices, killed>>

\* Mutant: on_complete is told of every end.
FinishTellingAll(t, status) ==
  /\ tasks' = [tasks EXCEPT ![t].status = status]
  /\ notices' = [notices EXCEPT ![t] = @ + 1]
  /\ futures' = [futures EXCEPT ![t].phase = "done"]

\* The last lines of _run, one step with its end: status, then on_complete.
Finish(t, status) ==
  /\ tasks' = [tasks EXCEPT ![t].status = status]
  /\ notices' = [notices EXCEPT ![t] = IF status = "cancelled" THEN @ ELSE @ + 1]
  /\ futures' = [futures EXCEPT ![t].phase = "done"]

\* _run begins: run_worker starts the agent and follows its channel.
RunBegins(t) ==
  /\ futures[t].phase = "created" /\ ~futures[t].cancelled
  /\ futures' = [futures EXCEPT ![t].phase = "following"]
  /\ agents' = [agents EXCEPT ![t].phase = "working"]
  /\ UNCHANGED <<tasks, channels, calls, notices, killed>>

\* run_worker raises before there is an agent.
RunFailsEarly(t) ==
  /\ futures[t].phase = "created" /\ ~futures[t].cancelled
  /\ Finish(t, "failed")
  /\ UNCHANGED <<agents, channels, calls, killed>>

(***************************************************************************)
(* The agent                                                               *)
(***************************************************************************)
\* emit waits for room in the queue.
HasRoom(t) == channels[t].queued < Capacity

\* A tool is used and an event about it emitted.
AgentUses(t) ==
  /\ agents[t].phase = "working" /\ HasRoom(t)
  /\ \E tool \in agents[t].tools :
       agents' = [agents EXCEPT ![t].used = @ \cup {tool}]
  /\ channels' = [channels EXCEPT ![t].queued = @ + 1]
  /\ UNCHANGED <<tasks, futures, calls, notices, killed>>

\* The loop comes to an end, whatever its reason; LOOP_END is emitted and the
\* channel closed, which raises QueueFull when the sentinel finds no room.
AgentEnds(t) ==
  /\ agents[t].phase = "working" /\ HasRoom(t)
  /\ channels' = [channels EXCEPT ![t] = [queued |-> @.queued + 1, closed |-> TRUE]]
  /\ agents' = [agents EXCEPT ![t].phase =
                  IF channels[t].queued + 1 < Capacity THEN "returned" ELSE "raised"]
  /\ UNCHANGED <<tasks, futures, calls, notices, killed>>

(***************************************************************************)
(* Following the agent                                                     *)
(***************************************************************************)
Following(t) == futures[t].phase = "following" /\ ~futures[t].cancelled

Drain(t) == channels' = [channels EXCEPT ![t].queued = 0]

\* The events so far are read and thrown away.
FollowerReads(t) ==
  /\ Following(t) /\ ~channels[t].closed /\ channels[t].queued > 0
  /\ Drain(t)
  /\ UNCHANGED <<tasks, futures, agents, calls, notices, killed>>

\* Mutant: the iterator waits for the sentinel, which a full queue has lost.
FollowerEndsAtSentinel(t) ==
  /\ Following(t) /\ agents[t].phase = "returned"
  /\ Drain(t)
  /\ Finish(t, "succeeded")
  /\ UNCHANGED <<agents, calls, killed>>

\* A closed channel ends the iteration; the run's answer counts as success,
\* its exception as failure.
FollowerEnds(t) ==
  /\ Following(t) /\ channels[t].closed
  /\ Drain(t)
  /\ Finish(t, IF agents[t].phase = "returned" THEN "succeeded" ELSE "failed")
  /\ UNCHANGED <<agents, calls, killed>>

\* The CancelledError of a kill arrives, in _run or before it began; the agent
\* is a task of its own and goes on.
CancelArrives(t) ==
  /\ futures[t].cancelled /\ futures[t].phase \in {"created", "following"}
  /\ Finish(t, "cancelled")
  /\ UNCHANGED <<agents, channels, calls, killed>>

(***************************************************************************)
(* kill                                                                    *)
(***************************************************************************)
\* /workers kill.  A task that is over is left as it is.
Kill(t) ==
  /\ tasks[t].status # "none"
  /\ futures' = [futures EXCEPT ![t].cancelled = @ \/ futures[t].phase # "done"]
  /\ tasks' = [tasks EXCEPT ![t].status = IF @ = "running" THEN "cancelled" ELSE @]
  /\ killed' = IF tasks[t].status = "running" THEN killed \cup {t} ELSE killed
  /\ UNCHANGED <<agents, channels, calls, notices>>

(***************************************************************************)
(* The call that waits                                                     *)
(***************************************************************************)
\* Mutant: start swallows the cancellation that comes with a kill.
CallReturnsAnyway(t) ==
  /\ calls[t] = "waiting" /\ futures[t].phase = "done"
  /\ calls' = [calls EXCEPT ![t] = "answered"]
  /\ UNCHANGED <<tasks, futures, agents, channels, notices, killed>>

\* The shield passes on the end of the future: a task that was killed cancels
\* its caller, agent loop and all.
CallReturns(t) ==
  /\ calls[t] = "waiting" /\ futures[t].phase = "done"
  /\ calls' = [calls EXCEPT ![t] = IF futures[t].cancelled THEN "cancelled" ELSE "answered"]
  /\ tasks' = [tasks EXCEPT ![t].background = @ \/ futures[t].cancelled]
  /\ UNCHANGED <<futures, agents, channels, notices, killed>>

\* Mutant: the future is not shielded.
CallTimesOutUnshielded(t) ==
  /\ calls[t] = "waiting"
  /\ calls' = [calls EXCEPT ![t] = "timeout"]
  /\ tasks' = [tasks EXCEPT ![t].background = TRUE]
  /\ futures' = [futures EXCEPT ![t].cancelled = @ \/ futures[t].phase # "done"]
  /\ UNCHANGED <<agents, channels, notices, killed>>

\* ToolExecutor gives up on the tool; the task goes on in the background.  Its
\* timeout is 30 s like foreground_timeout, and is set first, so that the
\* branch of start for its own timeout is never reached.
CallTimesOut(t) ==
  /\ calls[t] = "waiting"
  /\ calls' = [calls EXCEPT ![t] = "timeout"]
  /\ tasks' = [tasks EXCEPT ![t].background = TRUE]
  /\ UNCHANGED <<futures, agents, channels, notices, killed>>

\* The run that made the call is cancelled.
CallerCancelled(t) ==
  /\ calls[t] = "waiting"
  /\ calls' = [calls EXCEPT ![t] = "cancelled"]
  /\ tasks' = [tasks EXCEPT ![t].background = TRUE]
  /\ UNCHANGED <<futures, agents, channels, notices, killed>>

AgentSteps(t) == AgentUses(t) \/ AgentEnds(t)

LoopSteps(t) ==
  \/ RunBegins(t)
  \/ RunFailsEarly(t)
  \/ FollowerReads(t)
  \/ FollowerEnds(t)
  \/ CancelArrives(t)

TasksNext ==
  \E t \in Tasks :
    \/ \E mode \in {"definition", "fork"}, background \in BOOLEAN, allow \in Allowances :
         Start(t, mode, background, allow)
    \/ LoopSteps(t)
    \/ AgentSteps(t)
    \/ Kill(t)
    \/ CallReturns(t)
    \/ CallTimesOut(t)
    \/ CallerCancelled(t)

TasksSpec == TasksInit /\ [][TasksNext]_taskVars

\* asyncio resumes what is ready.  Nothing is assumed of the agents.
TasksFairSpec == TasksSpec /\ \A t \in Tasks : WF_taskVars(LoopSteps(t))

-----------------------------------------------------------------------------
(***************************************************************************)
(* Properties                                                              *)
(***************************************************************************)
TaskRecord == [status : {"none", "running"} \cup Finished,
               mode : {"none", "definition", "fork"},
               background : BOOLEAN]
FutureRecord == [phase : {"none", "created", "following", "done"}, cancelled : BOOLEAN]
AgentRecord == [phase : {"none", "working", "returned", "raised"},
                tools : SUBSET Registry, used : SUBSET Registry]
ChannelRecord == [queued : 0..Capacity, closed : BOOLEAN]
CallStates == {"none", "waiting", "named", "answered", "timeout", "cancelled"}

\* A task has a future as long as it runs, an agent only once its future has
\* begun, and no worker can start another.
PartsAgree ==
  \A t \in Tasks :
    /\ tasks[t].status = "running" => futures[t].phase \in {"created", "following"}
    /\ agents[t].phase # "none" => futures[t].phase \in {"following", "done"}
    /\ agents[t].used \subseteq agents[t].tools \ {SpawnWorker}

\* Every variable has its type, and the tables agree on what there is.
TasksTypeOK ==
  /\ tasks \in [Tasks -> TaskRecord]
  /\ futures \in [Tasks -> FutureRecord]
  /\ agents \in [Tasks -> AgentRecord]
  /\ channels \in [Tasks -> ChannelRecord]
  /\ calls \in [Tasks -> CallStates]
  /\ notices \in [Tasks -> 0..1]
  /\ killed \subseteq Tasks
  /\ PartsAgree

\* A task that came to its own end was announced once, and a killed one, or one
\* still running, never: whatever was under way when it was killed.
ToldOnce ==
  \A t \in Tasks :
    notices[t] = IF tasks[t].status \in {"succeeded", "failed"} THEN 1 ELSE 0

\* A task is cancelled by a kill and by nothing else, and stays so: neither the
\* timeout nor the end of the call that waits for it takes it along, and a
\* result that comes in after the kill does not replace it.
CancelledIsKilled == \A t \in Tasks : tasks[t].status = "cancelled" <=> t \in killed

\* The answer of a foreground call is that of a task that is over and that
\* nobody killed; a call that left its task running left it in the background.
AnswerIsFinal ==
  \A t \in Tasks :
    /\ calls[t] = "answered" => tasks[t].status \in {"succeeded", "failed"}
    /\ calls[t] \in {"timeout", "cancelled"} => tasks[t].background

\* The tasks as those around them see them.
Lifecycle == INSTANCE TaskLifecycle WITH
  status <- [t \in Tasks |-> tasks[t].status],
  told <- notices,
  reply <- calls

\* Through every order of results, kills, timeouts and cancelled callers a task
\* does what its owner is promised: it ends once, by itself and announced or by
\* a kill and silently, and whoever waits for it never moves it.
IsLifecycle == Lifecycle!Spec

\* A task comes to an end, however full its channel is when its agent's run
\* does: a run does not use tools for ever (RunEnds of AgentLoop), so it ends
\* when there is room for its last event again and again.
TasksEnd ==
  \A t \in Tasks :
    SF_taskVars(AgentEnds(t)) =>
      (tasks[t].status = "running" ~> tasks[t].status \in Finished)

-----------------------------------------------------------------------------
(***************************************************************************)
(* The inductive invariant behind the safety properties                    *)
(***************************************************************************)
\* A task's status follows its future: it runs until the future is done or
\* cancelled, and is cancelled with it and in no other way.
StatusFollows ==
  \A t \in Tasks :
    /\ futures[t].phase = "none" <=> tasks[t].status = "none"
    /\ futures[t].phase = "done" => tasks[t].status \in Finished
    /\ futures[t].phase \in {"created", "following"} =>
         tasks[t].status \in {"running", "cancelled"}
    /\ futures[t].cancelled <=> tasks[t].status = "cancelled"

\* Nobody calls, and no agent has used a tool, before there is a task.
NothingBeforeStart ==
  \A t \in Tasks :
    /\ tasks[t].status = "none" => calls[t] = "none"
    /\ agents[t].phase = "none" => agents[t].used = {}

\* No worker is given the tool that starts workers.
NoWorkerSpawns == \A t \in Tasks : SpawnWorker \notin agents[t].tools

TasksIInv ==
  /\ TasksTypeOK
  /\ NoWorkerSpawns
  /\ StatusFollows
  /\ NothingBeforeStart
  /\ ToldOnce
  /\ CancelledIsKilled
  /\ AnswerIsFinal
=============================================================================
