--------------------------- MODULE TaskLifecycle ----------------------------
(***************************************************************************)
(* What the user, and the agent that delegates, are promised of a          *)
(* sub-worker's task: it runs until it ends by itself, which is announced, *)
(* or until it is killed, which is not; a call that waits for it changes   *)
(* nothing about it.  No futures, channels or timers: WorkerTasks has them *)
(* and implements this.                                                    *)
(***************************************************************************)
EXTENDS Naturals

CONSTANT Tasks

VARIABLES
  status,          \* what /workers shows
  told,            \* how often the user was told of the end
  reply            \* what the call that started the task has got

vars == <<status, told, reply>>

Init ==
  /\ status = [t \in Tasks |-> "none"]
  /\ told = [t \in Tasks |-> 0]
  /\ reply = [t \in Tasks |-> "none"]

\* A call starts a task and waits, or is given its name at once.
Starts(t) ==
  /\ status[t] = "none" /\ status' = [status EXCEPT ![t] = "running"]
  /\ reply' \in {[reply EXCEPT ![t] = r] : r \in {"waiting", "named"}}
  /\ UNCHANGED told

\* The end of a task and its announcement are one step.
EndsByItself(t) ==
  /\ status[t] = "running"
  /\ status' \in {[status EXCEPT ![t] = s] : s \in {"succeeded", "failed"}}
  /\ told' = [told EXCEPT ![t] = @ + 1]
  /\ UNCHANGED reply

Killed(t) ==
  /\ status[t] = "running" /\ status' = [status EXCEPT ![t] = "cancelled"]
  /\ UNCHANGED <<told, reply>>

\* The caller gets an answer of a task that came to its own end, once; or is
\* cancelled with a task that was killed.
Answered(t) ==
  /\ reply[t] = "waiting"
  /\ \/ status[t] \in {"succeeded", "failed"} /\ reply' = [reply EXCEPT ![t] = "answered"]
     \/ status[t] = "cancelled" /\ reply' = [reply EXCEPT ![t] = "cancelled"]
  /\ UNCHANGED <<status, told>>

\* The caller gives up; the task goes on.
GivesUp(t) ==
  /\ reply[t] = "waiting"
  /\ reply' \in {[reply EXCEPT ![t] = r] : r \in {"timeout", "cancelled"}}
  /\ UNCHANGED <<status, told>>

Next == \E t \in Tasks : Starts(t) \/ EndsByItself(t) \/ Killed(t) \/ Answered(t) \/ GivesUp(t)

Spec == Init /\ [][Next]_vars
=============================================================================
