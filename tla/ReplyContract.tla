--------------------------- MODULE ReplyContract ----------------------------
(***************************************************************************)
(* What one run of the loop owes to the session, to the archive and to the *)
(* user who watches: the run as a dialogue, without turns, batches, hooks, *)
(* guards or the places where a cancellation can strike.  AgentLoop        *)
(* implements it.                                                          *)
(***************************************************************************)
EXTENDS Transcript, SequencesExt

CONSTANTS
  Reasons,         \* of a run that comes to its own end
  NotRun           \* codes of answers that say that the tool was not run

VARIABLES
  sent,            \* the conversation as the model sees it
  transcript,      \* the conversation as it will be archived
  ran,             \* calls whose tool was started
  outcome          \* "running", "unwinding", "cancelled", "error", "aborted", a reason

vars == <<sent, transcript, ran, outcome>>

Open == Dangling(transcript)

Init == sent = << >> /\ transcript = << >> /\ ran = {} /\ outcome = "running"

\* The model asks for calls it has not asked for before, with none open.
Asks ==
  /\ outcome = "running" /\ Open = {}
  /\ Len(transcript') = Len(transcript) + 1
  /\ transcript'[Len(transcript')] = AssistantMessage(Asked(transcript') \ Asked(transcript))
  /\ transcript' = Append(transcript, transcript'[Len(transcript')])
  /\ sent' = Append(sent, transcript'[Len(transcript')])
  /\ UNCHANGED <<ran, outcome>>

\* A tool is run once, for a call that is open; after a failure a read of the
\* same batch may still begin.
Runs ==
  /\ \E id \in Asked(transcript) \ ran :
       /\ id \in Open \/ outcome = "error"
       /\ ran' = ran \cup {id}
  /\ UNCHANGED <<sent, transcript, outcome>>

\* Every open call gets one answer.
Settles ==
  /\ IsPrefix(transcript, transcript')
  /\ WellFormed(transcript') /\ Dangling(transcript') = {}
  /\ Asked(transcript') = Asked(transcript)

Added == SubSeq(transcript', Len(transcript) + 1, Len(transcript'))

\* The batch is back: both conversations get the same answers, which tell of a
\* success only if the tool was run, and of a refusal only if it was not.
Answers ==
  /\ outcome = "running"
  /\ Settles
  /\ sent' = sent \o Added
  /\ \A k \in DOMAIN Added :
       /\ Added[k].code = "ok" => Added[k].call \in ran
       /\ Added[k].code \in NotRun => Added[k].call \notin ran
  /\ UNCHANGED <<ran, outcome>>

\* A cancelled run says "cancelled" of the calls that are left, none of which
\* was run; a failed run may say it of calls that were.
Unwinds ==
  /\ outcome = "running"
  /\ \/ outcome' = "unwinding" /\ Open \cap ran = {}
     \/ outcome' = "error"
  /\ Settles
  /\ \A k \in DOMAIN Added : Added[k].code = "cancelled"
  /\ UNCHANGED <<sent, ran>>

IsCancelled ==
  /\ outcome = "unwinding" /\ outcome' = "cancelled"
  /\ UNCHANGED <<sent, transcript, ran>>

\* A run that was not interrupted leaves the same conversation to the session
\* and to the archive, with nothing open.
Ends ==
  /\ outcome = "running" /\ outcome' \in Reasons
  /\ Open = {} /\ sent = transcript
  /\ UNCHANGED <<sent, transcript, ran>>

Aborts ==
  /\ outcome \in {"running", "unwinding"} /\ outcome' = "aborted"
  /\ UNCHANGED <<sent, transcript, ran>>

Next == Asks \/ Runs \/ Answers \/ Unwinds \/ IsCancelled \/ Ends \/ Aborts

Spec == Init /\ [][Next]_vars
=============================================================================
