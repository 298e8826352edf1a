----------------------------- MODULE Transcript -----------------------------
(***************************************************************************)
(* Chat messages as src/zxcode hands them to the model, keeps them in a    *)
(* session and archives them: an assistant message asks for tool calls by  *)
(* id, a tool message answers one call.  The text of a message is left     *)
(* out; what pairs messages is kept.                                       *)
(***************************************************************************)
EXTENDS Naturals, Sequences

AssistantMessage(ids) == [role |-> "assistant", calls |-> ids]
ToolMessage(id, code) == [role |-> "tool", call |-> id, code |-> code]

Asked(msgs) ==
  UNION {msgs[k].calls : k \in {j \in DOMAIN msgs : msgs[j].role = "assistant"}}
Answered(msgs) ==
  {msgs[k].call : k \in {j \in DOMAIN msgs : msgs[j].role = "tool"}}

\* The calls without an answer.
Dangling(msgs) == Asked(msgs) \ Answered(msgs)

Before(msgs, k) == SubSeq(msgs, 1, k - 1)

\* A transcript a provider accepts: a tool message answers a call that is
\* open, any other message comes when nothing is open.
WellFormed(msgs) ==
  \A k \in DOMAIN msgs :
    IF msgs[k].role = "tool" THEN msgs[k].call \in Dangling(Before(msgs, k))
    ELSE Dangling(Before(msgs, k)) = {}
=============================================================================
