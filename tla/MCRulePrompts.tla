---------------------------- MODULE MCRulePrompts ----------------------------
(* A small instance of RulePrompts: two calls of tools, the reply, the exit; *)
(* rules that are fired once, in the background, that reject, that prompt,   *)
(* and two lists of them; a fresh session and one that was resumed.          *)
EXTENDS RulePrompts, TLC

CONSTANTS tool1, tool2

TwoTools == {tool1, tool2}
OneLoop == {Reply}
SameTools == Permutations(TwoTools)

CallsDiffer == [a \in Actors |-> IF a \in TwoTools THEN {"fine", "bad"} ELSE {"fine"}]

Rule(id, event, kind) ==
  [id |-> id, event |-> event,
   when |-> IF "bad" \in kind THEN {"bad"} ELSE {"bad", "fine"},
   once |-> "once" \in kind, async |-> "async" \in kind, reject |-> "reject" \in kind,
   actions |-> IF "reject" \in kind THEN 0 ELSE IF "twice" \in kind THEN 2 ELSE 1]

TwoLists ==
  {<<Rule("check", "pre_tool_use", {"once"}),
     Rule("stop", "pre_tool_use", {"reject", "bad"}),
     Rule("hint", "pre_message", {"once"}),
     Rule("bye", "session_end", {"async"})>>,
   <<Rule("stop", "pre_tool_use", {"reject", "bad"}),
     Rule("first", "pre_tool_use", {"reject", "once"}),
     Rule("check", "post_tool_use", {"once", "async"}),
     Rule("tell", "turn_end", {"twice"})>>}

Earlier(kind) == [is |-> kind, of |-> "earlier"]
FreshOrResumed == {<< >>, <<Message("gap"), Earlier("question"), Earlier("answer")>>}
SomeActive == {<< >>, <<"shared">>, <<"isolated", "shared">>}
=============================================================================
