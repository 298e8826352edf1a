----------------------------- MODULE MCStartup -----------------------------
(***************************************************************************)
(* A small instance of Startup: an old session or none, and on disk      *)
(* one configuration at a time in all its variants, with the others in     *)
(* order.  Instruction files: a project file of two includes and every way *)
(* to go on from there through three more, cycles and a file outside among *)
(* them.  Files of rules: every text of up to three lines, and those of    *)
(* four that begin with a key.                                             *)
(***************************************************************************)
EXTENDS Startup

CONSTANTS s1, s2

TwoIds == {s1, s2}
NewOrOld == {[id \in Ids |-> << >>],
             [id \in Ids |-> IF id = s1 THEN <<1, 2>> ELSE << >>]}
SomeNames == {"review", "commit", "mode"}
TheirModes == [n \in SomeNames |-> IF n = "review" THEN "isolated" ELSE "shared"]
FoundByScans == {{"review"}, {"commit", "mode"}}

\* Instruction files.
Targets == {"p1", "p2", "p3", "p4", "u1"}
NextLines == {<<"text", g>> : g \in Targets} \cup {<<"text">>}
ProjectLines ==
  {("p1" :> <<g, "text", h>>) @@ ("p2" :> two) @@ ("p3" :> three) @@ ("p4" :> four) @@ ("u1" :> <<"text">>) :
     g \in {"p2", "p3", "u1", "refused"}, h \in {"p2", "p3", "p4"},
     two \in NextLines, three \in NextLines, four \in {<<"text">>, <<"p2", "text">>}}
Unread(lines, f) == [g \in DOMAIN lines \ {f} |-> lines[g]]
ScopeOf(lines) ==
  [main |-> "p1", there |-> TRUE, root |-> {"p1", "p2", "p3", "p4"}, lines |-> lines]
OneText == "p1" :> <<"text">>
NoScope == [main |-> "u1", there |-> FALSE, root |-> {"u1"}, lines |-> << >>]
UserScope == [main |-> "u1", there |-> TRUE, root |-> {"u1"}, lines |-> "u1" :> <<"p1", "text">>]
Scopes ==
  {<<ScopeOf(lines), NoScope>> : lines \in ProjectLines}
  \cup {<<ScopeOf(Unread(OneText, "p1")), UserScope>>,
        <<ScopeOf(("p1" :> <<"p2", "text">>) @@ ("p3" :> <<"text">>)), UserScope>>}

\* Files of rules.
Line(indent, form) == [indent |-> indent, form |-> form]
Lines == [indent : 0..2, form : {"item", "entry", "key", "value", "junk"}]
Shapes ==
  UNION {[1..n -> Lines] : n \in 0..3}
  \cup {<<Line(i, "key")>> \o rest : i \in 0..1, rest \in [1..3 -> Lines]}
Raw(id) ==
  [id |-> id, event |-> "turn_start", reject |-> FALSE, async |-> FALSE, actions |-> 1, ill |-> {}]
Listing(raws) ==
  [lines |-> <<Line(0, "key"), Line(1, "entry"), Line(2, "value")>>, listed |-> TRUE, raws |-> raws]
SomeRaws ==
  {<<Raw("a")>>, <<Raw("a"), Raw("b")>>, <<Raw("a"), Raw("a")>>,
   <<[Raw("a") EXCEPT !.reject = TRUE]>>, <<[Raw("a") EXCEPT !.actions = 0]>>,
   <<Raw("b"), [Raw("c") EXCEPT !.ill = {"when"}]>>,
   <<[Raw("c") EXCEPT !.event = "pre_tool_use", !.reject = TRUE, !.actions = 0]>>,
   <<[Raw("c") EXCEPT !.event = "pre_tool_use", !.async = TRUE]>>}
RuleDirectories ==
  {<<[lines |-> shape, listed |-> TRUE, raws |-> << >>]>> : shape \in Shapes}
  \cup {<<Listing(a), Listing(b)>> : a, b \in SomeRaws}
  \cup {<<Listing(a), [Listing(<< >>) EXCEPT !.listed = FALSE]>> : a \in SomeRaws}

\* Servers, policy, roles, Skills.
Server(name, transport) ==
  [name |-> name, named |-> TRUE, transport |-> transport, command |-> TRUE, url |-> FALSE,
   variables |-> {"TOKEN"}, ill |-> {}]
ServerFiles ==
  {[state |-> "broken", servers |-> << >>]}
  \cup {[state |-> "ok", servers |-> <<Server("fs", "stdio"), second>>] :
         second \in {Server("fs", "stdio"), Server("web", "http"), Server("git", "stdio"),
                     [Server("web", "http") EXCEPT !.url = TRUE],
                     [Server("git", "stdio") EXCEPT !.variables = {"HOME"}],
                     [Server("git", "tcp") EXCEPT !.ill = {"timeout"}],
                     [Server("git", "stdio") EXCEPT !.named = FALSE]}}
Policies ==
  [state : {"missing", "broken", "ok"}, mode : {"strict", "odd"}, roots : SUBSET {"outside", "src"},
   rules : {<< >>, <<[fits |-> TRUE], [fits |-> FALSE]>>}]
Role(name, ill) == [name |-> name, delimited |-> TRUE, ill |-> ill]
Roles ==
  {<<Role("tester", a), Role("verifier", {}), Role("tester", b)>> : a, b \in {{}, {"max_turns"}}}
Skill(name, tools) ==
  [name |-> name, inside |-> TRUE, delimited |-> TRUE, ill |-> {}, tools |-> tools,
   own |-> {"count"}]
Two(last) == <<Skill("commit", {}), Skill("mode", {"count", "Bash"}), last>>
SkillFiles ==
  {<<Skill("review", {})>>, Two(Skill("commit", {"LoadSkill"})), Two(Skill("review", {"LoadSkill"})),
   Two([Skill("review", {}) EXCEPT !.delimited = FALSE]), Two([Skill("commit", {}) EXCEPT !.ill = {"mode"}]), Two([Skill("review", {}) EXCEPT !.inside = FALSE]),
   Two(Skill("rules", {}))}

InOrder ==
  [settings |-> TRUE, verifier |-> FALSE,
   servers |-> [state |-> "missing", servers |-> << >>],
   policy |-> [state |-> "missing", mode |-> "default", roots |-> {}, rules |-> << >>],
   rules |-> << >>, roles |-> << >>, skills |-> <<Skill("review", {})>>,
   scopes |-> <<ScopeOf(OneText), NoScope>>]

SomeDocuments ==
  {InOrder, [InOrder EXCEPT !.settings = FALSE]}
  \cup {[InOrder EXCEPT !.servers = f] : f \in ServerFiles}
  \cup {[InOrder EXCEPT !.policy = f] : f \in Policies}
  \cup {[InOrder EXCEPT !.roles = f, !.verifier = v] : f \in Roles, v \in BOOLEAN}
  \cup {[InOrder EXCEPT !.skills = f] : f \in SkillFiles}
  \cup {[InOrder EXCEPT !.rules = f] : f \in RuleDirectories}
  \cup {[InOrder EXCEPT !.scopes = f] : f \in Scopes}
=============================================================================
