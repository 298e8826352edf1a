---------------------------- MODULE MCToolAccess -----------------------------
(***************************************************************************)
(* A small instance of ToolAccess: one file, a command, one of two lines   *)
(* and one that is never run, two calls of the app and one of a worker,    *)
(* and configurations whose rules overlap.                                 *)
(***************************************************************************)
EXTENDS ToolAccess, TLC

CONSTANTS f, git, script, format, app1, app2, work, v1, v2

OneFile == {f}
SomeCommands == {git, script, format}
TwoLines == {script}
Blocked == {format}
TwoVersions == {v1, v2}
AppTwo == {app1, app2}
WorkerOne == {work}

Config(mode, rules) == [state |-> "ok", mode |-> mode, rules |-> rules]
AskFirst == [tool |-> "WriteFile", kind |-> "ask", target |-> f]
NoEdit == [tool |-> "EditFile", kind |-> "deny", target |-> f]
NoGit == [tool |-> "*", kind |-> "deny", target |-> git]
Git == [tool |-> "Bash", kind |-> "allow", target |-> git]
SomeConfigs ==
  {[state |-> "none", mode |-> Nothing, rules |-> << >>],
   Config("default", <<NoEdit>>),
   Config(Nothing, <<AskFirst, Git>>),
   Config("allow", <<NoGit, Git>>),
   Config("strict", <<Git, NoEdit>>)}

\* Neither the calls of the app nor the versions of the file have an order.
Alike == Permutations(AppTwo) \cup Permutations(TwoVersions)
=============================================================================
