------------------------------ MODULE MCSkills ------------------------------
(* A small instance of Skills: one name that a project and a user directory *)
(* can both carry, and a built-in isolated Skill.                           *)
EXTENDS Skills, TLC

CONSTANTS project, user, builtin, pkg, review, c1, c2, i1

ThreeDirs == {project, user, builtin}
TheirNames == (project :> pkg) @@ (user :> pkg) @@ (builtin :> review)
TheirLevels == (project :> "project") @@ (user :> "user") @@ (builtin :> "builtin")
TwoCallers == {c1, c2}
OneInstall == {i1}
Holds(entry, scripts) == [there |-> TRUE, entry |-> entry, scripts |-> scripts]
AtFirst ==
  {(project :> NoFiles) @@ (user :> Holds("isolated", TRUE)) @@ (builtin :> Holds("isolated", TRUE))}
SomeEdits == {Holds("shared", FALSE), Holds("isolated", TRUE)}
SameCallers == Permutations(TwoCallers)
SomePayloads == {[entry |-> "shared", scripts |-> TRUE], [entry |-> "misfit", scripts |-> FALSE]}
=============================================================================
