----------------------------- MODULE ToolAccess ------------------------------
(***************************************************************************)
(* Who may change what: WriteFile and EditFile (src/zxcode/tools/files.py) *)
(* and Bash (tools/shell.py) under the SecurityPolicy of security.py.  A   *)
(* call that has to ask waits for the user in a dialog, and other calls,   *)
(* other programs and a timeout act meanwhile.  The app has one policy,    *)
(* used by replies and by Skills at the same time; a sub-worker loads its  *)
(* own (workers/runner.py) and cannot ask.                                 *)
(*                                                                         *)
(* Abstractions: a target is a path or a command and its own signature;    *)
(* commands and paths that are refused whatever the rules say are the set  *)
(* HardBlocked.  An edit's new text is chosen, not computed; a rule's      *)
(* reason is left out.  Rules of the dispatcher and plan-only come before  *)
(* all this (AgentLoop).                                                   *)
(***************************************************************************)
EXTENDS Integers, Sequences, FiniteSets

CONSTANTS
  Files, Commands,
  ReadOnlyCommands,  \* those is_read_only_command knows
  HardBlocked,       \* targets outside the roots, dangerous commands
  Unwritable,        \* targets with a line end or a control character
  Contents,          \* what a file may hold
  AppCalls,          \* calls of the app's loops, each made once
  WorkerCalls,       \* calls of the sub-worker
  Configs,           \* bound: what others leave in zxcode-security.toml
  AppMode,           \* security_mode of the app's configuration
  RoleModes,         \* permission_mode of the worker's role
  MaxOutside,        \* bound: changes of files from outside the calls
  MaxRestarts,       \* bound: ends of the process
  Nothing            \* None; as a content, no file

Tools == {"WriteFile", "EditFile", "Bash"}
Targets == Files \cup Commands
Modes == {"strict", "default", "allow"}
Rule == [tool : Tools \cup {"*"}, kind : {"allow", "ask", "deny"}, target : Targets]
ConfigFiles == [state : {"none", "ok", "broken"}, mode : Modes \cup {Nothing}, rules : Seq(Rule)]
Policies == [mode : Modes, rules : Seq(Rule), session : SUBSET (Tools \X Targets)]

ASSUME AccessAssumption ==
  /\ Files \cap Commands = {}
  /\ ReadOnlyCommands \subseteq Commands
  /\ HardBlocked \cup Unwritable \subseteq Files \cup Commands
  /\ AppCalls \cap WorkerCalls = {}
  /\ Nothing \notin Contents \cup Targets
  /\ Configs \subseteq ConfigFiles /\ {AppMode} \cup RoleModes \subseteq Modes
  /\ {MaxOutside, MaxRestarts} \subseteq Nat

VARIABLES
  disk,            \* the files
  saved,           \* zxcode-security.toml
  policies,        \* the SecurityPolicy of the app, and of the worker
  calls,           \* the calls and how far each has got
  outside, restarts,
  rules0,          \* ghost: the rules of the file when the app first started
  effects,         \* ghost: what was written and run, and with whose consent
  consents,        \* ghost: <<tool, target>> allowed for longer than one call
  forever,         \* ghost: those of them written to the file
  intact,          \* ghost: the file reads back as what was last saved
  misread          \* ghost: a policy was loaded from a file that did not

ghosts == <<rules0, effects, consents, forever, intact, misread>>
vars == <<disk, saved, policies, calls, outside, restarts, rules0, effects,
          consents, forever, intact, misread>>

Owner(c) == IF c \in AppCalls THEN "app" ELSE "worker"

(***************************************************************************)
(* Decisions                                                               *)
(***************************************************************************)
Matching(rules, tool, target) ==
  {i \in DOMAIN rules : rules[i].tool \in {tool, "*"} /\ rules[i].target = target}

\* The project rule that decides: the first that matches.
FirstRule(rules, tool, target) ==
  rules[CHOOSE i \in Matching(rules, tool, target) :
          \A j \in Matching(rules, tool, target) : i <= j].kind

\* Where no rule matches.
ByMode(mode, tool, target, exists) ==
  IF mode = "strict" THEN "deny"
  ELSE IF \/ mode = "allow"
          \/ tool = "WriteFile" /\ ~exists
          \/ target \in ReadOnlyCommands
       THEN "allow" ELSE "ask"

\* Mutant: a permission for the session is looked up by the target alone.
DecisionForAnyTool(policy, tool, target, exists) ==
  IF target \in HardBlocked THEN "deny"
  ELSE IF \E other \in Tools : <<other, target>> \in policy.session THEN "allow"
  ELSE IF Matching(policy.rules, tool, target) # {}
       THEN FirstRule(policy.rules, tool, target)
  ELSE ByMode(policy.mode, tool, target, exists)

\* evaluate_file and evaluate_shell: hard limits, then the session's rules,
\* then the project's, then the mode.
Decision(policy, tool, target, exists) ==
  IF target \in HardBlocked THEN "deny"
  ELSE IF <<tool, target>> \in policy.session THEN "allow"
  ELSE IF Matching(policy.rules, tool, target) # {}
       THEN FirstRule(policy.rules, tool, target)
  ELSE ByMode(policy.mode, tool, target, exists)

\* load_policy: a missing or unreadable file means no rules, and a mode in the
\* file overrides the one it is called with.
LoadPolicy(file, mode) ==
  [mode    |-> IF file.state = "ok" /\ file.mode # Nothing THEN file.mode ELSE mode,
   rules   |-> IF file.state = "ok" THEN file.rules ELSE << >>,
   session |-> {}]

Idle == [phase |-> "idle", tool |-> Nothing, target |-> Nothing,
         expected |-> Nothing, text |-> Nothing, found |-> FALSE]

Init ==
  /\ disk \in [Files -> Contents \cup {Nothing}]
  /\ saved \in Configs
  /\ policies = [app |-> LoadPolicy(saved, AppMode), worker |-> Nothing]
  /\ calls = [c \in AppCalls \cup WorkerCalls |-> Idle]
  /\ outside = 0 /\ restarts = 0
  /\ rules0 = policies.app.rules
  /\ effects = {} /\ consents = {} /\ forever = {}
  /\ intact = TRUE /\ misread = FALSE

(***************************************************************************)
(* A call                                                                  *)
(***************************************************************************)
Ends(c) == calls' = [calls EXCEPT ![c] = [Idle EXCEPT !.phase = "done"]]

\* The write, or the command; an OSError leaves the file as it was.
TakesEffect(c, call, approved) ==
  /\ Ends(c)
  /\ \/ /\ call.tool = "Bash" /\ UNCHANGED disk
     \/ call.tool # "Bash" /\ disk' = [disk EXCEPT ![call.target] = call.text]
  /\ effects' = effects \cup
       {[tool |-> call.tool, target |-> call.target, existed |-> call.found,
         mode |-> policies[Owner(c)].mode, approved |-> approved]}

\* What WriteFile and EditFile look at before they ask.
Current(call) ==
  CASE call.tool = "Bash"      -> TRUE
    [] call.tool = "EditFile"  -> call.found /\ disk[call.target] = call.expected
    [] call.tool = "WriteFile" -> call.found => disk[call.target] = call.expected

\* execute, once it has read the file: refused, waiting for the user, or done.
\* The dispatcher's own look at the policy, just before, can only refuse what
\* is refused here.
GoesOn(c, call) ==
  LET decision == Decision(policies[Owner(c)], call.tool, call.target, call.found)
      forbidden == decision = "deny" \/ (decision = "ask" /\ c \in WorkerCalls)
  IN  \/ /\ ~Current(call) \/ forbidden
         /\ Ends(c)
         /\ UNCHANGED <<disk, effects>>
      \/ /\ Current(call) /\ decision = "ask" /\ c \in AppCalls
         /\ calls' = [calls EXCEPT ![c] = call]
         /\ UNCHANGED <<disk, effects>>
      \/ /\ Current(call) /\ decision = "allow"
         /\ TakesEffect(c, call, FALSE)

Exists(target) == target \in Files /\ disk[target] # Nothing

CallStarts(c) ==
  /\ calls[c].phase = "idle" /\ policies[Owner(c)] # Nothing
  /\ \E tool \in Tools, target \in Targets,
        expected \in Contents \cup {Nothing}, text \in Contents \cup {Nothing} :
       /\ tool = "Bash" <=> target \in Commands
       /\ tool = "Bash" <=> text = Nothing
       /\ ~Exists(target) => expected = Nothing    \* nobody looks at it
       /\ GoesOn(c, [phase |-> "asking", tool |-> tool, target |-> target,
                     expected |-> expected, text |-> text, found |-> Exists(target)])
  /\ UNCHANGED <<saved, policies, outside, restarts, rules0, consents, forever,
                 intact, misread>>

(***************************************************************************)
(* The user's answer                                                       *)
(***************************************************************************)
Asking(c) == calls[c].phase = "asking"
Key(c) == <<calls[c].tool, calls[c].target>>

\* Mutant: the file is not read again after the wait.
AfterApprovalUnchecked(c) ==
  TakesEffect(c, calls[c], TRUE)

\* A file that was there is read again after the wait; one that was not is
\* written without another look.
AfterApproval(c) ==
  IF calls[c].found => disk[calls[c].target] = calls[c].expected
  THEN TakesEffect(c, calls[c], TRUE)
  ELSE Ends(c) /\ UNCHANGED <<disk, effects>>

\* "deny", the timeout of the executor, or a cancellation of the run.
Refused(c) ==
  /\ Asking(c)
  /\ Ends(c)
  /\ UNCHANGED <<disk, saved, policies, outside, restarts, ghosts>>

ApprovedOnce(c) ==
  /\ Asking(c)
  /\ AfterApproval(c)
  /\ UNCHANGED <<saved, policies, outside, restarts, rules0, consents, forever,
                 intact, misread>>

\* allow_session.
ApprovedForSession(c) ==
  /\ Asking(c)
  /\ policies' = [policies EXCEPT !.app.session = @ \cup {Key(c)}]
  /\ consents' = consents \cup {Key(c)}
  /\ AfterApproval(c)
  /\ UNCHANGED <<saved, outside, restarts, rules0, forever, intact, misread>>

\* The list with the new rule: at its end, unless it is there.
WithRule(rules, key) ==
  LET rule == [tool |-> key[1], kind |-> "allow", target |-> key[2]]
  IN  IF \E i \in DOMAIN rules : rules[i] = rule THEN rules ELSE Append(rules, rule)

NewRules(c) == WithRule(policies.app.rules, Key(c))

\* The TOML writer escapes quotes and backslashes and nothing else: a list
\* with one such target makes a file that cannot be parsed.
Readable(rules) == \A i \in DOMAIN rules : rules[i].target \notin Unwritable

Written(rules) ==
  [state |-> IF Readable(rules) THEN "ok" ELSE "broken",
   mode |-> policies.app.mode, rules |-> rules]

\* Mutant: the file is written before the rule is in the list.
ApprovedForEverTooSoon(c) ==
  /\ Asking(c)
  /\ policies' = [policies EXCEPT !.app.rules = NewRules(c)]
  /\ saved' = Written(policies.app.rules)
  /\ intact' = Readable(policies.app.rules)
  /\ consents' = consents \cup {Key(c)}
  /\ forever' = forever \cup {Key(c)}
  /\ AfterApproval(c)
  /\ UNCHANGED <<outside, restarts, rules0, misread>>

\* allow_permanent, when save succeeds; a rule that is in the list already,
\* after a save that failed, is not saved again.
ApprovedForEver(c) ==
  /\ Asking(c)
  /\ policies' = [policies EXCEPT !.app.rules = NewRules(c)]
  /\ consents' = consents \cup {Key(c)}
  /\ \/ /\ NewRules(c) # policies.app.rules
        /\ saved' = Written(NewRules(c))
        /\ intact' = Readable(NewRules(c))
        /\ forever' = forever \cup {Key(c)}
     \/ /\ NewRules(c) = policies.app.rules
        /\ UNCHANGED <<saved, intact, forever>>
  /\ AfterApproval(c)
  /\ UNCHANGED <<outside, restarts, rules0, misread>>

\* save rewrites the file in place: cut off, it leaves the beginning, readable
\* or not.
CutFiles(c) ==
  {[state |-> state, mode |-> policies.app.mode, rules |-> SubSeq(NewRules(c), 1, n)] :
     n \in 0..Len(NewRules(c)), state \in {"ok", "broken"}}
  \cup {[state |-> "ok", mode |-> Nothing, rules |-> << >>]}

\* save raises, before it writes or in the middle of it: the call fails, the
\* rule stays in memory.
SaveFails(c) ==
  /\ Asking(c) /\ NewRules(c) # policies.app.rules
  /\ policies' = [policies EXCEPT !.app.rules = NewRules(c)]
  /\ consents' = consents \cup {Key(c)}
  /\ Ends(c)
  /\ \/ UNCHANGED <<saved, intact>>
     \/ saved' \in CutFiles(c) /\ intact' = FALSE
  /\ UNCHANGED <<disk, outside, restarts, rules0, effects, forever, misread>>

(***************************************************************************)
(* The process, the worker and other programs                              *)
(***************************************************************************)
\* The app ends and starts again: what was asked is gone, and so is what was
\* allowed for the session; the policy is read from the file.
StartsAgainWith(file, whole) ==
  /\ restarts < MaxRestarts /\ restarts' = restarts + 1
  /\ saved' = file /\ intact' = whole /\ misread' = (misread \/ ~whole)
  /\ policies' = [app |-> LoadPolicy(file, AppMode), worker |-> Nothing]
  /\ calls' = [c \in DOMAIN calls |->
                 IF Asking(c) THEN [Idle EXCEPT !.phase = "done"] ELSE calls[c]]
  /\ UNCHANGED <<disk, outside, rules0, effects, consents, forever>>

Restart == StartsAgainWith(saved, intact)

\* The process dies in save.
SaveTorn(c) ==
  /\ Asking(c) /\ NewRules(c) # policies.app.rules
  /\ \E file \in CutFiles(c) : StartsAgainWith(file, FALSE)

\* run_worker: a policy of its own, in the mode of the role.
WorkerStarts ==
  /\ policies.worker = Nothing
  /\ \E mode \in RoleModes :
       policies' = [policies EXCEPT !.worker = LoadPolicy(saved, mode)]
  /\ misread' = (misread \/ ~intact)
  /\ UNCHANGED <<disk, saved, calls, outside, restarts, rules0, effects, consents,
                 forever, intact>>

\* An editor, or a program, writes, creates or removes a file.
OutsideChanges(f) ==
  /\ outside < MaxOutside /\ outside' = outside + 1
  /\ \E content \in Contents \cup {Nothing} :
       /\ content # disk[f]
       /\ disk' = [disk EXCEPT ![f] = content]
  /\ UNCHANGED <<saved, policies, calls, restarts, ghosts>>

\* zxcode-security.toml lies in the project like any file: an editor rewrites
\* it, or what WriteFile, EditFile or Bash did, in a call like those above.
RulesRewritten ==
  /\ outside < MaxOutside /\ outside' = outside + 1
  /\ saved' \in Configs /\ intact' = FALSE
  /\ UNCHANGED <<disk, policies, calls, restarts, rules0, effects, consents, forever,
                 misread>>

Next ==
  \/ \E c \in DOMAIN calls :
       \/ CallStarts(c)
       \/ Refused(c)
       \/ ApprovedOnce(c)
       \/ ApprovedForSession(c)
       \/ ApprovedForEver(c)
       \/ SaveFails(c)
       \/ SaveTorn(c)
  \/ Restart
  \/ WorkerStarts
  \/ RulesRewritten
  \/ \E f \in Files : OutsideChanges(f)

Spec == Init /\ [][Next]_vars

-----------------------------------------------------------------------------
(***************************************************************************)
(* Properties                                                              *)
(***************************************************************************)
CallRecords == [phase : {"idle", "asking", "done"}, tool : Tools \cup {Nothing},
                target : Targets \cup {Nothing}, expected : Contents \cup {Nothing},
                text : Contents \cup {Nothing}, found : BOOLEAN]

\* Only the app's calls ask, about what a rule may speak of, and with a text
\* to write if the tool writes.
AskedSensibly ==
  \A c \in DOMAIN calls : Asking(c) =>
    /\ c \in AppCalls
    /\ Key(c) \in Tools \X (Targets \ HardBlocked)
    /\ calls[c].tool # "Bash" => calls[c].target \in Files /\ calls[c].text \in Contents

\* Every variable has its type, and what is asked can be answered.
TypeOK ==
  /\ disk \in [Files -> Contents \cup {Nothing}]
  /\ saved \in ConfigFiles
  /\ policies \in [app : Policies, worker : Policies \cup {Nothing}]
  /\ calls \in [AppCalls \cup WorkerCalls -> CallRecords]
  /\ outside \in 0..MaxOutside /\ restarts \in 0..MaxRestarts
  /\ rules0 \in Seq(Rule)
  /\ effects \subseteq [tool : Tools, target : Targets, existed : BOOLEAN, mode : Modes,
                        approved : BOOLEAN]
  /\ consents \cup forever \subseteq Tools \X Targets /\ {intact, misread} \subseteq BOOLEAN
  /\ AskedSensibly

\* A call that found a file replaces what it was told the file holds, and
\* nothing that anybody else wrote there while the user was asked.
ReplacesWhatItRead ==
  [][\A c \in DOMAIN calls :
       Asking(c) /\ calls[c].found /\ disk' # disk /\ ~Asking(c)' =>
         disk[calls[c].target] = calls[c].expected]_vars

\* What a project rule denies, or a hard limit, is not done: not by another
\* tool's permission, by a rule added later, by a worker or after a restart.
\* It is no longer so once a policy was loaded from a file that a save left cut
\* off, that holds a permission for a multi-line command, or that was rewritten
\* from outside (misread): until that start it is.
DenyHolds ==
  ~misread => \A e \in effects :
    /\ e.target \notin HardBlocked
    /\ Matching(rules0, e.tool, e.target) # {} => FirstRule(rules0, e.tool, e.target) # "deny"

\* Everything that was done was allowed by the file or the mode from the
\* start, or by the user: in the call's own dialog, or before for this tool
\* and this target.  A policy that was misread allows what it likes.
EffectsConsented ==
  ~misread => \A e \in effects :
    \/ e.approved \/ <<e.tool, e.target>> \in consents
    \/ Decision([mode |-> e.mode, rules |-> rules0, session |-> {}],
                e.tool, e.target, e.existed) = "allow"

\* What the user allowed permanently, and was saved, is not asked about again,
\* restarts included: unless an earlier rule of the project says to ask, or
\* the file was misread, which one permission for a multi-line command is
\* enough for, whatever else was allowed.
PermanentLasts ==
  ~misread => \A key \in forever :
    \/ Decision(policies.app, key[1], key[2], TRUE) = "allow"
    \/ Matching(rules0, key[1], key[2]) # {} /\ FirstRule(rules0, key[1], key[2]) = "ask"
-----------------------------------------------------------------------------
(***************************************************************************)
(* The inductive invariant behind the safety properties                    *)
(***************************************************************************)
\* A list of rules that began as the project's and was added to by consent.
Grown(rules, project, keys) ==
  /\ Len(project) <= Len(rules)
  /\ \A i \in 1..Len(project) : rules[i] = project[i]
  /\ \A i \in (Len(project) + 1)..Len(rules) :
       rules[i].kind = "allow" /\ <<rules[i].tool, rules[i].target>> \in keys

\* Something the project leaves to the user, or allows.
Askable(project, tool, target) ==
  /\ target \notin HardBlocked
  /\ Matching(project, tool, target) # {} => FirstRule(project, tool, target) # "deny"

Has(rules, key) == Matching(rules, key[1], key[2]) # {}

SavedRules == LoadPolicy(saved, AppMode).rules

\* In memory, and in the file while it is intact, the rules are the project's
\* and what the user added; the user was asked about nothing that is denied.
RulesSound ==
  /\ Grown(policies.app.rules, rules0, consents)
  /\ intact => Grown(SavedRules, rules0, consents)
  /\ policies.app.session \subseteq consents
  /\ policies.worker # Nothing =>
       Grown(policies.worker.rules, rules0, consents) /\ policies.worker.session = {}
  /\ \A key \in consents : Askable(rules0, key[1], key[2])
  /\ \A c \in DOMAIN calls : Asking(c) => Askable(rules0, calls[c].tool, calls[c].target)
  /\ forever \subseteq consents
  /\ \A key \in forever : Has(policies.app.rules, key) /\ (intact => Has(SavedRules, key))

IInv ==
  /\ TypeOK
  /\ ~misread => RulesSound
  /\ DenyHolds
  /\ EffectsConsented
=============================================================================
