--------------------------- MODULE CommandSurface ----------------------------
(***************************************************************************)
(* ChatApp behind its input box: the slash commands of src/zxcode/commands *)
(* (parser, registry, dispatcher, handlers, TextualUI), the commands that  *)
(* Skills add to them, and the list of Skills that the model is offered.   *)
(* A line is typed, parsed, looked up and handled; what a handler does to  *)
(* the session, the archive and the workers are the actions of ChatApp.    *)
(*                                                                         *)
(* A scan of the Skill directories finds whatever the user has put there   *)
(* by then, so a rescan may find any set of names, or raise; Skills has    *)
(* the directories and what is active.  Left out: what is only shown, the  *)
(* model's name, completion, and the mode that /plan sets for the replies  *)
(* to come (AgentLoop has it); /rules reload and /workers kill are actions *)
(* of RuleEngine and WorkerTasks.                                          *)
(***************************************************************************)
EXTENDS ChatApp

CONSTANTS
  SkillNames,      \* names a Skill may have, those of commands among them
  ModeOf,          \* shared or isolated
  Scans            \* bound: sets of names that a scan of the directories may find

VARIABLES
  lookup,          \* CommandRegistry._lookup: displayed name to command
  index,           \* names in SkillManager.index
  offered,         \* names in the list of Skills in ChatSession.instructions
  installing       \* an installation that a command asked for is in its thread

surface == <<lookup, index, offered, installing>>
surfaceVars == <<vars, surface>>

ASSUME SurfaceAssumption ==
  /\ ModeOf \in [SkillNames -> {"shared", "isolated"}]
  /\ Scans \subseteq SUBSET SkillNames

(***************************************************************************)
(* The registry                                                            *)
(***************************************************************************)
\* register_builtins: commands and their aliases.
BuiltinNames ==
  {"help", "clear", "exit", "model", "plan", "compact", "resume", "sessions", "notes",
   "status", "permissions"}
BuiltinAliases ==
  [name \in BuiltinNames |->
     CASE name = "help" -> {"h"} [] name = "plan" -> {"mode"} [] name = "sessions" -> {"s"}
       [] name = "notes" -> {"n"} [] name = "status" -> {"st"} [] OTHER -> {}]

\* Names shown for a command, each looked up in lower case.
DisplayNames(name, aliases) == {name} \cup aliases

Conflicts(table, name, aliases) == DisplayNames(name, aliases) \cap DOMAIN table # {}

\* register, of a command that does not conflict.
Extended(table, more) ==
  [d \in DOMAIN table \cup DOMAIN more |-> IF d \in DOMAIN table THEN table[d] ELSE more[d]]
Registered(table, name, aliases) ==
  Extended(table, [d \in DisplayNames(name, aliases) |-> name])

Builtins == UNION {DisplayNames(n, BuiltinAliases[n]) : n \in BuiltinNames}
OwnerOf(d) == CHOOSE n \in BuiltinNames : d \in DisplayNames(n, BuiltinAliases[n])
BuiltinTable == [d \in Builtins |-> OwnerOf(d)]

\* Shortcuts for the Skills whose name is free: register_skill_shortcut
\* swallows a conflict, and rescan_skills looks first.
WithShortcuts(table, names) ==
  LET free == {n \in names : ~Conflicts(table, n, {})}
  IN  Extended(table, [n \in free |-> n])

\* The order of ZXCodeApp.__init__: built-ins, /skills with the shortcuts,
\* /rules, /workers.  A Skill that is called like one of the last two makes
\* their registration raise, and the app does not start.
FirstTable(names) == WithShortcuts(Registered(BuiltinTable, "skills", {}), names)
Startable(names) == {"rules", "workers"} \cap names = {}
StartTable(names) ==
  Registered(Registered(FirstTable(names), "rules", {}), "workers", {})

Words == Builtins \cup SkillNames \cup {"skills", "rules", "workers", ""}

\* parse and get: a line that begins with a slash, its first word in lower
\* case; a bare slash has the empty name, which no command has.
Found(word) == IF word \in DOMAIN lookup THEN lookup[word] ELSE "unknown"

\* The surface of an app that has found these Skills.
SurfaceInit(names) ==
  /\ Init
  /\ index = names /\ offered = names
  /\ lookup = StartTable(names)
  /\ installing = FALSE

(***************************************************************************)
(* Handlers                                                                *)
(***************************************************************************)
\* rescan_skills of the app, when the scan does not raise: manager.rescan,
\* missing shortcuts, the list in the instructions.  What was registered for a
\* Skill that is gone stays.
RescanFinds(names) ==
  /\ index' = names
  /\ lookup' = WithShortcuts(lookup, names)
  /\ offered' = names

OnlyShows == Idle /\ UNCHANGED surfaceVars

Unchanged == UNCHANGED <<app, conv, sid, archive, workers, skills, noteVars, turns, drawn, ghosts>>

SkillsRescan ==
  /\ Command /\ Unchanged
  /\ \E names \in Scans : RescanFinds(names)
  /\ UNCHANGED installing

\* /skills install goes on in a thread; InstallReported ends it.  Bound: one at
\* a time.
SkillsInstall ==
  /\ Command /\ Unchanged
  /\ ~installing /\ installing' = TRUE
  /\ UNCHANGED <<lookup, index, offered>>

\* run_skill.  A name whose Skill is gone is answered with a notice; a shared
\* Skill becomes a turn of the conversation, an isolated one a run of its own.
RunSkill(name) ==
  /\ UNCHANGED surface
  /\ \/ /\ name \in index /\ ModeOf[name] = "shared"
        /\ StartGenerate
     \/ /\ name \in index /\ ModeOf[name] = "isolated"
        /\ StartSkill
     \/ OnlyShows

\* resume_session of an id that was typed, or chosen in a list of sessions
\* that lies over the input box.
Resume == ResumeSmall \/ ResumeLarge

\* The handler of each command; a Skill's shortcut runs the Skill of its name.
\* /model, /plan, /help, /status, /permissions, /rules and /workers only show, here.
Handler(command) ==
  CASE command = "clear" -> Clear /\ UNCHANGED surface
    [] command = "compact" -> StartCompact /\ UNCHANGED surface
    [] command = "resume" -> Resume /\ UNCHANGED surface
    [] command = "sessions" -> (Delete /\ UNCHANGED surface) \/ OnlyShows
    [] command = "notes" -> (ClearNotes /\ UNCHANGED surface) \/ OnlyShows
    [] command = "exit" -> Idle /\ Close /\ UNCHANGED surface
    [] command = "skills" -> SkillsRescan \/ SkillsInstall \/ OnlyShows
    [] command \in {"help", "model", "plan", "status", "permissions", "rules", "workers",
                    "unknown"} -> OnlyShows
    [] OTHER -> RunSkill(command)

\* handle_command and dispatch_command.
Enter(word) == Handler(Found(word))

(***************************************************************************)
(* What happens without a command                                          *)
(***************************************************************************)
\* Mutant: InstallSkill rescans the manager's index only.
InstallRescansManager ==
  /\ app = "up" /\ gen # Nothing
  /\ index' \in Scans
  /\ UNCHANGED <<vars, lookup, offered, installing>>

\* The InstallSkill tool of a running reply: the manager rescans, and
\* on_installed makes the app do so again.
InstallByReply ==
  /\ app = "up" /\ gen # Nothing
  /\ \E names \in Scans : RescanFinds(names)
  /\ UNCHANGED <<vars, installing>>

\* _install is back from its thread: with an error, or the app rescans.  It is
\* a plain task like a Skill.
InstallReported ==
  /\ app # "down" /\ installing
  /\ installing' = FALSE
  /\ \/ \E names \in Scans : RescanFinds(names)
     \/ UNCHANGED <<lookup, index, offered>>
  /\ UNCHANGED vars

\* Text is sent, workers go on, Ctrl+C exits; none of it touches the surface.
Elsewhere ==
  /\ \/ StartGenerate \/ LoopCompresses \/ GenerateCompletes \/ GenerateAbandons
     \/ CompactFinishes \/ CompactFails \/ ResumeFinishes
     \/ SkillFinishes \/ SkillFails \/ UpdateFinishes \/ UpdateFails
     \/ Close \/ LastUpdate
  /\ UNCHANGED surface

SurfaceNext ==
  \/ \E word \in Words : Enter(word)
  \/ InstallByReply
  \/ InstallReported
  \/ Elsewhere

\* The surface of an app that was started over whatever Skills there were.
SurfaceSpec ==
  /\ \E names \in SUBSET SkillNames : Startable(names) /\ SurfaceInit(names)
  /\ [][SurfaceNext]_surfaceVars

-----------------------------------------------------------------------------
(***************************************************************************)
(* Properties                                                              *)
(***************************************************************************)
\* The types of ChatApp and of the surface; the registry is a function from
\* displayed names to commands that are displayed under their own name.
SurfaceTypeOK ==
  /\ TypeOK
  /\ DOMAIN lookup \subseteq Words
  /\ \A d \in DOMAIN lookup : lookup[d] \in DOMAIN lookup /\ lookup[lookup[d]] = lookup[d]
  /\ index \subseteq SkillNames /\ offered \subseteq SkillNames
  /\ installing \in BOOLEAN

\* However Skills come and go (rescans, installations by the user and by the
\* model, names that are taken), what is on the surface is what is behind it:
\* a built-in keeps all its names, the Skills the model is offered are those
\* the manager has, and each of them answers to its name unless a command had
\* the name before.
SurfaceAgrees ==
  /\ \A d \in Builtins : lookup[d] = OwnerOf(d)
  /\ \A d \in {"skills", "rules", "workers"} : lookup[d] = d
  /\ offered = index
  /\ \A n \in index : n \in DOMAIN lookup /\ (lookup[n] = n \/ n \in Builtins)
=============================================================================
