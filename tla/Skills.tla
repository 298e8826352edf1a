------------------------------- MODULE Skills -------------------------------
(***************************************************************************)
(* Skills: SkillManager (src/zxcode/skills/manager.py), run_isolated       *)
(* (runner.py), scan_skills (loader.py), install_skill (installer.py), the *)
(* LoadSkill and InstallSkill tools, /skills, /<skill> and /clear.         *)
(*                                                                         *)
(* LoadSkill is a read tool, so calls of one batch overlap; a command is a *)
(* task of its own; installs run in threads; and files change on disk.     *)
(* What waits: a dialog, an isolated run, an installation.                 *)
(*                                                                         *)
(* Left out: the texts, the history an isolated run takes along, and the   *)
(* run itself (AgentLoop has one).  A tool list matters by its verdict     *)
(* only: "misfit" is a skill.md that parses and names an unknown tool.     *)
(***************************************************************************)
EXTENDS Naturals, Sequences, Lists

CONSTANTS
  Dirs,            \* where a Skill is or can be
  NameOf, LevelOf, \* the name its skill.md declares, the level it is found at
  Callers,         \* calls of LoadSkill and commands, a few at a time
  Installs,        \* installations, a few at a time
  FirstFiles,      \* what the directories may hold at the start
  Edits,           \* what the user may make of a directory meanwhile
  Payloads         \* what is there to install

Names == {NameOf[d] : d \in Dirs}
Levels == {"project", "user", "builtin"}
Entries == {"none", "broken", "misfit", "shared", "isolated"}
Files == [there : BOOLEAN, entry : Entries, scripts : BOOLEAN]

ASSUME SkillsAssumption ==
  /\ LevelOf \in [Dirs -> Levels]
  /\ \A d, e \in Dirs : NameOf[d] = NameOf[e] /\ LevelOf[d] = LevelOf[e] => d = e
  /\ FirstFiles \subseteq [Dirs -> Files]
  /\ Edits \subseteq Files
  /\ Payloads \subseteq [entry : Entries \ {"none"}, scripts : BOOLEAN]

VARIABLES
  disk,            \* directories: is it there, skill.md, tools with scripts
  index,           \* SkillManager.index.by_name
  active, order,   \* SkillManager.active, ._order
  trusted,         \* SkillManager._trusted_skill_dirs
  scriptRoots,     \* SecurityPolicy.script_roots
  calls,           \* where each LoadSkill call or command is
  installs,        \* where each installation is
  consents,        \* ghost: directories the user allowed since the last /clear
  lasting          \* ghost: those allowed for the session

skillVars == <<disk, index, active, order, trusted, scriptRoots, calls, installs, consents, lasting>>
trust == <<trusted, scriptRoots, consents, lasting>>

NoFiles == [there |-> FALSE, entry |-> "none", scripts |-> FALSE]
NoCall == [phase |-> "idle", name |-> "", dir |-> "", wanted |-> ""]
NoInstall == [phase |-> "idle", dir |-> "", entry |-> "none", left |-> {}]

(***************************************************************************)
(* Scanning and activation                                                 *)
(***************************************************************************)
Parses(d) == disk[d].entry \in {"misfit", "shared", "isolated"}

Rank(d) == CASE LevelOf[d] = "project" -> 1 [] LevelOf[d] = "user" -> 2 [] OTHER -> 3

\* The directories an index names: the first level at which a name parses.
Winners == {d \in Dirs : Parses(d) /\ \A e \in Dirs :
              Parses(e) /\ NameOf[e] = NameOf[d] => Rank(d) <= Rank(e)}

\* SkillValidationError ends the whole scan.
ScanRaises == \E d \in Winners : disk[d].entry = "misfit"

Scanned ==
  [n \in {NameOf[d] : d \in Winners} |->
     LET d == CHOOSE w \in Winners : NameOf[w] = n
     IN  [dir |-> d, mode |-> disk[d].entry]]

\* Scripts outside the built-in Skills need a trusted directory.
NeedsConsent(d, trustedDirs) ==
  disk[d].scripts /\ LevelOf[d] # "builtin" /\ d \notin trustedDirs

\* activate reads skill.md again and does not raise.
Activates(n, byName, trustedDirs) ==
  /\ n \in DOMAIN byName
  /\ disk[byName[n].dir].entry \in {"shared", "isolated"}
  /\ ~NeedsConsent(byName[n].dir, trustedDirs)

Loaded(d) == [dir |-> d, mode |-> disk[d].entry, scripts |-> disk[d].scripts]

Activate(n) ==
  /\ active' = [m \in DOMAIN active \cup {n} |-> IF m = n THEN Loaded(index[n].dir) ELSE active[m]]
  /\ order' = IF n \in DOMAIN active THEN order ELSE Append(order, n)

\* What is left of the order.
Left(kept) == Picked(order, {k \in DOMAIN order : order[k] \in kept})

Keep(kept) ==
  /\ active' = [m \in DOMAIN active \cap kept |-> active[m]]
  /\ order' = Left(kept)

Deactivate(n) == Keep(Names \ {n})

SkillsInit ==
  /\ disk \in FirstFiles
  /\ ~ScanRaises
  /\ index = Scanned
  /\ active = [n \in {} |-> Loaded(n)]
  /\ order = <<>>
  /\ trusted = {} /\ scriptRoots = {} /\ consents = {} /\ lasting = {}
  /\ calls = [c \in Callers |-> NoCall]
  /\ installs = [i \in Installs |-> NoInstall]

(***************************************************************************)
(* LoadSkill and /<skill>                                                  *)
(***************************************************************************)
LetGo(c) == calls' = [calls EXCEPT ![c] = NoCall]

\* What follows the question whether scripts may be loaded: activate with the
\* trust of that moment, and for an isolated Skill run_isolated, which
\* activates once more before its try, with the trust that is left.
Proceed(c, n, wanted, during, after) ==
  LET activates == Activates(n, index, during)
      mode == disk[index[n].dir].entry
      isolated == wanted = "isolated" \/ (wanted = "loaded" /\ mode = "isolated")
      runs == isolated /\ Activates(n, index, after)
  IN  \/ /\ ~activates
         /\ LetGo(c) /\ UNCHANGED <<active, order>>
      \/ /\ activates /\ ~runs
         /\ Activate(n) /\ LetGo(c)
      \/ /\ activates /\ runs /\ mode = "isolated"
         /\ Activate(n)
         /\ calls' = [calls EXCEPT ![c] = [phase |-> "running", name |-> n, dir |-> "", wanted |-> ""]]
      \/ /\ activates /\ runs /\ mode = "shared"
         /\ Deactivate(n) /\ LetGo(c)

\* LoadSkill looks at the mode it loaded, a command at the mode in the index.
Call(c, n, wanted) ==
  /\ calls[c].phase = "idle" /\ n \in DOMAIN index
  /\ \/ /\ NeedsConsent(index[n].dir, trusted)
        /\ calls' = [calls EXCEPT ![c] = [phase |-> "asking", name |-> n,
                                          dir |-> index[n].dir, wanted |-> wanted]]
        /\ UNCHANGED <<active, order>>
     \/ /\ ~NeedsConsent(index[n].dir, trusted)
        /\ Proceed(c, n, wanted, trusted, trusted)
  /\ UNCHANGED <<disk, index, trust, installs>>

LoadSkill(c, n) == Call(c, n, "loaded")
RunSkill(c, n) == n \in DOMAIN index /\ Call(c, n, index[n].mode)

\* Mutant: a directory allowed once is not trusted afterwards, whoever trusts it.
TrustAfterDiscarding(dir, choice) ==
  IF choice = "once" THEN trusted \ {dir} ELSE trusted \cup {dir}

\* What is trusted when confirm_activate returns: was_trusted is read after
\* the dialog, as another dialog may have been answered.
TrustAfter(dir, choice) ==
  IF choice = "once" /\ dir \notin trusted THEN trusted ELSE trusted \cup {dir}

\* The dialog is answered "once", or "session" or "permanent".
Allow(c, choice) ==
  LET dir == calls[c].dir
  IN  /\ calls[c].phase = "asking"
      /\ trusted' = TrustAfter(dir, choice)
      /\ scriptRoots' = scriptRoots \cup {dir}
      /\ consents' = consents \cup {dir}
      /\ lasting' = IF choice = "session" THEN lasting \cup {dir} ELSE lasting
      /\ Proceed(c, calls[c].name, calls[c].wanted, trusted \cup {dir}, TrustAfter(dir, choice))
      /\ UNCHANGED <<disk, index, installs>>

\* The dialog is denied, fails or is cancelled with its call.
Deny(c) ==
  /\ calls[c].phase = "asking"
  /\ LetGo(c)
  /\ UNCHANGED <<disk, index, active, order, trust, installs>>

\* The isolated run returns, raises or is cancelled.
RunEnds(c) ==
  /\ calls[c].phase = "running"
  /\ Deactivate(calls[c].name)
  /\ LetGo(c)
  /\ UNCHANGED <<disk, index, trust, installs>>

(***************************************************************************)
(* Rescanning, /clear, the user's editor                                   *)
(***************************************************************************)
\* Mutant: what is active is loaded again without asking for its trust.
RescanTrusting ==
  /\ ~ScanRaises
  /\ index' = Scanned
  /\ active' = [n \in DOMAIN active \cap DOMAIN Scanned |-> Loaded(Scanned[n].dir)]
  /\ order' = Left(DOMAIN Scanned)

\* What is active is activated again from the new index, or dropped.
Rescan ==
  LET kept == {n \in DOMAIN active : Activates(n, Scanned, trusted)}
  IN  /\ ~ScanRaises
      /\ index' = Scanned
      /\ active' = [n \in kept |-> Loaded(Scanned[n].dir)]
      /\ order' = Left(kept)

RescanCommand == Rescan /\ UNCHANGED <<disk, trust, calls, installs>>

Clear ==
  /\ Keep({})
  /\ trusted' = {} /\ scriptRoots' = {} /\ consents' = {} /\ lasting' = {}
  /\ UNCHANGED <<disk, index, calls, installs>>

UserEdits(d) ==
  /\ LevelOf[d] # "builtin"
  /\ \E files \in Edits : disk' = [disk EXCEPT ![d] = files]
  /\ UNCHANGED <<index, active, order, trust, calls, installs>>

(***************************************************************************)
(* install_skill, a step per visit to the disk                             *)
(***************************************************************************)
InstallOnly == UNCHANGED <<index, active, order, trust, calls>>

InstallBegins(i, d) ==
  /\ installs[i].phase = "idle"
  /\ LevelOf[d] = "project" /\ ~disk[d].there
  /\ \E p \in Payloads :
       installs' = [installs EXCEPT ![i] =
         [phase |-> "downloading", dir |-> d, entry |-> p.entry,
          left |-> {"entry"} \cup (IF p.scripts THEN {"scripts"} ELSE {})]]
  /\ UNCHANGED disk /\ InstallOnly

\* The download or the payload is refused before anything is written.
DownloadFails(i) ==
  /\ installs[i].phase = "downloading"
  /\ installs' = [installs EXCEPT ![i] = NoInstall]
  /\ UNCHANGED disk /\ InstallOnly

\* _rollback removes the directory, whoever made it.
Rollback(i) ==
  /\ disk' = [disk EXCEPT ![installs[i].dir] = NoFiles]
  /\ installs' = [installs EXCEPT ![i] = NoInstall]

\* mkdir raises FileExistsError for a directory that appeared meanwhile.
MakeDir(i) ==
  LET d == installs[i].dir
  IN  /\ installs[i].phase = "downloading"
      /\ \/ /\ disk[d].there /\ Rollback(i)
         \/ /\ ~disk[d].there
            /\ disk' = [disk EXCEPT ![d].there = TRUE]
            /\ installs' = [installs EXCEPT ![i].phase = "writing"]
      /\ InstallOnly

\* A file is written, and its directory made if it is gone.
WriteFile(i) ==
  LET d == installs[i].dir
  IN  /\ installs[i].phase = "writing"
      /\ \E part \in installs[i].left :
           /\ disk' = [disk EXCEPT ![d] =
                         [there |-> TRUE,
                          entry |-> IF part = "entry" THEN installs[i].entry ELSE @.entry,
                          scripts |-> @.scripts \/ part = "scripts"]]
           /\ installs' = [installs EXCEPT ![i].left = @ \ {part}]
      /\ InstallOnly

WriteFails(i) ==
  /\ installs[i].phase = "writing"
  /\ Rollback(i)
  /\ InstallOnly

\* All is written; the entry is parsed, and a broken one rolled back.
InstallParses(i) ==
  /\ installs[i].phase = "writing" /\ installs[i].left = {}
  /\ \/ /\ Parses(installs[i].dir)
        /\ installs' = [installs EXCEPT ![i].phase = "installed"]
        /\ UNCHANGED disk
     \/ ~Parses(installs[i].dir) /\ Rollback(i)
  /\ InstallOnly

\* Back in the loop: the tool or the command rescans, which may raise; the
\* command first looks whether what was installed still parses.
InstallReported(i) ==
  /\ installs[i].phase = "installed"
  /\ installs' = [installs EXCEPT ![i] = NoInstall]
  /\ \/ Rescan
     \/ (ScanRaises \/ ~Parses(installs[i].dir)) /\ UNCHANGED <<index, active, order>>
  /\ UNCHANGED <<disk, trust, calls>>

(***************************************************************************)
(* The specification                                                       *)
(***************************************************************************)
SkillsNext ==
  \/ \E c \in Callers, n \in Names : LoadSkill(c, n) \/ RunSkill(c, n)
  \/ \E c \in Callers, choice \in {"once", "session"} : Allow(c, choice)
  \/ \E c \in Callers : Deny(c) \/ RunEnds(c)
  \/ RescanCommand \/ Clear
  \/ \E d \in Dirs : UserEdits(d)
  \/ \E i \in Installs, d \in Dirs : InstallBegins(i, d)
  \/ \E i \in Installs : \/ DownloadFails(i) \/ MakeDir(i) \/ WriteFile(i) \/ WriteFails(i)
                         \/ InstallParses(i) \/ InstallReported(i)

SkillsSpec == SkillsInit /\ [][SkillsNext]_skillVars

(***************************************************************************)
(* Properties                                                              *)
(***************************************************************************)
ActiveSkills == [dir : Dirs, mode : {"shared", "isolated"}, scripts : BOOLEAN]

\* Every variable has its type, and the order lists each active Skill once:
\* active_skill_messages looks each name of _order up in active.
SkillsTypeOK ==
  /\ disk \in [Dirs -> Files]
  /\ DOMAIN index \subseteq Names /\ \A n \in DOMAIN index : index[n].dir \in Dirs
  /\ DOMAIN active \subseteq Names /\ \A n \in DOMAIN active : active[n] \in ActiveSkills
  /\ DOMAIN active = {order[k] : k \in 1..Len(order)}
  /\ \A j, k \in 1..Len(order) : order[j] = order[k] => j = k
  /\ \A S \in {trusted, scriptRoots, consents, lasting} : S \subseteq Dirs
  /\ \A c \in Callers : calls[c].phase \in {"idle", "asking", "running"}
  /\ \A i \in Installs : installs[i].phase \in {"idle", "downloading", "writing", "installed"}

\* The scripts of an active Skill were loaded from a directory the user allowed
\* since the last /clear, and nothing else is trusted or a script root:
\* through hot edits, installs that change which level wins, and rescans.
ScriptsConsented ==
  /\ \A n \in DOMAIN active :
       active[n].scripts /\ LevelOf[active[n].dir] # "builtin" => active[n].dir \in consents
  /\ trusted \cup scriptRoots \subseteq consents

\* "Once" leaves no trust behind and "session" is not asked for again, also when
\* two dialogs about the same Skill are open and answered differently.
TrustIsLasting == trusted = lasting
=============================================================================
