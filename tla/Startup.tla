------------------------------ MODULE Startup ------------------------------
(***************************************************************************)
(* From the files on disk to the input box: main (src/zxcode/__main__.py), *)
(* ZXCodeApp.__init__ and on_mount (app.py), with the loaders they call:   *)
(* Settings.from_env (client.py), load_config (mcp/config.py), load_policy *)
(* (security.py), load_rules (RuleFiles), load_roles (workers/loader.py),  *)
(* scan_skills (skills/loader.py) and load_instructions (Instructions).    *)
(* Each of them has its own idea of what to do with a file it cannot use.  *)
(*                                                                         *)
(* Once the box is open the app is CommandSurface; later scans and reloads *)
(* are modelled there, in Skills and in RuleEngine, and the files of the   *)
(* start are forgotten.  Left out: what startup rules do while on_mount    *)
(* waits for them, and connecting to the servers (McpServers).             *)
(***************************************************************************)
EXTENDS CommandSurface, Instructions, RuleFiles

CONSTANTS
  CoreTools,       \* the tools of the registry before any other is registered
  Environment,     \* environment variables that are set
  Documents        \* bound: what may be on disk

VARIABLES
  boot,            \* "starting", "constructed", "mounted", "open", "failed"
  documents,       \* the files the start reads
  loaded,          \* what the loaders made of them
  told             \* what on_mount gives notice of

startVars == <<boot, documents, loaded, told>>
allVars == <<surfaceVars, startVars>>

(***************************************************************************)
(* Loaders                                                                 *)
(***************************************************************************)
\* _parse_server; variables are those named in env and headers.
ServerFits(server) ==
  /\ server.named
  /\ server.transport \in {"stdio", "http"}
  /\ server.transport = "stdio" => server.command
  /\ server.transport = "http" => server.url
  /\ server.variables \subseteq Environment
  /\ server.ill = {}

\* load_config raises for one server that does not fit, or a name used twice.
LoadServers(file) ==
  IF /\ file.state # "broken"
     /\ \A k \in DOMAIN file.servers : ServerFits(file.servers[k])
     /\ \A j, k \in DOMAIN file.servers : file.servers[j].name = file.servers[k].name => j = k
  THEN [ok |-> TRUE, servers |-> [k \in DOMAIN file.servers |-> file.servers[k].name]]
  ELSE [ok |-> FALSE, servers |-> << >>]

\* load_policy: what cannot be read counts as not there, rules that do not fit
\* and roots out of the project are dropped, and no root is the whole project.
LoadPolicy(file) ==
  IF file.state # "ok" THEN [mode |-> "default", roots |-> {"."}, rules |-> << >>]
  ELSE [mode  |-> IF file.mode \in {"strict", "default", "allow"} THEN file.mode ELSE "default",
        roots |-> IF file.roots \ {"outside"} = {} THEN {"."} ELSE file.roots \ {"outside"},
        rules |-> SelectSeq(file.rules, LAMBDA rule : rule.fits)]

\* _parse_role and parse_skill_file: the head of the file is between two lines
\* of dashes, no line of it is misread, and `ill` names the fields that are
\* missing or of the wrong type or range.
RoleFits(file) == file.delimited /\ file.ill = {}
SkillParses(file) == file.delimited /\ file.ill = {}

\* load_roles: the first file that fits gives a role, in the order of the
\* levels; the verifier only when it is enabled.
LoadRoles(files, verifier) ==
  LET Gives(k) == RoleFits(files[k]) /\ (files[k].name = "verifier" => verifier)
      givers == {k \in DOMAIN files : Gives(k)}
  IN  [name \in {files[k].name : k \in givers} |-> Min({k \in givers : files[k].name = name})]

\* scan_skills: files out of their root and files that do not parse are
\* skipped, and the first one gives the Skill.  A list of tools that names an
\* unknown one raises; known are those registered so far and its own scripts.
SkillGivers(files) ==
  {k \in DOMAIN files :
     /\ files[k].inside /\ SkillParses(files[k])
     /\ \A j \in 1..(k - 1) : files[j].inside /\ SkillParses(files[j]) => files[j].name # files[k].name}
ScanSkillsRaises(files) ==
  \E k \in SkillGivers(files) : ~(files[k].tools \subseteq CoreTools \cup files[k].own)
ScanSkills(files) == {files[k].name : k \in SkillGivers(files)}

(***************************************************************************)
(* The start                                                               *)
(***************************************************************************)
Forgotten == [rules |-> << >>]

StartupInit ==
  /\ SurfaceInit({})
  /\ boot = "starting"
  /\ documents \in Documents
  /\ loaded = Forgotten /\ told = {}

LoadAll ==
  LET servers == LoadServers(documents.servers)
      rules   == LoadRules(documents.rules)
      texts   == [s \in DOMAIN documents.scopes |-> LoadInstruction(documents.scopes[s])]
  IN  [servers |-> servers.servers, serversOk |-> servers.ok,
       policy  |-> LoadPolicy(documents.policy),
       rules   |-> rules.rules, rulesOk |-> rules.ok,
       roles   |-> LoadRoles(documents.roles, documents.verifier),
       texts   |-> texts]

\* What ends the process before there is an app: no settings (exit status 2),
\* a scan that raises, a command whose name a Skill has taken.
Starts ==
  /\ documents.settings
  /\ ~ScanSkillsRaises(documents.skills)
  /\ Startable(ScanSkills(documents.skills))

\* main and ZXCodeApp.__init__.
Construct ==
  /\ boot = "starting"
  /\ \/ /\ Starts
        /\ boot' = "constructed"
        /\ loaded' = LoadAll
        /\ index' = ScanSkills(documents.skills)
        /\ offered' = index'
        /\ lookup' = StartTable(index')
     \/ /\ ~Starts
        /\ boot' = "failed"
        /\ UNCHANGED <<loaded, index, offered, lookup>>
  /\ UNCHANGED <<vars, installing, documents, told>>

\* on_mount.
Mount ==
  /\ boot = "constructed"
  /\ boot' = "mounted"
  /\ told' = {what \in {"instructions", "rules", "servers"} :
                \/ /\ what = "instructions"
                   /\ \E s \in DOMAIN loaded.texts : loaded.texts[s].issues # << >> \/ loaded.texts[s].cut
                \/ what = "rules" /\ ~loaded.rulesOk
                \/ what = "servers" /\ ~loaded.serversOk}
  /\ UNCHANGED <<surfaceVars, documents, loaded>>

Open ==
  /\ boot = "mounted"
  /\ boot' = "open"
  /\ documents' = Forgotten /\ loaded' = Forgotten /\ told' = {}
  /\ UNCHANGED surfaceVars

StartupNext ==
  \/ Construct
  \/ Mount
  \/ Open
  \/ boot = "open" /\ SurfaceNext /\ UNCHANGED startVars

StartupSpec == StartupInit /\ [][StartupNext]_allVars

-----------------------------------------------------------------------------
(***************************************************************************)
(* Properties                                                              *)
(***************************************************************************)
\* What a scope says, in full and in order, or cut at the end: no text of a
\* file out of the root, none twice around a cycle, none lost because another
\* branch has read its file, and every @include that leads nowhere is told.
SaysWhatIsWritten(scope, got) ==
  LET paths   == Paths(scope)
      written == TextPaths(scope, paths)
      missing == written \ Range(got.text)
  IN  /\ Range(got.text) \subseteq written
      /\ \A i \in 2..Len(got.text) : ReadBefore(got.text[i - 1], got.text[i])
      /\ missing # {} <=> got.cut
      /\ \A p \in missing : ReadBefore(Last(got.text), p)
      /\ Range(got.issues) \ {<< >>} = DeadPaths(scope, paths)
      /\ << >> \in Range(got.issues) <=> scope.main \notin DOMAIN scope.lines

InstructionsComplete ==
  boot = "mounted" =>
    \A s \in DOMAIN documents.scopes :
      IF documents.scopes[s].there THEN SaysWhatIsWritten(documents.scopes[s], loaded.texts[s])
      ELSE loaded.texts[s].text = << >>

\* A file of rules that begins at the margin is read to its last line: the
\* loader may refuse it, and does not stop half way.
ReadThrough(file) ==
  (\A k \in DOMAIN file.lines : file.lines[1].indent <= file.lines[k].indent) =>
    NodeEnd(file.lines, 1) = Len(file.lines) + 1

\* Servers and rules are in effect as they are written, all of them, or none
\* and the user is told.  The process ends only for want of settings or for a
\* Skill that can be loaded, and is listed with an unknown tool or under the
\* name of a command; no other file keeps the app from starting.
WholeOrTold ==
  /\ boot = "mounted" =>
       /\ IF "servers" \in told THEN loaded.servers = << >>
          ELSE /\ documents.servers.state # "broken"
               /\ Range(loaded.servers) = {server.name : server \in Range(documents.servers.servers)}
       /\ IF "rules" \in told THEN loaded.rules = << >>
          ELSE /\ Range(loaded.rules) = UNION {Range(file.raws) : file \in Range(documents.rules)}
               /\ \A file \in Range(documents.rules) : ReadThrough(file)
  /\ boot = "failed" /\ documents.settings =>
       \E skill \in Range(documents.skills) :
         /\ skill.inside /\ SkillParses(skill)
         /\ ~(skill.tools \subseteq CoreTools \cup skill.own) \/ skill.name \in {"rules", "workers"}
=============================================================================
