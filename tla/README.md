# ZXCode in TLA+

ZXCode is a terminal coding agent in Python (`src/zxcode`, Textual, asyncio):
the user types, a ReAct loop asks a model, runs the tools the model calls and
goes on until the model has nothing more to call. This directory holds TLA+
modules of the parts of it that are hard to test, the TLC configurations that
check them on small instances, and TLAPS proofs for every size.

## 1. The system

| part | state it keeps | operations | whom it meets |
|---|---|---|---|
| agent loop: `agent.py`, `dispatch.py`, `terminator.py`, `state.py`, `cancel.py`, `tools/executor.py` | turn, state machine, two message lists, guards' counters, token | one run: model call, batch of tools, guards, ways out | provider, tools, rules, `EventChannel`, app |
| session archive: `storage.py`, `recovery.py` | JSONL file and meta file per session | append, recount, summary, list, delete, recover | app, compressor |
| app shell: `app.py`, `session.py`, `notes.py`, `commands/ui.py` | conversation, session id, notes files, workers | submit, `/clear`, `/resume`, `/compact`, `/notes`, Skills, exit | all others |
| compression: `compress.py` | spool files, breaker | spool results, summarise old turns, clean up | loop, app, recovery |
| commands: `commands/` | lookup table, the list of Skills the model is offered | parse, dispatch, register, rescan | app, Skills |
| start: `__main__.py`, `ZXCodeApp.__init__`, the loaders | what the files on disk make of each part | load, mount, tell | all others |
| requests: `session.py`, `prompts.py`, `agent.py` | the list sent to the model | put in front, cut off again | rules, Skills, compression |
| MCP: `mcp/` | sessions, pending requests, processes or POSTs, approvals | connect, list, call, confirm, sweep, close | servers, registry, app |
| sub-workers: `workers/` | tasks, futures, channels | start, run, kill, list, notify | loop (both sides), app |
| event channel: `events.py` | a queue of 1000, a closed flag | emit, close, iterate | loop, app, workers |
| rules: `rules/` | done marks, background tasks | emit, reload, drain | loop, app |
| Skills: `skills/` | active Skills, trusted directories | activate, run isolated, install | loop, app |
| tool access: `tools/files.py`, `tools/shell.py`, `security.py` | session and project rules, `zxcode-security.toml` | write, edit, run; evaluate, confirm, remember | loop, Skills, workers, user |
| search, provider client | none that outlives a call | | |

Everything runs in one asyncio loop: code between two awaits is atomic, and
what is hard happens at awaits. A user, a timeout, a process that dies or an
exclusive worker acts while somebody waits with state read earlier.
`PROJECT.json` lists the hazards line by line; in short:

- the loop ends normally, on a guard, cancelled, failed or killed, most of it
  possible while tools run, and each way out must leave a transcript that a provider accepts;
- the archive is appended without a lock or an fsync and read back after a kill;
- a compaction, a resume, a Skill, a reply and a notes update each read the
  conversation, wait for a model, and write it back;
- one MCP session is shared by calls that time out, are cancelled and reconnect,
  and over HTTP an answer may come with anybody's POST;
- commands, the list offered to the model and the Skills behind them change by
  four ways in different orders;
- what is put in front of a request is found again by position, after a
  compression, a rule or a Skill has moved it;
- seven loaders read the files of the start, each with its own idea of what to do
  with one it cannot use;
- a killed worker's inner run goes on, and nobody reads its bounded channel;
- spool files are named by content and deleted by link;
- a tool decides, asks the user for as long as it takes, and then acts on files
  and rules that others changed meanwhile.

### What makes each part correct

- **Loop**: archived transcripts are paired; a writer runs alone; plan-only
  writes nothing; a call that ran is never reported as not run; the list sent
  to the model and the list archived tell the same story; runs end.
- **Archive**: a fault costs at most one line of what was acknowledged; a
  resumed conversation has no dangling call and no gap; the count in the list
  counts the lines, as long as none was torn and no deletion stopped half-way.
- **App**: memory is the archive under the current id; a reply owns the
  conversation it was asked about; notes are not lost.
- **Commands**: what a name runs is what is offered under it; built-in names stay.
- **Start**: every instruction file is expanded as it is written; servers and
  rules are in effect as written, or not at all and the user is told.
- **Requests**: each part once and in front; none of it stays in the conversation.
- **MCP**: an answer reaches the request that waits for it; the pending table
  has no leaks but those the code leaves; nothing goes out unconfirmed on a
  server's own word; a call that does not end hangs in a send; closing leaves no
  process.
- **Workers**: told once, killed by kills only, never stuck.
- **Tool access**: what is denied is not done by any way round; what is done was
  allowed; a permanent permission is permanent, all three as long as the rules file
  reads back as it was saved; an overwritten file held what its caller had read.
- **Compression**: a file that a kept preview links exists and is whole, unless a
  later write of it broke off; the turn at hand is not touched.
- **Rules**: a once rule fires once per load; a call that a rule rejects never
  runs, whatever is reloaded while the rules are gone through.
- **Skills**: no script is loaded without the user's consent to its directory;
  consent for the session lasts for the session.

## 2. Modules

| module | models | state to code |
|---|---|---|
| `Transcript` | what a conversation's messages are, their call ids, dangling calls | `_pair_dangling`, `truncate_dangling` read it |
| `LoopTerminator` | `terminator.py`: observations, repeated errors, stagnation | its counters as a record |
| `AgentLoop` | one run of `AgentLoop.run`, with the batch of tools | `pc` is the await the coroutine is parked at; `slots` the calls of the batch; `history`, `turnMessages` the two lists; `machine` `LoopStateMachine`; `token` `CancelToken` |
| `ReplyContract` | what a run owes those around it, abstract | `AgentLoop.IsReply` maps to it |
| `AgentLoopProofs` | the theorems about `AgentLoop` | |
| `Lists` | a list of which some elements are kept, what the comprehensions of the code do | used by `SessionArchive`, `Skills`, `RulePrompts` |
| `SessionArchive` | `SessionStore`, `recover_session` | `lines` (a line is the fragments glued on it), `ended` (newline at the end), `meta`, the locals of an append in progress; `orphans` what `meta` counts of lines that a half-done deletion took |
| `TurnLog` | what the archive promises of a session's turns, abstract | `SessionArchive.IsTurnLog` maps to it |
| `SessionArchiveProofs` | the theorems about it | |
| `ListProofs` | the lemmas about numbers and lists that the other proofs share | |
| `ChatApp` | `ZXCodeApp`, `ChatSession`, `NotesManager` | `conv`, `sid` and `archive`; one variable per worker, holding what it read before it waited |
| `CommandSurface` | parser, dispatcher, registry, handlers and `TextualUI`, over `ChatApp` | `lookup` the registry; `offered` the list of Skills in the instructions; `installing` an installation in its thread |
| `AppProofs` | the theorems about `ChatApp`, `CommandSurface` and `WorkerTasks`; the names of the last are distinct, so that one module extends them all | |
| `Instructions` | `load_instructions`: `@include` expanded, cut and told | operators on files as sequences of lines |
| `RuleFiles` | the loader of `.zxcode/rules`: its YAML subset, what a rule must be | operators on lines as indentation and form |
| `Startup` | `main`, `ZXCodeApp.__init__`, `on_mount` and the loaders, over the three above | `documents` what is on disk; `loaded` what came of it; `told` the notices |
| `McpConnection` | `McpSession`, `ResponseMatcher`, `StdioTransport`, `McpManager`, one server | `connected`, `notified`, `process`, `readerTask` are the fields; `procs`, `readers` what the system runs; `pending` the matcher's table; a call's `phase` the await it is at, the `drain()` of each message one of its own, and each page of `tools/list` a request |
| `HttpSession` | the same session over `HttpTransport` | `client`, `sessionId` the transport's fields; `asked`, `epoch` the server |
| `McpServers` | `build_transport`, `RemoteTool` with its confirmation, over the two above | `dialog`, `allowed` (`AllowState`) |
| `McpServersProofs` | the theorems about it | |
| `WorkerTasks` | `TaskManager`, `run_worker`, `SpawnWorker`, tool filters, `EventChannel` | `tasks`, `futures` the tables; `agents` the inner runs; `channels` their queues |
| `TaskLifecycle` | what is promised of a task, abstract | `WorkerTasks.IsLifecycle` maps to it |
| `ToolAccess` | `WriteFile`, `EditFile`, `Bash`, `SecurityPolicy` and its file | `policies` the app's `SecurityPolicy` and the worker's; `calls` what waits in a dialog; `saved` the file as a start would read it |
| `ToolAccessProofs` | the theorems about it | |
| `RuleEngine` | `RuleEngine` with its emitters: tool calls, runs of the loop, the exit | `actors` where each emitter is in its events, with the list and position its `emit` holds; `done`, `background` the engine's sets |
| `RulePrompts` | the engine around one reply, and the request that reply sends: prompts, plan note, Skill texts, a compression, and what comes back | `history` the run's list; `session` the conversation; `said` `turn_messages` |
| `RuleEngineProofs` | the theorems about `RuleEngine` and `RulePrompts` | |
| `Skills` | `SkillManager`, `run_isolated`, `scan_skills`, `install_skill`, the tools and commands over them | `disk` what the directories hold; `index`, `active`, `order` the manager's; `trusted`, `scriptRoots` what was allowed; `calls` what waits in a dialog or runs isolated |
| `SpoolCompression` | `CompressionManager` and its callers | `messages`, `run`, `archive`, `files`, `failures`; layer one is operators on message lists, as it is pure in the code |
| `ContextProofs` | the theorems about `SpoolCompression` and `Skills`, what the loop puts into a request besides the conversation; the names of `Skills` are distinct, so that one module extends both | |

An action is all the code between two awaits, or where a thread or a kill can come
between two steps on the disk, one of these steps; so a `TurnCompleted` of
`ChatApp` adopts the history, archives the turn, counts it and starts the notes
update, as `generate` does without an await between them. One place is coarser: `activate`
asks whether a Skill has scripts (`manager.py:73`) and loads them (`:81`) without an await,
and `Skills.Activates` is one step, though the thread of an installation could write a
script in between. The modules meet at
these seams: `ChatApp` takes a run of the loop and an append as one step each
(`AgentLoop` and `SessionArchive` have their detail); `WorkerTasks` takes the
inner run as an agent that uses its tools and ends (`RunEnds`);
`SpoolCompression` has the loop's `prepare` and back-fill as the only moments
at which the loop touches the spool; `SessionArchive` archives only what
`ArchivePaired` allows, paired transcripts; `Startup` hands its tables to
`CommandSurface`, which drives the actions of `ChatApp`; `McpServers` runs either
session behind one confirmation; `RulePrompts` drives `RuleEngine` by the steps of one reply; `ToolAccess` is what `AgentLoop` and
`WorkerTasks` have as one tool call with a verdict, and `RuleEngine` the verdict
by which a rule rejects a call; `Skills` takes an isolated run as one that ends,
and its `scriptRoots` are the roots `SecurityPolicy` would allow scripts in.

Definitions that model code carry its names, or are mapped to their lines in
`PROJECT.json`. Operators named for a departure (`PairNothing`, `CleanupEarly`,
`DeliverInOrder`, `RefusesDirectCycles`) are plausible bugs of that code: each is
substituted for the operator after it to see that the property it threatens does fail. Variables marked *ghost* record
history for a property and no action reads them.

## 3. Runs

A module with constants for a small instance is `MC<name>`; the run's configuration
is `<name>.cfg`, `Startup.cfg` for `chat_app`, `McpServers.cfg` for `mcp_connection` and
`RulePrompts.cfg` for `rule_engine`; `SessionArchive` is run as it is.

| run | asks | bounds | states | result |
|---|---|---|---|---|
| `agent_loop` | is every transcript paired, does a writer work alone, is a run the dialogue of `ReplyContract`, does each step bring its end nearer, does it end? | 2 turns, 2 calls, a read and a write tool, limits of 1 and 2; summaries, and spooling that raises | 189 k | holds |
| `history_dangles` | has `final_history` no dangling call? | the same | | violated |
| `session_archive` | what do two faults cost, what does a resume give, is the archive the log of turns of `TurnLog`? | 3 turns of no or 2 calls, with or without a reply, 2 faults, a deletion that removes one file of two | 362 k | holds |
| `chat_app` | what does a start make of its files? then: do the workers keep memory, archive and notes together, do the commands agree with what is behind them? | one configuration at a time in all variants; 2 sessions, 3 turns, 3 commands, 3 Skill names | 914 k | holds |
| `cleared_comes_back` | does what was cleared stay cleared? | 2 commands | | violated |
| `mcp_connection` | over either transport: right answers, no leaks, consent, do calls end or hang in a send? | registration in pages, 2 calls, 2 processes or 2 lives of an HTTP server; over a process the tool is listed as read-only, over HTTP it only says so itself | 542 k | holds |
| `mcp_leaves_process` | is no process left after closing? | the same over processes, 3 of them | | violated |
| `worker_tasks` | told once, killed by kills, the lifecycle of `TaskLifecycle`, ends? | 2 tasks, queue of 2 | 214 k | holds |
| `tool_access` | is nothing done that is denied, or without consent, or over what was not read? | a file, 3 commands, one of two lines, 3 calls, 5 configurations, a change from outside of a file or of the rules, a restart; the app's calls and the contents are symmetric | 1.2 M | holds |
| `spool_compression` | what do spooling, summaries and failures cost? | 3 turns, 2 batches, 3 results, 2 summaries, a full disk, a kill | 377 k | holds |
| `rule_engine` | does a once rule fire once, is a rejected call never run, is each request whole and nothing of it kept? | 2 calls of one reply, the exit, 2 lists of rules, 1 reload, 3 lists of active Skills, a compression; calls are symmetric | 858 k | holds |
| `skills` | is no script loaded without consent, does consent last? | 3 directories of 2 names, 2 callers, 1 installation of 2 payloads, 2 edits; callers are symmetric | 334 k | holds |

Three runs check a refinement. `IsReply` of `AgentLoop` maps `history` to what was sent,
`turnMessages` to the transcript, the executed calls to those that ran, and `pc` with
`verdict` to the outcome: turns, batches, guards, hooks and the place where a
cancellation strikes are stutters or one of the seven steps of `ReplyContract`.
`IsLifecycle` of `WorkerTasks` maps the tables to what the user sees; futures,
channels, timers and the executor's limit are stutters of `TaskLifecycle`.
`IsTurnLog` of `SessionArchive` maps the file to the messages a resume would read
(`Parsed`), with the last one `loose` while its line has no newline (`Unended`). A line
is then one message more, or one less when it is glued to a loose one; fragments,
locals, the meta file, resumes and their shrinking are stutters of `TurnLog`.

The start is data: `Expand` (the code's recursion) is compared with the paths through
the include graph (`Paths`, `TextPaths`, `DeadPaths`) that do not come back to a file of
theirs, and the recursive descent of the rule parser with the text read to its end, for
every rule file of up to three lines and those of four that begin with a key.

Why the bounds are enough. A transcript can go wrong within one batch or across
two turns, and two calls are a read with a read, a read with a write and a write
with a write. Two faults let a torn line be glued to the next turn and torn
again; turns of two, four and five messages with a target of seven let two turns fit, or
one, or, when a lost first line has made one turn of two, none, and two calls let a turn be torn between their results. Three turns with an old session of two let a resume compress (`LargeFrom`
is 2), a notes update start (`IntervalTurns` is 2) and a worker write back over
a changed conversation. Three Skill names are one of each mode and one that a
built-in command has already. Four files are a cycle of three with a way in, and
the limits of depth 3 and 4 lines are met and exceeded. Two processes are the
first and one after a crash, a sweep or a reader that ended (`mcp_leaves_process` has a
third); two lives of an HTTP server make its session id stale. A page of `tools/list`
names a next one only up to the request id `LastPage`, so that a list has one page or
more and ends; that a server stops naming pages is a bound and no promise of the code
(`session.py:87`). A queue of two is full after two events, which 1000 events do
to the real one; only *full* and *not full* matter to `put_nowait` and `emit`.
The two tasks of `WorkerTasks` share nothing but the tables, so two show any
mix-up. In `ToolAccess` two calls of the app are one that waits while another
acts, or two dialogs at once; the configurations have a rule that denies, one
that asks before one that allows, a `*` rule, and each mode. Two calls of the app and
two contents are exchanged for symmetry, which is sound as no property of the run is a
liveness property and nothing orders them. What holds for more files, rules and calls
is proved. The lengths of `MCSpoolCompression` are chosen for the ties: one result
over the single limit, two under it that exceed the batch limit together, a
summary that fits and one that cannot. `Trigger` and `Target` keep their order
(80 % and 40 % of the window in the code), as does the breaker's limit of 2.

The two lists of `RuleEngine` have a rule of each kind (once, asynchronous, two
actions, rejecting, rejecting once), the same ids on different events, and a rule
that waits before the one that rejects, which is where a reload can come between.
`Skills` has one name at two levels, so that a rescan can put another directory
behind it, and two callers, so that two dialogs about one directory are open at
once.

Deadlock is not checked where a run of the model ends: an agent run ends, the
app closes, all calls are answered, all tasks finish.

### What the violated runs show

Each is a sentence of the repository's documentation that the code does not
keep; `PROJECT.json` quotes both.

1. `history_dangles`: a cancellation after the stream ended and before the
   check at `agent.py:171` leaves the calls of the last reply unanswered in
   `final_history`, which the session adopts. The archived list is repaired,
   the list in memory is not.
2. `cleared_comes_back`: `/compact` puts its result back after `/clear`.
3. `mcp_leaves_process`: a cancelled handshake, or a reconnection after a sweep.

Seen while modelling and not given a run. In the archive, the next turn's first
line is glued to a torn one, and a line cut inside a character makes the whole
archive unreadable (`storage.py:78`), where `README.md:49` and
`docs/memory/spec.md:26` expect at most the last line to be lost
(`TearCostsOneLine` states what does hold). The clean-up of the spool deletes
files that kept messages link (`compress.py:344`), against
`docs/compress/spec.md:50` (`LinkedIsKept` says when).

In the loop and its tools: a path that is too long makes
`path.exists()` raise in the security guard (`security.py:179`), outside every
`try`, so the run ends with reason `error`, while `docs/agent-loop/spec.md:58`
makes a tool's failure a result (`CallRaises` of `AgentLoop` is this case).
SpawnWorker's limit in the executor equals `foreground_timeout`, so the answer
that names the task id is not reached (`CallTimesOut`). A worker whose loop ends
with an error or at its limit is `succeeded` (`manager.py:170`). The inner run of a
killed worker goes on using tools until it ends or its channel is full.
`run_worker` filters tools with `background=False` (`runner.py:84`), so the read-only
list that `docs/workers/spec.md:75` promises for background workers is never
applied (`WorkerTools`). A file that appeared while the user was asked is
overwritten without a look (`files.py:214`; `AfterApproval` looks only if the file
was there), where `docs/spec.md:23` wants no accidental overwriting. A permanent permission is added behind the
rules there are, so an earlier `ask` rule of the project makes it ask again
(`security.py:102`), unlike `docs/Perst/checklist.md:77`; `PermanentLasts`
excepts this case. A `mode` in `zxcode-security.toml`, which every save writes,
replaces the mode of a worker's role (`security.py:279`), also a stricter one. An
unreadable rules file counts as none (`security.py:277`), deny rules included. A save
that is cut off leaves one, as the file is rewritten in place (`CutFiles`). So does a
permanent permission for a command of several lines: the writer escapes only backslash
and quote (`security.py:459`), TOML allows no line end or control character in such a
string, and the next start has neither this permission nor any other rule
(`Unwritable`, `Readable`). `docs/Perst/checklist.md:77` wants a permanent permission to
hold after it. The file lies in the project, so an editor, or a tool within its
permissions, can rewrite it as well (`RulesRewritten`). `DenyHolds`, `EffectsConsented`
and `PermanentLasts` are stated until a policy is loaded from such a file (`misread`);
`intact` says whether the file still is what was saved.

Deleting a session unlinks two files one after the other and ignores either failure
(`storage.py:191-207`): a count without lines may stay, in the session list and in the
counts of later turns under the same id (`orphans`). Size control on resume does not
drop the oldest turns until the rest fits, as `docs/memory/checklist.md:38` and
`docs/memory/spec.md:29`, `:40` and `:73` have it: the loop at `recovery.py:76-79` goes
on to the last cut that fits, which keeps the newest turn alone; not even that one
fitting, it keeps everything; and the boundary message is not counted.
`ShrinkKeepsNewest` states what the code does. A spool file is written in place
(`compress.py:162`), so a write of a text that was spooled before empties the file that
earlier previews link when the disk is full or the process dies; `writtenOff` holds these
texts, and `LinkedIsKept` excepts them.

A cancelled run that waits for a summary (`agent.py:146`, `compress.py:275`) goes on
waiting: that stream does not look at the token and has no limit of its own. Skills that
run isolated are plain tasks (`dispatcher.py:32`), which `on_unmount` (`app.py:614`)
neither cancels nor waits for: they go on while the app closes, may still change the
conversation and the archive (`app.py:555`), and what the last of them says may miss the
last notes.

In the MCP client: over either transport a cancellation inside `send()`, which over
stdio waits in `drain()` without a limit (`stdio.py:87`), leaves an id in the table of
pending requests, and so do a request that cannot be encoded and, over HTTP, a body that
is JSON but no object (`session.py:202`), where `docs/mcp serv/spec.md:33` has none
left; `TableIsAwaited` says that nothing else does. `tools/list` follows `nextCursor`
for as long as the server names one (`session.py:87-99`). Over stdio a line longer than the
reader's limit, or JSON that is no object, ends the read loop while the process is up
(`stdio.py:126-129`). Over HTTP, nothing resets `_connected` when a server has restarted and refuses the
session id, which also goes along with the next `initialize`; a cancelled handshake
leaves the session connected, a failed one closes the client of a newer connection,
and a tool can be called before the handshake has ended. The executor's limit equals
the session's and is armed earlier, so that `notifications/cancelled` is hardly ever
sent (`docs/mcp serv/checklist.md:61`). "Once" allows a remote tool for the whole
process (`adapter.py:63`), and one dialog that is answered opens the calls that ask
later, not those that ask already.

In the commands: plan-only is not applied to Skills and workers (`README.md:36`). A
Skill named `rules` or `workers` makes the registration raise, and the app does not
start (`docs/commands/spec.md:17`); the name of a removed Skill stays registered. The
cancel token is shared by replies and isolated Skills and reset by `generate` only
(`app.py:848`), so that a Skill started after a cancelled reply is cancelled at once.

In the requests: rule prompts are put before the stable prompt, and with them the
Skill texts, which `docs/skills/spec.md:61` wants after it (`RequestWhole` counts the
parts and does not look at their order); the texts of an
isolated Skill that runs by command leak into a reply that runs beside it, and stay in
its list when no Skill is active any more (`agent.py:325` returns early).

At the start: one broken rule file means no rules at all, which is told; the parser
leaves out without an error what follows an indented first line, and a list nested
under an entry (`rules/loader.py:88`), where `docs/rules/spec.md:45` wants nothing half
loaded. A broken `zxcode-security.toml` gives the default mode without rules and is
told to nobody; rules in it that do not fit are dropped, and roots that are all outside
fall back to the whole project (`security.py:387`). Skills that the first scan skips
are not told (`docs/skills/checklist.md:21`), and one that a later scan accepts, with
LoadSkill or a remote tool in its list, ends the next start, as only six tools are known
by then. A startup rule that asks for confirmation cannot ask inside `on_mount`.
A file in `prompts/` that is not UTF-8 raises outside the `try` of `generate`
(`prompts.py:87`).

In the rules: `reload` clears the done marks, so that a once rule fires again in
the same session, where `docs/rules/spec.md:73` has once per session
(`OncePerLoad`). Ids are distinct within a file only while done marks are kept by
id alone, so that two rules of one id silence each other. Prompts of rules on
events other than `pre_message`, and of asynchronous rules, are dropped
(`docs/rules/spec.md:66`). A cancellation inside `turn_start`
or `pre_message` is before the `try`, so that `turn_end` is not emitted. An
`http` action blocks the event loop in `urlopen` (`actions.py:95`), so its time
limit cannot fire.

In the Skills: an isolated Skill with scripts that was allowed *once* is activated
a second time when the trust is gone (`manager.py:133`, `runner.py:16`): it never
runs, and stays active. Of two installations of one Skill the loser's rollback
removes the winner's directory (`installer.py:131`). An isolated run's loop has
no rule engine (`runner.py:46`), so no rule rejects its calls, and the Skill is
active for the main conversation while it runs; of two overlapping runs of one
Skill the first to end deactivates it for both. An installation whose whitelist
names an unknown tool is accepted, and every rescan and the next start then fail.
Script tools are kept in `ActiveSkill.tools` and registered by nobody. *Once* leaves the
directory among the `script_roots` until `/clear`; `TrustIsLasting` speaks of `trusted`,
which decides whether the user is asked again.

## 4. Fairness

- `AgentLoop`: weak fairness of the loop's own steps (asyncio runs what is
  ready) and of each call's steps (the executor wraps every tool in
  `asyncio.timeout`). None for the user, none for the model, in `prepare` (`PrepareReturns`) as little as in
  a reply (`ModelSteps`). `CancelEnds` needs neither, as every pull of a reply's stream
  races against the token; a summary's does not, so `CancelEnds` starts from a
  token that has fired while the run is not in `prepare`. `RunEnds`
  assumes, inside the formula, that the model answers or fails in the end, summaries
  included.
- `McpServers`: weak fairness of the step with which a caller goes on once its wait is
  over, by an answer or by its timeout (`Resumes`), of
  the exit of a process that is being closed (it is killed after
  `EXIT_WAIT_SECONDS`), and of the end of a close. Servers may never answer. No send has
  to end: nothing limits `drain()`, and httpx limits each read of a POST and not the
  whole. The executor's limit, which ends a tool call with its dialog, is not assumed, as
  it does not cover `register_all`. `OnlySendsHang` is therefore that from wherever a call that was
  started is, it comes to its end or to a send.
- `WorkerTasks`: weak fairness of the asyncio steps of a task. `TasksEnd` assumes inside the formula that the
  inner run ends when there is room for its last event again and again: strong
  fairness, as the follower empties the queue and the run fills it again. The
  assumption is what `RunEnds` shows of a run.
- The other modules state no liveness: a worker of the app that waits for a
  model has no timeout of its own in the code, dialogs wait for the user, and an
  action of a rule ends by its limit only if it does not block the loop.

## 5. Proofs

`AgentLoopProofs` proves for every set of tools and outputs, every number of
turns and calls and every limit, from `ToolsAssumption` and the terminator's
assumption on its limits (all non-negative numbers; results are distinguished):

- `Inductive`: `Spec => []IInv`, the strengthening below;
- `TypeCorrect`: `TypeOK`;
- `TranscriptsPaired`: `ArchivePaired`;
- `WritersAlone`: `WriterAlone`;
- `PlanOnlySafe`: `PlanOnlyHarmless`.

`ArchivePaired` is not inductive: it speaks of the end only. `IInv` adds where
the state machine is at each `pc` (`MachineFollows`), what a slot can be
(`SlotsSound`), that a writer at work has seen the reads and the earlier writes
come back (`WriterWaited`), and that before the end the open calls of the
transcript are exactly those of the batch at hand (`TranscriptSound`, with the
ids of earlier turns strictly older). `Dangling` is a difference of sets of ids;
the lemmas at the top say what appending messages, answering a call and pairing
the rest do to it. One lemma per action, or per group of actions of one shape, shows that it keeps `IInv`; the QED
combines them by temporal logic. The deep case is `CancelUnwinds`: the answers
given and the answers added must be disjoint and cover the batch, which is
where `BatchIds` and the age of ids are used.

`ReplyInductive` and `ImplementsReply` (`IsReply`) prove that every run is the dialogue of
`ReplyContract`. The mapping reads the transcript, so the invariant adds that what was
sent and what is archived tell the same calls while the run goes on, and which of them
ran; each action of the loop is then one step of the contract or a stutter.

`StepsInductive` and `EveryStepCounts` (`NoStepInVain`) are the argument that a run ends.
`StepsLeft` counts the turns that are left, the place in the turn and, per call, the phases
to go; the loop's part weighs more than all calls together. Every step, also one of a tool
that outlives the loop, of the user or of the host, lowers it, and it stays a natural number
because a run goes on only if the terminator saw a turn left (`StepsCounted`): what stands
behind the `for` in `_run` (`agent.py:232`) is never reached. What fairness adds is that a step is
taken at all, which `RunEnds` and `CancelEnds` check.

About `WorkerTasks`, `AppProofs` has, for every set of tasks and tools and every capacity, from
`WorkerAssumption`: `TasksInductive`, `TasksTypeCorrect`, `ToldExactlyOnce` (`ToldOnce`),
`KilledAndNothingElse` (`CancelledIsKilled`), `AnswersAreFinal` (`AnswerIsFinal`).
The three properties speak of the table of tasks, of notices and of calls; what
relates them is the future, so the strengthening says how a task's status follows
its future's phase (`StatusFollows`), that nothing is called or used before a
start, and that no worker has the tool that starts workers. Every step that ends
a future is one shape, `Finish`, and has one lemma. `ImplementsLifecycle` proves the
refinement of `TaskLifecycle` (`IsLifecycle`) from the same invariant, action by action.

About `CommandSurface` it has, for all sessions, old archives, Skill names and bounds, from
`ChatAssumption`, of `SurfaceSpec`: `ChatInductive` (of `ChatApp` alone),
`SurfaceInductive`, `SurfaceTypeCorrect`, `ReplyKeepsItsConversation`
(`ReplyOwnsConversation`), `ArchiveFollowsMemory` (`MemoryIsArchive`),
`SurfaceShowsWhatIsThere` (`SurfaceAgrees`) and the action property `NotesOnlyGrow`
(`NotesGrow`). `MemoryIsArchive` compares two lists that several workers write; the
invariant says that every conversation a worker holds is made of turns that are over
(`ConvsWhole`), those of Skills that go on after the close included, that a turn is archived once and is not among the lost ones
(`ArchivedOnce`), that no other worker waits while a reply is generated (`ReplyAlone`),
and that the one notes update was shown all that is in the notes (`OneUpdate`). The
assumption has that an old archive holds a turn once, which is what the app archives.
The types are types only: that the app is closed ends no Skill.
The theorems are about `CommandSurface`, whose actions `Startup` takes over; `Startup`
itself reaches recursive operators.

`SessionArchiveProofs`, for any number of turns of any length, faults, deletions and
recoveries, from its assumption: `Inductive`, `TypeCorrect` (`TypeOK`), `TearCostsALine`
(`TearCostsOneLine`), `ResumesClean` (`ResumeClean`) and `ShrinkingKeepsNewest`
(`ShrinkKeepsNewest`, which cut size control keeps). What a tear costs is a matter of the lines in the file, and the
invariant says of them: every fragment is a message of a turn and all before it in that
turn come back (`FileSound`); lines are in the order of what was appended
(`LinesInOrder`); what was written of a turn that was not cut comes back
(`WrittenSound`); an unended line is the last cut turn's, and only the first message of
the next can be glued to it (`TornSound`); without a cut the counts are
exact but for the `orphans`, and nobody writes while the app is down (`CountSound`,
`MetaSound`, `WriterUp`). What a resume makes of that is then a matter of lists: at most the last
turn is without results, and the shrinking cuts before a user's message.
`KeepsALog` proves the refinement of `TurnLog` (`IsTurnLog`) from the same invariant. The
lemmas before it say what is read of a file with one more fragment (`GlueReads`): the good
lines and the last, or the same, or all but the unended one, by counting the good lines
off; and that the open turn can be read as far as it was written (`OpenReadTo`), which is
what the log asks of a turn that grows or is acknowledged.

`ToolAccessProofs`, for all files, commands, contents and calls and every list of
rules, from `AccessAssumption`: `Inductive`, `TypeCorrect`, `DeniedIsNotDone`
(`DenyHolds`), `NothingWithoutConsent` (`EffectsConsented`), `PermanentIsPermanent`
(`PermanentLasts`) and the action property `OverwritesWhatWasRead`
(`ReplacesWhatItRead`). The first three hold until a policy is loaded from a file that does not read back as
it was saved. The strengthening, `RulesSound`, says for that time that every list of
rules, in memory always and in the file while it is `intact`, is the project's followed
by consents (`Grown`), and that nothing was asked or consented to that the project denies
(`Askable`); a file that is not intact changes nothing before somebody loads it. The
argument is about the first matching rule: in a grown list it is the project's
if the project has one (`ProjectFirst`), and a consent to the same tool and target
if it has none (`ConsentSecond`); that there is a first one is the
well-foundedness of the naturals.

`RuleEngineProofs`, for all calls, runs, contexts and lists of rules and any number
of reloads, from `EngineAssumption`: `Inductive`, `TypeCorrect`,
`FiredOncePerLoad` (`OncePerLoad`) and `RejectedCallsDoNotRun` (`RejectedNeverRuns`).
The strengthening says where an emitter is in its events (`StepsSound`), that the
count of an id is at most the number of loads and below it unless the id is done
(`Counted`), and that an emit that waits has passed no rule that rejects its call
(`Vetted`). The core is one stretch of `emit`, from one wait to the next: what
fires in it is a set of positions, a once rule is in it for at most one position of
an id (the least), and the position it stops at is the first that waits or rejects.

The same module goes on with `RulePrompts`, for all conversations, prompt rules, lists of
active Skills, turns and compressions, from `PromptAssumption`, which says of a
conversation only what a resume can leave (`Resumable`: an idle reminder in front, no
second copy of the question). `ReplyRunsTheEngine` (`PromptSpec => Spec`) has every step of a
reply a step of the engine or a stutter, so the theorems above hold while a reply goes on;
`PromptInductive`, `RequestsAreWhole` (`RequestWhole`) and the action property `ConversationIsKept`
(`OnlyConversationKept`) rest on one invariant, `PromptInv`. At every await of the run its list
falls into two parts (`InRun`): the instructions, in which each kind is counted
(`InFront`), and what follows them, the end of the conversation, the question and what the
run said (`Follows`); `BeforeRun` and `AfterRun` carry this from the request to the
commit. Prompts, plan note and Skill texts go in or come out by picking places of that list, and
a compression cuts it; `ListProofs` says what `Picked` keeps of joined and of cut lists.

`ContextProofs` has two parts. About `Skills`, for all directories, names, callers, edits
and payloads, from `SkillsAssumption`: `SkillsInductive`, `NoScriptWithoutConsent`
(`ScriptsConsented`) and `TrustLasts` (`TrustIsLasting`), where the two together are
inductive: what a call loads after a dialog is looked up in
the trust of that moment, and a rescan loads only what is trusted. Then
`SkillsTypesInductive` and `OrderListsActive` (`SkillsTypeOK`): the order lists what is
active, each Skill once, over any rescan, install and uninstall; this rests on what
`Picked` keeps of a list, for which `ListProofs` counts places off.

About `SpoolCompression`, for all texts, limits and lengths, from its assumption:
`SpoolInductive`, `SpoolTypesHold` (`TypeOK`), `LinksAreKept` (`LinkedIsKept`) and
the action properties `TurnIsKept` (`CompressionKeepsTurn`) and `BatchesAreBounded`
(`BatchBounded`). A link is made when its
file is; after that nothing ties the two but that only a summary removes files and only
a write of the same text that breaks off empties one. So the invariant says that what is
linked from the conversation, the run's list or the archive is a whole file or was written
off by one of these two, and that who waits for a summary has a turn that can be cut
(`AsksWithCause`): the list cannot change while it waits.

A batch is bounded by where the greedy rule stops. Longest first is a strict order
(`TakenInOrder`), and what is spooled for the batch's sake is closed under "goes before"
(`ForcedInOrder`). Of what is left whole the first had all of it spooled before it
(`LeftOver`): it stayed because the total was within the limit, or because its preview is
no shorter, and then no shorter text has a shorter preview (`LongerSpools`: a length has
never more digits than a longer one). What was spooled last was taken when the others
were previews already, and was over the limit then (`LastForced`). A total counts the
characters of the texts, each at its place, so that taking one text out is a fact about
finite sets (`TotalWithout`) and needs no induction over a list.

`McpServersProofs`, for any number of callers, processes and incarnations of an HTTP
server, from `McpAssumption` and `ServersAssumption`: `Inductive`, `ServersTypesHold`
(`ServersTypeOK`), `TableIsAlwaysAwaited` (`TableIsAwaited`), `AnswersAreAlwaysMine`
(`AnswersAreMine`) and `ConsentComesFirst` (`RemoteConsented`). An answer is looked up by
id alone, so the strengthening says that no two callers have one id (`Unique`) and that
what a server has read belongs to the caller with its id, for the step that caller is in
if it still waits (`Owned`, `HttpOwned`); that a call connects a bounded number of times
and one that has not begun has nothing (`Counts`, `HttpPhases`); and that a process that
is waited for is waited for by one (`ClosesStarted`). What
may stay in the table is part of the invariant: a caller that is through with the end
`cancelled` (inside a send, over either transport) or `broken` (a request that cannot be
encoded, an HTTP body that is no object) may have its last id there, and nobody else.
Most steps do several things to the record of a call and hand answers or a lost
connection to others at once. `StdLater` over a process and `HttpLater`'s `Later` over
POSTs say which changes, caller by caller, keep the invariant (`StdLaterKeeps`,
`HttpLater`); each step that sends no new request is shown to be of that kind, and those
that send one, the pages of `tools/list` among them, have lemmas of their own
(`StdAsks`, `HttpAsks`). `ConsentSound` carries the consent:
a call that has started may, and a session's steps start none.

TLC only: `CancelEnds`, `RunEnds`, `OnlySendsHang` and `TasksEnd` (liveness under
fairness is out of the prover's reach); `InstructionsComplete` and
`WholeOrTold` (what `Startup` computes is recursive).
The types of `AgentLoop`, `SessionArchive`, `WorkerTasks`, `ToolAccess`, `RuleEngine`,
`McpServers`, `CommandSurface`, `SpoolCompression` and `Skills` are proved and no run
checks them again.
TLC evaluates each module's assumptions.

## 6. Not modelled, and why

- Provider client, search tools: one-shot I/O without state, whose limits and failures
  `AgentLoop` has as results, failures and stalls. Completion, help and rendering.
- Of MCP: resources, stderr, arguments that httpx cannot encode, how an event stream is cut into
  messages (a body is the answers in it), the screening of descriptions.
- Of the commands: `/plan`, a switch that a reply reads once. Of the start: what startup rules do in `on_mount`, the texts of prompts and roles, and
  the heads of `skill.md` and role files beyond what is missing or misfit (`ill`).
- Of rules: what an action does, templates, the text of conditions. Of Skills: texts,
  the history an isolated run takes along, registering tools, the cancel token that an
  isolated run shares with the loop.
- Of tool access: script rules and script roots, the regular
  expressions that tell commands apart (`HardBlocked` and `ReadOnlyCommands` are
  their verdicts), the text of an edit, reading and searching, which change nothing.
- Two processes on one session's files: no lock in the code, nothing promised.
- Words: event payloads, prompts, titles, previews (their length is kept).
- The prototypes (`agnent loop part`, `systemprompt part`, `plan`): not imported.

## 7. Plan

Done: the modules of section 2 with their runs, the refinements of `ReplyContract`,
`TaskLifecycle` and `TurnLog`, the proofs of section 5. Next, the most important first:

1. **Abstract specification** of a pipe that delivers a prefix and then ends,
   implemented by the channel of `WorkerTasks`.
2. **Composition**: two workers of `ChatApp` over the detailed archive; the
   cancel token shared by a reply and an isolated Skill (`cancel.py:26`).
