------------------------------- MODULE ChatApp -------------------------------
(***************************************************************************)
(* The application shell of src/zxcode/app.py: the conversation in memory, *)
(* the session it is archived under, and the workers that read it, wait    *)
(* for a model and write it back: generate, compact, resume_session, an    *)
(* isolated Skill, and the notes update of notes.py.  Everything between   *)
(* two awaits is one action.  A run of AgentLoop and an append to          *)
(* SessionArchive are one step each here; those modules have the detail.   *)
(*                                                                         *)
(* Textual's @work(exclusive=True) cancels every other worker of the       *)
(* group; all workers of the app are in the default group.  The Skill run  *)
(* and the notes update are plain asyncio tasks, which it does not cancel: *)
(* on_unmount cancels the update, and a Skill goes on until the process    *)
(* ends.                                                                   *)
(*                                                                         *)
(* A turn is a number.  A conversation is the turns it stands for, of      *)
(* which the first `folded` are in a summary, or were dropped.             *)
(***************************************************************************)
EXTENDS Integers, FiniteSets, Sequences, SequencesExt

CONSTANTS
  Ids,             \* session ids
  OldArchives,     \* bound: what the archive may hold when the app starts
  MaxTurns,        \* bound: turns, those of the old archives included
  MaxCommands,     \* bound: slash commands
  LargeFrom,       \* turns from which recovery compresses a conversation
  IntervalTurns,   \* NotesConfig.interval_turns
  Nothing          \* None

\* The turns of an archive are numbered from 1, and each is in it once.
NumberedOnce(old) ==
  /\ \E n \in 0..MaxTurns : UNION {Range(old[i]) : i \in Ids} = 1..n
  /\ \A i, j \in Ids : \A k \in DOMAIN old[i], l \in DOMAIN old[j] :
       old[i][k] = old[j][l] => i = j /\ k = l

ASSUME ChatAssumption ==
  /\ {MaxTurns, MaxCommands} \subseteq Nat
  /\ {LargeFrom, IntervalTurns} \subseteq Nat \ {0}
  /\ Nothing \notin Ids
  /\ OldArchives \subseteq [Ids -> Seq(1..MaxTurns)]
  /\ \A old \in OldArchives : NumberedOnce(old)

VARIABLES
  app,             \* "up", "closing" and "noting" (on_unmount), "down"
  conv,            \* ChatSession.messages
  sid,             \* ZXCodeApp.session_id
  archive,         \* the JSONL files
  gen,             \* the generate worker: the turn, what it asked, its history
  compacting,      \* the compact worker: the conversation it was given
  resuming,        \* the resume_session workers that wait for a compression
  skills,          \* the isolated Skills that run, as the turns they will make
  notes,           \* the turns the notes files have digested
  updates,         \* the notes updates that wait for the model
  turnCount,       \* NotesManager.turn_count
  turns,           \* turns started
  drawn,           \* ids in use or used before
  commands,        \* slash commands given
  gone,            \* turns whose lines were deleted, or could not be written
  raced            \* a worker wrote back over a conversation changed meanwhile

workers == <<gen, compacting, resuming>>
noteVars == <<notes, updates, turnCount>>
ghosts == <<gone, raced>>
vars == <<app, conv, sid, archive, gen, compacting, resuming, skills, notes,
          updates, turnCount, turns, drawn, commands, gone, raced>>

Empty == [turns |-> << >>, folded |-> 0]

\* What a compression may return: at least the newest turn stays as it is.
Compactable(c) == Len(c.turns) > 1
Compactions(c) == {[c EXCEPT !.folded = k] : k \in {k \in 1..(Len(c.turns) - 1) : k >= c.folded}}

Idle == app = "up" /\ gen = Nothing

Init ==
  /\ app = "up"
  /\ conv = Empty /\ sid = Nothing
  /\ archive \in OldArchives
  /\ gen = Nothing /\ compacting = Nothing /\ resuming = {} /\ skills = {}
  /\ notes = {} /\ updates = {} /\ turnCount = 0
  /\ turns = Cardinality(UNION {Range(archive[i]) : i \in Ids})
  /\ drawn = {i \in Ids : archive[i] # << >>}
  /\ commands = 0
  /\ gone = {} /\ raced = FALSE

\* A slash command; action_submit takes none while generate runs.
Command == Idle /\ commands < MaxCommands /\ commands' = commands + 1

(***************************************************************************)
(* A turn                                                                  *)
(***************************************************************************)
NewTurn == turns < MaxTurns /\ turns' = turns + 1

\* Mutant: generate is not exclusive.
StartGenerateShared ==
  /\ Idle /\ NewTurn
  /\ gen' = [turn |-> turns', asked |-> conv, from |-> sid, history |-> conv]
  /\ UNCHANGED <<app, conv, sid, archive, compacting, resuming, skills, noteVars,
                 drawn, commands, ghosts>>

\* action_submit, and generate up to its first await.
StartGenerate ==
  /\ Idle /\ NewTurn
  /\ gen' = [turn |-> turns', asked |-> conv, from |-> sid, history |-> conv]
  /\ compacting' = Nothing /\ resuming' = {}
  /\ UNCHANGED <<app, conv, sid, archive, skills, noteVars, drawn, commands, ghosts>>

\* The loop compresses its own history before it calls the model.
LoopCompresses ==
  /\ gen # Nothing /\ Compactable(gen.history)
  /\ \E c \in Compactions(gen.history) : gen' = [gen EXCEPT !.history = c]
  /\ UNCHANGED <<app, conv, sid, archive, compacting, resuming, skills, noteVars,
                 turns, drawn, commands, ghosts>>

\* append_messages under the current id, or a fresh one; the write may fail.
Persist(turn) ==
  \E id \in IF sid = Nothing THEN Ids \ drawn ELSE {sid} :
    /\ sid' = id /\ drawn' = drawn \cup {id}
    /\ \/ archive' = [archive EXCEPT ![id] = Append(@, turn)] /\ UNCHANGED gone
       \/ UNCHANGED archive /\ gone' = gone \cup {turn}

Due == turnCount' % IntervalTurns = 0
NewUpdate == [base |-> notes, digest |-> Range(conv'.turns)]

\* Mutant: nothing keeps a second update from starting.
TurnCompletedUnchecked ==
  /\ turnCount' = turnCount + 1
  /\ \/ updates' = updates \cup {NewUpdate}
     \/ ~Due /\ UNCHANGED updates
  /\ UNCHANGED notes

\* on_turn_completed: an update is due every few turns, and when the message
\* looks memorable; none starts while one runs.
TurnCompleted ==
  /\ turnCount' = turnCount + 1
  /\ \/ updates = {} /\ updates' = {NewUpdate}
     \/ (updates # {} \/ ~Due) /\ UNCHANGED updates
  /\ UNCHANGED notes

\* The run came back with messages: its final history replaces the session's,
\* and the turn is archived.
GenerateCompletes ==
  /\ app = "up" /\ gen # Nothing
  /\ conv' = [gen.history EXCEPT !.turns = Append(@, gen.turn)]
  /\ Persist(gen.turn)
  /\ TurnCompleted
  /\ raced' = (raced \/ conv.turns # gen.asked.turns)
  /\ gen' = Nothing
  /\ UNCHANGED <<app, compacting, resuming, skills, turns, commands>>

\* Cancelled or failed with nothing usable: _abandon.
GenerateAbandons ==
  /\ app = "up" /\ gen # Nothing
  /\ gen' = Nothing
  /\ UNCHANGED <<app, conv, sid, archive, compacting, resuming, skills, noteVars,
                 turns, drawn, commands, ghosts>>
(***************************************************************************)
(* Commands                                                                *)
(***************************************************************************)
\* compact is exclusive: it cancels the other waiting workers, even when it
\* finds nothing to compress.
StartCompact ==
  /\ Command
  /\ \/ Compactable(conv) /\ compacting' = [asked |-> conv, from |-> sid]
     \/ compacting' = Nothing
  /\ resuming' = {}
  /\ UNCHANGED <<app, conv, sid, archive, gen, skills, noteVars, turns, drawn, ghosts>>

\* The summary replaces what the session holds by now.
CompactFinishes ==
  /\ app = "up" /\ compacting # Nothing
  /\ conv' \in Compactions(compacting.asked)
  /\ raced' = (raced \/ conv.turns # compacting.asked.turns \/ sid # compacting.from)
  /\ compacting' = Nothing
  /\ UNCHANGED <<app, sid, archive, gen, resuming, skills, noteVars, turns, drawn,
                 commands, gone>>

\* CompressionFailure: the session is as it was.
CompactFails ==
  /\ app = "up" /\ compacting # Nothing
  /\ compacting' = Nothing
  /\ UNCHANGED <<app, conv, sid, archive, gen, resuming, skills, noteVars, turns,
                 drawn, commands, ghosts>>

Recovered(id) == [turns |-> archive[id], folded |-> 0]

ResumeSmall ==
  /\ Command
  /\ \E id \in Ids :
       /\ archive[id] # << >> /\ Len(archive[id]) < LargeFrom
       /\ conv' = Recovered(id) /\ sid' = id
  /\ UNCHANGED <<app, archive, gen, compacting, resuming, skills, noteVars, turns,
                 drawn, ghosts>>

\* Mutant: the id is taken before the conversation is there.
ResumeLargeTakesId ==
  /\ Command
  /\ \E id \in Ids :
       /\ archive[id] # << >> /\ Len(archive[id]) >= LargeFrom
       /\ resuming' = resuming \cup {[id |-> id, asked |-> Recovered(id)]}
       /\ sid' = id
  /\ UNCHANGED <<app, conv, archive, gen, compacting, skills, noteVars, turns,
                 drawn, ghosts>>

\* recover_session waits for the compression; it may be asked for again.
ResumeLarge ==
  /\ Command
  /\ \E id \in Ids :
       /\ archive[id] # << >> /\ Len(archive[id]) >= LargeFrom
       /\ resuming' = resuming \cup {[id |-> id, asked |-> Recovered(id)]}
  /\ UNCHANGED <<app, conv, sid, archive, gen, compacting, skills, noteVars, turns,
                 drawn, ghosts>>

\* Compressed, or cut, or left as it is when no cut fits.
ResumeFinishes ==
  /\ app = "up"
  /\ \E r \in resuming :
       /\ conv' \in Compactions(r.asked) \cup {r.asked}
       /\ sid' = r.id
       /\ resuming' = resuming \ {r}
       /\ raced' = (raced \/ archive[r.id] # r.asked.turns)
  /\ UNCHANGED <<app, archive, gen, compacting, skills, noteVars, turns, drawn,
                 commands, gone>>

\* clear_chat.
Clear ==
  /\ Command
  /\ conv' = Empty /\ sid' = Nothing
  /\ UNCHANGED <<app, archive, gen, compacting, resuming, skills, noteVars, turns,
                 drawn, ghosts>>

\* delete_session of some ids; all of them for clear_sessions.  The session in
\* memory stays, and so does its id.
Delete ==
  /\ Command
  /\ \E ids \in SUBSET Ids :
       /\ archive' = [id \in Ids |-> IF id \in ids THEN << >> ELSE archive[id]]
       /\ gone' = gone \cup UNION {Range(archive[id]) : id \in ids}
  /\ UNCHANGED <<app, conv, sid, gen, compacting, resuming, skills, noteVars, turns,
                 drawn, raced>>

\* run_skill of an isolated Skill: a task of its own, so input goes on.
StartSkill ==
  /\ Command /\ NewTurn
  /\ skills' = skills \cup {turns'}
  /\ UNCHANGED <<app, conv, sid, archive, gen, compacting, resuming, noteVars,
                 drawn, ghosts>>

\* The summary joins whatever conversation there is by now, also while
\* on_unmount waits.
SkillFinishes ==
  /\ app # "down"
  /\ \E skill \in skills :
       /\ conv' = [conv EXCEPT !.turns = Append(@, skill)]
       /\ Persist(skill)
       /\ skills' = skills \ {skill}
  /\ UNCHANGED <<app, gen, compacting, resuming, noteVars, turns, commands, raced>>

SkillFails ==
  /\ app # "down"
  /\ \E skill \in skills : skills' = skills \ {skill}
  /\ UNCHANGED <<app, conv, sid, archive, gen, compacting, resuming, noteVars,
                 turns, drawn, commands, ghosts>>

(***************************************************************************)
(* Notes                                                                   *)
(***************************************************************************)
\* The model's answer keeps the sections it was shown and adds to them.
UpdateFinishes ==
  /\ app # "down"
  /\ \E u \in updates :
       /\ notes' = u.base \cup u.digest
       /\ updates' = updates \ {u}
  /\ UNCHANGED turnCount
  /\ app' = IF app = "noting" THEN "down" ELSE app
  /\ UNCHANGED <<conv, sid, archive, workers, skills, turns, drawn, commands, ghosts>>

\* No answer, an exception, or the timeout of on_unmount.
UpdateFails ==
  /\ app # "down"
  /\ \E u \in updates : updates' = updates \ {u}
  /\ UNCHANGED <<notes, turnCount>>
  /\ app' = IF app = "noting" THEN "down" ELSE app
  /\ UNCHANGED <<conv, sid, archive, workers, skills, turns, drawn, commands, ghosts>>

ClearNotes ==
  /\ Command
  /\ notes' = {}
  /\ UNCHANGED <<updates, turnCount>>
  /\ UNCHANGED <<app, conv, sid, archive, workers, skills, turns, drawn, ghosts>>

(***************************************************************************)
(* The end                                                                 *)
(***************************************************************************)
\* Textual cancels its workers; on_unmount waits for the rules of the end and
\* for the MCP servers to close, and what else runs goes on.
Close ==
  /\ app = "up" /\ app' = "closing"
  /\ gen' = Nothing /\ compacting' = Nothing /\ resuming' = {}
  /\ UNCHANGED <<conv, sid, archive, skills, noteVars, turns, drawn, commands, ghosts>>

\* Then it cancels the notes update in flight and asks for a last one, which is
\* refused while the cancelled one has not unwound.
LastUpdate ==
  /\ app = "closing"
  /\ \/ /\ sid # Nothing /\ conv.turns # << >>
        /\ updates' = {[base |-> notes, digest |-> Range(conv.turns)]}
        /\ app' = "noting"
     \/ /\ updates # {} \/ sid = Nothing \/ conv.turns = << >>
        /\ updates' = {}
        /\ app' = "down"
  /\ UNCHANGED <<conv, sid, archive, workers, skills, notes, turnCount, turns, drawn,
                 commands, ghosts>>

Next ==
  \/ StartGenerate
  \/ LoopCompresses
  \/ GenerateCompletes
  \/ GenerateAbandons
  \/ StartCompact
  \/ CompactFinishes
  \/ CompactFails
  \/ ResumeSmall
  \/ ResumeLarge
  \/ ResumeFinishes
  \/ Clear
  \/ Delete
  \/ StartSkill
  \/ SkillFinishes
  \/ SkillFails
  \/ UpdateFinishes
  \/ UpdateFails
  \/ ClearNotes
  \/ Close
  \/ LastUpdate

Spec == Init /\ [][Next]_vars

-----------------------------------------------------------------------------
(***************************************************************************)
(* Properties                                                              *)
(***************************************************************************)
Convs == [turns : Seq(1..MaxTurns), folded : 0..MaxTurns]

\* Every variable has its type, no archive is written under an id that was not
\* drawn, and no worker of Textual's outlives the app.
TypeOK ==
  /\ app \in {"up", "closing", "noting", "down"}
  /\ conv \in Convs
  /\ sid \in drawn \cup {Nothing} /\ drawn \subseteq Ids
  /\ archive \in [Ids -> Seq(1..MaxTurns)]
  /\ \A id \in Ids \ drawn : archive[id] = << >>
  /\ \/ gen = Nothing
     \/ gen \in [turn : 1..MaxTurns, asked : Convs, from : Ids \cup {Nothing}, history : Convs]
  /\ compacting = Nothing \/ compacting \in [asked : Convs, from : Ids \cup {Nothing}]
  /\ resuming \subseteq [id : Ids, asked : Convs]
  /\ skills \subseteq 1..MaxTurns
  /\ notes \subseteq 1..MaxTurns
  /\ updates \subseteq [base : SUBSET (1..MaxTurns), digest : SUBSET (1..MaxTurns)]
  /\ turnCount \in 0..MaxTurns /\ turns \in 0..MaxTurns
  /\ commands \in 0..MaxCommands
  /\ gone \subseteq 1..MaxTurns /\ raced \in BOOLEAN
  /\ app # "up" => gen = Nothing /\ compacting = Nothing /\ resuming = {}

\* While a reply is generated the conversation it was asked about stays in
\* place, under the same id: only Skills started before may add to it.
ReplyOwnsConversation ==
  gen # Nothing =>
    /\ sid = gen.from \/ gen.from = Nothing
    /\ conv.folded = gen.asked.folded /\ IsPrefix(gen.asked.turns, conv.turns)
    /\ \A k \in (Len(gen.asked.turns) + 1)..Len(conv.turns) : conv.turns[k] < gen.turn

\* The sequence a is s without the members of lost, in the order of s.
IsWithout(a, s, lost) ==
  \E at \in [1..Len(a) -> 1..Len(s)] :
    /\ \A i, j \in 1..Len(a) : i < j => at[i] < at[j]
    /\ {at[i] : i \in 1..Len(a)} = {k \in 1..Len(s) : s[k] \notin lost}
    /\ \A i \in 1..Len(a) : a[i] = s[at[i]]

\* What is in memory is what is archived under the current id, turn by turn
\* and in order, but for lines deleted or not written: as long as no worker
\* wrote back over a conversation that had changed while it waited.  It is so
\* to the end: a Skill that ends while the app closes is archived as well.
MemoryIsArchive ==
  ~raced =>
    IF sid = Nothing THEN conv.turns = << >>
    ELSE IsWithout(archive[sid], conv.turns, gone)

\* An update never loses what an earlier one put into the notes: they grow, or
\* the user clears them.
NotesGrow == [][notes \subseteq notes' \/ notes' = {}]_notes

\* Said by README.md:34: /clear empties the current conversation.  A session
\* that has no id yet holds nothing.
ClearedStaysEmpty == sid = Nothing => conv.turns = << >>
=============================================================================
