--------------------------- MODULE SessionArchive ---------------------------
(***************************************************************************)
(* One session's archive: SessionStore of src/zxcode/storage.py (an        *)
(* append-only JSONL file and a small meta file replaced atomically) and   *)
(* recover_session of recovery.py, as app.py uses them.  The process may   *)
(* be killed between any two writes, a write may fail half way, a deletion *)
(* may remove one of the two files only, and the meta file may turn out    *)
(* unreadable.                                                             *)
(*                                                                         *)
(* Abstractions: a message is <<turn, position>>, its content is looked up *)
(* in `batches`; a line is the sequence of the fragments glued on it; the  *)
(* size of a conversation is its number of messages.  Title, summary,      *)
(* model and times of the meta file are left out, and so is the idle       *)
(* reminder.                                                               *)
(***************************************************************************)
EXTENDS Transcript, FiniteSets, SequencesExt, Lists

CONSTANTS
  MaxAppends,      \* bound: turns archived
  CallCounts,      \* bound: how many tool calls a turn may make
  MaxFaults,       \* bound: crashes, failed writes and unlinks, broken meta files
  Trigger,         \* size from which recovery reduces the conversation
  Target,          \* size it reduces to
  Nothing          \* None

ASSUME BoundsAssumption ==
  /\ {MaxAppends, MaxFaults, Trigger, Target} \cup CallCounts \subseteq Nat
  /\ 0 < Target /\ Target <= Trigger
  /\ Nothing \notin Nat

VARIABLES
  lines,           \* the JSONL file
  ended,           \* it ends with a newline
  meta,            \* the meta file
  orphans,         \* how many messages it counts whose lines are deleted (history)
  app,             \* the process: down, attached, or elsewhere
  session,         \* ChatSession.messages, as keys
  batches,         \* the messages handed to append_messages, turn by turn
  fates,           \* what became of each batch
  pending,         \* positions of the current batch not yet written
  countBefore,     \* append_messages' local; Nothing when none is in progress
  recovering,      \* messages of a recovery that waits for its compression
  faults

files == <<lines, ended, meta, orphans>>
vars == <<lines, ended, meta, orphans, app, session, batches, fates, pending,
          countBefore, recovering, faults>>

(***************************************************************************)
(* A turn's messages and their keys                                        *)
(***************************************************************************)
UserMessage == [role |-> "user"]

\* The user's text, then what AgentLoop returns: never a dangling call.
TurnMessages(t, calls, replied) ==
  LET ids == {<<t, i>> : i \in 1..calls}
  IN  <<UserMessage>>
      \o (IF calls = 0 THEN << >>
          ELSE <<AssistantMessage(ids)>>
               \o [i \in 1..calls |-> ToolMessage(<<t, i>>, "ok")])
      \o (IF replied THEN <<AssistantMessage({})>> ELSE << >>)

\* The summary and the boundary message are user messages that recovery adds.
Summary  == <<0, 1>>
Boundary == <<0, 2>>

MessageOf(key) == IF key[1] = 0 THEN UserMessage ELSE batches[key[1]][key[2]]
Contents(keys) == [k \in DOMAIN keys |-> MessageOf(keys[k])]
Users(keys)    == {k \in DOMAIN keys : MessageOf(keys[k]).role = "user"}
KeysOf(t)      == [k \in DOMAIN batches[t] |-> <<t, k>>]
From(keys, k)  == SubSeq(keys, k, Len(keys))

(***************************************************************************)
(* Reading the archive                                                     *)
(***************************************************************************)
\* A fragment cut inside a multi-byte character makes the file undecodable:
\* iterating over it raises UnicodeDecodeError.
Readable == \A l \in Range(lines) : \A f \in Range(l) : f.part # "garbled"

\* read_raw_lines: a line that holds anything but one whole message is skipped.
Parses(line) == Len(line) = 1 /\ line[1].part = "whole"
Good == {l \in DOMAIN lines : Parses(lines[l])}

Parsed ==
  LET good == Good
  IN  [n \in 1..Cardinality(good) |-> lines[Nth(good, n)][1].key]

\* count_lines: blank lines aside, every line counts, parsable or not.
CountLines == Len(lines)

\* Mutant: the message with the open call stays.
TruncateAfterCall(keys) ==
  LET msgs == Contents(keys)
      open == {k \in DOMAIN msgs : /\ msgs[k].role = "assistant"
                                   /\ ~(msgs[k].calls \subseteq Answered(msgs))}
      cut  == Max(open)
  IN  IF open = {} \/ (\E k \in Users(keys) : k > cut) THEN keys
      ELSE SubSeq(keys, 1, cut)

\* truncate_dangling, from the newest assistant message with an open call.
TruncateDangling(keys) ==
  LET msgs == Contents(keys)
      open == {k \in DOMAIN msgs : /\ msgs[k].role = "assistant"
                                   /\ ~(msgs[k].calls \subseteq Answered(msgs))}
      cut  == Max(open)
  IN  IF open = {} \/ (\E k \in Users(keys) : k > cut) THEN keys
      ELSE SubSeq(keys, 1, cut - 1)

Recovered == TruncateDangling(Parsed)

\* Mutant: the loop stops at the first cut that fits.
DropUntilFits(keys) ==
  LET users == Users(keys)
      fits  == {u \in users : u > Min(users) /\ Len(From(keys, u)) <= Target}
  IN  IF fits = {} THEN keys ELSE <<Boundary>> \o From(keys, Min(fits))

\* _drop_oldest_turns tries every later user message and keeps the last cut
\* that fits; when none fits everything stays and no boundary is put in.
DropOldestTurns(keys) ==
  LET users == Users(keys)
      fits  == {u \in users : u > Min(users) /\ Len(From(keys, u)) <= Target}
  IN  IF fits = {} THEN keys ELSE <<Boundary>> \o From(keys, Max(fits))

\* compress_history: the first cut that fits, or else before the last turn.
CompressionCut(keys) ==
  LET later == Users(keys) \ {Min(Users(keys))}
      fits  == {u \in later : Len(From(keys, u)) <= Target}
  IN  IF fits # {} THEN Min(fits) ELSE Max(later)

Compressed(keys) == <<Summary, Boundary>> \o From(keys, CompressionCut(keys))

\* It succeeds when there is something to cut and the result fits.
Compressible(keys) ==
  /\ Cardinality(Users(keys)) >= 2
  /\ Len(keys) > Target
  /\ Len(Compressed(keys)) <= Target

-----------------------------------------------------------------------------
NoMeta == [state |-> "none", count |-> 0]
Broken == [state |-> "broken", count |-> 0]

Writing == countBefore # Nothing

Init ==
  /\ lines = << >> /\ ended = TRUE /\ meta = NoMeta /\ orphans = 0
  /\ app = "attached"     \* the id is drawn when the first turn is persisted
  /\ session = << >>
  /\ batches = << >> /\ fates = << >>
  /\ pending = << >> /\ countBefore = Nothing
  /\ recovering = Nothing
  /\ faults = 0

\* _persist_turn: the session has the turn already; append_messages reads the
\* meta file, or counts lines when it is missing or broken.
StartAppend ==
  LET t == Len(batches) + 1
  IN  /\ app = "attached" /\ ~Writing /\ t <= MaxAppends
      /\ meta.state = "ok" \/ Readable
      /\ \E calls \in CallCounts, replied \in BOOLEAN :
           /\ calls > 0 \/ replied
           /\ batches' = Append(batches, TurnMessages(t, calls, replied))
      /\ fates' = Append(fates, "open")
      /\ session' = session \o [k \in DOMAIN batches'[t] |-> <<t, k>>]
      /\ pending' = [k \in DOMAIN batches'[t] |-> <<t, k>>]
      /\ countBefore' = IF meta.state = "ok" THEN meta.count ELSE CountLines
      /\ UNCHANGED <<files, app, recovering, faults>>

\* count_lines raises UnicodeDecodeError, which _persist_turn does not catch:
\* the worker fails and the app exits.
AppendRaises ==
  /\ app = "attached" /\ ~Writing /\ Len(batches) < MaxAppends
  /\ meta.state # "ok" /\ ~Readable
  /\ app' = "down" /\ session' = << >> /\ recovering' = Nothing
  /\ UNCHANGED <<files, batches, fates, pending, countBefore, faults>>

\* What the file looks like with one more fragment.
Glue(fragment) ==
  IF ended THEN Append(lines, <<fragment>>)
  ELSE [lines EXCEPT ![Len(lines)] = Append(@, fragment)]

Fragment(key, part) == [key |-> key, part |-> part]

\* Mutant: the newline is written between the messages, not after each.
WriteLineUnended ==
  /\ Writing /\ pending # << >>
  /\ lines' = Glue(Fragment(Head(pending), "whole"))
  /\ ended' = (Len(pending) > 1)
  /\ pending' = Tail(pending)
  /\ UNCHANGED <<meta, orphans, app, session, batches, fates, countBefore, recovering, faults>>

WriteLine ==
  /\ Writing /\ pending # << >>
  /\ lines' = Glue(Fragment(Head(pending), "whole"))
  /\ ended' = TRUE
  /\ pending' = Tail(pending)
  /\ UNCHANGED <<meta, orphans, app, session, batches, fates, countBefore, recovering, faults>>

\* _write_meta: a temporary file, then os.replace.
RefreshMeta ==
  /\ Writing /\ pending = << >>
  /\ meta' = [meta EXCEPT !.state = "ok",
                          !.count = countBefore + Len(Last(batches))]
  /\ fates' = [fates EXCEPT ![Len(fates)] = "kept"]
  /\ countBefore' = Nothing
  /\ UNCHANGED <<lines, ended, orphans, app, session, batches, pending, recovering, faults>>

\* The app exits in good order; update_summary, if the notes update it triggers
\* comes back with a summary, writes a good meta file again with its count.
Quit ==
  /\ app # "down" /\ ~Writing
  /\ app' = "down" /\ session' = << >> /\ recovering' = Nothing
  /\ UNCHANGED <<files, batches, fates, pending, countBefore, faults>>

(***************************************************************************)
(* Faults                                                                  *)
(***************************************************************************)
Fault == faults < MaxFaults /\ faults' = faults + 1

\* Some bytes of the next line may have reached the file.  All of them but the
\* newline make a whole message on an unended line.
WriteStops ==
  /\ \/ UNCHANGED <<lines, ended>>
     \/ /\ Writing /\ pending # << >>
        /\ \E part \in {"whole", "cut", "garbled"} :
             lines' = Glue(Fragment(Head(pending), part))
        /\ ended' = FALSE
  /\ fates' = IF Writing THEN [fates EXCEPT ![Len(fates)] = "cut"] ELSE fates
  /\ pending' = << >> /\ countBefore' = Nothing

Crash ==
  /\ app # "down" /\ Fault
  /\ WriteStops
  /\ app' = "down" /\ session' = << >> /\ recovering' = Nothing
  /\ UNCHANGED <<meta, orphans, batches>>

\* OSError from write, flush or the meta file: "会话存档写入失败", and on.
WriteFails ==
  /\ Writing /\ Fault
  /\ WriteStops
  /\ UNCHANGED <<meta, orphans, app, session, batches, recovering>>

\* A power cut, or an editor, leaves the meta file unparsable.
MetaBreaks ==
  /\ app = "down" /\ meta.state = "ok" /\ Fault
  /\ meta' = Broken /\ orphans' = 0
  /\ UNCHANGED <<lines, ended, app, session, batches, fates, pending,
                 countBefore, recovering>>

(***************************************************************************)
(* Starting, resuming, deleting                                            *)
(***************************************************************************)
\* A new process has no session_id: its turns go to another archive.
StartApp ==
  /\ app = "down"
  /\ app' = "elsewhere"
  /\ UNCHANGED <<files, session, batches, fates, pending, countBefore,
                 recovering, faults>>

\* The user resumes another session.
LeaveSession ==
  /\ app = "attached" /\ ~Writing
  /\ app' = "elsewhere" /\ session' = << >>
  /\ UNCHANGED <<files, batches, fates, pending, countBefore, recovering, faults>>

MayResume == app # "down" /\ ~Writing /\ recovering = Nothing /\ lines # << >>

\* resume_session of a conversation within the window: no await is taken.
ResumeSmall ==
  /\ MayResume /\ Readable /\ Len(Recovered) < Trigger
  /\ session' = Recovered
  /\ app' = "attached"
  /\ UNCHANGED <<files, batches, fates, pending, countBefore, recovering, faults>>

\* A larger one is compressed first; the app goes on meanwhile.
ResumeLarge ==
  /\ MayResume /\ Readable /\ Len(Recovered) >= Trigger
  /\ recovering' = Recovered
  /\ UNCHANGED <<files, app, session, batches, fates, pending, countBefore, faults>>

\* UnicodeDecodeError leaves read_raw_lines; the worker fails, the app exits.
ResumeRaises ==
  /\ MayResume /\ ~Readable
  /\ app' = "down" /\ session' = << >>
  /\ UNCHANGED <<files, batches, fates, pending, countBefore, recovering, faults>>

\* The compression is back, with a summary or without.
ResumeFinishes ==
  /\ recovering # Nothing /\ ~Writing
  /\ \/ Compressible(recovering) /\ session' = Compressed(recovering)
     \/ session' = DropOldestTurns(recovering)
  /\ app' = "attached"
  /\ recovering' = Nothing
  /\ UNCHANGED <<files, batches, fates, pending, countBefore, faults>>

\* delete_session and clear_all unlink the lines first, then the meta file.
UnlinkLines ==
  /\ lines' = << >> /\ ended' = TRUE
  /\ fates' = [t \in DOMAIN fates |-> "deleted"]

UnlinkMeta == meta' = NoMeta /\ orphans' = 0

\* The app keeps its session_id and messages.
Delete ==
  /\ app # "down" /\ ~Writing
  /\ UnlinkLines /\ UnlinkMeta
  /\ UNCHANGED <<app, session, batches, pending, countBefore, recovering, faults>>

\* An OSError of either unlink is swallowed and the other file goes.
UnlinkFails ==
  /\ app # "down" /\ ~Writing /\ Fault
  /\ \/ UnlinkMeta /\ UNCHANGED <<lines, ended, fates>>
     \/ UnlinkLines /\ orphans' = meta.count /\ UNCHANGED meta
  /\ UNCHANGED <<app, session, batches, pending, countBefore, recovering>>

\* The process is killed between the two.
DeleteStops ==
  /\ app # "down" /\ ~Writing /\ Fault
  /\ UnlinkLines /\ orphans' = meta.count /\ UNCHANGED meta
  /\ app' = "down" /\ session' = << >> /\ recovering' = Nothing
  /\ UNCHANGED <<batches, pending, countBefore>>

Next ==
  \/ StartAppend
  \/ AppendRaises
  \/ WriteLine
  \/ RefreshMeta
  \/ Quit
  \/ Crash
  \/ WriteFails
  \/ MetaBreaks
  \/ StartApp
  \/ LeaveSession
  \/ ResumeSmall
  \/ ResumeLarge
  \/ ResumeRaises
  \/ ResumeFinishes
  \/ Delete
  \/ UnlinkFails
  \/ DeleteStops

Spec == Init /\ [][Next]_vars

-----------------------------------------------------------------------------
(***************************************************************************)
(* Properties                                                              *)
(***************************************************************************)
Keys == (0..MaxAppends) \X (Nat \ {0})
Fragments == [key : Keys, part : {"whole", "cut", "garbled"}]

\* Every variable has its type, an unended file has a last line, and there is
\* something to write only while append_messages is at it.
TypeOK ==
  /\ lines \in Seq(Seq(Fragments)) /\ (~ended => lines # << >>)
  /\ meta.state \in {"none", "ok", "broken"} /\ {meta.count, orphans} \subseteq Nat
  /\ app \in {"down", "elsewhere", "attached"}
  /\ session \in Seq(Keys) /\ pending \in Seq(Keys)
  /\ DOMAIN fates = DOMAIN batches
  /\ \A t \in DOMAIN fates : fates[t] \in {"open", "kept", "cut", "deleted"}
  /\ countBefore \in Nat \cup {Nothing}
  /\ Writing => fates[Len(fates)] = "open"
  /\ pending # << >> => Writing
  /\ recovering = Nothing \/ recovering \in Seq(Keys)
  /\ faults \in 0..MaxFaults

Kept(t) == fates[t] = "kept"
Cut(t)  == fates[t] = "cut"

\* The damage a torn write can do: every message of an acknowledged turn is
\* read back, save the first message of the turn that follows a torn one (its
\* line is glued to the torn line), and nothing is read twice or out of order.
\* As long as nothing was torn, the count in the session list is the number of
\* messages one gets back, whatever died between the lines and the meta file; a
\* deletion that took the lines alone is counted on top, by every later turn too,
\* until the meta file goes or is found unreadable.
TearCostsOneLine ==
  LET read == Parsed
  IN  /\ \A t \in DOMAIN batches : Kept(t) =>
           \A key \in Range(KeysOf(t)) \ Range(read) :
             key[2] = 1 /\ t > 1 /\ Cut(t - 1)
      /\ \A i \in 2..Len(read) :
           \/ read[i - 1][1] < read[i][1]
           \/ read[i - 1][1] = read[i][1] /\ read[i - 1][2] < read[i][2]
      /\ ~Writing /\ meta.state = "ok" /\ (\A t \in DOMAIN fates : ~Cut(t)) =>
           meta.count = Len(read) + orphans

\* What size control may make of the recovered messages.
Shrunk(keys) ==
  {DropOldestTurns(keys)} \cup (IF Compressible(keys) THEN {Compressed(keys)} ELSE {})

\* A session resumed after its last turn was torn is a transcript a provider
\* accepts, wherever the tear is and however recovery had to shrink it.
ResumeClean ==
  ~Writing /\ (\A t \in DOMAIN fates : Cut(t) => t = Len(fates)) =>
    LET r == Recovered
    IN  \A keys \in {r} \cup Shrunk(r) :
          LET msgs == Contents(keys) IN WellFormed(msgs) /\ Dangling(msgs) = {}

\* What size control makes of a conversation over the limit.  With a summary the
\* longest run of newest turns that fits the target stays.  Without one the
\* newest turn stays alone if it fits, and the whole conversation if it does not:
\* the loop over the cuts keeps the last one that fits.
ShrinkKeepsNewest ==
  LET r == Recovered
      cuts    == {u \in Users(r) : \E v \in Users(r) : v < u}
      fits(u) == Len(From(r, u)) <= Target
  IN  /\ Compressible(r) => \E u \in cuts :
           /\ fits(u) /\ \A v \in cuts : fits(v) => u <= v
           /\ Compressed(r) = <<Summary, Boundary>> \o From(r, u)
      /\ \A u \in cuts : (\A v \in cuts : v <= u) =>
           DropOldestTurns(r) = IF fits(u) THEN <<Boundary>> \o From(r, u) ELSE r

\* The last line is a whole message that has no newline yet.
Unended == ~ended /\ Parses(lines[Len(lines)])

Log == INSTANCE TurnLog WITH
  log <- Parsed,
  loose <- Unended,
  sizes <- [t \in DOMAIN batches |-> Len(batches[t])]

\* The file is a log of turns: what a resume can read grows by one message of the
\* turn being written, and no message that could be read is lost, but by a delete
\* or, one per tear, when the next turn's first line is glued to an unended one.
\* A turn is acknowledged with all its messages there, save that first one.
IsTurnLog == Log!Spec
=============================================================================
