-------------------------- MODULE SpoolCompression --------------------------
(***************************************************************************)
(* The two layers of src/zxcode/compress.py over one session: oversized    *)
(* tool results go to content-addressed files and leave a preview with a   *)
(* link, and the oldest turns give way to a summary.  Layer one is pure    *)
(* and is written as operators on message lists; the actions are the       *)
(* callers: the agent loop's prepare and back-fill, /compact, and the      *)
(* recovery of an archive.                                                 *)
(*                                                                         *)
(* A text is known by what it came from and how often it was replaced by   *)
(* its preview; lengths are in units of a few hundred characters.  Left    *)
(* out: the system prefix (a constant share of every estimate), assistant  *)
(* messages that only carry tool calls (they have no content), the words   *)
(* of the summary prompt and its parsing.                                  *)
(***************************************************************************)
EXTENDS Integers, FiniteSets, Sequences, FiniteSetsExt, SequencesExt

CONSTANTS
  Results,         \* contents a tool may return
  Summaries,       \* contents the model may summarise with
  Size,            \* the length of each content
  Header,          \* of a preview, but for the digits of the length it names
  SingleLimit,     \* single_result_limit
  BatchLimit,      \* batch_total_limit
  Trigger, Target, \* trigger_ratio and target_ratio of the window
  BreakerLimit,    \* breaker_limit
  MaxTurns,        \* bound: user turns
  MaxBatches,      \* bound: batches of tool calls
  Batches,         \* bound: what one of them may return
  Nothing          \* None

Contents == Results \cup Summaries \cup {"typed", "reply", "boundary"}

ASSUME SpoolAssumption ==
  /\ Size \in [Contents -> Nat]
  /\ {Header, SingleLimit, BatchLimit, Trigger, Target, MaxTurns, MaxBatches} \subseteq Nat
  /\ Target <= Trigger /\ BreakerLimit \in Nat \ {0} /\ Batches \subseteq Seq(Results)

VARIABLES
  messages,        \* ChatSession.messages
  run,             \* the agent run: its history, what it has added, where it is
  waiting,         \* /compact or a resume that waits for a summary, and its list
  archive,         \* the JSONL file of the session
  files,           \* the texts in the spool directory
  failures,        \* CircuitBreaker._failures
  turns, batches,  \* how many there were
  writtenOff       \* ghost: texts whose file went with a summarised block, or was
                   \* emptied by a write that failed

vars == <<messages, run, waiting, archive, files, failures, turns, batches,
          writtenOff>>

Init ==
  /\ messages = << >> /\ run = Nothing /\ waiting = Nothing
  /\ archive = << >> /\ files = {} /\ failures = 0
  /\ turns = 0 /\ batches = 0
  /\ writtenOff = {}

(***************************************************************************)
(* Texts                                                                   *)
(***************************************************************************)
Text(src) == [src |-> src, depth |-> 0]
Message(role, src) == [role |-> role, text |-> Text(src)]
Typed == Message("user", "typed")
Reply == Message("assistant", "reply")

Digits(n) == IF n < 10 THEN 1 ELSE 2

TextLen(text) ==
  LET len[d \in 0..text.depth] ==
        IF d = 0 THEN Size[text.src] ELSE Header + Digits(len[d - 1])
  IN  len[text.depth]

Preview(text) == [text EXCEPT !.depth = @ + 1]

\* _SPOOL_LINK in a text: a preview of a preview shows both their links.
Links(text) == {[text EXCEPT !.depth = d] : d \in {d \in 0..(text.depth - 1) : d >= text.depth - 2}}

LinksIn(msgs) == UNION {Links(msgs[i].text) : i \in DOMAIN msgs}

\* The characters of some of the texts, each at its place.
Characters(msgs, indices) == UNION {{i} \X (1..TextLen(msgs[i].text)) : i \in indices}

Total(msgs, indices) == Cardinality(Characters(msgs, indices))

\* estimate_messages.
Estimate(msgs) == Total(msgs, DOMAIN msgs)

(***************************************************************************)
(* Layer one                                                               *)
(***************************************************************************)
\* spool_tool_message: whether a text is replaced, once it is to be; ok says
\* whether the file can be written.
CanSpool(text, ok) == ok /\ TextLen(Preview(text)) < TextLen(text)

Tools(msgs, block) == {i \in block : msgs[i].role = "tool"}

\* Over the single-result limit.
Singles(msgs, block, ok) ==
  {i \in Tools(msgs, block) : TextLen(msgs[i].text) > SingleLimit /\ CanSpool(msgs[i].text, ok)}

Replace(msgs, spooled) ==
  [i \in DOMAIN msgs |-> IF i \in spooled THEN [msgs[i] EXCEPT !.text = Preview(@)] ELSE msgs[i]]

\* Mutant: the batch is gone through as it comes.
GoesFirstInOrder(msgs, i, j) == i < j

\* The batch rule takes the longest first.
GoesFirst(msgs, i, j) ==
  LET len(k) == TextLen(msgs[k].text) IN len(i) > len(j) \/ (len(i) = len(j) /\ i < j)

\* The batch rule: from the longest on, as long as the total, with the previews
\* so far, is too much and a preview is shorter.
Forced(msgs, block, ok) ==
  LET rest      == Tools(msgs, block) \ Singles(msgs, block, ok)
      before(i) == {j \in rest : GoesFirst(msgs, j, i)}
      over(i)   == Total(Replace(msgs, before(i)), rest) > BatchLimit
  IN  {i \in rest : \A j \in before(i) \cup {i} : over(j) /\ CanSpool(msgs[j].text, ok)}

SpooledIn(msgs, block, ok) == Singles(msgs, block, ok) \cup Forced(msgs, block, ok)

Users(msgs) == {i \in DOMAIN msgs : msgs[i].role = "user"}

\* _spool_turn of each user turn; what comes before the first is left alone.
Turns(msgs) ==
  {{i \in u..Len(msgs) : \A v \in Users(msgs) : v <= u \/ v > i} : u \in Users(msgs)}

RecheckSpools(msgs, ok) == UNION {SpooledIn(msgs, turn, ok) : turn \in Turns(msgs)}

Recheck(msgs, ok) == Replace(msgs, RecheckSpools(msgs, ok))

Written(msgs, spooled) == {msgs[i].text : i \in spooled}

\* What a batch tries to write when no write succeeds: every text over the single
\* limit, or else the first the batch rule takes, after which it gives up.
Tried(msgs, block) ==
  LET singles == Singles(msgs, block, TRUE)
      forced  == Forced(msgs, block, TRUE)
  IN  IF singles # {} THEN singles
      ELSE {i \in forced : \A j \in forced : ~GoesFirst(msgs, j, i)}

RecheckTries(msgs) == UNION {Tried(msgs, turn) : turn \in Turns(msgs)}

\* The files of a pass over some messages: all that were spooled, or none, as on
\* a full disk.  write_text opens by truncating, so a write that fails may empty
\* the file that an earlier pass wrote for the same text.
WriteFiles(msgs, spooled, tried, ok) ==
  \E lost \in (IF ok THEN {{}} ELSE SUBSET (Written(msgs, tried) \cap files)) :
    /\ files' = (files \cup Written(msgs, spooled)) \ lost
    /\ writtenOff' = (writtenOff \ Written(msgs, spooled)) \cup lost

(***************************************************************************)
(* Layer two                                                               *)
(***************************************************************************)
\* Mutant: it goes on past the newest turn.
CutAll(msgs) ==
  LET later == (Users(msgs) \cup {Len(msgs) + 1}) \ {Min(Users(msgs))}
      fits  == {u \in later : Estimate(SubSeq(msgs, u, Len(msgs))) < Target}
  IN  IF fits = {} THEN Max(later) ELSE Min(fits)

\* Where the block to summarise ends: at the first turn from which the rest
\* fits, or else at the newest.
Cut(msgs) ==
  LET later == Users(msgs) \ {Min(Users(msgs))}
      fits  == {u \in later : Estimate(SubSeq(msgs, u, Len(msgs))) <= Target}
  IN  IF fits = {} THEN Max(later) ELSE Min(fits)

Compressible(msgs) == Cardinality(Users(msgs)) >= 2 /\ Estimate(msgs) > Target

Compressed(msgs, summary) ==
  <<Message("user", summary), Message("user", "boundary")>> \o SubSeq(msgs, Cut(msgs), Len(msgs))

Fits(msgs, summary) == Estimate(Compressed(msgs, summary)) <= Target

\* Mutant: the files go before the result is weighed.
CleanupEarly(msgs, summary) ==
  /\ files' = files \ LinksIn(SubSeq(msgs, 1, Cut(msgs) - 1))
  /\ writtenOff' = IF Fits(msgs, summary) THEN writtenOff \cup LinksIn(SubSeq(msgs, 1, Cut(msgs) - 1))
                   ELSE writtenOff

\* _cleanup_spooled: the files linked in the block that was replaced.
Cleanup(msgs, summary) ==
  LET gone == LinksIn(SubSeq(msgs, 1, Cut(msgs) - 1))
  IN  IF Fits(msgs, summary)
      THEN files' = files \ gone /\ writtenOff' = writtenOff \cup gone
      ELSE UNCHANGED <<files, writtenOff>>

\* record_success and record_failure, once there is a summary.
Breaker(fits) == failures' = IF fits THEN 0 ELSE failures + 1

(***************************************************************************)
(* The agent run                                                           *)
(***************************************************************************)
Idle == run = Nothing

\* prepare_request rechecks the session; an exclusive worker ends a waiting one.
StartRun ==
  /\ Idle /\ turns < MaxTurns
  /\ turns' = turns + 1
  /\ \E ok \in BOOLEAN :
       /\ messages' = Recheck(messages, ok)
       /\ WriteFiles(messages, RecheckSpools(messages, ok), RecheckTries(messages), ok)
  /\ run' = [pc |-> "prepare", history |-> Append(messages', Typed), added |-> <<Typed>>]
  /\ waiting' = Nothing
  /\ UNCHANGED <<archive, failures, batches>>

\* prepare up to the model call for a summary, if there is to be one.
Prepare ==
  /\ run # Nothing /\ run.pc = "prepare"
  /\ \E ok \in BOOLEAN :
       LET history == Recheck(run.history, ok)
           asks    == Estimate(history) >= Trigger /\ failures < BreakerLimit /\ Compressible(history)
       IN  /\ WriteFiles(run.history, RecheckSpools(run.history, ok), RecheckTries(run.history), ok)
           /\ run' = [run EXCEPT !.history = history, !.pc = IF asks THEN "summarising" ELSE "model"]
  /\ UNCHANGED <<messages, waiting, archive, failures, turns, batches>>

\* The model fails, calls a tool, or writes no summary.
SummaryFails ==
  /\ run # Nothing /\ run.pc = "summarising"
  /\ failures' = failures + 1
  /\ run' = [run EXCEPT !.pc = "model"]
  /\ UNCHANGED <<messages, waiting, archive, files, turns, batches, writtenOff>>

SummaryComes ==
  /\ run # Nothing /\ run.pc = "summarising"
  /\ \E summary \in Summaries :
       LET fits == Fits(run.history, summary)
       IN  /\ run' = [run EXCEPT !.pc = "model",
                        !.history = IF fits THEN Compressed(@, summary) ELSE @]
           /\ Cleanup(run.history, summary)
           /\ Breaker(fits)
  /\ UNCHANGED <<messages, waiting, archive, turns, batches>>

\* A batch of tool results is spooled and back-filled.
ToolResults ==
  /\ run # Nothing /\ run.pc = "model" /\ batches < MaxBatches
  /\ batches' = batches + 1
  /\ \E results \in Batches, ok \in BOOLEAN :
       LET batch   == [i \in DOMAIN results |-> Message("tool", results[i])]
           spooled == SpooledIn(batch, DOMAIN batch, ok)
           filled  == Replace(batch, spooled)
       IN  /\ WriteFiles(batch, spooled, Tried(batch, DOMAIN batch), ok)
           /\ run' = [pc |-> "prepare", history |-> run.history \o filled, added |-> run.added \o filled]
  /\ UNCHANGED <<messages, waiting, archive, failures, turns>>

\* A final reply, or a cancellation that leaves results behind: the history
\* becomes the session's, what was added is archived.
RunCompletes ==
  /\ run # Nothing /\ run.pc \in {"prepare", "model"}
  /\ \E reply \in {<< >>, <<Reply>>} :
       /\ reply = << >> => Len(run.added) > 1
       /\ reply # << >> => run.pc = "model"
       /\ messages' = run.history \o reply
       /\ archive' = archive \o run.added \o reply
  /\ run' = Nothing
  /\ UNCHANGED <<waiting, files, failures, turns, batches, writtenOff>>

\* Abandoned: the session keeps its own list.  A summary that was waited for
\* counts neither way.
RunAbandoned ==
  /\ run # Nothing
  /\ run' = Nothing
  /\ UNCHANGED <<messages, waiting, archive, files, failures, turns, batches, writtenOff>>

(***************************************************************************)
(* /compact and recovery                                                   *)
(***************************************************************************)
\* manual_compress asks whatever the breaker says.
StartCompact ==
  /\ Idle /\ waiting = Nothing
  /\ \E ok \in BOOLEAN :
       LET asked == Recheck(messages, ok)
       IN  /\ Compressible(asked)
           /\ waiting' = [what |-> "compact", asked |-> asked]
           /\ WriteFiles(messages, RecheckSpools(messages, ok), RecheckTries(messages), ok)
  /\ UNCHANGED <<messages, run, archive, failures, turns, batches>>

\* A short archive is taken as it is.
ResumeShort ==
  /\ Idle /\ archive # << >> /\ Estimate(archive) < Trigger
  /\ messages' = archive
  /\ UNCHANGED <<run, waiting, archive, files, failures, turns, batches, writtenOff>>

\* _size_control asks for a summary, without the breaker.
StartResume ==
  /\ Idle /\ waiting = Nothing
  /\ Estimate(archive) >= Trigger /\ Compressible(archive)
  /\ waiting' = [what |-> "resume", asked |-> archive]
  /\ UNCHANGED <<messages, run, archive, files, failures, turns, batches, writtenOff>>

\* _drop_oldest_turns, of which SessionArchive has more to say.
Shortened(msgs) ==
  LET fits == {u \in Users(msgs) \ {Min(Users(msgs))} : Estimate(SubSeq(msgs, u, Len(msgs))) <= Target}
  IN  IF fits = {} THEN msgs
      ELSE <<Message("user", "boundary")>> \o SubSeq(msgs, Max(fits), Len(msgs))

\* There is no summary, or it is too long.
WaitingFails ==
  /\ Idle /\ waiting # Nothing
  /\ messages' = IF waiting.what = "resume" THEN Shortened(waiting.asked) ELSE messages
  /\ waiting' = Nothing
  /\ UNCHANGED <<run, archive, files, failures, turns, batches, writtenOff>>

\* Only /compact tells the breaker.
WaitingSucceeds ==
  /\ Idle /\ waiting # Nothing
  /\ \E summary \in Summaries :
       /\ Fits(waiting.asked, summary)
       /\ messages' = Compressed(waiting.asked, summary)
       /\ Cleanup(waiting.asked, summary)
  /\ failures' = IF waiting.what = "compact" THEN 0 ELSE failures
  /\ waiting' = Nothing
  /\ UNCHANGED <<run, archive, turns, batches>>

\* The process is killed while it writes a file, or not; the archive and the
\* spool are there for the next one to resume.
Killed ==
  /\ LET tried == IF run = Nothing THEN Written(messages, RecheckTries(messages))
                  ELSE IF run.pc = "prepare" THEN Written(run.history, RecheckTries(run.history))
                  ELSE {Text(src) : src \in Results}
     IN  \E lost \in {{}} \cup {{text} : text \in tried \cap files} :
           files' = files \ lost /\ writtenOff' = writtenOff \cup lost
  /\ messages' = << >> /\ run' = Nothing /\ waiting' = Nothing /\ failures' = 0
  /\ UNCHANGED <<archive, turns, batches>>

Next ==
  \/ StartRun
  \/ Prepare
  \/ SummaryFails
  \/ SummaryComes
  \/ ToolResults
  \/ RunCompletes
  \/ RunAbandoned
  \/ StartCompact
  \/ ResumeShort
  \/ StartResume
  \/ WaitingFails
  \/ WaitingSucceeds
  \/ Killed

Spec == Init /\ [][Next]_vars

-----------------------------------------------------------------------------
(***************************************************************************)
(* Properties                                                              *)
(***************************************************************************)
Texts == [src : Contents, depth : Nat]
MessageLists == Seq([role : {"user", "assistant", "tool"}, text : Texts])

\* Every variable has its type, and no other summary is waited for while a run
\* may ask for its own.
TypeOK ==
  /\ messages \in MessageLists /\ archive \in MessageLists
  /\ \/ run = Nothing
     \/ run \in [pc : {"prepare", "summarising", "model"}, history : MessageLists, added : MessageLists]
  /\ \/ waiting = Nothing
     \/ waiting \in [what : {"compact", "resume"}, asked : MessageLists] /\ run = Nothing
  /\ files \subseteq Texts /\ writtenOff \subseteq Texts
  /\ failures \in Nat
  /\ turns \in 0..MaxTurns /\ batches \in 0..MaxBatches

InUse ==
  LinksIn(messages) \cup LinksIn(archive)
    \cup (IF run = Nothing THEN {} ELSE LinksIn(run.history) \cup LinksIn(run.added))
    \cup (IF waiting = Nothing THEN {} ELSE LinksIn(waiting.asked))

\* What a preview points to can be read, unless a block with the same link was
\* replaced by a summary, or a later write of the same text broke off (a full
\* disk, a kill) and was not made good by another since: writes that fail before,
\* summaries that fail or come out too long, and runs that are abandoned cost no
\* tool result.
LinkedIsKept == InUse \subseteq files \cup writtenOff

Newest(msgs) == SubSeq(msgs, Max(Users(msgs)), Len(msgs))

\* The history a run goes on with after a compression is within the target,
\* and ends with the turn at hand, word for word.
CompressionKeepsTurn ==
  [][run # Nothing /\ run' # Nothing /\ run.pc = "summarising" /\ run'.history # run.history =>
       /\ Estimate(run'.history) <= Target
       /\ IsSuffix(Newest(run.history), run'.history)]_vars

\* Of a batch, when files can be written: what is left is within the limit or
\* nothing that is left whole can be made shorter, and nothing was spooled that
\* could have stayed.
BatchBounded ==
  [][batches' # batches =>
       LET filled  == SubSeq(run'.history, Len(run.history) + 1, Len(run'.history))
           len(i)  == Size[filled[i].text.src]
           spooled == {i \in DOMAIN filled : filled[i].text.depth > 0}
           forced  == {i \in spooled : len(i) <= SingleLimit}
           total   == Total(filled, (DOMAIN filled \ spooled) \cup forced)
       IN  spooled # {} =>
             /\ total <= BatchLimit \/ \A i \in DOMAIN filled \ spooled : ~CanSpool(filled[i].text, TRUE)
             /\ \A i \in forced : (\A j \in forced : len(j) >= len(i)) =>
                  total - TextLen(filled[i].text) + len(i) > BatchLimit]_vars
=============================================================================
