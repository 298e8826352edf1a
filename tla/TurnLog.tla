------------------------------- MODULE TurnLog -------------------------------
(***************************************************************************)
(* What a session's archive promises of the turns handed to it, whatever   *)
(* becomes of the process and of its files: a log that is read back        *)
(* message by message.  A message is <<turn, position>>.                   *)
(***************************************************************************)
EXTENDS Naturals, Sequences, SequencesExt

VARIABLES
  log,             \* what a reader gets
  loose,           \* the last message of it may still be lost
  sizes,           \* how many messages each turn has
  fates            \* what became of each turn

vars == <<log, loose, sizes, fates>>

Newest == Len(fates)
IsOpen == fates # << >> /\ fates[Newest] = "open"
Becomes(fate) == fates' = [fates EXCEPT ![Newest] = fate]

\* Which of a turn's messages are read back.
InLog(t) == {key[2] : key \in {k \in Range(log) : k[1] = t}}

AfterTear(t) == t > 1 /\ fates[t - 1] = "cut"

\* A turn is read back up to a message: all of them, but perhaps the first if
\* the turn before was torn.
ReadTo(t, i) == InLog(t) \in {1..i} \cup (IF AfterTear(t) THEN {2..i} ELSE {})

Init == log = << >> /\ loose = FALSE /\ sizes = << >> /\ fates = << >>

\* A turn is handed over when the one before is settled.
Begins ==
  /\ ~IsOpen
  /\ Len(sizes') = Newest + 1 /\ IsPrefix(sizes, sizes')
  /\ fates' = Append(fates, "open")
  /\ UNCHANGED <<log, loose>>

\* The turn's next message joins the log.
Adds ==
  /\ ~loose
  /\ \E i \in 1..sizes[Newest] :
       ReadTo(Newest, i - 1) /\ log' = Append(log, <<Newest, i>>)

\* The first message of a turn costs the loose one, of a turn that was torn.
TakesBack ==
  /\ loose /\ AfterTear(Newest) /\ InLog(Newest) = {}
  /\ fates[Last(log)[1]] = "cut"
  /\ log' = Front(log) /\ loose' = FALSE

Writes ==
  /\ IsOpen
  /\ UNCHANGED <<sizes, fates>>
  /\ (loose' = FALSE /\ Adds) \/ TakesBack

\* The turn is acknowledged when all of it is there.
Settles ==
  /\ IsOpen /\ Becomes("kept")
  /\ ReadTo(Newest, sizes[Newest])
  /\ UNCHANGED <<log, loose, sizes>>

\* A crash or a failed write; one more message may be there, but is loose.
IsTorn ==
  /\ IsOpen /\ Becomes("cut")
  /\ (loose' = TRUE /\ Adds) \/ TakesBack \/ UNCHANGED <<log, loose>>
  /\ UNCHANGED sizes

IsCleared ==
  /\ ~IsOpen
  /\ fates' = [t \in DOMAIN fates |-> "deleted"]
  /\ log' = << >> /\ loose' = FALSE
  /\ UNCHANGED sizes

Next == Begins \/ Writes \/ Settles \/ IsTorn \/ IsCleared

Spec == Init /\ [][Next]_vars
=============================================================================
