-------------------------- MODULE McpServersProofs ---------------------------
(***************************************************************************)
(* Proofs about McpServers, for any number of callers, processes and       *)
(* incarnations of an HTTP server: the session over a process, then both   *)
(* kinds of session with the confirmations.                                *)
(***************************************************************************)
EXTENDS McpServers, TLAPS

(***************************************************************************)
(* Over POSTs: each step of HttpSession keeps HttpSound                    *)
(***************************************************************************)
\* No two callers have the same id, and an id is given out once.
Unique ==
  \A c, d \in Callers : c # d /\ calls[c].id # 0 => calls[c].id # calls[d].id

\* A request the server has is its sender's, for the step the sender is in.
HttpOwned ==
  \A a \in asked :
    /\ a.id < nextId
    /\ \A c \in Callers : calls[c].id = a.id =>
         /\ a.by = c
         /\ Http!Awaits(calls[c]) =>
              a.what = IF calls[c].phase \in {"initialize", "shaking"} THEN "initialize" ELSE "call"

\* Where a call is over, and what the answer is that it goes on with.
HttpPhases ==
  \A c \in Callers :
    /\ calls[c].connects <= Ensures(c)
    /\ calls[c].phase = "idle" => calls[c] = Http!Fresh
    /\ calls[c].end # Nothing => calls[c].phase \in {"closing", "done"}
    /\ calls[c].end = "ok" => calls[c].phase = "done"
    /\ calls[c].phase \in {"call", "waiting"} /\ calls[c].got \in Requests => calls[c].got.what = "call"

\* The invariant of the session over POSTs.
HttpSound ==
  /\ Http!TypeOK /\ Http!PendingIsAwaited /\ Http!AnswerIsMine
  /\ Unique /\ HttpOwned /\ HttpPhases

\* Who has not begun, or is through, is left alone.
Rest == \A c \in Callers : calls[c].phase \in {"idle", "done"} => calls'[c] = calls[c]

\* What a caller is to the session over POSTs.
HttpCallTypes ==
  [phase : {"idle", "initialize", "shaking", "tellinit", "initialized",
            "call", "waiting", "telling", "closing", "done"},
   id : 0..(nextId - 1), got : Http!Requests \cup {Nothing, Lost},
   header : 0..epoch, connects : 0..3, end : {Nothing, "ok", "failed", "broken", "cancelled"}]

(***************************************************************************)
(* Steps that send no request                                              *)
(***************************************************************************)
\* The records the steps of HttpSession are built of.
States == [calls : [Callers -> HttpCallTypes], pending : SUBSET Nat, asked : SUBSET Http!Requests]

\* What a step that sends no request does with a caller: it may be handed an
\* answer or the loss of the connection, it may go on, and it may be over.
Handed(c) ==
  \/ calls'[c].got = calls[c].got
  \/ /\ Http!Awaits(calls[c]) /\ calls[c].id \in pending
     /\ \/ calls'[c].got = Lost
        \/ calls'[c].got \in asked /\ calls'[c].got.id = calls[c].id

\* Where a call goes from where it is.
Proceeds(c) ==
  \/ calls'[c].phase = calls[c].phase /\ calls'[c].end = calls[c].end
  \/ /\ calls[c].phase \notin {"idle", "done"}
     /\ \/ /\ calls'[c].phase = "done" /\ calls'[c].end = "cancelled"
        \/ /\ calls[c].phase # "closing"
           /\ calls'[c].phase \in {"closing", "done"} /\ calls'[c].end \in {"failed", "broken"}
        \/ /\ calls[c].phase \in {"call", "waiting"}
           /\ calls'[c].phase = "done" /\ calls'[c].end = "ok" /\ calls'[c].got \notin {Lost, Nothing}
        \/ /\ calls'[c].end = calls[c].end
           /\ \/ calls[c].phase = "call" /\ calls'[c].phase = "waiting"
              \/ calls[c].phase = "waiting" /\ calls'[c].phase = "telling"
              \/ calls[c].phase = "initialize" /\ calls'[c].phase = "shaking"
              \/ calls[c].phase = "shaking" /\ calls'[c].phase = "tellinit"
              \/ /\ calls[c].phase \in {"initialize", "shaking"} /\ calls'[c].phase = "initialized"
                 /\ calls'[c].got \notin {Lost, Nothing}

\* Whoever still awaits has its id in the table, and who no longer does has
\* left it there with one of two ends.
Listed(c) ==
  IF Http!Awaits(calls'[c])
  THEN Http!Awaits(calls[c]) /\ (calls[c].id \in pending => calls[c].id \in pending')
  ELSE Http!Awaits(calls[c]) /\ calls[c].id \in pending' => calls'[c].end \in {"cancelled", "broken"}

\* All of it; who has not begun or is through is left alone.
Later(c) ==
  /\ calls'[c].id = calls[c].id /\ calls'[c].connects = calls[c].connects
  /\ calls'[c].header \in {calls[c].header, sessionId'}
  /\ Handed(c) /\ Proceeds(c) /\ Listed(c)
  /\ calls[c].phase \in {"idle", "done"} => calls'[c] = calls[c]

\* What such a step leaves alone, and what it takes out of the table.
Settled ==
  /\ sessionId' \in {sessionId, epoch} /\ nextId' = nextId /\ epoch' = epoch
  /\ pending' \subseteq pending /\ asked' \subseteq asked
  /\ connected' \in BOOLEAN /\ client' = connected'
  /\ sweeping' \in BOOLEAN /\ pooled' \in BOOLEAN /\ registered' \in BOOLEAN
  /\ life' \in {"up", "closed"}

\* A step in which every caller does what Later allows keeps the invariant.
LEMMA HttpLater ==
  ASSUME HttpSound, calls' \in [Callers -> HttpCallTypes], Settled, \A c \in Callers : Later(c)
  PROVE  HttpSound' /\ Rest
<1> USE McpAssumption, ServersAssumption DEF HttpSound, Later, Handed, Proceeds, Listed
<1>0. /\ Settled /\ Requests = Http!Requests
      /\ Lost \notin Http!Requests /\ Nothing \notin Http!Requests
      /\ Nothing \notin {"ok", "failed", "broken", "cancelled"}
  BY DEF Requests, Http!Requests
<1>1. Http!TypeOK'
  <2>1. calls' \in [Callers -> HttpCallTypes']
    BY DEF Settled, Http!TypeOK, HttpCallTypes, HttpPhases, Http!Requests
  <2>2. /\ connected' \in BOOLEAN /\ client' = connected'
        /\ epoch' \in 1..MaxEpochs /\ sessionId' \in 0..epoch'
        /\ sweeping' \in BOOLEAN /\ pooled' \in BOOLEAN /\ registered' \in BOOLEAN
        /\ life' \in {"up", "closed"}
    BY DEF Settled, Http!TypeOK
  <2>3. /\ nextId' \in Nat \ {0} /\ pending' \subseteq 1..(nextId' - 1)
        /\ asked' \subseteq Http!Requests
    BY DEF Settled, Http!TypeOK
  <2> QED BY <2>1, <2>2, <2>3 DEF Http!TypeOK, HttpCallTypes
<1>2. Http!PendingIsAwaited'
  <2>1. \A c \in Callers : Http!Awaits(calls'[c]) => calls'[c].id \in pending'
    BY DEF Http!PendingIsAwaited
  <2>2. ASSUME NEW i \in pending'
        PROVE  \E c \in Callers :
          calls'[c].id = i /\ (Http!Awaits(calls'[c]) \/ calls'[c].end \in {"cancelled", "broken"})
    <3>1. PICK c \in Callers :
            calls[c].id = i /\ (Http!Awaits(calls[c]) \/ calls[c].end \in {"cancelled", "broken"})
      BY DEF Settled, Http!PendingIsAwaited
    <3>2. CASE Http!Awaits(calls[c])
      BY <3>1, <3>2
    <3>3. CASE calls[c].end \in {"cancelled", "broken"}
      <4>1. calls[c].phase \in {"closing", "done"}
        BY <1>0, <3>3 DEF HttpPhases
      <4>2. calls'[c].end \in {"cancelled", "broken"}
        BY <3>3, <4>1
      <4> QED BY <3>1, <4>2
    <3> QED BY <3>1, <3>2, <3>3
  <2> QED BY <2>1, <2>2 DEF Http!PendingIsAwaited, Http!Awaits
<1>3. Http!AnswerIsMine'
  <2> SUFFICES ASSUME NEW c \in Callers, calls'[c].got \in Http!Requests
               PROVE  /\ calls'[c].got.by = c /\ calls'[c].got.id = calls'[c].id
                      /\ calls'[c].phase \in {"initialize", "shaking", "initialized"} =>
                           calls'[c].got.what = "initialize"
                      /\ calls'[c].end = "ok" => calls'[c].got.what = "call"
    BY DEF Http!AnswerIsMine, Http!Requests
  <2>1. CASE calls'[c].got = calls[c].got
    BY <1>0, <2>1 DEF Http!AnswerIsMine, HttpPhases
  <2>2. CASE Http!Awaits(calls[c]) /\ calls'[c].got \in asked /\ calls'[c].got.id = calls[c].id
    BY <2>2 DEF HttpOwned, Http!Awaits, HttpPhases
  <2>3. CASE calls'[c].got = Lost
    BY <1>0, <2>3
  <2> QED BY <2>1, <2>2, <2>3
<1>4. Unique'
  BY DEF Unique, Http!TypeOK
<1>5. HttpOwned'
  BY DEF Settled, HttpOwned, Http!Awaits, Http!TypeOK, Http!Requests
<1>6. HttpPhases'
  BY
     DEF HttpPhases, HttpOwned, Http!Awaits, Ensures, Http!Fresh, Http!TypeOK, Http!Requests,
         Requests
<1>7. Rest
  BY DEF Rest
<1> QED BY <1>1, <1>2, <1>3, <1>4, <1>5, <1>6, <1>7

(***************************************************************************)
(* The records the steps are built of                                      *)
(***************************************************************************)
\* Pieces of the steps of HttpSession, by name: the provers handle an EXCEPT of
\* a record that is no variable only behind one.
Ended(s, c, how) == [s EXCEPT !.calls[c].end = how]

Over(f, c, p, how) == [f EXCEPT ![c].phase = p, ![c].end = how]

Marked(f, c, how) == [f EXCEPT ![c].end = how]

Phased(f, c, p) == [f EXCEPT ![c].phase = p]

\* What a call is that is over, and that the others are as they were.
LEMMA OverIs ==
  ASSUME NEW f \in [Callers -> HttpCallTypes], NEW c \in Callers, NEW p \in {"closing", "done"},
         NEW how \in {"ok", "failed", "broken", "cancelled"}
  PROVE  /\ Over(f, c, p, how) \in [Callers -> HttpCallTypes]
         /\ \A d \in Callers \ {c} : Over(f, c, p, how)[d] = f[d]
         /\ Over(f, c, p, how)[c].phase = p /\ Over(f, c, p, how)[c].end = how
         /\ Over(f, c, p, how)[c].id = f[c].id /\ Over(f, c, p, how)[c].got = f[c].got
         /\ Over(f, c, p, how)[c].connects = f[c].connects /\ Over(f, c, p, how)[c].header = f[c].header
<1>1. f[c] \in HttpCallTypes
  OBVIOUS
<1>2. [f[c] EXCEPT !.phase = p, !.end = how] \in HttpCallTypes
  BY <1>1 DEF HttpCallTypes
<1>3. Over(f, c, p, how) = [f EXCEPT ![c] = [f[c] EXCEPT !.phase = p, !.end = how]]
  BY <1>1 DEF Over, HttpCallTypes
<1> QED BY <1>1, <1>2, <1>3 DEF HttpCallTypes

\* connect's except marks the end first and closes after that.
LEMMA PhasedIs ==
  ASSUME NEW f \in [Callers -> HttpCallTypes], NEW c \in Callers, NEW how
  PROVE  Phased(Marked(f, c, how), c, "closing") = Over(f, c, "closing", how)
BY DEF HttpCallTypes, Over, Marked, Phased

\* A caller after it got something.
GotOf(new, old, a) ==
  /\ new.phase = old.phase /\ new.id = old.id /\ new.got = a
  /\ new.header = old.header /\ new.connects = old.connects /\ new.end = old.end

\* State is the three variables.
LEMMA StateIs ==
  ASSUME HttpSound
  PROVE  /\ Http!State \in States
         /\ Http!State.calls = calls /\ Http!State.pending = pending /\ Http!State.asked = asked
BY DEF Http!State, States, HttpSound, Http!TypeOK, HttpCallTypes

\* Ends, Phase and the mark of an end, field by field.
LEMMA EndsIs ==
  ASSUME NEW s \in States, NEW c \in Callers, NEW how
  PROVE  /\ Http!Ends(s, c, how).calls = Over(s.calls, c, "done", how)
         /\ Http!Ends(s, c, how).pending = s.pending /\ Http!Ends(s, c, how).asked = s.asked
         /\ how \in {"ok", "failed", "broken", "cancelled"} => Http!Ends(s, c, how) \in States
<1>1. /\ Http!Ends(s, c, how).calls = Over(s.calls, c, "done", how)
      /\ Http!Ends(s, c, how).pending = s.pending /\ Http!Ends(s, c, how).asked = s.asked
  BY DEF Http!Ends, States, Over
<1>2. ASSUME how \in {"ok", "failed", "broken", "cancelled"}
      PROVE  Over(s.calls, c, "done", how) \in [Callers -> HttpCallTypes]
  <2>1. s.calls \in [Callers -> HttpCallTypes] /\ "done" \in {"closing", "done"}
    BY DEF States
  <2> QED BY <1>2, <2>1, OverIs
<1>3. ASSUME Over(s.calls, c, "done", how) \in [Callers -> HttpCallTypes]
      PROVE  Http!Ends(s, c, how) \in States
  BY <1>1, <1>3 DEF Http!Ends, States, Over
<1> QED BY <1>1, <1>2, <1>3

\* A caller's phase.
LEMMA PhaseIs ==
  ASSUME NEW s \in States, NEW c \in Callers, NEW p
  PROVE  /\ Http!Phase(s, c, p).calls = Phased(s.calls, c, p)
         /\ Http!Phase(s, c, p).pending = s.pending /\ Http!Phase(s, c, p).asked = s.asked
BY DEF Http!Phase, States, Phased

\* A caller's end.
LEMMA EndIs ==
  ASSUME NEW s \in States, NEW c \in Callers, NEW how \in {"failed", "broken"}
  PROVE  /\ Ended(s, c, how) \in States
         /\ Ended(s, c, how).calls = Marked(s.calls, c, how)
         /\ Ended(s, c, how).pending = s.pending /\ Ended(s, c, how).asked = s.asked
<1>1. Marked(s.calls, c, how) \in [Callers -> HttpCallTypes]
  BY DEF States, HttpCallTypes, Marked
<1> QED BY <1>1 DEF Ended, States, Marked

\* abandon takes the id of the call out of the table.
LEMMA AbandonsIs ==
  ASSUME NEW s \in States, NEW c \in Callers
  PROVE  /\ Http!Abandons(s, c) \in States
         /\ Http!Abandons(s, c).calls = s.calls /\ Http!Abandons(s, c).asked = s.asked
         /\ Http!Abandons(s, c).pending = s.pending \ {s.calls[c].id}
BY DEF Http!Abandons, States

\* fail_all empties the table and gives Lost to those who wait.
LEMMA FailsAllIs ==
  ASSUME NEW s \in States
  PROVE  /\ Http!FailsAll(s).calls = [c \in Callers |->
              IF Http!Awaits(s.calls[c]) /\ s.calls[c].id \in s.pending
              THEN [s.calls[c] EXCEPT !.got = Lost] ELSE s.calls[c]]
         /\ Http!FailsAll(s).pending = {} /\ Http!FailsAll(s).asked = s.asked
BY DEF Http!FailsAll, States

\* Who waits for one of the answers gets one with its own id, nobody else anything.
LEMMA DeliversIs ==
  ASSUME NEW s \in States, NEW answers \in SUBSET Http!Requests
  PROVE  /\ Http!Delivers(s, answers) \in States
         /\ Http!Delivers(s, answers).pending = s.pending \ {a.id : a \in answers}
         /\ Http!Delivers(s, answers).asked = s.asked \ answers
         /\ \A c \in Callers :
              \/ /\ Http!Delivers(s, answers).calls[c] = s.calls[c]
                 /\ ~\E a \in answers : a.id = s.calls[c].id /\ a.id \in s.pending /\ Http!Awaits(s.calls[c])
              \/ \E a \in answers :
                   /\ a.id = s.calls[c].id /\ a.id \in s.pending /\ Http!Awaits(s.calls[c])
                   /\ GotOf(Http!Delivers(s, answers).calls[c], s.calls[c], a)
<1> DEFINE takes(c) == \E a \in answers : a.id = s.calls[c].id /\ a.id \in s.pending /\ Http!Awaits(s.calls[c])
           f == [c \in Callers |-> IF takes(c)
                   THEN [s.calls[c] EXCEPT !.got = CHOOSE a \in answers : a.id = s.calls[c].id]
                   ELSE s.calls[c]]
<1>1. ASSUME NEW c \in Callers, takes(c)
      PROVE  /\ f[c] \in HttpCallTypes
             /\ \E a \in answers :
                  /\ a.id = s.calls[c].id /\ a.id \in s.pending /\ Http!Awaits(s.calls[c])
                  /\ GotOf(f[c], s.calls[c], a)
  <2> DEFINE a == CHOOSE a \in answers : a.id = s.calls[c].id
  <2>1. a \in answers /\ a.id = s.calls[c].id
    BY <1>1
  <2>2. f[c] = [s.calls[c] EXCEPT !.got = a]
    BY <1>1
  <2>3. s.calls[c] \in HttpCallTypes
    BY DEF States
  <2> HIDE DEF a, f
  <2>4. f[c] \in HttpCallTypes /\ GotOf(f[c], s.calls[c], a)
    BY <2>1, <2>2, <2>3 DEF GotOf, HttpCallTypes
  <2> QED BY <1>1, <2>1, <2>4
<1>2. ASSUME NEW c \in Callers, ~takes(c)
      PROVE  f[c] = s.calls[c]
  BY <1>2
<1>3. /\ Http!Delivers(s, answers).calls = f
      /\ Http!Delivers(s, answers).pending = s.pending \ {a.id : a \in answers}
      /\ Http!Delivers(s, answers).asked = s.asked \ answers
      /\ Http!Delivers(s, answers) =
           [calls |-> f, pending |-> s.pending \ {a.id : a \in answers}, asked |-> s.asked \ answers]
  BY DEF Http!Delivers
<1>4. f \in [Callers -> HttpCallTypes]
  <2>1. \A c \in Callers : f[c] \in HttpCallTypes
    BY <1>1, <1>2 DEF States
  <2> QED BY <2>1
<1> HIDE DEF f
<1>5. Http!Delivers(s, answers) \in States
  BY <1>3, <1>4 DEF States
<1> QED BY <1>1, <1>2, <1>3, <1>5

\* connect's except ends the call or closes, and takes the connection down.
LEMMA FailsHandshakeIs ==
  ASSUME NEW s \in States, NEW c \in Callers, NEW how \in {"failed", "broken"},
         Http!FailsHandshake(s, c, how)
  PROVE  /\ connected' = FALSE /\ client' = FALSE /\ pending' = s.pending /\ asked' = s.asked
         /\ \E p \in {"closing", "done"} : calls' = Over(s.calls, c, p, how)
<1>1. CASE client
  <2>2. Http!Set(Http!Phase(Ended(s, c, how), c, "closing"))
    BY <1>1 DEF Http!FailsHandshake, Ended
  <2>3. /\ calls' = Phased(Ended(s, c, how).calls, c, "closing")
        /\ pending' = s.pending /\ asked' = s.asked
    BY <2>2, EndIs, PhaseIs DEF Http!Set
  <2>4. calls' = Over(s.calls, c, "closing", how)
    BY <2>3, EndIs, PhasedIs DEF States
  <2> QED BY <2>3, <2>4 DEF Http!FailsHandshake
<1>2. CASE ~client
  <2>1. Http!Set(Http!Ends(s, c, how))
    BY <1>2 DEF Http!FailsHandshake
  <2>2. /\ calls' = Over(s.calls, c, "done", how)
        /\ pending' = s.pending /\ asked' = s.asked
    BY <2>1, EndsIs DEF Http!Set
  <2> QED BY <2>2 DEF Http!FailsHandshake
<1> QED BY <1>1, <1>2

\* Whatever way a request fails, its call is over or closes.
LEMMA FailsIs ==
  ASSUME NEW s \in States, NEW c \in Callers, NEW how \in {"failed", "broken"},
         Http!Fails(s, c, how)
  PROVE  /\ (connected' = FALSE /\ client' = FALSE) \/ (connected' = connected /\ client' = client)
         /\ pending' = s.pending /\ asked' = s.asked
         /\ \E p \in {"closing", "done"} : calls' = Over(s.calls, c, p, how)
<1>1. CASE s.calls[c].phase \in {"call", "waiting", "telling"}
  <2>1. Http!Set(Http!Ends(s, c, how)) /\ connected' = connected /\ client' = client
    BY <1>1 DEF Http!Fails
  <2>2. /\ calls' = Over(s.calls, c, "done", how)
        /\ pending' = s.pending /\ asked' = s.asked
    BY <2>1, EndsIs DEF Http!Set
  <2> QED BY <2>1, <2>2
<1>2. CASE s.calls[c].phase \notin {"call", "waiting", "telling"}
  <2>1. Http!FailsHandshake(s, c, how)
    BY <1>2 DEF Http!Fails
  <2> QED BY <2>1, FailsHandshakeIs
<1> QED BY <1>1, <1>2

(***************************************************************************)
(* The steps                                                               *)
(***************************************************************************)
\* A call that is over keeps the invariant if it cleans up or was cut off.
LEMMA HttpOver ==
  ASSUME HttpSound, NEW c \in Callers, NEW p \in {"closing", "done"},
         NEW how \in {"failed", "broken", "cancelled"},
         calls[c].phase \notin {"idle", "done"}, 
         (how = "cancelled" /\ p = "done") \/ (how # "cancelled" /\ calls[c].phase # "closing"),
         calls' = Over(calls, c, p, how),
         \/ pending' = pending \ {calls[c].id}
         \/ (pending' = pending /\ (~Http!Awaits(calls[c]) \/ how # "failed")),
         asked' = asked, UNCHANGED <<sessionId, nextId, epoch, sweeping, pooled, registered, life>>,
         (connected' = FALSE /\ client' = FALSE) \/ (connected' = connected /\ client' = client)
  PROVE  HttpSound' /\ Rest
<1> USE McpAssumption, ServersAssumption DEF HttpSound
<1>0. calls \in [Callers -> HttpCallTypes]
  BY DEF Http!TypeOK, HttpCallTypes
<1>4. how \in {"ok", "failed", "broken", "cancelled"}
  OBVIOUS
<1> HIDE DEF HttpSound
<1>1. calls' \in [Callers -> HttpCallTypes]
  BY <1>0, <1>4, OverIs
<1> USE DEF HttpSound
<1>2. Settled
  BY DEF Settled, Http!TypeOK
<1>3. ASSUME NEW d \in Callers PROVE Later(d)
  <2>0. /\ \A e \in Callers \ {c} : calls'[e] = calls[e]
        /\ calls'[c].phase = p /\ calls'[c].end = how
        /\ calls'[c].id = calls[c].id /\ calls'[c].got = calls[c].got
        /\ calls'[c].connects = calls[c].connects /\ calls'[c].header = calls[c].header
    BY <1>0, <1>4, OverIs
  <2>1. CASE d = c
    BY <2>0, <2>1 DEF Later, Handed, Proceeds, Listed, Http!Awaits, Http!TypeOK
  <2>2. CASE d # c
    BY <2>0, <2>2
       DEF Later, Handed, Proceeds, Listed, Http!Awaits, Http!TypeOK, Unique, Http!PendingIsAwaited
  <2> QED BY <2>1, <2>2
<1> QED BY <1>1, <1>2, <1>3, HttpLater

\* A POST that fails.
LEMMA HttpPostFails ==
  ASSUME HttpSound, NEW c \in Callers, Http!PostFails(c)
  PROVE  HttpSound' /\ Rest
<1> DEFINE s == Http!Abandons(Http!State, c)
<1>1. s \in States /\ s.calls = calls /\ s.pending = pending \ {calls[c].id} /\ s.asked = asked
  BY StateIs, AbandonsIs
<1>2. /\ Http!Fails(s, c, "failed")
      /\ UNCHANGED <<sessionId, nextId, epoch, sweeping, pooled, registered, life>>
  BY DEF Http!PostFails, Http!manager
<1> HIDE DEF s
<1>3. PICK p \in {"closing", "done"} : calls' = Over(calls, c, p, "failed")
  BY <1>1, <1>2, FailsIs
<1>4. /\ (connected' = FALSE /\ client' = FALSE) \/ (connected' = connected /\ client' = client)
      /\ pending' = pending \ {calls[c].id} /\ asked' = asked
  BY <1>1, <1>2, FailsIs
<1>5. calls[c].phase \notin {"idle", "done", "closing"}
  BY DEF Http!PostFails, Http!Asking
<1> QED BY <1>2, <1>3, <1>4, <1>5, HttpOver

\* A body that is no object.
LEMMA HttpPostBreaks ==
  ASSUME HttpSound, NEW c \in Callers, Http!PostBreaks(c)
  PROVE  HttpSound' /\ Rest
<1>1. /\ Http!Fails(Http!State, c, "broken")
      /\ UNCHANGED <<sessionId, nextId, epoch, sweeping, pooled, registered, life>>
  BY DEF Http!PostBreaks, Http!manager
<1>2. /\ (connected' = FALSE /\ client' = FALSE) \/ (connected' = connected /\ client' = client)
      /\ pending' = pending /\ asked' = asked
      /\ \E p \in {"closing", "done"} : calls' = Over(calls, c, p, "broken")
  BY <1>1, StateIs, FailsIs
<1>3. PICK p \in {"closing", "done"} : calls' = Over(calls, c, p, "broken")
  BY <1>2
<1>4. calls[c].phase \notin {"idle", "done", "closing"}
  BY DEF Http!PostBreaks, Http!Asking
<1> QED BY <1>1, <1>2, <1>3, <1>4, HttpOver

\* The server was told of a timeout.
LEMMA HttpTold ==
  ASSUME HttpSound, NEW c \in Callers, Http!Told(c)
  PROVE  HttpSound' /\ Rest
<1>1. /\ Http!Fails(Http!State, c, "failed")
      /\ UNCHANGED <<sessionId, nextId, epoch, sweeping, pooled, registered, life>>
  BY DEF Http!Told, Http!manager
<1>2. /\ (connected' = FALSE /\ client' = FALSE) \/ (connected' = connected /\ client' = client)
      /\ pending' = pending /\ asked' = asked
      /\ \E p \in {"closing", "done"} : calls' = Over(calls, c, p, "failed")
  BY <1>1, StateIs, FailsIs
<1>3. PICK p \in {"closing", "done"} : calls' = Over(calls, c, p, "failed")
  BY <1>2
<1>4. calls[c].phase \notin {"idle", "done", "closing"} /\ ~Http!Awaits(calls[c])
  BY DEF Http!Told, Http!Awaits
<1> QED BY <1>1, <1>2, <1>3, <1>4, HttpOver

\* initialized is refused.
LEMMA HttpInitializedFails ==
  ASSUME HttpSound, NEW c \in Callers, Http!InitializedFails(c)
  PROVE  HttpSound' /\ Rest
<1>1. /\ Http!FailsHandshake(Http!State, c, "failed")
      /\ UNCHANGED <<sessionId, nextId, epoch, sweeping, pooled, registered, life>>
  BY DEF Http!InitializedFails, Http!manager
<1>2. /\ (connected' = FALSE /\ client' = FALSE) \/ (connected' = connected /\ client' = client)
      /\ pending' = pending /\ asked' = asked
      /\ \E p \in {"closing", "done"} : calls' = Over(calls, c, p, "failed")
  BY <1>1, StateIs, FailsHandshakeIs
<1>3. PICK p \in {"closing", "done"} : calls' = Over(calls, c, p, "failed")
  BY <1>2
<1>4. calls[c].phase \notin {"idle", "done", "closing"} /\ ~Http!Awaits(calls[c])
  BY DEF Http!InitializedFails, Http!Awaits
<1> QED BY <1>1, <1>2, <1>3, <1>4, HttpOver

\* A cancellation ends the call and leaves at most its id behind.
LEMMA CancelsIs ==
  ASSUME HttpSound, NEW c \in Callers
  PROVE  /\ Http!Cancels(Http!State, c) \in States
         /\ Http!Cancels(Http!State, c).calls = Over(calls, c, "done", "cancelled")
         /\ Http!Cancels(Http!State, c).pending \in {pending, pending \ {calls[c].id}}
         /\ Http!Cancels(Http!State, c).asked = asked
<1> DEFINE s == IF calls[c].phase \in {"shaking", "waiting"} THEN Http!Abandons(Http!State, c) ELSE Http!State
<1>1. /\ s \in States /\ s.calls = calls /\ s.pending \in {pending, pending \ {calls[c].id}} /\ s.asked = asked
  BY StateIs, AbandonsIs
<1>2. Http!Cancels(Http!State, c) = Http!Ends(s, c, "cancelled")
  BY StateIs DEF Http!Cancels
<1> HIDE DEF s
<1>3. /\ Http!Ends(s, c, "cancelled") \in States
      /\ Http!Ends(s, c, "cancelled").calls = Over(s.calls, c, "done", "cancelled")
      /\ Http!Ends(s, c, "cancelled").pending = s.pending /\ Http!Ends(s, c, "cancelled").asked = s.asked
  BY <1>1, EndsIs
<1> QED BY <1>1, <1>2, <1>3

\* A cancellation.
LEMMA HttpCallCancelled ==
  ASSUME HttpSound, NEW c \in Callers, Http!CallCancelled(c)
  PROVE  HttpSound' /\ Rest
<1>1. /\ Http!Set(Http!Cancels(Http!State, c))
      /\ UNCHANGED <<connected, client, sessionId, nextId, epoch, sweeping, pooled, registered, life>>
  BY DEF Http!CallCancelled, Http!manager
<1>2. /\ calls' = Over(calls, c, "done", "cancelled")
      /\ pending' \in {pending, pending \ {calls[c].id}} /\ asked' = asked
  BY <1>1, CancelsIs DEF Http!Set
<1>3. calls[c].phase \notin {"idle", "done"}
  BY DEF Http!CallCancelled
<1>4. pending' = pending \/ pending' = pending \ {calls[c].id}
  BY <1>2
<1> QED BY <1>1, <1>2, <1>3, <1>4, HttpOver

\* A timeout.
LEMMA HttpTimesOut ==
  ASSUME HttpSound, NEW c \in Callers, Http!TimesOut(c)
  PROVE  HttpSound' /\ Rest
<1> DEFINE s == Http!Abandons(Http!State, c)
<1>1. s \in States /\ s.calls = calls /\ s.pending = pending \ {calls[c].id} /\ s.asked = asked
  BY StateIs, AbandonsIs
<1>2. UNCHANGED <<sessionId, nextId, epoch, sweeping, pooled, registered, life>>
  BY DEF Http!TimesOut, Http!manager
<1>3. CASE client
  <2>1. /\ Http!Set(Http!Phase(s, c, IF calls[c].phase = "waiting" THEN "telling" ELSE "tellinit"))
        /\ UNCHANGED <<connected, client>>
    BY <1>3 DEF Http!TimesOut
  <2> HIDE DEF s
  <2>2. calls' = [calls EXCEPT ![c].phase = IF calls[c].phase = "waiting" THEN "telling" ELSE "tellinit"]
        /\ pending' = pending \ {calls[c].id} /\ asked' = asked
    BY <1>1, <2>1, PhaseIs DEF Http!Set, Phased
  <2>3. calls' \in [Callers -> HttpCallTypes]
    BY <2>2 DEF HttpSound, Http!TypeOK, HttpCallTypes, Http!TimesOut
  <2>4. Settled
    BY <1>2, <2>1, <2>2 DEF Settled, HttpSound, Http!TypeOK
  <2>5. ASSUME NEW d \in Callers PROVE Later(d)
    <3>1. CASE d = c
      BY <2>2, <3>1, <1>2
         DEF Later, Handed, Proceeds, Listed, Http!Awaits, HttpSound, Http!TypeOK, Http!TimesOut
    <3>2. CASE d # c
      BY <2>2, <3>2, <1>2
         DEF Later, Handed, Proceeds, Listed, Http!Awaits, HttpSound, Http!TypeOK, Unique,
             Http!PendingIsAwaited
    <3> QED BY <3>1, <3>2
  <2> QED BY <2>3, <2>4, <2>5, HttpLater
<1>4. CASE ~client
  <2>1. Http!Fails(s, c, "failed")
    BY <1>4 DEF Http!TimesOut
  <2> HIDE DEF s
  <2>2. PICK p \in {"closing", "done"} : calls' = Over(calls, c, p, "failed")
    BY <1>1, <2>1, FailsIs
  <2>3. /\ (connected' = FALSE /\ client' = FALSE) \/ (connected' = connected /\ client' = client)
        /\ pending' = pending \ {calls[c].id} /\ asked' = asked
    BY <1>1, <2>1, FailsIs
  <2>4. calls[c].phase \notin {"idle", "done", "closing"}
    BY DEF Http!TimesOut
  <2> QED BY <1>2, <2>2, <2>3, <2>4, HttpOver
<1> QED BY <1>3, <1>4

\* The idle sweep.
LEMMA HttpSweep ==
  ASSUME HttpSound, Http!Sweep
  PROVE  HttpSound' /\ Rest
<1> USE DEF HttpSound
<1>1. /\ calls' = [c \in Callers |->
              IF Http!Awaits(calls[c]) /\ calls[c].id \in pending
              THEN [calls[c] EXCEPT !.got = Lost] ELSE calls[c]]
      /\ pending' = {} /\ asked' = asked
  <2>1. Http!Set(Http!FailsAll(Http!State))
    BY DEF Http!Sweep
  <2> QED BY <2>1, StateIs, FailsAllIs DEF Http!Set
<1>2. calls' \in [Callers -> HttpCallTypes]
  BY <1>1 DEF Http!TypeOK, HttpCallTypes
<1>3. Settled
  BY <1>1 DEF Settled, Http!TypeOK, Http!Sweep
<1>4. ASSUME NEW c \in Callers PROVE Later(c)
  BY <1>1, McpAssumption
     DEF Later, Handed, Proceeds, Listed, Http!Awaits, Http!TypeOK, Http!Sweep,
         Http!PendingIsAwaited
<1> QED BY <1>2, <1>3, <1>4, HttpLater

\* The exit.
LEMMA HttpQuit ==
  ASSUME HttpSound, Http!Quit
  PROVE  HttpSound' /\ Rest
<1> USE McpAssumption DEF HttpSound
<1> DEFINE s == IF calls[Boot].phase \in {"idle", "done"} THEN Http!State ELSE Http!Cancels(Http!State, Boot)
           over == calls[Boot].phase \notin {"idle", "done"}
<1>1. /\ s \in States /\ s.asked = asked
      /\ s.pending \in {pending, pending \ {calls[Boot].id}}
      /\ ~over => s.pending = pending
      /\ s.calls = IF over THEN Over(calls, Boot, "done", "cancelled") ELSE calls
  BY StateIs, CancelsIs
<1>2. Http!Set(IF pooled THEN Http!FailsAll(s) ELSE s)
  BY DEF Http!Quit
<1> HIDE DEF s
<1>3. /\ asked' = asked
      /\ pending' = IF pooled THEN {} ELSE s.pending
      /\ \A c \in Callers : calls'[c] = IF pooled /\ Http!Awaits(s.calls[c]) /\ s.calls[c].id \in s.pending
              THEN [s.calls[c] EXCEPT !.got = Lost] ELSE s.calls[c]
      /\ calls' \in [Callers -> HttpCallTypes]
  <2>1. CASE pooled
    <3>1. /\ calls' = [c \in Callers |->
              IF Http!Awaits(s.calls[c]) /\ s.calls[c].id \in s.pending
              THEN [s.calls[c] EXCEPT !.got = Lost] ELSE s.calls[c]]
          /\ pending' = {} /\ asked' = asked
      BY <1>1, <1>2, <2>1, FailsAllIs DEF Http!Set
    <3>2. calls' \in [Callers -> HttpCallTypes]
      <4>1. s.calls \in [Callers -> HttpCallTypes]
        BY <1>1 DEF States
      <4>2. \A c \in Callers : [s.calls[c] EXCEPT !.got = Lost] \in HttpCallTypes
        BY <4>1 DEF HttpCallTypes
      <4> QED BY <3>1, <4>1, <4>2
    <3> QED BY <2>1, <3>1, <3>2
  <2>2. CASE ~pooled
    BY <1>1, <1>2, <2>2 DEF Http!Set, States
  <2> QED BY <2>1, <2>2 DEF Http!TypeOK
<1>4. Settled
  <2>1. pending' \subseteq pending
    BY <1>1, <1>3
  <2>2. /\ connected' \in BOOLEAN /\ client' = connected'
        /\ sweeping' \in BOOLEAN /\ pooled' \in BOOLEAN /\ registered' \in BOOLEAN
        /\ life' \in {"up", "closed"}
        /\ sessionId' = sessionId /\ nextId' = nextId /\ epoch' = epoch
    BY DEF Http!TypeOK, Http!Quit
  <2> QED BY <1>3, <2>1, <2>2 DEF Settled
<1>5. ASSUME NEW c \in Callers PROVE Later(c)
  <2>1. CASE c = Boot /\ over
    <3>1. calls'[c].phase = "done" /\ calls'[c].end = "cancelled" /\ calls'[c].got = calls[c].got
          /\ calls'[c].id = calls[c].id /\ calls'[c].connects = calls[c].connects /\ calls'[c].header = calls[c].header
      <4>1. calls[c] \in HttpCallTypes
        BY DEF Http!TypeOK, HttpCallTypes
      <4>2. s.calls[c] = [calls[c] EXCEPT !.phase = "done", !.end = "cancelled"]
        BY <1>1, <2>1 DEF Http!TypeOK, Over
      <4>3. calls'[c] = s.calls[c]
        BY <1>3, <4>1, <4>2 DEF Http!Awaits, HttpCallTypes
      <4> QED BY <4>1, <4>2, <4>3 DEF HttpCallTypes
    <3> QED BY <2>1, <3>1 DEF Later, Handed, Proceeds, Listed, Http!Awaits
  <2>2. CASE ~(c = Boot /\ over)
    <3>1. s.calls[c] = calls[c]
      BY <1>1, <2>2 DEF Http!TypeOK, Over
    <3>2. Http!Awaits(calls[c]) => calls[c].id \in s.pending
      BY <1>1, <2>2 DEF Http!PendingIsAwaited, Unique, Http!Awaits, Http!TypeOK
    <3> QED BY <1>3, <3>1, <3>2
       DEF Later, Handed, Proceeds, Listed, Http!Awaits, Http!TypeOK, Http!Quit,
           Http!PendingIsAwaited
  <2> QED BY <2>1, <2>2
<1> QED BY <1>3, <1>4, <1>5, HttpLater

\* The answers that came with a POST are with those who wait for them.
Gets(s) ==
  /\ s \in States /\ s.pending \subseteq pending /\ s.asked \subseteq asked
  /\ \A c \in Callers :
       /\ s.calls[c].phase = calls[c].phase /\ s.calls[c].id = calls[c].id
       /\ s.calls[c].header = calls[c].header /\ s.calls[c].connects = calls[c].connects
       /\ s.calls[c].end = calls[c].end
       /\ \/ s.calls[c].got = calls[c].got /\ (Http!Awaits(calls[c]) => calls[c].id \in s.pending)
          \/ /\ Http!Awaits(calls[c]) /\ calls[c].id \in pending \ s.pending
             /\ s.calls[c].got \in asked /\ s.calls[c].got.id = calls[c].id
       /\ ~Http!Awaits(calls[c]) => s.calls[c] = calls[c]

\* Nobody is handed anything.
LEMMA GetsState ==
  ASSUME HttpSound
  PROVE  Gets(Http!State)
BY StateIs DEF Gets, HttpSound, Http!PendingIsAwaited

\* The answers in a body reach who waits for them.
LEMMA GetsDelivered ==
  ASSUME HttpSound, NEW answers \in SUBSET asked
  PROVE  Gets(Http!Delivers(Http!State, answers))
<1> DEFINE s == Http!Delivers(Http!State, answers)
<1> USE DEF HttpSound
<1>1. answers \in SUBSET Http!Requests
  BY DEF Http!TypeOK
<1>2. /\ s \in States /\ s.pending = pending \ {a.id : a \in answers} /\ s.asked = asked \ answers
      /\ \A c \in Callers :
           \/ /\ s.calls[c] = calls[c]
              /\ ~ \E a \in answers : a.id = calls[c].id /\ a.id \in pending /\ Http!Awaits(calls[c])
           \/ \E a \in answers : a.id = calls[c].id /\ a.id \in pending /\ Http!Awaits(calls[c])
                 /\ GotOf(s.calls[c], calls[c], a)
  BY <1>1, StateIs, DeliversIs
<1> HIDE DEF s
<1>3. ASSUME NEW c \in Callers
      PROVE  /\ s.calls[c].phase = calls[c].phase /\ s.calls[c].id = calls[c].id
             /\ s.calls[c].header = calls[c].header /\ s.calls[c].connects = calls[c].connects
             /\ s.calls[c].end = calls[c].end
             /\ \/ s.calls[c].got = calls[c].got /\ (Http!Awaits(calls[c]) => calls[c].id \in s.pending)
                \/ /\ Http!Awaits(calls[c]) /\ calls[c].id \in pending \ s.pending
                   /\ s.calls[c].got \in asked /\ s.calls[c].got.id = calls[c].id
             /\ ~Http!Awaits(calls[c]) => s.calls[c] = calls[c]
  <2>0. Http!Awaits(calls[c]) => calls[c].id \in pending
    BY DEF Http!PendingIsAwaited
  <2>1. CASE /\ s.calls[c] = calls[c]
             /\ ~ \E a \in answers : a.id = calls[c].id /\ a.id \in pending /\ Http!Awaits(calls[c])
    BY <1>2, <2>0, <2>1
  <2>2. CASE \E a \in answers : a.id = calls[c].id /\ a.id \in pending /\ Http!Awaits(calls[c])
                 /\ GotOf(s.calls[c], calls[c], a)
    <3>1. PICK a \in answers : a.id = calls[c].id /\ a.id \in pending /\ Http!Awaits(calls[c])
                 /\ GotOf(s.calls[c], calls[c], a)
      BY <2>2
    <3> QED BY <1>2, <3>1 DEF GotOf
  <2> QED BY <1>2, <2>1, <2>2
<1>4. Gets(s)
  BY <1>2, <1>3 DEF Gets
<1> QED BY <1>4 DEF s

\* What becomes of the caller whose POST came back.
Onward(new, s, c) ==
  /\ new \in HttpCallTypes
  /\ new.id = calls[c].id /\ new.got = s.calls[c].got /\ new.connects = calls[c].connects
  /\ new.header \in {calls[c].header, sessionId'}
  /\ \/ /\ new.phase \in {"closing", "done"} /\ new.end \in {"failed", "broken"}
        /\ \/ pending' = s.pending \ {calls[c].id}
           \/ pending' = s.pending /\ (s.calls[c].got # Nothing \/ new.end = "broken")
     \/ /\ calls[c].phase \in {"call", "waiting"} /\ new.phase = "done" /\ new.end = "ok"
        /\ new.got \notin {Lost, Nothing} /\ pending' = s.pending
     \/ /\ new.got = Nothing /\ new.end = calls[c].end /\ pending' = s.pending
        /\ \/ calls[c].phase = "call" /\ new.phase = "waiting"
           \/ calls[c].phase = "initialize" /\ new.phase = "shaking"
     \/ /\ calls[c].phase \in {"initialize", "shaking"} /\ new.phase = "initialized"
        /\ new.end = calls[c].end /\ new.got \notin {Lost, Nothing} /\ pending' = s.pending

\* The caller whose POST came back goes on, the others have what they got.
LEMMA HttpOnward ==
  ASSUME HttpSound, NEW s, Gets(s), NEW c \in Callers,
         calls[c].phase \in {"initialize", "shaking", "call", "waiting"},
         \A d \in Callers \ {c} : calls'[d] = s.calls[d], Onward(calls'[c], s, c),
         calls' = [d \in Callers |-> calls'[d]],
         asked' = s.asked, UNCHANGED <<nextId, epoch, sweeping, pooled, life>>,
         sessionId' \in {sessionId, epoch}, registered' \in BOOLEAN,
         (connected' = FALSE /\ client' = FALSE) \/ (connected' = connected /\ client' = client)
  PROVE  HttpSound' /\ Rest
<1> USE McpAssumption, ServersAssumption DEF HttpSound
<1>0. Nothing \notin asked
  BY DEF Http!TypeOK, Http!Requests, Requests
<1>1. calls' \in [Callers -> HttpCallTypes]
  <2>1. \A d \in Callers : calls'[d] \in HttpCallTypes
    BY DEF Gets, States, Onward
  <2> QED BY <2>1
<1>2. Settled
  <2>1. pending' \subseteq pending /\ asked' \subseteq asked
    BY DEF Gets, Onward
  <2> QED BY <2>1 DEF Settled, Http!TypeOK
<1>3. ASSUME NEW d \in Callers PROVE Later(d)
  <2>1. CASE d = c
    <3>1. Handed(c)
      BY DEF Gets, Onward, Handed
    <3>2. Proceeds(c)
      BY DEF Gets, Onward, Proceeds
    <3>3. Listed(c)
      BY <1>0 DEF Gets, Onward, Listed, Http!Awaits
    <3> QED BY <2>1, <3>1, <3>2, <3>3 DEF Later, Onward
  <2>2. CASE d # c
    <3>1. Handed(d)
      BY <2>2 DEF Gets, Handed
    <3>2. Proceeds(d)
      BY <2>2 DEF Gets, Proceeds
    <3>3. Listed(d)
      <4>1. Http!Awaits(calls[d]) => calls[d].id # calls[c].id
        BY <2>2 DEF Unique, Http!PendingIsAwaited, Http!TypeOK
      <4>2. pending' = s.pending \/ pending' = s.pending \ {calls[c].id}
        BY DEF Onward
      <4>3. calls'[d] = s.calls[d]
        BY <2>2
      <4>4. Http!Awaits(calls'[d]) => Http!Awaits(calls[d]) /\ calls[d].id \in s.pending
        BY <1>0, <4>3 DEF Gets, Http!Awaits
      <4>5. Http!Awaits(calls[d]) /\ ~Http!Awaits(calls'[d]) => calls[d].id \notin s.pending
        BY <4>3 DEF Gets, Http!Awaits, Http!TypeOK
      <4> QED BY <4>1, <4>2, <4>3, <4>4, <4>5 DEF Listed
    <3> QED BY <2>2, <3>1, <3>2, <3>3 DEF Later, Gets, Http!Awaits
  <2> QED BY <2>1, <2>2
<1> QED BY <1>1, <1>2, <1>3, HttpLater

\* ... and its call is over.
LEMMA HttpOverOnward ==
  ASSUME HttpSound, NEW s, Gets(s), NEW c \in Callers, NEW p \in {"closing", "done"},
         NEW how \in {"failed", "broken", "ok"},
         calls[c].phase \in {"initialize", "shaking", "call", "waiting"},
         calls' = Over(s.calls, c, p, how),
         \/ how # "ok" /\ pending' = s.pending \ {calls[c].id}
         \/ how # "ok" /\ pending' = s.pending /\ (s.calls[c].got # Nothing \/ how = "broken")
         \/ /\ how = "ok" /\ p = "done" /\ calls[c].phase \in {"call", "waiting"}
            /\ s.calls[c].got \notin {Lost, Nothing} /\ pending' = s.pending,
         asked' = s.asked, UNCHANGED <<nextId, epoch, sweeping, pooled, life>>,
         sessionId' \in {sessionId, epoch}, registered' \in BOOLEAN,
         (connected' = FALSE /\ client' = FALSE) \/ (connected' = connected /\ client' = client)
  PROVE  HttpSound' /\ Rest
<1>1. s.calls \in [Callers -> HttpCallTypes] /\ how \in {"ok", "failed", "broken", "cancelled"}
  BY DEF Gets, States
<1>2. /\ calls' \in [Callers -> HttpCallTypes]
      /\ \A d \in Callers \ {c} : calls'[d] = s.calls[d]
      /\ calls'[c].phase = p /\ calls'[c].end = how
      /\ calls'[c].id = s.calls[c].id /\ calls'[c].got = s.calls[c].got
      /\ calls'[c].connects = s.calls[c].connects /\ calls'[c].header = s.calls[c].header
  BY <1>1, OverIs
<1>3. Onward(calls'[c], s, c)
  BY <1>2 DEF Onward, Gets
<1>4. calls' = [d \in Callers |-> calls'[d]]
  BY <1>2
<1> QED BY <1>2, <1>3, <1>4, HttpOnward

\* ... or failed.
LEMMA HttpFailsOnward ==
  ASSUME HttpSound, NEW s, Gets(s), NEW c \in Callers, NEW t \in States,
         NEW how \in {"failed", "broken"},
         calls[c].phase \in {"initialize", "shaking", "call", "waiting"},
         t.calls = s.calls, t.asked = s.asked,
         \/ t.pending = s.pending \ {calls[c].id}
         \/ t.pending = s.pending /\ (s.calls[c].got # Nothing \/ how = "broken"),
         Http!Fails(t, c, how) \/ (Http!FailsHandshake(t, c, how)),
         UNCHANGED <<nextId, epoch, sweeping, pooled, life, registered>>,
         sessionId' \in {sessionId, epoch}
  PROVE  HttpSound' /\ Rest
<1>1. /\ (connected' = FALSE /\ client' = FALSE) \/ (connected' = connected /\ client' = client)
      /\ pending' = t.pending /\ asked' = t.asked
      /\ \E p \in {"closing", "done"} : calls' = Over(t.calls, c, p, how)
  BY FailsIs, FailsHandshakeIs
<1>2. PICK p \in {"closing", "done"} : calls' = Over(s.calls, c, p, how)
  BY <1>1
<1>3. registered' \in BOOLEAN
  BY DEF HttpSound, Http!TypeOK
<1>4. \/ how # "ok" /\ pending' = s.pending \ {calls[c].id}
      \/ how # "ok" /\ pending' = s.pending /\ (s.calls[c].got # Nothing \/ how = "broken")
  BY <1>1
<1> QED BY <1>1, <1>2, <1>3, <1>4, HttpOverOnward

\* The caller that sends initialized.
ToldInit(s, c, h) == [s EXCEPT !.calls[c].phase = "initialized", !.calls[c].header = h]

Headed(f, c, h) == [f EXCEPT ![c].phase = "initialized", ![c].header = h]

\* The caller that sends initialized, field by field.
LEMMA ToldInitIs ==
  ASSUME NEW s \in States, NEW c \in Callers, NEW h
  PROVE  /\ ToldInit(s, c, h).calls = Headed(s.calls, c, h)
         /\ ToldInit(s, c, h).pending = s.pending /\ ToldInit(s, c, h).asked = s.asked
BY DEF ToldInit, Headed, States

\* It keeps what it has, and its POST carries the session id of that moment.
LEMMA HeadedIs ==
  ASSUME NEW f \in [Callers -> HttpCallTypes], NEW c \in Callers, NEW h \in 0..epoch
  PROVE  /\ Headed(f, c, h) \in [Callers -> HttpCallTypes]
         /\ \A d \in Callers \ {c} : Headed(f, c, h)[d] = f[d]
         /\ Headed(f, c, h)[c].phase = "initialized" /\ Headed(f, c, h)[c].end = f[c].end
         /\ Headed(f, c, h)[c].id = f[c].id /\ Headed(f, c, h)[c].got = f[c].got
         /\ Headed(f, c, h)[c].connects = f[c].connects /\ Headed(f, c, h)[c].header = h
<1>1. f[c] \in HttpCallTypes
  OBVIOUS
<1>2. [f[c] EXCEPT !.phase = "initialized", !.header = h] \in HttpCallTypes
  BY <1>1 DEF HttpCallTypes
<1>3. Headed(f, c, h) = [f EXCEPT ![c] = [f[c] EXCEPT !.phase = "initialized", !.header = h]]
  BY <1>1 DEF Headed, HttpCallTypes
<1> QED BY <1>1, <1>2, <1>3 DEF HttpCallTypes

\* An answer or the loss of the connection is acted upon.
LEMMA HttpAnswered ==
  ASSUME HttpSound, NEW s, Gets(s), NEW c \in Callers,
         calls[c].phase \in {"initialize", "shaking", "call", "waiting"}, s.calls[c].got # Nothing,
         Http!Answered(s, c), UNCHANGED <<epoch, sweeping, pooled, life>>,
         sessionId' \in {sessionId, epoch}
  PROVE  HttpSound' /\ Rest
<1>0. s \in States /\ s.calls[c].phase = calls[c].phase
  BY DEF Gets
<1>a. UNCHANGED <<nextId, epoch, sweeping, pooled, life>>
  BY DEF Http!Answered
<1>1. CASE calls[c].phase \in {"call", "waiting"}
  <2> DEFINE how == IF s.calls[c].got # Lost THEN "ok" ELSE "failed"
  <2>1. /\ Http!Set(Http!Ends(s, c, how)) /\ connected' = connected /\ client' = client
        /\ registered' = (registered \/ (c = Boot /\ s.calls[c].got # Lost))
    BY <1>0, <1>1 DEF Http!Answered
  <2>2. how \in {"failed", "broken", "ok"} /\ (how = "ok" => s.calls[c].got # Lost)
    OBVIOUS
  <2> HIDE DEF how
  <2>3. calls' = Over(s.calls, c, "done", how) /\ pending' = s.pending /\ asked' = s.asked
    BY <1>0, <2>1, EndsIs DEF Http!Set
  <2>4. registered' \in BOOLEAN
    BY <2>1 DEF HttpSound, Http!TypeOK
  <2>5. \/ how # "ok" /\ pending' = s.pending /\ (s.calls[c].got # Nothing \/ how = "broken")
        \/ /\ how = "ok" /\ calls[c].phase \in {"call", "waiting"}
           /\ s.calls[c].got \notin {Lost, Nothing} /\ pending' = s.pending
    BY <1>1, <2>2, <2>3
  <2> QED BY <1>a, <2>1, <2>2, <2>3, <2>4, <2>5, HttpOverOnward
<1>2. CASE calls[c].phase \in {"initialize", "shaking"}
  <2>1. \/ /\ s.calls[c].got # Lost /\ connected' = connected /\ client' = client
           /\ Http!Set(ToldInit(s, c, sessionId')) /\ registered' = registered
        \/ Http!FailsHandshake(s, c, "failed") /\ registered' = registered
    BY <1>0, <1>2 DEF Http!Answered, ToldInit
  <2>2. CASE /\ s.calls[c].got # Lost /\ connected' = connected /\ client' = client
             /\ Http!Set(ToldInit(s, c, sessionId')) /\ registered' = registered
    <3>1. calls' = Headed(s.calls, c, sessionId') /\ pending' = s.pending /\ asked' = s.asked
      BY <1>0, <2>2, ToldInitIs DEF Http!Set
    <3>2. s.calls \in [Callers -> HttpCallTypes] /\ sessionId' \in 0..epoch
      BY <1>0 DEF States, HttpSound, Http!TypeOK
    <3>3. /\ calls' \in [Callers -> HttpCallTypes]
          /\ \A d \in Callers \ {c} : calls'[d] = s.calls[d]
          /\ calls'[c].phase = "initialized" /\ calls'[c].end = s.calls[c].end
          /\ calls'[c].id = s.calls[c].id /\ calls'[c].got = s.calls[c].got
          /\ calls'[c].connects = s.calls[c].connects /\ calls'[c].header = sessionId'
      BY <3>1, <3>2, HeadedIs
    <3>4. Onward(calls'[c], s, c)
      BY <1>2, <2>2, <3>1, <3>3 DEF Onward, Gets
    <3>5. calls' = [d \in Callers |-> calls'[d]]
      BY <3>3
    <3>6. registered' \in BOOLEAN
      BY <2>2 DEF HttpSound, Http!TypeOK
    <3> QED BY <1>a, <2>2, <3>1, <3>3, <3>4, <3>5, <3>6, HttpOnward
  <2>3. CASE Http!FailsHandshake(s, c, "failed") /\ registered' = registered
    <3>1. UNCHANGED <<nextId, epoch, sweeping, pooled, life, registered>>
      BY <1>a, <2>3
    <3> QED BY <1>0, <2>3, <3>1, HttpFailsOnward
  <2> QED BY <2>1, <2>2, <2>3
<1> QED BY <1>1, <1>2

\* A caller with its next connection.
Marks(s, c, passed) == [s EXCEPT !.calls[c].connects = passed]

\* ... field by field.
LEMMA MarksIs ==
  ASSUME NEW s \in States, NEW c \in Callers, NEW passed \in 0..3
  PROVE  /\ Marks(s, c, passed) \in States
         /\ Marks(s, c, passed).pending = s.pending /\ Marks(s, c, passed).asked = s.asked
         /\ \A d \in Callers \ {c} : Marks(s, c, passed).calls[d] = s.calls[d]
         /\ Marks(s, c, passed).calls[c].connects = passed
         /\ Marks(s, c, passed).calls[c].end = s.calls[c].end
<1> DEFINE rec == [s.calls[c] EXCEPT !.connects = passed]
           f == [s.calls EXCEPT ![c] = rec]
<1>1. s.calls \in [Callers -> HttpCallTypes] /\ s.calls[c] \in HttpCallTypes
  BY DEF States
<1>2. rec \in HttpCallTypes /\ rec.connects = passed /\ rec.end = s.calls[c].end
  BY <1>1 DEF HttpCallTypes
<1>3. Marks(s, c, passed).calls = [s.calls EXCEPT ![c].connects = passed]
  BY DEF Marks, States
<1>4. [s.calls EXCEPT ![c].connects = passed] = f
  BY <1>1
<1>5. /\ Marks(s, c, passed).pending = s.pending /\ Marks(s, c, passed).asked = s.asked
  BY DEF Marks, States
<1>6. Marks(s, c, passed) = [calls |-> [s.calls EXCEPT ![c].connects = passed],
                             pending |-> s.pending, asked |-> s.asked]
  BY DEF Marks, States
<1> HIDE DEF rec
<1>7. f \in [Callers -> HttpCallTypes] /\ f[c] = rec /\ \A d \in Callers \ {c} : f[d] = s.calls[d]
  BY <1>1, <1>2
<1> HIDE DEF f
<1>8. [calls |-> f, pending |-> s.pending, asked |-> s.asked] \in States
  BY <1>7 DEF States
<1>9. Marks(s, c, passed) \in States
  BY <1>4, <1>6, <1>8
<1> QED BY <1>2, <1>3, <1>4, <1>5, <1>7, <1>9

\* The POST of a request, field by field.
LEMMA PostsIs ==
  ASSUME HttpSound, NEW t \in States, NEW c \in Callers, NEW what \in {"initialize", "call"},
         nextId' = nextId + 1, epoch' = epoch, Http!Set(Http!Posts(t, c, what))
  PROVE  /\ calls' \in [Callers -> HttpCallTypes']
         /\ \A d \in Callers \ {c} : calls'[d] = t.calls[d]
         /\ calls'[c].phase = what /\ calls'[c].id = nextId /\ calls'[c].got = Nothing
         /\ calls'[c].connects = t.calls[c].connects /\ calls'[c].end = t.calls[c].end
         /\ pending' = t.pending \cup {nextId}
         /\ asked' \in {t.asked, t.asked \cup {[id |-> nextId, by |-> c, what |-> what]}}
<1> DEFINE new == [t.calls[c] EXCEPT !.phase = what, !.id = nextId, !.got = Nothing,
                                     !.header = sessionId]
<1>1. nextId \in Nat \ {0} /\ sessionId \in 0..epoch
  BY DEF HttpSound, Http!TypeOK
<1>2. t.calls \in [Callers -> HttpCallTypes] /\ t.calls[c] \in HttpCallTypes
  BY DEF States
<1>3. /\ calls' = [t.calls EXCEPT ![c].phase = what, ![c].id = nextId,
                                  ![c].got = Nothing, ![c].header = sessionId]
      /\ pending' = t.pending \cup {nextId}
      /\ asked' \in {t.asked, t.asked \cup {[id |-> nextId, by |-> c, what |-> what]}}
  BY DEF Http!Set, Http!Posts
<1>4. calls' = [t.calls EXCEPT ![c] = new]
  BY <1>2, <1>3
<1>5. /\ new \in HttpCallTypes'
      /\ new.phase = what /\ new.id = nextId /\ new.got = Nothing
      /\ new.connects = t.calls[c].connects /\ new.end = t.calls[c].end
  <2>1. nextId \in 0..(nextId' - 1) /\ \A i \in 0..(nextId - 1) : i \in 0..(nextId' - 1)
    BY ONLY <1>1, nextId' = nextId + 1
  <2>2. what \in {"idle", "initialize", "shaking", "tellinit", "initialized",
                  "call", "waiting", "telling", "closing", "done"}
    OBVIOUS
  <2> QED BY <1>1, <1>2, <2>1, <2>2 DEF HttpCallTypes, Http!Requests
<1>6. \A rec \in HttpCallTypes : rec \in HttpCallTypes'
  BY <1>1 DEF HttpCallTypes, Http!Requests
<1> HIDE DEF new
<1>7. calls' \in [Callers -> HttpCallTypes'] /\ calls'[c] = new
  BY <1>2, <1>4, <1>5, <1>6
<1>8. \A d \in Callers \ {c} : calls'[d] = t.calls[d]
  BY <1>2, <1>4
<1> QED BY <1>3, <1>5, <1>7, <1>8

\* A caller that goes on takes a new id, and the others have what they got.
LEMMA HttpAsks ==
  ASSUME HttpSound, NEW s, Gets(s), NEW c \in Callers, NEW what \in {"initialize", "call"},
         calls[c].phase \notin {"closing", "done"}, s.calls[c].got # Nothing,
         calls' \in [Callers -> HttpCallTypes'], \A d \in Callers \ {c} : calls'[d] = s.calls[d],
         calls'[c].phase = what, calls'[c].id = nextId, calls'[c].got = Nothing,
         calls'[c].connects <= Ensures(c), calls'[c].end = s.calls[c].end,
         pending' = s.pending \cup {nextId},
         asked' \in {s.asked, s.asked \cup {[id |-> nextId, by |-> c, what |-> what]}},
         nextId' = nextId + 1, connected' \in BOOLEAN, client' = connected',
         sessionId' = sessionId, registered' = registered,
         UNCHANGED <<epoch, sweeping, pooled, life>>
  PROVE  HttpSound' /\ \A d \in Callers \ {c} : calls[d].phase \in {"idle", "done"} => calls'[d] = calls[d]
<1>0. /\ Http!TypeOK /\ Http!PendingIsAwaited /\ Http!AnswerIsMine /\ Unique /\ HttpOwned /\ HttpPhases
  BY DEF HttpSound
<1>1. /\ nextId \in Nat \ {0} /\ \A d \in Callers : calls[d].id \in 0..(nextId - 1)
      /\ \A d \in Callers : calls'[d].id = IF d = c THEN nextId ELSE calls[d].id
  BY <1>0 DEF Http!TypeOK, Gets
<1>2. \A d \in Callers \ {c} :
        /\ calls'[d].phase = calls[d].phase /\ calls'[d].connects = calls[d].connects
        /\ calls'[d].end = calls[d].end
        /\ \/ calls'[d].got = calls[d].got /\ (Http!Awaits(calls[d]) => calls[d].id \in s.pending)
           \/ /\ Http!Awaits(calls[d]) /\ calls[d].id \in pending \ s.pending
              /\ calls'[d].got \in asked /\ calls'[d].got.id = calls[d].id
        /\ ~Http!Awaits(calls[d]) => calls'[d] = calls[d]
  BY DEF Gets
<1>3. calls'[c].end = Nothing
  BY <1>0 DEF Gets, HttpPhases
<1>4. Http!Awaits(calls[c]) => calls[c].id \notin s.pending
  BY DEF Gets, Http!Awaits
<1>5. /\ s.pending \subseteq pending /\ s.asked \subseteq asked
      /\ asked \subseteq Http!Requests /\ Nothing \notin asked /\ Lost \notin asked
      /\ Nothing \notin Http!Requests
  BY <1>0, McpAssumption DEF Gets, Http!TypeOK, Http!Requests, Requests
<1>6. \A a \in asked' :
        \/ a \in asked
        \/ /\ a \in Http!Requests /\ a.id = nextId /\ a.by = c /\ a.what = what
  BY <1>1, <1>5 DEF Http!Requests
<1>7. Http!Awaits(calls'[c])
  BY DEF Http!Awaits
<1>8. \A d \in Callers \ {c} : Http!Awaits(calls'[d]) => Http!Awaits(calls[d]) /\ calls[d].id \in s.pending
  BY <1>2, <1>5 DEF Http!Awaits
<1>9. Http!TypeOK'
  <2>1. pending' \subseteq 1..(nextId' - 1)
    <3>1. pending \subseteq 1..(nextId - 1)
      BY <1>0 DEF Http!TypeOK
    <3> QED BY <1>1, <1>5, <3>1
  <2>2. asked' \subseteq Http!Requests
    BY <1>5, <1>6
  <2>3. /\ nextId' \in Nat \ {0} /\ connected' \in BOOLEAN /\ client' = connected'
        /\ epoch' \in 1..MaxEpochs /\ sessionId' \in 0..epoch'
        /\ sweeping' \in BOOLEAN /\ pooled' \in BOOLEAN /\ registered' \in BOOLEAN
        /\ life' \in {"up", "closed"}
    BY <1>0, <1>1 DEF Http!TypeOK
  <2> QED BY <2>1, <2>2, <2>3 DEF Http!TypeOK, HttpCallTypes
<1>10. Http!PendingIsAwaited'
  <2>1. \A d \in Callers : Http!Awaits(calls'[d]) => calls'[d].id \in pending'
    BY <1>1, <1>8
  <2>2. ASSUME NEW i \in pending'
        PROVE  \E d \in Callers :
          calls'[d].id = i /\ (Http!Awaits(calls'[d]) \/ calls'[d].end \in {"cancelled", "broken"})
    <3>1. CASE i = nextId
      BY <1>1, <1>7, <3>1
    <3>2. CASE i \in s.pending
      <4>1. PICK d \in Callers :
              calls[d].id = i /\ (Http!Awaits(calls[d]) \/ calls[d].end \in {"cancelled", "broken"})
        BY <1>0, <1>5, <3>2 DEF Http!PendingIsAwaited
      <4>2. d # c
        <5>1. calls[c].end = Nothing
          BY <1>0 DEF HttpPhases
        <5>2. Nothing \notin {"cancelled", "broken"}
          BY ServersAssumption
        <5> QED BY <1>4, <3>2, <4>1, <5>1, <5>2
      <4>3. calls'[d].id = i /\ calls'[d].end = calls[d].end
        BY <1>1, <1>2, <4>1, <4>2
      <4>4. Http!Awaits(calls[d]) => Http!Awaits(calls'[d])
        BY <1>2, <3>2, <4>1, <4>2 DEF Http!Awaits
      <4> QED BY <4>1, <4>3, <4>4
    <3> QED BY <3>1, <3>2
  <2> QED BY <2>1, <2>2 DEF Http!PendingIsAwaited, Http!Awaits
<1>11. Http!AnswerIsMine' /\ HttpPhases'
  <2>1. ASSUME NEW d \in Callers, calls'[d].got \in Http!Requests
        PROVE  /\ calls'[d].got.by = d /\ calls'[d].got.id = calls'[d].id
               /\ calls'[d].phase \in {"initialize", "shaking", "initialized"} =>
                    calls'[d].got.what = "initialize"
               /\ calls'[d].end = "ok" => calls'[d].got.what = "call"
               /\ calls'[d].phase \in {"call", "waiting"} => calls'[d].got.what = "call"
    <3>1. d # c
      BY <1>5, <2>1
    <3>2. CASE calls'[d].got = calls[d].got
      <4>1. calls[d].got \in Http!Requests /\ Http!Requests = Requests
        BY <2>1, <3>2 DEF Http!Requests, Requests
      <4> QED BY <1>0, <1>1, <1>2, <3>1, <3>2, <4>1 DEF Http!AnswerIsMine, HttpPhases
    <3>3. CASE Http!Awaits(calls[d]) /\ calls'[d].got \in asked /\ calls'[d].got.id = calls[d].id
      <4>1. /\ calls'[d].got.by = d
            /\ calls'[d].got.what =
                 IF calls[d].phase \in {"initialize", "shaking"} THEN "initialize" ELSE "call"
        BY <1>0, <3>3 DEF HttpOwned
      <4>2. calls[d].phase \in {"initialize", "shaking", "call", "waiting"} /\ calls[d].end # "ok"
        BY <1>0, <3>3 DEF Http!Awaits, HttpPhases
      <4> QED BY <1>1, <1>2, <3>1, <3>3, <4>1, <4>2
    <3> QED BY <1>2, <3>1, <3>2, <3>3
  <2>2. Http!Requests = Requests
    BY DEF Http!Requests, Requests
  <2>3. Http!AnswerIsMine'
    BY <2>1 DEF Http!AnswerIsMine, Http!Requests
  <2>4. ASSUME NEW d \in Callers
        PROVE  /\ calls'[d].connects <= Ensures(d)
               /\ calls'[d].phase = "idle" => calls'[d] = Http!Fresh
               /\ calls'[d].end # Nothing => calls'[d].phase \in {"closing", "done"}
               /\ calls'[d].end = "ok" => calls'[d].phase = "done"
    <3>1. CASE d = c
      <4>1. Nothing # "ok"
        BY ServersAssumption
      <4> QED BY <1>3, <3>1, <4>1
    <3>2. CASE d # c
      <4>1. calls[d].phase = "idle" => ~Http!Awaits(calls[d])
        BY DEF Http!Awaits
      <4> QED BY <1>0, <1>2, <3>2, <4>1 DEF HttpPhases
    <3> QED BY <3>1, <3>2
  <2>5. HttpPhases'
    BY <2>1, <2>2, <2>4 DEF HttpPhases, Ensures, Http!Fresh, Requests
  <2> QED BY <2>3, <2>5
<1>12. Unique'
  <2>1. \A d, e \in Callers : d # e /\ calls[d].id # 0 => calls[d].id # calls[e].id
    BY <1>0 DEF Unique
  <2>2. \A d, e \in Callers : d # e /\ calls'[d].id # 0 => calls'[d].id # calls'[e].id
    BY <1>1, <2>1
  <2> QED BY <2>2 DEF Unique
<1>13. HttpOwned'
  <2> SUFFICES ASSUME NEW a \in asked'
               PROVE  /\ a.id < nextId'
                      /\ \A d \in Callers : calls'[d].id = a.id =>
                           /\ a.by = d
                           /\ Http!Awaits(calls'[d]) =>
                                a.what = IF calls'[d].phase \in {"initialize", "shaking"}
                                         THEN "initialize" ELSE "call"
    BY DEF HttpOwned, Http!Awaits
  <2>1. CASE a \in asked
    <3>1. a.id < nextId /\ a.id \in Nat
      BY <1>0, <1>5, <2>1 DEF HttpOwned, Http!Requests
    <3>2. \A d \in Callers : calls'[d].id = a.id => d # c /\ calls[d].id = a.id
      BY <1>1, <3>1
    <3> QED BY <1>0, <1>1, <1>2, <1>8, <2>1, <3>1, <3>2 DEF HttpOwned
  <2>2. CASE a \notin asked
    <3>1. a.id = nextId /\ a.by = c /\ a.what = what
      BY <1>6, <2>2
    <3>2. \A d \in Callers : calls'[d].id = nextId => d = c
      BY <1>1
    <3> QED BY <1>1, <3>1, <3>2
  <2> QED BY <2>1, <2>2
<1>14. ASSUME NEW d \in Callers \ {c}, calls[d].phase \in {"idle", "done"}
       PROVE  calls'[d] = calls[d]
  <2>1. ~Http!Awaits(calls[d])
    BY <1>14 DEF Http!Awaits
  <2> QED BY <1>2, <2>1
<1> QED BY <1>9, <1>10, <1>11, <1>12, <1>13, <1>14 DEF HttpSound

\* A page of tools/list names a next one: whoever got an answer keeps it, and the
\* next request has an id of its own.
LEMMA HttpNextPage ==
  ASSUME HttpSound, NEW s, Gets(s), NEW c \in Callers, s.calls[c].got # Nothing,
         Http!NextPage(s, c), UNCHANGED <<sessionId, epoch, sweeping, pooled, life>>
  PROVE  HttpSound' /\ Rest
<1>0. /\ s \in States /\ calls[c].phase \in {"call", "waiting"} /\ registered' = registered
      /\ connected \in BOOLEAN /\ client = connected /\ Http!Ensures(c) = Ensures(c)
      /\ Ensures(c) \in 0..3 /\ calls[c].connects <= Ensures(c)
      /\ s.calls[c].connects = calls[c].connects
  BY DEF Gets, Http!NextPage, HttpSound, Http!TypeOK, HttpPhases, Http!Ensures, Ensures
<1>1. PICK t \in States, what \in {"initialize", "call"} :
        /\ Http!Set(Http!Posts(t, c, what)) /\ nextId' = nextId + 1
        /\ connected' \in BOOLEAN /\ client' = connected'
        /\ t.pending = s.pending /\ t.asked = s.asked
        /\ \A d \in Callers \ {c} : t.calls[d] = s.calls[d]
        /\ t.calls[c].connects <= Ensures(c) /\ t.calls[c].end = s.calls[c].end
  <2>1. CASE connected
    <3>1. /\ Http!Set(Http!Posts(s, c, "call")) /\ nextId' = nextId + 1
          /\ connected' = connected /\ client' = client
      BY <1>0, <2>1 DEF Http!NextPage, Http!Calls
    <3> QED BY <1>0, <3>1
  <2>2. CASE ~connected
    <3> DEFINE t == Marks(s, c, Ensures(c))
    <3>1. /\ Http!Set(Http!Posts(t, c, "initialize")) /\ nextId' = nextId + 1
          /\ connected' = TRUE /\ client' = TRUE
      BY <1>0, <2>2 DEF Http!NextPage, Http!Connects, Marks
    <3>2. /\ t \in States /\ t.pending = s.pending /\ t.asked = s.asked
          /\ \A d \in Callers \ {c} : t.calls[d] = s.calls[d]
          /\ t.calls[c].connects = Ensures(c) /\ t.calls[c].end = s.calls[c].end
      BY <1>0, MarksIs
    <3> HIDE DEF t
    <3>3. t.calls[c].connects <= Ensures(c)
      BY <1>0, <3>2
    <3> QED BY <3>1, <3>2, <3>3
  <2> QED BY <2>1, <2>2
<1>2. epoch' = epoch /\ sessionId' = sessionId /\ UNCHANGED <<epoch, sweeping, pooled, life>>
  OBVIOUS
<1>3. /\ calls' \in [Callers -> HttpCallTypes']
      /\ \A d \in Callers \ {c} : calls'[d] = t.calls[d]
      /\ calls'[c].phase = what /\ calls'[c].id = nextId /\ calls'[c].got = Nothing
      /\ calls'[c].connects = t.calls[c].connects /\ calls'[c].end = t.calls[c].end
      /\ pending' = t.pending \cup {nextId}
      /\ asked' \in {t.asked, t.asked \cup {[id |-> nextId, by |-> c, what |-> what]}}
  BY <1>1, <1>2, PostsIs
<1>4. /\ \A d \in Callers \ {c} : calls'[d] = s.calls[d]
      /\ calls'[c].connects <= Ensures(c) /\ calls'[c].end = s.calls[c].end
      /\ pending' = s.pending \cup {nextId}
      /\ asked' \in {s.asked, s.asked \cup {[id |-> nextId, by |-> c, what |-> what]}}
  BY <1>1, <1>3
<1>5. calls[c].phase \notin {"closing", "done"}
  BY <1>0
<1>6. HttpSound' /\ \A d \in Callers \ {c} : calls[d].phase \in {"idle", "done"} => calls'[d] = calls[d]
  BY <1>0, <1>1, <1>2, <1>3, <1>4, <1>5, HttpAsks
<1> QED BY <1>0, <1>6 DEF Rest

\* An answer that came with another POST.
LEMMA HttpResumes ==
  ASSUME HttpSound, NEW c \in Callers, Http!Resumes(c)
  PROVE  HttpSound' /\ Rest
<1>1. /\ calls[c].phase \in {"shaking", "waiting"} /\ calls[c].got # Nothing
      /\ sessionId' = sessionId
      /\ Http!Answered(Http!State, c) \/ Http!NextPage(Http!State, c)
      /\ UNCHANGED <<epoch, sweeping, pooled, life>>
  BY DEF Http!Resumes
<1> QED BY <1>1, StateIs, GetsState, HttpAnswered, HttpNextPage

\* send() has returned.
LEMMA HttpSent ==
  ASSUME HttpSound, NEW s, Gets(s), NEW c \in Callers, calls[c].phase \in {"initialize", "call"},
         Http!Sent(s, c), UNCHANGED <<epoch, sweeping, pooled, life>>,
         sessionId' \in {sessionId, epoch}, calls[c].phase = "call" => sessionId' = sessionId
  PROVE  HttpSound' /\ Rest
<1>0. s \in States /\ s.calls[c].phase = calls[c].phase
  BY DEF Gets
<1>1. CASE s.calls[c].got # Nothing
  <2>1. CASE Http!Answered(s, c)
    BY <1>1, <2>1, HttpAnswered
  <2>2. CASE Http!NextPage(s, c)
    <3>1. sessionId' = sessionId
      BY <1>0, <2>2 DEF Http!NextPage
    <3> QED BY <1>1, <2>2, <3>1, HttpNextPage
  <2> QED BY <1>1, <2>1, <2>2 DEF Http!Sent
<1>2. CASE s.calls[c].got = Nothing
  <2> DEFINE p == IF s.calls[c].phase = "call" THEN "waiting" ELSE "shaking"
  <2>1. Http!Set(Http!Phase(s, c, p)) /\ UNCHANGED <<connected, client, nextId, registered>>
    BY <1>2 DEF Http!Sent
  <2>2. calls' = Phased(s.calls, c, p) /\ pending' = s.pending /\ asked' = s.asked
    BY <1>0, <2>1, PhaseIs DEF Http!Set
  <2>3. s.calls \in [Callers -> HttpCallTypes]
    BY <1>0 DEF States
  <2>4. /\ calls' \in [Callers -> HttpCallTypes]
        /\ \A d \in Callers \ {c} : calls'[d] = s.calls[d]
        /\ calls'[c].phase = p /\ calls'[c].end = s.calls[c].end
        /\ calls'[c].id = s.calls[c].id /\ calls'[c].got = s.calls[c].got
        /\ calls'[c].connects = s.calls[c].connects /\ calls'[c].header = s.calls[c].header
    BY <2>2, <2>3 DEF Phased, HttpCallTypes
  <2>5. Onward(calls'[c], s, c)
    BY <1>0, <1>2, <2>2, <2>4 DEF Onward, Gets
  <2>6. calls' = [d \in Callers |-> calls'[d]]
    BY <2>4
  <2>7. registered' \in BOOLEAN
    BY <2>1 DEF HttpSound, Http!TypeOK
  <2> QED BY <2>1, <2>2, <2>4, <2>5, <2>6, <2>7, HttpOnward
<1> QED BY <1>1, <1>2

\* A body with answers.
LEMMA HttpPostAnswered ==
  ASSUME HttpSound, NEW c \in Callers, Http!PostAnswered(c)
  PROVE  HttpSound' /\ Rest
<1>1. /\ calls[c].phase \in {"initialize", "call"} /\ sessionId' \in {sessionId, epoch}
      /\ calls[c].phase = "call" => sessionId' = sessionId
      /\ UNCHANGED <<epoch, sweeping, pooled, life>>
  BY DEF Http!PostAnswered, Http!Asking
<1>2. PICK answers \in SUBSET {a \in asked : a.by = c \/ a.what = "call"} :
        \/ Http!Sent(Http!Delivers(Http!State, answers), c)
        \/ /\ Http!Fails(Http!Abandons(Http!Delivers(Http!State, answers), c), c, "failed")
           /\ UNCHANGED <<nextId, registered>>
  BY DEF Http!PostAnswered
<1> DEFINE s == Http!Delivers(Http!State, answers)
<1>3. Gets(s)
  <2>1. answers \in SUBSET asked
    OBVIOUS
  <2> QED BY <2>1, GetsDelivered
<1> HIDE DEF s
<1>4. CASE Http!Sent(s, c)
  BY <1>1, <1>3, <1>4, HttpSent
<1>5. CASE Http!Fails(Http!Abandons(s, c), c, "failed") /\ UNCHANGED <<nextId, registered>>
  <2> DEFINE u == Http!Abandons(s, c)
  <2>1. u \in States /\ u.calls = s.calls /\ u.asked = s.asked /\ u.pending = s.pending \ {calls[c].id}
    <3>1. s \in States /\ s.calls[c].id = calls[c].id
      BY <1>3 DEF Gets
    <3> QED BY <3>1, AbandonsIs
  <2>2. /\ Http!Fails(u, c, "failed")
        /\ UNCHANGED <<nextId, epoch, sweeping, pooled, life, registered>>
    BY <1>1, <1>5
  <2> HIDE DEF u
  <2> QED BY <1>1, <1>3, <2>1, <2>2, HttpFailsOnward
<1> QED BY <1>2, <1>4, <1>5 DEF s

\* initialized is accepted and the next request goes out.
LEMMA HttpInitialized ==
  ASSUME HttpSound, NEW c \in Callers, Http!Initialized(c)
  PROVE  HttpSound' /\ Rest
<1> USE McpAssumption, ServersAssumption
    DEF HttpSound, Http!State, Http!Set, Http!Phase, Http!Ends, Http!manager,
        Http!Initialized, Http!Calls, Http!Connects, Http!Posts, Http!Ensures
<1>1. Http!TypeOK'
  BY DEF Http!TypeOK, HttpPhases, Ensures, Http!Fresh, Http!Requests
<1>2. Http!PendingIsAwaited'
  BY DEF Http!PendingIsAwaited, Http!Awaits, Http!TypeOK, Unique, HttpPhases
<1>3. Http!AnswerIsMine'
  BY DEF Http!AnswerIsMine, Http!Awaits, HttpOwned, HttpPhases, Http!TypeOK, Http!Requests
<1>4. Unique'
  BY DEF Unique, Http!TypeOK
<1>5. HttpOwned'
  BY DEF HttpOwned, Http!Awaits, Http!TypeOK, Http!Requests
<1>6. HttpPhases'
  BY
     DEF HttpPhases, HttpOwned, Http!Awaits, Ensures, Http!Fresh, Http!TypeOK, Http!Requests,
         Requests
<1>7. Rest
  BY DEF Rest, Http!Awaits, Http!TypeOK
<1> QED BY <1>1, <1>2, <1>3, <1>4, <1>5, <1>6, <1>7

\* aclose returns.
LEMMA HttpCloseEnds ==
  ASSUME HttpSound, NEW c \in Callers, Http!CloseEnds(c)
  PROVE  HttpSound' /\ Rest
<1> USE McpAssumption, ServersAssumption
    DEF HttpSound, Http!State, Http!Set, Http!Phase, Http!Ends, Http!manager,
        Http!CloseEnds
<1>1. Http!TypeOK'
  BY DEF Http!TypeOK, HttpPhases, Ensures, Http!Fresh, Http!Requests
<1>2. Http!PendingIsAwaited'
  BY DEF Http!PendingIsAwaited, Http!Awaits, Http!TypeOK, Unique, HttpPhases
<1>3. Http!AnswerIsMine'
  BY DEF Http!AnswerIsMine, Http!Awaits, HttpOwned, HttpPhases, Http!TypeOK, Http!Requests
<1>4. Unique'
  BY DEF Unique, Http!TypeOK
<1>5. HttpOwned'
  BY DEF HttpOwned, Http!Awaits, Http!TypeOK, Http!Requests
<1>6. HttpPhases'
  BY
     DEF HttpPhases, HttpOwned, Http!Awaits, Ensures, Http!Fresh, Http!TypeOK, Http!Requests,
         Requests
<1>7. Rest
  BY DEF Rest, Http!Awaits, Http!TypeOK
<1> QED BY <1>1, <1>2, <1>3, <1>4, <1>5, <1>6, <1>7

\* The sweep's aclose returns.
LEMMA HttpSweepEnds ==
  ASSUME HttpSound, Http!SweepEnds
  PROVE  HttpSound' /\ Rest
<1> USE McpAssumption, ServersAssumption
    DEF HttpSound, Http!State, Http!Set, Http!Phase, Http!Ends, Http!manager,
        Http!SweepEnds
<1>1. Http!TypeOK'
  BY DEF Http!TypeOK, HttpPhases, Ensures, Http!Fresh, Http!Requests
<1>2. Http!PendingIsAwaited'
  BY DEF Http!PendingIsAwaited, Http!Awaits, Http!TypeOK, Unique, HttpPhases
<1>3. Http!AnswerIsMine'
  BY DEF Http!AnswerIsMine, Http!Awaits, HttpOwned, HttpPhases, Http!TypeOK, Http!Requests
<1>4. Unique'
  BY DEF Unique, Http!TypeOK
<1>5. HttpOwned'
  BY DEF HttpOwned, Http!Awaits, Http!TypeOK, Http!Requests
<1>6. HttpPhases'
  BY
     DEF HttpPhases, HttpOwned, Http!Awaits, Ensures, Http!Fresh, Http!TypeOK, Http!Requests,
         Requests
<1>7. Rest
  BY DEF Rest, Http!Awaits, Http!TypeOK
<1> QED BY <1>1, <1>2, <1>3, <1>4, <1>5, <1>6, <1>7

\* The server restarts.
LEMMA HttpRestarts ==
  ASSUME HttpSound, Http!ServerRestarts
  PROVE  HttpSound' /\ Rest
<1> USE McpAssumption, ServersAssumption
    DEF HttpSound, Http!State, Http!Set, Http!Phase, Http!Ends, Http!manager,
        Http!ServerRestarts
<1>1. Http!TypeOK'
  BY DEF Http!TypeOK, HttpPhases, Ensures, Http!Fresh, Http!Requests
<1>2. Http!PendingIsAwaited'
  BY DEF Http!PendingIsAwaited, Http!Awaits, Http!TypeOK, Unique, HttpPhases
<1>3. Http!AnswerIsMine'
  BY DEF Http!AnswerIsMine, Http!Awaits, HttpOwned, HttpPhases, Http!TypeOK, Http!Requests
<1>4. Unique'
  BY DEF Unique, Http!TypeOK
<1>5. HttpOwned'
  BY DEF HttpOwned, Http!Awaits, Http!TypeOK, Http!Requests
<1>6. HttpPhases'
  BY
     DEF HttpPhases, HttpOwned, Http!Awaits, Ensures, Http!Fresh, Http!TypeOK, Http!Requests,
         Requests
<1>7. Rest
  BY DEF Rest, Http!Awaits, Http!TypeOK
<1> QED BY <1>1, <1>2, <1>3, <1>4, <1>5, <1>6, <1>7

\* A call starts, which concerns nobody else.
LEMMA HttpStarts ==
  ASSUME HttpSound, NEW c \in Callers, Http!CallStarts(c)
  PROVE  HttpSound' /\ \A d \in Callers \ {c} : calls'[d] = calls[d]
<1> USE McpAssumption, ServersAssumption
    DEF HttpSound, Http!State, Http!Set, Http!Phase, Http!Ends, Http!manager,
        Http!CallStarts, Http!Calls, Http!Connects, Http!Posts, Http!Ensures
<1>1. Http!TypeOK'
  BY DEF Http!TypeOK, HttpPhases, Ensures, Http!Fresh, Http!Requests
<1>2. Http!PendingIsAwaited'
  BY DEF Http!PendingIsAwaited, Http!Awaits, Http!TypeOK, Unique, HttpPhases
<1>3. Http!AnswerIsMine'
  BY DEF Http!AnswerIsMine, Http!Awaits, HttpOwned, HttpPhases, Http!TypeOK, Http!Requests
<1>4. Unique'
  BY DEF Unique, Http!TypeOK
<1>5. HttpOwned'
  BY DEF HttpOwned, Http!Awaits, Http!TypeOK, Http!Requests
<1>6. HttpPhases'
  BY
     DEF HttpPhases, HttpOwned, Http!Awaits, Ensures, Http!Fresh, Http!TypeOK, Http!Requests,
         Requests
<1>7. \A d \in Callers \ {c} : calls'[d] = calls[d]
  BY DEF Rest, Http!Awaits, Http!TypeOK
<1> QED BY <1>1, <1>2, <1>3, <1>4, <1>5, <1>6, <1>7

\* Nothing happens to the session.
LEMMA HttpUnchanged ==
  ASSUME HttpSound, UNCHANGED <<vars, httpOnly>>
  PROVE  HttpSound'
BY
   DEF HttpSound, vars, session, transport, manager, httpOnly, Http!TypeOK,
       Http!PendingIsAwaited, Http!AnswerIsMine, Unique,
       HttpOwned, HttpPhases, Http!Awaits, Ensures

\* A call that is denied was never sent.
LEMMA HttpDenied ==
  ASSUME HttpSound, NEW c \in Callers, Denied(c), calls[c].phase = "idle"
  PROVE  HttpSound'
<1> USE McpAssumption, ServersAssumption DEF HttpSound, Denied, transport, manager, httpOnly
<1>1. Http!TypeOK'
  BY DEF Http!TypeOK
<1>2. Http!PendingIsAwaited'
  BY DEF Http!PendingIsAwaited, Http!Awaits, Http!TypeOK
<1>3. Http!AnswerIsMine'
  BY DEF Http!AnswerIsMine, HttpPhases, Http!Fresh, Http!TypeOK, Http!Requests
<1>4. Unique'
  BY DEF Unique, Http!TypeOK
<1>5. HttpOwned'
  BY DEF HttpOwned, Http!Awaits, Http!TypeOK
<1>6. HttpPhases'
  BY DEF HttpPhases, Ensures, Http!Fresh, Http!TypeOK, Requests, Http!Requests
<1> QED BY <1>1, <1>2, <1>3, <1>4, <1>5, <1>6

\* Every step of the session over POSTs keeps its invariant, and leaves alone who
\* has not begun or is through.
LEMMA HttpSteps ==
  ASSUME HttpSound
  PROVE  /\ \A c \in Callers :
              Http!Step(c) \/ Http!CallCancelled(c) \/ Http!PostEnds(c) => HttpSound' /\ Rest
         /\ Http!Sweep \/ Http!SweepEnds \/ Http!Quit \/ Http!ServerRestarts => HttpSound' /\ Rest
<1>1. ASSUME NEW c \in Callers, Http!Step(c) \/ Http!CallCancelled(c)
      PROVE  HttpSound' /\ Rest
  BY <1>1, HttpResumes, HttpTimesOut, HttpCloseEnds, HttpCallCancelled DEF Http!Step
<1>2. ASSUME NEW c \in Callers, Http!PostEnds(c)
      PROVE  HttpSound' /\ Rest
  BY <1>2, HttpPostAnswered, HttpPostFails, HttpPostBreaks, HttpTold, HttpInitialized, HttpInitializedFails
     DEF Http!PostEnds
<1>3. ASSUME Http!Sweep \/ Http!SweepEnds \/ Http!Quit \/ Http!ServerRestarts
      PROVE  HttpSound' /\ Rest
  BY <1>3, HttpSweep, HttpSweepEnds, HttpQuit, HttpRestarts
<1> QED BY <1>1, <1>2, <1>3

-----------------------------------------------------------------------------
(***************************************************************************)
(* Over a process                                                          *)
(***************************************************************************)
\* What a server has read is some caller's, with the id it sent.
Owned ==
  \A a \in asked :
    /\ a.request.id < nextId
    /\ \A c \in Callers : calls[c].id = a.request.id =>
         /\ a.request.by = c
         /\ Awaits(calls[c]) =>
              a.request.what = IF calls[c].phase \in {"initialize", "shaking"} THEN "initialize" ELSE "call"

\* How often a caller may still connect; one that has not begun has nothing, and
\* one that left an id behind is through.
Counts ==
  \A c \in Callers :
    /\ calls[c].connects <= Ensures(c)
    /\ calls[c].phase = "idle" => calls[c] = Fresh
    /\ calls[c].end # Nothing => calls[c].phase = "done"

\* Only a process that was started is waited for, and a caller waits for one.
ClosesStarted ==
  \A p \in Procs :
    /\ procs[p] = "none" => closing[p] = Nothing
    /\ closing[p] \in Callers =>
         calls[closing[p]].phase = "closing" /\ \A q \in Procs : closing[q] = closing[p] => q = p

\* What the callers and the table have to do with each other.
TableSound == PendingIsAwaited /\ AnswerIsMine /\ Unique /\ Owned /\ Counts

\* The invariant of the session over a process.
StdioSound == TypeOK /\ TableSound /\ ClosesStarted

\* What a caller is to the session.
Phases == Asking \cup Telling \cup {"idle", "spawning", "shaking", "waiting", "closing", "done"}
LeftEnds == {Nothing, "cancelled", "broken"}
CallTypes ==
  [phase : Phases, id : 0..(nextId - 1), got : Requests \cup {Nothing, Lost}, connects : 0..3,
   end : LeftEnds]

\* What is not the callers'.
TransportTypes ==
  /\ connected \in BOOLEAN /\ notified \in BOOLEAN
  /\ process \in Procs \cup {Nothing} /\ readerTask \in Procs \cup {Nothing}
  /\ procs \in [Procs -> {"none", "up", "dead"}]
  /\ readers \subseteq {p \in Procs : procs[p] # "none"}
  /\ closing \in [Procs -> Callers \cup {"sweep", "quit", Nothing}]
  /\ pooled \in BOOLEAN /\ registered \in BOOLEAN /\ life \in {"up", "closing", "closed"}
  /\ process # Nothing => procs[process] # "none" /\ closing[process] = Nothing
TableTypes ==
  /\ nextId \in Nat \ {0} /\ pending \subseteq 1..(nextId - 1)
  /\ asked \subseteq [proc : Procs, request : Requests]

\* Who waits for a process to exit.
ClosersWait ==
  \A c \in Callers : calls[c].phase = "closing" => \E p \in Procs : closing[p] = c

\* The types in three parts.
LEMMA TypeParts ==
  TypeOK <=> TransportTypes /\ TableTypes /\ calls \in [Callers -> CallTypes] /\ ClosersWait
BY DEF TypeOK, TransportTypes, TableTypes, CallTypes, Phases, LeftEnds, ClosersWait

\* ... after a step as well.
LEMMA TypePartsNext ==
  TypeOK' <=> TransportTypes' /\ TableTypes' /\ calls' \in [Callers -> CallTypes'] /\ ClosersWait'
BY DEF TypeOK, TransportTypes, TableTypes, CallTypes, Phases, LeftEnds, ClosersWait

(***************************************************************************)
(* Steps that send no request                                              *)
(***************************************************************************)
\* A caller may be handed an answer or the loss of the connection, and drops
\* what it was handed when it is through.
StdHanded(c) ==
  \/ calls'[c].got = calls[c].got
  \/ calls'[c].got = Nothing /\ calls'[c].phase = "done"
  \/ /\ Awaits(calls[c]) /\ calls[c].id \in pending
     /\ \/ calls'[c].got = Lost
        \/ \E a \in asked : calls'[c].got = a.request /\ a.request.id = calls[c].id

\* Where a call goes from where it is.
StdProceeds(c) ==
  \/ calls'[c].phase = calls[c].phase /\ calls'[c].end = calls[c].end
  \/ /\ calls[c].phase \notin {"idle", "done"}
     /\ \/ calls'[c].phase = "done" /\ calls'[c].got = Nothing
        \/ /\ calls'[c].end = calls[c].end
           /\ \/ calls'[c].phase \in {"closing", "telling", "tellinit"}
              \/ calls[c].phase = "initialize" /\ calls'[c].phase = "shaking"
              \/ calls[c].phase = "call" /\ calls'[c].phase = "waiting"
              \/ /\ calls[c].phase = "shaking" /\ calls'[c].phase = "initialized"
                 /\ calls[c].got \notin {Nothing, Lost}

\* Whoever still awaits has its id in the table, and who no longer does has left
\* it there with one of two ends.
StdListed(c) ==
  IF Awaits(calls'[c])
  THEN Awaits(calls[c]) /\ (calls[c].id \in pending => calls[c].id \in pending')
  ELSE Awaits(calls[c]) /\ calls[c].id \in pending' => calls'[c].end \in {"cancelled", "broken"}

\* All of it; who has not begun or is through is left alone.
StdLater(c) ==
  /\ calls'[c].id = calls[c].id /\ calls'[c].connects \in {calls[c].connects, 0}
  /\ StdHanded(c) /\ StdProceeds(c) /\ StdListed(c)
  /\ calls[c].phase \in {"idle", "done"} => calls'[c] = calls[c]

\* What such a step takes away.
StdSettled == nextId' = nextId /\ pending' \subseteq pending /\ asked' \subseteq asked

\* A step in which every caller does what StdLater allows keeps the table.
LEMMA StdLaterKeeps ==
  ASSUME TableTypes, calls \in [Callers -> CallTypes], TableSound,
         calls' \in [Callers -> CallTypes], StdSettled, \A c \in Callers : StdLater(c)
  PROVE  TableTypes' /\ calls' \in [Callers -> CallTypes'] /\ TableSound' /\ Rest
<1> USE McpAssumption, ServersAssumption DEF StdLater, StdHanded, StdProceeds, StdListed, TableSound
<1>0. /\ StdSettled /\ Lost \notin Requests /\ Nothing \notin Requests
      /\ Nothing \notin {"broken", "cancelled"}
  OBVIOUS
<1>1. TableTypes' /\ calls' \in [Callers -> CallTypes']
  BY DEF StdSettled, TableTypes, CallTypes
<1>2. PendingIsAwaited'
  <2>1. \A c \in Callers : Awaits(calls'[c]) => calls'[c].id \in pending'
    BY DEF PendingIsAwaited
  <2>2. ASSUME NEW i \in pending'
        PROVE  \E c \in Callers :
          calls'[c].id = i /\ (Awaits(calls'[c]) \/ calls'[c].end \in {"cancelled", "broken"})
    <3>1. PICK c \in Callers :
            calls[c].id = i /\ (Awaits(calls[c]) \/ calls[c].end \in {"cancelled", "broken"})
      BY DEF StdSettled, PendingIsAwaited
    <3>2. CASE Awaits(calls[c])
      BY <3>1, <3>2
    <3>3. CASE calls[c].end \in {"cancelled", "broken"}
      <4>1. calls[c].phase = "done"
        BY <1>0, <3>3 DEF Counts
      <4>2. calls'[c] = calls[c]
        BY <4>1
      <4> QED BY <3>1, <3>3, <4>2
    <3> QED BY <3>1, <3>2, <3>3
  <2> QED BY <2>1, <2>2 DEF PendingIsAwaited, Awaits
<1>3. AnswerIsMine'
  <2> SUFFICES ASSUME NEW c \in Callers, calls'[c].got \in Requests
               PROVE  /\ calls'[c].got.by = c /\ calls'[c].got.id = calls'[c].id
                      /\ calls'[c].phase \in {"initialize", "shaking", "initialized"} =>
                           calls'[c].got.what = "initialize"
                      /\ calls'[c].phase \in {"call", "waiting"} => calls'[c].got.what = "call"
    BY DEF AnswerIsMine, Requests
  <2>1. CASE calls'[c].got = calls[c].got
    BY <1>0, <2>1 DEF AnswerIsMine
  <2>2. CASE Awaits(calls[c]) /\ \E a \in asked : calls'[c].got = a.request /\ a.request.id = calls[c].id
    <3>1. PICK a \in asked : calls'[c].got = a.request /\ a.request.id = calls[c].id
      BY <2>2
    <3>2. /\ a.request.by = c
          /\ a.request.what = IF calls[c].phase \in {"initialize", "shaking"} THEN "initialize" ELSE "call"
      BY <2>2, <3>1 DEF Owned
    <3>3. calls'[c].phase \in {"initialize", "shaking", "initialized"} =>
            calls[c].phase \in {"initialize", "shaking"}
      BY <1>0, <2>2 DEF Awaits, Asking
    <3>4. calls'[c].phase \in {"call", "waiting"} => calls[c].phase \notin {"initialize", "shaking"}
      BY <1>0, <2>2 DEF Awaits, Asking
    <3> QED BY <3>1, <3>2, <3>3, <3>4
  <2>3. CASE calls'[c].got \in {Lost, Nothing}
    BY <1>0, <2>3
  <2> QED BY <2>1, <2>2, <2>3
<1>4. Unique'
  BY DEF Unique
<1>5. Owned'
  <2> SUFFICES ASSUME NEW a \in asked', NEW c \in Callers, calls'[c].id = a.request.id
               PROVE  /\ a.request.by = c
                      /\ Awaits(calls'[c]) =>
                           a.request.what = IF calls'[c].phase \in {"initialize", "shaking"}
                                            THEN "initialize" ELSE "call"
    BY <1>0 DEF StdSettled, Owned, Awaits
  <2>1. a \in asked /\ calls[c].id = a.request.id
    BY <1>0 DEF StdSettled
  <2>2. CASE Awaits(calls'[c])
    <3>1. Awaits(calls[c])
      BY <2>2
    <3>2. calls'[c].phase \in {"initialize", "shaking"} <=> calls[c].phase \in {"initialize", "shaking"}
      BY <2>2, <3>1 DEF Awaits, Asking
    <3> QED BY <2>1, <3>1, <3>2 DEF Owned
  <2> QED BY <2>1, <2>2 DEF Owned
<1>6. Counts'
  <2> SUFFICES ASSUME NEW c \in Callers
               PROVE  /\ calls'[c].connects <= Ensures(c)
                      /\ calls'[c].phase = "idle" => calls'[c] = Fresh
                      /\ calls'[c].end # Nothing => calls'[c].phase = "done"
    BY DEF Counts, Ensures, Fresh
  <2>1. calls'[c].connects <= Ensures(c)
    BY DEF Counts, Ensures
  <2>2. calls'[c].phase = "idle" => calls'[c] = Fresh
    <3>1. calls'[c].phase = "idle" => calls[c].phase = "idle"
      OBVIOUS
    <3> QED BY <3>1 DEF Counts
  <2>3. calls'[c].end # Nothing => calls'[c].phase = "done"
    BY DEF Counts
  <2> QED BY <2>1, <2>2, <2>3
<1>7. Rest
  BY DEF Rest
<1> QED BY <1>1, <1>2, <1>3, <1>4, <1>5, <1>6, <1>7

\* A caller that goes on, field by field.
LEMMA GoesIs ==
  ASSUME calls \in [Callers -> CallTypes], NEW c \in Callers, NEW phase \in Phases
  PROVE  /\ Goes(c, phase) \in [Callers -> CallTypes]
         /\ \A d \in Callers \ {c} : Goes(c, phase)[d] = calls[d]
         /\ Goes(c, phase)[c].phase = phase /\ Goes(c, phase)[c].id = calls[c].id
         /\ Goes(c, phase)[c].got = calls[c].got /\ Goes(c, phase)[c].end = calls[c].end
         /\ Goes(c, phase)[c].connects = calls[c].connects
<1>1. calls[c] \in CallTypes
  OBVIOUS
<1>2. [calls[c] EXCEPT !.phase = phase] \in CallTypes
  BY <1>1 DEF CallTypes
<1>3. Goes(c, phase) = [calls EXCEPT ![c] = [calls[c] EXCEPT !.phase = phase]]
  BY <1>1 DEF Goes, CallTypes
<1> QED BY <1>1, <1>2, <1>3 DEF CallTypes

\* What is left of a call that is over.
LEMMA DoneIs ==
  ASSUME NEW id, NEW end
  PROVE  /\ Done(id, end) = [phase |-> "done", id |-> id, got |-> Nothing, connects |-> 0, end |-> end]
         /\ Done(id, end).phase = "done" /\ Done(id, end).id = id /\ Done(id, end).got = Nothing
         /\ Done(id, end).connects = 0 /\ Done(id, end).end = end
         /\ id \in 0..(nextId - 1) /\ end \in LeftEnds => Done(id, end) \in CallTypes
<1>1. Done(id, end) = [phase |-> "done", id |-> id, got |-> Nothing, connects |-> 0, end |-> end]
  BY DEF Done
<1>2. ASSUME id \in 0..(nextId - 1), end \in LeftEnds PROVE Done(id, end) \in CallTypes
  <2>1. "done" \in Phases
    BY DEF Phases
  <2> QED BY <1>1, <1>2, <2>1 DEF CallTypes
<1>3. /\ Done(id, end).phase = "done" /\ Done(id, end).id = id /\ Done(id, end).got = Nothing
      /\ Done(id, end).connects = 0 /\ Done(id, end).end = end
  BY <1>1
<1> HIDE DEF Done
<1> QED BY ONLY <1>1, <1>2, <1>3

\* A caller whose call is over, field by field.
LEMMA StdEndsIs ==
  ASSUME calls \in [Callers -> CallTypes], NEW c \in Callers, NEW end \in LeftEnds
  PROVE  /\ Ends(c, end) \in [Callers -> CallTypes]
         /\ \A d \in Callers \ {c} : Ends(c, end)[d] = calls[d]
         /\ Ends(c, end)[c].phase = "done" /\ Ends(c, end)[c].id = calls[c].id
         /\ Ends(c, end)[c].got = Nothing /\ Ends(c, end)[c].end = end
         /\ Ends(c, end)[c].connects = 0
<1> DEFINE new == Done(calls[c].id, end)
<1>1. calls[c].id \in 0..(nextId - 1)
  BY DEF CallTypes
<1>2. /\ new.phase = "done" /\ new.id = calls[c].id /\ new.got = Nothing
      /\ new.connects = 0 /\ new.end = end /\ new \in CallTypes
  BY <1>1, DoneIs
<1>3. Ends(c, end) = [calls EXCEPT ![c] = new]
  BY DEF Ends
<1> HIDE DEF new
<1> QED BY <1>2, <1>3

\* One caller moves, the others are left alone.
LEMMA StdOne ==
  ASSUME StdioSound, NEW c \in Callers,
         calls' \in [Callers -> CallTypes], \A d \in Callers \ {c} : calls'[d] = calls[d],
         StdLater(c), pending' \in {pending, pending \ {calls[c].id}},
         asked' = asked, nextId' = nextId
  PROVE  TableTypes' /\ calls' \in [Callers -> CallTypes'] /\ TableSound' /\ Rest
<1>1. TableTypes /\ calls \in [Callers -> CallTypes] /\ TableSound
  BY TypeParts DEF StdioSound
<1>2. StdSettled
  BY DEF StdSettled
<1>3. ASSUME NEW d \in Callers PROVE StdLater(d)
  <2>1. CASE d # c
    <3>1. Awaits(calls[d]) => calls[d].id \in pending
      BY <1>1 DEF TableSound, PendingIsAwaited
    <3>2. Awaits(calls[d]) => calls[d].id # calls[c].id
      BY <1>1, <2>1, <3>1 DEF TableSound, Unique, TableTypes
    <3>3. calls'[d] = calls[d]
      BY <2>1
    <3>4. StdListed(d)
      BY <3>2, <3>3 DEF StdListed
    <3> QED BY <3>3, <3>4 DEF StdLater, StdHanded, StdProceeds
  <2> QED BY <2>1
<1> QED BY <1>1, <1>2, <1>3, StdLaterKeeps

\* ... and no process is concerned.
LEMMA StdMoves ==
  ASSUME StdioSound, NEW c \in Callers,
         calls' \in [Callers -> CallTypes], \A d \in Callers \ {c} : calls'[d] = calls[d],
         StdLater(c), pending' \in {pending, pending \ {calls[c].id}},
         asked' = asked, nextId' = nextId,
         UNCHANGED <<connected, notified, process, readerTask, procs, readers, closing, pooled, life>>,
         registered' \in BOOLEAN, calls[c].phase # "closing", calls'[c].phase # "closing"
  PROVE  StdioSound' /\ Rest
<1>1. TableTypes' /\ calls' \in [Callers -> CallTypes'] /\ TableSound' /\ Rest
  BY StdOne
<1>2. TransportTypes' /\ ClosersWait'
  <2>1. TransportTypes /\ ClosersWait
    BY TypeParts DEF StdioSound
  <2>2. TransportTypes'
    BY <2>1 DEF TransportTypes
  <2>3. \A d \in Callers : calls'[d].phase = "closing" => calls[d].phase = "closing"
    OBVIOUS
  <2>4. closing' = closing
    OBVIOUS
  <2> QED BY <2>1, <2>2, <2>3, <2>4 DEF ClosersWait
<1>3. ClosesStarted'
  <2>1. \A d \in Callers : calls[d].phase = "closing" => calls'[d].phase = "closing"
    OBVIOUS
  <2>2. closing' = closing /\ procs' = procs
    OBVIOUS
  <2> QED BY <2>1, <2>2 DEF StdioSound, ClosesStarted
<1> QED BY <1>1, <1>2, <1>3, TypePartsNext DEF StdioSound

\* A call that is over, and left its id behind or did not.
LEMMA EndsLater ==
  ASSUME StdioSound, NEW c \in Callers, NEW end \in LeftEnds, calls' = Ends(c, end),
         calls[c].phase \notin {"idle", "done"},
         Awaits(calls[c]) /\ calls[c].id \in pending' => end \in {"cancelled", "broken"}
  PROVE  /\ StdLater(c) /\ calls' \in [Callers -> CallTypes]
         /\ \A d \in Callers \ {c} : calls'[d] = calls[d]
         /\ calls'[c].phase = "done"
<1>1. calls \in [Callers -> CallTypes]
  BY TypeParts DEF StdioSound
<1>2. /\ calls' \in [Callers -> CallTypes]
      /\ \A d \in Callers \ {c} : calls'[d] = calls[d]
      /\ calls'[c].phase = "done" /\ calls'[c].id = calls[c].id
      /\ calls'[c].got = Nothing /\ calls'[c].end = end
      /\ calls'[c].connects = 0
  BY <1>1, StdEndsIs
<1>3. StdListed(c)
  BY <1>2 DEF StdListed, Awaits, Asking
<1> QED BY <1>2, <1>3 DEF StdLater, StdHanded, StdProceeds

\* A call that goes on to where StdProceeds allows.
LEMMA GoesLater ==
  ASSUME StdioSound, NEW c \in Callers, NEW phase \in Phases, calls' = Goes(c, phase),
         calls[c].phase \notin {"idle", "done"},
         \/ phase \in {"closing", "telling", "tellinit"}
         \/ calls[c].phase = "initialize" /\ phase = "shaking" /\ pending' = pending
         \/ calls[c].phase = "call" /\ phase = "waiting" /\ pending' = pending
         \/ /\ calls[c].phase = "shaking" /\ phase = "initialized"
            /\ calls[c].got \notin {Nothing, Lost},
         phase \in {"closing", "telling", "tellinit"} /\ Awaits(calls[c]) => calls[c].id \notin pending'
  PROVE  /\ StdLater(c) /\ calls' \in [Callers -> CallTypes]
         /\ \A d \in Callers \ {c} : calls'[d] = calls[d]
         /\ calls'[c].phase = phase
<1>1. calls \in [Callers -> CallTypes]
  BY TypeParts DEF StdioSound
<1>2. /\ calls' \in [Callers -> CallTypes]
      /\ \A d \in Callers \ {c} : calls'[d] = calls[d]
      /\ calls'[c].phase = phase /\ calls'[c].id = calls[c].id
      /\ calls'[c].got = calls[c].got /\ calls'[c].end = calls[c].end
      /\ calls'[c].connects = calls[c].connects
  BY <1>1, GoesIs
<1>3. StdListed(c)
  BY <1>2 DEF StdListed, Awaits, Asking
<1>4. StdProceeds(c)
  BY <1>2 DEF StdProceeds
<1> QED BY <1>2, <1>3, <1>4 DEF StdLater, StdHanded

\* A handshake that failed: whatever process there is by now is closed.
LEMMA FailsHandshakeKeeps ==
  ASSUME StdioSound, NEW c \in Callers, FailHandshake(c),
         calls[c].phase \notin {"idle", "done", "closing"},
         pending' \in {pending, pending \ {calls[c].id}},
         Awaits(calls[c]) => calls[c].id \notin pending',
         UNCHANGED <<notified, readerTask, procs, readers, nextId, asked, pooled, registered, life>>
  PROVE  StdioSound' /\ Rest
<1>a. TransportTypes /\ ClosersWait /\ calls \in [Callers -> CallTypes] /\ ClosesStarted
  BY TypeParts DEF StdioSound
<1>1. CASE process = Nothing
  <2>1. calls' = Ends(c, Nothing) /\ connected' = FALSE /\ process' = Nothing /\ closing' = closing
    BY <1>1 DEF FailHandshake
  <2>2. /\ StdLater(c) /\ calls' \in [Callers -> CallTypes]
        /\ \A d \in Callers \ {c} : calls'[d] = calls[d]
        /\ calls'[c].phase = "done"
    BY <2>1, EndsLater DEF LeftEnds
  <2>3. TableTypes' /\ calls' \in [Callers -> CallTypes'] /\ TableSound' /\ Rest
    BY <2>2, StdOne
  <2>4. TransportTypes'
    BY <1>a, <2>1 DEF TransportTypes
  <2>5. \A d \in Callers : calls'[d].phase = "closing" <=> calls[d].phase = "closing"
    BY <2>2
  <2>6. ClosersWait' /\ ClosesStarted'
    BY <1>a, <2>1, <2>5 DEF ClosersWait, ClosesStarted
  <2> QED BY <2>3, <2>4, <2>6, TypePartsNext DEF StdioSound
<1>2. CASE process # Nothing
  <2>1. /\ calls' = Goes(c, "closing") /\ connected' = FALSE /\ process' = Nothing
        /\ closing' = [closing EXCEPT ![process] = c]
    BY <1>2 DEF FailHandshake
  <2>2. /\ StdLater(c) /\ calls' \in [Callers -> CallTypes]
        /\ \A d \in Callers \ {c} : calls'[d] = calls[d]
        /\ calls'[c].phase = "closing"
    BY <2>1, GoesLater DEF Phases
  <2>3. TableTypes' /\ calls' \in [Callers -> CallTypes'] /\ TableSound' /\ Rest
    BY <2>2, StdOne
  <2>4. process \in Procs /\ closing[process] = Nothing /\ procs[process] # "none"
    BY <1>a, <1>2 DEF TransportTypes
  <2>5. /\ closing' \in [Procs -> Callers \cup {"sweep", "quit", Nothing}]
        /\ closing'[process] = c /\ \A p \in Procs \ {process} : closing'[p] = closing[p]
    BY <1>a, <2>1, <2>4 DEF TransportTypes
  <2>6. TransportTypes'
    BY <1>a, <2>1, <2>5 DEF TransportTypes
  <2>7. ClosersWait'
    <3>1. ASSUME NEW d \in Callers, calls'[d].phase = "closing" PROVE \E p \in Procs : closing'[p] = d
      <4>1. CASE d = c
        BY <2>4, <2>5, <4>1
      <4>2. CASE d # c
        <5>1. PICK p \in Procs : closing[p] = d
          BY <1>a, <2>2, <3>1, <4>2 DEF ClosersWait
        <5>2. p # process
          BY <2>4, <5>1, McpAssumption
        <5> QED BY <2>5, <5>1, <5>2
      <4> QED BY <4>1, <4>2
    <3> QED BY <3>1 DEF ClosersWait
  <2>8. ClosesStarted'
    <3>1. \A p \in Procs \ {process} : closing[p] # c
      BY <1>a DEF ClosesStarted
    <3>2. ASSUME NEW p \in Procs
          PROVE  /\ procs'[p] = "none" => closing'[p] = Nothing
                 /\ closing'[p] \in Callers =>
                      /\ calls'[closing'[p]].phase = "closing"
                      /\ \A q \in Procs : closing'[q] = closing'[p] => q = p
      <4>1. CASE p = process
        BY <2>2, <2>4, <2>5, <3>1, <4>1
      <4>2. CASE p # process
        <5>1. closing'[p] = closing[p] /\ closing[p] # c
          BY <2>5, <3>1, <4>2
        <5>2. procs'[p] = "none" => closing'[p] = Nothing
          BY <1>a, <5>1 DEF ClosesStarted
        <5>3. closing[p] \in Callers => calls'[closing[p]].phase = "closing"
          BY <1>a, <2>2, <5>1 DEF ClosesStarted
        <5>4. ASSUME closing[p] \in Callers, NEW q \in Procs, closing'[q] = closing[p]
              PROVE  q = p
          <6>1. q # process
            BY <2>5, <5>1, <5>4
          <6>2. closing[q] = closing[p]
            BY <2>5, <5>4, <6>1
          <6> QED BY <1>a, <5>4, <6>2 DEF ClosesStarted
        <5> QED BY <5>1, <5>2, <5>3, <5>4
      <4> QED BY <4>1, <4>2
    <3> QED BY <3>2 DEF ClosesStarted
  <2> QED BY <2>3, <2>6, <2>7, <2>8, TypePartsNext DEF StdioSound
<1> QED BY <1>1, <1>2

(***************************************************************************)
(* The steps of callers                                                    *)
(***************************************************************************)
\* There is no process.
LEMMA StdSpawnFails ==
  ASSUME StdioSound, NEW c \in Callers, SpawnFails(c)
  PROVE  StdioSound' /\ Rest
<1>1. /\ calls[c].phase = "spawning" /\ calls' = Ends(c, Nothing)
      /\ UNCHANGED <<session, transport, nextId, asked, manager>>
  BY DEF SpawnFails
<1>2. /\ pending' = pending /\ asked' = asked /\ nextId' = nextId
      /\ UNCHANGED <<connected, notified, process, readerTask, procs, readers, closing, pooled, life>>
      /\ registered' \in BOOLEAN
  BY <1>1, TypeParts DEF session, transport, manager, StdioSound, TransportTypes
<1>3. ~Awaits(calls[c])
  BY <1>1 DEF Awaits, Asking
<1>4. /\ StdLater(c) /\ calls' \in [Callers -> CallTypes]
      /\ \A d \in Callers \ {c} : calls'[d] = calls[d]
      /\ calls'[c].phase = "done"
  BY <1>1, <1>3, EndsLater DEF LeftEnds
<1> QED BY <1>1, <1>2, <1>4, StdMoves

\* The answer to initialize suits.
LEMMA StdSuits ==
  ASSUME StdioSound, NEW c \in Callers, Suits(c)
  PROVE  StdioSound' /\ Rest
<1>1. /\ calls[c].phase = "shaking" /\ calls[c].got \notin {Nothing, Lost}
      /\ calls' = Goes(c, "initialized")
      /\ UNCHANGED <<session, transport, nextId, asked, manager>>
  BY DEF Suits
<1>2. /\ pending' = pending /\ asked' = asked /\ nextId' = nextId
      /\ UNCHANGED <<connected, notified, process, readerTask, procs, readers, closing, pooled, life>>
      /\ registered' \in BOOLEAN
  BY <1>1, TypeParts DEF session, transport, manager, StdioSound, TransportTypes
<1>3. /\ StdLater(c) /\ calls' \in [Callers -> CallTypes]
      /\ \A d \in Callers \ {c} : calls'[d] = calls[d]
      /\ calls'[c].phase = "initialized"
  BY <1>1, GoesLater DEF Phases, Telling
<1> QED BY <1>1, <1>2, <1>3, StdMoves

\* A request is sent.
LEMMA StdSent ==
  ASSUME StdioSound, NEW c \in Callers, Sent(c)
  PROVE  StdioSound' /\ Rest
<1> DEFINE phase == IF calls[c].phase = "call" THEN "waiting" ELSE "shaking"
<1>1. /\ calls[c].phase \in {"initialize", "call"} /\ calls' = Goes(c, phase)
      /\ UNCHANGED <<session, transport, nextId, asked, manager>>
  BY DEF Sent, Asking
<1>2. /\ pending' = pending /\ asked' = asked /\ nextId' = nextId
      /\ UNCHANGED <<connected, notified, process, readerTask, procs, readers, closing, pooled, life>>
      /\ registered' \in BOOLEAN
  BY <1>1, TypeParts DEF session, transport, manager, StdioSound, TransportTypes
<1>3. /\ phase \in Phases /\ phase \in {"waiting", "shaking"}
      /\ (calls[c].phase = "initialize" => phase = "shaking")
      /\ (calls[c].phase = "call" => phase = "waiting")
  BY <1>1 DEF Phases
<1> HIDE DEF phase
<1>4. /\ StdLater(c) /\ calls' \in [Callers -> CallTypes]
      /\ \A d \in Callers \ {c} : calls'[d] = calls[d]
      /\ calls'[c].phase = phase
  BY <1>1, <1>2, <1>3, GoesLater
<1> QED BY <1>1, <1>2, <1>3, <1>4, StdMoves

\* A send that fails.
LEMMA StdSendFails ==
  ASSUME StdioSound, NEW c \in Callers, SendFails(c)
  PROVE  StdioSound' /\ Rest
<1>1. /\ calls[c].phase \in Asking \cup Telling /\ pending' = pending \ {calls[c].id}
      /\ UNCHANGED <<notified, readerTask, procs, readers, nextId, asked, pooled, registered, life>>
      /\ calls[c].phase \notin {"idle", "done", "closing"}
  BY DEF SendFails, manager, Asking, Telling
<1>2. CASE calls[c].phase \in {"call", "telling"}
  <2>1. calls' = Ends(c, Nothing) /\ UNCHANGED <<connected, process, closing>>
    BY <1>2 DEF SendFails
  <2>2. /\ StdLater(c) /\ calls' \in [Callers -> CallTypes]
        /\ \A d \in Callers \ {c} : calls'[d] = calls[d]
        /\ calls'[c].phase = "done"
    BY <1>1, <2>1, EndsLater DEF LeftEnds
  <2>3. registered' \in BOOLEAN
    BY <1>1, TypeParts DEF StdioSound, TransportTypes
  <2> QED BY <1>1, <2>1, <2>2, <2>3, StdMoves
<1>3. CASE calls[c].phase \notin {"call", "telling"}
  <2>1. FailHandshake(c)
    BY <1>3 DEF SendFails
  <2> QED BY <1>1, <2>1, FailsHandshakeKeeps
<1> QED BY <1>2, <1>3

\* The handshake fails.
LEMMA StdHandshakeFails ==
  ASSUME StdioSound, NEW c \in Callers, HandshakeFails(c)
  PROVE  StdioSound' /\ Rest
<1>1. /\ calls[c].phase = "shaking" /\ ~Awaits(calls[c]) /\ FailHandshake(c) /\ pending' = pending
      /\ UNCHANGED <<notified, readerTask, procs, readers, nextId, asked, pooled, registered, life>>
  BY DEF HandshakeFails, manager, Awaits
<1> QED BY <1>1, FailsHandshakeKeeps

\* Nobody answers initialize.
LEMMA StdHandshakeTimesOut ==
  ASSUME StdioSound, NEW c \in Callers, HandshakeTimesOut(c)
  PROVE  StdioSound' /\ Rest
<1>1. /\ calls[c].phase = "shaking" /\ pending' = pending \ {calls[c].id}
      /\ UNCHANGED <<notified, readerTask, procs, readers, nextId, asked, pooled, registered, life>>
  BY DEF HandshakeTimesOut, manager
<1>2. CASE Up
  <2>1. calls' = Goes(c, "tellinit") /\ UNCHANGED <<connected, process, closing>>
    BY <1>2 DEF HandshakeTimesOut
  <2>2. /\ StdLater(c) /\ calls' \in [Callers -> CallTypes]
        /\ \A d \in Callers \ {c} : calls'[d] = calls[d]
        /\ calls'[c].phase = "tellinit"
    BY <1>1, <2>1, GoesLater DEF Phases, Telling
  <2>3. registered' \in BOOLEAN
    BY <1>1, TypeParts DEF StdioSound, TransportTypes
  <2> QED BY <1>1, <2>1, <2>2, <2>3, StdMoves
<1>3. CASE ~Up
  <2>1. FailHandshake(c)
    BY <1>3 DEF HandshakeTimesOut
  <2> QED BY <1>1, <2>1, FailsHandshakeKeeps
<1> QED BY <1>2, <1>3

\* An answer or the loss of the connection is acted upon.
LEMMA StdCallReturns ==
  ASSUME StdioSound, NEW c \in Callers, CallReturns(c)
  PROVE  StdioSound' /\ Rest
<1>1. /\ calls[c].phase = "waiting" /\ ~Awaits(calls[c]) /\ calls' = Ends(c, Nothing)
      /\ registered' = (registered \/ (c = Boot /\ calls[c].got # Lost))
      /\ UNCHANGED <<session, transport, nextId, asked, pooled, life>>
  BY DEF CallReturns, Awaits
<1>2. /\ pending' = pending /\ asked' = asked /\ nextId' = nextId
      /\ UNCHANGED <<connected, notified, process, readerTask, procs, readers, closing, pooled, life>>
  BY <1>1 DEF session, transport
<1>3. registered \in BOOLEAN
  BY TypeParts DEF StdioSound, TransportTypes
<1>4. registered' \in BOOLEAN
  BY <1>1, <1>3
<1>5. /\ StdLater(c) /\ calls' \in [Callers -> CallTypes]
      /\ \A d \in Callers \ {c} : calls'[d] = calls[d]
      /\ calls'[c].phase = "done"
  BY <1>1, EndsLater DEF LeftEnds
<1> QED BY <1>1, <1>2, <1>4, <1>5, StdMoves

\* A timeout.
LEMMA StdCallTimesOut ==
  ASSUME StdioSound, NEW c \in Callers, CallTimesOut(c)
  PROVE  StdioSound' /\ Rest
<1>1. /\ calls[c].phase = "waiting" /\ pending' = pending \ {calls[c].id}
      /\ UNCHANGED <<connected, notified, transport, nextId, asked, manager>>
  BY DEF CallTimesOut
<1>2. /\ asked' = asked /\ nextId' = nextId
      /\ UNCHANGED <<connected, notified, process, readerTask, procs, readers, closing, pooled, life>>
      /\ registered' \in BOOLEAN
  BY <1>1, TypeParts DEF transport, manager, StdioSound, TransportTypes
<1>3. CASE Up
  <2>1. calls' = Goes(c, "telling")
    BY <1>3 DEF CallTimesOut
  <2>2. /\ StdLater(c) /\ calls' \in [Callers -> CallTypes]
        /\ \A d \in Callers \ {c} : calls'[d] = calls[d]
        /\ calls'[c].phase = "telling"
    BY <1>1, <2>1, GoesLater DEF Phases, Telling
  <2> QED BY <1>1, <1>2, <2>2, StdMoves
<1>4. CASE ~Up
  <2>1. calls' = Ends(c, Nothing)
    BY <1>4 DEF CallTimesOut
  <2>2. /\ StdLater(c) /\ calls' \in [Callers -> CallTypes]
        /\ \A d \in Callers \ {c} : calls'[d] = calls[d]
        /\ calls'[c].phase = "done"
    BY <1>1, <2>1, EndsLater DEF LeftEnds
  <2> QED BY <1>1, <1>2, <2>2, StdMoves
<1> QED BY <1>3, <1>4

\* A call that is cancelled keeps its id in the table only where it was asking.
LEMMA CancelledIs ==
  ASSUME StdioSound, NEW c \in Callers, calls[c].phase \notin {"idle", "done"}, pending' = Kept(c)
  PROVE  \E end \in LeftEnds :
           /\ Cancelled(c) = Ends(c, end)
           /\ Awaits(calls[c]) /\ calls[c].id \in pending' => end \in {"cancelled", "broken"}
           /\ pending' \in {pending, pending \ {calls[c].id}}
<1>1. CASE calls[c].phase \in Asking
  <2>1. Cancelled(c) = Ends(c, "cancelled") /\ pending' = pending
    BY <1>1 DEF Cancelled, Kept
  <2>2. "cancelled" \in LeftEnds
    BY DEF LeftEnds
  <2> QED BY <2>1, <2>2
<1>2. CASE calls[c].phase \notin Asking
  <2>1. Cancelled(c) = Ends(c, Nothing) /\ pending' = pending \ {calls[c].id}
    BY <1>2 DEF Cancelled, Kept
  <2>2. Nothing \in LeftEnds
    BY DEF LeftEnds
  <2> QED BY <2>1, <2>2
<1> QED BY <1>1, <1>2

\* A cancellation.
LEMMA StdCallCancelled ==
  ASSUME StdioSound, NEW c \in Callers, CallCancelled(c)
  PROVE  StdioSound' /\ Rest
<1>0. TransportTypes /\ ClosersWait /\ ClosesStarted
  BY TypeParts DEF StdioSound
<1>1. /\ calls[c].phase \notin {"idle", "done"} /\ pending' = Kept(c) /\ calls' = Cancelled(c)
      /\ closing' = [p \in Procs |-> IF closing[p] = c THEN Nothing ELSE closing[p]]
      /\ UNCHANGED <<connected, notified, process, readerTask, procs, readers, nextId, asked,
                     pooled, registered, life>>
  BY DEF CallCancelled, manager
<1>2. PICK end \in LeftEnds :
           /\ Cancelled(c) = Ends(c, end)
           /\ Awaits(calls[c]) /\ calls[c].id \in pending' => end \in {"cancelled", "broken"}
           /\ pending' \in {pending, pending \ {calls[c].id}}
  BY <1>1, CancelledIs
<1>3. /\ StdLater(c) /\ calls' \in [Callers -> CallTypes]
      /\ \A d \in Callers \ {c} : calls'[d] = calls[d]
      /\ calls'[c].phase = "done"
  BY <1>1, <1>2, EndsLater
<1>4. TableTypes' /\ calls' \in [Callers -> CallTypes'] /\ TableSound' /\ Rest
  BY <1>1, <1>2, <1>3, StdOne
<1>5. TransportTypes'
  BY <1>0, <1>1 DEF TransportTypes
<1>6. ClosersWait'
  <2>1. ASSUME NEW d \in Callers, calls'[d].phase = "closing" PROVE \E p \in Procs : closing'[p] = d
    <3>1. d # c /\ calls[d].phase = "closing"
      BY <1>3, <2>1
    <3>2. PICK p \in Procs : closing[p] = d
      BY <1>0, <3>1 DEF ClosersWait
    <3> QED BY <1>1, <3>1, <3>2
  <2> QED BY <2>1 DEF ClosersWait
<1>7. ClosesStarted'
  <2>1. \A p \in Procs : closing'[p] = IF closing[p] = c THEN Nothing ELSE closing[p]
    BY <1>1
  <2>2. Nothing \notin Callers
    BY McpAssumption
  <2>3. procs' = procs /\ \A d \in Callers \ {c} : calls'[d] = calls[d]
    BY <1>1, <1>3
  <2> QED BY <1>0, <2>1, <2>2, <2>3 DEF ClosesStarted
<1> QED BY <1>4, <1>5, <1>6, <1>7, TypePartsNext DEF StdioSound

(***************************************************************************)
(* The steps of servers, readers and of whoever closes                     *)
(***************************************************************************)
\* The table after a step that sends no request.
LEMMA StdTable ==
  ASSUME StdioSound, calls' \in [Callers -> CallTypes], StdSettled, \A c \in Callers : StdLater(c)
  PROVE  TableTypes' /\ calls' \in [Callers -> CallTypes'] /\ TableSound' /\ Rest
<1>1. TableTypes /\ calls \in [Callers -> CallTypes] /\ TableSound
  BY TypeParts DEF StdioSound
<1> QED BY <1>1, StdLaterKeeps

\* Nobody moves.
LEMMA StdStays ==
  ASSUME StdioSound, calls' = calls, pending' = pending, asked' \subseteq asked, nextId' = nextId
  PROVE  TableTypes' /\ calls' \in [Callers -> CallTypes'] /\ TableSound' /\ Rest
<1>1. calls' \in [Callers -> CallTypes] /\ StdSettled
  BY TypeParts DEF StdioSound, StdSettled
<1>2. \A c \in Callers : StdLater(c)
  BY DEF StdLater, StdHanded, StdProceeds, StdListed
<1> QED BY <1>1, <1>2, StdTable

\* matcher.fail_all, caller by caller.
LEMMA FailAllIs ==
  ASSUME NEW cs \in [Callers -> CallTypes], FailAll(cs)
  PROVE  /\ pending' = {} /\ calls' \in [Callers -> CallTypes]
         /\ \A c \in Callers :
              \/ calls'[c] = cs[c] /\ ~(Awaits(cs[c]) /\ cs[c].id \in pending)
              \/ /\ Awaits(cs[c]) /\ cs[c].id \in pending
                 /\ calls'[c].phase = cs[c].phase /\ calls'[c].id = cs[c].id
                 /\ calls'[c].end = cs[c].end /\ calls'[c].connects = cs[c].connects
                 /\ calls'[c].got = Lost
<1>1. /\ pending' = {}
      /\ calls' = [c \in Callers |-> IF Awaits(cs[c]) /\ cs[c].id \in pending
                                     THEN [cs[c] EXCEPT !.got = Lost] ELSE cs[c]]
  BY DEF FailAll
<1>2. \A c \in Callers : [cs[c] EXCEPT !.got = Lost] \in CallTypes
  BY DEF CallTypes
<1>3. calls' \in [Callers -> CallTypes]
  BY <1>1, <1>2
<1>4. \A c \in Callers :
         /\ [cs[c] EXCEPT !.got = Lost].phase = cs[c].phase
         /\ [cs[c] EXCEPT !.got = Lost].id = cs[c].id
         /\ [cs[c] EXCEPT !.got = Lost].end = cs[c].end
         /\ [cs[c] EXCEPT !.got = Lost].connects = cs[c].connects
         /\ [cs[c] EXCEPT !.got = Lost].got = Lost
  BY DEF CallTypes
<1> QED BY <1>1, <1>3, <1>4

\* Who is failed goes on waiting to learn of it.
LEMMA FailedLater ==
  ASSUME StdioSound, NEW cs \in [Callers -> CallTypes], FailAll(cs), NEW c \in Callers,
         cs[c] = calls[c]
  PROVE  StdLater(c) /\ calls'[c].phase = calls[c].phase
<1>1. /\ pending' = {}
      /\ \/ calls'[c] = calls[c] /\ ~(Awaits(calls[c]) /\ calls[c].id \in pending)
         \/ /\ Awaits(calls[c]) /\ calls[c].id \in pending
            /\ calls'[c].phase = calls[c].phase /\ calls'[c].id = calls[c].id
            /\ calls'[c].end = calls[c].end /\ calls'[c].connects = calls[c].connects
            /\ calls'[c].got = Lost
  BY FailAllIs
<1>2. Awaits(calls[c]) => calls[c].id \in pending
  BY DEF StdioSound, TableSound, PendingIsAwaited
<1>3. Awaits(calls[c]) => calls[c].phase \notin {"idle", "done"}
  BY DEF Awaits, Asking
<1>4. ~Awaits(calls'[c])
  BY <1>1, <1>2, McpAssumption DEF Awaits
<1>5. StdListed(c)
  BY <1>1, <1>4 DEF StdListed
<1> QED BY <1>1, <1>3, <1>5 DEF StdLater, StdHanded, StdProceeds

\* Whose call is over meanwhile.
LEMMA DoneLater ==
  ASSUME StdioSound, NEW c \in Callers, NEW end \in LeftEnds, calls'[c] = Done(calls[c].id, end),
         calls[c].phase \notin {"idle", "done"},
         Awaits(calls[c]) /\ calls[c].id \in pending' => end \in {"cancelled", "broken"}
  PROVE  StdLater(c) /\ calls'[c].phase = "done"
<1>1. /\ calls'[c].phase = "done" /\ calls'[c].id = calls[c].id /\ calls'[c].got = Nothing
      /\ calls'[c].connects = 0 /\ calls'[c].end = end
  BY DoneIs
<1>2. StdListed(c)
  BY <1>1 DEF StdListed, Awaits, Asking
<1> QED BY <1>1, <1>2 DEF StdLater, StdHanded, StdProceeds

\* A reader hands over an answer.
LEMMA StdDeliver ==
  ASSUME StdioSound, NEW p \in Procs, Deliver(p)
  PROVE  StdioSound' /\ Rest
<1>0. /\ TransportTypes /\ TableTypes /\ calls \in [Callers -> CallTypes] /\ ClosersWait
      /\ ClosesStarted /\ TableSound
  BY TypeParts DEF StdioSound
<1>1. PICK a \in asked :
        /\ asked' = asked \ {a}
        /\ calls' = [c \in Callers |->
             IF Awaits(calls[c]) /\ calls[c].id = a.request.id /\ a.request.id \in pending
             THEN [calls[c] EXCEPT !.got = a.request] ELSE calls[c]]
        /\ pending' = pending \ {a.request.id}
  BY DEF Deliver
<1>2. /\ nextId' = nextId
      /\ UNCHANGED <<connected, notified, process, readerTask, procs, readers, closing,
                     pooled, registered, life>>
  BY DEF Deliver, transport, manager
<1>3. a.request \in Requests
  BY <1>0 DEF TableTypes
<1>4. \A c \in Callers :
        /\ [calls[c] EXCEPT !.got = a.request] \in CallTypes
        /\ [calls[c] EXCEPT !.got = a.request].phase = calls[c].phase
        /\ [calls[c] EXCEPT !.got = a.request].id = calls[c].id
        /\ [calls[c] EXCEPT !.got = a.request].end = calls[c].end
        /\ [calls[c] EXCEPT !.got = a.request].connects = calls[c].connects
        /\ [calls[c] EXCEPT !.got = a.request].got = a.request
  BY <1>0, <1>3 DEF CallTypes
<1>5. calls' \in [Callers -> CallTypes]
  BY <1>0, <1>1, <1>4
<1>6. \A c \in Callers :
        \/ calls'[c] = calls[c] /\ ~(Awaits(calls[c]) /\ calls[c].id = a.request.id)
        \/ /\ Awaits(calls[c]) /\ calls[c].id \in pending /\ calls[c].id = a.request.id
           /\ calls'[c].phase = calls[c].phase /\ calls'[c].id = calls[c].id
           /\ calls'[c].end = calls[c].end /\ calls'[c].connects = calls[c].connects
           /\ calls'[c].got = a.request
  <2> SUFFICES ASSUME NEW c \in Callers
               PROVE  \/ calls'[c] = calls[c] /\ ~(Awaits(calls[c]) /\ calls[c].id = a.request.id)
                      \/ /\ Awaits(calls[c]) /\ calls[c].id \in pending /\ calls[c].id = a.request.id
                         /\ calls'[c].phase = calls[c].phase /\ calls'[c].id = calls[c].id
                         /\ calls'[c].end = calls[c].end /\ calls'[c].connects = calls[c].connects
                         /\ calls'[c].got = a.request
    OBVIOUS
  <2>1. Awaits(calls[c]) => calls[c].id \in pending
    BY <1>0 DEF TableSound, PendingIsAwaited
  <2>2. CASE Awaits(calls[c]) /\ calls[c].id = a.request.id
    <3>1. calls'[c] = [calls[c] EXCEPT !.got = a.request]
      BY <1>1, <2>1, <2>2
    <3> QED BY <1>4, <2>1, <2>2, <3>1
  <2>3. CASE ~(Awaits(calls[c]) /\ calls[c].id = a.request.id)
    <3>1. calls'[c] = calls[c]
      BY <1>1, <2>3
    <3> QED BY <2>3, <3>1
  <2> QED BY <2>2, <2>3
<1>7. ASSUME NEW c \in Callers PROVE StdLater(c)
  <2>1. CASE calls'[c] = calls[c] /\ ~(Awaits(calls[c]) /\ calls[c].id = a.request.id)
    <3>1. StdListed(c)
      BY <1>1, <2>1 DEF StdListed
    <3> QED BY <2>1, <3>1 DEF StdLater, StdHanded, StdProceeds
  <2>2. CASE /\ Awaits(calls[c]) /\ calls[c].id \in pending /\ calls[c].id = a.request.id
             /\ calls'[c].phase = calls[c].phase /\ calls'[c].id = calls[c].id
             /\ calls'[c].end = calls[c].end /\ calls'[c].connects = calls[c].connects
             /\ calls'[c].got = a.request
    <3>1. ~Awaits(calls'[c])
      BY <1>3, <2>2, McpAssumption DEF Awaits
    <3>2. StdListed(c)
      BY <1>1, <2>2, <3>1 DEF StdListed
    <3>3. calls[c].phase \notin {"idle", "done"}
      BY <2>2 DEF Awaits, Asking
    <3> QED BY <2>2, <3>2, <3>3 DEF StdLater, StdHanded, StdProceeds
  <2> QED BY <1>6, <2>1, <2>2
<1>8. TableTypes' /\ calls' \in [Callers -> CallTypes'] /\ TableSound' /\ Rest
  <2>1. StdSettled
    BY <1>1, <1>2 DEF StdSettled
  <2> QED BY <1>5, <1>7, <2>1, StdTable
<1>9. TransportTypes' /\ ClosersWait' /\ ClosesStarted'
  <2>1. \A c \in Callers : calls'[c].phase = calls[c].phase
    BY <1>6
  <2>2. TransportTypes'
    BY <1>0, <1>2 DEF TransportTypes
  <2>3. ClosersWait' /\ ClosesStarted'
    BY <1>0, <1>2, <2>1 DEF ClosersWait, ClosesStarted
  <2> QED BY <2>2, <2>3
<1> QED BY <1>8, <1>9, TypePartsNext DEF StdioSound

\* A process dies.
LEMMA StdProcDies ==
  ASSUME StdioSound, NEW p \in Procs, ProcDies(p)
  PROVE  StdioSound' /\ Rest
<1>0. TransportTypes /\ ClosersWait /\ ClosesStarted
  BY TypeParts DEF StdioSound
<1>1. /\ procs[p] = "up" /\ procs' = [procs EXCEPT ![p] = "dead"]
      /\ asked' \subseteq asked /\ calls' = calls /\ pending' = pending /\ nextId' = nextId
      /\ UNCHANGED <<connected, notified, process, readerTask, readers, closing, pooled, registered, life>>
  BY DEF ProcDies, session, manager
<1>2. TableTypes' /\ calls' \in [Callers -> CallTypes'] /\ TableSound' /\ Rest
  BY <1>1, StdStays
<1>3. TransportTypes'
  BY <1>0, <1>1 DEF TransportTypes
<1>4. ClosersWait' /\ ClosesStarted'
  BY <1>0, <1>1 DEF ClosersWait, ClosesStarted, TransportTypes
<1> QED BY <1>2, <1>3, <1>4, TypePartsNext DEF StdioSound

\* _notify_close for callers that wait, or are over.
LEMMA NotifyIs ==
  ASSUME StdioSound, NEW cs \in [Callers -> CallTypes], NotifyClose(cs)
  PROVE  /\ calls' \in [Callers -> CallTypes] /\ pending' \in {pending, {}}
         /\ connected' \in {connected, FALSE} /\ notified' = TRUE
         /\ \A c \in Callers : cs[c] = calls[c] => StdLater(c) /\ calls'[c].phase = calls[c].phase
         /\ \A c \in Callers : cs[c].phase = "done" => calls'[c] = cs[c]
<1>1. CASE ~notified /\ connected
  <2>1. notified' = TRUE /\ connected' = FALSE /\ FailAll(cs)
    BY <1>1 DEF NotifyClose
  <2>2. /\ pending' = {} /\ calls' \in [Callers -> CallTypes]
        /\ \A c \in Callers :
             \/ calls'[c] = cs[c] /\ ~(Awaits(cs[c]) /\ cs[c].id \in pending)
             \/ /\ Awaits(cs[c]) /\ cs[c].id \in pending
                /\ calls'[c].phase = cs[c].phase /\ calls'[c].id = cs[c].id
                /\ calls'[c].end = cs[c].end /\ calls'[c].connects = cs[c].connects
                /\ calls'[c].got = Lost
    BY <2>1, FailAllIs
  <2>3. \A c \in Callers : cs[c].phase = "done" => calls'[c] = cs[c]
    BY <2>2 DEF Awaits, Asking
  <2>4. \A c \in Callers : cs[c] = calls[c] => StdLater(c) /\ calls'[c].phase = calls[c].phase
    BY <2>1, FailedLater
  <2> QED BY <2>1, <2>2, <2>3, <2>4
<1>2. CASE ~(~notified /\ connected)
  <2>1. notified' = TRUE /\ calls' = cs /\ connected' = connected /\ pending' = pending
    BY <1>2 DEF NotifyClose
  <2>2. \A c \in Callers : cs[c] = calls[c] => StdLater(c) /\ calls'[c].phase = calls[c].phase
    BY <2>1 DEF StdLater, StdHanded, StdProceeds, StdListed
  <2> QED BY <2>1, <2>2
<1> QED BY <1>1, <1>2

\* A reader comes to its end.
LEMMA StdReaderEnds ==
  ASSUME StdioSound, NEW p \in Procs, ReaderEnds(p)
  PROVE  StdioSound' /\ Rest
<1>0. TransportTypes /\ calls \in [Callers -> CallTypes] /\ ClosersWait /\ ClosesStarted
  BY TypeParts DEF StdioSound
<1>1. /\ NotifyClose(calls) /\ readers' = readers \ {p} /\ asked' = asked /\ nextId' = nextId
      /\ UNCHANGED <<process, readerTask, procs, closing, pooled, registered, life>>
  BY DEF ReaderEnds, manager
<1>2. /\ calls' \in [Callers -> CallTypes] /\ pending' \in {pending, {}}
      /\ connected' \in {connected, FALSE} /\ notified' = TRUE
      /\ \A c \in Callers : StdLater(c) /\ calls'[c].phase = calls[c].phase
  BY <1>0, <1>1, NotifyIs
<1>3. StdSettled
  BY <1>1, <1>2 DEF StdSettled
<1>4. TableTypes' /\ calls' \in [Callers -> CallTypes'] /\ TableSound' /\ Rest
  BY <1>2, <1>3, StdTable
<1>5. TransportTypes'
  BY <1>0, <1>1, <1>2 DEF TransportTypes
<1>6. ClosersWait' /\ ClosesStarted'
  BY <1>0, <1>1, <1>2 DEF ClosersWait, ClosesStarted
<1> QED BY <1>4, <1>5, <1>6, TypePartsNext DEF StdioSound

\* A process is closed.
LEMMA StdCloseEnds ==
  ASSUME StdioSound, NEW p \in Procs, CloseEnds(p)
  PROVE  StdioSound' /\ Rest
<1>0. TransportTypes /\ calls \in [Callers -> CallTypes] /\ ClosersWait /\ ClosesStarted
  BY TypeParts DEF StdioSound
<1> DEFINE cs == IF closing[p] \in Callers THEN Ends(closing[p], Nothing) ELSE calls
<1>1. /\ closing[p] # Nothing /\ closing' = [closing EXCEPT ![p] = Nothing]
      /\ readers' = readers \ {readerTask} /\ NotifyClose(cs)
      /\ pooled' = (pooled /\ closing[p] # "sweep")
      /\ life' = IF closing[p] = "quit" THEN "closed" ELSE life
      /\ asked' = asked /\ nextId' = nextId
      /\ UNCHANGED <<process, readerTask, procs, registered>>
  BY DEF CloseEnds
<1>2. /\ cs \in [Callers -> CallTypes]
      /\ \A c \in Callers : c # closing[p] => cs[c] = calls[c]
      /\ \A c \in Callers : c = closing[p] => cs[c] = Done(calls[c].id, Nothing) /\ cs[c].phase = "done"
  <2>1. CASE closing[p] \in Callers
    <3>1. cs = Ends(closing[p], Nothing)
      BY <2>1
    <3>2. Nothing \in LeftEnds
      BY DEF LeftEnds
    <3>3. /\ Ends(closing[p], Nothing) \in [Callers -> CallTypes]
          /\ \A d \in Callers \ {closing[p]} : Ends(closing[p], Nothing)[d] = calls[d]
          /\ Ends(closing[p], Nothing)[closing[p]].phase = "done"
      BY <1>0, <2>1, <3>2, StdEndsIs
    <3>4. Ends(closing[p], Nothing)[closing[p]] = Done(calls[closing[p]].id, Nothing)
      BY <1>0, <2>1 DEF Ends
    <3> HIDE DEF cs
    <3> QED BY <2>1, <3>1, <3>3, <3>4
  <2>2. CASE closing[p] \notin Callers
    BY <1>0, <2>2
  <2> QED BY <2>1, <2>2
<1> HIDE DEF cs
<1>3. /\ calls' \in [Callers -> CallTypes] /\ pending' \in {pending, {}}
      /\ connected' \in {connected, FALSE} /\ notified' = TRUE
      /\ \A c \in Callers : cs[c] = calls[c] => StdLater(c) /\ calls'[c].phase = calls[c].phase
      /\ \A c \in Callers : cs[c].phase = "done" => calls'[c] = cs[c]
  BY <1>1, <1>2, NotifyIs
<1>4. ASSUME NEW c \in Callers, c = closing[p] PROVE StdLater(c) /\ calls'[c].phase = "done"
  <2>1. calls[c].phase = "closing"
    BY <1>0, <1>4 DEF ClosesStarted
  <2>2. calls'[c] = Done(calls[c].id, Nothing)
    BY <1>2, <1>3, <1>4
  <2>3. ~Awaits(calls[c]) /\ Nothing \in LeftEnds
    BY <2>1 DEF Awaits, Asking, LeftEnds
  <2> QED BY <2>1, <2>2, <2>3, DoneLater
<1>5. \A c \in Callers : StdLater(c)
  BY <1>2, <1>3, <1>4
<1>6. \A c \in Callers : calls'[c].phase = IF c = closing[p] THEN "done" ELSE calls[c].phase
  BY <1>2, <1>3, <1>4
<1>7. StdSettled
  BY <1>1, <1>3 DEF StdSettled
<1>8. TableTypes' /\ calls' \in [Callers -> CallTypes'] /\ TableSound' /\ Rest
  BY <1>3, <1>5, <1>7, StdTable
<1>9. TransportTypes'
  <2>1. /\ pooled' \in BOOLEAN /\ life' \in {"up", "closing", "closed"}
    BY <1>0, <1>1 DEF TransportTypes
  <2>2. /\ closing' \in [Procs -> Callers \cup {"sweep", "quit", Nothing}]
        /\ process' # Nothing => closing'[process'] = Nothing
    BY <1>0, <1>1 DEF TransportTypes
  <2> QED BY <1>0, <1>1, <1>3, <2>1, <2>2 DEF TransportTypes
<1>10. \A q \in Procs : closing'[q] = IF q = p THEN Nothing ELSE closing[q]
  BY <1>0, <1>1 DEF TransportTypes
<1>11. ClosersWait'
  <2>1. ASSUME NEW d \in Callers, calls'[d].phase = "closing" PROVE \E q \in Procs : closing'[q] = d
    <3>1. d # closing[p] /\ calls[d].phase = "closing"
      BY <1>6, <2>1
    <3>2. PICK q \in Procs : closing[q] = d
      BY <1>0, <3>1 DEF ClosersWait
    <3> QED BY <1>10, <3>1, <3>2
  <2> QED BY <2>1 DEF ClosersWait
<1>12. ClosesStarted'
  <2>1. ASSUME NEW q \in Procs
        PROVE  /\ procs'[q] = "none" => closing'[q] = Nothing
               /\ closing'[q] \in Callers =>
                    calls'[closing'[q]].phase = "closing" /\ \A r \in Procs : closing'[r] = closing'[q] => r = q
    <3>0. Nothing \notin Callers
      BY McpAssumption
    <3>1. procs'[q] = "none" => closing'[q] = Nothing
      BY <1>0, <1>1, <1>10 DEF ClosesStarted
    <3>2. ASSUME closing'[q] \in Callers
          PROVE  calls'[closing'[q]].phase = "closing" /\ \A r \in Procs : closing'[r] = closing'[q] => r = q
      <4>1. q # p /\ closing'[q] = closing[q]
        BY <1>10, <3>0, <3>2
      <4>2. closing[q] # closing[p]
        BY <1>0, <3>2, <4>1 DEF ClosesStarted
      <4>3. calls[closing[q]].phase = "closing" /\ \A r \in Procs : closing[r] = closing[q] => r = q
        BY <1>0, <3>2, <4>1 DEF ClosesStarted
      <4> QED BY <1>6, <1>10, <3>0, <3>2, <4>1, <4>2, <4>3
    <3> QED BY <3>1, <3>2
  <2> QED BY <2>1 DEF ClosesStarted
<1> QED BY <1>8, <1>9, <1>11, <1>12, TypePartsNext DEF StdioSound

\* The idle sweep.
LEMMA StdSweep ==
  ASSUME StdioSound, Sweep
  PROVE  StdioSound' /\ Rest
<1>0. TransportTypes /\ calls \in [Callers -> CallTypes] /\ ClosersWait /\ ClosesStarted
  BY TypeParts DEF StdioSound
<1>1. /\ connected' = FALSE /\ FailAll(calls) /\ process' = Nothing
      /\ closing' = IF process = Nothing THEN closing ELSE [closing EXCEPT ![process] = "sweep"]
      /\ pooled' = (process # Nothing) /\ asked' = asked /\ nextId' = nextId
      /\ UNCHANGED <<notified, readerTask, procs, readers, registered, life>>
  BY DEF Sweep, Close
<1>2. pending' = {} /\ calls' \in [Callers -> CallTypes]
  BY <1>0, <1>1, FailAllIs
<1>3. \A c \in Callers : StdLater(c) /\ calls'[c].phase = calls[c].phase
  BY <1>0, <1>1, FailedLater
<1>4. StdSettled
  BY <1>1, <1>2 DEF StdSettled
<1>5. TableTypes' /\ calls' \in [Callers -> CallTypes'] /\ TableSound' /\ Rest
  BY <1>2, <1>3, <1>4, StdTable
<1>6. \A q \in Procs : closing'[q] = IF q = process THEN "sweep" ELSE closing[q]
  BY <1>0, <1>1, McpAssumption DEF TransportTypes
<1>7. TransportTypes'
  BY <1>0, <1>1 DEF TransportTypes
<1>8. \A q \in Procs : q = process => closing[q] = Nothing /\ procs[q] # "none"
  BY <1>0, McpAssumption DEF TransportTypes
<1>9. Nothing \notin Callers /\ "sweep" \notin Callers
  BY McpAssumption
<1>10. ClosersWait'
  <2>1. ASSUME NEW d \in Callers, calls'[d].phase = "closing" PROVE \E q \in Procs : closing'[q] = d
    <3>1. calls[d].phase = "closing"
      BY <1>3, <2>1
    <3>2. PICK q \in Procs : closing[q] = d
      BY <1>0, <3>1 DEF ClosersWait
    <3> QED BY <1>6, <1>8, <1>9, <3>2
  <2> QED BY <2>1 DEF ClosersWait
<1>11. ClosesStarted'
  <2>1. ASSUME NEW q \in Procs
        PROVE  /\ procs'[q] = "none" => closing'[q] = Nothing
               /\ closing'[q] \in Callers =>
                    calls'[closing'[q]].phase = "closing" /\ \A r \in Procs : closing'[r] = closing'[q] => r = q
    <3>1. procs'[q] = "none" => closing'[q] = Nothing
      BY <1>0, <1>1, <1>6, <1>8 DEF ClosesStarted
    <3>2. ASSUME closing'[q] \in Callers
          PROVE  calls'[closing'[q]].phase = "closing" /\ \A r \in Procs : closing'[r] = closing'[q] => r = q
      <4>1. closing'[q] = closing[q]
        BY <1>6, <1>9, <3>2
      <4>2. calls[closing[q]].phase = "closing" /\ \A r \in Procs : closing[r] = closing[q] => r = q
        BY <1>0, <3>2, <4>1 DEF ClosesStarted
      <4> QED BY <1>3, <1>6, <1>9, <3>2, <4>1, <4>2
    <3> QED BY <3>1, <3>2
  <2> QED BY <2>1 DEF ClosesStarted
<1> QED BY <1>5, <1>7, <1>10, <1>11, TypePartsNext DEF StdioSound

\* The app is closed.
LEMMA StdQuit ==
  ASSUME StdioSound, Quit
  PROVE  StdioSound' /\ Rest
<1>0. TransportTypes /\ calls \in [Callers -> CallTypes] /\ ClosersWait /\ ClosesStarted
  BY TypeParts DEF StdioSound
<1> DEFINE rest == [p \in Procs |-> IF closing[p] \in {"sweep", Boot} THEN Nothing ELSE closing[p]]
           cs == IF calls[Boot].phase \in {"idle", "done"} THEN calls ELSE Cancelled(Boot)
           left == IF calls[Boot].phase \in {"idle", "done"} THEN pending ELSE Kept(Boot)
<1>1. /\ pooled' = FALSE /\ asked' = asked /\ nextId' = nextId
      /\ UNCHANGED <<notified, readerTask, procs, readers, registered>>
      /\ \/ /\ pooled /\ connected' = FALSE /\ FailAll(cs) /\ process' = Nothing
            /\ closing' = IF process = Nothing THEN rest ELSE [rest EXCEPT ![process] = "quit"]
            /\ life' = IF process = Nothing THEN "closed" ELSE "closing"
         \/ /\ ~pooled /\ pending' = left /\ calls' = cs /\ closing' = rest /\ life' = "closed"
            /\ UNCHANGED <<connected, process>>
  BY DEF Quit
<1>2. Boot \in Callers /\ Nothing \notin Callers /\ "quit" \notin Callers /\ Nothing \notin Procs
  BY McpAssumption
<1>3. PICK end \in LeftEnds :
        /\ calls[Boot].phase \notin {"idle", "done"} => cs = Ends(Boot, end)
        /\ calls[Boot].phase \notin {"idle", "done"} /\ Awaits(calls[Boot]) /\ calls[Boot].id \in left
             => end \in {"cancelled", "broken"}
        /\ left \in {pending, pending \ {calls[Boot].id}}
  <2>1. CASE calls[Boot].phase \in {"idle", "done"}
    <3>1. Nothing \in LeftEnds
      BY DEF LeftEnds
    <3> QED BY <2>1, <3>1
  <2>2. CASE calls[Boot].phase \in Asking
    <3>1. calls[Boot].phase \notin {"idle", "done"}
      BY <2>2 DEF Asking
    <3>2. cs = Ends(Boot, "cancelled") /\ left = pending /\ "cancelled" \in LeftEnds
      BY <2>2, <3>1 DEF Cancelled, Kept, LeftEnds
    <3> QED BY <3>1, <3>2
  <2>3. CASE calls[Boot].phase \notin Asking \cup {"idle", "done"}
    <3>1. cs = Ends(Boot, Nothing) /\ left = pending \ {calls[Boot].id} /\ Nothing \in LeftEnds
      BY <2>3 DEF Cancelled, Kept, LeftEnds
    <3> QED BY <2>3, <3>1
  <2> QED BY <2>1, <2>2, <2>3
<1>4. /\ cs \in [Callers -> CallTypes]
      /\ \A c \in Callers : c # Boot \/ calls[c].phase \in {"idle", "done"} => cs[c] = calls[c]
      /\ calls[Boot].phase \notin {"idle", "done"} => cs[Boot] = Done(calls[Boot].id, end)
  <2>1. CASE calls[Boot].phase \in {"idle", "done"}
    <3>1. cs = calls
      BY <2>1
    <3> QED BY <1>0, <2>1, <3>1
  <2>2. CASE calls[Boot].phase \notin {"idle", "done"}
    <3>1. cs = Ends(Boot, end)
      BY <1>3, <2>2
    <3>2. /\ Ends(Boot, end) \in [Callers -> CallTypes]
          /\ \A d \in Callers \ {Boot} : Ends(Boot, end)[d] = calls[d]
      BY <1>0, <1>2, StdEndsIs
    <3>3. Ends(Boot, end)[Boot] = Done(calls[Boot].id, end)
      BY <1>0, <1>2 DEF Ends
    <3> HIDE DEF cs
    <3> QED BY <2>2, <3>1, <3>2, <3>3
  <2> QED BY <2>1, <2>2
<1>5. \A q \in Procs : rest[q] = IF closing[q] \in {"sweep", Boot} THEN Nothing ELSE closing[q]
  OBVIOUS
<1>6. rest \in [Procs -> Callers \cup {"sweep", "quit", Nothing}]
  BY <1>0 DEF TransportTypes
<1> HIDE DEF cs, left, rest
<1>7. /\ calls' \in [Callers -> CallTypes] /\ pending' \subseteq pending
      /\ \A c \in Callers : StdLater(c)
      /\ \A c \in Callers : calls'[c].phase =
           IF c = Boot /\ calls[c].phase # "idle" THEN "done" ELSE calls[c].phase
  <2>1. CASE FailAll(cs)
    <3>1. /\ pending' = {} /\ calls' \in [Callers -> CallTypes]
          /\ \A c \in Callers :
               \/ calls'[c] = cs[c] /\ ~(Awaits(cs[c]) /\ cs[c].id \in pending)
               \/ /\ Awaits(cs[c]) /\ cs[c].id \in pending
                  /\ calls'[c].phase = cs[c].phase /\ calls'[c].id = cs[c].id
                  /\ calls'[c].end = cs[c].end /\ calls'[c].connects = cs[c].connects
                  /\ calls'[c].got = Lost
      BY <1>4, <2>1, FailAllIs
    <3>2. ASSUME NEW c \in Callers, c # Boot \/ calls[c].phase \in {"idle", "done"}
          PROVE  StdLater(c) /\ calls'[c].phase = calls[c].phase
      <4>1. cs[c] = calls[c]
        BY <1>4, <3>2
      <4> QED BY <1>4, <2>1, <4>1, FailedLater
    <3>3. ASSUME calls[Boot].phase \notin {"idle", "done"}
          PROVE  StdLater(Boot) /\ calls'[Boot].phase = "done"
      <4>1. cs[Boot] = Done(calls[Boot].id, end)
        BY <1>4, <3>3
      <4>2. ~Awaits(cs[Boot])
        BY <4>1, DoneIs DEF Awaits, Asking
      <4>3. calls'[Boot] = Done(calls[Boot].id, end)
        BY <1>2, <3>1, <4>1, <4>2
      <4>4. calls[Boot].id \notin pending'
        BY <3>1
      <4> QED BY <1>2, <3>3, <4>3, <4>4, DoneLater
    <3>4. calls[Boot].phase = "done" => calls'[Boot].phase = "done"
      BY <1>2, <3>2
    <3> QED BY <3>1, <3>2, <3>3, <3>4
  <2>2. CASE calls' = cs /\ pending' = left
    <3>1. ASSUME NEW c \in Callers, c # Boot \/ calls[c].phase \in {"idle", "done"}
          PROVE  StdLater(c) /\ calls'[c].phase = calls[c].phase
      <4>1. calls'[c] = calls[c]
        BY <1>4, <2>2, <3>1
      <4>2. Awaits(calls[c]) => c # Boot
        BY <3>1 DEF Awaits, Asking
      <4>3. Awaits(calls[c]) => calls[c].id \in pending /\ calls[c].id # 0
        BY TypeParts DEF StdioSound, TableSound, PendingIsAwaited, TableTypes
      <4>4. Awaits(calls[c]) => calls[c].id # calls[Boot].id
        BY <1>2, <4>2, <4>3 DEF StdioSound, TableSound, Unique
      <4>5. StdListed(c)
        BY <1>3, <2>2, <4>1, <4>3, <4>4 DEF StdListed
      <4> QED BY <4>1, <4>5 DEF StdLater, StdHanded, StdProceeds
    <3>2. ASSUME calls[Boot].phase \notin {"idle", "done"}
          PROVE  StdLater(Boot) /\ calls'[Boot].phase = "done"
      <4>1. calls'[Boot] = Done(calls[Boot].id, end)
        BY <1>4, <2>2, <3>2
      <4>2. Awaits(calls[Boot]) /\ calls[Boot].id \in pending' => end \in {"cancelled", "broken"}
        BY <1>3, <2>2, <3>2
      <4> QED BY <1>2, <3>2, <4>1, <4>2, DoneLater
    <3>3. calls[Boot].phase = "done" => calls'[Boot].phase = "done"
      BY <1>2, <3>1
    <3> QED BY <1>3, <1>4, <2>2, <3>1, <3>2, <3>3
  <2> QED BY <1>1, <2>1, <2>2
<1>8. StdSettled
  BY <1>1, <1>7 DEF StdSettled
<1>9. TableTypes' /\ calls' \in [Callers -> CallTypes'] /\ TableSound' /\ Rest
  BY <1>7, <1>8, StdTable
<1>10. \A q \in Procs :
         closing'[q] = IF pooled /\ q = process THEN "quit"
                       ELSE IF closing[q] \in {"sweep", Boot} THEN Nothing ELSE closing[q]
  BY <1>1, <1>2, <1>5, <1>6
<1>11. closing' \in [Procs -> Callers \cup {"sweep", "quit", Nothing}]
  BY <1>1, <1>6
<1>12. /\ process' \in {process, Nothing} /\ (pooled => process' = Nothing)
       /\ connected' \in {connected, FALSE} /\ life' \in {"up", "closing", "closed"}
  BY <1>1
<1>13. TransportTypes'
  <2>1. process' # Nothing => procs'[process'] # "none" /\ closing'[process'] = Nothing
    BY <1>0, <1>1, <1>2, <1>10, <1>12 DEF TransportTypes
  <2> QED BY <1>0, <1>1, <1>11, <1>12, <2>1 DEF TransportTypes
<1>14. \A q \in Procs : q = process => closing[q] = Nothing /\ procs[q] # "none"
  BY <1>0, <1>2 DEF TransportTypes
<1>15. ClosersWait'
  <2>1. ASSUME NEW d \in Callers, calls'[d].phase = "closing" PROVE \E q \in Procs : closing'[q] = d
    <3>1. d # Boot /\ calls[d].phase = "closing"
      BY <1>7, <2>1
    <3>2. PICK q \in Procs : closing[q] = d
      BY <1>0, <3>1 DEF ClosersWait
    <3>3. "sweep" \notin Callers
      BY McpAssumption
    <3> QED BY <1>2, <1>10, <1>14, <3>1, <3>2, <3>3
  <2> QED BY <2>1 DEF ClosersWait
<1>16. ClosesStarted'
  <2>1. ASSUME NEW q \in Procs
        PROVE  /\ procs'[q] = "none" => closing'[q] = Nothing
               /\ closing'[q] \in Callers =>
                    calls'[closing'[q]].phase = "closing" /\ \A r \in Procs : closing'[r] = closing'[q] => r = q
    <3>1. procs'[q] = "none" => closing'[q] = Nothing
      BY <1>0, <1>1, <1>10, <1>14 DEF ClosesStarted
    <3>2. ASSUME closing'[q] \in Callers
          PROVE  calls'[closing'[q]].phase = "closing" /\ \A r \in Procs : closing'[r] = closing'[q] => r = q
      <4>1. closing'[q] = closing[q] /\ closing[q] # Boot
        BY <1>2, <1>10, <3>2
      <4>2. calls[closing[q]].phase = "closing" /\ \A r \in Procs : closing[r] = closing[q] => r = q
        BY <1>0, <3>2, <4>1 DEF ClosesStarted
      <4> QED BY <1>2, <1>7, <1>10, <3>2, <4>1, <4>2
    <3> QED BY <3>1, <3>2
  <2> QED BY <2>1 DEF ClosesStarted
<1> QED BY <1>9, <1>13, <1>15, <1>16, TypePartsNext DEF StdioSound

(***************************************************************************)
(* Steps that send                                                         *)
(***************************************************************************)
\* A caller that waits for nothing takes a new id: with a request that awaits
\* its answer, or it is over and the id stays.
LEMMA StdAsks ==
  ASSUME StdioSound, NEW c \in Callers, ~Awaits(calls[c]), calls[c].end = Nothing,
         calls' \in [Callers -> CallTypes'], \A d \in Callers \ {c} : calls'[d] = calls[d],
         nextId' = nextId + 1, pending' = pending \cup {nextId},
         calls'[c].id = nextId, calls'[c].got = Nothing, calls'[c].connects <= Ensures(c),
         \/ /\ calls'[c].phase \in Asking /\ calls'[c].end = Nothing
            /\ \E p \in Procs : asked' = asked \cup {[proc |-> p, request |-> Request(c, calls'[c].phase)]}
         \/ calls'[c].phase = "done" /\ calls'[c].end = "broken" /\ asked' = asked
  PROVE  TableTypes' /\ TableSound'
<1>0. TableTypes /\ calls \in [Callers -> CallTypes] /\ TableSound
  BY TypeParts DEF StdioSound
<1>1. /\ nextId \in Nat \ {0} /\ pending \subseteq 1..(nextId - 1)
      /\ asked \subseteq [proc : Procs, request : Requests]
      /\ \A d \in Callers : calls[d].id \in 0..(nextId - 1)
      /\ \A d \in Callers : calls'[d].id = IF d = c THEN nextId ELSE calls[d].id
  BY <1>0 DEF TableTypes, CallTypes
<1>2. \A a \in asked' :
        \/ a \in asked
        \/ /\ a.request \in Requests /\ a.request.id = nextId /\ a.request.by = c
           /\ a.request.what = calls'[c].phase /\ a.proc \in Procs /\ calls'[c].phase \in Asking
           /\ a = [proc |-> a.proc, request |-> a.request]
  BY <1>1 DEF Request, Requests, Asking
<1>3. Awaits(calls'[c]) \/ calls'[c].end = "broken"
  BY DEF Awaits
<1>4. TableTypes'
  <2>1. asked' \subseteq [proc : Procs, request : Requests]
    BY <1>1, <1>2
  <2> QED BY <1>1, <2>1 DEF TableTypes
<1>5. PendingIsAwaited'
  <2>1. \A d \in Callers : Awaits(calls'[d]) => calls'[d].id \in pending'
    BY <1>0 DEF TableSound, PendingIsAwaited
  <2>2. ASSUME NEW i \in pending'
        PROVE  \E d \in Callers :
          calls'[d].id = i /\ (Awaits(calls'[d]) \/ calls'[d].end \in {"cancelled", "broken"})
    <3>1. CASE i = nextId
      BY <1>3, <3>1
    <3>2. CASE i \in pending
      <4>1. PICK d \in Callers :
              calls[d].id = i /\ (Awaits(calls[d]) \/ calls[d].end \in {"cancelled", "broken"})
        BY <1>0, <3>2 DEF TableSound, PendingIsAwaited
      <4>2. Nothing \notin {"cancelled", "broken"}
        BY ServersAssumption
      <4>3. d # c
        BY <4>1, <4>2
      <4> QED BY <4>1, <4>3
    <3> QED BY <3>1, <3>2
  <2> QED BY <2>1, <2>2 DEF PendingIsAwaited, Awaits
<1>6. AnswerIsMine'
  <2> SUFFICES ASSUME NEW d \in Callers, calls'[d].got \in Requests
               PROVE  /\ calls'[d].got.by = d /\ calls'[d].got.id = calls'[d].id
                      /\ calls'[d].phase \in {"initialize", "shaking", "initialized"} =>
                           calls'[d].got.what = "initialize"
                      /\ calls'[d].phase \in {"call", "waiting"} => calls'[d].got.what = "call"
    BY DEF AnswerIsMine, Requests
  <2>1. d # c
    BY McpAssumption
  <2> QED BY <1>0, <2>1 DEF TableSound, AnswerIsMine
<1>7. Unique'
  <2>1. \A d, e \in Callers : d # e /\ calls[d].id # 0 => calls[d].id # calls[e].id
    BY <1>0 DEF TableSound, Unique
  <2>2. \A d, e \in Callers : d # e /\ calls'[d].id # 0 => calls'[d].id # calls'[e].id
    BY <1>1, <2>1
  <2> QED BY <2>2 DEF Unique
<1>8. Owned'
  <2> SUFFICES ASSUME NEW a \in asked'
               PROVE  /\ a.request.id < nextId'
                      /\ \A d \in Callers : calls'[d].id = a.request.id =>
                           /\ a.request.by = d
                           /\ Awaits(calls'[d]) =>
                                a.request.what = IF calls'[d].phase \in {"initialize", "shaking"}
                                                 THEN "initialize" ELSE "call"
    BY DEF Owned, Awaits
  <2>1. CASE a \in asked
    <3>1. a.request.id < nextId /\ a.request.id \in Nat
      BY <1>0, <1>1, <2>1 DEF TableSound, Owned, Requests
    <3>2. \A d \in Callers : calls'[d].id = a.request.id => d # c /\ calls'[d] = calls[d]
      BY <1>1, <3>1
    <3> QED BY <1>0, <1>1, <2>1, <3>1, <3>2 DEF TableSound, Owned
  <2>2. CASE a \notin asked
    <3>1. /\ a.request.id = nextId /\ a.request.by = c
          /\ a.request.what = calls'[c].phase /\ calls'[c].phase \in Asking
      BY <1>2, <2>2
    <3>2. \A d \in Callers : calls'[d].id = nextId => d = c
      BY <1>1
    <3> QED BY <1>1, <3>1, <3>2 DEF Asking
  <2> QED BY <2>1, <2>2
<1>9. Counts'
  <2>1. /\ calls'[c].phase # "idle" /\ (calls'[c].end # Nothing => calls'[c].phase = "done")
    BY DEF Asking
  <2> QED BY <1>0, <2>1 DEF TableSound, Counts, Ensures, Fresh
<1> QED BY <1>4, <1>5, <1>6, <1>7, <1>8, <1>9 DEF TableSound

\* It goes on without an id: it connects, or could not send.
LEMMA StdAsksNot ==
  ASSUME StdioSound, NEW c \in Callers, ~Awaits(calls[c]), calls[c].end = Nothing,
         calls' \in [Callers -> CallTypes'], \A d \in Callers \ {c} : calls'[d] = calls[d],
         nextId' \in {nextId, nextId + 1}, pending' = pending, asked' = asked,
         calls'[c].id = calls[c].id, calls'[c].got \in {Nothing, calls[c].got},
         calls'[c].connects <= Ensures(c),
         calls'[c].phase \in {"spawning", "done"}, calls'[c].end = Nothing
  PROVE  TableTypes' /\ TableSound'
<1>0. TableTypes /\ calls \in [Callers -> CallTypes] /\ TableSound
  BY TypeParts DEF StdioSound
<1>1. /\ nextId \in Nat \ {0} /\ pending \subseteq 1..(nextId - 1)
      /\ \A d \in Callers : calls'[d].id = calls[d].id
  BY <1>0 DEF TableTypes
<1>2. TableTypes'
  <2>1. nextId' \in Nat \ {0} /\ \A i \in 1..(nextId - 1) : i \in 1..(nextId' - 1)
    <3>1. CASE nextId' = nextId
      BY ONLY <1>1, <3>1
    <3>2. CASE nextId' = nextId + 1
      BY ONLY <1>1, <3>2
    <3> QED BY <3>1, <3>2
  <2>2. pending' \subseteq 1..(nextId' - 1)
    BY <1>1, <2>1
  <2> QED BY <1>0, <2>1, <2>2 DEF TableTypes
<1>3. \A d \in Callers : Awaits(calls'[d]) <=> Awaits(calls[d])
  <2>1. ~Awaits(calls'[c])
    BY DEF Awaits, Asking
  <2> QED BY <2>1
<1>4. PendingIsAwaited'
  <2>1. \A d \in Callers : Awaits(calls'[d]) => calls'[d].id \in pending'
    BY <1>0, <1>1, <1>3 DEF TableSound, PendingIsAwaited
  <2>2. ASSUME NEW i \in pending'
        PROVE  \E d \in Callers :
          calls'[d].id = i /\ (Awaits(calls'[d]) \/ calls'[d].end \in {"cancelled", "broken"})
    <3>1. PICK d \in Callers :
            calls[d].id = i /\ (Awaits(calls[d]) \/ calls[d].end \in {"cancelled", "broken"})
      BY <1>0 DEF TableSound, PendingIsAwaited
    <3>2. Nothing \notin {"cancelled", "broken"}
      BY ServersAssumption
    <3>3. d # c
      BY <3>1, <3>2
    <3> QED BY <3>1, <3>3
  <2> QED BY <2>1, <2>2 DEF PendingIsAwaited, Awaits
<1>5. AnswerIsMine'
  <2> SUFFICES ASSUME NEW d \in Callers, calls'[d].got \in Requests
               PROVE  /\ calls'[d].got.by = d /\ calls'[d].got.id = calls'[d].id
                      /\ calls'[d].phase \in {"initialize", "shaking", "initialized"} =>
                           calls'[d].got.what = "initialize"
                      /\ calls'[d].phase \in {"call", "waiting"} => calls'[d].got.what = "call"
    BY DEF AnswerIsMine, Requests
  <2>1. Nothing \notin Requests
    BY McpAssumption
  <2> QED BY <1>0, <1>1, <2>1 DEF TableSound, AnswerIsMine
<1>6. Unique'
  BY <1>0, <1>1 DEF TableSound, Unique
<1>7. Owned'
  <2> SUFFICES ASSUME NEW a \in asked
               PROVE  /\ a.request.id < nextId'
                      /\ \A d \in Callers : calls'[d].id = a.request.id =>
                           /\ a.request.by = d
                           /\ Awaits(calls'[d]) =>
                                a.request.what = IF calls'[d].phase \in {"initialize", "shaking"}
                                                 THEN "initialize" ELSE "call"
    BY DEF Owned, Awaits
  <2>1. a.request.id < nextId /\ a.request.id \in Nat
    BY <1>0 DEF TableSound, Owned, TableTypes, Requests
  <2>2. a.request.id < nextId'
    BY <1>1, <2>1
  <2>3. \A d \in Callers : Awaits(calls'[d]) => d # c
    BY <1>3
  <2> QED BY <1>0, <1>1, <1>3, <2>2, <2>3 DEF TableSound, Owned
<1>8. Counts'
  BY <1>0 DEF TableSound, Counts, Ensures, Fresh
<1> QED BY <1>2, <1>4, <1>5, <1>6, <1>7, <1>8 DEF TableSound

\* What a process has to do with callers of which none begins or ends a close.
LEMMA StillClosing ==
  ASSUME ClosersWait, ClosesStarted, closing' = closing,
         \A q \in Procs : procs'[q] = "none" => procs[q] = "none",
         \A d \in Callers : calls'[d].phase = "closing" <=> calls[d].phase = "closing"
  PROVE  ClosersWait' /\ ClosesStarted'
BY DEF ClosersWait, ClosesStarted

\* _send_request of a call: the table, and who it concerns.
LEMMA StdSendCall ==
  ASSUME StdioSound, NEW c \in Callers, SendCall(c), ~Awaits(calls[c]),
         calls[c].phase \in {"idle", "initialized", "waiting"}
  PROVE  /\ TableTypes' /\ calls' \in [Callers -> CallTypes'] /\ TableSound'
         /\ \A d \in Callers \ {c} : calls'[d] = calls[d]
         /\ \A d \in Callers : calls'[d].phase = "closing" <=> calls[d].phase = "closing"
<1>0. /\ TransportTypes /\ TableTypes /\ calls \in [Callers -> CallTypes] /\ TableSound
      /\ calls[c] \in CallTypes
  BY TypeParts DEF StdioSound
<1>1. nextId' = nextId + 1 /\ nextId \in Nat \ {0}
  BY <1>0 DEF SendCall, TableTypes
<1>2. calls[c].end = Nothing /\ calls[c].connects <= Ensures(c)
  BY <1>0 DEF TableSound, Counts
<1>3. /\ \A rec \in CallTypes : rec \in CallTypes'
      /\ nextId \in 0..(nextId' - 1)
  BY <1>1 DEF CallTypes
<1>4. CASE /\ Up /\ pending' = pending \cup {nextId}
           /\ asked' = asked \cup {[proc |-> process, request |-> Request(c, "call")]}
           /\ calls' = [calls EXCEPT ![c].phase = "call", ![c].id = nextId, ![c].got = Nothing]
  <2> DEFINE new == [calls[c] EXCEPT !.phase = "call", !.id = nextId, !.got = Nothing]
  <2>1. calls' = [calls EXCEPT ![c] = new]
    BY <1>0, <1>4
  <2>2. /\ new \in CallTypes'
        /\ new.phase = "call" /\ new.id = nextId /\ new.got = Nothing /\ new.end = Nothing
        /\ new.connects = calls[c].connects
    BY <1>0, <1>1, <1>2, <1>3 DEF CallTypes, Phases, Asking
  <2> HIDE DEF new
  <2>3. calls' \in [Callers -> CallTypes'] /\ calls'[c] = new
    BY <1>0, <1>3, <2>1, <2>2
  <2>4. \A d \in Callers \ {c} : calls'[d] = calls[d]
    BY <1>0, <2>1
  <2>5. process \in Procs /\ "call" \in Asking
    BY <1>0, <1>4 DEF Up, TransportTypes, Asking
  <2>6. \E p \in Procs : asked' = asked \cup {[proc |-> p, request |-> Request(c, calls'[c].phase)]}
    BY <1>4, <2>2, <2>3, <2>5
  <2>7. calls'[c].connects <= Ensures(c)
    BY <1>2, <2>2, <2>3
  <2>8. /\ calls'[c].phase \in Asking /\ calls'[c].end = Nothing
        /\ calls'[c].id = nextId /\ calls'[c].got = Nothing
    BY <2>2, <2>3, <2>5
  <2>9. TableTypes' /\ TableSound'
    BY <1>1, <1>2, <1>4, <2>3, <2>4, <2>6, <2>7, <2>8, StdAsks
  <2>10. \A d \in Callers : calls'[d].phase = "closing" <=> calls[d].phase = "closing"
    BY <2>2, <2>3, <2>4
  <2> QED BY <2>3, <2>4, <2>9, <2>10
<1>5. CASE /\ Up /\ pending' = pending \cup {nextId} /\ asked' = asked
           /\ calls' = [calls EXCEPT ![c] = Done(nextId, "broken")]
  <2> DEFINE new == Done(nextId, "broken")
  <2>1. calls' = [calls EXCEPT ![c] = new]
    BY <1>5
  <2>2. /\ new = [phase |-> "done", id |-> nextId, got |-> Nothing, connects |-> 0, end |-> "broken"]
        /\ new.phase = "done" /\ new.id = nextId /\ new.got = Nothing /\ new.end = "broken"
        /\ new.connects = 0
    BY DoneIs
  <2>3. new \in CallTypes'
    BY <1>3, <2>2 DEF CallTypes, Phases, LeftEnds
  <2> HIDE DEF new
  <2>4. calls' \in [Callers -> CallTypes'] /\ calls'[c] = new
    BY <1>0, <1>3, <2>1, <2>3
  <2>5. \A d \in Callers \ {c} : calls'[d] = calls[d]
    BY <1>0, <2>1
  <2>6. calls'[c].connects <= Ensures(c)
    BY <2>2, <2>4 DEF Ensures
  <2>7. /\ calls'[c].phase = "done" /\ calls'[c].end = "broken"
        /\ calls'[c].id = nextId /\ calls'[c].got = Nothing
    BY <2>2, <2>4
  <2>8. TableTypes' /\ TableSound'
    BY <1>1, <1>2, <1>5, <2>4, <2>5, <2>6, <2>7, StdAsks
  <2>9. \A d \in Callers : calls'[d].phase = "closing" <=> calls[d].phase = "closing"
    BY <2>2, <2>4, <2>5
  <2> QED BY <2>4, <2>5, <2>8, <2>9
<1>6. CASE calls' = Ends(c, Nothing) /\ pending' = pending /\ asked' = asked
  <2>1. Nothing \in LeftEnds
    BY DEF LeftEnds
  <2>2. /\ Ends(c, Nothing) \in [Callers -> CallTypes]
        /\ \A d \in Callers \ {c} : Ends(c, Nothing)[d] = calls[d]
        /\ Ends(c, Nothing)[c].phase = "done" /\ Ends(c, Nothing)[c].id = calls[c].id
        /\ Ends(c, Nothing)[c].got = Nothing /\ Ends(c, Nothing)[c].end = Nothing
        /\ Ends(c, Nothing)[c].connects = 0
    BY <1>0, <2>1, StdEndsIs
  <2>3. calls' \in [Callers -> CallTypes']
    BY <1>3, <1>6, <2>2
  <2>4. \A d \in Callers \ {c} : calls'[d] = calls[d]
    BY <1>6, <2>2
  <2>5. /\ calls'[c].phase = "done" /\ calls'[c].id = calls[c].id
        /\ calls'[c].got = Nothing /\ calls'[c].end = Nothing /\ calls'[c].connects = 0
    BY <1>6, <2>2
  <2>6. calls'[c].connects <= Ensures(c)
    BY <2>5 DEF Ensures
  <2>7. TableTypes' /\ TableSound'
    BY <1>1, <1>2, <1>6, <2>3, <2>4, <2>5, <2>6, StdAsksNot
  <2>8. \A d \in Callers : calls'[d].phase = "closing" <=> calls[d].phase = "closing"
    BY <2>4, <2>5
  <2> QED BY <2>3, <2>4, <2>7, <2>8
<1> QED BY <1>4, <1>5, <1>6 DEF SendCall

\* connect, up to the process.
LEMMA StdSpawn ==
  ASSUME StdioSound, NEW c \in Callers, NEW passed \in 0..3, passed <= Ensures(c), Spawn(c, passed),
         ~Awaits(calls[c]), calls[c].phase \in {"idle", "initialized", "waiting"}
  PROVE  /\ TableTypes' /\ calls' \in [Callers -> CallTypes'] /\ TableSound'
         /\ \A d \in Callers \ {c} : calls'[d] = calls[d]
         /\ \A d \in Callers : calls'[d].phase = "closing" <=> calls[d].phase = "closing"
<1>0. TableSound /\ calls \in [Callers -> CallTypes] /\ calls[c] \in CallTypes
  BY TypeParts DEF StdioSound
<1>1. /\ nextId' = nextId /\ pending' = pending /\ asked' = asked
      /\ calls' = [calls EXCEPT ![c].phase = "spawning", ![c].connects = passed]
  BY DEF Spawn
<1>2. calls[c].end = Nothing
  BY <1>0 DEF TableSound, Counts
<1> DEFINE new == [calls[c] EXCEPT !.phase = "spawning", !.connects = passed]
<1>3. calls' = [calls EXCEPT ![c] = new]
  BY <1>0, <1>1
<1>4. /\ new \in CallTypes
      /\ new.phase = "spawning" /\ new.id = calls[c].id /\ new.got = calls[c].got
      /\ new.end = Nothing /\ new.connects = passed
  BY <1>0, <1>2 DEF CallTypes, Phases
<1> HIDE DEF new
<1>5. calls' \in [Callers -> CallTypes] /\ calls'[c] = new
  BY <1>0, <1>3, <1>4
<1>6. calls' \in [Callers -> CallTypes']
  BY <1>1, <1>5 DEF CallTypes
<1>7. \A d \in Callers \ {c} : calls'[d] = calls[d]
  BY <1>0, <1>3
<1>8. /\ calls'[c].phase = "spawning" /\ calls'[c].id = calls[c].id /\ calls'[c].got = calls[c].got
      /\ calls'[c].end = Nothing /\ calls'[c].connects <= Ensures(c)
  BY <1>4, <1>5
<1>9. TableTypes' /\ TableSound'
  BY <1>1, <1>2, <1>6, <1>7, <1>8, StdAsksNot
<1>10. \A d \in Callers : calls'[d].phase = "closing" <=> calls[d].phase = "closing"
  BY <1>7, <1>8
<1> QED BY <1>6, <1>7, <1>9, <1>10

\* Either of them.
LEMMA StdSendsOrSpawns ==
  ASSUME StdioSound, NEW c \in Callers, NEW passed \in 0..3, passed <= Ensures(c),
         SendCall(c) \/ Spawn(c, passed),
         ~Awaits(calls[c]), calls[c].phase \in {"idle", "initialized", "waiting"},
         UNCHANGED <<connected, notified, process, readerTask, procs, readers, closing,
                     registered, life>>,
         pooled' \in BOOLEAN
  PROVE  StdioSound' /\ \A d \in Callers \ {c} : calls'[d] = calls[d]
<1>1. /\ TableTypes' /\ calls' \in [Callers -> CallTypes'] /\ TableSound'
      /\ \A d \in Callers \ {c} : calls'[d] = calls[d]
      /\ \A d \in Callers : calls'[d].phase = "closing" <=> calls[d].phase = "closing"
  BY StdSendCall, StdSpawn
<1>2. TransportTypes /\ ClosersWait /\ ClosesStarted
  BY TypeParts DEF StdioSound
<1>3. TransportTypes'
  BY <1>2 DEF TransportTypes
<1>4. closing' = closing /\ procs' = procs
  OBVIOUS
<1>5. ClosersWait' /\ ClosesStarted'
  BY <1>1, <1>2, <1>4, StillClosing
<1> QED BY <1>1, <1>3, <1>5, TypePartsNext DEF StdioSound

\* A call starts, which concerns nobody else.
LEMMA StdStarts ==
  ASSUME StdioSound, NEW c \in Callers, CallStarts(c)
  PROVE  StdioSound' /\ \A d \in Callers \ {c} : calls'[d] = calls[d]
<1>1. /\ calls[c].phase = "idle" /\ (SendCall(c) \/ Spawn(c, 1))
      /\ UNCHANGED <<connected, notified, process, readerTask, procs, readers, closing,
                     registered, life>>
      /\ pooled' = pooled
  BY DEF CallStarts, transport, manager
<1>2. ~Awaits(calls[c]) /\ 1 \in 0..3 /\ 1 <= Ensures(c)
  BY <1>1 DEF Awaits, Asking, Ensures
<1>3. pooled' \in BOOLEAN
  BY <1>1, TypeParts DEF StdioSound, TransportTypes
<1> QED BY <1>1, <1>2, <1>3, StdSendsOrSpawns

\* The handshake is over and the call follows.
LEMMA StdInitialized ==
  ASSUME StdioSound, NEW c \in Callers, Initialized(c)
  PROVE  StdioSound' /\ Rest
<1>1. /\ calls[c].phase = "initialized"
      /\ IF connected \/ calls[c].connects = Ensures(c)
         THEN SendCall(c) ELSE Spawn(c, calls[c].connects + 1)
      /\ UNCHANGED <<connected, notified, process, readerTask, procs, readers, closing,
                     registered, life>>
      /\ pooled' = (pooled \/ (c = Boot /\ calls[c].connects = 1 /\ life = "up"))
  BY DEF Initialized, transport
<1>2. calls[c].connects \in 0..3 /\ calls[c].connects <= Ensures(c) /\ pooled \in BOOLEAN
  BY TypeParts DEF StdioSound, TableSound, Counts, CallTypes, TransportTypes
<1>3. ~Awaits(calls[c])
  BY <1>1 DEF Awaits, Asking
<1>4. pooled' \in BOOLEAN
  BY <1>1, <1>2
<1>5. PICK passed \in 0..3 : passed <= Ensures(c) /\ (SendCall(c) \/ Spawn(c, passed))
  <2>1. CASE connected \/ calls[c].connects = Ensures(c)
    <3>1. SendCall(c)
      BY <1>1, <2>1
    <3> QED BY <1>2, <3>1
  <2>2. CASE ~(connected \/ calls[c].connects = Ensures(c))
    <3>1. Spawn(c, calls[c].connects + 1)
      BY <1>1, <2>2
    <3>2. calls[c].connects + 1 \in 0..3 /\ calls[c].connects + 1 <= Ensures(c)
      BY <1>2, <2>2 DEF Ensures
    <3> QED BY <3>1, <3>2
  <2> QED BY <2>1, <2>2
<1>6. StdioSound' /\ \A d \in Callers \ {c} : calls'[d] = calls[d]
  BY <1>1, <1>3, <1>4, <1>5, StdSendsOrSpawns
<1> QED BY <1>1, <1>6 DEF Rest

\* A page names a next one.
LEMMA StdNextPage ==
  ASSUME StdioSound, NEW c \in Callers, NextPage(c)
  PROVE  StdioSound' /\ Rest
<1>1. /\ calls[c].phase = "waiting" /\ calls[c].got # Nothing
      /\ SendCall(c) \/ Spawn(c, Ensures(c))
      /\ UNCHANGED <<connected, notified, process, readerTask, procs, readers, closing,
                     registered, life>>
      /\ pooled' = pooled
  BY DEF NextPage, transport, manager
<1>2. ~Awaits(calls[c]) /\ Ensures(c) \in 0..3 /\ Ensures(c) <= Ensures(c)
  BY <1>1 DEF Awaits, Ensures
<1>3. pooled' \in BOOLEAN
  BY <1>1, TypeParts DEF StdioSound, TransportTypes
<1>4. StdioSound' /\ \A d \in Callers \ {c} : calls'[d] = calls[d]
  BY <1>1, <1>2, <1>3, StdSendsOrSpawns
<1> QED BY <1>1, <1>4 DEF Rest

\* A process is there.
LEMMA StdSpawned ==
  ASSUME StdioSound, NEW c \in Callers, Spawned(c)
  PROVE  StdioSound' /\ Rest
<1>0. /\ TransportTypes /\ TableTypes /\ calls \in [Callers -> CallTypes] /\ ClosersWait
      /\ ClosesStarted /\ TableSound /\ calls[c] \in CallTypes
  BY TypeParts DEF StdioSound
<1>1. PICK p \in Procs :
        /\ procs[p] = "none" /\ procs' = [procs EXCEPT ![p] = "up"]
        /\ process' = p /\ readerTask' = p /\ readers' = readers \cup {p}
        /\ asked' = asked \cup {[proc |-> p, request |-> Request(c, "initialize")]}
  BY DEF Spawned
<1>2. /\ calls[c].phase = "spawning" /\ connected' = TRUE
      /\ pending' = pending \cup {nextId} /\ nextId' = nextId + 1
      /\ calls' = [calls EXCEPT ![c].phase = "initialize", ![c].id = nextId, ![c].got = Nothing]
      /\ UNCHANGED <<notified, closing, pooled, registered, life>>
  BY DEF Spawned, manager
<1>3. /\ nextId \in Nat \ {0} /\ calls[c].end = Nothing /\ calls[c].connects <= Ensures(c)
  BY <1>0, <1>2 DEF TableTypes, TableSound, Counts
<1>4. (\A rec \in CallTypes : rec \in CallTypes') /\ nextId \in 0..(nextId' - 1)
  BY <1>2, <1>3 DEF CallTypes
<1> DEFINE new == [calls[c] EXCEPT !.phase = "initialize", !.id = nextId, !.got = Nothing]
<1>5. calls' = [calls EXCEPT ![c] = new]
  BY <1>0, <1>2
<1>6. /\ new \in CallTypes'
      /\ new.phase = "initialize" /\ new.id = nextId /\ new.got = Nothing /\ new.end = Nothing
      /\ new.connects = calls[c].connects
  BY <1>0, <1>2, <1>3, <1>4 DEF CallTypes, Phases, Asking
<1> HIDE DEF new
<1>7. calls' \in [Callers -> CallTypes'] /\ calls'[c] = new
  BY <1>0, <1>4, <1>5, <1>6
<1>8. \A d \in Callers \ {c} : calls'[d] = calls[d]
  BY <1>0, <1>5
<1>9. ~Awaits(calls[c]) /\ "initialize" \in Asking
  BY <1>2 DEF Awaits, Asking
<1>10. \E q \in Procs : asked' = asked \cup {[proc |-> q, request |-> Request(c, calls'[c].phase)]}
  BY <1>1, <1>6, <1>7
<1>11. /\ calls'[c].phase \in Asking /\ calls'[c].end = Nothing /\ calls'[c].id = nextId
       /\ calls'[c].got = Nothing /\ calls'[c].connects <= Ensures(c)
  BY <1>3, <1>6, <1>7, <1>9
<1>12. TableTypes' /\ TableSound'
  BY <1>2, <1>3, <1>7, <1>8, <1>9, <1>10, <1>11, StdAsks
<1>13. \A d \in Callers : calls'[d].phase = "closing" <=> calls[d].phase = "closing"
  BY <1>2, <1>6, <1>7, <1>8
<1>14. \A q \in Procs : procs'[q] = "none" => procs[q] = "none"
  BY <1>0, <1>1 DEF TransportTypes
<1>15. closing' = closing
  BY <1>2
<1>16. ClosersWait' /\ ClosesStarted'
  BY <1>0, <1>13, <1>14, <1>15, StillClosing
<1>17. closing[p] = Nothing
  BY <1>0, <1>1 DEF ClosesStarted
<1>18. TransportTypes'
  BY <1>0, <1>1, <1>2, <1>17 DEF TransportTypes
<1>19. Rest
  BY <1>2, <1>8 DEF Rest
<1> QED BY <1>7, <1>12, <1>16, <1>18, <1>19, TypePartsNext DEF StdioSound

\* The session is left alone.
LEMMA StdUnchanged ==
  ASSUME StdioSound, UNCHANGED vars
  PROVE  StdioSound' /\ Rest
<1>1. /\ calls' = calls /\ pending' = pending /\ asked' = asked /\ nextId' = nextId
      /\ UNCHANGED <<connected, notified, process, readerTask, procs, readers, closing, pooled,
                     registered, life>>
  BY DEF vars
<1>2. TableTypes' /\ calls' \in [Callers -> CallTypes'] /\ TableSound' /\ Rest
  BY <1>1, StdStays
<1>3. TransportTypes' /\ ClosersWait' /\ ClosesStarted'
  BY <1>1, TypeParts DEF StdioSound, TransportTypes, ClosersWait, ClosesStarted
<1> QED BY <1>2, <1>3, TypePartsNext DEF StdioSound

\* A call that was not allowed to begin is over.
LEMMA StdDenied ==
  ASSUME StdioSound, NEW c \in Callers, calls[c].phase = "idle",
         calls' = [calls EXCEPT ![c].phase = "done"],
         UNCHANGED <<connected, notified, transport, pending, nextId, asked, manager>>
  PROVE  StdioSound' /\ \A d \in Callers \ {c} : calls'[d] = calls[d]
<1>0. /\ TransportTypes /\ calls \in [Callers -> CallTypes] /\ ClosersWait /\ ClosesStarted
      /\ TableSound /\ calls[c] \in CallTypes
  BY TypeParts DEF StdioSound
<1>1. /\ pending' = pending /\ asked' = asked /\ nextId' = nextId
      /\ UNCHANGED <<connected, notified, process, readerTask, procs, readers, closing, pooled,
                     registered, life>>
  BY DEF transport, manager
<1>2. calls[c].end = Nothing /\ calls[c].connects <= Ensures(c) /\ ~Awaits(calls[c])
  BY <1>0 DEF TableSound, Counts, Awaits, Asking
<1> DEFINE new == [calls[c] EXCEPT !.phase = "done"]
<1>3. calls' = [calls EXCEPT ![c] = new]
  BY <1>0
<1>4. /\ new \in CallTypes
      /\ new.phase = "done" /\ new.id = calls[c].id /\ new.got = calls[c].got
      /\ new.end = Nothing /\ new.connects = calls[c].connects
  BY <1>0, <1>2 DEF CallTypes, Phases
<1> HIDE DEF new
<1>5. calls' \in [Callers -> CallTypes] /\ calls'[c] = new
  BY <1>0, <1>3, <1>4
<1>6. calls' \in [Callers -> CallTypes']
  BY <1>1, <1>5 DEF CallTypes
<1>7. \A d \in Callers \ {c} : calls'[d] = calls[d]
  BY <1>0, <1>3
<1>8. /\ calls'[c].phase = "done" /\ calls'[c].id = calls[c].id /\ calls'[c].got = calls[c].got
      /\ calls'[c].end = Nothing /\ calls'[c].connects <= Ensures(c)
  BY <1>2, <1>4, <1>5
<1>9. TableTypes' /\ TableSound'
  BY <1>1, <1>2, <1>6, <1>7, <1>8, StdAsksNot
<1>10. \A d \in Callers : calls'[d].phase = "closing" <=> calls[d].phase = "closing"
  BY <1>7, <1>8
<1>11. closing' = closing /\ procs' = procs
  BY <1>1
<1>12. ClosersWait' /\ ClosesStarted'
  BY <1>0, <1>10, <1>11, StillClosing
<1>13. TransportTypes'
  BY <1>0, <1>1 DEF TransportTypes
<1> QED BY <1>6, <1>7, <1>9, <1>12, <1>13, TypePartsNext DEF StdioSound

\* What a caller does.
LEMMA StdCallerSteps ==
  ASSUME StdioSound, NEW c \in Callers, Step(c) \/ SendEnds(c) \/ CallCancelled(c)
  PROVE  StdioSound' /\ Rest
<1>1. CASE Step(c)
  BY <1>1, StdSpawned, StdSpawnFails, StdSuits, StdHandshakeFails, StdHandshakeTimesOut,
     StdCallReturns, StdNextPage, StdCallTimesOut DEF Step
<1>2. CASE SendEnds(c)
  BY <1>2, StdSent, StdSendFails, StdInitialized DEF SendEnds
<1>3. CASE CallCancelled(c)
  BY <1>3, StdCallCancelled
<1> QED BY <1>1, <1>2, <1>3

\* The steps of a stdio session.
LEMMA StdSteps ==
  ASSUME StdioSound
  PROVE  /\ \A c \in Callers :
              Step(c) \/ SendEnds(c) \/ CallCancelled(c) => StdioSound' /\ Rest
         /\ \A p \in Procs :
              Deliver(p) \/ ProcDies(p) \/ ReaderEnds(p) \/ CloseEnds(p) => StdioSound' /\ Rest
         /\ Sweep \/ Quit => StdioSound' /\ Rest
<1>1. ASSUME NEW c \in Callers, Step(c) \/ SendEnds(c) \/ CallCancelled(c)
      PROVE  StdioSound' /\ Rest
  BY <1>1, StdCallerSteps
<1>2. ASSUME NEW p \in Procs, Deliver(p) \/ ProcDies(p) \/ ReaderEnds(p) \/ CloseEnds(p)
      PROVE  StdioSound' /\ Rest
  BY <1>2, StdDeliver, StdProcDies, StdReaderEnds, StdCloseEnds
<1>3. ASSUME Sweep \/ Quit
      PROVE  StdioSound' /\ Rest
  BY <1>3, StdSweep, StdQuit
<1> QED BY <1>1, <1>2, <1>3

(***************************************************************************)
(* The whole                                                               *)
(***************************************************************************)
\* A call is under way or has sent a request.
Started(c) == calls[c].phase \notin {"idle", "done"} \/ calls[c].id # 0

\* What RemoteConsented asks for.
Consented == server.listed \/ (server.trusted /\ server.hinted) \/ yes # {}

\* Who has started may; a dialog is open for calls that have not started.
ConsentSound ==
  /\ \A c \in Callers \ {Boot} : Started(c) => Consented
  /\ \A c \in dialog : calls[c].phase = "idle"
  /\ allowed => yes # {}

\* The invariant: each kind of session has its own.
IInv ==
  /\ ServersTypeOK /\ ConsentSound
  /\ kind = "stdio" => StdioSound
  /\ kind = "http" => HttpSound

\* The program starts in the invariant.
LEMMA InitIInv == ServersInit => IInv
<1> SUFFICES ASSUME ServersInit PROVE IInv
  OBVIOUS
<1> USE McpAssumption, ServersAssumption DEF ServersInit
<1>1. ConsentSound
  <2>1. \A c \in Callers : calls[c].phase = "idle" /\ calls[c].id = 0
    BY DEF Init, Fresh, Http!Init, Http!Fresh
  <2> QED BY <2>1 DEF ConsentSound, Started
<1>2. CASE kind = "stdio"
  <2>1. Init
    BY <1>2
  <2>2. TypeOK
    <3>1. Fresh \in CallTypes
      BY <2>1 DEF Init, Fresh, CallTypes, Phases, LeftEnds
    <3>2. calls = [c \in Callers |-> Fresh]
      BY <2>1 DEF Init
    <3>3. \A c \in Callers : calls[c].phase = "idle"
      BY <3>2 DEF Fresh
    <3>4. calls \in [Callers -> CallTypes]
      BY <3>1, <3>2
    <3> HIDE DEF ServersInit
    <3>5. /\ connected \in BOOLEAN /\ notified \in BOOLEAN
          /\ pooled \in BOOLEAN /\ registered \in BOOLEAN /\ life \in {"up", "closing", "closed"}
      BY <2>1 DEF Init
    <3>6. /\ process = Nothing /\ readerTask = Nothing
          /\ procs \in [Procs -> {"none", "up", "dead"}] /\ readers = {}
          /\ closing \in [Procs -> Callers \cup {"sweep", "quit", Nothing}]
      BY <2>1 DEF Init
    <3>7. nextId \in Nat \ {0} /\ pending = {} /\ asked = {}
      BY <2>1 DEF Init
    <3>8. TransportTypes /\ TableTypes /\ ClosersWait
      BY <3>3, <3>5, <3>6, <3>7 DEF TransportTypes, TableTypes, ClosersWait
    <3> QED BY <3>4, <3>8, TypeParts
  <2>3. PendingIsAwaited /\ AnswerIsMine
    BY <2>1 DEF Init, PendingIsAwaited, AnswerIsMine, Awaits, Asking, Fresh, Requests
  <2>4. Unique /\ Owned /\ Counts /\ ClosesStarted
    <3>1. \A c \in Callers :
            calls[c] = Fresh /\ calls[c].id = 0 /\ calls[c].connects = 0 /\ calls[c].end = Nothing
      BY <2>1 DEF Init, Fresh
    <3>2. asked = {} /\ \A p \in Procs : closing[p] = Nothing
      BY <2>1 DEF Init
    <3>3. Unique /\ Owned
      BY <3>1, <3>2 DEF Unique, Owned
    <3>4. Counts
      BY <3>1 DEF Counts, Ensures
    <3> QED BY <3>2, <3>3, <3>4 DEF ClosesStarted
  <2>5. /\ dialog \subseteq Callers /\ allowed \in BOOLEAN /\ yes \subseteq Callers
        /\ server \in ToolConfig
    <3>1. server = [trusted |-> FALSE, hinted |-> FALSE, listed |-> TRUE]
      BY <1>2
    <3>2. dialog = {} /\ allowed = FALSE /\ yes = {}
      OBVIOUS
    <3> HIDE DEF ServersInit
    <3> QED BY <3>1, <3>2 DEF ToolConfig
  <2> QED BY <1>1, <1>2, <2>2, <2>3, <2>4, <2>5 DEF IInv, StdioSound, TableSound, ServersTypeOK
<1>3. CASE kind = "http"
  <2>1. Http!Init /\ server \in ToolConfig
    BY <1>3
  <2>2. Http!TypeOK
    <3>1. Http!Fresh \in HttpCallTypes
      BY <2>1 DEF Http!Init, Http!Fresh, HttpCallTypes
    <3>2. calls = [c \in Callers |-> Http!Fresh]
      BY <2>1 DEF Http!Init
    <3>3. calls \in [Callers -> HttpCallTypes]
      BY <3>1, <3>2
    <3>4. epoch \in 1..MaxEpochs
      BY <2>1 DEF Http!Init
    <3> HIDE DEF ServersInit
    <3>5. /\ connected \in BOOLEAN /\ client = connected
          /\ sweeping \in BOOLEAN /\ pooled \in BOOLEAN /\ registered \in BOOLEAN
          /\ life \in {"up", "closed"}
      BY <2>1 DEF Http!Init
    <3>6. sessionId \in 0..epoch /\ nextId \in Nat \ {0} /\ pending = {} /\ asked = {}
      BY <2>1 DEF Http!Init
    <3> QED BY <3>3, <3>4, <3>5, <3>6 DEF Http!TypeOK, HttpCallTypes
  <2>3. Http!PendingIsAwaited /\ Http!AnswerIsMine
    BY <2>1
       DEF Http!Init, Http!PendingIsAwaited, Http!AnswerIsMine, Http!Awaits, Http!Fresh,
           Http!Requests, Requests
  <2>4. Unique /\ HttpOwned /\ HttpPhases
    BY <2>1 DEF Http!Init, Unique, HttpOwned, HttpPhases, Ensures, Http!Fresh
  <2> QED BY <1>1, <1>3, <2>1, <2>2, <2>3, <2>4 DEF IInv, HttpSound, ServersTypeOK
<1> QED BY <1>2, <1>3

\* Over either transport a call that starts concerns nobody else.
LEMMA StartsIs ==
  ASSUME IInv, NEW c \in Callers, Starts(c)
  PROVE  /\ kind = "stdio" => StdioSound'
         /\ kind = "http" => HttpSound'
         /\ calls[c].phase = "idle" /\ \A d \in Callers \ {c} : calls'[d] = calls[d]
         /\ kind' = kind /\ server' = server
<1>1. CASE kind = "stdio" /\ CallStarts(c) /\ UNCHANGED <<kind, server, httpOnly>>
  <2>1. StdioSound
    BY <1>1 DEF IInv
  <2>2. calls[c].phase = "idle"
    BY <1>1 DEF CallStarts
  <2> QED BY <1>1, <2>1, <2>2, StdStarts
<1>2. CASE kind = "http" /\ Http!CallStarts(c) /\ UNCHANGED <<kind, server, stdioOnly>>
  <2>1. HttpSound
    BY <1>2 DEF IInv
  <2>2. calls[c].phase = "idle"
    BY <1>2 DEF Http!CallStarts
  <2> QED BY <1>2, <2>1, <2>2, HttpStarts
<1> QED BY <1>1, <1>2 DEF Starts

\* What a session does to calls that are under way is no matter of consent.
LEMMA RestConsent ==
  ASSUME IInv, Rest, UNCHANGED <<kind, server, dialog, allowed, yes>>,
         kind = "stdio" => StdioSound', kind = "http" => HttpSound'
  PROVE  IInv'
<1>1. ConsentSound'
  <2>1. \A c \in Callers : Started(c)' => Started(c)
    BY DEF Rest, Started
  <2>2. \A c \in dialog : calls'[c].phase = "idle"
    BY DEF IInv, ServersTypeOK, ConsentSound, Rest
  <2>3. (Consented => Consented') /\ (allowed' => yes' # {})
    BY DEF IInv, ConsentSound, Consented
  <2> QED BY <2>1, <2>2, <2>3 DEF IInv, ConsentSound
<1>2. kind' = kind /\ kind \in {"stdio", "http"}
  BY DEF IInv, ServersTypeOK
<1>3. ServersTypeOK'
  BY <1>2 DEF IInv, ServersTypeOK, StdioSound, HttpSound
<1> QED BY <1>1, <1>2, <1>3 DEF IInv

\* Every step keeps the invariant.
LEMMA NextIInv == IInv /\ [ServersNext]_serversVars => IInv'
<1> SUFFICES ASSUME IInv, [ServersNext]_serversVars
             PROVE  IInv'
  OBVIOUS
<1>0. kind \in {"stdio", "http"} /\ (kind = "stdio" => StdioSound) /\ (kind = "http" => HttpSound)
  BY DEF IInv, ServersTypeOK
<1>1. ASSUME NEW c \in Callers, Executes(c)
      PROVE  IInv'
  <2>1. /\ kind = "stdio" => StdioSound'
        /\ kind = "http" => HttpSound'
        /\ calls[c].phase = "idle" /\ \A d \in Callers \ {c} : calls'[d] = calls[d]
        /\ kind' = kind /\ server' = server
    BY <1>1, StartsIs DEF Executes
  <2>2. dialog' = dialog /\ allowed' = allowed /\ yes' = yes /\ c \notin dialog
        /\ (c # Boot => IsReadOnly(server) \/ allowed)
    BY <1>1 DEF Executes, NeedsConsent, consent
  <2>3. ConsentSound'
    <3>1. \A d \in Callers \ {c} : (Started(d)' => Started(d)) /\ calls'[d] = calls[d]
      BY <2>1 DEF Started
    <3>2. (Consented => Consented') /\ (allowed' => yes' # {}) /\ (c # Boot => Consented')
      BY <2>1, <2>2 DEF IInv, ConsentSound, Consented, IsReadOnly
    <3>3. \A d \in dialog' : calls'[d].phase = "idle"
      BY <2>1, <2>2 DEF IInv, ServersTypeOK, ConsentSound
    <3> QED BY <3>1, <3>2, <3>3 DEF IInv, ConsentSound
  <2>4. ServersTypeOK'
    BY <1>0, <2>1, <2>2 DEF IInv, ServersTypeOK, StdioSound, HttpSound
  <2> QED BY <1>0, <2>1, <2>3, <2>4 DEF IInv
<1>2. ASSUME NEW c \in Callers, Says(c)
      PROVE  IInv'
  <2>1. /\ kind = "stdio" => StdioSound'
        /\ kind = "http" => HttpSound'
        /\ calls[c].phase = "idle" /\ \A d \in Callers \ {c} : calls'[d] = calls[d]
        /\ kind' = kind /\ server' = server
    BY <1>2, StartsIs DEF Says
  <2>2. dialog' = dialog \ {c} /\ allowed' = TRUE /\ yes' = yes \cup {c}
    BY <1>2 DEF Says
  <2>3. ConsentSound'
    <3>1. Consented'
      BY <2>2 DEF Consented
    <3>2. \A d \in dialog' : calls'[d].phase = "idle"
      BY <2>1, <2>2 DEF IInv, ServersTypeOK, ConsentSound
    <3> QED BY <2>2, <3>1, <3>2 DEF ConsentSound
  <2>4. ServersTypeOK'
    BY <1>0, <2>1, <2>2 DEF IInv, ServersTypeOK, StdioSound, HttpSound
  <2> QED BY <1>0, <2>1, <2>3, <2>4 DEF IInv
<1>3. ASSUME NEW c \in Callers, Asks(c)
      PROVE  IInv'
  <2>1. calls[c].phase = "idle" /\ dialog' = dialog \cup {c}
        /\ UNCHANGED <<vars, kind, server, httpOnly, allowed, yes>>
    BY <1>3 DEF Asks
  <2>2. /\ kind = "stdio" => StdioSound'
        /\ kind = "http" => HttpSound'
    BY <1>0, <2>1, StdUnchanged, HttpUnchanged DEF vars, manager, session, transport, httpOnly
  <2>3. calls' = calls /\ allowed' = allowed /\ yes' = yes /\ kind' = kind /\ server' = server
    BY <2>1 DEF vars
  <2>4. ConsentSound'
    BY <2>1, <2>3 DEF IInv, ConsentSound, Started, Consented
  <2>5. ServersTypeOK'
    BY <1>0, <2>1, <2>2, <2>3 DEF IInv, ServersTypeOK, StdioSound, HttpSound
  <2> QED BY <1>0, <2>2, <2>3, <2>4, <2>5 DEF IInv
<1>4. ASSUME NEW c \in Callers, Denied(c)
      PROVE  IInv'
  <2>1. /\ calls[c].phase = "idle" /\ dialog' = dialog \ {c}
        /\ calls' = [calls EXCEPT ![c].phase = "done"]
        /\ kind' = kind /\ server' = server /\ allowed' = allowed /\ yes' = yes
    BY <1>4 DEF Denied, IInv, ConsentSound
  <2>2. /\ kind = "stdio" => StdioSound'
        /\ kind = "http" => HttpSound'
    <3>1. UNCHANGED <<connected, notified, transport, pending, nextId, asked, manager>>
      BY <1>4 DEF Denied
    <3>2. UNCHANGED httpOnly
      BY <1>4 DEF Denied
    <3>3. kind = "stdio" => StdioSound'
      BY <1>0, <2>1, <3>1, StdDenied
    <3>4. kind = "http" => HttpSound'
      BY <1>0, <1>4, <2>1, <3>1, <3>2, HttpDenied
    <3> QED BY <3>3, <3>4
  <2>3. ConsentSound'
    <3>0. calls \in [Callers -> CallTypes] \/ calls \in [Callers -> HttpCallTypes]
      BY <1>0, TypeParts DEF StdioSound, HttpSound, Http!TypeOK, HttpCallTypes
    <3>1. /\ \A d \in Callers \ {c} : calls'[d] = calls[d]
          /\ calls'[c] = [calls[c] EXCEPT !.phase = "done"]
      BY <2>1, <3>0
    <3>2. calls'[c].phase = "done" /\ calls'[c].id = calls[c].id
      BY <3>0, <3>1 DEF CallTypes, HttpCallTypes
    <3>3. \A d \in Callers : Started(d)' => Started(d)
      BY <3>1, <3>2 DEF Started
    <3> QED BY <2>1, <3>1, <3>3 DEF IInv, ConsentSound, Consented
  <2>4. ServersTypeOK'
    BY <1>0, <2>1, <2>2 DEF IInv, ServersTypeOK, StdioSound, HttpSound
  <2> QED BY <1>0, <2>1, <2>2, <2>3, <2>4 DEF IInv
<1>5. ASSUME NEW c \in Callers, Resumes(c) \/ Sends(c) \/ IsCancelled(c)
      PROVE  IInv'
  BY <1>0, <1>5, StdSteps, HttpSteps, RestConsent
     DEF Resumes, Sends, IsCancelled, OverStdio, OverHttp, consent
<1>6. ASSUME NEW p \in Procs, OverStdio(Deliver(p) \/ ProcDies(p) \/ ReaderEnds(p) \/ CloseEnds(p))
      PROVE  IInv'
  BY <1>0, <1>6, StdSteps, RestConsent DEF OverStdio, consent
<1>7. ASSUME OverStdio(Sweep \/ Quit)
      PROVE  IInv'
  BY <1>0, <1>7, StdSteps, RestConsent DEF OverStdio, consent
<1>8. ASSUME OverHttp(Http!Sweep \/ Http!SweepEnds \/ Http!Quit \/ Http!ServerRestarts)
      PROVE  IInv'
  BY <1>0, <1>8, HttpSteps, RestConsent DEF OverHttp, consent
<1>9. ASSUME UNCHANGED serversVars
      PROVE  IInv'
  <2>1. UNCHANGED <<vars, kind, server, httpOnly, consent>>
    BY <1>9 DEF serversVars
  <2>2. /\ kind = "stdio" => StdioSound'
        /\ kind = "http" => HttpSound'
    BY <1>0, <2>1, StdUnchanged, HttpUnchanged DEF vars, httpOnly
  <2>3. Rest /\ UNCHANGED <<kind, server, dialog, allowed, yes>>
    BY <2>1 DEF vars, Rest, consent
  <2> QED BY <2>2, <2>3, RestConsent
<1> QED BY <1>1, <1>2, <1>3, <1>4, <1>5, <1>6, <1>7, <1>8, <1>9 DEF ServersNext

\* IInv is an invariant of McpServers: what each kind of session, and the
\* confirmations before it, keep through every step.
THEOREM Inductive == ServersSpec => []IInv
BY InitIInv, NextIInv, PTL DEF ServersSpec

\* Every variable keeps its type over either transport, and over HTTP the
\* session counts as connected exactly while its transport has a client.
THEOREM ServersTypesHold == ServersSpec => []ServersTypeOK
<1>1. IInv => ServersTypeOK
  BY DEF IInv
<1> QED BY <1>1, Inductive, PTL

\* Whoever waits for an answer can still be handed one, and no id stays in the
\* table but that of a call that was cancelled inside send(), over either
\* transport, of a stdio request that could not be encoded and of a POST whose
\* body is JSON but no object: ResponseMatcher against _send_request, whatever
\* times out, dies, restarts or is swept in between.
THEOREM TableIsAlwaysAwaited == ServersSpec => []TableIsAwaited
<1>1. IInv => TableIsAwaited
  BY DEF IInv, ServersTypeOK, StdioSound, TableSound, HttpSound, TableIsAwaited
<1> QED BY <1>1, Inductive, PTL

\* No caller is ever handed the answer to another one's request, or to an
\* earlier one of its own, over either transport: the ids of IdFactory are not
\* used twice, and a late answer finds nobody.
THEOREM AnswersAreAlwaysMine == ServersSpec => []AnswersAreMine
<1>1. IInv => AnswersAreMine
  BY DEF IInv, ServersTypeOK, StdioSound, TableSound, HttpSound, AnswersAreMine
<1> QED BY <1>1, Inductive, PTL

\* RemoteTool.execute sends nothing for a tool the configuration does not trust
\* before the user said yes to this call or to an earlier one, however many
\* calls wait for a dialog.
THEOREM ConsentComesFirst == ServersSpec => []RemoteConsented
<1>1. IInv => RemoteConsented
  BY DEF IInv, ConsentSound, Started, Consented, RemoteConsented
<1> QED BY <1>1, Inductive, PTL
=============================================================================
