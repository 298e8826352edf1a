----------------------------- MODULE HttpSession -----------------------------
(***************************************************************************)
(* An McpSession (session.py) over the HttpTransport (transports/http.py). *)
(* Every message is one POST whose answer is handed to the session inside  *)
(* send(); several callers have POSTs under way at once.                   *)
(*                                                                         *)
(* The server is external: it gives its incarnation as session id, refuses *)
(* requests that carry another one and forgets it with a restart.  A body  *)
(* holds the answers to any of the requests it has, perhaps followed by    *)
(* something unreadable; it may also trickle for ever.  Left out: what     *)
(* tools return, the protocol version's header, arguments that httpx       *)
(* cannot encode (that depends on its version).                            *)
(***************************************************************************)
EXTENDS Integers, FiniteSets

CONSTANTS
  Callers,         \* calls made, each once
  Boot,            \* the one of them that is register_all
  MaxEpochs,       \* bound: incarnations of the server
  LastPage,        \* bound: no page of tools/list follows a request after this id
  Lost,            \* McpError(CONNECTION_ERROR) set on a future
  Nothing          \* None

VARIABLES
  connected,       \* McpSession._connected
  client,          \* HttpTransport._client is there
  sessionId,       \* HttpTransport.session_id, 0 for None
  pending,         \* ids in the ResponseMatcher
  nextId,          \* IdFactory._next
  calls,           \* the callers
  asked,           \* requests the server has and has not answered
  epoch,           \* the server's incarnation
  sweeping,        \* the idle sweep waits in close()
  pooled,          \* the manager holds the session
  registered,      \* the tools are in the registry
  life             \* the app: "up", "closing" or "closed"

manager == <<sweeping, pooled, registered, life>>
vars == <<connected, client, sessionId, pending, nextId, calls, asked, epoch, manager>>

\* end: how the call failed, where an id may be left behind.
Fresh == [phase |-> "idle", id |-> 0, got |-> Nothing, header |-> 0, connects |-> 0,
          end |-> Nothing]

Init ==
  /\ connected = FALSE /\ client = FALSE /\ sessionId = 0
  /\ pending = {} /\ nextId = 1 /\ asked = {}
  /\ calls = [c \in Callers |-> Fresh]
  /\ epoch = 1
  /\ sweeping = FALSE /\ pooled = FALSE /\ registered = FALSE /\ life = "up"

\* How often ensure_connected is passed on the way to the request.
Ensures(c) == IF c = Boot THEN 3 ELSE 2

Awaits(call) ==
  call.phase \in {"initialize", "shaking", "call", "waiting"} /\ call.got = Nothing

\* What one step changes of the callers, the table and the server's requests.
State == [calls |-> calls, pending |-> pending, asked |-> asked]
Set(s) == calls' = s.calls /\ pending' = s.pending /\ asked' = s.asked
Phase(s, c, p) == [s EXCEPT !.calls[c].phase = p]
Ends(s, c, how) == [s EXCEPT !.calls[c].phase = "done", !.calls[c].end = how]

\* matcher.abandon, matcher.fail_all and matcher.resolve for each answer.
Abandons(s, c) == [s EXCEPT !.pending = @ \ {s.calls[c].id}]
FailsAll(s) ==
  [s EXCEPT !.pending = {},
            !.calls = [c \in Callers |->
              IF Awaits(s.calls[c]) /\ s.calls[c].id \in s.pending
              THEN [s.calls[c] EXCEPT !.got = Lost] ELSE s.calls[c]]]
Delivers(s, answers) ==
  [calls |-> [c \in Callers |->
     IF \E a \in answers : a.id = s.calls[c].id /\ a.id \in s.pending /\ Awaits(s.calls[c])
     THEN [s.calls[c] EXCEPT !.got = CHOOSE a \in answers : a.id = s.calls[c].id]
     ELSE s.calls[c]],
   pending |-> s.pending \ {a.id : a \in answers},
   asked |-> s.asked \ answers]

(***************************************************************************)
(* Sending                                                                 *)
(***************************************************************************)
\* _send_request up to the POST.
Posts(s, c, what) ==
  LET request == [id |-> nextId, by |-> c, what |-> what]
  IN  [calls |-> [s.calls EXCEPT ![c].phase = what, ![c].id = nextId,
                                 ![c].got = Nothing, ![c].header = sessionId],
       pending |-> s.pending \cup {nextId},
       asked |-> IF what = "initialize" \/ sessionId = epoch
                 THEN s.asked \cup {request} ELSE s.asked]

\* connect up to the POST of initialize: nothing is awaited before it.  The
\* session id of an earlier connection goes along.  ensure_connected was passed
\* so often.
Connects(s, c, passed) ==
  /\ connected' = TRUE /\ client' = TRUE
  /\ Set(Posts([s EXCEPT !.calls[c].connects = passed], c, "initialize"))
  /\ nextId' = nextId + 1

\* Without a client the request fails and its id is abandoned.
Calls(s, c) ==
  /\ nextId' = nextId + 1
  /\ Set(IF client THEN Posts(s, c, "call") ELSE Ends(s, c, "failed"))
  /\ UNCHANGED <<connected, client>>

CallStarts(c) ==
  /\ life = "up" /\ calls[c].phase = "idle"
  /\ registered \/ c = Boot
  /\ IF connected THEN Calls(State, c) ELSE Connects(State, c, 1)
  /\ UNCHANGED <<sessionId, epoch, manager>>

(***************************************************************************)
(* What becomes of a call                                                  *)
(***************************************************************************)
\* The except of connect: whatever client there is by now is closed.
FailsHandshake(s, c, how) ==
  /\ connected' = FALSE /\ client' = FALSE
  /\ Set(IF client THEN Phase([s EXCEPT !.calls[c].end = how], c, "closing") ELSE Ends(s, c, how))

\* An error of _send_request.
Fails(s, c, how) ==
  IF s.calls[c].phase \in {"call", "waiting", "telling"}
  THEN Set(Ends(s, c, how)) /\ UNCHANGED <<connected, client>>
  ELSE FailsHandshake(s, c, how)

\* A page of tools/list names a next one, for which only _send_request ensures
\* the connection.
NextPage(s, c) ==
  /\ c = Boot /\ s.calls[c].phase \in {"call", "waiting"} /\ s.calls[c].got # Lost
  /\ s.calls[c].id <= LastPage
  /\ IF connected THEN Calls(s, c) ELSE Connects(s, c, Ensures(c))
  /\ UNCHANGED registered

\* The future is done: an answer to initialize suits or not, and initialized
\* is sent.
Answered(s, c) ==
  LET ok == s.calls[c].got # Lost
  IN  /\ UNCHANGED nextId
      /\ IF s.calls[c].phase \in {"call", "waiting"}
         THEN /\ Set(Ends(s, c, IF ok THEN "ok" ELSE "failed"))
              /\ registered' = (registered \/ (c = Boot /\ ok))
              /\ UNCHANGED <<connected, client>>
         ELSE /\ \/ /\ ok /\ client
                    /\ Set([s EXCEPT !.calls[c].phase = "initialized",
                                     !.calls[c].header = sessionId'])
                    /\ UNCHANGED <<connected, client>>
                 \/ FailsHandshake(s, c, "failed")
              /\ UNCHANGED registered

\* send() returns to _send_request; the answer may not have come with it.
Sent(s, c) ==
  IF s.calls[c].got # Nothing THEN Answered(s, c) \/ NextPage(s, c)
  ELSE /\ Set(Phase(s, c, IF s.calls[c].phase = "call" THEN "waiting" ELSE "shaking"))
       /\ UNCHANGED <<connected, client, nextId, registered>>

(***************************************************************************)
(* POSTs that carry a request                                              *)
(***************************************************************************)
Asking(c) == calls[c].phase \in {"initialize", "call"}
Knows(c) == calls[c].phase = "initialize" \/ calls[c].header = epoch

\* A body with answers, to this request or to others; an unreadable payload
\* raises after what came before it was delivered.
PostAnswered(c) ==
  /\ Asking(c) /\ Knows(c)
  /\ sessionId' = IF calls[c].phase = "initialize" THEN epoch ELSE sessionId
  /\ \E answers \in SUBSET {a \in asked : a.by = c \/ a.what = "call"} :
       LET s == Delivers(State, answers)
       IN  \/ Sent(s, c)
           \/ Fails(Abandons(s, c), c, "failed") /\ UNCHANGED <<nextId, registered>>
  /\ UNCHANGED <<epoch, sweeping, pooled, life>>

\* A refusal, 202, an empty body, a timeout or an error of the connection.
PostFails(c) ==
  /\ Asking(c)
  /\ Fails(Abandons(State, c), c, "failed")
  /\ UNCHANGED <<sessionId, nextId, epoch, manager>>

\* A body that is JSON but no object: the handler of the invalid message
\* fails itself (session.py:202), which is no McpError.
PostBreaks(c) ==
  /\ Asking(c) /\ Knows(c)
  /\ Fails(State, c, "broken")
  /\ UNCHANGED <<sessionId, nextId, epoch, manager>>

(***************************************************************************)
(* Waiting for an answer that comes with another POST                      *)
(***************************************************************************)
Resumes(c) ==
  /\ calls[c].phase \in {"shaking", "waiting"} /\ calls[c].got # Nothing
  /\ sessionId' = sessionId
  /\ Answered(State, c) \/ NextPage(State, c)
  /\ UNCHANGED <<epoch, sweeping, pooled, life>>

\* wait_for gives up; the server is told by one more POST.
TimesOut(c) ==
  /\ calls[c].phase \in {"shaking", "waiting"} /\ calls[c].got = Nothing
  /\ LET s == Abandons(State, c)
     IN  IF client
         THEN /\ Set(Phase(s, c, IF calls[c].phase = "waiting" THEN "telling" ELSE "tellinit"))
              /\ UNCHANGED <<connected, client>>
         ELSE Fails(s, c, "failed")
  /\ UNCHANGED <<sessionId, nextId, epoch, manager>>

(***************************************************************************)
(* POSTs that carry a notification                                         *)
(***************************************************************************)
\* notifications/cancelled: its errors are swallowed.
Told(c) ==
  /\ calls[c].phase \in {"telling", "tellinit"}
  /\ Fails(State, c, "failed")
  /\ UNCHANGED <<sessionId, nextId, epoch, manager>>

\* initialized is accepted, and the call follows; if the connection is gone
\* already another one is made.  The manager holds the session its own connect
\* made.
Initialized(c) ==
  /\ calls[c].phase = "initialized" /\ calls[c].header = epoch
  /\ pooled' = (pooled \/ (c = Boot /\ calls[c].connects = 1 /\ life = "up"))
  /\ IF connected \/ calls[c].connects = Ensures(c)
     THEN Calls(State, c) ELSE Connects(State, c, calls[c].connects + 1)
  /\ UNCHANGED <<sessionId, epoch, sweeping, registered, life>>

InitializedFails(c) ==
  /\ calls[c].phase = "initialized"
  /\ FailsHandshake(State, c, "failed")
  /\ UNCHANGED <<sessionId, nextId, epoch, manager>>

\* aclose returns and connect raises.
CloseEnds(c) ==
  /\ calls[c].phase = "closing"
  /\ calls' = [calls EXCEPT ![c].phase = "done"]
  /\ UNCHANGED <<connected, client, sessionId, pending, nextId, asked, epoch, manager>>

(***************************************************************************)
(* Cancellation, the sweep, the exit                                       *)
(***************************************************************************)
\* A CancelledError inside send() passes both handlers of _send_request: the
\* id stays, and so does a connection whose handshake was interrupted.
Cancels(s, c) ==
  Ends(IF s.calls[c].phase \in {"shaking", "waiting"} THEN Abandons(s, c) ELSE s, c, "cancelled")

\* Ctrl+C, or the executor's own timeout.
CallCancelled(c) ==
  /\ c # Boot /\ calls[c].phase \notin {"idle", "done"}
  /\ Set(Cancels(State, c))
  /\ UNCHANGED <<connected, client, sessionId, nextId, epoch, manager>>

\* _sweep_idle, up to the wait for aclose.
Sweep ==
  /\ life = "up" /\ pooled /\ connected /\ ~sweeping
  /\ connected' = FALSE /\ client' = FALSE
  /\ Set(FailsAll(State))
  /\ sweeping' = TRUE
  /\ UNCHANGED <<sessionId, nextId, epoch, pooled, registered, life>>

SweepEnds ==
  /\ sweeping
  /\ sweeping' = FALSE /\ pooled' = FALSE
  /\ UNCHANGED <<connected, client, sessionId, pending, nextId, calls, asked, epoch,
                 registered, life>>

\* on_unmount: register_all and the sweep are cancelled, what the manager holds
\* is closed.
Quit ==
  /\ life = "up"
  /\ LET s == IF calls[Boot].phase \in {"idle", "done"} THEN State ELSE Cancels(State, Boot)
     IN  Set(IF pooled THEN FailsAll(s) ELSE s)
  /\ connected' = (connected /\ ~pooled) /\ client' = (client /\ ~pooled)
  /\ life' = "closed"
  /\ sweeping' = FALSE /\ pooled' = FALSE
  /\ UNCHANGED <<sessionId, nextId, epoch, registered>>

ServerRestarts ==
  /\ epoch < MaxEpochs
  /\ epoch' = epoch + 1 /\ asked' = {}
  /\ UNCHANGED <<connected, client, sessionId, pending, nextId, calls, manager>>

\* What a caller does whose wait is over; a POST need not come to an end.
Step(c) == Resumes(c) \/ TimesOut(c) \/ CloseEnds(c)

PostEnds(c) ==
  \/ PostAnswered(c)
  \/ PostFails(c)
  \/ PostBreaks(c)
  \/ Told(c)
  \/ Initialized(c)
  \/ InitializedFails(c)

Next ==
  \/ \E c \in Callers : CallStarts(c) \/ CallCancelled(c) \/ Step(c) \/ PostEnds(c)
  \/ Sweep
  \/ SweepEnds
  \/ Quit
  \/ ServerRestarts

Spec == Init /\ [][Next]_vars

-----------------------------------------------------------------------------
(***************************************************************************)
(* Properties                                                              *)
(***************************************************************************)
Requests == [id : Nat \ {0}, by : Callers, what : {"initialize", "call"}]

\* Every variable has its type, and the session counts as connected exactly
\* while its transport has a client.
TypeOK ==
  /\ connected \in BOOLEAN /\ client = connected
  /\ epoch \in 1..MaxEpochs /\ sessionId \in 0..epoch
  /\ nextId \in Nat \ {0} /\ pending \subseteq 1..(nextId - 1)
  /\ asked \subseteq Requests
  /\ calls \in [Callers -> [phase : {"idle", "initialize", "shaking", "tellinit", "initialized",
                                     "call", "waiting", "telling", "closing", "done"},
                            id : 0..(nextId - 1), got : Requests \cup {Nothing, Lost},
                            header : 0..epoch, connects : 0..3,
                            end : {Nothing, "ok", "failed", "broken", "cancelled"}]]
  /\ sweeping \in BOOLEAN /\ pooled \in BOOLEAN /\ registered \in BOOLEAN
  /\ life \in {"up", "closed"}

\* Whoever waits for an answer has its id in the table, and an id that nobody
\* waits for was left there by a cancellation inside send() or by a body that
\* is no object; every other failure cleans up.
PendingIsAwaited ==
  /\ \A c \in Callers : Awaits(calls[c]) => calls[c].id \in pending
  /\ \A i \in pending : \E c \in Callers :
       calls[c].id = i /\ (Awaits(calls[c]) \/ calls[c].end \in {"cancelled", "broken"})

\* A caller is handed the answer to its own request of that step, with which
\* POST ever it comes.
AnswerIsMine ==
  \A c \in Callers : calls[c].got \in Requests =>
    /\ calls[c].got.by = c /\ calls[c].got.id = calls[c].id
    /\ calls[c].phase \in {"initialize", "shaking", "initialized"} =>
         calls[c].got.what = "initialize"
    /\ calls[c].end = "ok" => calls[c].got.what = "call"
=============================================================================
