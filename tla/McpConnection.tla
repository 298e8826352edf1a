---------------------------- MODULE McpConnection ----------------------------
(***************************************************************************)
(* One stdio MCP server as src/zxcode/mcp uses it: McpSession (session.py) *)
(* with its ResponseMatcher (matcher.py) and StdioTransport                *)
(* (transports/stdio.py), kept by the McpManager (pool.py) and by the      *)
(* RemoteTools (adapter.py) that were built on it.  Callers, the idle      *)
(* sweep, close_all and the reader tasks of the processes take turns at    *)
(* every await; one of them is the drain() of a message that is larger     *)
(* than what the server reads (stdio.py:87), which nothing limits.         *)
(*                                                                         *)
(* Left out: what tools are and return, their confirmation, the stderr     *)
(* tail, notifications and malformed lines (ignored by the session), the   *)
(* HTTP transport.                                                         *)
(***************************************************************************)
EXTENDS Integers, FiniteSets

CONSTANTS
  Callers,         \* calls made, each once
  Boot,            \* the one of them that is register_all
  MaxProcs,        \* bound: processes started
  LastPage,        \* bound: no page of tools/list follows a request after this id
  Lost,            \* McpError(CONNECTION_ERROR)
  Nothing          \* None


VARIABLES
  connected,       \* McpSession._connected
  notified,        \* StdioTransport._close_notified
  process,         \* StdioTransport._process
  readerTask,      \* StdioTransport._reader_task, by the process it reads
  procs,           \* the processes: not started, up or dead
  readers,         \* processes whose read loop runs
  pending,         \* ids in the ResponseMatcher
  nextId,          \* IdFactory._next
  asked,           \* requests a server has read and not answered
  calls,           \* the callers
  closing,         \* who waits in close() for a process to exit
  pooled,          \* the manager holds the session
  registered,      \* the tools are in the registry
  life             \* the app: "up", "closing" or "closed"

session == <<connected, notified, pending>>
transport == <<process, readerTask, procs, readers, closing>>
manager == <<pooled, registered, life>>
vars == <<connected, notified, process, readerTask, procs, readers, pending,
          nextId, asked, calls, closing, pooled, registered, life>>

Procs == 1..MaxProcs
Requests == [id : Nat \ {0}, by : Callers, what : {"initialize", "call"}]

ASSUME McpAssumption ==
  /\ Boot \in Callers /\ MaxProcs \in Nat \ {0} /\ LastPage \in Nat
  /\ Callers \cap {"sweep", "quit", Nothing} = {} /\ Nothing \notin Procs
  /\ {Lost, Nothing} \cap Requests = {} /\ Lost # Nothing

Request(c, what) == [id |-> nextId, by |-> c, what |-> what]

\* ensure_connected is passed once by pool._connect, once by list_tools or
\* call_tool and once by _send_request.
Ensures(c) == IF c = Boot THEN 3 ELSE 2

\* end: that the call was cancelled inside the send of a request, or that the
\* request could not be encoded.
Fresh == [phase |-> "idle", id |-> 0, got |-> Nothing, connects |-> 0, end |-> Nothing]

\* Who waits for drain: with a request, or with a notification.
Asking == {"initialize", "call"}
Telling == {"initialized", "tellinit", "telling"}

Init ==
  /\ connected = FALSE /\ notified = FALSE
  /\ process = Nothing /\ readerTask = Nothing
  /\ procs = [p \in Procs |-> "none"] /\ readers = {}
  /\ pending = {} /\ nextId = 1 /\ asked = {}
  /\ calls = [c \in Callers |-> Fresh]
  /\ closing = [p \in Procs |-> Nothing]
  /\ pooled = FALSE /\ registered = FALSE /\ life = "up"

Up == process # Nothing /\ procs[process] = "up"
Goes(c, phase) == [calls EXCEPT ![c].phase = phase]
\* A call that is over: its last id, and its end.
Done(id, end) ==
  [phase |-> "done", id |-> id, got |-> Nothing, connects |-> 0, end |-> end]
Ends(c, end) == [calls EXCEPT ![c] = Done(calls[c].id, end)]
Awaits(call) == call.phase \in Asking \cup {"shaking", "waiting"} /\ call.got = Nothing

\* matcher.fail_all.
FailAll(cs) ==
  /\ pending' = {}
  /\ calls' = [c \in Callers |-> IF Awaits(cs[c]) /\ cs[c].id \in pending
                                 THEN [cs[c] EXCEPT !.got = Lost] ELSE cs[c]]

\* _notify_close, once in the life of a transport, and _on_transport_closed.
NotifyClose(cs) ==
  /\ notified' = TRUE
  /\ IF ~notified /\ connected
     THEN connected' = FALSE /\ FailAll(cs)
     ELSE calls' = cs /\ UNCHANGED <<connected, pending>>

(***************************************************************************)
(* Connecting                                                              *)
(***************************************************************************)
\* _send_request of a call up to drain: an error of the transport ends it and
\* leaves the session connected.  A message that cannot be encoded (a lone
\* surrogate in an argument or a cursor) is no McpError: its id stays.
SendCall(c) ==
  /\ nextId' = nextId + 1
  /\ \/ /\ Up
        /\ pending' = pending \cup {nextId}
        /\ asked' = asked \cup {[proc |-> process, request |-> Request(c, "call")]}
        /\ calls' = [calls EXCEPT ![c].phase = "call", ![c].id = nextId, ![c].got = Nothing]
     \/ /\ Up
        /\ pending' = pending \cup {nextId}
        /\ calls' = [calls EXCEPT ![c] = Done(nextId, "broken")]
        /\ UNCHANGED asked
     \/ /\ ~Up
        /\ calls' = Ends(c, Nothing)
        /\ UNCHANGED <<pending, asked>>

\* connect, up to create_subprocess_exec; ensure_connected was passed so often.
Spawn(c, passed) ==
  /\ calls' = [calls EXCEPT ![c].phase = "spawning", ![c].connects = passed]
  /\ UNCHANGED <<pending, nextId, asked>>

\* A tool call, or register_all.
CallStarts(c) ==
  /\ life = "up" /\ calls[c].phase = "idle"
  /\ registered \/ c = Boot
  /\ IF connected THEN SendCall(c) ELSE Spawn(c, 1)
  /\ UNCHANGED <<connected, notified, transport, manager>>

\* The process is there: the session counts as connected, and initialize is
\* sent.  An earlier process is forgotten.
Spawned(c) ==
  /\ calls[c].phase = "spawning"
  /\ \E p \in Procs :
       /\ procs[p] = "none" /\ \A q \in 1..(p - 1) : procs[q] # "none"
       /\ procs' = [procs EXCEPT ![p] = "up"]
       /\ process' = p /\ readerTask' = p /\ readers' = readers \cup {p}
       /\ asked' = asked \cup {[proc |-> p, request |-> Request(c, "initialize")]}
  /\ connected' = TRUE
  /\ pending' = pending \cup {nextId} /\ nextId' = nextId + 1
  /\ calls' = [calls EXCEPT ![c].phase = "initialize", ![c].id = nextId, ![c].got = Nothing]
  /\ UNCHANGED <<notified, closing, manager>>

SpawnFails(c) ==
  /\ calls[c].phase = "spawning"
  /\ calls' = Ends(c, Nothing)
  /\ UNCHANGED <<session, transport, nextId, asked, manager>>

\* transport.close by a caller whose handshake failed: it waits for the exit of
\* whatever process the transport holds by now.
FailHandshake(c) ==
  /\ connected' = FALSE
  /\ process' = Nothing
  /\ IF process = Nothing
     THEN calls' = Ends(c, Nothing) /\ UNCHANGED closing
     ELSE calls' = Goes(c, "closing") /\ closing' = [closing EXCEPT ![process] = c]

\* The answer to initialize suits, and initialized is written.
Suits(c) ==
  /\ calls[c].phase = "shaking" /\ calls[c].got \notin {Nothing, Lost}
  /\ Up
  /\ calls' = Goes(c, "initialized")
  /\ UNCHANGED <<session, transport, nextId, asked, manager>>

\* drain returns and the call follows; if the connection is gone already another
\* one is made.  The manager holds the session its own connect made.
Initialized(c) ==
  /\ calls[c].phase = "initialized"
  /\ pooled' = (pooled \/ (c = Boot /\ calls[c].connects = 1 /\ life = "up"))
  /\ IF connected \/ calls[c].connects = Ensures(c)
     THEN SendCall(c) ELSE Spawn(c, calls[c].connects + 1)
  /\ UNCHANGED <<connected, notified, transport, registered, life>>

\* Another version, an error, a lost connection, or initialized cannot be sent.
HandshakeFails(c) ==
  /\ calls[c].phase = "shaking" /\ calls[c].got # Nothing
  /\ FailHandshake(c)
  /\ UNCHANGED <<notified, readerTask, procs, readers, pending, nextId, asked, manager>>

HandshakeTimesOut(c) ==
  /\ calls[c].phase = "shaking" /\ calls[c].got = Nothing
  /\ pending' = pending \ {calls[c].id}
  /\ IF Up
     THEN calls' = Goes(c, "tellinit") /\ UNCHANGED <<connected, process, closing>>
     ELSE FailHandshake(c)
  /\ UNCHANGED <<notified, readerTask, procs, readers, nextId, asked, manager>>

(***************************************************************************)
(* Sending                                                                 *)
(***************************************************************************)
\* drain returns to _send_request; the answer may be there already.
Sent(c) ==
  /\ calls[c].phase \in Asking
  /\ calls' = Goes(c, IF calls[c].phase = "call" THEN "waiting" ELSE "shaking")
  /\ UNCHANGED <<session, transport, nextId, asked, manager>>

\* Mutant: a request that cannot be sent keeps its id.
SendFailsKept(c) ==
  /\ calls[c].phase \in Asking \cup Telling
  /\ IF calls[c].phase \in {"call", "telling"}
     THEN calls' = Ends(c, Nothing) /\ UNCHANGED <<connected, process, closing>>
     ELSE FailHandshake(c)
  /\ UNCHANGED <<pending, notified, readerTask, procs, readers, nextId, asked, manager>>

\* The server closed its input: the id of a request is abandoned, and the call or
\* the handshake fails.  So it does after the notice of a timeout, sent or not.
SendFails(c) ==
  /\ calls[c].phase \in Asking \cup Telling
  /\ pending' = pending \ {calls[c].id}
  /\ IF calls[c].phase \in {"call", "telling"}
     THEN calls' = Ends(c, Nothing) /\ UNCHANGED <<connected, process, closing>>
     ELSE FailHandshake(c)
  /\ UNCHANGED <<notified, readerTask, procs, readers, nextId, asked, manager>>

(***************************************************************************)
(* Calls                                                                   *)
(***************************************************************************)
\* _send_request returns, with an answer or "connection closed".
CallReturns(c) ==
  /\ calls[c].phase = "waiting" /\ calls[c].got # Nothing
  /\ calls' = Ends(c, Nothing)
  /\ registered' = (registered \/ (c = Boot /\ calls[c].got # Lost))
  /\ UNCHANGED <<session, transport, nextId, asked, pooled, life>>

\* A page of tools/list names a next one, for which only _send_request ensures
\* the connection.
NextPage(c) ==
  /\ c = Boot /\ calls[c].phase = "waiting" /\ calls[c].got \notin {Nothing, Lost}
  /\ calls[c].id <= LastPage
  /\ IF connected THEN SendCall(c) ELSE Spawn(c, Ensures(c))
  /\ UNCHANGED <<connected, notified, transport, manager>>

\* Mutant: tools/list has no timeout.
CallTimesOutListing(c) ==
  /\ c # Boot
  /\ calls[c].phase = "waiting" /\ calls[c].got = Nothing
  /\ pending' = pending \ {calls[c].id}
  /\ calls' = IF Up THEN Goes(c, "telling") ELSE Ends(c, Nothing)
  /\ UNCHANGED <<connected, notified, transport, nextId, asked, manager>>

\* wait_for gives up; the id is abandoned and the server told.
CallTimesOut(c) ==
  /\ calls[c].phase = "waiting" /\ calls[c].got = Nothing
  /\ pending' = pending \ {calls[c].id}
  /\ calls' = IF Up THEN Goes(c, "telling") ELSE Ends(c, Nothing)
  /\ UNCHANGED <<connected, notified, transport, nextId, asked, manager>>

\* A CancelledError passes the handler of send: the id of a request stays.
Cancelled(c) == Ends(c, IF calls[c].phase \in Asking THEN "cancelled" ELSE Nothing)
Kept(c) == IF calls[c].phase \in Asking THEN pending ELSE pending \ {calls[c].id}

\* Ctrl+C, or the executor's own timeout.  connect catches no CancelledError.
CallCancelled(c) ==
  /\ c # Boot /\ calls[c].phase \notin {"idle", "done"}
  /\ pending' = Kept(c)
  /\ calls' = Cancelled(c)
  /\ closing' = [p \in Procs |-> IF closing[p] = c THEN Nothing ELSE closing[p]]
  /\ UNCHANGED <<connected, notified, process, readerTask, procs, readers, nextId,
                 asked, manager>>

(***************************************************************************)
(* The server and the reader tasks                                         *)
(***************************************************************************)
\* Mutant: answers are taken to come in the order of the requests.
DeliverInOrder(p) ==
  /\ p \in readers /\ procs[p] = "up"
  /\ \E a \in asked, i \in pending :
       /\ a.proc = p /\ asked' = asked \ {a}
       /\ \A j \in pending : i <= j
       /\ calls' = [c \in Callers |->
            IF Awaits(calls[c]) /\ calls[c].id = i
            THEN [calls[c] EXCEPT !.got = a.request] ELSE calls[c]]
       /\ pending' = pending \ {i}
  /\ UNCHANGED <<connected, notified, transport, nextId, manager>>

\* An answer arrives, in any order, and resolves the request that has its id;
\* a late or unknown one is dropped.
Deliver(p) ==
  /\ p \in readers /\ procs[p] = "up"
  /\ \E a \in asked :
       /\ a.proc = p /\ asked' = asked \ {a}
       /\ calls' = [c \in Callers |->
            IF Awaits(calls[c]) /\ calls[c].id = a.request.id /\ a.request.id \in pending
            THEN [calls[c] EXCEPT !.got = a.request] ELSE calls[c]]
       /\ pending' = pending \ {a.request.id}
  /\ UNCHANGED <<connected, notified, transport, nextId, manager>>

\* A server crashes, exits when its stdin is closed, or is killed after 5 s.
ProcDies(p) ==
  /\ procs[p] = "up"
  /\ procs' = [procs EXCEPT ![p] = "dead"]
  /\ asked' = {a \in asked : a.proc # p}
  /\ UNCHANGED <<session, process, readerTask, readers, closing, nextId, calls, manager>>

\* _read_loop comes to the end of the output, or to a line that breaks it while
\* the process runs: longer than readline takes, or a JSON value that is no
\* object (session.py:202).
ReaderEnds(p) ==
  /\ p \in readers
  /\ readers' = readers \ {p}
  /\ NotifyClose(calls)
  /\ UNCHANGED <<process, readerTask, procs, closing, nextId, asked, manager>>

(***************************************************************************)
(* Closing                                                                 *)
(***************************************************************************)
\* session.close by the sweep or by close_all, up to the wait for the exit.
Close(who) ==
  /\ connected' = FALSE
  /\ FailAll(calls)
  /\ process' = Nothing
  /\ closing' = IF process = Nothing THEN closing ELSE [closing EXCEPT ![process] = who]

\* _sweep_idle; the idle timeout may be shorter than that of a call.
Sweep ==
  /\ life = "up" /\ pooled /\ connected
  /\ \A p \in Procs : closing[p] # "sweep"
  /\ Close("sweep")
  /\ pooled' = (process # Nothing)
  /\ UNCHANGED <<notified, readerTask, procs, readers, nextId, asked, registered, life>>

\* The rest of transport.close: it cancels the reader task it finds, which may
\* be a newer one.
CloseEnds(p) ==
  /\ closing[p] # Nothing /\ procs[p] = "dead"
  /\ closing' = [closing EXCEPT ![p] = Nothing]
  /\ readers' = readers \ {readerTask}
  /\ NotifyClose(IF closing[p] \in Callers THEN Ends(closing[p], Nothing) ELSE calls)
  /\ pooled' = (pooled /\ closing[p] # "sweep")
  /\ life' = IF closing[p] = "quit" THEN "closed" ELSE life
  /\ UNCHANGED <<process, readerTask, procs, nextId, asked, registered>>

\* on_unmount: register_all is cancelled, and close_all cancels the sweep and
\* closes what the manager holds.
Quit ==
  /\ life = "up"
  /\ LET rest == [p \in Procs |-> IF closing[p] \in {"sweep", Boot} THEN Nothing ELSE closing[p]]
         done == IF calls[Boot].phase \in {"idle", "done"} THEN calls ELSE Cancelled(Boot)
     IN  IF pooled
         THEN /\ connected' = FALSE /\ FailAll(done)
              /\ process' = Nothing
              /\ closing' = IF process = Nothing THEN rest ELSE [rest EXCEPT ![process] = "quit"]
              /\ life' = IF process = Nothing THEN "closed" ELSE "closing"
         ELSE /\ pending' = IF calls[Boot].phase \in {"idle", "done"} THEN pending ELSE Kept(Boot)
              /\ calls' = done
              /\ closing' = rest
              /\ life' = "closed"
              /\ UNCHANGED <<connected, process>>
  /\ pooled' = FALSE
  /\ UNCHANGED <<notified, readerTask, procs, readers, nextId, asked, registered>>

\* What a caller does whose wait is over; a send need not come to an end.
Step(c) ==
  \/ Spawned(c)
  \/ SpawnFails(c)
  \/ Suits(c)
  \/ HandshakeFails(c)
  \/ HandshakeTimesOut(c)
  \/ CallReturns(c)
  \/ NextPage(c)
  \/ CallTimesOut(c)

SendEnds(c) ==
  \/ Sent(c)
  \/ SendFails(c)
  \/ Initialized(c)

Next ==
  \/ \E c \in Callers : CallStarts(c) \/ CallCancelled(c) \/ Step(c) \/ SendEnds(c)
  \/ \E p \in Procs : Deliver(p) \/ ProcDies(p) \/ ReaderEnds(p) \/ CloseEnds(p)
  \/ Sweep
  \/ Quit

Spec == Init /\ [][Next]_vars

-----------------------------------------------------------------------------
(***************************************************************************)
(* Properties                                                              *)
(***************************************************************************)
\* Every variable has its type; the process the transport holds was started and
\* is not being closed, and a caller in close() waits for some process.
TypeOK ==
  /\ connected \in BOOLEAN /\ notified \in BOOLEAN
  /\ process \in Procs \cup {Nothing} /\ readerTask \in Procs \cup {Nothing}
  /\ procs \in [Procs -> {"none", "up", "dead"}]
  /\ readers \subseteq {p \in Procs : procs[p] # "none"}
  /\ nextId \in Nat \ {0} /\ pending \subseteq 1..(nextId - 1)
  /\ asked \subseteq [proc : Procs, request : Requests]
  /\ calls \in [Callers -> [phase : Asking \cup Telling \cup
                                      {"idle", "spawning", "shaking", "waiting", "closing", "done"},
                            id : 0..(nextId - 1), got : Requests \cup {Nothing, Lost},
                            connects : 0..3, end : {Nothing, "cancelled", "broken"}]]
  /\ closing \in [Procs -> Callers \cup {"sweep", "quit", Nothing}]
  /\ pooled \in BOOLEAN /\ registered \in BOOLEAN /\ life \in {"up", "closing", "closed"}
  /\ process # Nothing => procs[process] # "none" /\ closing[process] = Nothing
  /\ \A c \in Callers : calls[c].phase = "closing" => \E p \in Procs : closing[p] = c

\* Whoever waits for an answer has its id in the table, and an id that nobody
\* waits for belongs to a request that was cancelled inside its send or could
\* not be encoded.  Timeouts, failed sends, lost connections and reconnections
\* leave none; docs/mcp serv/spec.md:33 says the same of cancellations.
PendingIsAwaited ==
  /\ \A c \in Callers : Awaits(calls[c]) => calls[c].id \in pending
  /\ \A i \in pending : \E c \in Callers :
       calls[c].id = i /\ (Awaits(calls[c]) \/ calls[c].end \in {"cancelled", "broken"})

\* A caller is handed the answer to its own request of that step, whatever
\* arrives late or out of order from this process or an earlier one.
AnswerIsMine ==
  \A c \in Callers : calls[c].got \in Requests =>
    /\ calls[c].got.by = c /\ calls[c].got.id = calls[c].id
    /\ calls[c].phase \in {"initialize", "shaking", "initialized"} =>
         calls[c].got.what = "initialize"
    /\ calls[c].phase \in {"call", "waiting"} => calls[c].got.what = "call"

\* Said by docs/mcp serv/checklist.md:40: when the app has exited, every stdio
\* child process has ended.
NoOrphans ==
  /\ life = "closed"
  /\ \A c \in Callers : calls[c].phase \in {"idle", "done"}
  /\ \A p \in Procs : closing[p] = Nothing
  => \A p \in Procs : procs[p] # "up"
=============================================================================
