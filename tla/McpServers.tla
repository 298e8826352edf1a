----------------------------- MODULE McpServers ------------------------------
(***************************************************************************)
(* A configured MCP server as the rest of the program sees it: the         *)
(* RemoteTools of adapter.py with their confirmation (security.py), over a *)
(* session whose transport is the one the configuration names              *)
(* (transports/__init__.py).  McpConnection is the session over a process, *)
(* HttpSession the same session over POSTs; both have the variables of     *)
(* McpSession, McpManager and the callers in common.                       *)
(***************************************************************************)
EXTENDS McpConnection

CONSTANTS
  MaxEpochs,       \* bound: incarnations of an HTTP server
  HttpServers      \* what is configured and declared of an HTTP server's tool

VARIABLES
  kind,            \* ServerConfig.transport
  server,          \* what the configuration and the server say of the tool
  client, sessionId, epoch, sweeping, \* the rest of HttpSession
  dialog,          \* the open confirmations, by caller
  allowed,         \* AllowState: the tool was approved in this process
  yes              \* calls the user said yes to

Http == INSTANCE HttpSession

stdioOnly == <<notified, process, readerTask, procs, readers, closing>>
httpOnly == <<client, sessionId, epoch, sweeping>>
consent == <<dialog, allowed, yes>>
serversVars == <<vars, kind, server, httpOnly, consent>>

ToolConfig == [trusted : BOOLEAN, hinted : BOOLEAN, listed : BOOLEAN]

ASSUME ServersAssumption ==
  /\ MaxEpochs \in Nat \ {0} /\ HttpServers \subseteq ToolConfig
  /\ Nothing \notin {"ok", "failed", "broken", "cancelled"}

\* Mutant: the server's own hint is enough.
HintIsEnough(s) == s.listed \/ s.hinted

\* is_read_only.
IsReadOnly(s) == s.listed \/ (s.trusted /\ s.hinted)

\* build_transport.  Bound: over a process the tool needs no confirmation.
ServersInit ==
  /\ \/ /\ kind = "stdio" /\ Init
        /\ client = FALSE /\ sessionId = 0 /\ epoch = 1 /\ sweeping = FALSE
        /\ server = [trusted |-> FALSE, hinted |-> FALSE, listed |-> TRUE]
     \/ /\ kind = "http" /\ Http!Init
        /\ notified = FALSE /\ process = Nothing /\ readerTask = Nothing
        /\ procs = [p \in Procs |-> "none"] /\ readers = {}
        /\ closing = [p \in Procs |-> Nothing]
        /\ server \in HttpServers
  /\ dialog = {} /\ allowed = FALSE /\ yes = {}

(***************************************************************************)
(* The transport                                                           *)
(***************************************************************************)
OverStdio(A) == kind = "stdio" /\ A /\ UNCHANGED <<kind, server, httpOnly, consent>>
OverHttp(A) == kind = "http" /\ A /\ UNCHANGED <<kind, server, stdioOnly, consent>>

Starts(c) ==
  \/ kind = "stdio" /\ CallStarts(c) /\ UNCHANGED <<kind, server, httpOnly>>
  \/ kind = "http" /\ Http!CallStarts(c) /\ UNCHANGED <<kind, server, stdioOnly>>

(***************************************************************************)
(* RemoteTool.execute                                                      *)
(***************************************************************************)
NeedsConsent(c) == c # Boot /\ ~IsReadOnly(server) /\ ~allowed

Executes(c) ==
  /\ ~NeedsConsent(c) /\ c \notin dialog
  /\ Starts(c)
  /\ UNCHANGED consent

\* require_confirmation with a user to ask.
Asks(c) ==
  /\ life = "up" /\ registered
  /\ calls[c].phase = "idle" /\ NeedsConsent(c) /\ c \notin dialog
  /\ dialog' = dialog \cup {c}
  /\ UNCHANGED <<vars, kind, server, httpOnly, allowed, yes>>

\* Anything but deny: the tool is allowed for this process, and the call goes
\* out at once.
Says(c) ==
  /\ c \in dialog /\ dialog' = dialog \ {c}
  /\ allowed' = TRUE /\ yes' = yes \cup {c}
  /\ Starts(c)

\* Deny, the executor's timeout under the dialog, or nobody to ask.
Denied(c) ==
  /\ c \in dialog \/ (registered /\ calls[c].phase = "idle" /\ NeedsConsent(c))
  /\ dialog' = dialog \ {c}
  /\ calls' = [calls EXCEPT ![c].phase = "done"]
  /\ UNCHANGED <<connected, notified, transport, pending, nextId, asked, manager, kind, server,
                 httpOnly, allowed, yes>>

-----------------------------------------------------------------------------
Resumes(c) == OverStdio(Step(c)) \/ OverHttp(Http!Step(c))
Sends(c) == OverStdio(SendEnds(c)) \/ OverHttp(Http!PostEnds(c))
IsCancelled(c) == OverStdio(CallCancelled(c)) \/ OverHttp(Http!CallCancelled(c))

ServersNext ==
  \/ \E c \in Callers : Executes(c) \/ Asks(c) \/ Says(c) \/ Denied(c)
  \/ \E c \in Callers : Resumes(c) \/ Sends(c) \/ IsCancelled(c)
  \/ \E p \in Procs : OverStdio(Deliver(p) \/ ProcDies(p) \/ ReaderEnds(p) \/ CloseEnds(p))
  \/ OverStdio(Sweep \/ Quit)
  \/ OverHttp(Http!Sweep \/ Http!SweepEnds \/ Http!Quit \/ Http!ServerRestarts)

ServersSpec == ServersInit /\ [][ServersNext]_serversVars

\* asyncio resumes a task whose wait is over; every wait for an answer has a
\* timeout, and close() kills a process that does not exit in time.  No send has
\* to end: nothing limits drain, and httpx limits each read of a POST and not the
\* whole.  That the executor limits a tool call (tools/executor.py:69) is not
\* assumed: nothing limits register_all.
ServersFairSpec ==
  /\ ServersSpec
  /\ \A c \in Callers : WF_serversVars(Resumes(c))
  /\ \A p \in Procs :
       WF_serversVars(OverStdio(closing[p] # Nothing /\ (ProcDies(p) \/ CloseEnds(p))))

-----------------------------------------------------------------------------
(***************************************************************************)
(* Properties                                                              *)
(***************************************************************************)
\* Each kind of session keeps its types; a confirmation is open for a call
\* that has not gone out.
ServersTypeOK ==
  /\ kind \in {"stdio", "http"} /\ server \in ToolConfig
  /\ IF kind = "stdio" THEN TypeOK ELSE Http!TypeOK
  /\ dialog \subseteq Callers /\ allowed \in BOOLEAN /\ yes \subseteq Callers

\* The table of pending requests against those who wait, see PendingIsAwaited
\* in McpConnection and in HttpSession: nothing is left behind but what a
\* cancellation inside send(), a request that cannot be encoded and over HTTP a
\* body that is no object leave.
TableIsAwaited == IF kind = "stdio" THEN PendingIsAwaited ELSE Http!PendingIsAwaited

\* Over either transport an answer reaches its own request only.
AnswersAreMine == IF kind = "stdio" THEN AnswerIsMine ELSE Http!AnswerIsMine

\* A remote tool that is not read-only by the configuration's word goes out
\* only when the user said yes to this call or to an earlier one, whatever hint
\* the server gives and however many calls wait for a dialog.
RemoteConsented ==
  \A c \in Callers \ {Boot} :
    calls[c].id # 0 => server.listed \/ (server.trusted /\ server.hinted) \/ yes # {}

\* A call that was started, register_all too, ends or hangs in one of its sends:
\* no wait for an answer, no connection and no close goes on for ever, whatever
\* the server and the other callers do.  (That the server stops naming pages is
\* what LastPage takes for granted.)
OnlySendsHang ==
  \A c \in Callers :
    calls[c].phase # "idle" ~> calls[c].phase \in {"done"} \cup Asking \cup Telling
=============================================================================
