------------------------------ MODULE DaemonIPC ------------------------------
(***************************************************************************)
(* How a command that acts on WhatsApp is executed: by the daemon, over    *)
(* its Unix socket, or by the command itself under the store's lock        *)
(* (internal/ipc, and runLiveOrDelegate, tryDaemonCall, newApp, closeApp   *)
(* and program of cmd/wacli-pro).                                          *)
(*                                                                         *)
(* A Daemon is a process of `daemon run`; the service manager starts it    *)
(* again after its end.  A Client is a command.  Of the lock its promise   *)
(* is used, one holder, and that the kernel releases it with the process;  *)
(* StoreLock says when that promise is kept.                               *)
(***************************************************************************)
EXTENDS Naturals, FiniteSets

CONSTANTS Daemon, Client,
          None          \* nobody

ASSUME DaemonIPCAssumption ==
    /\ Daemon \cap Client = {}
    /\ None \notin Daemon \cup Client

VARIABLES
    lock,       \* who holds the store's lock
    phase,      \* where each daemon is
    ctxDone,    \* daemons whose context is cancelled
    sock,       \* whose socket the path daemon.sock names
    listening,  \* daemons whose listener is open
    pc,         \* where each client is
    conn,       \* the daemon its connection leads to
    sent,       \* clients whose request is written
    job,        \* what that daemon does with the connection
    reply,      \* what a client can read from it
    times,      \* how often each command has acted on WhatsApp
    answer      \* what the user was told

daemons == <<phase, ctxDone, sock, listening>>
link == <<conn, sent, job, reply>>
ledger == <<times, answer>>
vars == <<lock, daemons, pc, link, ledger>>

Ledger == INSTANCE CommandLedger

Holding == {"held", "serving", "ended", "unserved", "closed"}

\* mutant: closing the app leaves the connection to WhatsApp
OpenAlways == Holding \cup {"released"}

Open == {"held", "serving", "ended", "unserved"}    \* App.Close was not called
Waiting == {"queued", "reading"}
Busy == {"running", "acted"}

\* net.Dial finds somebody behind the path.
Reaches(d) == sock = d /\ d \in listening

Steps(d, from, to) == phase[d] = from /\ phase' = [phase EXCEPT ![d] = to]
Goes(c, from, to) == pc[c] = from /\ pc' = [pc EXCEPT ![c] = to]
Told(c, r) == answer' = [answer EXCEPT ![c] = r]

\* Connections of d in one of the states S end: their clients read the end of the file.
Drop(d, S) ==
    LET lost == {c \in Client : conn[c] = d /\ job[c] \in S} IN
    /\ job' = [c \in Client |-> IF c \in lost THEN "over" ELSE job[c]]
    /\ reply' = [c \in Client |-> IF c \in lost THEN "eof" ELSE reply[c]]
    /\ UNCHANGED <<conn, sent>>

-----------------------------------------------------------------------------
Init ==
    /\ lock = None
    /\ phase = [d \in Daemon |-> "off"] /\ ctxDone = {}
    /\ sock = None /\ listening = {}
    /\ pc = [c \in Client |-> "start"]
    /\ conn = [c \in Client |-> None] /\ sent = {}
    /\ job = [c \in Client |-> "none"] /\ reply = [c \in Client |-> "none"]
    /\ times = [c \in Client |-> 0] /\ answer = [c \in Client |-> "pending"]

(***************************************************************************)
(* The daemon.                                                             *)
(***************************************************************************)

\* run: newApp takes the lock; a daemon that does not get it exits at once.
Start(d) ==
    /\ Steps(d, "off", "held")
    /\ lock = None /\ lock' = d
    /\ UNCHANGED <<ctxDone, sock, listening, pc, link, ledger>>

\* afterConnect: NewServer removes what is at the path and listens.
Listen(d) ==
    /\ Steps(d, "held", "serving")
    /\ sock' = d
    /\ listening' = listening \cup {d}
    /\ UNCHANGED <<lock, ctxDone, pc, link, ledger>>

\* Stop
Stop(d) ==
    /\ phase[d] # "off"
    /\ ctxDone' = ctxDone \cup {d}
    /\ UNCHANGED <<lock, phase, sock, listening, pc, link, ledger>>

\* Closing a listener unlinks the path, once, and resets what was not accepted.
CloseListener(d) ==
    IF d \in listening
    THEN /\ listening' = listening \ {d} /\ sock' = None
         /\ Drop(d, {"queued"})
    ELSE UNCHANGED <<listening, sock, link>>

\* Serve: a goroutine closes the listener when the context ends.
ServeEnds(d) ==
    /\ d \in ctxDone /\ d \in listening
    /\ CloseListener(d)
    /\ UNCHANGED <<lock, phase, ctxDone, pc, ledger>>

\* Sync returns: cancelled, or with an error.
SyncReturns(d) ==
    /\ phase[d] \in {"held", "serving"}
    /\ phase' = [phase EXCEPT ![d] = "ended"]
    /\ UNCHANGED <<lock, ctxDone, sock, listening, pc, link, ledger>>

\* mutant: that the context ended is enough to have it closed
CloseServerLater(d) ==
    /\ Steps(d, "ended", "unserved")
    /\ UNCHANGED <<lock, ctxDone, sock, listening, pc, link, ledger>>

\* ipcServer.Close, where there is a server; it also removes the path.
CloseServer(d) ==
    /\ Steps(d, "ended", "unserved")
    /\ CloseListener(d)
    /\ UNCHANGED <<lock, ctxDone, pc, ledger>>

\* closeApp: the connection to WhatsApp is closed, handlers are not waited for ...
CloseApp(d) ==
    /\ d \in ctxDone
    /\ Steps(d, "unserved", "closed")
    /\ UNCHANGED <<lock, ctxDone, sock, listening, pc, link, ledger>>

\* ... and the lock released.
Release(d) ==
    /\ Steps(d, "closed", "released")
    /\ lock' = None
    /\ UNCHANGED <<ctxDone, sock, listening, pc, link, ledger>>

\* The process ends: after Release, in fail, because Stop waited for 20
\* seconds, or killed.  A socket stays where it is.
Exit(d) ==
    /\ phase[d] # "off"
    /\ phase' = [phase EXCEPT ![d] = "off"]
    /\ lock' = IF lock = d THEN None ELSE lock
    /\ ctxDone' = ctxDone \ {d} /\ listening' = listening \ {d}
    /\ Drop(d, Waiting \cup Busy)
    /\ UNCHANGED <<sock, pc, ledger>>

(***************************************************************************)
(* Its handling of a connection.                                           *)
(***************************************************************************)

Accept(c) ==
    /\ job[c] = "queued"
    /\ job' = [job EXCEPT ![c] = "reading"]
    /\ UNCHANGED <<lock, daemons, pc, conn, sent, reply, ledger>>

\* handleConn has the request; its client may be gone by now.
Read(c) ==
    /\ job[c] = "reading" /\ c \in sent
    /\ job' = [job EXCEPT ![c] = "running"]
    /\ UNCHANGED <<lock, daemons, pc, conn, sent, reply, ledger>>

\* No request within 30 seconds, or a client that closed without one.
ReadFails(c) ==
    /\ job[c] = "reading" /\ c \notin sent
    /\ job' = [job EXCEPT ![c] = "over"]
    /\ reply' = [reply EXCEPT ![c] = "failed"]
    /\ UNCHANGED <<lock, daemons, pc, conn, sent, ledger>>

\* The handler acts through the app, if it is still connected ...
Act(c) ==
    /\ job[c] = "running" /\ phase[conn[c]] \in Open
    /\ times' = [times EXCEPT ![c] = @ + 1]
    /\ job' = [job EXCEPT ![c] = "acted"]
    /\ UNCHANGED <<lock, daemons, pc, conn, sent, reply, answer>>

\* mutant: the connection of a handler that failed is left as it is
RespondSuccess(c) ==
    /\ job[c] \in Busy
    /\ job' = [job EXCEPT ![c] = "over"]
    /\ reply' = IF job[c] = "acted" THEN [reply EXCEPT ![c] = "ok"] ELSE reply
    /\ UNCHANGED <<lock, daemons, pc, conn, sent, ledger>>

\* ... and returns; an error may hide that it did act.
Respond(c) ==
    /\ job[c] \in Busy
    /\ job' = [job EXCEPT ![c] = "over"]
    /\ \E r \in IF job[c] = "acted" THEN {"ok", "failed"} ELSE {"failed"} :
           reply' = [reply EXCEPT ![c] = r]
    /\ UNCHANGED <<lock, daemons, pc, conn, sent, ledger>>

(***************************************************************************)
(* The command, by way of the daemon.                                      *)
(***************************************************************************)

\* IsAvailable
Probe(c) ==
    /\ Goes(c, "start", IF \E d \in Daemon : Reaches(d) THEN "probed" ELSE "direct")
    /\ UNCHANGED <<lock, daemons, link, ledger>>

\* Call: the dialer connects ...
Dial(c, d) ==
    /\ Goes(c, "probed", "dialled")
    /\ Reaches(d)
    /\ conn' = [conn EXCEPT ![c] = d]
    /\ job' = [job EXCEPT ![c] = "queued"]
    /\ UNCHANGED <<lock, daemons, sent, reply, ledger>>

\* ... or not, in time or at all, and the command falls back.
DialFails(c) ==
    /\ Goes(c, "probed", "direct")
    /\ UNCHANGED <<lock, daemons, link, ledger>>

Send(c) ==
    /\ Goes(c, "dialled", "waiting")
    /\ job[c] # "over"
    /\ sent' = sent \cup {c}
    /\ UNCHANGED <<lock, daemons, conn, job, reply, ledger>>

\* mutant: every failure of the daemon call falls back
CallFailsOver(c) ==
    /\ \/ Goes(c, "dialled", "direct")
       \/ Goes(c, "waiting", "direct") /\ reply[c] \in {"none", "eof"}
    /\ UNCHANGED <<lock, daemons, link, ledger>>

\* The request cannot be written, the connection ends, or time is up: the
\* daemon may or may not have the request.
CallFails(c) ==
    /\ \/ Goes(c, "dialled", "over")
       \/ Goes(c, "waiting", "over") /\ reply[c] \in {"none", "eof"}
    /\ Told(c, "doubt")
    /\ UNCHANGED <<lock, daemons, link, times>>

Receive(c) ==
    /\ Goes(c, "waiting", "over")
    /\ reply[c] \in {"ok", "failed"}
    /\ Told(c, reply[c])
    /\ UNCHANGED <<lock, daemons, link, times>>

(***************************************************************************)
(* The command, on its own.                                                *)
(***************************************************************************)

AcquireDirect(c) ==
    /\ Goes(c, "direct", "holding")
    /\ lock = None /\ lock' = c
    /\ UNCHANGED <<daemons, link, ledger>>

StoreLocked(c) ==
    /\ Goes(c, "direct", "over")
    /\ lock # None
    /\ Told(c, "refused")
    /\ UNCHANGED <<lock, daemons, link, times>>

\* EnsureAuthed or Connect fails.
ConnectFails(c) ==
    /\ Goes(c, "holding", "closing")
    /\ Told(c, "refused")
    /\ UNCHANGED <<lock, daemons, link, times>>

\* Connected: the command acts, or its operation returns without.
ActDirect(c) ==
    /\ Goes(c, "holding", "acted")
    /\ times' = [times EXCEPT ![c] = @ + 1]
    /\ UNCHANGED <<lock, daemons, link, answer>>

OpReturns(c) ==
    /\ \/ Goes(c, "holding", "closing") /\ Told(c, "failed")
       \/ Goes(c, "acted", "closing") /\ (Told(c, "ok") \/ Told(c, "failed"))
    /\ UNCHANGED <<lock, daemons, link, times>>

\* closeApp, deferred
CloseDirect(c) ==
    /\ Goes(c, "closing", "over")
    /\ lock' = None
    /\ UNCHANGED <<daemons, link, ledger>>

\* Interrupted or killed: the user knows nothing it was not told.
Kill(c) ==
    /\ pc[c] # "over"
    /\ pc' = [pc EXCEPT ![c] = "over"]
    /\ lock' = IF lock = c THEN None ELSE lock
    /\ answer' = [answer EXCEPT ![c] = IF @ = "pending" THEN "doubt" ELSE @]
    /\ UNCHANGED <<daemons, link, times>>

-----------------------------------------------------------------------------
DaemonStep(d) ==
    \/ Start(d) \/ Listen(d) \/ Stop(d) \/ ServeEnds(d) \/ SyncReturns(d)
    \/ CloseServer(d) \/ CloseApp(d) \/ Release(d) \/ Exit(d)

HandlerStep(c) == Accept(c) \/ Read(c) \/ ReadFails(c) \/ Act(c) \/ Respond(c)

Delegated(c) ==
    Probe(c) \/ (\E d \in Daemon : Dial(c, d)) \/ DialFails(c) \/ Send(c) \/ Receive(c)

Direct(c) ==
    \/ AcquireDirect(c) \/ StoreLocked(c) \/ ConnectFails(c) \/ ActDirect(c)
    \/ OpReturns(c) \/ CloseDirect(c)

Next ==
    \/ \E d \in Daemon : DaemonStep(d)
    \/ \E c \in Client :
           HandlerStep(c) \/ Delegated(c) \/ CallFails(c) \/ Direct(c) \/ Kill(c)

Spec == Init /\ [][Next]_vars

\* Goroutines run, handlers respect their contexts, a command without
\* --timeout keeps waiting: only an end of its connection makes the call fail.
FairSpec ==
    /\ Spec
    /\ \A c \in Client :
           /\ WF_vars(Accept(c) \/ Read(c) \/ Respond(c))
           /\ WF_vars(Delegated(c) \/ Direct(c) \/ (CallFails(c) /\ reply[c] # "none"))

-----------------------------------------------------------------------------
TypeOK ==
    /\ lock \in {None} \cup Daemon \cup Client
    /\ phase \in [Daemon -> {"off", "released"} \cup Holding] /\ ctxDone \subseteq Daemon
    /\ sock \in {None} \cup Daemon /\ listening \subseteq Daemon
    /\ pc \in [Client -> {"start", "probed", "dialled", "waiting", "direct", "holding",
                          "acted", "closing", "over"}]
    /\ conn \in [Client -> {None} \cup Daemon] /\ sent \subseteq Client
    /\ job \in [Client -> {"none", "over"} \cup Waiting \cup Busy]
    /\ reply \in [Client -> {"none", "eof", "ok", "failed"}]
    /\ times \in [Client -> 0..1]
    /\ answer \in [Client -> {"pending", "doubt"} \cup Ledger!Final]

\* client.go:12-17: a failure after the request was sent is not retried, "retrying
\* could duplicate a non-idempotent operation".  Whatever process executes it,
\* however daemons come and go, a command acts at most once, and its end says
\* whether it did, did not, or may yet.
LedgerSpec == Ledger!Spec

\* docs/spec.md:41: what accesses the WhatsApp session holds the lock, also the
\* handlers a stopping daemon leaves behind.
ActsAsHolder ==
    [][\A c \in Client : times'[c] # times[c] =>
           lock = IF conn[c] = None THEN c ELSE conn[c]]_vars

\* A daemon that serves can be reached, whatever its predecessor, still closing
\* down or killed, did or does to the path they share.
ServingIsReachable ==
    \A d \in Daemon : phase[d] = "serving" /\ d \notin ctxDone => Reaches(d)

\* Every command that is not killed comes to an end, and with an answer,
\* although it waits without a time-out for a daemon that may stop or crash.
EveryCommandEnds ==
    \A c \in Client : (pc[c] # "start") ~> (pc[c] = "over" /\ answer[c] # "pending")
=============================================================================
