---------------------------- MODULE CommandProofs ----------------------------
(***************************************************************************)
(* How a command is executed: by which process (DaemonIPC), for any number *)
(* of daemons and commands, and by which code (Commands), whatever goes    *)
(* wrong.                                                                  *)
(*                                                                         *)
(* At most one process acts or serves, the holder of the lock (LockInv);   *)
(* a listener is only open while its daemon holds the lock, so the path is *)
(* its own (SockInv); and a command's single action is pending in exactly  *)
(* one place, its own process or the connection it made (CommandInv).      *)
(*                                                                         *)
(* The two paths of a command differ in the order of their checks only:    *)
(* they have the same guards, make the same change, and go on in the same  *)
(* way (PathsAlike).  So what becomes of either is settled by what goes    *)
(* wrong, not by the path (PathInv).                                       *)
(***************************************************************************)
EXTENDS DaemonIPC, Commands, SequenceTheorems, TLAPS

Alone == {"holding", "acted", "closing"}

LockInv ==
    /\ \A d \in Daemon : phase[d] \in Holding <=> lock = d
    /\ \A c \in Client : pc[c] \in Alone <=> lock = c

SockInv ==
    /\ \A d \in listening : phase[d] \in {"serving", "ended"} /\ sock = d
    /\ \A d \in Daemon : phase[d] = "serving" /\ d \notin ctxDone => d \in listening

LinkInv(c) ==
    /\ pc[c] \in {"start", "probed", "direct"} \cup Alone => conn[c] = None
    /\ pc[c] \in {"dialled", "waiting"} => conn[c] # None
    /\ conn[c] = None <=> job[c] = "none"
    /\ job[c] # "over" => reply[c] = "none"

OnceInv(c) ==
    /\ times[c] = 1 /\ conn[c] = None => pc[c] \in {"acted", "closing", "over"}
    /\ times[c] = 1 /\ conn[c] # None => job[c] \in {"acted", "over"}
    /\ pc[c] = "acted" \/ job[c] = "acted" \/ reply[c] = "ok" => times[c] = 1
    /\ pc[c] \notin {"closing", "over"} => answer[c] = "pending"
    /\ conn[c] # None /\ answer[c] \in Ledger!Final => job[c] = "over"

CommandInv == \A c \in Client : LinkInv(c) /\ OnceInv(c)

IInv == TypeOK /\ LockInv /\ SockInv /\ CommandInv

(* The parts of a step that only concern connections that end. *)
LEMMA DropFacts ==
  ASSUME TypeOK, NEW d \in Daemon, NEW S \in SUBSET (Waiting \cup Busy), Drop(d, S)
  PROVE  /\ conn' = conn /\ sent' = sent
         /\ job' \in [Client -> {"none", "over"} \cup Waiting \cup Busy]
         /\ reply' \in [Client -> {"none", "eof", "ok", "failed"}]
         /\ \A c \in Client :
               \/ job'[c] = job[c] /\ reply'[c] = reply[c]
               \/ job[c] \in S /\ conn[c] = d /\ job'[c] = "over" /\ reply'[c] = "eof"
  BY DEF Drop, TypeOK

LEMMA CloseFacts ==
  ASSUME TypeOK, NEW d \in Daemon, CloseListener(d)
  PROVE  /\ conn' = conn /\ sent' = sent
         /\ job' \in [Client -> {"none", "over"} \cup Waiting \cup Busy]
         /\ reply' \in [Client -> {"none", "eof", "ok", "failed"}]
         /\ \A c \in Client :
               \/ job'[c] = job[c] /\ reply'[c] = reply[c]
               \/ job[c] \in Waiting \cup Busy /\ job'[c] = "over" /\ reply'[c] = "eof"
         /\ listening' = listening \ {d}
         /\ sock' = sock \/ (sock' = None /\ d \in listening)
<1>1. CASE d \in listening
  <2>1. Drop(d, {"queued"})
    BY <1>1 DEF CloseListener
  <2>2. {"queued"} \subseteq Waiting
    BY DEF Waiting
  <2>3. QED
    BY <1>1, <2>1, <2>2, DropFacts DEF CloseListener
<1>2. CASE d \notin listening
  BY <1>2 DEF CloseListener, link, TypeOK
<1>3. QED
  BY <1>1, <1>2

LEMMA TypeStep ==
  ASSUME IInv, [Next]_vars
  PROVE  TypeOK'
<1> USE DEF daemons, link, ledger
<1>0. TypeOK
  BY DEF IInv
<1>1. ASSUME NEW d \in Daemon, Start(d) \/ Listen(d) \/ Stop(d) \/ SyncReturns(d) \/ CloseApp(d) \/ Release(d)
      PROVE  TypeOK'
  BY <1>0, <1>1 DEF TypeOK, Start, Listen, Stop, SyncReturns, CloseApp, Release, Steps, Holding
<1>2. ASSUME NEW d \in Daemon, ServeEnds(d) \/ CloseServer(d)
      PROVE  TypeOK'
  <2>1. CloseListener(d)
    BY <1>2 DEF ServeEnds, CloseServer
  <2>2. phase' \in [Daemon -> {"off", "released"} \cup Holding]
    BY <1>0, <1>2 DEF TypeOK, ServeEnds, CloseServer, Steps, Holding
  <2>3. QED
    BY <1>0, <1>2, <2>1, <2>2, CloseFacts DEF TypeOK, ServeEnds, CloseServer
<1>3. ASSUME NEW d \in Daemon, Exit(d)
      PROVE  TypeOK'
  <2>1. Drop(d, Waiting \cup Busy)
    BY <1>3 DEF Exit
  <2>2. QED
    BY <1>0, <1>3, <2>1, DropFacts DEF TypeOK, Exit, Holding
<1>4. ASSUME NEW c \in Client, Accept(c) \/ Read(c) \/ ReadFails(c) \/ Respond(c)
      PROVE  TypeOK'
  BY <1>0, <1>4 DEF TypeOK, Accept, Read, ReadFails, Respond, Waiting, Busy
<1>5. ASSUME NEW c \in Client, Act(c) \/ ActDirect(c)
      PROVE  TypeOK'
  <2>1. times[c] # 1
    BY <1>5 DEF IInv, CommandInv, OnceInv, LinkInv, Act, ActDirect, Goes, Alone
  <2>2. times' \in [Client -> 0..1]
    BY <1>0, <1>5, <2>1 DEF TypeOK, Act, ActDirect
  <2>3. QED
    BY <1>0, <1>5, <2>2 DEF TypeOK, Act, ActDirect, Goes, Busy
<1>6. ASSUME NEW c \in Client, Delegated(c) \/ CallFails(c)
      PROVE  TypeOK'
  BY <1>0, <1>6 DEF TypeOK, Delegated, CallFails, Probe, Dial, DialFails, Send, Receive, Goes, Told,
     Ledger!Final, Waiting
<1>7. ASSUME NEW c \in Client,
             AcquireDirect(c) \/ StoreLocked(c) \/ ConnectFails(c) \/ OpReturns(c) \/ CloseDirect(c)
      PROVE  TypeOK'
  BY <1>0, <1>7 DEF TypeOK, AcquireDirect, StoreLocked, ConnectFails, OpReturns, CloseDirect, Goes, Told,
     Ledger!Final
<1>8. ASSUME NEW c \in Client, Kill(c)
      PROVE  TypeOK'
  BY <1>0, <1>8 DEF TypeOK, Kill
<1>9. CASE UNCHANGED vars
  BY <1>0, <1>9 DEF TypeOK, vars
<1>10. QED
  BY <1>1, <1>2, <1>3, <1>4, <1>5, <1>6, <1>7, <1>8, <1>9 DEF Next, DaemonStep, HandlerStep, Direct

(* The lock has at most one holder, and it knows that it is. *)
LEMMA LockStep ==
  ASSUME IInv, [Next]_vars
  PROVE  LockInv'
<1> USE DaemonIPCAssumption DEF daemons, link, ledger, DaemonIPCAssumption
<1>0. TypeOK /\ LockInv
  BY DEF IInv
<1>1. ASSUME NEW d \in Daemon, Start(d)
      PROVE  LockInv'
  BY <1>0, <1>1 DEF LockInv, TypeOK, Start, Steps, Holding
<1>2. ASSUME NEW d \in Daemon, Listen(d) \/ SyncReturns(d) \/ CloseServer(d) \/ CloseApp(d)
      PROVE  LockInv'
  BY <1>0, <1>2 DEF LockInv, TypeOK, Listen, SyncReturns, CloseServer, CloseApp, Steps, Holding
<1>3. ASSUME NEW d \in Daemon, Release(d) \/ Exit(d)
      PROVE  LockInv'
  BY <1>0, <1>3 DEF LockInv, TypeOK, Release, Exit, Steps, Holding
<1>4. ASSUME NEW c \in Client, Probe(c) \/ DialFails(c) \/ Send(c) \/ Receive(c) \/ CallFails(c) \/ StoreLocked(c)
      PROVE  LockInv'
  BY <1>0, <1>4 DEF LockInv, TypeOK, Probe, DialFails, Send, Receive, CallFails, StoreLocked, Goes, Alone
<1>5. ASSUME NEW c \in Client, NEW d \in Daemon, Dial(c, d)
      PROVE  LockInv'
  BY <1>0, <1>5 DEF LockInv, TypeOK, Dial, Goes, Alone
<1>6. ASSUME NEW c \in Client, AcquireDirect(c) \/ ConnectFails(c) \/ ActDirect(c) \/ OpReturns(c)
      PROVE  LockInv'
  BY <1>0, <1>6 DEF LockInv, TypeOK, AcquireDirect, ConnectFails, ActDirect, OpReturns, Goes, Alone
<1>7. ASSUME NEW c \in Client, CloseDirect(c) \/ Kill(c)
      PROVE  LockInv'
  BY <1>0, <1>7 DEF LockInv, TypeOK, CloseDirect, Kill, Goes, Alone
<1>8. CASE UNCHANGED <<lock, phase, pc>>
  BY <1>0, <1>8 DEF LockInv
<1>9. QED
  BY <1>1, <1>2, <1>3, <1>4, <1>5, <1>6, <1>7, <1>8 DEF Next, DaemonStep, HandlerStep, Delegated, Direct,
     Stop, ServeEnds, Accept, Read, ReadFails, Act, Respond, vars

(* Only the holder of the lock listens, behind a path that is its own. *)
LEMMA SockStep ==
  ASSUME IInv, [Next]_vars
  PROVE  SockInv'
<1> USE DEF daemons, link, ledger
<1>0. TypeOK /\ LockInv /\ SockInv
  BY DEF IInv
<1>1. \A d, e \in listening : d = e
  BY <1>0 DEF SockInv
<1>2. ASSUME NEW d \in Daemon, Start(d) \/ CloseApp(d) \/ Release(d) \/ Stop(d)
      PROVE  SockInv'
  BY <1>0, <1>2 DEF SockInv, TypeOK, Start, CloseApp, Release, Stop, Steps
<1>3. ASSUME NEW d \in Daemon, Listen(d)
      PROVE  SockInv'
  <2>1. listening = {}
    BY <1>0, <1>3, DaemonIPCAssumption DEF SockInv, LockInv, TypeOK, Listen, Steps, Holding
  <2>2. QED
    BY <1>0, <1>3, <2>1 DEF SockInv, TypeOK, Listen, Steps, LockInv, Holding
<1>4. ASSUME NEW d \in Daemon, SyncReturns(d)
      PROVE  SockInv'
  BY <1>0, <1>4 DEF SockInv, TypeOK, SyncReturns
<1>5. ASSUME NEW d \in Daemon, ServeEnds(d)
      PROVE  SockInv'
  BY <1>0, <1>1, <1>5, CloseFacts DEF SockInv, TypeOK, ServeEnds
<1>6. ASSUME NEW d \in Daemon, CloseServer(d)
      PROVE  SockInv'
  BY <1>0, <1>1, <1>6, CloseFacts DEF SockInv, TypeOK, CloseServer, Steps
<1>7. ASSUME NEW d \in Daemon, Exit(d)
      PROVE  SockInv'
  BY <1>0, <1>7 DEF SockInv, TypeOK, Exit
<1>8. CASE UNCHANGED daemons
  BY <1>0, <1>8 DEF SockInv
<1>9. QED
  BY <1>2, <1>3, <1>4, <1>5, <1>6, <1>7, <1>8 DEF Next, DaemonStep, HandlerStep, Delegated, Direct,
     Accept, Read, ReadFails, Act, Respond, Probe, Dial, DialFails, Send, Receive, CallFails,
     AcquireDirect, StoreLocked, ConnectFails, ActDirect, OpReturns, CloseDirect, Kill, vars

(* What one command's connection and process have in hand. *)
LEMMA CommandStep ==
  ASSUME IInv, [Next]_vars
  PROVE  CommandInv'
<1> USE DaemonIPCAssumption DEF daemons, link, ledger, DaemonIPCAssumption
<1> DEFINE Unmoved(c) == /\ pc'[c] = pc[c] /\ conn'[c] = conn[c]
                         /\ times'[c] = times[c] /\ answer'[c] = answer[c]
<1>0. TypeOK /\ CommandInv
  BY DEF IInv
<1>1. ASSUME NEW d \in Daemon, DaemonStep(d)
      PROVE  CommandInv'
  <2>1. \A c \in Client :
          /\ Unmoved(c)
          /\ \/ job'[c] = job[c] /\ reply'[c] = reply[c]
             \/ job[c] \in Waiting \cup Busy /\ job'[c] = "over" /\ reply'[c] = "eof"
    <3>1. CASE ServeEnds(d) \/ CloseServer(d)
      BY <1>0, <3>1, CloseFacts DEF ServeEnds, CloseServer
    <3>2. CASE Exit(d)
      <4>1. Drop(d, Waiting \cup Busy)
        BY <3>2 DEF Exit
      <4>2. QED
        BY <1>0, <3>2, <4>1, DropFacts DEF Exit
    <3>3. CASE ~(ServeEnds(d) \/ CloseServer(d) \/ Exit(d))
      BY <1>1, <3>3 DEF DaemonStep, Start, Listen, Stop, SyncReturns, CloseApp, Release
    <3>4. QED
      BY <3>1, <3>2, <3>3
  <2>2. ASSUME NEW c \in Client PROVE LinkInv(c)' /\ OnceInv(c)'
    BY <1>0, <2>1 DEF CommandInv, LinkInv, OnceInv, Waiting, Busy
  <2>3. QED
    BY <2>2 DEF CommandInv
<1>2. ASSUME NEW c \in Client, HandlerStep(c)
      PROVE  CommandInv'
  <2>1. ASSUME NEW b \in Client, b # c PROVE LinkInv(b)' /\ OnceInv(b)'
    BY <1>0, <1>2, <2>1 DEF HandlerStep, Accept, Read, ReadFails, Act, Respond, CommandInv,
       LinkInv, OnceInv, TypeOK
  <2>2. LinkInv(c)' /\ OnceInv(c)'
    <3>1. CASE Accept(c) \/ Read(c) \/ ReadFails(c)
      BY <1>0, <3>1 DEF Accept, Read, ReadFails, CommandInv, LinkInv, OnceInv, TypeOK
    <3>2. CASE Act(c)
      BY <1>0, <3>2 DEF Act, CommandInv, LinkInv, OnceInv, TypeOK, Ledger!Final
    <3>3. CASE Respond(c)
      BY <1>0, <3>3 DEF Respond, CommandInv, LinkInv, OnceInv, TypeOK, Busy
    <3>4. QED
      BY <1>2, <3>1, <3>2, <3>3 DEF HandlerStep
  <2>3. QED
    BY <2>1, <2>2 DEF CommandInv
<1>3. ASSUME NEW c \in Client, Delegated(c) \/ CallFails(c)
      PROVE  CommandInv'
  <2>1. ASSUME NEW b \in Client, b # c PROVE LinkInv(b)' /\ OnceInv(b)'
    BY <1>0, <1>3, <2>1 DEF Delegated, CallFails, Probe, Dial, DialFails, Send, Receive, Goes, Told,
       CommandInv, LinkInv, OnceInv, TypeOK
  <2>2. LinkInv(c)' /\ OnceInv(c)'
    <3>1. CASE Probe(c) \/ DialFails(c) \/ Send(c)
      BY <1>0, <3>1 DEF Probe, DialFails, Send, Goes, CommandInv, LinkInv, OnceInv, TypeOK, Alone
    <3>2. ASSUME NEW d \in Daemon, Dial(c, d) PROVE LinkInv(c)' /\ OnceInv(c)'
      BY <1>0, <3>2 DEF Dial, Goes, CommandInv, LinkInv, OnceInv, TypeOK, Alone, Ledger!Final
    <3>3. CASE Receive(c)
      BY <1>0, <3>3 DEF Receive, Goes, Told, CommandInv, LinkInv, OnceInv, TypeOK, Alone
    <3>4. CASE CallFails(c)
      BY <1>0, <3>4 DEF CallFails, Goes, Told, CommandInv, LinkInv, OnceInv, TypeOK, Alone, Ledger!Final
    <3>5. QED
      BY <1>3, <3>1, <3>2, <3>3, <3>4 DEF Delegated
  <2>3. QED
    BY <2>1, <2>2 DEF CommandInv
<1>4. ASSUME NEW c \in Client, Direct(c) \/ Kill(c)
      PROVE  CommandInv'
  <2>1. ASSUME NEW b \in Client, b # c PROVE LinkInv(b)' /\ OnceInv(b)'
    BY <1>0, <1>4, <2>1 DEF Direct, Kill, AcquireDirect, StoreLocked, ConnectFails, ActDirect,
       OpReturns, CloseDirect, Goes, Told, CommandInv, LinkInv, OnceInv, TypeOK
  <2>2. LinkInv(c)' /\ OnceInv(c)'
    <3>1. CASE AcquireDirect(c) \/ StoreLocked(c) \/ ConnectFails(c) \/ CloseDirect(c)
      BY <1>0, <3>1 DEF AcquireDirect, StoreLocked, ConnectFails, CloseDirect, Goes, Told,
         CommandInv, LinkInv, OnceInv, TypeOK, Alone
    <3>2. CASE ActDirect(c)
      <4>1. times[c] = 0 /\ conn[c] = None /\ answer[c] = "pending"
        BY <1>0, <3>2 DEF ActDirect, Goes, CommandInv, LinkInv, OnceInv, TypeOK, Alone
      <4>2. QED
        BY <1>0, <3>2, <4>1 DEF ActDirect, Goes, CommandInv, LinkInv, OnceInv, TypeOK, Alone
    <3>3. CASE OpReturns(c)
      BY <1>0, <3>3 DEF OpReturns, Goes, Told, CommandInv, LinkInv, OnceInv, TypeOK, Alone
    <3>4. CASE Kill(c)
      BY <1>0, <3>4 DEF Kill, CommandInv, LinkInv, OnceInv, TypeOK, Alone, Ledger!Final
    <3>5. QED
      BY <1>4, <3>1, <3>2, <3>3, <3>4 DEF Direct
  <2>3. QED
    BY <2>1, <2>2 DEF CommandInv
<1>5. CASE UNCHANGED vars
  BY <1>0, <1>5 DEF vars, CommandInv, LinkInv, OnceInv
<1>6. QED
  BY <1>1, <1>2, <1>3, <1>4, <1>5 DEF Next

LEMMA InitIInv == Init => IInv
  BY DaemonIPCAssumption DEF DaemonIPCAssumption, Init, IInv, TypeOK, LockInv, SockInv, CommandInv,
     LinkInv, OnceInv, Holding, Alone, Ledger!Final

LEMMA Inductive == Spec => []IInv
<1>1. IInv /\ [Next]_vars => IInv'
  BY TypeStep, LockStep, SockStep, CommandStep DEF IInv
<1>2. QED
  BY InitIInv, <1>1, PTL DEF Spec

(* The types; a command has acted at most once. *)
THEOREM TypeCorrect == Spec => []TypeOK
<1>1. IInv => TypeOK
  BY DEF IInv
<1>2. QED
  BY Inductive, <1>1, PTL

(* A daemon that serves is found at the path, with any number of daemons. *)
THEOREM ServersAreReachable == Spec => []ServingIsReachable
<1>1. IInv => ServingIsReachable
  BY DEF IInv, SockInv, ServingIsReachable, Reaches
<1>2. QED
  BY Inductive, <1>1, PTL

(* Who acts on WhatsApp holds the lock of the store. *)
THEOREM OnlyTheHolderActs == Spec => ActsAsHolder
<1> DEFINE A == \A c \in Client : times'[c] # times[c] =>
                    lock = IF conn[c] = None THEN c ELSE conn[c]
<1>1. IInv /\ [Next]_vars => [A]_vars
  <2>1. SUFFICES ASSUME IInv, Next, NEW c \in Client, times'[c] # times[c]
                 PROVE  lock = IF conn[c] = None THEN c ELSE conn[c]
    OBVIOUS
  <2>2. \A b \in Client : Act(b) \/ ActDirect(b) => b = c
    BY <2>1 DEF Act, ActDirect, IInv, TypeOK
  <2>3. CASE Act(c)
    <3>1. conn[c] \in Daemon
      BY <2>1, <2>3 DEF Act, IInv, TypeOK, CommandInv, LinkInv
    <3>2. QED
      BY <2>1, <2>3, <3>1, DaemonIPCAssumption DEF DaemonIPCAssumption, Act, IInv, LockInv, Open, Holding
  <2>4. CASE ActDirect(c)
    BY <2>1, <2>4 DEF ActDirect, Goes, IInv, LockInv, CommandInv, LinkInv, Alone
  <2>5. CASE ~Act(c) /\ ~ActDirect(c)
    <3>1. ASSUME NEW d \in Daemon, DaemonStep(d) PROVE times' = times
      BY <3>1 DEF DaemonStep, Start, Listen, Stop, ServeEnds, SyncReturns, CloseServer, CloseApp,
         Release, Exit, ledger
    <3>2. ASSUME NEW b \in Client, ~Act(b), ~ActDirect(b),
                 HandlerStep(b) \/ Delegated(b) \/ CallFails(b) \/ Direct(b) \/ Kill(b)
          PROVE  times' = times
      BY <3>2 DEF HandlerStep, Accept, Read, ReadFails, Respond, Delegated, Probe, Dial, DialFails,
         Send, Receive, CallFails, Direct, AcquireDirect, StoreLocked, ConnectFails, OpReturns,
         CloseDirect, Kill, ledger
    <3>3. QED
      BY <2>1, <2>2, <2>5, <3>1, <3>2 DEF Next
  <2>6. QED
    BY <2>3, <2>4, <2>5
<1>2. QED
  BY Inductive, <1>1, PTL DEF Spec, ActsAsHolder

(* However a command is executed, it acts at most once, and what its user is *)
(* told of it is true.                                                       *)
THEOREM CommandsKeepTheLedger == Spec => LedgerSpec
<1> USE DEF ledger, daemons, link
<1>1. Init => Ledger!Init
  BY DEF Init, Ledger!Init
<1>2. IInv /\ [Next]_vars => [Ledger!Next]_<<times, answer>>
  <2> SUFFICES ASSUME IInv, [Next]_vars PROVE [Ledger!Next]_<<times, answer>>
    OBVIOUS
  <2>0. TypeOK /\ CommandInv
    BY DEF IInv
  <2>1. ASSUME NEW c \in Client, Act(c) PROVE Ledger!Act(c)
    <3>1. times[c] = 0 /\ answer[c] \notin Ledger!Final
      BY <2>0, <2>1 DEF Act, TypeOK, CommandInv, LinkInv, OnceInv
    <3>2. QED
      BY <2>1, <3>1 DEF Act, Ledger!Act, Ledger!Final
  <2>2. ASSUME NEW c \in Client, ActDirect(c) PROVE Ledger!Act(c)
    <3>1. times[c] = 0 /\ answer[c] = "pending"
      BY <2>0, <2>2 DEF ActDirect, Goes, TypeOK, CommandInv, LinkInv, OnceInv, Alone
    <3>2. QED
      BY <2>2, <3>1 DEF ActDirect, Ledger!Act, Ledger!Final
  <2>3. ASSUME NEW c \in Client, CallFails(c) PROVE Ledger!Tell(c)
    BY <2>0, <2>3 DEF CallFails, Goes, Told, CommandInv, OnceInv, Ledger!Tell, Ledger!Final
  <2>4. ASSUME NEW c \in Client, Receive(c) PROVE Ledger!Tell(c)
    BY <2>0, <2>4 DEF Receive, Goes, Told, CommandInv, OnceInv, Ledger!Tell, Ledger!Final
  <2>5. ASSUME NEW c \in Client, StoreLocked(c) \/ ConnectFails(c) PROVE Ledger!Tell(c)
    <3>1. times[c] = 0 /\ answer[c] = "pending"
      BY <2>0, <2>5 DEF StoreLocked, ConnectFails, Goes, TypeOK, CommandInv, LinkInv, OnceInv, Alone
    <3>2. QED
      BY <2>5, <3>1 DEF StoreLocked, ConnectFails, Told, Ledger!Tell, Ledger!Final
  <2>6. ASSUME NEW c \in Client, OpReturns(c) PROVE Ledger!Tell(c)
    BY <2>0, <2>6 DEF OpReturns, Goes, Told, CommandInv, OnceInv, Ledger!Tell, Ledger!Final
  <2>7. ASSUME NEW c \in Client, Kill(c) PROVE Ledger!Tell(c) \/ UNCHANGED <<times, answer>>
    <3>1. CASE answer[c] = "pending"
      BY <2>7, <3>1 DEF Kill, Ledger!Tell, Ledger!Final
    <3>2. CASE answer[c] # "pending"
      BY <2>0, <2>7, <3>2 DEF Kill, TypeOK
    <3>3. QED
      BY <3>1, <3>2
  <2>8. ASSUME NEW d \in Daemon, DaemonStep(d) PROVE UNCHANGED <<times, answer>>
    BY <2>8 DEF DaemonStep, Start, Listen, Stop, ServeEnds, SyncReturns, CloseServer, CloseApp,
       Release, Exit
  <2>9. ASSUME NEW c \in Client,
               \/ Accept(c) \/ Read(c) \/ ReadFails(c) \/ Respond(c)
               \/ Probe(c) \/ (\E d \in Daemon : Dial(c, d)) \/ DialFails(c) \/ Send(c)
               \/ AcquireDirect(c) \/ CloseDirect(c)
        PROVE  UNCHANGED <<times, answer>>
    BY <2>9 DEF Accept, Read, ReadFails, Respond, Probe, Dial, DialFails, Send, AcquireDirect,
       CloseDirect
  <2>10. QED
    BY <2>1, <2>2, <2>3, <2>4, <2>5, <2>6, <2>7, <2>8, <2>9
    DEF Next, HandlerStep, Delegated, Direct, Ledger!Next, vars
<1>3. QED
  BY Inductive, <1>1, <1>2, PTL DEF Spec, LedgerSpec, Ledger!Spec

-----------------------------------------------------------------------------
(* Steps before the change, or before the question that must be answered and is
   what the command is for; that step, the turn; and steps that follow it. *)
Prep ==
  {[kind |-> "check", what |-> w] : w \in Wrong}
    \cup {[kind |-> "ask", what |-> "info"], [kind |-> "do", what |-> "preview"]}

Changes ==
  {"message", "reaction", "revocation", "edit", "presence", "chat_state", "group",
   "membership", "photo", "link", "profile", "channel"}

Turns ==
  {[kind |-> "change", what |-> w] : w \in Changes}
    \cup {[kind |-> "ask", what |-> "info"]}

Facts == {"chat", "message", "edit", "downloaded", "group", "membership", "history"}

Harmless == {"revocation", "chat_state"}

After ==
  {[kind |-> "keep", what |-> w] : w \in Facts}
    \cup {[kind |-> "must_keep", what |-> w] : w \in Harmless}
    \cup {[kind |-> "look", what |-> "info"], [kind |-> "do", what |-> "forget"]}

Step == Prep \cup Turns \cup After

(* What may follow: a step that must succeed stands alone, after a change that
   may be repeated, and no two looks follow each other. *)
Tails(c) ==
  {t \in Seq(After) :
     \A i \in 1..Len(t) :
       /\ t[i].kind = "must_keep" => Len(t) = 1 /\ c.kind = "change" /\ c.what \in Harmless
       /\ i > 1 /\ t[i].kind = "look" => t[i - 1].kind # "look"}

(* what one path may do more often than the other: whether WhatsApp can be
   reached shows at the turn, too *)
Slack == {[kind |-> "check", what |-> "offline"], [kind |-> "do", what |-> "preview"]}

Guards == Prep \ Slack

(* steps before the turn, of which those in G are the guards *)
Preps(G) == {s \in Seq(Prep) : \A g \in Guards : g \in G <=> \E i \in 1..Len(s) : s[i] = g}

(* what comes before, the turn, and what follows it *)
Runs(G, c, t) == {(s \o <<c>>) \o t : s \in Preps(G)}

(* Single steps, and the guards they are. *)
LEMMA StepPrep ==
  /\ \A w \in Wrong \ {"offline"} : Check(w) \in Preps({[kind |-> "check", what |-> w]})
  /\ Ask \in Preps({[kind |-> "ask", what |-> "info"]})
  /\ Connected \in Preps({}) /\ Do("preview") \in Preps({})
<1>1. ASSUME NEW g \in Prep
      PROVE  <<g>> \in Preps({g} \ Slack)
  <2>1. <<g>> \in Seq(Prep) /\ Len(<<g>>) = 1 /\ <<g>>[1] = g
    BY <1>1
  <2>2. QED
    BY <2>1 DEF Preps, Guards
<1>2. ASSUME NEW w \in Wrong \ {"offline"}
      PROVE  Check(w) \in Preps({[kind |-> "check", what |-> w]})
  <2>1. [kind |-> "check", what |-> w] \in Prep \ Slack
    BY DEF Prep, Slack
  <2>2. QED
    BY <1>1, <2>1 DEF Check
<1>3. Ask \in Preps({[kind |-> "ask", what |-> "info"]})
  <2>1. [kind |-> "ask", what |-> "info"] \in Prep \ Slack
    BY DEF Prep, Slack
  <2>2. QED
    BY <1>1, <2>1 DEF Ask
<1>4. Connected \in Preps({}) /\ Do("preview") \in Preps({})
  <2>1. "offline" \in Wrong /\ Slack \subseteq Prep
    BY DEF Wrong, Prep, Slack
  <2>2. QED
    BY <1>1, <2>1 DEF Connected, Check, Do, Slack
<1>5. QED
  BY <1>2, <1>3, <1>4

(* What comes before the turn may be put together; the guards add up. *)
LEMMA PrepPrep ==
  ASSUME NEW G \in SUBSET Guards, NEW H \in SUBSET Guards, NEW r \in Preps(G), NEW s \in Preps(H)
  PROVE  r \o s \in Preps(G \cup H)
<1>1. r \in Seq(Prep) /\ s \in Seq(Prep) /\ Len(r) \in Nat /\ Len(s) \in Nat
  BY LenProperties DEF Preps
<1>2. /\ r \o s \in Seq(Prep) /\ Len(r \o s) = Len(r) + Len(s)
      /\ \A i \in 1..(Len(r) + Len(s)) : (r \o s)[i] = IF i <= Len(r) THEN r[i] ELSE s[i - Len(r)]
  BY <1>1, ConcatProperties
<1> DEFINE rs == r \o s
<1> HIDE DEF rs
<1>3. ASSUME NEW g \in Guards
      PROVE  g \in G \cup H <=> \E i \in 1..Len(rs) : rs[i] = g
  <2>1. ASSUME NEW i \in 1..Len(r) PROVE i \in 1..Len(rs) /\ rs[i] = r[i]
    BY <1>1, <1>2 DEF rs
  <2>2. ASSUME NEW i \in 1..Len(s) PROVE Len(r) + i \in 1..Len(rs) /\ rs[Len(r) + i] = s[i]
    <3>1. Len(r) + i \in 1..(Len(r) + Len(s)) /\ ~ (Len(r) + i <= Len(r)) /\ (Len(r) + i) - Len(r) = i
      BY <1>1
    <3>2. QED
      BY <1>2, <3>1 DEF rs
  <2>3. ASSUME NEW i \in 1..Len(rs)
        PROVE  (\E j \in 1..Len(r) : rs[i] = r[j]) \/ (\E j \in 1..Len(s) : rs[i] = s[j])
    <3>1. CASE i <= Len(r)
      BY <1>1, <1>2, <3>1 DEF rs
    <3>2. CASE ~ (i <= Len(r))
      <4>1. i - Len(r) \in 1..Len(s) /\ i \in 1..(Len(r) + Len(s))
        BY <1>1, <1>2, <3>2 DEF rs
      <4>2. QED
        BY <1>2, <3>2, <4>1 DEF rs
    <3>3. QED
      BY <3>1, <3>2
  <2>4. g \in G <=> \E i \in 1..Len(r) : r[i] = g
    BY DEF Preps
  <2>5. g \in H <=> \E i \in 1..Len(s) : s[i] = g
    BY DEF Preps
  <2>6. ASSUME g \in G \cup H
        PROVE  \E i \in 1..Len(rs) : rs[i] = g
    <3>1. CASE g \in G
      BY <2>1, <2>4, <3>1
    <3>2. CASE g \in H
      <4>1. PICK i \in 1..Len(s) : s[i] = g
        BY <2>5, <3>2
      <4>2. QED
        BY <2>2, <4>1
    <3>3. QED
      BY <2>6, <3>1, <3>2
  <2>7. ASSUME NEW i \in 1..Len(rs), rs[i] = g
        PROVE  g \in G \cup H
    BY <2>3, <2>4, <2>5, <2>7
  <2>8. QED
    BY <2>6, <2>7
<1>4. QED
  BY <1>2, <1>3 DEF Preps, rs

(* All of it are steps. *)
LEMMA Widen ==
  /\ \A G : Preps(G) \subseteq Seq(Step) /\ Preps(G) \subseteq Seq(Prep)
  /\ \A c \in Turns : <<c>> \in Seq(Step)
  /\ Seq(After) \subseteq Seq(Step)
<1>1. Prep \subseteq Step /\ Turns \subseteq Step /\ After \subseteq Step
  BY DEF Step
<1>2. Seq(Prep) \subseteq Seq(Step) /\ Seq(After) \subseteq Seq(Step)
  BY <1>1, SeqMonotonic
<1>3. ASSUME NEW c \in Turns
      PROVE  <<c>> \in Seq(Step)
  BY <1>1
<1>4. \A G : Preps(G) \subseteq Seq(Prep)
  BY DEF Preps
<1>5. QED
  BY <1>2, <1>3, <1>4

(* Runs are built from the front: guards and turn, and then the tail. *)
LEMMA RunTurn ==
  ASSUME NEW G \in SUBSET Guards, NEW c \in Turns, NEW s \in Preps(G)
  PROVE  s \o <<c>> \in Runs(G, c, <<>>)
<1>1. s \in Seq(Step) /\ <<c>> \in Seq(Step)
  BY Widen
<1>2. s \o <<c>> \in Seq(Step)
  BY <1>1, ConcatProperties
<1>3. (s \o <<c>>) \o <<>> = s \o <<c>>
  BY <1>2, ConcatEmptySeq
<1>4. QED
  BY <1>3 DEF Runs

(* In which order steps are put together does not matter. *)
Join(a, b) == a \o b

LEMMA Joins == \A a, b \in Seq(Step) : Join(a, b) \in Seq(Step)
BY ConcatProperties DEF Join

LEMMA Regroup == \A a, b, d \in Seq(Step) : Join(Join(a, b), d) = Join(a, Join(b, d))
BY ConcatAssociative DEF Join

(* A tail can be made longer, *)
LEMMA RunAfter ==
  ASSUME NEW G \in SUBSET Guards, NEW c \in Turns, NEW t \in Seq(After), NEW u \in Seq(After),
         NEW s \in Runs(G, c, t)
  PROVE  s \o u \in Runs(G, c, t \o u)
<1>1. PICK r \in Preps(G) : s = Join(Join(r, <<c>>), t)
  BY DEF Runs, Join
<1>2. r \in Seq(Step) /\ <<c>> \in Seq(Step) /\ t \in Seq(Step) /\ u \in Seq(Step)
  BY Widen
<1>3. Join(r, <<c>>) \in Seq(Step)
  BY <1>2, Joins
<1>4. Join(Join(Join(r, <<c>>), t), u) = Join(Join(r, <<c>>), Join(t, u))
  BY <1>2, <1>3, Regroup
<1>5. QED
  BY <1>1, <1>4 DEF Runs, Join

(* and more can come before. *)
LEMMA PrepRun ==
  ASSUME NEW G \in SUBSET Guards, NEW H \in SUBSET Guards, NEW c \in Turns, NEW t \in Seq(After),
         NEW q \in Preps(G), NEW s \in Runs(H, c, t)
  PROVE  q \o s \in Runs(G \cup H, c, t)
<1> DEFINE o == <<c>>
<1>1. PICK r \in Preps(H) : s = Join(Join(r, o), t)
  BY DEF Runs, Join
<1>2. q \in Seq(Step) /\ r \in Seq(Step) /\ o \in Seq(Step) /\ t \in Seq(Step)
  BY Widen
<1> HIDE DEF o
<1>3. Join(r, o) \in Seq(Step)
  BY <1>2, Joins
<1>4. Join(q, Join(Join(r, o), t)) = Join(Join(q, Join(r, o)), t)
  BY <1>2, <1>3, Regroup
<1>5. Join(q, Join(r, o)) = Join(Join(q, r), o)
  BY <1>2, Regroup
<1>6. Join(q, r) \in Preps(G \cup H)
  BY PrepPrep DEF Join
<1>7. QED
  BY <1>1, <1>4, <1>5, <1>6 DEF Runs, Join, o

(* Where the steps of a run are. *)
Laid(s, G, c, t) ==
  LET n == Len(s) - Len(t) IN
  /\ s \in Seq(Step) /\ Len(s) \in Nat /\ Len(t) \in Nat
  /\ n \in 1..Len(s) /\ s[n] = c
  /\ \A i \in 1..(n - 1) : s[i] \in G \cup Slack
  /\ \A g \in G : \E i \in 1..(n - 1) : s[i] = g
  /\ \A i \in 1..Len(t) : s[n + i] = t[i]

LEMMA RunSteps ==
  ASSUME NEW G \in SUBSET Guards, NEW c \in Turns, NEW t \in Seq(After), NEW s \in Runs(G, c, t)
  PROVE  Laid(s, G, c, t)
<1>1. PICK r \in Preps(G) : s = (r \o <<c>>) \o t
  BY DEF Runs
<1>2. /\ r \in Seq(Step) /\ <<c>> \in Seq(Step) /\ t \in Seq(Step) /\ r \in Seq(Prep)
      /\ Len(<<c>>) = 1 /\ <<c>>[1] = c
  BY Widen
<1>3. Len(r) \in Nat /\ Len(t) \in Nat
  BY <1>2, LenProperties
<1> DEFINE rc == r \o <<c>>
<1>4. /\ rc \in Seq(Step) /\ Len(rc) = Len(r) + 1
      /\ \A i \in 1..(Len(r) + 1) : rc[i] = IF i <= Len(r) THEN r[i] ELSE <<c>>[i - Len(r)]
  BY <1>2, ConcatProperties
<1>5. rc[Len(r) + 1] = c /\ \A i \in 1..Len(r) : rc[i] = r[i]
  BY <1>2, <1>3, <1>4
<1> HIDE DEF rc
<1>6. /\ s \in Seq(Step) /\ Len(s) = Len(rc) + Len(t)
      /\ \A i \in 1..(Len(rc) + Len(t)) : s[i] = IF i <= Len(rc) THEN rc[i] ELSE t[i - Len(rc)]
  BY <1>1, <1>2, <1>4, ConcatProperties DEF rc
<1>7. Len(s) \in Nat /\ Len(s) - Len(t) = Len(r) + 1
  BY <1>3, <1>4, <1>6
<1>8. s[Len(r) + 1] = c /\ \A i \in 1..Len(r) : s[i] = r[i]
  BY <1>3, <1>4, <1>5, <1>6
<1>9. \A i \in 1..Len(t) : s[Len(r) + 1 + i] = t[i]
  <2> TAKE i \in 1..Len(t)
  <2>1. /\ Len(r) + 1 + i \in 1..(Len(rc) + Len(t)) /\ ~ (Len(r) + 1 + i <= Len(rc))
        /\ (Len(r) + 1 + i) - Len(rc) = i
    BY <1>3, <1>4
  <2>2. QED
    BY <1>6, <2>1
<1>10. (\A i \in 1..Len(r) : r[i] \in G \cup Slack) /\ \A g \in G : \E i \in 1..Len(r) : r[i] = g
  BY <1>2, <1>3, ElementOfSeq DEF Preps, Guards
<1>11. Len(r) + 1 \in 1..Len(s) /\ (Len(r) + 1) - 1 = Len(r)
  BY <1>3, <1>4, <1>6
<1>12. QED
  BY <1>3, <1>6, <1>7, <1>8, <1>9, <1>10, <1>11 DEF Laid

(* The same, for the first step after the turn and for a turn alone. *)
LEMMA RunFirst ==
  ASSUME NEW G \in SUBSET Guards, NEW c \in Turns, NEW u \in Seq(After), NEW s \in Runs(G, c, <<>>)
  PROVE  s \o u \in Runs(G, c, u)
<1>1. <<>> \in Seq(After) /\ <<>> \o u = u
  BY EmptySeq, ConcatEmptySeq
<1>2. QED
  BY <1>1, RunAfter

LEMMA JustTurn ==
  ASSUME NEW c \in Turns
  PROVE  <<c>> \in Runs({}, c, <<>>)
<1>1. <<>> \in Preps({})
  BY EmptySeq DEF Preps
<1>2. <<>> \o <<c>> = <<c>>
  BY Widen, ConcatEmptySeq
<1>3. {} \in SUBSET Guards
  OBVIOUS
<1>4. QED
  BY <1>1, <1>2, <1>3, RunTurn

(* Tails without a look or a step that must succeed. *)
Quiet == {[kind |-> "keep", what |-> w] : w \in Facts} \cup {[kind |-> "do", what |-> "forget"]}

LEMMA QuietTails ==
  /\ \A c \in Turns : Seq(Quiet) \subseteq Tails(c)
  /\ \A t, u \in Seq(Quiet) : t \o u \in Seq(Quiet)
  /\ Seq(Quiet) \subseteq Seq(After) /\ <<>> \in Seq(Quiet)
  /\ \A w \in Facts : Keep(w) \in Seq(Quiet)
  /\ Do("forget") \in Seq(Quiet)
<1>1. Seq(Quiet) \subseteq Seq(After)
  <2>1. Quiet \subseteq After
    BY DEF Quiet, After
  <2>2. QED
    BY <2>1, SeqMonotonic
<1>2. ASSUME NEW c \in Turns, NEW t \in Seq(Quiet)
      PROVE  t \in Tails(c)
  <2>1. \A i \in 1..Len(t) : t[i].kind \in {"keep", "do"}
    BY ElementOfSeq DEF Quiet
  <2>2. QED
    BY <1>1, <2>1 DEF Tails
<1>3. \A t, u \in Seq(Quiet) : t \o u \in Seq(Quiet)
  BY ConcatProperties
<1>4. \A a \in Quiet : <<a>> \in Seq(Quiet)
  OBVIOUS
<1>5. \A w \in Facts : Keep(w) \in Seq(Quiet)
  BY <1>4 DEF Keep, Quiet, After
<1>6. Do("forget") \in Seq(Quiet)
  BY <1>4 DEF Do, Quiet, After
<1>7. QED
  BY <1>1, <1>2, <1>3, <1>5, <1>6, EmptySeq

(* A step that must succeed, after a change that may be repeated. *)
LEMMA MustTails ==
  \A w \in Harmless : MustKeep(w) \in Seq(After) /\ MustKeep(w) \in Tails([kind |-> "change", what |-> w])
<1> TAKE w \in Harmless
<1> DEFINE a == [kind |-> "must_keep", what |-> w]
           c == [kind |-> "change", what |-> w]
<1>0. a \in After
  BY DEF After
<1>1. a.kind = "must_keep" /\ c.kind = "change" /\ c.what \in Harmless
  OBVIOUS
<1> HIDE DEF a, c
<1>2. <<a>> \in Seq(After) /\ Len(<<a>>) = 1 /\ <<a>>[1] = a
  BY <1>0
<1> DEFINE t == <<a>>
<1> HIDE DEF t
<1>3. \A i \in 1..Len(t) : t[i] = a /\ ~ (i > 1)
  BY <1>2 DEF t
<1>4. t \in Tails(c)
  <2>1. Len(t) = 1 /\ t \in Seq(After)
    BY <1>2 DEF t
  <2>2. QED
    BY <1>1, <1>3, <2>1 DEF Tails
<1>5. QED
  BY <1>2, <1>4 DEF MustKeep, a, c, t

(* Looking at the group again, and keeping what was seen. *)
LEMMA RefetchTails ==
  /\ Refetch \in Seq(After) /\ Do("forget") \o Refetch \in Seq(After)
  /\ \A c \in Turns : Refetch \in Tails(c) /\ Do("forget") \o Refetch \in Tails(c)
<1> DEFINE l == [kind |-> "look", what |-> "info"]
           k == [kind |-> "keep", what |-> "group"]
           d == [kind |-> "do", what |-> "forget"]
<1>0. l \in After /\ k \in After /\ d \in After
  BY DEF After, Facts
<1>1. l.kind = "look" /\ k.kind = "keep" /\ d.kind = "do"
  OBVIOUS
<1> HIDE DEF l, k, d
<1>2. /\ <<l>> \in Seq(After) /\ <<k>> \in Seq(After) /\ <<d>> \in Seq(After)
      /\ Len(<<l>>) = 1 /\ Len(<<k>>) = 1 /\ Len(<<d>>) = 1
      /\ <<l>>[1] = l /\ <<k>>[1] = k /\ <<d>>[1] = d
  BY <1>0
<1> DEFINE lk == <<l>> \o <<k>>
<1>3. lk \in Seq(After) /\ Len(lk) = 2 /\ \A i \in 1..2 : lk[i] = IF i <= 1 THEN <<l>>[i] ELSE <<k>>[i - 1]
  BY <1>2, ConcatProperties
<1>4. lk[1] = l /\ lk[2] = k
  BY <1>2, <1>3
<1> DEFINE dlk == <<d>> \o lk
<1> HIDE DEF lk
<1>5. dlk \in Seq(After) /\ Len(dlk) = 3 /\ \A i \in 1..3 : dlk[i] = IF i <= 1 THEN <<d>>[i] ELSE lk[i - 1]
  <2> DEFINE ds == <<d>>
  <2>1. ds \in Seq(After) /\ lk \in Seq(After) /\ Len(ds) = 1 /\ Len(lk) = 2
    BY <1>2, <1>3
  <2> HIDE DEF ds
  <2>2. /\ ds \o lk \in Seq(After) /\ Len(ds \o lk) = Len(ds) + Len(lk)
        /\ \A i \in 1..(Len(ds) + Len(lk)) :
             (ds \o lk)[i] = IF i <= Len(ds) THEN ds[i] ELSE lk[i - Len(ds)]
    BY <2>1, ConcatProperties
  <2>3. QED
    BY <2>1, <2>2 DEF ds
<1>6. dlk[1] = d /\ dlk[2] = l /\ dlk[3] = k
  BY <1>2, <1>4, <1>5
<1> HIDE DEF dlk
<1>7. ASSUME NEW c \in Turns
      PROVE  lk \in Tails(c) /\ dlk \in Tails(c)
  <2>1. ASSUME NEW i \in 1..2
        PROVE  lk[i].kind # "must_keep" /\ (i > 1 => lk[i].kind # "look")
    <3> HIDE DEF lk
    <3>1. CASE i = 1
      <4>1. lk[i] = l /\ ~ (i > 1)
        BY <1>4, <3>1
      <4>2. QED
        BY <1>1, <4>1, Zenon
    <3>2. CASE i = 2
      BY <1>1, <1>4, <3>2
    <3>3. i = 1 \/ i = 2
      OBVIOUS
    <3>4. QED
      BY <3>1, <3>2, <3>3, Zenon
  <2>2. ASSUME NEW i \in 1..3
        PROVE  dlk[i].kind # "must_keep" /\ (i > 1 /\ dlk[i].kind = "look" => dlk[i - 1].kind # "look")
    <3>1. CASE i = 1
      BY <1>1, <1>6, <3>1
    <3>2. CASE i = 2
      <4>1. dlk[i] = l /\ dlk[i - 1] = d
        BY <1>6, <3>2
      <4>2. QED
        BY <1>1, <4>1, Zenon
    <3>3. CASE i = 3
      BY <1>1, <1>6, <3>3
    <3>4. i = 1 \/ i = 2 \/ i = 3
      OBVIOUS
    <3>5. QED
      BY <3>1, <3>2, <3>3, <3>4, Zenon
  <2>3. QED
    BY <1>3, <1>5, <2>1, <2>2 DEF Tails
<1>8. QED
  BY <1>3, <1>5, <1>7 DEF Refetch, Look, Keep, Do, lk, dlk, l, k, d

(* Both paths of a command have the same guards, turn and tail. *)
Alike(k) ==
  \E G \in SUBSET Guards, c \in Turns :
    \E t \in Tails(c) : k.direct \in Runs(G, c, t) /\ k.daemon \in Runs(G, c, t)

LEMMA TwiceAlike ==
  ASSUME NEW name, NEW direct, NEW daemon, NEW G \in SUBSET Guards, NEW c \in Turns, NEW t \in Tails(c),
         direct \in Runs(G, c, t), daemon \in Runs(G, c, t)
  PROVE  Alike(Twice(name, direct, daemon))
BY DEF Alike, Twice

LEMMA LiveAlike ==
  ASSUME NEW name, NEW op, NEW G \in SUBSET Guards, NEW c \in Turns, NEW t \in Tails(c),
         op \in Runs(G, c, t)
  PROVE  Alike(Live(name, op))
<1>1. t \in Seq(After)
  BY DEF Tails
<1>2. Connected \o op \in Runs({} \cup G, c, t)
  BY <1>1, StepPrep, PrepRun
<1>3. QED
  BY <1>2, TwiceAlike DEF Live

(* What the names stand for in the table. *)
Checked(w) == [kind |-> "check", what |-> w]
Changed(w) == [kind |-> "change", what |-> w]
Asked == [kind |-> "ask", what |-> "info"]

Checks == {"argument", "message", "foreign", "empty", "file"}
LEMMA Constituents ==
  /\ \A w \in Checks :
       Check(w) \in Preps({Checked(w)}) /\ Checked(w) \in Guards
  /\ Ask \in Preps({Asked}) /\ Asked \in Guards /\ Asked \in Turns
  /\ \A w \in Changes :
       Changed(w) \in Turns /\ Change(w) = <<Changed(w)>>
  /\ Ask = <<Asked>>
<1>1. ASSUME NEW w \in Checks
      PROVE  Check(w) \in Preps({Checked(w)}) /\ Checked(w) \in Guards
  <2>1. w \in Wrong \ {"offline"}
    BY DEF Wrong, Checks
  <2>2. QED
    BY <2>1, StepPrep DEF Checked, Guards, Prep, Slack
<1>2. Ask \in Preps({Asked}) /\ Asked \in Guards /\ Asked \in Turns /\ Ask = <<Asked>>
  BY StepPrep DEF Asked, Guards, Prep, Slack, Turns, Ask
<1>3. ASSUME NEW w \in Changes
      PROVE  Changed(w) \in Turns /\ Change(w) = <<Changed(w)>>
  BY DEF Changed, Turns, Change
<1>4. QED
  BY <1>1, <1>2, <1>3

(* guards, turn, tail *)
LEMMA Composed ==
  ASSUME NEW G \in SUBSET Guards, NEW s \in Preps(G), NEW c \in Turns, NEW t \in Tails(c)
  PROVE  /\ s \o <<c>> \in Runs(G, c, <<>>) /\ (s \o <<c>>) \o t \in Runs(G, c, t)
         /\ <<c>> \in Runs({}, c, <<>>) /\ <<c>> \o t \in Runs({}, c, t)
         /\ <<>> \in Tails(c) /\ t \in Seq(After)
<1>1. t \in Seq(After) /\ <<>> \in Tails(c) /\ {} \in SUBSET Guards
  BY QuietTails DEF Tails
<1>2. s \o <<c>> \in Runs(G, c, <<>>) /\ <<c>> \in Runs({}, c, <<>>)
  BY RunTurn, JustTurn
<1>3. QED
  BY <1>1, <1>2, RunFirst

(* Operations that are written once. *)
LEMMA Operations ==
  ASSUME NEW name, NEW w \in Checks, NEW x \in Checks, NEW v \in Changes, NEW t \in Tails(Changed(v))
  PROVE  /\ Alike(Live(name, Change(v))) /\ Alike(Live(name, Change(v) \o t))
         /\ Alike(Live(name, Check(w) \o Change(v))) /\ Alike(Live(name, Check(w) \o Change(v) \o t))
         /\ Alike(Live(name, Check(w) \o Check(x) \o Change(v)))
         /\ Alike(Live(name, Check(w) \o Check(x) \o Change(v) \o t))
<1> DEFINE c == Changed(v)
<1>1. c \in Turns /\ Change(v) = <<c>> /\ <<>> \in Tails(c)
  BY Constituents, QuietTails
<1>2. /\ {Checked(w)} \in SUBSET Guards /\ {Checked(x)} \in SUBSET Guards
      /\ Check(w) \in Preps({Checked(w)}) /\ Check(x) \in Preps({Checked(x)})
  BY Constituents
<1> DEFINE G == {Checked(w)} \cup {Checked(x)}
<1>3. Check(w) \o Check(x) \in Preps(G) /\ G \in SUBSET Guards
  BY <1>2, PrepPrep
<1> HIDE DEF c, G
<1>4. t \in Tails(c)
  BY DEF c
<1>5. /\ <<c>> \in Runs({}, c, <<>>) /\ <<c>> \o t \in Runs({}, c, t) /\ {} \in SUBSET Guards
  BY <1>1, <1>2, <1>4, Composed
<1>6. /\ Check(w) \o <<c>> \in Runs({Checked(w)}, c, <<>>)
      /\ (Check(w) \o <<c>>) \o t \in Runs({Checked(w)}, c, t)
  BY <1>1, <1>2, <1>4, Composed
<1>7. /\ (Check(w) \o Check(x)) \o <<c>> \in Runs(G, c, <<>>)
      /\ ((Check(w) \o Check(x)) \o <<c>>) \o t \in Runs(G, c, t)
  BY <1>1, <1>3, <1>4, Composed
<1>8. Alike(Live(name, <<c>>)) /\ Alike(Live(name, <<c>> \o t))
  BY <1>1, <1>4, <1>5, LiveAlike
<1>9. Alike(Live(name, Check(w) \o <<c>>)) /\ Alike(Live(name, (Check(w) \o <<c>>) \o t))
  BY <1>1, <1>2, <1>4, <1>6, LiveAlike
<1>10. /\ Alike(Live(name, (Check(w) \o Check(x)) \o <<c>>))
       /\ Alike(Live(name, ((Check(w) \o Check(x)) \o <<c>>) \o t))
  BY <1>1, <1>3, <1>4, <1>7, LiveAlike
<1>11. QED
  BY <1>1, <1>8, <1>9, <1>10

(* Questions that are asked once. *)
LEMMA Questions ==
  ASSUME NEW name, NEW w \in Checks, NEW t \in Tails(Asked)
  PROVE  /\ Alike(Live(name, Ask)) /\ Alike(Live(name, Ask \o t))
         /\ Alike(Live(name, Check(w) \o Ask))
<1>1. Asked \in Turns /\ Ask = <<Asked>> /\ <<>> \in Tails(Asked) /\ {} \in SUBSET Guards
  BY Constituents, QuietTails
<1>2. {Checked(w)} \in SUBSET Guards /\ Check(w) \in Preps({Checked(w)})
  BY Constituents
<1>3. /\ <<Asked>> \in Runs({}, Asked, <<>>) /\ <<Asked>> \o t \in Runs({}, Asked, t)
      /\ Check(w) \o <<Asked>> \in Runs({Checked(w)}, Asked, <<>>)
  BY <1>1, <1>2, Composed
<1>4. QED
  BY <1>1, <1>2, <1>3, LiveAlike

(* Paths that differ in what comes before the turn, or before an operation both
   call, are alike when they have the same guards. *)
LEMMA TwoPaths ==
  ASSUME NEW name, NEW G \in SUBSET Guards, NEW c \in Turns, NEW t \in Tails(c),
         NEW q \in Preps(G), NEW s \in Preps(G)
  PROVE  /\ Alike(Twice(name, (q \o <<c>>) \o t, (s \o <<c>>) \o t))
         /\ Alike(Twice(name, q \o <<c>>, s \o <<c>>))
<1>1. /\ q \o <<c>> \in Runs(G, c, <<>>) /\ (q \o <<c>>) \o t \in Runs(G, c, t)
      /\ s \o <<c>> \in Runs(G, c, <<>>) /\ (s \o <<c>>) \o t \in Runs(G, c, t)
      /\ <<>> \in Tails(c)
  BY Composed
<1>2. QED
  BY <1>1, TwiceAlike

LEMMA TwoCallers ==
  ASSUME NEW name, NEW G \in SUBSET Guards, NEW H \in SUBSET Guards, NEW c \in Turns, NEW t \in Tails(c),
         NEW q \in Preps(G), NEW s \in Preps(G), NEW op \in Runs(H, c, t)
  PROVE  Alike(Twice(name, q \o op, s \o op))
<1>1. t \in Seq(After) /\ G \cup H \in SUBSET Guards
  BY DEF Tails
<1>2. q \o op \in Runs(G \cup H, c, t) /\ s \o op \in Runs(G \cup H, c, t)
  BY <1>1, PrepRun
<1>3. QED
  BY <1>1, <1>2, TwiceAlike

(* To connect first, or to make a preview, changes no guards. *)
LEMMA Slackened ==
  ASSUME NEW G \in SUBSET Guards, NEW s \in Preps(G)
  PROVE  /\ Connected \o s \in Preps(G) /\ s \o Connected \in Preps(G) /\ s \o Do("preview") \in Preps(G)
         /\ Connected \in Preps({}) /\ {} \in SUBSET Guards
<1>1. Connected \in Preps({}) /\ Do("preview") \in Preps({}) /\ {} \in SUBSET Guards
  BY StepPrep
<1>2. {} \cup G = G /\ G \cup {} = G
  OBVIOUS
<1>3. QED
  BY <1>1, <1>2, PrepPrep

(* What was sent is kept: its chat and the message. *)
LEMMA KeepSentTail ==
  \A c \in Turns : KeepSent \in Tails(c)
<1>1. Keep("chat") \in Seq(Quiet) /\ Keep("message") \in Seq(Quiet)
  BY QuietTails DEF Facts
<1>2. KeepSent \in Seq(Quiet)
  BY <1>1, QuietTails DEF KeepSent
<1>3. QED
  BY <1>2, QuietTails

(* Guards, one after the other. *)
LEMMA Checking ==
  \A w, x, y \in Checks :
    /\ Check(w) \in Preps({Checked(w)})
    /\ Connected \o Check(w) \in Preps({Checked(w)})
    /\ Check(w) \o Check(x) \in Preps({Checked(w), Checked(x)})
    /\ Connected \o Check(w) \o Check(x) \in Preps({Checked(w), Checked(x)})
    /\ Check(w) \o Check(x) \o Check(y) \in Preps({Checked(w), Checked(x), Checked(y)})
    /\ Connected \o Check(w) \o Check(x) \o Check(y) \in Preps({Checked(w), Checked(x), Checked(y)})
    /\ {Checked(w)} \in SUBSET Guards /\ {Checked(w), Checked(x)} \in SUBSET Guards
    /\ {Checked(w), Checked(x), Checked(y)} \in SUBSET Guards
<1> TAKE w, x, y \in Checks
<1> DEFINE a == {Checked(w)}
           b == {Checked(x)}
           c == {Checked(y)}
<1>1. /\ Check(w) \in Preps(a) /\ Check(x) \in Preps(b) /\ Check(y) \in Preps(c)
      /\ a \in SUBSET Guards /\ b \in SUBSET Guards /\ c \in SUBSET Guards
  BY Constituents
<1>2. /\ {Checked(w), Checked(x)} = a \cup b
      /\ {Checked(w), Checked(x), Checked(y)} = (a \cup b) \cup c
  OBVIOUS
<1> HIDE DEF a, b, c
<1>3. a \cup b \in SUBSET Guards /\ (a \cup b) \cup c \in SUBSET Guards
  BY <1>1
<1>4. Check(w) \o Check(x) \in Preps(a \cup b) /\ Connected \o Check(w) \in Preps(a)
  BY <1>1, PrepPrep, Slackened
<1>5. /\ (Check(w) \o Check(x)) \o Check(y) \in Preps((a \cup b) \cup c)
      /\ (Connected \o Check(w)) \o Check(x) \in Preps(a \cup b)
  BY <1>1, <1>3, <1>4, PrepPrep
<1>6. ((Connected \o Check(w)) \o Check(x)) \o Check(y) \in Preps((a \cup b) \cup c)
  BY <1>1, <1>3, <1>5, PrepPrep
<1>7. QED
  BY <1>1, <1>2, <1>3, <1>4, <1>5, <1>6 DEF a

(* An upload is a question that must be answered before anything is sent. *)
LEMMA SendFileRun ==
  /\ {Checked("file"), Asked} \in SUBSET Guards
  /\ Changed("message") \in Turns /\ KeepSent \in Tails(Changed("message"))
  /\ SendFile \in Runs({Checked("file"), Asked}, Changed("message"), KeepSent)
<1>1. /\ {Checked("file")} \in SUBSET Guards /\ {Asked} \in SUBSET Guards
      /\ Check("file") \in Preps({Checked("file")}) /\ Ask \in Preps({Asked})
  BY Constituents DEF Checks
<1>2. /\ Changed("message") \in Turns /\ KeepSent \in Tails(Changed("message"))
      /\ Change("message") = <<Changed("message")>>
  BY Constituents, KeepSentTail DEF Changes
<1>3. {Checked("file"), Asked} = {Checked("file")} \cup {Asked}
  OBVIOUS
<1>4. Check("file") \o Ask \in Preps({Checked("file"), Asked}) /\ {Checked("file"), Asked} \in SUBSET Guards
  BY <1>1, <1>3, PrepPrep
<1>5. QED
  BY <1>2, <1>4, Composed DEF SendFile

(* The table, command by command. *)
LEMMA SendsAlike ==
  \A k \in SendCommands : Alike(k)
<1> DEFINE c == Changed("message")
           a == Checked("argument")
           m == Checked("message")
           e == Checked("empty")
<1>1. /\ c \in Turns /\ KeepSent \in Tails(c) /\ Change("message") = <<c>>
      /\ Changed("reaction") \in Turns /\ Change("reaction") = <<Changed("reaction")>>
      /\ <<>> \in Tails(Changed("reaction")) /\ <<>> \in Tails(c)
  BY Constituents, KeepSentTail, QuietTails DEF Changes
<1>2. /\ {a} \in SUBSET Guards /\ {m, e} \in SUBSET Guards /\ {a, m, e} \in SUBSET Guards
      /\ Check("argument") \in Preps({a}) /\ Connected \o Check("argument") \in Preps({a})
      /\ Check("message") \o Check("empty") \in Preps({m, e})
      /\ Check("argument") \o Check("message") \o Check("empty") \in Preps({a, m, e})
      /\ Connected \o Check("argument") \o Check("message") \o Check("empty") \in Preps({a, m, e})
  BY Checking DEF Checks
<1> HIDE DEF c, a, m, e
<1>3. Alike(Twice("send.text", SendTextDirect, SendText))
  <2>1. /\ Check("argument") \o Quoted \in Preps({a} \cup {m, e})
        /\ (Connected \o Check("argument")) \o Quoted \in Preps({a} \cup {m, e})
        /\ {a} \cup {m, e} \in SUBSET Guards
    BY <1>2, PrepPrep DEF Quoted
  <2>2. ((Connected \o Check("argument")) \o Quoted) \o Do("preview") \in Preps({a} \cup {m, e})
    BY <2>1, Slackened
  <2>3. QED
    BY <1>1, <2>1, <2>2, TwoPaths DEF SendTextDirect, SendText
<1>4. /\ Alike(Twice("send.file", SendFileDirect, SendFileHandler))
      /\ Alike(Twice("send.sticker", SendStickerDirect, SendStickerHandler))
      /\ Alike(Twice("send.voice", SendVoiceDirect, SendVoiceHandler))
  <2>1. SendSticker = SendFile
    BY DEF SendSticker, SendFile
  <2>2. \A name : Alike(Twice(name, (Connected \o Check("argument")) \o SendFile, Check("argument") \o SendFile))
    BY <1>2, SendFileRun, TwoCallers
  <2>3. QED
    BY <2>1, <2>2 DEF SendFileDirect, SendFileHandler, SendStickerDirect, SendStickerHandler,
                      SendVoiceDirect, SendVoiceHandler
<1>5. Alike(Twice("send.reaction", SendReactionDirect, SendReaction))
  BY <1>1, <1>2, TwoPaths DEF SendReactionDirect, SendReaction
<1>6. Alike(Twice("send.location", SendLocationDirect, SendLocation))
  BY <1>1, <1>2, TwoPaths DEF SendLocationDirect, SendLocation
<1>7. Alike(Twice("send.forward", SendForwardDirect, SendForward))
  BY <1>1, <1>2, TwoPaths DEF SendForwardDirect, SendForward
<1>8. Alike(Live("send.poll", SendPoll))
  BY <1>1, Operations DEF SendPoll, Checks, Changes, c
<1>9. QED
  BY <1>3, <1>4, <1>5, <1>6, <1>7, <1>8 DEF SendCommands

LEMMA MessagesAlike ==
  \A k \in MessageCommands : Alike(k)
<1> DEFINE a == Checked("argument")
           m == Checked("message")
           f == Checked("foreign")
           e == Checked("empty")
<1>1. \A v \in Changes : Changed(v) \in Turns /\ Change(v) = <<Changed(v)>> /\ <<>> \in Tails(Changed(v))
  BY Constituents, QuietTails
<1>2. /\ {a} \in SUBSET Guards /\ {m, e} \in SUBSET Guards /\ {m, f, a} \in SUBSET Guards
      /\ Check("argument") \in Preps({a}) /\ Connected \o Check("argument") \in Preps({a})
      /\ Check("message") \o Check("empty") \in Preps({m, e})
      /\ Own \in Preps({m, f, a})
  BY Checking DEF Checks, Own
<1> HIDE DEF a, m, f, e
<1>3. Alike(Twice("status.text", StatusTextDirect, StatusText))
  <2> DEFINE c == Changed("message")
  <2>1. c \in Turns /\ KeepSent \in Tails(c) /\ Change("message") = <<c>>
    BY <1>1, KeepSentTail DEF Changes
  <2> HIDE DEF c
  <2>2. Connected \in Preps({}) /\ {} \in SUBSET Guards
    BY StepPrep
  <2>3. <<c>> \o KeepSent \in Runs({}, c, KeepSent) /\ (Connected \o <<c>>) \o KeepSent \in Runs({}, c, KeepSent)
    BY <2>1, <2>2, Composed
  <2>4. QED
    BY <2>1, <2>2, <2>3, TwiceAlike DEF StatusTextDirect, StatusText
<1>4. Alike(Twice("status.file", StatusFileDirect, StatusFile))
  <2>1. KeepSent \in Seq(After) /\ Connected \in Preps({}) /\ {} \in SUBSET Guards
    BY SendFileRun, StepPrep DEF Tails
  <2>2. Connected \o SendFile \in Runs({} \cup {Checked("file"), Asked}, Changed("message"), KeepSent)
    BY <2>1, SendFileRun, PrepRun
  <2>3. {} \cup {Checked("file"), Asked} = {Checked("file"), Asked}
    OBVIOUS
  <2>4. QED
    BY <2>2, <2>3, SendFileRun, TwiceAlike DEF StatusFileDirect, StatusFile
<1>5. Connected \o Own \in Preps({m, f, a})
  BY <1>2, Slackened
<1>6. Alike(Twice("messages.delete", MessagesDeleteDirect, MessagesDelete))
  <2>1. "revocation" \in Changes /\ MustKeep("revocation") \in Tails(Changed("revocation"))
    BY MustTails DEF Changes, Harmless, Changed
  <2>2. QED
    BY <1>1, <1>2, <1>5, <2>1, TwoPaths DEF MessagesDeleteDirect, MessagesDelete
<1>7. Alike(Twice("messages.edit", MessagesEditDirect, MessagesEdit))
  <2>1. "edit" \in Changes /\ Keep("edit") \in Tails(Changed("edit"))
    BY <1>1, QuietTails DEF Changes, Facts
  <2>2. QED
    BY <1>1, <1>2, <1>5, <2>1, TwoPaths DEF MessagesEditDirect, MessagesEdit
<1>8. Alike(Twice("presence", PresenceDirect, Presence))
  <2>1. "presence" \in Changes
    BY DEF Changes
  <2>2. QED
    BY <1>1, <1>2, <2>1, TwoPaths DEF PresenceDirect, Presence
<1>9. Alike(Twice("media.download", MediaDownloadDirect, MediaDownload))
  <2>1. Asked \in Turns /\ Ask = <<Asked>> /\ Keep("downloaded") \in Tails(Asked)
    BY Constituents, QuietTails DEF Facts
  <2>2. (Check("message") \o Check("empty")) \o Connected \in Preps({m, e})
    BY <1>2, Slackened
  <2>3. QED
    BY <1>2, <2>1, <2>2, TwoPaths DEF MediaDownloadDirect, MediaDownload
<1>10. QED
  BY <1>3, <1>4, <1>6, <1>7, <1>8, <1>9 DEF MessageCommands

LEMMA ChatsAlike ==
  \A k \in ChatCommands : Alike(k)
<1> DEFINE c == Changed("chat_state")
           t == MustKeep("chat_state")
           a == Checked("argument")
<1>1. c \in Turns /\ Change("chat_state") = <<c>> /\ t \in Tails(c) /\ t \in Seq(After)
  BY Constituents, MustTails DEF Changes, Harmless, Changed
<1>2. /\ {a} \in SUBSET Guards /\ {} \in SUBSET Guards
      /\ Check("argument") \in Preps({a}) /\ Connected \o Check("argument") \in Preps({a})
      /\ (Connected \o Check("argument")) \o Check("argument") \in Preps({a})
  <2>1. {a, a} = {a}
    OBVIOUS
  <2>2. QED
    BY <2>1, Checking DEF Checks
<1> HIDE DEF c, t, a
<1>3. SetChat \in Runs({}, c, t)
  BY <1>1, <1>2, Composed DEF SetChat, t
<1>4. Check("argument") \o SetChat \in Runs({a} \cup {}, c, t) /\ {a} \cup {} = {a}
  BY <1>1, <1>2, <1>3, PrepRun
<1>5. Alike(Twice("chats", ChatStateDirect, HandleChatState))
  BY <1>1, <1>2, <1>3, TwoCallers DEF ChatStateDirect, HandleChatState
<1>6. Check("argument") \o (Check("argument") \o SetChat) \in Runs({a} \cup {a}, c, t)
  BY <1>1, <1>2, <1>4, PrepRun
<1>7. ((Connected \o Check("argument")) \o Check("argument")) \o SetChat \in Runs({a} \cup {}, c, t)
  BY <1>1, <1>2, <1>3, PrepRun
<1>8. {a} \cup {a} = {a}
  OBVIOUS
<1>9. Alike(Twice("chats.mute", ChatsMuteDirect, HandleChatsMute))
  BY <1>1, <1>2, <1>4, <1>6, <1>7, <1>8, TwiceAlike DEF ChatsMuteDirect, HandleChatsMute, HandleChatState
<1>10. QED
  BY <1>5, <1>9 DEF ChatCommands

LEMMA GroupsAlike ==
  \A k \in GroupInfos \cup GroupSettings \cup Participants \cup Invitations \cup Requests \cup Refresh : Alike(k)
<1> DEFINE g == Changed("group")
           h == Changed("membership")
<1>1. /\ "argument" \in Checks /\ "file" \in Checks
      /\ \A v \in {"group", "membership", "photo", "link"} :
           v \in Changes /\ Changed(v) \in Turns /\ Change(v) = <<Changed(v)>> /\ <<>> \in Tails(Changed(v))
      /\ Asked \in Turns /\ Ask = <<Asked>> /\ <<>> \in Tails(Asked)
  BY Constituents, QuietTails DEF Checks, Changes
<1>2. /\ \A c \in Turns : /\ Keep("group") \in Tails(c) /\ Keep("membership") \in Tails(c)
                          /\ (Do("forget") \o Keep("group")) \o Keep("chat") \in Tails(c)
      /\ Do("forget") \in Seq(After) /\ Keep("group") \in Seq(After) /\ Keep("chat") \in Seq(After)
      /\ Do("forget") \o Keep("group") \in Seq(After)
  <2>1. /\ Keep("group") \in Seq(Quiet) /\ Keep("membership") \in Seq(Quiet)
        /\ Do("forget") \in Seq(Quiet) /\ Keep("chat") \in Seq(Quiet)
    BY QuietTails DEF Facts
  <2>2. Do("forget") \o Keep("group") \in Seq(Quiet)
    BY <2>1, QuietTails
  <2>3. (Do("forget") \o Keep("group")) \o Keep("chat") \in Seq(Quiet)
    BY <2>1, <2>2, QuietTails
  <2>4. QED
    BY <2>1, <2>2, <2>3, QuietTails
<1>3. Alike(Twice("groups.info", GroupsInfoDirect, GroupsInfo))
  <2>1. FetchGroupInfo \in Runs({}, Asked, Keep("group"))
    BY <1>1, <1>2, StepPrep, Composed DEF FetchGroupInfo
  <2>2. /\ {Checked("argument")} \in SUBSET Guards /\ {} \in SUBSET Guards
        /\ Check("argument") \in Preps({Checked("argument")})
        /\ Connected \o Check("argument") \in Preps({Checked("argument")})
    BY <1>1, Checking
  <2>3. QED
    BY <1>1, <1>2, <2>1, <2>2, TwoCallers DEF GroupsInfoDirect, GroupsInfo
<1>4. Alike(Live("groups.rename", GroupRename))
  <2>1. g \in Turns /\ Change("group") = <<g>>
    BY <1>1
  <2>2. /\ {Checked("argument")} \in SUBSET Guards
        /\ Check("argument") \in Preps({Checked("argument")})
    BY <1>1, Checking
  <2> DEFINE G == {Checked("argument")}
             t == Do("forget") \o Refetch
  <2> HIDE DEF g, G
  <2>3. /\ Refetch \in Seq(After) /\ t \in Seq(After) /\ t \in Tails(g)
    BY <2>1, RefetchTails
  <2>4. Check("argument") \o <<g>> \in Runs(G, g, <<>>)
    BY <2>1, <2>2, RunTurn DEF G
  <2>5. (Check("argument") \o <<g>>) \o Do("forget") \in Runs(G, g, Do("forget"))
    BY <1>2, <2>1, <2>2, <2>4, RunFirst DEF G
  <2>6. ((Check("argument") \o <<g>>) \o Do("forget")) \o Refetch \in Runs(G, g, t)
    BY <1>2, <2>1, <2>2, <2>3, <2>5, RunAfter DEF G
  <2> HIDE DEF t
  <2>7. QED
    BY <2>1, <2>2, <2>3, <2>6, LiveAlike DEF GroupRename, G
<1>5. Alike(Live("groups.leave", GroupLeave))
  BY <1>1, <1>2, Operations DEF GroupLeave
<1>6. \A k \in GroupInfos : Alike(k)
  BY <1>3, <1>4, <1>5 DEF GroupInfos
<1>7. \A k \in GroupSettings : Alike(k)
  <2>1. Alike(Live("groups.topic", GroupTopic))
    <3>1. Refetch \in Tails(g)
      BY <1>1, RefetchTails
    <3>2. QED
      BY <1>1, <3>1, Operations DEF GroupTopic
  <2>2. Alike(Live("groups.photo", GroupPhoto))
    BY <1>1, Operations DEF GroupPhoto
  <2>3. \A name : Alike(Live(name, Check("argument") \o Change("group")))
    BY <1>1, Operations
  <2>4. Alike(Live("groups.member-add-mode", GroupMemberAddMode))
    BY <1>1, Operations DEF GroupMemberAddMode
  <2>5. QED
    BY <2>1, <2>2, <2>3, <2>4 DEF GroupSettings, GroupLocked, GroupAnnounce, GroupJoinApproval
<1>8. \A k \in Participants : Alike(k)
  <2>1. Refetch \in Tails(g)
    BY <1>1, RefetchTails
  <2>2. QED
    BY <1>1, <2>1, Operations DEF Participants, GroupParticipants
<1>9. \A k \in Invitations : Alike(k)
  <2>1. Refetch \in Tails(h)
    BY <1>1, RefetchTails
  <2>2. Alike(Live("groups.invite-link", GroupInviteLink))
    BY <1>1, Operations DEF GroupInviteLink
  <2>3. Alike(Live("groups.join", GroupJoin))
    BY <1>1, <2>1, Operations DEF GroupJoin
  <2>4. QED
    BY <2>2, <2>3 DEF Invitations
<1>10. \A k \in Requests : Alike(k)
  <2>1. Alike(Live("groups.create", GroupCreate))
    BY <1>1, <1>2, Operations DEF GroupCreate
  <2>2. Alike(Live("groups.requests-list", GroupRequestsList))
    BY <1>1, Questions DEF GroupRequestsList
  <2>3. Alike(Live("groups.requests-action", GroupRequestsAction))
    BY <1>1, Operations DEF GroupRequestsAction
  <2>4. QED
    BY <2>1, <2>2, <2>3 DEF Requests
<1>11. \A k \in Refresh : Alike(k)
  <2> DEFINE t == (Do("forget") \o Keep("group")) \o Keep("chat")
             r == (((<<Asked>>) \o Do("forget")) \o Keep("group")) \o Keep("chat")
  <2>1. <<Asked>> \o Do("forget") \in Runs({}, Asked, Do("forget")) /\ {} \in SUBSET Guards
    BY <1>1, <1>2, JustTurn, RunFirst
  <2>2. (<<Asked>> \o Do("forget")) \o Keep("group") \in Runs({}, Asked, Do("forget") \o Keep("group"))
    BY <1>1, <1>2, <2>1, RunAfter
  <2>3. r \in Runs({}, Asked, t)
    BY <1>1, <1>2, <2>1, <2>2, RunAfter
  <2>4. t \in Tails(Asked) /\ GroupRefresh = r
    BY <1>1, <1>2 DEF GroupRefresh
  <2> HIDE DEF t, r
  <2>5. QED
    BY <1>1, <2>1, <2>3, <2>4, LiveAlike DEF Refresh
<1>12. QED
  BY <1>6, <1>7, <1>8, <1>9, <1>10, <1>11

LEMMA ProfilesAlike ==
  \A k \in Profile \cup Channels : Alike(k)
<1>1. /\ "argument" \in Checks /\ "file" \in Checks
      /\ \A v \in {"profile", "photo", "channel"} : v \in Changes /\ <<>> \in Tails(Changed(v))
      /\ <<>> \in Tails(Asked)
  BY Constituents, QuietTails DEF Checks, Changes
<1>2. \A k \in Profile : Alike(k)
  <2>1. Alike(Live("profile.set-about", ProfileSetAbout))
    BY <1>1, Operations DEF ProfileSetAbout
  <2>2. Alike(Live("profile.set-photo", ProfileSetPhoto))
    BY <1>1, Operations DEF ProfileSetPhoto
  <2>3. Alike(Live("profile.remove-photo", ProfileRemovePhoto))
    BY <1>1, Operations DEF ProfileRemovePhoto
  <2>4. QED
    BY <2>1, <2>2, <2>3 DEF Profile
<1>3. \A k \in Channels : Alike(k)
  <2>1. Alike(Live("channels.list", ChannelsList)) /\ Alike(Live("channels.info", ChannelsInfo))
    BY <1>1, Questions DEF ChannelsList, ChannelsInfo
  <2>2. Alike(Live("channels.follow", ChannelsFollow)) /\ Alike(Live("channels.mute", ChannelsMute))
    BY <1>1, Operations DEF ChannelsFollow, ChannelsMute
  <2>3. QED
    BY <2>1, <2>2 DEF Channels
<1>4. QED
  BY <1>2, <1>3

LEMMA HistoryAlike ==
  \A k \in HistoryCommands : Alike(k)
<1> DEFINE a == Checked("argument")
           m == Checked("message")
           t == Keep("history")
<1>1. {a} \in SUBSET Guards /\ {m} \in SUBSET Guards /\ {a, m} \in SUBSET Guards
      /\ Check("argument") \in Preps({a}) /\ Check("message") \in Preps({m})
      /\ Check("argument") \o Check("message") \in Preps({a, m})
  BY Checking DEF Checks
<1>2. Asked \in Turns /\ Ask = <<Asked>> /\ t \in Tails(Asked) /\ t \in Seq(After)
  BY Constituents, QuietTails DEF Facts, Tails
<1> HIDE DEF a, m, t
<1>3. Check("argument") \o Connected \in Preps({a})
  BY <1>1, Slackened
<1>4. (Check("argument") \o Connected) \o Check("message") \in Preps({a, m})
  <2>1. {a} \cup {m} = {a, m}
    OBVIOUS
  <2>2. QED
    BY <1>1, <1>3, <2>1, PrepPrep
<1>5. BackfillRequest \in Runs({}, Asked, t)
  BY <1>1, <1>2, Composed DEF BackfillRequest, t
<1>6. /\ (Check("argument") \o Check("message")) \o BackfillRequest \in Runs({a, m} \cup {}, Asked, t)
      /\ ((Check("argument") \o Connected) \o Check("message")) \o BackfillRequest
           \in Runs({a, m} \cup {}, Asked, t)
      /\ {a, m} \cup {} = {a, m}
  BY <1>1, <1>2, <1>4, <1>5, PrepRun
<1>7. QED
  BY <1>1, <1>2, <1>6, TwiceAlike DEF HistoryCommands, HistoryBackfill, HistoryBackfillDirect

(* In every command of the table the two paths are alike: the daemon's handler
   checks and asks what the direct path checks and asks before it changes
   anything, makes the same change, and goes on in the same way. *)
THEOREM PathsAlike == \A k \in Table : Alike(k)
BY SendsAlike, MessagesAlike, ChatsAlike, GroupsAlike, ProfilesAlike, HistoryAlike DEF Table

(* What happens in given circumstances w to a command with guards G, turn c and
   tail t, whichever path p it takes. *)
Stops(w, p, g) ==
  \/ g.kind = "check" /\ (g.what \in w \/ (g.what = "file" /\ p = "daemon" /\ "elsewhere" \in w))
  \/ g.kind = "ask" /\ {"offline", "unread"} \cap w # {}

Refused(w, c) ==
  \/ c.kind = "change" /\ {"offline", "refused"} \cap w # {}
  \/ c.kind = "ask" /\ {"offline", "unread"} \cap w # {}

Blocked(w, p, G, c) == Refused(w, c) \/ \E g \in G : Stops(w, p, g)

Lost(w, c) == c.kind = "change" /\ "unanswered" \in w

Unsaved(w, t) == "store" \in w /\ \E i \in 1..Len(t) : t[i].kind = "must_keep"

Turned(c) == IF c.kind = "change" THEN {c.what} ELSE {}

(* the step after a look that told nothing is left out *)
Skipped(w, t, i) == {"offline", "unread"} \cap w # {} /\ i > 1 /\ t[i - 1].kind = "look"

(* what is kept, and done, by the steps of the tail before the one at j *)
KeptBefore(w, t, j) ==
  {a \in Facts \cup Harmless :
     /\ "store" \notin w
     /\ \E i \in 1..Len(t) :
          /\ i < j /\ ~Skipped(w, t, i) /\ t[i].what = a
          /\ t[i].kind = "keep" \/ t[i].kind = "must_keep"}

DoneBefore(w, t, j) ==
  {a \in {"preview", "forget"} :
     \E i \in 1..Len(t) : i < j /\ ~Skipped(w, t, i) /\ t[i].what = a /\ t[i].kind = "do"}

(* What a path has done: nothing yet, only the turn, or part of the tail, too.
   A preview is of no account when there is no link. *)
Still(w, ch, kp, dn) == ch = {} /\ kp = {} /\ ("link" \notin w => dn = {})

Turning(w, c, ch, kp, dn) == ch = Turned(c) /\ kp = {} /\ ("link" \notin w => dn = {})

Going(w, c, t, j, ch, kp, dn) ==
  /\ ch = Turned(c) /\ kp = KeptBefore(w, t, j)
  /\ "link" \notin w => dn = DoneBefore(w, t, j)

Preparing(w, p, G, s, n, x, ch, kp, dn) ==
  /\ x <= n /\ Still(w, ch, kp, dn)
  /\ \A i \in 1..(x - 1) : s[i] \in G => ~Stops(w, p, s[i])

Past(w, p, G, c, t, j, ch, kp, dn) ==
  /\ j >= 1 /\ Going(w, c, t, j, ch, kp, dn)
  /\ ~Blocked(w, p, G, c) /\ ~Lost(w, c)
  /\ j <= Len(t) => ~Skipped(w, t, j)
  /\ "store" \in w => \A i \in 1..Len(t) : i < j => t[i].kind # "must_keep"

Failed(w, p, G, c, t, ch, kp, dn) ==
  \/ Blocked(w, p, G, c) /\ Still(w, ch, kp, dn)
  \/ ~Blocked(w, p, G, c) /\ Lost(w, c) /\ Turning(w, c, ch, kp, dn)
  \/ ~Blocked(w, p, G, c) /\ ~Lost(w, c) /\ Unsaved(w, t) /\ Turning(w, c, ch, kp, dn)

Succeeded(w, p, G, c, t, ch, kp, dn) ==
  /\ ~Blocked(w, p, G, c) /\ ~Lost(w, c) /\ ~Unsaved(w, t)
  /\ Going(w, c, t, Len(t) + 1, ch, kp, dn)

Result(w, p, G, s, c, t, x, r, ch, kp, dn) ==
  LET n == Len(s) - Len(t) IN
  /\ r = "none" => \/ Preparing(w, p, G, s, n, x, ch, kp, dn)
                   \/ x > n /\ Past(w, p, G, c, t, x - n, ch, kp, dn)
  /\ r = "error" => Failed(w, p, G, c, t, ch, kp, dn)
  /\ r = "ok" => Succeeded(w, p, G, c, t, ch, kp, dn)

Outcome(p) ==
  \A G \in SUBSET Guards, c \in Turns : \A t \in Tails(c) :
    Course(p) \in Runs(G, c, t) =>
      Result(wrong, p, G, Course(p), c, t, next[p], told[p], changed[p], kept[p], done[p])

Formed ==
  /\ command \in Table /\ wrong \subseteq Wrong
  /\ next \in [Path -> Nat \ {0}]
  /\ changed \in [Path -> SUBSET Changes] /\ kept \in [Path -> SUBSET (Facts \cup Harmless)]
  /\ done \in [Path -> SUBSET {"preview", "forget"}]
  /\ told \in [Path -> {"none", "ok", "error"}]

PathInv == Formed /\ \A p \in Path : Outcome(p)
(* The same, in other words. *)
LEMMA CoursesRun ==
  ASSUME NEW k \in Table
  PROVE  \E G \in SUBSET Guards, c \in Turns : \E t \in Tails(c) :
           k.direct \in Runs(G, c, t) /\ k.daemon \in Runs(G, c, t)
BY PathsAlike DEF Alike

(* What a step is says where in a run it can be. *)
LEMMA Kinds ==
  /\ \A g \in Guards \cup Slack : g.kind \in {"check", "ask", "do"}
  /\ \A g \in Guards \cup Slack : g.kind = "do" => g.what = "preview"
  /\ \A g \in Slack : g.kind = "check" => g.what = "offline"
  /\ \A g \in Slack : g.kind # "ask"
  /\ \A c \in Turns : c.kind \in {"change", "ask"} /\ (c.kind = "change" => c.what \in Changes)
  /\ \A a \in After : /\ a.kind \in {"keep", "must_keep", "look", "do"}
                      /\ a.kind = "keep" \/ a.kind = "must_keep" => a.what \in Facts \cup Harmless
                      /\ a.kind = "do" => a.what = "forget"
<1>1. \A g \in Prep \cup Slack : /\ g.kind \in {"check", "ask", "do"}
                                 /\ g.kind = "do" => g.what = "preview"
  BY DEF Prep, Slack
<1>2. \A g \in Slack : (g.kind = "check" => g.what = "offline") /\ g.kind # "ask"
  BY DEF Slack
<1>3. \A c \in Turns : c.kind \in {"change", "ask"} /\ (c.kind = "change" => c.what \in Changes)
  BY DEF Turns
<1>4. \A a \in After : /\ a.kind \in {"keep", "must_keep", "look", "do"}
                       /\ a.kind = "keep" \/ a.kind = "must_keep" => a.what \in Facts \cup Harmless
                       /\ a.kind = "do" => a.what = "forget"
  <2> TAKE a \in After
  <2>1. \/ \E w \in Facts : a = [kind |-> "keep", what |-> w]
        \/ \E w \in Harmless : a = [kind |-> "must_keep", what |-> w]
        \/ a = [kind |-> "look", what |-> "info"] \/ a = [kind |-> "do", what |-> "forget"]
    BY DEF After
  <2>2. ASSUME NEW w \in Facts, a = [kind |-> "keep", what |-> w]
        PROVE  a.kind = "keep" /\ a.what \in Facts
    BY <2>2
  <2>3. ASSUME NEW w \in Harmless, a = [kind |-> "must_keep", what |-> w]
        PROVE  a.kind = "must_keep" /\ a.what \in Harmless
    BY <2>3
  <2>4. \/ a.kind = "keep" /\ a.what \in Facts
        \/ a.kind = "must_keep" /\ a.what \in Harmless
        \/ a.kind = "look"
        \/ a.kind = "do" /\ a.what = "forget"
    <3>1. /\ a = [kind |-> "look", what |-> "info"] => a.kind = "look"
          /\ a = [kind |-> "do", what |-> "forget"] => a.kind = "do" /\ a.what = "forget"
      OBVIOUS
    <3>2. QED
      BY <2>1, <2>2, <2>3, <3>1, Zenon
  <2>5. QED
    BY <2>4
<1>5. Guards \subseteq Prep
  BY DEF Guards
<1>6. QED
  BY <1>1, <1>2, <1>3, <1>4, <1>5

(* The step a path is at: before the turn, the turn, or in the tail. *)
LEMMA Place ==
  ASSUME NEW G \in SUBSET Guards, NEW c \in Turns, NEW t \in Tails(c), NEW s \in Runs(G, c, t),
         NEW x \in Nat \ {0}, x <= Len(s)
  PROVE  LET n == Len(s) - Len(t) IN
         \/ x < n /\ s[x] \in G \cup Slack
         \/ x = n /\ s[x] = c
         \/ x > n /\ (x - n) \in 1..Len(t) /\ s[x] = t[x - n] /\ t[x - n] \in After
<1> DEFINE n == Len(s) - Len(t)
<1>1. t \in Seq(After)
  BY DEF Tails
<1>2. /\ s \in Seq(Step) /\ Len(s) \in Nat /\ Len(t) \in Nat
      /\ n \in 1..Len(s) /\ s[n] = c
      /\ \A i \in 1..(n - 1) : s[i] \in G \cup Slack
      /\ \A i \in 1..Len(t) : s[n + i] = t[i]
  <2>1. Laid(s, G, c, t)
    BY <1>1, RunSteps
  <2>2. QED
    BY <2>1 DEF Laid
<1>3. n \in Nat \ {0} /\ Len(s) = n + Len(t)
  BY <1>2
<1> HIDE DEF n
<1>4. CASE x < n
  <2>1. x \in 1..(n - 1)
    BY <1>3, <1>4
  <2>2. x < n /\ s[x] \in G \cup Slack
    BY <1>2, <1>4, <2>1
  <2>3. QED
    BY <2>2 DEF n
<1>5. CASE x = n
  BY <1>2, <1>5 DEF n
<1>6. CASE x > n
  <2>1. (x - n) \in 1..Len(t) /\ n + (x - n) = x
    BY <1>2, <1>3, <1>6
  <2>2. t[x - n] \in After
    BY <1>1, <2>1, ElementOfSeq
  <2>3. s[x] = t[x - n]
    BY <1>2, <2>1
  <2>4. QED
    BY <1>6, <2>1, <2>2, <2>3 DEF n
<1>7. x < n \/ x = n \/ x > n
  BY <1>3
<1>8. QED
  BY <1>4, <1>5, <1>6, <1>7

(* How long runs are. *)
LEMMA Lengths ==
  ASSUME NEW G \in SUBSET Guards, NEW c \in Turns, NEW t \in Tails(c), NEW s \in Runs(G, c, t)
  PROVE  /\ t \in Seq(After) /\ Len(t) \in Nat /\ Len(s) \in Nat /\ s \in Seq(Step)
         /\ Len(s) - Len(t) \in Nat \ {0} /\ Len(s) = (Len(s) - Len(t)) + Len(t)
         /\ \A g \in G : \E i \in 1..((Len(s) - Len(t)) - 1) : s[i] = g
<1>1. t \in Seq(After)
  BY DEF Tails
<1>2. /\ s \in Seq(Step) /\ Len(s) \in Nat /\ Len(t) \in Nat
      /\ Len(s) - Len(t) \in 1..Len(s)
      /\ \A g \in G : \E i \in 1..((Len(s) - Len(t)) - 1) : s[i] = g
  <2>1. Laid(s, G, c, t)
    BY <1>1, RunSteps
  <2>2. QED
    BY <2>1 DEF Laid
<1>3. QED
  BY <1>1, <1>2

(* What the tail has kept and done at its start, at its end, *)
LEMMA TailFirst ==
  ASSUME NEW w, NEW t \in Seq(After)
  PROVE  KeptBefore(w, t, 1) = {} /\ DoneBefore(w, t, 1) = {} /\ ~Skipped(w, t, 1)
<1>1. \A i \in 1..Len(t) : ~(i < 1)
  BY LenProperties
<1>2. KeptBefore(w, t, 1) = {} /\ DoneBefore(w, t, 1) = {}
  BY <1>1 DEF KeptBefore, DoneBefore
<1>3. ~Skipped(w, t, 1)
  BY DEF Skipped
<1>4. QED
  BY <1>2, <1>3

LEMMA TailLast ==
  ASSUME NEW w, NEW t \in Seq(After), NEW j \in Nat, j > Len(t)
  PROVE  KeptBefore(w, t, j) = KeptBefore(w, t, Len(t) + 1) /\ DoneBefore(w, t, j) = DoneBefore(w, t, Len(t) + 1)
<1>1. \A i \in 1..Len(t) : i < j /\ i < Len(t) + 1
  BY LenProperties
<1>2. QED
  BY <1>1 DEF KeptBefore, DoneBefore

(* after one more step, *)
LEMMA TailStep ==
  ASSUME NEW w, NEW t \in Seq(After), NEW j \in 1..Len(t), ~Skipped(w, t, j)
  PROVE  /\ "store" \notin w /\ t[j].kind \in {"keep", "must_keep"} =>
              KeptBefore(w, t, j + 1) = KeptBefore(w, t, j) \cup {t[j].what}
         /\ "store" \in w \/ t[j].kind \notin {"keep", "must_keep"} =>
              KeptBefore(w, t, j + 1) = KeptBefore(w, t, j)
         /\ t[j].kind = "do" => DoneBefore(w, t, j + 1) = DoneBefore(w, t, j) \cup {t[j].what}
         /\ t[j].kind # "do" => DoneBefore(w, t, j + 1) = DoneBefore(w, t, j)
         /\ Skipped(w, t, j + 1) => t[j].kind = "look" /\ {"offline", "unread"} \cap w # {}
<1>1. Len(t) \in Nat /\ j \in Nat /\ t[j] \in After
  BY LenProperties, ElementOfSeq
<1>2. \A i \in 1..Len(t) : i < j + 1 <=> i < j \/ i = j
  BY <1>1
<1>3. /\ t[j].kind \in {"keep", "must_keep"} => t[j].what \in Facts \cup Harmless
      /\ t[j].kind = "do" => t[j].what = "forget"
  BY <1>1, Kinds
<1>4. "store" \notin w /\ t[j].kind \in {"keep", "must_keep"} =>
        KeptBefore(w, t, j + 1) = KeptBefore(w, t, j) \cup {t[j].what}
  BY <1>2, <1>3 DEF KeptBefore
<1>5. "store" \in w \/ t[j].kind \notin {"keep", "must_keep"} =>
        KeptBefore(w, t, j + 1) = KeptBefore(w, t, j)
  BY <1>2 DEF KeptBefore
<1>6. t[j].kind = "do" => DoneBefore(w, t, j + 1) = DoneBefore(w, t, j) \cup {t[j].what}
  BY <1>2, <1>3 DEF DoneBefore
<1>7. t[j].kind # "do" => DoneBefore(w, t, j + 1) = DoneBefore(w, t, j)
  BY <1>2 DEF DoneBefore
<1>8. Skipped(w, t, j + 1) => t[j].kind = "look" /\ {"offline", "unread"} \cap w # {}
  <2>1. (j + 1) - 1 = j
    BY <1>1
  <2>2. QED
    BY <2>1 DEF Skipped
<1>9. QED
  BY <1>4, <1>5, <1>6, <1>7, <1>8

(* Small numbers. *)
LEMMA OnlyOne ==
  /\ \A m : m = 1 => 1 \in 1..m /\ \A i, j \in 1..m : i = j
  /\ 1 >= 1 /\ \A m \in Nat : \A i \in 1..m : ~(i < 1) /\ i < m + 1
OBVIOUS

(* and after a look that told nothing. *)
LEMMA TailSkip ==
  ASSUME NEW w, NEW c \in Turns, NEW t \in Tails(c), NEW j \in 1..Len(t), t[j].kind = "look",
         {"offline", "unread"} \cap w # {}
  PROVE  /\ KeptBefore(w, t, j + 2) = KeptBefore(w, t, j) /\ DoneBefore(w, t, j + 2) = DoneBefore(w, t, j)
         /\ j + 2 <= Len(t) => ~Skipped(w, t, j + 2)
         /\ \A i \in 1..Len(t) : i < j + 2 => i < j \/ i = j \/ Skipped(w, t, i)
         /\ \A i \in 1..Len(t) : t[i].kind # "must_keep"
<1>1. t \in Seq(After)
  BY DEF Tails
<1>2. Len(t) \in Nat /\ j \in Nat
  BY <1>1, LenProperties
<1>3. \A i \in 1..Len(t) : i < j + 2 => i < j \/ i = j \/ i = j + 1
  BY <1>2
<1>4. Skipped(w, t, j + 1) /\ (j + 1) - 1 = j /\ (j + 2) - 1 = j + 1
  BY <1>2 DEF Skipped
<1>5. \A i \in 1..Len(t) : i < j + 2 => i < j \/ i = j \/ Skipped(w, t, i)
  BY <1>3, <1>4
<1>6. \A i \in 1..Len(t) : i < j => i < j + 2
  BY <1>2
<1>7. KeptBefore(w, t, j + 2) = KeptBefore(w, t, j) /\ DoneBefore(w, t, j + 2) = DoneBefore(w, t, j)
  BY <1>5, <1>6 DEF KeptBefore, DoneBefore
<1>8. j + 2 <= Len(t) => ~Skipped(w, t, j + 2)
  <2>1. j + 2 <= Len(t) => j + 1 \in 1..Len(t) /\ j + 1 > 1
    BY <1>2
  <2>2. j + 2 <= Len(t) => t[j + 1].kind # "look"
    BY <1>4, <2>1 DEF Tails
  <2>3. QED
    BY <1>4, <2>2 DEF Skipped
<1>9. \A i \in 1..Len(t) : t[i].kind # "must_keep"
  <2> SUFFICES ASSUME NEW i \in 1..Len(t), t[i].kind = "must_keep"
               PROVE  FALSE
    OBVIOUS
  <2>1. Len(t) = 1
    BY DEF Tails
  <2>2. i = j
    BY <2>1, OnlyOne, Zenon
  <2>3. QED
    BY <2>2
<1>10. QED
  BY <1>5, <1>7, <1>8, <1>9

(* A path that has not answered, at a step of its course. *)
Here(w, p, G, s, c, t, x, ch, kp, dn) ==
  /\ G \in SUBSET Guards /\ c \in Turns /\ t \in Tails(c) /\ s \in Runs(G, c, t)
  /\ x \in Nat \ {0} /\ x <= Len(s)
  /\ Result(w, p, G, s, c, t, x, "none", ch, kp, dn)

LEMMA Where ==
  ASSUME NEW w, NEW p, NEW G, NEW s, NEW c, NEW t, NEW x, NEW ch, NEW kp, NEW dn,
         Here(w, p, G, s, c, t, x, ch, kp, dn)
  PROVE  LET n == Len(s) - Len(t)
             Early == Preparing(w, p, G, s, n, x, ch, kp, dn)
             Late == Past(w, p, G, c, t, x - n, ch, kp, dn)
         IN /\ n \in Nat \ {0} /\ Len(t) \in Nat /\ t \in Seq(After)
            /\ \/ Early /\ x < n /\ s[x] \in G \cup Slack /\ s[x].kind \in {"check", "ask", "do"}
               \/ Early /\ x = n /\ s[x] = c /\ s[x].kind \in {"change", "ask"} /\ \A g \in G : ~Stops(w, p, g)
               \/ /\ Late /\ x > n /\ (x - n) \in 1..Len(t) /\ s[x] = t[x - n]
                  /\ s[x].kind \in {"keep", "must_keep", "look", "do"} /\ ~Skipped(w, t, x - n)
<1> DEFINE n == Len(s) - Len(t)
           Early == Preparing(w, p, G, s, n, x, ch, kp, dn)
           Late == Past(w, p, G, c, t, x - n, ch, kp, dn)
<1>1. /\ G \in SUBSET Guards /\ c \in Turns /\ t \in Tails(c) /\ s \in Runs(G, c, t)
      /\ x \in Nat \ {0} /\ x <= Len(s)
  BY DEF Here
<1>0. Early \/ (x > n /\ Late)
  BY DEF Here, Result
<1> HIDE DEF Early, Late
<1>2. /\ n \in Nat \ {0} /\ Len(t) \in Nat /\ t \in Seq(After)
      /\ \A g \in G : \E i \in 1..(n - 1) : s[i] = g
  BY <1>1, Lengths
<1>3. \/ x < n /\ s[x] \in G \cup Slack
      \/ x = n /\ s[x] = c
      \/ x > n /\ (x - n) \in 1..Len(t) /\ s[x] = t[x - n] /\ t[x - n] \in After
  BY <1>1, Place
<1>4. Early => x <= n
  BY DEF Early, Preparing
<1> HIDE DEF n
<1>5. CASE x < n
  <2>1. Early /\ s[x] \in G \cup Slack
    BY <1>0, <1>1, <1>2, <1>3, <1>5
  <2>2. s[x].kind \in {"check", "ask", "do"}
    BY <1>1, <2>1, Kinds
  <2>3. QED
    BY <1>2, <1>5, <2>1, <2>2 DEF n, Early, Late
<1>6. CASE x = n
  <2>1. Early /\ s[x] = c
    BY <1>0, <1>1, <1>2, <1>3, <1>6
  <2>2. s[x].kind \in {"change", "ask"}
    BY <1>1, <2>1, Kinds
  <2>3. ASSUME NEW g \in G
        PROVE  ~Stops(w, p, g)
    <3>1. PICK i \in 1..(n - 1) : s[i] = g
      BY <1>2
    <3>2. i \in 1..(x - 1)
      BY <1>6
    <3>3. QED
      BY <2>1, <3>1, <3>2 DEF Early, Preparing
  <2>4. QED
    BY <1>2, <1>6, <2>1, <2>2, <2>3 DEF n, Early, Late
<1>7. CASE x > n
  <2>1. Late /\ (x - n) \in 1..Len(t) /\ s[x] = t[x - n] /\ t[x - n] \in After
    BY <1>0, <1>1, <1>2, <1>3, <1>4, <1>7
  <2>2. s[x].kind \in {"keep", "must_keep", "look", "do"}
    BY <2>1, Kinds
  <2>3. x - n <= Len(t)
    BY <1>2, <2>1
  <2>4. ~Skipped(w, t, x - n)
    BY <2>1, <2>3 DEF Late, Past
  <2>5. QED
    BY <1>2, <1>7, <2>1, <2>2, <2>4 DEF n, Early, Late
<1>8. QED
  BY <1>3, <1>5, <1>6, <1>7

(* What a step makes of it. *)
Onward(w, p, G, s, c, t, x, ch, kp, dn) ==
  LET k == s[x].kind
      R(y, r, ch1, kp1, dn1) == Result(w, p, G, s, c, t, y, r, ch1, kp1, dn1)
      Unread1 == {"offline", "unread"} \cap w # {}
  IN /\ k = "check" /\ ~Stops(w, p, s[x]) => R(x + 1, "none", ch, kp, dn)
     /\ k = "check" /\ Stops(w, p, s[x]) => R(x, "error", ch, kp, dn)
     /\ k = "change" /\ {"offline", "refused", "unanswered"} \cap w = {} =>
          R(x + 1, "none", ch \cup {s[x].what}, kp, dn)
     /\ k = "change" /\ {"offline", "refused"} \cap w # {} => R(x, "error", ch, kp, dn)
     /\ k = "change" /\ "unanswered" \in w /\ {"offline", "refused"} \cap w = {} =>
          R(x, "error", ch \cup {s[x].what}, kp, dn)
     /\ k \in {"ask", "look"} /\ ~Unread1 => R(x + 1, "none", ch, kp, dn)
     /\ k = "ask" /\ Unread1 => R(x, "error", ch, kp, dn)
     /\ k = "look" /\ Unread1 => R(x + 2, "none", ch, kp, dn)
     /\ k \in {"keep", "must_keep"} /\ "store" \notin w =>
          R(x + 1, "none", ch, kp \cup {s[x].what}, dn)
     /\ k = "keep" /\ "store" \in w => R(x + 1, "none", ch, kp, dn)
     /\ k = "must_keep" /\ "store" \in w => R(x, "error", ch, kp, dn)
     /\ k = "do" => R(x + 1, "none", ch, kp,
                      IF s[x].what = "preview" /\ "link" \notin w THEN dn ELSE dn \cup {s[x].what})

LEMMA NextStep ==
  ASSUME NEW w, NEW p, NEW G, NEW s, NEW c, NEW t, NEW x, NEW ch, NEW kp, NEW dn,
         Here(w, p, G, s, c, t, x, ch, kp, dn)
  PROVE  Onward(w, p, G, s, c, t, x, ch, kp, dn)
<1> DEFINE n == Len(s) - Len(t)
           j == x - n
           k == s[x].kind
           R(y, r, ch1, kp1, dn1) == Result(w, p, G, s, c, t, y, r, ch1, kp1, dn1)
           Unread1 == {"offline", "unread"} \cap w # {}
           Early == Preparing(w, p, G, s, n, x, ch, kp, dn)
           Late == Past(w, p, G, c, t, j, ch, kp, dn)
<1>1. /\ G \in SUBSET Guards /\ c \in Turns /\ t \in Tails(c) /\ s \in Runs(G, c, t)
      /\ x \in Nat \ {0} /\ x <= Len(s)
  BY DEF Here
<1>2. /\ n \in Nat \ {0} /\ Len(t) \in Nat /\ t \in Seq(After)
      /\ \/ Early /\ x < n /\ s[x] \in G \cup Slack /\ k \in {"check", "ask", "do"}
         \/ Early /\ x = n /\ s[x] = c /\ k \in {"change", "ask"} /\ \A g \in G : ~Stops(w, p, g)
         \/ /\ Late /\ x > n /\ j \in 1..Len(t) /\ s[x] = t[j]
            /\ k \in {"keep", "must_keep", "look", "do"} /\ ~Skipped(w, t, j)
  BY Where
<1>3. \A y, r, ch1, kp1, dn1 :
        /\ Preparing(w, p, G, s, n, y, ch1, kp1, dn1) => R(y, "none", ch1, kp1, dn1)
        /\ y > n /\ Past(w, p, G, c, t, y - n, ch1, kp1, dn1) => R(y, "none", ch1, kp1, dn1)
        /\ Failed(w, p, G, c, t, ch1, kp1, dn1) => R(y, "error", ch1, kp1, dn1)
  BY DEF Result
<1>0. x \in Nat /\ n \in Nat /\ j \in Int /\ x = n + j /\ x + 1 = n + (j + 1) /\ (x + 1) - n = j + 1
      /\ (x + 2) - n = j + 2 /\ (x + 1) - 1 = x
  <2>1. x \in Nat /\ n \in Nat
    BY <1>1, <1>2
  <2> HIDE DEF n
  <2>2. QED
    BY <2>1
<1> HIDE DEF n, j, R, Early, Late
(* a step before the turn, a turn, a step of the tail *)
<1>4. ASSUME Early, x < n, s[x] \in G => ~Stops(w, p, s[x])
      PROVE  R(x + 1, "none", ch, kp, dn)
  <2>1. x + 1 <= n /\ \A i \in 1..((x + 1) - 1) : i = x \/ i \in 1..(x - 1)
    BY <1>0, <1>4
  <2>2. Preparing(w, p, G, s, n, x + 1, ch, kp, dn)
    BY <1>4, <2>1 DEF Early, Preparing
  <2>3. QED
    BY <1>3, <2>2
<1>5. ASSUME Early, Blocked(w, p, G, c)
      PROVE  R(x, "error", ch, kp, dn)
  <2>1. Failed(w, p, G, c, t, ch, kp, dn)
    BY <1>5 DEF Early, Preparing, Failed
  <2>2. QED
    BY <1>3, <2>1
<1>6. ASSUME Early, x = n, ~Refused(w, c), ~Lost(w, c), \A g \in G : ~Stops(w, p, g),
             NEW ch1, ch1 = Turned(c)
      PROVE  R(x + 1, "none", ch1, kp, dn)
  <2>1. (x + 1) - n = 1 /\ x + 1 > n
    BY <1>0, <1>6
  <2>2. KeptBefore(w, t, 1) = {} /\ DoneBefore(w, t, 1) = {} /\ ~Skipped(w, t, 1)
    BY <1>2, TailFirst
  <2>3. kp = {} /\ ("link" \notin w => dn = {})
    BY <1>6 DEF Early, Preparing, Still
  <2>4. Going(w, c, t, 1, ch1, kp, dn)
    BY <1>6, <2>2, <2>3 DEF Going
  <2>5. ~Blocked(w, p, G, c)
    BY <1>6 DEF Blocked
  <2>6. \A i \in 1..Len(t) : ~(i < 1)
    BY <1>2, OnlyOne, Zenon
  <2>7. Past(w, p, G, c, t, 1, ch1, kp, dn)
    BY <1>6, <2>2, <2>4, <2>5, <2>6, OnlyOne, Zenon DEF Past
  <2>8. QED
    BY <1>3, <2>1, <2>7
<1>7. ASSUME Late, x > n, j \in 1..Len(t), NEW kp1, NEW dn1,
             ~Skipped(w, t, j + 1), "store" \in w => t[j].kind # "must_keep",
             kp1 = KeptBefore(w, t, j + 1), "link" \notin w => dn1 = DoneBefore(w, t, j + 1)
      PROVE  R(x + 1, "none", ch, kp1, dn1)
  <2>0. x > n
    BY <1>7
  <2>1. (x + 1) - n = j + 1 /\ x + 1 > n /\ j + 1 >= 1
    BY <1>0, <2>0
  <2>2. \A i \in 1..Len(t) : i < j + 1 => i < j \/ i = j
    BY <1>0
  <2>3. Past(w, p, G, c, t, j + 1, ch, kp1, dn1)
    BY <1>7, <2>1, <2>2 DEF Late, Past, Going
  <2>4. QED
    BY <1>3, <2>1, <2>3
(* the step after, when it is not left out *)
<1>8. ASSUME Late, j \in 1..Len(t), ~Skipped(w, t, j), t[j].kind # "look" \/ ~Unread1
      PROVE  /\ ~Skipped(w, t, j + 1)
             /\ kp = KeptBefore(w, t, j) /\ ("link" \notin w => dn = DoneBefore(w, t, j))
  <2>1. Skipped(w, t, j + 1) => t[j].kind = "look" /\ Unread1
    BY <1>2, <1>8, TailStep
  <2>2. kp = KeptBefore(w, t, j) /\ ("link" \notin w => dn = DoneBefore(w, t, j))
    BY <1>8 DEF Late, Past, Going
  <2>3. QED
    BY <1>8, <2>1, <2>2
<1>t. ASSUME j \in 1..Len(t), ~Skipped(w, t, j)
      PROVE  /\ "store" \notin w /\ t[j].kind \in {"keep", "must_keep"} =>
                  KeptBefore(w, t, j + 1) = KeptBefore(w, t, j) \cup {t[j].what}
             /\ "store" \in w \/ t[j].kind \notin {"keep", "must_keep"} =>
                  KeptBefore(w, t, j + 1) = KeptBefore(w, t, j)
             /\ t[j].kind = "do" => DoneBefore(w, t, j + 1) = DoneBefore(w, t, j) \cup {t[j].what}
             /\ t[j].kind # "do" => DoneBefore(w, t, j + 1) = DoneBefore(w, t, j)
  <2>1. t \in Seq(After)
    BY <1>2
  <2>2. QED
    BY <1>t, <2>1, TailStep
<1>9. Turned(c) = (IF c.kind = "change" THEN {c.what} ELSE {}) /\ (Early => ch = {})
  BY DEF Turned, Early, Preparing, Still
<1>10. k = "check" /\ ~Stops(w, p, s[x]) => R(x + 1, "none", ch, kp, dn)
  BY <1>2, <1>4
<1>11. k = "check" /\ Stops(w, p, s[x]) => R(x, "error", ch, kp, dn)
  <2> HAVE k = "check" /\ Stops(w, p, s[x])
  <2>1. Early /\ s[x] \in G \cup Slack
    BY <1>2
  <2>2. CASE s[x] \in G
    BY <1>5, <2>1, <2>2 DEF Blocked
  <2>3. CASE s[x] \in Slack
    <3>1. s[x].what = "offline" /\ c.kind \in {"change", "ask"}
      BY <1>1, <2>3, Kinds
    <3>2. "offline" \in w
      BY <3>1 DEF Stops
    <3>3. Refused(w, c)
      BY <3>1, <3>2 DEF Refused
    <3>4. QED
      BY <1>5, <2>1, <3>3 DEF Blocked
  <2>4. QED
    BY <2>1, <2>2, <2>3
<1>12. k = "change" /\ {"offline", "refused", "unanswered"} \cap w = {} =>
         R(x + 1, "none", ch \cup {s[x].what}, kp, dn)
  <2> HAVE k = "change" /\ {"offline", "refused", "unanswered"} \cap w = {}
  <2>1. Early /\ x = n /\ s[x] = c /\ \A g \in G : ~Stops(w, p, g)
    BY <1>2
  <2>2. ~Refused(w, c) /\ ~Lost(w, c)
    BY <2>1 DEF Refused, Lost
  <2>3. ch \cup {s[x].what} = Turned(c)
    BY <1>9, <2>1
  <2>4. QED
    BY <1>6, <2>1, <2>2, <2>3
<1>13. k = "change" /\ {"offline", "refused"} \cap w # {} => R(x, "error", ch, kp, dn)
  <2> HAVE k = "change" /\ {"offline", "refused"} \cap w # {}
  <2>1. Early /\ s[x] = c
    BY <1>2
  <2>2. Blocked(w, p, G, c)
    BY <2>1 DEF Refused, Blocked
  <2>3. QED
    BY <1>5, <2>1, <2>2
<1>14. k = "change" /\ "unanswered" \in w /\ {"offline", "refused"} \cap w = {} =>
         R(x, "error", ch \cup {s[x].what}, kp, dn)
  <2> HAVE k = "change" /\ "unanswered" \in w /\ {"offline", "refused"} \cap w = {}
  <2>1. Early /\ x = n /\ s[x] = c /\ \A g \in G : ~Stops(w, p, g)
    BY <1>2
  <2>2. ~Refused(w, c) /\ Lost(w, c)
    BY <2>1 DEF Refused, Lost
  <2>3. ch \cup {s[x].what} = Turned(c)
    BY <1>9, <2>1
  <2>4. Failed(w, p, G, c, t, ch \cup {s[x].what}, kp, dn)
    BY <2>1, <2>2, <2>3 DEF Failed, Turning, Blocked, Early, Preparing, Still
  <2>5. QED
    BY <1>3, <2>4
<1>15. k \in {"ask", "look"} /\ ~Unread1 => R(x + 1, "none", ch, kp, dn)
  <2> HAVE k \in {"ask", "look"} /\ ~Unread1
  <2>1. CASE Early /\ x < n
    <3>1. ~Stops(w, p, s[x])
      BY <1>1, <1>2, <2>1 DEF Stops
    <3>2. QED
      BY <1>4, <2>1, <3>1
  <2>2. CASE Early /\ x = n
    <3>0. ~(x < n) /\ ~(x > n)
      BY <1>0, <2>2
    <3>1. s[x] = c /\ c.kind = "ask" /\ \A g \in G : ~Stops(w, p, g)
      BY <1>2, <3>0
    <3>2. ~Refused(w, c) /\ ~Lost(w, c)
      BY <3>1 DEF Refused, Lost
    <3>3. ch = Turned(c)
      BY <1>9, <2>2, <3>1
    <3>4. QED
      BY <1>6, <2>2, <3>1, <3>2, <3>3
  <2>3. CASE Late /\ x > n
    <3>0. ~(x < n) /\ x # n
      BY <1>0, <2>3
    <3>1. j \in 1..Len(t) /\ s[x] = t[j] /\ t[j].kind = "look" /\ ~Skipped(w, t, j)
      BY <1>2, <3>0
    <3>2. /\ KeptBefore(w, t, j + 1) = KeptBefore(w, t, j)
          /\ DoneBefore(w, t, j + 1) = DoneBefore(w, t, j)
      BY <1>2, <3>1, <1>t
    <3>3. QED
      BY <1>7, <1>8, <2>3, <3>1, <3>2
  <2>4. QED
    BY <1>2, <2>1, <2>2, <2>3
<1>16. k = "ask" /\ Unread1 => R(x, "error", ch, kp, dn)
  <2> HAVE k = "ask" /\ Unread1
  <2>1. Early /\ (s[x] \in G \cup Slack \/ s[x] = c)
    BY <1>2
  <2>2. s[x] \notin Slack
    BY Kinds
  <2>3. Blocked(w, p, G, c)
    BY <2>1, <2>2 DEF Blocked, Stops, Refused
  <2>4. QED
    BY <1>5, <2>1, <2>3
<1>17. k = "look" /\ Unread1 => R(x + 2, "none", ch, kp, dn)
  <2> HAVE k = "look" /\ Unread1
  <2>1. /\ Late /\ x > n /\ j \in 1..Len(t) /\ t[j].kind = "look"
    BY <1>2
  <2>2. /\ KeptBefore(w, t, j + 2) = KeptBefore(w, t, j) /\ DoneBefore(w, t, j + 2) = DoneBefore(w, t, j)
        /\ j + 2 <= Len(t) => ~Skipped(w, t, j + 2)
        /\ \A i \in 1..Len(t) : t[i].kind # "must_keep"
    <3>1. c \in Turns /\ t \in Tails(c)
      BY <1>1
    <3>2. j \in 1..Len(t) /\ t[j].kind = "look"
      BY <2>1
    <3>3. QED
      BY <3>1, <3>2, TailSkip, ZenonT(60)
  <2>3. (x + 2) - n = j + 2 /\ x + 2 > n /\ j + 2 >= 1
    BY <1>0, <2>1
  <2>4. Past(w, p, G, c, t, j + 2, ch, kp, dn)
    BY <2>1, <2>2, <2>3 DEF Late, Past, Going
  <2>5. QED
    BY <1>3, <2>3, <2>4
<1>18. k \in {"keep", "must_keep"} /\ "store" \notin w => R(x + 1, "none", ch, kp \cup {s[x].what}, dn)
  <2> HAVE k \in {"keep", "must_keep"} /\ "store" \notin w
  <2>1. /\ Late /\ x > n /\ j \in 1..Len(t) /\ s[x] = t[j] /\ ~Skipped(w, t, j)
        /\ t[j].kind \in {"keep", "must_keep"} /\ t[j].kind # "look" /\ t[j].kind # "do"
    BY <1>2
  <2>2. /\ KeptBefore(w, t, j + 1) = KeptBefore(w, t, j) \cup {s[x].what}
        /\ DoneBefore(w, t, j + 1) = DoneBefore(w, t, j)
    BY <1>2, <2>1, <1>t
  <2>3. QED
    BY <1>7, <1>8, <2>1, <2>2
<1>19. k = "keep" /\ "store" \in w => R(x + 1, "none", ch, kp, dn)
  <2> HAVE k = "keep" /\ "store" \in w
  <2>1. /\ Late /\ x > n /\ j \in 1..Len(t) /\ t[j].kind = "keep" /\ ~Skipped(w, t, j)
    BY <1>2
  <2>2. /\ KeptBefore(w, t, j + 1) = KeptBefore(w, t, j)
        /\ DoneBefore(w, t, j + 1) = DoneBefore(w, t, j)
    BY <1>2, <2>1, <1>t
  <2>3. QED
    BY <1>7, <1>8, <2>1, <2>2
<1>20. k = "must_keep" /\ "store" \in w => R(x, "error", ch, kp, dn)
  <2> HAVE k = "must_keep" /\ "store" \in w
  <2>1. Late /\ j \in 1..Len(t) /\ t[j].kind = "must_keep"
    BY <1>2
  <2>2. Len(t) = 1
    BY <1>1, <2>1 DEF Tails
  <2>3. j = 1
    BY <2>1, <2>2, OnlyOne, Zenon
  <2>4. KeptBefore(w, t, 1) = {} /\ DoneBefore(w, t, 1) = {}
    BY <1>2, TailFirst
  <2>5. Unsaved(w, t)
    BY <2>1 DEF Unsaved
  <2>6. Failed(w, p, G, c, t, ch, kp, dn)
    BY <2>1, <2>3, <2>4, <2>5 DEF Failed, Turning, Late, Past, Going
  <2>7. QED
    BY <1>3, <2>6
<1>21. k = "do" => R(x + 1, "none", ch, kp,
                     IF s[x].what = "preview" /\ "link" \notin w THEN dn ELSE dn \cup {s[x].what})
  <2> HAVE k = "do"
  <2> DEFINE d == IF s[x].what = "preview" /\ "link" \notin w THEN dn ELSE dn \cup {s[x].what}
  <2>1. CASE Early /\ x < n
    <3>1. s[x].what = "preview" /\ ~Stops(w, p, s[x])
      <4>1. s[x] \in Guards \cup Slack
        BY <1>1, <1>2, <2>1
      <4>2. QED
        BY <4>1, Kinds DEF Stops
    <3>2. "link" \notin w => d = dn
      BY <3>1
    <3> HIDE DEF d
    <3>3. x + 1 <= n /\ \A i \in 1..((x + 1) - 1) : i = x \/ i \in 1..(x - 1)
      BY <1>0, <2>1
    <3>4. Preparing(w, p, G, s, n, x + 1, ch, kp, d)
      BY <2>1, <3>1, <3>2, <3>3 DEF Early, Preparing, Still
    <3>5. R(x + 1, "none", ch, kp, d)
      BY <1>3, <3>4
    <3>6. QED
      BY <3>5 DEF d
  <2>2. CASE Late /\ x > n
    <3>1. j \in 1..Len(t) /\ s[x] = t[j] /\ t[j].kind = "do" /\ ~Skipped(w, t, j)
      BY <1>1, <1>2, <2>2
    <3>2. t[j] \in After
      BY <1>2, <3>1, ElementOfSeq
    <3>3. d = dn \cup {t[j].what}
      BY <3>1, <3>2, Kinds
    <3> HIDE DEF d
    <3>4. /\ KeptBefore(w, t, j + 1) = KeptBefore(w, t, j)
          /\ DoneBefore(w, t, j + 1) = DoneBefore(w, t, j) \cup {t[j].what}
      BY <1>2, <3>1, <1>t
    <3>5. R(x + 1, "none", ch, kp, d)
      BY <1>7, <1>8, <2>2, <3>1, <3>3, <3>4
    <3>6. QED
      BY <3>5 DEF d
  <2>3. QED
    BY <1>2, <2>1, <2>2
<1>22. QED
  BY <1>10, <1>11, <1>12, <1>13, <1>14, <1>15, <1>16, <1>17, <1>18, <1>19, <1>20, <1>21 DEF R, Onward

(* At its end a path is told that all went well. *)
LEMMA NoStep ==
  ASSUME NEW w, NEW p, NEW G \in SUBSET Guards, NEW c \in Turns, NEW t \in Tails(c),
         NEW s \in Runs(G, c, t), NEW x \in Nat \ {0}, x > Len(s), NEW ch, NEW kp, NEW dn,
         Result(w, p, G, s, c, t, x, "none", ch, kp, dn)
  PROVE  Result(w, p, G, s, c, t, x, "ok", ch, kp, dn)
<1> DEFINE n == Len(s) - Len(t)
           j == x - n
<1>1. /\ t \in Seq(After) /\ Len(t) \in Nat /\ Len(s) \in Nat
      /\ n \in Nat \ {0} /\ Len(s) = n + Len(t)
  BY Lengths
<1> HIDE DEF n
<1>2. ~(x <= n) /\ j \in Nat /\ j > Len(t) /\ \A i \in 1..Len(t) : i < j
  BY <1>1
<1> HIDE DEF j
<1>3. Past(w, p, G, c, t, j, ch, kp, dn)
  BY <1>2 DEF Result, Preparing, n, j
<1>4. KeptBefore(w, t, j) = KeptBefore(w, t, Len(t) + 1) /\ DoneBefore(w, t, j) = DoneBefore(w, t, Len(t) + 1)
  BY <1>1, <1>2, TailLast
<1>5. ~Unsaved(w, t)
  BY <1>2, <1>3 DEF Past, Unsaved
<1>6. Succeeded(w, p, G, c, t, ch, kp, dn)
  BY <1>3, <1>4, <1>5 DEF Past, Going, Succeeded
<1>7. QED
  BY <1>6 DEF Result

(* Every course is a run, and what its steps name is of its kind. *)
LEMMA Courses ==
  ASSUME Formed, NEW p \in Path
  PROVE  /\ \E G \in SUBSET Guards, c \in Turns : \E t \in Tails(c) : Course(p) \in Runs(G, c, t)
         /\ Course(p) \in Seq(Step) /\ Len(Course(p)) \in Nat
<1>1. command \in Table
  BY DEF Formed
<1>2. PICK G \in SUBSET Guards, c \in Turns : \E t \in Tails(c) :
        command.direct \in Runs(G, c, t) /\ command.daemon \in Runs(G, c, t)
  BY <1>1, CoursesRun
<1>3. PICK t \in Tails(c) : command.direct \in Runs(G, c, t) /\ command.daemon \in Runs(G, c, t)
  BY <1>2
<1>4. Course(p) \in Runs(G, c, t)
  <2>1. command["direct"] = command.direct /\ command["daemon"] = command.daemon
    OBVIOUS
  <2>2. QED
    BY <1>3, <2>1 DEF Course, Path
<1>5. QED
  BY <1>4, Lengths

(* What a step changes, keeps or does has a name for it. *)
LEMMA Words ==
  ASSUME Formed, NEW p \in Path, next[p] <= Len(Course(p))
  PROVE  /\ Course(p)[next[p]].kind = "change" => What(p) \in Changes
         /\ Course(p)[next[p]].kind \in {"keep", "must_keep"} => What(p) \in Facts \cup Harmless
         /\ Course(p)[next[p]].kind = "do" => What(p) \in {"preview", "forget"}
<1>1. PICK G \in SUBSET Guards, c \in Turns : \E t \in Tails(c) : Course(p) \in Runs(G, c, t)
  BY Courses
<1>2. PICK t \in Tails(c) : Course(p) \in Runs(G, c, t)
  BY <1>1
<1> DEFINE a == Course(p)[next[p]]
<1>3. next[p] \in Nat \ {0}
  BY DEF Formed
<1>4. a \in G \cup Slack \/ a = c \/ a \in After
  BY <1>2, <1>3, Place
<1> HIDE DEF a
<1>5. /\ a.kind = "change" => a.what \in Changes
      /\ a.kind \in {"keep", "must_keep"} => a.what \in Facts \cup Harmless
      /\ a.kind = "do" => a.what \in {"preview", "forget"}
  <2>1. CASE a \in G \cup Slack
    <3>1. a \in Guards \cup Slack
      BY <2>1
    <3>2. QED
      BY <3>1, Kinds
  <2>2. CASE a = c
    BY <2>2, Kinds
  <2>3. CASE a \in After
    BY <2>3, Kinds
  <2>4. QED
    BY <1>4, <2>1, <2>2, <2>3
<1>6. QED
  BY <1>5 DEF What, a

(* The invariant holds at the start, *)
LEMMA PathStart == CommandInit => PathInv
<1> SUFFICES ASSUME CommandInit PROVE PathInv
  OBVIOUS
<1>1. Formed
  BY DEF CommandInit, Formed
<1>2. ASSUME NEW p \in Path, NEW G \in SUBSET Guards, NEW c \in Turns, NEW t \in Tails(c),
             Course(p) \in Runs(G, c, t)
      PROVE  Result(wrong, p, G, Course(p), c, t, next[p], told[p], changed[p], kept[p], done[p])
  <2>1. next[p] = 1 /\ told[p] = "none" /\ changed[p] = {} /\ kept[p] = {} /\ done[p] = {}
    BY DEF CommandInit
  <2>2. Len(Course(p)) - Len(t) \in Nat \ {0}
    BY <1>2, Lengths
  <2> DEFINE n == Len(Course(p)) - Len(t)
  <2> HIDE DEF n
  <2>3. 1 <= n /\ \A i \in 1..(1 - 1) : FALSE
    BY <2>2 DEF n
  <2>4. Preparing(wrong, p, G, Course(p), n, 1, {}, {}, {})
    BY <2>3 DEF Preparing, Still
  <2>5. QED
    BY <2>1, <2>4 DEF Result, n
<1>3. QED
  BY <1>1, <1>2 DEF PathInv, Outcome

(* A step of one path leaves the other alone. *)
LEMMA Move ==
  ASSUME PathInv, NEW p \in Path, NEW y \in Nat \ {0}, NEW r \in {"none", "ok", "error"},
         NEW ch \in SUBSET Changes, NEW kp \in SUBSET (Facts \cup Harmless),
         NEW dn \in SUBSET {"preview", "forget"},
         command' = command, wrong' = wrong,
         next' = [next EXCEPT ![p] = y], told' = [told EXCEPT ![p] = r],
         changed' = [changed EXCEPT ![p] = ch], kept' = [kept EXCEPT ![p] = kp],
         done' = [done EXCEPT ![p] = dn],
         \A G \in SUBSET Guards, c \in Turns : \A t \in Tails(c) :
           Course(p) \in Runs(G, c, t) => Result(wrong, p, G, Course(p), c, t, y, r, ch, kp, dn)
  PROVE  PathInv'
<1>1. Formed
  BY DEF PathInv
<1>2. Formed'
  BY <1>1 DEF Formed
<1>3. /\ next'[p] = y /\ told'[p] = r /\ changed'[p] = ch /\ kept'[p] = kp /\ done'[p] = dn
      /\ \A q \in Path \ {p} : /\ next'[q] = next[q] /\ told'[q] = told[q] /\ changed'[q] = changed[q]
                               /\ kept'[q] = kept[q] /\ done'[q] = done[q]
  BY <1>1 DEF Formed
<1>4. \A q \in Path : Course(q)' = Course(q)
  BY DEF Course
<1>5. ASSUME NEW q \in Path, NEW G \in SUBSET Guards, NEW c \in Turns, NEW t \in Tails(c),
             Course(q) \in Runs(G, c, t)
      PROVE  Result(wrong, q, G, Course(q), c, t, next'[q], told'[q], changed'[q], kept'[q], done'[q])
  <2>1. CASE q = p
    BY <1>3, <1>5, <2>1
  <2>2. CASE q # p
    <3>1. Result(wrong, q, G, Course(q), c, t, next[q], told[q], changed[q], kept[q], done[q])
      BY <1>5 DEF PathInv, Outcome
    <3>2. QED
      BY <1>3, <2>2, <3>1
  <2>3. QED
    BY <2>1, <2>2
<1>6. QED
  BY <1>2, <1>4, <1>5 DEF PathInv, Outcome

(* A path that has not answered has what the invariant says of it. *)
LEMMA AtWork ==
  ASSUME PathInv, NEW p \in Path, told[p] = "none"
  PROVE  /\ Formed /\ next[p] \in Nat \ {0} /\ Len(Course(p)) \in Nat
         /\ next = [next EXCEPT ![p] = next[p]] /\ told = [told EXCEPT ![p] = "none"]
         /\ changed = [changed EXCEPT ![p] = changed[p]] /\ kept = [kept EXCEPT ![p] = kept[p]]
         /\ done = [done EXCEPT ![p] = done[p]]
         /\ changed[p] \in SUBSET Changes /\ kept[p] \in SUBSET (Facts \cup Harmless)
         /\ done[p] \in SUBSET {"preview", "forget"}
         /\ \A G \in SUBSET Guards, c \in Turns : \A t \in Tails(c) :
              Course(p) \in Runs(G, c, t) =>
                /\ Result(wrong, p, G, Course(p), c, t, next[p], "none", changed[p], kept[p], done[p])
                /\ next[p] <= Len(Course(p)) =>
                     Here(wrong, p, G, Course(p), c, t, next[p], changed[p], kept[p], done[p])
<1>1. Formed
  BY DEF PathInv
<1>2. next[p] \in Nat \ {0} /\ Len(Course(p)) \in Nat
  BY <1>1, Courses DEF Formed
<1>3. /\ next = [next EXCEPT ![p] = next[p]] /\ told = [told EXCEPT ![p] = "none"]
      /\ changed = [changed EXCEPT ![p] = changed[p]] /\ kept = [kept EXCEPT ![p] = kept[p]]
      /\ done = [done EXCEPT ![p] = done[p]]
  BY <1>1 DEF Formed
<1>4. /\ changed[p] \in SUBSET Changes /\ kept[p] \in SUBSET (Facts \cup Harmless)
      /\ done[p] \in SUBSET {"preview", "forget"}
  BY <1>1 DEF Formed
<1>5. \A G \in SUBSET Guards, c \in Turns : \A t \in Tails(c) :
        Course(p) \in Runs(G, c, t) =>
          /\ Result(wrong, p, G, Course(p), c, t, next[p], "none", changed[p], kept[p], done[p])
          /\ next[p] <= Len(Course(p)) =>
               Here(wrong, p, G, Course(p), c, t, next[p], changed[p], kept[p], done[p])
  BY <1>2 DEF PathInv, Outcome, Here
<1>6. QED
  BY <1>1, <1>2, <1>3, <1>4, <1>5

(* and is kept by every step. *)
LEMMA PathStep ==
  ASSUME PathInv, [CommandNext]_commandVars
  PROVE  PathInv'
<1>1. CASE UNCHANGED commandVars
  BY <1>1 DEF commandVars, effects, PathInv, Formed, Outcome, Course
<1>2. ASSUME NEW p \in Path,
             \/ Pass(p) \/ Reject(p) \/ Perform(p) \/ Refuse(p) \/ Unanswered(p)
             \/ Learn(p) \/ LearnNothing(p) \/ LookAway(p)
             \/ Write(p) \/ Warn(p) \/ WriteFails(p) \/ DoLocally(p) \/ Succeed(p)
      PROVE  PathInv'
  <2> DEFINE s == Course(p)
             x == next[p]
             k == s[x].kind
             a == What(p)
             Moved(y, r, ch, kp, dn) ==
               /\ command' = command /\ wrong' = wrong
               /\ next' = [next EXCEPT ![p] = y] /\ told' = [told EXCEPT ![p] = r]
               /\ changed' = [changed EXCEPT ![p] = ch] /\ kept' = [kept EXCEPT ![p] = kp]
               /\ done' = [done EXCEPT ![p] = dn]
             R(y, r, ch, kp, dn) ==
               \A G \in SUBSET Guards, c \in Turns : \A t \in Tails(c) :
                 s \in Runs(G, c, t) => Result(wrong, p, G, s, c, t, y, r, ch, kp, dn)
             Unreadable == {"offline", "unread"} \cap wrong # {}
  <2>1. told[p] = "none" /\ command' = command /\ wrong' = wrong
    BY <1>2 DEF Pass, Reject, Perform, Refuse, Unanswered, Learn, LearnNothing, LookAway, Write, Warn,
                WriteFails, DoLocally, Succeed, Error, At
  <2>2. /\ Formed /\ x \in Nat \ {0} /\ Len(s) \in Nat
        /\ next = [next EXCEPT ![p] = x] /\ told = [told EXCEPT ![p] = "none"]
        /\ changed = [changed EXCEPT ![p] = changed[p]] /\ kept = [kept EXCEPT ![p] = kept[p]]
        /\ done = [done EXCEPT ![p] = done[p]]
        /\ changed[p] \in SUBSET Changes /\ kept[p] \in SUBSET (Facts \cup Harmless)
        /\ done[p] \in SUBSET {"preview", "forget"}
    BY <2>1, AtWork
  <2>3. x + 1 \in Nat \ {0} /\ x + 2 \in Nat \ {0}
    BY <2>2
  <2>4. ASSUME NEW y \in Nat \ {0}, NEW r \in {"none", "ok", "error"}, NEW ch \in SUBSET Changes,
               NEW kp \in SUBSET (Facts \cup Harmless), NEW dn \in SUBSET {"preview", "forget"},
               Moved(y, r, ch, kp, dn), R(y, r, ch, kp, dn)
        PROVE  PathInv'
    BY <2>4, Move
  <2>5. ASSUME x <= Len(s)
        PROVE  /\ k = "check" /\ ~Stops(wrong, p, s[x]) => R(x + 1, "none", changed[p], kept[p], done[p])
               /\ k = "check" /\ Stops(wrong, p, s[x]) => R(x, "error", changed[p], kept[p], done[p])
               /\ k = "change" /\ {"offline", "refused", "unanswered"} \cap wrong = {} =>
                    R(x + 1, "none", changed[p] \cup {a}, kept[p], done[p])
               /\ k = "change" /\ {"offline", "refused"} \cap wrong # {} =>
                    R(x, "error", changed[p], kept[p], done[p])
               /\ k = "change" /\ "unanswered" \in wrong /\ {"offline", "refused"} \cap wrong = {} =>
                    R(x, "error", changed[p] \cup {a}, kept[p], done[p])
               /\ k \in {"ask", "look"} /\ ~Unreadable => R(x + 1, "none", changed[p], kept[p], done[p])
               /\ k = "ask" /\ Unreadable => R(x, "error", changed[p], kept[p], done[p])
               /\ k = "look" /\ Unreadable => R(x + 2, "none", changed[p], kept[p], done[p])
               /\ k \in {"keep", "must_keep"} /\ "store" \notin wrong =>
                    R(x + 1, "none", changed[p], kept[p] \cup {a}, done[p])
               /\ k = "keep" /\ "store" \in wrong => R(x + 1, "none", changed[p], kept[p], done[p])
               /\ k = "must_keep" /\ "store" \in wrong => R(x, "error", changed[p], kept[p], done[p])
               /\ k = "do" => R(x + 1, "none", changed[p], kept[p],
                                IF a = "preview" /\ "link" \notin wrong THEN done[p] ELSE done[p] \cup {a})
    <3>1. ASSUME NEW G \in SUBSET Guards, NEW c \in Turns, NEW t \in Tails(c), s \in Runs(G, c, t)
          PROVE  Here(wrong, p, G, s, c, t, x, changed[p], kept[p], done[p])
      BY <2>1, <2>5, <3>1, AtWork
    <3>2. ASSUME NEW G \in SUBSET Guards, NEW c \in Turns, NEW t \in Tails(c), s \in Runs(G, c, t)
          PROVE  Onward(wrong, p, G, s, c, t, x, changed[p], kept[p], done[p])
      BY <3>1, <3>2, NextStep
    <3>3. QED
      BY <3>2, ZenonT(60) DEF Onward, What
  <2>6. x <= Len(s) => /\ k = "change" => a \in Changes
                       /\ k \in {"keep", "must_keep"} => a \in Facts \cup Harmless
                       /\ k = "do" => a \in {"preview", "forget"}
    BY <2>2, Words
  <2>7. k = "check" => (Stops(wrong, p, s[x]) <=> Fails(p, a))
    BY DEF Stops, Fails, What
  <2>8. \A y : Answer(p, y) <=> told' = [told EXCEPT ![p] = y]
    BY DEF Answer
  <2>9. Advance(p, 1) <=> next' = [next EXCEPT ![p] = x + 1]
    BY DEF Advance
  <2> HIDE DEF R
  <2>10. CASE Pass(p)
    <3>1. x <= Len(s) /\ k = "check" /\ ~Stops(wrong, p, s[x])
      BY <2>7, <2>10 DEF Pass, At
    <3>2. Moved(x + 1, "none", changed[p], kept[p], done[p])
      BY <2>1, <2>2, <2>10 DEF Pass, Advance, effects
    <3>3. QED
      BY <2>2, <2>3, <2>4, <2>5, <3>1, <3>2
  <2>11. CASE Reject(p)
    <3>1. x <= Len(s) /\ k = "check" /\ Stops(wrong, p, s[x])
      BY <2>11, <2>7 DEF Reject, At
    <3>2. Moved(x, "error", changed[p], kept[p], done[p])
      BY <2>1, <2>2, <2>11 DEF Reject, Error, Answer, effects
    <3>3. QED
      BY <2>2, <2>3, <2>4, <2>5, <3>1, <3>2
  <2>12. CASE Perform(p)
    <3>1. x <= Len(s) /\ k = "change" /\ {"offline", "refused", "unanswered"} \cap wrong = {}
      BY <2>12 DEF Perform, At
    <3>2. Moved(x + 1, "none", changed[p] \cup {a}, kept[p], done[p])
      BY <2>1, <2>2, <2>12 DEF Perform, Advance, Note
    <3>3. changed[p] \cup {a} \in SUBSET Changes
      BY <2>2, <2>6, <3>1
    <3>4. QED
      BY <2>2, <2>3, <2>4, <2>5, <3>1, <3>2, <3>3
  <2>13. CASE Refuse(p)
    <3>1. x <= Len(s) /\ k = "change" /\ {"offline", "refused"} \cap wrong # {}
      BY <2>13 DEF Refuse, At
    <3>2. Moved(x, "error", changed[p], kept[p], done[p])
      BY <2>1, <2>2, <2>13 DEF Refuse, Error, Answer, effects
    <3>3. QED
      BY <2>2, <2>3, <2>4, <2>5, <3>1, <3>2
  <2>14. CASE Unanswered(p)
    <3>1. x <= Len(s) /\ k = "change" /\ "unanswered" \in wrong /\ {"offline", "refused"} \cap wrong = {}
      BY <2>14 DEF Unanswered, At
    <3>2. Moved(x, "error", changed[p] \cup {a}, kept[p], done[p])
      BY <2>1, <2>2, <2>14 DEF Unanswered, Answer, Note
    <3>3. changed[p] \cup {a} \in SUBSET Changes
      BY <2>2, <2>6, <3>1
    <3>4. QED
      BY <2>2, <2>3, <2>4, <2>5, <3>1, <3>2, <3>3
  <2>15. CASE Learn(p)
    <3>1. x <= Len(s) /\ k \in {"ask", "look"} /\ ~Unreadable
      BY <2>15 DEF Learn, At, Unread
    <3>2. Moved(x + 1, "none", changed[p], kept[p], done[p])
      BY <2>1, <2>2, <2>15 DEF Learn, Advance, effects
    <3>3. QED
      BY <2>2, <2>3, <2>4, <2>5, <3>1, <3>2
  <2>16. CASE LearnNothing(p)
    <3>1. x <= Len(s) /\ k = "ask" /\ Unreadable
      BY <2>16 DEF LearnNothing, At, Unread
    <3>2. Moved(x, "error", changed[p], kept[p], done[p])
      BY <2>1, <2>2, <2>16 DEF LearnNothing, Error, Answer, effects
    <3>3. QED
      BY <2>2, <2>3, <2>4, <2>5, <3>1, <3>2
  <2>17. CASE LookAway(p)
    <3>1. x <= Len(s) /\ k = "look" /\ Unreadable
      BY <2>17 DEF LookAway, At, Unread
    <3>2. Moved(x + 2, "none", changed[p], kept[p], done[p])
      BY <2>1, <2>2, <2>17 DEF LookAway, Advance, effects
    <3>3. QED
      BY <2>2, <2>3, <2>4, <2>5, <3>1, <3>2
  <2>18. CASE Write(p)
    <3>1. x <= Len(s) /\ k \in {"keep", "must_keep"} /\ "store" \notin wrong
      BY <2>18 DEF Write, At
    <3>2. Moved(x + 1, "none", changed[p], kept[p] \cup {a}, done[p])
      BY <2>1, <2>2, <2>18 DEF Write, Advance, Note
    <3>3. kept[p] \cup {a} \in SUBSET (Facts \cup Harmless)
      BY <2>2, <2>6, <3>1
    <3>4. QED
      BY <2>2, <2>3, <2>4, <2>5, <3>1, <3>2, <3>3
  <2>19. CASE Warn(p)
    <3>1. x <= Len(s) /\ k = "keep" /\ "store" \in wrong
      BY <2>19 DEF Warn, At
    <3>2. Moved(x + 1, "none", changed[p], kept[p], done[p])
      BY <2>1, <2>2, <2>19 DEF Warn, Advance, effects
    <3>3. QED
      BY <2>2, <2>3, <2>4, <2>5, <3>1, <3>2
  <2>20. CASE WriteFails(p)
    <3>1. x <= Len(s) /\ k = "must_keep" /\ "store" \in wrong
      BY <2>20 DEF WriteFails, At
    <3>2. Moved(x, "error", changed[p], kept[p], done[p])
      BY <2>1, <2>2, <2>20 DEF WriteFails, Error, Answer, effects
    <3>3. QED
      BY <2>2, <2>3, <2>4, <2>5, <3>1, <3>2
  <2>21. CASE DoLocally(p)
    <3> DEFINE d == IF a = "preview" /\ "link" \notin wrong THEN done[p] ELSE done[p] \cup {a}
    <3>1. x <= Len(s) /\ k = "do"
      BY <2>21 DEF DoLocally, At
    <3>2. Moved(x + 1, "none", changed[p], kept[p], d)
      BY <2>1, <2>2, <2>21 DEF DoLocally, Advance, Note
    <3>3. d \in SUBSET {"preview", "forget"}
      BY <2>2, <2>6, <3>1
    <3>4. QED
      BY <2>2, <2>3, <2>4, <2>5, <3>1, <3>2, <3>3
  <2>22. CASE Succeed(p)
    <3>1. x > Len(s)
      BY <2>2, <2>22 DEF Succeed
    <3>2. Moved(x, "ok", changed[p], kept[p], done[p])
      BY <2>1, <2>2, <2>22 DEF Succeed, Answer, effects
    <3>3. R(x, "ok", changed[p], kept[p], done[p])
      <4>1. ASSUME NEW G \in SUBSET Guards, NEW c \in Turns, NEW t \in Tails(c), s \in Runs(G, c, t)
            PROVE  Result(wrong, p, G, s, c, t, x, "ok", changed[p], kept[p], done[p])
        <5>1. Result(wrong, p, G, s, c, t, x, "none", changed[p], kept[p], done[p])
          BY <2>1, <4>1, AtWork
        <5>2. QED
          BY <2>2, <3>1, <4>1, <5>1, NoStep
      <4>2. QED
        BY <4>1 DEF R
    <3>4. QED
      BY <2>2, <2>4, <3>2, <3>3
  <2>23. QED
    BY <1>2, <2>10, <2>11, <2>12, <2>13, <2>14, <2>15, <2>16, <2>17, <2>18, <2>19, <2>20, <2>21, <2>22
<1>3. QED
  BY <1>1, <1>2 DEF CommandNext

LEMMA PathInvariant == CommandSpec => []PathInv
<1>1. CommandInit => PathInv
  BY PathStart
<1>2. PathInv /\ [CommandNext]_commandVars => PathInv'
  BY PathStep
<1>3. QED
  BY <1>1, <1>2, PTL DEF CommandSpec

(* What a course is to change and to keep. *)
Named(s, c, t) ==
  /\ Has(s, "change") = Turned(c)
  /\ \A b \in Has(s, "keep") \cup Has(s, "must_keep") :
       \E i \in 1..Len(t) : t[i].what = b /\ t[i].kind \in {"keep", "must_keep"}

LEMMA HasSteps ==
  ASSUME NEW G \in SUBSET Guards, NEW c \in Turns, NEW t \in Tails(c), NEW s \in Runs(G, c, t)
  PROVE  Named(s, c, t)
<1> DEFINE n == Len(s) - Len(t)
<1>1. /\ Len(s) \in Nat /\ Len(t) \in Nat /\ s \in Seq(Step)
      /\ n \in Nat \ {0} /\ Len(s) = n + Len(t)
  BY Lengths
<1>2. \A i \in 1..Len(s) :
        \/ i < n /\ s[i] \in G \cup Slack
        \/ i = n /\ s[i] = c
        \/ i > n /\ (i - n) \in 1..Len(t) /\ s[i] = t[i - n] /\ t[i - n] \in After
  <2> TAKE i \in 1..Len(s)
  <2>1. i \in Nat \ {0} /\ i <= Len(s)
    BY <1>1
  <2>2. QED
    BY <2>1, Place
<1>3. DOMAIN s = 1..Len(s)
  BY <1>1, LenProperties
<1>4. s[n] = c /\ n \in 1..Len(s)
  <2>1. n \in 1..Len(s)
    <3> HIDE DEF n
    <3>1. QED
      BY <1>1
  <2>2. Laid(s, G, c, t)
    BY RunSteps DEF Tails
  <2>3. QED
    BY <2>1, <2>2 DEF Laid
<1> HIDE DEF n
<1>5. ASSUME NEW i \in 1..Len(s), s[i].kind = "change"
      PROVE  s[i] = c
  <2>1. s[i] \in Guards \cup Slack \/ s[i] = c \/ s[i] \in After
    BY <1>2
  <2>2. QED
    BY <1>5, <2>1, Kinds
<1>6. Has(s, "change") = Turned(c)
  <2>1. c.kind = "change" => \A b : b \in Has(s, "change") <=> b = c.what
    BY <1>3, <1>4, <1>5 DEF Has
  <2>2. c.kind # "change" => \A b : b \notin Has(s, "change")
    BY <1>3, <1>5 DEF Has
  <2>3. QED
    BY <2>1, <2>2 DEF Turned
<1>7. ASSUME NEW i \in 1..Len(s), s[i].kind \in {"keep", "must_keep"}
      PROVE  \E j \in 1..Len(t) : s[i] = t[j]
  <2>1. s[i] \notin Guards \cup Slack /\ s[i] # c
    BY <1>7, Kinds
  <2>2. QED
    BY <1>2, <2>1
<1>8. ASSUME NEW b \in Has(s, "keep") \cup Has(s, "must_keep")
      PROVE  \E j \in 1..Len(t) : t[j].what = b /\ t[j].kind \in {"keep", "must_keep"}
  <2>1. PICK i \in 1..Len(s) : s[i].kind \in {"keep", "must_keep"} /\ s[i].what = b
    BY <1>3 DEF Has
  <2>2. QED
    BY <1>7, <2>1
<1>9. QED
  BY <1>6, <1>8 DEF Named

(* What both properties follow from. *)
LEMMA InvAnswers == PathInv => AnswersAreTrue
<1> SUFFICES ASSUME PathInv, NEW p \in Path
             PROVE  /\ told[p] = "ok" =>
                         /\ Has(Course(p), "change") \subseteq changed[p]
                         /\ {"store", "unread"} \cap wrong = {} =>
                              Has(Course(p), "keep") \cup Has(Course(p), "must_keep") \subseteq kept[p]
                    /\ told[p] = "error" =>
                         \/ changed[p] = {} \/ "unanswered" \in wrong
                         \/ "store" \in wrong /\ changed[p] \subseteq {"revocation", "chat_state"}
                    /\ (kept[p] \cap Has(Course(p), "change")) \subseteq changed[p]
  BY DEF AnswersAreTrue
<1>1. Formed
  BY DEF PathInv
<1>2. PICK G \in SUBSET Guards, c \in Turns : \E t \in Tails(c) : Course(p) \in Runs(G, c, t)
  BY <1>1, Courses
<1>3. PICK t \in Tails(c) : Course(p) \in Runs(G, c, t)
  BY <1>2
<1> DEFINE s == Course(p)
<1>4. Result(wrong, p, G, s, c, t, next[p], told[p], changed[p], kept[p], done[p])
  BY <1>3 DEF PathInv, Outcome
<1>5. /\ Has(s, "change") = Turned(c)
      /\ \A b \in Has(s, "keep") \cup Has(s, "must_keep") :
           \E i \in 1..Len(t) : t[i].what = b /\ t[i].kind \in {"keep", "must_keep"}
  <2>1. Named(s, c, t)
    BY <1>3, HasSteps
  <2>2. QED
    BY <2>1 DEF Named
<1>6. t \in Seq(After) /\ Len(t) \in Nat
  BY <1>3, Lengths
<1>7. told[p] \in {"none", "ok", "error"}
  BY <1>1 DEF Formed
<1> HIDE DEF s
<1>8. CASE told[p] = "none"
  <2>1. kept[p] = {} \/ changed[p] = Turned(c)
    BY <1>4, <1>8 DEF Result, Preparing, Still, Past, Going
  <2>2. QED
    BY <1>5, <1>8, <2>1 DEF s
<1>9. CASE told[p] = "error"
  <2>1. Failed(wrong, p, G, c, t, changed[p], kept[p], done[p])
    BY <1>4, <1>9 DEF Result
  <2>2. kept[p] = {}
    BY <2>1 DEF Failed, Still, Turning
  <2>3. CASE changed[p] = {}
    BY <1>9, <2>2, <2>3
  <2>4. CASE Lost(wrong, c)
    BY <1>9, <2>2, <2>4 DEF Lost
  <2>5. CASE Unsaved(wrong, t) /\ changed[p] = Turned(c)
    <3>1. "store" \in wrong /\ \E i \in 1..Len(t) : t[i].kind = "must_keep"
      BY <2>5 DEF Unsaved
    <3>2. c.kind = "change" /\ c.what \in Harmless
      BY <3>1 DEF Tails
    <3>3. changed[p] \subseteq {"revocation", "chat_state"}
      BY <2>5, <3>2 DEF Turned, Harmless
    <3>4. QED
      BY <1>9, <2>2, <3>1, <3>3
  <2>6. QED
    BY <2>1, <2>3, <2>4, <2>5 DEF Failed, Still, Turning
<1>10. CASE told[p] = "ok"
  <2>1. /\ ~Blocked(wrong, p, G, c) /\ changed[p] = Turned(c)
        /\ kept[p] = KeptBefore(wrong, t, Len(t) + 1)
    BY <1>4, <1>10 DEF Result, Succeeded, Going
  <2>2. ASSUME {"store", "unread"} \cap wrong = {}, NEW b \in Has(s, "keep") \cup Has(s, "must_keep")
        PROVE  b \in kept[p]
    <3>1. PICK i \in 1..Len(t) : t[i].what = b /\ t[i].kind \in {"keep", "must_keep"}
      BY <1>5
    <3>2. "offline" \notin wrong
      <4>1. c.kind \in {"change", "ask"}
        BY Kinds
      <4>2. QED
        BY <2>1, <4>1 DEF Blocked, Refused
    <3>3. ~Skipped(wrong, t, i) /\ "store" \notin wrong
      BY <2>2, <3>2 DEF Skipped
    <3>4. t[i] \in After
      BY <1>6, ElementOfSeq
    <3>5. b \in Facts \cup Harmless
      BY <3>1, <3>4, Kinds
    <3>6. i < Len(t) + 1
      BY <1>6, OnlyOne
    <3>7. QED
      BY <2>1, <3>1, <3>3, <3>5, <3>6 DEF KeptBefore
  <2>3. QED
    BY <1>5, <1>10, <2>1, <2>2 DEF s
<1>11. QED
  BY <1>7, <1>8, <1>9, <1>10

LEMMA InvSame == PathInv => SameUnlessFileOrLink
<1> SUFFICES ASSUME PathInv, {"elsewhere", "link"} \cap wrong = {}, \A p \in Path : told[p] # "none"
             PROVE  /\ \A f \in {changed, kept, done} : f["direct"] = f["daemon"]
                    /\ told["direct"] = told["daemon"]
  BY DEF SameUnlessFileOrLink, Same
<1>1. Formed
  BY DEF PathInv
<1>2. command \in Table
  BY <1>1 DEF Formed
<1>3. PICK G \in SUBSET Guards, c \in Turns : \E t \in Tails(c) :
        command.direct \in Runs(G, c, t) /\ command.daemon \in Runs(G, c, t)
  BY <1>2, CoursesRun
<1>4. PICK t \in Tails(c) : command.direct \in Runs(G, c, t) /\ command.daemon \in Runs(G, c, t)
  BY <1>3
<1>5. \A p \in Path : Course(p) \in Runs(G, c, t)
  <2>1. command["direct"] = command.direct /\ command["daemon"] = command.daemon
    OBVIOUS
  <2>2. QED
    BY <1>4, <2>1 DEF Course, Path
<1>6. ASSUME NEW p \in Path
      PROVE  \/ told[p] = "error" /\ Failed(wrong, p, G, c, t, changed[p], kept[p], done[p])
             \/ told[p] = "ok" /\ Succeeded(wrong, p, G, c, t, changed[p], kept[p], done[p])
  <2>1. Result(wrong, p, G, Course(p), c, t, next[p], told[p], changed[p], kept[p], done[p])
    BY <1>5 DEF PathInv, Outcome
  <2>2. told[p] \in {"none", "ok", "error"} /\ told[p] # "none"
    BY <1>1 DEF Formed
  <2>3. QED
    BY <2>1, <2>2 DEF Result
<1>7. Blocked(wrong, "direct", G, c) <=> Blocked(wrong, "daemon", G, c)
  BY DEF Blocked, Stops
<1>8. ASSUME NEW p \in Path
      PROVE  /\ Blocked(wrong, p, G, c) =>
                  told[p] = "error" /\ changed[p] = {} /\ kept[p] = {} /\ done[p] = {}
             /\ ~Blocked(wrong, p, G, c) /\ (Lost(wrong, c) \/ Unsaved(wrong, t)) =>
                  told[p] = "error" /\ changed[p] = Turned(c) /\ kept[p] = {} /\ done[p] = {}
             /\ ~Blocked(wrong, p, G, c) /\ ~Lost(wrong, c) /\ ~Unsaved(wrong, t) =>
                  /\ told[p] = "ok" /\ changed[p] = Turned(c)
                  /\ kept[p] = KeptBefore(wrong, t, Len(t) + 1) /\ done[p] = DoneBefore(wrong, t, Len(t) + 1)
  <2>1. "link" \notin wrong
    OBVIOUS
  <2>2. QED
    BY <1>6, <2>1 DEF Failed, Succeeded, Still, Turning, Going
<1>9. "direct" \in Path /\ "daemon" \in Path
  BY DEF Path
<1>10. /\ changed["direct"] = changed["daemon"] /\ kept["direct"] = kept["daemon"]
       /\ done["direct"] = done["daemon"] /\ told["direct"] = told["daemon"]
  <2>1. CASE Blocked(wrong, "direct", G, c)
    <3>1. Blocked(wrong, "daemon", G, c)
      BY <1>7, <2>1
    <3>2. /\ told["direct"] = "error" /\ changed["direct"] = {} /\ kept["direct"] = {} /\ done["direct"] = {}
          /\ told["daemon"] = "error" /\ changed["daemon"] = {} /\ kept["daemon"] = {} /\ done["daemon"] = {}
      BY <1>8, <1>9, <2>1, <3>1
    <3>3. QED
      BY <3>2
  <2>2. CASE ~Blocked(wrong, "direct", G, c) /\ (Lost(wrong, c) \/ Unsaved(wrong, t))
    BY <1>7, <1>8, <1>9, <2>2
  <2>3. CASE ~Blocked(wrong, "direct", G, c) /\ ~Lost(wrong, c) /\ ~Unsaved(wrong, t)
    BY <1>7, <1>8, <1>9, <2>3
  <2>4. QED
    BY <2>1, <2>2, <2>3
<1>11. QED
  BY <1>10

(* The state of both paths is well-formed: what is changed, kept and done is
   what the steps of the table name. *)
THEOREM CommandTypes == CommandSpec => []Formed
<1>1. PathInv => Formed
  BY DEF PathInv
<1>2. QED
  BY PathInvariant, <1>1, PTL

(* Whatever goes wrong, and however many things: who is told that a command
   succeeded, or that it failed, may rely on it. *)
THEOREM CommandAnswers == CommandSpec => []AnswersAreTrue
BY PathInvariant, InvAnswers, PTL

(* A command has the same effects and is answered the same whether the daemon's
   handler runs it or the command itself, unless it reads a file the daemon
   knows by another name, or its text holds a link. *)
THEOREM CommandSame == CommandSpec => []SameUnlessFileOrLink
BY PathInvariant, InvSame, PTL
=============================================================================
