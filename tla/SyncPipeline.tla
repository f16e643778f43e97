---------------------------- MODULE SyncPipeline ----------------------------
(***************************************************************************)
(* App.Sync (internal/app/sync.go): the event handler that whatsmeow calls *)
(* (one goroutine per dispatcher), the bounded queue, the worker goroutine *)
(* that drains it, the main goroutine that connects, waits, reconnects and *)
(* finally stops the pipeline (finish), and the two contexts: ctx, which   *)
(* the caller or a storage limit cancels, and procCtx, which outlives it   *)
(* by a grace period so that queued events keep their name lookups.        *)
(*                                                                         *)
(* Processing an event takes time (decryption, lookups, database writes),  *)
(* so it is two steps: somebody takes the event in hand, and commits it.   *)
(***************************************************************************)
EXTENDS Naturals, Sequences, FiniteSets, Functions

CONSTANTS
  Events,          \* the events WhatsApp delivers during one Sync
  Messages,        \* those that store messages (Message, HistorySync)
  Disconnects,     \* the Disconnected events; all others go to the queue
  Dispatchers,     \* goroutines of whatsmeow that call event handlers
  Feed,            \* what each dispatcher delivers, in this order
  QueueCap,        \* capacity of the queue (4096 in the code)
  MaxMessages,     \* SyncOptions.MaxMessages; 0 means unlimited
  Once,            \* mode "once" or "bootstrap": exit when idle
  LockedDispatch,  \* whatsmeow holds its handler lock while it dispatches
  None             \* no event in hand

ASSUME PipelineAssumption ==
  /\ Messages \subseteq Events
  /\ Disconnects \subseteq Events \ Messages
  /\ None \notin Events
  /\ Feed \in [Dispatchers -> Seq(Events)]
  /\ \A d1, d2 \in Dispatchers : \A i \in DOMAIN Feed[d1], j \in DOMAIN Feed[d2] :
       Feed[d1][i] = Feed[d2][j] => d1 = d2 /\ i = j
  /\ QueueCap \in Nat \ {0}
  /\ MaxMessages \in Nat
  /\ Once \in BOOLEAN
  /\ LockedDispatch \in BOOLEAN

VARIABLES
  ctxDone,     \* ctx is cancelled
  cause,       \* who cancelled it before finish returned (history)
  procDone,    \* procCtx is cancelled: lookups fail, names are degraded
  main,        \* where the main goroutine is
  registered,  \* the handler is registered with whatsmeow
  drainReq,    \* the channel drainReq is closed
  token,       \* the channel disconnected (capacity 1) is full
  queue,       \* the event queue
  worker,      \* "run", "drain", or "exited" (workerDone is closed)
  wHand,       \* the event the worker is processing
  mHand,       \* the event main's last sweep of the queue is processing
  pos,         \* each dispatcher's next event in its Feed
  at,          \* where each dispatcher is in the handler
  hand,        \* the event each dispatcher is delivering
  log,         \* the events processed, in order (history)
  stored,      \* messagesStored
  accepted,    \* events whose handler call began before unregistration (history)
  late,        \* events whose handler call began after it (history)
  degraded     \* events processed under a cancelled procCtx (history)

ctxVars  == <<ctxDone, cause, procDone>>
mainVars == <<main, registered, drainReq, token>>
workVars == <<worker, wHand>>
dispVars == <<pos, at, hand>>
procVars == <<log, stored, degraded>>
histVars == <<accepted, late>>
vars == <<ctxVars, mainVars, queue, workVars, mHand, dispVars, procVars, histVars>>

Queued == Events \ Disconnects     \* the event types the handler enqueues

InHandler(d) == at[d] \in {"select", "inline"}   \* what handlerWG counts
-----------------------------------------------------------------------------
Init ==
  /\ ctxDone = FALSE /\ cause = "none" /\ procDone = FALSE
  /\ main = "start" /\ registered = TRUE /\ drainReq = FALSE /\ token = FALSE
  /\ queue = <<>>
  /\ worker = "run" /\ wHand = None /\ mHand = None
  /\ pos = [d \in Dispatchers |-> 1]
  /\ at = [d \in Dispatchers |-> "idle"]
  /\ hand = [d \in Dispatchers |-> None]
  /\ log = <<>> /\ stored = 0 /\ degraded = {}
  /\ accepted = {} /\ late = {}

(***************************************************************************)
(* processQueued(e) reaches its end.  A message is counted when the store  *)
(* took it; a store error, or a panic that is recovered, consumes it       *)
(* uncounted.  checkLimits follows every message.  MaxDBSize cancels the   *)
(* same way at a moment the model cannot tell from Cancel.                 *)
(***************************************************************************)
Commit(e) ==
  /\ log' = Append(log, e)
  /\ degraded' = IF procDone THEN degraded \cup {e} ELSE degraded
  /\ \/ e \in Messages /\ stored' = stored + 1
     \/ stored' = stored
  /\ LET limit == e \in Messages /\ MaxMessages > 0 /\ stored' >= MaxMessages
     IN  /\ ctxDone' = (ctxDone \/ limit)
         /\ cause' = IF limit /\ ~ctxDone THEN "limit" ELSE cause
  /\ UNCHANGED procDone
-----------------------------------------------------------------------------
(* The worker goroutine. *)

WorkerTake ==
  /\ worker \in {"run", "drain"} /\ wHand = None
  /\ queue # <<>>
  /\ wHand' = Head(queue) /\ queue' = Tail(queue)
  /\ UNCHANGED <<worker, ctxVars, mainVars, mHand, dispVars, procVars, histVars>>

WorkerCommit ==
  /\ wHand # None
  /\ Commit(wHand)
  /\ wHand' = None
  /\ UNCHANGED <<worker, mainVars, queue, mHand, dispVars, histVars>>

(* mutant: the worker stops when it finds the queue empty *)
WorkerStopIdle ==
  /\ worker = "run" /\ wHand = None
  /\ queue = <<>>
  /\ worker' = "drain"
  /\ UNCHANGED <<wHand, ctxVars, mainVars, queue, mHand, dispVars, procVars, histVars>>

(* select may pick ctx.Done or drainReq although the queue has events *)
WorkerStop ==
  /\ worker = "run" /\ wHand = None
  /\ ctxDone \/ drainReq
  /\ worker' = "drain"
  /\ UNCHANGED <<wHand, ctxVars, mainVars, queue, mHand, dispVars, procVars, histVars>>

WorkerExit ==
  /\ worker = "drain" /\ wHand = None
  /\ queue = <<>>
  /\ worker' = "exited"
  /\ UNCHANGED <<wHand, ctxVars, mainVars, queue, mHand, dispVars, procVars, histVars>>
-----------------------------------------------------------------------------
(***************************************************************************)
(* The dispatchers.  With LockedDispatch the read lock on the handler list *)
(* is held from Lookup until the handler returns, and a waiting            *)
(* RemoveEventHandler keeps new dispatches out; without it (the fake       *)
(* client of the tests) a handler that was looked up may be called after   *)
(* it was unregistered.                                                    *)
(***************************************************************************)
MayDispatch(d) ==
  /\ at[d] = "idle" /\ pos[d] <= Len(Feed[d])
  /\ LockedDispatch => main # "unregister"

Lookup(d) ==
  /\ MayDispatch(d) /\ registered
  /\ hand' = [hand EXCEPT ![d] = Feed[d][pos[d]]]
  /\ pos' = [pos EXCEPT ![d] = @ + 1]
  /\ at' = [at EXCEPT ![d] = "looked"]
  /\ UNCHANGED <<ctxVars, mainVars, queue, workVars, mHand, procVars, histVars>>

(* no handler is registered any more: the event reaches nobody *)
Miss(d) ==
  /\ MayDispatch(d) /\ ~registered
  /\ pos' = [pos EXCEPT ![d] = @ + 1]
  /\ UNCHANGED <<at, hand, ctxVars, mainVars, queue, workVars, mHand, procVars, histVars>>

Enter(d) ==
  /\ at[d] = "looked"
  /\ at' = [at EXCEPT ![d] = "select"]
  /\ LET new == {hand[d]} \cap Queued IN
       IF registered THEN accepted' = accepted \cup new /\ UNCHANGED late
                     ELSE late' = late \cup new /\ UNCHANGED accepted
  /\ UNCHANGED <<pos, hand, ctxVars, mainVars, queue, workVars, mHand, procVars>>

HandlerReturns(d) ==
  /\ at' = [at EXCEPT ![d] = "idle"]
  /\ hand' = [hand EXCEPT ![d] = None]
  /\ UNCHANGED pos

(* mutant: the handler drops when the queue is full *)
EnqueueOrDrop(d) ==
  /\ at[d] = "select" /\ hand[d] \in Queued
  /\ queue' = IF Len(queue) < QueueCap THEN Append(queue, hand[d]) ELSE queue
  /\ HandlerReturns(d)
  /\ UNCHANGED <<ctxVars, mainVars, workVars, mHand, procVars, histVars>>

(* mutant: having queued an event, the handler finds the worker gone and
   processes it itself, to be sure *)
EnqueueAndInline(d) ==
  /\ at[d] = "select" /\ hand[d] \in Queued
  /\ Len(queue) < QueueCap
  /\ queue' = Append(queue, hand[d])
  /\ IF worker = "exited" THEN at' = [at EXCEPT ![d] = "inline"] /\ UNCHANGED <<pos, hand>>
                          ELSE HandlerReturns(d)
  /\ UNCHANGED <<ctxVars, mainVars, workVars, mHand, procVars, histVars>>

Enqueue(d) ==
  /\ at[d] = "select" /\ hand[d] \in Queued
  /\ Len(queue) < QueueCap
  /\ queue' = Append(queue, hand[d])
  /\ HandlerReturns(d)
  /\ UNCHANGED <<ctxVars, mainVars, workVars, mHand, procVars, histVars>>

(* mutant: the other arm waits for drainReq instead of workerDone *)
GoInlineOnDrainReq(d) ==
  /\ at[d] = "select" /\ hand[d] \in Queued
  /\ drainReq /\ worker = "exited"
  /\ at' = [at EXCEPT ![d] = "inline"]
  /\ UNCHANGED <<pos, hand, ctxVars, mainVars, queue, workVars, mHand, procVars, histVars>>

(* the other arm of the handler's select, ready once workerDone is closed *)
GoInline(d) ==
  /\ at[d] = "select" /\ hand[d] \in Queued
  /\ worker = "exited"
  /\ at' = [at EXCEPT ![d] = "inline"]
  /\ UNCHANGED <<pos, hand, ctxVars, mainVars, queue, workVars, mHand, procVars, histVars>>

InlineCommit(d) ==
  /\ at[d] = "inline"
  /\ Commit(hand[d])
  /\ HandlerReturns(d)
  /\ UNCHANGED <<mainVars, queue, workVars, mHand, histVars>>

SignalDisconnect(d) ==
  /\ at[d] = "select" /\ hand[d] \in Disconnects
  /\ token' = TRUE
  /\ HandlerReturns(d)
  /\ UNCHANGED <<main, registered, drainReq, ctxVars, queue, workVars, mHand, procVars, histVars>>
-----------------------------------------------------------------------------
(* The main goroutine: start, wait loop, reconnect. *)

MainGoes(from, to) == main = from /\ main' = to

restOfMain == <<ctxVars, queue, workVars, mHand, dispVars, procVars, histVars>>

(* Connect, the media workers, the refreshes and AfterConnect succeed *)
StartOK ==
  /\ MainGoes("start", "loop")
  /\ UNCHANGED <<registered, drainReq, token, restOfMain>>

(* or one of them fails, and the error path runs finish as well *)
StartFails ==
  /\ MainGoes("start", "unregister")
  /\ UNCHANGED <<registered, drainReq, token, restOfMain>>

SeeCancel ==
  /\ MainGoes("loop", "unregister")
  /\ ctxDone
  /\ UNCHANGED <<registered, drainReq, token, restOfMain>>

SeeDisconnect ==
  /\ MainGoes("loop", "reconnect")
  /\ token /\ token' = FALSE
  /\ UNCHANGED <<registered, drainReq, restOfMain>>

ReconnectOK ==
  /\ MainGoes("reconnect", "loop")
  /\ UNCHANGED <<registered, drainReq, token, restOfMain>>

(* ReconnectWithBackoff gives up only when ctx is cancelled *)
ReconnectFails ==
  /\ MainGoes("reconnect", "unregister")
  /\ ctxDone
  /\ UNCHANGED <<registered, drainReq, token, restOfMain>>

(* the ticker finds no event for IdleExit; time is not modelled, so it may
   do so whenever main waits, even while the worker is slow with an event *)
IdleExit ==
  /\ Once
  /\ MainGoes("loop", "unregister")
  /\ UNCHANGED <<registered, drainReq, token, restOfMain>>
-----------------------------------------------------------------------------
(* finish: the producer first, then the worker, then a last sweep. *)

(* mutant: finish cancels ctx first *)
UnregisterCancelled ==
  /\ MainGoes("unregister", "waitHandlers")
  /\ LockedDispatch => \A d \in Dispatchers : at[d] = "idle"
  /\ registered' = FALSE /\ ctxDone' = TRUE
  /\ UNCHANGED <<drainReq, token, cause, procDone, queue, workVars, mHand, dispVars,
                 procVars, histVars>>

(* mutant: finish leaves the handler registered *)
UnregisterNothing ==
  /\ MainGoes("unregister", "waitHandlers")
  /\ LockedDispatch => \A d \in Dispatchers : at[d] = "idle"
  /\ UNCHANGED <<registered, drainReq, token, restOfMain>>

Unregister ==
  /\ MainGoes("unregister", "waitHandlers")
  /\ LockedDispatch => \A d \in Dispatchers : at[d] = "idle"
  /\ registered' = FALSE
  /\ UNCHANGED <<drainReq, token, restOfMain>>

WaitHandlers ==
  /\ MainGoes("waitHandlers", "waitWorker")
  /\ \A d \in Dispatchers : ~InHandler(d)
  /\ drainReq' = TRUE
  /\ UNCHANGED <<registered, token, restOfMain>>

WaitWorker ==
  /\ MainGoes("waitWorker", "sweep")
  /\ worker = "exited"
  /\ UNCHANGED <<registered, drainReq, token, restOfMain>>

SweepTake ==
  /\ main = "sweep" /\ mHand = None
  /\ queue # <<>>
  /\ mHand' = Head(queue) /\ queue' = Tail(queue)
  /\ UNCHANGED <<ctxVars, mainVars, workVars, dispVars, procVars, histVars>>

SweepCommit ==
  /\ mHand # None
  /\ Commit(mHand)
  /\ mHand' = None
  /\ UNCHANGED <<mainVars, queue, workVars, dispVars, histVars>>

(* mutant: no last sweep of the queue *)
ReturnUnswept ==
  /\ MainGoes("sweep", "returned")
  /\ mHand = None
  /\ ctxDone' = TRUE /\ procDone' = TRUE
  /\ UNCHANGED <<cause, registered, drainReq, token, queue, workVars, mHand,
                 dispVars, procVars, histVars>>

(* the queue is empty: limitCancel, and the deferred procCancel *)
Return ==
  /\ MainGoes("sweep", "returned")
  /\ mHand = None /\ queue = <<>>
  /\ ctxDone' = TRUE /\ procDone' = TRUE
  /\ UNCHANGED <<cause, registered, drainReq, token, queue, workVars, mHand,
                 dispVars, procVars, histVars>>
-----------------------------------------------------------------------------
(* the caller cancels, or MaxDuration runs out *)
Cancel ==
  /\ ~ctxDone
  /\ ctxDone' = TRUE /\ cause' = "external"
  /\ UNCHANGED <<procDone, mainVars, queue, workVars, mHand, dispVars, procVars, histVars>>

(* 15 seconds after ctx was cancelled *)
GraceExpires ==
  /\ ctxDone /\ ~procDone
  /\ procDone' = TRUE
  /\ UNCHANGED <<ctxDone, cause, mainVars, queue, workVars, mHand, dispVars, procVars, histVars>>

(* Sync is over and WhatsApp has nothing more to deliver *)
Over ==
  /\ main = "returned"
  /\ \A d \in Dispatchers : at[d] = "idle" /\ pos[d] > Len(Feed[d])
  /\ UNCHANGED vars

WorkerStep == WorkerTake \/ WorkerCommit \/ WorkerStop \/ WorkerExit

HandlerStep(d) == \/ Enter(d) \/ Enqueue(d) \/ GoInline(d)
                  \/ InlineCommit(d) \/ SignalDisconnect(d)

Finish == Unregister \/ WaitHandlers \/ WaitWorker \/ SweepTake \/ SweepCommit \/ Return

MainStep == StartOK \/ StartFails \/ SeeCancel \/ SeeDisconnect \/ ReconnectFails \/ Finish

Next == \/ WorkerStep
        \/ \E d \in Dispatchers : Lookup(d) \/ Miss(d) \/ HandlerStep(d)
        \/ MainStep \/ ReconnectOK \/ IdleExit
        \/ Cancel \/ GraceExpires \/ Over

Spec == Init /\ [][Next]_vars

(***************************************************************************)
(* The Go scheduler runs every goroutine that can run.  Nothing is assumed *)
(* of the network (Lookup, ReconnectOK), of the caller (Cancel) or of the  *)
(* idle timer.                                                             *)
(***************************************************************************)
Fairness == /\ WF_vars(WorkerStep)
            /\ \A d \in Dispatchers : WF_vars(HandlerStep(d))
            /\ WF_vars(MainStep)

FairSpec == Spec /\ Fairness
-----------------------------------------------------------------------------
TypeOK ==
  /\ ctxDone \in BOOLEAN /\ procDone \in BOOLEAN
  /\ cause \in {"none", "external", "limit"}
  /\ main \in {"start", "loop", "reconnect", "unregister", "waitHandlers",
               "waitWorker", "sweep", "returned"}
  /\ registered \in BOOLEAN /\ drainReq \in BOOLEAN /\ token \in BOOLEAN
  /\ queue \in Seq(Queued) /\ Len(queue) <= QueueCap
  /\ worker \in {"run", "drain", "exited"}
  /\ wHand \in Queued \cup {None} /\ mHand \in Queued \cup {None}
  /\ pos \in [Dispatchers -> Nat \ {0}]
  /\ at \in [Dispatchers -> {"idle", "looked", "select", "inline"}]
  /\ hand \in [Dispatchers -> Events \cup {None}]
  /\ \A d \in Dispatchers : /\ hand[d] = None <=> at[d] = "idle"
                            /\ at[d] = "inline" => hand[d] \in Queued
                            /\ pos[d] <= Len(Feed[d]) + 1
  /\ log \in Seq(Queued) /\ stored \in Nat
  /\ accepted \subseteq Queued /\ late \subseteq Queued /\ degraded \subseteq Queued

Processed == Range(log)

(* sync.go:428-431, "no acked event can slip in behind the drain and be
   silently dropped": when Sync returns, on any path, every event whose
   handler call began while the handler was registered has been processed,
   whoever had it in hand when the shutdown began. *)
NothingLost == main = "returned" => accepted \subseteq Processed

(* An event is processed at most once, although the worker, the handlers and
   main's sweep all take events and process them at the same time. *)
AtMostOnce == IsInjective(log)

(* The queue keeps each dispatcher's order (a chat-state update does not
   overtake the message before it) as long as ctx was not cancelled before
   finish: only then may the worker leave while the handler still enqueues. *)
DeliveredBefore(e, f) ==
  \E d \in Dispatchers : \E i, j \in DOMAIN Feed[d] :
     i < j /\ Feed[d][i] = e /\ Feed[d][j] = f

OrderUnlessCancelled ==
  cause = "none" =>
    \A f \in accepted \cap Processed, e \in accepted :
      DeliveredBefore(e, f) =>
        \E i, j \in DOMAIN log : i < j /\ log[i] = e /\ log[j] = f

(* sync.go:369-370, "Graceful exits drain with the context still live so
   enrichment stays intact": without a cancellation no accepted event is
   processed under a cancelled procCtx, although finish cancels both
   contexts at its end. *)
EnrichedUnlessCancelled == cause = "none" => accepted \cap degraded = {}

(* Sync implements the ledger: what is processed was accepted first, nothing
   is accepted or processed after the return, and Sync returns only when no
   accepted event is left. *)
Ledger == INSTANCE EventLedger WITH
            Events <- Queued, accepted <- accepted,
            done <- accepted \cap Processed, closed <- main = "returned"
LedgerSpec == Ledger!Spec

(***************************************************************************)
(* Why NothingLost and LedgerSpec hold, as an inductive invariant: which   *)
(* part of the pipeline is up in which phase of finish, where an accepted  *)
(* event can be, and that an event still ahead of its handler call is      *)
(* nowhere else.                                                           *)
(***************************************************************************)
PhaseInv ==
  /\ registered <=> main \in {"start", "loop", "reconnect", "unregister"}
  /\ main \in {"sweep", "returned"} => worker = "exited"
  /\ worker = "exited" => wHand = None
  /\ mHand # None => main = "sweep"

Handlers == {d \in Dispatchers : InHandler(d)}

Placed ==
  \A e \in accepted :
    \/ e \in Processed \cup Range(queue) \cup {wHand, mHand}
    \/ /\ main \notin {"waitWorker", "sweep", "returned"}
       /\ \E d \in Handlers : hand[d] = e

Called(d) == 1 .. IF at[d] = "looked" THEN pos[d] - 2 ELSE pos[d] - 1

CalledEvents == UNION {{Feed[d][i] : i \in Called(d)} : d \in Dispatchers}

Fresh ==
  /\ accepted \cup late \cup Processed \cup Range(queue) \subseteq CalledEvents
  /\ {wHand, mHand} \ {None} \subseteq CalledEvents
  /\ \A d \in Handlers : hand[d] \in CalledEvents
  /\ \A d \in Dispatchers :
       at[d] = "looked" => pos[d] > 1 /\ hand[d] = Feed[d][pos[d] - 1]

IInv == TypeOK /\ PhaseInv /\ Placed /\ Fresh /\ NothingLost

(* For AtMostOnce: an event is in one place at a time. *)
OnePlace ==
  /\ IsInjective(log) /\ IsInjective(queue)
  /\ Range(queue) \cap Processed = {}
  /\ \A e \in {wHand, mHand} \ {None} : e \notin Processed \cup Range(queue)
  /\ wHand = mHand => wHand = None
  /\ \A d \in Handlers : hand[d] \notin Processed \cup Range(queue) \cup {wHand, mHand}
  /\ \A c, d \in Handlers : hand[c] = hand[d] => c = d

(* For EnrichedUnlessCancelled: the contexts follow their causes until the
   return, and who is still in the handler after main's wait came late. *)
ContextInv ==
  /\ main # "returned" => (ctxDone <=> cause # "none")
  /\ procDone => ctxDone
  /\ accepted \cap late = {} /\ degraded \subseteq Processed
  /\ main \in {"waitWorker", "sweep", "returned"} =>
       \A d \in Handlers : hand[d] \in late \cup Disconnects

(* A cancelled Sync returns: a handler blocked on the full queue, the worker
   and main waiting for each other never stay that way. *)
ShutdownCompletes == ctxDone ~> main = "returned"

(* An accepted event is processed, also when nobody ever stops Sync. *)
AcceptedIsProcessed == \A e \in Queued : e \in accepted ~> e \in Processed

(* sync.go:293-294, "Chat state updates ride the same queue as messages so
   they cannot run before the message that creates their chat row".  Holds until
   ctx is cancelled, not after (README, section 5). *)
StateAfterMessage ==
  \A f \in accepted \cap Processed, e \in accepted :
    e \in Messages /\ f \notin Messages /\ DeliveredBefore(e, f) =>
      \E i, j \in DOMAIN log : i < j /\ log[i] = e /\ log[j] = f
=============================================================================
