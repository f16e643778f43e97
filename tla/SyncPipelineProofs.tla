------------------------- MODULE SyncPipelineProofs -------------------------
(***************************************************************************)
(* Theorems about SyncPipeline, for every set of events and dispatchers,   *)
(* every feed, every queue capacity and limit, both exit modes and both    *)
(* ways of dispatching.                                                    *)
(***************************************************************************)
EXTENDS SyncPipeline, TLAPS

(* What processing an event does to the types. *)
LEMMA CommitType ==
  ASSUME TypeOK, NEW e \in Queued, Commit(e)
  PROVE  /\ log' \in Seq(Queued) /\ stored' \in Nat /\ degraded' \subseteq Queued
         /\ ctxDone' \in BOOLEAN /\ procDone' \in BOOLEAN
         /\ cause' \in {"none", "external", "limit"}
<1>1. /\ log' = Append(log, e) /\ procDone' = procDone
      /\ degraded' = degraded \/ degraded' = degraded \cup {e}
      /\ stored' = stored + 1 \/ stored' = stored
  BY DEF Commit
<1>2. ctxDone' \in BOOLEAN /\ (cause' = "limit" \/ cause' = cause)
  BY DEF Commit, TypeOK
<1>3. QED  BY <1>1, <1>2 DEF TypeOK

LEMMA TypeInit == Init => TypeOK
<1>1. \A d \in Dispatchers : Len(Feed[d]) \in Nat
  BY PipelineAssumption DEF PipelineAssumption
<1>2. ASSUME NEW d \in Dispatchers PROVE 1 <= Len(Feed[d]) + 1
  BY <1>1
<1>3. <<>> \in Seq(Queued) /\ Len(<<>>) <= QueueCap
  BY PipelineAssumption DEF PipelineAssumption
<1>4. 1 \in Nat \ {0} /\ 0 \in Nat
  OBVIOUS
<1>5. ASSUME Init PROVE TypeOK
  <2>1. /\ pos \in [Dispatchers -> Nat \ {0}]
        /\ at \in [Dispatchers -> {"idle", "looked", "select", "inline"}]
        /\ hand \in [Dispatchers -> Events \cup {None}]
    BY <1>4, <1>5 DEF Init
  <2>2. ASSUME NEW d \in Dispatchers
        PROVE  /\ hand[d] = None <=> at[d] = "idle"
               /\ at[d] = "inline" => hand[d] \in Queued
               /\ pos[d] <= Len(Feed[d]) + 1
    BY <1>2, <1>5 DEF Init
  <2>3. QED  BY <1>3, <1>4, <1>5, <2>1, <2>2 DEF Init, TypeOK
<1>6. QED  BY <1>5

LEMMA TypeStep == TypeOK /\ [Next]_vars => TypeOK'
<1> SUFFICES ASSUME TypeOK, [Next]_vars PROVE TypeOK'
  OBVIOUS
<1> USE PipelineAssumption DEF PipelineAssumption, TypeOK, ctxVars, mainVars, workVars, dispVars, procVars, histVars
<1>1. CASE WorkerTake
  BY <1>1 DEF WorkerTake
<1>2. CASE WorkerCommit
  BY <1>2, CommitType DEF WorkerCommit
<1>3. CASE WorkerStop \/ WorkerExit
  BY <1>3 DEF WorkerStop, WorkerExit
<1>4. ASSUME NEW d \in Dispatchers, Lookup(d) PROVE TypeOK'
  <2>1. Feed[d][pos[d]] \in Events
    BY <1>4 DEF Lookup, MayDispatch
  <2>2. QED  BY <1>4, <2>1 DEF Lookup, MayDispatch
<1>5. ASSUME NEW d \in Dispatchers, Miss(d) PROVE TypeOK'
  <2>1. Len(Feed[d]) \in Nat
    OBVIOUS
  <2>2. QED  BY <1>5, <2>1 DEF Miss, MayDispatch
<1>6. ASSUME NEW d \in Dispatchers, Enter(d) PROVE TypeOK'
  BY <1>6 DEF Enter, Queued
<1>7. ASSUME NEW d \in Dispatchers, Enqueue(d) PROVE TypeOK'
  BY <1>7 DEF Enqueue, HandlerReturns
<1>8. ASSUME NEW d \in Dispatchers, GoInline(d) PROVE TypeOK'
  BY <1>8 DEF GoInline
<1>9. ASSUME NEW d \in Dispatchers, InlineCommit(d) PROVE TypeOK'
  BY <1>9, CommitType DEF InlineCommit, HandlerReturns
<1>10. ASSUME NEW d \in Dispatchers, SignalDisconnect(d) PROVE TypeOK'
  BY <1>10 DEF SignalDisconnect, HandlerReturns
<1>11. ASSUME StartOK \/ StartFails \/ SeeCancel \/ SeeDisconnect \/ ReconnectFails
              \/ ReconnectOK \/ IdleExit \/ Unregister \/ WaitHandlers \/ WaitWorker
       PROVE  TypeOK'
  <2>1. main' \in {"loop", "reconnect", "unregister", "waitHandlers", "waitWorker", "sweep"}
    BY <1>11 DEF StartOK, StartFails, SeeCancel, SeeDisconnect, ReconnectFails,
                 ReconnectOK, IdleExit, Unregister, WaitHandlers, WaitWorker, MainGoes
  <2>2. registered' \in BOOLEAN /\ drainReq' \in BOOLEAN /\ token' \in BOOLEAN
    BY <1>11 DEF StartOK, StartFails, SeeCancel, SeeDisconnect, ReconnectFails,
                 ReconnectOK, IdleExit, Unregister, WaitHandlers, WaitWorker
  <2>3. UNCHANGED restOfMain
    BY <1>11 DEF StartOK, StartFails, SeeCancel, SeeDisconnect, ReconnectFails,
                 ReconnectOK, IdleExit, Unregister, WaitHandlers, WaitWorker
  <2>4. QED  BY <2>1, <2>2, <2>3 DEF restOfMain
<1>12. CASE Return
  BY <1>12 DEF Return, MainGoes
<1>13. CASE SweepTake
  BY <1>13 DEF SweepTake
<1>14. CASE SweepCommit
  BY <1>14, CommitType DEF SweepCommit
<1>15. CASE Cancel
  BY <1>15 DEF Cancel
<1>16. CASE GraceExpires
  BY <1>16 DEF GraceExpires
<1>17. CASE Over \/ UNCHANGED vars
  BY <1>17 DEF Over, vars
<1>18. QED
  BY <1>1, <1>2, <1>3, <1>4, <1>5, <1>6, <1>7, <1>8, <1>9, <1>10, <1>11, <1>12,
     <1>13, <1>14, <1>15, <1>16, <1>17
     DEF Next, WorkerStep, HandlerStep, MainStep, Finish

(* Every reachable state is well typed. *)
THEOREM TypeCorrect == Spec => []TypeOK
  BY TypeInit, TypeStep, PTL DEF Spec
-----------------------------------------------------------------------------
(* The elements of a sequence that grows at its end or loses its head. *)
LEMMA RangeAppend ==
  ASSUME NEW S, NEW s \in Seq(S), NEW e \in S
  PROVE  Range(Append(s, e)) = Range(s) \cup {e}
<1>1. /\ DOMAIN s = 1 .. Len(s) /\ DOMAIN Append(s, e) = 1 .. Len(s) + 1
      /\ Append(s, e)[Len(s) + 1] = e
      /\ \A i \in 1 .. Len(s) : Append(s, e)[i] = s[i]
      /\ Len(s) \in Nat
  OBVIOUS
<1>2. 1 .. Len(s) + 1 = (1 .. Len(s)) \cup {Len(s) + 1}
  BY <1>1
<1>3. QED  BY <1>1, <1>2 DEF Range

LEMMA RangeTail ==
  ASSUME NEW S, NEW s \in Seq(S), s # <<>>
  PROVE  Range(s) = {Head(s)} \cup Range(Tail(s))
<1>1. /\ Len(s) \in Nat \ {0} /\ Tail(s) \in Seq(S) /\ Len(Tail(s)) = Len(s) - 1
      /\ DOMAIN s = 1 .. Len(s) /\ DOMAIN Tail(s) = 1 .. Len(s) - 1
      /\ Head(s) = s[1] /\ \A i \in 1 .. Len(s) - 1 : Tail(s)[i] = s[i + 1]
  OBVIOUS
<1>2. ASSUME NEW x \in Range(s) PROVE x \in {Head(s)} \cup Range(Tail(s))
  <2>1. PICK i \in 1 .. Len(s) : x = s[i]
    BY <1>1 DEF Range
  <2>2. CASE i = 1
    BY <1>1, <2>1, <2>2
  <2>3. CASE i # 1
    <3>1. i - 1 \in 1 .. Len(s) - 1 /\ Tail(s)[i - 1] = s[i]
      BY <1>1, <2>1, <2>3
    <3>2. QED  BY <1>1, <2>1, <3>1 DEF Range
  <2>4. QED  BY <2>2, <2>3
<1>3. ASSUME NEW x \in Range(Tail(s)) PROVE x \in Range(s)
  <2>1. PICK i \in 1 .. Len(s) - 1 : x = Tail(s)[i]
    BY <1>1, <1>3 DEF Range
  <2>2. i + 1 \in 1 .. Len(s) /\ x = s[i + 1]
    BY <1>1, <2>1
  <2>3. QED  BY <1>1, <2>2 DEF Range
<1>4. Head(s) \in Range(s)
  BY <1>1 DEF Range
<1>5. QED  BY <1>2, <1>3, <1>4

LEMMA RangeEmpty == Range(<<>>) = {}
  BY DEF Range

(* Processing an event makes it, and only it, processed. *)
LEMMA CommitProcesses ==
  ASSUME TypeOK, NEW e \in Queued, Commit(e)
  PROVE  Processed' = Processed \cup {e}
<1>1. log' = Append(log, e) /\ log \in Seq(Queued)
  BY DEF Commit, TypeOK
<1>2. QED  BY <1>1, RangeAppend DEF Processed
-----------------------------------------------------------------------------
(* Registration, the worker's exit and the sweep follow main's phase. *)
LEMMA PhaseStep == TypeOK /\ PhaseInv /\ [Next]_vars => PhaseInv'
<1> SUFFICES ASSUME TypeOK, PhaseInv, [Next]_vars PROVE PhaseInv'
  OBVIOUS
<1> USE DEF PhaseInv, mainVars, workVars
<1>1. CASE WorkerStep
  BY <1>1 DEF WorkerStep, WorkerTake, WorkerCommit, WorkerStop, WorkerExit, TypeOK
<1>2. ASSUME NEW d \in Dispatchers, Lookup(d) \/ Miss(d) \/ HandlerStep(d) PROVE PhaseInv'
  BY <1>2 DEF Lookup, Miss, HandlerStep, Enter, Enqueue, GoInline, InlineCommit, SignalDisconnect
<1>3. CASE StartOK \/ StartFails \/ SeeCancel \/ SeeDisconnect \/ ReconnectFails
           \/ ReconnectOK \/ IdleExit
  BY <1>3 DEF StartOK, StartFails, SeeCancel, SeeDisconnect, ReconnectFails,
              ReconnectOK, IdleExit, MainGoes, restOfMain
<1>4. CASE Unregister \/ WaitHandlers \/ WaitWorker
  BY <1>4 DEF Unregister, WaitHandlers, WaitWorker, MainGoes, restOfMain
<1>5. CASE SweepTake \/ SweepCommit \/ Return
  BY <1>5 DEF SweepTake, SweepCommit, Return, MainGoes
<1>6. CASE Cancel \/ GraceExpires
  BY <1>6 DEF Cancel, GraceExpires
<1>7. CASE Over \/ UNCHANGED vars
  BY <1>7 DEF Over, vars
<1>8. QED
  BY <1>1, <1>2, <1>3, <1>4, <1>5, <1>6, <1>7 DEF Next, MainStep, Finish

(***************************************************************************)
(* An accepted event moves from its handler to the queue to somebody's     *)
(* hand to the log, and never off this path; once main has waited for the  *)
(* handlers it is past the first station.                                  *)
(***************************************************************************)
LEMMA PlacedStep == TypeOK /\ PhaseInv /\ Placed /\ [Next]_vars => Placed'
<1> SUFFICES ASSUME TypeOK, PhaseInv, Placed, [Next]_vars PROVE Placed'
  OBVIOUS
<1> USE DEF mainVars, workVars, dispVars, procVars, histVars
<1>1. CASE WorkerTake
  <2>1. Range(queue) = {wHand'} \cup Range(queue') /\ wHand = None
    BY <1>1, RangeTail DEF WorkerTake, TypeOK
  <2>2. None \notin accepted
    BY PipelineAssumption DEF PipelineAssumption, TypeOK, Queued
  <2>3. UNCHANGED <<accepted, Processed, mHand, main, Handlers, hand>>
    BY <1>1 DEF WorkerTake, Processed, Handlers, InHandler
  <2>4. QED  BY <2>1, <2>2, <2>3 DEF Placed
<1>2. CASE WorkerCommit
  <2>1. Processed' = Processed \cup {wHand}
    BY <1>2, CommitProcesses DEF WorkerCommit, TypeOK
  <2>2. UNCHANGED <<accepted, queue, mHand, main, Handlers, hand>>
    BY <1>2 DEF WorkerCommit, Handlers, InHandler
  <2>3. QED  BY <2>1, <2>2 DEF Placed
<1>3. CASE WorkerStop \/ WorkerExit \/ Cancel \/ GraceExpires \/ Over \/ UNCHANGED vars
  <2>1. UNCHANGED <<accepted, Processed, queue, wHand, mHand, main, Handlers, hand>>
    BY <1>3 DEF WorkerStop, WorkerExit, Cancel, GraceExpires, Over, vars,
                Processed, Handlers, InHandler
  <2>2. QED  BY <2>1 DEF Placed
<1>4. ASSUME NEW d \in Dispatchers, Lookup(d) \/ Miss(d) \/ SignalDisconnect(d) PROVE Placed'
  <2>1. UNCHANGED <<accepted, Processed, queue, wHand, mHand, main>>
    BY <1>4 DEF Lookup, Miss, SignalDisconnect, Processed
  <2>2. ASSUME NEW e \in accepted, NEW c \in Handlers, hand[c] = e
        PROVE  c \in Handlers' /\ hand'[c] = e
    <3>1. c # d
      BY <1>4, <2>2 DEF Lookup, Miss, SignalDisconnect, MayDispatch, Handlers, InHandler,
                        TypeOK, Queued
    <3>2. at'[c] = at[c] /\ hand'[c] = hand[c]
      <4>1. c \in Dispatchers
        BY DEF Handlers
      <4>2. CASE Lookup(d)
        BY <3>1, <4>1, <4>2 DEF Lookup, TypeOK
      <4>3. CASE Miss(d)
        BY <4>3 DEF Miss
      <4>4. CASE SignalDisconnect(d)
        BY <3>1, <4>1, <4>4 DEF SignalDisconnect, HandlerReturns, TypeOK
      <4>5. QED  BY <1>4, <4>2, <4>3, <4>4
    <3>3. QED  BY <2>2, <3>2 DEF Handlers, InHandler
  <2>3. QED  BY <2>1, <2>2 DEF Placed
<1>5. ASSUME NEW d \in Dispatchers, Enter(d) PROVE Placed'
  <2>1. /\ UNCHANGED <<Processed, queue, wHand, mHand, main, hand>>
        /\ Handlers' = Handlers \cup {d}
    BY <1>5 DEF Enter, Processed, Handlers, InHandler, TypeOK
  <2>2. accepted' \subseteq accepted \cup {hand[d]} /\ (registered \/ UNCHANGED accepted)
    BY <1>5 DEF Enter
  <2>3. registered => main \notin {"waitWorker", "sweep", "returned"}
    BY DEF PhaseInv
  <2>4. QED  BY <2>1, <2>2, <2>3 DEF Placed
<1>6. ASSUME NEW d \in Dispatchers, Enqueue(d) PROVE Placed'
  <2>1. Range(queue') = Range(queue) \cup {hand[d]}
    BY <1>6, RangeAppend DEF Enqueue, TypeOK
  <2>2. UNCHANGED <<accepted, Processed, wHand, mHand, main>>
    BY <1>6 DEF Enqueue, Processed
  <2>3. \A c \in Handlers : c # d => c \in Handlers' /\ hand'[c] = hand[c]
    BY <1>6 DEF Enqueue, HandlerReturns, Handlers, InHandler, TypeOK
  <2>4. QED  BY <2>1, <2>2, <2>3 DEF Placed
<1>7. ASSUME NEW d \in Dispatchers, GoInline(d) PROVE Placed'
  <2>1. UNCHANGED <<accepted, Processed, queue, wHand, mHand, main, Handlers, hand>>
    BY <1>7 DEF GoInline, Processed, Handlers, InHandler, TypeOK
  <2>2. QED  BY <2>1 DEF Placed
<1>8. ASSUME NEW d \in Dispatchers, InlineCommit(d) PROVE Placed'
  <2>1. Processed' = Processed \cup {hand[d]}
    BY <1>8, CommitProcesses DEF InlineCommit, TypeOK
  <2>2. UNCHANGED <<accepted, queue, wHand, mHand, main>>
    BY <1>8 DEF InlineCommit
  <2>3. \A c \in Handlers : c # d => c \in Handlers' /\ hand'[c] = hand[c]
    BY <1>8 DEF InlineCommit, HandlerReturns, Handlers, InHandler, TypeOK
  <2>4. QED  BY <2>1, <2>2, <2>3 DEF Placed
<1>9. CASE MainStep \/ ReconnectOK \/ IdleExit
  <2>1. CASE StartOK \/ StartFails \/ SeeCancel \/ SeeDisconnect \/ ReconnectFails
             \/ ReconnectOK \/ IdleExit \/ Unregister
    <3>1. UNCHANGED restOfMain /\ main' \in {"loop", "reconnect", "unregister", "waitHandlers"}
      BY <2>1 DEF StartOK, StartFails, SeeCancel, SeeDisconnect, ReconnectFails,
                  ReconnectOK, IdleExit, Unregister, MainGoes
    <3>2. UNCHANGED <<accepted, Processed, queue, wHand, mHand, Handlers, hand>>
      BY <3>1 DEF restOfMain, Processed, Handlers, InHandler
    <3>3. QED  BY <3>1, <3>2 DEF Placed
  <2>2. CASE WaitHandlers
    <3>1. Handlers = {} /\ UNCHANGED <<accepted, Processed, queue, wHand, mHand>>
      BY <2>2 DEF WaitHandlers, restOfMain, Processed, Handlers
    <3>2. QED  BY <3>1 DEF Placed
  <2>3. CASE WaitWorker \/ Return
    <3>1. /\ main \in {"waitWorker", "sweep"} /\ main' \in {"sweep", "returned"}
          /\ UNCHANGED <<accepted, Processed, queue, wHand, mHand>>
      BY <2>3 DEF WaitWorker, Return, MainGoes, restOfMain, Processed
    <3>2. QED  BY <3>1 DEF Placed
  <2>4. CASE SweepTake
    <3>1. Range(queue) = {mHand'} \cup Range(queue') /\ mHand = None
      BY <2>4, RangeTail DEF SweepTake, TypeOK
    <3>2. None \notin accepted
      BY PipelineAssumption DEF PipelineAssumption, TypeOK, Queued
    <3>3. UNCHANGED <<accepted, Processed, wHand, main, Handlers, hand>>
      BY <2>4 DEF SweepTake, Processed, Handlers, InHandler
    <3>4. QED  BY <3>1, <3>2, <3>3 DEF Placed
  <2>5. CASE SweepCommit
    <3>1. Processed' = Processed \cup {mHand}
      BY <2>5, CommitProcesses DEF SweepCommit, TypeOK
    <3>2. UNCHANGED <<accepted, queue, wHand, main, Handlers, hand>>
      BY <2>5 DEF SweepCommit, Handlers, InHandler
    <3>3. QED  BY <3>1, <3>2 DEF Placed
  <2>6. QED  BY <1>9, <2>1, <2>2, <2>3, <2>4, <2>5 DEF MainStep, Finish
<1>10. QED
  BY <1>1, <1>2, <1>3, <1>4, <1>5, <1>6, <1>7, <1>8, <1>9
     DEF Next, WorkerStep, HandlerStep

(* NothingLost is established when Return finds the queue and all hands
   empty, and nothing is accepted afterwards. *)
LEMMA NothingLostStep ==
  TypeOK /\ PhaseInv /\ Placed /\ NothingLost /\ [Next]_vars => NothingLost'
<1> SUFFICES ASSUME TypeOK, PhaseInv, Placed, NothingLost, [Next]_vars,
                    main' = "returned"
             PROVE  accepted' \subseteq Processed'
  BY DEF NothingLost
<1>1. CASE Return
  <2>1. /\ main = "sweep" /\ queue = <<>> /\ mHand = None /\ wHand = None
        /\ UNCHANGED <<accepted, Processed>>
    BY <1>1 DEF Return, MainGoes, PhaseInv, Processed, procVars, histVars
  <2>2. None \notin accepted
    BY PipelineAssumption DEF PipelineAssumption, TypeOK, Queued
  <2>3. QED  BY <2>1, <2>2, RangeEmpty DEF Placed
<1>2. CASE ~Return
  <2>1. main = "returned"
    BY <1>2 DEF Next, WorkerStep, HandlerStep, MainStep, Finish, MainGoes, mainVars, vars,
                WorkerTake, WorkerCommit, WorkerStop, WorkerExit, Lookup, Miss, Enter,
                Enqueue, GoInline, InlineCommit, SignalDisconnect, StartOK, StartFails,
                SeeCancel, SeeDisconnect, ReconnectFails, ReconnectOK, IdleExit,
                Unregister, WaitHandlers, WaitWorker, SweepTake, SweepCommit,
                Cancel, GraceExpires, Over
  <2>2. accepted \subseteq Processed /\ ~registered
    BY <2>1 DEF NothingLost, PhaseInv
  <2>3. accepted' = accepted
    BY <1>2, <2>1, <2>2 DEF Next, WorkerStep, HandlerStep, MainStep, Finish, MainGoes,
                histVars, vars, restOfMain,
                WorkerTake, WorkerCommit, WorkerStop, WorkerExit, Lookup, Miss, Enter,
                Enqueue, GoInline, InlineCommit, SignalDisconnect, StartOK, StartFails,
                SeeCancel, SeeDisconnect, ReconnectFails, ReconnectOK, IdleExit,
                Unregister, WaitHandlers, WaitWorker, SweepTake, SweepCommit,
                Cancel, GraceExpires, Over
  <2>4. Processed \subseteq Processed'
    <3>1. ASSUME NEW e \in Queued, Commit(e) PROVE Processed \subseteq Processed'
      BY <3>1, CommitProcesses
    <3>2. CASE WorkerCommit
      BY <3>1, <3>2 DEF WorkerCommit, TypeOK
    <3>3. CASE SweepCommit
      BY <3>1, <3>3 DEF SweepCommit, TypeOK
    <3>4. ASSUME NEW d \in Dispatchers, InlineCommit(d) PROVE Processed \subseteq Processed'
      BY <3>1, <3>4 DEF InlineCommit, TypeOK
    <3>5. CASE UNCHANGED log
      BY <3>5 DEF Processed
    <3>6. WorkerCommit \/ SweepCommit \/ (\E d \in Dispatchers : InlineCommit(d)) \/ UNCHANGED log
      BY DEF Next, WorkerStep, HandlerStep, MainStep, Finish, procVars, vars, restOfMain,
                WorkerTake, WorkerStop, WorkerExit, Lookup, Miss, Enter,
                Enqueue, GoInline, SignalDisconnect, StartOK, StartFails,
                SeeCancel, SeeDisconnect, ReconnectFails, ReconnectOK, IdleExit,
                Unregister, WaitHandlers, WaitWorker, SweepTake, Return,
                Cancel, GraceExpires, Over
    <3>7. QED  BY <3>2, <3>3, <3>4, <3>5, <3>6
  <2>5. QED  BY <2>2, <2>3, <2>4
<1>3. QED  BY <1>1, <1>2

(* The handler, the queue, the worker's drain and main's last sweep together
   lose no event that was accepted. *)
THEOREM NothingIsLost == Spec => []NothingLost
<1>1. Init => PhaseInv /\ Placed /\ NothingLost
  BY DEF Init, PhaseInv, Placed, NothingLost
<1>2. TypeOK /\ PhaseInv /\ Placed /\ NothingLost /\ [Next]_vars
        => PhaseInv' /\ Placed' /\ NothingLost'
  BY PhaseStep, PlacedStep, NothingLostStep
<1>3. QED  BY <1>1, <1>2, TypeCorrect, PTL DEF Spec
-----------------------------------------------------------------------------
(***************************************************************************)
(* Calling a handler is the only step that makes an event known to the     *)
(* pipeline, and it is an event the pipeline did not know: the feeds name  *)
(* each event once.                                                        *)
(***************************************************************************)
LEMMA CalledGrows ==
  ASSUME TypeOK, Fresh, [Next]_vars
  PROVE  CalledEvents \subseteq CalledEvents'
<1> USE DEF dispVars
<1>1. ASSUME NEW d \in Dispatchers PROVE Called(d) \subseteq Called(d)'
  <2>1. pos[d] \in Nat \ {0}
    BY DEF TypeOK
  <2>2. CASE \E c \in Dispatchers : Lookup(c)
    BY <2>1, <2>2 DEF Called, Lookup, MayDispatch, TypeOK
  <2>3. CASE \E c \in Dispatchers : Miss(c)
    BY <2>1, <2>3 DEF Called, Miss, MayDispatch, TypeOK
  <2>4. CASE \E c \in Dispatchers : Enter(c)
    BY <2>1, <2>4 DEF Called, Enter, TypeOK
  <2>5. CASE \E c \in Dispatchers : Enqueue(c) \/ InlineCommit(c) \/ SignalDisconnect(c)
    BY <2>1, <2>5 DEF Called, Enqueue, InlineCommit, SignalDisconnect, HandlerReturns, TypeOK
  <2>6. CASE \E c \in Dispatchers : GoInline(c)
    BY <2>1, <2>6 DEF Called, GoInline, TypeOK
  <2>7. CASE UNCHANGED <<pos, at>>
    BY <2>7 DEF Called
  <2>8. QED
    BY <2>2, <2>3, <2>4, <2>5, <2>6, <2>7
       DEF Next, WorkerStep, HandlerStep, MainStep, Finish, vars, restOfMain,
           WorkerTake, WorkerCommit, WorkerStop, WorkerExit, StartOK, StartFails,
           SeeCancel, SeeDisconnect, ReconnectFails, ReconnectOK, IdleExit,
           Unregister, WaitHandlers, WaitWorker, SweepTake, SweepCommit, Return,
           Cancel, GraceExpires, Over
<1>2. QED  BY <1>1 DEF CalledEvents

LEMMA EnteredIsNew ==
  ASSUME TypeOK, Fresh, NEW d \in Dispatchers, Enter(d)
  PROVE  hand[d] \notin CalledEvents /\ hand[d] \in CalledEvents'
<1>1. /\ at[d] = "looked" /\ pos[d] \in Nat /\ pos[d] > 1
      /\ hand[d] = Feed[d][pos[d] - 1] /\ pos[d] <= Len(Feed[d]) + 1
  BY DEF Enter, Fresh, TypeOK
<1>2. DOMAIN Feed[d] = 1 .. Len(Feed[d]) /\ Len(Feed[d]) \in Nat
  BY PipelineAssumption DEF PipelineAssumption
<1>3. pos[d] - 1 \in DOMAIN Feed[d] /\ pos[d] - 1 \notin Called(d)
  BY <1>1, <1>2 DEF Called
<1>4. ASSUME NEW c \in Dispatchers, NEW i \in Called(c)
      PROVE  i \in DOMAIN Feed[c]
  <2>1. /\ DOMAIN Feed[c] = 1 .. Len(Feed[c]) /\ Len(Feed[c]) \in Nat
        /\ pos[c] \in Nat /\ pos[c] <= Len(Feed[c]) + 1
    BY PipelineAssumption DEF PipelineAssumption, TypeOK
  <2>2. QED  BY <2>1 DEF Called
<1>5. hand[d] \notin CalledEvents
  <2>1. SUFFICES ASSUME NEW c \in Dispatchers, NEW i \in Called(c), Feed[c][i] = hand[d]
                 PROVE  FALSE
    BY DEF CalledEvents
  <2>2. Feed[c][i] = Feed[d][pos[d] - 1] => c = d /\ i = pos[d] - 1
    BY <1>3, <1>4 , PipelineAssumption DEF PipelineAssumption
  <2>3. QED  BY <1>1, <1>3, <2>1, <2>2
<1>6. pos[d] - 1 \in Called(d)'
  BY <1>1 DEF Enter, Called, TypeOK
<1>7. hand[d] \in CalledEvents'
  BY <1>1, <1>6 DEF CalledEvents
<1>8. QED  BY <1>5, <1>7

LEMMA FreshStep == TypeOK /\ Fresh /\ [Next]_vars => Fresh'
<1> SUFFICES ASSUME TypeOK, Fresh, [Next]_vars PROVE Fresh'
  OBVIOUS
<1> DEFINE Known == accepted \cup late \cup Processed \cup Range(queue)
                      \cup ({wHand, mHand} \ {None}) \cup {hand[d] : d \in Handlers}
<1>1. Fresh <=> /\ Known \subseteq CalledEvents
                /\ \A d \in Dispatchers :
                     at[d] = "looked" => pos[d] > 1 /\ hand[d] = Feed[d][pos[d] - 1]
  BY DEF Fresh
<1>2. ASSUME Known' \subseteq Known, \A d \in Dispatchers :
                 at'[d] = "looked" => \/ /\ at[d] = "looked"
                                         /\ pos'[d] = pos[d] /\ hand'[d] = hand[d]
                                      \/ pos'[d] = pos[d] + 1 /\ hand'[d] = Feed[d][pos[d]]
      PROVE  Fresh'
  <2>1. Known' \subseteq CalledEvents'
    BY <1>1, <1>2, CalledGrows
  <2>2. ASSUME NEW d \in Dispatchers, at'[d] = "looked"
        PROVE  pos'[d] > 1 /\ hand'[d] = Feed[d][pos'[d] - 1]
    <3>1. pos[d] \in Nat \ {0}
      BY DEF TypeOK
    <3>2. CASE at[d] = "looked" /\ pos'[d] = pos[d] /\ hand'[d] = hand[d]
      BY <1>1, <3>2
    <3>3. CASE pos'[d] = pos[d] + 1 /\ hand'[d] = Feed[d][pos[d]]
      BY <3>1, <3>3
    <3>4. QED  BY <1>2, <2>2, <3>2, <3>3
  <2>3. QED  BY <2>1, <2>2 DEF Fresh
<1> USE DEF dispVars, workVars, procVars, histVars, mainVars
<1>3. CASE WorkerTake
  <2>1. Range(queue) = {Head(queue)} \cup Range(queue')
    BY <1>3, RangeTail DEF WorkerTake, TypeOK
  <2>2. Known' \subseteq Known
    BY <1>3, <2>1 DEF WorkerTake, Processed, Handlers, InHandler
  <2>3. QED  BY <1>2, <1>3, <2>2 DEF WorkerTake
<1>4. CASE WorkerCommit
  <2>1. wHand \in Queued /\ Processed' = Processed \cup {wHand}
    BY <1>4, CommitProcesses DEF WorkerCommit, TypeOK
  <2>2. Known' \subseteq Known
    BY <1>4, <2>1 DEF WorkerCommit, Handlers, InHandler
  <2>3. QED  BY <1>2, <1>4, <2>2 DEF WorkerCommit
<1>5. ASSUME UNCHANGED <<accepted, late, log, queue, wHand, mHand, dispVars>> PROVE Fresh'
  <2>1. Known' \subseteq Known
    BY <1>5 DEF Processed, Handlers, InHandler
  <2>2. QED  BY <1>2, <1>5, <2>1
<1>6. ASSUME NEW d \in Dispatchers, Lookup(d) PROVE Fresh'
  <2>1. Known' \subseteq Known
    BY <1>6 DEF Lookup, MayDispatch, Processed, Handlers, InHandler, TypeOK
  <2>2. QED  BY <1>2, <1>6, <2>1 DEF Lookup, TypeOK
<1>7. ASSUME NEW d \in Dispatchers, Miss(d) PROVE Fresh'
  <2>1. Known' \subseteq Known
    BY <1>7 DEF Miss, Processed, Handlers, InHandler
  <2>2. QED  BY <1>2, <1>7, <2>1 DEF Miss, MayDispatch, TypeOK
<1>8. ASSUME NEW d \in Dispatchers, Enter(d) PROVE Fresh'
  <2>1. Known' \subseteq Known \cup {hand[d]}
    BY <1>8 DEF Enter, Processed, Handlers, InHandler, TypeOK
  <2>2. Known' \subseteq CalledEvents'
    BY <1>1, <1>8, <2>1, CalledGrows, EnteredIsNew
  <2>3. \A c \in Dispatchers : at'[c] = "looked" =>
          at[c] = "looked" /\ pos'[c] = pos[c] /\ hand'[c] = hand[c]
    BY <1>8 DEF Enter, TypeOK
  <2>4. QED  BY <1>1, <2>2, <2>3 DEF Fresh
<1>9. ASSUME NEW d \in Dispatchers, Enqueue(d) PROVE Fresh'
  <2>1. Range(queue') = Range(queue) \cup {hand[d]} /\ d \in Handlers
    BY <1>9, RangeAppend DEF Enqueue, TypeOK, Handlers, InHandler
  <2>2. Known' \subseteq Known
    BY <1>9, <2>1 DEF Enqueue, HandlerReturns, Processed, Handlers, InHandler, TypeOK
  <2>3. QED  BY <1>2, <1>9, <2>2 DEF Enqueue, HandlerReturns, TypeOK
<1>10. ASSUME NEW d \in Dispatchers, GoInline(d) PROVE Fresh'
  <2>1. Known' \subseteq Known
    BY <1>10 DEF GoInline, Processed, Handlers, InHandler, TypeOK
  <2>2. QED  BY <1>2, <1>10, <2>1 DEF GoInline, TypeOK
<1>11. ASSUME NEW d \in Dispatchers, InlineCommit(d) PROVE Fresh'
  <2>1. Processed' = Processed \cup {hand[d]} /\ d \in Handlers
    BY <1>11, CommitProcesses DEF InlineCommit, TypeOK, Handlers, InHandler
  <2>2. Known' \subseteq Known
    BY <1>11, <2>1 DEF InlineCommit, HandlerReturns, Handlers, InHandler, TypeOK
  <2>3. QED  BY <1>2, <1>11, <2>2 DEF InlineCommit, HandlerReturns, TypeOK
<1>12. ASSUME NEW d \in Dispatchers, SignalDisconnect(d) PROVE Fresh'
  <2>1. Known' \subseteq Known
    BY <1>12 DEF SignalDisconnect, HandlerReturns, Processed, Handlers, InHandler, TypeOK
  <2>2. QED  BY <1>2, <1>12, <2>1 DEF SignalDisconnect, HandlerReturns, TypeOK
<1>13. CASE SweepTake
  <2>1. Range(queue) = {Head(queue)} \cup Range(queue')
    BY <1>13, RangeTail DEF SweepTake, TypeOK
  <2>2. Known' \subseteq Known
    BY <1>13, <2>1 DEF SweepTake, Processed, Handlers, InHandler
  <2>3. QED  BY <1>2, <1>13, <2>2 DEF SweepTake
<1>14. CASE SweepCommit
  <2>1. mHand \in Queued /\ Processed' = Processed \cup {mHand}
    BY <1>14, CommitProcesses DEF SweepCommit, TypeOK
  <2>2. Known' \subseteq Known
    BY <1>14, <2>1 DEF SweepCommit, Handlers, InHandler
  <2>3. QED  BY <1>2, <1>14, <2>2 DEF SweepCommit
<1>15. \/ UNCHANGED <<accepted, late, log, queue, wHand, mHand, dispVars>>
       \/ WorkerTake \/ WorkerCommit \/ SweepTake \/ SweepCommit
       \/ \E d \in Dispatchers : Lookup(d) \/ Miss(d) \/ HandlerStep(d)
  BY DEF Next, WorkerStep, MainStep, Finish, vars, restOfMain,
         WorkerStop, WorkerExit, StartOK, StartFails,
         SeeCancel, SeeDisconnect, ReconnectFails, ReconnectOK, IdleExit,
         Unregister, WaitHandlers, WaitWorker, Return, Cancel, GraceExpires, Over
<1>16. QED
  BY <1>3, <1>4, <1>5, <1>6, <1>7, <1>8, <1>9, <1>10, <1>11, <1>12, <1>13, <1>14, <1>15
     DEF HandlerStep

LEMMA IInvStep == IInv /\ [Next]_vars => IInv'
<1>1. TypeOK /\ [Next]_vars => TypeOK'
  BY TypeStep
<1>2. QED  BY <1>1, PhaseStep, PlacedStep, FreshStep, NothingLostStep DEF IInv

LEMMA Inductive == Spec => []IInv
<1>1. Init => IInv
  <2> SUFFICES ASSUME Init PROVE IInv
    OBVIOUS
  <2>1. Range(log) = {} /\ Range(queue) = {} /\ Handlers = {}
    BY RangeEmpty DEF Init, Handlers, InHandler
  <2>2. PhaseInv /\ Placed /\ NothingLost
    BY DEF Init, PhaseInv, Placed, NothingLost
  <2>3. Fresh
    BY <2>1 DEF Init, Fresh, Processed
  <2>4. QED  BY <2>2, <2>3, TypeInit DEF IInv
<1>2. QED  BY <1>1, IInvStep, PTL DEF Spec
-----------------------------------------------------------------------------
(***************************************************************************)
(* Sync refines the ledger: calling a handler accepts, committing an       *)
(* accepted event processes it, Return closes, everything else stutters.   *)
(***************************************************************************)
LEMMA CommitRefines ==
  ASSUME IInv, NEW e \in Queued, Commit(e), UNCHANGED <<accepted, main>>,
         main = "returned" => e \notin accepted \ Processed
  PROVE  [Ledger!Next]_Ledger!ledger
<1>1. Processed' = Processed \cup {e}
  BY CommitProcesses DEF IInv
<1>2. CASE e \in accepted \ Processed
  <2>1. /\ ~(main = "returned") /\ e \in accepted \ (accepted \cap Processed)
        /\ (accepted \cap Processed)' = (accepted \cap Processed) \cup {e}
        /\ UNCHANGED <<accepted, main = "returned">>
    BY <1>1, <1>2
  <2>2. Ledger!Process(e)
    BY <2>1 DEF Ledger!Process
  <2>3. QED  BY <2>2 DEF Ledger!Next
<1>3. CASE e \notin accepted \ Processed
  <2>1. UNCHANGED <<accepted, accepted \cap Processed, main = "returned">>
    BY <1>1, <1>3
  <2>2. QED  BY <2>1 DEF Ledger!ledger
<1>4. QED  BY <1>2, <1>3

LEMMA StepRefines == IInv /\ [Next]_vars => [Ledger!Next]_Ledger!ledger
<1> SUFFICES ASSUME IInv, [Next]_vars PROVE [Ledger!Next]_Ledger!ledger
  OBVIOUS
<1> USE DEF mainVars, histVars
<1>1. CASE WorkerCommit
  <2>1. wHand \in Queued /\ main # "returned"
    BY <1>1 DEF WorkerCommit, IInv, TypeOK, PhaseInv
  <2>2. QED  BY <1>1, <2>1, CommitRefines DEF WorkerCommit
<1>2. CASE SweepCommit
  <2>1. mHand \in Queued /\ main # "returned"
    BY <1>2 DEF SweepCommit, IInv, TypeOK, PhaseInv
  <2>2. QED  BY <1>2, <2>1, CommitRefines DEF SweepCommit
<1>3. ASSUME NEW d \in Dispatchers, InlineCommit(d) PROVE [Ledger!Next]_Ledger!ledger
  <2>1. hand[d] \in Queued /\ (main = "returned" => accepted \subseteq Processed)
    BY <1>3 DEF InlineCommit, IInv, TypeOK, NothingLost
  <2>2. QED  BY <1>3, <2>1, CommitRefines DEF InlineCommit
<1>4. ASSUME NEW d \in Dispatchers, Enter(d) PROVE [Ledger!Next]_Ledger!ledger
  <2>1. UNCHANGED <<Processed, main = "returned">>
    BY <1>4 DEF Enter, procVars, Processed
  <2>2. hand[d] \notin accepted /\ hand[d] \notin Processed
    BY <1>4, EnteredIsNew DEF IInv, Fresh
  <2>3. CASE registered /\ hand[d] \in Queued
    <3>1. accepted' = accepted \cup {hand[d]} /\ ~(main = "returned")
      BY <1>4, <2>3 DEF Enter, IInv, PhaseInv
    <3>2. (accepted \cap Processed)' = accepted \cap Processed
      BY <2>1, <2>2, <3>1
    <3>3. Ledger!Accept(hand[d])
      BY <2>1, <2>2, <3>1, <3>2 DEF Ledger!Accept
    <3>4. QED  BY <2>3, <3>3 DEF Ledger!Next
  <2>4. CASE ~(registered /\ hand[d] \in Queued)
    <3>1. accepted' = accepted
      BY <1>4, <2>4 DEF Enter
    <3>2. QED  BY <2>1, <3>1 DEF Ledger!ledger
  <2>5. QED  BY <2>3, <2>4
<1>5. CASE Return
  <2>1. /\ main = "sweep" /\ main' = "returned" /\ UNCHANGED <<accepted, Processed>>
        /\ queue = <<>> /\ mHand = None /\ wHand = None
    BY <1>5 DEF Return, MainGoes, procVars, Processed, IInv, PhaseInv
  <2>2. None \notin accepted
    BY PipelineAssumption DEF PipelineAssumption, IInv, TypeOK, Queued
  <2>3. accepted \subseteq Processed
    BY <2>1, <2>2, RangeEmpty DEF IInv, Placed
  <2>4. Ledger!Close
    BY <2>1, <2>3 DEF Ledger!Close
  <2>5. QED  BY <2>4 DEF Ledger!Next
<1>6. ASSUME UNCHANGED <<accepted, log, main = "returned">>
      PROVE  [Ledger!Next]_Ledger!ledger
  BY <1>6 DEF Ledger!ledger, Processed
<1>7. \/ WorkerCommit \/ SweepCommit \/ Return \/ UNCHANGED <<accepted, log, main = "returned">>
      \/ \E d \in Dispatchers : Enter(d) \/ InlineCommit(d)
  BY DEF IInv, PhaseInv, Next, WorkerStep, HandlerStep, MainStep, Finish, MainGoes, vars,
         restOfMain, procVars,
         WorkerTake, WorkerStop, WorkerExit, Lookup, Miss, Enqueue, GoInline,
         SignalDisconnect, StartOK, StartFails, SeeCancel, SeeDisconnect, ReconnectFails,
         ReconnectOK, IdleExit, Unregister, WaitHandlers, WaitWorker, SweepTake,
         Cancel, GraceExpires, Over
<1>8. QED  BY <1>1, <1>2, <1>3, <1>4, <1>5, <1>6, <1>7

(* Every accepted event is processed exactly once before Sync returns. *)
THEOREM ImplementsLedger == Spec => LedgerSpec
<1>1. Init => Ledger!Init
  BY DEF Init, Ledger!Init
<1>2. QED  BY <1>1, Inductive, StepRefines, PTL DEF Spec, LedgerSpec, Ledger!Spec
-----------------------------------------------------------------------------
(* Graceful exits keep the lookups: procCtx outlives the drain. *)
LEMMA ContextStep == IInv /\ ContextInv /\ [Next]_vars => ContextInv'
<1> SUFFICES ASSUME IInv, ContextInv, [Next]_vars PROVE ContextInv'
  OBVIOUS
<1> USE DEF ctxVars, mainVars, dispVars, procVars, histVars
<1>1. ASSUME NEW e \in Queued, Commit(e), UNCHANGED <<accepted, late, main>>,
             Handlers' \subseteq Handlers, \A d \in Handlers' : hand'[d] = hand[d]
      PROVE  ContextInv'
  <2>1. Processed' = Processed \cup {e}
    BY <1>1, CommitProcesses DEF IInv
  <2>2. degraded' \subseteq degraded \cup {e}
    BY <1>1 DEF Commit
  <2>3. /\ main' # "returned" => (ctxDone' <=> cause' # "none")
        /\ procDone' => ctxDone'
    BY <1>1 DEF Commit, ContextInv, IInv, TypeOK
  <2>4. QED  BY <1>1, <2>1, <2>2, <2>3 DEF ContextInv
<1>2. CASE WorkerCommit
  BY <1>1, <1>2 DEF WorkerCommit, IInv, TypeOK, Handlers, InHandler
<1>3. CASE SweepCommit
  BY <1>1, <1>3 DEF SweepCommit, IInv, TypeOK, Handlers, InHandler
<1>4. ASSUME NEW d \in Dispatchers, InlineCommit(d) PROVE ContextInv'
  <2>1. Handlers' \subseteq Handlers /\ \A c \in Handlers' : hand'[c] = hand[c]
    BY <1>4 DEF InlineCommit, HandlerReturns, IInv, TypeOK, Handlers, InHandler
  <2>2. QED  BY <1>1, <1>4, <2>1 DEF InlineCommit, IInv, TypeOK
<1>5. ASSUME UNCHANGED <<ctxVars, accepted, late, main, log, degraded>>,
             Handlers' \subseteq Handlers, \A d \in Handlers' : hand'[d] = hand[d]
      PROVE  ContextInv'
  BY <1>5 DEF ContextInv, Processed
<1>6. CASE WorkerTake \/ WorkerStop \/ WorkerExit \/ SweepTake \/ Over \/ UNCHANGED vars
  <2>1. UNCHANGED <<ctxVars, accepted, late, main, at, hand, log, degraded>>
    BY <1>6 DEF WorkerTake, WorkerStop, WorkerExit, SweepTake, Over, vars
  <2>2. QED  BY <1>5, <2>1 DEF Handlers, InHandler
<1>7. ASSUME NEW d \in Dispatchers, Lookup(d) PROVE ContextInv'
  BY <1>5, <1>7 DEF Lookup, MayDispatch, IInv, TypeOK, Handlers, InHandler
<1>8. ASSUME NEW d \in Dispatchers, Miss(d) PROVE ContextInv'
  BY <1>5, <1>8 DEF Miss, Handlers, InHandler
<1>9. ASSUME NEW d \in Dispatchers, Enqueue(d) \/ SignalDisconnect(d) PROVE ContextInv'
  BY <1>5, <1>9 DEF Enqueue, SignalDisconnect, HandlerReturns, IInv, TypeOK, Handlers, InHandler
<1>10. ASSUME NEW d \in Dispatchers, GoInline(d) PROVE ContextInv'
  BY <1>5, <1>10 DEF GoInline, IInv, TypeOK, Handlers, InHandler
<1>11. ASSUME NEW d \in Dispatchers, Enter(d) PROVE ContextInv'
  <2>1. /\ UNCHANGED <<ctxVars, main, hand, log, degraded>> /\ Handlers' = Handlers \cup {d}
        /\ hand[d] \notin accepted \cup late
        /\ hand[d] \in Queued \cup Disconnects
    <3>1. UNCHANGED <<ctxVars, main, hand, log, degraded>> /\ Handlers' = Handlers \cup {d}
      BY <1>11 DEF Enter, IInv, TypeOK, Handlers, InHandler
    <3>2. hand[d] \notin accepted \cup late
      BY <1>11, EnteredIsNew DEF IInv, Fresh
    <3>3. hand[d] \in Queued \cup Disconnects
      BY <1>11 DEF Enter, IInv, TypeOK, Queued
    <3>4. QED  BY <3>1, <3>2, <3>3
  <2>2. \/ registered /\ accepted' \subseteq accepted \cup {hand[d]} /\ late' = late
        \/ /\ accepted' = accepted
           /\ late' = late \cup ({hand[d]} \cap Queued)
    BY <1>11 DEF Enter
  <2>3. registered => main \notin {"waitWorker", "sweep", "returned"}
    BY DEF IInv, PhaseInv
  <2>4. QED  BY <2>1, <2>2, <2>3 DEF ContextInv, Processed
<1>12. CASE StartOK \/ StartFails \/ SeeCancel \/ SeeDisconnect \/ ReconnectFails
            \/ ReconnectOK \/ IdleExit \/ Unregister \/ WaitHandlers \/ WaitWorker
  <2>1. /\ UNCHANGED <<ctxVars, accepted, late, Handlers, hand, log, degraded>>
        /\ main # "returned" /\ main' # "returned"
    BY <1>12 DEF StartOK, StartFails, SeeCancel, SeeDisconnect, ReconnectFails, ReconnectOK,
                 IdleExit, Unregister, WaitHandlers, WaitWorker, MainGoes, restOfMain,
                 Handlers, InHandler
  <2>2. \/ main' \in {"loop", "unregister", "reconnect", "waitHandlers"}
        \/ Handlers = {}
        \/ main = "waitWorker"
    BY <1>12 DEF StartOK, StartFails, SeeCancel, SeeDisconnect, ReconnectFails, ReconnectOK,
                 IdleExit, Unregister, WaitHandlers, WaitWorker, MainGoes, Handlers
  <2>3. QED  BY <2>1, <2>2 DEF ContextInv, Processed
<1>13. CASE Return
  <2>1. /\ main = "sweep" /\ main' = "returned" /\ ctxDone' = TRUE
        /\ UNCHANGED <<accepted, late, Handlers, hand, log, degraded>>
    BY <1>13 DEF Return, MainGoes, Handlers, InHandler
  <2>2. QED  BY <2>1 DEF ContextInv, Processed
<1>14. ASSUME UNCHANGED <<accepted, late, main, at, hand, log, degraded>>, ctxDone',
              cause' # "none" \/ (ctxDone /\ cause' = cause)
       PROVE  ContextInv'
  BY <1>14 DEF ContextInv, Processed, Handlers, InHandler
<1>15. CASE Cancel
  BY <1>14, <1>15 DEF Cancel
<1>16. CASE GraceExpires
  BY <1>14, <1>16 DEF GraceExpires
<1>17. QED
  BY <1>2, <1>3, <1>4, <1>6, <1>7, <1>8, <1>9, <1>10, <1>11, <1>12, <1>13, <1>15, <1>16
     DEF Next, WorkerStep, HandlerStep, MainStep, Finish

LEMMA CommitCause ==
  ASSUME TypeOK, NEW e \in Queued, Commit(e), cause' = "none"
  PROVE  /\ cause = "none"
         /\ degraded' = degraded \/ (procDone /\ degraded' = degraded \cup {e})
<1>1. cause' = "limit" \/ cause' = cause
  BY DEF Commit, TypeOK
<1>2. CASE procDone
  BY <1>1, <1>2 DEF Commit
<1>3. CASE ~procDone
  BY <1>1, <1>3 DEF Commit
<1>4. QED  BY <1>2, <1>3

LEMMA EnrichedStep ==
  IInv /\ ContextInv /\ EnrichedUnlessCancelled /\ [Next]_vars => EnrichedUnlessCancelled'
<1> SUFFICES ASSUME IInv, ContextInv, EnrichedUnlessCancelled, [Next]_vars, cause' = "none"
             PROVE  accepted' \cap degraded' = {}
  BY DEF EnrichedUnlessCancelled
<1> USE DEF mainVars, procVars, histVars, ctxVars
<1>1. ASSUME NEW e \in Queued, Commit(e), UNCHANGED accepted,
             main = "returned" => e \notin accepted
      PROVE  accepted' \cap degraded' = {}
  <2>1. cause = "none" /\ (degraded' = degraded \/ (procDone /\ degraded' = degraded \cup {e}))
    BY <1>1, CommitCause DEF IInv
  <2>2. procDone => main = "returned"
    BY <2>1 DEF ContextInv
  <2>3. QED  BY <1>1, <2>1, <2>2 DEF EnrichedUnlessCancelled
<1>2. CASE WorkerCommit
  BY <1>1, <1>2 DEF WorkerCommit, IInv, TypeOK, PhaseInv
<1>3. CASE SweepCommit
  BY <1>1, <1>3 DEF SweepCommit, IInv, TypeOK, PhaseInv
<1>4. ASSUME NEW d \in Dispatchers, InlineCommit(d) PROVE accepted' \cap degraded' = {}
  <2>1. hand[d] \in Queued /\ d \in Handlers /\ hand[d] \notin Disconnects
    BY <1>4 DEF InlineCommit, IInv, TypeOK, Handlers, InHandler, Queued
  <2>2. main = "returned" => hand[d] \notin accepted
    BY <2>1 DEF ContextInv
  <2>3. QED  BY <1>1, <1>4, <2>1, <2>2 DEF InlineCommit
<1>5. ASSUME NEW d \in Dispatchers, Enter(d) PROVE accepted' \cap degraded' = {}
  <2>1. cause = "none" /\ degraded' = degraded
    BY <1>5 DEF Enter
  <2>2. registered => ~procDone /\ main # "returned"
    BY <2>1 DEF IInv, PhaseInv, ContextInv
  <2>3. accepted' = accepted \/ (registered /\ accepted' \subseteq accepted \cup {hand[d]})
    BY <1>5 DEF Enter
  <2>4. hand[d] \notin CalledEvents
    BY <1>5, EnteredIsNew DEF IInv
  <2>5. hand[d] \notin degraded
    BY <2>4 DEF IInv, Fresh, ContextInv
  <2>6. QED  BY <2>1, <2>3, <2>5 DEF EnrichedUnlessCancelled
<1>6. CASE UNCHANGED <<accepted, degraded>>
  <2>1. ASSUME NEW e \in Queued, Commit(e) PROVE cause = "none"
    BY <2>1, CommitCause DEF IInv
  <2>2. ASSUME WorkerCommit \/ SweepCommit \/ \E d \in Dispatchers : InlineCommit(d)
        PROVE  cause = "none"
    BY <2>1, <2>2 DEF WorkerCommit, SweepCommit, InlineCommit, IInv, TypeOK
  <2>3. ASSUME ~(WorkerCommit \/ SweepCommit \/ \E d \in Dispatchers : InlineCommit(d))
        PROVE  cause = "none"
    BY <2>3 DEF Next, WorkerStep, HandlerStep, MainStep, Finish, vars, restOfMain,
           WorkerTake, WorkerStop, WorkerExit, Lookup, Miss, Enter, Enqueue,
           GoInline, SignalDisconnect, StartOK, StartFails, SeeCancel,
           SeeDisconnect, ReconnectFails, ReconnectOK, IdleExit, Unregister, WaitHandlers,
           WaitWorker, SweepTake, Return, Cancel, GraceExpires, Over
  <2>4. QED  BY <1>6, <2>2, <2>3 DEF EnrichedUnlessCancelled
<1>7. \/ WorkerCommit \/ SweepCommit \/ UNCHANGED <<accepted, degraded>>
      \/ \E d \in Dispatchers : Enter(d) \/ InlineCommit(d)
  BY DEF Next, WorkerStep, HandlerStep, MainStep, Finish, vars, restOfMain,
         WorkerTake, WorkerStop, WorkerExit, Lookup, Miss, Enqueue,
         GoInline, SignalDisconnect, StartOK, StartFails, SeeCancel,
         SeeDisconnect, ReconnectFails, ReconnectOK, IdleExit, Unregister, WaitHandlers,
         WaitWorker, SweepTake, Return, Cancel, GraceExpires, Over
<1>8. QED  BY <1>2, <1>3, <1>4, <1>5, <1>6, <1>7

(* A Sync that nobody cancelled never degraded an event it had accepted. *)
THEOREM GracefulDrainIsEnriched == Spec => []EnrichedUnlessCancelled
<1>1. Init => ContextInv /\ EnrichedUnlessCancelled
  BY DEF Init, ContextInv, EnrichedUnlessCancelled, Handlers, InHandler
<1>2. QED  BY <1>1, Inductive, ContextStep, EnrichedStep, PTL DEF Spec
-----------------------------------------------------------------------------
(* Sequences without repetition. *)
LEMMA InjectiveAppend ==
  ASSUME NEW S, NEW s \in Seq(S), NEW e \in S, IsInjective(s), e \notin Range(s)
  PROVE  IsInjective(Append(s, e))
<1>1. /\ DOMAIN s = 1 .. Len(s) /\ DOMAIN Append(s, e) = 1 .. Len(s) + 1
      /\ Append(s, e)[Len(s) + 1] = e
      /\ \A i \in 1 .. Len(s) : Append(s, e)[i] = s[i]
      /\ Len(s) \in Nat
  OBVIOUS
<1>2. \A i \in 1 .. Len(s) : s[i] # e
  BY <1>1 DEF Range
<1>3. \A i \in 1 .. Len(s) + 1 : i \in 1 .. Len(s) \/ i = Len(s) + 1
  BY <1>1
<1>4. QED  BY <1>1, <1>2, <1>3 DEF IsInjective

LEMMA InjectiveTail ==
  ASSUME NEW S, NEW s \in Seq(S), s # <<>>, IsInjective(s)
  PROVE  IsInjective(Tail(s)) /\ Head(s) \notin Range(Tail(s))
<1>1. /\ Len(s) \in Nat \ {0} /\ DOMAIN s = 1 .. Len(s) /\ DOMAIN Tail(s) = 1 .. Len(s) - 1
      /\ Head(s) = s[1] /\ \A i \in 1 .. Len(s) - 1 : Tail(s)[i] = s[i + 1]
  OBVIOUS
<1>2. \A i \in 1 .. Len(s) - 1 : i + 1 \in 1 .. Len(s) /\ i + 1 # 1 /\ 1 \in 1 .. Len(s)
  BY <1>1
<1>3. Head(s) \notin Range(Tail(s))
  BY <1>1, <1>2 DEF Range, IsInjective
<1>4. ASSUME NEW i \in 1 .. Len(s) - 1, NEW j \in 1 .. Len(s) - 1, Tail(s)[i] = Tail(s)[j]
      PROVE  i = j
  <2>1. i + 1 = j + 1
    BY <1>1, <1>2, <1>4 DEF IsInjective
  <2>2. QED  BY <2>1
<1>5. QED  BY <1>1, <1>3, <1>4 DEF IsInjective

LEMMA OnePlaceStep == IInv /\ OnePlace /\ [Next]_vars => OnePlace'
<1> SUFFICES ASSUME IInv, OnePlace, [Next]_vars PROVE OnePlace'
  OBVIOUS
<1> USE DEF mainVars, workVars, dispVars, procVars, histVars
<1>1. ASSUME NEW e \in Queued, Commit(e), UNCHANGED queue,
             e \notin Processed \cup Range(queue),
             {wHand', mHand'} \subseteq {wHand, mHand, None}, e \notin {wHand', mHand'},
             wHand' = mHand' => wHand' = None,
             Handlers' \subseteq Handlers,
             \A d \in Handlers' : hand'[d] = hand[d] /\ hand[d] # e
      PROVE  OnePlace'
  <2>1. Processed' = Processed \cup {e} /\ log' = Append(log, e) /\ log \in Seq(Queued)
    BY <1>1, CommitProcesses DEF Commit, IInv, TypeOK
  <2>2. IsInjective(log')
    BY <1>1, <2>1, InjectiveAppend DEF OnePlace, Processed
  <2>3. \A d \in Handlers : hand[d] # None
    BY DEF IInv, TypeOK, Handlers, InHandler
  <2>4. QED  BY <1>1, <2>1, <2>2, <2>3 DEF OnePlace
<1>2. CASE WorkerCommit
  <2>1. wHand \in Queued /\ wHand # None /\ UNCHANGED <<Handlers, hand, mHand, queue>> /\ wHand' = None
    BY <1>2 DEF WorkerCommit, IInv, TypeOK, Handlers, InHandler
  <2>2. Commit(wHand)
    BY <1>2 DEF WorkerCommit
  <2>3. /\ wHand \notin Processed \cup Range(queue) /\ wHand # mHand
        /\ \A d \in Handlers : hand[d] # wHand
    BY <2>1 DEF OnePlace
  <2>4. QED  BY <1>1, <2>1, <2>2, <2>3
<1>3. CASE SweepCommit
  <2>1. mHand \in Queued /\ mHand # None /\ UNCHANGED <<Handlers, hand, wHand, queue>> /\ mHand' = None
    BY <1>3 DEF SweepCommit, IInv, TypeOK, Handlers, InHandler
  <2>2. Commit(mHand)
    BY <1>3 DEF SweepCommit
  <2>3. /\ mHand \notin Processed \cup Range(queue) /\ wHand # mHand
        /\ \A d \in Handlers : hand[d] # mHand
    BY <2>1 DEF OnePlace
  <2>4. QED  BY <1>1, <2>1, <2>2, <2>3
<1>4. ASSUME NEW d \in Dispatchers, InlineCommit(d) PROVE OnePlace'
  <2>1. hand[d] \in Queued /\ d \in Handlers /\ UNCHANGED <<wHand, mHand, queue>> /\ Commit(hand[d])
    BY <1>4 DEF InlineCommit, IInv, TypeOK, Handlers, InHandler
  <2>2. Handlers' = Handlers \ {d} /\ \A c \in Handlers' : hand'[c] = hand[c]
    BY <1>4 DEF InlineCommit, HandlerReturns, IInv, TypeOK, Handlers, InHandler
  <2>3. /\ hand[d] \notin Processed \cup Range(queue) \cup {wHand, mHand}
        /\ \A c \in Handlers' : hand[c] # hand[d]
        /\ wHand = mHand => wHand = None
    BY <2>1, <2>2 DEF OnePlace
  <2>4. QED  BY <1>1, <2>1, <2>2, <2>3
<1>5. CASE WorkerTake
  <2>1. /\ Range(queue) = {Head(queue)} \cup Range(queue')
        /\ IsInjective(queue') /\ Head(queue) \notin Range(queue')
    BY <1>5, RangeTail, InjectiveTail DEF WorkerTake, IInv, TypeOK, OnePlace
  <2>2. /\ wHand = None /\ wHand' = Head(queue)
        /\ UNCHANGED <<mHand, log, Processed, Handlers, hand>>
    BY <1>5 DEF WorkerTake, Processed, Handlers, InHandler
  <2>3. \A d \in Handlers : hand[d] # None
    BY DEF IInv, TypeOK, Handlers, InHandler
  <2>4. QED  BY <2>1, <2>2, <2>3 DEF OnePlace
<1>6. CASE SweepTake
  <2>1. /\ Range(queue) = {Head(queue)} \cup Range(queue')
        /\ IsInjective(queue') /\ Head(queue) \notin Range(queue')
    BY <1>6, RangeTail, InjectiveTail DEF SweepTake, IInv, TypeOK, OnePlace
  <2>2. /\ mHand = None /\ mHand' = Head(queue) /\ wHand = None
        /\ UNCHANGED <<wHand, log, Processed, Handlers, hand>>
    BY <1>6 DEF SweepTake, Processed, Handlers, InHandler, IInv, PhaseInv
  <2>3. Head(queue) # None
    BY <1>6, PipelineAssumption DEF SweepTake, PipelineAssumption, IInv, TypeOK, Queued
  <2>4. \A d \in Handlers : hand[d] # None
    BY DEF IInv, TypeOK, Handlers, InHandler
  <2>5. QED  BY <2>1, <2>2, <2>3, <2>4 DEF OnePlace
<1>7. ASSUME NEW d \in Dispatchers, Enqueue(d) PROVE OnePlace'
  <2>1. hand[d] \in Queued /\ d \in Handlers /\ queue' = Append(queue, hand[d])
    BY <1>7 DEF Enqueue, Handlers, InHandler
  <2>2. hand[d] \notin Processed \cup Range(queue) \cup {wHand, mHand}
    BY <2>1 DEF OnePlace
  <2>3. Range(queue') = Range(queue) \cup {hand[d]} /\ IsInjective(queue')
    BY <2>1, <2>2, RangeAppend, InjectiveAppend DEF IInv, TypeOK, OnePlace
  <2>4. /\ Handlers' = Handlers \ {d} /\ \A c \in Handlers' : hand'[c] = hand[c]
        /\ UNCHANGED <<wHand, mHand, log, Processed>>
    BY <1>7 DEF Enqueue, HandlerReturns, IInv, TypeOK, Handlers, InHandler, Processed
  <2>5. QED  BY <2>1, <2>2, <2>3, <2>4 DEF OnePlace
<1>8. ASSUME NEW d \in Dispatchers, Enter(d) PROVE OnePlace'
  <2>1. /\ UNCHANGED <<queue, wHand, mHand, log, Processed, hand>>
        /\ Handlers' = Handlers \cup {d} /\ hand[d] # None /\ hand[d] \notin CalledEvents
    BY <1>8, EnteredIsNew DEF Enter, Handlers, InHandler, Processed, IInv, TypeOK
  <2>2. /\ hand[d] \notin Processed \cup Range(queue) \cup {wHand, mHand}
        /\ \A c \in Handlers : hand[c] # hand[d]
    BY <2>1 DEF IInv, Fresh
  <2>3. QED  BY <2>1, <2>2 DEF OnePlace
<1>9. ASSUME UNCHANGED <<queue, wHand, mHand, log>>, Handlers' \subseteq Handlers,
             \A d \in Handlers' : hand'[d] = hand[d]
      PROVE  OnePlace'
  BY <1>9 DEF OnePlace, Processed
<1>10. ASSUME NEW d \in Dispatchers, Lookup(d) PROVE OnePlace'
  BY <1>9, <1>10 DEF Lookup, MayDispatch, Handlers, InHandler, IInv, TypeOK
<1>11. ASSUME NEW d \in Dispatchers, Miss(d) \/ GoInline(d) PROVE OnePlace'
  BY <1>9, <1>11 DEF Miss, GoInline, Handlers, InHandler, IInv, TypeOK
<1>12. ASSUME NEW d \in Dispatchers, SignalDisconnect(d) PROVE OnePlace'
  BY <1>9, <1>12 DEF SignalDisconnect, HandlerReturns, Handlers, InHandler, IInv, TypeOK
<1>13. CASE UNCHANGED <<queue, wHand, mHand, log, at, hand>>
  BY <1>9, <1>13 DEF Handlers, InHandler
<1>14. \/ WorkerCommit \/ SweepCommit \/ WorkerTake \/ SweepTake
       \/ \E d \in Dispatchers : Lookup(d) \/ Miss(d) \/ HandlerStep(d)
       \/ UNCHANGED <<queue, wHand, mHand, log, at, hand>>
  BY DEF Next, WorkerStep, MainStep, Finish, vars, restOfMain,
         WorkerStop, WorkerExit, StartOK, StartFails, SeeCancel,
         SeeDisconnect, ReconnectFails, ReconnectOK, IdleExit, Unregister, WaitHandlers,
         WaitWorker, Return, Cancel, GraceExpires, Over
<1>15. QED
  BY <1>2, <1>3, <1>4, <1>5, <1>6, <1>7, <1>8, <1>10, <1>11, <1>12, <1>13, <1>14
     DEF HandlerStep

(* No event is processed twice. *)
THEOREM ProcessedAtMostOnce == Spec => []AtMostOnce
<1>1. Init => OnePlace
  BY RangeEmpty DEF Init, OnePlace, Processed, IsInjective, Handlers, InHandler
<1>2. OnePlace => AtMostOnce
  BY DEF OnePlace, AtMostOnce
<1>3. QED  BY <1>1, <1>2, Inductive, OnePlaceStep, PTL DEF Spec
-----------------------------------------------------------------------------
(***************************************************************************)
(* For OrderUnlessCancelled: of two events of a dispatcher the first is    *)
(* ahead of the second wherever they are, in the queue, in a hand or in    *)
(* the log.  Until somebody cancels, the worker leaves only after main has *)
(* waited for the handlers, and then no accepted event is processed        *)
(* outside the queue's order.                                              *)
(***************************************************************************)
Held == {wHand, mHand} \ {None}

Precedes(e, f) == \E i, j \in DOMAIN log : i < j /\ log[i] = e /\ log[j] = f

Ahead(e, f) ==
  /\ f \in Processed => Precedes(e, f)
  /\ f \in Held => e \in Processed
  /\ \A k \in DOMAIN queue : queue[k] = f =>
       e \in Processed \cup Held \/ \E l \in DOMAIN queue : l < k /\ queue[l] = e

Ordered == cause = "none" => \A e, f \in accepted : DeliveredBefore(e, f) => Ahead(e, f)

Stopping ==
  /\ drainReq <=> main \in {"waitWorker", "sweep", "returned"}
  /\ cause = "none" /\ worker # "run" => drainReq

Calling ==
  /\ \A d \in Handlers : pos[d] > 1 /\ hand[d] = Feed[d][pos[d] - 1]
  /\ \A d \in Dispatchers : at[d] = "inline" => worker = "exited"

LEMMA CauseStays == IInv /\ [Next]_vars /\ cause' = "none" => cause = "none"
<1> SUFFICES ASSUME IInv, [Next]_vars, cause' = "none" PROVE cause = "none"
  OBVIOUS
<1>1. ASSUME NEW e \in Queued, Commit(e) PROVE cause = "none"
  BY <1>1, CommitCause DEF IInv
<1>2. ASSUME WorkerCommit \/ SweepCommit \/ \E d \in Dispatchers : InlineCommit(d)
      PROVE  cause = "none"
  BY <1>1, <1>2 DEF WorkerCommit, SweepCommit, InlineCommit, IInv, TypeOK
<1>3. ASSUME ~(WorkerCommit \/ SweepCommit \/ \E d \in Dispatchers : InlineCommit(d))
      PROVE  cause = "none"
  BY <1>3 DEF Next, WorkerStep, HandlerStep, MainStep, Finish, vars, restOfMain, ctxVars,
         WorkerTake, WorkerStop, WorkerExit, Lookup, Miss, Enter, Enqueue,
         GoInline, SignalDisconnect, StartOK, StartFails, SeeCancel,
         SeeDisconnect, ReconnectFails, ReconnectOK, IdleExit, Unregister, WaitHandlers,
         WaitWorker, SweepTake, Return, Cancel, GraceExpires, Over
<1>4. QED  BY <1>2, <1>3

LEMMA StoppingStep == IInv /\ ContextInv /\ Stopping /\ [Next]_vars => Stopping'
<1> SUFFICES ASSUME IInv, ContextInv, Stopping, [Next]_vars PROVE Stopping'
  OBVIOUS
<1> USE DEF mainVars, workVars
<1>1. cause' = "none" => cause = "none"
  BY CauseStays
<1>2. CASE WorkerStop
  BY <1>1, <1>2 DEF WorkerStop, Stopping, ContextInv
<1>3. CASE WorkerExit
  BY <1>1, <1>3 DEF WorkerExit, Stopping
<1>4. CASE WaitHandlers
  BY <1>4 DEF WaitHandlers, MainGoes, Stopping
<1>5. CASE WaitWorker \/ Return
  BY <1>1, <1>5 DEF WaitWorker, Return, MainGoes, restOfMain, Stopping
<1>6. CASE StartOK \/ StartFails \/ SeeCancel \/ SeeDisconnect \/ ReconnectFails
           \/ ReconnectOK \/ IdleExit \/ Unregister
  <2>1. /\ main' \in {"loop", "unregister", "reconnect", "waitHandlers"}
        /\ main \in {"start", "loop", "reconnect", "unregister"}
        /\ UNCHANGED <<drainReq, worker>>
    BY <1>6 DEF StartOK, StartFails, SeeCancel, SeeDisconnect, ReconnectFails, ReconnectOK,
                IdleExit, Unregister, MainGoes, restOfMain
  <2>2. QED  BY <1>1, <2>1 DEF Stopping
<1>7. CASE UNCHANGED <<main, drainReq, worker>>
  BY <1>1, <1>7 DEF Stopping
<1>8. \/ WorkerStop \/ WorkerExit \/ MainStep \/ ReconnectOK \/ IdleExit
      \/ UNCHANGED <<main, drainReq, worker>>
  BY DEF Next, WorkerStep, HandlerStep, vars, WorkerTake, WorkerCommit, Lookup, Miss, Enter,
         Enqueue, GoInline, InlineCommit, SignalDisconnect, Cancel, GraceExpires, Over
<1>9. CASE SweepTake \/ SweepCommit
  BY <1>1, <1>9 DEF SweepTake, SweepCommit, Stopping
<1>10. QED
  BY <1>2, <1>3, <1>4, <1>5, <1>6, <1>7, <1>8, <1>9 DEF MainStep, Finish

LEMMA CallingStep == IInv /\ Calling /\ [Next]_vars => Calling'
<1> SUFFICES ASSUME IInv, Calling, [Next]_vars PROVE Calling'
  OBVIOUS
<1> USE DEF dispVars, workVars, Handlers, InHandler
<1>1. ASSUME NEW d \in Dispatchers, Enter(d) PROVE Calling'
  BY <1>1 DEF Enter, Calling, IInv, TypeOK, Fresh
<1>2. ASSUME NEW d \in Dispatchers, Lookup(d) PROVE Calling'
  BY <1>2 DEF Lookup, MayDispatch, Calling, IInv, TypeOK
<1>3. ASSUME NEW d \in Dispatchers, Miss(d) PROVE Calling'
  BY <1>3 DEF Miss, MayDispatch, Calling, IInv, TypeOK
<1>4. ASSUME NEW d \in Dispatchers, Enqueue(d) \/ InlineCommit(d) \/ SignalDisconnect(d)
      PROVE  Calling'
  BY <1>4 DEF Enqueue, InlineCommit, SignalDisconnect, HandlerReturns, Calling, IInv, TypeOK
<1>5. ASSUME NEW d \in Dispatchers, GoInline(d) PROVE Calling'
  BY <1>5 DEF GoInline, Calling, IInv, TypeOK
<1>6. CASE UNCHANGED dispVars
  <2>1. worker = "exited" => worker' = "exited"
    BY <1>6 DEF Next, WorkerStep, HandlerStep, MainStep, Finish, vars, restOfMain, workVars,
         WorkerTake, WorkerCommit, WorkerStop, WorkerExit, Lookup, Miss, Enter, Enqueue, GoInline,
         InlineCommit, SignalDisconnect, StartOK, StartFails, SeeCancel,
         SeeDisconnect, ReconnectFails, ReconnectOK, IdleExit, Unregister, WaitHandlers,
         WaitWorker, SweepTake, SweepCommit, Return, Cancel, GraceExpires, Over
  <2>2. QED  BY <1>6, <2>1 DEF Calling
<1>7. UNCHANGED dispVars \/ \E d \in Dispatchers : Lookup(d) \/ Miss(d) \/ HandlerStep(d)
  BY DEF Next, WorkerStep, MainStep, Finish, vars, restOfMain,
         WorkerTake, WorkerCommit, WorkerStop, WorkerExit, StartOK, StartFails, SeeCancel,
         SeeDisconnect, ReconnectFails, ReconnectOK, IdleExit, Unregister, WaitHandlers,
         WaitWorker, SweepTake, SweepCommit, Return, Cancel, GraceExpires, Over
<1>8. QED  BY <1>1, <1>2, <1>3, <1>4, <1>5, <1>6, <1>7 DEF HandlerStep

(* When the handler is called for an event, an earlier one of the dispatcher is
   through the handler, and a later one is not accepted. *)
LEMMA CalledInOrder ==
  ASSUME IInv, NEW d \in Dispatchers, Enter(d), NEW f \in accepted
  PROVE  ~DeliveredBefore(hand[d], f)
<1> SUFFICES ASSUME NEW c \in Dispatchers, NEW i \in DOMAIN Feed[c], NEW j \in DOMAIN Feed[c],
                    i < j, Feed[c][i] = hand[d], Feed[c][j] = f
             PROVE  FALSE
  BY DEF DeliveredBefore
<1>1. /\ pos[d] \in Nat /\ pos[d] > 1 /\ pos[d] <= Len(Feed[d]) + 1 /\ at[d] = "looked"
      /\ hand[d] = Feed[d][pos[d] - 1]
  BY DEF Enter, IInv, Fresh, TypeOK
<1>2. \A b \in Dispatchers : DOMAIN Feed[b] = 1 .. Len(Feed[b]) /\ Len(Feed[b]) \in Nat
  BY PipelineAssumption DEF PipelineAssumption
<1>3. pos[d] - 1 \in DOMAIN Feed[d]
  BY <1>1, <1>2
<1>4. c = d /\ i = pos[d] - 1
  BY <1>1, <1>3, PipelineAssumption DEF PipelineAssumption
<1>5. PICK b \in Dispatchers : \E k \in Called(b) : Feed[b][k] = f
  BY DEF IInv, Fresh, CalledEvents
<1>6. PICK k \in Called(b) : Feed[b][k] = f
  BY <1>5
<1>7. k \in DOMAIN Feed[b]
  <2>1. pos[b] \in Nat /\ pos[b] <= Len(Feed[b]) + 1
    BY DEF IInv, TypeOK
  <2>2. QED  BY <1>2, <2>1 DEF Called
<1>8. b = d /\ k = j
  BY <1>4, <1>6, <1>7, PipelineAssumption DEF PipelineAssumption
<1>9. k <= pos[d] - 2
  BY <1>1, <1>8 DEF Called
<1>10. QED  BY <1>1, <1>2, <1>4, <1>8, <1>9

LEMMA EarlierIsThrough ==
  ASSUME IInv, Calling, NEW d \in Handlers, NEW e \in accepted, DeliveredBefore(e, hand[d])
  PROVE  e \in Processed \cup Range(queue) \cup Held
<1>1. SUFFICES ASSUME NEW c \in Handlers, hand[c] = e PROVE FALSE
  <2>1. None \notin accepted
    BY PipelineAssumption DEF PipelineAssumption, IInv, TypeOK, Queued
  <2>2. QED  BY <1>1, <2>1 DEF IInv, Placed, Held
<1>2. PICK b \in Dispatchers : \E i, j \in DOMAIN Feed[b] :
        i < j /\ Feed[b][i] = e /\ Feed[b][j] = hand[d]
  BY DEF DeliveredBefore
<1>3. PICK i \in DOMAIN Feed[b], j \in DOMAIN Feed[b] :
        i < j /\ Feed[b][i] = e /\ Feed[b][j] = hand[d]
  BY <1>2
<1>4. ASSUME NEW a \in Handlers PROVE a \in Dispatchers /\ pos[a] - 1 \in DOMAIN Feed[a]
  <2>1. a \in Dispatchers /\ pos[a] \in Nat /\ pos[a] > 1 /\ pos[a] <= Len(Feed[a]) + 1
    BY DEF IInv, TypeOK, Calling, Handlers
  <2>2. DOMAIN Feed[a] = 1 .. Len(Feed[a]) /\ Len(Feed[a]) \in Nat
    BY <2>1, PipelineAssumption DEF PipelineAssumption
  <2>3. QED  BY <2>1, <2>2
<1>5. b = d /\ j = pos[d] - 1
  BY <1>3, <1>4, PipelineAssumption DEF PipelineAssumption, Calling
<1>6. c = b /\ i = pos[c] - 1
  BY <1>1, <1>3, <1>4, PipelineAssumption DEF PipelineAssumption, Calling
<1>7. DOMAIN Feed[b] = 1 .. Len(Feed[b])
  BY PipelineAssumption DEF PipelineAssumption
<1>8. QED  BY <1>3, <1>5, <1>6, <1>7

(* Processing what is in a hand, or what was not accepted, keeps the order. *)
LEMMA CommitAhead ==
  ASSUME IInv, NEW x \in Queued, Commit(x), UNCHANGED queue,
         Held' = Held \ {x} \/ (Held' = Held /\ x \notin accepted),
         NEW e \in accepted, NEW f \in accepted, Ahead(e, f), x \in Held \/ x \notin accepted
  PROVE  Ahead(e, f)'
<1>1. /\ log' = Append(log, x) /\ log \in Seq(Queued) /\ Processed' = Processed \cup {x}
  BY CommitProcesses DEF Commit, IInv, TypeOK
<1>2. /\ DOMAIN log = 1 .. Len(log) /\ DOMAIN log' = 1 .. Len(log) + 1
      /\ Len(log) \in Nat /\ log'[Len(log) + 1] = x /\ \A i \in 1 .. Len(log) : log'[i] = log[i]
  BY <1>1
<1>3. 1 .. Len(log) \subseteq 1 .. Len(log) + 1
  BY <1>2
<1>4. ASSUME f \in Processed' PROVE Precedes(e, f)'
  <2>1. CASE f \in Processed
    BY <1>2, <1>3, <2>1 DEF Ahead, Precedes
  <2>2. CASE f \notin Processed
    <3>1. f = x /\ x \in Held /\ e \in Processed
      BY <1>1, <1>4, <2>2 DEF Ahead
    <3>2. PICK i \in 1 .. Len(log) : log[i] = e
      BY <1>2, <3>1 DEF Processed, Range
    <3>3. i < Len(log) + 1 /\ Len(log) + 1 \in 1 .. Len(log) + 1 /\ i \in 1 .. Len(log) + 1
      BY <1>2
    <3>4. QED  BY <1>2, <3>1, <3>2, <3>3 DEF Precedes
  <2>3. QED  BY <2>1, <2>2
<1>5. QED  BY <1>1, <1>4 DEF Ahead

(* Taking the head of the queue in hand keeps the order. *)
LEMMA TakeAhead ==
  ASSUME IInv, queue # <<>>, queue' = Tail(queue), Held = {}, Held' = {Head(queue)}, UNCHANGED log,
         NEW e \in accepted, NEW f \in accepted, Ahead(e, f)
  PROVE  Ahead(e, f)'
<1>1. /\ queue \in Seq(Queued) /\ Len(queue) \in Nat /\ DOMAIN queue = 1 .. Len(queue)
      /\ DOMAIN queue' = 1 .. Len(queue) - 1 /\ Head(queue) = queue[1] /\ 1 \in DOMAIN queue
      /\ \A i \in 1 .. Len(queue) - 1 : queue'[i] = queue[i + 1]
  BY DEF IInv, TypeOK
<1>2. Processed' = Processed /\ (Precedes(e, f) => Precedes(e, f)')
  BY DEF Processed, Precedes
<1>3. f \in Held' => e \in Processed
  <2>1. ~ \E l \in DOMAIN queue : l < 1
    BY <1>1
  <2>2. QED  BY <1>1, <2>1 DEF Ahead
<1>4. ASSUME NEW k \in DOMAIN queue', queue'[k] = f
      PROVE  e \in Processed \cup Held' \/ \E l \in DOMAIN queue' : l < k /\ queue'[l] = e
  <2>1. k + 1 \in DOMAIN queue /\ queue[k + 1] = f
    BY <1>1, <1>4
  <2>2. CASE e \in Processed
    BY <2>2
  <2>3. ASSUME NEW l \in DOMAIN queue, l < k + 1, queue[l] = e
        PROVE  e \in Held' \/ \E m \in DOMAIN queue' : m < k /\ queue'[m] = e
    <3>1. CASE l = 1
      BY <1>1, <2>3, <3>1
    <3>2. CASE l # 1
      <4>1. l - 1 \in DOMAIN queue' /\ l - 1 < k /\ queue'[l - 1] = e
        BY <1>1, <2>3, <3>2
      <4>2. QED  BY <4>1
    <3>3. QED  BY <3>1, <3>2
  <2>4. QED  BY <2>1, <2>2, <2>3 DEF Ahead
<1>5. QED  BY <1>2, <1>3, <1>4 DEF Ahead

LEMMA OrderedStep ==
  IInv /\ ContextInv /\ Stopping /\ Calling /\ Ordered /\ [Next]_vars => Ordered'
<1> SUFFICES ASSUME IInv, ContextInv, Stopping, Calling, Ordered, [Next]_vars, cause' = "none",
                    NEW e \in accepted', NEW f \in accepted', DeliveredBefore(e, f)
             PROVE  Ahead(e, f)'
  BY DEF Ordered, DeliveredBefore
<1> USE DEF mainVars, workVars, dispVars, procVars, histVars
<1>1. e \in accepted /\ f \in accepted => Ahead(e, f)
  BY CauseStays DEF Ordered
<1>2. (wHand # None => mHand = None) /\ (mHand # None => wHand = None)
  BY DEF IInv, PhaseInv
<1>3. CASE WorkerCommit
  <2>1. wHand \in Queued /\ Commit(wHand) /\ UNCHANGED <<queue, accepted>>
        /\ Held = {wHand} /\ Held' = {}
    BY <1>2, <1>3 DEF WorkerCommit, IInv, TypeOK, Held
  <2>2. QED  BY <1>1, <2>1, CommitAhead
<1>4. CASE SweepCommit
  <2>1. mHand \in Queued /\ Commit(mHand) /\ UNCHANGED <<queue, accepted>>
        /\ Held = {mHand} /\ Held' = {}
    BY <1>2, <1>4 DEF SweepCommit, IInv, TypeOK, Held
  <2>2. QED  BY <1>1, <2>1, CommitAhead
<1>5. ASSUME NEW d \in Dispatchers, InlineCommit(d) PROVE Ahead(e, f)'
  <2>1. hand[d] \in Queued /\ d \in Handlers /\ Commit(hand[d]) /\ UNCHANGED <<queue, accepted>>
        /\ at[d] = "inline" /\ Held' = Held
    BY <1>5 DEF InlineCommit, IInv, TypeOK, Handlers, InHandler, Held
  <2>2. main \in {"waitWorker", "sweep", "returned"}
    BY <2>1, CauseStays DEF Calling, Stopping
  <2>3. hand[d] \notin accepted
    BY <2>1, <2>2 DEF ContextInv, Queued
  <2>4. QED  BY <1>1, <2>1, <2>3, CommitAhead
<1>6. CASE WorkerTake
  <2>1. queue # <<>> /\ queue' = Tail(queue) /\ UNCHANGED <<log, accepted>> /\ mHand' = mHand
        /\ wHand = None /\ wHand' = Head(queue) /\ worker # "exited"
    BY <1>6 DEF WorkerTake
  <2>2. Head(queue) # None /\ mHand = None
    BY <2>1, PipelineAssumption DEF PipelineAssumption, IInv, TypeOK, PhaseInv, Queued
  <2>3. Held = {} /\ Held' = {Head(queue)}
    BY <2>1, <2>2 DEF Held
  <2>4. QED  BY <1>1, <2>1, <2>3, TakeAhead
<1>7. CASE SweepTake
  <2>1. queue # <<>> /\ queue' = Tail(queue) /\ UNCHANGED <<log, accepted>> /\ wHand' = wHand
        /\ mHand = None /\ mHand' = Head(queue) /\ main = "sweep"
    BY <1>7 DEF SweepTake
  <2>2. Head(queue) # None /\ wHand = None
    BY <2>1, PipelineAssumption DEF PipelineAssumption, IInv, TypeOK, PhaseInv, Queued
  <2>3. Held = {} /\ Held' = {Head(queue)}
    BY <2>1, <2>2 DEF Held
  <2>4. QED  BY <1>1, <2>1, <2>3, TakeAhead
<1>8. ASSUME NEW d \in Dispatchers, Enqueue(d) PROVE Ahead(e, f)'
  <2>1. /\ hand[d] \in Queued /\ d \in Handlers /\ queue' = Append(queue, hand[d])
        /\ queue \in Seq(Queued) /\ UNCHANGED <<log, accepted, wHand, mHand>>
    BY <1>8 DEF Enqueue, Handlers, InHandler, IInv, TypeOK
  <2>2. Ahead(e, f) /\ Processed' = Processed /\ Held' = Held /\ (Precedes(e, f) => Precedes(e, f)')
    BY <1>1, <2>1 DEF Processed, Held, Precedes
  <2>3. /\ DOMAIN queue = 1 .. Len(queue) /\ DOMAIN queue' = 1 .. Len(queue) + 1
        /\ Len(queue) \in Nat /\ queue'[Len(queue) + 1] = hand[d]
        /\ \A i \in 1 .. Len(queue) : queue'[i] = queue[i]
    BY <2>1
  <2>4. ASSUME NEW k \in DOMAIN queue', queue'[k] = f
        PROVE  e \in Processed \cup Held \/ \E l \in DOMAIN queue' : l < k /\ queue'[l] = e
    <3>1. CASE k \in DOMAIN queue
      <4>1. queue[k] = f
        BY <2>3, <2>4, <3>1
      <4>2. CASE e \in Processed \cup Held
        BY <4>2
      <4>3. ASSUME NEW l \in DOMAIN queue, l < k, queue[l] = e
            PROVE  \E m \in DOMAIN queue' : m < k /\ queue'[m] = e
        <5>1. l \in DOMAIN queue' /\ queue'[l] = e
          BY <2>3, <4>3
        <5>2. QED  BY <4>3, <5>1
      <4>4. QED  BY <2>2, <3>1, <4>1, <4>2, <4>3 DEF Ahead
    <3>2. CASE k \notin DOMAIN queue
      <4>1. k = Len(queue) + 1 /\ f = hand[d]
        BY <2>3, <2>4, <3>2
      <4>2. e \in Processed \cup Range(queue) \cup Held
        BY <2>1, <4>1, EarlierIsThrough
      <4>3. CASE e \in Range(queue)
        <5>1. PICK l \in DOMAIN queue : queue[l] = e
          BY <4>3 DEF Range
        <5>2. l \in DOMAIN queue' /\ l < k /\ queue'[l] = e
          BY <2>3, <4>1, <5>1
        <5>3. QED  BY <5>2
      <4>4. QED  BY <4>2, <4>3
    <3>3. QED  BY <3>1, <3>2
  <2>5. QED  BY <2>2, <2>4 DEF Ahead
<1>9. ASSUME NEW d \in Dispatchers, Enter(d) PROVE Ahead(e, f)'
  <2>1. /\ accepted' \subseteq accepted \cup {hand[d]} /\ hand[d] \notin CalledEvents
        /\ UNCHANGED <<log, queue, wHand, mHand>>
    BY <1>9, EnteredIsNew DEF Enter, IInv
  <2>2. Ahead(e, f) => Ahead(e, f)'
    BY <2>1 DEF Ahead, Processed, Held, Precedes
  <2>3. CASE f \notin accepted
    <3>1. f \notin Processed \cup Range(queue) \cup Held
      BY <2>1, <2>3 DEF IInv, Fresh, Held
    <3>2. Ahead(e, f)
      BY <3>1 DEF Ahead, Range
    <3>3. QED  BY <2>2, <3>2
  <2>4. CASE f \in accepted
    <3>1. e \in accepted
      BY <1>9, <2>1, <2>4, CalledInOrder
    <3>2. QED  BY <1>1, <2>2, <2>4, <3>1
  <2>5. QED  BY <2>3, <2>4
<1>10. CASE UNCHANGED <<log, queue, wHand, mHand, accepted>>
  BY <1>1, <1>10 DEF Ahead, Processed, Held, Precedes
<1>11. \/ WorkerCommit \/ SweepCommit \/ WorkerTake \/ SweepTake
       \/ \E d \in Dispatchers : Enter(d) \/ Enqueue(d) \/ InlineCommit(d)
       \/ UNCHANGED <<log, queue, wHand, mHand, accepted>>
  BY DEF Next, WorkerStep, HandlerStep, MainStep, Finish, vars, restOfMain, Lookup, Miss, GoInline,
         SignalDisconnect, WorkerStop, WorkerExit, StartOK, StartFails, SeeCancel,
         SeeDisconnect, ReconnectFails, ReconnectOK, IdleExit, Unregister, WaitHandlers,
         WaitWorker, Return, Cancel, GraceExpires, Over
<1>12. QED
  BY <1>3, <1>4, <1>5, <1>6, <1>7, <1>8, <1>9, <1>10, <1>11

(* Until somebody cancels, what a dispatcher delivered first is processed first
   (sync.go:293: a chat-state update cannot overtake the message before it). *)
THEOREM OrderIsKept == Spec => []OrderUnlessCancelled
<1>1. Init => ContextInv /\ Stopping /\ Calling /\ Ordered
  BY DEF Init, ContextInv, Stopping, Calling, Ordered, Handlers, InHandler
<1>2. Ordered => OrderUnlessCancelled
  BY DEF Ordered, OrderUnlessCancelled, Ahead, Precedes
<1>3. QED
  BY <1>1, <1>2, Inductive, ContextStep, StoppingStep, CallingStep, OrderedStep, PTL DEF Spec
=============================================================================
