------------------------------ MODULE Backfill ------------------------------
(***************************************************************************)
(* history backfill: requests for messages older than the oldest one       *)
(* stored (internal/app/backfill.go), answered -- late, or never -- by the *)
(* phone with history batches.  The handler of the Sync enqueues a batch   *)
(* before the handlers of the calls hear of it, and a worker stores it     *)
(* message by message; a call waits for the cursor, the oldest message     *)
(* stored, to move.                                                        *)
(*                                                                         *)
(* One chat; its messages are 1..N from the oldest to the newest.  The     *)
(* phone lists a batch from the newest to the oldest.  With several        *)
(* callers this is the daemon; a direct backfill is one caller in a        *)
(* process of its own, whose end is Kill.                                  *)
(***************************************************************************)
EXTENDS Integers, Sequences, FiniteSetsExt, SequencesExt

CONSTANTS
  N,           \* messages of the chat
  Count,       \* messages asked for with one request
  Requests,    \* requests of one call
  Caller,      \* backfills that may run at the same time
  Unstorable,  \* messages the phone lists and processing skips
  Revocable,   \* messages that may be revoked
  MaxPending,  \* requests the phone remembers
  MaxQueued,   \* messages that may be queued when a batch comes (a bound)
  MaxFaults    \* bound on failures and kills

ASSUME BackfillAssumption ==
  /\ N \in Nat \ {0} /\ Count \in Nat \ {0} /\ Requests \in Nat \ {0}
  /\ Unstorable \subseteq 1..(N - 1) /\ Revocable \subseteq 1..N
  /\ MaxPending \in Nat \ {0} /\ MaxQueued \in Nat /\ MaxFaults \in Nat

VARIABLES
  stored, revoked,  \* rows of the chat, and those marked as revoked
  failed,           \* messages whose row could not be written (history)
  queue,            \* messages of the batches the worker has to process
  pending,          \* how many requests from each message the phone has
  answer,           \* the message whose request is being answered
  telling,          \* calls whose handler has still to hear of the answer
  at,               \* where each call is
  sent,             \* requests it has sent
  cursor,           \* the oldest message when it asked
  got,              \* the request whose answer it took, 0 when none
  grown,            \* rows were added since it last counted them
  faults

chatRows == <<stored, revoked, failed>>
phone == <<pending, answer, telling>>
calls == <<at, sent, cursor, got, grown>>
backfillVars == <<chatRows, queue, phone, calls, faults>>

Older(from) == {m \in 1..N : from - Count <= m /\ m < from}

(* how many there are *)
Size(from) == IF from <= Count THEN from - 1 ELSE Count

(* mutant: a batch is stored from its oldest message on *)
BatchOldestFirst(from) == [i \in 1..Size(from) |-> from - Size(from) - 1 + i]

Batch(from) == [i \in 1..Size(from) |-> from - i]

(* COMPLETE_AND_NO_MORE_MESSAGE_REMAIN_ON_PRIMARY *)
ReachesStart(from) == from - Count <= 1

Rows == stored \ revoked

Pending == FoldFunction(+, 0, pending)

(* mutant: ORDER BY ts DESC *)
Newest == Max(Rows)

(* GetOldestMessageInfo; there is none when every row is revoked *)
Oldest == Min(Rows)

BackfillInit ==
  /\ stored = {N} /\ revoked = {} /\ failed = {}
  /\ queue = <<>>
  /\ pending = [m \in 1..N |-> 0] /\ answer = 0 /\ telling = {}
  /\ at = [c \in Caller |-> "idle"] /\ sent = [c \in Caller |-> 0]
  /\ cursor = [c \in Caller |-> 0] /\ got = [c \in Caller |-> 0]
  /\ grown = [c \in Caller |-> FALSE]
  /\ faults = 0

Fault == faults < MaxFaults /\ faults' = faults + 1
-----------------------------------------------------------------------------
(* "start": the start of the history is reached; "none_older": no older
   messages were added; "idle": no call yet, an error, or no more requests *)
Ended == {"idle", "start", "none_older"}

Goes(c, from, to) == at[c] = from /\ at' = [at EXCEPT ![c] = to]

(* how a call ends, and what it forgets *)
Ends(c, how) ==
  /\ at' = [at EXCEPT ![c] = how]
  /\ sent' = [sent EXCEPT ![c] = 0] /\ cursor' = [cursor EXCEPT ![c] = 0]
  /\ got' = [got EXCEPT ![c] = 0] /\ grown' = [grown EXCEPT ![c] = FALSE]

(* BackfillHistory, BackfillOnConnected: the handler is added; that of the
   last call is gone when no dispatch is at it *)
Begin(c) ==
  /\ c \notin telling
  /\ at[c] \in Ended /\ at' = [at EXCEPT ![c] = "look"]
  /\ UNCHANGED <<chatRows, queue, phone, sent, cursor, got, grown, faults>>

Look(c) ==
  /\ sent[c] < Requests /\ Rows # {}
  /\ Goes(c, "look", "ask")
  /\ cursor' = [cursor EXCEPT ![c] = Oldest]
  /\ UNCHANGED <<chatRows, queue, phone, sent, got, grown, faults>>

(* all requests are sent *)
Limit(c) ==
  /\ at[c] = "look" /\ sent[c] = Requests /\ Ends(c, "idle")
  /\ UNCHANGED <<chatRows, queue, phone, faults>>

NoRows(c) ==
  /\ at[c] = "look" /\ sent[c] < Requests /\ Rows = {} /\ Ends(c, "idle")
  /\ UNCHANGED <<chatRows, queue, phone, faults>>

(* a new channel, and the request; answers to earlier ones are forgotten, and
   the phone ignores a request too many *)
Ask(c) ==
  /\ Goes(c, "ask", "wait")
  /\ sent' = [sent EXCEPT ![c] = @ + 1]
  /\ pending' = [pending EXCEPT ![cursor[c]] = IF Pending < MaxPending THEN @ + 1 ELSE @]
  /\ UNCHANGED <<chatRows, queue, answer, telling, cursor, got, grown, faults>>

AskFails(c) ==
  /\ at[c] = "ask" /\ Fault /\ Ends(c, "idle")
  /\ UNCHANGED <<chatRows, queue, phone>>

(* an answer -- to any request for the chat -- with messages, without, ... *)
Receive(c) ==
  /\ got[c] # 0 /\ Older(got[c]) # {}
  /\ Goes(c, "wait", "poll")
  /\ grown' = [grown EXCEPT ![c] = FALSE]
  /\ UNCHANGED <<chatRows, queue, phone, sent, cursor, got, faults>>

ReceiveEmpty(c) ==
  /\ at[c] = "wait" /\ got[c] # 0 /\ Older(got[c]) = {} /\ Ends(c, "idle")
  /\ UNCHANGED <<chatRows, queue, phone, faults>>

(* ... or none in time *)
Timeout(c) ==
  /\ at[c] = "wait" /\ Ends(c, "idle")
  /\ UNCHANGED <<chatRows, queue, phone, faults>>

(* its context is done *)
Cancel(c) ==
  /\ at[c] \in {"wait", "poll"} /\ Ends(c, "idle")
  /\ UNCHANGED <<chatRows, queue, phone, faults>>

Moved(c) == Rows # {} /\ Oldest # cursor[c]

(* mutant: a call asks again without looking how often it has *)
ContinueUncounted(c) ==
  /\ Moved(c) /\ ~ReachesStart(got[c])
  /\ Goes(c, "poll", "ask")
  /\ cursor' = [cursor EXCEPT ![c] = Oldest]
  /\ UNCHANGED <<chatRows, queue, phone, sent, got, grown, faults>>

(* the cursor is another message: on to the next request, or done *)
Continue(c) ==
  /\ Moved(c) /\ ~ReachesStart(got[c])
  /\ Goes(c, "poll", "look")
  /\ cursor' = [cursor EXCEPT ![c] = 0] /\ got' = [got EXCEPT ![c] = 0]
  /\ UNCHANGED <<chatRows, queue, phone, sent, grown, faults>>

(* mutant: the end of any transfer is taken for the start of the history *)
StartAnyEnd(c) ==
  /\ at[c] = "poll" /\ Moved(c) /\ Ends(c, "start")
  /\ UNCHANGED <<chatRows, queue, phone, faults>>

Start(c) ==
  /\ at[c] = "poll" /\ Moved(c) /\ ReachesStart(got[c]) /\ Ends(c, "start")
  /\ UNCHANGED <<chatRows, queue, phone, faults>>

(* mutant: the deadline is set again at every look *)
StillGrowingForever(c) ==
  /\ at[c] = "poll" /\ ~Moved(c)
  /\ grown' = [grown EXCEPT ![c] = TRUE]
  /\ UNCHANGED <<chatRows, queue, phone, at, sent, cursor, got, faults>>

(* it is not, but rows were added somewhere: the deadline is set again *)
StillGrowing(c) ==
  /\ at[c] = "poll" /\ ~Moved(c) /\ grown[c]
  /\ grown' = [grown EXCEPT ![c] = FALSE]
  /\ UNCHANGED <<chatRows, queue, phone, at, sent, cursor, got, faults>>

(* no row was added before the deadline *)
GiveUp(c) ==
  /\ at[c] = "poll" /\ ~Moved(c) /\ ~grown[c] /\ Ends(c, "none_older")
  /\ UNCHANGED <<chatRows, queue, phone, faults>>
-----------------------------------------------------------------------------
Answered(m) ==
  /\ pending[m] > 0 /\ telling = {} /\ Len(queue) <= MaxQueued
  /\ pending' = [pending EXCEPT ![m] = @ - 1]

(* the answer to a request from m is dispatched: the handler of the Sync,
   which was added first, enqueues the batch ... *)
Deliver(m) ==
  /\ Answered(m) /\ queue' = queue \o Batch(m)
  /\ telling' = {c \in Caller : at[c] \notin Ended}
  /\ answer' = IF telling' = {} THEN 0 ELSE m
  /\ UNCHANGED <<chatRows, calls, faults>>

(* ... with the conversation under an id the calls do not know ... *)
DeliverUnnamed(m) ==
  /\ Answered(m) /\ queue' = queue \o Batch(m)
  /\ UNCHANGED <<chatRows, answer, telling, calls, faults>>

(* ... and then the handlers of the calls, of which those that wait take the
   first answer that comes *)
Tell(c) ==
  /\ c \in telling /\ telling' = telling \ {c}
  /\ answer' = IF telling' = {} THEN 0 ELSE answer
  /\ got' = IF at[c] = "wait" /\ got[c] = 0 THEN [got EXCEPT ![c] = answer] ELSE got
  /\ UNCHANGED <<chatRows, queue, pending, at, sent, cursor, grown, faults>>

Lose(m) ==
  /\ pending[m] > 0 /\ Fault
  /\ pending' = [pending EXCEPT ![m] = @ - 1]
  /\ UNCHANGED <<chatRows, queue, answer, telling, calls>>

AllGrown == grown' = [c \in Caller |-> at[c] = "poll" \/ grown[c]]

(* the worker stores the next message; a revoked row stays revoked *)
Process ==
  /\ queue # <<>> /\ queue' = Tail(queue)
  /\ IF Head(queue) \in Unstorable \cup stored
     THEN UNCHANGED <<stored, grown>>
     ELSE stored' = stored \cup {Head(queue)} /\ AllGrown
  /\ UNCHANGED <<revoked, failed, phone, at, sent, cursor, got, faults>>

ProcessFails ==
  /\ queue # <<>> /\ queue' = Tail(queue) /\ Fault
  /\ failed' = failed \cup {Head(queue)}
  /\ UNCHANGED <<stored, revoked, phone, calls>>

Revoke(m) ==
  /\ m \in Rows
  /\ revoked' = revoked \cup {m}
  /\ UNCHANGED <<stored, failed, queue, phone, calls, faults>>

(* messages of other chats are stored all the time *)
OtherStored ==
  /\ AllGrown
  /\ UNCHANGED <<chatRows, queue, phone, at, sent, cursor, got, faults>>

(* the process ends without draining its queue, and another one follows *)
Kill ==
  /\ Fault
  /\ queue' = <<>> /\ telling' = {}
  /\ at' = [c \in Caller |-> "idle"] /\ sent' = [c \in Caller |-> 0]
  /\ cursor' = [c \in Caller |-> 0] /\ got' = [c \in Caller |-> 0]
  /\ grown' = [c \in Caller |-> FALSE]
  /\ answer' = 0
  /\ UNCHANGED <<chatRows, pending>>
-----------------------------------------------------------------------------
CallStep(c) ==
  \/ Look(c) \/ Limit(c) \/ NoRows(c) \/ Ask(c) \/ Receive(c) \/ ReceiveEmpty(c)
  \/ Timeout(c) \/ Continue(c) \/ Start(c) \/ StillGrowing(c) \/ GiveUp(c)

BackfillNext ==
  \/ \E c \in Caller : Begin(c) \/ CallStep(c) \/ Cancel(c) \/ AskFails(c) \/ Tell(c)
  \/ \E m \in 1..N : Deliver(m) \/ DeliverUnnamed(m) \/ Lose(m)
  \/ \E m \in Revocable : Revoke(m)
  \/ Process \/ ProcessFails \/ OtherStored \/ Kill

BackfillSpec == BackfillInit /\ [][BackfillNext]_backfillVars

(* goroutines run and timers fire; the phone need not answer, nobody has to
   ask *)
FairSpec ==
  /\ BackfillSpec
  /\ WF_backfillVars(Process)
  /\ \A c \in Caller : WF_backfillVars(CallStep(c)) /\ WF_backfillVars(Tell(c))
-----------------------------------------------------------------------------
BackfillTypeOK ==
  /\ stored \subseteq 1..N /\ revoked \subseteq stored /\ failed \subseteq 1..N
  /\ queue \in Seq(1..N)
  /\ pending \in [1..N -> Nat]
  /\ answer \in 0..N /\ telling \subseteq Caller
  /\ at \in [Caller -> Ended \cup {"look", "ask", "wait", "poll"}]
  /\ sent \in [Caller -> 0..Requests]
  /\ cursor \in [Caller -> 0..N] /\ got \in [Caller -> 0..N]
  /\ grown \in [Caller -> BOOLEAN]
  /\ faults \in 0..MaxFaults

Gone == failed \cup Unstorable

(* What is stored of the chat has no hole: below the newest message everything
   down to the oldest row is there, but for what failed -- although batches of
   several calls, some of them late, are stored while the next are asked for,
   and whatever is in the queue when the process is killed is lost.  A hole
   would never be filled, for requests start at the oldest row. *)
NoHoles == \A m \in stored, k \in 1..N : m < k => k \in stored \cup Gone

(* A call that says it has reached the start of the history is right: all of
   it is stored or about to be. *)
StartIsReached ==
  \A c \in Caller : at[c] = "start" => 1..N \subseteq stored \cup Gone \cup ToSet(queue)

(* A call that says that no older messages were added was answered with none
   that could be, if it took the answer to its own request and the worker had
   time to store it. *)
GivesUpRightly ==
  [][\A c \in Caller :
       at'[c] = "none_older" /\ at[c] # "none_older" /\ got[c] = cursor[c] /\ queue = <<>>
         => Older(got[c]) \subseteq Gone \cup revoked]_backfillVars

(* rows of other chats keep coming *)
NeverQuiet == []<><<OtherStored>>_backfillVars

(* Every call comes to an end, whether the phone answers or not, once other
   chats are silent for a while. *)
CallReturns ==
  NeverQuiet \/ \A c \in Caller : at[c] \notin Ended ~> at[c] \in Ended

(* the batch before the oldest row holds nothing that could move the cursor *)
Stuck == Rows = {} \/ (Older(Oldest) # {} /\ Older(Oldest) \subseteq Unstorable \cup revoked)

(* Whoever keeps asking gets the whole history, if the phone keeps answering and
   other chats are silent for a while, however often answers come too late or
   are lost and processes are killed: unless nothing in the next batch can be
   stored. *)
AskersGetAll ==
  ~NeverQuiet /\ (\A c \in Caller : WF_backfillVars(Begin(c))) /\ (\A m \in 1..N : WF_backfillVars(Deliver(m) \/ DeliverUnnamed(m)))
    => <>(1..N \subseteq stored \cup Gone \/ Stuck)
=============================================================================
