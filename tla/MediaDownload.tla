--------------------------- MODULE MediaDownload ---------------------------
(***************************************************************************)
(* How media get to disk: the job queue and the workers of a Sync that     *)
(* downloads (internal/app/sync.go, media.go), the media.download command  *)
(* (cmd/wacli-pro/media.go, ipc_handlers.go), the temporary file           *)
(* (internal/wa/media.go) and the row that names the file                  *)
(* (internal/store/media.go).  The process may be killed anywhere and      *)
(* started again; files and rows survive.                                  *)
(*                                                                         *)
(* The workers live under the context of the Sync: when it is cancelled    *)
(* they leave while events are still being processed and jobs queued.      *)
(***************************************************************************)
EXTENDS Naturals, Sequences, FiniteSets, SequencesExt

CONSTANTS
  Msg,        \* messages with media
  Hidden,     \* those that may be delivered under the hidden address
  Worker,     \* media workers of one Sync (4 in the code)
  Command,    \* media.download calls
  QueueCap,   \* capacity of the job queue (512 in the code)
  MaxPanics,  \* bound on workers that panic
  None        \* no message

ASSUME MediaAssumption ==
  /\ Hidden \subseteq Msg /\ None \notin Msg
  /\ Worker \cap Command = {}
  /\ QueueCap \in Nat \ {0} /\ MaxPanics \in Nat

User == Worker \cup Command
Place == {"media", "out"}     \* the media directory, or what --output names

VARIABLES
  main,       \* Sync: "connect", "run", "stop", "end", or "dead" when killed
  ctxDone,    \* its context is cancelled
  hidden,     \* those that are, while their row is under the number
  storing,    \* messages stored whose job is not queued yet
  queue,      \* mediaJobs
  row,        \* each message: "absent", "stored", or the place local_path names
  file,       \* what is at each place of each message
  temp,       \* what each user's temporary file holds
  at, job,    \* where each user is, and the message it is about
  dest,       \* the place it downloads to
  excused,    \* messages one of whose downloads failed or was dropped (history)
  panics

sync == <<main, ctxDone>>
disk == <<row, file>>
vars == <<sync, hidden, storing, queue, disk, temp, at, job, dest, excused, panics>>

Goes(u, from, to) == at[u] = from /\ at' = [at EXCEPT ![u] = to]

Exited == [w \in User |-> IF w \in Worker THEN "exited" ELSE "idle"]

Init ==
  /\ main = "connect" /\ ctxDone = FALSE
  /\ hidden \in SUBSET Hidden /\ storing = {} /\ queue = <<>>
  /\ row = [m \in Msg |-> "absent"]
  /\ file = [m \in Msg |-> [d \in Place |-> "none"]]
  /\ temp = [u \in User |-> "none"]
  /\ at = Exited /\ job = [u \in User |-> None] /\ dest = [u \in User |-> "media"]
  /\ excused = {} /\ panics = 0
-----------------------------------------------------------------------------
(* processMessage and processHistorySync: the message is stored ... *)
Store(m) ==
  /\ main \in {"connect", "run"} /\ m \notin storing
  /\ row' = [row EXCEPT ![m] = IF @ = "absent" THEN "stored" ELSE @]
  /\ storing' = storing \cup {m}
  /\ UNCHANGED <<hidden, sync, queue, file, temp, at, job, dest, excused, panics>>

(* the row could not be written: the job is queued all the same *)
StoreFails(m) ==
  /\ main \in {"connect", "run"} /\ m \notin storing
  /\ storing' = storing \cup {m} /\ excused' = excused \cup {m}
  /\ UNCHANGED <<hidden, sync, queue, disk, temp, at, job, dest, panics>>

(* mutant: the processing waits for room *)
EnqueueWaiting(m) ==
  /\ m \in storing /\ Len(queue) < QueueCap
  /\ queue' = Append(queue, m)
  /\ storing' = storing \ {m}
  /\ UNCHANGED <<hidden, sync, disk, temp, at, job, dest, excused, panics>>

(* ... and enqueueMedia queues its job, or drops it when the queue is full *)
Enqueue(m) ==
  /\ m \in storing
  /\ storing' = storing \ {m}
  /\ IF Len(queue) < QueueCap
     THEN queue' = Append(queue, m) /\ UNCHANGED excused
     ELSE excused' = excused \cup {m} /\ UNCHANGED queue
  /\ UNCHANGED <<hidden, sync, disk, temp, at, job, dest, panics>>

(* Connect returns and the workers are started *)
StartWorkers ==
  /\ main = "connect" /\ ~ctxDone
  /\ main' = "run"
  /\ at' = [u \in User |-> IF u \in Worker THEN "idle" ELSE at[u]]
  /\ UNCHANGED <<hidden, ctxDone, storing, queue, disk, temp, job, dest, excused, panics>>

Cancel ==
  /\ main \in {"connect", "run"} /\ ~ctxDone /\ ctxDone' = TRUE
  /\ UNCHANGED <<hidden, main, storing, queue, disk, temp, at, job, dest, excused, panics>>

(* mutant: the workers are only waited for *)
StopWaiting ==
  /\ main \in {"connect", "run"} /\ storing = {}
  /\ main' = "stop"
  /\ UNCHANGED <<hidden, ctxDone, storing, queue, disk, temp, at, job, dest, excused, panics>>

(* finish has returned and the deferred stopMedia cancels the workers; a Sync
   that did not connect has none *)
Stop ==
  /\ main \in {"connect", "run"} /\ storing = {}
  /\ main' = "stop" /\ ctxDone' = TRUE
  /\ UNCHANGED <<hidden, storing, queue, disk, temp, at, job, dest, excused, panics>>

(* mutant: the workers are not waited for *)
ReturnAtOnce ==
  /\ main = "stop" /\ main' = "end" /\ queue' = <<>>
  /\ UNCHANGED <<hidden, ctxDone, storing, disk, temp, at, job, dest, excused, panics>>

(* ... and waits for them; the jobs left in the queue are gone *)
Return ==
  /\ main = "stop" /\ \A w \in Worker : at[w] = "exited"
  /\ main' = "end" /\ queue' = <<>>
  /\ UNCHANGED <<hidden, ctxDone, storing, disk, temp, at, job, dest, excused, panics>>
-----------------------------------------------------------------------------
Leave(w) ==
  /\ ctxDone
  /\ Goes(w, "idle", "exited")
  /\ UNCHANGED <<hidden, sync, storing, queue, disk, temp, job, dest, excused, panics>>

(* a user is done with its message *)
Done(u) == job' = [job EXCEPT ![u] = None] /\ dest' = [dest EXCEPT ![u] = "media"]

(* mutant: the test of local_path is inverted *)
SkipStored(w) ==
  /\ at[w] = "idle" /\ queue # <<>>
  /\ Head(queue) \in hidden \/ row[Head(queue)] = "stored"
  /\ queue' = Tail(queue)
  /\ UNCHANGED <<hidden, sync, storing, disk, temp, at, job, dest, excused, panics>>

(* a worker's select, which may still choose a job once it is cancelled, and
   GetMediaDownloadInfo: no row under the chat the job names, or one that has
   its file ... *)
Skip(w) ==
  /\ at[w] = "idle" /\ queue # <<>>
  /\ Head(queue) \in hidden \/ row[Head(queue)] # "stored"
  /\ queue' = Tail(queue)
  /\ UNCHANGED <<hidden, sync, storing, disk, temp, at, job, dest, excused, panics>>

(* ... or one that needs it *)
Take(w) ==
  /\ queue # <<>> /\ Head(queue) \notin hidden /\ row[Head(queue)] = "stored"
  /\ Goes(w, "idle", "begin")
  /\ job' = [job EXCEPT ![w] = Head(queue)] /\ queue' = Tail(queue)
  /\ UNCHANGED <<hidden, sync, storing, disk, temp, dest, excused, panics>>

(* media.download, with or without --output: the row need only exist *)
Ask(c, m, d) ==
  /\ main # "dead" /\ row[m] # "absent"
  /\ Goes(c, "idle", "begin")
  /\ job' = [job EXCEPT ![c] = m] /\ dest' = [dest EXCEPT ![c] = d]
  /\ UNCHANGED <<hidden, sync, storing, queue, disk, temp, excused, panics>>

(* DownloadMediaToFile: the temporary file ... *)
Begin(u) ==
  /\ Goes(u, "begin", "fetch")
  /\ temp' = [temp EXCEPT ![u] = "partial"]
  /\ UNCHANGED <<hidden, sync, storing, queue, disk, job, dest, excused, panics>>

(* the client is reconnecting *)
NotConnected(u) ==
  /\ Goes(u, "begin", "idle")
  /\ excused' = excused \cup {job[u]} /\ Done(u)
  /\ UNCHANGED <<hidden, sync, storing, queue, disk, temp, panics>>

(* ... receives all of the media and is flushed ... *)
Fetch(u) ==
  /\ Goes(u, "fetch", "rename")
  /\ temp' = [temp EXCEPT ![u] = "full"]
  /\ UNCHANGED <<hidden, sync, storing, queue, disk, job, dest, excused, panics>>

(* mutant: the temporary file of a failed download stays *)
FetchFailsLittering(u) ==
  /\ at[u] \in {"fetch", "rename"} /\ at' = [at EXCEPT ![u] = "idle"]
  /\ excused' = excused \cup {job[u]} /\ Done(u)
  /\ UNCHANGED <<hidden, sync, storing, queue, disk, temp, panics>>

(* ... or is removed: too large, cut off, cancelled, or in the way *)
FetchFails(u) ==
  /\ at[u] \in {"fetch", "rename"} /\ at' = [at EXCEPT ![u] = "idle"]
  /\ temp' = [temp EXCEPT ![u] = "none"]
  /\ excused' = excused \cup {job[u]} /\ Done(u)
  /\ UNCHANGED <<hidden, sync, storing, queue, disk, panics>>

(* ... and takes its name *)
Rename(u) ==
  /\ Goes(u, "rename", "mark")
  /\ file' = [file EXCEPT ![job[u]][dest[u]] = temp[u]]
  /\ temp' = [temp EXCEPT ![u] = "none"]
  /\ UNCHANGED <<hidden, sync, storing, queue, row, job, dest, excused, panics>>

(* mutant: the row names the media directory, whatever was asked for *)
MarkMedia(u) ==
  /\ Goes(u, "mark", "idle")
  /\ row' = [row EXCEPT ![job[u]] = "media"]
  /\ Done(u)
  /\ UNCHANGED <<hidden, sync, storing, queue, file, temp, excused, panics>>

(* MarkMediaDownloaded *)
Mark(u) ==
  /\ Goes(u, "mark", "idle")
  /\ row' = [row EXCEPT ![job[u]] = dest[u]]
  /\ Done(u)
  /\ UNCHANGED <<hidden, sync, storing, queue, file, temp, excused, panics>>

(* a job fails, a command only warns *)
MarkFails(u) ==
  /\ Goes(u, "mark", "idle")
  /\ excused' = excused \cup {job[u]} /\ Done(u)
  /\ UNCHANGED <<hidden, sync, storing, queue, disk, temp, panics>>

(* recovered outside the worker's loop: it is gone for the rest of the Sync *)
Panic(w) ==
  /\ panics < MaxPanics /\ panics' = panics + 1
  /\ at[w] \in {"begin", "fetch", "rename", "mark"}
  /\ at' = [at EXCEPT ![w] = "exited"]
  /\ temp' = [temp EXCEPT ![w] = "none"]
  /\ excused' = excused \cup {job[w]} /\ Done(w)
  /\ UNCHANGED <<hidden, sync, storing, queue, disk>>
-----------------------------------------------------------------------------
(* the process is killed, or ends; its temporary files stay, and nobody will
   look at them *)
Kill ==
  /\ main # "dead" /\ main' = "dead"
  /\ storing' = {} /\ queue' = <<>>
  /\ temp' = [u \in User |-> "none"]
  /\ at' = Exited /\ job' = [u \in User |-> None] /\ dest' = [u \in User |-> "media"]
  /\ UNCHANGED <<hidden, ctxDone, row, file, excused, panics>>

Restart ==
  /\ main = "dead"
  /\ main' = "connect" /\ ctxDone' = FALSE /\ panics' = 0
  /\ UNCHANGED <<hidden, storing, queue, disk, temp, at, job, dest, excused>>

DownloadStep(u) ==
  \/ Begin(u) \/ NotConnected(u) \/ Fetch(u) \/ FetchFails(u)
  \/ Rename(u) \/ Mark(u) \/ MarkFails(u)

Next ==
  \/ \E m \in Msg : Store(m) \/ StoreFails(m) \/ Enqueue(m)
  \/ StartWorkers \/ Cancel \/ Stop \/ Return \/ Kill \/ Restart
  \/ \E w \in Worker : Take(w) \/ Skip(w) \/ Leave(w) \/ Panic(w)
  \/ \E c \in Command, m \in Msg, d \in Place : Ask(c, m, d)
  \/ \E u \in User : DownloadStep(u)

Spec == Init /\ [][Next]_vars

(* workers run, calls return and connections are made; nobody has to deliver,
   cancel, stop or ask *)
FairSpec ==
  /\ Spec
  /\ \A m \in Msg : WF_vars(Enqueue(m))
  /\ WF_vars(StartWorkers) /\ WF_vars(Return)
  /\ \A w \in Worker : WF_vars(Take(w) \/ Skip(w)) /\ WF_vars(Leave(w)) /\ WF_vars(DownloadStep(w))
-----------------------------------------------------------------------------
TypeOK ==
  /\ main \in {"connect", "run", "stop", "end", "dead"}
  /\ ctxDone \in BOOLEAN
  /\ hidden \subseteq Hidden /\ storing \subseteq Msg
  /\ queue \in Seq(Msg) /\ Len(queue) <= QueueCap
  /\ row \in [Msg -> {"absent", "stored"} \cup Place]
  /\ file \in [Msg -> [Place -> {"none", "partial", "full"}]]
  /\ temp \in [User -> {"none", "partial", "full"}]
  /\ at \in [User -> {"idle", "begin", "fetch", "rename", "mark", "exited"}]
  /\ job \in [User -> Msg \cup {None}] /\ dest \in [User -> Place]
  /\ excused \subseteq Msg /\ panics \in 0..MaxPanics

(* A row that names a file names one that is there and complete, and nobody
   ever finds a part of one under its name -- whoever else downloads the same
   message to the same or another place, and wherever the process is killed. *)
MarkedHasFile ==
  \A m \in Msg :
    /\ row[m] \in Place => file[m][row[m]] = "full"
    /\ \A d \in Place : file[m][d] # "partial"

(* A temporary file is somebody's who is downloading, unless its process was
   killed. *)
TempsAreOwned ==
  \A u \in User : temp[u] # "none" => at[u] \in {"fetch", "rename"} /\ job[u] \in Msg

(* stop: once Sync has returned none of its workers does anything, so that the
   caller may close the store. *)
QuietAfterReturn == main = "end" => \A w \in Worker : at[w] = "exited"

(* Storing messages never waits for their downloads. *)
StoringGoesOn == \A m \in Msg : m \in storing ~> m \notin storing

(* A job that is queued ends with its file named, unless the download failed or
   the Sync was stopped or killed, or every worker has panicked. *)
QueuedIsDownloaded ==
  \A m \in Msg :
    m \in ToSet(queue) ~> \/ row[m] \in Place \/ m \in hidden \/ m \in excused \/ ctxDone \/ main = "dead"
                         \/ \A w \in Worker : at[w] = "exited"

(* stopMedia comes back. *)
StopReturns == main = "stop" ~> main # "stop"
=============================================================================
