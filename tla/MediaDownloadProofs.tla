------------------------ MODULE MediaDownloadProofs ------------------------
(***************************************************************************)
(* Theorems about MediaDownload, for any messages, workers, commands and   *)
(* capacity of the queue: a row names only files that are there and whole, *)
(* no temporary file is left behind, and a Sync that has returned has no   *)
(* worker.                                                                 *)
(***************************************************************************)
EXTENDS MediaDownload, TLAPS

Downloading == {"begin", "fetch", "rename", "mark"}

(* Where a user is says what it has: a message, a temporary file that is whole
   before it is renamed, and the file before its row names it. *)
Held(u) ==
  /\ at[u] \in Downloading => job[u] \in Msg
  /\ temp[u] # "none" => at[u] \in {"fetch", "rename"}
  /\ at[u] = "rename" => temp[u] = "full"
  /\ at[u] = "mark" => file[job[u]][dest[u]] = "full"

(* Only a Sync that is connected, or stops, has workers. *)
Workers == main \in {"connect", "end", "dead"} => \A w \in Worker : at[w] = "exited"

IInv == TypeOK /\ (\A u \in User : Held(u)) /\ MarkedHasFile /\ Workers
-----------------------------------------------------------------------------
LEMMA InitInv == Init => IInv
<1> SUFFICES ASSUME Init PROVE IInv
  OBVIOUS
<1> USE MediaAssumption DEF MediaAssumption, Init
<1>1. at \in [User -> {"idle", "exited"}] /\ \A w \in Worker : at[w] = "exited"
  BY DEF Exited, User
<1>2. queue \in Seq(Msg) /\ Len(queue) <= QueueCap
  OBVIOUS
<1>3. TypeOK
  <2>1. row \in [Msg -> {"absent", "stored"} \cup Place] /\ file \in [Msg -> [Place -> {"none", "partial", "full"}]]
    OBVIOUS
  <2>2. temp \in [User -> {"none", "partial", "full"}] /\ dest \in [User -> Place]
    BY DEF Place
  <2>3. job \in [User -> Msg \cup {None}] /\ excused \subseteq Msg /\ panics \in 0..MaxPanics
    OBVIOUS
  <2>4. main \in {"connect", "run", "stop", "end", "dead"} /\ ctxDone \in BOOLEAN
        /\ hidden \subseteq Hidden /\ storing \subseteq Msg
    OBVIOUS
  <2> QED BY <1>1, <1>2, <2>1, <2>2, <2>3, <2>4 DEF TypeOK
<1>4. \A u \in User : Held(u)
  BY <1>1 DEF Held, Downloading
<1>5. MarkedHasFile /\ Workers
  BY <1>1 DEF MarkedHasFile, Workers, Place
<1> QED BY <1>3, <1>4, <1>5 DEF IInv

(* The steps of the Sync move no user but those that start or end. *)
LEMMA SyncSteps ==
  ASSUME IInv,
         (\E m \in Msg : Store(m) \/ StoreFails(m) \/ Enqueue(m))
           \/ Cancel \/ Stop \/ Return \/ Restart \/ StartWorkers \/ Kill
  PROVE  IInv'
<1> USE MediaAssumption DEF MediaAssumption, IInv, sync, disk
<1>1. ASSUME NEW m \in Msg, Store(m) \/ StoreFails(m) PROVE IInv'
  <2>1. TypeOK'
    <3>1. row' \in [Msg -> {"absent", "stored"} \cup Place]
      BY <1>1 DEF Store, StoreFails, TypeOK
    <3>2. storing' \subseteq Msg /\ excused' \subseteq Msg
      BY <1>1 DEF Store, StoreFails, TypeOK
    <3> QED BY <1>1, <3>1, <3>2 DEF Store, StoreFails, TypeOK
  <2>2. MarkedHasFile'
    BY <1>1 DEF Store, StoreFails, MarkedHasFile, TypeOK, Place
  <2> QED BY <1>1, <2>1, <2>2 DEF Store, StoreFails, Held, Workers
<1>2. ASSUME NEW m \in Msg, Enqueue(m) PROVE IInv'
  <2>1. queue' \in Seq(Msg) /\ Len(queue') <= QueueCap
    <3>1. queue \in Seq(Msg) /\ Len(queue) <= QueueCap
      BY DEF TypeOK
    <3>2. queue' = queue \/ (queue' = Append(queue, m) /\ Len(queue) < QueueCap)
      BY <1>2 DEF Enqueue
    <3>3. Append(queue, m) \in Seq(Msg) /\ Len(Append(queue, m)) = Len(queue) + 1 /\ Len(queue) \in Nat
      BY <3>1
    <3> QED BY <3>1, <3>2, <3>3
  <2>2. TypeOK'
    BY <1>2, <2>1 DEF Enqueue, TypeOK
  <2> QED BY <1>2, <2>2 DEF Enqueue, Held, Workers, MarkedHasFile
<1>3. CASE Cancel \/ Stop \/ Return \/ Restart
  <2>1. queue' \in Seq(Msg) /\ Len(queue') <= QueueCap
    <3>1. queue \in Seq(Msg) /\ Len(queue) <= QueueCap
      BY DEF TypeOK
    <3>2. queue' = queue \/ queue' = <<>>
      BY <1>3 DEF Cancel, Stop, Return, Restart
    <3>3. <<>> \in Seq(Msg) /\ Len(<<>>) = 0
      OBVIOUS
    <3>4. CASE queue' = <<>>
      <4>1. Len(queue') = 0
        BY <3>3, <3>4
      <4> QED BY <3>3, <3>4, <4>1
    <3>5. CASE queue' = queue
      BY <3>1, <3>5
    <3> QED BY <3>2, <3>4, <3>5
  <2>2. TypeOK'
    <3>0. ctxDone \in BOOLEAN /\ panics \in 0..MaxPanics
      BY DEF TypeOK
    <3>1. main' \in {"connect", "run", "stop", "end", "dead"} /\ ctxDone' \in BOOLEAN
      BY <1>3, <3>0 DEF Cancel, Stop, Return, Restart
    <3>3. panics' \in 0..MaxPanics
      BY <1>3, <3>0 DEF Cancel, Stop, Return, Restart
    <3>2. UNCHANGED <<hidden, storing, row, file, temp, at, job, dest, excused>>
      BY <1>3 DEF Cancel, Stop, Return, Restart
    <3> QED BY <2>1, <3>1, <3>2, <3>3 DEF TypeOK
  <2>3. Workers'
    BY <1>3 DEF Cancel, Stop, Return, Restart, Workers
  <2> QED BY <1>3, <2>2, <2>3 DEF Cancel, Stop, Return, Restart, Held, MarkedHasFile
<1>4. CASE StartWorkers
  <2>1. TypeOK'
    BY <1>4 DEF StartWorkers, TypeOK
  <2>2. ASSUME NEW u \in User PROVE Held(u)'
    <3>1. at'[u] = IF u \in Worker THEN "idle" ELSE at[u]
      BY <1>4 DEF StartWorkers
    <3>2. u \in Worker => at[u] = "exited"
      BY <1>4 DEF StartWorkers, Workers
    <3> QED BY <1>4, <3>1, <3>2 DEF StartWorkers, Held, Downloading
  <2> QED BY <1>4, <2>1, <2>2 DEF StartWorkers, Workers, MarkedHasFile
<1>5. CASE Kill
  <2>1. at' \in [User -> {"idle", "exited"}] /\ \A w \in Worker : at'[w] = "exited"
    BY <1>5 DEF Kill, Exited, User
  <2>2. queue' \in Seq(Msg) /\ Len(queue') <= QueueCap
    BY <1>5 DEF Kill
  <2>3. TypeOK'
    BY <1>5, <2>1, <2>2 DEF Kill, TypeOK, Place
  <2>4. \A u \in User : Held(u)'
    BY <1>5, <2>1 DEF Kill, Held, Downloading
  <2> QED BY <1>5, <2>1, <2>3, <2>4 DEF Kill, Workers, MarkedHasFile
<1> QED BY <1>1, <1>2, <1>3, <1>4, <1>5

(* A step of one user leaves the others where they are. *)
LEMMA OthersHeld ==
  ASSUME IInv, NEW u \in User,
         \A v \in User \ {u} : /\ at'[v] = at[v] /\ job'[v] = job[v]
                               /\ dest'[v] = dest[v] /\ temp'[v] = temp[v],
         \A m \in Msg, d \in Place : file[m][d] = "full" => file'[m][d] = "full",
         Held(u)'
  PROVE  \A v \in User : Held(v)'
<1> SUFFICES ASSUME NEW v \in User \ {u} PROVE Held(v)'
  OBVIOUS
<1>1. Held(v) /\ dest[v] \in Place
  BY DEF IInv, TypeOK
<1> QED BY <1>1 DEF Held, Downloading

(* A user that is not exited is a command, or the Sync has workers. *)
LEMMA WorkersStay ==
  ASSUME IInv, NEW u \in User, at[u] # "exited", NEW x, at' = [at EXCEPT ![u] = x], main' = main
  PROVE  Workers'
<1> SUFFICES ASSUME main \in {"connect", "end", "dead"}, NEW w \in Worker PROVE at'[w] = "exited"
  BY DEF Workers
<1>1. at[w] = "exited" /\ w # u /\ w \in User
  BY DEF IInv, Workers, User
<1> QED BY <1>1 DEF IInv, TypeOK

(* The steps that choose a message, or leave. *)
LEMMA ChoiceSteps ==
  ASSUME IInv,
         (\E w \in Worker : Take(w) \/ Skip(w) \/ Leave(w))
           \/ \E c \in Command, m \in Msg, d \in Place : Ask(c, m, d)
  PROVE  IInv'
<1> USE MediaAssumption DEF MediaAssumption, IInv, sync, disk, Goes, User
<1>1. ASSUME NEW w \in Worker, Skip(w) PROVE IInv'
  <2>1. queue' \in Seq(Msg) /\ Len(queue') <= QueueCap
    BY <1>1 DEF Skip, TypeOK
  <2>2. TypeOK'
    BY <1>1, <2>1 DEF Skip, TypeOK
  <2> QED BY <1>1, <2>2 DEF Skip, Held, Workers, MarkedHasFile
<1>2. ASSUME NEW w \in Worker, Take(w) PROVE IInv'
  <2>1. queue' \in Seq(Msg) /\ Len(queue') <= QueueCap /\ Head(queue) \in Msg
    BY <1>2 DEF Take, TypeOK
  <2>2. TypeOK'
    BY <1>2, <2>1 DEF Take, TypeOK
  <2>3. Held(w)'
    BY <1>2, <2>1 DEF Take, TypeOK, Held, Downloading
  <2>4. \A v \in User : Held(v)'
    BY <1>2, <2>3, OthersHeld DEF Take, TypeOK
  <2>5. Workers' /\ MarkedHasFile'
    BY <1>2 DEF Take, Workers, MarkedHasFile, TypeOK
  <2> QED BY <2>2, <2>4, <2>5
<1>3. ASSUME NEW w \in Worker, Leave(w) PROVE IInv'
  <2>1. TypeOK'
    BY <1>3 DEF Leave, TypeOK
  <2>3. Held(w)'
    BY <1>3 DEF Leave, TypeOK, Held, Downloading
  <2>4. \A v \in User : Held(v)'
    BY <1>3, <2>3, OthersHeld DEF Leave, TypeOK
  <2>5. Workers' /\ MarkedHasFile'
    BY <1>3 DEF Leave, Workers, MarkedHasFile, TypeOK
  <2> QED BY <2>1, <2>4, <2>5
<1>4. ASSUME NEW c \in Command, NEW m \in Msg, NEW d \in Place, Ask(c, m, d) PROVE IInv'
  <2>1. TypeOK'
    BY <1>4 DEF Ask, TypeOK
  <2>3. Held(c)'
    BY <1>4 DEF Ask, TypeOK, Held, Downloading
  <2>4. \A v \in User : Held(v)'
    BY <1>4, <2>3, OthersHeld DEF Ask, TypeOK
  <2>5. Workers' /\ MarkedHasFile'
    BY <1>4 DEF Ask, Workers, MarkedHasFile, TypeOK
  <2> QED BY <2>1, <2>4, <2>5
<1> QED BY <1>1, <1>2, <1>3, <1>4

(* The steps of a download. *)
LEMMA DownloadSteps ==
  ASSUME IInv, NEW u \in User, DownloadStep(u) \/ (u \in Worker /\ Panic(u)) PROVE IInv'
<1> USE MediaAssumption DEF MediaAssumption, IInv, sync, disk, Goes, Done
<1>1. CASE Begin(u) \/ Fetch(u)
  <2>1. TypeOK'
    BY <1>1 DEF Begin, Fetch, TypeOK
  <2>2. Held(u)'
    BY <1>1 DEF Begin, Fetch, TypeOK, Held, Downloading
  <2>3. \A v \in User : Held(v)'
    BY <1>1, <2>2, OthersHeld DEF Begin, Fetch, TypeOK
  <2>4. Workers'
    BY <1>1, WorkersStay DEF Begin, Fetch
  <2>5. MarkedHasFile'
    BY <1>1 DEF Begin, Fetch, MarkedHasFile
  <2> QED BY <2>1, <2>3, <2>4, <2>5
<1>2. CASE NotConnected(u) \/ FetchFails(u) \/ MarkFails(u)
  <2>0. job[u] \in Msg
    BY <1>2 DEF NotConnected, FetchFails, MarkFails, Held, Downloading
  <2>1. TypeOK'
    BY <1>2, <2>0 DEF NotConnected, FetchFails, MarkFails, TypeOK, Place
  <2>2. Held(u)'
    BY <1>2 DEF NotConnected, FetchFails, MarkFails, TypeOK, Held, Downloading
  <2>3. \A v \in User : Held(v)'
    BY <1>2, <2>2, OthersHeld DEF NotConnected, FetchFails, MarkFails, TypeOK
  <2>4. Workers'
    BY <1>2, WorkersStay DEF NotConnected, FetchFails, MarkFails
  <2>5. MarkedHasFile'
    BY <1>2 DEF NotConnected, FetchFails, MarkFails, MarkedHasFile
  <2> QED BY <2>1, <2>3, <2>4, <2>5
<1>3. CASE Rename(u)
  <2>0. job[u] \in Msg /\ dest[u] \in Place /\ temp[u] = "full"
    BY <1>3 DEF Rename, Held, Downloading, TypeOK
  <2>1. TypeOK'
    BY <1>3, <2>0 DEF Rename, TypeOK
  <2>2. /\ file'[job[u]][dest[u]] = "full"
        /\ \A m \in Msg, d \in Place : file'[m][d] \in {file[m][d], "full"}
    BY <1>3, <2>0 DEF Rename, TypeOK
  <2>3. Held(u)'
    BY <1>3, <2>0, <2>2 DEF Rename, Held, Downloading, TypeOK
  <2>4. \A v \in User : Held(v)'
    BY <1>3, <2>2, <2>3, OthersHeld DEF Rename, TypeOK
  <2>5. MarkedHasFile'
    BY <1>3, <2>2 DEF Rename, MarkedHasFile
  <2>6. Workers'
    BY <1>3 DEF Rename, Workers, TypeOK
  <2> QED BY <2>1, <2>4, <2>5, <2>6
<1>4. CASE Mark(u)
  <2>0. job[u] \in Msg /\ dest[u] \in Place /\ file[job[u]][dest[u]] = "full"
    BY <1>4 DEF Mark, Held, Downloading, TypeOK
  <2>1. TypeOK'
    BY <1>4, <2>0 DEF Mark, TypeOK, Place
  <2>2. Held(u)'
    BY <1>4 DEF Mark, Held, Downloading, TypeOK
  <2>3. \A v \in User : Held(v)'
    BY <1>4, <2>2, OthersHeld DEF Mark, TypeOK
  <2>4. MarkedHasFile'
    <3>1. \A m \in Msg : row'[m] = IF m = job[u] THEN dest[u] ELSE row[m]
      BY <1>4, <2>0 DEF Mark, TypeOK
    <3> QED BY <1>4, <2>0, <3>1 DEF Mark, MarkedHasFile
  <2>5. Workers'
    BY <1>4 DEF Mark, Workers, TypeOK
  <2> QED BY <2>1, <2>3, <2>4, <2>5
<1>5. CASE u \in Worker /\ Panic(u)
  <2>0. job[u] \in Msg
    BY <1>5 DEF Panic, Held, Downloading
  <2>1. TypeOK'
    BY <1>5, <2>0 DEF Panic, TypeOK, Place
  <2>2. Held(u)'
    BY <1>5 DEF Panic, Held, Downloading, TypeOK
  <2>3. \A v \in User : Held(v)'
    BY <1>5, <2>2, OthersHeld DEF Panic, TypeOK
  <2>4. Workers' /\ MarkedHasFile'
    BY <1>5 DEF Panic, Workers, MarkedHasFile, TypeOK
  <2> QED BY <2>1, <2>3, <2>4
<1> QED BY <1>1, <1>2, <1>3, <1>4, <1>5 DEF DownloadStep

LEMMA NextInv == IInv /\ [Next]_vars => IInv'
<1> SUFFICES ASSUME IInv, [Next]_vars PROVE IInv'
  OBVIOUS
<1>1. CASE UNCHANGED vars
  BY <1>1 DEF IInv, vars, sync, disk, TypeOK, Held, MarkedHasFile, Workers
<1>2. CASE Next
  BY <1>2, SyncSteps, ChoiceSteps, DownloadSteps DEF Next, User
<1> QED BY <1>1, <1>2
-----------------------------------------------------------------------------
(* The state is well-formed, and the job queue within its capacity. *)
THEOREM TypeCorrect == Spec => []TypeOK
<1>1. IInv => TypeOK
  BY DEF IInv
<1> QED BY InitInv, NextInv, <1>1, PTL DEF Spec

(* MarkMediaDownloaded after os.Rename: a row names only a file that is there
   and whole, whoever downloads it too and wherever the process is killed. *)
THEOREM MarkedThere == Spec => []MarkedHasFile
<1>1. IInv => MarkedHasFile
  BY DEF IInv
<1> QED BY InitInv, NextInv, <1>1, PTL DEF Spec

(* DownloadMediaToFile: a temporary file is that of a download under way. *)
THEOREM TempsOwned == Spec => []TempsAreOwned
<1>1. IInv => TempsAreOwned
  BY DEF IInv, Held, Downloading, TempsAreOwned
<1> QED BY InitInv, NextInv, <1>1, PTL DEF Spec

(* stopMedia: a Sync that has returned has no worker left. *)
THEOREM ReturnsQuietly == Spec => []QuietAfterReturn
<1>1. IInv => QuietAfterReturn
  BY DEF IInv, Workers, QuietAfterReturn
<1> QED BY InitInv, NextInv, <1>1, PTL DEF Spec
=============================================================================
