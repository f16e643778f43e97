-------------------------- MODULE ChatStateProofs --------------------------
(***************************************************************************)
(* Theorems about ChatState, for any number of commands, changes,          *)
(* messages, failures and starts: the flags that the store lists are those *)
(* of WhatsApp, but for what is under way or known to be lost.             *)
(***************************************************************************)
EXTENDS ChatState, TLAPS

(* What an event makes of a field it touches. *)
Val(e, f) == IF f = e.field THEN e.value ELSE 0

(* The event of the last change of a field tells its value at WhatsApp, and no
   event is later. *)
Tells(e) ==
  /\ e.n \in 1..sent
  /\ \A f \in Field : /\ f \in Touches(e) => e.n <= last[f]
                      /\ last[f] = e.n => f \in Touches(e) /\ Val(e, f) = remote[f]

(* Stamps tell events apart, and what Sync has accepted was sent before the rest. *)
Ordered ==
  /\ \A q \in queue, e \in inbox : q.n < e.n
  /\ \A d \in Flight, e \in Flight : d.n = e.n => d = e

Stamps ==
  /\ \A f \in Field : last[f] \in 0..sent
  /\ \A e \in Flight : Tells(e)
  /\ Ordered

Blank(a) == a \notin rows => \A f \in Field : local[a][f] = 0

(* The column is right, or the end of a mute is stored later than it is. *)
Same(a, f) ==
  \/ local[a][f] = remote[f]
  \/ f = "muted" /\ remote[f] > 0 /\ Second * local[a][f] >= remote[f]

(* A field that is not lost has its last change on its way to a row, or nothing
   more is to come and the row has it; without a row it has never changed. *)
Coming(a, f) == \E e \in Flight : e.addr = a /\ last[f] = e.n /\ Held(e)
Settled(a, f) == ~UnderWay(a, f) /\ IF a \in rows THEN Same(a, f) ELSE remote[f] = 0
Good(a, f) == f \in lost[a] \/ Coming(a, f) \/ Settled(a, f)

(* A command is about to write what WhatsApp has, unless that changed since. *)
Fresh(c) ==
  at[c] = "write" =>
    /\ want[c].field \in Field /\ want[c].n \in 1..sent
    /\ last[want[c].field] = want[c].n => remote[want[c].field] = want[c].value
    /\ want[c].field = "muted" => want[c].value <= Second * (now + Duration)

IInv ==
  /\ TypeOK
  /\ Stamps
  /\ \A a \in Addr : Blank(a)
  /\ \A a \in Addr, f \in Field : Good(a, f)
  /\ \A c \in Command : Fresh(c)
-----------------------------------------------------------------------------
(* A change sets the fields it touches, at WhatsApp and in the store. *)
LEMMA SetVal ==
  ASSUME NEW e, e.field \in Field, e.value \in Int, NEW chat \in [Field -> Int], NEW f \in Field
  PROVE  /\ Set(chat, e)[f] = IF f \in Touches(e) THEN Val(e, f) ELSE chat[f]
         /\ Set(chat, e) \in [Field -> Int]
         /\ Touches(e) \subseteq Field
BY DEF Set, Touches, Unpins, Val, Field

LEMMA StoredVal ==
  ASSUME TypeOK, NEW i \in Item, i.field \in Field, NEW failed
  PROVE  /\ Stored(i, failed) \in [Addr -> [Field -> Int]]
         /\ \A a \in Addr, f \in Field :
              Stored(i, failed)[a][f] =
                IF a = i.addr /\ a \in rows /\ f \notin failed /\ f \in Touches(i)
                THEN Val(i, f) ELSE local[a][f]
<1>1. i.addr \in Addr /\ i.value \in Int /\ local \in [Addr -> [Field -> Int]]
  BY DEF TypeOK, Item
<1>2. CASE i.addr \notin rows
  BY <1>1, <1>2 DEF Stored
<1>3. CASE i.addr \in rows
  <2> DEFINE new == [f \in Field |-> IF f \in failed THEN local[i.addr][f] ELSE Set(local[i.addr], i)[f]]
  <2>1. Stored(i, failed) = [local EXCEPT ![i.addr] = new]
    BY <1>3 DEF Stored
  <2>2. \A f \in Field : Set(local[i.addr], i)[f] = IF f \in Touches(i) THEN Val(i, f) ELSE local[i.addr][f]
    BY <1>1, SetVal
  <2>3. Set(local[i.addr], i) \in [Field -> Int]
    <3>1. "muted" \in Field
      BY DEF Field
    <3> QED BY <1>1, <3>1, SetVal
  <2>4. new \in [Field -> Int]
    BY <1>1, <2>3
  <2>5. \A f \in Field : new[f] = IF f \notin failed /\ f \in Touches(i) THEN Val(i, f) ELSE local[i.addr][f]
    BY <2>2
  <2> HIDE DEF new
  <2> QED BY <1>1, <1>3, <2>1, <2>4, <2>5
<1> QED BY <1>2, <1>3

(* What can be changed is an event about a flag. *)
LEMMA ChangesAreEvents ==
  ASSUME TypeOK, NEW e \in Changes
  PROVE  /\ e.addr \in Addr /\ e.field \in Field /\ e.value \in Int
         /\ Stamped(e) \in Item
         /\ e.field = "muted" => e.value <= Second * (now + Duration)
<1>1. now \in Nat /\ sent \in Nat /\ Changed \subseteq Field
  BY ChatStateAssumption DEF ChatStateAssumption, TypeOK
<1>2. Second * (now + Duration) \in Int
  BY <1>1 DEF Second, Duration
<1>3. CASE e \in [addr : Addr, field : Changed \ {"muted"}, value : {0, 1}]
  BY <1>1, <1>3 DEF Stamped, Item
<1>4. CASE e \in [addr : Addr, field : Changed \cap {"muted"}, value : {0, -1, Second * (now + Duration)}]
  <2>1. -1 \in Int /\ -1 <= Second * (now + Duration) /\ 0 <= Second * (now + Duration)
    BY <1>1 DEF Second, Duration
  <2>2. e.addr \in Addr /\ e.field \in Field /\ e.value \in {0, -1, Second * (now + Duration)}
    BY <1>1, <1>4
  <2> QED BY <1>1, <1>2, <2>1, <2>2 DEF Stamped, Item
<1> QED BY <1>3, <1>4 DEF Changes

(* Messages touch no field. *)
LEMMA MessagesTouchNothing ==
  ASSUME NEW e, e.field = "message", NEW f \in Field PROVE f \notin Touches(e)
BY DEF Touches, Unpins, Field
-----------------------------------------------------------------------------
(* Events that leave the flight, or move within it, keep their stamps. *)
LEMMA StampsKept ==
  ASSUME Stamps, UNCHANGED <<remote, last, sent>>, inbox' \subseteq inbox,
         Flight' \subseteq Flight,
         queue' \subseteq queue \/ \E i \in Oldest(inbox) : inbox' = inbox \ {i} /\ queue' = queue \cup {i},
         \A e \in Flight : e.n \in Nat
  PROVE  Stamps'
<1>1. \A e \in Flight' : Tells(e)'
  BY DEF Stamps, Tells
<1>2. \A q \in queue', e \in inbox' : q.n < e.n
  <2>1. CASE queue' \subseteq queue
    BY <2>1 DEF Stamps, Ordered
  <2>2. ASSUME NEW i \in Oldest(inbox), inbox' = inbox \ {i}, queue' = queue \cup {i}
        PROVE  \A q \in queue', e \in inbox' : q.n < e.n
    <3> SUFFICES ASSUME NEW e \in inbox' PROVE i.n < e.n
      BY <2>2 DEF Stamps, Ordered
    <3>1. i \in inbox /\ i.n <= e.n /\ e \in inbox /\ e # i
      BY <2>2 DEF Oldest
    <3>2. i \in Flight /\ e \in Flight
      BY <3>1 DEF Flight
    <3> QED BY <3>1, <3>2 DEF Stamps, Ordered
  <2> QED BY <2>1, <2>2
<1>3. \A d \in Flight', e \in Flight' : d.n = e.n => d = e
  BY DEF Stamps, Ordered
<1> QED BY <1>1, <1>2, <1>3 DEF Stamps, Ordered

(* A field keeps its standing when its last change stays under way and held. *)
LEMMA GoodKept ==
  ASSUME IInv, NEW a \in Addr, NEW f \in Field,
         last'[f] = last[f], remote'[f] = remote[f], local'[a][f] = local[a][f],
         rows \subseteq rows', Flight' \subseteq Flight,
         f \in lost[a] => f \in lost'[a],
         f \notin lost'[a] =>
           \A e \in Flight : e.addr = a /\ last[f] = e.n /\ Held(e) => e \in Flight' /\ Held(e)'
  PROVE  Good(a, f)'
<1> SUFFICES ASSUME f \notin lost'[a] PROVE Coming(a, f)' \/ Settled(a, f)'
  BY DEF Good
<1>1. CASE Coming(a, f)
  BY <1>1 DEF Coming
<1>2. CASE Settled(a, f)
  <2>1. ~UnderWay(a, f)'
    BY <1>2 DEF Settled, UnderWay
  <2>2. a \notin rows => local[a][f] = 0
    BY DEF IInv, Blank
  <2> QED BY <1>2, <2>1, <2>2 DEF Settled, Same
<1> QED BY <1>1, <1>2 DEF IInv, Good

(* The same when what is left without a row is counted as lost. *)
LEMMA BareKept ==
  ASSUME IInv, NEW a \in Addr, NEW f \in Field,
         last'[f] = last[f], remote'[f] = remote[f], local'[a][f] = local[a][f],
         rows \subseteq rows', Flight' \subseteq Flight,
         lost[a] \cup Bare(a)' \subseteq lost'[a],
         f \notin lost'[a] => \A e \in Flight : e.addr = a /\ last[f] = e.n => e \in Flight'
  PROVE  Good(a, f)'
<1>1. ASSUME NEW e \in Flight', e.addr = a, last[f] = e.n, ~Held(e)' PROVE f \in Bare(a)'
  <2>1. f \in Newest(e)'
    BY <1>1 DEF Newest
  <2> QED BY <1>1, <2>1 DEF Bare
<1> QED BY <1>1, GoodKept

(* A message that stays makes the row it would have made. *)
LEMMA HeldKept ==
  ASSUME NEW e, Held(e), mapped' = mapped, rows \subseteq rows',
         \A m \in Flight : m.field = "message" /\ m.n < e.n =>
                             m \in Flight' \/ Home(m.addr) \in rows'
  PROVE  Held(e)'
BY DEF Held, Home

LEMMA FreshKept ==
  ASSUME IInv, NEW c \in Command, at'[c] = "write" => at[c] = "write" /\ want'[c] = want[c],
         UNCHANGED whatsapp, now' >= now, now' \in Nat
  PROVE  Fresh(c)'
<1>1. Fresh(c) /\ now \in Nat /\ want[c] \in Item
  BY DEF IInv, TypeOK
<1>2. at'[c] = "write" /\ want[c].field = "muted" => want[c].value <= Second * (now' + Duration)
  BY <1>1 DEF Fresh, Second, Duration, Item
<1> QED BY <1>1, <1>2 DEF Fresh, whatsapp
-----------------------------------------------------------------------------
LEMMA InitInv == Init => IInv
<1> SUFFICES ASSUME Init PROVE IInv
  OBVIOUS
<1> USE ChatStateAssumption DEF ChatStateAssumption, Init
<1>1. TypeOK
  <2>1. want \in [Command -> Item]
    BY DEF Nothing, Item, Addr
  <2>2. remote \in [Field -> Int] /\ last \in [Field -> Nat] /\ local \in [Addr -> [Field -> Int]]
    BY DEF Clear
  <2> QED BY <2>1, <2>2 DEF TypeOK
<1>2. Stamps
  BY DEF Stamps, Ordered, Flight, Clear
<1>3. ASSUME NEW a \in Addr PROVE Blank(a)
  BY DEF Blank, Clear
<1>4. ASSUME NEW a \in Addr, NEW f \in Field PROVE Good(a, f)
  BY DEF Good, Settled, UnderWay, Flight, Same, Clear
<1>5. \A c \in Command : Fresh(c)
  BY DEF Fresh
<1> QED BY <1>1, <1>2, <1>3, <1>4, <1>5 DEF IInv

(* An event or a message is sent with the next stamp. *)
LEMMA SentStamps ==
  ASSUME IInv, NEW i \in Item, i.n = sent + 1, sent' = sent + 1,
         inbox' = inbox \cup {i}, queue' = queue,
         \A f \in Field : IF f \in Touches(i) THEN last'[f] = i.n /\ remote'[f] = Val(i, f)
                          ELSE last'[f] = last[f] /\ remote'[f] = remote[f]
  PROVE  Stamps'
<1>1. sent \in Nat /\ last \in [Field -> Nat] /\ (\A f \in Field : last[f] \in 0..sent) /\ Ordered
  BY DEF IInv, TypeOK, Stamps
<1>2. Flight' = Flight \cup {i} /\ \A e \in Flight : Tells(e) /\ e.n \in 1..sent
  BY DEF Flight, IInv, Stamps, Tells
<1>3. \A f \in Field : last'[f] \in 0..sent'
  BY <1>1
<1>4. ASSUME NEW e \in Flight PROVE Tells(e)'
  <2>1. e.n \in 1..sent' /\ e.n < i.n
    BY <1>1, <1>2
  <2>2. ASSUME NEW f \in Field
        PROVE  /\ f \in Touches(e) => e.n <= last'[f]
               /\ last'[f] = e.n => f \in Touches(e) /\ Val(e, f) = remote'[f]
    <3>1. CASE f \in Touches(i)
      BY <2>1, <3>1, <1>1, <1>2
    <3>2. CASE f \notin Touches(i)
      <4>1. last'[f] = last[f] /\ remote'[f] = remote[f]
        BY <3>2
      <4> QED BY <4>1, <1>2 DEF Tells
    <3> QED BY <3>1, <3>2
  <2> QED BY <2>1, <2>2 DEF Tells
<1>5. Tells(i)'
  <2>1. i.n \in 1..sent'
    BY <1>1
  <2>2. ASSUME NEW f \in Field, f \notin Touches(i) PROVE last'[f] # i.n
    BY <1>1, <2>2
  <2> QED BY <1>1, <2>1, <2>2 DEF Tells
<1>6. Ordered'
  <2>1. \A q \in queue', e \in inbox' : q.n < e.n
    <3>1. \A q \in queue : q.n < i.n
      BY <1>1, <1>2 DEF Flight
    <3> QED BY <1>1, <3>1 DEF Ordered
  <2>2. \A d \in Flight', e \in Flight' : d.n = e.n => d = e
    <3>1. \A e \in Flight : e.n # i.n
      BY <1>1, <1>2
    <3> QED BY <1>1, <1>2, <3>1 DEF Ordered
  <2> QED BY <2>1, <2>2 DEF Ordered
<1> QED BY <1>2, <1>3, <1>4, <1>5, <1>6 DEF Stamps

(* WhatsApp's change of some fields, and its event. *)
LEMMA ChangeKeeps ==
  ASSUME IInv, NEW e \in Changes, Change(e)
  PROVE  /\ Stamps'
         /\ \A a \in Addr : Blank(a)'
         /\ \A a \in Addr, f \in Field : Good(a, f)'
         /\ Stamped(e) \in Item
         /\ remote' \in [Field -> Int] /\ last' \in [Field -> Nat] /\ sent' \in Nat
         /\ inbox' \subseteq Item /\ lost' \in [Addr -> SUBSET Field]
         /\ \A f \in Field : IF f \in Touches(e)
                             THEN last'[f] = sent' /\ remote'[f] = Val(e, f)
                             ELSE last'[f] = last[f] /\ remote'[f] = remote[f]
         /\ e.field \in Touches(e) /\ sent' = sent + 1
<1>0. PICK i : i = Stamped(e)
  OBVIOUS
<1>t. TypeOK /\ sent \in Nat /\ remote \in [Field -> Int] /\ lost \in [Addr -> SUBSET Field]
  BY DEF IInv, TypeOK
<1>1. e.addr \in Addr /\ e.field \in Field /\ e.value \in Int /\ i \in Item
  BY <1>0, <1>t, ChangesAreEvents
<1>2. /\ i.n = sent + 1 /\ i.addr = e.addr /\ i.field = e.field /\ Touches(i) = Touches(e)
      /\ \A f \in Field : Val(i, f) = Val(e, f)
  BY <1>0 DEF Stamped, Touches, Unpins, Val
<1>3. Touches(e) \subseteq Field /\ e.field \in Touches(e)
  BY <1>1 DEF Touches, Unpins, Field
<1>4. \A f \in Field : IF f \in Touches(e) THEN last'[f] = sent + 1 /\ remote'[f] = Val(e, f)
                       ELSE last'[f] = last[f] /\ remote'[f] = remote[f]
  BY <1>t, <1>1, SetVal DEF Change
<1>5. remote' \in [Field -> Int] /\ last' \in [Field -> Nat] /\ sent' \in Nat
  <2>1. last \in [Field -> Nat] /\ "muted" \in Field
    BY <1>t DEF TypeOK, Field
  <2> QED BY <1>t, <1>1, <2>1, SetVal DEF Change
<1>6. sent' = sent + 1 /\ inbox' = inbox \cup {i} /\ UNCHANGED <<mapped, rows, local, queue>>
  BY <1>0 DEF Change, store
<1>7. Stamps'
  BY <1>1, <1>2, <1>4, <1>6, SentStamps
<1>8. lost' \in [Addr -> SUBSET Field]
  <2>1. \A a \in Addr : Bare(a)' \subseteq Field
    BY DEF Bare, Newest
  <2> QED BY <1>t, <1>3, <2>1 DEF Change
<1>9. Flight' = Flight \cup {i}
  BY <1>6 DEF Flight
<1>10. ASSUME NEW a \in Addr, NEW f \in Field PROVE Good(a, f)'
  <2>1. lost'[a] = lost[a] \cup IF a = e.addr THEN Bare(a)' ELSE Touches(e)
    BY DEF Change
  <2>2. CASE f \in Touches(e) /\ a = e.addr
    <3>1. i \in Flight' /\ last'[f] = i.n
      BY <1>2, <1>4, <1>9, <2>2
    <3>2. CASE Held(i)'
      BY <1>2, <2>2, <3>1, <3>2 DEF Good, Coming
    <3>3. CASE ~Held(i)'
      <4>1. f \in Newest(i)'
        BY <3>1 DEF Newest
      <4>2. f \in Bare(a)'
        BY <1>2, <2>2, <3>1, <3>3, <4>1 DEF Bare
      <4> QED BY <2>1, <2>2, <4>2 DEF Good
    <3> QED BY <3>2, <3>3
  <2>3. CASE f \in Touches(e) /\ a # e.addr
    BY <2>1, <2>3 DEF Good
  <2>4. CASE f \notin Touches(e)
    <3>1. last'[f] = last[f] /\ remote'[f] = remote[f] /\ (f \in lost[a] => f \in lost'[a])
      BY <1>4, <2>1, <2>4
    <3>2. CASE Coming(a, f)
      <4>1. PICK d \in Flight : d.addr = a /\ last[f] = d.n /\ Held(d)
        BY <3>2 DEF Coming
      <4>2. Held(d)'
        BY <1>6, <1>9, <4>1, HeldKept
      <4> QED BY <1>9, <3>1, <4>1, <4>2 DEF Good, Coming
    <3>3. CASE Settled(a, f)
      <4>1. ~UnderWay(a, f)'
        BY <1>2, <1>9, <2>4, <3>3 DEF Settled, UnderWay
      <4>2. Settled(a, f)'
        BY <1>6, <3>1, <3>3, <4>1 DEF Settled, Same
      <4> QED BY <4>2 DEF Good
    <3> QED BY <3>1, <3>2, <3>3 DEF IInv, Good
  <2> QED BY <2>2, <2>3, <2>4
<1>11. \A a \in Addr : Blank(a)'
  BY <1>6 DEF IInv, Blank
<1>12. inbox' \subseteq Item
  BY <1>t, <1>1, <1>6 DEF TypeOK
<1> QED BY <1>0, <1>1, <1>3, <1>4, <1>5, <1>6, <1>7, <1>8, <1>10, <1>11, <1>12

(* Change is all there is to a command that may still be fresh. *)
LEMMA ChangeFresh ==
  ASSUME IInv, NEW e \in Changes, Change(e), NEW c \in Command,
         at'[c] = "write" => at[c] = "write", want'[c] = want[c], now' = now
  PROVE  Fresh(c)'
<1>1. Fresh(c) /\ sent \in Nat
  BY DEF IInv, TypeOK
<1>2. /\ sent' = sent + 1
      /\ \A f \in Field : last'[f] = sent' \/ (last'[f] = last[f] /\ remote'[f] = remote[f])
  BY ChangeKeeps
<1> QED BY <1>1, <1>2 DEF Fresh
-----------------------------------------------------------------------------
(* What is taken from the queue or inline leaves the flight. *)
LEMMA TakenKeeps ==
  ASSUME IInv, NEW i \in Flight, Taken(i), UNCHANGED whatsapp
  PROVE  /\ i \in Item /\ Stamps' /\ Flight' = Flight \ {i}
         /\ inbox' \subseteq Item /\ queue' \subseteq Item
         /\ FromQueue(i) => \A e \in Flight : i.n <= e.n
         /\ Inline(i) => \A e \in inbox : i.n <= e.n
<1>1. inbox \subseteq Item /\ queue \subseteq Item /\ Stamps /\ Ordered
  BY DEF IInv, TypeOK, Stamps
<1>2. inbox' \subseteq inbox /\ queue' \subseteq queue
  BY DEF Taken, FromQueue, Inline
<1>3. Flight' = Flight \ {i}
  <2>1. \A q \in queue : q \notin inbox
    BY <1>1 DEF Ordered, Item
  <2> QED BY <2>1 DEF Taken, FromQueue, Inline, Oldest, Flight
<1>4. \A e \in Flight : e.n \in Nat
  BY <1>1 DEF Flight, Item
<1>5. Stamps'
  BY <1>1, <1>2, <1>3, <1>4, StampsKept DEF whatsapp
<1>6. FromQueue(i) => \A e \in Flight : i.n <= e.n
  <2> SUFFICES ASSUME FromQueue(i), NEW e \in Flight PROVE i.n <= e.n
    OBVIOUS
  <2>1. i \in Oldest(queue)
    BY DEF FromQueue
  <2> QED BY <1>1, <1>4, <2>1 DEF Oldest, Ordered, Flight
<1>7. Inline(i) => \A e \in inbox : i.n <= e.n
  BY DEF Inline, Oldest
<1>8. i \in Item
  BY <1>1 DEF Flight
<1> QED BY <1>1, <1>2, <1>3, <1>5, <1>6, <1>7, <1>8

(* No message is any field's last change. *)
LEMMA MessageNotLast ==
  ASSUME IInv, NEW i \in Flight, i.field = "message", NEW f \in Field
  PROVE  last[f] # i.n
BY MessagesTouchNothing DEF IInv, Stamps, Tells

(* A message that is stored leaves its row. *)
LEMMA MessageKeeps ==
  ASSUME IInv, NEW i \in Flight, ProcessMessage(i), NEW a \in Addr, NEW f \in Field
  PROVE  Good(a, f)'
<1>1. /\ Flight' = Flight \ {i} /\ i.field = "message" /\ last[f] # i.n
      /\ rows' = rows \cup {Home(i.addr)} /\ mapped' = mapped
      /\ UNCHANGED <<remote, last, local, lost>>
  BY TakenKeeps, MessageNotLast DEF ProcessMessage, whatsapp
<1>2. ASSUME NEW e \in Flight, last[f] = e.n, Held(e) PROVE e \in Flight' /\ Held(e)'
  <2>1. \A m \in Flight : m \in Flight' \/ Home(m.addr) \in rows'
    BY <1>1
  <2>2. rows \subseteq rows' /\ mapped' = mapped
    BY <1>1
  <2> QED BY <1>1, <1>2, <2>1, <2>2, HeldKept
<1>3. rows \subseteq rows' /\ Flight' \subseteq Flight
  BY <1>1
<1> QED BY <1>1, <1>2, <1>3, GoodKept

(* An event about a field leaves no message behind that it needed. *)
LEMMA EventLeaves ==
  ASSUME IInv, NEW i \in Flight, i.field \in Field, Flight' = Flight \ {i},
         UNCHANGED <<rows, mapped>>, NEW e \in Flight, Held(e)
  PROVE  Held(e)'
<1>1. i.field # "message"
  BY DEF Field
<1> QED BY <1>1, HeldKept

(* An event taken in order finds the row of its address, or was no one's last
   change there; its columns are right when nothing else is to come. *)
LEMMA ProcessKeeps ==
  ASSUME IInv, NEW i \in Flight, Process(i) \/ ProcessInline(i), NEW a \in Addr, NEW f \in Field
  PROVE  Good(a, f)'
<1>1. /\ i \in Item /\ i.field \in Field /\ Flight' = Flight \ {i} /\ Taken(i)
      /\ UNCHANGED <<remote, last, rows, mapped>> /\ local' = Stored(i, {})
      /\ FromQueue(i) => \A e \in Flight : i.n <= e.n
      /\ Inline(i) => \A e \in inbox : i.n <= e.n
  BY TakenKeeps DEF Process, ProcessInline, Taken, whatsapp
<1>2. local'[a][f] = IF a = i.addr /\ a \in rows /\ f \in Touches(i) THEN Val(i, f) ELSE local[a][f]
  BY <1>1, StoredVal DEF IInv
<1>3. TypeOK /\ Tells(i) /\ last \in [Field -> Nat] /\ (\A e \in Flight : Tells(e)) /\ Ordered
      /\ lost \in [Addr -> SUBSET Field] /\ Good(a, f)
  BY DEF IInv, TypeOK, Stamps
<1>4. CASE last[f] = i.n /\ a = i.addr
  <2>1. f \in Touches(i) /\ Val(i, f) = remote[f] /\ f \in Newest(i)
    BY <1>3, <1>4 DEF Tells, Newest
  <2>2. CASE a \notin rows
    <3>1. CASE Process(i)
      <4>1. lost' = lost /\ FromQueue(i)
        BY <1>4, <2>2, <3>1 DEF Process, Heard
      <4>2. ~Coming(a, f)
        <5> SUFFICES ASSUME NEW e \in Flight, e.addr = a, last[f] = e.n, Held(e) PROVE FALSE
          BY DEF Coming
        <5>1. PICK m \in Flight : m.n < e.n
          BY <2>2 DEF Held
        <5>2. m.n \in Nat /\ i.n \in Nat
          BY <1>1, <5>1 DEF IInv, TypeOK, Flight, Item
        <5> QED BY <1>1, <1>4, <4>1, <5>1, <5>2
      <4>3. ~Settled(a, f)
        BY <1>4, <2>1 DEF Settled, UnderWay
      <4> QED BY <1>3, <4>1, <4>2, <4>3 DEF Good
    <3>2. CASE ProcessInline(i)
      <4>1. lost'[a] = lost[a] \cup Newest(i)
        BY <1>3, <1>4, <2>2, <3>2 DEF ProcessInline
      <4> QED BY <2>1, <4>1 DEF Good
    <3> QED BY <3>1, <3>2
  <2>3. CASE a \in rows
    <3> SUFFICES ASSUME f \notin lost'[a] PROVE Settled(a, f)'
      BY DEF Good
    <3>1. ~UnderWay(a, f)'
      <4> SUFFICES ASSUME NEW e \in Flight, e # i, e.addr = a, f \in Touches(e) PROVE FALSE
        BY <1>1 DEF UnderWay
      <4>1. e.n <= i.n /\ e.n \in Nat /\ i.n \in Nat /\ e.n # i.n
        BY <1>1, <1>3, <1>4 DEF Tells, Ordered, TypeOK, Flight, Item
      <4>2. CASE Process(i)
        BY <1>1, <4>1, <4>2 DEF Process
      <4>3. CASE ProcessInline(i)
        <5>1. Inline(i)
          BY <4>3 DEF ProcessInline
        <5>2. e \in queue
          BY <1>1, <4>1, <5>1 DEF Flight
        <5>3. lost'[a] = {g \in lost[a] \cup Newest(i) :
                            g \in Newest(i) => \E d \in queue : d.addr = a /\ g \in Touches(d)}
          BY <1>3, <1>4, <2>3, <4>3 DEF ProcessInline
        <5> QED BY <2>1, <5>2, <5>3
      <4> QED BY <4>2, <4>3
    <3>2. local'[a][f] = remote'[f]
      BY <1>1, <1>2, <1>4, <2>1, <2>3
    <3> QED BY <1>1, <2>3, <3>1, <3>2 DEF Settled, Same
  <2> QED BY <2>2, <2>3
<1>5. CASE ~(last[f] = i.n /\ a = i.addr)
  <2>1. f \in lost[a] => f \in lost'[a]
    <3>1. a = i.addr => f \notin Newest(i)
      BY <1>5 DEF Newest
    <3>2. CASE Process(i)
      BY <1>3, <3>1, <3>2 DEF Process, Heard
    <3>3. CASE ProcessInline(i)
      BY <1>3, <3>1, <3>3 DEF ProcessInline
    <3> QED BY <3>2, <3>3
  <2>2. CASE Coming(a, f)
    <3>1. PICK e \in Flight : e.addr = a /\ last[f] = e.n /\ Held(e)
      BY <2>2 DEF Coming
    <3>2. e \in Flight' /\ Held(e)'
      BY <1>1, <1>5, <3>1, EventLeaves
    <3> QED BY <1>1, <3>1, <3>2 DEF Good, Coming
  <2>3. CASE Settled(a, f)
    <3>1. ~(a = i.addr /\ f \in Touches(i))
      BY <2>3 DEF Settled, UnderWay
    <3>2. local'[a][f] = local[a][f]
      BY <1>2, <3>1
    <3> QED BY <1>1, <2>3, <3>2 DEF Good, Settled, UnderWay, Same
  <2> QED BY <1>3, <2>1, <2>2, <2>3 DEF Good
<1> QED BY <1>4, <1>5

(* An event whose statement fails leaves the fields it was the last change of lost. *)
LEMMA FailureKeeps ==
  ASSUME IInv, NEW i \in Flight, ProcessFails(i), NEW a \in Addr, NEW f \in Field
  PROVE  Good(a, f)'
<1>1. /\ i \in Item /\ i.field \in Field /\ Flight' = Flight \ {i}
      /\ UNCHANGED <<remote, last, rows, mapped>>
      /\ \E failed \in SUBSET Touches(i) : local' = Stored(i, failed)
      /\ lost' = [lost EXCEPT ![i.addr] = @ \cup Newest(i)]
  BY TakenKeeps DEF ProcessFails, whatsapp
<1>2. a = i.addr \/ local'[a][f] = local[a][f]
  BY <1>1, StoredVal DEF IInv
<1>3. f \notin Touches(i) => local'[a][f] = local[a][f]
  BY <1>1, StoredVal DEF IInv
<1>4. lost'[a] = IF a = i.addr THEN lost[a] \cup Newest(i) ELSE lost[a]
  BY <1>1 DEF IInv, TypeOK
<1>5. CASE Coming(a, f)
  <2>1. PICK e \in Flight : e.addr = a /\ last[f] = e.n /\ Held(e)
    BY <1>5 DEF Coming
  <2>2. CASE e = i
    BY <1>4, <2>1, <2>2 DEF Good, Newest
  <2>3. CASE e # i
    <3>1. e \in Flight' /\ Held(e)'
      BY <1>1, <2>1, <2>3, EventLeaves
    <3> QED BY <1>1, <2>1, <3>1 DEF Good, Coming
  <2> QED BY <2>2, <2>3
<1>6. CASE Settled(a, f)
  <2>1. local'[a][f] = local[a][f]
    BY <1>2, <1>3, <1>6 DEF Settled, UnderWay
  <2> QED BY <1>1, <1>6, <2>1 DEF Good, Settled, UnderWay, Same
<1> QED BY <1>4, <1>5, <1>6 DEF IInv, Good
-----------------------------------------------------------------------------
(* A command that ends has nothing more to write. *)
LEMMA EndsKeeps ==
  ASSUME TypeOK, NEW c \in Command, Ends(c)
  PROVE  /\ at' \in [Command -> {"idle", "write", "done"}] /\ want' \in [Command -> Item]
         /\ \A d \in Command : at'[d] = "write" => at[d] = "write" /\ want'[d] = want[d]
<1>1. Nothing \in Item
  BY DEF Nothing, Item, Addr
<1> QED BY <1>1 DEF Ends, TypeOK

(* A command writes the row of the address it named. *)
LEMMA WriteKeeps ==
  ASSUME IInv, NEW c \in Command, Write(c)
  PROVE  TypeOK' /\ (\A a \in Addr : Blank(a)') /\ \A a \in Addr, f \in Field : Good(a, f)'
<1> DEFINE b == want[c].addr
<1> DEFINE g == want[c].field
<1>1. /\ TypeOK /\ want[c] \in Item /\ b \in Addr /\ g \in Field /\ Fresh(c) /\ now \in Nat
      /\ local \in [Addr -> [Field -> Int]] /\ lost \in [Addr -> SUBSET Field]
  BY DEF IInv, TypeOK, Write, Fresh, Item
<1>2. Column(want[c]) \in Int
  BY <1>1 DEF Column, Duration, Item
<1>3. /\ UNCHANGED <<remote, last, mapped, rows, inbox, queue>> /\ at[c] = "write"
      /\ local' = IF b \in rows THEN [local EXCEPT ![b][g] = Column(want[c])] ELSE local
  BY DEF Write, whatsapp
<1>4. \A a \in Addr, f \in Field :
        local'[a][f] = IF a = b /\ f = g /\ b \in rows THEN Column(want[c]) ELSE local[a][f]
  BY <1>1, <1>3
<1>5. local' \in [Addr -> [Field -> Int]] /\ lost' \in [Addr -> SUBSET Field]
  <2>1. local' \in [Addr -> [Field -> Int]]
    BY <1>1, <1>2, <1>3
  <2>2. lost' \in [Addr -> SUBSET Field]
    BY <1>1 DEF Write
  <2> QED BY <2>1, <2>2
<1>6. TypeOK'
  <2>1. at' \in [Command -> {"idle", "write", "done"}] /\ want' \in [Command -> Item]
    BY <1>1, EndsKeeps DEF Write
  <2> QED BY <1>1, <1>3, <1>5, <2>1 DEF Write, TypeOK, whatsapp, counters
<1>7. \A a \in Addr : Blank(a)'
  BY <1>3, <1>4 DEF IInv, Blank
<1>8. ASSUME NEW a \in Addr, NEW f \in Field PROVE Good(a, f)'
  <2>1. /\ Coming(a, f)' <=> Coming(a, f)
        /\ UnderWay(a, f)' <=> UnderWay(a, f)
    BY <1>3 DEF Coming, UnderWay, Held, Home, Flight
  <2>2. CASE ~(a = b /\ f = g) \/ b \notin rows
    <3>1. f \in lost[a] => f \in lost'[a]
      BY <1>1, <2>2 DEF Write
    <3>2. local'[a][f] = local[a][f]
      BY <1>4, <2>2
    <3> QED BY <1>3, <2>1, <3>1, <3>2 DEF IInv, Good, Settled, Same
  <2>3. CASE a = b /\ f = g /\ b \in rows /\ UnderWay(a, f)
    <3>1. lost' = lost
      BY <2>3 DEF Write
    <3> QED BY <2>1, <2>3, <3>1 DEF IInv, Good, Settled
  <2>4. CASE a = b /\ f = g /\ b \in rows /\ ~UnderWay(a, f)
    <3>1. CASE f \notin Newest(want[c])
      <4>1. lost' = [lost EXCEPT ![b] = @ \cup {g}]
        BY <2>4, <3>1 DEF Write
      <4> QED BY <1>1, <2>4, <4>1 DEF Good
    <3>2. CASE f \in Newest(want[c])
      <4>1. remote[f] = want[c].value
        BY <1>1, <1>3, <2>4, <3>2 DEF Fresh, Newest
      <4>2. local'[a][f] = Column(want[c])
        BY <1>4, <2>4
      <4>3. Same(a, f)'
        <5>1. CASE f = "muted" /\ want[c].value > 0
          <6>1. Column(want[c]) = now + Duration /\ want[c].value <= Second * (now + Duration)
            BY <1>1, <1>3, <2>4, <5>1 DEF Fresh, Column
          <6> QED BY <1>1, <1>3, <4>1, <4>2, <5>1, <6>1 DEF Same
        <5>2. CASE ~(f = "muted" /\ want[c].value > 0)
          BY <1>3, <2>4, <4>1, <4>2, <5>2 DEF Same, Column
        <5> QED BY <5>1, <5>2
      <4> QED BY <1>3, <2>1, <2>4, <4>3 DEF Good, Settled
    <3> QED BY <3>1, <3>2
  <2> QED BY <2>2, <2>3, <2>4
<1> QED BY <1>6, <1>7, <1>8

(* A step of Sync or of the session store, and the death of the process: the
   chat at WhatsApp and the columns stay. *)
LEMMA QuietKeeps ==
  ASSUME IInv, UNCHANGED <<whatsapp, local>>, rows \subseteq rows', rows' \subseteq Addr,
         inbox' \subseteq inbox, Flight' \subseteq Flight,
         queue' \subseteq queue \/ \E i \in Oldest(inbox) : inbox' = inbox \ {i} /\ queue' = queue \cup {i},
         \A c \in Command : at'[c] = "write" => at[c] = "write" /\ want'[c] = want[c],
         now' >= now, now' \in Nat
  PROVE  /\ Stamps' /\ (\A a \in Addr : Blank(a)') /\ (\A c \in Command : Fresh(c)')
         /\ inbox' \subseteq Item /\ queue' \subseteq Item
<1>1. inbox \subseteq Item /\ queue \subseteq Item /\ \A e \in Flight : e.n \in Nat
  BY DEF IInv, TypeOK, Flight, Item
<1>2. Stamps'
  BY <1>1, StampsKept DEF IInv, whatsapp
<1>3. \A a \in Addr : Blank(a)'
  BY DEF IInv, Blank
<1>4. \A c \in Command : Fresh(c)'
  BY FreshKept
<1>5. inbox' \subseteq Item /\ queue' \subseteq Item
  BY <1>1 DEF Oldest
<1> QED BY <1>2, <1>3, <1>4, <1>5

(* What only makes rows, or nothing, leaves every field as it stood. *)
LEMMA StillKeeps ==
  ASSUME IInv, UNCHANGED <<remote, last, local, lost, mapped>>, rows \subseteq rows',
         Flight' = Flight, NEW a \in Addr, NEW f \in Field
  PROVE  Good(a, f)'
<1>1. ASSUME NEW e \in Flight, Held(e) PROVE Held(e)'
  BY <1>1, HeldKept
<1> QED BY <1>1, GoodKept

LEMMA NextInv == IInv /\ [Next]_vars => IInv'
<1> SUFFICES ASSUME IInv, [Next]_vars PROVE IInv'
  OBVIOUS
<1> USE ChatStateAssumption DEF ChatStateAssumption, counters, commands, whatsapp, store
<1>t. TypeOK /\ now \in Nat /\ inbox \subseteq Item /\ queue \subseteq Item
      /\ lost \in [Addr -> SUBSET Field]
  BY DEF IInv, TypeOK
<1>f. ASSUME Happens PROVE happened' \in 0..MaxHappens
  BY <1>f, <1>t DEF Happens, TypeOK
<1>b. \A a \in Addr : Bare(a)' \subseteq Field
  BY DEF Bare, Newest
<1>1. ASSUME NEW e \in Changes, ChangedElsewhere(e) PROVE IInv'
  <2>1. Change(e) /\ UNCHANGED <<at, want, now>> /\ happened' \in 0..MaxHappens
    BY <1>1, <1>f DEF ChangedElsewhere
  <2>2. TypeOK'
    BY <1>t, <2>1, ChangeKeeps DEF Change, TypeOK
  <2>3. \A c \in Command : Fresh(c)'
    BY <2>1, ChangeFresh
  <2> QED BY <2>1, <2>2, <2>3, ChangeKeeps DEF IInv
<1>2. ASSUME NEW e \in Changes, NEW c \in Command, Call(c, e) PROVE IInv'
  <2>1. Change(e) /\ UNCHANGED now /\ at' = [at EXCEPT ![c] = "write"]
        /\ want' = [want EXCEPT ![c] = Stamped(e)] /\ happened' \in 0..MaxHappens
    BY <1>2, <1>f DEF Call
  <2>2. Stamped(e) \in Item
    BY <2>1, ChangeKeeps
  <2>3. at' \in [Command -> {"idle", "write", "done"}] /\ want' \in [Command -> Item]
    BY <1>t, <2>1, <2>2 DEF TypeOK
  <2>4. TypeOK'
    BY <1>t, <2>1, <2>3, ChangeKeeps DEF Change, TypeOK
  <2>5. ASSUME NEW d \in Command PROVE Fresh(d)'
    <3>1. CASE d = c
      <4>1. want'[c] = Stamped(e) /\ now' = now
        BY <1>t, <2>1 DEF TypeOK
      <4>2. /\ want'[c].field = e.field /\ want'[c].value = e.value /\ want'[c].n = sent'
            /\ sent' \in Nat /\ sent' = sent + 1 /\ sent \in Nat /\ e.field \in Field
        BY <1>t, <2>1, <4>1, ChangeKeeps, ChangesAreEvents DEF Stamped, TypeOK
      <4>3. remote'[e.field] = e.value
        BY <2>1, <4>2, ChangeKeeps DEF Val
      <4>4. e.field = "muted" => e.value <= Second * (now + Duration)
        BY <1>t, ChangesAreEvents
      <4> QED BY <3>1, <4>1, <4>2, <4>3, <4>4 DEF Fresh
    <3>2. CASE d # c
      <4>1. at'[d] = at[d] /\ want'[d] = want[d] /\ now' = now
        BY <1>t, <2>1, <3>2 DEF TypeOK
      <4> QED BY <2>1, <4>1, ChangeFresh
    <3> QED BY <3>1, <3>2
  <2> QED BY <2>1, <2>4, <2>5, ChangeKeeps DEF IInv
<1>3. ASSUME NEW e \in Changes, NEW c \in Command, CallFails(c, e) PROVE IInv'
  <2>1. /\ happened' \in 0..MaxHappens /\ UNCHANGED <<now, want>>
        /\ at' \in [Command -> {"idle", "write", "done"}]
        /\ \A d \in Command : at'[d] = "write" => at[d] = "write"
    BY <1>3, <1>f, <1>t DEF CallFails, TypeOK
  <2>2. CASE Change(e)
    <3>1. TypeOK'
      BY <1>t, <2>1, <2>2, ChangeKeeps DEF Change, TypeOK
    <3>2. \A d \in Command : Fresh(d)'
      BY <2>1, <2>2, ChangeFresh
    <3> QED BY <2>2, <3>1, <3>2, ChangeKeeps DEF IInv
  <2>3. CASE UNCHANGED <<whatsapp, mapped, store, inbox, queue, sync, lost>>
    <3>1. TypeOK'
      BY <1>t, <2>1, <2>3 DEF TypeOK
    <3>2. Flight' = Flight /\ rows' \subseteq Addr
      BY <1>t, <2>3 DEF Flight, TypeOK
    <3>3. Stamps' /\ (\A a \in Addr : Blank(a)') /\ \A d \in Command : Fresh(d)'
      BY <1>t, <2>1, <2>3, <3>2, QuietKeeps
    <3>4. \A a \in Addr, f \in Field : Good(a, f)'
      BY <2>3, <3>2, StillKeeps
    <3> QED BY <3>1, <3>3, <3>4 DEF IInv
  <2> QED BY <1>3, <2>2, <2>3 DEF CallFails
<1>4. ASSUME NEW c \in Command, Write(c) PROVE IInv'
  <2>1. UNCHANGED <<whatsapp, rows, inbox, queue, now>>
        /\ (\A d \in Command : at'[d] = "write" => at[d] = "write" /\ want'[d] = want[d])
    BY <1>4, <1>t, EndsKeeps DEF Write
  <2>2. Flight' = Flight /\ \A e \in Flight : e.n \in Nat
    BY <1>t, <2>1 DEF Flight, Item
  <2>3. Stamps'
    BY <2>1, <2>2, StampsKept DEF IInv
  <2>4. \A d \in Command : Fresh(d)'
    BY <1>t, <2>1, FreshKept
  <2> QED BY <1>4, <2>3, <2>4, WriteKeeps DEF IInv
<1>5. ASSUME NEW c \in Command, WriteFails(c) PROVE IInv'
  <2>1. /\ happened' \in 0..MaxHappens
        /\ at' \in [Command -> {"idle", "write", "done"}] /\ want' \in [Command -> Item]
        /\ \A d \in Command : at'[d] = "write" => at[d] = "write" /\ want'[d] = want[d]
        /\ UNCHANGED <<whatsapp, mapped, store, inbox, queue, sync, lost, now>>
    BY <1>5, <1>f, <1>t, EndsKeeps DEF WriteFails
  <2>2. TypeOK'
    BY <1>t, <2>1 DEF TypeOK
  <2>3. Flight' = Flight /\ rows' \subseteq Addr
    BY <1>t, <2>1 DEF Flight, TypeOK
  <2>4. Stamps' /\ (\A a \in Addr : Blank(a)') /\ \A d \in Command : Fresh(d)'
    BY <1>t, <2>1, <2>3, QuietKeeps
  <2>5. \A a \in Addr, f \in Field : Good(a, f)'
    BY <2>1, <2>3, StillKeeps
  <2> QED BY <2>2, <2>4, <2>5 DEF IInv
<1>6. ASSUME NEW a \in Addr, SendMessage(a) PROVE IInv'
  <2>0. PICK i : i = [Nothing EXCEPT !.n = sent + 1, !.addr = a]
    OBVIOUS
  <2>1. /\ i \in Item /\ i.n = sent + 1 /\ i.field = "message" /\ sent \in Nat
        /\ inbox' = inbox \cup {i} /\ sent' = sent + 1
    <3>1. sent \in Nat /\ sent + 1 \in Nat
      BY <1>t DEF TypeOK
    <3>2. i = [n |-> sent + 1, addr |-> a, field |-> "message", value |-> 0]
      BY <2>0 DEF Nothing
    <3>3. inbox' = inbox \cup {i} /\ sent' = sent + 1
      BY <1>6, <2>0 DEF SendMessage
    <3> QED BY <3>1, <3>2, <3>3 DEF Item
  <2>2. UNCHANGED <<remote, last, mapped, rows, local, queue, sync, at, want, lost, now>>
        /\ happened' \in 0..MaxHappens
    BY <1>6, <1>f DEF SendMessage
  <2>3. TypeOK'
    BY <1>t, <2>1, <2>2 DEF TypeOK
  <2>4. \A f \in Field : f \notin Touches(i)
    BY <2>1, MessagesTouchNothing
  <2>5. Stamps'
    BY <2>1, <2>2, <2>4, SentStamps
  <2>6. ASSUME NEW b \in Addr, NEW f \in Field PROVE Good(b, f)'
    <3>1. Flight' = Flight \cup {i}
      BY <2>1, <2>2 DEF Flight
    <3>2. CASE Coming(b, f)
      <4>1. PICK e \in Flight : e.addr = b /\ last[f] = e.n /\ Held(e)
        BY <3>2 DEF Coming
      <4>2. Held(e)'
        BY <2>2, <3>1, <4>1, HeldKept
      <4> QED BY <2>2, <3>1, <4>1, <4>2 DEF Good, Coming
    <3>3. CASE ~Coming(b, f)
      BY <2>2, <2>4, <3>1, <3>3 DEF IInv, Good, Settled, UnderWay, Same
    <3> QED BY <3>2, <3>3
  <2>7. \A b \in Addr : Blank(b)'
    BY <2>2 DEF IInv, Blank
  <2>8. \A c \in Command : Fresh(c)'
    BY <2>1, <2>2 DEF IInv, Fresh
  <2> QED BY <2>3, <2>5, <2>6, <2>7, <2>8 DEF IInv
<1>7. ASSUME NEW a \in Addr, OwnRow(a) PROVE IInv'
  <2>1. TypeOK' /\ UNCHANGED <<whatsapp, mapped, local, inbox, queue, at, want, lost, now>>
        /\ rows \subseteq rows' /\ rows' \subseteq Addr
    BY <1>7, <1>t DEF OwnRow, TypeOK
  <2>2. Flight' = Flight
    BY <2>1 DEF Flight
  <2>3. Stamps' /\ (\A b \in Addr : Blank(b)') /\ \A c \in Command : Fresh(c)'
    BY <1>t, <2>1, <2>2, QuietKeeps
  <2>4. \A b \in Addr, f \in Field : Good(b, f)'
    BY <2>1, <2>2, StillKeeps
  <2> QED BY <2>1, <2>3, <2>4 DEF IInv
<1>8. CASE Tick \/ Start \/ Cancelled \/ Unregister \/ Returns \/ UNCHANGED vars
  <2>1. UNCHANGED <<whatsapp, mapped, rows, local, inbox, queue, at, want, lost>>
        /\ now' \in Nat /\ now' >= now
    BY <1>8, <1>t DEF Tick, Start, Cancelled, Unregister, Returns, vars
  <2>2. sync' \in {"on", "late", "closing", "off"} /\ happened' \in 0..MaxHappens
    BY <1>8, <1>f, <1>t DEF Tick, Start, Cancelled, Unregister, Returns, vars, TypeOK
  <2>3. TypeOK'
    BY <1>t, <2>1, <2>2 DEF TypeOK
  <2>4. Flight' = Flight /\ rows' \subseteq Addr
    BY <1>t, <2>1 DEF Flight, TypeOK
  <2>5. Stamps' /\ (\A b \in Addr : Blank(b)') /\ \A c \in Command : Fresh(c)'
    BY <1>t, <2>1, <2>4, QuietKeeps
  <2>6. \A b \in Addr, f \in Field : Good(b, f)'
    BY <2>1, <2>4, StillKeeps
  <2> QED BY <2>3, <2>5, <2>6 DEF IInv
<1>9. CASE Deliver
  <2>1. PICK i \in Oldest(inbox) : inbox' = inbox \ {i} /\ queue' = queue \cup {i}
    BY <1>9 DEF Deliver
  <2>2. UNCHANGED <<whatsapp, mapped, store, sync, at, want, lost, counters>>
    BY <1>9 DEF Deliver
  <2>3. Flight' = Flight /\ rows' \subseteq Addr /\ inbox' \subseteq inbox
    BY <1>t, <2>1, <2>2 DEF Oldest, Flight, TypeOK
  <2>4. /\ Stamps' /\ (\A b \in Addr : Blank(b)') /\ \A c \in Command : Fresh(c)'
        /\ inbox' \subseteq Item /\ queue' \subseteq Item
    BY <1>t, <2>1, <2>2, <2>3, QuietKeeps
  <2>5. TypeOK'
    BY <1>t, <2>2, <2>4 DEF TypeOK
  <2>6. \A b \in Addr, f \in Field : Good(b, f)'
    BY <2>2, <2>3, StillKeeps
  <2> QED BY <2>4, <2>5, <2>6 DEF IInv
<1>10. CASE Learn
  <2>1. /\ UNCHANGED <<whatsapp, store, inbox, queue, sync, at, want, counters>>
        /\ mapped' = TRUE /\ lost' = [a \in Addr |-> lost[a] \cup Bare(a)']
    BY <1>10 DEF Learn
  <2>2. TypeOK'
    <3>1. lost' \in [Addr -> SUBSET Field]
      BY <1>t, <1>b, <2>1
    <3> QED BY <1>t, <2>1, <3>1 DEF TypeOK
  <2>3. Flight' = Flight /\ rows' \subseteq Addr
    BY <1>t, <2>1 DEF Flight, TypeOK
  <2>4. Stamps' /\ (\A b \in Addr : Blank(b)') /\ \A c \in Command : Fresh(c)'
    BY <1>t, <2>1, <2>3, QuietKeeps
  <2>5. \A b \in Addr, f \in Field : Good(b, f)'
    BY <2>1, <2>3, BareKept
  <2> QED BY <2>2, <2>4, <2>5 DEF IInv
<1>11. CASE Kill
  <2>1. /\ UNCHANGED <<whatsapp, mapped, store, inbox, counters>> /\ queue' = {} /\ sync' = "off"
        /\ \A a \in Addr : lost'[a] = lost[a] \cup Dropped(queue, a) \cup Bare(a)'
    BY <1>11 DEF Kill
  <2>2. /\ at' \in [Command -> {"idle", "write", "done"}] /\ want' \in [Command -> Item]
        /\ \A c \in Command : at'[c] # "write"
    <3>1. Nothing \in Item
      BY DEF Nothing, Item, Addr
    <3> QED BY <1>11, <1>t, <3>1 DEF Kill, TypeOK
  <2>3. TypeOK'
    <3>1. lost' \in [Addr -> SUBSET Field]
      <4>1. \A a \in Addr : Dropped(queue, a) \subseteq Field
        BY DEF Dropped, Newest
      <4> QED BY <1>11, <1>t, <1>b, <4>1 DEF Kill
    <3> QED BY <1>t, <2>1, <2>2, <3>1 DEF TypeOK
  <2>4. Flight' \subseteq Flight /\ rows' \subseteq Addr /\ Flight \subseteq Flight' \cup queue
    BY <1>t, <2>1 DEF Flight, TypeOK
  <2>5. Stamps' /\ (\A b \in Addr : Blank(b)') /\ \A c \in Command : Fresh(c)'
    BY <1>t, <2>1, <2>2, <2>4, QuietKeeps
  <2>6. ASSUME NEW b \in Addr, NEW f \in Field PROVE Good(b, f)'
    <3>1. ASSUME NEW e \in queue, e.addr = b, last[f] = e.n PROVE f \in lost'[b]
      BY <2>1, <3>1 DEF Dropped, Newest
    <3> QED BY <2>1, <2>4, <3>1, BareKept
  <2> QED BY <2>3, <2>5, <2>6 DEF IInv
<1>12. CASE Unheard
  <2>1. PICK i \in Oldest(inbox) :
          /\ inbox' = inbox \ {i}
          /\ UNCHANGED <<whatsapp, mapped, store, queue, sync, at, want, counters>>
          /\ lost' = [a \in Addr |-> lost[a] \cup Dropped({i}, a) \cup Bare(a)']
    BY <1>12 DEF Unheard
  <2>2. Flight' \subseteq Flight /\ rows' \subseteq Addr /\ Flight \subseteq Flight' \cup {i}
        /\ inbox' \subseteq inbox /\ i \in inbox
    BY <1>t, <2>1 DEF Flight, TypeOK, Oldest
  <2>3. TypeOK'
    <3>1. lost' \in [Addr -> SUBSET Field]
      <4>1. \A a \in Addr : Dropped({i}, a) \subseteq Field
        BY DEF Dropped, Newest
      <4> QED BY <1>t, <1>b, <2>1, <4>1
    <3> QED BY <1>t, <2>1, <2>2, <3>1 DEF TypeOK
  <2>4. Stamps' /\ (\A b \in Addr : Blank(b)') /\ \A c \in Command : Fresh(c)'
    BY <1>t, <2>1, <2>2, QuietKeeps
  <2>5. ASSUME NEW b \in Addr, NEW f \in Field PROVE Good(b, f)'
    <3>1. i.addr = b /\ last[f] = i.n => f \in lost'[b]
      BY <2>1 DEF Dropped, Newest
    <3>2. lost[b] \cup Bare(b)' \subseteq lost'[b]
      BY <2>1
    <3>3. f \notin lost'[b] => \A e \in Flight : e.addr = b /\ last[f] = e.n => e \in Flight'
      BY <2>2, <3>1
    <3> QED BY <2>1, <2>2, <3>2, <3>3, BareKept
  <2> QED BY <2>3, <2>4, <2>5 DEF IInv
<1>13. ASSUME NEW i \in Flight, ProcessMessage(i) PROVE IInv'
  <2>1. UNCHANGED <<whatsapp, mapped, local, sync, at, want, lost, counters>>
        /\ rows' = rows \cup {Home(i.addr)} /\ Taken(i)
    BY <1>13 DEF ProcessMessage
  <2>2. i \in Item /\ Stamps' /\ inbox' \subseteq Item /\ queue' \subseteq Item
    BY <2>1, TakenKeeps
  <2>3. TypeOK'
    <3>1. Home(i.addr) \in Addr
      BY <2>2 DEF Home, Addr, Item
    <3> QED BY <1>t, <2>1, <2>2, <3>1 DEF TypeOK
  <2>4. \A b \in Addr : Blank(b)'
    BY <2>1 DEF IInv, Blank
  <2>5. \A c \in Command : Fresh(c)'
    BY <1>t, <2>1, FreshKept
  <2>6. \A b \in Addr, f \in Field : Good(b, f)'
    BY <1>13, MessageKeeps
  <2> QED BY <2>2, <2>3, <2>4, <2>5, <2>6 DEF IInv
<1>14. ASSUME NEW i \in Flight, MessageFails(i) PROVE IInv'
  <2>1. /\ UNCHANGED <<whatsapp, mapped, local, sync, at, want, now>>
        /\ happened' \in 0..MaxHappens /\ i.field = "message" /\ Taken(i)
        /\ rows' = rows \/ rows' = rows \cup {i.addr}
        /\ lost' = [a \in Addr |-> lost[a] \cup Bare(a)']
    BY <1>14, <1>f DEF MessageFails
  <2>2. i \in Item /\ Stamps' /\ inbox' \subseteq Item /\ queue' \subseteq Item /\ Flight' = Flight \ {i}
    BY <2>1, TakenKeeps
  <2>3. TypeOK'
    <3>1. lost' \in [Addr -> SUBSET Field]
      BY <1>t, <1>b, <2>1
    <3>2. i.addr \in Addr
      BY <2>2 DEF Item
    <3> QED BY <1>t, <2>1, <2>2, <3>1, <3>2 DEF TypeOK
  <2>4. \A b \in Addr : Blank(b)'
    BY <2>1 DEF IInv, Blank
  <2>5. \A c \in Command : Fresh(c)'
    BY <1>t, <2>1, FreshKept
  <2>6. ASSUME NEW b \in Addr, NEW f \in Field PROVE Good(b, f)'
    <3>1. last[f] # i.n
      BY <2>1, MessageNotLast
    <3> QED BY <2>1, <2>2, <3>1, BareKept
  <2> QED BY <2>2, <2>3, <2>4, <2>5, <2>6 DEF IInv
<1>15. ASSUME NEW i \in Flight, Process(i) \/ ProcessInline(i) PROVE IInv'
  <2>1. /\ UNCHANGED <<whatsapp, mapped, rows, sync, at, want, counters>>
        /\ i.field \in Field /\ Taken(i) /\ local' = Stored(i, {})
    BY <1>15 DEF Process, ProcessInline, Taken
  <2>2. i \in Item /\ Stamps' /\ inbox' \subseteq Item /\ queue' \subseteq Item
    BY <2>1, TakenKeeps
  <2>3. TypeOK'
    <3>1. lost' \in [Addr -> SUBSET Field]
      <4>1. Newest(i) \subseteq Field /\ i.addr \in Addr
        BY <2>2 DEF Newest, Item
      <4>2. CASE Process(i)
        BY <1>t, <4>1, <4>2 DEF Process, Heard
      <4>3. CASE ProcessInline(i)
        BY <1>t, <4>1, <4>3 DEF ProcessInline
      <4> QED BY <1>15, <4>2, <4>3
    <3>2. local' \in [Addr -> [Field -> Int]]
      BY <1>t, <2>1, <2>2, StoredVal
    <3> QED BY <1>t, <2>1, <2>2, <3>1, <3>2 DEF TypeOK
  <2>4. \A b \in Addr : Blank(b)'
    BY <1>t, <2>1, <2>2, StoredVal DEF IInv, Blank
  <2>5. \A c \in Command : Fresh(c)'
    BY <1>t, <2>1, FreshKept
  <2>6. \A b \in Addr, f \in Field : Good(b, f)'
    BY <1>15, ProcessKeeps
  <2> QED BY <2>2, <2>3, <2>4, <2>5, <2>6 DEF IInv
<1>16. ASSUME NEW i \in Flight, ProcessFails(i) PROVE IInv'
  <2>1. /\ UNCHANGED <<whatsapp, mapped, rows, sync, at, want, now>>
        /\ happened' \in 0..MaxHappens /\ i.field \in Field /\ Taken(i)
        /\ \E failed \in SUBSET Touches(i) : local' = Stored(i, failed)
        /\ lost' = [lost EXCEPT ![i.addr] = @ \cup Newest(i)]
    BY <1>16, <1>f DEF ProcessFails
  <2>2. i \in Item /\ Stamps' /\ inbox' \subseteq Item /\ queue' \subseteq Item
    BY <2>1, TakenKeeps
  <2>3. TypeOK'
    <3>1. lost' \in [Addr -> SUBSET Field]
      BY <1>t, <2>1 DEF Newest
    <3>2. local' \in [Addr -> [Field -> Int]]
      BY <1>t, <2>1, <2>2, StoredVal
    <3> QED BY <1>t, <2>1, <2>2, <3>1, <3>2 DEF TypeOK
  <2>4. \A b \in Addr : Blank(b)'
    BY <1>t, <2>1, <2>2, StoredVal DEF IInv, Blank
  <2>5. \A c \in Command : Fresh(c)'
    BY <1>t, <2>1, FreshKept
  <2>6. \A b \in Addr, f \in Field : Good(b, f)'
    BY <1>16, FailureKeeps
  <2> QED BY <2>2, <2>3, <2>4, <2>5, <2>6 DEF IInv
<1> QED
  BY <1>1, <1>2, <1>3, <1>4, <1>5, <1>6, <1>7, <1>8, <1>9, <1>10, <1>11, <1>12, <1>13,
     <1>14, <1>15, <1>16 DEF Next
-----------------------------------------------------------------------------
(* The state is well-formed. *)
THEOREM TypeCorrect == Spec => []TypeOK
<1>1. IInv => TypeOK
  BY DEF IInv
<1> QED BY InitInv, NextInv, <1>1, PTL DEF Spec

(* chats list tells what the chat is at WhatsApp, in whatever order commands,
   other devices, the worker of Sync and inline handlers make, write and
   process changes, and wherever Sync is cancelled or its process dies. *)
THEOREM ListIsTrue == Spec => []ListTellsTruth
<1>1. IInv => ListTellsTruth
  <2> SUFFICES ASSUME IInv, NEW a \in rows, NEW f \in Field \ lost[a],
                      ~\E e \in Flight : e.addr = a /\ f \in Newest(e)
               PROVE  Listed(a, f) = Holds(f) \/ (f = "muted" /\ Listed(a, f) /\ remote[f] > 0)
    BY DEF ListTellsTruth
  <2>1. a \in Addr /\ local[a][f] \in Int /\ remote[f] \in Int /\ now \in Nat
    BY DEF IInv, TypeOK
  <2>2. ~Coming(a, f)
    BY DEF Coming, Newest
  <2>3. Same(a, f)
    BY <2>1, <2>2 DEF IInv, Good, Settled
  <2>4. CASE f = "muted" /\ remote[f] > 0 /\ Second * local[a][f] >= remote[f]
    <3>1. remote[f] > Second * now => local[a][f] > now
      BY <2>1, <2>4 DEF Second
    <3> QED BY <2>1, <2>4, <3>1 DEF Listed, Holds
  <2>5. CASE local[a][f] = remote[f]
    <3>1. remote[f] > Second * now => local[a][f] > now
      BY <2>1, <2>5 DEF Second
    <3>2. local[a][f] > now => remote[f] > 0
      BY <2>1, <2>5
    <3> QED BY <2>1, <2>5, <3>1, <3>2 DEF Listed, Holds
  <2> QED BY <2>3, <2>4, <2>5 DEF Same
<1> QED BY InitInv, NextInv, <1>1, PTL DEF Spec
=============================================================================
