---------------------------- MODULE MessageProofs ----------------------------
(***************************************************************************)
(* What is proved of the rows of messages: of MessageStore, for any        *)
(* messages, writers and bounds, and of Backfill, which fills a chat with  *)
(* older ones, for any chat, callers and bounds.                           *)
(*                                                                         *)
(* That rows only gain follows from the merge rule alone.  That a chat is  *)
(* as recent as its messages needs the writers between their two upserts:  *)
(* what they hold is already covered (PendingCovered), and stays so since  *)
(* the time of a chat never goes back.                                     *)
(*                                                                         *)
(* That a backfill leaves no hole needs the order of the queue: whatever   *)
(* is missing above a queued message is queued before it (QueueInOrder).   *)
(* It stays so when an answer is appended because requests start at rows   *)
(* (AskedFromRows), above which nothing is missing; and because batches    *)
(* are whole, all that a call was told of is stored or queued              *)
(* (AnswersDelivered).                                                     *)
(***************************************************************************)
EXTENDS MessageStore, Backfill, SequenceTheorems, WellFoundedInduction, TLAPS

PendingCovered ==
    \A w \in Writer : writer[w].op = "store" =>
        LET a == writer[w].at[1] IN
        a \in skipped \/ (a \in DOMAIN chats /\ writer[w].new.ts <= chats[a])

CoverInv == TypeOK /\ PendingCovered /\ ChatCoversRows

OnlyNumber ==
    /\ lidKnown
    /\ \A k \in DOMAIN rows : k[1] = "pn"
    /\ \A w \in Writer : writer[w] # Idle => writer[w].at[1] = "pn"

(* What is parsed from an event of m has the types of a row. *)
LEMMA DeliveriesType ==
  ASSUME TypeOK, NEW m \in Message, NEW p \in Deliveries(m)
  PROVE  p \in Parsed
<1>1. /\ origin[m].times \in Seq(1..MaxTime) /\ Len(origin[m].times) \in 1..MaxVersion
      /\ \A v \in 1..Len(origin[m].times) : origin[m].times[v] \in 0..MaxTime
  BY StoreAssumption DEF StoreAssumption, TypeOK, Origin, Deliveries, Sent, Current
<1>2. p \in ParseLiveMessage(m) \cup ParseEditEvent(m) \cup ParseHistoryMessage(m)
  BY DEF Deliveries
<1> DEFINE media == m \in HasMedia
<1>3. media \in BOOLEAN
  BY SMT
<1>4. ParseLiveMessage(m) =
          {[ts |-> origin[m].times[1], text |-> 1, media |-> media, key |-> media]}
  BY DEF ParseLiveMessage
<1>5. ParseHistoryMessage(m) \subseteq
          {[ts |-> origin[m].times[1], text |-> v, media |-> media, key |-> media] :
              v \in 1..Len(origin[m].times)}
          \cup {[ts |-> origin[m].times[1], text |-> NoText, media |-> FALSE, key |-> FALSE]}
  BY DEF ParseHistoryMessage, Current
<1> HIDE DEF media
<1>6. CASE p \in ParseLiveMessage(m)
  BY <1>1, <1>6, <1>3, <1>4, StoreAssumption DEF StoreAssumption, Parsed
<1>7. CASE p \in ParseEditEvent(m)
  BY <1>1, <1>7, StoreAssumption DEF StoreAssumption, ParseEditEvent, Parsed, Current
<1>8. CASE p \in ParseHistoryMessage(m)
  <2>1. CASE p = [ts |-> origin[m].times[1], text |-> NoText, media |-> FALSE, key |-> FALSE]
    BY <1>1, <2>1, StoreAssumption DEF StoreAssumption, Parsed, NoText
  <2>2. ASSUME NEW v \in 1..Len(origin[m].times),
               p = [ts |-> origin[m].times[1], text |-> v, media |-> media, key |-> media]
        PROVE  p \in Parsed
    BY <1>1, <1>3, <2>2, StoreAssumption DEF StoreAssumption, Parsed
  <2>3. QED
    BY <1>5, <1>8, <2>1, <2>2
<1>9. QED
  BY <1>2, <1>6, <1>7, <1>8

(* A new version keeps the times within the clock and the count in its bound. *)
LEMMA NewVersionType ==
  ASSUME TypeOK, NEW m \in Message, NewVersion(m), now < MaxTime, Current(m) < MaxVersion
  PROVE  /\ now' \in 0..MaxTime
         /\ origin' \in [Message -> Origin]
         /\ (\A n \in Message : Current(n) <= MaxVersion)'
<1> USE StoreAssumption DEF StoreAssumption
<1>1. now' \in 1..MaxTime /\ now' = now + 1
  BY DEF TypeOK, NewVersion
<1>2. origin[m].times \in Seq(1..MaxTime)
  BY DEF TypeOK, Origin
<1>3. /\ Append(origin[m].times, now + 1) \in Seq(1..MaxTime)
      /\ Len(Append(origin[m].times, now + 1)) = Len(origin[m].times) + 1
  BY <1>1, <1>2
<1>4. origin' = [origin EXCEPT ![m].times = Append(@, now + 1)]
  BY DEF NewVersion
<1>5. origin' \in [Message -> Origin]
  BY <1>3, <1>4 DEF TypeOK, Origin
<1>6. ASSUME NEW n \in Message PROVE Len(origin'[n].times) <= MaxVersion
  <2>1. CASE n = m
    BY <1>2, <1>3, <1>4, <2>1 DEF TypeOK, Origin, Current
  <2>2. CASE n # m
    BY <1>4, <2>2 DEF TypeOK, Origin, Current
  <2>3. QED
    BY <2>1, <2>2
<1>7. QED
  BY <1>1, <1>5, <1>6 DEF Current

(* Every action is typed, and stores a message only under a chat there is. *)
LEMMA TypeStep ==
  ASSUME TypeOK, [Next]_vars
  PROVE  TypeOK'
<1>1. ASSUME NEW m \in Message, SayElsewhere(m) PROVE TypeOK'
  <2>1. Current(m) < MaxVersion
    BY <1>1, StoreAssumption DEF StoreAssumption, SayElsewhere, Sent, Current
  <2>2. QED
    BY <1>1, <2>1, NewVersionType DEF SayElsewhere, TypeOK
<1>2. ASSUME NEW m \in Message, EditElsewhere(m) PROVE TypeOK'
  BY <1>2, NewVersionType DEF EditElsewhere, CanChange, TypeOK
<1>3. ASSUME NEW m \in Message, RevokeElsewhere(m) PROVE TypeOK'
  BY <1>3 DEF RevokeElsewhere, TypeOK, Origin, Current
<1>4. ASSUME LearnMapping PROVE TypeOK'
  BY <1>4 DEF LearnMapping, TypeOK, Current
<1>5. ASSUME NEW w \in Writer, NEW m \in Message, NEW a \in Addr, NEW p \in Deliveries(m), StoreChat(w, m, a, p) PROVE TypeOK'
  <2>1. p \in Parsed /\ ResolveLIDToPN(a) \in Addr /\ p.ts \in 0..MaxTime
    BY DeliveriesType DEF ResolveLIDToPN, Addr, Parsed
  <2>2. writer' \in [Writer -> {Idle} \cup Busy]
    <3>1. [op |-> "store", at |-> <<ResolveLIDToPN(a), m>>, new |-> p] \in Busy
      BY <2>1 DEF Busy, Key
    <3>2. QED
      BY <1>5, <3>1 DEF StoreChat, TypeOK
  <2>3. /\ DOMAIN chats' \subseteq Addr /\ DOMAIN chats \subseteq DOMAIN chats'
        /\ \A b \in DOMAIN chats' : chats'[b] \in 0..MaxTime
    BY <1>5, <2>1 DEF StoreChat, UpsertChat, Put, TypeOK
  <2>4. QED
    BY <1>5, <2>2, <2>3 DEF StoreChat, TypeOK, Current
<1>6. ASSUME NEW w \in Writer, NEW m \in Message, NEW a \in Addr, ProcessRevoke(w, m, a) PROVE TypeOK'
  <2>1. /\ DOMAIN rows' = DOMAIN rows
        /\ \A k \in DOMAIN rows : rows'[k] \in Row
    BY <1>6 DEF ProcessRevoke, MarkRevoked, TypeOK, Row
  <2>2. QED
    BY <1>6, <2>1 DEF ProcessRevoke, TypeOK, Current
<1>7. ASSUME NEW w \in Writer, StoreMessage(w) PROVE TypeOK'
  <2>1. writer[w] \in Busy
    BY <1>7 DEF StoreMessage, TypeOK, Idle
  <2>2. writer[w].at \in Key /\ writer[w].new \in Parsed
    BY <2>1 DEF Busy
  <2>3. writer' \in [Writer -> {Idle} \cup Busy]
    BY <1>7 DEF StoreMessage, TypeOK
  <2>4. /\ DOMAIN rows' \subseteq Key
        /\ \A k \in DOMAIN rows' : k[1] \in DOMAIN chats
        /\ \A k \in DOMAIN rows' : rows'[k] \in Row
    <3>1. Fresh(writer[w].new) \in Row
      BY <2>2 DEF Fresh, Row, Parsed
    <3>2. ASSUME NEW k \in DOMAIN rows PROVE Merge(rows[k], writer[w].new) \in Row
      <4>1. rows[k] \in Row
        BY DEF TypeOK
      <4>2. (writer[w].new.key \/ rows[k].key) \in BOOLEAN
        BY Zenon
      <4>3. QED
        BY <2>2, <4>1, <4>2 DEF Merge, Row, Parsed
    <3>3. QED
      BY <1>7, <2>2, <3>1, <3>2 DEF StoreMessage, UpsertMessage, Put, TypeOK
  <2>5. QED
    BY <1>7, <2>3, <2>4 DEF StoreMessage, TypeOK, Current
<1>8. ASSUME NEW w \in Writer, NEW m \in Message, NEW a \in Addr, SendMessage(w, m, a) PROVE TypeOK'
  <2>1. Current(m) < MaxVersion
    BY <1>8, StoreAssumption DEF StoreAssumption, SendMessage, Sent, Current
  <2>2. now + 1 \in 0..MaxTime /\ 1 \in 0..MaxVersion /\ a \in Addr
    BY <1>8, StoreAssumption DEF StoreAssumption, SendMessage, TypeOK
  <2>3. [op |-> "sent", at |-> <<a, m>>,
         new |-> [ts |-> now + 1, text |-> 1, media |-> m \in HasMedia, key |-> m \in HasMedia]] \in Busy
    BY <2>2 DEF Busy, Key, Parsed
  <2>4. writer' \in [Writer -> {Idle} \cup Busy]
    BY <1>8, <2>3 DEF SendMessage, TypeOK
  <2>5. QED
    BY <1>8, <2>1, <2>4, NewVersionType DEF SendMessage, TypeOK
<1>9. ASSUME NEW w \in Writer, PersistChat(w) PROVE TypeOK'
  <2>1. writer[w] \in Busy
    BY <1>9 DEF PersistChat, TypeOK, Idle
  <2>2. writer[w].at \in Key /\ writer[w].at[1] \in Addr /\ writer[w].new.ts \in 0..MaxTime
    BY <2>1 DEF Busy, Key, Parsed
  <2>3. writer' \in [Writer -> {Idle} \cup Busy]
    BY <1>9, <2>1 DEF PersistChat, TypeOK, Busy
  <2>4. /\ DOMAIN chats' \subseteq Addr /\ DOMAIN chats \subseteq DOMAIN chats'
        /\ \A b \in DOMAIN chats' : chats'[b] \in 0..MaxTime
        /\ skipped' \subseteq Addr
    BY <1>9, <2>2 DEF PersistChat, UpsertChat, Put, TypeOK
  <2>5. QED
    BY <1>9, <2>3, <2>4 DEF PersistChat, TypeOK, Current
<1>10. ASSUME NEW w \in Writer, NEW k \in DOMAIN rows, EditMessage(w, k) PROVE TypeOK'
  <2>1. k \in Key /\ k[2] \in Message /\ rows[k].ts \in 0..MaxTime
    BY DEF TypeOK, Key, Row
  <2>2. Current(k[2]) < MaxVersion /\ now < MaxTime /\ Current(k[2]) \in Nat
    BY <1>10, <2>1 DEF EditMessage, CanChange, TypeOK, Origin, Current
  <2>3. [op |-> "store", at |-> k,
         new |-> [ts |-> rows[k].ts, text |-> Current(k[2]) + 1, media |-> FALSE, key |-> FALSE]] \in Busy
    BY <2>1, <2>2, StoreAssumption DEF StoreAssumption, Busy, Parsed
  <2>4. writer' \in [Writer -> {Idle} \cup Busy]
    BY <1>10, <2>3 DEF EditMessage, TypeOK
  <2>5. QED
    BY <1>10, <2>1, <2>2, <2>4, NewVersionType DEF EditMessage, TypeOK
<1>11. ASSUME NEW w \in Writer, NEW k \in DOMAIN rows, DeleteMessage(w, k) PROVE TypeOK'
  <2>1. k \in Key /\ k[2] \in Message
    BY DEF TypeOK, Key
  <2>2. [op |-> "mark", at |-> k, new |-> Empty] \in Busy
    BY <2>1, StoreAssumption DEF StoreAssumption, Busy, Parsed, Empty, NoText
  <2>3. QED
    BY <1>11, <2>1, <2>2 DEF DeleteMessage, TypeOK, Origin, Current
<1>12. ASSUME NEW w \in Writer, MarkDeleted(w) PROVE TypeOK'
  <2>1. /\ DOMAIN rows' = DOMAIN rows
        /\ \A k \in DOMAIN rows : rows'[k] \in Row
    BY <1>12 DEF MarkDeleted, MarkRevoked, TypeOK, Row
  <2>2. QED
    BY <1>12, <2>1 DEF MarkDeleted, TypeOK, Current
<1>13. ASSUME NEW w \in Writer, Abandon(w) PROVE TypeOK'
  BY <1>13 DEF Abandon, TypeOK, Current
<1>14. ASSUME NEW k \in DOMAIN rows, DownloadMedia(k) PROVE TypeOK'
  <2>1. /\ DOMAIN rows' = DOMAIN rows
        /\ \A l \in DOMAIN rows : rows'[l] \in Row
    BY <1>14 DEF DownloadMedia, TypeOK, Row
  <2>2. QED
    BY <1>14, <2>1 DEF DownloadMedia, TypeOK, Current
<1>15. CASE UNCHANGED vars
  BY <1>15 DEF vars, TypeOK, Current
<1>16. QED
  BY <1>1, <1>2, <1>3, <1>4, <1>5, <1>6, <1>7, <1>8, <1>9, <1>10, <1>11, <1>12, <1>13, <1>14, <1>15 DEF Next, Upstream, Processing, Commands

LEMMA TypeInit == Init => TypeOK
  BY StoreAssumption DEF StoreAssumption, Init, TypeOK, Origin, Current

(* The columns have their types, and every message has its chat. *)
THEOREM TypeCorrect == Spec => []TypeOK
<1>1. QED
  BY TypeInit, TypeStep, PTL DEF Spec

(* Whatever the next step: each row it leaves has gained, not lost. *)
LEMMA GainStep ==
  ASSUME TypeOK, [Next]_vars, NEW k \in DOMAIN rows
  PROVE  /\ k \in DOMAIN rows'
         /\ rows[k].revoked => rows'[k].revoked
         /\ rows[k].key => rows'[k].key
         /\ rows[k].file => rows'[k].file
<1> DEFINE Goal == /\ k \in DOMAIN rows'
                   /\ rows[k].revoked => rows'[k].revoked
                   /\ rows[k].key => rows'[k].key
                   /\ rows[k].file => rows'[k].file
<1>1. CASE rows' = rows
  BY <1>1
<1>2. ASSUME NEW row \in Key, rows' = MarkRevoked(row) PROVE Goal
  BY <1>2 DEF MarkRevoked, TypeOK, Row
<1>3. ASSUME NEW row \in Key, NEW new \in Parsed, rows' = UpsertMessage(row, new) PROVE Goal
  <2>1. CASE rows' = rows
    BY <2>1
  <2>2. CASE rows' # rows /\ k # row
    BY <1>3, <2>2 DEF UpsertMessage, Put
  <2>3. CASE rows' # rows /\ k = row
    BY <1>3, <2>3 DEF UpsertMessage, Put, Merge
  <2>4. QED
    BY <2>1, <2>2, <2>3
<1>4. ASSUME NEW w \in Writer, StoreMessage(w) PROVE Goal
  <2>1. writer[w] \in Busy
    BY <1>4 DEF StoreMessage, TypeOK, Idle
  <2>2. writer[w].at \in Key /\ writer[w].new \in Parsed
    BY <2>1 DEF Busy
  <2>3. QED
    BY <1>3, <1>4, <2>2 DEF StoreMessage
<1>5. ASSUME NEW w \in Writer, MarkDeleted(w) PROVE Goal
  <2>1. writer[w] \in Busy
    BY <1>5 DEF MarkDeleted, TypeOK, Idle
  <2>2. QED
    BY <1>2, <1>5, <2>1 DEF MarkDeleted, Busy
<1>6. ASSUME NEW w \in Writer, NEW m \in Message, NEW a \in Addr, ProcessRevoke(w, m, a) PROVE Goal
  BY <1>2, <1>6 DEF ProcessRevoke, Key
<1>7. ASSUME NEW l \in DOMAIN rows, DownloadMedia(l) PROVE Goal
  BY <1>7 DEF DownloadMedia, TypeOK, Row
<1>8. QED
  BY <1>1, <1>4, <1>5, <1>6, <1>7 DEF Next, vars, Upstream, Processing, Commands, SayElsewhere,
     EditElsewhere, RevokeElsewhere, LearnMapping, StoreChat, SendMessage, PersistChat,
     EditMessage, DeleteMessage, Abandon

(* What was revoked, keyed or downloaded stays so, for any number of writers. *)
THEOREM NothingForgotten == Spec => RowsOnlyGain
<1>1. TypeOK /\ [Next]_vars =>
        [\A k \in DOMAIN rows :
           /\ k \in DOMAIN rows'
           /\ rows[k].revoked => rows'[k].revoked
           /\ rows[k].key => rows'[k].key
           /\ rows[k].file => rows'[k].file]_vars
  BY GainStep
<1>2. QED
  BY <1>1, TypeCorrect, PTL DEF Spec, RowsOnlyGain

(* The time of a chat never goes back, and a chat once failed stays noted. *)
LEMMA ChatsGrow ==
  ASSUME TypeOK, [Next]_vars
  PROVE  /\ DOMAIN chats \subseteq DOMAIN chats'
         /\ \A a \in DOMAIN chats : chats[a] <= chats'[a]
         /\ skipped \subseteq skipped'
<1> DEFINE Goal == /\ DOMAIN chats \subseteq DOMAIN chats'
                   /\ \A a \in DOMAIN chats : chats[a] <= chats'[a]
                   /\ skipped \subseteq skipped'
<1>1. CASE UNCHANGED <<chats, skipped>>
  BY <1>1 DEF TypeOK
<1>2. ASSUME NEW a, NEW ts \in 0..MaxTime, chats' = UpsertChat(a, ts), skipped' = skipped PROVE Goal
  BY <1>2, StoreAssumption DEF StoreAssumption, UpsertChat, Put, TypeOK
<1>3. ASSUME NEW w \in Writer, PersistChat(w) PROVE Goal
  <2>1. writer[w] \in Busy
    BY <1>3 DEF PersistChat, TypeOK, Idle
  <2>2. writer[w].new.ts \in 0..MaxTime
    BY <2>1 DEF Busy, Parsed
  <2>3. CASE UNCHANGED chats /\ skipped' = skipped \cup {writer[w].at[1]}
    BY <2>3 DEF TypeOK
  <2>4. QED
    BY <1>2, <1>3, <2>2, <2>3 DEF PersistChat
<1>4. ASSUME NEW w \in Writer, NEW m \in Message, NEW a \in Addr, NEW p \in Deliveries(m),
             StoreChat(w, m, a, p)
      PROVE  Goal
  <2>1. p.ts \in 0..MaxTime
    BY DeliveriesType DEF Parsed
  <2>2. QED
    BY <1>2, <1>4, <2>1 DEF StoreChat
<1>5. QED
  BY <1>1, <1>3, <1>4 DEF Next, vars, Upstream, Processing, Commands, SayElsewhere,
     EditElsewhere, RevokeElsewhere, LearnMapping, StoreMessage, ProcessRevoke, SendMessage,
     EditMessage, DeleteMessage, MarkDeleted, Abandon, DownloadMedia

(* What a writer is about to store is no newer than its chat. *)
LEMMA PendingStep ==
  ASSUME CoverInv, [Next]_vars
  PROVE  PendingCovered'
<1> SUFFICES ASSUME NEW u \in Writer, writer'[u].op = "store"
             PROVE  LET a == writer'[u].at[1] IN
                    a \in skipped' \/ (a \in DOMAIN chats' /\ writer'[u].new.ts <= chats'[a])
  BY DEF PendingCovered
<1> DEFINE Goal == LET a == writer'[u].at[1] IN
                   a \in skipped' \/ (a \in DOMAIN chats' /\ writer'[u].new.ts <= chats'[a])
<1>1. /\ DOMAIN chats \subseteq DOMAIN chats'
      /\ \A a \in DOMAIN chats : chats[a] <= chats'[a]
      /\ skipped \subseteq skipped'
      /\ \A a \in DOMAIN chats : chats[a] \in Nat
      /\ \A a \in DOMAIN chats' : chats'[a] \in Nat
  BY ChatsGrow, TypeStep, StoreAssumption DEF CoverInv, TypeOK, StoreAssumption
<1>2. CASE writer'[u] = writer[u]
  <2>1. writer[u] \in Busy
    BY <1>2 DEF CoverInv, TypeOK, Idle
  <2>2. writer[u].new.ts \in Nat
    BY <2>1, StoreAssumption DEF Busy, Parsed, StoreAssumption
  <2>3. QED
    BY <1>1, <1>2, <2>2 DEF CoverInv, PendingCovered
<1>3. ASSUME NEW m \in Message, NEW a \in Addr, NEW p \in Deliveries(m), StoreChat(u, m, a, p)
      PROVE  Goal
  <2>1. p.ts \in 0..MaxTime
    BY DeliveriesType DEF Parsed, CoverInv
  <2>2. writer'[u].at[1] = ResolveLIDToPN(a) /\ writer'[u].new = p
    BY <1>3 DEF StoreChat, CoverInv, TypeOK
  <2>3. ResolveLIDToPN(a) \in DOMAIN chats' /\ p.ts <= chats'[ResolveLIDToPN(a)]
    BY <1>3, <2>1, StoreAssumption DEF StoreAssumption, StoreChat, UpsertChat, Put, CoverInv, TypeOK
  <2>4. QED
    BY <2>2, <2>3
<1>4. CASE PersistChat(u)
  <2>1. writer[u] \in Busy
    BY <1>4 DEF PersistChat, CoverInv, TypeOK, Idle
  <2>2. writer[u].new.ts \in 0..MaxTime
    BY <2>1 DEF Busy, Parsed
  <2>3. writer'[u].at = writer[u].at /\ writer'[u].new = writer[u].new
    BY <1>4 DEF PersistChat, CoverInv, TypeOK
  <2>4. CASE skipped' = skipped \cup {writer[u].at[1]}
    BY <2>3, <2>4
  <2>5. CASE chats' = UpsertChat(writer[u].at[1], writer[u].new.ts)
    BY <2>2, <2>3, <2>5, StoreAssumption DEF StoreAssumption, UpsertChat, Put, CoverInv, TypeOK
  <2>6. QED
    BY <1>4, <2>4, <2>5 DEF PersistChat
<1>5. ASSUME NEW k \in DOMAIN rows, EditMessage(u, k) PROVE Goal
  <2>1. writer'[u].at = k /\ writer'[u].new.ts = rows[k].ts
    BY <1>5 DEF EditMessage, CoverInv, TypeOK
  <2>2. rows[k].ts \in Nat /\ k[1] \in DOMAIN chats
    BY StoreAssumption DEF StoreAssumption, CoverInv, TypeOK, Row
  <2>3. k[1] \in skipped \/ rows[k].ts <= chats[k[1]]
    BY DEF CoverInv, ChatCoversRows
  <2>4. QED
    BY <1>1, <2>1, <2>2, <2>3
<1>6. CASE writer'[u] # writer[u]
  <2>1. ASSUME NEW w \in Writer, NEW r, writer' = [writer EXCEPT ![w] = r], r.op # "store" PROVE FALSE
    BY <1>6, <2>1 DEF CoverInv, TypeOK
  <2>2. \A w \in Writer : writer' = [writer EXCEPT ![w] = Idle] => FALSE
    <3>1. Idle.op # "store"
      BY DEF Idle
    <3>2. QED
      BY <2>1, <3>1
  <2>3. ASSUME NEW w \in Writer, NEW m \in Message, NEW a \in Addr, SendMessage(w, m, a) PROVE FALSE
    <3>1. PICK new : writer' = [writer EXCEPT ![w] = [op |-> "sent", at |-> <<a, m>>, new |-> new]]
      BY <2>3 DEF SendMessage
    <3> DEFINE r == [op |-> "sent", at |-> <<a, m>>, new |-> new]
    <3>2. r.op # "store"
      OBVIOUS
    <3>3. writer' = [writer EXCEPT ![w] = r]
      BY <3>1
    <3> HIDE DEF r
    <3>4. QED
      BY <2>1, <3>2, <3>3
  <2>4. ASSUME NEW w \in Writer, NEW k \in DOMAIN rows, DeleteMessage(w, k) PROVE FALSE
    <3> DEFINE r == [op |-> "mark", at |-> k, new |-> Empty]
    <3>1. r.op # "store"
      OBVIOUS
    <3>2. writer' = [writer EXCEPT ![w] = r]
      BY <2>4 DEF DeleteMessage
    <3> HIDE DEF r
    <3>3. QED
      BY <2>1, <3>1, <3>2
  <2>5. ASSUME NEW w \in Writer, StoreMessage(w) \/ MarkDeleted(w) \/ Abandon(w) PROVE FALSE
    BY <2>2, <2>5 DEF StoreMessage, MarkDeleted, Abandon
  <2>6. ASSUME NEW w \in Writer, w # u, NEW r, writer' = [writer EXCEPT ![w] = r] PROVE FALSE
    BY <1>6, <2>6 DEF CoverInv, TypeOK
  <2>7. ASSUME NEW w \in Writer, w # u, PersistChat(w) PROVE FALSE
    BY <1>6, <2>7 DEF PersistChat, CoverInv, TypeOK
  <2>8. ASSUME NEW w \in Writer, w # u, NEW m \in Message, NEW a \in Addr, NEW p \in Deliveries(m),
               StoreChat(w, m, a, p)
        PROVE  FALSE
    BY <2>6, <2>8 DEF StoreChat
  <2>9. ASSUME NEW w \in Writer, w # u, NEW k \in DOMAIN rows, EditMessage(w, k) PROVE FALSE
    BY <2>6, <2>9 DEF EditMessage
  <2>10. writer' # writer
    BY <1>6
  <2>11. QED
    BY <1>3, <1>4, <1>5, <2>3, <2>4, <2>5, <2>7, <2>8, <2>9, <2>10 DEF Next, vars, Upstream,
       Processing, Commands, SayElsewhere, EditElsewhere, RevokeElsewhere, LearnMapping,
       ProcessRevoke, DownloadMedia
<1>7. QED
  BY <1>2, <1>6

(* A row changes its time only to that of what its writer held. *)
LEMMA CoverStep ==
  ASSUME CoverInv, [Next]_vars
  PROVE  ChatCoversRows'
<1> SUFFICES ASSUME NEW k \in DOMAIN rows'
             PROVE  k[1] \in skipped' \/ rows'[k].ts <= chats'[k[1]]
  BY DEF ChatCoversRows
<1> DEFINE Goal == k[1] \in skipped' \/ rows'[k].ts <= chats'[k[1]]
<1>1. /\ DOMAIN chats \subseteq DOMAIN chats'
      /\ \A a \in DOMAIN chats : chats[a] <= chats'[a]
      /\ skipped \subseteq skipped'
      /\ \A a \in DOMAIN chats : chats[a] \in Nat
      /\ \A a \in DOMAIN chats' : chats'[a] \in Nat
  BY ChatsGrow, TypeStep, StoreAssumption DEF CoverInv, TypeOK, StoreAssumption
<1>2. CASE k \in DOMAIN rows /\ rows'[k].ts = rows[k].ts
  <2>1. rows[k].ts \in Nat /\ k[1] \in DOMAIN chats
    BY <1>2, StoreAssumption DEF StoreAssumption, CoverInv, TypeOK, Row
  <2>2. k[1] \in skipped \/ rows[k].ts <= chats[k[1]]
    BY <1>2 DEF CoverInv, ChatCoversRows
  <2>3. QED
    BY <1>1, <1>2, <2>1, <2>2
<1>3. ASSUME NEW row, rows' = MarkRevoked(row) PROVE Goal
  BY <1>2, <1>3 DEF MarkRevoked, CoverInv, TypeOK, Row
<1>4. ASSUME NEW w \in Writer, StoreMessage(w) PROVE Goal
  <2>1. writer[w] \in Busy
    BY <1>4 DEF StoreMessage, CoverInv, TypeOK, Idle
  <2>2. writer[w].new.ts \in Nat
    BY <2>1, StoreAssumption DEF StoreAssumption, Busy, Parsed
  <2>3. CASE k = writer[w].at /\ writer[w].at[1] \in DOMAIN chats
    <3>1. rows'[k].ts = writer[w].new.ts
      BY <1>4, <2>3 DEF StoreMessage, UpsertMessage, Put, Merge, Fresh
    <3>2. QED
      BY <1>1, <1>4, <2>2, <2>3, <3>1 DEF StoreMessage, CoverInv, PendingCovered
  <2>4. CASE k # writer[w].at \/ writer[w].at[1] \notin DOMAIN chats
    BY <1>2, <1>4, <2>4 DEF StoreMessage, UpsertMessage, Put
  <2>5. QED
    BY <2>3, <2>4
<1>5. ASSUME NEW l \in DOMAIN rows, DownloadMedia(l) PROVE Goal
  BY <1>2, <1>5 DEF DownloadMedia, CoverInv, TypeOK, Row
<1>6. CASE rows' = rows
  BY <1>2, <1>6
<1>7. QED
  BY <1>3, <1>4, <1>5, <1>6 DEF Next, vars, Upstream, Processing, Commands, SayElsewhere,
     EditElsewhere, RevokeElsewhere, LearnMapping, StoreChat, ProcessRevoke, SendMessage,
     PersistChat, EditMessage, DeleteMessage, MarkDeleted, Abandon

(* A chat is at least as recent as each of its messages. *)
THEOREM ChatsAreRecent == Spec => []ChatCoversRows
<1>1. Init => CoverInv
  BY TypeInit DEF Init, CoverInv, PendingCovered, ChatCoversRows, Idle
<1>2. CoverInv /\ [Next]_vars => CoverInv'
  BY TypeStep, PendingStep, CoverStep DEF CoverInv
<1>3. CoverInv => ChatCoversRows
  BY DEF CoverInv
<1>4. QED
  BY <1>1, <1>2, <1>3, PTL DEF Spec

(* With the mapping known, everything is stored under the number. *)
LEMMA NumberStep ==
  ASSUME SendAddr \subseteq {"pn"}, TypeOK, OnlyNumber, [Next]_vars
  PROVE  OnlyNumber'
<1> USE DEF OnlyNumber
<1>1. lidKnown'
  BY DEF Next, vars, Upstream, Processing, Commands, SayElsewhere, EditElsewhere,
     RevokeElsewhere, LearnMapping, StoreChat, StoreMessage, ProcessRevoke, SendMessage,
     PersistChat, EditMessage, DeleteMessage, MarkDeleted, Abandon, DownloadMedia
<1>2. \A k \in DOMAIN rows' : k[1] = "pn"
  <2>1. ASSUME NEW row, rows' = MarkRevoked(row) PROVE DOMAIN rows' = DOMAIN rows
    BY <2>1 DEF MarkRevoked
  <2>2. ASSUME NEW w \in Writer, StoreMessage(w) PROVE \A k \in DOMAIN rows' : k[1] = "pn"
    <3>1. writer[w] # Idle
      BY <2>2 DEF StoreMessage, Idle
    <3>2. QED
      BY <2>2, <3>1 DEF StoreMessage, UpsertMessage, Put
  <2>3. ASSUME NEW k \in DOMAIN rows, DownloadMedia(k) PROVE DOMAIN rows' = DOMAIN rows
    BY <2>3 DEF DownloadMedia
  <2>4. QED
    BY <2>1, <2>2, <2>3 DEF Next, vars, Upstream, Processing, Commands, SayElsewhere,
       EditElsewhere, RevokeElsewhere, LearnMapping, StoreChat, ProcessRevoke, SendMessage,
       PersistChat, EditMessage, DeleteMessage, MarkDeleted, Abandon
<1>3. ASSUME NEW u \in Writer, writer'[u] # Idle PROVE writer'[u].at[1] = "pn"
  <2>1. CASE writer'[u] = writer[u]
    BY <1>3, <2>1
  <2>2. ASSUME NEW w \in Writer, NEW r, writer' = [writer EXCEPT ![w] = r],
               r = Idle \/ r.at[1] = "pn"
        PROVE  writer'[u].at[1] = "pn"
    BY <1>3, <2>1, <2>2 DEF TypeOK
  <2>3. ASSUME NEW w \in Writer, NEW m \in Message, NEW a \in Addr, NEW p \in Deliveries(m),
               StoreChat(w, m, a, p)
        PROVE  writer'[u].at[1] = "pn"
    BY <2>2, <2>3 DEF StoreChat, ResolveLIDToPN
  <2>4. ASSUME NEW w \in Writer, NEW m \in Message, NEW a \in Addr, SendMessage(w, m, a)
        PROVE  writer'[u].at[1] = "pn"
    BY <2>2, <2>4 DEF SendMessage
  <2>5. ASSUME NEW w \in Writer, PersistChat(w) PROVE writer'[u].at[1] = "pn"
    <3>1. writer[w] # Idle /\ writer[w] \in Busy
      BY <2>5 DEF PersistChat, TypeOK, Idle
    <3>2. QED
      BY <1>3, <2>1, <2>5, <3>1 DEF PersistChat, TypeOK, Busy
  <2>6. ASSUME NEW w \in Writer, NEW k \in DOMAIN rows, EditMessage(w, k) \/ DeleteMessage(w, k)
        PROVE  writer'[u].at[1] = "pn"
    BY <2>2, <2>6 DEF EditMessage, DeleteMessage
  <2>7. ASSUME NEW w \in Writer, StoreMessage(w) \/ MarkDeleted(w) \/ Abandon(w)
        PROVE  writer'[u].at[1] = "pn"
    BY <2>2, <2>7 DEF StoreMessage, MarkDeleted, Abandon
  <2>8. QED
    BY <2>1, <2>3, <2>4, <2>5, <2>6, <2>7 DEF Next, vars, Upstream, Processing, Commands,
       SayElsewhere, EditElsewhere, RevokeElsewhere, LearnMapping, ProcessRevoke, DownloadMedia
<1>4. QED
  BY <1>1, <1>2, <1>3

(* Replays under either address do not duplicate, provided that whatsmeow can *)
(* map the addresses from the start and the user writes to numbers.           *)
THEOREM ReplaysDoNotDuplicate ==
  ASSUME SendAddr \subseteq {"pn"}
  PROVE  Spec => []OneRowWhenMapped
<1> DEFINE Mapped == early => OnlyNumber
<1>1. Init => Mapped
  BY DEF Init, OnlyNumber, Idle
<1>2. TypeOK /\ Mapped /\ [Next]_vars => Mapped'
  <2>1. [Next]_vars => early' = early
    BY DEF Next, vars, Upstream, Processing, Commands, SayElsewhere, EditElsewhere,
       RevokeElsewhere, LearnMapping, StoreChat, StoreMessage, ProcessRevoke, SendMessage,
       PersistChat, EditMessage, DeleteMessage, MarkDeleted, Abandon, DownloadMedia
  <2>2. QED
    BY <2>1, NumberStep
<1>3. TypeOK /\ Mapped => OneRowWhenMapped
  BY DEF TypeOK, OnlyNumber, OneRowWhenMapped, OneRowPerMessage, Key
<1>4. QED
  BY <1>1, <1>2, <1>3, TypeCorrect, PTL DEF Spec

-----------------------------------------------------------------------------
(* Backfill. *)


(* the two halves of the types: what the calls keep, and the rest *)
CallTypes ==
  /\ at \in [Caller -> Ended \cup {"look", "ask", "wait", "poll"}]
  /\ sent \in [Caller -> 0..Requests]
  /\ cursor \in [Caller -> 0..N] /\ got \in [Caller -> 0..N]
  /\ grown \in [Caller -> BOOLEAN]

HistoryTypes ==
  /\ stored \subseteq 1..N /\ revoked \subseteq stored /\ failed \subseteq 1..N
  /\ queue \in Seq(1..N)
  /\ pending \in [1..N -> Nat]
  /\ answer \in 0..N /\ telling \subseteq Caller
  /\ faults \in 0..MaxFaults

Settled == stored \cup Gone

(* the queue lists every hole above one of its messages before it *)
QueueInOrder ==
  \A i \in 1..Len(queue), k \in 1..N :
    queue[i] < k => k \in Settled \/ \E j \in 1..(i - 1) : queue[j] = k

(* the batch that answers a request from m is stored or about to be *)
Delivered(m) ==
  m # 0 => \A k \in 1..N : m - Count <= k => k \in Settled \cup ToSet(queue)

AskedFromRows ==
  /\ \A m \in 1..N : pending[m] > 0 => m \in stored
  /\ \A c \in Caller : at[c] = "ask" => cursor[c] \in stored /\ sent[c] < Requests

AnswersDelivered ==
  /\ Delivered(answer)
  /\ \A c \in Caller : Delivered(got[c]) /\ (at[c] = "poll" => got[c] # 0)

HistoryInv ==
  /\ BackfillTypeOK /\ NoHoles /\ StartIsReached
  /\ QueueInOrder /\ AskedFromRows /\ AnswersDelivered

(* A set of messages has an oldest. *)
LEMMA LeastExists ==
  ASSUME NEW S, S \subseteq Nat, S # {}
  PROVE  Min(S) \in S /\ \A k \in S : Min(S) <= k
<1>1. PICK x \in S : \A y \in S : <<y, x>> \notin OpToRel(<, Nat)
  BY NatLessThanWellFounded, WFMin
<1>2. \A y \in S : ~ (y < x)
  BY <1>1, Zenon DEF OpToRel
<1>3. \A y \in S : x <= y
  BY <1>2
<1>4. QED
  BY <1>3 DEF Min

LEMMA OldestIsLeast ==
  ASSUME stored \subseteq 1..N, Rows # {}
  PROVE  Oldest \in Rows /\ \A k \in Rows : Oldest <= k
<1>1. ASSUME NEW k \in Rows
      PROVE  k \in Nat
  BY BackfillAssumption DEF BackfillAssumption, Rows
<1>2. QED
  BY <1>1, LeastExists DEF Oldest

(* A row that is older than m is not older than the oldest. *)
LEMMA OlderMovesCursor ==
  ASSUME stored \subseteq 1..N, NEW m, NEW k \in Older(m), k \in Rows
  PROVE  Rows # {} /\ Oldest # m
<1>1. Oldest \in Rows /\ Oldest <= k
  BY OldestIsLeast
<1>2. Oldest \in Int /\ k \in Int
  BY <1>1, BackfillAssumption DEF BackfillAssumption, Rows
<1>3. k < m
  BY DEF Older
<1>4. QED
  BY <1>1, <1>2, <1>3

LEMMA NothingQueued == ToSet(<<>>) = {}
<1>1. <<>> \in Seq({}) /\ Len(<<>>) = 0
  BY EmptySeq
<1>2. DOMAIN <<>> = 1..0
  BY <1>1, LenProperties
<1>3. QED
  BY <1>2 DEF ToSet

(* What the phone lists is the batch, from its newest message on. *)
LEMMA BatchLists ==
  ASSUME NEW m \in 1..N
  PROVE  /\ Batch(m) \in Seq(1..N) /\ Len(Batch(m)) = Size(m) /\ Size(m) \in Nat
         /\ \A i \in 1..Size(m) : Batch(m)[i] = m - i
         /\ \A k \in 1..N : m - Count <= k /\ k < m => m - k \in 1..Size(m) /\ Batch(m)[m - k] = k
<1>1. Size(m) \in Nat /\ Size(m) < m /\ \A k \in 1..N : m - Count <= k /\ k < m => m - k \in 1..Size(m)
  BY BackfillAssumption DEF BackfillAssumption, Size
<1>2. \A i \in 1..Size(m) : m - i \in 1..N
  BY <1>1, BackfillAssumption DEF BackfillAssumption
<1>3. Batch(m) \in [1..Size(m) -> 1..N] /\ \A i \in 1..Size(m) : Batch(m)[i] = m - i
  BY <1>2 DEF Batch
<1>4. Batch(m) \in Seq(1..N) /\ Len(Batch(m)) = Size(m)
  <2>1. Batch(m) \in Seq(1..N)
    BY <1>1, <1>3, SeqDef
  <2>2. QED
    BY <1>1, <1>3, <2>1, LenProperties
<1>5. \A k \in 1..N : m - (m - k) = k
  BY BackfillAssumption DEF BackfillAssumption
<1>6. QED
  BY <1>1, <1>3, <1>4, <1>5

(* A step of a call leaves the history as it is and promises no more than what
   is answered. *)
LEMMA CallKeepsHistory ==
  ASSUME HistoryInv, BackfillTypeOK', UNCHANGED <<stored, failed, queue>>, answer' \in {0, answer},
         \A c \in Caller :
           /\ at'[c] = "start" => at[c] = "start" \/ (got[c] # 0 /\ ReachesStart(got[c]))
           /\ at'[c] = "ask" => cursor'[c] \in stored /\ sent'[c] < Requests
           /\ at'[c] = "poll" => got'[c] # 0
           /\ got'[c] \in {0, got[c], answer},
         \A m \in 1..N : pending'[m] > 0 => m \in stored
  PROVE  HistoryInv'
<1>1. Settled' = Settled /\ ToSet(queue)' = ToSet(queue)
  BY DEF Settled, Gone, ToSet
<1>2. NoHoles' /\ QueueInOrder'
  BY <1>1 DEF HistoryInv, NoHoles, QueueInOrder, Settled
<1>3. StartIsReached'
  <2>1. ASSUME NEW c \in Caller, got[c] # 0, ReachesStart(got[c])
        PROVE  1..N \subseteq Settled \cup ToSet(queue)
    <3>1. got[c] \in Nat /\ got[c] - Count <= 1 /\ Count \in Nat /\ N \in Nat
      BY <2>1, BackfillAssumption DEF BackfillAssumption, HistoryInv, BackfillTypeOK, ReachesStart
    <3>2. \A k \in 1..N : got[c] - Count <= k
      BY <3>1
    <3>3. QED
      BY <2>1, <3>2 DEF HistoryInv, AnswersDelivered, Delivered
  <2>2. ASSUME NEW c \in Caller, at'[c] = "start"
        PROVE  1..N \subseteq Settled \cup ToSet(queue)
    BY <2>1, <2>2 DEF HistoryInv, StartIsReached, Settled
  <2>3. QED
    BY <1>1, <2>2 DEF StartIsReached, Settled
<1>4. AskedFromRows'
  BY DEF AskedFromRows
<1>5. AnswersDelivered'
  <2>1. Delivered(answer)'
    BY <1>1 DEF HistoryInv, AnswersDelivered, Delivered
  <2>2. ASSUME NEW c \in Caller
        PROVE  Delivered(got[c])' /\ (at'[c] = "poll" => got'[c] # 0)
    BY <1>1 DEF HistoryInv, AnswersDelivered, Delivered
  <2>3. QED
    BY <2>1, <2>2 DEF AnswersDelivered
<1>6. QED
  BY <1>2, <1>3, <1>4, <1>5 DEF HistoryInv

(* The worker, and an answer that is dispatched, take nothing from what is
   settled or queued. *)
LEMMA QueueKeepsHistory ==
  ASSUME HistoryInv, BackfillTypeOK', NoHoles', QueueInOrder',
         Settled \cup ToSet(queue) \subseteq Settled' \cup ToSet(queue)', stored \subseteq stored',
         UNCHANGED <<at, sent, cursor, got>>, Delivered(answer)',
         \A m \in 1..N : pending'[m] > 0 => pending[m] > 0
  PROVE  HistoryInv'
<1>1. StartIsReached'
  <2>1. ASSUME NEW c \in Caller, at[c] = "start"
        PROVE  1..N \subseteq Settled \cup ToSet(queue)
    BY <2>1 DEF HistoryInv, StartIsReached, Settled
  <2>2. QED
    BY <2>1 DEF StartIsReached, Settled
<1>2. AskedFromRows'
  BY DEF HistoryInv, AskedFromRows
<1>3. AnswersDelivered'
  <2>1. ASSUME NEW c \in Caller
        PROVE  Delivered(got[c])' /\ (at'[c] = "poll" => got'[c] # 0)
    BY DEF HistoryInv, AnswersDelivered, Delivered
  <2>2. QED
    BY <2>1 DEF AnswersDelivered
<1>4. QED
  BY <1>1, <1>2, <1>3 DEF HistoryInv

(* What an answer appends to the queue: the batch, in order, after what was
   there. *)
LEMMA AppendKeepsOrder ==
  ASSUME HistoryInv, NEW m \in 1..N, m \in stored, queue' = queue \o Batch(m),
         UNCHANGED <<stored, failed>>
  PROVE  /\ queue' \in Seq(1..N) /\ QueueInOrder'
         /\ ToSet(queue) \subseteq ToSet(queue)'
         /\ \A k \in 1..N : m - Count <= k => k \in Settled' \cup ToSet(queue)'
<1> DEFINE len == Len(queue)
<1>1. queue \in Seq(1..N) /\ len \in Nat
  BY LenProperties DEF HistoryInv, BackfillTypeOK
<1>2. /\ queue' \in Seq(1..N) /\ Len(queue') = len + Size(m) /\ Size(m) \in Nat
      /\ \A i \in 1..len : queue'[i] = queue[i]
      /\ \A i \in 1..Size(m) : len + i \in 1..Len(queue') /\ queue'[len + i] = m - i
  <2>1. /\ Batch(m) \in Seq(1..N) /\ Len(Batch(m)) = Size(m) /\ Size(m) \in Nat
        /\ \A i \in 1..Size(m) : Batch(m)[i] = m - i
    BY BatchLists
  <2>2. /\ queue' \in Seq(1..N) /\ Len(queue') = len + Size(m)
        /\ \A i \in 1..(len + Size(m)) :
             queue'[i] = IF i <= len THEN queue[i] ELSE Batch(m)[i - len]
    <3>1. queue \o Batch(m) \in Seq(1..N) /\ Len(queue \o Batch(m)) = len + Len(Batch(m))
      BY <1>1, <2>1, ConcatProperties
    <3>2. \A i \in 1..(len + Len(Batch(m))) :
            (queue \o Batch(m))[i] = IF i <= len THEN queue[i] ELSE Batch(m)[i - len]
      BY <1>1, <2>1, ConcatProperties
    <3>3. QED
      BY <2>1, <3>1, <3>2, Zenon
  <2>3. QED
    BY <1>1, <2>1, <2>2
<1>3. \A k \in 1..N : m < k => k \in Settled
  BY DEF HistoryInv, NoHoles, Settled
<1>4. Settled' = Settled
  BY DEF Settled, Gone
<1>5. QueueInOrder'
  <2> SUFFICES ASSUME NEW i \in 1..Len(queue'), NEW k \in 1..N, queue'[i] < k
               PROVE  k \in Settled \/ \E j \in 1..(i - 1) : queue'[j] = k
    BY <1>4 DEF QueueInOrder
  <2>1. CASE i <= len
    BY <1>1, <1>2, <2>1 DEF HistoryInv, QueueInOrder
  <2>2. CASE len < i /\ k < m
    <3>1. i - len \in 1..Size(m) /\ queue'[i] = m - (i - len)
      <4>1. i - len \in 1..Size(m) /\ len + (i - len) = i
        BY <1>1, <1>2, <2>2
      <4>2. QED
        BY <1>2, <4>1
    <3>2. m - k \in 1..Size(m) /\ m - k < i - len /\ m - (m - k) = k
      BY SMTT(30), <3>1, <2>2, <1>1, <1>2, BackfillAssumption DEF BackfillAssumption
    <3>3. queue'[len + (m - k)] = k
      BY <1>2, <3>2
    <3>4. len + (m - k) \in 1..(i - 1)
      BY <1>1, <1>2, <3>2
    <3>5. QED
      BY <3>3, <3>4
  <2>3. CASE len < i /\ k = m
    BY <2>3 DEF Settled
  <2>4. CASE m < k
    BY <2>4, <1>3
  <2>5. i \in Int /\ k \in Int /\ m \in Int /\ len \in Int
    BY <1>1, <1>2, BackfillAssumption DEF BackfillAssumption
  <2>6. (i <= len \/ len < i) /\ (k < m \/ k = m \/ m < k)
    BY <2>5
  <2>7. QED
    BY <2>1, <2>2, <2>3, <2>4, <2>6
<1>6. ToSet(queue) \subseteq ToSet(queue)'
  <2>1. DOMAIN queue = 1..len /\ DOMAIN queue' = 1..Len(queue')
    BY <1>1, <1>2, LenProperties
  <2>2. QED
    BY <1>1, <1>2, <2>1 DEF ToSet
<1>7. ASSUME NEW k \in 1..N, m - Count <= k
      PROVE  k \in Settled' \cup ToSet(queue)'
  <2>1. CASE k < m
    <3>1. m - k \in 1..Size(m) /\ m - (m - k) = k
      BY <1>7, <2>1, BatchLists, BackfillAssumption DEF BackfillAssumption
    <3>2. len + (m - k) \in 1..Len(queue') /\ queue'[len + (m - k)] = k
      BY <1>2, <3>1
    <3>3. DOMAIN queue' = 1..Len(queue')
      BY <1>2, LenProperties
    <3>4. QED
      BY <3>2, <3>3 DEF ToSet
  <2>2. CASE k = m
    BY <2>2, <1>4 DEF Settled
  <2>3. CASE m < k
    BY <2>3, <1>3, <1>4
  <2>4. QED
    BY <2>1, <2>2, <2>3, BackfillAssumption DEF BackfillAssumption
<1>8. QED
  BY <1>2, <1>5, <1>6, <1>7

(* Once the first message of the queue is stored, or gone, the rest is in
   order. *)
LEMMA TailKeepsOrder ==
  ASSUME HistoryInv, queue # <<>>, queue' = Tail(queue), Settled \subseteq Settled',
         Head(queue) \in Settled'
  PROVE  /\ queue' \in Seq(1..N) /\ QueueInOrder' /\ Head(queue) \in 1..N
         /\ Settled \cup ToSet(queue) \subseteq Settled' \cup ToSet(queue)'
         /\ \A k \in 1..N : Head(queue) < k => k \in Settled
<1>1. queue \in Seq(1..N) /\ Len(queue) \in Nat /\ Len(queue) # 0 /\ DOMAIN queue = 1..Len(queue)
  BY LenProperties, EmptySeq DEF HistoryInv, BackfillTypeOK
<1>2. /\ queue' \in Seq(1..N) /\ Len(queue') = Len(queue) - 1
      /\ \A i \in 1..Len(queue') : queue'[i] = queue[i + 1]
      /\ DOMAIN queue' = 1..Len(queue')
      /\ Head(queue) = queue[1] /\ Head(queue) \in 1..N
  <2>1. /\ Tail(queue) \in Seq(1..N) /\ Len(Tail(queue)) = Len(queue) - 1
        /\ Head(queue) \in 1..N
        /\ \A i \in 1..Len(Tail(queue)) : Tail(queue)[i] = queue[i + 1]
    BY <1>1, HeadTailProperties
  <2>2. DOMAIN Tail(queue) = 1..Len(Tail(queue))
    BY <2>1, LenProperties
  <2>3. Head(queue) = queue[1]
    BY <1>1
  <2>4. QED
    BY <2>1, <2>2, <2>3, Zenon
<1>3. QueueInOrder'
  <2> SUFFICES ASSUME NEW i \in 1..Len(queue'), NEW k \in 1..N, queue'[i] < k, k \notin Settled'
               PROVE  \E j \in 1..(i - 1) : queue'[j] = k
    BY DEF QueueInOrder
  <2>1. PICK j \in 1..i : queue[j] = k
    <3>1. i + 1 \in 1..Len(queue) /\ queue[i + 1] < k /\ (i + 1) - 1 = i
      BY <1>1, <1>2
    <3>2. k \notin Settled
      OBVIOUS
    <3>3. QED
      BY <3>1, <3>2 DEF HistoryInv, QueueInOrder
  <2>2. j # 1
    BY <2>1, <1>2
  <2>3. j - 1 \in 1..(i - 1) /\ (j - 1) + 1 = j /\ j - 1 \in 1..Len(queue')
    BY <1>1, <1>2, <2>1, <2>2
  <2>4. QED
    BY <1>2, <2>1, <2>3
<1>4. ToSet(queue) \subseteq {Head(queue)} \cup ToSet(queue)'
  <2>1. ASSUME NEW i \in 1..Len(queue), i # 1
        PROVE  i - 1 \in 1..Len(queue') /\ queue'[i - 1] = queue[i]
    <3>1. i - 1 \in 1..Len(queue') /\ (i - 1) + 1 = i
      BY <2>1, <1>1, <1>2
    <3>2. QED
      BY <3>1, <1>2
  <2>2. ASSUME NEW i \in 1..Len(queue)
        PROVE  queue[i] \in {Head(queue)} \cup ToSet(queue)'
    <3>1. CASE i = 1
      BY <3>1, <1>2
    <3>2. CASE i # 1
      BY <3>2, <2>1, <1>2 DEF ToSet
    <3>3. QED
      BY <3>1, <3>2
  <2>3. QED
    BY <2>2, <1>1 DEF ToSet
<1>5. ASSUME NEW k \in 1..N, Head(queue) < k
      PROVE  k \in Settled
  BY <1>5, <1>1, <1>2 DEF HistoryInv, QueueInOrder
<1>6. QED
  BY <1>2, <1>3, <1>4, <1>5

LEMMA HistoryInvInit == BackfillInit => HistoryInv
<1> SUFFICES ASSUME BackfillInit
             PROVE  HistoryInv
  OBVIOUS
<1>1. N \in 1..N
  BY BackfillAssumption DEF BackfillAssumption
<1>2. BackfillTypeOK
  BY <1>1, BackfillAssumption, EmptySeq DEF BackfillAssumption, BackfillInit, BackfillTypeOK, Ended
<1>3. NoHoles /\ StartIsReached /\ QueueInOrder /\ AskedFromRows /\ AnswersDelivered
  BY BackfillAssumption DEF BackfillAssumption, BackfillInit, NoHoles, StartIsReached,
     QueueInOrder, AskedFromRows, AnswersDelivered, Delivered
<1>4. QED
  BY <1>2, <1>3 DEF HistoryInv

(* How a call ends, but for the start of the history. *)
LEMMA EndKeepsHistory ==
  ASSUME HistoryInv, NEW c \in Caller, NEW how \in Ended, Ends(c, how),
         UNCHANGED <<chatRows, queue, phone>>, faults' \in 0..MaxFaults,
         how = "start" => got[c] # 0 /\ ReachesStart(got[c])
  PROVE  HistoryInv'
<1>1. BackfillTypeOK'
  <2>1. 0 \in 0..N /\ 0 \in 0..Requests
    BY BackfillAssumption DEF BackfillAssumption
  <2>2. CallTypes'
    BY <2>1 DEF HistoryInv, BackfillTypeOK, CallTypes, Ends, Ended
  <2>3. HistoryTypes'
    BY DEF HistoryInv, BackfillTypeOK, HistoryTypes, chatRows, phone
  <2>4. QED
    BY <2>2, <2>3 DEF BackfillTypeOK, CallTypes, HistoryTypes
<1>2. \A d \in Caller :
        /\ at'[d] = "start" => at[d] = "start" \/ (got[d] # 0 /\ ReachesStart(got[d]))
        /\ at'[d] = "ask" => cursor'[d] \in stored /\ sent'[d] < Requests
        /\ at'[d] = "poll" => got'[d] # 0
        /\ got'[d] \in {0, got[d], answer}
  BY DEF HistoryInv, BackfillTypeOK, AskedFromRows, AnswersDelivered, Ends, Ended
<1>3. UNCHANGED <<stored, failed, queue>> /\ answer' \in {0, answer} /\ \A m \in 1..N : pending'[m] > 0 => m \in stored
  BY DEF HistoryInv, AskedFromRows, chatRows, phone
<1>4. QED
  BY <1>1, <1>2, <1>3, CallKeepsHistory

(* Every step of a call. *)
LEMMA CallPreservesHistory ==
  ASSUME HistoryInv, NEW c \in Caller,
         Begin(c) \/ CallStep(c) \/ Cancel(c) \/ AskFails(c) \/ Tell(c)
  PROVE  HistoryInv'
<1> DEFINE Calls ==
      \A d \in Caller :
        /\ at'[d] = "start" => at[d] = "start" \/ (got[d] # 0 /\ ReachesStart(got[d]))
        /\ at'[d] = "ask" => cursor'[d] \in stored /\ sent'[d] < Requests
        /\ at'[d] = "poll" => got'[d] # 0
        /\ got'[d] \in {0, got[d], answer}
<1> DEFINE Phone ==
      /\ UNCHANGED <<stored, failed, queue>> /\ answer' \in {0, answer}
      /\ \A m \in 1..N : pending'[m] > 0 => m \in stored
<1> USE DEF HistoryInv, AskedFromRows, AnswersDelivered, Goes, chatRows, phone, Ended
<1>0. /\ HistoryTypes /\ CallTypes /\ 0 \in 0..N /\ 1..N \subseteq 0..N
      /\ HistoryTypes' /\ CallTypes' => BackfillTypeOK'
  <2>1. HistoryTypes /\ CallTypes
    BY DEF BackfillTypeOK, HistoryTypes, CallTypes
  <2>2. HistoryTypes' /\ CallTypes' => BackfillTypeOK'
    BY DEF BackfillTypeOK, HistoryTypes, CallTypes
  <2>3. 0 \in 0..N /\ 1..N \subseteq 0..N
    BY BackfillAssumption DEF BackfillAssumption
  <2>4. QED
    BY <2>1, <2>2, <2>3
<1>1. CASE Begin(c)
  <2>1. HistoryTypes' /\ CallTypes' /\ Calls /\ Phone
    BY <1>0, <1>1 DEF Begin, HistoryTypes, CallTypes
  <2>2. QED
    BY <1>0, <2>1, CallKeepsHistory
<1>2. CASE Look(c)
  <2>1. Oldest \in stored /\ Oldest \in 0..N
    <3>1. Rows # {} /\ Rows \subseteq stored /\ stored \subseteq 1..N
      BY <1>0, <1>2 DEF Look, Rows, HistoryTypes
    <3>2. QED
      BY <1>0, <3>1, OldestIsLeast
  <2>2. CallTypes'
    BY <1>0, <1>2, <2>1 DEF Look, CallTypes
  <2>3. HistoryTypes'
    BY <1>0, <1>2 DEF Look, HistoryTypes
  <2>4. Calls /\ Phone
    BY <1>0, <1>2, <2>1 DEF Look, CallTypes
  <2>5. QED
    BY <1>0, <2>2, <2>3, <2>4, CallKeepsHistory
<1>3. CASE Ask(c)
  <2>1. cursor[c] \in stored /\ cursor[c] \in 1..N
    BY <1>0, <1>3 DEF Ask, HistoryTypes
  <2>2. sent[c] + 1 \in 0..Requests
    <3>1. sent[c] \in 0..Requests /\ sent[c] < Requests
      BY <1>0, <1>3 DEF Ask, CallTypes
    <3>2. QED
      BY <3>1, BackfillAssumption DEF BackfillAssumption
  <2>3. CallTypes'
    BY <1>0, <1>3, <2>2 DEF Ask, CallTypes
  <2>4. HistoryTypes'
    <3>1. pending' \in [1..N -> Nat]
      BY <1>0, <1>3, <2>1 DEF Ask, HistoryTypes
    <3>2. QED
      BY <1>0, <1>3, <3>1 DEF Ask, chatRows, HistoryTypes
  <2>5. Calls
    BY <1>0, <1>3 DEF Ask, CallTypes
  <2>6. Phone
    BY <1>0, <1>3, <2>1 DEF Ask, HistoryTypes
  <2>7. QED
    BY <1>0, <2>3, <2>4, <2>5, <2>6, CallKeepsHistory
<1>4. CASE Receive(c)
  <2>1. HistoryTypes' /\ CallTypes' /\ Calls /\ Phone
    BY <1>0, <1>4 DEF Receive, HistoryTypes, CallTypes
  <2>2. QED
    BY <1>0, <2>1, CallKeepsHistory
<1>5. CASE Continue(c)
  <2>1. HistoryTypes' /\ CallTypes' /\ Calls /\ Phone
    BY <1>0, <1>5 DEF Continue, HistoryTypes, CallTypes
  <2>2. QED
    BY <1>0, <2>1, CallKeepsHistory
<1>6. CASE StillGrowing(c)
  <2>1. HistoryTypes' /\ CallTypes' /\ Calls /\ Phone
    BY <1>0, <1>6 DEF StillGrowing, HistoryTypes, CallTypes
  <2>2. QED
    BY <1>0, <2>1, CallKeepsHistory
<1>7. CASE Limit(c) \/ NoRows(c) \/ ReceiveEmpty(c) \/ Timeout(c) \/ Cancel(c)
  <2>1. Ends(c, "idle") /\ UNCHANGED <<chatRows, queue, phone>> /\ faults' = faults
    BY <1>7 DEF Limit, NoRows, ReceiveEmpty, Timeout, Cancel
  <2>2. QED
    BY <1>0, <2>1, EndKeepsHistory DEF HistoryTypes
<1>8. CASE AskFails(c)
  <2>1. faults' \in 0..MaxFaults
    BY <1>0, <1>8, BackfillAssumption, SMTT(30) DEF AskFails, Fault, HistoryTypes, BackfillAssumption
  <2>2. QED
    BY <1>8, <2>1, EndKeepsHistory DEF AskFails
<1>9. CASE Start(c)
  BY <1>0, <1>9, EndKeepsHistory DEF Start, HistoryTypes
<1>10. CASE GiveUp(c)
  BY <1>0, <1>10, EndKeepsHistory DEF GiveUp, HistoryTypes
<1>11. CASE Tell(c)
  <2>1. CallTypes' /\ HistoryTypes'
    BY <1>0, <1>11 DEF Tell, CallTypes, HistoryTypes
  <2>2. Calls
    BY <1>0, <1>11 DEF Tell, CallTypes
  <2>3. Phone
    BY <1>0, <1>11 DEF Tell
  <2>4. QED
    BY <1>0, <2>1, <2>2, <2>3, CallKeepsHistory
<1>12. QED
  BY <1>1, <1>2, <1>3, <1>4, <1>5, <1>6, <1>7, <1>8, <1>9, <1>10, <1>11 DEF CallStep

(* A request that is answered, or lost, is forgotten. *)
LEMMA PendingShrinks ==
  ASSUME HistoryInv, NEW m \in 1..N, pending[m] > 0, pending' = [pending EXCEPT ![m] = @ - 1]
  PROVE  /\ m \in stored /\ pending' \in [1..N -> Nat]
         /\ \A k \in 1..N : pending'[k] > 0 => pending[k] > 0
<1>1. pending \in [1..N -> Nat] /\ m \in stored
  BY DEF HistoryInv, BackfillTypeOK, AskedFromRows
<1>2. pending[m] - 1 \in Nat
  BY <1>1
<1>3. QED
  BY <1>1, <1>2

(* The steps of the phone, the worker and the rest. *)
LEMMA DeliverKeepsHistory ==
  ASSUME HistoryInv, NEW m \in 1..N, Deliver(m) \/ DeliverUnnamed(m)
  PROVE  HistoryInv'
<1>1. /\ Answered(m) /\ queue' = queue \o Batch(m)
      /\ UNCHANGED <<chatRows, calls, faults>>
  BY DEF Deliver, DeliverUnnamed
<1>2. /\ m \in stored
      /\ \A k \in 1..N : pending'[k] > 0 => pending[k] > 0
      /\ pending' \in [1..N -> Nat]
  BY <1>1, PendingShrinks DEF Answered
<1>3. /\ queue' \in Seq(1..N) /\ QueueInOrder'
      /\ ToSet(queue) \subseteq ToSet(queue)'
      /\ \A k \in 1..N : m - Count <= k => k \in Settled' \cup ToSet(queue)'
  BY <1>1, <1>2, AppendKeepsOrder DEF chatRows
<1>4. BackfillTypeOK'
  <2>1. answer' \in 0..N /\ telling' \subseteq Caller
    BY BackfillAssumption DEF BackfillAssumption, Deliver, DeliverUnnamed, HistoryInv, BackfillTypeOK
  <2>2. QED
    BY <1>1, <1>2, <1>3, <2>1 DEF HistoryInv, BackfillTypeOK, chatRows, calls
<1>5. Settled' = Settled /\ NoHoles'
  BY <1>1 DEF Settled, Gone, NoHoles, HistoryInv, chatRows
<1>6. Delivered(answer)'
  <2>1. answer' \in {0, m, answer}
    BY DEF Deliver, DeliverUnnamed
  <2>2. QED
    BY <1>3, <1>5, <2>1 DEF HistoryInv, AnswersDelivered, Delivered
<1>7. QED
  BY <1>1, <1>2, <1>3, <1>4, <1>5, <1>6, QueueKeepsHistory DEF chatRows, calls

LEMMA WorkerKeepsHistory ==
  ASSUME HistoryInv, Process \/ ProcessFails
  PROVE  HistoryInv'
<1>1. /\ queue # <<>> /\ queue' = Tail(queue)
      /\ UNCHANGED <<revoked, phone, at, sent, cursor, got>>
      /\ stored \subseteq stored' /\ failed \subseteq failed'
  BY DEF Process, ProcessFails, phone, calls
<1>2. Settled \subseteq Settled'
  BY <1>1 DEF Settled, Gone
<1>3. Head(queue) \in Settled'
  BY DEF Process, ProcessFails, Settled, Gone
<1>4. /\ queue' \in Seq(1..N) /\ QueueInOrder' /\ Head(queue) \in 1..N
      /\ Settled \cup ToSet(queue) \subseteq Settled' \cup ToSet(queue)'
      /\ \A k \in 1..N : Head(queue) < k => k \in Settled
  BY <1>1, <1>2, <1>3, TailKeepsOrder
<1>5. stored' \subseteq stored \cup {Head(queue)} /\ failed' \subseteq failed \cup {Head(queue)}
  BY DEF Process, ProcessFails
<1>6. BackfillTypeOK'
  <2>1. grown' \in [Caller -> BOOLEAN]
    BY DEF Process, ProcessFails, AllGrown, calls, HistoryInv, BackfillTypeOK
  <2>2. faults' \in 0..MaxFaults
    BY BackfillAssumption
       DEF BackfillAssumption, Process, ProcessFails, Fault, HistoryInv, BackfillTypeOK
  <2>3. QED
    BY <1>1, <1>4, <1>5, <2>1, <2>2 DEF HistoryInv, BackfillTypeOK, phone
<1>7. NoHoles'
  BY <1>2, <1>4, <1>5 DEF NoHoles, HistoryInv, Settled
<1>8. Delivered(answer)'
  BY <1>1, <1>4 DEF HistoryInv, AnswersDelivered, Delivered, phone
<1>9. QED
  BY <1>1, <1>4, <1>6, <1>7, <1>8, QueueKeepsHistory DEF phone

LEMMA OtherKeepsHistory ==
  ASSUME HistoryInv,
         (\E m \in 1..N : Lose(m)) \/ (\E m \in Revocable : Revoke(m)) \/ OtherStored \/ Kill
  PROVE  HistoryInv'
<1>1. ASSUME NEW m \in 1..N, Lose(m)
      PROVE  HistoryInv'
  <2>1. pending' \in [1..N -> Nat] /\ \A k \in 1..N : pending'[k] > 0 => pending[k] > 0
    BY <1>1, PendingShrinks DEF Lose
  <2>2. faults' \in 0..MaxFaults
    BY <1>1, BackfillAssumption DEF BackfillAssumption, Lose, Fault, HistoryInv, BackfillTypeOK
  <2>3. BackfillTypeOK'
    BY <1>1, <2>1, <2>2 DEF Lose, HistoryInv, BackfillTypeOK, chatRows, calls
  <2>4. QED
    BY <1>1, <2>1, <2>3, CallKeepsHistory
       DEF Lose, HistoryInv, BackfillTypeOK, AskedFromRows, AnswersDelivered, chatRows, calls
<1>2. ASSUME NEW m \in Revocable, Revoke(m)
      PROVE  HistoryInv'
  <2>1. BackfillTypeOK'
    BY <1>2 DEF Revoke, Rows, HistoryInv, BackfillTypeOK, phone, calls
  <2>2. QED
    BY <1>2, <2>1, CallKeepsHistory
       DEF Revoke, HistoryInv, AskedFromRows, AnswersDelivered, phone, calls
<1>3. CASE OtherStored
  <2>1. BackfillTypeOK'
    BY <1>3 DEF OtherStored, AllGrown, HistoryInv, BackfillTypeOK, chatRows, phone
  <2>2. QED
    BY <1>3, <2>1, CallKeepsHistory
       DEF OtherStored, HistoryInv, AskedFromRows, AnswersDelivered, chatRows, phone
<1>4. CASE Kill
  <2>1. BackfillTypeOK'
    <3>1. 0 \in 0..N /\ 0 \in 0..Requests /\ faults' \in 0..MaxFaults /\ <<>> \in Seq(1..N)
      BY <1>4, BackfillAssumption, EmptySeq
         DEF BackfillAssumption, Kill, Fault, HistoryInv, BackfillTypeOK
    <3>2. QED
      BY <1>4, <3>1 DEF Kill, HistoryInv, BackfillTypeOK, chatRows, Ended
  <2>2. NoHoles' /\ QueueInOrder' /\ StartIsReached'
    BY <1>4 DEF Kill, HistoryInv, NoHoles, QueueInOrder, StartIsReached, Gone, chatRows
  <2>3. AskedFromRows' /\ AnswersDelivered'
    BY <1>4 DEF Kill, HistoryInv, AskedFromRows, AnswersDelivered, Delivered, chatRows
  <2>4. QED
    BY <2>1, <2>2, <2>3 DEF HistoryInv
<1>5. QED
  BY <1>1, <1>2, <1>3, <1>4

LEMMA HistoryInvNext == HistoryInv /\ [BackfillNext]_backfillVars => HistoryInv'
<1> SUFFICES ASSUME HistoryInv, [BackfillNext]_backfillVars
             PROVE  HistoryInv'
  OBVIOUS
<1>1. CASE UNCHANGED backfillVars
  <2>1. BackfillTypeOK' /\ NoHoles' /\ StartIsReached' /\ QueueInOrder'
    BY <1>1 DEF HistoryInv, BackfillTypeOK, NoHoles, StartIsReached, QueueInOrder, Settled, Gone,
       backfillVars, chatRows, phone, calls
  <2>2. AskedFromRows' /\ AnswersDelivered'
    BY <1>1 DEF HistoryInv, AskedFromRows, AnswersDelivered, Delivered, Settled, Gone,
       backfillVars, chatRows, phone, calls
  <2>3. QED
    BY <2>1, <2>2 DEF HistoryInv
<1>2. ASSUME NEW c \in Caller, Begin(c) \/ CallStep(c) \/ Cancel(c) \/ AskFails(c) \/ Tell(c)
      PROVE  HistoryInv'
  BY <1>2, CallPreservesHistory
<1>3. ASSUME NEW m \in 1..N, Deliver(m) \/ DeliverUnnamed(m)
      PROVE  HistoryInv'
  BY <1>3, DeliverKeepsHistory
<1>4. CASE Process \/ ProcessFails
  BY <1>4, WorkerKeepsHistory
<1>5. CASE (\E m \in 1..N : Lose(m)) \/ (\E m \in Revocable : Revoke(m)) \/ OtherStored \/ Kill
  BY <1>5, OtherKeepsHistory
<1>6. QED
  BY <1>1, <1>2, <1>3, <1>4, <1>5 DEF BackfillNext

LEMMA HistoryInvariant == BackfillSpec => []HistoryInv
<1>1. QED
  BY HistoryInvInit, HistoryInvNext, PTL DEF BackfillSpec

(* Types, and a call never sends more requests than it may. *)
THEOREM BackfillTypes == BackfillSpec => []BackfillTypeOK
<1>1. HistoryInv => BackfillTypeOK
  BY DEF HistoryInv
<1>2. QED
  BY HistoryInvariant, <1>1, PTL

(* What is stored of the chat has no hole, whatever the calls, the phone and
   the worker do. *)
THEOREM BackfillNoHoles == BackfillSpec => []NoHoles
<1>1. HistoryInv => NoHoles
  BY DEF HistoryInv
<1>2. QED
  BY HistoryInvariant, <1>1, PTL

(* Who says that the start of the history is reached is right. *)
THEOREM BackfillStartIsReached == BackfillSpec => []StartIsReached
<1>1. HistoryInv => StartIsReached
  BY DEF HistoryInv
<1>2. QED
  BY HistoryInvariant, <1>1, PTL

(* A call only gives up on its own answer, stored, when there was nothing in it:
   what was delivered is stored when the queue is empty, and a row that is
   older than the cursor and not revoked would have moved it. *)
THEOREM BackfillGivesUpRightly == BackfillSpec => GivesUpRightly
<1> DEFINE Right ==
      \A c \in Caller :
        at'[c] = "none_older" /\ at[c] # "none_older" /\ got[c] = cursor[c] /\ queue = <<>>
          => Older(got[c]) \subseteq Gone \cup revoked
<1>1. HistoryInv /\ [BackfillNext]_backfillVars => [Right]_backfillVars
  <2> SUFFICES ASSUME HistoryInv, BackfillNext, NEW c \in Caller,
                      at'[c] = "none_older", at[c] # "none_older", got[c] = cursor[c], queue = <<>>,
                      NEW k \in Older(got[c])
               PROVE  k \in Gone \cup revoked
    BY DEF backfillVars
  <2>1. GiveUp(c)
    <3>1. at \in [Caller -> Ended \cup {"look", "ask", "wait", "poll"}] /\ at' # at
      BY DEF HistoryInv, BackfillTypeOK
    <3>2. PICK d \in Caller :
            \/ Begin(d) \/ Look(d) \/ Ask(d) \/ Receive(d) \/ Continue(d) \/ GiveUp(d)
            \/ Ends(d, "idle") \/ Ends(d, "start")
      <4>1. ~ \E m \in 1..N : Deliver(m) \/ DeliverUnnamed(m) \/ Lose(m)
        BY <3>1 DEF Deliver, DeliverUnnamed, Lose, calls
      <4>2. ~ (Process \/ ProcessFails \/ OtherStored) /\ ~ \E m \in Revocable : Revoke(m)
        BY <3>1 DEF Process, ProcessFails, OtherStored, Revoke, calls
      <4>3. ~ Kill
        BY DEF Kill
      <4>4. \A d \in Caller : ~ (Tell(d) \/ StillGrowing(d))
        BY <3>1 DEF Tell, StillGrowing
      <4>5. PICK d \in Caller : Begin(d) \/ CallStep(d) \/ Cancel(d) \/ AskFails(d)
        BY <4>1, <4>2, <4>3, <4>4 DEF BackfillNext
      <4>6. Begin(d) \/ CallStep(d) \/ Ends(d, "idle")
        BY <4>5 DEF Cancel, AskFails
      <4>7. QED
        BY <4>4, <4>6 DEF CallStep, Limit, NoRows, ReceiveEmpty, Timeout, Start
    <3>3. d = c
      BY <3>1, <3>2 DEF Begin, Look, Ask, Receive, Continue, GiveUp, Goes, Ends
    <3>4. QED
      BY <3>1, <3>2, <3>3 DEF Begin, Look, Ask, Receive, Continue, Goes, Ends
  <2>2. got[c] # 0 /\ Delivered(got[c]) /\ (Rows = {} \/ Oldest = cursor[c])
    BY <2>1 DEF GiveUp, Moved, HistoryInv, AnswersDelivered
  <2>3. k \in 1..N /\ got[c] - Count <= k /\ k < got[c]
    BY DEF Older
  <2>4. k \in stored \cup Gone
    <3>1. ToSet(queue) = {}
      BY NothingQueued, Zenon
    <3>2. QED
      BY <2>2, <2>3, <3>1 DEF Delivered, Settled
  <2>5. CASE k \in Rows
    <3>1. stored \subseteq 1..N /\ Rows # {}
      BY <2>5 DEF HistoryInv, BackfillTypeOK
    <3>2. QED
      BY <2>2, <2>5, <3>1, OlderMovesCursor
  <2>6. QED
    BY <2>4, <2>5 DEF Rows
<1>2. QED
  BY <1>1, HistoryInvariant, PTL DEF BackfillSpec, GivesUpRightly
=============================================================================
