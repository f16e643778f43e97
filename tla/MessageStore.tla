---------------------------- MODULE MessageStore ----------------------------
(***************************************************************************)
(* The tables messages and chats of internal/store, for one conversation,  *)
(* and everything that writes them at the same time: processMessage (on    *)
(* the worker and inline in the handler), the commands that send, edit and *)
(* delete, and the media download.                                         *)
(*                                                                         *)
(* WhatsApp knows the conversation under two addresses, the phone number   *)
(* "pn" and the hidden user "lid", and delivers under either.  A message   *)
(* has a version: 1 when sent, one more with each edit.  The same message  *)
(* may be delivered again, live or in a history sync exported earlier.     *)
(***************************************************************************)
EXTENDS Naturals, FiniteSets, Sequences

CONSTANTS
    Message,        \* ids of messages of the conversation
    Mine,           \* those sent from this account
    HasMedia,       \* those with an attachment
    Writer,         \* goroutines that write: the worker, inline handlers, IPC handlers
    MaxVersion,     \* bound: versions of one message
    MaxTime,        \* bound: the clock, in events on WhatsApp's side
    SendAddr        \* addresses the user of the commands writes to

Addr == {"pn", "lid"}
NoText == 0         \* the text of a stub that history sends for a revoked message

ASSUME StoreAssumption ==
    /\ Mine \subseteq Message /\ HasMedia \subseteq Message
    /\ MaxVersion \in Nat \ {0} /\ MaxTime \in Nat
    /\ SendAddr \subseteq Addr

VARIABLES
    now,        \* the clock of WhatsApp and of this host
    origin,     \* what WhatsApp holds: when each version was made, and whether revoked
    lidKnown,   \* GetPNForLID finds the number
    chats,      \* table chats: address -> last_message_ts
    rows,       \* table messages: <<chat_jid, msg_id>> -> the columns that matter here
    writer,     \* what each writer is in the middle of
    told,       \* history: messages whose revoke event was processed
    early,      \* history: the mapping was known from the start
    skipped     \* history: chats whose upsert failed in a command that went on

vars == <<now, origin, lidKnown, chats, rows, writer, told, early, skipped>>

Key == Addr \X Message
Parsed == [ts : 0..MaxTime, text : 0..MaxVersion, media : BOOLEAN, key : BOOLEAN]
Row == [ts : 0..MaxTime, text : 0..MaxVersion, media : BOOLEAN, key : BOOLEAN,
        revoked : BOOLEAN, file : BOOLEAN]
Empty == [ts |-> 0, text |-> NoText, media |-> FALSE, key |-> FALSE]

Idle == [op |-> "idle"]
Busy == [op : {"sent", "store", "mark"}, at : Key, new : Parsed]

Sent(m) == origin[m].times # <<>>
Current(m) == Len(origin[m].times)
CanChange(m) == Sent(m) /\ ~origin[m].revoked /\ Current(m) < MaxVersion /\ now < MaxTime

(***************************************************************************)
(* Statements.                                                             *)
(***************************************************************************)

\* A table with one row inserted or replaced.
Put(table, k, row) == [x \in DOMAIN table \cup {k} |-> IF x = k THEN row ELSE table[x]]

\* mutant: the timestamp is overwritten
UpsertChatOverwriting(a, ts) == Put(chats, a, ts)

UpsertChat(a, ts) ==
    Put(chats, a, IF a \in DOMAIN chats /\ chats[a] >= ts THEN chats[a] ELSE ts)

\* mutant: a text edit, which brings no keys, erases them
MergeKeys(old, new) ==
    [ts |-> new.ts, text |-> new.text, media |-> new.media,
     key |-> new.key, revoked |-> old.revoked, file |-> old.file]

\* mutant: the revoked flag is taken from the new event
MergeOverwriting(old, new) ==
    [ts |-> new.ts, text |-> new.text, media |-> new.media,
     key |-> new.key \/ old.key, revoked |-> FALSE, file |-> old.file]

\* The row UpsertMessage leaves when one exists: keys are kept when the new
\* event has none, media_type and text are not; no caller passes Revoked.
Merge(old, new) ==
    [ts |-> new.ts, text |-> new.text, media |-> new.media,
     key |-> new.key \/ old.key, revoked |-> old.revoked, file |-> old.file]

Fresh(new) ==
    [ts |-> new.ts, text |-> new.text, media |-> new.media,
     key |-> new.key, revoked |-> FALSE, file |-> FALSE]

\* The foreign key on chat_jid refuses a message whose chat is not there.
UpsertMessage(k, new) ==
    IF k[1] \notin DOMAIN chats THEN rows
    ELSE Put(rows, k, IF k \in DOMAIN rows THEN Merge(rows[k], new) ELSE Fresh(new))

MarkRevoked(k) ==
    IF k \in DOMAIN rows THEN [rows EXCEPT ![k].revoked = TRUE] ELSE rows

\* mutant: stored under the address the event came with
ResolveNever(a) == a

ResolveLIDToPN(a) == IF lidKnown THEN "pn" ELSE a

-----------------------------------------------------------------------------
Init ==
    /\ now = 0
    /\ origin = [m \in Message |-> [times |-> <<>>, revoked |-> FALSE]]
    /\ lidKnown \in BOOLEAN /\ early = lidKnown
    /\ chats = [a \in {} |-> 0]
    /\ rows = [k \in {} |-> Empty]
    /\ writer = [w \in Writer |-> Idle]
    /\ told = {}
    /\ skipped = {}

(***************************************************************************)
(* WhatsApp and the other devices.                                         *)
(***************************************************************************)

\* A new version of m at the next instant: its sending, or an edit.
NewVersion(m) ==
    /\ now' = now + 1
    /\ origin' = [origin EXCEPT ![m].times = Append(@, now + 1)]

SayElsewhere(m) ==
    /\ ~Sent(m) /\ now < MaxTime
    /\ NewVersion(m)
    /\ UNCHANGED <<early, lidKnown, chats, rows, writer, told, skipped>>

EditElsewhere(m) ==
    /\ CanChange(m)
    /\ NewVersion(m)
    /\ UNCHANGED <<early, lidKnown, chats, rows, writer, told, skipped>>

RevokeElsewhere(m) ==
    /\ Sent(m) /\ ~origin[m].revoked
    /\ origin' = [origin EXCEPT ![m].revoked = TRUE]
    /\ UNCHANGED <<early, now, lidKnown, chats, rows, writer, told, skipped>>

LearnMapping ==
    /\ ~lidKnown
    /\ lidKnown' = TRUE
    /\ UNCHANGED <<early, now, origin, chats, rows, writer, told, skipped>>

(***************************************************************************)
(* processMessage and processHistorySync.                                  *)
(***************************************************************************)

ParseLiveMessage(m) ==
    {[ts |-> origin[m].times[1], text |-> 1, media |-> m \in HasMedia, key |-> m \in HasMedia]}

\* The edit stands for the message but carries the time of the edit; its
\* content may repeat the attachment, with or without its keys.
ParseEditEvent(m) ==
    {[ts |-> origin[m].times[v], text |-> v, media |-> media, key |-> key] :
        v \in 2..Current(m), media \in BOOLEAN, key \in BOOLEAN}

\* History was exported at some point since: any version, or a stub.
ParseHistoryMessage(m) ==
    {[ts |-> origin[m].times[1], text |-> v, media |-> m \in HasMedia, key |-> m \in HasMedia] :
        v \in 1..Current(m)}
    \cup IF origin[m].revoked
         THEN {[ts |-> origin[m].times[1], text |-> NoText, media |-> FALSE, key |-> FALSE]}
         ELSE {}

Deliveries(m) ==
    IF Sent(m)
    THEN {p \in ParseLiveMessage(m) \cup ParseEditEvent(m) \cup ParseHistoryMessage(m) :
              (p.key => p.media) /\ (p.media => m \in HasMedia)}
    ELSE {}

\* storeParsedMessage resolves the chat and upserts it ...
StoreChat(w, m, a, p) ==
    /\ writer[w] = Idle
    /\ p \in Deliveries(m)
    /\ chats' = UpsertChat(ResolveLIDToPN(a), p.ts)
    /\ writer' = [writer EXCEPT ![w] = [op |-> "store", at |-> <<ResolveLIDToPN(a), m>>, new |-> p]]
    /\ UNCHANGED <<early, now, origin, lidKnown, rows, told, skipped>>

\* ... and then, a lookup of names and of the quoted message later, the message.
StoreMessage(w) ==
    /\ writer[w].op = "store"
    /\ rows' = UpsertMessage(writer[w].at, writer[w].new)
    /\ writer' = [writer EXCEPT ![w] = Idle]
    /\ UNCHANGED <<early, now, origin, lidKnown, chats, told, skipped>>

\* A revoke event marks the row under the address its key names, as it is.
ProcessRevoke(w, m, a) ==
    /\ writer[w] = Idle
    /\ origin[m].revoked
    /\ rows' = MarkRevoked(<<a, m>>)
    /\ told' = told \cup {m}
    /\ UNCHANGED <<early, now, origin, lidKnown, chats, writer, skipped>>

(***************************************************************************)
(* Commands that send, edit, delete; they act on WhatsApp first.           *)
(***************************************************************************)

\* SendText has returned; the command has read the clock for its row.
SendMessage(w, m, a) ==
    /\ writer[w] = Idle
    /\ m \in Mine /\ a \in SendAddr /\ ~Sent(m) /\ now < MaxTime
    /\ NewVersion(m)
    /\ writer' = [writer EXCEPT ![w] =
           [op |-> "sent", at |-> <<a, m>>,
            new |-> [ts |-> now + 1, text |-> 1, media |-> m \in HasMedia, key |-> m \in HasMedia]]]
    /\ UNCHANGED <<early, lidKnown, chats, rows, told, skipped>>

\* Its upsert of the chat may fail, which is only a warning.
PersistChat(w) ==
    /\ writer[w].op = "sent"
    /\ LET a == writer[w].at[1] IN
           \/ chats' = UpsertChat(a, writer[w].new.ts) /\ UNCHANGED skipped
           \/ skipped' = skipped \cup {a} /\ UNCHANGED chats
    /\ writer' = [writer EXCEPT ![w].op = "store"]
    /\ UNCHANGED <<early, now, origin, lidKnown, rows, told>>

\* The row was read before the edit went out, and its timestamp is written back.
EditMessage(w, k) ==
    /\ writer[w] = Idle
    /\ k \in DOMAIN rows /\ k[2] \in Mine /\ CanChange(k[2])
    /\ NewVersion(k[2])
    /\ writer' = [writer EXCEPT ![w] =
           [op |-> "store", at |-> k,
            new |-> [ts |-> rows[k].ts, text |-> Current(k[2]) + 1, media |-> FALSE, key |-> FALSE]]]
    /\ UNCHANGED <<early, lidKnown, chats, rows, told, skipped>>

DeleteMessage(w, k) ==
    /\ writer[w] = Idle
    /\ k \in DOMAIN rows /\ k[2] \in Mine /\ Sent(k[2])
    /\ origin' = [origin EXCEPT ![k[2]].revoked = TRUE]
    /\ writer' = [writer EXCEPT ![w] = [op |-> "mark", at |-> k, new |-> Empty]]
    /\ UNCHANGED <<early, now, lidKnown, chats, rows, told, skipped>>

MarkDeleted(w) ==
    /\ writer[w].op = "mark"
    /\ rows' = MarkRevoked(writer[w].at)
    /\ writer' = [writer EXCEPT ![w] = Idle]
    /\ UNCHANGED <<early, now, origin, lidKnown, chats, told, skipped>>

\* A statement fails, or the process dies: what the writer had left is not done.
Abandon(w) ==
    /\ writer[w] # Idle
    /\ writer' = [writer EXCEPT ![w] = Idle]
    /\ UNCHANGED <<early, now, origin, lidKnown, chats, rows, told, skipped>>

\* Media is downloaded once the row says how.
DownloadMedia(k) ==
    /\ k \in DOMAIN rows
    /\ rows[k].media /\ rows[k].key /\ ~rows[k].file
    /\ rows' = [rows EXCEPT ![k].file = TRUE]
    /\ UNCHANGED <<early, now, origin, lidKnown, chats, writer, told, skipped>>

-----------------------------------------------------------------------------
Upstream ==
    \/ \E m \in Message : SayElsewhere(m) \/ EditElsewhere(m) \/ RevokeElsewhere(m)
    \/ LearnMapping

Processing(w) ==
    \/ \E m \in Message, a \in Addr :
           \/ \E p \in Deliveries(m) : StoreChat(w, m, a, p)
           \/ ProcessRevoke(w, m, a)
    \/ StoreMessage(w)

Commands(w) ==
    \/ \E m \in Message, a \in Addr : SendMessage(w, m, a)
    \/ PersistChat(w)
    \/ \E k \in DOMAIN rows : EditMessage(w, k) \/ DeleteMessage(w, k)
    \/ MarkDeleted(w)

Next ==
    \/ Upstream
    \/ \E w \in Writer : Processing(w) \/ Commands(w) \/ Abandon(w)
    \/ \E k \in DOMAIN rows : DownloadMedia(k)

Spec == Init /\ [][Next]_vars

-----------------------------------------------------------------------------
Origin == [times : Seq(1..MaxTime), revoked : BOOLEAN]

\* The types; the tables are keyed by what exists, and a row's chat exists.
TypeOK ==
    /\ now \in 0..MaxTime
    /\ origin \in [Message -> Origin] /\ \A m \in Message : Current(m) <= MaxVersion
    /\ lidKnown \in BOOLEAN
    /\ DOMAIN chats \subseteq Addr /\ \A a \in DOMAIN chats : chats[a] \in 0..MaxTime
    /\ DOMAIN rows \subseteq Key /\ \A k \in DOMAIN rows : rows[k] \in Row
    /\ \A k \in DOMAIN rows : k[1] \in DOMAIN chats
    /\ writer \in [Writer -> {Idle} \cup Busy]
    /\ early \in BOOLEAN /\ told \subseteq Message /\ skipped \subseteq Addr

\* A row never loses what it has gained, whatever is delivered again and
\* whoever writes at the same time: a revoked message stays revoked, the keys
\* that decrypt an attachment stay, a downloaded file stays recorded.
RowsOnlyGain ==
    [][\A k \in DOMAIN rows :
           /\ k \in DOMAIN rows'
           /\ rows[k].revoked => rows'[k].revoked
           /\ rows[k].key => rows'[k].key
           /\ rows[k].file => rows'[k].file]_vars

\* The chat list sorts by last_message_ts: a chat is at least as recent as each
\* of its messages, in whatever order history brings them, unless a command
\* failed to upsert the chat of what it sent and stored the message all the same.
ChatCoversRows ==
    \A k \in DOMAIN rows : k[1] \in skipped \/ rows[k].ts <= chats[k[1]]

\* Replays and history sync do not duplicate: a message has one row although it
\* is delivered under two addresses.  Does not hold (README, section 5).
OneRowPerMessage ==
    \A k, l \in DOMAIN rows : k[2] = l[2] => k = l

\* What the code achieves of it: whatever is delivered, stored and sent to a
\* number after the mapping was known goes to one row.
OneRowWhenMapped == early => OneRowPerMessage

\* A message whose revoke event was processed is not shown as if it were there.
\* Does not hold (README, section 5).
RevokeTracked ==
    \A k \in DOMAIN rows : k[2] \in told => rows[k].revoked
=============================================================================
