------------------------------ MODULE ChatState ------------------------------
(***************************************************************************)
(* The archived, pinned, muted and unread flags of one chat: set by        *)
(* commands (internal/app/chat_state.go), which change them at WhatsApp    *)
(* and then in the store, and by the events with which WhatsApp tells of   *)
(* every change, ours included (internal/app/sync.go, processQueued).      *)
(*                                                                         *)
(* The chat has two addresses, its phone number and a hidden one.  A       *)
(* message is stored under the number when the mapping is known, an event  *)
(* or a command updates the row of the address it names, if there is one.  *)
(* "inbox" is what WhatsApp has sent and Sync has not seen, "queue" what   *)
(* Sync has accepted; both are handled in the order of their stamps, but   *)
(* for events handled inline once the worker is gone.                      *)
(*                                                                         *)
(* The columns of the store are integers: a flag is 0 or 1, muted_until is *)
(* 0, -1 for ever, or a time.                                              *)
(***************************************************************************)
EXTENDS Integers

CONSTANTS
  Command,       \* commands, one change each
  Changed,       \* the flags that are changed
  MaxHappens     \* bound on changes, messages, failures, starts and seconds

Field == {"archived", "pinned", "muted", "unread"}
Addr == {"number", "hidden"}
Duration == 1          \* of a mute that ends, in seconds
Second == 1000         \* WhatsApp's times are in milliseconds

ASSUME ChatStateAssumption ==
  /\ Changed \subseteq Field
  /\ MaxHappens \in Nat

VARIABLES
  remote, last,      \* the chat at WhatsApp, and the stamps of the last changes
  mapped,            \* the number behind the hidden address is known
  rows, local,       \* the addresses that have a row, and their columns
  inbox, queue,      \* sent by WhatsApp; accepted by Sync
  sync,              \* where Sync is
  at, want,          \* where each command is, and the change it made
  lost,              \* history: the fields whose last change a row will miss
  sent,              \* the stamp of the last event or message
  now, happened      \* the clock, in seconds; how much has happened

counters == <<now, happened>>
commands == <<at, want>>
whatsapp == <<remote, last, sent>>
store == <<rows, local>>
vars == <<whatsapp, mapped, store, inbox, queue, sync, commands, lost, counters>>

Clear == [f \in Field |-> 0]
Nothing == [n |-> 0, addr |-> "number", field |-> "message", value |-> 0]
-----------------------------------------------------------------------------
Init ==
  /\ remote = Clear /\ last = Clear /\ sent = 0 /\ mapped \in BOOLEAN
  /\ rows \in SUBSET Addr /\ local = [a \in Addr |-> Clear]
  /\ inbox = {} /\ queue = {} /\ sync = "on"
  /\ at = [c \in Command |-> "idle"] /\ want = [c \in Command |-> Nothing]
  /\ lost = [a \in Addr |-> {}]
  /\ now = 1 /\ happened = 0

Happens == happened < MaxHappens /\ happened' = happened + 1

(* what can be asked of WhatsApp, under either address *)
Changes ==
  [addr : Addr, field : Changed \ {"muted"}, value : {0, 1}]
    \cup [addr : Addr, field : Changed \cap {"muted"}, value : {0, -1, Second * (now + Duration)}]

(* an archived chat is not pinned *)
Unpins(e) == e.field = "archived" /\ e.value = 1
Touches(e) == {e.field} \cup (IF Unpins(e) THEN {"pinned"} ELSE {})
Set(chat, e) ==
  [f \in Field |-> IF f = e.field THEN e.value ELSE IF f \in Touches(e) THEN 0 ELSE chat[f]]

(* the address a message is stored under *)
Home(a) == IF mapped THEN "number" ELSE a

Flight == inbox \cup queue
Oldest(S) == {i \in S : \A j \in S : i.n <= j.n}
Stamped(e) == [n |-> sent + 1, addr |-> e.addr, field |-> e.field, value |-> e.value]

(* the fields whose last change an event is *)
Newest(e) == {f \in Field : last[f] = e.n}
(* an event finds a row, or a message before it will make one *)
Held(e) ==
  \/ e.addr \in rows
  \/ \E m \in Flight : m.field = "message" /\ m.n < e.n /\ Home(m.addr) = e.addr
(* the fields whose last change is under way to an address, and finds no row there *)
Bare(a) == UNION {Newest(e) : e \in {i \in Flight : i.addr = a /\ ~Held(i)}}
Dropped(S, a) == UNION {Newest(e) : e \in {i \in S : i.addr = a}}
-----------------------------------------------------------------------------
(* WhatsApp makes the change and sends the event; the row of the other address
   will not hear of it *)
Change(e) ==
  /\ remote' = Set(remote, e) /\ sent' = sent + 1
  /\ last' = [f \in Field |-> IF f \in Touches(e) THEN sent + 1 ELSE last[f]]
  /\ inbox' = inbox \cup {Stamped(e)}
  /\ UNCHANGED <<mapped, store, queue, sync>>
  /\ lost' = [a \in Addr |-> lost[a] \cup IF a = e.addr THEN Bare(a)' ELSE Touches(e)]

ChangedElsewhere(e) ==
  /\ Happens /\ Change(e) /\ UNCHANGED <<commands, now>>

SendMessage(a) ==
  /\ Happens /\ sent' = sent + 1
  /\ inbox' = inbox \cup {[Nothing EXCEPT !.n = sent + 1, !.addr = a]}
  /\ UNCHANGED <<remote, last, mapped, store, queue, sync, commands, lost, now>>

(* the session store learns the mapping: messages go to the other address now *)
Learn ==
  /\ ~mapped /\ mapped' = TRUE
  /\ UNCHANGED <<whatsapp, store, inbox, queue, sync, commands, counters>>
  /\ lost' = [a \in Addr |-> lost[a] \cup Bare(a)']

Tick ==
  /\ Happens /\ now' = now + 1
  /\ UNCHANGED <<whatsapp, mapped, store, inbox, queue, sync, commands, lost>>
-----------------------------------------------------------------------------
(* ArchiveChat, PinChat, MuteChat, MarkChatRead: first at WhatsApp ... *)
Call(c, e) ==
  /\ at[c] = "idle" /\ at' = [at EXCEPT ![c] = "write"]
  /\ want' = [want EXCEPT ![c] = Stamped(e)]
  /\ Happens /\ Change(e) /\ UNCHANGED now

(* the answer does not come: the change may have been made all the same *)
CallFails(c, e) ==
  /\ at[c] = "idle" /\ at' = [at EXCEPT ![c] = "done"] /\ Happens /\ UNCHANGED <<want, now>>
  /\ Change(e) \/ UNCHANGED <<whatsapp, mapped, store, inbox, queue, sync, lost>>

(* the end of a mute is stored in seconds, from now on *)
Column(e) ==
  IF e.field = "muted" /\ e.value > 0 THEN now + Duration ELSE e.value

Ends(c) == at' = [at EXCEPT ![c] = "done"] /\ want' = [want EXCEPT ![c] = Nothing]

UnderWay(a, f) == \E e \in Flight : e.addr = a /\ f \in Touches(e)

(* ... then in the store: SetChatArchived and the like, which update no row
   when there is none.  Unless its own event or a later one is still to come,
   the row is right when nothing has changed since, and wrong otherwise. *)
Write(c) ==
  LET a == want[c].addr
      f == want[c].field IN
  /\ at[c] = "write" /\ Ends(c)
  /\ local' = IF a \in rows THEN [local EXCEPT ![a][f] = Column(want[c])] ELSE local
  /\ lost' = IF a \notin rows \/ UnderWay(a, f) THEN lost
             ELSE IF f \in Newest(want[c]) THEN [lost EXCEPT ![a] = @ \ {f}]
             ELSE [lost EXCEPT ![a] = @ \cup {f}]
  /\ UNCHANGED <<whatsapp, mapped, rows, inbox, queue, sync, counters>>

WriteFails(c) ==
  /\ at[c] = "write" /\ Ends(c) /\ Happens
  /\ UNCHANGED <<whatsapp, mapped, store, inbox, queue, sync, lost, now>>

(* other commands make rows too: UpsertChat of a message sent, of a group *)
OwnRow(a) ==
  /\ a \notin rows /\ rows' = rows \cup {a}
  /\ UNCHANGED <<whatsapp, mapped, local, inbox, queue, sync, commands, lost, counters>>
-----------------------------------------------------------------------------
Start ==
  /\ sync = "off" /\ Happens /\ sync' = "on"
  /\ UNCHANGED <<whatsapp, mapped, store, inbox, queue, commands, lost, now>>

(* the worker has drained the queue and exits *)
Cancelled ==
  /\ sync = "on" /\ queue = {} /\ sync' = "late"
  /\ UNCHANGED <<whatsapp, mapped, store, inbox, queue, commands, lost, counters>>

(* finish: no handler from here on, then what is queued is processed *)
Unregister ==
  /\ sync \in {"on", "late"} /\ sync' = "closing"
  /\ UNCHANGED <<whatsapp, mapped, store, inbox, queue, commands, lost, counters>>

Returns ==
  /\ sync = "closing" /\ queue = {} /\ sync' = "off"
  /\ UNCHANGED <<whatsapp, mapped, store, inbox, queue, commands, lost, counters>>

(* the process dies: what it has accepted is lost, its commands end *)
Kill ==
  /\ sync' = "off" /\ queue' = {}
  /\ at' = [c \in Command |-> IF at[c] = "write" THEN "done" ELSE at[c]]
  /\ want' = [c \in Command |-> Nothing]
  /\ UNCHANGED <<whatsapp, mapped, store, inbox, counters>>
  /\ lost' = [a \in Addr |-> lost[a] \cup Dropped(queue, a) \cup Bare(a)']

(* the handler puts what arrives in the queue *)
Deliver ==
  /\ sync \in {"on", "late"}
  /\ \E i \in Oldest(inbox) : inbox' = inbox \ {i} /\ queue' = queue \cup {i}
  /\ UNCHANGED <<whatsapp, mapped, store, sync, commands, lost, counters>>

(* a connection without a handler: the event is acknowledged and gone *)
Unheard ==
  /\ sync \in {"closing", "off"}
  /\ \E i \in Oldest(inbox) :
       /\ inbox' = inbox \ {i}
       /\ UNCHANGED <<whatsapp, mapped, store, queue, sync, commands, counters>>
       /\ lost' = [a \in Addr |-> lost[a] \cup Dropped({i}, a) \cup Bare(a)']
-----------------------------------------------------------------------------
(* processQueued, by the worker or the final sweep ... *)
FromQueue(i) == sync \in {"on", "closing"} /\ i \in Oldest(queue) /\ queue' = queue \ {i} /\ inbox' = inbox
(* ... or by the handler, when the worker is gone *)
Inline(i) == sync = "late" /\ i \in Oldest(inbox) /\ inbox' = inbox \ {i} /\ queue' = queue
Taken(i) == FromQueue(i) \/ Inline(i)

(* a message makes the row of its chat *)
ProcessMessage(i) ==
  /\ i.field = "message" /\ Taken(i) /\ rows' = rows \cup {Home(i.addr)}
  /\ UNCHANGED <<whatsapp, mapped, local, sync, commands, lost, counters>>

(* the error is dropped: no row is made, or one under the address that could
   not be resolved *)
MessageFails(i) ==
  /\ i.field = "message" /\ Taken(i) /\ Happens
  /\ rows' = rows \/ rows' = rows \cup {i.addr}
  /\ UNCHANGED <<whatsapp, mapped, local, sync, commands, now>>
  /\ lost' = [a \in Addr |-> lost[a] \cup Bare(a)']

(* the columns an event sets in the row of its address, but for those whose
   statement fails *)
Stored(i, failed) ==
  IF i.addr \notin rows THEN local
  ELSE [local EXCEPT ![i.addr] =
          [f \in Field |-> IF f \in failed THEN @[f] ELSE Set(@, i)[f]]]

(* a row that has taken the last change of a field is right again *)
Heard(i) == IF i.addr \in rows THEN [lost EXCEPT ![i.addr] = @ \ Newest(i)] ELSE lost

(* mutant: the flags are set by the handler itself, ahead of the queue *)
ProcessAtOnce(i) ==
  /\ i.field \in Field /\ sync = "on" /\ i \in queue
  /\ \A j \in queue : j.n < i.n => j.field = "message"
  /\ queue' = queue \ {i} /\ inbox' = inbox
  /\ local' = Stored(i, {}) /\ lost' = Heard(i)
  /\ UNCHANGED <<whatsapp, mapped, rows, sync, commands, counters>>

Process(i) ==
  /\ i.field \in Field /\ FromQueue(i)
  /\ local' = Stored(i, {}) /\ lost' = Heard(i)
  /\ UNCHANGED <<whatsapp, mapped, rows, sync, commands, counters>>

(* an event handled inline overtakes those that are queued, and the message
   that would have made its row *)
ProcessInline(i) ==
  /\ i.field \in Field /\ Inline(i)
  /\ local' = Stored(i, {})
  /\ lost' = IF i.addr \notin rows THEN [lost EXCEPT ![i.addr] = @ \cup Newest(i)]
             ELSE [lost EXCEPT ![i.addr] =
                     {f \in @ \cup Newest(i) :
                        f \in Newest(i) => \E e \in queue : e.addr = i.addr /\ f \in Touches(e)}]
  /\ UNCHANGED <<whatsapp, mapped, rows, sync, commands, counters>>

(* one statement of the event fails, or all; the errors are discarded *)
ProcessFails(i) ==
  /\ i.field \in Field /\ Taken(i) /\ Happens
  /\ \E failed \in SUBSET Touches(i) \ {{}} : local' = Stored(i, failed)
  /\ lost' = [lost EXCEPT ![i.addr] = @ \cup Newest(i)]
  /\ UNCHANGED <<whatsapp, mapped, rows, sync, commands, now>>

Next ==
  \/ \E e \in Changes : ChangedElsewhere(e) \/ \E c \in Command : Call(c, e) \/ CallFails(c, e)
  \/ \E c \in Command : Write(c) \/ WriteFails(c)
  \/ \E a \in Addr : SendMessage(a) \/ OwnRow(a)
  \/ Learn \/ Tick \/ Start \/ Cancelled \/ Unregister \/ Returns \/ Kill \/ Deliver \/ Unheard
  \/ \E i \in Flight : \/ ProcessMessage(i) \/ MessageFails(i)
                       \/ Process(i) \/ ProcessInline(i) \/ ProcessFails(i)

Spec == Init /\ [][Next]_vars
-----------------------------------------------------------------------------
Item == [n : Nat, addr : Addr, field : Field \cup {"message"}, value : Int]

TypeOK ==
  /\ remote \in [Field -> Int] /\ last \in [Field -> Nat] /\ sent \in Nat
  /\ mapped \in BOOLEAN /\ rows \subseteq Addr /\ local \in [Addr -> [Field -> Int]]
  /\ inbox \subseteq Item /\ queue \subseteq Item
  /\ sync \in {"on", "late", "closing", "off"}
  /\ at \in [Command -> {"idle", "write", "done"}] /\ want \in [Command -> Item]
  /\ lost \in [Addr -> SUBSET Field]
  /\ now \in Nat /\ happened \in 0..MaxHappens

(* a mute of WhatsApp ends in milliseconds; ListChats compares with seconds *)
Holds(f) == remote[f] = -1 \/ IF f = "muted" THEN remote[f] > Second * now ELSE remote[f] = 1
Listed(a, f) ==
  local[a][f] = -1 \/ IF f = "muted" THEN local[a][f] > now ELSE local[a][f] = 1

(* chats list tells of every row what the chat is at WhatsApp, whatever
   commands, other devices, the worker and inline handlers did in whatever
   order: a flag is only wrong while the event of its last change is on its way
   to that row, or when that event named the other address, came before there
   was a row (or instead of the row of a message that was not stored), died
   with the queue, reached no handler, failed, or was handled inline before
   something queued, or when a command wrote an older change over it.  A mute
   with an end may be listed after it: the command counts from the answer of
   WhatsApp, and the event has told the end in milliseconds. *)
ListTellsTruth ==
  \A a \in rows : \A f \in Field \ lost[a] :
    \/ \E e \in Flight : e.addr = a /\ f \in Newest(e)
    \/ Listed(a, f) = Holds(f)
    \/ f = "muted" /\ Listed(a, f) /\ remote[f] > 0
=============================================================================
