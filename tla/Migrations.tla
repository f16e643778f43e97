----------------------------- MODULE Migrations -----------------------------
(***************************************************************************)
(* How a process opens the store: store.Open and ensureSchema              *)
(* (internal/store/db.go, migrations.go), and which search it then uses    *)
(* (search.go).  The schema is a set of pieces, tables and columns; each   *)
(* of the nine migrations adds its pieces and is then recorded in          *)
(* schema_migrations.  Nothing is in a transaction and read commands open  *)
(* the store without the instance lock, so a process may be killed between *)
(* any two statements, and several processes may migrate at once.          *)
(*                                                                         *)
(* An I/O error of a statement outside migration 3 makes Open return, and  *)
(* leaves what Kill leaves; migration 3 swallows most of its errors.       *)
(***************************************************************************)
EXTENDS Naturals, Sequences, FiniteSets

CONSTANTS
  Proc,      \* processes that open the store
  Builds,    \* which binaries they run: TRUE is one built with sqlite_fts5
  Msg,       \* messages
  Releases,  \* the migrations at which earlier releases ended; 0 had none
  MaxStarts, \* bound on the processes started
  MaxFaults  \* bound on the statements of migration 3 that fail

ASSUME MigrationsAssumption ==
  /\ Proc # {}
  /\ Builds \subseteq BOOLEAN /\ Releases \subseteq 0..9
  /\ MaxStarts \in Nat /\ MaxFaults \in Nat

VARIABLES
  schema,     \* the tables and columns that exist
  fts,        \* messages_fts: "none", "old" (no display_text) or "new"
  trig,       \* the triggers on messages that maintain it exist
  rows,       \* the messages stored
  indexed,    \* those in messages_fts
  recorded,   \* the versions in schema_migrations
  at,         \* where each process is
  build,      \* the binary it runs
  known,      \* the versions it loaded
  ver,        \* the migration it is at
  todo,       \* the columns that migration has left
  created,    \* it created messages_fts
  enabled,    \* DB.ftsEnabled
  alone,      \* no other process was opening while it did (history)
  disturbed,  \* one was killed in migration 3, or two opened at once (history)
  starts,     \* processes started
  faults      \* statements of migration 3 that failed

store == <<schema, fts, trig, rows, indexed, recorded>>
locals == <<build, known, ver, todo, created, enabled>>
history == <<alone, disturbed>>
bounds == <<starts, faults>>
vars == <<store, at, locals, history, bounds>>

Version == 1..9

(* the columns a migration looks for and adds, one at a time; those of
   migration 4 are in a Go map and come in any order *)
Columns ==
  [v \in Version |->
     CASE v = 2 -> {<<"display_text">>}
       [] v = 4 -> {<<"reaction_to_id", "reaction_emoji">>, <<"reaction_emoji", "reaction_to_id">>}
       [] v = 5 -> {<<"is_member">>}
       [] v = 6 -> {<<"revoked">>}
       [] v = 7 -> {<<"archived", "pinned", "muted_until", "unread">>}
       [] OTHER -> {<<>>}]

(* what a migration of CREATE ... IF NOT EXISTS statements makes exist *)
Scripted == [v \in Version |-> CASE v = 1 -> {"tables"} [] v = 8 -> {"indexes"}
                                 [] v = 9 -> {"call_events"} [] OTHER -> {}]

Pieces == [v \in Version |-> Scripted[v] \cup UNION {{o[i] : i \in DOMAIN o} : o \in Columns[v]}]

Piece == UNION {Pieces[v] : v \in Version}

Opening(p) == at[p] \notin {"down", "open", "failed"}
Goes(p, from, to) == at[p] = from /\ at' = [at EXCEPT ![p] = to]
-----------------------------------------------------------------------------
(* no store yet; one of a release without schema_migrations; or one that an
   earlier release left at migration k, with or without FTS5 *)
EmptyStore ==
  schema = {} /\ fts = "none" /\ recorded = {} /\ rows = {}
OldStore ==
  \E new \in BOOLEAN :
    /\ schema = {"tables"} \cup (IF new THEN {"display_text"} ELSE {})
    /\ fts \in {"none", IF new THEN "new" ELSE "old"}
    /\ recorded = {} /\ rows \in SUBSET Msg
StoreAt(k) ==
  schema = {"display_text"} \cup UNION {Pieces[v] : v \in 1..k}
  /\ fts \in (IF k < 3 THEN {"none"} ELSE {"none", "new"})
  /\ recorded = 1..k /\ rows \in SUBSET Msg

Init ==
  /\ EmptyStore \/ (0 \in Releases /\ OldStore) \/ \E k \in Releases \ {0} : StoreAt(k)
  /\ trig = (fts # "none")
  /\ indexed = IF fts = "new" THEN rows ELSE {}
  /\ at = [p \in Proc |-> "down"]
  /\ build = [p \in Proc |-> FALSE]
  /\ known = [p \in Proc |-> {}] /\ ver = [p \in Proc |-> 0]
  /\ todo = [p \in Proc |-> <<>>]
  /\ created = [p \in Proc |-> FALSE] /\ enabled = [p \in Proc |-> FALSE]
  /\ alone = [p \in Proc |-> FALSE] /\ disturbed = FALSE
  /\ starts = 0 /\ faults = 0
-----------------------------------------------------------------------------
(* what a process that starts or ends knows of the schema: nothing *)
Forget(p) ==
  /\ known' = [known EXCEPT ![p] = {}] /\ ver' = [ver EXCEPT ![p] = 0]
  /\ todo' = [todo EXCEPT ![p] = <<>>]
  /\ created' = [created EXCEPT ![p] = FALSE] /\ enabled' = [enabled EXCEPT ![p] = FALSE]

(* Open, init and CREATE TABLE IF NOT EXISTS schema_migrations *)
Start(p) ==
  /\ at[p] \in {"down", "failed"}
  /\ starts < MaxStarts /\ starts' = starts + 1
  /\ at' = [at EXCEPT ![p] = "load"]
  /\ \E b \in Builds : build' = [build EXCEPT ![p] = b]
  /\ LET overlaps == \E q \in Proc : Opening(q)
     IN /\ alone' = [q \in Proc |-> IF overlaps /\ Opening(q) THEN FALSE
                                    ELSE IF q = p THEN ~overlaps ELSE alone[q]]
        /\ disturbed' = (disturbed \/ overlaps)
  /\ Forget(p)
  /\ UNCHANGED <<store, faults>>

Stage(v) == IF v \in {1, 8, 9} THEN "script" ELSE IF v = 3 THEN "look" ELSE "check"

(* the loop of ensureSchema goes on to the first migration after v that was
   not applied when the process looked, or Open returns *)
Continue(p, applied, v) ==
  LET left == {w \in Version : w > v /\ w \notin applied}
  IN \/ /\ left = {}
        /\ at' = [at EXCEPT ![p] = "open"]
        /\ known' = [known EXCEPT ![p] = {}] /\ ver' = [ver EXCEPT ![p] = 0]
        /\ created' = [created EXCEPT ![p] = FALSE]
        /\ UNCHANGED todo
     \/ \E w \in left :
          /\ \A x \in left : w <= x
          /\ at' = [at EXCEPT ![p] = Stage(w)]
          /\ known' = [known EXCEPT ![p] = applied] /\ ver' = [ver EXCEPT ![p] = w]
          /\ \E order \in Columns[w] : todo' = [todo EXCEPT ![p] = order]
          /\ UNCHANGED created

(* mutant: what was applied is not looked at *)
LoadNothing(p) ==
  /\ at[p] = "load"
  /\ Continue(p, {}, 0)
  /\ UNCHANGED <<store, build, enabled, history, bounds>>

(* SELECT version FROM schema_migrations, once *)
Load(p) ==
  /\ at[p] = "load"
  /\ Continue(p, recorded, 0)
  /\ UNCHANGED <<store, build, enabled, history, bounds>>

(* migrations 1, 8 and 9: a new messages table has display_text *)
Script(p) ==
  /\ Goes(p, "script", "record")
  /\ schema' = schema \cup Scripted[ver[p]]
                 \cup (IF ver[p] = 1 /\ "tables" \notin schema THEN {"display_text"} ELSE {})
  /\ UNCHANGED <<fts, trig, rows, indexed, recorded, locals, history, bounds>>

Rest(p) == IF Len(todo[p]) = 1 THEN "record" ELSE "check"

(* mutant: a column that is there ends the migration *)
CheckHasReturns(p) ==
  /\ Goes(p, "check", "record")
  /\ Head(todo[p]) \in schema
  /\ todo' = [todo EXCEPT ![p] = Tail(@)]
  /\ UNCHANGED <<store, build, known, ver, created, enabled, history, bounds>>

(* tableHasColumn: a column that is there is skipped *)
CheckHas(p) ==
  /\ Goes(p, "check", Rest(p))
  /\ Head(todo[p]) \in schema
  /\ todo' = [todo EXCEPT ![p] = Tail(@)]
  /\ UNCHANGED <<store, build, known, ver, created, enabled, history, bounds>>

(* mutant: the column is not looked for *)
CheckNothing(p) ==
  /\ Goes(p, "check", "alter")
  /\ UNCHANGED <<store, locals, history, bounds>>

CheckHasNot(p) ==
  /\ Goes(p, "check", "alter")
  /\ Head(todo[p]) \notin schema
  /\ UNCHANGED <<store, locals, history, bounds>>

(* ALTER TABLE ... ADD COLUMN *)
Alter(p) ==
  /\ Goes(p, "alter", Rest(p))
  /\ Head(todo[p]) \notin schema
  /\ schema' = schema \cup {Head(todo[p])}
  /\ todo' = [todo EXCEPT ![p] = Tail(@)]
  /\ UNCHANGED <<fts, trig, rows, indexed, recorded, build, known, ver, created, enabled,
                 history, bounds>>

(* duplicate column: another process added it *)
AlterFails(p) ==
  /\ Goes(p, "alter", "failed")
  /\ Head(todo[p]) \in schema
  /\ UNCHANGED <<store, locals, history, bounds>>

(* INSERT INTO schema_migrations *)
Record(p) ==
  /\ at[p] = "record" /\ ver[p] \notin recorded
  /\ recorded' = recorded \cup {ver[p]}
  /\ Continue(p, known[p], ver[p])
  /\ UNCHANGED <<schema, fts, trig, rows, indexed, build, enabled, history, bounds>>

(* primary key: another process recorded it *)
RecordFails(p) ==
  /\ Goes(p, "record", "failed")
  /\ ver[p] \in recorded
  /\ UNCHANGED <<store, locals, history, bounds>>
-----------------------------------------------------------------------------
(* migration 3, messages_fts: table_info of it needs the fts5 module *)
LookFails(p) ==
  /\ Goes(p, "look", "failed")
  /\ fts # "none" /\ ~build[p]
  /\ UNCHANGED <<store, locals, history, bounds>>

Look(p) ==
  /\ Goes(p, "look", CASE fts = "none" -> "create" [] fts = "old" -> "drop" [] OTHER -> "untrigger")
  /\ fts # "none" => build[p]
  /\ UNCHANGED <<store, locals, history, bounds>>

(* mutant: ftsExists stays true *)
DropOldOnly(p) ==
  /\ Goes(p, "drop", "untrigger")
  /\ fts' = "none" /\ indexed' = {}
  /\ UNCHANGED <<schema, trig, rows, recorded, locals, history, bounds>>

(* DROP TABLE: its triggers, which are on messages, stay *)
DropOld(p) ==
  /\ Goes(p, "drop", "create")
  /\ fts' = "none" /\ indexed' = {}
  /\ UNCHANGED <<schema, trig, rows, recorded, locals, history, bounds>>

(* CREATE VIRTUAL TABLE IF NOT EXISTS *)
CreateIndex(p) ==
  /\ Goes(p, "create", "untrigger")
  /\ build[p]
  /\ fts' = IF fts = "none" THEN "new" ELSE fts
  /\ created' = [created EXCEPT ![p] = TRUE]
  /\ UNCHANGED <<schema, trig, rows, indexed, recorded, build, known, ver, todo, enabled,
                 history, bounds>>

(* a binary without fts5: the error is swallowed and the migration recorded *)
NoIndex(p) ==
  /\ Goes(p, "create", "record")
  /\ ~build[p]
  /\ enabled' = [enabled EXCEPT ![p] = FALSE]
  /\ UNCHANGED <<store, build, known, ver, todo, created, history, bounds>>

DropTriggers(p) ==
  /\ Goes(p, "untrigger", "trigger")
  /\ trig' = FALSE
  /\ UNCHANGED <<schema, fts, rows, indexed, recorded, locals, history, bounds>>

(* CREATE TRIGGER fails when another process has created it *)
CreateTriggers(p) ==
  /\ Goes(p, "trigger", IF trig THEN "record" ELSE IF created[p] THEN "backfill" ELSE "enable")
  /\ trig' = TRUE
  /\ enabled' = [enabled EXCEPT ![p] = FALSE]
  /\ UNCHANGED <<schema, fts, rows, indexed, recorded, build, known, ver, todo, created,
                 history, bounds>>

(* mutant: a new index is left to fill itself *)
FillNothing(p) ==
  /\ Goes(p, "backfill", "enable")
  /\ UNCHANGED <<store, locals, history, bounds>>

(* INSERT INTO messages_fts ... SELECT fails as a whole on a row it has *)
Fill(p) ==
  /\ Goes(p, "backfill", IF rows \cap indexed = {} THEN "enable" ELSE "record")
  /\ indexed' = indexed \cup rows
  /\ UNCHANGED <<schema, fts, trig, rows, recorded, locals, history, bounds>>

Enable(p) ==
  /\ Goes(p, "enable", "record")
  /\ enabled' = [enabled EXCEPT ![p] = TRUE]
  /\ UNCHANGED <<store, build, known, ver, todo, created, history, bounds>>

(* the statements whose errors migrateMessagesFTS swallows *)
IndexFault(p) ==
  /\ faults < MaxFaults
  /\ at[p] \in {"create", "untrigger", "trigger", "backfill"}
  /\ at' = [at EXCEPT ![p] = "record"]
  /\ enabled' = [enabled EXCEPT ![p] = FALSE]
  /\ faults' = faults + 1
  /\ UNCHANGED <<store, build, known, ver, todo, created, history, starts>>
-----------------------------------------------------------------------------
(* an insert into messages fires the triggers *)
CanStore(p) == trig => fts # "none" /\ build[p]

Insert(p, m) ==
  /\ at[p] = "open" /\ m \notin rows /\ CanStore(p)
  /\ rows' = rows \cup {m}
  /\ indexed' = IF trig THEN indexed \cup {m} ELSE indexed
  /\ UNCHANGED <<schema, fts, trig, recorded, at, locals, history, bounds>>

(* SearchMessages: searchFTS joins messages with the index, searchLIKE reads
   messages; their filters are the same *)
Found(p) == IF enabled[p] THEN rows \cap indexed ELSE rows

Kill(p) ==
  /\ at[p] \notin {"down", "failed"}
  /\ at' = [at EXCEPT ![p] = "down"]
  /\ disturbed' = (disturbed \/ (Opening(p) /\ ver[p] = 3))
  /\ build' = [build EXCEPT ![p] = FALSE] /\ Forget(p)
  /\ alone' = [alone EXCEPT ![p] = FALSE]
  /\ UNCHANGED <<store, bounds>>

ColumnStep(p) == CheckHas(p) \/ CheckHasNot(p) \/ Alter(p) \/ AlterFails(p)
IndexStep(p) ==
  \/ LookFails(p) \/ Look(p) \/ DropOld(p) \/ CreateIndex(p) \/ NoIndex(p)
  \/ DropTriggers(p) \/ CreateTriggers(p) \/ Fill(p) \/ Enable(p) \/ IndexFault(p)

Next ==
  \E p \in Proc :
    \/ Start(p) \/ Load(p) \/ Script(p)
    \/ ColumnStep(p) \/ IndexStep(p) \/ Record(p) \/ RecordFails(p) \/ Kill(p)
    \/ \E m \in Msg : Insert(p, m)

Spec == Init /\ [][Next]_vars
-----------------------------------------------------------------------------
Where == {"down", "load", "script", "check", "alter", "record", "look", "drop", "create",
          "untrigger", "trigger", "backfill", "enable", "open", "failed"}

TypeOK ==
  /\ schema \subseteq Piece /\ fts \in {"none", "old", "new"} /\ trig \in BOOLEAN
  /\ rows \subseteq Msg /\ indexed \subseteq Msg /\ recorded \subseteq Version
  /\ at \in [Proc -> Where]
  /\ build \in [Proc -> BOOLEAN] /\ known \in [Proc -> SUBSET Version]
  /\ ver \in [Proc -> {0} \cup Version] /\ todo \in [Proc -> Seq(Piece)]
  /\ created \in [Proc -> BOOLEAN] /\ enabled \in [Proc -> BOOLEAN]
  /\ alone \in [Proc -> BOOLEAN] /\ disturbed \in BOOLEAN
  /\ starts \in 0..MaxStarts /\ faults \in 0..MaxFaults

(* ensureSchema: whoever has the store open finds every table and column its
   statements name, whatever was killed between a migration and its record
   and whoever else was migrating. *)
SchemaWhenOpen == \A p \in Proc : at[p] = "open" => Piece \subseteq schema

(* The migrations resume: an Open that no other overlaps does not fail, in
   whatever state earlier processes left the store -- unless a binary without
   fts5 meets an index whose migration is not recorded. *)
LoneOpenSucceeds ==
  \A p \in Proc : at[p] = "failed" /\ alone[p] => ver[p] = 3 /\ ~build[p]

(* Processes that race to migrate may make each other fail on a duplicate
   column or record, but not all of them: one Open at least goes through. *)
SomebodyOpens ==
  \E p \in Proc : at[p] # "failed" \/ (ver[p] = 3 /\ ~build[p])

(* A search finds what is stored: nothing is missing from an index that is in
   use, unless its migration was killed or two processes were opening. *)
SearchFindsAll ==
  \A p \in Proc : at[p] = "open" /\ ~disturbed => Found(p) = rows

(* A process with fts5 can store messages whenever it has the store open, if
   no statement of migration 3 failed and no migration was disturbed. *)
StoresWhenOpen ==
  \A p \in Proc : at[p] = "open" /\ build[p] /\ faults = 0 /\ ~disturbed => CanStore(p)

(* docs/commands.md:124, messages.go:134: "FTS5 if available": an index that
   exists, is maintained and complete is used by a binary that can use it. *)
FTSWhenAvailable ==
  \A p \in Proc :
    at[p] = "open" /\ build[p] /\ fts = "new" /\ trig /\ rows \subseteq indexed => enabled[p]
=============================================================================
