-------------------------- MODULE MigrationsProofs --------------------------
(***************************************************************************)
(* Theorems about Migrations, for any processes, binaries and messages,    *)
(* and whatever is killed: its state is well-formed, whoever has the store *)
(* open finds the whole schema, an Open that no other overlaps succeeds,   *)
(* one of several that race succeeds, and an undisturbed store is searched *)
(* and written without loss.                                               *)
(***************************************************************************)
EXTENDS Migrations, TLAPS

Indexing == {"look", "drop", "create", "untrigger", "trigger", "backfill", "enable"}
Busy == {"script", "check", "alter", "record"} \cup Indexing

(* What is left of a migration: its pieces exist or are columns to come. *)
Left(p) ==
  \A x \in Pieces[ver[p]] : x \in schema \/ \E i \in 1..Len(todo[p]) : todo[p][i] = x

(* A process at a migration: the earlier ones are recorded, ... *)
Placed(p) ==
  /\ at[p] \in Busy => ver[p] \in Version /\ \A v \in Version : v < ver[p] => v \in recorded
  /\ at[p] = "script" => ver[p] \in {1, 8, 9}
  /\ at[p] \in Indexing => ver[p] = 3
  /\ at[p] \in {"check", "alter"} => ver[p] \notin {1, 3, 8, 9} /\ todo[p] # <<>> /\ Left(p)
  /\ at[p] = "record" => Pieces[ver[p]] \subseteq schema
  /\ at[p] = "open" => Version \subseteq recorded

(* ... and when no other is opening, nothing that it will do has been done. *)
Undisturbed(p) ==
  /\ Opening(p) => \A q \in Proc \ {p} : ~Opening(q)
  /\ at[p] \in Busy => /\ ver[p] \notin known[p]
                       /\ \A v \in recorded : ver[p] <= v => v \in known[p]
  /\ at[p] = "alter" => Head(todo[p]) \notin schema
  /\ at[p] = "failed" => ver[p] = 3 /\ ~build[p]

(* What is recorded is there, and what a process has loaded is recorded. *)
IInv ==
  /\ TypeOK
  /\ \A v \in recorded : Pieces[v] \subseteq schema
  /\ \A p \in Proc : known[p] \subseteq recorded /\ Placed(p) /\ (alone[p] => Undisturbed(p))
-----------------------------------------------------------------------------
(* A piece of a migration is in its script or among its columns. *)
LEMMA PiecesOf ==
  \A v \in Version : \A x :
    x \in Pieces[v] <=> x \in Scripted[v] \/ \E o \in Columns[v] : \E i \in DOMAIN o : x = o[i]
BY DEF Pieces

LEMMA Tables ==
  /\ \A v \in {1, 3, 8, 9} : Columns[v] = {<<>>}
  /\ Columns[2] = {<<"display_text">>} /\ Columns[5] = {<<"is_member">>}
  /\ Columns[4] = {<<"reaction_to_id", "reaction_emoji">>, <<"reaction_emoji", "reaction_to_id">>}
  /\ Columns[6] = {<<"revoked">>}
  /\ Columns[7] = {<<"archived", "pinned", "muted_until", "unread">>}
  /\ \A v \in 2..7 : Scripted[v] = {}
BY DEF Columns, Scripted, Version

(* The migrations that do not look for columns. *)
LEMMA ScriptsOf ==
  ASSUME NEW v \in {1, 3, 8, 9} PROVE Pieces[v] \subseteq Scripted[v]
<1> SUFFICES ASSUME NEW x \in Pieces[v], x \notin Scripted[v] PROVE FALSE
  OBVIOUS
<1>1. PICK o \in Columns[v] : \E i \in DOMAIN o : x = o[i]
  BY PiecesOf DEF Version
<1>2. o = <<>>
  BY <1>1, Tables
<1> QED BY <1>1, <1>2

(* The columns of a migration are pieces, all of its pieces where it looks for
   columns, and then at least one. *)
LEMMA ColumnsOf ==
  ASSUME NEW v \in Version, NEW o \in Columns[v]
  PROVE  /\ o \in Seq(Piece)
         /\ v \notin {1, 3, 8, 9} =>
              o # <<>> /\ \A x \in Pieces[v] : \E i \in 1..Len(o) : o[i] = x
<1>1. \A i \in DOMAIN o : o[i] \in Piece
  BY PiecesOf DEF Piece
<1>2. o \in Seq(Piece) /\ DOMAIN o = 1..Len(o) /\ (v \notin {1, 3, 8, 9} => o # <<>>)
  <2>1. CASE v \in {1, 3, 8, 9}
    <3>1. o = <<>>
      BY <2>1, Tables
    <3> QED BY <3>1, <2>1
  <2>2. CASE v \in {2, 5, 6}
    <3>1. PICK x : o = <<x>>
      BY <2>2, Tables
    <3>2. x \in Piece
      BY <1>1, <3>1
    <3> QED BY <3>1, <3>2, <2>2
  <2>3. CASE v = 4
    <3>1. PICK x, y : o = <<x, y>>
      BY <2>3, Tables
    <3>2. x \in Piece /\ y \in Piece
      BY <1>1, <3>1
    <3> QED BY <3>1, <3>2, <2>3
  <2>4. CASE v = 7
    <3>1. o = <<"archived", "pinned", "muted_until", "unread">>
      BY <2>4, Tables
    <3>2. {"archived", "pinned", "muted_until", "unread"} \subseteq Piece
      <4>1. o[1] \in Piece /\ o[2] \in Piece /\ o[3] \in Piece /\ o[4] \in Piece
        BY <1>1, <3>1
      <4> QED BY <3>1, <4>1
    <3> QED BY <3>1, <3>2, <2>4
  <2> QED BY <2>1, <2>2, <2>3, <2>4 DEF Version
<1>5. ASSUME v \notin {1, 3, 8, 9}, NEW x \in Pieces[v] PROVE \E i \in DOMAIN o : o[i] = x
  <2>1. PICK oo \in Columns[v] : \E i \in DOMAIN oo : x = oo[i]
    BY <1>5, PiecesOf, Tables DEF Version
  <2>2. CASE v = 4
    <3>1. x \in {"reaction_to_id", "reaction_emoji"}
      BY <2>1, <2>2, Tables
    <3>2. o[1] = x \/ o[2] = x
      BY <3>1, <2>2, Tables
    <3>3. DOMAIN o = 1..2
      BY <2>2, Tables
    <3> QED BY <3>2, <3>3
  <2>3. CASE v # 4
    <3>1. oo = o
      BY <1>5, <2>1, <2>3, Tables DEF Version
    <3> QED BY <2>1, <3>1
  <2> QED BY <2>2, <2>3
<1> QED BY <1>2, <1>5

(* What scripts make exist are pieces. *)
LEMMA ScriptPieces ==
  /\ \A v \in Version : Scripted[v] \subseteq Piece
  /\ {"tables", "display_text"} \subseteq Piece
<1>1. \A v \in Version : Scripted[v] \subseteq Piece
  BY PiecesOf DEF Piece
<1>2. "tables" \in Piece
  BY <1>1 DEF Scripted, Version
<1>3. "display_text" \in Piece
  <2>1. 2 \in Version /\ <<"display_text">> \in Columns[2]
    BY Tables DEF Version
  <2>2. "display_text" \in Pieces[2]
    BY <2>1, PiecesOf
  <2> QED BY <2>1, <2>2 DEF Piece
<1> QED BY <1>1, <1>2, <1>3

LEMMA TypeInit == Init => TypeOK
<1> SUFFICES ASSUME Init PROVE TypeOK
  OBVIOUS
<1> USE MigrationsAssumption DEF MigrationsAssumption
<1>1. schema \subseteq Piece /\ fts \in {"none", "old", "new"} /\ recorded \subseteq Version
      /\ rows \subseteq Msg
  <2>1. CASE EmptyStore
    BY <2>1 DEF EmptyStore
  <2>2. CASE OldStore
    BY <2>2, ScriptPieces DEF OldStore
  <2>3. ASSUME NEW k \in Releases \ {0}, StoreAt(k)
        PROVE  schema \subseteq Piece /\ fts \in {"none", "old", "new"} /\ recorded \subseteq Version
               /\ rows \subseteq Msg
    <3>1. k \in Nat /\ 1..k \subseteq Version
      BY DEF Version
    <3>2. schema \subseteq Piece
      BY <3>1, <2>3, ScriptPieces DEF StoreAt, Piece
    <3> QED BY <3>1, <3>2, <2>3 DEF StoreAt
  <2> QED BY <2>1, <2>2, <2>3 DEF Init
<1>2. indexed \subseteq Msg /\ trig \in BOOLEAN
  BY <1>1 DEF Init
<1>3. at \in [Proc -> Where] /\ known \in [Proc -> SUBSET Version] /\ ver \in [Proc -> {0} \cup Version]
      /\ todo \in [Proc -> Seq(Piece)]
  BY DEF Init, Where
<1>4. build \in [Proc -> BOOLEAN] /\ created \in [Proc -> BOOLEAN] /\ enabled \in [Proc -> BOOLEAN]
      /\ alone \in [Proc -> BOOLEAN] /\ disturbed \in BOOLEAN
  BY DEF Init
<1>5. starts \in 0..MaxStarts /\ faults \in 0..MaxFaults
  BY DEF Init
<1> QED BY <1>1, <1>2, <1>3, <1>4, <1>5 DEF TypeOK

(* Where the loop of ensureSchema goes on. *)
LEMMA ContinueTypes ==
  ASSUME TypeOK, NEW p \in Proc, NEW applied \in SUBSET Version, NEW v \in {0} \cup Version,
         Continue(p, applied, v)
  PROVE  /\ at' \in [Proc -> Where]
         /\ known' \in [Proc -> SUBSET Version] /\ ver' \in [Proc -> {0} \cup Version]
         /\ todo' \in [Proc -> Seq(Piece)] /\ created' \in [Proc -> BOOLEAN]
<1> DEFINE left == {w \in Version : w > v /\ w \notin applied}
<1> USE DEF Where
<1>1. CASE left = {} /\ at' = [at EXCEPT ![p] = "open"]
           /\ known' = [known EXCEPT ![p] = {}] /\ ver' = [ver EXCEPT ![p] = 0]
           /\ created' = [created EXCEPT ![p] = FALSE] /\ UNCHANGED todo
  BY <1>1 DEF TypeOK
<1>2. ASSUME NEW w \in left, at' = [at EXCEPT ![p] = Stage(w)],
             known' = [known EXCEPT ![p] = applied], ver' = [ver EXCEPT ![p] = w],
             \E order \in Columns[w] : todo' = [todo EXCEPT ![p] = order], UNCHANGED created
      PROVE  /\ at' \in [Proc -> Where]
             /\ known' \in [Proc -> SUBSET Version] /\ ver' \in [Proc -> {0} \cup Version]
             /\ todo' \in [Proc -> Seq(Piece)] /\ created' \in [Proc -> BOOLEAN]
  <2>1. PICK order \in Columns[w] : todo' = [todo EXCEPT ![p] = order]
    BY <1>2
  <2>2. order \in Seq(Piece)
    BY ColumnsOf
  <2>3. Stage(w) \in {"script", "check", "look"}
    BY DEF Stage
  <2> QED BY <1>2, <2>1, <2>2, <2>3 DEF TypeOK
<1> QED BY <1>1, <1>2 DEF Continue

LEMMA TypeStep == IInv /\ [Next]_vars => TypeOK'
<1> SUFFICES ASSUME IInv, [Next]_vars PROVE TypeOK'
  OBVIOUS
<1> USE MigrationsAssumption DEF MigrationsAssumption, store, locals, history, bounds, Goes, Where
<1>t. TypeOK /\ \A p \in Proc : Placed(p)
  BY DEF IInv
<1>1. ASSUME NEW p \in Proc, Start(p) PROVE TypeOK'
  <2>1. build' \in [Proc -> BOOLEAN] /\ alone' \in [Proc -> BOOLEAN] /\ disturbed' \in BOOLEAN
    BY <1>1, <1>t DEF Start, TypeOK
  <2>2. starts' \in 0..MaxStarts
    BY <1>1, <1>t DEF Start, TypeOK
  <2>3. at' \in [Proc -> Where]
    BY <1>1, <1>t DEF Start, TypeOK
  <2>4. /\ known' \in [Proc -> SUBSET Version] /\ ver' \in [Proc -> {0} \cup Version]
        /\ todo' \in [Proc -> Seq(Piece)]
    BY <1>1, <1>t DEF Start, Forget, TypeOK
  <2>5. created' \in [Proc -> BOOLEAN] /\ enabled' \in [Proc -> BOOLEAN]
    BY <1>1, <1>t DEF Start, Forget, TypeOK
  <2>6. UNCHANGED <<store, faults>>
    BY <1>1 DEF Start
  <2> QED BY <1>t, <2>1, <2>2, <2>3, <2>4, <2>5, <2>6 DEF TypeOK
<1>2. ASSUME NEW p \in Proc, Load(p) PROVE TypeOK'
  <2>1. recorded \in SUBSET Version /\ Continue(p, recorded, 0)
    BY <1>2, <1>t DEF Load, TypeOK
  <2>2. /\ at' \in [Proc -> Where]
        /\ known' \in [Proc -> SUBSET Version] /\ ver' \in [Proc -> {0} \cup Version]
        /\ todo' \in [Proc -> Seq(Piece)] /\ created' \in [Proc -> BOOLEAN]
    BY <1>t, <2>1, ContinueTypes
  <2> QED BY <1>2, <1>t, <2>2 DEF Load, TypeOK
<1>3. ASSUME NEW p \in Proc, Script(p) PROVE TypeOK'
  <2>1. ver[p] \in Version
    BY <1>3, <1>t DEF Script, Placed, Busy
  <2>2. schema' \subseteq Piece
    BY <1>3, <1>t, <2>1, ScriptPieces DEF Script, TypeOK
  <2> QED BY <1>3, <1>t, <2>2 DEF Script, TypeOK
<1>4. ASSUME NEW p \in Proc, CheckHas(p) PROVE TypeOK'
  <2>1. Tail(todo[p]) \in Seq(Piece)
    BY <1>4, <1>t DEF CheckHas, Placed, TypeOK
  <2> QED BY <1>4, <1>t, <2>1 DEF CheckHas, Rest, TypeOK
<1>5. ASSUME NEW p \in Proc, CheckHasNot(p) PROVE TypeOK'
  BY <1>5, <1>t DEF CheckHasNot, TypeOK
<1>6. ASSUME NEW p \in Proc, Alter(p) PROVE TypeOK'
  <2>1. Tail(todo[p]) \in Seq(Piece) /\ Head(todo[p]) \in Piece
    BY <1>6, <1>t DEF Alter, Placed, TypeOK
  <2> QED BY <1>6, <1>t, <2>1 DEF Alter, Rest, TypeOK
<1>7. ASSUME NEW p \in Proc, AlterFails(p) PROVE TypeOK'
  BY <1>7, <1>t DEF AlterFails, TypeOK
<1>8. ASSUME NEW p \in Proc, Record(p) PROVE TypeOK'
  <2>1. ver[p] \in Version /\ known[p] \in SUBSET Version /\ Continue(p, known[p], ver[p])
    BY <1>8, <1>t DEF Record, TypeOK, Placed, Busy
  <2>2. /\ at' \in [Proc -> Where]
        /\ known' \in [Proc -> SUBSET Version] /\ ver' \in [Proc -> {0} \cup Version]
        /\ todo' \in [Proc -> Seq(Piece)] /\ created' \in [Proc -> BOOLEAN]
    BY <1>t, <2>1, ContinueTypes
  <2> QED BY <1>8, <1>t, <2>1, <2>2 DEF Record, TypeOK
<1>9. ASSUME NEW p \in Proc, RecordFails(p) PROVE TypeOK'
  BY <1>9, <1>t DEF RecordFails, TypeOK
<1>10. ASSUME NEW p \in Proc, LookFails(p) \/ Look(p) PROVE TypeOK'
  BY <1>10, <1>t DEF LookFails, Look, TypeOK
<1>11. ASSUME NEW p \in Proc, DropOld(p) \/ CreateIndex(p) PROVE TypeOK'
  BY <1>11, <1>t DEF DropOld, CreateIndex, TypeOK
<1>12. ASSUME NEW p \in Proc, NoIndex(p) \/ DropTriggers(p) \/ CreateTriggers(p) PROVE TypeOK'
  BY <1>12, <1>t DEF NoIndex, DropTriggers, CreateTriggers, TypeOK
<1>13. ASSUME NEW p \in Proc, Fill(p) \/ Enable(p) PROVE TypeOK'
  BY <1>13, <1>t DEF Fill, Enable, TypeOK
<1>14. ASSUME NEW p \in Proc, IndexFault(p) PROVE TypeOK'
  BY <1>14, <1>t DEF IndexFault, TypeOK
<1>15. ASSUME NEW p \in Proc, NEW m \in Msg, Insert(p, m) PROVE TypeOK'
  BY <1>15, <1>t DEF Insert, TypeOK
<1>16. ASSUME NEW p \in Proc, Kill(p) PROVE TypeOK'
  BY <1>16, <1>t DEF Kill, Forget, TypeOK
<1>17. CASE UNCHANGED vars
  BY <1>17, <1>t DEF vars, TypeOK
<1> QED
  BY <1>1, <1>2, <1>3, <1>4, <1>5, <1>6, <1>7, <1>8, <1>9, <1>10, <1>11, <1>12, <1>13,
     <1>14, <1>15, <1>16, <1>17 DEF Next, ColumnStep, IndexStep
-----------------------------------------------------------------------------
(* What a step of p says of itself, of the schema and of the others. *)
Own(p) == known[p] \subseteq recorded /\ Placed(p) /\ (alone[p] => Undisturbed(p))
Recorded == \A v \in recorded : Pieces[v] \subseteq schema

Others(p) ==
  /\ schema \subseteq schema' /\ recorded \subseteq recorded'
  /\ \A q \in Proc \ {p} :
       /\ at'[q] = at[q] /\ known'[q] = known[q] /\ ver'[q] = ver[q] /\ todo'[q] = todo[q]
       /\ build'[q] = build[q] /\ (alone'[q] => alone[q])
       /\ alone'[q] /\ Opening(q) =>
            at'[p] \in {"down", "open", "failed"} /\ UNCHANGED <<schema, recorded>>

(* A step of p that does so keeps what is known of the others. *)
LEMMA OthersKeep ==
  ASSUME IInv, NEW p \in Proc, Others(p), NEW q \in Proc \ {p} PROVE Own(q)'
<1>1. known[q] \subseteq recorded /\ Placed(q) /\ (alone[q] => Undisturbed(q))
  BY DEF IInv
<1>2. /\ at'[q] = at[q] /\ known'[q] = known[q] /\ ver'[q] = ver[q] /\ todo'[q] = todo[q]
      /\ build'[q] = build[q] /\ (alone'[q] => alone[q])
      /\ schema \subseteq schema' /\ recorded \subseteq recorded'
  BY DEF Others
<1>3. Left(q) => Left(q)'
  BY <1>2 DEF Left
<1>4. Placed(q)'
  BY <1>1, <1>2, <1>3 DEF Placed
<1>5. ASSUME alone'[q] PROVE Undisturbed(q)'
  <2>1. CASE Opening(q)
    <3>1. UNCHANGED <<schema, recorded>> /\ ~Opening(p)'
      BY <1>5, <2>1 DEF Others, Opening
    <3>2. \A r \in Proc \ {q} : ~Opening(r)'
      BY <1>1, <1>2, <1>5, <2>1, <3>1 DEF Undisturbed, Others, Opening
    <3> QED BY <1>1, <1>2, <1>5, <3>1, <3>2 DEF Undisturbed
  <2>2. CASE ~Opening(q)
    BY <1>1, <1>2, <1>5, <2>2 DEF Undisturbed, Opening, Busy, Indexing
  <2> QED BY <2>1, <2>2
<1> QED BY <1>1, <1>2, <1>4, <1>5 DEF Own

(* A process that is opening has no lone process beside it. *)
LEMMA Crowded ==
  ASSUME IInv, NEW p \in Proc, Opening(p), NEW q \in Proc \ {p}, alone[q] PROVE ~Opening(q)
BY DEF IInv, Undisturbed

(* The loop of ensureSchema goes on to a migration not recorded, if no other
   process has recorded one meanwhile. *)
LEMMA ContinueOwn ==
  ASSUME IInv, TypeOK', NEW p \in Proc, NEW applied \in SUBSET Version, NEW v \in {0} \cup Version,
         Continue(p, applied, v), Opening(p),
         applied \subseteq recorded', \A w \in Version : w <= v => w \in recorded',
         UNCHANGED <<build, alone, schema>>,
         alone[p] => \A w \in recorded' : w > v => w \in applied
  PROVE  Own(p)' /\ \A q \in Proc \ {p} : /\ at'[q] = at[q] /\ known'[q] = known[q]
                                         /\ ver'[q] = ver[q] /\ todo'[q] = todo[q]
<1> DEFINE left == {w \in Version : w > v /\ w \notin applied}
<1>t. TypeOK /\ Version \subseteq Nat
  BY DEF IInv, Version
<1>a. alone'[p] => \A q \in Proc \ {p} : ~Opening(q)
  BY DEF IInv, Undisturbed
<1>1. CASE left = {} /\ at' = [at EXCEPT ![p] = "open"]
           /\ known' = [known EXCEPT ![p] = {}] /\ ver' = [ver EXCEPT ![p] = 0]
           /\ created' = [created EXCEPT ![p] = FALSE] /\ UNCHANGED todo
  <2>1. at'[p] = "open" /\ known'[p] = {}
    BY <1>1, <1>t DEF TypeOK
  <2>2. \A w \in Version : w \in recorded'
    <3> TAKE w \in Version
    <3>1. w <= v \/ w > v
      BY <1>t
    <3> QED BY <1>1, <3>1
  <2>3. Own(p)'
    BY <2>1, <2>2 DEF Own, Placed, Undisturbed, Opening, Busy, Indexing
  <2> QED BY <2>3, <1>1, <1>t DEF TypeOK
<1>2. ASSUME NEW w \in left, \A x \in left : w <= x, at' = [at EXCEPT ![p] = Stage(w)],
             known' = [known EXCEPT ![p] = applied], ver' = [ver EXCEPT ![p] = w],
             NEW order \in Columns[w], todo' = [todo EXCEPT ![p] = order]
      PROVE  Own(p)' /\ \A q \in Proc \ {p} : /\ at'[q] = at[q] /\ known'[q] = known[q]
                                             /\ ver'[q] = ver[q] /\ todo'[q] = todo[q]
  <2>1. at'[p] = Stage(w) /\ known'[p] = applied /\ ver'[p] = w /\ todo'[p] = order
    BY <1>2, <1>t DEF TypeOK
  <2>2. \A u \in Version : u < w => u \in recorded'
    <3> TAKE u \in Version
    <3> HAVE u < w
    <3>1. u <= v \/ u > v
      BY <1>t
    <3>2. ~(w <= u)
      BY <1>t
    <3>3. CASE u > v
      BY <3>2, <3>3, <1>2
    <3> QED BY <3>1, <3>3
  <2>3. at'[p] \in {"check", "alter"} => ver'[p] \notin {1, 3, 8, 9} /\ todo'[p] # <<>> /\ Left(p)'
    <3> HAVE at'[p] \in {"check", "alter"}
    <3>1. w \notin {1, 3, 8, 9}
      BY <2>1 DEF Stage
    <3> QED BY <2>1, <3>1, ColumnsOf DEF Left
  <2>4. /\ at'[p] \in {"script", "check", "look"}
        /\ (at'[p] = "script" => w \in {1, 8, 9}) /\ (at'[p] = "look" => w = 3)
    BY <2>1 DEF Stage
  <2>5. Placed(p)'
    BY <2>1, <2>2, <2>3, <2>4 DEF Placed, Indexing
  <2>6. ASSUME alone'[p] PROVE Undisturbed(p)'
    <3>1. \A u \in recorded' : w <= u => u \in applied
      <4> TAKE u \in recorded'
      <4> HAVE w <= u
      <4>1. u \in Version /\ w > v /\ w \in Version
        BY DEF TypeOK
      <4>2. u > v
        BY <4>1, <1>t
      <4> QED BY <4>1, <4>2, <2>1, <2>6
    <3>2. \A q \in Proc \ {p} : ~Opening(q)'
      BY <1>a, <1>2, <1>t, <2>6 DEF Opening, TypeOK
    <3> QED BY <2>1, <2>4, <3>1, <3>2 DEF Undisturbed
  <2>7. Own(p)'
    BY <2>1, <2>5, <2>6 DEF Own
  <2> QED BY <2>7, <1>2, <1>t DEF TypeOK
<1>3. CASE \E w \in left :
             /\ \A x \in left : w <= x
             /\ at' = [at EXCEPT ![p] = Stage(w)]
             /\ known' = [known EXCEPT ![p] = applied] /\ ver' = [ver EXCEPT ![p] = w]
             /\ \E order \in Columns[w] : todo' = [todo EXCEPT ![p] = order]
             /\ UNCHANGED created
  <2>1. PICK w \in left :
          /\ \A x \in left : w <= x
          /\ at' = [at EXCEPT ![p] = Stage(w)]
          /\ known' = [known EXCEPT ![p] = applied] /\ ver' = [ver EXCEPT ![p] = w]
          /\ \E order \in Columns[w] : todo' = [todo EXCEPT ![p] = order]
    BY <1>3
  <2>2. PICK order \in Columns[w] : todo' = [todo EXCEPT ![p] = order]
    BY <2>1
  <2> QED BY <1>2, <2>1, <2>2
<1> QED BY <1>1, <1>3 DEF Continue

(* A column that exists leaves the others of its migration. *)
LEMMA RestLeft ==
  ASSUME IInv, TypeOK', NEW p \in Proc, at[p] \in {"check", "alter"}, at' = [at EXCEPT ![p] = Rest(p)],
         todo' = [todo EXCEPT ![p] = Tail(@)], schema \subseteq schema', Head(todo[p]) \in schema',
         UNCHANGED <<ver, known, build, alone, recorded>>
  PROVE  Own(p)'
<1>1. TypeOK /\ known[p] \subseteq recorded /\ Placed(p) /\ (alone[p] => Undisturbed(p))
  BY DEF IInv
<1>2. todo[p] \in Seq(Piece) /\ todo[p] # <<>> /\ ver[p] \notin {1, 3, 8, 9} /\ Left(p)
  BY <1>1 DEF TypeOK, Placed
<1>3. /\ at'[p] = Rest(p) /\ todo'[p] = Tail(todo[p])
      /\ \A q \in Proc \ {p} : at'[q] = at[q]
  BY <1>1 DEF TypeOK
<1>4. \A i \in 1..Len(todo[p]) :
         todo[p][i] \in schema' \/ \E j \in 1..Len(Tail(todo[p])) : Tail(todo[p])[j] = todo[p][i]
  <2> TAKE i \in 1..Len(todo[p])
  <2>1. CASE i = 1
    BY <1>2, <2>1
  <2>2. CASE i # 1
    <3>1. i - 1 \in 1..Len(Tail(todo[p])) /\ Tail(todo[p])[i - 1] = todo[p][i]
      BY <1>2, <2>2
    <3> QED BY <3>1
  <2> QED BY <2>1, <2>2
<1>5. Left(p)'
  <2> SUFFICES ASSUME NEW x \in Pieces[ver[p]], x \notin schema'
               PROVE  \E j \in 1..Len(Tail(todo[p])) : Tail(todo[p])[j] = x
    BY <1>3 DEF Left
  <2>1. PICK i \in 1..Len(todo[p]) : todo[p][i] = x
    BY <1>2 DEF Left
  <2> QED BY <1>4, <2>1
<1>6. CASE Len(todo[p]) = 1
  <2>1. at'[p] = "record" /\ Len(Tail(todo[p])) = 0
    BY <1>2, <1>3, <1>6 DEF Rest
  <2>2. Pieces[ver[p]] \subseteq schema'
    BY <1>3, <1>5, <2>1 DEF Left
  <2>3. Placed(p)'
    BY <1>1, <2>1, <2>2 DEF Placed, Busy, Indexing
  <2>4. alone'[p] => Undisturbed(p)'
    BY <1>1, <1>3, <2>1 DEF Undisturbed, Opening, Busy
  <2> QED BY <1>1, <2>3, <2>4 DEF Own
<1>7. CASE Len(todo[p]) # 1
  <2>1. at'[p] = "check" /\ todo'[p] # <<>>
    <3>1. Len(Tail(todo[p])) # 0
      BY <1>2, <1>7
    <3>2. Tail(todo[p]) # <<>>
      <4>1. Len(<<>>) = 0
        OBVIOUS
      <4> QED BY <3>1, <4>1
    <3>3. Rest(p) = "check"
      BY <1>7 DEF Rest
    <3> QED BY <3>2, <3>3, <1>3
  <2>3. Placed(p)'
    BY <1>1, <1>2, <1>5, <2>1 DEF Placed, Busy, Indexing
  <2>4. alone'[p] => Undisturbed(p)'
    BY <1>1, <1>3, <2>1 DEF Undisturbed, Opening, Busy
  <2> QED BY <1>1, <2>3, <2>4 DEF Own
<1> QED BY <1>6, <1>7
-----------------------------------------------------------------------------
(* Each step keeps the invariant. *)
LEMMA Steps ==
  ASSUME IInv, TypeOK', NEW p \in Proc, Own(p)', Others(p), Recorded' PROVE IInv'
<1>1. ASSUME NEW q \in Proc PROVE Own(q)'
  BY OthersKeep
<1> QED BY <1>1 DEF IInv, Own, Recorded

LEMMA InitInv == Init => IInv
<1> SUFFICES ASSUME Init PROVE IInv
  OBVIOUS
<1>1. \A v \in recorded : Pieces[v] \subseteq schema
  BY DEF Init, EmptyStore, OldStore, StoreAt
<1>2. ASSUME NEW p \in Proc PROVE known[p] \subseteq recorded /\ Placed(p) /\ (alone[p] => Undisturbed(p))
  BY DEF Init, Placed, Busy, Indexing
<1> QED BY <1>1, <1>2, TypeInit DEF IInv

LEMMA NextInv == IInv /\ [Next]_vars => IInv'
<1> SUFFICES ASSUME IInv, [Next]_vars PROVE IInv'
  OBVIOUS
<1> USE DEF store, locals, history, bounds, Goes
<1>t. TypeOK /\ TypeOK' /\ Recorded /\ \A p \in Proc : Own(p)
  BY TypeStep DEF IInv, Recorded, Own
<1>c. ASSUME NEW p \in Proc, Opening(p), NEW q \in Proc \ {p}, alone[q] PROVE ~Opening(q)
  BY <1>c, Crowded
<1> USE <1>t
<1>1. ASSUME NEW p \in Proc, Start(p) PROVE IInv'
  <2>1. Others(p)
    BY <1>1 DEF Start, Forget, Others, TypeOK
  <2>2. at'[p] = "load" /\ known'[p] = {} /\ (alone'[p] => \A q \in Proc \ {p} : ~Opening(q)')
    BY <1>1 DEF Start, Forget, Opening, TypeOK
  <2>3. Own(p)'
    BY <2>2 DEF Own, Placed, Undisturbed, Busy, Indexing
  <2>4. Recorded'
    BY <1>1 DEF Start, Recorded
  <2> QED BY <2>1, <2>3, <2>4, Steps
<1>2. ASSUME NEW p \in Proc, Load(p) PROVE IInv'
  <2>1. Opening(p) /\ recorded \in SUBSET Version
    BY <1>2 DEF Load, Opening, TypeOK
  <2>2. Own(p)' /\ \A q \in Proc \ {p} : /\ at'[q] = at[q] /\ known'[q] = known[q]
                                        /\ ver'[q] = ver[q] /\ todo'[q] = todo[q]
    <3>1. \A w \in Version : ~(w <= 0)
      BY DEF Version
    <3> QED BY <1>2, <2>1, <3>1, ContinueOwn DEF Load
  <2>3. Others(p)
    BY <1>2, <2>1, <2>2, <1>c DEF Load, Others
  <2>4. Recorded'
    BY <1>2 DEF Load, Recorded
  <2> QED BY <2>2, <2>3, <2>4, Steps
<1>3. ASSUME NEW p \in Proc, Script(p) PROVE IInv'
  <2>1. Opening(p) /\ at'[p] = "record" /\ ver[p] \in {1, 8, 9}
    BY <1>3 DEF Script, Opening, Own, Placed, TypeOK
  <2>2. Others(p)
    BY <1>3, <2>1, <1>c DEF Script, Others, TypeOK
  <2>3. Pieces[ver[p]] \subseteq schema'
    BY <1>3, <2>1, ScriptsOf DEF Script
  <2>4. Placed(p)'
    BY <1>3, <2>1, <2>3 DEF Script, Own, Placed, Busy, Indexing
  <2>5. alone'[p] => Undisturbed(p)'
    BY <1>3, <2>1, <2>2 DEF Script, Own, Undisturbed, Busy, Opening, Others
  <2>6. Own(p)' /\ Recorded'
    BY <1>3, <2>4, <2>5 DEF Script, Own, Recorded
  <2> QED BY <2>2, <2>6, Steps
<1>4. ASSUME NEW p \in Proc, CheckHas(p) \/ Alter(p) PROVE IInv'
  <2>1. Opening(p) /\ at[p] \in {"check", "alter"} /\ at' = [at EXCEPT ![p] = Rest(p)]
        /\ schema \subseteq schema' /\ Head(todo[p]) \in schema'
    BY <1>4 DEF CheckHas, Alter, Opening
  <2>2. Others(p)
    BY <1>4, <2>1, <1>c DEF CheckHas, Alter, Others, TypeOK
  <2>3. Own(p)'
    BY <1>4, <2>1, RestLeft DEF CheckHas, Alter
  <2>4. Recorded'
    BY <1>4, <2>1 DEF CheckHas, Alter, Recorded
  <2> QED BY <2>2, <2>3, <2>4, Steps
<1>5. ASSUME NEW p \in Proc, CheckHasNot(p) PROVE IInv'
  <2>1. Opening(p) /\ at[p] = "check" /\ at'[p] = "alter"
    BY <1>5 DEF CheckHasNot, Opening, TypeOK
  <2>2. Others(p)
    BY <1>5, <2>1, <1>c DEF CheckHasNot, Others, TypeOK
  <2>3. Own(p)'
    <3>1. Placed(p)'
      BY <1>5, <2>1 DEF CheckHasNot, Own, Placed, Left, Busy, Indexing
    <3>2. alone'[p] => Undisturbed(p)'
      BY <1>5, <2>1, <2>2 DEF CheckHasNot, Own, Undisturbed, Opening, Busy, Others
    <3> QED BY <1>5, <3>1, <3>2 DEF CheckHasNot, Own
  <2>4. Recorded'
    BY <1>5 DEF CheckHasNot, Recorded
  <2> QED BY <2>2, <2>3, <2>4, Steps
<1>6. ASSUME NEW p \in Proc, AlterFails(p) \/ RecordFails(p) \/ LookFails(p) PROVE IInv'
  <2>1. Opening(p) /\ at'[p] = "failed" /\ UNCHANGED <<store, locals, history, bounds>>
    BY <1>6 DEF AlterFails, RecordFails, LookFails, Opening, TypeOK
  <2>2. Others(p)
    BY <1>6, <2>1, <1>c DEF AlterFails, RecordFails, LookFails, Others, TypeOK
  <2>3. alone[p] => ver[p] = 3 /\ ~build[p]
    <3>1. CASE AlterFails(p)
      BY <3>1 DEF AlterFails, Own, Undisturbed
    <3>2. CASE RecordFails(p)
      <4>1. ver[p] \in Version /\ ver[p] <= ver[p]
        BY <3>2 DEF RecordFails, Own, Placed, Busy, Version
      <4> QED BY <3>2, <4>1 DEF RecordFails, Own, Undisturbed, Busy
    <3>3. CASE LookFails(p)
      BY <3>3 DEF LookFails, Own, Placed, Indexing
    <3> QED BY <1>6, <3>1, <3>2, <3>3
  <2>4. Own(p)' /\ Recorded'
    BY <2>1, <2>3 DEF Own, Placed, Undisturbed, Recorded, Opening, Busy, Indexing
  <2> QED BY <2>2, <2>4, Steps
<1>7. ASSUME NEW p \in Proc, Record(p) PROVE IInv'
  <2>1. Opening(p) /\ ver[p] \in Version /\ known[p] \in SUBSET Version /\ Continue(p, known[p], ver[p])
        /\ recorded' = recorded \cup {ver[p]} /\ UNCHANGED <<build, alone, schema>>
        /\ (\A v \in Version : v < ver[p] => v \in recorded) /\ Pieces[ver[p]] \subseteq schema
    BY <1>7 DEF Record, Opening, Own, Placed, Busy, TypeOK
  <2>2. \A w \in Version : w <= ver[p] => w \in recorded'
    <3> TAKE w \in Version
    <3>1. w <= ver[p] => w < ver[p] \/ w = ver[p]
      BY <2>1 DEF Version
    <3> QED BY <2>1, <3>1
  <2>3. alone[p] => \A w \in recorded' : w > ver[p] => w \in known[p]
    <3> SUFFICES ASSUME alone[p], NEW w \in recorded', w > ver[p] PROVE w \in known[p]
      OBVIOUS
    <3>1. w \in recorded /\ ver[p] <= w
      BY <2>1 DEF TypeOK, Version
    <3> QED BY <1>7, <3>1 DEF Record, Own, Undisturbed, Busy
  <2>4. known[p] \subseteq recorded'
    BY <2>1 DEF Own
  <2>5. Own(p)' /\ \A q \in Proc \ {p} : /\ at'[q] = at[q] /\ known'[q] = known[q]
                                        /\ ver'[q] = ver[q] /\ todo'[q] = todo[q]
    BY <2>1, <2>2, <2>3, <2>4, ContinueOwn
  <2>6. Others(p)
    BY <2>1, <2>5, <1>c DEF Others
  <2>7. Recorded'
    BY <2>1 DEF Recorded
  <2> QED BY <2>5, <2>6, <2>7, Steps
<1>8. ASSUME NEW p \in Proc, IndexStep(p), ~LookFails(p) PROVE IInv'
  <2>1. /\ at[p] \in Indexing /\ at'[p] \in Indexing \cup {"record"}
        /\ UNCHANGED <<schema, recorded, known, ver, todo, build, alone>>
        /\ \A q \in Proc \ {p} : at'[q] = at[q]
    BY <1>8 DEF IndexStep, Look, DropOld, CreateIndex, NoIndex, DropTriggers, CreateTriggers, Fill,
                Enable, IndexFault, Indexing, TypeOK
  <2>2. Opening(p)
    BY <2>1 DEF Opening, Indexing
  <2>3. Others(p)
    BY <2>1, <2>2, <1>c DEF Others
  <2>4. ver[p] = 3 /\ Pieces[3] = {}
    <3>1. ver[p] = 3
      BY <2>1 DEF Own, Placed
    <3>2. Pieces[3] = {}
      BY ScriptsOf, Tables DEF Version
    <3> QED BY <3>1, <3>2
  <2>5. Placed(p)'
    BY <2>1, <2>4 DEF Own, Placed, Busy, Indexing
  <2>6. alone'[p] => Undisturbed(p)'
    BY <2>1, <2>2 DEF Own, Undisturbed, Opening, Busy, Indexing
  <2>7. Own(p)' /\ Recorded'
    BY <2>1, <2>5, <2>6 DEF Own, Recorded
  <2> QED BY <2>3, <2>7, Steps
<1>9. ASSUME NEW p \in Proc, NEW m \in Msg, Insert(p, m) PROVE IInv'
  BY <1>9 DEF Insert, IInv, Placed, Left, Undisturbed, Opening
<1>10. ASSUME NEW p \in Proc, Kill(p) PROVE IInv'
  <2>1. at'[p] = "down" /\ known'[p] = {} /\ alone'[p] = FALSE
    BY <1>10 DEF Kill, Forget, TypeOK
  <2>2. Others(p)
    BY <1>10 DEF Kill, Forget, Others, TypeOK
  <2>3. Own(p)' /\ Recorded'
    BY <1>10, <2>1 DEF Kill, Own, Placed, Recorded, Busy, Indexing
  <2> QED BY <2>2, <2>3, Steps
<1>11. CASE UNCHANGED vars
  BY <1>11 DEF vars, IInv, Placed, Left, Undisturbed, Opening
<1> QED
  BY <1>1, <1>2, <1>3, <1>4, <1>5, <1>6, <1>7, <1>8, <1>9, <1>10, <1>11
  DEF Next, ColumnStep, IndexStep
-----------------------------------------------------------------------------
(* The state is well-formed, whatever the processes do. *)
THEOREM TypeCorrect == Spec => []TypeOK
<1>1. IInv => TypeOK
  BY DEF IInv
<1> QED BY InitInv, NextInv, <1>1, PTL DEF Spec

(* Whoever has the store open finds the whole schema (ensureSchema), whatever
   was killed and whoever else was migrating. *)
THEOREM SchemaThere == Spec => []SchemaWhenOpen
<1>1. IInv => SchemaWhenOpen
  <2> SUFFICES ASSUME IInv, NEW p \in Proc, at[p] = "open", NEW x \in Piece PROVE x \in schema
    BY DEF SchemaWhenOpen
  <2>1. PICK v \in Version : x \in Pieces[v]
    BY DEF Piece
  <2>2. v \in recorded
    BY DEF IInv, Placed
  <2> QED BY <2>1, <2>2 DEF IInv
<1> QED BY InitInv, NextInv, <1>1, PTL DEF Spec

(* An Open that no other overlaps succeeds on whatever earlier processes left,
   but for a binary without fts5 at migration 3. *)
THEOREM LoneOpens == Spec => []LoneOpenSucceeds
<1>1. IInv => LoneOpenSucceeds
  BY DEF IInv, Undisturbed, LoneOpenSucceeds
<1> QED BY InitInv, NextInv, <1>1, PTL DEF Spec
-----------------------------------------------------------------------------
(* A process that is through with migration 3. *)
Past(p) ==
  \/ at[p] = "open" \/ (at[p] = "record" /\ ver[p] = 3)
  \/ at[p] \in {"script", "check", "alter", "record"} /\ ver[p] > 3

Touching(p) == at[p] \in Indexing \ {"look"} \/ (at[p] = "record" /\ ver[p] = 3)

(* What an undisturbed process knows of the index where it is: the index is empty
   when it has made it and has not filled it, and complete when it uses it. *)
Index(p) ==
  /\ at[p] = "drop" => build[p]
  /\ at[p] = "create" => fts = "none" /\ (faults = 0 /\ trig => build[p])
  /\ at[p] \in {"untrigger", "trigger"} =>
       fts # "none" /\ (created[p] => indexed = {}) /\ (~created[p] => rows \subseteq indexed)
  /\ at[p] = "trigger" => ~trig
  /\ at[p] = "backfill" => fts # "none" /\ trig /\ indexed = {}
  /\ at[p] = "enable" => fts # "none" /\ trig /\ rows \subseteq indexed
  /\ enabled[p] => Past(p) /\ trig /\ rows \subseteq indexed
  /\ created[p] => Past(p) \/ at[p] \in {"untrigger", "trigger", "backfill", "enable"}

(* An index that migration 3 has still to look at is complete. *)
Whole ==
  3 \notin recorded /\ (\A p \in Proc : ~Touching(p)) => (fts = "new" => rows \subseteq indexed)

(* There are no triggers without an index, but while it is made anew. *)
Fit == faults = 0 /\ (\A p \in Proc : at[p] # "create") => (trig => fts # "none")

Calm ==
  ~disturbed =>
    /\ \A p \in Proc : (at[p] # "down" => alone[p]) /\ Index(p)
    /\ (fts = "none" => indexed = {}) /\ Whole /\ Fit

LEMMA CalmInit == Init => Calm
BY DEF Init, Calm, Index, Whole, Fit, EmptyStore, OldStore, StoreAt

(* Whoever is opening an undisturbed store is the only one, ... *)
LEMMA Alone ==
  ASSUME IInv, Calm, ~disturbed, NEW p \in Proc, Opening(p)
  PROVE  alone[p] /\ Undisturbed(p) /\ \A q \in Proc \ {p} : ~Opening(q)
BY DEF IInv, Calm, Undisturbed, Opening

(* ... and at migration 3 nobody has the store open or uses the index. *)
LEMMA AtThree ==
  ASSUME IInv, Calm, ~disturbed, NEW p \in Proc, at[p] \in Busy, ver[p] = 3
  PROVE  3 \notin recorded /\ \A q \in Proc \ {p} : ~Past(q) /\ ~Touching(q) /\ ~enabled[q]
<1>1. Opening(p)
  BY DEF Opening, Busy, Indexing
<1>2. 3 \notin recorded
  BY <1>1, Alone DEF Undisturbed, Busy
<1>3. ASSUME NEW q \in Proc \ {p} PROVE ~Past(q) /\ ~Touching(q)
  <2>1. ~Opening(q)
    BY <1>1, Alone
  <2>2. at[q] # "open"
    BY <1>2 DEF IInv, Placed, Version
  <2> QED BY <2>1, <2>2 DEF Past, Touching, Opening, Indexing
<1> QED BY <1>2, <1>3 DEF Calm, Index

(* A step that is not about the index keeps what is known of it. *)
LEMMA Elsewhere ==
  ASSUME Calm, ~disturbed, NEW p \in Proc, UNCHANGED <<fts, trig, rows, indexed, faults>>,
         recorded \subseteq recorded',
         \A q \in Proc \ {p} :
           /\ at'[q] = at[q] /\ ver'[q] = ver[q] /\ created'[q] = created[q]
           /\ enabled'[q] = enabled[q] /\ build'[q] = build[q] /\ alone'[q] = alone[q],
         at'[p] # "down" => alone'[p], Index(p)', at[p] # "create",
         Touching(p) => Touching(p)' \/ 3 \in recorded'
  PROVE  Calm'
<1>1. ASSUME NEW q \in Proc PROVE (at'[q] # "down" => alone'[q]) /\ Index(q)'
  <2>1. CASE q = p
    BY <2>1
  <2>2. CASE q # p
    BY <2>2 DEF Calm, Index, Past
  <2> QED BY <2>1, <2>2
<1>2. Whole'
  BY DEF Calm, Whole, Touching
<1>3. Fit'
  BY DEF Calm, Fit
<1> QED BY <1>1, <1>2, <1>3 DEF Calm

(* The steps of migration 3. *)
LEMMA IndexCalm ==
  ASSUME IInv, Calm, ~disturbed, NEW p \in Proc, IndexStep(p), ~LookFails(p) PROVE Calm'
<1> USE DEF store, locals, history, bounds, Goes
<1>1. /\ at[p] \in Indexing /\ at'[p] \in Indexing \cup {"record"}
      /\ UNCHANGED <<recorded, ver, build, alone, disturbed, rows>>
      /\ \A q \in Proc \ {p} : at'[q] = at[q] /\ created'[q] = created[q] /\ enabled'[q] = enabled[q]
  BY DEF IndexStep, Look, DropOld, CreateIndex, NoIndex, DropTriggers, CreateTriggers, Fill,
         Enable, IndexFault, Indexing, IInv, TypeOK
<1>2. ver[p] = 3 /\ Opening(p)
  BY <1>1 DEF IInv, Placed, Opening, Indexing
<1>3. 3 \notin recorded /\ \A q \in Proc \ {p} : ~Past(q) /\ ~Touching(q) /\ ~enabled[q]
  BY <1>1, <1>2, AtThree DEF Busy
<1>4. alone[p] /\ \A q \in Proc \ {p} : ~Opening(q)
  BY <1>2, Alone
<1>5. ASSUME NEW q \in Proc \ {p} PROVE (at'[q] # "down" => alone'[q]) /\ Index(q)'
  <2>1. ~Opening(q) /\ ~enabled'[q] /\ at'[q] = at[q]
    BY <1>1, <1>3, <1>4
  <2>2. ~created[q]
    BY <1>3, <2>1 DEF Calm, Index, Opening
  <2> QED BY <1>1, <2>1, <2>2 DEF Calm, Index, Opening
<1>6. Index(p) /\ ~Past(p) /\ ~enabled[p]
  BY <1>1, <1>2 DEF Calm, Index, Past, Indexing
<1>7. /\ fts \in {"none", "old", "new"} /\ created[p] \in BOOLEAN /\ build[p] \in BOOLEAN
      /\ trig \in BOOLEAN /\ rows \subseteq Msg /\ faults \in Nat
  BY DEF IInv, TypeOK
<1>8. TypeOK /\ (fts = "none" => indexed = {}) /\ (at[p] # "create" => \A q \in Proc : at[q] # "create")
  BY <1>1, <1>4 DEF IInv, Calm, Opening
<1>9. Index(p)' /\ (fts' = "none" => indexed' = {}) /\ Fit'
  <2>1. CASE Look(p)
    <3>1. at[p] = "look" /\ ~created[p] /\ ~Touching(p)
      BY <1>6, <2>1 DEF Look, Index, Touching, Indexing
    <3>2. (fts = "new" => rows \subseteq indexed) /\ (faults = 0 => (trig => fts # "none"))
      BY <1>3, <1>8, <3>1 DEF Calm, Whole, Fit
    <3> QED BY <1>6, <1>7, <1>8, <2>1, <3>1, <3>2 DEF Look, Index, Fit, Past, TypeOK
  <2>2. CASE DropOld(p)
    BY <1>6, <1>7, <1>8, <2>2 DEF DropOld, Index, Fit, Past, TypeOK
  <2>3. CASE CreateIndex(p)
    BY <1>6, <1>7, <1>8, <2>3 DEF CreateIndex, Index, Fit, Past, TypeOK
  <2>4. CASE NoIndex(p)
    BY <1>2, <1>6, <1>7, <1>8, <2>4 DEF NoIndex, Index, Fit, Past, TypeOK
  <2>5. CASE DropTriggers(p)
    BY <1>6, <1>7, <1>8, <2>5 DEF DropTriggers, Index, Fit, Past, TypeOK
  <2>6. CASE CreateTriggers(p)
    BY <1>2, <1>6, <1>7, <1>8, <2>6 DEF CreateTriggers, Index, Fit, Past, TypeOK
  <2>7. CASE Fill(p)
    BY <1>6, <1>7, <1>8, <2>7 DEF Fill, Index, Fit, Past, TypeOK
  <2>8. CASE Enable(p)
    BY <1>2, <1>6, <1>7, <1>8, <2>8 DEF Enable, Index, Fit, Past, TypeOK
  <2>9. CASE IndexFault(p)
    BY <1>2, <1>6, <1>7, <1>8, <2>9 DEF IndexFault, Index, Fit, Past, TypeOK
  <2> QED BY <2>1, <2>2, <2>3, <2>4, <2>5, <2>6, <2>7, <2>8, <2>9 DEF IndexStep
<1>10. Whole'
  <2>1. CASE Look(p) /\ at'[p] # "drop" /\ at'[p] # "create" /\ at'[p] # "untrigger"
    BY <2>1, <1>8 DEF Look, TypeOK
  <2>2. CASE ~(Look(p) /\ at'[p] # "drop" /\ at'[p] # "create" /\ at'[p] # "untrigger")
    <3>1. Touching(p)'
      BY <1>1, <1>2, <2>2, <1>8 DEF IndexStep, Look, DropOld, CreateIndex, NoIndex, DropTriggers,
         CreateTriggers, Fill, Enable, IndexFault, Touching, Indexing, TypeOK
    <3> QED BY <3>1 DEF Whole
  <2> QED BY <2>1, <2>2
<1>11. (at'[p] # "down" => alone'[p]) /\ ~disturbed'
  BY <1>1, <1>4
<1> QED BY <1>5, <1>9, <1>10, <1>11 DEF Calm

(* The loop of ensureSchema goes on past migration 3 with what is known of the
   index, or from before it knowing nothing. *)
LEMMA ContinueCalm ==
  ASSUME IInv, Calm, ~disturbed, NEW p \in Proc, NEW applied \in SUBSET Version,
         NEW v \in {0} \cup Version, Continue(p, applied, v), v <= 3 => ~enabled[p] \/ v = 3,
         UNCHANGED <<fts, trig, rows, indexed, enabled>>,
         enabled[p] => Past(p), created[p] => Past(p), Past(p) => v >= 3
  PROVE  /\ Index(p)' /\ at'[p] # "down"
         /\ \A q \in Proc \ {p} :
              at'[q] = at[q] /\ ver'[q] = ver[q] /\ created'[q] = created[q]
<1> DEFINE left == {w \in Version : w > v /\ w \notin applied}
<1>t. TypeOK /\ Index(p)
  BY DEF IInv, Calm
<1>1. CASE left = {} /\ at' = [at EXCEPT ![p] = "open"]
           /\ known' = [known EXCEPT ![p] = {}] /\ ver' = [ver EXCEPT ![p] = 0]
           /\ created' = [created EXCEPT ![p] = FALSE] /\ UNCHANGED todo
  BY <1>1, <1>t DEF TypeOK, Index, Past
<1>2. ASSUME NEW w \in left, at' = [at EXCEPT ![p] = Stage(w)], ver' = [ver EXCEPT ![p] = w],
             UNCHANGED created
      PROVE  /\ Index(p)' /\ at'[p] # "down"
             /\ \A q \in Proc \ {p} :
                  at'[q] = at[q] /\ ver'[q] = ver[q] /\ created'[q] = created[q]
  <2>1. at'[p] = Stage(w) /\ Stage(w) \in {"script", "check", "look"} /\ ver'[p] = w
    BY <1>2, <1>t DEF Stage, TypeOK
  <2>2. Past(p) => Past(p)'
    <3> SUFFICES ASSUME Past(p) PROVE Past(p)'
      OBVIOUS
    <3>1. w > 3
      BY DEF Version
    <3>2. Stage(w) \in {"script", "check"}
      BY <3>1 DEF Stage
    <3> QED BY <2>1, <3>1, <3>2 DEF Past
  <2>3. Index(p)'
    BY <1>t, <1>2, <2>1, <2>2 DEF Index
  <2> QED BY <1>t, <1>2, <2>1, <2>3 DEF TypeOK
<1> QED BY <1>1, <1>2 DEF Continue

LEMMA CalmStep == IInv /\ Calm /\ [Next]_vars => Calm'
<1> SUFFICES ASSUME IInv, Calm, [Next]_vars, ~disturbed' PROVE Calm'
  BY DEF Calm
<1> USE DEF store, locals, history, bounds, Goes
<1>d. ~disturbed
  BY ZenonT(60) DEF Next, Start, Load, Script, ColumnStep, CheckHas, CheckHasNot, Alter, AlterFails, IndexStep,
         LookFails, Look, DropOld, CreateIndex, NoIndex, DropTriggers, CreateTriggers, Fill, Enable,
         IndexFault, Record, RecordFails, Kill, Insert, vars
<1>t. TypeOK /\ \A p \in Proc : Placed(p) /\ Index(p) /\ (at[p] # "down" => alone[p])
  BY <1>d DEF IInv, Calm
<1>1. ASSUME NEW p \in Proc, Start(p) PROVE Calm'
  <2>1. \A q \in Proc : ~Opening(q)
    BY <1>1 DEF Start
  <2>2. at'[p] = "load" /\ alone'[p] /\ ~created'[p] /\ ~enabled'[p]
    BY <1>1, <1>t, <2>1 DEF Start, Forget, TypeOK
  <2>3. Index(p)' /\ at[p] # "create" /\ ~Touching(p)
    BY <1>1, <2>2 DEF Start, Index, Touching, Indexing
  <2>4. \A q \in Proc \ {p} :
          /\ at'[q] = at[q] /\ ver'[q] = ver[q] /\ created'[q] = created[q]
          /\ enabled'[q] = enabled[q] /\ build'[q] = build[q] /\ alone'[q] = alone[q]
    BY <1>1, <1>t, <2>1 DEF Start, Forget, TypeOK
  <2>5. UNCHANGED <<fts, trig, rows, indexed, recorded, faults>>
    BY <1>1 DEF Start
  <2> QED BY <1>d, <2>2, <2>3, <2>4, <2>5, Elsewhere
<1>2. ASSUME NEW p \in Proc, Load(p) PROVE Calm'
  <2>1. recorded \in SUBSET Version /\ Continue(p, recorded, 0) /\ at[p] = "load"
        /\ UNCHANGED <<fts, trig, rows, indexed, recorded, enabled, build, alone, faults>>
    BY <1>2, <1>t DEF Load, TypeOK
  <2>2. ~Past(p) /\ ~enabled[p] /\ ~created[p] /\ ~Touching(p)
    BY <1>t, <2>1 DEF Past, Index, Touching, Indexing
  <2>3. /\ Index(p)' /\ at'[p] # "down"
        /\ \A q \in Proc \ {p} : at'[q] = at[q] /\ ver'[q] = ver[q] /\ created'[q] = created[q]
    BY <1>d, <2>1, <2>2, ContinueCalm
  <2> QED BY <1>d, <1>t, <2>1, <2>2, <2>3, Elsewhere
<1>3. ASSUME NEW p \in Proc, Script(p) \/ CheckHas(p) \/ CheckHasNot(p) \/ Alter(p) PROVE Calm'
  <2>1. /\ at[p] \in {"script", "check", "alter"} /\ at'[p] \in {"check", "alter", "record"}
        /\ UNCHANGED <<fts, trig, rows, indexed, recorded, faults, ver, created, enabled, build, alone>>
        /\ \A q \in Proc \ {p} : at'[q] = at[q]
    BY <1>3, <1>t DEF Script, CheckHas, CheckHasNot, Alter, Rest, TypeOK
  <2>2. Index(p)' /\ ~Touching(p)
    BY <1>t, <2>1 DEF Index, Past, Touching, Indexing
  <2> QED BY <1>d, <1>t, <2>1, <2>2, Elsewhere
<1>4. ASSUME NEW p \in Proc, AlterFails(p) \/ RecordFails(p) PROVE Calm'
  <2>1. Opening(p)
    BY <1>4 DEF AlterFails, RecordFails, Opening
  <2>2. Undisturbed(p)
    BY <1>d, <2>1, Alone
  <2>3. RecordFails(p) => ver[p] \in Version
    BY <1>t DEF RecordFails, Placed, Busy
  <2>4. RecordFails(p) => ver[p] <= ver[p]
    BY <2>3 DEF Version
  <2> QED BY <1>4, <2>2, <2>4 DEF AlterFails, RecordFails, Undisturbed, Busy
<1>5. ASSUME NEW p \in Proc, LookFails(p) PROVE Calm'
  <2>1. /\ at[p] = "look" /\ at'[p] = "failed" /\ \A q \in Proc \ {p} : at'[q] = at[q]
        /\ UNCHANGED <<fts, trig, rows, indexed, recorded, faults, ver, created, enabled, build, alone>>
    BY <1>5, <1>t DEF LookFails, TypeOK
  <2>2. ~Past(p) /\ ~Touching(p)
    BY <2>1 DEF Past, Touching
  <2>3. Index(p)'
    BY <1>t, <2>1, <2>2 DEF Index
  <2> QED BY <1>d, <1>t, <2>1, <2>2, <2>3, Elsewhere
<1>6. ASSUME NEW p \in Proc, Record(p) PROVE Calm'
  <2>1. /\ ver[p] \in Version /\ known[p] \in SUBSET Version /\ Continue(p, known[p], ver[p])
        /\ at[p] = "record" /\ recorded' = recorded \cup {ver[p]}
        /\ UNCHANGED <<fts, trig, rows, indexed, enabled, build, alone, faults>>
    BY <1>6, <1>t DEF Record, Placed, Busy, TypeOK
  <2>2. Past(p) <=> ver[p] >= 3
    BY <2>1 DEF Past, Version
  <2>3. (enabled[p] => Past(p)) /\ (created[p] => Past(p))
    BY <1>t, <2>1 DEF Index
  <2>4. ver[p] <= 3 => ~enabled[p] \/ ver[p] = 3
    BY <2>1, <2>2, <2>3 DEF Version
  <2>5. /\ Index(p)' /\ at'[p] # "down"
        /\ \A q \in Proc \ {p} : at'[q] = at[q] /\ ver'[q] = ver[q] /\ created'[q] = created[q]
    BY <1>d, <2>1, <2>2, <2>3, <2>4, ContinueCalm
  <2>6. Touching(p) => 3 \in recorded'
    BY <2>1 DEF Touching, Indexing
  <2> QED BY <1>d, <1>t, <2>1, <2>5, <2>6, Elsewhere
<1>7. ASSUME NEW p \in Proc, IndexStep(p), ~LookFails(p) PROVE Calm'
  BY <1>d, <1>7, IndexCalm
<1>8. ASSUME NEW p \in Proc, NEW m \in Msg, Insert(p, m) PROVE Calm'
  <2>1. at[p] = "open" /\ rows' = rows \cup {m} /\ (trig => fts # "none")
        /\ indexed' = (IF trig THEN indexed \cup {m} ELSE indexed)
        /\ UNCHANGED <<fts, trig, recorded, at, locals, history, bounds>>
    BY <1>8 DEF Insert, CanStore
  <2>2. 3 \in recorded
    BY <1>t, <2>1 DEF Placed, Version
  <2>3. \A q \in Proc : at[q] \notin Indexing
    BY <1>d, <1>t, <2>2, AtThree DEF Placed, Busy
  <2>4. ASSUME NEW q \in Proc PROVE Index(q)'
    <3>1. Index(q) /\ at[q] \notin Indexing
      BY <1>t, <2>3
    <3> QED BY <2>1, <3>1 DEF Index, Past, Indexing
  <2>5. fts' = "none" => indexed' = {}
    BY <1>d, <2>1 DEF Calm
  <2>6. Whole' /\ Fit'
    BY <1>d, <2>1, <2>2 DEF Calm, Whole, Fit
  <2>7. \A q \in Proc : at'[q] # "down" => alone'[q]
    BY <1>t, <2>1
  <2> QED BY <2>4, <2>5, <2>6, <2>7 DEF Calm
<1>9. ASSUME NEW p \in Proc, Kill(p) PROVE Calm'
  <2>1. ~(Opening(p) /\ ver[p] = 3)
    BY <1>9 DEF Kill
  <2>2. at[p] # "create" /\ ~Touching(p)
    BY <1>t, <2>1 DEF Placed, Opening, Touching, Indexing
  <2>3. at'[p] = "down" /\ ~created'[p] /\ ~enabled'[p]
    BY <1>9, <1>t DEF Kill, Forget, TypeOK
  <2>4. Index(p)'
    BY <2>3 DEF Index
  <2>5. \A q \in Proc \ {p} :
          /\ at'[q] = at[q] /\ ver'[q] = ver[q] /\ created'[q] = created[q]
          /\ enabled'[q] = enabled[q] /\ build'[q] = build[q] /\ alone'[q] = alone[q]
    BY <1>9, <1>t DEF Kill, Forget, TypeOK
  <2>6. UNCHANGED <<fts, trig, rows, indexed, recorded, faults>>
    BY <1>9 DEF Kill
  <2> QED BY <1>d, <2>2, <2>3, <2>4, <2>5, <2>6, Elsewhere
<1>10. CASE UNCHANGED vars
  BY <1>10 DEF vars, Calm, Index, Past, Whole, Touching, Fit
<1> QED
  BY <1>1, <1>2, <1>3, <1>4, <1>5, <1>6, <1>7, <1>8, <1>9, <1>10 DEF Next, ColumnStep

(* Nothing stored is missing from the index a search uses (migrateMessagesFTS,
   SearchMessages), unless its migration was killed or two were opening. *)
THEOREM SearchesFindAll == Spec => []SearchFindsAll
<1>1. Calm /\ IInv => SearchFindsAll
  BY DEF Calm, Index, Found, SearchFindsAll, IInv, TypeOK
<1> QED BY InitInv, NextInv, CalmInit, CalmStep, <1>1, PTL DEF Spec

(* An undisturbed store whose migration 3 had no failed statement has no trigger
   without the index it writes: a binary with fts5 can store. *)
THEOREM StoresThere == Spec => []StoresWhenOpen
<1>1. Calm /\ IInv => StoresWhenOpen
  <2> SUFFICES ASSUME Calm, IInv, NEW p \in Proc, at[p] = "open", build[p], faults = 0, ~disturbed
               PROVE  CanStore(p)
    BY DEF StoresWhenOpen
  <2>1. 3 \in recorded
    BY DEF IInv, Placed, Version
  <2>2. \A q \in Proc : at[q] # "create"
    BY <2>1, AtThree DEF IInv, Placed, Busy, Indexing
  <2> QED BY <2>2 DEF Calm, Fit, CanStore
<1> QED BY InitInv, NextInv, CalmInit, CalmStep, <1>1, PTL DEF Spec
-----------------------------------------------------------------------------
(***************************************************************************)
(* For SomebodyOpens: a process that another has overtaken is doomed to    *)
(* fail, on a column that is there or on a record that is there; but the   *)
(* one that overtakes it is not, since migrations are recorded in order.   *)
(***************************************************************************)
Doomed(p) ==
  \/ at[p] = "failed"
  \/ at[p] \in Busy /\ ver[p] \in recorded
  \/ at[p] = "alter" /\ Head(todo[p]) \in schema

Stuck(p) == at[p] = "failed" /\ ver[p] = 3 /\ ~build[p]

InOrder == \A v \in recorded : \A w \in Version : w < v => w \in recorded

OwnColumns(p) ==
  at[p] \in {"check", "alter"} => \A i \in 1..Len(todo[p]) : todo[p][i] \in Pieces[ver[p]]

Hope == InOrder /\ (\A p \in Proc : OwnColumns(p)) /\ \E p \in Proc : ~Doomed(p) \/ Stuck(p)

LEMMA HopeInit == Init => Hope
<1> SUFFICES ASSUME Init PROVE Hope
  OBVIOUS
<1>1. recorded = {} \/ \E k \in 0..9 : recorded = 1..k
  BY MigrationsAssumption DEF MigrationsAssumption, Init, EmptyStore, OldStore, StoreAt
<1>2. InOrder
  BY <1>1 DEF InOrder, Version
<1>3. \A p \in Proc : at[p] = "down"
  BY DEF Init
<1> QED
  BY <1>2, <1>3, MigrationsAssumption DEF Hope, OwnColumns, Doomed, Busy, Indexing, MigrationsAssumption

(* Who goes on to a migration that is not recorded is not doomed. *)
LEMMA ContinueHope ==
  ASSUME TypeOK, NEW p \in Proc, NEW applied \in SUBSET Version, NEW v \in {0} \cup Version,
         Continue(p, applied, v), \A w \in recorded' : w > v => w \in applied
  PROVE  ~Doomed(p)' /\ OwnColumns(p)'
         /\ \A q \in Proc \ {p} : at'[q] = at[q] /\ ver'[q] = ver[q] /\ todo'[q] = todo[q]
<1> DEFINE left == {w \in Version : w > v /\ w \notin applied}
<1>1. CASE at' = [at EXCEPT ![p] = "open"] /\ ver' = [ver EXCEPT ![p] = 0] /\ UNCHANGED todo
  BY <1>1 DEF TypeOK, Doomed, OwnColumns, Busy, Indexing
<1>2. ASSUME NEW w \in left, at' = [at EXCEPT ![p] = Stage(w)], ver' = [ver EXCEPT ![p] = w],
             NEW order \in Columns[w], todo' = [todo EXCEPT ![p] = order]
      PROVE  ~Doomed(p)' /\ OwnColumns(p)'
             /\ \A q \in Proc \ {p} : at'[q] = at[q] /\ ver'[q] = ver[q] /\ todo'[q] = todo[q]
  <2>1. /\ at'[p] \in {"script", "look", "check"} /\ ver'[p] = w /\ w \notin recorded'
        /\ todo'[p] = order
    BY <1>2 DEF TypeOK, Stage
  <2>2. ~Doomed(p)'
    BY <2>1 DEF Doomed
  <2>3. \A i \in 1..Len(order) : order[i] \in Pieces[w]
    <3>1. DOMAIN order = 1..Len(order)
      BY ColumnsOf
    <3> QED BY <3>1, PiecesOf
  <2> QED BY <1>2, <2>1, <2>2, <2>3 DEF OwnColumns, TypeOK
<1> QED BY <1>1, <1>2 DEF Continue

(* What is left of a process's columns when it is through with one. *)
LEMMA TailOwn ==
  ASSUME TypeOK, NEW p \in Proc, Placed(p), OwnColumns(p), at[p] \in {"check", "alter"}, UNCHANGED ver,
         todo' = [todo EXCEPT ![p] = Tail(@)]
  PROVE  OwnColumns(p)' /\ Head(todo[p]) \in Pieces[ver[p]]
<1>1. todo[p] \in Seq(Piece) /\ todo[p] # <<>> /\ todo'[p] = Tail(todo[p])
  BY DEF TypeOK, Placed
<1>2. /\ Len(todo[p]) \in Nat \ {0} /\ Head(todo[p]) = todo[p][1] /\ 1 \in 1..Len(todo[p])
      /\ Len(Tail(todo[p])) = Len(todo[p]) - 1
      /\ \A i \in 1..Len(todo[p]) - 1 : i + 1 \in 1..Len(todo[p]) /\ Tail(todo[p])[i] = todo[p][i + 1]
  BY <1>1
<1> QED BY <1>1, <1>2 DEF OwnColumns

LEMMA HopeStep == IInv /\ Hope /\ [Next]_vars => Hope'
<1> SUFFICES ASSUME IInv, Hope, [Next]_vars PROVE Hope'
  OBVIOUS
<1> USE DEF store, locals, history, bounds, Goes
<1>t. TypeOK /\ InOrder /\ \A p \in Proc : Placed(p) /\ OwnColumns(p)
  BY DEF IInv, Hope
<1>1. ASSUME NEW p \in Proc, ~Doomed(p)', OwnColumns(p)', InOrder',
             \A q \in Proc \ {p} : at'[q] = at[q] /\ ver'[q] = ver[q] /\ todo'[q] = todo[q]
      PROVE  Hope'
  BY <1>1, <1>t DEF Hope, OwnColumns
<1>2. ASSUME NEW p \in Proc, UNCHANGED <<schema, recorded>>, OwnColumns(p)',
             \A q \in Proc \ {p} : /\ at'[q] = at[q] /\ ver'[q] = ver[q]
                                   /\ todo'[q] = todo[q] /\ build'[q] = build[q],
             ~Doomed(p) \/ Stuck(p) => ~Doomed(p)' \/ Stuck(p)'
      PROVE  Hope'
  <2>1. PICK q \in Proc : ~Doomed(q) \/ Stuck(q)
    BY DEF Hope
  <2>2. ~Doomed(q)' \/ Stuck(q)'
    BY <1>2, <2>1 DEF Doomed, Stuck
  <2>3. InOrder' /\ \A r \in Proc : OwnColumns(r)'
    BY <1>2, <1>t DEF InOrder, OwnColumns
  <2> QED BY <2>2, <2>3 DEF Hope
<1>3. ASSUME NEW p \in Proc, Start(p) PROVE Hope'
  <2>1. at'[p] = "load" /\ UNCHANGED recorded
        /\ \A q \in Proc \ {p} : at'[q] = at[q] /\ ver'[q] = ver[q] /\ todo'[q] = todo[q]
    BY <1>3, <1>t DEF Start, Forget, TypeOK
  <2>2. ~Doomed(p)' /\ OwnColumns(p)' /\ InOrder'
    BY <1>t, <2>1 DEF Doomed, OwnColumns, InOrder, Busy, Indexing
  <2> QED BY <1>1, <2>1, <2>2
<1>4. ASSUME NEW p \in Proc, Load(p) PROVE Hope'
  <2>1. recorded \in SUBSET Version /\ recorded' = recorded /\ Continue(p, recorded, 0) /\ InOrder'
    BY <1>4, <1>t DEF Load, TypeOK, InOrder
  <2> QED BY <1>1, <1>t, <2>1, ContinueHope
<1>5. ASSUME NEW p \in Proc, Script(p) PROVE Hope'
  <2>1. /\ at[p] = "script" /\ at'[p] = "record" /\ UNCHANGED <<recorded, ver, todo, build>>
        /\ (\A q \in Proc \ {p} : at'[q] = at[q]) /\ ver[p] \in {1, 8, 9}
        /\ \A v \in Version : v < ver[p] => v \in recorded
    BY <1>5, <1>t DEF Script, Placed, Busy, TypeOK
  <2>2. OwnColumns(p)' /\ InOrder'
    BY <1>t, <2>1 DEF OwnColumns, InOrder
  <2>3. CASE ver[p] \notin recorded
    <3>1. ~Doomed(p)'
      BY <2>1, <2>3 DEF Doomed
    <3> QED BY <1>1, <2>1, <2>2, <3>1
  <2>4. CASE ver[p] \in recorded
    <3>1. 1 \in recorded
      BY <2>1, <2>4 DEF Version
    <3>2. "tables" \in schema
      <4>1. "tables" \in Pieces[1]
        BY PiecesOf DEF Scripted, Version
      <4> QED BY <3>1, <4>1 DEF IInv
    <3>3. Scripted[ver[p]] \subseteq schema
      <4>1. Scripted[ver[p]] \subseteq Pieces[ver[p]]
        BY <2>1, PiecesOf DEF Version
      <4> QED BY <2>4, <4>1 DEF IInv
    <3>4. schema' = schema
      BY <1>5, <3>2, <3>3 DEF Script
    <3>5. Doomed(p) /\ ~Stuck(p)
      BY <2>1, <2>4 DEF Doomed, Stuck, Busy
    <3> QED BY <1>2, <2>1, <2>2, <3>4, <3>5
  <2> QED BY <2>3, <2>4
<1>6. ASSUME NEW p \in Proc, CheckHas(p) \/ CheckHasNot(p) PROVE Hope'
  <2>1. /\ at[p] = "check" /\ at'[p] \in {"check", "record", "alter"}
        /\ UNCHANGED <<schema, recorded, ver, build>>
        /\ \A q \in Proc \ {p} : at'[q] = at[q] /\ todo'[q] = todo[q]
        /\ at'[p] = "alter" => Head(todo'[p]) \notin schema
    BY <1>6, <1>t DEF CheckHas, CheckHasNot, Rest, TypeOK
  <2>2. OwnColumns(p)'
    <3>1. CASE CheckHasNot(p)
      BY <1>t, <2>1, <3>1 DEF CheckHasNot, OwnColumns
    <3>2. CASE CheckHas(p)
      BY <1>t, <2>1, <3>2, TailOwn DEF CheckHas
    <3> QED BY <1>6, <3>1, <3>2
  <2>3. ~Doomed(p) \/ Stuck(p) => ~Doomed(p)'
    BY <2>1 DEF Doomed, Stuck, Busy
  <2> QED BY <1>2, <2>1, <2>2, <2>3
<1>7. ASSUME NEW p \in Proc, Alter(p) PROVE Hope'
  <2>1. /\ at[p] = "alter" /\ at'[p] \in {"check", "record"} /\ UNCHANGED <<recorded, ver>>
        /\ Head(todo[p]) \notin schema
        /\ \A q \in Proc \ {p} : at'[q] = at[q] /\ todo'[q] = todo[q]
    BY <1>7, <1>t DEF Alter, Rest, TypeOK
  <2>2. OwnColumns(p)' /\ Head(todo[p]) \in Pieces[ver[p]]
    BY <1>7, <1>t, <2>1, TailOwn DEF Alter
  <2>3. ver[p] \notin recorded
    BY <2>1, <2>2 DEF IInv
  <2>4. ~Doomed(p)' /\ InOrder'
    BY <1>t, <2>1, <2>3 DEF Doomed, InOrder
  <2> QED BY <1>1, <2>1, <2>2, <2>4
<1>8. ASSUME NEW p \in Proc, AlterFails(p) \/ RecordFails(p) \/ LookFails(p) PROVE Hope'
  <2>1. /\ at'[p] = "failed" /\ UNCHANGED <<schema, recorded, ver, todo, build>>
        /\ \A q \in Proc \ {p} : at'[q] = at[q]
    BY <1>8, <1>t DEF AlterFails, RecordFails, LookFails, TypeOK
  <2>2. OwnColumns(p)'
    BY <2>1 DEF OwnColumns
  <2>3. (Doomed(p) /\ ~Stuck(p)) \/ Stuck(p)'
    <3>1. CASE LookFails(p)
      <4>1. ver[p] = 3 /\ ~build[p]
        BY <1>t, <3>1 DEF LookFails, Placed, Indexing
      <4> QED BY <2>1, <4>1 DEF Stuck
    <3>2. CASE AlterFails(p) \/ RecordFails(p)
      BY <3>2 DEF AlterFails, RecordFails, Doomed, Stuck, Busy
    <3> QED BY <1>8, <3>1, <3>2
  <2> QED BY <1>2, <2>1, <2>2, <2>3
<1>9. ASSUME NEW p \in Proc, Record(p) PROVE Hope'
  <2>1. /\ ver[p] \in Version /\ known[p] \in SUBSET Version /\ Continue(p, known[p], ver[p])
        /\ ver[p] \notin recorded /\ recorded' = recorded \cup {ver[p]}
        /\ \A v \in Version : v < ver[p] => v \in recorded
    BY <1>9, <1>t DEF Record, Placed, Busy, TypeOK
  <2>2. \A w \in recorded' : w > ver[p] => w \in known[p]
    <3> SUFFICES ASSUME NEW w \in recorded', w > ver[p] PROVE FALSE
      OBVIOUS
    <3>1. w \in recorded /\ ver[p] < w
      BY <2>1 DEF Version
    <3> QED BY <1>t, <2>1, <3>1 DEF InOrder
  <2>3. InOrder'
    BY <1>t, <2>1 DEF InOrder
  <2> QED BY <1>1, <1>t, <2>1, <2>2, <2>3, ContinueHope
<1>10. ASSUME NEW p \in Proc, IndexStep(p), ~LookFails(p) PROVE Hope'
  <2>1. /\ at[p] \in Indexing /\ at'[p] \in Indexing \cup {"record"}
        /\ UNCHANGED <<schema, recorded, ver, todo, build>>
        /\ \A q \in Proc \ {p} : at'[q] = at[q]
    BY <1>10, <1>t DEF IndexStep, Look, DropOld, CreateIndex, NoIndex, DropTriggers,
                CreateTriggers, Fill, Enable, IndexFault, Indexing, TypeOK
  <2>2. OwnColumns(p)' /\ (~Doomed(p) \/ Stuck(p) => ~Doomed(p)')
    BY <2>1 DEF OwnColumns, Doomed, Stuck, Busy, Indexing
  <2> QED BY <1>2, <2>1, <2>2
<1>11. ASSUME NEW p \in Proc, NEW m \in Msg, Insert(p, m) PROVE Hope'
  BY <1>11 DEF Insert, Hope, InOrder, OwnColumns, Doomed, Stuck
<1>12. ASSUME NEW p \in Proc, Kill(p) PROVE Hope'
  <2>1. at'[p] = "down" /\ UNCHANGED recorded
        /\ \A q \in Proc \ {p} : at'[q] = at[q] /\ ver'[q] = ver[q] /\ todo'[q] = todo[q]
    BY <1>12, <1>t DEF Kill, Forget, TypeOK
  <2>2. ~Doomed(p)' /\ OwnColumns(p)' /\ InOrder'
    BY <1>t, <2>1 DEF Doomed, OwnColumns, InOrder, Busy, Indexing
  <2> QED BY <1>1, <2>1, <2>2
<1>13. CASE UNCHANGED vars
  BY <1>13 DEF vars, Hope, InOrder, OwnColumns, Doomed, Stuck
<1> QED
  BY <1>3, <1>4, <1>5, <1>6, <1>7, <1>8, <1>9, <1>10, <1>11, <1>12, <1>13
  DEF Next, ColumnStep

(* Processes that race to migrate do not all fail: one Open at least goes
   through (ensureSchema has no lock and no transaction). *)
THEOREM OneGetsThrough == Spec => []SomebodyOpens
<1>1. Hope => SomebodyOpens
  BY DEF Hope, Doomed, Stuck, SomebodyOpens
<1> QED BY InitInv, NextInv, HopeInit, HopeStep, <1>1, PTL DEF Spec
=============================================================================
