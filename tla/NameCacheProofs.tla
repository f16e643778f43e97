-------------------------- MODULE NameCacheProofs --------------------------
(***************************************************************************)
(* What is proved of NameCache for any groups, goroutines and bounds.      *)
(*                                                                         *)
(* The cache stays current because of the generation: a name in hand that  *)
(* is older than an invalidation carries an older generation than the      *)
(* cache (InHandCurrent), so Put discards it.  The argument needs that     *)
(* nothing is newer than the server (NoFuture), which in turn needs to     *)
(* know where each process can be (Whereabouts).                           *)
(***************************************************************************)
EXTENDS NameCache, TLAPS

IInv == TypeOK /\ Whereabouts /\ NoFuture /\ InHandCurrent /\ CacheIsCurrent /\ AboveFloorAt

(* Every action is typed; a name that is persisted is never the empty one. *)
LEMMA TypeStep ==
  ASSUME TypeOK, Whereabouts, [Next]_vars
  PROVE  TypeOK'
<1> USE NameCacheAssumption DEF NameCacheAssumption, Process, Version, Absent, Goes, server, tables, caching, hands, TypeOK
<1>1. ASSUME NEW f \in Lookup, NEW g \in Group, Hit(f, g) PROVE TypeOK'
  BY <1>1 DEF Hit
<1>2. ASSUME NEW f \in Lookup, NEW g \in Group, Miss(f, g) PROVE TypeOK'
  BY <1>2 DEF Miss
<1>3. ASSUME NEW p \in Lookup \cup Renamer, FetchOK(p) PROVE TypeOK'
  BY <1>3 DEF FetchOK, Whereabouts
<1>4. ASSUME NEW f \in Lookup, FetchFails(f) PROVE TypeOK'
  BY <1>4 DEF FetchFails
<1>5. ASSUME NEW f \in Lookup, FetchCancelled(f) PROVE TypeOK'
  BY <1>5 DEF FetchCancelled
<1>6. ASSUME NEW p \in Process, PersistRow(p) PROVE TypeOK'
  BY <1>6 DEF PersistRow, Whereabouts
<1>7. ASSUME NEW p \in Process, PersistMembers(p) PROVE TypeOK'
  BY <1>7 DEF PersistMembers, Whereabouts
<1>8. ASSUME NEW f \in Lookup, Put(f) PROVE TypeOK'
  BY <1>8 DEF Put, Whereabouts
<1>9. ASSUME NEW f \in Lookup, StoreChat(f) PROVE TypeOK'
  BY <1>9 DEF StoreChat, Whereabouts
<1>10. ASSUME NEW r \in Renamer, NEW g \in Group, Rename(r, g) PROVE TypeOK'
  BY <1>10 DEF Rename
<1>11. ASSUME NEW r \in Renamer, Invalidate(r) PROVE TypeOK'
  BY <1>11 DEF Invalidate, Later, Whereabouts
<1>12. ASSUME NEW r \in Renamer, RefetchFails(r) PROVE TypeOK'
  BY <1>12 DEF RefetchFails
<1>13. ASSUME NEW r \in Refresher, Snapshot(r) PROVE TypeOK'
  BY <1>13 DEF Snapshot
<1>14. ASSUME NEW r \in Refresher, InvalidateAll(r) PROVE TypeOK'
  BY <1>14 DEF InvalidateAll, Later
<1>15. ASSUME NEW r \in Refresher, NextGroup(r) PROVE TypeOK'
  BY <1>15 DEF NextGroup
<1>16. ASSUME NEW r \in Refresher, RefreshChat(r) PROVE TypeOK'
  BY <1>16 DEF RefreshChat, Whereabouts
<1>17. ASSUME NEW r \in Refresher, RefreshDone(r) PROVE TypeOK'
  BY <1>17 DEF RefreshDone
<1>18. ASSUME NEW g \in Group, ChangedElsewhere(g) PROVE TypeOK'
  BY <1>18 DEF ChangedElsewhere
<1>19. ASSUME NEW g \in Group, Expire(g) PROVE TypeOK'
  BY <1>19 DEF Expire
<1>20. ASSUME Cancel PROVE TypeOK'
  BY <1>20 DEF Cancel
<1>21. CASE UNCHANGED vars
  BY <1>21 DEF vars, server, tables, caching, hands
<1>22. QED
  BY <1>1, <1>2, <1>3, <1>4, <1>5, <1>6, <1>7, <1>8, <1>9, <1>10, <1>11,
     <1>12, <1>13, <1>14, <1>15, <1>16, <1>17, <1>18, <1>19, <1>20, <1>21
  DEF Next, Message, Resolve, RenameStep, RefreshStep, Process

(* Every process follows its own path, with a group and a name in hand. *)
LEMMA WhereaboutsStep ==
  ASSUME TypeOK, Whereabouts, [Next]_vars
  PROVE  Whereabouts'
<1> USE NameCacheAssumption DEF NameCacheAssumption, Process, Version, Absent, Goes, server, tables, caching, hands, TypeOK, Whereabouts
<1>1. ASSUME NEW f \in Lookup, NEW g \in Group, Hit(f, g) PROVE Whereabouts'
  BY <1>1 DEF Hit
<1>2. ASSUME NEW f \in Lookup, NEW g \in Group, Miss(f, g) PROVE Whereabouts'
  BY <1>2 DEF Miss
<1>3. ASSUME NEW p \in Lookup \cup Renamer, FetchOK(p) PROVE Whereabouts'
  BY <1>3 DEF FetchOK
<1>4. ASSUME NEW f \in Lookup, FetchFails(f) PROVE Whereabouts'
  BY <1>4 DEF FetchFails
<1>5. ASSUME NEW f \in Lookup, FetchCancelled(f) PROVE Whereabouts'
  BY <1>5 DEF FetchCancelled
<1>6. ASSUME NEW p \in Process, PersistRow(p) PROVE Whereabouts'
  BY <1>6 DEF PersistRow
<1>7. ASSUME NEW p \in Process, PersistMembers(p) PROVE Whereabouts'
  BY <1>7 DEF PersistMembers
<1>8. ASSUME NEW f \in Lookup, Put(f) PROVE Whereabouts'
  BY <1>8 DEF Put
<1>9. ASSUME NEW f \in Lookup, StoreChat(f) PROVE Whereabouts'
  BY <1>9 DEF StoreChat
<1>10. ASSUME NEW r \in Renamer, NEW g \in Group, Rename(r, g) PROVE Whereabouts'
  BY <1>10 DEF Rename
<1>11. ASSUME NEW r \in Renamer, Invalidate(r) PROVE Whereabouts'
  BY <1>11 DEF Invalidate
<1>12. ASSUME NEW r \in Renamer, RefetchFails(r) PROVE Whereabouts'
  BY <1>12 DEF RefetchFails
<1>13. ASSUME NEW r \in Refresher, Snapshot(r) PROVE Whereabouts'
  BY <1>13 DEF Snapshot
<1>14. ASSUME NEW r \in Refresher, InvalidateAll(r) PROVE Whereabouts'
  BY <1>14 DEF InvalidateAll
<1>15. ASSUME NEW r \in Refresher, NextGroup(r) PROVE Whereabouts'
  BY <1>15 DEF NextGroup
<1>16. ASSUME NEW r \in Refresher, RefreshChat(r) PROVE Whereabouts'
  BY <1>16 DEF RefreshChat
<1>17. ASSUME NEW r \in Refresher, RefreshDone(r) PROVE Whereabouts'
  BY <1>17 DEF RefreshDone
<1>18. ASSUME NEW g \in Group, ChangedElsewhere(g) PROVE Whereabouts'
  BY <1>18 DEF ChangedElsewhere
<1>19. ASSUME NEW g \in Group, Expire(g) PROVE Whereabouts'
  BY <1>19 DEF Expire
<1>20. ASSUME Cancel PROVE Whereabouts'
  BY <1>20 DEF Cancel
<1>21. CASE UNCHANGED vars
  BY <1>21 DEF vars, server, tables, caching, hands
<1>22. QED
  BY <1>1, <1>2, <1>3, <1>4, <1>5, <1>6, <1>7, <1>8, <1>9, <1>10, <1>11,
     <1>12, <1>13, <1>14, <1>15, <1>16, <1>17, <1>18, <1>19, <1>20, <1>21
  DEF Next, Message, Resolve, RenameStep, RefreshStep, Process

-----------------------------------------------------------------------------
(* Nothing in the cache's history is ahead of WhatsApp. *)
LEMMA NoFutureStep ==
  ASSUME TypeOK, Whereabouts, NoFuture, [Next]_vars
  PROVE  NoFuture'
<1> USE NameCacheAssumption DEF NameCacheAssumption, Process, Version, Absent, Goes, server, tables, caching, hands, TypeOK, NoFuture, Whereabouts
<1>1. ASSUME NEW f \in Lookup, NEW g \in Group, Hit(f, g) PROVE NoFuture'
  BY <1>1 DEF Hit
<1>2. ASSUME NEW f \in Lookup, NEW g \in Group, Miss(f, g) PROVE NoFuture'
  BY <1>2 DEF Miss
<1>3. ASSUME NEW p \in Lookup \cup Renamer, FetchOK(p) PROVE NoFuture'
  BY <1>3 DEF FetchOK
<1>4. ASSUME NEW f \in Lookup, FetchFails(f) PROVE NoFuture'
  BY <1>4 DEF FetchFails
<1>5. ASSUME NEW f \in Lookup, FetchCancelled(f) PROVE NoFuture'
  BY <1>5 DEF FetchCancelled
<1>6. ASSUME NEW p \in Process, PersistRow(p) PROVE NoFuture'
  BY <1>6 DEF PersistRow
<1>7. ASSUME NEW p \in Process, PersistMembers(p) PROVE NoFuture'
  BY <1>7 DEF PersistMembers
<1>8. ASSUME NEW f \in Lookup, Put(f) PROVE NoFuture'
  BY <1>8 DEF Put
<1>9. ASSUME NEW f \in Lookup, StoreChat(f) PROVE NoFuture'
  BY <1>9 DEF StoreChat
<1>10. ASSUME NEW r \in Renamer, NEW g \in Group, Rename(r, g) PROVE NoFuture'
  <2>1. \A h \in Group : srv'[h] \in Int /\ srv[h] \in Int /\ srv[h] <= srv'[h]
    BY <1>10 DEF Rename
  <2>2. \A h \in Group : floor'[h] <= srv'[h]
    BY <1>10, <2>1 DEF Rename
  <2>3. ASSUME NEW q \in Renamer, at'[q] = "renamed" PROVE got'[q] <= srv'[of'[q]]
    <3>1. CASE q = r
      BY <1>10, <3>1 DEF Rename
    <3>2. CASE q # r
      <4>1. at[q] = "renamed" /\ got'[q] = got[q] /\ of'[q] = of[q] /\ of[q] \in Group
        BY <1>10, <2>3, <3>2 DEF Rename
      <4>2. QED
        BY <2>1, <4>1
    <3>3. QED
      BY <3>1, <3>2
  <2>4. \A q \in Refresher, h \in Group : snap'[q][h] <= srv'[h]
    BY <1>10, <2>1 DEF Rename
  <2>5. \A f \in Lookup : genAt'[f] <= gen'
    BY <1>10 DEF Rename
  <2>6. QED
    BY <2>2, <2>3, <2>4, <2>5
<1>11. ASSUME NEW r \in Renamer, Invalidate(r) PROVE NoFuture'
  BY <1>11 DEF Invalidate, Later
<1>12. ASSUME NEW r \in Renamer, RefetchFails(r) PROVE NoFuture'
  BY <1>12 DEF RefetchFails
<1>13. ASSUME NEW r \in Refresher, Snapshot(r) PROVE NoFuture'
  BY <1>13 DEF Snapshot
<1>14. ASSUME NEW r \in Refresher, InvalidateAll(r) PROVE NoFuture'
  BY <1>14 DEF InvalidateAll, Later
<1>15. ASSUME NEW r \in Refresher, NextGroup(r) PROVE NoFuture'
  BY <1>15 DEF NextGroup
<1>16. ASSUME NEW r \in Refresher, RefreshChat(r) PROVE NoFuture'
  BY <1>16 DEF RefreshChat
<1>17. ASSUME NEW r \in Refresher, RefreshDone(r) PROVE NoFuture'
  BY <1>17 DEF RefreshDone
<1>18. ASSUME NEW g \in Group, ChangedElsewhere(g) PROVE NoFuture'
  BY <1>18 DEF ChangedElsewhere
<1>19. ASSUME NEW g \in Group, Expire(g) PROVE NoFuture'
  BY <1>19 DEF Expire
<1>20. ASSUME Cancel PROVE NoFuture'
  BY <1>20 DEF Cancel
<1>21. CASE UNCHANGED vars
  BY <1>21 DEF vars, server, tables, caching, hands
<1>22. QED
  BY <1>1, <1>2, <1>3, <1>4, <1>5, <1>6, <1>7, <1>8, <1>9, <1>10, <1>11,
     <1>12, <1>13, <1>14, <1>15, <1>16, <1>17, <1>18, <1>19, <1>20, <1>21
  DEF Next, Message, Resolve, RenameStep, RefreshStep, Process

(* An invalidation makes every name in hand stale by its generation. *)
LEMMA InHandStep ==
  ASSUME TypeOK, TypeOK', Whereabouts, NoFuture, InHandCurrent, [Next]_vars
  PROVE  InHandCurrent'
<1> USE NameCacheAssumption DEF NameCacheAssumption, Process, Version, Absent, Goes, server, tables, caching, hands, TypeOK, NoFuture, InHandCurrent, Whereabouts
<1>1. ASSUME NEW f \in Lookup, NEW g \in Group, Hit(f, g) PROVE InHandCurrent'
  BY <1>1 DEF Hit
<1>2. ASSUME NEW f \in Lookup, NEW g \in Group, Miss(f, g) PROVE InHandCurrent'
  BY <1>2 DEF Miss
<1>3. ASSUME NEW p \in Lookup \cup Renamer, FetchOK(p) PROVE InHandCurrent'
  BY <1>3 DEF FetchOK
<1>4. ASSUME NEW f \in Lookup, FetchFails(f) PROVE InHandCurrent'
  BY <1>4 DEF FetchFails
<1>5. ASSUME NEW f \in Lookup, FetchCancelled(f) PROVE InHandCurrent'
  BY <1>5 DEF FetchCancelled
<1>6. ASSUME NEW p \in Process, PersistRow(p) PROVE InHandCurrent'
  BY <1>6 DEF PersistRow
<1>7. ASSUME NEW p \in Process, PersistMembers(p) PROVE InHandCurrent'
  BY <1>7 DEF PersistMembers
<1>8. ASSUME NEW f \in Lookup, Put(f) PROVE InHandCurrent'
  BY <1>8 DEF Put
<1>9. ASSUME NEW f \in Lookup, StoreChat(f) PROVE InHandCurrent'
  BY <1>9 DEF StoreChat
<1>10. ASSUME NEW r \in Renamer, NEW g \in Group, Rename(r, g) PROVE InHandCurrent'
  BY <1>10 DEF Rename
<1>11. ASSUME NEW r \in Renamer, Invalidate(r) PROVE InHandCurrent'
  BY <1>11 DEF Invalidate, Later
<1>12. ASSUME NEW r \in Renamer, RefetchFails(r) PROVE InHandCurrent'
  BY <1>12 DEF RefetchFails
<1>13. ASSUME NEW r \in Refresher, Snapshot(r) PROVE InHandCurrent'
  BY <1>13 DEF Snapshot
<1>14. ASSUME NEW r \in Refresher, InvalidateAll(r) PROVE InHandCurrent'
  BY <1>14 DEF InvalidateAll, Later
<1>15. ASSUME NEW r \in Refresher, NextGroup(r) PROVE InHandCurrent'
  BY <1>15 DEF NextGroup
<1>16. ASSUME NEW r \in Refresher, RefreshChat(r) PROVE InHandCurrent'
  BY <1>16 DEF RefreshChat
<1>17. ASSUME NEW r \in Refresher, RefreshDone(r) PROVE InHandCurrent'
  BY <1>17 DEF RefreshDone
<1>18. ASSUME NEW g \in Group, ChangedElsewhere(g) PROVE InHandCurrent'
  BY <1>18 DEF ChangedElsewhere
<1>19. ASSUME NEW g \in Group, Expire(g) PROVE InHandCurrent'
  BY <1>19 DEF Expire
<1>20. ASSUME Cancel PROVE InHandCurrent'
  BY <1>20 DEF Cancel
<1>21. CASE UNCHANGED vars
  BY <1>21 DEF vars, server, tables, caching, hands
<1>22. QED
  BY <1>1, <1>2, <1>3, <1>4, <1>5, <1>6, <1>7, <1>8, <1>9, <1>10, <1>11,
     <1>12, <1>13, <1>14, <1>15, <1>16, <1>17, <1>18, <1>19, <1>20, <1>21
  DEF Next, Message, Resolve, RenameStep, RefreshStep, Process

(* Only Put fills the cache, and only with a current name. *)
LEMMA CacheStep ==
  ASSUME TypeOK, Whereabouts, InHandCurrent, CacheIsCurrent, [Next]_vars
  PROVE  CacheIsCurrent'
<1> USE NameCacheAssumption DEF NameCacheAssumption, Process, Version, Absent, Goes, server, tables, caching, hands, TypeOK, InHandCurrent, CacheIsCurrent, Whereabouts
<1>1. ASSUME NEW f \in Lookup, NEW g \in Group, Hit(f, g) PROVE CacheIsCurrent'
  BY <1>1 DEF Hit
<1>2. ASSUME NEW f \in Lookup, NEW g \in Group, Miss(f, g) PROVE CacheIsCurrent'
  BY <1>2 DEF Miss
<1>3. ASSUME NEW p \in Lookup \cup Renamer, FetchOK(p) PROVE CacheIsCurrent'
  BY <1>3 DEF FetchOK
<1>4. ASSUME NEW f \in Lookup, FetchFails(f) PROVE CacheIsCurrent'
  BY <1>4 DEF FetchFails
<1>5. ASSUME NEW f \in Lookup, FetchCancelled(f) PROVE CacheIsCurrent'
  BY <1>5 DEF FetchCancelled
<1>6. ASSUME NEW p \in Process, PersistRow(p) PROVE CacheIsCurrent'
  BY <1>6 DEF PersistRow
<1>7. ASSUME NEW p \in Process, PersistMembers(p) PROVE CacheIsCurrent'
  BY <1>7 DEF PersistMembers
<1>8. ASSUME NEW f \in Lookup, Put(f) PROVE CacheIsCurrent'
  BY <1>8 DEF Put
<1>9. ASSUME NEW f \in Lookup, StoreChat(f) PROVE CacheIsCurrent'
  BY <1>9 DEF StoreChat
<1>10. ASSUME NEW r \in Renamer, NEW g \in Group, Rename(r, g) PROVE CacheIsCurrent'
  BY <1>10 DEF Rename
<1>11. ASSUME NEW r \in Renamer, Invalidate(r) PROVE CacheIsCurrent'
  BY <1>11 DEF Invalidate, Later
<1>12. ASSUME NEW r \in Renamer, RefetchFails(r) PROVE CacheIsCurrent'
  BY <1>12 DEF RefetchFails
<1>13. ASSUME NEW r \in Refresher, Snapshot(r) PROVE CacheIsCurrent'
  BY <1>13 DEF Snapshot
<1>14. ASSUME NEW r \in Refresher, InvalidateAll(r) PROVE CacheIsCurrent'
  BY <1>14 DEF InvalidateAll, Later
<1>15. ASSUME NEW r \in Refresher, NextGroup(r) PROVE CacheIsCurrent'
  BY <1>15 DEF NextGroup
<1>16. ASSUME NEW r \in Refresher, RefreshChat(r) PROVE CacheIsCurrent'
  BY <1>16 DEF RefreshChat
<1>17. ASSUME NEW r \in Refresher, RefreshDone(r) PROVE CacheIsCurrent'
  BY <1>17 DEF RefreshDone
<1>18. ASSUME NEW g \in Group, ChangedElsewhere(g) PROVE CacheIsCurrent'
  BY <1>18 DEF ChangedElsewhere
<1>19. ASSUME NEW g \in Group, Expire(g) PROVE CacheIsCurrent'
  BY <1>19 DEF Expire
<1>20. ASSUME Cancel PROVE CacheIsCurrent'
  BY <1>20 DEF Cancel
<1>21. CASE UNCHANGED vars
  BY <1>21 DEF vars, server, tables, caching, hands
<1>22. QED
  BY <1>1, <1>2, <1>3, <1>4, <1>5, <1>6, <1>7, <1>8, <1>9, <1>10, <1>11,
     <1>12, <1>13, <1>14, <1>15, <1>16, <1>17, <1>18, <1>19, <1>20, <1>21
  DEF Next, Message, Resolve, RenameStep, RefreshStep, Process

(* What a lookup resolves to is no older than the lookup. *)
LEMMA FloorStep ==
  ASSUME TypeOK, Whereabouts, NoFuture, CacheIsCurrent, AboveFloorAt, [Next]_vars
  PROVE  AboveFloorAt'
<1> USE NameCacheAssumption DEF NameCacheAssumption, Process, Version, Absent, Goes, server, tables, caching, hands, TypeOK, NoFuture, CacheIsCurrent, AboveFloorAt, Whereabouts
<1>1. ASSUME NEW f \in Lookup, NEW g \in Group, Hit(f, g) PROVE AboveFloorAt'
  BY <1>1 DEF Hit
<1>2. ASSUME NEW f \in Lookup, NEW g \in Group, Miss(f, g) PROVE AboveFloorAt'
  BY <1>2 DEF Miss
<1>3. ASSUME NEW p \in Lookup \cup Renamer, FetchOK(p) PROVE AboveFloorAt'
  BY <1>3 DEF FetchOK
<1>4. ASSUME NEW f \in Lookup, FetchFails(f) PROVE AboveFloorAt'
  BY <1>4 DEF FetchFails
<1>5. ASSUME NEW f \in Lookup, FetchCancelled(f) PROVE AboveFloorAt'
  BY <1>5 DEF FetchCancelled
<1>6. ASSUME NEW p \in Process, PersistRow(p) PROVE AboveFloorAt'
  BY <1>6 DEF PersistRow
<1>7. ASSUME NEW p \in Process, PersistMembers(p) PROVE AboveFloorAt'
  BY <1>7 DEF PersistMembers
<1>8. ASSUME NEW f \in Lookup, Put(f) PROVE AboveFloorAt'
  BY <1>8 DEF Put
<1>9. ASSUME NEW f \in Lookup, StoreChat(f) PROVE AboveFloorAt'
  BY <1>9 DEF StoreChat
<1>10. ASSUME NEW r \in Renamer, NEW g \in Group, Rename(r, g) PROVE AboveFloorAt'
  BY <1>10 DEF Rename
<1>11. ASSUME NEW r \in Renamer, Invalidate(r) PROVE AboveFloorAt'
  BY <1>11 DEF Invalidate, Later
<1>12. ASSUME NEW r \in Renamer, RefetchFails(r) PROVE AboveFloorAt'
  BY <1>12 DEF RefetchFails
<1>13. ASSUME NEW r \in Refresher, Snapshot(r) PROVE AboveFloorAt'
  BY <1>13 DEF Snapshot
<1>14. ASSUME NEW r \in Refresher, InvalidateAll(r) PROVE AboveFloorAt'
  BY <1>14 DEF InvalidateAll, Later
<1>15. ASSUME NEW r \in Refresher, NextGroup(r) PROVE AboveFloorAt'
  BY <1>15 DEF NextGroup
<1>16. ASSUME NEW r \in Refresher, RefreshChat(r) PROVE AboveFloorAt'
  BY <1>16 DEF RefreshChat
<1>17. ASSUME NEW r \in Refresher, RefreshDone(r) PROVE AboveFloorAt'
  BY <1>17 DEF RefreshDone
<1>18. ASSUME NEW g \in Group, ChangedElsewhere(g) PROVE AboveFloorAt'
  BY <1>18 DEF ChangedElsewhere
<1>19. ASSUME NEW g \in Group, Expire(g) PROVE AboveFloorAt'
  BY <1>19 DEF Expire
<1>20. ASSUME Cancel PROVE AboveFloorAt'
  BY <1>20 DEF Cancel
<1>21. CASE UNCHANGED vars
  BY <1>21 DEF vars, server, tables, caching, hands
<1>22. QED
  BY <1>1, <1>2, <1>3, <1>4, <1>5, <1>6, <1>7, <1>8, <1>9, <1>10, <1>11,
     <1>12, <1>13, <1>14, <1>15, <1>16, <1>17, <1>18, <1>19, <1>20, <1>21
  DEF Next, Message, Resolve, RenameStep, RefreshStep, Process

LEMMA Inductive == Spec => []IInv
<1>1. Init => IInv
  <2> SUFFICES ASSUME Init PROVE IInv
    OBVIOUS
  <2> USE NameCacheAssumption DEF NameCacheAssumption, Init, Process, Version, Absent
  <2>1. TypeOK
    <3>1. 1 \in Version /\ srv \in [Group -> Version] /\ srv = [g \in Group |-> 1]
      OBVIOUS
    <3>2. /\ cache \in [Group -> {Absent, 0} \cup Version] /\ gen \in Nat
          /\ row \in [Group -> {Absent} \cup Version]
          /\ members \in [Group -> {Absent} \cup Version]
          /\ chat \in [Group -> {Absent, 0} \cup Version]
      OBVIOUS
    <3>5. ctxDone \in BOOLEAN
      BY Zenon
    <3>6. failures \in 0..MaxFailures
      OBVIOUS
    <3>7. at \in [Process -> {"idle"}]
      OBVIOUS
    <3>3. /\ of \in [Process -> Group \cup {None}] /\ got \in [Process -> {0} \cup Version]
          /\ genAt \in [Lookup -> Nat] /\ floorAt \in [Lookup -> {0} \cup Version]
          /\ todo \in [Refresher -> SUBSET Group] /\ floor \in [Group -> {0} \cup Version]
      OBVIOUS
    <3>4. snap \in [Refresher -> [Group -> Version]]
      BY <3>1
    <3>8. QED
      BY <3>1, <3>2, <3>3, <3>4, <3>5, <3>6, <3>7 DEF TypeOK
  <2>2. Whereabouts
    BY DEF Whereabouts
  <2>3. NoFuture
    BY DEF NoFuture
  <2>4. InHandCurrent /\ CacheIsCurrent /\ AboveFloorAt
    BY DEF InHandCurrent, CacheIsCurrent, AboveFloorAt
  <2>5. QED
    BY <2>1, <2>2, <2>3, <2>4 DEF IInv
<1>2. IInv /\ [Next]_vars => IInv'
  BY TypeStep, WhereaboutsStep, NoFutureStep, InHandStep, CacheStep, FloorStep DEF IInv
<1>3. QED
  BY <1>1, <1>2, PTL DEF Spec
-----------------------------------------------------------------------------
(* The cache, the tables and what every goroutine has in hand stay well-formed:
   in particular an empty name never reaches the groups table. *)
THEOREM TypeCorrect == Spec => []TypeOK
BY Inductive, PTL DEF IInv

(* However many goroutines resolve names while groups are renamed and refreshed,
   no entry of the cache is older than an invalidation of it: the generation
   check of putGroup does what resolveCache.gen says. *)
THEOREM CacheStaysCurrent == Spec => []CacheIsCurrent
BY Inductive, PTL DEF IInv

(* A message that is resolved after opGroupRename or opGroupRefresh invalidated
   the cache is named with what they saw, or something newer. *)
THEOREM MessagesPickUpRenames == Spec => []FreshLookups
<1>1. IInv => FreshLookups
  BY DEF IInv, AboveFloorAt, FreshLookups
<1>2. QED
  BY <1>1, Inductive, PTL
=============================================================================
