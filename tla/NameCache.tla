----------------------------- MODULE NameCache -----------------------------
(***************************************************************************)
(* internal/app/sync_cache.go and its callers: how the name of a group     *)
(* travels from WhatsApp to the cache, the groups and group_participants   *)
(* tables and the chats table of the store.                                *)
(*                                                                         *)
(* Lookup processes are the goroutines that store messages (the worker and *)
(* the inline handlers of Sync): each message of a group resolves its name *)
(* with cachedGroupName and upserts the chat.  Renamer processes are calls *)
(* of opGroupRename, Refresher processes are calls of opGroupRefresh or,   *)
(* those in Startup, the refreshGroups of a Sync that starts.              *)
(*                                                                         *)
(* Metadata is abstracted to its version: version n of a group is what its *)
(* n-th change at WhatsApp made of it.  0 is the empty name a failed       *)
(* lookup resolves to, for which storeParsedMessage writes the bare JID.   *)
(***************************************************************************)
EXTENDS Integers, FiniteSets

CONSTANTS Group, Lookup, Renamer, Refresher,
          Startup,       \* the refreshers that are refreshGroups
          MaxVersion,    \* bound on the changes of one group's metadata
          MaxFailures,   \* bound on failed lookups
          None           \* no group

ASSUME NameCacheAssumption ==
  /\ Startup \subseteq Refresher
  /\ Lookup \cap Renamer = {} /\ Lookup \cap Refresher = {} /\ Renamer \cap Refresher = {}
  /\ MaxVersion \in Nat \ {0} /\ MaxFailures \in Nat
  /\ None \notin Group

Process == Lookup \cup Renamer \cup Refresher
Version == 1..MaxVersion
Absent == -1                      \* no cache entry, no row

VARIABLES
  srv,       \* the current version of each group at WhatsApp
  cache,     \* resolveCache.groups: the version each fresh entry names
  gen,       \* resolveCache.gen
  row,       \* the version in the groups table
  members,   \* the version in the group_participants table
  chat,      \* the version in the chats table, 0 for the bare JID
  ctxDone,   \* the context of the lookups is cancelled
  failures,  \* lookups that failed
  at, of,    \* where each process is, and the group it is about
  genAt,     \* the generation a lookup read
  got,       \* the version each process has in hand
  snap, todo,\* what GetJoinedGroups returned to a refresher, groups left to write
  floor,     \* history: the newest version the cache was invalidated for
  floorAt    \* history: that version when a lookup began

server == <<srv, ctxDone, failures>>
tables == <<row, members, chat>>
caching == <<cache, gen, floor>>
hands == <<of, genAt, got, snap, todo, floorAt>>
vars == <<server, tables, caching, hands, at>>

Goes(p, from, to) == at[p] = from /\ at' = [at EXCEPT ![p] = to]

Later(m, n) == IF m > n THEN m ELSE n
-----------------------------------------------------------------------------
Init ==
  /\ srv = [g \in Group |-> 1]
  /\ cache = [g \in Group |-> Absent] /\ gen = 0
  /\ row = [g \in Group |-> Absent] /\ members = row /\ chat = row
  /\ ctxDone = FALSE /\ failures = 0
  /\ at = [p \in Process |-> "idle"]
  /\ of = [p \in Process |-> None]
  /\ genAt = [f \in Lookup |-> 0]
  /\ got = [p \in Process |-> 0]
  /\ snap = [r \in Refresher |-> srv]
  /\ todo = [r \in Refresher |-> {}]
  /\ floor = [g \in Group |-> 0] /\ floorAt = [f \in Lookup |-> 0]

-----------------------------------------------------------------------------
(* A message: getGroup finds a fresh entry, failed lookups included ... *)
Hit(f, g) ==
  /\ Goes(f, "idle", "chat")
  /\ cache[g] # Absent
  /\ of' = [of EXCEPT ![f] = g]
  /\ got' = [got EXCEPT ![f] = cache[g]]
  /\ genAt' = [genAt EXCEPT ![f] = gen]
  /\ floorAt' = [floorAt EXCEPT ![f] = floor[g]]
  /\ UNCHANGED <<server, tables, caching, snap, todo>>

(* ... or none, and GetGroupInfo is called without the mutex *)
Miss(f, g) ==
  /\ Goes(f, "idle", "fetch")
  /\ cache[g] = Absent
  /\ of' = [of EXCEPT ![f] = g]
  /\ genAt' = [genAt EXCEPT ![f] = gen]
  /\ floorAt' = [floorAt EXCEPT ![f] = floor[g]]
  /\ UNCHANGED <<server, tables, caching, got, snap, todo>>

(* GetGroupInfo of a lookup or of a rename reads the group at WhatsApp *)
FetchOK(p) ==
  /\ Goes(p, "fetch", "row")
  /\ got' = [got EXCEPT ![p] = srv[of[p]]]
  /\ UNCHANGED <<server, tables, caching, of, genAt, snap, todo, floorAt>>

(* it fails: nothing is persisted, and the failure is cached *)
FetchFails(f) ==
  /\ Goes(f, "fetch", "put")
  /\ ~ctxDone /\ failures < MaxFailures
  /\ failures' = failures + 1
  /\ got' = [got EXCEPT ![f] = 0]
  /\ UNCHANGED <<srv, ctxDone, tables, caching, of, genAt, snap, todo, floorAt>>

(* it fails because of the shutdown: the failure is not cached *)
FetchCancelled(f) ==
  /\ Goes(f, "fetch", "chat")
  /\ ctxDone
  /\ got' = [got EXCEPT ![f] = 0]
  /\ UNCHANGED <<server, tables, caching, of, genAt, snap, todo, floorAt>>

(* UpsertGroup: a name that is not empty replaces the old one *)
PersistRow(p) ==
  /\ Goes(p, "row", IF p \in Startup THEN "chat" ELSE "members")
  /\ row' = [row EXCEPT ![of[p]] = got[p]]
  /\ UNCHANGED <<server, members, chat, caching, hands>>

(* ReplaceGroupParticipants, a transaction of its own *)
PersistMembers(p) ==
  /\ Goes(p, "members", IF p \in Lookup THEN "put" ELSE IF p \in Renamer THEN "done" ELSE "chat")
  /\ members' = [members EXCEPT ![of[p]] = got[p]]
  /\ UNCHANGED <<server, row, chat, caching, hands>>

(* mutant: no generations *)
PutAlways(f) ==
  /\ Goes(f, "put", "chat")
  /\ cache' = [cache EXCEPT ![of[f]] = got[f]]
  /\ UNCHANGED <<server, tables, gen, floor, hands>>

(* putGroup: discarded when the cache was invalidated meanwhile *)
Put(f) ==
  /\ Goes(f, "put", "chat")
  /\ cache' = IF gen = genAt[f] THEN [cache EXCEPT ![of[f]] = got[f]] ELSE cache
  /\ UNCHANGED <<server, tables, gen, floor, hands>>

(* UpsertChat of the message; what the lookup had in hand is gone *)
StoreChat(f) ==
  /\ Goes(f, "chat", "idle")
  /\ chat' = [chat EXCEPT ![of[f]] = got[f]]
  /\ of' = [of EXCEPT ![f] = None] /\ got' = [got EXCEPT ![f] = 0]
  /\ genAt' = [genAt EXCEPT ![f] = 0] /\ floorAt' = [floorAt EXCEPT ![f] = 0]
  /\ UNCHANGED <<server, row, members, caching, snap, todo>>
-----------------------------------------------------------------------------
(* opGroupRename: SetGroupName ... *)
Rename(r, g) ==
  /\ Goes(r, "idle", "renamed")
  /\ srv[g] < MaxVersion
  /\ srv' = [srv EXCEPT ![g] = @ + 1]
  /\ of' = [of EXCEPT ![r] = g]
  /\ got' = [got EXCEPT ![r] = srv[g] + 1]
  /\ UNCHANGED <<ctxDone, failures, tables, caching, genAt, snap, todo, floorAt>>

(* mutant: the generation moves, the entry stays *)
InvalidateKeeping(r) ==
  /\ Goes(r, "renamed", "fetch")
  /\ gen' = gen + 1
  /\ floor' = [floor EXCEPT ![of[r]] = Later(@, got[r])]
  /\ UNCHANGED <<server, tables, cache, hands>>

(* ... InvalidateNameCache, and GetGroupInfo again *)
Invalidate(r) ==
  /\ Goes(r, "renamed", "fetch")
  /\ cache' = [cache EXCEPT ![of[r]] = Absent]
  /\ gen' = gen + 1
  /\ floor' = [floor EXCEPT ![of[r]] = Later(@, got[r])]
  /\ UNCHANGED <<server, tables, hands>>

RefetchFails(r) ==
  /\ Goes(r, "fetch", "done")
  /\ UNCHANGED <<server, tables, caching, hands>>

(* opGroupRefresh and refreshGroups: GetJoinedGroups ... *)
Snapshot(r) ==
  /\ Goes(r, "idle", IF r \in Startup THEN "next" ELSE "listed")
  /\ snap' = [snap EXCEPT ![r] = srv]
  /\ todo' = [todo EXCEPT ![r] = Group]
  /\ UNCHANGED <<server, tables, caching, of, genAt, got, floorAt>>

(* ... InvalidateAllNameCaches, only in opGroupRefresh ... *)
InvalidateAll(r) ==
  /\ Goes(r, "listed", "next")
  /\ cache' = [g \in Group |-> Absent]
  /\ gen' = gen + 1
  /\ floor' = [g \in Group |-> Later(floor[g], snap[r][g])]
  /\ UNCHANGED <<server, tables, hands>>

(* ... and the groups are persisted one by one *)
NextGroup(r) ==
  /\ Goes(r, "next", "row")
  /\ \E g \in todo[r] :
       /\ of' = [of EXCEPT ![r] = g]
       /\ got' = [got EXCEPT ![r] = snap[r][g]]
       /\ todo' = [todo EXCEPT ![r] = @ \ {g}]
  /\ UNCHANGED <<server, tables, caching, genAt, snap, floorAt>>

(* UpsertChat of the refresh *)
RefreshChat(r) ==
  /\ Goes(r, "chat", "next")
  /\ chat' = [chat EXCEPT ![of[r]] = got[r]]
  /\ UNCHANGED <<server, row, members, caching, hands>>

RefreshDone(r) ==
  /\ Goes(r, "next", "done")
  /\ todo[r] = {}
  /\ UNCHANGED <<server, tables, caching, hands>>
-----------------------------------------------------------------------------
(* another device changes the group: nothing here hears of it *)
ChangedElsewhere(g) ==
  /\ srv[g] < MaxVersion
  /\ srv' = [srv EXCEPT ![g] = @ + 1]
  /\ UNCHANGED <<ctxDone, failures, tables, caching, hands, at>>

(* mutant: a failure has no lifetime of its own *)
ExpireNames(g) ==
  /\ cache[g] \in Version
  /\ cache' = [cache EXCEPT ![g] = Absent]
  /\ UNCHANGED <<server, tables, gen, floor, hands, at>>

(* groupCacheTTL or negativeCacheTTL passes *)
Expire(g) ==
  /\ cache[g] # Absent
  /\ cache' = [cache EXCEPT ![g] = Absent]
  /\ UNCHANGED <<server, tables, gen, floor, hands, at>>

Cancel ==
  /\ ~ctxDone /\ ctxDone' = TRUE
  /\ UNCHANGED <<srv, failures, tables, caching, hands, at>>

Message(f) == \E g \in Group : Hit(f, g) \/ Miss(f, g)

Resolve(f) ==
  \/ FetchOK(f) \/ FetchFails(f) \/ FetchCancelled(f)
  \/ PersistRow(f) \/ PersistMembers(f) \/ Put(f) \/ StoreChat(f)

RenameStep(r) ==
  \/ Invalidate(r) \/ FetchOK(r) \/ RefetchFails(r) \/ PersistRow(r) \/ PersistMembers(r)

RefreshStep(r) ==
  \/ InvalidateAll(r) \/ NextGroup(r) \/ RefreshDone(r)
  \/ PersistRow(r) \/ PersistMembers(r) \/ RefreshChat(r)

Next ==
  \/ \E f \in Lookup : Message(f) \/ Resolve(f)
  \/ \E r \in Renamer : (\E g \in Group : Rename(r, g)) \/ RenameStep(r)
  \/ \E r \in Refresher : Snapshot(r) \/ RefreshStep(r)
  \/ \E g \in Group : ChangedElsewhere(g) \/ Expire(g)
  \/ Cancel

Spec == Init /\ [][Next]_vars

(* time passes, calls return, and messages keep arriving in every group *)
FairSpec ==
  /\ Spec
  /\ \A f \in Lookup : WF_vars(Resolve(f))
  /\ \A g \in Group : SF_vars(\E f \in Lookup : Hit(f, g) \/ Miss(f, g))
  /\ \A r \in Renamer : WF_vars(RenameStep(r))
  /\ \A r \in Refresher : WF_vars(RefreshStep(r))
  /\ \A g \in Group : WF_vars(Expire(g))
-----------------------------------------------------------------------------
TypeOK ==
  /\ srv \in [Group -> Version] /\ ctxDone \in BOOLEAN /\ failures \in 0..MaxFailures
  /\ cache \in [Group -> {Absent, 0} \cup Version] /\ gen \in Nat
  /\ row \in [Group -> {Absent} \cup Version]
  /\ members \in [Group -> {Absent} \cup Version]
  /\ chat \in [Group -> {Absent, 0} \cup Version]
  /\ at \in [Process -> {"idle", "fetch", "row", "members", "put", "chat",
                         "renamed", "listed", "next", "done"}]
  /\ of \in [Process -> Group \cup {None}]
  /\ genAt \in [Lookup -> Nat] /\ floorAt \in [Lookup -> {0} \cup Version]
  /\ got \in [Process -> {0} \cup Version]
  /\ snap \in [Refresher -> [Group -> Version]]
  /\ todo \in [Refresher -> SUBSET Group]
  /\ floor \in [Group -> {0} \cup Version]

(* resolveCache.gen: a rename or a refresh that has invalidated the cache is
   never undone in it by a lookup that read the older state and was in flight. *)
CacheIsCurrent == \A g \in Group : cache[g] > 0 => cache[g] >= floor[g]

(* opGroupRename: "new messages pick up the rename".  A lookup that began after
   an invalidation resolves to that version or a later one, whether it was
   answered by the cache or by WhatsApp, unless it fails. *)
FreshLookups ==
  \A f \in Lookup : at[f] = "chat" /\ got[f] > 0 => got[f] >= floorAt[f]

(* sync_cache.go:34-37: "a rename or refresh can never be overwritten by an
   in-flight lookup that read the pre-change state" -- in the groups table.
   Does not hold (README, section 5). *)
LookupKeepsRename ==
  [][\A f \in Lookup :
       PersistRow(f) /\ row[of[f]] >= floor[of[f]] => row'[of[f]] >= floor[of[f]]]_vars

(* Names heal: once a group stops changing, messages that keep arriving bring
   its name and members in every table up to date, whatever races, failures and
   stale refreshes went before -- unless the process is being stopped. *)
Converges ==
  \A g \in Group :
    <>[](srv[g] = row[g] /\ srv[g] = members[g] /\ srv[g] = chat[g]) \/ <>ctxDone
-----------------------------------------------------------------------------
(* Why the cache is current: whatever is in hand to be cached was read after
   the last invalidation, or carries an older generation. *)
InHandCurrent ==
  \A f \in Lookup :
    at[f] \in {"row", "members", "put"} /\ genAt[f] = gen /\ got[f] > 0
      => got[f] >= floor[of[f]]

(* Versions only grow: what was read of a group is no newer than the group. *)
NoFuture ==
  /\ \A g \in Group : floor[g] <= srv[g]
  /\ \A r \in Renamer : at[r] = "renamed" => got[r] <= srv[of[r]]
  /\ \A r \in Refresher, g \in Group : snap[r][g] <= srv[g]
  /\ \A f \in Lookup : genAt[f] <= gen

(* A lookup's floor is one of its group, and what it read is above it. *)
AboveFloorAt ==
  \A f \in Lookup :
    /\ at[f] # "idle" => floorAt[f] <= floor[of[f]]
    /\ at[f] \in {"row", "members", "put", "chat"} /\ got[f] > 0 => got[f] >= floorAt[f]

(* Which process can be where, and that it then is about a group. *)
Whereabouts ==
  /\ \A f \in Lookup : at[f] \in {"idle", "fetch", "row", "members", "put", "chat"}
  /\ \A r \in Renamer : at[r] \in {"idle", "renamed", "fetch", "row", "members", "done"}
  /\ \A r \in Refresher : at[r] \in {"idle", "listed", "next", "row", "members", "chat", "done"}
  /\ \A p \in Process :
       /\ at[p] \in {"fetch", "row", "members", "put", "chat", "renamed"} => of[p] \in Group
       /\ at[p] \in {"row", "members", "renamed"} => got[p] > 0
       /\ p \in Refresher /\ at[p] = "chat" => got[p] > 0
=============================================================================
