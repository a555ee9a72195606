------------------------------- MODULE Baselines -------------------------------
(***************************************************************************)
(* The cycles of parts (part_cycle_baseline): rebuilt in the background    *)
(* from completed production orders, and edited by administrators.  A      *)
(* rebuild and an edit read rows, compute, and write at their commit, with *)
(* other commits in between; rebuilds are asked for by the synchronisation *)
(* of the production orders and by hand, under one dedupe key.  Snapshots  *)
(* do not depend on part cycles, so the refreshes are left out.            *)
(***************************************************************************)
EXTENDS Integers, Sequences, FiniteSets

CONSTANTS
  Keys,          \* part type, machine model and plant, if any: unique in the table
  HistoryKeys,   \* those with a plant, as the orders have
  Histories,     \* cycles of the completed orders of a key, in ascending order
  Rebuilders,    \* workers that run rebuild tasks
  NoRow,
  MaxId,         \* bound on the rows ever inserted
  MaxChanges,    \* bound on the changes of the source orders
  MaxEdits,      \* bound on the administrators' edits
  MaxFailures    \* bound on the rebuilds that break

ASSUMPTION KeysAreNumbers == Keys \in SUBSET Nat /\ IsFiniteSet(Keys)
ASSUMPTION HistoryKeysAreKeys == HistoryKeys \subseteq Keys
ASSUMPTION HistoriesAreCycles == Histories \in SUBSET Seq(Nat \ {0})
ASSUMPTION BoundsAreNumbers ==
  MaxId \in Nat /\ MaxChanges \in Nat /\ MaxEdits \in Nat /\ MaxFailures \in Nat

VARIABLES
  history,    \* production_order_history_src: the completed orders of each key
  rows,       \* part_cycle_baseline, by id
  next,       \* the next id
  queued,     \* background_task: pending rebuild tasks
  rebuild,    \* each worker's rebuild: how far it is and what it has read
  sync,       \* the synchronisation of the production orders
  admin,      \* the edit of a record that has read its row
  overlap,    \* the rebuilds during which something else committed
  changes, edits, failures

vars == <<history, rows, next, queued, rebuild, sync, admin, overlap, changes, edits, failures>>
tableVars == <<rows, next>>
askVars == <<queued, sync>>
countVars == <<changes, edits, failures>>

Ids == 1..MaxId

-----------------------------------------------------------------------------
(* Promotion *)

MinSamples == 1

\* Twice the median.
Median(h) == h[(Len(h) + 1) \div 2] + h[(Len(h) + 2) \div 2]

\* Enough samples, and the longest at most twice the shortest.
Promoted(h) == Len(h) >= MinSamples /\ h[Len(h)] <= 2 * h[1]

Row == [key : Keys, source : {"history", "manual"}, active : BOOLEAN, cycle : Nat, samples : Nat]

ASSUMPTION NoRowIsNone == NoRow \notin Row

HistoryRow(k, h) ==
  [key |-> k, source |-> "history", active |-> TRUE, cycle |-> Median(h), samples |-> Len(h)]

PromotedKeys(hs) == {k \in HistoryKeys : Promoted(hs[k])}

\* What administrators enter; their cycle is told apart from every median.
ManualRow(k, active) ==
  [key |-> k, source |-> "manual", active |-> active, cycle |-> 1, samples |-> 0]

Rowed(table) == {i \in Ids : table[i] # NoRow}

At(table, k) == {i \in Rowed(table) : table[i].key = k}

ScopeOf(table, k) == IF At(table, k) = {} THEN NoRow ELSE table[CHOOSE i \in At(table, k) : TRUE]

Manual(row) == row # NoRow /\ row.source = "manual"

-----------------------------------------------------------------------------
(* Rebuild tasks *)

IdleRebuild == [pc |-> "idle", history |-> [k \in HistoryKeys |-> <<>>],
                scopes |-> [k \in HistoryKeys |-> NoRow], stale |-> {}]

Running == {r \in Rebuilders : rebuild[r].pc # "idle"}

\* find_active_by_dedupe_key: pending or running.
Active == queued > 0 \/ Running # {}

Committed == overlap' = Running

IdleSync == [pc |-> "idle", history |-> [k \in HistoryKeys |-> <<>>], complete |-> FALSE, found |-> FALSE]

\* The orders are fetched, all of them or up to a page that fails, and a complete fetch
\* looks for an active rebuild.
FetchOrders(complete) ==
  /\ sync.pc = "idle"
  /\ \E fetched \in {history} \union {[history EXCEPT ![k] = h] : k \in HistoryKeys, h \in Histories} :
       /\ fetched # history => changes < MaxChanges
       /\ changes' = IF fetched # history THEN changes + 1 ELSE changes
       /\ sync' = [pc |-> "fetched", history |-> fetched, complete |-> complete,
                   found |-> complete /\ Active]
  /\ UNCHANGED <<history, tableVars, queued, rebuild, admin, overlap, edits, failures>>

\* Variant: a rebuild is asked for only if an order is different from before.
CommitOrders_IfChanged ==
  /\ sync.pc = "fetched"
  /\ history' = sync.history
  /\ queued' = IF sync.complete /\ ~sync.found /\ sync.history # history THEN queued + 1 ELSE queued
  /\ sync' = IdleSync
  /\ Committed
  /\ UNCHANGED <<tableVars, rebuild, admin, countVars>>

\* Every order that is fetched counts as an insert or an update.
CommitOrders ==
  /\ sync.pc = "fetched"
  /\ history' = sync.history
  /\ queued' = IF sync.complete /\ ~sync.found THEN queued + 1 ELSE queued
  /\ sync' = IdleSync
  /\ Committed
  /\ UNCHANGED <<tableVars, rebuild, admin, countVars>>

\* An administrator asks for a rebuild.
RequestRebuild ==
  /\ ~Active
  /\ queued' = queued + 1
  /\ UNCHANGED <<history, tableVars, rebuild, sync, admin, overlap, countVars>>

-----------------------------------------------------------------------------
(* A rebuild: three reads, then the writes and the commit *)

Step(r, state) == rebuild' = [rebuild EXCEPT ![r] = state]

LoadOrders(r) ==
  /\ queued > 0
  /\ rebuild[r].pc = "idle"
  /\ queued' = queued - 1
  /\ Step(r, [IdleRebuild EXCEPT !.pc = "scopes", !.history = history])
  /\ overlap' = overlap \ {r}
  /\ UNCHANGED <<history, tableVars, sync, admin, countVars>>

ListByScopes(r) ==
  /\ rebuild[r].pc = "scopes"
  /\ Step(r, [rebuild[r] EXCEPT
                !.pc = "history",
                !.scopes = [k \in HistoryKeys |-> IF k \in PromotedKeys(rebuild[r].history)
                                           THEN ScopeOf(rows, k) ELSE NoRow]])
  /\ UNCHANGED <<history, tableVars, askVars, admin, overlap, countVars>>

\* Variant: a row that needs no update is not kept.
Kept_IfChanged(v) ==
  {k \in PromotedKeys(v.history) :
     ~Manual(v.scopes[k]) /\ v.scopes[k] # HistoryRow(k, v.history[k])}

\* Promoted keys that have no manual row.
Kept(v) == {k \in PromotedKeys(v.history) : ~Manual(v.scopes[k])}

ListActiveHistory(r) ==
  /\ rebuild[r].pc = "history"
  /\ Step(r, [rebuild[r] EXCEPT
                !.pc = "write",
                !.stale = {i \in Rowed(rows) : /\ rows[i].source = "history"
                                               /\ rows[i].active
                                               /\ rows[i].key \notin Kept(rebuild[r])}])
  /\ UNCHANGED <<history, tableVars, askVars, admin, overlap, countVars>>

\* The rows to write, and of them those whose key is free: they take the next ids.
Written(v) == {k \in Kept(v) : v.scopes[k] # HistoryRow(k, v.history[k])}
Inserted(v) == {k \in Written(v) : At(rows, k) = {}}
NewId(v, k) == next + Cardinality({j \in Inserted(v) : j < k})

\* Variant: the upsert has no WHERE.
Upsert_Always(old, new) == new

\* ON CONFLICT (key) DO UPDATE ... WHERE cycle_source <> 'manual'.
Upsert(old, new) == IF Manual(old) THEN old ELSE new

\* The table after the INSERT, which is one statement.
Upserted(v) ==
  LET new(k) == HistoryRow(k, v.history[k])
      AtNew(i) == {k \in Inserted(v) : NewId(v, k) = i}
  IN [i \in Ids |->
        CASE i \in Rowed(rows) /\ rows[i].key \in Written(v) -> Upsert(rows[i], new(rows[i].key))
          [] i \notin Rowed(rows) /\ AtNew(i) # {} -> new(CHOOSE k \in AtNew(i) : TRUE)
          [] OTHER -> rows[i]]

\* deactivate_history_ids: by id alone.
Deactivated(table, ids) ==
  [i \in Ids |-> IF i \in ids /\ table[i] # NoRow THEN [table[i] EXCEPT !.active = FALSE]
                                                   ELSE table[i]]

CommitRebuild(r) ==
  LET v == rebuild[r]
      last == next + Cardinality(Inserted(v))
  IN /\ v.pc = "write"
     /\ last <= MaxId + 1
     /\ rows' = Deactivated(Upserted(v), v.stale)
     /\ next' = last
     /\ Step(r, IdleRebuild)
     /\ overlap' = Running \ {r}
     /\ UNCHANGED <<history, askVars, admin, countVars>>

\* An exception, or the death of the worker: the rows are rolled back, and the task is
\* tried again or given up.
RebuildBreaks(r) ==
  /\ failures < MaxFailures
  /\ rebuild[r].pc # "idle"
  /\ Step(r, IdleRebuild)
  /\ queued' \in {queued, queued + 1}
  /\ overlap' = overlap \ {r}
  /\ failures' = failures + 1
  /\ UNCHANGED <<history, tableVars, sync, admin, changes, edits>>

-----------------------------------------------------------------------------
(* Administrators *)

IdleEdit == [id |-> 0, seen |-> NoRow, asked |-> NoRow]

Edited ==
  /\ edits < MaxEdits
  /\ edits' = edits + 1
  /\ Committed
  /\ UNCHANGED <<history, askVars, rebuild, changes, failures>>

\* A save without the id of a row, or with that of a row that is gone, overwrites the row of
\* its key, whatever its source.
SaveNew ==
  /\ Edited
  /\ \E k \in Keys, active \in BOOLEAN :
       LET row == ManualRow(k, active)
           at == At(rows, k)
       IN /\ at = {} => next <= MaxId
          /\ rows' = IF at = {} THEN [rows EXCEPT ![next] = row]
                     ELSE [i \in Ids |-> IF i \in at THEN row ELSE rows[i]]
          /\ next' = IF at = {} THEN next + 1 ELSE next
  /\ UNCHANGED admin

BeginSave ==
  /\ admin.id = 0
  /\ \E i \in Rowed(rows), k \in Keys, active \in BOOLEAN :
       admin' = [id |-> i, seen |-> rows[i], asked |-> ManualRow(k, active)]
  /\ UNCHANGED <<history, tableVars, askVars, rebuild, overlap, countVars>>

\* The columns whose value is not the one that was read.
Merged(now, seen, asked) == [c \in DOMAIN now |-> IF asked[c] = seen[c] THEN now[c] ELSE asked[c]]

CommitSave ==
  /\ admin.id # 0
  /\ Edited
  /\ rows[admin.id] # NoRow
  /\ At(rows, admin.asked.key) \subseteq {admin.id}
  /\ rows' = [rows EXCEPT ![admin.id] = Merged(@, admin.seen, admin.asked)]
  /\ admin' = IdleEdit
  /\ UNCHANGED next

\* The row is gone, or another one has the key: the save is rolled back.
SaveFails ==
  /\ admin.id # 0
  /\ \/ rows[admin.id] = NoRow
     \/ ~(At(rows, admin.asked.key) \subseteq {admin.id})
     \/ edits = MaxEdits
  /\ admin' = IdleEdit
  /\ UNCHANGED <<history, tableVars, askVars, rebuild, overlap, countVars>>

Delete ==
  /\ Edited
  /\ \E i \in Rowed(rows) : rows' = [rows EXCEPT ![i] = NoRow]
  /\ UNCHANGED <<next, admin>>

-----------------------------------------------------------------------------
Init ==
  /\ history = [k \in HistoryKeys |-> <<>>]
  /\ rows = [i \in Ids |-> NoRow]
  /\ next = 1
  /\ queued = 0
  /\ rebuild = [r \in Rebuilders |-> IdleRebuild]
  /\ sync = IdleSync
  /\ admin = IdleEdit
  /\ overlap = {}
  /\ changes = 0 /\ edits = 0 /\ failures = 0

Rebuild(r) == LoadOrders(r) \/ ListByScopes(r) \/ ListActiveHistory(r) \/ CommitRebuild(r)

Next ==
  \/ \E complete \in BOOLEAN : FetchOrders(complete)
  \/ CommitOrders
  \/ RequestRebuild
  \/ \E r \in Rebuilders : Rebuild(r) \/ RebuildBreaks(r)
  \/ SaveNew \/ BeginSave \/ CommitSave \/ SaveFails \/ Delete

\* The orders are synchronised on a schedule and a fetch succeeds now and then; a rebuild and
\* a save that began end.
Fairness ==
  /\ SF_vars(FetchOrders(TRUE)) /\ WF_vars(CommitOrders)
  /\ \A r \in Rebuilders : WF_vars(Rebuild(r))
  /\ WF_vars(CommitSave \/ SaveFails)

Spec == Init /\ [][Next]_vars
FairSpec == Spec /\ Fairness

-----------------------------------------------------------------------------
\* What is known of the orders of a key.
Orders == Histories \union {<<>>}

Column == Row \union {NoRow}

Work == [pc : {"idle", "scopes", "history", "write"},
         history : [HistoryKeys -> Orders],
         scopes : [HistoryKeys -> Column],
         stale : SUBSET Ids]

SyncWork == [pc : {"idle", "fetched"}, history : [HistoryKeys -> Orders],
             complete : BOOLEAN, found : BOOLEAN]

Edit == [id : Ids \union {0}, seen : Column, asked : Column]

\* Types, with what the table owes to its unique index and its sequence: a key has one row,
\* and every id in use is below the next.
TypeOK ==
  /\ history \in [HistoryKeys -> Orders]
  /\ rows \in [Ids -> Column]
  /\ \A i, j \in Rowed(rows) : rows[i].key = rows[j].key => i = j
  /\ next \in 1..(MaxId + 1)
  /\ \A i \in Rowed(rows) : i < next
  /\ queued \in Nat
  /\ rebuild \in [Rebuilders -> Work]
  /\ sync \in SyncWork
  /\ admin \in Edit
  /\ admin.id # 0 => admin.seen \in Row /\ admin.asked \in Row
  /\ overlap \subseteq Rebuilders
  /\ changes \in 0..MaxChanges
  /\ edits \in 0..MaxEdits
  /\ failures \in 0..MaxFailures

\* Each key without a manual row has the median of its orders if they are promoted, and no
\* other history row is active.
HistoryAgrees ==
  /\ \A k \in PromotedKeys(history) :
       Manual(ScopeOf(rows, k)) \/ ScopeOf(rows, k) = HistoryRow(k, history[k])
  /\ \A i \in Rowed(rows) :
       rows[i].source = "history" /\ rows[i].active => rows[i].key \in PromotedKeys(history)

\* A rebuild that nothing overlapped leaves the table as the orders have it.
SerialRebuildAgrees ==
  [][\A r \in Rebuilders : CommitRebuild(r) /\ r \notin overlap => HistoryAgrees']_vars

\* No rebuild touches a row that was manual when it listed the active history, whatever was
\* saved, deleted or rebuilt between its reads.
ManualUntouched ==
  [][\A r \in Rebuilders : CommitRebuild(r) =>
       \A i \in Ids : Manual(rows[i]) /\ i \notin rebuild[r].stale => rows'[i] = rows[i]]_vars

\* "Without touching the manually maintained records": no rebuild touches a manual row.
ManualKept ==
  [][\A r \in Rebuilders : CommitRebuild(r) =>
       \A i \in Ids : Manual(rows[i]) => rows'[i] = rows[i]]_vars

\* Once orders and administrators come to rest, the table comes to agree with the orders,
\* although a sync that finds a rebuild running asks for no other.
HistorySettles == <>[]HistoryAgrees
=============================================================================
