--------------------------- MODULE Baselines_proofs ----------------------------
(* What holds of Baselines for any keys, histories and numbers of rebuilds.      *)
EXTENDS Baselines, FiniteSetTheorems, TLAPS

WorkOK ==
  /\ history \in [HistoryKeys -> Orders]
  /\ queued \in Nat
  /\ rebuild \in [Rebuilders -> Work]
  /\ sync \in SyncWork
  /\ admin \in Edit
  /\ admin.id # 0 => admin.seen \in Row /\ admin.asked \in Row
  /\ overlap \subseteq Rebuilders

\* Ids are given once, and a key has one row.
TableOK ==
  /\ rows \in [Ids -> Column]
  /\ next \in 1..(MaxId + 1)
  /\ \A i \in Ids : i >= next => rows[i] = NoRow
  /\ \A i, j \in Rowed(rows) : rows[i].key = rows[j].key => i = j

TypeInv == WorkOK /\ TableOK

-----------------------------------------------------------------------------
(* Rows *)

LEMMA NothingPromotes == ~Promoted(<<>>)
BY DEF Promoted, MinSamples

LEMMA HistoryRowType ==
  ASSUME NEW k \in HistoryKeys, NEW h \in Orders, Promoted(h)
  PROVE  /\ HistoryRow(k, h) \in Row
         /\ HistoryRow(k, h) # NoRow
         /\ HistoryRow(k, h).key = k
         /\ ~Manual(HistoryRow(k, h))
<1>1. h \in Seq(Nat \ {0}) /\ Len(h) \in Nat /\ Len(h) >= 1
  BY HistoriesAreCycles, NothingPromotes DEF Orders, Promoted, MinSamples
<1>2. (Len(h) + 1) \div 2 \in 1..Len(h) /\ (Len(h) + 2) \div 2 \in 1..Len(h)
  BY <1>1
<1>3. \A n \in 1..Len(h) : h[n] \in Nat
  BY <1>1
<1>4. Median(h) \in Nat
  BY <1>2, <1>3 DEF Median
<1>5. HistoryRow(k, h) \in Row
  BY <1>1, <1>4, HistoryKeysAreKeys DEF HistoryRow, Row
<1> QED BY <1>5, NoRowIsNone DEF HistoryRow, Manual

LEMMA ManualRowType ==
  ASSUME NEW k \in Keys, NEW active \in BOOLEAN
  PROVE  ManualRow(k, active) \in Row /\ ManualRow(k, active).key = k
BY DEF ManualRow, Row

\* A table with a row for each key at most has the row of a key where it is.
LEMMA ScopeIsRow ==
  ASSUME NEW table, \A i, j \in Rowed(table) : table[i].key = table[j].key => i = j,
         NEW i \in Rowed(table)
  PROVE  ScopeOf(table, table[i].key) = table[i]
<1>1. At(table, table[i].key) = {i}
  BY DEF At
<1> QED BY <1>1 DEF ScopeOf

LEMMA ScopeType ==
  ASSUME rows \in [Ids -> Column], NEW k
  PROVE  ScopeOf(rows, k) \in Column
BY DEF ScopeOf, At, Rowed, Column

-----------------------------------------------------------------------------
(* The writes of a rebuild *)

\* What a rebuild knows when it writes.
LEMMA WrittenKeys ==
  ASSUME NEW v \in Work
  PROVE  \A k \in Written(v) : /\ k \in HistoryKeys /\ k \in Kept(v)
                               /\ v.history[k] \in Orders /\ Promoted(v.history[k])
BY DEF Written, Kept, PromotedKeys, Work

LEMMA NewIds ==
  ASSUME NEW v \in Work, next \in Nat
  PROVE  /\ Cardinality(Inserted(v)) \in Nat
         /\ \A k \in Inserted(v) : NewId(v, k) \in next..(next + Cardinality(Inserted(v)) - 1)
         /\ \A j, k \in Inserted(v) : NewId(v, j) = NewId(v, k) => j = k
<1> DEFINE I == Inserted(v)
           Below(k) == {j \in I : j < k}
<1>1. I \subseteq Nat /\ IsFiniteSet(I)
  <2>1. I \subseteq Keys
    BY WrittenKeys, HistoryKeysAreKeys DEF Inserted
  <2> QED BY <2>1, KeysAreNumbers, FS_Subset
<1>2. Cardinality(I) \in Nat
  BY <1>1, FS_CardinalityType
<1>3. \A k \in I : IsFiniteSet(Below(k)) /\ Cardinality(Below(k)) \in Nat
  <2> TAKE k \in I
  <2>1. Below(k) \subseteq I
    OBVIOUS
  <2> QED BY <1>1, <2>1, FS_Subset, FS_CardinalityType
<1>4. \A k \in I : Cardinality(Below(k) \union {k}) = Cardinality(Below(k)) + 1
  <2> TAKE k \in I
  <2>1. k \notin Below(k)
    BY <1>1
  <2>2. IsFiniteSet(Below(k))
    BY <1>3
  <2> HIDE DEF Below
  <2> QED BY <2>1, <2>2, FS_AddElement
<1>5. \A k \in I : Cardinality(Below(k)) + 1 <= Cardinality(I)
  <2> TAKE k \in I
  <2>1. Below(k) \union {k} \subseteq I
    OBVIOUS
  <2>2. Cardinality(Below(k) \union {k}) <= Cardinality(I)
    BY <1>1, <2>1, FS_Subset
  <2> QED BY <1>4, <2>2
<1>6. ASSUME NEW j \in I, NEW k \in I, j < k
      PROVE  Cardinality(Below(j)) < Cardinality(Below(k))
  <2>1. Below(j) \union {j} \subseteq Below(k)
    BY <1>1, <1>6
  <2>2. Cardinality(Below(j) \union {j}) <= Cardinality(Below(k))
    BY <1>3, <2>1, FS_Subset
  <2>3. Cardinality(Below(j) \union {j}) = Cardinality(Below(j)) + 1
    BY <1>4
  <2>4. Cardinality(Below(j)) \in Nat /\ Cardinality(Below(k)) \in Nat
    BY <1>3
  <2> HIDE DEF Below
  <2> QED BY <2>2, <2>3, <2>4
<1>7. \A k \in I : NewId(v, k) = next + Cardinality(Below(k))
  BY DEF NewId
<1> HIDE DEF I, Below
<1>8. \A j, k \in I : NewId(v, j) = NewId(v, k) => j = k
  <2> TAKE j, k \in I
  <2>1. j \in Nat /\ k \in Nat
    BY <1>1
  <2>2. CASE j < k
    BY <2>2, <1>3, <1>6, <1>7
  <2>3. CASE k < j
    BY <2>3, <1>3, <1>6, <1>7
  <2> QED BY <2>1, <2>2, <2>3
<1>9. \A k \in I : NewId(v, k) \in next..(next + Cardinality(I) - 1)
  BY <1>2, <1>3, <1>5, <1>7
<1> QED BY <1>2, <1>8, <1>9 DEF I

\* The rows after the INSERT: those there were, and one for each key that was free.
LEMMA UpsertedRows ==
  ASSUME TableOK, NEW v \in Work, next + Cardinality(Inserted(v)) <= MaxId + 1
  PROVE  /\ \A i \in Rowed(rows) :
              Upserted(v)[i] = IF rows[i].key \in Written(v) /\ ~Manual(rows[i])
                               THEN HistoryRow(rows[i].key, v.history[rows[i].key]) ELSE rows[i]
         /\ \A k \in Inserted(v) : /\ NewId(v, k) \in Ids \ Rowed(rows)
                                   /\ Upserted(v)[NewId(v, k)] = HistoryRow(k, v.history[k])
         /\ \A i \in Ids \ Rowed(rows) :
              (\A k \in Inserted(v) : NewId(v, k) # i) => Upserted(v)[i] = NoRow
<1> DEFINE new(k) == HistoryRow(k, v.history[k])
           AtNew(i) == {k \in Inserted(v) : NewId(v, k) = i}
<1>1. /\ next \in Nat /\ 1 <= next /\ \A i \in Ids : i >= next => rows[i] = NoRow
      /\ MaxId \in Nat
  BY BoundsAreNumbers DEF TableOK
<1>2. /\ Cardinality(Inserted(v)) \in Nat
      /\ \A k \in Inserted(v) : NewId(v, k) \in next..(next + Cardinality(Inserted(v)) - 1)
      /\ \A j, k \in Inserted(v) : NewId(v, j) = NewId(v, k) => j = k
  BY <1>1, NewIds
<1>3. \A i \in Ids : Upserted(v)[i] =
        CASE i \in Rowed(rows) /\ rows[i].key \in Written(v) -> Upsert(rows[i], new(rows[i].key))
          [] i \notin Rowed(rows) /\ AtNew(i) # {} -> new(CHOOSE k \in AtNew(i) : TRUE)
          [] OTHER -> rows[i]
  BY DEF Upserted
<1>4. \A i \in Rowed(rows) :
        Upserted(v)[i] = IF rows[i].key \in Written(v) /\ ~Manual(rows[i])
                         THEN new(rows[i].key) ELSE rows[i]
  BY <1>3 DEF Upsert, Rowed
<1>5. ASSUME NEW k \in Inserted(v)
      PROVE  NewId(v, k) \in Ids \ Rowed(rows) /\ Upserted(v)[NewId(v, k)] = new(k)
  <2>1. NewId(v, k) \in Ids /\ NewId(v, k) >= next
    BY <1>1, <1>2 DEF Ids
  <2>2. NewId(v, k) \notin Rowed(rows)
    BY <1>1, <2>1 DEF Rowed
  <2>3. AtNew(NewId(v, k)) = {k}
    BY <1>2
  <2>4. Upserted(v)[NewId(v, k)] = new(CHOOSE j \in AtNew(NewId(v, k)) : TRUE)
    BY <1>3, <2>1, <2>2, <2>3
  <2> QED BY <2>1, <2>2, <2>3, <2>4
<1>6. \A i \in Ids \ Rowed(rows) :
        (\A k \in Inserted(v) : NewId(v, k) # i) => Upserted(v)[i] = NoRow
  BY <1>3 DEF Rowed
<1> QED BY <1>4, <1>5, <1>6

\* The rows when a rebuild has committed.
LEMMA RebuiltRows ==
  ASSUME TableOK, NEW r \in Rebuilders, CommitRebuild(r), rebuild[r] \in Work
  PROVE  \A i \in Ids :
           rows'[i] = IF i \in rebuild[r].stale /\ Upserted(rebuild[r])[i] # NoRow
                      THEN [Upserted(rebuild[r])[i] EXCEPT !.active = FALSE]
                      ELSE Upserted(rebuild[r])[i]
BY DEF CommitRebuild, Deactivated

LEMMA InactiveRow ==
  ASSUME NEW row \in Row
  PROVE  /\ [row EXCEPT !.active = FALSE] \in Row
         /\ [row EXCEPT !.active = FALSE].key = row.key
BY DEF Row

LEMMA RebuildKeepsTable ==
  ASSUME TypeInv, NEW r \in Rebuilders, CommitRebuild(r)
  PROVE  TableOK'
<1> DEFINE v == rebuild[r]
           t == Upserted(v)
           last == next + Cardinality(Inserted(v))
<1>1. /\ v \in Work /\ TableOK
      /\ last <= MaxId + 1 /\ next' = last
      /\ rows' = Deactivated(t, v.stale)
  BY DEF TypeInv, WorkOK, CommitRebuild
<1>2. /\ rows \in [Ids -> Column] /\ next \in 1..(MaxId + 1)
      /\ \A i \in Ids : i >= next => rows[i] = NoRow
      /\ \A i, j \in Rowed(rows) : rows[i].key = rows[j].key => i = j
      /\ MaxId \in Nat
  BY <1>1, BoundsAreNumbers DEF TableOK
<1>3. /\ Cardinality(Inserted(v)) \in Nat
      /\ \A k \in Inserted(v) : NewId(v, k) \in next..(last - 1)
      /\ \A j, k \in Inserted(v) : NewId(v, j) = NewId(v, k) => j = k
  BY <1>1, <1>2, NewIds
<1>4. /\ \A i \in Rowed(rows) :
            t[i] = IF rows[i].key \in Written(v) /\ ~Manual(rows[i])
                   THEN HistoryRow(rows[i].key, v.history[rows[i].key]) ELSE rows[i]
      /\ \A k \in Inserted(v) : /\ NewId(v, k) \in Ids \ Rowed(rows)
                                /\ t[NewId(v, k)] = HistoryRow(k, v.history[k])
      /\ \A i \in Ids \ Rowed(rows) : (\A k \in Inserted(v) : NewId(v, k) # i) => t[i] = NoRow
  BY <1>1, UpsertedRows
<1>5. \A k \in Written(v) : LET new == HistoryRow(k, v.history[k])
                            IN new \in Row /\ new # NoRow /\ new.key = k
  BY <1>1, WrittenKeys, HistoryRowType
<1>6. Inserted(v) \subseteq Written(v) /\ \A k \in Inserted(v), i \in Rowed(rows) : rows[i].key # k
  BY DEF Inserted, At
<1>7. \A i \in Rowed(rows) : t[i] \in Row /\ t[i].key = rows[i].key
  <2>1. \A i \in Rowed(rows) : rows[i] \in Row
    BY <1>2 DEF Rowed, Column
  <2> QED BY <2>1, <1>4, <1>5
<1> HIDE DEF v, t, last
<1>8. \A i \in Ids \ Rowed(rows) :
        \/ t[i] = NoRow
        \/ \E k \in Inserted(v) : i = NewId(v, k) /\ t[i] \in Row /\ t[i].key = k
  BY <1>4, <1>5, <1>6
<1>9. \A i \in Ids : t[i] \in Column
  BY <1>7, <1>8 DEF Column
<1>10. \A i \in Ids : /\ rows'[i] \in Column /\ (rows'[i] = NoRow <=> t[i] = NoRow)
                      /\ t[i] # NoRow => rows'[i].key = t[i].key
  <2>1. \A i \in Ids : rows'[i] = IF i \in v.stale /\ t[i] # NoRow THEN [t[i] EXCEPT !.active = FALSE] ELSE t[i]
    BY <1>1 DEF Deactivated
  <2> QED BY <2>1, <1>9, InactiveRow, NoRowIsNone DEF Column
<1>11. rows' \in [Ids -> Column]
  BY <1>1, <1>10 DEF Deactivated
<1>12. next' \in 1..(MaxId + 1) /\ next' >= next
  BY <1>1, <1>2, <1>3 DEF last
<1>13. ASSUME NEW i \in Ids, i >= next' PROVE rows'[i] = NoRow
  <2>1. i \in Nat /\ next \in Nat /\ last \in Nat /\ last = next'
    BY <1>1, <1>2, <1>3 DEF Ids, last
  <2>2. i >= next
    BY <2>1, <1>12, <1>13
  <2>3. i \notin Rowed(rows)
    BY <1>2, <2>2 DEF Rowed
  <2>4. \A k \in Inserted(v) : NewId(v, k) # i
    BY <1>3, <1>13, <2>1
  <2>5. t[i] = NoRow
    BY <1>4, <2>3, <2>4
  <2> QED BY <1>10, <2>5
<1>14. ASSUME NEW i \in Rowed(rows)', NEW j \in Rowed(rows)', rows'[i].key = rows'[j].key
       PROVE  i = j
  <2>1. /\ i \in Ids /\ t[i] # NoRow /\ rows'[i].key = t[i].key
        /\ j \in Ids /\ t[j] # NoRow /\ rows'[j].key = t[j].key
    BY <1>10 DEF Rowed
  <2>2. CASE i \in Rowed(rows) /\ j \in Rowed(rows)
    BY <1>2, <1>7, <1>14, <2>1, <2>2
  <2>3. CASE i \in Rowed(rows) /\ j \notin Rowed(rows)
    BY <1>6, <1>7, <1>8, <1>14, <2>1, <2>3
  <2>4. CASE i \notin Rowed(rows) /\ j \in Rowed(rows)
    BY <1>6, <1>7, <1>8, <1>14, <2>1, <2>4
  <2>5. CASE i \notin Rowed(rows) /\ j \notin Rowed(rows)
    BY <1>8, <1>14, <2>1, <2>5
  <2> QED BY <2>2, <2>3, <2>4, <2>5
<1> QED BY <1>11, <1>12, <1>13, <1>14 DEF TableOK

-----------------------------------------------------------------------------
(* Types *)

LEMMA MergedRow ==
  ASSUME NEW now \in Row, NEW seen \in Row, NEW asked \in Row
  PROVE  /\ Merged(now, seen, asked) \in Row
         /\ Merged(now, seen, asked).key = IF asked.key = seen.key THEN now.key ELSE asked.key
<1>1. DOMAIN now = {"key", "source", "active", "cycle", "samples"}
  BY DEF Row
<1>2. Merged(now, seen, asked) =
        [key |-> IF asked.key = seen.key THEN now.key ELSE asked.key,
         source |-> IF asked.source = seen.source THEN now.source ELSE asked.source,
         active |-> IF asked.active = seen.active THEN now.active ELSE asked.active,
         cycle |-> IF asked.cycle = seen.cycle THEN now.cycle ELSE asked.cycle,
         samples |-> IF asked.samples = seen.samples THEN now.samples ELSE asked.samples]
  BY <1>1 DEF Merged
<1> QED BY <1>2 DEF Row

LEMMA IdleWork == IdleRebuild \in Work /\ IdleSync \in SyncWork /\ IdleEdit \in Edit
BY DEF IdleRebuild, Work, IdleSync, SyncWork, IdleEdit, Edit, Orders, Column

\* An administrator's save and deletion.
LEMMA EditKeepsTable ==
  ASSUME TypeInv, SaveNew \/ CommitSave \/ Delete
  PROVE  TableOK'
<1>1. /\ rows \in [Ids -> Column] /\ next \in 1..(MaxId + 1)
      /\ \A i \in Ids : i >= next => rows[i] = NoRow
      /\ \A i, j \in Rowed(rows) : rows[i].key = rows[j].key => i = j
      /\ MaxId \in Nat
  BY BoundsAreNumbers DEF TypeInv, TableOK
<1>2. CASE SaveNew
  <2>1. PICK k \in Keys, active \in BOOLEAN :
          /\ At(rows, k) = {} => next <= MaxId
          /\ rows' = IF At(rows, k) = {} THEN [rows EXCEPT ![next] = ManualRow(k, active)]
                     ELSE [i \in Ids |-> IF i \in At(rows, k) THEN ManualRow(k, active) ELSE rows[i]]
          /\ next' = IF At(rows, k) = {} THEN next + 1 ELSE next
    BY <1>2 DEF SaveNew
  <2>2. ManualRow(k, active) \in Row /\ ManualRow(k, active).key = k
    BY ManualRowType
  <2>3. CASE At(rows, k) = {}
    <3>1. next \in Ids /\ next' = next + 1 /\ rows' = [rows EXCEPT ![next] = ManualRow(k, active)]
      BY <1>1, <2>1, <2>3 DEF Ids
    <3>2. \A i \in Rowed(rows) : rows[i].key # k
      BY <2>3 DEF At
    <3>3. \A i \in Ids : rows'[i] = IF i = next THEN ManualRow(k, active) ELSE rows[i]
      BY <1>1, <3>1
    <3>4. rows' \in [Ids -> Column] /\ next' \in 1..(MaxId + 1)
      BY <1>1, <2>2, <3>1 DEF Column, Ids
    <3>5. \A i \in Ids : i >= next' => rows'[i] = NoRow
      BY <1>1, <3>1, <3>3 DEF Ids
    <3>6. \A i, j \in Rowed(rows)' : rows'[i].key = rows'[j].key => i = j
      BY <1>1, <2>2, <3>2, <3>3 DEF Rowed
    <3> QED BY <3>4, <3>5, <3>6 DEF TableOK
  <2>4. CASE At(rows, k) # {}
    <3>1. next' = next /\ rows' = [i \in Ids |-> IF i \in At(rows, k) THEN ManualRow(k, active) ELSE rows[i]]
      BY <2>1, <2>4
    <3>2. \A i \in At(rows, k) : i \in Rowed(rows) /\ rows[i].key = k
      BY DEF At
    <3>3. rows' \in [Ids -> Column]
      BY <1>1, <2>2, <3>1 DEF Column
    <3>4. \A i \in Ids : i >= next' => rows'[i] = NoRow
      BY <1>1, <3>1, <3>2 DEF Rowed
    <3>5. \A i \in Rowed(rows)' : i \in Rowed(rows) /\ rows'[i].key = rows[i].key
      BY <2>2, <3>1, <3>2 DEF Rowed
    <3>6. \A i, j \in Rowed(rows)' : rows'[i].key = rows'[j].key => i = j
      BY <1>1, <3>5
    <3> QED BY <1>1, <3>1, <3>3, <3>4, <3>6 DEF TableOK
  <2> QED BY <2>3, <2>4
<1>3. CASE CommitSave
  <2> DEFINE m == Merged(rows[admin.id], admin.seen, admin.asked)
  <2>1. /\ admin.id # 0 /\ rows[admin.id] # NoRow /\ next' = next
        /\ At(rows, admin.asked.key) \subseteq {admin.id}
        /\ rows' = [rows EXCEPT ![admin.id] = m]
    BY <1>3 DEF CommitSave, Edited
  <2>2. admin.id \in Ids /\ admin.seen \in Row /\ admin.asked \in Row
    BY <2>1 DEF TypeInv, WorkOK, Edit
  <2>3. rows[admin.id] \in Row
    BY <1>1, <2>1, <2>2 DEF Column
  <2>4. m \in Row /\ m.key = IF admin.asked.key = admin.seen.key THEN rows[admin.id].key ELSE admin.asked.key
    BY <2>2, <2>3, MergedRow
  <2> HIDE DEF m
  <2>5. \A i \in Ids : rows'[i] = IF i = admin.id THEN m ELSE rows[i]
    BY <1>1, <2>1
  <2>6. rows' \in [Ids -> Column]
    BY <1>1, <2>1, <2>4 DEF Column
  <2>7. \A i \in Ids : i >= next' => rows'[i] = NoRow
    BY <1>1, <2>1, <2>5
  <2>8. \A i \in Rowed(rows)' : i \in Rowed(rows) /\ (i # admin.id => rows'[i] = rows[i])
    BY <2>1, <2>2, <2>5 DEF Rowed
  <2>9. admin.id \in Rowed(rows) /\ rows'[admin.id].key = m.key
    BY <2>1, <2>2, <2>5 DEF Rowed
  <2>10. \A i \in Rowed(rows) : i # admin.id => rows[i].key # m.key
    BY <1>1, <2>1, <2>4, <2>9 DEF At
  <2>11. \A i, j \in Rowed(rows)' : rows'[i].key = rows'[j].key => i = j
    BY <1>1, <2>8, <2>9, <2>10
  <2> QED BY <1>1, <2>1, <2>6, <2>7, <2>11 DEF TableOK
<1>4. CASE Delete
  <2>1. PICK i \in Rowed(rows) : rows' = [rows EXCEPT ![i] = NoRow] /\ next' = next
    BY <1>4 DEF Delete, Edited
  <2>2. rows' \in [Ids -> Column]
    BY <1>1, <2>1 DEF Column
  <2>3. \A j \in Rowed(rows)' : j \in Rowed(rows) /\ rows'[j] = rows[j]
    BY <1>1, <2>1 DEF Rowed
  <2>4. \A j \in Ids : j >= next' => rows'[j] = NoRow
    BY <1>1, <2>1
  <2>5. \A j, k \in Rowed(rows)' : rows'[j].key = rows'[k].key => j = k
    BY <1>1, <2>3
  <2> QED BY <1>1, <2>1, <2>2, <2>4, <2>5 DEF TableOK
<1> QED BY <1>2, <1>3, <1>4

LEMMA TypeStep ==
  ASSUME TypeInv, [Next]_vars
  PROVE  TypeInv'
<1> USE DEF TypeInv
<1>1. ASSUME NEW complete \in BOOLEAN, FetchOrders(complete) PROVE TypeInv'
  <2>1. PICK fetched \in {history} \union {[history EXCEPT ![k] = h] : k \in HistoryKeys, h \in Histories} :
          sync' = [pc |-> "fetched", history |-> fetched, complete |-> complete, found |-> complete /\ Active]
    BY <1>1 DEF FetchOrders
  <2>2. fetched \in [HistoryKeys -> Orders]
    BY DEF WorkOK, Orders
  <2>3. sync' \in SyncWork
    BY <2>1, <2>2 DEF SyncWork
  <2> QED BY <1>1, <2>3 DEF FetchOrders, WorkOK, TableOK, tableVars
<1>2. CASE CommitOrders
  <2>1. history' \in [HistoryKeys -> Orders] /\ queued' \in Nat
    BY <1>2 DEF CommitOrders, WorkOK, SyncWork
  <2> QED BY <1>2, <2>1, IdleWork DEF CommitOrders, Committed, Running, WorkOK, TableOK, tableVars
<1>3. CASE RequestRebuild
  BY <1>3 DEF RequestRebuild, WorkOK, TableOK, tableVars
<1>4. ASSUME NEW r \in Rebuilders, LoadOrders(r) PROVE TypeInv'
  <2>1. [IdleRebuild EXCEPT !.pc = "scopes", !.history = history] \in Work
    BY IdleWork DEF Work, WorkOK
  <2> QED BY <1>4, <2>1 DEF LoadOrders, Step, WorkOK, TableOK, tableVars
<1>5. ASSUME NEW r \in Rebuilders, ListByScopes(r) PROVE TypeInv'
  <2> DEFINE S == [k \in HistoryKeys |-> IF k \in PromotedKeys(rebuild[r].history) THEN ScopeOf(rows, k) ELSE NoRow]
  <2>1. S \in [HistoryKeys -> Column]
    BY ScopeType DEF TableOK, Column
  <2>2. rebuild[r] \in Work
    BY DEF WorkOK
  <2>3. rebuild' = [rebuild EXCEPT ![r] = [rebuild[r] EXCEPT !.pc = "history", !.scopes = S]]
    BY <1>5 DEF ListByScopes, Step
  <2> HIDE DEF S
  <2>4. [rebuild[r] EXCEPT !.pc = "history", !.scopes = S] \in Work
    BY <2>1, <2>2 DEF Work
  <2> QED BY <1>5, <2>3, <2>4 DEF ListByScopes, WorkOK, TableOK, tableVars, askVars
<1>6. ASSUME NEW r \in Rebuilders, ListActiveHistory(r) PROVE TypeInv'
  <2>1. PICK S \in SUBSET Ids : rebuild' = [rebuild EXCEPT ![r] = [rebuild[r] EXCEPT !.pc = "write", !.stale = S]]
    BY <1>6 DEF ListActiveHistory, Step, Rowed
  <2>2. rebuild[r] \in Work
    BY DEF WorkOK
  <2>3. [rebuild[r] EXCEPT !.pc = "write", !.stale = S] \in Work
    BY <2>2 DEF Work
  <2> QED BY <1>6, <2>1, <2>3 DEF ListActiveHistory, WorkOK, TableOK, tableVars, askVars
<1>7. ASSUME NEW r \in Rebuilders, CommitRebuild(r) PROVE TypeInv'
  <2>1. TableOK'
    BY <1>7, RebuildKeepsTable
  <2> QED BY <1>7, <2>1, IdleWork DEF CommitRebuild, Step, Running, WorkOK, askVars
<1>8. ASSUME NEW r \in Rebuilders, RebuildBreaks(r) PROVE TypeInv'
  BY <1>8, IdleWork DEF RebuildBreaks, Step, WorkOK, TableOK, tableVars
<1>9. CASE SaveNew \/ CommitSave \/ Delete
  <2>1. TableOK'
    BY <1>9, EditKeepsTable
  <2>2. UNCHANGED <<history, queued, sync, rebuild>> /\ overlap' = Running /\ admin' \in {admin, IdleEdit}
    BY <1>9 DEF SaveNew, CommitSave, Delete, Edited, Committed, askVars
  <2> QED BY <2>1, <2>2, IdleWork DEF WorkOK, Running, IdleEdit
<1>10. CASE BeginSave
  <2>1. PICK i \in Rowed(rows), k \in Keys, active \in BOOLEAN :
          admin' = [id |-> i, seen |-> rows[i], asked |-> ManualRow(k, active)]
    BY <1>10 DEF BeginSave
  <2>2. rows[i] \in Row /\ ManualRow(k, active) \in Row /\ i \in Ids
    BY ManualRowType DEF Rowed, TableOK, Column
  <2>3. admin' \in Edit /\ admin'.seen \in Row /\ admin'.asked \in Row
    BY <2>1, <2>2 DEF Edit, Column
  <2> QED BY <1>10, <2>3 DEF BeginSave, WorkOK, TableOK, tableVars, askVars
<1>11. CASE SaveFails
  BY <1>11, IdleWork DEF SaveFails, WorkOK, TableOK, tableVars, askVars, IdleEdit
<1>12. CASE UNCHANGED vars
  BY <1>12 DEF vars, WorkOK, TableOK, Rowed
<1> QED BY <1>1, <1>2, <1>3, <1>4, <1>5, <1>6, <1>7, <1>8, <1>9, <1>10, <1>11, <1>12 DEF Next, Rebuild

LEMMA TypeInit == Init => TypeInv
<1>1. Init => WorkOK
  BY IdleWork DEF Init, WorkOK, Orders, IdleEdit
<1>2. Init => TableOK
  BY BoundsAreNumbers DEF Init, TableOK, Rowed, Column
<1> QED BY <1>1, <1>2 DEF TypeInv

\* The environment stays within its bounds.
CountOK == changes \in 0..MaxChanges /\ edits \in 0..MaxEdits /\ failures \in 0..MaxFailures

LEMMA CountStep ==
  ASSUME CountOK, [Next]_vars
  PROVE  CountOK'
<1>1. ASSUME NEW complete \in BOOLEAN, FetchOrders(complete) PROVE CountOK'
  BY <1>1, BoundsAreNumbers DEF FetchOrders, CountOK
<1>2. ASSUME NEW r \in Rebuilders, RebuildBreaks(r) PROVE CountOK'
  BY <1>2, BoundsAreNumbers DEF RebuildBreaks, CountOK
<1>3. ASSUME NEW r \in Rebuilders, Rebuild(r) PROVE CountOK'
  BY <1>3 DEF Rebuild, LoadOrders, ListByScopes, ListActiveHistory, CommitRebuild, countVars, CountOK
<1>4. CASE SaveNew \/ CommitSave \/ Delete
  BY <1>4, BoundsAreNumbers DEF SaveNew, CommitSave, Delete, Edited, CountOK
<1>5. CASE CommitOrders \/ RequestRebuild \/ BeginSave \/ SaveFails \/ UNCHANGED vars
  BY <1>5 DEF CommitOrders, RequestRebuild, BeginSave, SaveFails, vars, countVars, CountOK
<1> QED BY <1>1, <1>2, <1>3, <1>4, <1>5 DEF Next

\* Rows, requests, edits and the reads of the rebuilds keep their types, no key gets a second row
\* and every id in use is below the next, whatever rebuilds, saves and deletions overlap.
THEOREM TypeCorrect == Spec => []TypeOK
<1>1. Init => CountOK
  BY BoundsAreNumbers DEF Init, CountOK
<1>2. TypeInv /\ CountOK => TypeOK
  <2> SUFFICES ASSUME TypeInv, CountOK PROVE TypeOK
    OBVIOUS
  <2>1. \A i \in Rowed(rows) : i < next
    BY BoundsAreNumbers DEF TypeInv, TableOK, Rowed, Ids
  <2>2. \A i, j \in Rowed(rows) : rows[i].key = rows[j].key => i = j
    BY DEF TypeInv, TableOK
  <2>3. rows \in [Ids -> Column] /\ next \in 1..(MaxId + 1)
    BY DEF TypeInv, TableOK
  <2> QED BY <2>1, <2>2, <2>3 DEF TypeInv, WorkOK, CountOK, TypeOK
<1> QED BY <1>1, <1>2, TypeInit, TypeStep, CountStep, PTL DEF Spec

-----------------------------------------------------------------------------
(* What a rebuild leaves *)

\* No rebuild touches a row that was manual when it listed the active history: the WHERE of its
\* upsert spares it, and what it deactivates it had listed.
THEOREM ManualRowsUntouched == Spec => ManualUntouched
<1>1. ASSUME NEW r \in Rebuilders, CommitRebuild(r), NEW i \in Ids, Manual(rows[i]), i \notin rebuild[r].stale
      PROVE  rows'[i] = rows[i]
  <2> DEFINE v == rebuild[r]
             AtNew == {k \in Inserted(v) : NewId(v, k) = i}
  <2>1. rows'[i] = Upserted(v)[i]
    BY <1>1 DEF CommitRebuild, Deactivated
  <2>2. i \in Rowed(rows)
    BY <1>1 DEF Rowed, Manual
  <2>3. Upserted(v)[i] = IF rows[i].key \in Written(v)
                         THEN Upsert(rows[i], HistoryRow(rows[i].key, v.history[rows[i].key])) ELSE rows[i]
    BY <2>2 DEF Upserted
  <2> QED BY <1>1, <2>1, <2>3 DEF Upsert
<1>2. [Next]_vars => [\A r \in Rebuilders : CommitRebuild(r) =>
          \A i \in Ids : Manual(rows[i]) /\ i \notin rebuild[r].stale => rows'[i] = rows[i]]_vars
  BY <1>1
<1> QED BY <1>2, PTL DEF Spec, ManualUntouched

\* The rows a rebuild reads as those of its promoted keys, and those it lists as stale.
Scopes == [k \in HistoryKeys |-> IF k \in PromotedKeys(history) THEN ScopeOf(rows, k) ELSE NoRow]

Stale(v) == {i \in Rowed(rows) : rows[i].source = "history" /\ rows[i].active /\ rows[i].key \notin Kept(v)}

\* What a rebuild has read is what there is.
Exact(v) ==
  /\ v.pc # "idle" => v.history = history
  /\ v.pc \in {"history", "write"} => v.scopes = Scopes
  /\ v.pc = "write" => v.stale = Stale(v)

ExactInv == \A r \in Rebuilders \ overlap : Exact(rebuild[r])

LEMMA ExactStep ==
  ASSUME TypeInv, ExactInv, [Next]_vars
  PROVE  ExactInv'
<1> USE DEF TypeInv
<1>1. /\ rebuild \in [Rebuilders -> Work]
      /\ Running = {r \in Rebuilders : rebuild[r].pc # "idle"}
  BY DEF WorkOK, Running
<1>2. ASSUME UNCHANGED <<history, rows, rebuild, overlap>> PROVE ExactInv'
  BY <1>2 DEF ExactInv, Exact, Scopes, Stale, PromotedKeys, ScopeOf, At, Rowed, Kept
<1>3. ASSUME UNCHANGED rebuild, overlap' = Running PROVE ExactInv'
  BY <1>1, <1>3 DEF ExactInv, Exact
<1>4. ASSUME NEW r \in Rebuilders, UNCHANGED <<history, rows>>, overlap' \in {overlap, overlap \ {r}},
             \A q \in Rebuilders \ {r} : rebuild'[q] = rebuild[q],
             r \notin overlap' => Exact(rebuild[r])'
      PROVE  ExactInv'
  <2>1. ASSUME NEW q \in Rebuilders \ overlap', q # r PROVE Exact(rebuild[q])'
    <3>1. Exact(rebuild[q]) /\ rebuild'[q] = rebuild[q]
      BY <1>4, <2>1 DEF ExactInv
    <3> QED BY <1>4, <3>1 DEF Exact, Scopes, Stale, PromotedKeys, ScopeOf, At, Rowed, Kept
  <2> QED BY <1>4, <2>1 DEF ExactInv
<1>5. ASSUME NEW complete \in BOOLEAN, FetchOrders(complete) PROVE ExactInv'
  BY <1>2, <1>5 DEF FetchOrders, tableVars
<1>6. CASE CommitOrders \/ SaveNew \/ CommitSave \/ Delete
  BY <1>3, <1>6 DEF CommitOrders, SaveNew, CommitSave, Delete, Edited, Committed
<1>7. CASE RequestRebuild \/ BeginSave \/ SaveFails \/ UNCHANGED vars
  BY <1>2, <1>7 DEF RequestRebuild, BeginSave, SaveFails, vars, tableVars
<1>8. ASSUME NEW r \in Rebuilders, LoadOrders(r) PROVE ExactInv'
  <2>1. rebuild'[r] = [IdleRebuild EXCEPT !.pc = "scopes", !.history = history]
    BY <1>1, <1>8 DEF LoadOrders, Step
  <2>2. UNCHANGED <<history, rows>>
    BY <1>8 DEF LoadOrders, tableVars
  <2>3. Exact(rebuild[r])'
    BY <2>1, <2>2 DEF Exact, IdleRebuild
  <2>4. overlap' = overlap \ {r} /\ \A q \in Rebuilders \ {r} : rebuild'[q] = rebuild[q]
    BY <1>1, <1>8 DEF LoadOrders, Step
  <2> QED BY <1>4, <2>2, <2>3, <2>4
<1>9. ASSUME NEW r \in Rebuilders, ListByScopes(r) PROVE ExactInv'
  <2> DEFINE S == [k \in HistoryKeys |-> IF k \in PromotedKeys(rebuild[r].history) THEN ScopeOf(rows, k) ELSE NoRow]
  <2>1. /\ UNCHANGED <<history, rows, overlap>> /\ rebuild[r].pc = "scopes"
        /\ rebuild' = [rebuild EXCEPT ![r] = [rebuild[r] EXCEPT !.pc = "history", !.scopes = S]]
    BY <1>9 DEF ListByScopes, Step, tableVars
  <2>2. ASSUME r \notin overlap PROVE Exact(rebuild[r])'
    <3>1. rebuild[r].history = history
      BY <2>1, <2>2 DEF ExactInv, Exact
    <3>2. S = Scopes /\ Scopes' = Scopes
      BY <3>1, <2>1 DEF Scopes, PromotedKeys, ScopeOf, At, Rowed
    <3> HIDE DEF S
    <3>3. rebuild'[r].pc = "history" /\ rebuild'[r].history = history' /\ rebuild'[r].scopes = S
      BY <1>1, <2>1, <3>1 DEF Work
    <3> QED BY <3>2, <3>3 DEF Exact
  <2>3. \A q \in Rebuilders \ {r} : rebuild'[q] = rebuild[q]
    BY <1>1, <2>1
  <2> QED BY <1>4, <2>1, <2>2, <2>3
<1>10. ASSUME NEW r \in Rebuilders, ListActiveHistory(r) PROVE ExactInv'
  <2>1. /\ UNCHANGED <<history, rows, overlap>> /\ rebuild[r].pc = "history"
        /\ rebuild' = [rebuild EXCEPT ![r] = [rebuild[r] EXCEPT !.pc = "write", !.stale = Stale(rebuild[r])]]
    BY <1>10 DEF ListActiveHistory, Step, tableVars, Stale
  <2>2. ASSUME r \notin overlap PROVE Exact(rebuild[r])'
    <3>1. rebuild[r].history = history /\ rebuild[r].scopes = Scopes
      BY <2>1, <2>2 DEF ExactInv, Exact
    <3>2. Scopes' = Scopes
      BY <2>1 DEF Scopes, PromotedKeys, ScopeOf, At, Rowed
    <3>3. /\ rebuild'[r].pc = "write" /\ rebuild'[r].history = rebuild[r].history
          /\ rebuild'[r].scopes = rebuild[r].scopes /\ rebuild'[r].stale = Stale(rebuild[r])
      BY <1>1, <2>1 DEF Work
    <3>4. Kept(rebuild[r])' = Kept(rebuild[r])
      BY <3>3 DEF Kept, PromotedKeys
    <3>5. Stale(rebuild[r])' = Stale(rebuild[r])
      BY <2>1, <3>4 DEF Stale, Rowed
    <3> QED BY <2>1, <3>1, <3>2, <3>3, <3>5 DEF Exact
  <2>3. \A q \in Rebuilders \ {r} : rebuild'[q] = rebuild[q]
    BY <1>1, <2>1
  <2> QED BY <1>4, <2>1, <2>2, <2>3
<1>11. ASSUME NEW r \in Rebuilders, CommitRebuild(r) PROVE ExactInv'
  <2>1. rebuild' = [rebuild EXCEPT ![r] = IdleRebuild] /\ overlap' = Running \ {r}
    BY <1>11 DEF CommitRebuild, Step
  <2>2. \A q \in Rebuilders \ overlap' : rebuild'[q].pc = "idle"
    BY <1>1, <2>1 DEF IdleRebuild
  <2> QED BY <2>2 DEF ExactInv, Exact
<1>12. ASSUME NEW r \in Rebuilders, RebuildBreaks(r) PROVE ExactInv'
  <2>1. /\ rebuild'[r] = IdleRebuild /\ UNCHANGED <<history, rows>> /\ overlap' = overlap \ {r}
        /\ \A q \in Rebuilders \ {r} : rebuild'[q] = rebuild[q]
    BY <1>1, <1>12 DEF RebuildBreaks, Step, tableVars
  <2>2. Exact(rebuild[r])'
    BY <2>1 DEF Exact, IdleRebuild
  <2> QED BY <1>4, <2>1, <2>2
<1> QED BY <1>5, <1>6, <1>7, <1>8, <1>9, <1>10, <1>11, <1>12 DEF Next, Rebuild

LEMMA ExactCommit ==
  ASSUME TypeInv, NEW r \in Rebuilders, CommitRebuild(r), Exact(rebuild[r])
  PROVE  HistoryAgrees'
<1> DEFINE v == rebuild[r]
           t == Upserted(v)
<1>1. /\ v \in Work /\ TableOK /\ v.history = history /\ v.scopes = Scopes /\ v.stale = Stale(v)
      /\ next + Cardinality(Inserted(v)) <= MaxId + 1 /\ history' = history
  BY DEF TypeInv, WorkOK, CommitRebuild, Exact
<1>2. /\ rows \in [Ids -> Column] /\ history \in [HistoryKeys -> Orders]
      /\ \A i, j \in Rowed(rows) : rows[i].key = rows[j].key => i = j
  BY DEF TypeInv, WorkOK, TableOK
<1>3. /\ \A i \in Rowed(rows) :
            t[i] = IF rows[i].key \in Written(v) /\ ~Manual(rows[i])
                   THEN HistoryRow(rows[i].key, history[rows[i].key]) ELSE rows[i]
      /\ \A k \in Inserted(v) : /\ NewId(v, k) \in Ids \ Rowed(rows)
                                /\ t[NewId(v, k)] = HistoryRow(k, history[k])
      /\ \A i \in Ids \ Rowed(rows) : (\A k \in Inserted(v) : NewId(v, k) # i) => t[i] = NoRow
  BY <1>1, UpsertedRows
<1>4. \A i \in Ids : rows'[i] = IF i \in Stale(v) /\ t[i] # NoRow THEN [t[i] EXCEPT !.active = FALSE] ELSE t[i]
  BY <1>1, RebuiltRows DEF TypeInv
<1>5. \A k \in PromotedKeys(history) : LET new == HistoryRow(k, history[k])
                                       IN new \in Row /\ new # NoRow /\ new.key = k /\ ~Manual(new)
  BY <1>2, HistoryRowType DEF PromotedKeys
<1>6. TableOK'
  BY RebuildKeepsTable
<1>7. \A k \in PromotedKeys(history) : v.scopes[k] = ScopeOf(rows, k)
  BY <1>1 DEF Scopes, PromotedKeys
<1>8. Kept(v) = {k \in PromotedKeys(history) : ~Manual(ScopeOf(rows, k))}
  BY <1>1, <1>7 DEF Kept
<1>9. Written(v) = {k \in Kept(v) : ScopeOf(rows, k) # HistoryRow(k, history[k])}
  BY <1>1, <1>7, <1>8 DEF Written
<1>10. \A i \in Rowed(rows) : ScopeOf(rows, rows[i].key) = rows[i]
  BY <1>2, ScopeIsRow
<1>11. \A i \in Rowed(rows)' : ScopeOf(rows, rows[i].key)' = rows'[i]
  BY <1>6, ScopeIsRow DEF TableOK
<1> HIDE DEF v, t
<1>12. ASSUME NEW k \in PromotedKeys(history)
       PROVE  Manual(ScopeOf(rows, k))' \/ ScopeOf(rows, k)' = HistoryRow(k, history[k])
  <2>1. ASSUME NEW i \in Rowed(rows), rows[i].key = k PROVE Manual(rows'[i]) \/ rows'[i] = HistoryRow(k, history[k])
    <3>1. ScopeOf(rows, k) = rows[i]
      BY <1>10, <2>1
    <3>2. CASE Manual(rows[i])
      <4>1. i \notin Stale(v) /\ t[i] = rows[i]
        BY <1>3, <3>2 DEF Stale, Manual
      <4> QED BY <1>4, <3>2, <4>1 DEF Rowed
    <3>3. CASE ~Manual(rows[i])
      <4>1. k \in Kept(v)
        BY <1>8, <3>1, <3>3
      <4>2. i \notin Stale(v)
        BY <2>1, <4>1 DEF Stale
      <4>3. t[i] = HistoryRow(k, history[k])
        BY <1>3, <1>9, <2>1, <3>1, <3>3, <4>1
      <4> QED BY <1>4, <4>2, <4>3 DEF Rowed
    <3> QED BY <3>2, <3>3
  <2>2. CASE \E i \in Rowed(rows) : rows[i].key = k
    <3>1. PICK i \in Rowed(rows) : rows[i].key = k
      BY <2>2
    <3>2. rows'[i] # NoRow /\ rows'[i].key = k
      <4>1. t[i] \in Row /\ t[i] # NoRow /\ t[i].key = k
        BY <1>2, <1>3, <1>5, <3>1 DEF Rowed, Column
      <4>2. [t[i] EXCEPT !.active = FALSE] \in Row /\ [t[i] EXCEPT !.active = FALSE].key = k
        BY <4>1, InactiveRow
      <4> QED BY <1>4, <4>1, <4>2, NoRowIsNone DEF Rowed
    <3>3. i \in Rowed(rows)'
      BY <3>1, <3>2 DEF Rowed
    <3> QED BY <1>11, <2>1, <3>1, <3>2, <3>3 DEF Manual
  <2>3. CASE ~\E i \in Rowed(rows) : rows[i].key = k
    <3>1. At(rows, k) = {} /\ ScopeOf(rows, k) = NoRow
      BY <2>3 DEF At, ScopeOf
    <3>2. k \in Inserted(v)
      BY <1>5, <1>8, <1>9, <3>1 DEF Inserted, Manual
    <3>3. NewId(v, k) \in Ids \ Rowed(rows) /\ t[NewId(v, k)] = HistoryRow(k, history[k])
      BY <1>3, <3>2
    <3>4. rows'[NewId(v, k)] = HistoryRow(k, history[k])
      BY <1>4, <3>3 DEF Stale
    <3>5. NewId(v, k) \in Rowed(rows)' /\ rows'[NewId(v, k)].key = k
      BY <1>5, <3>3, <3>4 DEF Rowed
    <3>6. ScopeOf(rows, k)' = HistoryRow(k, history[k])
      BY <1>11, <3>4, <3>5
    <3> QED BY <3>6
  <2> QED BY <2>2, <2>3
<1>13. ASSUME NEW i \in Rowed(rows)', rows'[i].source = "history", rows'[i].active
       PROVE  rows'[i].key \in PromotedKeys(history)
  <2>1. i \in Ids /\ rows'[i] # NoRow
    BY <1>13 DEF Rowed
  <2>2. CASE i \in Rowed(rows) /\ rows[i].key \in Written(v) /\ ~Manual(rows[i])
    <3>1. rows[i].key \in PromotedKeys(history) /\ rows[i].key \in Kept(v)
      BY <1>8, <1>9, <2>2
    <3>2. i \notin Stale(v) /\ t[i] = HistoryRow(rows[i].key, history[rows[i].key])
      BY <1>3, <2>2, <3>1 DEF Stale
    <3>3. rows'[i] = t[i]
      BY <1>4, <2>1, <3>2
    <3> QED BY <1>5, <3>1, <3>2, <3>3
  <2>3. CASE i \in Rowed(rows) /\ ~(rows[i].key \in Written(v) /\ ~Manual(rows[i]))
    <3>1. t[i] = rows[i] /\ rows[i] \in Row /\ rows[i] # NoRow
      BY <1>2, <1>3, <2>3 DEF Rowed, Column
    <3>2. i \notin Stale(v)
      <4>1. ~[rows[i] EXCEPT !.active = FALSE].active
        BY <3>1 DEF Row
      <4> QED BY <1>4, <1>13, <2>1, <3>1, <4>1
    <3>3. rows'[i] = rows[i]
      BY <1>4, <2>1, <3>1, <3>2
    <3>4. rows[i].key \in Kept(v)
      BY <1>13, <2>3, <3>2, <3>3 DEF Stale
    <3> QED BY <1>8, <3>3, <3>4
  <2>4. CASE i \notin Rowed(rows)
    <3>1. i \notin Stale(v)
      BY <2>4 DEF Stale
    <3>2. rows'[i] = t[i]
      BY <1>4, <2>1, <3>1
    <3>3. PICK k \in Inserted(v) : NewId(v, k) = i
      BY <1>3, <2>1, <2>4, <3>2
    <3>4. k \in PromotedKeys(history)
      BY <1>8, <1>9, <3>3 DEF Inserted
    <3> QED BY <1>3, <1>5, <3>2, <3>3, <3>4
  <2> QED BY <2>2, <2>3, <2>4
<1>14. PromotedKeys(history)' = PromotedKeys(history)
  BY <1>1 DEF PromotedKeys
<1> QED BY <1>1, <1>12, <1>13, <1>14 DEF HistoryAgrees

\* A rebuild during which nothing else committed has read the rows there are when it writes, and
\* leaves each key without a manual row with the median of its orders, and no other active.
THEOREM RebuildAgrees == Spec => SerialRebuildAgrees
<1>1. Init => ExactInv
  BY DEF Init, ExactInv, Exact, IdleRebuild
<1>2. ASSUME TypeInv, ExactInv, NEW r \in Rebuilders, CommitRebuild(r), r \notin overlap
      PROVE  HistoryAgrees'
  BY <1>2, ExactCommit DEF ExactInv
<1>3. TypeInv /\ ExactInv /\ [Next]_vars =>
        [\A r \in Rebuilders : CommitRebuild(r) /\ r \notin overlap => HistoryAgrees']_vars
  BY <1>2
<1> QED BY <1>1, <1>3, TypeInit, TypeStep, ExactStep, PTL DEF Spec, SerialRebuildAgrees
=============================================================================
