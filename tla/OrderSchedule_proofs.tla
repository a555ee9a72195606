------------------------- MODULE OrderSchedule_proofs -------------------------
(* What holds of OrderSchedule for any sets of orders, materials and parties,    *)
(* any overlap of transactions and any number of syncs, runs and failed fetches. *)
EXTENDS OrderSchedule, TLAPS

\* A snapshot that shows a plan or a link, only if there is a plan.
Honest(s, built) == s.status \in Scheduled \/ s.linked => built

\* What a transaction has read lasts: plans, snapshots and orders are never deleted.
Lasting ==
  \A p \in Parties, o \in Orders :
    /\ seen[p].machine[o].built => machine[o].built
    /\ seen[p].snapshot[o].status # "none" => snapshot[o].status # "none"
    /\ seen[p].order[o].known => order[o].known

IInv == TypeOK /\ Lasting /\ ScheduledHasPlan

-----------------------------------------------------------------------------
(* Rows *)

LEMMA BlankRows ==
  /\ AnyMaterial \in Materials /\ AnyPlant \in Plants /\ AnyRev \in Revs
  /\ NoOrder \in OrderRow /\ NoMachine \in Machine /\ NoPlan \in Plan
  /\ NoSnapshot \in Snapshot
  /\ ~NoOrder.known /\ ~NoMachine.built /\ NoSnapshot.status = "none"
<1>1. AnyMaterial \in Materials /\ AnyPlant \in Plants /\ AnyRev \in Revs
  BY ValuesExist DEF AnyMaterial, AnyPlant, AnyRev
<1>2. NoOrder \in OrderRow /\ ~NoOrder.known
  BY <1>1 DEF NoOrder, OrderRow
<1>3. FieldsOf(NoOrder) \in Fields
  BY <1>2 DEF FieldsOf, Fields, OrderRow
<1>4. NoMachine \in Machine /\ NoPlan \in Plan /\ ~NoMachine.built
  BY <1>3 DEF NoMachine, Machine, NoPlan, Plan
<1>5. NoSnapshot \in Snapshot /\ NoSnapshot.status = "none"
  BY DEF NoSnapshot, Snapshot, Statuses
<1> QED BY <1>1, <1>2, <1>4, <1>5

LEMMA FieldsOfType == ASSUME NEW row \in OrderRow PROVE FieldsOf(row) \in Fields
BY DEF FieldsOf, Fields, OrderRow

LEMMA BlankType ==
  /\ Blank \in View
  /\ \A o \in Orders : /\ ~Blank.machine[o].built /\ ~Blank.order[o].known
                       /\ Blank.snapshot[o].status = "none"
<1>1. /\ [o \in Orders |-> NoOrder] \in [Orders -> OrderRow]
      /\ [o \in Orders |-> NoMachine] \in [Orders -> Machine]
      /\ [o \in Orders |-> NoSnapshot] \in [Orders -> Snapshot]
  BY BlankRows
<1>2. /\ [i \in Materials \X Plants |-> "none"] \in [Materials \X Plants -> Boms]
      /\ [o \in Orders |-> {}] \in [Orders -> SUBSET IssueTypes]
  BY DEF Boms
<1>3. Blank \in View BY <1>1, <1>2 DEF Blank, View
<1> QED BY <1>3, BlankRows DEF Blank

LEMMA NowType == ASSUME TypeOK PROVE Now \in View
BY DEF TypeOK, Now, View

LEMMA DatedType ==
  ASSUME NEW v \in View, NEW S, NEW T \in SUBSET Orders
  PROVE  /\ Dated(v, S, T) \in View
         /\ Dated(v, S, T).order = v.order
         /\ Dated(v, S, T).machine = v.machine
         /\ Dated(v, S, T).snapshot = v.snapshot
BY DEF Dated, View

LEMMA WithBomType ==
  ASSUME NEW v \in View, NEW m \in Materials, NEW plant \in Plants, NEW b \in Boms
  PROVE  /\ WithBom(v, m, plant, b) \in View
         /\ WithBom(v, m, plant, b).machine = v.machine
         /\ WithBom(v, m, plant, b).snapshot = v.snapshot
<1>1. [v.bom EXCEPT ![<<m, plant>>] = b] \in [Materials \X Plants -> Boms]
  BY DEF View
<1> QED BY <1>1 DEF WithBom, View

\* Every status a check gives is one, and none of a schedule.
LEMMA CheckType ==
  ASSUME NEW v, NEW o
  PROVE  Check(v, o) \in Statuses \ (Scheduled \union {"none"})
BY DEF Check, Statuses, Waiting, Scheduled

LEMMA RefreshedType ==
  ASSUME NEW v \in View, NEW o \in Orders, NEW force \in BOOLEAN
  PROVE  /\ Refreshed(v, o, force) \in Snapshot
         /\ Refreshed(v, o, force).status # "none"
         /\ Honest(Refreshed(v, o, force), v.machine[o].built)
<1>1. CASE v.machine[o].built
  <2> DEFINE stale == force \/ FieldsOf(v.order[o]) # v.machine[o].of
  <2>1. stale \in BOOLEAN OBVIOUS
  <2>2. v.machine[o].abnormal \in BOOLEAN BY DEF View, Machine
  <2>3. /\ PlanSnapshot(v, o, stale) \in Snapshot
        /\ PlanSnapshot(v, o, stale).status # "none"
    <3> HIDE DEF stale
    <3> QED BY <2>1, <2>2 DEF PlanSnapshot, Snapshot, Statuses, Scheduled
  <2> QED BY <1>1, <2>3 DEF Refreshed, Honest
<1>2. CASE ~v.machine[o].built
  <2>1. /\ CheckSnapshot(v, o) \in Snapshot
        /\ CheckSnapshot(v, o).status \notin Scheduled \union {"none"}
        /\ ~CheckSnapshot(v, o).linked
    BY CheckType DEF CheckSnapshot, Snapshot
  <2> QED BY <1>2, <2>1 DEF Refreshed, Honest
<1> QED BY <1>1, <1>2

\* A write of an honest row over an honest row is an honest row that is there.
LEMMA WriteType ==
  ASSUME NEW row \in Snapshot, NEW loaded \in Snapshot, NEW new \in Snapshot,
         NEW built \in BOOLEAN, new.status # "none",
         loaded.status # "none" => row.status # "none",
         Honest(row, built), Honest(new, built)
  PROVE  /\ Write(row, loaded, new) \in Snapshot
         /\ Write(row, loaded, new).status # "none"
         /\ Honest(Write(row, loaded, new), built)
BY DEF Write, Snapshot, Pick, Honest

-----------------------------------------------------------------------------
(* The effect of a step that can disturb the invariant *)

\* Nothing is deleted, and a snapshot that changes is there and honest.
Careful ==
  \A o \in Orders :
    /\ machine[o].built => machine'[o].built
    /\ order[o].known => order'[o].known
    /\ \/ snapshot'[o] = snapshot[o]
       \/ /\ snapshot'[o] \in Snapshot
          /\ snapshot'[o].status # "none"
          /\ Honest(snapshot'[o], machine'[o].built)
    /\ order'[o].known => \/ order[o].known
                          \/ snapshot'[o].status # "none"
                          \/ fetchErrors' # fetchErrors

LEMMA CarefulPreserves ==
  ASSUME IInv, Careful, NEW p \in Parties, End(p), TypeOK'
  PROVE  IInv' /\ KeepsSight
<1>1. \A q \in Parties : seen'[q] = seen[q] \/ seen'[q] = Blank
  BY DEF End, IInv, TypeOK
<1>2. Lasting'
  <2> SUFFICES ASSUME NEW q \in Parties, NEW o \in Orders
               PROVE  /\ seen'[q].machine[o].built => machine'[o].built
                      /\ seen'[q].snapshot[o].status # "none" => snapshot'[o].status # "none"
                      /\ seen'[q].order[o].known => order'[o].known
    BY DEF Lasting
  <2>1. CASE seen'[q] = seen[q]
    BY <2>1 DEF IInv, Lasting, Careful
  <2>2. CASE seen'[q] = Blank
    BY <2>2, BlankType
  <2> QED BY <1>1, <2>1, <2>2
<1>3. ScheduledHasPlan'
  BY DEF IInv, ScheduledHasPlan, Careful, Honest
<1>4. KeepsSight
  BY DEF KeepsSight, Careful
<1> QED BY <1>2, <1>3, <1>4 DEF IInv

\* A transaction reads rows of their types.
LEMMA SeenType ==
  ASSUME IInv, NEW p \in Parties
  PROVE  /\ seen[p] \in View
         /\ \A o \in Orders : /\ snapshot[o] \in Snapshot
                              /\ seen[p].snapshot[o] \in Snapshot
                              /\ seen[p].order[o] \in OrderRow
                              /\ seen[p].machine[o] \in Machine
                              /\ Honest(snapshot[o], machine[o].built)
                              /\ machine[o].built \in BOOLEAN
BY DEF IInv, TypeOK, View, ScheduledHasPlan, Honest, Machine

\* One refresh by a transaction, from a view v of what it has read.
LEMMA OneRefresh ==
  ASSUME IInv, NEW p \in Parties, NEW v \in View, NEW o \in Orders, NEW force \in BOOLEAN,
         NEW built \in BOOLEAN, machine[o].built => built, v.machine[o].built => built
  PROVE  LET w == Write(snapshot[o], seen[p].snapshot[o], Refreshed(v, o, force))
         IN w \in Snapshot /\ w.status # "none" /\ Honest(w, built)
<1>1. /\ Refreshed(v, o, force) \in Snapshot
      /\ Refreshed(v, o, force).status # "none"
      /\ Honest(Refreshed(v, o, force), built)
  BY RefreshedType DEF Honest
<1>2. Honest(snapshot[o], built) BY SeenType DEF Honest
<1>3. seen[p].snapshot[o].status # "none" => snapshot[o].status # "none"
  BY DEF IInv, Lasting
<1> QED BY <1>1, <1>2, <1>3, SeenType, WriteType

\* Two refreshes by a transaction, of which an order may be in either.
LEMMA TwoRefreshes ==
  ASSUME IInv, NEW p \in Parties, NEW v \in View, NEW w \in View, NEW o \in Orders,
         NEW force \in BOOLEAN, NEW S, NEW T,
         v.machine[o].built => machine[o].built, w.machine[o].built => machine[o].built
  PROVE  LET s == Rewrite(p, o, S, Refreshed(v, o, force), T, Refreshed(w, o, FALSE))
         IN /\ s \in Snapshot
            /\ Honest(s, machine[o].built)
            /\ s = snapshot[o] \/ s.status # "none"
            /\ o \in S \union T => s.status # "none"
<1> DEFINE first == Refreshed(v, o, force)
           second == Refreshed(w, o, FALSE)
           loaded == IF o \in S THEN first ELSE seen[p].snapshot[o]
           row    == IF o \in S THEN Write(snapshot[o], seen[p].snapshot[o], first) ELSE snapshot[o]
<1>1. /\ first \in Snapshot /\ first.status # "none"
      /\ second \in Snapshot /\ second.status # "none" /\ Honest(second, machine[o].built)
  BY RefreshedType DEF Honest
<1>2. o \in S => row \in Snapshot /\ row.status # "none" /\ Honest(row, machine[o].built)
  BY OneRefresh, SeenType
<1>3. row \in Snapshot /\ Honest(row, machine[o].built) /\ loaded \in Snapshot
  BY <1>1, <1>2, SeenType
<1>4. loaded.status # "none" => row.status # "none"
  BY <1>2 DEF IInv, Lasting
<1>5. /\ Write(row, loaded, second) \in Snapshot
      /\ Write(row, loaded, second).status # "none"
      /\ Honest(Write(row, loaded, second), machine[o].built)
  <2> HIDE DEF row, loaded, second
  <2> QED BY <1>1, <1>3, <1>4, SeenType, WriteType
<1>6. Rewrite(p, o, S, first, T, second) = IF o \in T THEN Write(row, loaded, second) ELSE row
  BY DEF Rewrite
<1>7. o \notin S => row = snapshot[o] OBVIOUS
<1> HIDE DEF row, loaded, second, first
<1>8. LET s == Rewrite(p, o, S, first, T, second)
      IN /\ s \in Snapshot /\ Honest(s, machine[o].built)
         /\ s = snapshot[o] \/ s.status # "none"
         /\ o \in S \union T => s.status # "none"
  BY <1>2, <1>3, <1>5, <1>6, <1>7
<1> QED BY <1>8 DEF first, second

-----------------------------------------------------------------------------
(* Each handler *)

LEMMA EndType ==
  ASSUME IInv, NEW p \in Parties, End(p)
  PROVE  active' \in SUBSET Parties /\ seen' \in [Parties -> View]
BY BlankType DEF IInv, TypeOK, End

LEMMA RefreshOrdersStep ==
  ASSUME IInv, NEW p \in Parties, NEW S, RefreshOrders(p, S)
  PROVE  IInv' /\ KeepsSight
<1>1. \A o \in Orders :
        \/ snapshot'[o] = snapshot[o]
        \/ snapshot'[o] \in Snapshot /\ snapshot'[o].status # "none"
           /\ Honest(snapshot'[o], machine[o].built)
  <2> SUFFICES ASSUME NEW o \in Orders, o \in S
               PROVE  snapshot'[o] \in Snapshot /\ snapshot'[o].status # "none"
                      /\ Honest(snapshot'[o], machine[o].built)
    BY DEF RefreshOrders
  <2>1. seen[p].machine[o].built => machine[o].built BY DEF IInv, Lasting
  <2>2. snapshot'[o] = Write(snapshot[o], seen[p].snapshot[o], Refreshed(seen[p], o, FALSE))
    BY DEF RefreshOrders
  <2> QED BY <2>1, <2>2, SeenType, OneRefresh
<1>2. snapshot' \in [Orders -> Snapshot]
  <2>1. \A o \in Orders : snapshot'[o] \in Snapshot BY <1>1, SeenType
  <2>2. snapshot' = [o \in Orders |-> snapshot'[o]] BY DEF RefreshOrders
  <2> QED BY <2>1, <2>2
<1>3. /\ UNCHANGED <<sourceVars, machine, parts, open, countVars>> /\ End(p)
  BY DEF RefreshOrders
<1>4. TypeOK'
  BY <1>2, <1>3, EndType DEF IInv, TypeOK, sourceVars, countVars
<1>5. Careful
  BY <1>1, <1>3 DEF Careful, sourceVars
<1> QED BY <1>3, <1>4, <1>5, CarefulPreserves

LEMMA SeedStep ==
  ASSUME IInv, NEW p \in Parties, Seed(p)
  PROVE  IInv' /\ KeepsSight
<1>1. \A o \in Orders :
        \/ snapshot'[o] = snapshot[o]
        \/ snapshot'[o] \in Snapshot /\ snapshot'[o].status # "none"
           /\ Honest(snapshot'[o], machine[o].built)
  <2> SUFFICES ASSUME NEW o \in Orders, o \in Known(seen[p])
               PROVE  snapshot'[o] \in Snapshot /\ snapshot'[o].status # "none"
                      /\ Honest(snapshot'[o], machine[o].built)
    BY DEF Seed
  <2>1. seen[p].machine[o].built => machine[o].built BY DEF IInv, Lasting
  <2>2. CASE seen[p].machine[o].built
    <3>1. snapshot'[o] = PlanSnapshot(seen[p], o, FALSE) BY <2>2 DEF Seed
    <3>2. seen[p].machine[o].abnormal \in BOOLEAN BY SeenType DEF Machine
    <3> QED BY <2>1, <2>2, <3>1, <3>2 DEF PlanSnapshot, Snapshot, Statuses, Scheduled, Honest
  <2>3. CASE ~seen[p].machine[o].built
    <3>1. snapshot'[o] = CheckSnapshot(seen[p], o) BY <2>3 DEF Seed
    <3> QED BY <3>1, CheckType DEF CheckSnapshot, Snapshot, Honest
  <2> QED BY <2>2, <2>3
<1>2. snapshot' \in [Orders -> Snapshot]
  <2>1. \A o \in Orders : snapshot'[o] \in Snapshot BY <1>1, SeenType
  <2>2. snapshot' = [o \in Orders |-> snapshot'[o]] BY DEF Seed
  <2> QED BY <2>1, <2>2
<1>3. UNCHANGED <<sourceVars, machine, parts, open, countVars>> /\ End(p)
  BY DEF Seed
<1>4. TypeOK'
  BY <1>2, <1>3, EndType DEF IInv, TypeOK, sourceVars, countVars
<1>5. Careful
  BY <1>1, <1>3 DEF Careful, sourceVars
<1> QED BY <1>3, <1>4, <1>5, CarefulPreserves

\* An edit of the rules, and a BOM sync: snapshots of S follow a view that differs
\* from what was read in neither orders nor plans.
LEMMA OnceRefreshed ==
  ASSUME IInv, NEW p \in Parties, NEW v \in View, NEW S,
         v.machine = seen[p].machine, v.snapshot = seen[p].snapshot, machine' = machine,
         order' = order,
         snapshot' = [o \in Orders |->
           IF o \in S THEN Write(snapshot[o], v.snapshot[o], Refreshed(v, o, FALSE)) ELSE snapshot[o]]
  PROVE  Careful /\ snapshot' \in [Orders -> Snapshot]
<1>1. \A o \in Orders :
        \/ snapshot'[o] = snapshot[o]
        \/ snapshot'[o] \in Snapshot /\ snapshot'[o].status # "none"
           /\ Honest(snapshot'[o], machine[o].built)
  <2> SUFFICES ASSUME NEW o \in Orders, o \in S
               PROVE  snapshot'[o] \in Snapshot /\ snapshot'[o].status # "none"
                      /\ Honest(snapshot'[o], machine[o].built)
    OBVIOUS
  <2>1. v.machine[o].built => machine[o].built BY DEF IInv, Lasting
  <2>2. snapshot'[o] = Write(snapshot[o], seen[p].snapshot[o], Refreshed(v, o, FALSE))
    OBVIOUS
  <2> QED BY <2>1, <2>2, SeenType, OneRefresh
<1>2. snapshot' \in [Orders -> Snapshot]
  <2>1. \A o \in Orders : snapshot'[o] \in Snapshot BY <1>1, SeenType
  <2> QED BY <2>1
<1> QED BY <1>1, <1>2 DEF Careful

LEMMA EditRulesStep ==
  ASSUME IInv, NEW p \in Parties, EditRules(p)
  PROVE  IInv' /\ KeepsSight
<1>1. PICK S \in SUBSET Known(seen[p]) : \E T \in SUBSET S :
        LET v == Dated(seen[p], S, T)
        IN /\ due' = (due \ S) \union T
           /\ snapshot' = [o \in Orders |->
                IF o \in S THEN Write(snapshot[o], v.snapshot[o], Refreshed(v, o, FALSE)) ELSE snapshot[o]]
  BY DEF EditRules
<1>2. PICK T \in SUBSET S :
        LET v == Dated(seen[p], S, T)
        IN /\ due' = (due \ S) \union T
           /\ snapshot' = [o \in Orders |->
                IF o \in S THEN Write(snapshot[o], v.snapshot[o], Refreshed(v, o, FALSE)) ELSE snapshot[o]]
  BY <1>1
<1> DEFINE v == Dated(seen[p], S, T)
<1>3. S \subseteq Orders /\ T \subseteq Orders BY DEF Known
<1>4. v \in View /\ v.machine = seen[p].machine /\ v.snapshot = seen[p].snapshot
  BY <1>3, SeenType, DatedType
<1>5. /\ UNCHANGED <<order, research, bom, machine, parts, open, runs, fetchErrors>>
      /\ End(p) /\ changes' = changes + 1
  BY DEF EditRules
<1>6. snapshot' = [o \in Orders |->
        IF o \in S THEN Write(snapshot[o], v.snapshot[o], Refreshed(v, o, FALSE)) ELSE snapshot[o]]
  BY <1>2
<1>7. Careful /\ snapshot' \in [Orders -> Snapshot]
  <2> HIDE DEF v
  <2> QED BY <1>4, <1>5, <1>6, OnceRefreshed
<1>8. TypeOK'
  <2>1. due' \in SUBSET Orders BY <1>2, <1>3 DEF IInv, TypeOK
  <2> QED BY <2>1, <1>5, <1>7, EndType DEF IInv, TypeOK
<1> QED BY <1>5, <1>7, <1>8, CarefulPreserves

LEMMA SyncBomStep ==
  ASSUME IInv, NEW p \in Parties, SyncBom(p)
  PROVE  IInv' /\ KeepsSight
<1>1. PICK m \in Materials, plant \in Plants, b \in {"plain", "assembled"} :
        LET v == WithBom(seen[p], m, plant, b)
            S == {o \in Orders : \/ v.order[o].known /\ v.order[o].material = m
                                 \/ v.machine[o].built /\ v.machine[o].of.material = m}
        IN /\ Insertable(p, S)
           /\ bom' = [bom EXCEPT ![<<m, plant>>] = b]
           /\ snapshot' = [o \in Orders |->
                IF o \in S THEN Write(snapshot[o], v.snapshot[o], Refreshed(v, o, FALSE)) ELSE snapshot[o]]
           /\ open' = [o \in Orders |->
                IF order[o].known /\ order[o].material = m THEN open[o] \ {"missing_bom"} ELSE open[o]]
  BY Zenon DEF SyncBom
<1> DEFINE v == WithBom(seen[p], m, plant, b)
           S == {o \in Orders : \/ v.order[o].known /\ v.order[o].material = m
                                \/ v.machine[o].built /\ v.machine[o].of.material = m}
<1>2. b \in Boms BY DEF Boms
<1>3. v \in View /\ v.machine = seen[p].machine /\ v.snapshot = seen[p].snapshot
  BY <1>2, SeenType, WithBomType
<1>4. /\ UNCHANGED <<order, research, due, machine, parts, runs, fetchErrors>>
      /\ End(p) /\ changes' = changes + 1
  BY DEF SyncBom
<1>5. snapshot' = [o \in Orders |->
        IF o \in S THEN Write(snapshot[o], v.snapshot[o], Refreshed(v, o, FALSE)) ELSE snapshot[o]]
  BY <1>1
<1>6. Careful /\ snapshot' \in [Orders -> Snapshot]
  <2> HIDE DEF v, S
  <2> QED BY <1>3, <1>4, <1>5, OnceRefreshed
<1>7. bom' \in [Materials \X Plants -> Boms] /\ open' \in [Orders -> SUBSET IssueTypes]
  BY <1>1, <1>2 DEF IInv, TypeOK
<1>8. TypeOK'
  BY <1>4, <1>6, <1>7, EndType DEF IInv, TypeOK
<1> QED BY <1>4, <1>6, <1>8, CarefulPreserves

LEMMA ReleasedType ==
  ASSUME NEW v \in View, NEW D
  PROVE  Released(v, D) \in View /\ Released(v, D).machine = v.machine
<1>1. [o \in Orders |-> IF o \in D THEN [v.order[o] EXCEPT !.drawing = TRUE] ELSE v.order[o]]
        \in [Orders -> OrderRow]
  <2>1. \A o \in Orders : [v.order[o] EXCEPT !.drawing = TRUE] \in OrderRow
    BY DEF View, OrderRow
  <2> QED BY <2>1 DEF View
<1> QED BY <1>1 DEF Released, View

\* A sync: the snapshot of o follows v if o is in S, and a later view w of the same
\* plans if it is in D.
LEMMA TwiceRefreshed ==
  ASSUME IInv, NEW p \in Parties, NEW v \in View, NEW w \in View, NEW S, NEW D,
         NEW o \in Orders, NEW force \in BOOLEAN,
         v.machine = seen[p].machine, w.machine = seen[p].machine,
         snapshot'[o] = Rewrite(p, o, S, Refreshed(v, o, force), D, Refreshed(w, o, FALSE))
  PROVE  /\ snapshot'[o] \in Snapshot
         /\ Honest(snapshot'[o], machine[o].built)
         /\ snapshot'[o] = snapshot[o] \/ snapshot'[o].status # "none"
         /\ o \in S \union D => snapshot'[o].status # "none"
<1>1. v.machine[o].built => machine[o].built BY DEF IInv, Lasting
<1>2. w.machine[o].built => machine[o].built BY DEF IInv, Lasting
<1> DEFINE s == Rewrite(p, o, S, Refreshed(v, o, force), D, Refreshed(w, o, FALSE))
<1>3. /\ s \in Snapshot
      /\ Honest(s, machine[o].built)
      /\ s = snapshot[o] \/ s.status # "none"
      /\ o \in S \union D => s.status # "none"
  BY <1>1, <1>2, TwoRefreshes
<1>4. snapshot'[o] = s OBVIOUS
<1> HIDE DEF s
<1> QED BY <1>3, <1>4

LEMMA SyncResearchStep ==
  ASSUME IInv, NEW p \in Parties, SyncResearch(p)
  PROVE  IInv' /\ KeepsSight
<1>1. PICK S \in SUBSET Known(seen[p]), R \in SUBSET Orders : \E T \in SUBSET S :
        LET v == Dated(seen[p], S, T)
            drawn == Releasable(v, research \union R)
        IN /\ Insertable(p, S \union drawn)
           /\ research' = research \union R
           /\ due' = (due \ S) \union T
           /\ order' = [o \in Orders |-> IF o \in drawn THEN [order[o] EXCEPT !.drawing = TRUE] ELSE order[o]]
           /\ snapshot' = [o \in Orders |->
                Rewrite(p, o, S, Refreshed(v, o, FALSE), drawn, Refreshed(Released(v, drawn), o, FALSE))]
  BY Zenon DEF SyncResearch
<1>2. PICK T \in SUBSET S :
        LET v == Dated(seen[p], S, T)
            drawn == Releasable(v, research \union R)
        IN /\ Insertable(p, S \union drawn)
           /\ research' = research \union R
           /\ due' = (due \ S) \union T
           /\ order' = [o \in Orders |-> IF o \in drawn THEN [order[o] EXCEPT !.drawing = TRUE] ELSE order[o]]
           /\ snapshot' = [o \in Orders |->
                Rewrite(p, o, S, Refreshed(v, o, FALSE), drawn, Refreshed(Released(v, drawn), o, FALSE))]
  BY <1>1
<1> DEFINE v == Dated(seen[p], S, T)
           drawn == Releasable(v, research \union R)
<1>3. S \subseteq Orders /\ T \subseteq Orders BY DEF Known
<1>4. v \in View /\ v.machine = seen[p].machine
  BY <1>3, SeenType, DatedType
<1>5. Released(v, drawn) \in View /\ Released(v, drawn).machine = seen[p].machine
  BY <1>4, ReleasedType
<1>6. /\ UNCHANGED <<bom, machine, parts, open, runs, fetchErrors>>
      /\ End(p) /\ changes' = changes + 1
  BY DEF SyncResearch
<1>7. snapshot' = [o \in Orders |->
        Rewrite(p, o, S, Refreshed(v, o, FALSE), drawn, Refreshed(Released(v, drawn), o, FALSE))]
  BY <1>2
<1>8. order' = [o \in Orders |-> IF o \in drawn THEN [order[o] EXCEPT !.drawing = TRUE] ELSE order[o]]
  BY <1>2
<1>9. /\ \A o \in Orders : \/ snapshot'[o] = snapshot[o]
                           \/ snapshot'[o] \in Snapshot /\ snapshot'[o].status # "none"
                              /\ Honest(snapshot'[o], machine[o].built)
      /\ snapshot' \in [Orders -> Snapshot]
  <2>1. \A o \in Orders :
          /\ snapshot'[o] \in Snapshot /\ Honest(snapshot'[o], machine[o].built)
          /\ snapshot'[o] = snapshot[o] \/ snapshot'[o].status # "none"
    <3> SUFFICES ASSUME NEW o \in Orders
                 PROVE  /\ snapshot'[o] \in Snapshot /\ Honest(snapshot'[o], machine[o].built)
                        /\ snapshot'[o] = snapshot[o] \/ snapshot'[o].status # "none"
      OBVIOUS
    <3>1. snapshot'[o] = Rewrite(p, o, S, Refreshed(v, o, FALSE), drawn, Refreshed(Released(v, drawn), o, FALSE))
      BY <1>7
    <3> DEFINE released == Released(v, drawn)
    <3> HIDE DEF v, drawn, released
    <3> QED BY <1>4, <1>5, <3>1, TwiceRefreshed DEF released
  <2> HIDE DEF v, drawn
  <2> QED BY <1>7, <2>1
<1>10. /\ order' \in [Orders -> OrderRow]
       /\ \A o \in Orders : order'[o].known = order[o].known
  <2> HIDE DEF drawn
  <2>1. \A o \in Orders : /\ [order[o] EXCEPT !.drawing = TRUE] \in OrderRow
                          /\ [order[o] EXCEPT !.drawing = TRUE].known = order[o].known
                          /\ order[o] \in OrderRow
    BY DEF IInv, TypeOK, OrderRow
  <2> QED BY <1>8, <2>1
<1>11. research' \in SUBSET Orders /\ due' \in SUBSET Orders
  BY <1>2, <1>3 DEF IInv, TypeOK
<1>12. TypeOK'
  BY <1>6, <1>9, <1>10, <1>11, EndType DEF IInv, TypeOK
<1>13. Careful
  BY <1>6, <1>9, <1>10 DEF Careful
<1> QED BY <1>6, <1>12, <1>13, CarefulPreserves

LEMMA UpsertedType ==
  ASSUME NEW row \in OrderRow, NEW loaded \in OrderRow, NEW data \in Sales
  PROVE  /\ Upserted(row, loaded, data) \in OrderRow
         /\ row.known => Upserted(row, loaded, data).known
         /\ ~loaded.known => Upserted(row, loaded, data).known
BY DEF Upserted, OrderRow, Sales, Pick

LEMMA WithSalesType ==
  ASSUME NEW v \in View, NEW S \in SUBSET Orders, NEW data \in [S -> Sales]
  PROVE  /\ WithSales(v, S, data) \in View
         /\ WithSales(v, S, data).machine = v.machine
         /\ \A o \in S : WithSales(v, S, data).order[o] = Upserted(v.order[o], v.order[o], data[o])
<1> DEFINE f == [o \in Orders |-> IF o \in S THEN Upserted(v.order[o], v.order[o], data[o])
                                            ELSE v.order[o]]
<1>1. f \in [Orders -> OrderRow]
  <2>1. \A o \in Orders : f[o] \in OrderRow
    <3> SUFFICES ASSUME NEW o \in Orders PROVE f[o] \in OrderRow
      OBVIOUS
    <3>1. v.order[o] \in OrderRow BY DEF View
    <3>2. o \in S => data[o] \in Sales OBVIOUS
    <3> QED BY <3>1, <3>2, UpsertedType
  <2> QED BY <2>1
<1>2. WithSales(v, S, data) = [v EXCEPT !.order = f]
  BY DEF WithSales
<1> HIDE DEF f
<1>3. [v EXCEPT !.order = f] \in View /\ [v EXCEPT !.order = f].machine = v.machine
      /\ [v EXCEPT !.order = f].order = f
  BY <1>1 DEF View
<1> QED BY <1>2, <1>3 DEF f

LEMMA SyncSalesStep ==
  ASSUME IInv, NEW p \in Parties, SyncSales(p)
  PROVE  IInv' /\ KeepsSight
<1>1. PICK S \in (SUBSET Orders) \ {{}}, late \in BOOLEAN : \E data \in [S -> Sales] :
       LET v == seen[p]
           after == WithSales(v, S, data)
           changed == {o \in S : v.order[o].known /\ FieldsOf(after.order[o]) # FieldsOf(v.order[o])}
           new == {o \in S : ~v.order[o].known}
           pending == {o \in S \ changed : after.order[o] # v.order[o]}
           fetched == changed \union (IF late THEN {} ELSE pending)
           drawn == Releasable(after, research)
       IN /\ late => fetchErrors < MaxFetchErrors
          /\ \A o \in new : ~order[o].known
          /\ Insertable(p, fetched \union drawn)
          /\ \E T \in SUBSET (changed \union new) :
               LET dated == Dated(after, changed \union new, T)
               IN /\ due' = (due \ (changed \union new)) \union T
                  /\ snapshot' = [o \in Orders |->
                       Rewrite(p, o, fetched, Refreshed(dated, o, o \in changed),
                                     drawn, Refreshed(Released(dated, drawn), o, FALSE))]
          /\ order' = [o \in Orders |->
               LET row == IF o \in S THEN Upserted(order[o], v.order[o], data[o]) ELSE order[o]
               IN IF o \in drawn THEN [row EXCEPT !.drawing = TRUE] ELSE row]
          /\ fetchErrors' = fetchErrors + (IF late THEN 1 ELSE 0)
  BY Zenon DEF SyncSales
<1>2. PICK data \in [S -> Sales] :
       LET v == seen[p]
           after == WithSales(v, S, data)
           changed == {o \in S : v.order[o].known /\ FieldsOf(after.order[o]) # FieldsOf(v.order[o])}
           new == {o \in S : ~v.order[o].known}
           pending == {o \in S \ changed : after.order[o] # v.order[o]}
           fetched == changed \union (IF late THEN {} ELSE pending)
           drawn == Releasable(after, research)
       IN /\ late => fetchErrors < MaxFetchErrors
          /\ \A o \in new : ~order[o].known
          /\ Insertable(p, fetched \union drawn)
          /\ \E T \in SUBSET (changed \union new) :
               LET dated == Dated(after, changed \union new, T)
               IN /\ due' = (due \ (changed \union new)) \union T
                  /\ snapshot' = [o \in Orders |->
                       Rewrite(p, o, fetched, Refreshed(dated, o, o \in changed),
                                     drawn, Refreshed(Released(dated, drawn), o, FALSE))]
          /\ order' = [o \in Orders |->
               LET row == IF o \in S THEN Upserted(order[o], v.order[o], data[o]) ELSE order[o]
               IN IF o \in drawn THEN [row EXCEPT !.drawing = TRUE] ELSE row]
          /\ fetchErrors' = fetchErrors + (IF late THEN 1 ELSE 0)
  BY <1>1, Zenon
<1> DEFINE v == seen[p]
           after == WithSales(v, S, data)
           changed == {o \in S : v.order[o].known /\ FieldsOf(after.order[o]) # FieldsOf(v.order[o])}
           new == {o \in S : ~v.order[o].known}
           pending == {o \in S \ changed : after.order[o] # v.order[o]}
           fetched == changed \union (IF late THEN {} ELSE pending)
           drawn == Releasable(after, research)
           row(o) == IF o \in S THEN Upserted(order[o], v.order[o], data[o]) ELSE order[o]
<1>3. PICK T \in SUBSET (changed \union new) :
        LET dated == Dated(after, changed \union new, T)
        IN /\ due' = (due \ (changed \union new)) \union T
           /\ snapshot' = [o \in Orders |->
                Rewrite(p, o, fetched, Refreshed(dated, o, o \in changed),
                              drawn, Refreshed(Released(dated, drawn), o, FALSE))]
  BY <1>2, Zenon
<1> DEFINE dated == Dated(after, changed \union new, T)
<1>4. /\ order' = [o \in Orders |-> IF o \in drawn THEN [row(o) EXCEPT !.drawing = TRUE] ELSE row(o)]
      /\ fetchErrors' = fetchErrors + (IF late THEN 1 ELSE 0)
  BY <1>2
<1>5. /\ UNCHANGED <<research, bom, machine, parts, open, runs>>
      /\ End(p) /\ changes' = changes + 1
  BY DEF SyncSales
<1>6. S \subseteq Orders /\ T \subseteq Orders
  OBVIOUS
<1>7. /\ after \in View /\ after.machine = seen[p].machine
      /\ \A o \in S : after.order[o] = Upserted(v.order[o], v.order[o], data[o])
  BY SeenType, WithSalesType
<1>8. dated \in View /\ dated.machine = seen[p].machine
  <2> HIDE DEF after, changed, new
  <2> QED BY <1>6, <1>7, DatedType
<1>9. Released(dated, drawn) \in View /\ Released(dated, drawn).machine = seen[p].machine
  <2> HIDE DEF dated, drawn
  <2> QED BY <1>8, ReleasedType
<1>10. snapshot' = [o \in Orders |->
         Rewrite(p, o, fetched, Refreshed(dated, o, o \in changed),
                       drawn, Refreshed(Released(dated, drawn), o, FALSE))]
  BY <1>3
<1>11. /\ \A o \in Orders :
            /\ \/ snapshot'[o] = snapshot[o]
               \/ snapshot'[o] \in Snapshot /\ snapshot'[o].status # "none"
                  /\ Honest(snapshot'[o], machine[o].built)
            /\ o \in fetched \union drawn => snapshot'[o].status # "none"
       /\ snapshot' \in [Orders -> Snapshot]
  <2>1. ASSUME NEW o \in Orders
        PROVE  /\ snapshot'[o] \in Snapshot /\ Honest(snapshot'[o], machine[o].built)
               /\ snapshot'[o] = snapshot[o] \/ snapshot'[o].status # "none"
               /\ o \in fetched \union drawn => snapshot'[o].status # "none"
    <3> DEFINE released == Released(dated, drawn)
    <3>1. snapshot'[o] = Rewrite(p, o, fetched, Refreshed(dated, o, o \in changed),
                                 drawn, Refreshed(released, o, FALSE))
      BY <1>10
    <3>2. released \in View /\ released.machine = seen[p].machine BY <1>9
    <3> HIDE DEF v, after, new, pending, row, dated, drawn, fetched, changed, released
    <3>3. CASE o \in changed
      <4>1. snapshot'[o] = Rewrite(p, o, fetched, Refreshed(dated, o, TRUE), drawn, Refreshed(released, o, FALSE))
        BY <3>1, <3>3
      <4> QED BY <1>8, <3>2, <4>1, TwiceRefreshed, ZenonT(30)
    <3>4. CASE o \notin changed
      <4>1. snapshot'[o] = Rewrite(p, o, fetched, Refreshed(dated, o, FALSE), drawn, Refreshed(released, o, FALSE))
        <5>1. (o \in changed) = FALSE BY <3>4
        <5> QED BY <3>1, <5>1
      <4> QED BY <1>8, <3>2, <4>1, TwiceRefreshed, ZenonT(30)
    <3> QED BY <3>3, <3>4
  <2> HIDE DEF dated, drawn, fetched, changed
  <2> QED BY <1>10, <2>1
<1>12. \A o \in Orders : /\ row(o) \in OrderRow
                         /\ order[o].known => row(o).known
                         /\ row(o).known => order[o].known \/ o \in new
  <2> SUFFICES ASSUME NEW o \in Orders
               PROVE  /\ row(o) \in OrderRow
                      /\ order[o].known => row(o).known
                      /\ row(o).known => order[o].known \/ o \in new
    OBVIOUS
  <2>1. order[o] \in OrderRow /\ v.order[o] \in OrderRow
    BY SeenType DEF IInv, TypeOK
  <2>2. v.order[o].known => order[o].known BY DEF IInv, Lasting
  <2>3. CASE o \in S
    <3>1. data[o] \in Sales BY <2>3
    <3> QED BY <2>1, <2>2, <2>3, <3>1, UpsertedType
  <2>4. CASE o \notin S
    BY <2>1, <2>4
  <2> QED BY <2>3, <2>4
<1>13. /\ order' \in [Orders -> OrderRow]
       /\ \A o \in Orders : order'[o].known = row(o).known
  <2> HIDE DEF row, drawn
  <2>1. \A o \in Orders : /\ [row(o) EXCEPT !.drawing = TRUE] \in OrderRow
                          /\ [row(o) EXCEPT !.drawing = TRUE].known = row(o).known
    BY <1>12 DEF OrderRow
  <2> QED BY <1>4, <1>12, <2>1
<1>14. ~late => new \subseteq fetched
  <2> SUFFICES ASSUME ~late, NEW o \in new PROVE o \in fetched
    OBVIOUS
  <2>1. o \in S /\ o \notin changed /\ ~v.order[o].known OBVIOUS
  <2>2. v.order[o] \in OrderRow /\ data[o] \in Sales
    BY <2>1, <1>6, SeenType
  <2>3. after.order[o].known
    BY <1>7, <2>1, <2>2, UpsertedType
  <2>4. o \in pending BY <2>1, <2>3
  <2> QED BY <2>4
<1>15. late => fetchErrors' # fetchErrors
  BY <1>4 DEF IInv, TypeOK
<1>16. \A o \in Orders : order'[o].known => \/ order[o].known
                                           \/ snapshot'[o].status # "none"
                                           \/ fetchErrors' # fetchErrors
  <2> HIDE DEF row, new, fetched, drawn
  <2> QED BY <1>11, <1>12, <1>13, <1>14, <1>15
<1>17. Careful
  <2> HIDE DEF row, new, fetched, drawn
  <2> QED BY <1>5, <1>11, <1>12, <1>13, <1>16 DEF Careful
<1>18. due' \in SUBSET Orders /\ fetchErrors' \in Nat
  BY <1>3, <1>4, <1>6 DEF IInv, TypeOK
<1>19. TypeOK'
  BY <1>5, <1>11, <1>13, <1>18, EndType DEF IInv, TypeOK
<1> QED BY <1>5, <1>17, <1>19, CarefulPreserves

LEMMA PlannedType ==
  ASSUME NEW row \in Machine, NEW loaded \in Machine, NEW fields \in Fields, NEW default \in BOOLEAN
  PROVE  Planned(row, loaded, fields, default) \in Machine
         /\ Planned(row, loaded, fields, default).built
<1>1. CASE loaded.built
  <2> DEFINE of == [ delivery |-> Pick(row.of.delivery, loaded.of.delivery, fields.delivery),
                     drawing  |-> Pick(row.of.drawing, loaded.of.drawing, fields.drawing),
                     material |-> Pick(row.of.material, loaded.of.material, fields.material),
                     rev      |-> Pick(row.of.rev, loaded.of.rev, fields.rev) ]
             abnormal == default \/ (row.abnormal /\ ~loaded.abnormal)
  <2>1. row.of \in Fields /\ loaded.of \in Fields BY DEF Machine
  <2>2. of \in Fields BY <2>1 DEF Fields, Pick
  <2>3. abnormal \in BOOLEAN OBVIOUS
  <2>4. Planned(row, loaded, fields, default) = [built |-> TRUE, of |-> of, abnormal |-> abnormal]
    BY <1>1 DEF Planned
  <2> HIDE DEF of, abnormal
  <2> QED BY <2>2, <2>3, <2>4 DEF Machine
<1>2. CASE ~loaded.built
  BY <1>2 DEF Planned, Machine
<1> QED BY <1>1, <1>2

LEMMA RaisedType == ASSUME NEW v, NEW o, NEW D PROVE Raised(v, o, D) \in SUBSET IssueTypes
BY DEF Raised, PrecheckIssues, IssueTypes

LEMMA WithRunType ==
  ASSUME NEW v \in View, NEW S, NEW D
  PROVE  /\ WithRun(v, S, D) \in View
         /\ \A o \in Orders \ Plannable(v, S) : WithRun(v, S, D).machine[o] = v.machine[o]
<1> DEFINE f == [o \in Orders |-> IF o \in S THEN v.open[o] \union Raised(v, o, D) ELSE v.open[o]]
           g == [o \in Orders |-> IF o \in Plannable(v, S)
                                    THEN Planned(v.machine[o], v.machine[o], FieldsOf(v.order[o]), o \in D)
                                    ELSE v.machine[o]]
<1>1. f \in [Orders -> SUBSET IssueTypes]
  BY RaisedType DEF View
<1>2. g \in [Orders -> Machine]
  <2>1. \A o \in Orders : g[o] \in Machine
    <3> SUFFICES ASSUME NEW o \in Orders PROVE g[o] \in Machine
      OBVIOUS
    <3>1. v.machine[o] \in Machine /\ FieldsOf(v.order[o]) \in Fields
      BY FieldsOfType DEF View
    <3>2. (o \in D) \in BOOLEAN OBVIOUS
    <3> QED BY <3>1, <3>2, PlannedType
  <2> QED BY <2>1
<1>3. WithRun(v, S, D) = [v EXCEPT !.open = f, !.machine = g]
  BY DEF WithRun
<1>4. \A o \in Orders \ Plannable(v, S) : g[o] = v.machine[o] OBVIOUS
<1> HIDE DEF f, g
<1>5. [v EXCEPT !.open = f, !.machine = g] \in View
      /\ [v EXCEPT !.open = f, !.machine = g].machine = g
  BY <1>1, <1>2 DEF View
<1> QED BY <1>3, <1>4, <1>5

LEMMA ScheduleStep ==
  ASSUME IInv, NEW p \in Parties, Schedule(p)
  PROVE  IInv' /\ KeepsSight
<1>1. PICK S \in (SUBSET Known(seen[p])) \ {{}} : \E D \in SUBSET Plannable(seen[p], S) :
       LET v == seen[p]
           planned == Plannable(v, S)
       IN /\ Insertable(p, S)
          /\ \A o \in planned : machine[o].built => v.machine[o].built
          /\ machine' = [o \in Orders |->
               IF o \in planned THEN Planned(machine[o], v.machine[o], FieldsOf(v.order[o]), o \in D)
                                ELSE machine[o]]
          /\ parts' = [o \in Orders |->
               IF o \in planned THEN Replaced(parts[o], v, o, FieldsOf(v.order[o])) ELSE parts[o]]
          /\ open' = [o \in Orders |-> IF o \in S THEN open[o] \union Raised(v, o, D) ELSE open[o]]
          /\ snapshot' = [o \in Orders |->
               IF o \in S THEN Write(snapshot[o], v.snapshot[o], Refreshed(WithRun(v, S, D), o, FALSE))
                          ELSE snapshot[o]]
  BY Zenon DEF Schedule
<1> DEFINE v == seen[p]
           planned == Plannable(v, S)
<1>2. PICK D \in SUBSET planned :
       /\ machine' = [o \in Orders |->
            IF o \in planned THEN Planned(machine[o], v.machine[o], FieldsOf(v.order[o]), o \in D)
                             ELSE machine[o]]
       /\ parts' = [o \in Orders |->
            IF o \in planned THEN Replaced(parts[o], v, o, FieldsOf(v.order[o])) ELSE parts[o]]
       /\ open' = [o \in Orders |-> IF o \in S THEN open[o] \union Raised(v, o, D) ELSE open[o]]
       /\ snapshot' = [o \in Orders |->
            IF o \in S THEN Write(snapshot[o], v.snapshot[o], Refreshed(WithRun(v, S, D), o, FALSE))
                       ELSE snapshot[o]]
  BY <1>1, Zenon
<1> DEFINE after == WithRun(v, S, D)
<1>3. /\ UNCHANGED <<sourceVars, changes, fetchErrors>> /\ End(p) /\ runs' = runs + 1
  BY DEF Schedule
<1>4. \A o \in Orders : /\ machine'[o] \in Machine
                        /\ machine[o].built => machine'[o].built
                        /\ o \in planned => machine'[o].built
                        /\ o \notin planned => machine'[o] = machine[o]
  <2> SUFFICES ASSUME NEW o \in Orders
               PROVE  /\ machine'[o] \in Machine
                      /\ machine[o].built => machine'[o].built
                      /\ o \in planned => machine'[o].built
                      /\ o \notin planned => machine'[o] = machine[o]
    OBVIOUS
  <2>1. machine[o] \in Machine /\ v.machine[o] \in Machine BY SeenType DEF IInv, TypeOK
  <2>2. CASE o \in planned
    <3>1. FieldsOf(v.order[o]) \in Fields BY SeenType, FieldsOfType
    <3>2. machine'[o] = Planned(machine[o], v.machine[o], FieldsOf(v.order[o]), o \in D)
      BY <1>2, <2>2
    <3>3. (o \in D) \in BOOLEAN OBVIOUS
    <3> HIDE DEF v, planned
    <3> QED BY <2>1, <2>2, <3>1, <3>2, <3>3, PlannedType
  <2>3. CASE o \notin planned
    <3>1. machine'[o] = machine[o] BY <1>2, <2>3
    <3> QED BY <2>1, <2>3, <3>1
  <2> QED BY <2>2, <2>3
<1>5. after \in View /\ \A o \in Orders : after.machine[o].built => machine'[o].built
  <2>1. after \in View /\ \A o \in Orders \ planned : after.machine[o] = v.machine[o]
    BY SeenType, WithRunType
  <2>2. \A o \in Orders : v.machine[o].built => machine[o].built
    BY DEF IInv, Lasting
  <2> HIDE DEF after, planned, v
  <2> QED BY <1>4, <2>1, <2>2
<1>6. \A o \in Orders :
        \/ snapshot'[o] = snapshot[o]
        \/ snapshot'[o] \in Snapshot /\ snapshot'[o].status # "none"
           /\ Honest(snapshot'[o], machine'[o].built)
  <2> SUFFICES ASSUME NEW o \in Orders, o \in S
               PROVE  snapshot'[o] \in Snapshot /\ snapshot'[o].status # "none"
                      /\ Honest(snapshot'[o], machine'[o].built)
    BY <1>2
  <2>1. snapshot'[o] = Write(snapshot[o], seen[p].snapshot[o], Refreshed(after, o, FALSE))
    BY <1>2
  <2>2. machine'[o].built \in BOOLEAN BY <1>4 DEF Machine
  <2> HIDE DEF after
  <2> QED BY <1>4, <1>5, <2>1, <2>2, OneRefresh
<1>7. snapshot' \in [Orders -> Snapshot]
  <2>1. \A o \in Orders : snapshot'[o] \in Snapshot BY <1>6, SeenType
  <2>2. snapshot' = [o \in Orders |-> snapshot'[o]] BY <1>2
  <2> QED BY <2>1, <2>2
<1>8. machine' \in [Orders -> Machine]
  <2>1. machine' = [o \in Orders |-> machine'[o]] BY <1>2
  <2> QED BY <1>4, <2>1
<1>9. parts' \in [Orders -> Plan]
  <2>1. \A o \in Orders : FieldsOf(v.order[o]) \in Fields /\ parts[o] \in Plan
    BY SeenType, FieldsOfType DEF IInv, TypeOK
  <2>2. \A o \in Orders : Replaced(parts[o], v, o, FieldsOf(v.order[o])) \in Plan
    BY <2>1 DEF Replaced, Plan
  <2> HIDE DEF v, planned
  <2> QED BY <1>2, <2>1, <2>2
<1>10. open' \in [Orders -> SUBSET IssueTypes]
  <2>1. \A o \in Orders : open[o] \in SUBSET IssueTypes /\ Raised(v, o, D) \in SUBSET IssueTypes
    BY RaisedType DEF IInv, TypeOK
  <2> HIDE DEF v
  <2> QED BY <1>2, <2>1
<1>11. TypeOK'
  BY <1>3, <1>7, <1>8, <1>9, <1>10, EndType DEF IInv, TypeOK, sourceVars
<1>12. Careful
  BY <1>3, <1>4, <1>6 DEF Careful, sourceVars
<1> QED BY <1>3, <1>11, <1>12, CarefulPreserves

-----------------------------------------------------------------------------
(* The invariant *)

LEMMA InitHolds == ASSUME Init PROVE IInv
<1>1. UpgradedOrder \in OrderRow
  BY BlankRows DEF UpgradedOrder, OrderRow
<1>2. UpgradedMachines \subseteq Machine
  <2>1. ASSUME NEW r \in Revs
        PROVE  [built |-> TRUE, of |-> [FieldsOf(UpgradedOrder) EXCEPT !.rev = r], abnormal |-> FALSE] \in Machine
    <3>1. [FieldsOf(UpgradedOrder) EXCEPT !.rev = r] \in Fields
      BY <1>1, FieldsOfType DEF Fields
    <3> QED BY <3>1 DEF Machine
  <2> QED BY <2>1 DEF UpgradedMachines
<1>3. TypeOK
  <2>1. order \in [Orders -> OrderRow]
    <3>1. {NoOrder} \union (IF Upgrade THEN {UpgradedOrder} ELSE {}) \subseteq OrderRow
      BY <1>1, BlankRows
    <3> QED BY <3>1 DEF Init
  <2>2. machine \in [Orders -> Machine]
    <3>1. {NoMachine} \union (IF Upgrade THEN UpgradedMachines ELSE {}) \subseteq Machine
      BY <1>2, BlankRows
    <3> QED BY <3>1 DEF Init
  <2>3. bom \in [Materials \X Plants -> Boms] /\ snapshot \in [Orders -> Snapshot]
        /\ open \in [Orders -> SUBSET IssueTypes]
    BY BlankType DEF Init, View
  <2>4. parts \in [Orders -> Plan] BY BlankRows DEF Init
  <2>5. seen \in [Parties -> View] BY BlankType DEF Init
  <2> QED BY <2>1, <2>2, <2>3, <2>4, <2>5 DEF Init, TypeOK
<1>4. Lasting
  BY BlankType DEF Init, Lasting
<1>5. \A o \in Orders : snapshot[o] = NoSnapshot
  BY DEF Init, Blank
<1>6. ScheduledHasPlan
  BY <1>5 DEF ScheduledHasPlan, NoSnapshot, Scheduled
<1> QED BY <1>3, <1>4, <1>6 DEF IInv

LEMMA NextPreserves == ASSUME IInv, [Next]_vars PROVE IInv' /\ [KeepsSight]_vars
<1>1. ASSUME NEW p \in Parties, Begin(p) PROVE IInv' /\ KeepsSight
  <2>1. seen' = [seen EXCEPT ![p] = Now] /\ Now \in View
    BY <1>1, NowType DEF Begin, IInv
  <2>2. UNCHANGED <<sourceVars, resultVars, countVars>> BY <1>1 DEF Begin
  <2>3. TypeOK'
    <3>1. seen' \in [Parties -> View] BY <2>1 DEF IInv, TypeOK
    <3>2. active' \in SUBSET Parties BY <1>1 DEF Begin, IInv, TypeOK
    <3> QED BY <2>2, <3>1, <3>2 DEF IInv, TypeOK, sourceVars, resultVars, countVars
  <2>4. Lasting'
    <3> SUFFICES ASSUME NEW q \in Parties, NEW o \in Orders
                 PROVE  /\ seen'[q].machine[o].built => machine[o].built
                        /\ seen'[q].snapshot[o].status # "none" => snapshot[o].status # "none"
                        /\ seen'[q].order[o].known => order[o].known
      BY <2>2 DEF Lasting, sourceVars, resultVars
    <3>1. CASE q = p
      <4>1. seen'[q] = Now BY <2>1, <3>1 DEF IInv, TypeOK
      <4> QED BY <4>1 DEF Now
    <3>2. CASE q # p
      <4>1. seen'[q] = seen[q] BY <2>1, <3>2 DEF IInv, TypeOK
      <4> QED BY <4>1 DEF IInv, Lasting
    <3> QED BY <3>1, <3>2
  <2> QED BY <2>2, <2>3, <2>4
        DEF IInv, ScheduledHasPlan, KeepsSight, sourceVars, resultVars, countVars
<1>2. ASSUME NEW p \in Parties, Rollback(p) PROVE IInv' /\ KeepsSight
  <2>1. UNCHANGED <<sourceVars, resultVars, countVars>> /\ End(p) BY <1>2 DEF Rollback
  <2>2. TypeOK' BY <2>1, EndType DEF IInv, TypeOK, sourceVars, resultVars, countVars
  <2>3. Careful BY <2>1 DEF Careful, sourceVars, resultVars
  <2> QED BY <2>1, <2>2, <2>3, CarefulPreserves
<1>3. ASSUME NEW p \in Parties, Refresh(p) \/ Rebuild(p) PROVE IInv' /\ KeepsSight
  BY <1>3, RefreshOrdersStep DEF Refresh, Rebuild
<1>4. CASE CloseIssue
  <2>1. open' \in [Orders -> SUBSET IssueTypes] BY <1>4 DEF CloseIssue, IInv, TypeOK
  <2>2. UNCHANGED <<sourceVars, machine, parts, snapshot, active, seen, countVars>>
    BY <1>4 DEF CloseIssue
  <2> QED BY <2>1, <2>2
        DEF IInv, TypeOK, Lasting, ScheduledHasPlan, KeepsSight, sourceVars, countVars
<1>5. CASE DayPasses
  <2>1. due' \in SUBSET Orders BY <1>5 DEF DayPasses, IInv, TypeOK
  <2>2. UNCHANGED <<order, research, bom, resultVars, active, seen, countVars>>
    BY <1>5 DEF DayPasses
  <2> QED BY <2>1, <2>2
        DEF IInv, TypeOK, Lasting, ScheduledHasPlan, KeepsSight, resultVars, countVars
<1>6. CASE UNCHANGED vars
  BY <1>6 DEF IInv, TypeOK, Lasting, ScheduledHasPlan, KeepsSight,
              vars, sourceVars, resultVars, countVars
<1> QED BY <1>1, <1>2, <1>3, <1>4, <1>5, <1>6, SyncSalesStep, SyncResearchStep, EditRulesStep,
           SyncBomStep, ScheduleStep, SeedStep DEF Next, Handler

\* The invariant of all reachable states: types, what transactions have read lasts, and
\* snapshots are honest.
THEOREM InvariantHolds == Spec => []IInv
<1>1. Init => IInv BY InitHolds
<1>2. IInv /\ [Next]_vars => IInv' BY NextPreserves
<1> QED BY <1>1, <1>2, PTL DEF Spec

\* Type correctness of the tables and of what open transactions have read.
THEOREM TypeCorrect == Spec => []TypeOK
<1>1. IInv => TypeOK BY DEF IInv
<1> QED BY <1>1, InvariantHolds, PTL

\* However transactions overlap, no snapshot shows a schedule that does not exist.
THEOREM SchedulesExist == Spec => []ScheduledHasPlan
<1>1. IInv => ScheduledHasPlan BY DEF IInv
<1> QED BY <1>1, InvariantHolds, PTL

\* However transactions overlap, an order is lost from view only by a sync whose fetch
\* failed.
THEOREM OrdersStayVisible == Spec => NoOrderLost
<1>1. IInv /\ [Next]_vars => [KeepsSight]_vars BY NextPreserves
<1> QED BY <1>1, InvariantHolds, PTL DEF Spec, NoOrderLost

-----------------------------------------------------------------------------
(* What holds of OrderSchedule when transactions do not overlap and the database *)
(* is not older than the snapshot table, for any sets of orders, materials and   *)
(* parties and any number of syncs, runs and failed fetches.                     *)

\* What an open transaction has read is what is there; issues may have been closed
\* and days have passed meanwhile, as neither is done in a transaction of a party.
Mirror ==
  \A p \in active :
    /\ active = {p}
    /\ seen[p].order = order
    /\ seen[p].bom = bom
    /\ seen[p].machine = machine
    /\ seen[p].snapshot = snapshot
    /\ seen[p].due \subseteq due
    /\ \A o \in Orders : open[o] \subseteq seen[p].open[o]

\* What the snapshot of o says is so.
Fit(o) ==
  /\ snapshot[o].status # "none" =>
       /\ order[o].known
       /\ snapshot[o].linked <=> machine[o].built
       /\ snapshot[o].status \in Scheduled <=> machine[o].built
       /\ snapshot[o].status = "scheduled" => FieldsOf(order[o]) = machine[o].of
       /\ open[o] # {} => snapshot[o].abnormal
  /\ machine[o].built => snapshot[o].status # "none"
  /\ (fetchErrors = 0 /\ order[o].known /\ ~machine[o].built) =>
       \/ snapshot[o].status = Check(Now, o)
       \/ snapshot[o].status = "pending_trigger" /\ Check(Now, o) = "schedulable"

SerialInv == IInv /\ Mirror /\ \A o \in Orders : Fit(o)

-----------------------------------------------------------------------------
(* What a step does to the snapshot of one order *)

\* It is refreshed from the view w, which has the writes of the step in it.
FollowsFrom(w, force, o) ==
  /\ snapshot'[o] = Refreshed(w, o, force)
  /\ w.order[o] = order'[o] /\ order'[o].known
  /\ w.machine[o] = machine'[o]
  /\ w.bom[<<order'[o].material, order'[o].plant>>] = bom'[<<order'[o].material, order'[o].plant>>]
  /\ o \in w.due => o \in due'
  /\ open'[o] \subseteq w.open[o]

Follows(o) == \E w \in View, force \in BOOLEAN : FollowsFrom(w, force, o)

\* Or it is left alone, and nothing it shows has changed.
Kept(o) ==
  /\ snapshot'[o] = snapshot[o] /\ machine'[o] = machine[o] /\ open'[o] \subseteq open[o]
  /\ order[o].known => order'[o].known
  /\ snapshot[o].status = "none" \/ FieldsOf(order'[o]) = FieldsOf(order[o])
  /\ \/ fetchErrors' # 0
     \/ ~order'[o].known
     \/ /\ order'[o] = order[o] /\ fetchErrors = 0
        /\ bom'[<<order[o].material, order[o].plant>>] = bom[<<order[o].material, order[o].plant>>]
        /\ o \in due => o \in due'

LEMMA FollowsFits ==
  ASSUME TypeOK', NEW o \in Orders, Follows(o)
  PROVE  Fit(o)'
<1>1. PICK w \in View, force \in BOOLEAN : FollowsFrom(w, force, o)
  BY DEF Follows
<1>2. /\ snapshot'[o] = Refreshed(w, o, force)
      /\ w.order[o] = order'[o] /\ order'[o].known /\ w.machine[o] = machine'[o]
      /\ open'[o] \subseteq w.open[o]
  BY <1>1 DEF FollowsFrom
<1>3. Check(w, o) \in Statuses \ (Scheduled \union {"none"})
  BY CheckType
<1>4. ~machine'[o].built => /\ snapshot'[o] = CheckSnapshot(w, o)
                            /\ snapshot'[o].status = Check(w, o)
  BY <1>2 DEF Refreshed, CheckSnapshot
<1>5. /\ snapshot'[o].status # "none"
      /\ snapshot'[o].linked <=> machine'[o].built
      /\ snapshot'[o].status \in Scheduled <=> machine'[o].built
      /\ snapshot'[o].status = "scheduled" => FieldsOf(order'[o]) = machine'[o].of
      /\ open'[o] # {} => snapshot'[o].abnormal
  <2>1. CASE machine'[o].built
    <3> DEFINE stale == force \/ FieldsOf(w.order[o]) # w.machine[o].of
    <3>1. snapshot'[o] = PlanSnapshot(w, o, stale) BY <1>2, <2>1 DEF Refreshed
    <3>2. ~stale => FieldsOf(order'[o]) = machine'[o].of BY <1>2
    <3>3. open'[o] # {} => w.open[o] # {} BY <1>2
    <3> HIDE DEF stale
    <3>4. /\ snapshot'[o].status = IF stale THEN "scheduled_stale" ELSE "scheduled"
          /\ snapshot'[o].linked = TRUE
          /\ snapshot'[o].abnormal = (stale \/ w.open[o] # {} \/ w.machine[o].abnormal)
      BY <3>1 DEF PlanSnapshot
    <3> QED BY <2>1, <3>2, <3>3, <3>4 DEF Scheduled
  <2>2. CASE ~machine'[o].built
    <3>1. open'[o] # {} => w.open[o] # {} BY <1>2
    <3>2. snapshot'[o] = CheckSnapshot(w, o) BY <1>4, <2>2
    <3>3. /\ snapshot'[o].status = Check(w, o)
          /\ snapshot'[o].linked = FALSE
          /\ snapshot'[o].abnormal = (Check(w, o) = "missing_bom" \/ w.open[o] # {})
      BY <3>2 DEF CheckSnapshot
    <3> QED BY <1>3, <2>2, <3>1, <3>3 DEF Scheduled
  <2> QED BY <2>1, <2>2
<1>6. \/ Check(Now, o)' = Check(w, o)
      \/ Check(w, o) = "pending_trigger" /\ Check(Now, o)' = "schedulable"
  BY <1>1 DEF FollowsFrom, Check, Now
<1> QED BY <1>2, <1>4, <1>5, <1>6 DEF Fit

LEMMA KeptFits ==
  ASSUME NEW o \in Orders, Fit(o), Kept(o)
  PROVE  Fit(o)'
<1>1. /\ snapshot'[o].status # "none" =>
           /\ order'[o].known
           /\ snapshot'[o].linked <=> machine'[o].built
           /\ snapshot'[o].status \in Scheduled <=> machine'[o].built
           /\ snapshot'[o].status = "scheduled" => FieldsOf(order'[o]) = machine'[o].of
           /\ open'[o] # {} => snapshot'[o].abnormal
      /\ machine'[o].built => snapshot'[o].status # "none"
  BY DEF Fit, Kept
<1>2. ASSUME fetchErrors' = 0, order'[o].known, ~machine'[o].built
      PROVE  \/ snapshot'[o].status = Check(Now, o)'
             \/ snapshot'[o].status = "pending_trigger" /\ Check(Now, o)' = "schedulable"
  <2>1. /\ order'[o] = order[o] /\ fetchErrors = 0
        /\ o \in due => o \in due'
        /\ bom'[<<order[o].material, order[o].plant>>] = bom[<<order[o].material, order[o].plant>>]
        /\ snapshot'[o] = snapshot[o] /\ machine'[o] = machine[o]
    BY <1>2 DEF Kept
  <2>2. \/ snapshot[o].status = Check(Now, o)
        \/ snapshot[o].status = "pending_trigger" /\ Check(Now, o) = "schedulable"
    BY <1>2, <2>1 DEF Fit
  <2>3. \/ Check(Now, o)' = Check(Now, o)
        \/ Check(Now, o) = "pending_trigger" /\ Check(Now, o)' = "schedulable"
    BY <2>1 DEF Check, Now
  <2> QED BY <2>1, <2>2, <2>3
<1> QED BY <1>1, <1>2 DEF Fit

LEMMA EndsMirror ==
  ASSUME IInv, Mirror, NEW p \in Parties, End(p)
  PROVE  Mirror'
BY DEF Mirror, End

\* A transaction whose handler leaves every snapshot refreshed or as it was.
LEMMA SerialKeeps ==
  ASSUME SerialInv, NEW p \in Parties, End(p), IInv',
         \A o \in Orders : Follows(o) \/ Kept(o)
  PROVE  SerialInv'
<1>1. Mirror' BY EndsMirror DEF SerialInv
<1>2. ASSUME NEW o \in Orders PROVE Fit(o)'
  <2>1. TypeOK' BY DEF IInv
  <2> QED BY <2>1, FollowsFits, KeptFits DEF SerialInv
<1> QED BY <1>1, <1>2 DEF SerialInv

\* What a transaction has read when it ends.
LEMMA ReadsNow ==
  ASSUME SerialInv, NEW p \in Parties, End(p)
  PROVE  /\ seen[p] \in View
         /\ seen[p].order = order /\ seen[p].bom = bom
         /\ seen[p].machine = machine /\ seen[p].snapshot = snapshot
         /\ seen[p].due \subseteq due
         /\ \A o \in Orders : open[o] \subseteq seen[p].open[o]
<1>1. seen[p] \in View BY SeenType DEF SerialInv
<1>2. p \in active BY DEF End
<1> QED BY <1>1, <1>2 DEF SerialInv, Mirror

\* A row that is there as it was loaded becomes the new one.
LEMMA WriteNew ==
  ASSUME NEW row \in Snapshot, NEW new \in Snapshot
  PROVE  Write(row, row, new) = new
BY DEF Write, Snapshot, Pick

LEMMA RefreshNew ==
  ASSUME SerialInv, NEW p \in Parties, End(p), NEW v \in View, NEW o \in Orders,
         NEW force \in BOOLEAN
  PROVE  Write(snapshot[o], seen[p].snapshot[o], Refreshed(v, o, force)) = Refreshed(v, o, force)
<1>1. Refreshed(v, o, force) \in Snapshot BY RefreshedType
<1>2. snapshot[o] \in Snapshot /\ seen[p].snapshot[o] = snapshot[o]
  BY ReadsNow DEF SerialInv, IInv, TypeOK
<1> QED BY <1>1, <1>2, WriteNew

\* The second of two refreshes loads what the first has written.
LEMMA RewriteNew ==
  ASSUME NEW p \in Parties, NEW o \in Orders, NEW S, NEW first \in Snapshot, NEW T,
         NEW second \in Snapshot, snapshot[o] \in Snapshot, seen[p].snapshot[o] = snapshot[o]
  PROVE  Rewrite(p, o, S, first, T, second) =
           IF o \in T THEN second ELSE IF o \in S THEN first ELSE snapshot[o]
<1>1. /\ Write(snapshot[o], snapshot[o], first) = first
      /\ Write(first, first, second) = second
      /\ Write(snapshot[o], snapshot[o], second) = second
  BY WriteNew
<1> QED BY <1>1 DEF Rewrite

-----------------------------------------------------------------------------
(* Each handler *)

LEMMA RefreshOrdersSerial ==
  ASSUME SerialInv, NEW p \in Parties, NEW S \in SUBSET Known(seen[p]), RefreshOrders(p, S)
  PROVE  \A o \in Orders : Follows(o) \/ Kept(o)
<1> SUFFICES ASSUME NEW o \in Orders PROVE Follows(o) \/ Kept(o)
  OBVIOUS
<1>1. /\ End(p)
      /\ UNCHANGED <<order, bom, due, machine, open, fetchErrors>>
  BY DEF RefreshOrders, sourceVars, countVars
<1>2. CASE o \in S
  <2>1. snapshot'[o] = Refreshed(seen[p], o, FALSE)
    BY <1>1, <1>2, ReadsNow, RefreshNew DEF RefreshOrders
  <2>2. order[o].known BY <1>1, <1>2, ReadsNow DEF Known
  <2>3. FollowsFrom(seen[p], FALSE, o)
    BY <1>1, <2>1, <2>2, ReadsNow DEF FollowsFrom
  <2> QED BY <1>1, <2>3, ReadsNow DEF Follows
<1>3. CASE o \notin S
  <2>1. snapshot'[o] = snapshot[o] BY <1>3 DEF RefreshOrders
  <2> QED BY <1>1, <2>1 DEF Kept
<1> QED BY <1>2, <1>3

\* A table without any snapshot has no plans either, and nothing to compare.
LEMMA SeedSerial ==
  ASSUME SerialInv, NEW p \in Parties, Seed(p)
  PROVE  \A o \in Orders : Follows(o) \/ Kept(o)
<1> SUFFICES ASSUME NEW o \in Orders PROVE Follows(o) \/ Kept(o)
  OBVIOUS
<1>1. /\ End(p)
      /\ UNCHANGED <<order, bom, due, machine, open, fetchErrors>>
      /\ seen[p].snapshot[o].status = "none"
  BY DEF Seed, sourceVars, countVars
<1>2. ~seen[p].machine[o].built
  BY <1>1, ReadsNow DEF SerialInv, Fit
<1>3. CASE o \in Known(seen[p])
  <2>1. snapshot'[o] = Refreshed(seen[p], o, FALSE)
    BY <1>2, <1>3 DEF Seed, Refreshed
  <2>2. order[o].known BY <1>1, <1>3, ReadsNow DEF Known
  <2>3. FollowsFrom(seen[p], FALSE, o)
    BY <1>1, <2>1, <2>2, ReadsNow DEF FollowsFrom
  <2> QED BY <1>1, <2>3, ReadsNow DEF Follows
<1>4. CASE o \notin Known(seen[p])
  <2>1. snapshot'[o] = snapshot[o] BY <1>4 DEF Seed
  <2> QED BY <1>1, <2>1 DEF Kept
<1> QED BY <1>3, <1>4

LEMMA EditRulesSerial ==
  ASSUME SerialInv, NEW p \in Parties, EditRules(p)
  PROVE  \A o \in Orders : Follows(o) \/ Kept(o)
<1>1. PICK S \in SUBSET Known(seen[p]) : \E T \in SUBSET S :
        LET v == Dated(seen[p], S, T)
        IN /\ due' = (due \ S) \union T
           /\ snapshot' = [o \in Orders |->
                IF o \in S THEN Write(snapshot[o], v.snapshot[o], Refreshed(v, o, FALSE)) ELSE snapshot[o]]
  BY DEF EditRules
<1>2. PICK T \in SUBSET S :
        LET v == Dated(seen[p], S, T)
        IN /\ due' = (due \ S) \union T
           /\ snapshot' = [o \in Orders |->
                IF o \in S THEN Write(snapshot[o], v.snapshot[o], Refreshed(v, o, FALSE)) ELSE snapshot[o]]
  BY <1>1
<1> DEFINE v == Dated(seen[p], S, T)
<1>3. End(p) /\ UNCHANGED <<order, bom, machine, open, fetchErrors>>
  BY DEF EditRules
<1>4. /\ seen[p] \in View
      /\ seen[p].order = order /\ seen[p].bom = bom
      /\ seen[p].machine = machine /\ seen[p].snapshot = snapshot
      /\ \A o \in Orders : open[o] \subseteq seen[p].open[o]
  BY <1>3, ReadsNow
<1>5. S \subseteq Orders /\ T \subseteq Orders BY DEF Known
<1>6. /\ v \in View
      /\ v.order = order /\ v.bom = bom /\ v.machine = machine /\ v.snapshot = seen[p].snapshot
      /\ v.due = (seen[p].due \ S) \union T /\ v.open = seen[p].open
  <2>1. /\ v \in View /\ v.order = order /\ v.machine = machine
        /\ v.snapshot = seen[p].snapshot
    BY <1>4, <1>5, DatedType
  <2>2. v.bom = bom /\ v.due = (seen[p].due \ S) \union T /\ v.open = seen[p].open
    BY <1>4 DEF Dated, View
  <2> QED BY <2>1, <2>2
<1>7. /\ due' = (due \ S) \union T
      /\ snapshot' = [o \in Orders |->
           IF o \in S THEN Write(snapshot[o], v.snapshot[o], Refreshed(v, o, FALSE)) ELSE snapshot[o]]
  BY <1>2
<1> HIDE DEF v
<1> SUFFICES ASSUME NEW o \in Orders PROVE Follows(o) \/ Kept(o)
  OBVIOUS
<1>8. CASE o \in S
  <2>1. snapshot'[o] = Refreshed(v, o, FALSE)
    BY <1>3, <1>6, <1>7, <1>8, RefreshNew
  <2>2. order[o].known BY <1>4, <1>8 DEF Known
  <2>3. FollowsFrom(v, FALSE, o)
    BY <1>3, <1>4, <1>6, <1>7, <1>8, <2>1, <2>2 DEF FollowsFrom
  <2> QED BY <1>6, <2>3 DEF Follows
<1>9. CASE o \notin S
  <2>1. snapshot'[o] = snapshot[o] /\ (o \in due => o \in due') BY <1>7, <1>9
  <2> QED BY <1>3, <2>1 DEF Kept
<1> QED BY <1>8, <1>9

LEMMA SyncBomSerial ==
  ASSUME SerialInv, NEW p \in Parties, SyncBom(p)
  PROVE  \A o \in Orders : Follows(o) \/ Kept(o)
<1>1. PICK m \in Materials, plant \in Plants, b \in {"plain", "assembled"} :
        LET v == WithBom(seen[p], m, plant, b)
            S == {o \in Orders : \/ v.order[o].known /\ v.order[o].material = m
                                 \/ v.machine[o].built /\ v.machine[o].of.material = m}
        IN /\ Insertable(p, S)
           /\ bom' = [bom EXCEPT ![<<m, plant>>] = b]
           /\ snapshot' = [o \in Orders |->
                IF o \in S THEN Write(snapshot[o], v.snapshot[o], Refreshed(v, o, FALSE)) ELSE snapshot[o]]
           /\ open' = [o \in Orders |->
                IF order[o].known /\ order[o].material = m THEN open[o] \ {"missing_bom"} ELSE open[o]]
  BY Zenon DEF SyncBom
<1> DEFINE v == WithBom(seen[p], m, plant, b)
           S == {o \in Orders : \/ v.order[o].known /\ v.order[o].material = m
                                \/ v.machine[o].built /\ v.machine[o].of.material = m}
<1>2. End(p) /\ UNCHANGED <<order, due, machine, fetchErrors>>
  BY DEF SyncBom
<1>3. /\ seen[p] \in View
      /\ seen[p].order = order /\ seen[p].bom = bom
      /\ seen[p].machine = machine /\ seen[p].snapshot = snapshot
      /\ seen[p].due \subseteq due
      /\ \A o \in Orders : open[o] \subseteq seen[p].open[o]
  BY <1>2, ReadsNow
<1>4. /\ bom' = [bom EXCEPT ![<<m, plant>>] = b]
      /\ snapshot' = [o \in Orders |->
           IF o \in S THEN Write(snapshot[o], v.snapshot[o], Refreshed(v, o, FALSE)) ELSE snapshot[o]]
      /\ \A o \in Orders : open'[o] \subseteq open[o]
  BY <1>1
<1>5. /\ v \in View
      /\ v.order = order /\ v.bom = bom' /\ v.machine = machine /\ v.snapshot = seen[p].snapshot
      /\ v.due = seen[p].due /\ v.open = seen[p].open
  <2>1. b \in Boms BY DEF Boms
  <2>2. v \in View /\ v.machine = machine /\ v.snapshot = seen[p].snapshot
    BY <1>3, <2>1, WithBomType
  <2>3. v.order = order /\ v.bom = bom' /\ v.due = seen[p].due /\ v.open = seen[p].open
    BY <1>3, <1>4 DEF WithBom, View
  <2> QED BY <2>2, <2>3
<1> SUFFICES ASSUME NEW o \in Orders PROVE Follows(o) \/ Kept(o)
  OBVIOUS
<1>6. CASE o \in S
  <2>1. snapshot'[o] = Refreshed(v, o, FALSE)
    <3> HIDE DEF v, S
    <3> QED BY <1>2, <1>4, <1>5, <1>6, RefreshNew
  <2>2. order[o].known
    <3>1. order[o].known \/ machine[o].built BY <1>5, <1>6
    <3> QED BY <3>1 DEF SerialInv, Fit
  <2>3. FollowsFrom(v, FALSE, o)
    <3> HIDE DEF v, S
    <3> QED BY <1>2, <1>3, <1>4, <1>5, <2>1, <2>2 DEF FollowsFrom
  <2> QED BY <1>5, <2>3 DEF Follows
<1>7. CASE o \notin S
  <2>1. ~order[o].known \/ order[o].material # m BY <1>5, <1>7
  <2>2. /\ order[o].known =>
             bom'[<<order[o].material, order[o].plant>>] = bom[<<order[o].material, order[o].plant>>]
        /\ snapshot'[o] = snapshot[o]
    <3>1. order[o] \in OrderRow /\ bom \in [Materials \X Plants -> Boms]
      BY DEF SerialInv, IInv, TypeOK
    <3>2. <<order[o].material, order[o].plant>> \in Materials \X Plants
      BY <3>1 DEF OrderRow
    <3> HIDE DEF v, S
    <3> QED BY <1>4, <1>7, <2>1, <3>1, <3>2
  <2> HIDE DEF v, S
  <2> QED BY <1>2, <1>4, <2>2 DEF Kept, SerialInv, Fit
<1> QED BY <1>6, <1>7

\* Views of a sync.
LEMMA DatedView ==
  ASSUME NEW v \in View, NEW S, NEW T
  PROVE  /\ Dated(v, S, T).order = v.order /\ Dated(v, S, T).bom = v.bom
         /\ Dated(v, S, T).due = (v.due \ S) \union T
         /\ Dated(v, S, T).open = v.open
BY DEF Dated, View

LEMMA ReleasedView ==
  ASSUME NEW v \in View, NEW D
  PROVE  /\ Released(v, D).bom = v.bom
         /\ Released(v, D).due = v.due
         /\ Released(v, D).open = v.open
         /\ \A o \in Orders : Released(v, D).order[o] =
              IF o \in D THEN [v.order[o] EXCEPT !.drawing = TRUE] ELSE v.order[o]
BY DEF Released, View

LEMMA SyncResearchSerial ==
  ASSUME SerialInv, NEW p \in Parties, SyncResearch(p)
  PROVE  \A o \in Orders : Follows(o) \/ Kept(o)
<1>1. PICK S \in SUBSET Known(seen[p]), R \in SUBSET Orders : \E T \in SUBSET S :
        LET v == Dated(seen[p], S, T)
            drawn == Releasable(v, research \union R)
        IN /\ Insertable(p, S \union drawn)
           /\ research' = research \union R
           /\ due' = (due \ S) \union T
           /\ order' = [o \in Orders |-> IF o \in drawn THEN [order[o] EXCEPT !.drawing = TRUE] ELSE order[o]]
           /\ snapshot' = [o \in Orders |->
                Rewrite(p, o, S, Refreshed(v, o, FALSE), drawn, Refreshed(Released(v, drawn), o, FALSE))]
  BY Zenon DEF SyncResearch
<1>2. PICK T \in SUBSET S :
        LET v == Dated(seen[p], S, T)
            drawn == Releasable(v, research \union R)
        IN /\ Insertable(p, S \union drawn)
           /\ research' = research \union R
           /\ due' = (due \ S) \union T
           /\ order' = [o \in Orders |-> IF o \in drawn THEN [order[o] EXCEPT !.drawing = TRUE] ELSE order[o]]
           /\ snapshot' = [o \in Orders |->
                Rewrite(p, o, S, Refreshed(v, o, FALSE), drawn, Refreshed(Released(v, drawn), o, FALSE))]
  BY <1>1
<1> DEFINE v == Dated(seen[p], S, T)
           drawn == Releasable(v, research \union R)
           w == Released(v, drawn)
<1>3. End(p) /\ UNCHANGED <<bom, machine, open, fetchErrors>>
  BY DEF SyncResearch
<1>4. /\ seen[p] \in View
      /\ seen[p].order = order /\ seen[p].bom = bom
      /\ seen[p].machine = machine /\ seen[p].due \subseteq due
      /\ \A o \in Orders : open[o] \subseteq seen[p].open[o]
  BY <1>3, ReadsNow
<1>5. /\ due' = (due \ S) \union T
      /\ order' = [o \in Orders |-> IF o \in drawn THEN [order[o] EXCEPT !.drawing = TRUE] ELSE order[o]]
      /\ snapshot' = [o \in Orders |->
           Rewrite(p, o, S, Refreshed(v, o, FALSE), drawn, Refreshed(w, o, FALSE))]
  BY <1>2
<1>6. S \subseteq Orders /\ T \subseteq Orders BY DEF Known
<1>7. /\ v \in View
      /\ v.order = order /\ v.bom = bom /\ v.machine = machine
      /\ v.due = (seen[p].due \ S) \union T /\ v.open = seen[p].open
  BY <1>4, <1>6, DatedType, DatedView
<1>8. \A o \in drawn : order[o].known
  BY <1>7 DEF Releasable, Known
<1> HIDE DEF v, drawn
<1>9. /\ w \in View
      /\ w.bom = bom /\ w.machine = machine /\ w.due = v.due /\ w.open = seen[p].open
      /\ \A o \in Orders : w.order[o] = order'[o]
  BY <1>5, <1>7, ReleasedType, ReleasedView
<1> HIDE DEF w
<1> SUFFICES ASSUME NEW o \in Orders PROVE Follows(o) \/ Kept(o)
  OBVIOUS
<1>10. order[o] \in OrderRow BY DEF SerialInv, IInv, TypeOK
<1>11. /\ order[o].known => order'[o].known
       /\ o \in v.due => o \in due'
  <2>1. [order[o] EXCEPT !.drawing = TRUE].known = order[o].known BY <1>10 DEF OrderRow
  <2> QED BY <1>4, <1>5, <1>7, <2>1
<1>12. snapshot'[o] = IF o \in drawn THEN Refreshed(w, o, FALSE)
                      ELSE IF o \in S THEN Refreshed(v, o, FALSE) ELSE snapshot[o]
  <2> DEFINE first == Refreshed(v, o, FALSE)
             second == Refreshed(w, o, FALSE)
  <2>1. first \in Snapshot /\ second \in Snapshot BY <1>7, <1>9, RefreshedType
  <2>2. snapshot[o] \in Snapshot /\ seen[p].snapshot[o] = snapshot[o]
    BY <1>3, ReadsNow DEF SerialInv, IInv, TypeOK
  <2>3. snapshot'[o] = Rewrite(p, o, S, first, drawn, second) BY <1>5
  <2> HIDE DEF first, second
  <2>4. snapshot'[o] = IF o \in drawn THEN second ELSE IF o \in S THEN first ELSE snapshot[o]
    BY <2>1, <2>2, <2>3, RewriteNew
  <2> QED BY <2>4 DEF first, second
<1>13. CASE o \in drawn
  <2>1. FollowsFrom(w, FALSE, o)
    BY <1>3, <1>4, <1>8, <1>9, <1>11, <1>12, <1>13 DEF FollowsFrom
  <2> QED BY <1>9, <2>1 DEF Follows
<1>14. CASE o \in S \ drawn
  <2>1. order'[o] = order[o] /\ order[o].known BY <1>4, <1>5, <1>14 DEF Known
  <2>2. FollowsFrom(v, FALSE, o)
    BY <1>3, <1>4, <1>7, <1>11, <1>12, <1>14, <2>1 DEF FollowsFrom
  <2> QED BY <1>7, <2>2 DEF Follows
<1>15. CASE o \notin S \union drawn
  <2>1. order'[o] = order[o] /\ snapshot'[o] = snapshot[o] /\ (o \in due => o \in due')
    BY <1>5, <1>12, <1>15
  <2> QED BY <1>3, <2>1 DEF Kept
<1> QED BY <1>13, <1>14, <1>15

\* The plan written over the row that was loaded.
LEMMA PlannedNew ==
  ASSUME NEW row \in Machine, NEW fields \in Fields, NEW default \in BOOLEAN
  PROVE  Planned(row, row, fields, default).of = fields
<1>1. row.of \in Fields BY DEF Machine
<1>2. fields = [delivery |-> fields.delivery, drawing |-> fields.drawing,
                material |-> fields.material, rev |-> fields.rev]
  BY DEF Fields
<1> QED BY <1>1, <1>2 DEF Planned, Pick

LEMMA WithRunView ==
  ASSUME NEW v \in View, NEW S, NEW D
  PROVE  /\ WithRun(v, S, D).order = v.order /\ WithRun(v, S, D).bom = v.bom
         /\ WithRun(v, S, D).due = v.due
         /\ \A o \in Orders : WithRun(v, S, D).machine[o] =
              IF o \in Plannable(v, S) THEN Planned(v.machine[o], v.machine[o], FieldsOf(v.order[o]), o \in D)
                                       ELSE v.machine[o]
         /\ \A o \in S \intersect Orders : WithRun(v, S, D).open[o] = v.open[o] \union Raised(v, o, D)
BY DEF WithRun, View

\* A run that plans the parts of a machine does so for the fields of its plan.
PartsFollow ==
  \A o \in Orders : machine'[o].of # machine[o].of =>
     \/ parts'[o] = [built |-> TRUE, of |-> machine'[o].of]
     \/ bom[<<order[o].material, order[o].plant>>] = "plain"

LEMMA ScheduleSerial ==
  ASSUME SerialInv, NEW p \in Parties, Schedule(p)
  PROVE  PartsFollow /\ \A o \in Orders : Follows(o) \/ Kept(o)
<1>1. PICK S \in (SUBSET Known(seen[p])) \ {{}} : \E D \in SUBSET Plannable(seen[p], S) :
       LET v == seen[p]
           planned == Plannable(v, S)
       IN /\ Insertable(p, S)
          /\ \A o \in planned : machine[o].built => v.machine[o].built
          /\ machine' = [o \in Orders |->
               IF o \in planned THEN Planned(machine[o], v.machine[o], FieldsOf(v.order[o]), o \in D)
                                ELSE machine[o]]
          /\ parts' = [o \in Orders |->
               IF o \in planned THEN Replaced(parts[o], v, o, FieldsOf(v.order[o])) ELSE parts[o]]
          /\ open' = [o \in Orders |-> IF o \in S THEN open[o] \union Raised(v, o, D) ELSE open[o]]
          /\ snapshot' = [o \in Orders |->
               IF o \in S THEN Write(snapshot[o], v.snapshot[o], Refreshed(WithRun(v, S, D), o, FALSE))
                          ELSE snapshot[o]]
  BY Zenon DEF Schedule
<1> DEFINE v == seen[p]
           planned == Plannable(v, S)
<1>2. PICK D \in SUBSET planned :
       /\ machine' = [o \in Orders |->
            IF o \in planned THEN Planned(machine[o], v.machine[o], FieldsOf(v.order[o]), o \in D)
                             ELSE machine[o]]
       /\ parts' = [o \in Orders |->
            IF o \in planned THEN Replaced(parts[o], v, o, FieldsOf(v.order[o])) ELSE parts[o]]
       /\ open' = [o \in Orders |-> IF o \in S THEN open[o] \union Raised(v, o, D) ELSE open[o]]
       /\ snapshot' = [o \in Orders |->
            IF o \in S THEN Write(snapshot[o], v.snapshot[o], Refreshed(WithRun(v, S, D), o, FALSE))
                       ELSE snapshot[o]]
  BY <1>1, Zenon
<1> DEFINE after == WithRun(v, S, D)
<1>3. End(p) /\ UNCHANGED <<order, bom, due, fetchErrors>>
  BY DEF Schedule, sourceVars
<1>4. /\ v \in View
      /\ v.order = order /\ v.bom = bom
      /\ v.machine = machine /\ v.due \subseteq due
      /\ \A o \in Orders : open[o] \subseteq v.open[o]
  BY <1>3, ReadsNow
<1>5. S \subseteq Orders /\ planned \subseteq S BY DEF Known, Plannable
<1>6. /\ after \in View
      /\ after.order = order /\ after.bom = bom /\ after.due = v.due
      /\ \A o \in Orders : after.machine[o] = machine'[o]
      /\ \A o \in S : after.open[o] = v.open[o] \union Raised(v, o, D)
  <2>1. after \in View BY <1>4, WithRunType
  <2> HIDE DEF after, v, planned
  <2>2. /\ after.order = order /\ after.bom = bom /\ after.due = v.due
        /\ \A o \in Orders : after.machine[o] =
             IF o \in planned THEN Planned(v.machine[o], v.machine[o], FieldsOf(v.order[o]), o \in D)
                              ELSE v.machine[o]
        /\ \A o \in S : after.open[o] = v.open[o] \union Raised(v, o, D)
    BY <1>4, <1>5, WithRunView DEF after, planned
  <2> QED BY <1>2, <1>4, <2>1, <2>2
<1>7. ASSUME NEW o \in Orders PROVE Follows(o) \/ Kept(o)
  <2>1. CASE o \in S
    <3>1. snapshot'[o] = Refreshed(after, o, FALSE)
      <4>1. snapshot'[o] = Write(snapshot[o], seen[p].snapshot[o], Refreshed(after, o, FALSE))
        BY <1>2, <2>1
      <4> HIDE DEF after
      <4> QED BY <1>3, <1>6, <4>1, RefreshNew
    <3>2. order[o].known BY <1>4, <2>1 DEF Known
    <3>3. open'[o] \subseteq after.open[o]
      <4> HIDE DEF after, planned, v
      <4> QED BY <1>2, <1>4, <1>6, <2>1
    <3>4. FollowsFrom(after, FALSE, o)
      <4> HIDE DEF after, planned, v
      <4> QED BY <1>3, <1>4, <1>6, <3>1, <3>2, <3>3 DEF FollowsFrom
    <3> QED BY <1>6, <3>4 DEF Follows
  <2>2. CASE o \notin S
    <3>1. snapshot'[o] = snapshot[o] /\ machine'[o] = machine[o] /\ open'[o] = open[o]
      <4> HIDE DEF planned
      <4> QED BY <1>2, <1>5, <2>2
    <3> QED BY <1>3, <3>1 DEF Kept
  <2> QED BY <2>1, <2>2
<1>8. PartsFollow
  <2> SUFFICES ASSUME NEW o \in Orders, machine'[o].of # machine[o].of
               PROVE  \/ parts'[o] = [built |-> TRUE, of |-> machine'[o].of]
                      \/ bom[<<order[o].material, order[o].plant>>] = "plain"
    BY DEF PartsFollow
  <2>1. o \in planned
    <3> HIDE DEF planned
    <3> QED BY <1>2
  <2>2. machine'[o].of = FieldsOf(order[o])
    <3>1. machine[o] \in Machine /\ order[o] \in OrderRow BY DEF SerialInv, IInv, TypeOK
    <3> DEFINE default == o \in D
    <3>2. FieldsOf(order[o]) \in Fields /\ default \in BOOLEAN BY <3>1, FieldsOfType
    <3>3. machine'[o] = Planned(machine[o], machine[o], FieldsOf(order[o]), default)
      <4> HIDE DEF planned
      <4> QED BY <1>2, <1>4, <2>1
    <3> HIDE DEF default
    <3>4. Planned(machine[o], machine[o], FieldsOf(order[o]), default).of = FieldsOf(order[o])
      BY <3>1, <3>2, PlannedNew
    <3> QED BY <3>3, <3>4
  <2>3. parts'[o] = Replaced(parts[o], v, o, FieldsOf(order[o]))
    <3> HIDE DEF planned
    <3> QED BY <1>2, <1>4, <2>1
  <2>4. bom[<<order[o].material, order[o].plant>>] # "none"
    BY <1>4, <2>1 DEF Plannable, Check
  <2>5. bom[<<order[o].material, order[o].plant>>] \in Boms
    <3>1. order[o] \in OrderRow /\ bom \in [Materials \X Plants -> Boms]
      BY DEF SerialInv, IInv, TypeOK
    <3>2. <<order[o].material, order[o].plant>> \in Materials \X Plants BY <3>1 DEF OrderRow
    <3> QED BY <3>1, <3>2
  <2> QED BY <1>4, <2>2, <2>3, <2>4, <2>5 DEF Replaced, Boms
<1> QED BY <1>7, <1>8

LEMMA WithSalesView ==
  ASSUME NEW v \in View, NEW S, NEW data
  PROVE  /\ WithSales(v, S, data).bom = v.bom /\ WithSales(v, S, data).due = v.due
         /\ WithSales(v, S, data).open = v.open
         /\ \A o \in Orders : WithSales(v, S, data).order[o] =
              IF o \in S THEN Upserted(v.order[o], v.order[o], data[o]) ELSE v.order[o]
BY DEF WithSales, View

LEMMA SyncSalesSerial ==
  ASSUME SerialInv, NEW p \in Parties, SyncSales(p)
  PROVE  \A o \in Orders : Follows(o) \/ Kept(o)
<1>1. PICK S \in (SUBSET Orders) \ {{}}, late \in BOOLEAN : \E data \in [S -> Sales] :
       LET v == seen[p]
           after == WithSales(v, S, data)
           changed == {o \in S : v.order[o].known /\ FieldsOf(after.order[o]) # FieldsOf(v.order[o])}
           new == {o \in S : ~v.order[o].known}
           pending == {o \in S \ changed : after.order[o] # v.order[o]}
           fetched == changed \union (IF late THEN {} ELSE pending)
           drawn == Releasable(after, research)
       IN /\ late => fetchErrors < MaxFetchErrors
          /\ \A o \in new : ~order[o].known
          /\ Insertable(p, fetched \union drawn)
          /\ \E T \in SUBSET (changed \union new) :
               LET dated == Dated(after, changed \union new, T)
               IN /\ due' = (due \ (changed \union new)) \union T
                  /\ snapshot' = [o \in Orders |->
                       Rewrite(p, o, fetched, Refreshed(dated, o, o \in changed),
                                     drawn, Refreshed(Released(dated, drawn), o, FALSE))]
          /\ order' = [o \in Orders |->
               LET row == IF o \in S THEN Upserted(order[o], v.order[o], data[o]) ELSE order[o]
               IN IF o \in drawn THEN [row EXCEPT !.drawing = TRUE] ELSE row]
          /\ fetchErrors' = fetchErrors + (IF late THEN 1 ELSE 0)
  BY Zenon DEF SyncSales
<1>2. PICK data \in [S -> Sales] :
       LET v == seen[p]
           after == WithSales(v, S, data)
           changed == {o \in S : v.order[o].known /\ FieldsOf(after.order[o]) # FieldsOf(v.order[o])}
           new == {o \in S : ~v.order[o].known}
           pending == {o \in S \ changed : after.order[o] # v.order[o]}
           fetched == changed \union (IF late THEN {} ELSE pending)
           drawn == Releasable(after, research)
       IN /\ late => fetchErrors < MaxFetchErrors
          /\ \A o \in new : ~order[o].known
          /\ Insertable(p, fetched \union drawn)
          /\ \E T \in SUBSET (changed \union new) :
               LET dated == Dated(after, changed \union new, T)
               IN /\ due' = (due \ (changed \union new)) \union T
                  /\ snapshot' = [o \in Orders |->
                       Rewrite(p, o, fetched, Refreshed(dated, o, o \in changed),
                                     drawn, Refreshed(Released(dated, drawn), o, FALSE))]
          /\ order' = [o \in Orders |->
               LET row == IF o \in S THEN Upserted(order[o], v.order[o], data[o]) ELSE order[o]
               IN IF o \in drawn THEN [row EXCEPT !.drawing = TRUE] ELSE row]
          /\ fetchErrors' = fetchErrors + (IF late THEN 1 ELSE 0)
  BY <1>1, Zenon
<1> DEFINE v == seen[p]
           after == WithSales(v, S, data)
           changed == {o \in S : v.order[o].known /\ FieldsOf(after.order[o]) # FieldsOf(v.order[o])}
           new == {o \in S : ~v.order[o].known}
           pending == {o \in S \ changed : after.order[o] # v.order[o]}
           fetched == changed \union (IF late THEN {} ELSE pending)
           drawn == Releasable(after, research)
           row(o) == IF o \in S THEN Upserted(order[o], v.order[o], data[o]) ELSE order[o]
<1>3. PICK T \in SUBSET (changed \union new) :
        LET dated == Dated(after, changed \union new, T)
        IN /\ due' = (due \ (changed \union new)) \union T
           /\ snapshot' = [o \in Orders |->
                Rewrite(p, o, fetched, Refreshed(dated, o, o \in changed),
                              drawn, Refreshed(Released(dated, drawn), o, FALSE))]
  BY <1>2, Zenon
<1> DEFINE dated == Dated(after, changed \union new, T)
           released == Released(dated, drawn)
<1>4. /\ order' = [o \in Orders |-> IF o \in drawn THEN [row(o) EXCEPT !.drawing = TRUE] ELSE row(o)]
      /\ fetchErrors' = fetchErrors + (IF late THEN 1 ELSE 0)
  BY <1>2
<1>5. End(p) /\ UNCHANGED <<bom, machine, open>>
  BY DEF SyncSales
<1>6. /\ v \in View
      /\ v.order = order /\ v.bom = bom
      /\ v.machine = machine /\ v.due \subseteq due
      /\ \A o \in Orders : open[o] \subseteq v.open[o]
  BY <1>5, ReadsNow
<1>7. T \subseteq Orders OBVIOUS
<1>8. /\ after \in View /\ after.machine = machine /\ after.bom = bom
      /\ after.due = v.due /\ after.open = v.open
      /\ \A o \in Orders : after.order[o] = row(o)
  <2>1. after \in View /\ after.machine = machine BY <1>6, WithSalesType
  <2> HIDE DEF v
  <2> QED BY <1>6, <2>1, WithSalesView
<1>9. /\ due' = (due \ (changed \union new)) \union T
      /\ snapshot' = [o \in Orders |->
           Rewrite(p, o, fetched, Refreshed(dated, o, o \in changed),
                         drawn, Refreshed(released, o, FALSE))]
  BY <1>3
<1> SUFFICES ASSUME NEW o \in Orders PROVE Follows(o) \/ Kept(o)
  OBVIOUS
<1>10. /\ order[o] \in OrderRow /\ row(o) \in OrderRow
       /\ order[o].known => row(o).known
       /\ o \in S => row(o).known
  <2>1. order[o] \in OrderRow BY DEF SerialInv, IInv, TypeOK
  <2>2. CASE o \in S
    <3>1. data[o] \in Sales BY <2>2
    <3> QED BY <1>6, <2>1, <2>2, <3>1, UpsertedType
  <2>3. CASE o \notin S BY <2>1, <2>3
  <2> QED BY <2>2, <2>3
<1>11. /\ o \in S => \/ o \in changed \/ ~order[o].known
                     \/ FieldsOf(row(o)) = FieldsOf(order[o])
       /\ (~late /\ o \notin fetched) => row(o) = order[o]
       /\ o \in new => ~order[o].known
       /\ o \in fetched => o \in S
       /\ o \in changed => o \in fetched
       /\ o \notin S => row(o) = order[o]
  <2> HIDE DEF after, v
  <2> QED BY <1>6, <1>8
<1>12. o \in drawn => row(o).known
  BY <1>8 DEF Releasable, Known
<1> HIDE DEF v, after, drawn, row, changed, new, pending, fetched
<1>13. /\ dated \in View /\ dated.machine = machine /\ dated.bom = bom
       /\ dated.due = (v.due \ (changed \union new)) \union T /\ dated.open = v.open
       /\ \A x \in Orders : dated.order[x] = row(x)
  BY <1>7, <1>8, DatedType, DatedView
<1> HIDE DEF dated
<1>14. /\ released \in View /\ released.machine = machine /\ released.bom = bom
       /\ released.due = dated.due /\ released.open = v.open
       /\ \A x \in Orders : released.order[x] = order'[x]
  BY <1>4, <1>13, ReleasedType, ReleasedView
<1> HIDE DEF released
<1>15. /\ order[o].known => order'[o].known
       /\ row(o).known => order'[o].known
       /\ o \notin drawn => order'[o] = row(o)
  <2>1. [row(o) EXCEPT !.drawing = TRUE].known = row(o).known BY <1>10 DEF OrderRow
  <2> QED BY <1>4, <1>10, <2>1
<1> DEFINE force == o \in changed
<1>16. force \in BOOLEAN OBVIOUS
<1>17. snapshot'[o] = IF o \in drawn THEN Refreshed(released, o, FALSE)
                      ELSE IF o \in fetched THEN Refreshed(dated, o, force) ELSE snapshot[o]
  <2> DEFINE first == Refreshed(dated, o, force)
             second == Refreshed(released, o, FALSE)
  <2>1. snapshot'[o] = Rewrite(p, o, fetched, first, drawn, second) BY <1>9
  <2> HIDE DEF force
  <2>2. first \in Snapshot /\ second \in Snapshot BY <1>13, <1>14, <1>16, RefreshedType
  <2>3. snapshot[o] \in Snapshot /\ seen[p].snapshot[o] = snapshot[o]
    BY <1>5, ReadsNow DEF SerialInv, IInv, TypeOK
  <2> HIDE DEF first, second
  <2>4. snapshot'[o] = IF o \in drawn THEN second ELSE IF o \in fetched THEN first ELSE snapshot[o]
    BY <2>1, <2>2, <2>3, RewriteNew
  <2> QED BY <2>4 DEF first, second
<1> HIDE DEF force
<1>18. o \in dated.due => o \in due'
  BY <1>6, <1>9, <1>13
<1>19. open'[o] \subseteq v.open[o] BY <1>5, <1>6
<1>20. CASE o \in drawn
  <2>1. FollowsFrom(released, FALSE, o)
    BY <1>5, <1>12, <1>14, <1>15, <1>17, <1>18, <1>19, <1>20 DEF FollowsFrom
  <2> QED BY <1>14, <2>1 DEF Follows
<1>21. CASE o \in fetched /\ o \notin drawn
  <2>1. row(o).known BY <1>10, <1>11, <1>21
  <2>2. snapshot'[o] = Refreshed(dated, o, force) BY <1>17, <1>21
  <2>3. FollowsFrom(dated, force, o)
    BY <1>5, <1>13, <1>15, <1>18, <1>19, <1>21, <2>1, <2>2 DEF FollowsFrom
  <2> QED BY <1>13, <1>16, <2>3 DEF Follows
<1>22. CASE o \notin fetched /\ o \notin drawn
  <2>1. snapshot'[o] = snapshot[o] /\ order'[o] = row(o) BY <1>15, <1>17, <1>22
  <2>2. snapshot[o].status = "none" \/ FieldsOf(order'[o]) = FieldsOf(order[o])
    BY <1>11, <1>22, <2>1 DEF SerialInv, Fit
  <2>3. CASE late
    <3>1. fetchErrors' # 0 BY <1>4, <2>3 DEF SerialInv, IInv, TypeOK
    <3> QED BY <1>5, <1>15, <2>1, <2>2, <3>1 DEF Kept
  <2>4. CASE ~late
    <3>1. fetchErrors' = fetchErrors BY <1>4, <2>4 DEF SerialInv, IInv, TypeOK
    <3>2. order'[o] = order[o] BY <1>11, <1>22, <2>1, <2>4
    <3>3. ~order'[o].known \/ (o \in due => o \in due')
      BY <1>9, <1>11, <1>22, <3>2
    <3> QED BY <1>5, <1>15, <2>1, <2>2, <3>1, <3>2, <3>3 DEF Kept
  <2> QED BY <2>3, <2>4
<1> QED BY <1>20, <1>21, <1>22

-----------------------------------------------------------------------------
(* The invariant *)

LEMMA SerialInit == ASSUME Init, ~Upgrade PROVE SerialInv
<1>1. IInv BY InitHolds
<1>2. Mirror BY DEF Init, Mirror
<1>3. ASSUME NEW o \in Orders PROVE Fit(o)
  <2>1. order[o] = NoOrder /\ machine[o] = NoMachine /\ snapshot[o] = NoSnapshot
    BY DEF Init, Blank
  <2> QED BY <2>1, BlankRows DEF Fit
<1> QED BY <1>1, <1>2, <1>3 DEF SerialInv

LEMMA SerialNext == ASSUME SerialInv, Serial, [Next]_vars PROVE SerialInv' /\ [PartsFollow]_vars
<1>1. IInv' BY NextPreserves DEF SerialInv
<1>2. ASSUME NEW p \in Parties, Begin(p) PROVE SerialInv' /\ PartsFollow
  <2>1. /\ active = {} /\ active' = active \union {p}
        /\ seen' = [seen EXCEPT ![p] = Now]
        /\ UNCHANGED <<sourceVars, resultVars, countVars>>
    BY <1>2 DEF Begin
  <2>2. Mirror'
    <3>1. seen'[p] = Now BY <2>1 DEF SerialInv, IInv, TypeOK
    <3> QED BY <2>1, <3>1 DEF Mirror, Now, sourceVars, resultVars
  <2>3. ASSUME NEW o \in Orders PROVE Kept(o)
    BY <2>1 DEF Kept, sourceVars, resultVars, countVars
  <2> QED BY <1>1, <2>1, <2>2, <2>3, KeptFits DEF SerialInv, PartsFollow, resultVars
<1>3. ASSUME NEW p \in Parties, Handler(p) PROVE SerialInv' /\ PartsFollow
  <2>1. CASE Schedule(p)
    <3>1. End(p) BY <2>1 DEF Schedule
    <3> QED BY <1>1, <2>1, <3>1, ScheduleSerial, SerialKeeps
  <2>2. CASE Rollback(p)
    <3>1. End(p) /\ UNCHANGED <<sourceVars, resultVars, countVars>> BY <2>2 DEF Rollback
    <3>2. \A o \in Orders : Kept(o) BY <3>1 DEF Kept, sourceVars, resultVars, countVars
    <3> QED BY <1>1, <3>1, <3>2, SerialKeeps DEF PartsFollow, resultVars
  <2>3. CASE SyncSales(p)
    <3>1. End(p) /\ machine' = machine BY <2>3 DEF SyncSales
    <3> QED BY <1>1, <2>3, <3>1, SyncSalesSerial, SerialKeeps DEF PartsFollow
  <2>4. CASE SyncResearch(p)
    <3>1. End(p) /\ machine' = machine BY <2>4 DEF SyncResearch
    <3> QED BY <1>1, <2>4, <3>1, SyncResearchSerial, SerialKeeps DEF PartsFollow
  <2>5. CASE EditRules(p)
    <3>1. End(p) /\ machine' = machine BY <2>5 DEF EditRules
    <3> QED BY <1>1, <2>5, <3>1, EditRulesSerial, SerialKeeps DEF PartsFollow
  <2>6. CASE SyncBom(p)
    <3>1. End(p) /\ machine' = machine BY <2>6 DEF SyncBom
    <3> QED BY <1>1, <2>6, <3>1, SyncBomSerial, SerialKeeps DEF PartsFollow
  <2>7. CASE Refresh(p) \/ Rebuild(p)
    <3>1. PICK S \in SUBSET Known(seen[p]) : RefreshOrders(p, S)
      BY <2>7 DEF Refresh, Rebuild
    <3>2. End(p) /\ machine' = machine BY <3>1 DEF RefreshOrders
    <3> QED BY <1>1, <3>1, <3>2, RefreshOrdersSerial, SerialKeeps DEF PartsFollow
  <2>8. CASE Seed(p)
    <3>1. End(p) /\ machine' = machine BY <2>8 DEF Seed
    <3> QED BY <1>1, <2>8, <3>1, SeedSerial, SerialKeeps DEF PartsFollow
  <2> QED BY <1>3, <2>1, <2>2, <2>3, <2>4, <2>5, <2>6, <2>7, <2>8 DEF Handler
<1>4. CASE CloseIssue
  <2>1. /\ UNCHANGED <<sourceVars, machine, parts, snapshot, active, seen, countVars>>
        /\ \A o \in Orders : open'[o] \subseteq open[o]
    BY <1>4 DEF CloseIssue, SerialInv, IInv, TypeOK
  <2>2. Mirror' BY <2>1 DEF SerialInv, Mirror, sourceVars
  <2>3. \A o \in Orders : Kept(o) BY <2>1 DEF Kept, sourceVars, countVars
  <2> QED BY <1>1, <2>1, <2>2, <2>3, KeptFits DEF SerialInv, PartsFollow
<1>5. CASE DayPasses
  <2>1. /\ UNCHANGED <<order, research, bom, resultVars, active, seen, countVars>>
        /\ due \subseteq due'
    BY <1>5 DEF DayPasses
  <2>2. Mirror' BY <2>1 DEF SerialInv, Mirror, resultVars
  <2>3. \A o \in Orders : Kept(o) BY <2>1 DEF Kept, resultVars, countVars
  <2> QED BY <1>1, <2>1, <2>2, <2>3, KeptFits DEF SerialInv, PartsFollow, resultVars
<1>6. CASE UNCHANGED vars
  <2>1. Mirror' BY <1>6 DEF SerialInv, Mirror, vars, sourceVars, resultVars
  <2>2. \A o \in Orders : Kept(o) BY <1>6 DEF Kept, vars, sourceVars, resultVars, countVars
  <2> QED BY <1>1, <1>6, <2>1, <2>2, KeptFits DEF SerialInv
<1> QED BY <1>2, <1>3, <1>4, <1>5, <1>6 DEF Next

\* Transactions that do not overlap, over a database that began with the snapshot
\* table, keep what an open transaction has read, and every snapshot says what is so.
THEOREM SerialInvariantHolds == (Serial /\ ~Upgrade) => (Spec => []SerialInv)
<1> SUFFICES ASSUME Serial, ~Upgrade PROVE Spec => []SerialInv
  OBVIOUS
<1>1. Init => SerialInv BY SerialInit
<1>2. SerialInv /\ [Next]_vars => SerialInv' BY SerialNext
<1> QED BY <1>1, <1>2, PTL DEF Spec

\* The link to a plan, the status and the plan agree, whatever syncs, edits, runs and
\* refreshes follow each other.
THEOREM LinksAgree == (Serial /\ ~Upgrade) => (Spec => []LinkAgrees)
<1> SUFFICES ASSUME Serial, ~Upgrade PROVE Spec => []LinkAgrees
  OBVIOUS
<1>1. SerialInv => LinkAgrees BY DEF SerialInv, Fit, LinkAgrees
<1> QED BY <1>1, SerialInvariantHolds, PTL

\* No snapshot shows a plan as current whose order has changed in a field that counts.
THEOREM ChangesDetected == (Serial /\ ~Upgrade) => (Spec => []NoUndetectedChange)
<1> SUFFICES ASSUME Serial, ~Upgrade PROVE Spec => []NoUndetectedChange
  OBVIOUS
<1>1. SerialInv => NoUndetectedChange BY DEF SerialInv, Fit, NoUndetectedChange
<1> QED BY <1>1, SerialInvariantHolds, PTL

\* An open issue shows in the warning level of its order.
THEOREM IssuesShow == (Serial /\ ~Upgrade) => (Spec => []NoSilentIssue)
<1> SUFFICES ASSUME Serial, ~Upgrade PROVE Spec => []NoSilentIssue
  OBVIOUS
<1>1. SerialInv => NoSilentIssue BY DEF SerialInv, Fit, NoSilentIssue
<1> QED BY <1>1, SerialInvariantHolds, PTL

\* Without fetch errors the status of an order without a plan is what its check says.
THEOREM WaitingIsTrue == (Serial /\ ~Upgrade) => (Spec => []WaitsTruly)
<1> SUFFICES ASSUME Serial, ~Upgrade PROVE Spec => []WaitsTruly
  OBVIOUS
<1>1. SerialInv => WaitsTruly BY DEF SerialInv, Fit, WaitsTruly
<1> QED BY <1>1, SerialInvariantHolds, PTL

\* A run that plans a machine plans its parts for the same fields, if the BOM has
\* assemblies.
THEOREM PartsAreReplaced == (Serial /\ ~Upgrade) => (Spec => PartsFollowPlan)
<1> SUFFICES ASSUME Serial, ~Upgrade PROVE Spec => PartsFollowPlan
  OBVIOUS
<1>1. SerialInv /\ [Next]_vars => [PartsFollow]_vars BY SerialNext
<1>2. [PartsFollow]_vars <=>
        [\A o \in Orders : machine'[o].of # machine[o].of =>
           \/ parts'[o] = [built |-> TRUE, of |-> machine'[o].of]
           \/ bom[<<order[o].material, order[o].plant>>] = "plain"]_vars
  BY DEF PartsFollow
<1> QED BY <1>1, <1>2, SerialInvariantHolds, PTL DEF Spec, PartsFollowPlan
=============================================================================
