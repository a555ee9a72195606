----------------------------- MODULE OrderSchedule -----------------------------
(***************************************************************************)
(* An order line from the sales plan to its schedule.  Five tables:        *)
(* sales_plan_order_line_src, machine_schedule_result,                     *)
(* part_schedule_result, order_schedule_snapshot (what every list, export  *)
(* and dashboard shows) and data_issue_record.  Syncs change the source    *)
(* rows, a schedule run builds machine and part plans, and everyone        *)
(* refreshes the snapshots of the orders it touched.                       *)
(*                                                                         *)
(* A transaction reads first and writes at its end, and READ COMMITTED     *)
(* lets others commit in between: it is Begin, which keeps what it read,   *)
(* and one of the handlers, which writes what follows from that.           *)
(***************************************************************************)
EXTENDS Naturals

CONSTANTS
  Orders,             \* order lines
  Materials, Plants,  \* an order asks for a machine material at a plant
  Revs,               \* values of delivery date, model and quantity together
  Parties,            \* sessions: worker tasks and API requests
  Serial,             \* TRUE: transactions do not overlap
  Upgrade,            \* TRUE: start from a database older than the snapshot table
  MaxChanges, MaxRuns, MaxFetchErrors  \* bounds on the environment

ASSUMPTION FlagsAreBoolean == Serial \in BOOLEAN /\ Upgrade \in BOOLEAN
ASSUMPTION BoundsAreNumbers == MaxChanges \in Nat /\ MaxRuns \in Nat /\ MaxFetchErrors \in Nat
ASSUMPTION ValuesExist == Materials # {} /\ Plants # {} /\ Revs # {}

VARIABLES
  order,     \* the sales plan row of each order
  research,  \* orders whose research record has a drawing release date
  bom,       \* the BOM stored for each material and plant
  due,       \* orders that would be past their trigger date
  machine,   \* machine_schedule_result
  parts,     \* part_schedule_result, by the order fields they were planned from
  snapshot,  \* order_schedule_snapshot
  open,      \* types of the open issues of each order
  active,    \* parties with an open transaction
  seen,      \* what that transaction read
  changes, runs, fetchErrors  \* how often each happened

sourceVars == <<order, research, bom, due>>
resultVars == <<machine, parts, snapshot, open>>
countVars == <<changes, runs, fetchErrors>>
vars == <<sourceVars, resultVars, active, seen, countVars>>

-----------------------------------------------------------------------------
(* Rows *)

AnyMaterial == CHOOSE m \in Materials : TRUE
AnyPlant    == CHOOSE p \in Plants : TRUE
AnyRev      == CHOOSE r \in Revs : TRUE

OrderRow == [known : BOOLEAN, delivery : BOOLEAN, drawing : BOOLEAN,
             material : Materials, plant : Plants, rev : Revs]

NoOrder == [known |-> FALSE, delivery |-> FALSE, drawing |-> FALSE,
            material |-> AnyMaterial, plant |-> AnyPlant, rev |-> AnyRev]

\* _SCHEDULE_AFFECTING_FIELDS; the plant is not one of them.
Fields == [delivery : BOOLEAN, drawing : BOOLEAN, material : Materials, rev : Revs]

FieldsOf(row) == [delivery |-> row.delivery, drawing |-> row.drawing,
                  material |-> row.material, rev |-> row.rev]

Plan == [built : BOOLEAN, of : Fields]
Machine == [built : BOOLEAN, of : Fields, abnormal : BOOLEAN]

NoPlan == [built |-> FALSE, of |-> FieldsOf(NoOrder)]
NoMachine == [built |-> FALSE, of |-> FieldsOf(NoOrder), abnormal |-> FALSE]

\* "plain": rows, but no assembly among the direct children.
Boms == {"none", "plain", "assembled"}

Waiting == {"pending_delivery", "pending_drawing", "missing_bom"}
Scheduled == {"scheduled", "scheduled_stale"}
Statuses == Waiting \union Scheduled \union {"none", "pending_trigger", "schedulable"}

\* linked: machine_schedule_id is set; abnormal: warning_level.
Snapshot == [status : Statuses, linked : BOOLEAN, abnormal : BOOLEAN]

NoSnapshot == [status |-> "none", linked |-> FALSE, abnormal |-> FALSE]

\* The four kinds of default value raise issues of their own types; one stands for them.
IssueTypes == Waiting \union {"default_value"}

View == [order : [Orders -> OrderRow], bom : [Materials \X Plants -> Boms],
         due : SUBSET Orders, machine : [Orders -> Machine],
         snapshot : [Orders -> Snapshot], open : [Orders -> SUBSET IssueTypes]]

Blank == [order |-> [o \in Orders |-> NoOrder], bom |-> [i \in Materials \X Plants |-> "none"],
          due |-> {}, machine |-> [o \in Orders |-> NoMachine],
          snapshot |-> [o \in Orders |-> NoSnapshot], open |-> [o \in Orders |-> {}]]

Now == [order |-> order, bom |-> bom, due |-> due, machine |-> machine,
        snapshot |-> snapshot, open |-> open]

\* An UPDATE sets the columns that differ from those loaded.
Pick(current, loaded, new) == IF new = loaded THEN current ELSE new
-----------------------------------------------------------------------------
(* Snapshots *)

\* check_order: the first condition that fails.
Check(v, o) ==
  LET row == v.order[o]
  IN IF ~row.delivery THEN "pending_delivery"
     ELSE IF ~row.drawing THEN "pending_drawing"
     ELSE IF v.bom[<<row.material, row.plant>>] = "none" THEN "missing_bom"
     ELSE IF o \notin v.due THEN "pending_trigger"
     ELSE "schedulable"

\* An order with a machine plan shows the plan.
PlanSnapshot(v, o, stale) ==
  [ status   |-> IF stale THEN "scheduled_stale" ELSE "scheduled",
    linked   |-> TRUE,
    abnormal |-> stale \/ v.open[o] # {} \/ v.machine[o].abnormal ]

\* Variant: a check knows nothing of issues.
CheckSnapshot_NoIssues(v, o) ==
  [status |-> Check(v, o), linked |-> FALSE, abnormal |-> Check(v, o) = "missing_bom"]

\* Any other shows its check.
CheckSnapshot(v, o) ==
  [ status   |-> Check(v, o),
    linked   |-> FALSE,
    abnormal |-> Check(v, o) = "missing_bom" \/ v.open[o] # {} ]

\* Variant: a plan is stale only if the caller says so.
Refreshed_OnlyForced(v, o, force) ==
  IF v.machine[o].built THEN PlanSnapshot(v, o, force) ELSE CheckSnapshot(v, o)

\* Variant: whoever marks an order as stale takes it to have a plan.
Refreshed_ForceIsPlan(v, o, force) ==
  IF v.machine[o].built \/ force
    THEN PlanSnapshot(v, o, force \/ FieldsOf(v.order[o]) # v.machine[o].of)
    ELSE CheckSnapshot(v, o)

\* A plan is stale if the order has changed or the caller says so.
Refreshed(v, o, force) ==
  IF v.machine[o].built
    THEN PlanSnapshot(v, o, force \/ FieldsOf(v.order[o]) # v.machine[o].of)
    ELSE CheckSnapshot(v, o)

\* Variant: rows are updated and never inserted.
Write_UpdateOnly(row, loaded, new) == IF loaded.status = "none" THEN row ELSE new

\* Variant: the link is not among the columns updated.
Write_KeepsLink(row, loaded, new) ==
  IF loaded.status = "none" THEN new ELSE [new EXCEPT !.linked = row.linked]

\* The row after a refresh that had loaded it and computed new.
Write(row, loaded, new) ==
  IF loaded.status = "none"
    THEN new
    ELSE [ status   |-> Pick(row.status, loaded.status, new.status),
           linked   |-> Pick(row.linked, loaded.linked, new.linked),
           abnormal |-> Pick(row.abnormal, loaded.abnormal, new.abnormal) ]

\* An insert fails if the row is there by now (unique order_line_id).
Insertable(p, S) ==
  \A o \in S : seen[p].snapshot[o].status = "none" => snapshot[o].status = "none"

Known(v) == {o \in Orders : v.order[o].known}

-----------------------------------------------------------------------------
(* Transactions *)

UpgradedOrder == [NoOrder EXCEPT !.known = TRUE, !.delivery = TRUE, !.drawing = TRUE]

UpgradedMachines ==
  {[built |-> TRUE, of |-> [FieldsOf(UpgradedOrder) EXCEPT !.rev = r], abnormal |-> FALSE] : r \in Revs}

Init ==
  /\ order \in [Orders -> {NoOrder} \union (IF Upgrade THEN {UpgradedOrder} ELSE {})]
  /\ machine \in [Orders -> {NoMachine} \union (IF Upgrade THEN UpgradedMachines ELSE {})]
  /\ \A o \in Orders : machine[o].built => order[o].known
  /\ research = {}
  /\ bom = Blank.bom
  /\ due = {}
  /\ parts = [o \in Orders |-> NoPlan]
  /\ snapshot = Blank.snapshot
  /\ open = Blank.open
  /\ active = {}
  /\ seen = [p \in Parties |-> Blank]
  /\ changes = 0
  /\ runs = 0
  /\ fetchErrors = 0

Begin(p) ==
  /\ p \notin active
  /\ Serial => active = {}
  /\ active' = active \union {p}
  /\ seen' = [seen EXCEPT ![p] = Now]
  /\ UNCHANGED <<sourceVars, resultVars, countVars>>

End(p) ==
  /\ p \in active
  /\ active' = active \ {p}
  /\ seen' = [seen EXCEPT ![p] = Blank]

\* Any exception, and the death of the process.
Rollback(p) ==
  /\ End(p)
  /\ UNCHANGED <<sourceVars, resultVars, countVars>>

-----------------------------------------------------------------------------
(* Refresh: the reconcile task and a full rebuild refresh every known order,  *)
(* a window rebuild, a query of one order without snapshot and an edit of the *)
(* part baselines some.                                                       *)

RefreshOrders(p, S) ==
  /\ Insertable(p, S)
  /\ snapshot' = [o \in Orders |->
                    IF o \in S THEN Write(snapshot[o], seen[p].snapshot[o], Refreshed(seen[p], o, FALSE))
                    ELSE snapshot[o]]
  /\ End(p)
  /\ UNCHANGED <<sourceVars, machine, parts, open, countVars>>

\* Variant: orders with a machine plan are passed over.
Rebuild_Unscheduled(p) == RefreshOrders(p, {o \in Known(seen[p]) : ~seen[p].machine[o].built})

Rebuild(p) == RefreshOrders(p, Known(seen[p]))

Refresh(p) == \E S \in SUBSET Known(seen[p]) : RefreshOrders(p, S)

\* ensure_seeded, in a transaction that has seen no snapshot at all: rows committed
\* meanwhile are written over.  It does not compare a plan with its order.
Seed(p) ==
  /\ Known(seen[p]) # {}
  /\ \A o \in Orders : seen[p].snapshot[o].status = "none"
  /\ snapshot' = [o \in Orders |->
                    IF o \notin Known(seen[p]) THEN snapshot[o]
                    ELSE IF seen[p].machine[o].built THEN PlanSnapshot(seen[p], o, FALSE)
                    ELSE CheckSnapshot(seen[p], o)]
  /\ End(p)
  /\ UNCHANGED <<sourceVars, machine, parts, open, countVars>>

-----------------------------------------------------------------------------
(* Syncs *)

\* The snapshot of o after up to two refreshes by one transaction; the second loads
\* what the first has written.
Rewrite(p, o, S, first, T, second) ==
  LET loaded == IF o \in S THEN first ELSE seen[p].snapshot[o]
      row    == IF o \in S THEN Write(snapshot[o], seen[p].snapshot[o], first) ELSE snapshot[o]
  IN IF o \in T THEN Write(row, loaded, second) ELSE row

\* refresh_all_with_ids: orders of v to mark as released.
Releasable(v, R) == {o \in Known(v) : ~v.order[o].drawing /\ o \in R}

\* Variant: the marks are not flushed before the refresh reads the orders again.
Released_Late(v, D) == v

Released(v, D) == [v EXCEPT !.order = [o \in Orders |-> IF o \in D THEN [@[o] EXCEPT !.drawing = TRUE]
                                                                 ELSE @[o]]]

\* Views with the writes of a transaction in them: new trigger dates, a BOM.
Dated(v, S, T) == [v EXCEPT !.due = (@ \ S) \union T]

WithBom(v, m, plant, b) == [v EXCEPT !.bom[<<m, plant>>] = b]

Sales == [delivery : BOOLEAN, material : Materials, plant : Plants, rev : Revs]

\* The row of an order once data is written to it; the drawing columns are not
\* among those the sales plan brings.
Upserted(row, loaded, data) ==
  IF loaded.known
    THEN [row EXCEPT !.delivery = Pick(@, loaded.delivery, data.delivery),
                     !.material = Pick(@, loaded.material, data.material),
                     !.plant = Pick(@, loaded.plant, data.plant),
                     !.rev = Pick(@, loaded.rev, data.rev)]
    ELSE [known |-> TRUE, delivery |-> data.delivery, drawing |-> FALSE,
          material |-> data.material, plant |-> data.plant, rev |-> data.rev]

WithSales(v, S, data) ==
  [v EXCEPT !.order = [o \in Orders |-> IF o \in S THEN Upserted(@[o], @[o], data[o]) ELSE @[o]]]

\* sync_sales_plan.  Orders whose schedule-affecting fields change are refreshed at
\* once, with a plan as stale; new orders and other changes at the end, unless a
\* page could not be fetched.  Then the drawing status is refreshed.
SyncSales(p) ==
  /\ changes < MaxChanges
  /\ \E S \in (SUBSET Orders) \ {{}}, late \in BOOLEAN :
     \E data \in [S -> Sales] :
       LET v == seen[p]
           after == WithSales(v, S, data)
           changed == {o \in S : v.order[o].known /\ FieldsOf(after.order[o]) # FieldsOf(v.order[o])}
           new == {o \in S : ~v.order[o].known}
           pending == {o \in S \ changed : after.order[o] # v.order[o]}
           fetched == changed \union (IF late THEN {} ELSE pending)
           drawn == Releasable(after, research)
       IN /\ late => fetchErrors < MaxFetchErrors
          /\ \A o \in new : ~order[o].known
          /\ Insertable(p, fetched \union drawn)
          /\ \E T \in SUBSET (changed \union new) :
               LET dated == Dated(after, changed \union new, T)
               IN /\ due' = (due \ (changed \union new)) \union T
                  /\ snapshot' = [o \in Orders |->
                       Rewrite(p, o, fetched, Refreshed(dated, o, o \in changed),
                                     drawn, Refreshed(Released(dated, drawn), o, FALSE))]
          /\ order' = [o \in Orders |->
               LET row == IF o \in S THEN Upserted(order[o], v.order[o], data[o]) ELSE order[o]
               IN IF o \in drawn THEN [row EXCEPT !.drawing = TRUE] ELSE row]
          /\ fetchErrors' = fetchErrors + (IF late THEN 1 ELSE 0)
  /\ changes' = changes + 1
  /\ End(p)
  /\ UNCHANGED <<research, bom, machine, parts, open, runs>>

\* sync_research: release dates arrive, the machine baselines are rebuilt, orders
\* of their models refreshed, and the drawing status after them.
SyncResearch(p) ==
  /\ changes < MaxChanges
  /\ \E S \in SUBSET Known(seen[p]), R \in SUBSET Orders :
     \E T \in SUBSET S :
       LET v == Dated(seen[p], S, T)
           drawn == Releasable(v, research \union R)
       IN /\ Insertable(p, S \union drawn)
          /\ research' = research \union R
          /\ due' = (due \ S) \union T
          /\ order' = [o \in Orders |-> IF o \in drawn THEN [order[o] EXCEPT !.drawing = TRUE] ELSE order[o]]
          /\ snapshot' = [o \in Orders |->
               Rewrite(p, o, S, Refreshed(v, o, FALSE), drawn, Refreshed(Released(v, drawn), o, FALSE))]
  /\ changes' = changes + 1
  /\ End(p)
  /\ UNCHANGED <<bom, machine, parts, open, runs, fetchErrors>>

\* An edit of the work calendar or of a machine baseline: some trigger dates move,
\* and the orders they may move for are refreshed.
EditRules(p) ==
  /\ changes < MaxChanges
  /\ \E S \in (SUBSET Known(seen[p])) \ {{}} :
     \E T \in SUBSET S :
       LET v == Dated(seen[p], S, T)
       IN /\ Insertable(p, S)
          /\ due' = (due \ S) \union T
          /\ snapshot' = [o \in Orders |->
               IF o \in S THEN Write(snapshot[o], v.snapshot[o], Refreshed(v, o, FALSE)) ELSE snapshot[o]]
  /\ changes' = changes + 1
  /\ End(p)
  /\ UNCHANGED <<order, research, bom, machine, parts, open, runs, fetchErrors>>

\* sync_item, once SAP has answered: the BOM of one material at one plant is
\* replaced, the orders of the material are refreshed, and then the missing-BOM
\* issues of the material are closed, whatever the plant of their order.
SyncBom(p) ==
  /\ changes < MaxChanges
  /\ \E m \in Materials, plant \in Plants, b \in {"plain", "assembled"} :
       LET v == WithBom(seen[p], m, plant, b)
           S == {o \in Orders : \/ v.order[o].known /\ v.order[o].material = m
                                \/ v.machine[o].built /\ v.machine[o].of.material = m}
       IN /\ Insertable(p, S)
          /\ bom' = [bom EXCEPT ![<<m, plant>>] = b]
          /\ snapshot' = [o \in Orders |->
               IF o \in S THEN Write(snapshot[o], v.snapshot[o], Refreshed(v, o, FALSE)) ELSE snapshot[o]]
          /\ open' = [o \in Orders |->
               IF order[o].known /\ order[o].material = m THEN open[o] \ {"missing_bom"} ELSE open[o]]
  /\ changes' = changes + 1
  /\ End(p)
  /\ UNCHANGED <<order, research, due, machine, parts, runs, fetchErrors>>
-----------------------------------------------------------------------------
(* Schedule runs *)

\* The machine row once a plan for fields is written to it; the warning level is
\* set to normal first, then to abnormal if a default was used.
Planned(row, loaded, fields, default) ==
  IF loaded.built
    THEN [ built    |-> TRUE,
           of       |-> [ delivery |-> Pick(row.of.delivery, loaded.of.delivery, fields.delivery),
                          drawing  |-> Pick(row.of.drawing, loaded.of.drawing, fields.drawing),
                          material |-> Pick(row.of.material, loaded.of.material, fields.material),
                          rev      |-> Pick(row.of.rev, loaded.of.rev, fields.rev) ],
           abnormal |-> default \/ (row.abnormal /\ ~loaded.abnormal) ]
    ELSE [built |-> TRUE, of |-> fields, abnormal |-> default]

\* The issues a run raises for an order that cannot be scheduled.
PrecheckIssues(v, o) == {Check(v, o)} \intersect Waiting

\* Variant: part rows that exist are kept.
Replaced_Once(row, v, o, plan) ==
  IF row.built \/ v.bom[<<v.order[o].material, v.order[o].plant>>] # "assembled"
    THEN row ELSE [built |-> TRUE, of |-> plan]

\* The part rows of a planned order: replaced by rows for plan if the BOM has assemblies.
Replaced(row, v, o, plan) ==
  IF v.bom[<<v.order[o].material, v.order[o].plant>>] = "assembled"
    THEN [built |-> TRUE, of |-> plan] ELSE row

Plannable(v, S) == {o \in S : Check(v, o) = "schedulable"}

\* The issues a run raises for o; D are the orders planned with some default value.
Raised(v, o, D) ==
  IF Check(v, o) = "schedulable"
    THEN IF o \in D THEN {"default_value"} ELSE {}
    ELSE PrecheckIssues(v, o)

WithRun(v, S, D) ==
  [v EXCEPT !.open = [o \in Orders |-> IF o \in S THEN @[o] \union Raised(v, o, D) ELSE @[o]],
            !.machine = [o \in Orders |->
               IF o \in Plannable(v, S) THEN Planned(@[o], @[o], FieldsOf(v.order[o]), o \in D) ELSE @[o]]]

\* schedule_batch over the orders S of one request, those whose savepoint was rolled
\* back left out.
Schedule(p) ==
  /\ runs < MaxRuns
  /\ \E S \in (SUBSET Known(seen[p])) \ {{}} :
     \E D \in SUBSET Plannable(seen[p], S) :
       LET v == seen[p]
           planned == Plannable(v, S)
       IN /\ Insertable(p, S)
          /\ \A o \in planned : machine[o].built => v.machine[o].built
          /\ machine' = [o \in Orders |->
               IF o \in planned THEN Planned(machine[o], v.machine[o], FieldsOf(v.order[o]), o \in D)
                                ELSE machine[o]]
          /\ parts' = [o \in Orders |->
               IF o \in planned THEN Replaced(parts[o], v, o, FieldsOf(v.order[o])) ELSE parts[o]]
          /\ open' = [o \in Orders |-> IF o \in S THEN open[o] \union Raised(v, o, D) ELSE open[o]]
          /\ snapshot' = [o \in Orders |->
               IF o \in S THEN Write(snapshot[o], v.snapshot[o], Refreshed(WithRun(v, S, D), o, FALSE))
                          ELSE snapshot[o]]
  /\ runs' = runs + 1
  /\ End(p)
  /\ UNCHANGED <<sourceVars, changes, fetchErrors>>

\* An operator resolves or ignores an issue; the snapshot is left alone.
CloseIssue ==
  /\ \E o \in Orders : \E t \in open[o] : open' = [open EXCEPT ![o] = @ \ {t}]
  /\ UNCHANGED <<sourceVars, machine, parts, snapshot, active, seen, countVars>>

\* Days pass; no snapshot changes until it is refreshed.
DayPasses ==
  /\ \E o \in Orders \ due : due' = due \union {o}
  /\ UNCHANGED <<order, research, bom, resultVars, active, seen, countVars>>

-----------------------------------------------------------------------------
Handler(p) ==
  \/ SyncSales(p) \/ SyncResearch(p) \/ EditRules(p) \/ SyncBom(p)
  \/ Schedule(p) \/ Refresh(p) \/ Rebuild(p) \/ Seed(p) \/ Rollback(p)

Next ==
  \/ \E p \in Parties : Begin(p) \/ Handler(p)
  \/ CloseIssue \/ DayPasses

Spec == Init /\ [][Next]_vars

\* The reconcile task runs again and again, and not every run of it fails.
\* A transaction that cannot commit ends all the same.
FairSpec == Spec /\ \A p \in Parties :
                      WF_vars(Begin(p)) /\ WF_vars(Rollback(p)) /\ SF_vars(Rebuild(p))

-----------------------------------------------------------------------------
(* Properties for any overlap of transactions *)

TypeOK ==
  /\ order \in [Orders -> OrderRow]
  /\ research \in SUBSET Orders
  /\ bom \in [Materials \X Plants -> Boms]
  /\ due \in SUBSET Orders
  /\ machine \in [Orders -> Machine]
  /\ parts \in [Orders -> Plan]
  /\ snapshot \in [Orders -> Snapshot]
  /\ open \in [Orders -> SUBSET IssueTypes]
  /\ active \in SUBSET Parties
  /\ seen \in [Parties -> View]
  /\ changes \in Nat /\ runs \in Nat /\ fetchErrors \in Nat

\* A snapshot never shows a schedule that does not exist.
ScheduledHasPlan ==
  \A o \in Orders : snapshot[o].status \in Scheduled \/ snapshot[o].linked => machine[o].built

\* Every list reads snapshots only, so an order without one is lost to view.  The step
\* that makes an order known gives it a snapshot, and none takes one away; only a sync
\* whose fetch fails halfway leaves its new orders without.
KeepsSight ==
  \A o \in Orders : (order'[o].known /\ snapshot'[o].status = "none") =>
     \/ order[o].known /\ snapshot[o].status = "none"
     \/ fetchErrors' # fetchErrors

NoOrderLost == [][KeepsSight]_vars

\* Once nothing changes any more, the reconcile task brings every snapshot to what
\* its order, plan, issues and BOM say, whatever lost updates and unrefreshed
\* changes came before.
Settled == \A o \in Orders : order[o].known => snapshot[o] = Refreshed(Now, o, FALSE)

SnapshotsSettle == <>[]Settled

-----------------------------------------------------------------------------
(* Properties of transactions that do not overlap *)

\* The link to a plan, the status and the plan itself agree.
LinkAgrees ==
  \A o \in Orders : snapshot[o].status # "none" =>
     /\ snapshot[o].linked <=> machine[o].built
     /\ snapshot[o].status \in Scheduled <=> machine[o].built

\* No plan is shown as current for an order that has changed since.
NoUndetectedChange ==
  \A o \in Orders : snapshot[o].status = "scheduled" => FieldsOf(order[o]) = machine[o].of

\* An open issue always shows in the warning level of its order.
NoSilentIssue ==
  \A o \in Orders : (open[o] # {} /\ snapshot[o].status # "none") => snapshot[o].abnormal

\* What waits says what for: without fetch errors the status of an unplanned order is
\* that of its check, up to the trigger date, which only a refresh sees pass.
WaitsTruly ==
  fetchErrors = 0 => \A o \in Orders :
     (order[o].known /\ ~machine[o].built) =>
        \/ snapshot[o].status = Check(Now, o)
        \/ snapshot[o].status = "pending_trigger" /\ Check(Now, o) = "schedulable"

\* A run that plans a machine plans its parts for the same fields, if there are any
\* assemblies to plan.
PartsFollowPlan ==
  [][\A o \in Orders : machine'[o].of # machine[o].of =>
       \/ parts'[o] = [built |-> TRUE, of |-> machine'[o].of]
       \/ bom[<<order[o].material, order[o].plant>>] = "plain"]_vars

-----------------------------------------------------------------------------
(* What the documentation or a comment says and the code does not keep *)

\* The part rows of an earlier build are deleted by the next one.
NoPartsOfAnotherPlan == \A o \in Orders : parts[o].built => parts[o].of = machine[o].of

\* An issue about a missing BOM stays open until an operator closes it or a BOM is there.
ClosedByBom ==
  [][\A o \in Orders :
       ("missing_bom" \in open[o] /\ "missing_bom" \notin open'[o] /\ bom' # bom) =>
          bom'[<<order[o].material, order[o].plant>>] # "none"]_vars
=============================================================================
