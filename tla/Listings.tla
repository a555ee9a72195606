------------------------------- MODULE Listings --------------------------------
(***************************************************************************)
(* The lists of the API, page by page, and their export to a file.  A page *)
(* is two statements, the count and the rows, and an xlsx export is two,   *)
(* the probe of the limit and the stream; other transactions commit        *)
(* between statements, while one statement sees one moment of the table.   *)
(* One table stands for every table that is listed: its columns are those  *)
(* of order_schedule_snapshot, and where a list of another table is sorted *)
(* by a date of its own, delivery stands for that date.                    *)
(***************************************************************************)
EXTENDS Integers, Sequences, FiniteSets

CONSTANTS
  Orders,    \* order lines, by number; the ids of the rows
  Rows,      \* the rows an order line can have
  NoRow,     \* an order line without a row
  Null,      \* the null of a column, and a filter that is not set
  Filters,   \* the filters users set
  PageSize,
  MaxRows    \* settings.export_excel_max_rows

Moments == Nat          \* of the day d: its midnight 2*d and its noon 2*d + 1
Midnight(d) == 2 * d
DayOf(m) == m \div 2

Statuses == {"waiting", "scheduled", "scheduled_stale"}
Warnings == {"normal", "abnormal"}
Assemblies == 1..3     \* their names, in alphabetical order

Part == [rank : Nat, assembly : Assemblies, warning : Warnings, visible : BOOLEAN]

\* "waiting" is every status of an order without a plan; parts are the rows of
\* part_schedule_result of the order.
Snapshot ==
  {r \in [status : Statuses, warning : Warnings, released : BOOLEAN,
          delivery : Moments \union {Null}, trigger : Moments \union {Null},
          start : Moments \union {Null}, end : Moments \union {Null},
          quantity : Nat \union {Null}, parts : SUBSET Part] :
     /\ r.status = "scheduled_stale" => r.warning = "abnormal"
     /\ r.status = "waiting" => r.start = Null /\ r.end = Null /\ r.parts = {}}

Filter == [status : Statuses \union {Null}, bucket : {"unscheduled", "risk", Null},
           warning : Warnings \union {Null}, released : BOOLEAN \union {Null},
           from : Nat \union {Null}, to : Nat \union {Null}]

NoFilter == [status |-> Null, bucket |-> Null, warning |-> Null, released |-> Null,
             from |-> Null, to |-> Null]

ASSUMPTION OrdersAreNumbers == Orders \in SUBSET Nat /\ IsFiniteSet(Orders)
ASSUMPTION NullIsApart ==
  Null \notin Int \union BOOLEAN \union Statuses \union Warnings \union {"unscheduled", "risk"}
ASSUMPTION RowsAreSnapshots ==
  Rows \in SUBSET Snapshot /\ NoRow \notin Rows /\ \A r \in Rows : IsFiniteSet(r.parts)
ASSUMPTION FiltersAreFilters == Filters \in SUBSET Filter
ASSUMPTION SizesArePositive == PageSize \in Nat \ {0} /\ MaxRows \in Nat

VARIABLES
  table,    \* order_schedule_snapshot: the row of each order line
  reader,   \* the user: the list being read and what was received of it
  dirty     \* whether another transaction has committed since the reader began

vars == <<table, reader, dirty>>

-----------------------------------------------------------------------------
(* Filters *)

Known == {o \in Orders : table[o] # NoRow}

InBucket(bucket, r) ==
  CASE bucket = "unscheduled" -> r.status # "scheduled"
    [] bucket = "risk"        -> r.status # "scheduled" \/ r.warning = "abnormal"
    [] OTHER                  -> TRUE

From(d) == Midnight(d)

\* Variant: the last day ends at its midnight.
Until_Midnight(d) == Midnight(d)

\* The last day belongs to the range.
Until(d) == Midnight(d + 1)

Matches(f, r) ==
  /\ f.status \in {Null, r.status}
  /\ f.warning \in {Null, r.warning}
  /\ f.released \in {Null, r.released}
  /\ InBucket(f.bucket, r)
  /\ f.from # Null => r.delivery # Null /\ r.delivery >= From(f.from)
  /\ f.to # Null => r.delivery # Null /\ r.delivery < Until(f.to)

Selected(f) == {o \in Known : Matches(f, table[o])}

Count(f) == Cardinality(Selected(f))

-----------------------------------------------------------------------------
(* Order *)

Lists == {"schedules", "sources", "recent", "children", "loose"}

\* Variant: the machine schedules are ordered by delivery date alone.
DefaultOrder_NoId(list) ==
  CASE list = "schedules" -> <<"delivery asc">>
    [] list = "sources"   -> <<"id desc">>
    [] list = "recent"    -> <<"delivery desc", "id desc">>
    [] list = "children"  -> <<"delivery asc", "id asc">>
    [] list = "loose"     -> <<"delivery desc">>

\* "sources" are the imported tables and the issues, "recent" the users and the BOM queue,
\* "children" the nodes of a BOM, "loose" the lists no unique column orders at last: part
\* schedules, machine baselines and the job log.
DefaultOrder(list) ==
  CASE list = "schedules" -> <<"delivery asc", "id desc">>
    [] list = "sources"   -> <<"id desc">>
    [] list = "recent"    -> <<"delivery desc", "id desc">>
    [] list = "children"  -> <<"delivery asc", "id asc">>
    [] list = "loose"     -> <<"delivery desc">>

\* A column the user sorts by, or none the list allows.
Sorts == {<<>>, <<"quantity asc">>, <<"quantity desc">>}

OrderBy(list, sort) == sort \o DefaultOrder(list)

Ascending(x, y) == x # Null /\ (y = Null \/ x < y)
Descending(x, y) == x # Null /\ (y = Null \/ x > y)

\* NULLS LAST in both directions.
Ahead(column, a, b) ==
  CASE column = "id asc"            -> a < b
    [] column = "id desc"           -> a > b
    [] column = "abnormal first"    -> table[a].warning = "abnormal" /\ table[b].warning # "abnormal"
    [] column = "unscheduled first" -> table[a].status # "scheduled" /\ table[b].status = "scheduled"
    [] column = "delivery asc"      -> Ascending(table[a].delivery, table[b].delivery)
    [] column = "delivery desc"     -> Descending(table[a].delivery, table[b].delivery)
    [] column = "quantity asc"      -> Ascending(table[a].quantity, table[b].quantity)
    [] column = "quantity desc"     -> Descending(table[a].quantity, table[b].quantity)

Precedes(columns, a, b) ==
  \E i \in DOMAIN columns :
     /\ Ahead(columns[i], a, b)
     /\ \A j \in 1..(i - 1) : ~Ahead(columns[j], a, b) /\ ~Ahead(columns[j], b, a)

\* What the statement can return: rows the columns leave equal come in any order.
Listing(list, f, sort) ==
  LET S == Selected(f)
      n == Cardinality(S)
  IN {q \in [1..n -> S] :
        \A i, j \in 1..n : i < j => q[i] # q[j] /\ ~Precedes(OrderBy(list, sort), q[j], q[i])}

-----------------------------------------------------------------------------
(* Reading a list *)

Reader == [kind : {"idle", "pages", "file"},
           state : {"idle", "count", "items", "probe", "stream", "refused", "done"},
           list : Lists, filter : Filters \union {NoFilter}, sort : Sorts,
           xlsx : BOOLEAN, page : Nat, total : Nat, seen : Seq(Orders)]

Idle == [kind |-> "idle", state |-> "idle", list |-> "schedules", filter |-> NoFilter,
         sort |-> <<>>, xlsx |-> FALSE, page |-> 0, total |-> 0, seen |-> <<>>]

Begin(r) ==
  /\ reader.kind = "idle"
  /\ reader' = r
  /\ dirty' = FALSE
  /\ UNCHANGED table

\* One table stands for the table of each list, and the filter for the conditions of its own.
List(list, sorts) ==
  \E f \in Filters, sort \in sorts :
     Begin([Idle EXCEPT !.kind = "pages", !.state = "count", !.list = list,
                        !.filter = f, !.sort = sort, !.page = 1])

Unsorted == {<<>>}

ListSchedules           == List("schedules", Sorts)
ListPartSchedules       == List("loose", Sorts)
ListSalesPlanOrders     == List("sources", Sorts)
ListProductionOrders    == List("sources", Sorts)
ListMachineCycleHistory == List("sources", Sorts)
ListBomRelations        == List("sources", Sorts)
ListIssues              == List("sources", Sorts)
ListMachineBaselines    == List("loose", Sorts)
ListSyncLogs            == List("loose", Sorts)
ListUsers               == List("recent", Unsorted)
ListBomBackfillQueue    == List("recent", Unsorted)
GetBomTreeChildren      == List("children", Unsorted)

BeginPages ==
  \/ ListSchedules \/ ListPartSchedules
  \/ ListSalesPlanOrders \/ ListProductionOrders \/ ListMachineCycleHistory
  \/ ListBomRelations \/ GetBomTreeChildren \/ ListBomBackfillQueue
  \/ ListIssues \/ ListMachineBaselines \/ ListSyncLogs \/ ListUsers

CountRows ==
  /\ reader.state = "count"
  /\ reader' = [reader EXCEPT !.state = "items", !.total = Count(reader.filter)]
  /\ UNCHANGED <<table, dirty>>

\* OFFSET (page_no - 1) * page_size LIMIT page_size.
Page(q, page) ==
  LET offset == (page - 1) * PageSize
      last == IF offset + PageSize < Len(q) THEN offset + PageSize ELSE Len(q)
  IN SubSeq(q, offset + 1, last)

ReadPage ==
  /\ reader.state = "items"
  /\ \E q \in Listing(reader.list, reader.filter, reader.sort) :
       reader' = [reader EXCEPT
                    !.seen = @ \o Page(q, reader.page),
                    !.page = @ + 1,
                    !.state = IF reader.page * PageSize < reader.total THEN "count" ELSE "done"]
  /\ UNCHANGED <<table, dirty>>

\* The export takes the filters of the list but for the bucket and the drawing.
Exported(f) == [f EXCEPT !.bucket = Null, !.released = Null]

BeginFile ==
  \E f \in Filters, sort \in Sorts, xlsx \in BOOLEAN :
     Begin([Idle EXCEPT !.kind = "file", !.filter = f, !.sort = sort, !.xlsx = xlsx,
                        !.state = IF xlsx THEN "probe" ELSE "stream"])

\* Variant: one row too many passes.
BeyondLimit_OffByOne(f) == Count(f) > MaxRows + 1

\* OFFSET max_rows LIMIT 1 finds a row.
BeyondLimit(f) == Count(f) > MaxRows

Probe ==
  /\ reader.state = "probe"
  /\ reader' = [reader EXCEPT !.state = IF BeyondLimit(Exported(reader.filter)) THEN "refused" ELSE "stream"]
  /\ UNCHANGED <<table, dirty>>

\* One statement, read in batches from a cursor.
Stream ==
  /\ reader.state = "stream"
  /\ \E q \in Listing(reader.list, Exported(reader.filter), reader.sort) :
       reader' = [reader EXCEPT !.state = "done", !.seen = q]
  /\ UNCHANGED <<table, dirty>>

Close ==
  /\ reader.state \in {"done", "refused"}
  /\ reader' = Idle
  /\ dirty' = FALSE
  /\ UNCHANGED table

\* A refresh adds, replaces or deletes the row of an order line.
Write ==
  /\ \E o \in Orders, r \in Rows \union {NoRow} : table' = [table EXCEPT ![o] = r]
  /\ dirty' = (reader.kind # "idle")
  /\ UNCHANGED reader

-----------------------------------------------------------------------------
Init ==
  /\ table = [o \in Orders |-> NoRow]
  /\ reader = Idle
  /\ dirty = FALSE

Next ==
  \/ BeginPages \/ CountRows \/ ReadPage
  \/ BeginFile \/ Probe \/ Stream
  \/ Close
  \/ Write

Spec == Init /\ [][Next]_vars

-----------------------------------------------------------------------------
TypeOK ==
  /\ table \in [Orders -> Rows \union {NoRow}]
  /\ reader \in Reader
  /\ dirty \in BOOLEAN

\* The lists whose order leaves no two rows equal.
Definite == {"schedules", "sources", "recent", "children"}

\* Whoever turns the pages of a table that does not change sees every row the filter selects
\* once, in the order an export gives, and as many as the total said.
PagesCoverTheList ==
  reader.kind = "pages" /\ reader.state = "done" /\ reader.list \in Definite /\ ~dirty =>
    /\ reader.seen \in Listing(reader.list, reader.filter, reader.sort)
    /\ reader.total = Len(reader.seen)

\* Unless the table changes after the probe, an xlsx file is refused if and only if it would
\* have more rows than the limit.
XlsxFits ==
  reader.kind = "file" /\ ~dirty =>
    /\ reader.state = "refused" => Count(Exported(reader.filter)) > MaxRows
    /\ reader.state = "done" /\ reader.xlsx => Len(reader.seen) <= MaxRows

\* "Exports the machine schedules by the current filters": the file has the rows of the list.
ExportFollowsTheList ==
  reader.kind = "file" /\ reader.state = "done" /\ ~dirty =>
    reader.seen \in Listing("schedules", reader.filter, reader.sort)
=============================================================================
