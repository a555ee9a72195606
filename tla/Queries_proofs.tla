---------------------------- MODULE Queries_proofs ----------------------------
(* What holds of Listings and of Dashboard for any order lines, rows, filters,    *)
(* page sizes and calendars, and any number of commits between the statements.    *)
EXTENDS Dashboard, FiniteSetTheorems, SequenceTheorems, TLAPS

-----------------------------------------------------------------------------
(* Finite sets: what an induction would be used for is shown by a smallest counterexample *)

\* A set of finite sets has a member that contains no other.
LEMMA SmallestFinite ==
  ASSUME NEW F, F # {}, \A T \in F : IsFiniteSet(T)
  PROVE  \E T \in F : \A U \in F : U \subseteq T => U = T
<1> DEFINE S == UNION F
           R == StrictSubsetOrdering(S)
<1>1. IsWellFoundedOn(R, FiniteSubsetsOf(S))
  BY FS_StrictSubsetOrderingWellFounded
<1>2. F \subseteq FiniteSubsetsOf(S)
  BY DEF FiniteSubsetsOf
<1>3. \E T \in F : \A U \in F : ~ (<<U, T>> \in R)
  <2> HIDE DEF R, S
  <2> QED
    BY <1>1, <1>2, WFMin
<1>4. \A U, T \in F : <<U, T>> \in R <=> U \subseteq T /\ U # T
  BY DEF StrictSubsetOrdering
<1> HIDE DEF R
<1> QED
  BY <1>3, <1>4

LEMMA LeastNatural ==
  ASSUME NEW T \in SUBSET Nat, T # {}
  PROVE  \E m \in T : \A k \in T : m <= k
<1> DEFINE F == {0 .. n : n \in T}
<1>1. F # {} /\ \A U \in F : IsFiniteSet(U)
  <2>1. \A n \in T : IsFiniteSet(0 .. n)
    BY FS_Interval
  <2> QED
    BY <2>1
<1>2. PICK M \in F : \A U \in F : U \subseteq M => U = M
  <2> HIDE DEF F
  <2> QED
    BY <1>1, SmallestFinite
<1>3. PICK m \in T : M = 0 .. m
  OBVIOUS
<1>4. ASSUME NEW k \in T, k < m PROVE FALSE
  <2>1. 0 .. k \subseteq M /\ 0 .. k \in F /\ m \in M /\ m \notin 0 .. k
    BY <1>3, <1>4
  <2> HIDE DEF F
  <2> QED
    BY <2>1, <1>2
<1> QED
  BY <1>4

-----------------------------------------------------------------------------
(* Filters *)

LEMMA SelectedIsFinite ==
  ASSUME NEW f
  PROVE  /\ Selected(f) \subseteq Known /\ Known \subseteq Orders
         /\ IsFiniteSet(Selected(f)) /\ IsFiniteSet(Known)
         /\ Count(f) \in Nat
<1>1. Selected(f) \subseteq Known /\ Known \subseteq Orders
  BY DEF Selected, Known
<1>2. IsFiniteSet(Selected(f)) /\ IsFiniteSet(Known)
  BY <1>1, FS_Subset, OrdersAreNumbers
<1> QED
  BY <1>1, <1>2, FS_CardinalityType DEF Count

\* What a statement returns has every selected row once.
LEMMA ListingIsSeq ==
  ASSUME NEW list, NEW f, NEW sort, NEW q \in Listing(list, f, sort)
  PROVE  /\ q \in Seq(Orders)
         /\ Len(q) = Count(f)
         /\ q \in [1..Count(f) -> Selected(f)]
         /\ \A i, j \in 1..Count(f) :
              i < j => q[i] # q[j] /\ ~Precedes(OrderBy(list, sort), q[j], q[i])
<1>1. Count(f) \in Nat /\ Selected(f) \subseteq Orders
  BY SelectedIsFinite
<1>2. /\ q \in [1..Count(f) -> Selected(f)]
      /\ \A i, j \in 1..Count(f) :
           i < j => q[i] # q[j] /\ ~Precedes(OrderBy(list, sort), q[j], q[i])
  BY DEF Listing, Count
<1>3. q \in [1..Count(f) -> Orders]
  BY <1>1, <1>2
<1> QED
  BY <1>1, <1>2, <1>3

-----------------------------------------------------------------------------
(* Types *)

LEMMA IdleIsReader ==
  /\ Idle \in Reader
  /\ Idle.kind = "idle" /\ Idle.state = "idle" /\ Idle.list = "schedules" /\ ~Idle.xlsx
  /\ Idle.seen = <<>>
<1>1. <<>> \in Seq(Orders)
  OBVIOUS
<1>2. <<>> \in Sorts
  BY DEF Sorts
<1> QED
  BY <1>1, <1>2 DEF Idle, Reader, Lists

LEMMA BegunReader ==
  ASSUME NEW list \in Lists, NEW sorts \in SUBSET Sorts, List(list, sorts)
  PROVE  /\ reader' \in Reader /\ dirty' = FALSE /\ table' = table
         /\ reader'.kind = "pages" /\ reader'.state = "count"
         /\ reader'.page = 1 /\ reader'.seen = <<>>
<1>1. PICK f \in Filters, sort \in sorts :
        Begin([Idle EXCEPT !.kind = "pages", !.state = "count", !.list = list,
                           !.filter = f, !.sort = sort, !.page = 1])
  BY Zenon DEF List
<1>2. ASSUME NEW r \in Reader, r.seen = <<>>,
             reader' = [r EXCEPT !.kind = "pages", !.state = "count", !.list = list,
                                 !.filter = f, !.sort = sort, !.page = 1]
      PROVE  /\ reader' \in Reader
             /\ reader'.kind = "pages" /\ reader'.state = "count"
             /\ reader'.page = 1 /\ reader'.seen = <<>>
  BY <1>2 DEF Reader
<1> QED
  BY <1>1, <1>2, IdleIsReader DEF Begin

LEMMA BegunPages ==
  ASSUME BeginPages
  PROVE  /\ reader' \in Reader /\ dirty' = FALSE /\ table' = table
         /\ reader'.kind = "pages" /\ reader'.state = "count"
         /\ reader'.page = 1 /\ reader'.seen = <<>>
<1>1. PICK list \in Lists, sorts \in {Sorts, Unsorted} : List(list, sorts)
  BY DEF BeginPages, ListSchedules, ListPartSchedules, ListSalesPlanOrders,
         ListProductionOrders, ListMachineCycleHistory, ListBomRelations, GetBomTreeChildren,
         ListBomBackfillQueue, ListIssues, ListMachineBaselines, ListSyncLogs, ListUsers, Lists
<1>2. sorts \in SUBSET Sorts
  BY DEF Sorts, Unsorted
<1> QED
  BY <1>1, <1>2, BegunReader

LEMMA BegunFile ==
  ASSUME BeginFile
  PROVE  /\ reader' \in Reader /\ dirty' = FALSE /\ table' = table
         /\ reader'.kind = "file"
         /\ reader'.state = IF reader'.xlsx THEN "probe" ELSE "stream"
<1>1. PICK f \in Filters, sort \in Sorts, xlsx \in BOOLEAN :
        Begin([Idle EXCEPT !.kind = "file", !.filter = f, !.sort = sort, !.xlsx = xlsx,
                           !.state = IF xlsx THEN "probe" ELSE "stream"])
  BY Zenon DEF BeginFile
<1>2. ASSUME NEW r \in Reader, NEW state \in {"probe", "stream"},
             reader' = [r EXCEPT !.kind = "file", !.filter = f, !.sort = sort, !.xlsx = xlsx,
                                 !.state = state]
      PROVE  /\ reader' \in Reader
             /\ reader'.kind = "file" /\ reader'.state = state /\ reader'.xlsx = xlsx
  BY <1>2 DEF Reader
<1> QED
  BY <1>1, <1>2, IdleIsReader DEF Begin

\* A page is a stretch of the listing.
LEMMA PageIsStretch ==
  ASSUME NEW q \in Seq(Orders), NEW page \in Nat, page >= 1
  PROVE  /\ Page(q, page) \in Seq(Orders)
         /\ (page - 1) * PageSize \in Nat
         /\ page * PageSize = (page - 1) * PageSize + PageSize
         /\ LET offset == (page - 1) * PageSize
                last == IF page * PageSize < Len(q) THEN page * PageSize ELSE Len(q)
            IN /\ Page(q, page) = SubSeq(q, offset + 1, last)
               /\ last \in Nat
<1> DEFINE offset == (page - 1) * PageSize
           last == IF offset + PageSize < Len(q) THEN offset + PageSize ELSE Len(q)
<1>1. offset \in Nat /\ page * PageSize = offset + PageSize
  BY SizesArePositive
<1>2. last \in Nat /\ last <= Len(q)
  <2> HIDE DEF offset
  <2> QED
    BY <1>1, SizesArePositive
<1>3. Page(q, page) = SubSeq(q, offset + 1, last)
  BY DEF Page
<1>4. SubSeq(q, offset + 1, last) \in Seq(Orders)
  <2> HIDE DEF offset, last
  <2> QED
    BY <1>1, <1>2, SubSeqProperties
<1> QED
  BY <1>1, <1>2, <1>3, <1>4

-----------------------------------------------------------------------------
(* What a reader has received so far *)

\* The probe of an xlsx file lets no more rows through than the limit, and the stream
\* has all the rows of the probe.
FileInv ==
  reader.kind = "file" =>
    /\ reader.state \in {"probe", "stream", "refused", "done"}
    /\ reader.state = "probe" => reader.xlsx
    /\ ~dirty /\ reader.xlsx =>
         /\ reader.state = "stream" => Count(Exported(reader.filter)) <= MaxRows
         /\ reader.state = "done" => Len(reader.seen) <= MaxRows
    /\ ~dirty /\ reader.state = "refused" => Count(Exported(reader.filter)) > MaxRows

\* The rows of the pages before the one that is due.
Before == (reader.page - 1) * PageSize

\* While nothing changes, the pages received are the beginning of the list, the only one
\* the order allows.
PagesInv ==
  reader.kind = "pages" =>
    /\ reader.state \in {"count", "items", "done"}
    /\ reader.page >= 1
    /\ reader.list \in Definite /\ ~dirty =>
         /\ reader.state \in {"count", "items"} =>
              \A q \in Listing(reader.list, reader.filter, reader.sort) :
                Before <= Len(q) /\ reader.seen = SubSeq(q, 1, Before)
         /\ reader.state = "items" => reader.total = Count(reader.filter)
         /\ reader.state = "done" =>
              /\ reader.seen \in Listing(reader.list, reader.filter, reader.sort)
              /\ reader.total = Len(reader.seen)

ReadingInv ==
  /\ TypeOK
  /\ reader.kind = "idle" => reader.state = "idle"
  /\ FileInv
  /\ PagesInv

-----------------------------------------------------------------------------
(* The order of a list *)

Columns == {"id asc", "id desc", "abnormal first", "unscheduled first", "delivery asc",
            "delivery desc", "quantity asc", "quantity desc"}

LEMMA KnownRow ==
  ASSUME TypeOK, NEW o \in Known
  PROVE  /\ o \in Nat /\ o \in Orders
         /\ table[o] \in Rows /\ table[o] \in Snapshot
         /\ table[o].delivery \in Nat \union {Null} /\ table[o].trigger \in Nat \union {Null}
         /\ table[o].start \in Nat \union {Null} /\ table[o].quantity \in Nat \union {Null}
         /\ table[o].status \in Statuses /\ table[o].warning \in Warnings
         /\ table[o].parts \in SUBSET Part /\ IsFiniteSet(table[o].parts)
<1>1. o \in Orders /\ o \in Nat /\ table[o] \in Rows
  BY OrdersAreNumbers DEF Known, TypeOK
<1>2. table[o] \in Snapshot /\ IsFiniteSet(table[o].parts)
  BY <1>1, RowsAreSnapshots
<1>3. table[o] \in [status : Statuses, warning : Warnings, released : BOOLEAN,
          delivery : Moments \union {Null}, trigger : Moments \union {Null},
          start : Moments \union {Null}, end : Moments \union {Null},
          quantity : Nat \union {Null}, parts : SUBSET Part]
  BY <1>2 DEF Snapshot
<1> QED
  BY <1>1, <1>2, <1>3 DEF Moments

LEMMA AscendingIsOrder ==
  ASSUME NEW x \in Nat \union {Null}, NEW y \in Nat \union {Null}, NEW z \in Nat \union {Null}
  PROVE  /\ ~(Ascending(x, y) /\ Ascending(y, x))
         /\ Ascending(x, z) => Ascending(x, y) \/ Ascending(y, z)
BY NullIsApart DEF Ascending

LEMMA DescendingIsOrder ==
  ASSUME NEW x \in Nat \union {Null}, NEW y \in Nat \union {Null}, NEW z \in Nat \union {Null}
  PROVE  /\ ~(Descending(x, y) /\ Descending(y, x))
         /\ Descending(x, z) => Descending(x, y) \/ Descending(y, z)
BY NullIsApart DEF Descending

LEMMA AheadIs ==
  ASSUME NEW a, NEW b
  PROVE  /\ Ahead("id asc", a, b) <=> a < b
         /\ Ahead("id desc", a, b) <=> a > b
         /\ Ahead("abnormal first", a, b) <=>
              table[a].warning = "abnormal" /\ table[b].warning # "abnormal"
         /\ Ahead("unscheduled first", a, b) <=>
              table[a].status # "scheduled" /\ table[b].status = "scheduled"
         /\ Ahead("delivery asc", a, b) <=> Ascending(table[a].delivery, table[b].delivery)
         /\ Ahead("delivery desc", a, b) <=> Descending(table[a].delivery, table[b].delivery)
         /\ Ahead("quantity asc", a, b) <=> Ascending(table[a].quantity, table[b].quantity)
         /\ Ahead("quantity desc", a, b) <=> Descending(table[a].quantity, table[b].quantity)
<1>1. Ahead("id asc", a, b) <=> a < b
  BY Zenon DEF Ahead
<1>2. Ahead("id desc", a, b) <=> a > b
  BY Zenon DEF Ahead
<1>3. Ahead("abnormal first", a, b) <=>
        table[a].warning = "abnormal" /\ table[b].warning # "abnormal"
  BY Zenon DEF Ahead
<1>4. Ahead("unscheduled first", a, b) <=>
        table[a].status # "scheduled" /\ table[b].status = "scheduled"
  BY Zenon DEF Ahead
<1>5. Ahead("delivery asc", a, b) <=> Ascending(table[a].delivery, table[b].delivery)
  BY Zenon DEF Ahead
<1>6. Ahead("delivery desc", a, b) <=> Descending(table[a].delivery, table[b].delivery)
  BY Zenon DEF Ahead
<1>7. Ahead("quantity asc", a, b) <=> Ascending(table[a].quantity, table[b].quantity)
  BY Zenon DEF Ahead
<1>8. Ahead("quantity desc", a, b) <=> Descending(table[a].quantity, table[b].quantity)
  BY Zenon DEF Ahead
<1> QED
  BY <1>1, <1>2, <1>3, <1>4, <1>5, <1>6, <1>7, <1>8

\* Each column is an order with ties.
LEMMA AheadIsOrder ==
  ASSUME TypeOK, NEW c \in Columns, NEW a \in Known, NEW b \in Known, NEW d \in Known
  PROVE  /\ ~(Ahead(c, a, b) /\ Ahead(c, b, a))
         /\ Ahead(c, a, d) => Ahead(c, a, b) \/ Ahead(c, b, d)
<1>0. /\ a \in Nat /\ b \in Nat /\ d \in Nat
  BY KnownRow
<1>1. CASE c = "id asc"
  <2>1. /\ Ahead(c, a, b) <=> a < b
        /\ Ahead(c, b, a) <=> b < a
        /\ Ahead(c, a, d) <=> a < d
        /\ Ahead(c, b, d) <=> b < d
    BY <1>1, AheadIs, Zenon
  <2> QED
    BY <1>0, <2>1
<1>2. CASE c = "id desc"
  <2>1. /\ Ahead(c, a, b) <=> a > b
        /\ Ahead(c, b, a) <=> b > a
        /\ Ahead(c, a, d) <=> a > d
        /\ Ahead(c, b, d) <=> b > d
    BY <1>2, AheadIs, Zenon
  <2> QED
    BY <1>0, <2>1
<1>3. CASE c = "abnormal first"
  BY <1>3, AheadIs, Zenon
<1>4. CASE c = "unscheduled first"
  BY <1>4, AheadIs, Zenon
<1>5. CASE c = "delivery asc"
  <2>1. /\ table[a].delivery \in Nat \union {Null} /\ table[b].delivery \in Nat \union {Null}
        /\ table[d].delivery \in Nat \union {Null}
    BY KnownRow
  <2>2. /\ ~(Ascending(table[a].delivery, table[b].delivery) /\ Ascending(table[b].delivery, table[a].delivery))
        /\ Ascending(table[a].delivery, table[d].delivery) =>
             Ascending(table[a].delivery, table[b].delivery) \/ Ascending(table[b].delivery, table[d].delivery)
    BY <2>1, AscendingIsOrder, Zenon
  <2>3. /\ Ahead(c, a, b) <=> Ascending(table[a].delivery, table[b].delivery)
        /\ Ahead(c, b, a) <=> Ascending(table[b].delivery, table[a].delivery)
        /\ Ahead(c, a, d) <=> Ascending(table[a].delivery, table[d].delivery)
        /\ Ahead(c, b, d) <=> Ascending(table[b].delivery, table[d].delivery)
    BY <1>5, AheadIs, Zenon
  <2> QED
    BY <2>2, <2>3, Zenon
<1>6. CASE c = "delivery desc"
  <2>1. /\ table[a].delivery \in Nat \union {Null} /\ table[b].delivery \in Nat \union {Null}
        /\ table[d].delivery \in Nat \union {Null}
    BY KnownRow
  <2>2. /\ ~(Descending(table[a].delivery, table[b].delivery) /\ Descending(table[b].delivery, table[a].delivery))
        /\ Descending(table[a].delivery, table[d].delivery) =>
             Descending(table[a].delivery, table[b].delivery) \/ Descending(table[b].delivery, table[d].delivery)
    BY <2>1, DescendingIsOrder, Zenon
  <2>3. /\ Ahead(c, a, b) <=> Descending(table[a].delivery, table[b].delivery)
        /\ Ahead(c, b, a) <=> Descending(table[b].delivery, table[a].delivery)
        /\ Ahead(c, a, d) <=> Descending(table[a].delivery, table[d].delivery)
        /\ Ahead(c, b, d) <=> Descending(table[b].delivery, table[d].delivery)
    BY <1>6, AheadIs, Zenon
  <2> QED
    BY <2>2, <2>3, Zenon
<1>7. CASE c = "quantity asc"
  <2>1. /\ table[a].quantity \in Nat \union {Null} /\ table[b].quantity \in Nat \union {Null}
        /\ table[d].quantity \in Nat \union {Null}
    BY KnownRow
  <2>2. /\ ~(Ascending(table[a].quantity, table[b].quantity) /\ Ascending(table[b].quantity, table[a].quantity))
        /\ Ascending(table[a].quantity, table[d].quantity) =>
             Ascending(table[a].quantity, table[b].quantity) \/ Ascending(table[b].quantity, table[d].quantity)
    BY <2>1, AscendingIsOrder, Zenon
  <2>3. /\ Ahead(c, a, b) <=> Ascending(table[a].quantity, table[b].quantity)
        /\ Ahead(c, b, a) <=> Ascending(table[b].quantity, table[a].quantity)
        /\ Ahead(c, a, d) <=> Ascending(table[a].quantity, table[d].quantity)
        /\ Ahead(c, b, d) <=> Ascending(table[b].quantity, table[d].quantity)
    BY <1>7, AheadIs, Zenon
  <2> QED
    BY <2>2, <2>3, Zenon
<1>8. CASE c = "quantity desc"
  <2>1. /\ table[a].quantity \in Nat \union {Null} /\ table[b].quantity \in Nat \union {Null}
        /\ table[d].quantity \in Nat \union {Null}
    BY KnownRow
  <2>2. /\ ~(Descending(table[a].quantity, table[b].quantity) /\ Descending(table[b].quantity, table[a].quantity))
        /\ Descending(table[a].quantity, table[d].quantity) =>
             Descending(table[a].quantity, table[b].quantity) \/ Descending(table[b].quantity, table[d].quantity)
    BY <2>1, DescendingIsOrder, Zenon
  <2>3. /\ Ahead(c, a, b) <=> Descending(table[a].quantity, table[b].quantity)
        /\ Ahead(c, b, a) <=> Descending(table[b].quantity, table[a].quantity)
        /\ Ahead(c, a, d) <=> Descending(table[a].quantity, table[d].quantity)
        /\ Ahead(c, b, d) <=> Descending(table[b].quantity, table[d].quantity)
    BY <1>8, AheadIs, Zenon
  <2> QED
    BY <2>2, <2>3, Zenon
<1> QED
  BY <1>1, <1>2, <1>3, <1>4, <1>5, <1>6, <1>7, <1>8 DEF Columns

\* No two rows precede each other.
LEMMA PrecedesAsymmetric ==
  ASSUME TypeOK, NEW cs \in Seq(Columns), NEW a \in Known, NEW b \in Known,
         Precedes(cs, a, b)
  PROVE  ~Precedes(cs, b, a)
<1> SUFFICES ASSUME Precedes(cs, b, a) PROVE FALSE
  OBVIOUS
<1>1. PICK i \in DOMAIN cs : /\ Ahead(cs[i], a, b)
                             /\ \A k \in 1..(i - 1) : ~Ahead(cs[k], a, b) /\ ~Ahead(cs[k], b, a)
  BY DEF Precedes
<1>2. PICK j \in DOMAIN cs : /\ Ahead(cs[j], b, a)
                             /\ \A k \in 1..(j - 1) : ~Ahead(cs[k], b, a) /\ ~Ahead(cs[k], a, b)
  BY DEF Precedes
<1>3. i \in Nat /\ j \in Nat /\ i >= 1 /\ j >= 1 /\ cs[i] \in Columns
  OBVIOUS
<1>4. i = j
  BY <1>1, <1>2, <1>3
<1> QED
  BY <1>1, <1>2, <1>3, <1>4, AheadIsOrder

\* The order of the rows is one of chains.
LEMMA PrecedesTransitive ==
  ASSUME TypeOK, NEW cs \in Seq(Columns), NEW a \in Known, NEW b \in Known, NEW d \in Known,
         Precedes(cs, a, b), Precedes(cs, b, d)
  PROVE  Precedes(cs, a, d)
<1>1. PICK i \in DOMAIN cs : /\ Ahead(cs[i], a, b)
                             /\ \A k \in 1..(i - 1) : ~Ahead(cs[k], a, b) /\ ~Ahead(cs[k], b, a)
  BY DEF Precedes
<1>2. PICK j \in DOMAIN cs : /\ Ahead(cs[j], b, d)
                             /\ \A k \in 1..(j - 1) : ~Ahead(cs[k], b, d) /\ ~Ahead(cs[k], d, b)
  BY DEF Precedes
<1>3. /\ i \in Nat /\ j \in Nat /\ i >= 1 /\ j >= 1
      /\ DOMAIN cs = 1 .. Len(cs) /\ Len(cs) \in Nat
      /\ \A k \in DOMAIN cs : cs[k] \in Columns
  OBVIOUS
<1> DEFINE m == IF i < j THEN i ELSE j
<1>4. m \in DOMAIN cs /\ m <= i /\ m <= j
  BY <1>3
<1>5. ASSUME NEW k \in 1..(m - 1) PROVE ~Ahead(cs[k], a, d) /\ ~Ahead(cs[k], d, a)
  <2>1. k \in DOMAIN cs /\ k \in 1..(i - 1) /\ k \in 1..(j - 1)
    BY <1>3, <1>4
  <2>2. cs[k] \in Columns
    BY <1>3, <2>1
  <2> QED
    BY <1>1, <1>2, <2>1, <2>2, AheadIsOrder
<1>6. Ahead(cs[m], a, d)
  <2>0. cs[i] \in Columns /\ cs[j] \in Columns
    BY <1>3
  <2>1. CASE i < j
    BY <1>1, <1>2, <1>3, <2>0, <2>1, AheadIsOrder
  <2>2. CASE j < i
    BY <1>1, <1>2, <1>3, <2>0, <2>2, AheadIsOrder
  <2>3. CASE i = j
    BY <1>1, <1>2, <1>3, <2>0, <2>3, AheadIsOrder
  <2> QED
    BY <1>3, <2>1, <2>2, <2>3
<1> QED
  BY <1>4, <1>5, <1>6 DEF Precedes

Ids == {"id asc", "id desc"}

\* An order whose last column is the id leaves no two rows equal.
LEMMA PrecedesTotal ==
  ASSUME TypeOK, NEW cs \in Seq(Columns), Len(cs) > 0, cs[Len(cs)] \in Ids,
         NEW a \in Known, NEW b \in Known, a # b
  PROVE  Precedes(cs, a, b) \/ Precedes(cs, b, a)
<1> DEFINE T == {i \in DOMAIN cs : Ahead(cs[i], a, b) \/ Ahead(cs[i], b, a)}
<1>1. DOMAIN cs = 1 .. Len(cs) /\ Len(cs) \in Nat \ {0}
  OBVIOUS
<1>2. T \in SUBSET Nat
  BY <1>1
<1>3. Len(cs) \in T
  <2>1. a \in Nat /\ b \in Nat
    BY KnownRow
  <2>2. a < b \/ b < a
    BY <2>1
  <2>3. a > b \/ b > a
    BY <2>1
  <2>4. ASSUME NEW c \in Ids PROVE Ahead(c, a, b) \/ Ahead(c, b, a)
    <3>1. CASE c = "id asc"
      <4>1. (Ahead(c, a, b) <=> a < b) /\ (Ahead(c, b, a) <=> b < a)
        BY <3>1, AheadIs, Zenon
      <4> QED
        BY <2>2, <4>1
    <3>2. CASE c = "id desc"
      <4>1. (Ahead(c, a, b) <=> a > b) /\ (Ahead(c, b, a) <=> b > a)
        BY <3>2, AheadIs, Zenon
      <4> QED
        BY <2>3, <4>1
    <3> QED
      BY <3>1, <3>2 DEF Ids
  <2> QED
    BY <1>1, <2>4
<1>4. PICK m \in T : \A k \in T : m <= k
  <2> HIDE DEF T
  <2> QED
    BY <1>2, <1>3, LeastNatural
<1>5. ASSUME NEW k \in 1..(m - 1) PROVE ~Ahead(cs[k], a, b) /\ ~Ahead(cs[k], b, a)
  <2>1. k \in DOMAIN cs /\ k < m
    BY <1>1, <1>4
  <2> QED
    BY <1>1, <1>2, <1>4, <2>1
<1> QED
  BY <1>4, <1>5 DEF Precedes

LEMMA DefaultOrderColumns ==
  ASSUME NEW list \in Lists
  PROVE  /\ DefaultOrder(list) \in Seq(Columns)
         /\ Len(DefaultOrder(list)) \in {1, 2}
         /\ list \in Definite => DefaultOrder(list)[Len(DefaultOrder(list))] \in Ids
<1>1. \A c \in Columns : <<c>> \in Seq(Columns) /\ Len(<<c>>) = 1 /\ <<c>>[Len(<<c>>)] = c
  OBVIOUS
<1>2. \A c, d \in Columns :
        <<c, d>> \in Seq(Columns) /\ Len(<<c, d>>) = 2 /\ <<c, d>>[Len(<<c, d>>)] = d
  OBVIOUS
<1>3. {"delivery asc", "delivery desc"} \union Ids \subseteq Columns
  BY DEF Columns, Ids
<1>4. /\ "delivery asc" \in Columns /\ "delivery desc" \in Columns
      /\ "id asc" \in Columns /\ "id desc" \in Columns
      /\ "id asc" \in Ids /\ "id desc" \in Ids
  BY DEF Columns, Ids
<1>5. CASE list = "schedules"
  <2> DEFINE cs == <<"delivery asc", "id desc">>
  <2>1. DefaultOrder(list) = cs
    BY <1>5, Zenon DEF DefaultOrder
  <2>2. cs \in Seq(Columns) /\ Len(cs) \in {1, 2} /\ cs[Len(cs)] \in Ids
    BY <1>2, <1>4
  <2> HIDE DEF cs
  <2> QED
    BY <2>1, <2>2
<1>6. CASE list = "sources"
  <2> DEFINE cs == <<"id desc">>
  <2>1. DefaultOrder(list) = cs
    BY <1>6, Zenon DEF DefaultOrder
  <2>2. cs \in Seq(Columns) /\ Len(cs) \in {1, 2} /\ cs[Len(cs)] \in Ids
    BY <1>1, <1>4
  <2> HIDE DEF cs
  <2> QED
    BY <2>1, <2>2
<1>7. CASE list = "recent"
  <2> DEFINE cs == <<"delivery desc", "id desc">>
  <2>1. DefaultOrder(list) = cs
    BY <1>7, Zenon DEF DefaultOrder
  <2>2. cs \in Seq(Columns) /\ Len(cs) \in {1, 2} /\ cs[Len(cs)] \in Ids
    BY <1>2, <1>4
  <2> HIDE DEF cs
  <2> QED
    BY <2>1, <2>2
<1>8. CASE list = "children"
  <2> DEFINE cs == <<"delivery asc", "id asc">>
  <2>1. DefaultOrder(list) = cs
    BY <1>8, Zenon DEF DefaultOrder
  <2>2. cs \in Seq(Columns) /\ Len(cs) \in {1, 2} /\ cs[Len(cs)] \in Ids
    BY <1>2, <1>4
  <2> HIDE DEF cs
  <2> QED
    BY <2>1, <2>2
<1>9. CASE list = "loose"
  <2>1. DefaultOrder(list) = <<"delivery desc">> /\ list \notin Definite
    BY <1>9, Zenon DEF DefaultOrder, Definite
  <2>2. <<"delivery desc">> \in Seq(Columns) /\ Len(<<"delivery desc">>) = 1
    BY <1>1, <1>4
  <2> QED
    BY <2>1, <2>2, Zenon
<1> QED
  BY <1>5, <1>6, <1>7, <1>8, <1>9 DEF Lists

LEMMA LastOfConcat ==
  ASSUME NEW S, NEW s \in Seq(S), NEW t \in Seq(S), Len(t) > 0
  PROVE  /\ s \o t \in Seq(S)
         /\ Len(s \o t) > 0
         /\ (s \o t)[Len(s \o t)] = t[Len(t)]
OBVIOUS

LEMMA OrderByColumns ==
  ASSUME NEW list \in Lists, NEW sort \in Sorts
  PROVE  /\ OrderBy(list, sort) \in Seq(Columns)
         /\ Len(OrderBy(list, sort)) > 0
         /\ list \in Definite => OrderBy(list, sort)[Len(OrderBy(list, sort))] \in Ids
<1> DEFINE default == DefaultOrder(list)
<1>1. /\ default \in Seq(Columns) /\ Len(default) \in {1, 2}
      /\ list \in Definite => default[Len(default)] \in Ids
  BY DefaultOrderColumns
<1>2. sort \in Seq(Columns) /\ Len(sort) \in Nat
  <2>1. \A c \in Columns : <<c>> \in Seq(Columns)
    OBVIOUS
  <2>2. <<>> \in Seq(Columns)
    OBVIOUS
  <2>3. sort \in Seq(Columns)
    BY <2>1, <2>2, Zenon DEF Sorts, Columns
  <2> QED
    BY <2>3
<1>3. OrderBy(list, sort) = sort \o default
  BY DEF OrderBy
<1> HIDE DEF default
<1>4. /\ sort \o default \in Seq(Columns)
      /\ Len(sort \o default) > 0
      /\ (sort \o default)[Len(sort \o default)] = default[Len(default)]
  <2>1. Len(default) > 0
    BY <1>1
  <2> QED
    BY <1>1, <1>2, <2>1, LastOfConcat
<1> QED
  BY <1>1, <1>3, <1>4

-----------------------------------------------------------------------------
(* Sorting *)

\* q has every row of S once, in the order of the columns.
InOrder(q, S, cs) ==
  /\ q \in [1..Cardinality(S) -> S]
  /\ \A i, j \in 1..Cardinality(S) : i < j => q[i] # q[j] /\ ~Precedes(cs, q[j], q[i])

\* A sequence without repetitions and as long as the set it is drawn from misses nothing.
LEMMA EveryRowOnce ==
  ASSUME NEW S, IsFiniteSet(S), NEW q \in [1..Cardinality(S) -> S],
         \A i, j \in 1..Cardinality(S) : i < j => q[i] # q[j]
  PROVE  \A x \in S : \E i \in 1..Cardinality(S) : q[i] = x
<1> DEFINE n == Cardinality(S)
<1>1. n \in Nat
  BY FS_CardinalityType
<1> HIDE DEF n
<1>2. q \in [1..n -> S] /\ \A i, j \in 1..n : i < j => q[i] # q[j]
  BY DEF n
<1>3. \A i, j \in 1..n : q[i] = q[j] => i = j
  BY <1>1, <1>2
<1>4. q \in Injection(1..n, S)
  BY <1>2, <1>3 DEF Injection, IsInjective
<1>5. Cardinality(1..n) = n /\ IsFiniteSet(1..n)
  BY <1>1, FS_Interval
<1>6. q \in Surjection(1..n, S)
  BY <1>4, <1>5, FS_Injection DEF n
<1> QED
  BY <1>6 DEF Surjection, n

\* An order that leaves no two rows equal allows one sequence.
LEMMA SortedIsUnique ==
  ASSUME TypeOK, NEW cs \in Seq(Columns), Len(cs) > 0, cs[Len(cs)] \in Ids,
         NEW S \in SUBSET Known, NEW p, NEW q, InOrder(p, S, cs), InOrder(q, S, cs)
  PROVE  p = q
<1> DEFINE n == Cardinality(S)
           T == {i \in 1..n : p[i] # q[i]}
<1>1. IsFiniteSet(S) /\ n \in Nat
  BY SelectedIsFinite, FS_Subset, FS_CardinalityType
<1>2. /\ p \in [1..n -> S] /\ q \in [1..n -> S]
      /\ \A i, j \in 1..n : i < j => p[i] # p[j] /\ ~Precedes(cs, p[j], p[i])
      /\ \A i, j \in 1..n : i < j => q[i] # q[j] /\ ~Precedes(cs, q[j], q[i])
  BY DEF InOrder
<1>3. /\ \A x \in S : \E i \in 1..n : p[i] = x
      /\ \A x \in S : \E i \in 1..n : q[i] = x
  BY <1>1, <1>2, EveryRowOnce
<1> HIDE DEF n
<1>4. ASSUME T # {} PROVE FALSE
  <2>1. T \in SUBSET Nat
    BY <1>1
  <2>2. PICK m \in T : \A k \in T : m <= k
    <3> HIDE DEF T
    <3> QED
      BY <1>4, <2>1, LeastNatural
  <2>3. m \in 1..n /\ p[m] # q[m] /\ p[m] \in S /\ q[m] \in S
    BY <1>2, <2>2
  <2>4. ASSUME NEW k \in 1..n, k < m PROVE p[k] = q[k]
    BY <1>1, <2>2, <2>3, <2>4
  <2>5. PICK i \in 1..n : p[i] = q[m]
    BY <1>3, <2>3
  <2>6. PICK j \in 1..n : q[j] = p[m]
    BY <1>3, <2>3
  <2>7. m < i
    <3>1. i # m
      BY <2>3, <2>5
    <3>2. ASSUME i < m PROVE FALSE
      BY <1>2, <2>3, <2>4, <2>5, <3>2
    <3> QED
      BY <1>1, <2>3, <3>1, <3>2
  <2>8. m < j
    <3>1. j # m
      BY <2>3, <2>6
    <3>2. ASSUME j < m PROVE FALSE
      BY <1>2, <2>3, <2>4, <2>6, <3>2
    <3> QED
      BY <1>1, <2>3, <3>1, <3>2
  <2>9. ~Precedes(cs, q[m], p[m])
    BY <1>2, <2>3, <2>5, <2>7
  <2>10. ~Precedes(cs, p[m], q[m])
    BY <1>2, <2>3, <2>6, <2>8
  <2> QED
    BY <2>3, <2>9, <2>10, PrecedesTotal
<1>5. \A i \in 1..n : p[i] = q[i]
  BY <1>4
<1>6. p = [i \in 1..n |-> p[i]] /\ q = [i \in 1..n |-> q[i]]
  BY <1>2
<1>7. [i \in 1..n |-> p[i]] = [i \in 1..n |-> q[i]]
  BY <1>5
<1> QED
  BY <1>6, <1>7, Zenon

\* Of finitely many rows one comes before no other.
LEMMA SomeRowIsFirst ==
  ASSUME TypeOK, NEW cs \in Seq(Columns), NEW S \in SUBSET Known, S # {}
  PROVE  \E m \in S : \A x \in S : ~Precedes(cs, x, m)
<1> DEFINE Sooner(x) == {y \in S : Precedes(cs, y, x)}
           F == {Sooner(x) : x \in S}
<1>1. F # {} /\ \A U \in F : IsFiniteSet(U)
  <2>1. IsFiniteSet(S)
    BY SelectedIsFinite, FS_Subset
  <2>2. \A x \in S : Sooner(x) \in SUBSET S
    OBVIOUS
  <2> HIDE DEF Sooner
  <2>3. \A x \in S : IsFiniteSet(Sooner(x))
    BY <2>1, <2>2, FS_Subset
  <2> QED
    BY <2>3
<1>2. PICK M \in F : \A U \in F : U \subseteq M => U = M
  <2> HIDE DEF F
  <2> QED
    BY <1>1, SmallestFinite
<1>3. PICK m \in S : M = Sooner(m)
  OBVIOUS
<1>4. ASSUME NEW x \in S, Precedes(cs, x, m) PROVE FALSE
  <2>1. x \in M /\ Sooner(x) \in F
    BY <1>3, <1>4
  <2>2. Sooner(x) \subseteq M
    BY <1>3, <1>4, PrecedesTransitive
  <2>3. x \notin Sooner(x)
    BY PrecedesAsymmetric
  <2> HIDE DEF F, Sooner
  <2> QED
    BY <1>2, <2>1, <2>2, <2>3
<1> QED
  BY <1>4

\* Any rows can be sorted.
LEMMA SortedExists ==
  ASSUME TypeOK, NEW cs \in Seq(Columns), NEW S \in SUBSET Known
  PROVE  \E q : InOrder(q, S, cs)
<1> DEFINE F == {T \in SUBSET S : ~ \E q : InOrder(q, T, cs)}
<1> SUFFICES ASSUME F # {} PROVE FALSE
  OBVIOUS
<1>1. IsFiniteSet(S)
  BY SelectedIsFinite, FS_Subset
<1>2. \A T \in F : IsFiniteSet(T)
  BY <1>1, FS_Subset
<1>3. PICK T \in F : \A U \in F : U \subseteq T => U = T
  <2> HIDE DEF F
  <2> QED
    BY <1>2, SmallestFinite
<1>4. T \in SUBSET Known /\ IsFiniteSet(T) /\ ~ \E q : InOrder(q, T, cs)
  BY <1>2, <1>3
<1>5. T # {}
  <2>1. SUFFICES ASSUME T = {} PROVE InOrder(<<>>, T, cs)
    BY <1>4
  <2>2. Cardinality(T) = 0
    BY <2>1, FS_EmptySet
  <2> QED
    BY <2>1, <2>2 DEF InOrder
<1>6. PICK m \in T : \A x \in T : ~Precedes(cs, x, m)
  BY <1>4, <1>5, SomeRowIsFirst
<1> DEFINE U == T \ {m}
           n == Cardinality(U)
<1>7. IsFiniteSet(U) /\ n \in Nat /\ Cardinality(T) = n + 1
  <2>1. IsFiniteSet(U) /\ Cardinality(U) = Cardinality(T) - 1 /\ Cardinality(T) \in Nat
    BY <1>4, FS_RemoveElement, FS_CardinalityType
  <2>2. Cardinality(U) \in Nat
    BY <2>1, FS_CardinalityType
  <2> QED
    BY <2>1, <2>2
<1>8. PICK q : InOrder(q, U, cs)
  <2>1. U \in SUBSET S /\ U \subseteq T /\ U # T
    BY <1>3, <1>6
  <2>2. U \notin F
    <3> HIDE DEF F, U
    <3> QED
      BY <1>3, <2>1
  <2> HIDE DEF U
  <2> QED
    BY <2>1, <2>2
<1> DEFINE r == [i \in 1..(n + 1) |-> IF i = 1 THEN m ELSE q[i - 1]]
<1>9. /\ q \in [1..n -> U]
      /\ \A i, j \in 1..n : i < j => q[i] # q[j] /\ ~Precedes(cs, q[j], q[i])
  BY <1>8 DEF InOrder
<1>10. \A x \in U : x \in T /\ x # m
  OBVIOUS
<1> HIDE DEF n, U
<1>11. \A i \in 2..(n + 1) : i - 1 \in 1..n /\ r[i] = q[i - 1] /\ q[i - 1] \in U
  BY <1>7, <1>9
<1>12. r[1] = m /\ r \in [1..(n + 1) -> T]
  BY <1>7, <1>9, <1>10, <1>11
<1>13. ASSUME NEW i \in 1..(n + 1), NEW j \in 1..(n + 1), i < j
       PROVE  r[i] # r[j] /\ ~Precedes(cs, r[j], r[i])
  <2>0. j \in 2..(n + 1)
    BY <1>7, <1>13
  <2>1. j \in 2..(n + 1) /\ r[j] \in U
    <3>1. r[j] = q[j - 1] /\ q[j - 1] \in U
      BY <1>11, <2>0
    <3> QED
      BY <2>0, <3>1, Zenon
  <2>2. CASE i = 1
    BY <1>6, <1>10, <1>12, <2>1, <2>2
  <2>3. CASE i # 1
    <3>1. i \in 2..(n + 1) /\ i - 1 < j - 1
      BY <1>7, <1>13, <2>3
    <3> HIDE DEF r
    <3> QED
      BY <1>9, <1>11, <2>1, <3>1
  <2> QED
    BY <2>2, <2>3
<1>14. InOrder(r, T, cs)
  <2> HIDE DEF r
  <2> QED
    BY <1>7, <1>12, <1>13 DEF InOrder
<1> QED
  BY <1>4, <1>14

\* There is a listing of every selection, and one only if the order is definite.
LEMMA ListingExists ==
  ASSUME TypeOK, NEW list \in Lists, NEW f, NEW sort \in Sorts
  PROVE  Listing(list, f, sort) # {}
<1>1. PICK q : InOrder(q, Selected(f), OrderBy(list, sort))
  BY SortedExists, OrderByColumns, SelectedIsFinite
<1>2. q \in Listing(list, f, sort)
  BY <1>1 DEF Listing, InOrder
<1> QED
  BY <1>2

LEMMA ListingUnique ==
  ASSUME TypeOK, NEW list \in Definite, NEW f, NEW sort \in Sorts,
         NEW p \in Listing(list, f, sort), NEW q \in Listing(list, f, sort)
  PROVE  p = q
<1>1. list \in Lists
  BY DEF Definite, Lists
<1>2. InOrder(p, Selected(f), OrderBy(list, sort)) /\ InOrder(q, Selected(f), OrderBy(list, sort))
  BY DEF Listing, InOrder
<1> QED
  BY <1>1, <1>2, SortedIsUnique, OrderByColumns, SelectedIsFinite

-----------------------------------------------------------------------------
(* Reading *)

\* A step that leaves the table alone leaves every list as it was.
LEMMA SameTable ==
  ASSUME table' = table, NEW CONSTANT list, NEW CONSTANT f, NEW CONSTANT sort
  PROVE  /\ Selected(f)' = Selected(f)
         /\ Count(f)' = Count(f)
         /\ Listing(list, f, sort)' = Listing(list, f, sort)
<1>1. Selected(f)' = Selected(f)
  BY Zenon DEF Selected, Known, Matches
<1>2. Count(f)' = Count(f)
  BY <1>1 DEF Count
<1>3. ASSUME NEW CONSTANT c, NEW CONSTANT a, NEW CONSTANT b PROVE Ahead(c, a, b)' = Ahead(c, a, b)
  BY Zenon DEF Ahead
<1>4. ASSUME NEW CONSTANT cs, NEW CONSTANT a, NEW CONSTANT b PROVE Precedes(cs, a, b)' = Precedes(cs, a, b)
  BY <1>3, Zenon DEF Precedes
<1>5. Listing(list, f, sort)' = Listing(list, f, sort)
  BY <1>1, <1>4, Zenon DEF Listing
<1> QED
  BY <1>1, <1>2, <1>5

\* Two stretches of a sequence that meet are one.
LEMMA StretchesMeet ==
  ASSUME NEW S, NEW q \in Seq(S), NEW a \in Nat, NEW b \in Nat, a <= b, b <= Len(q)
  PROVE  SubSeq(q, 1, a) \o SubSeq(q, a + 1, b) = SubSeq(q, 1, b)
<1> DEFINE s == SubSeq(q, 1, a)
           t == SubSeq(q, a + 1, b)
           u == SubSeq(q, 1, b)
<1>1. /\ s \in Seq(S) /\ Len(s) = a
      /\ \A i \in 1..a : s[i] = q[i]
  BY SubSeqProperties
<1>2. /\ t \in Seq(S) /\ Len(t) = b - a
      /\ \A i \in 1..(b - a) : t[i] = q[a + i]
  BY SubSeqProperties
<1>3. /\ u \in Seq(S) /\ Len(u) = b
      /\ \A i \in 1..b : u[i] = q[i]
  BY SubSeqProperties
<1> HIDE DEF s, t, u
<1>4. s \o t \in Seq(S) /\ Len(s \o t) = b
  <2>1. s \o t \in Seq(S) /\ Len(s \o t) = Len(s) + Len(t)
    BY <1>1, <1>2, ConcatProperties
  <2>2. Len(s) + Len(t) = b
    BY <1>1, <1>2
  <2> QED
    BY <2>1, <2>2, Zenon
<1>5. ASSUME NEW i \in 1..b PROVE (s \o t)[i] = u[i]
  <2>1. CASE i <= a
    BY <1>1, <1>2, <1>3, <2>1
  <2>2. CASE i > a
    <3>1. i - a \in 1..(b - a) /\ a + (i - a) = i
      BY <2>2
    <3>2. (s \o t)[i] = t[i - a]
      BY <1>1, <1>2, <2>2
    <3>3. t[i - a] = q[i]
      BY <1>2, <3>1
    <3> QED
      BY <1>3, <3>2, <3>3
  <2>3. i <= a \/ i > a
    OBVIOUS
  <2> QED
    BY <2>1, <2>2, <2>3, Zenon
<1>6. s \o t = u
  BY <1>3, <1>4, <1>5, SeqEqual
<1> QED
  BY <1>6 DEF s, t, u

LEMMA ReadingInit == Init => ReadingInv
<1> SUFFICES ASSUME Init PROVE ReadingInv
  OBVIOUS
<1>1. table \in [Orders -> Rows \union {NoRow}]
  BY DEF Init
<1>2. reader = Idle /\ dirty = FALSE
  BY DEF Init
<1> QED
  BY <1>1, <1>2, IdleIsReader DEF ReadingInv, TypeOK, FileInv, PagesInv

\* The first page is due, and nothing has been received.
LEMMA BeginPagesKeeps ==
  ASSUME ReadingInv, BeginPages
  PROVE  ReadingInv'
<1>1. /\ reader' \in Reader /\ dirty' = FALSE /\ table' = table
      /\ reader'.kind = "pages" /\ reader'.state = "count"
      /\ reader'.page = 1 /\ reader'.seen = <<>>
  BY BegunPages
<1>2. TypeOK'
  BY <1>1 DEF ReadingInv, TypeOK
<1>3. Before' = 0
  BY <1>1, SizesArePositive DEF Before
<1>4. ASSUME NEW CONSTANT q \in Seq(Orders) PROVE 0 <= Len(q) /\ <<>> = SubSeq(q, 1, 0)
  OBVIOUS
<1>5. PagesInv'
  <2>1. ASSUME NEW CONSTANT list, NEW CONSTANT f, NEW CONSTANT sort,
               NEW CONSTANT q \in Listing(list, f, sort)'
        PROVE  0 <= Len(q) /\ <<>> = SubSeq(q, 1, 0)
    BY <1>1, <1>4, SameTable, ListingIsSeq
  <2>2. \A q \in Listing(reader.list, reader.filter, reader.sort)' :
          0 <= Len(q) /\ <<>> = SubSeq(q, 1, 0)
    BY <2>1
  <2> QED
    BY <1>1, <1>3, <2>2 DEF PagesInv
<1> QED
  BY <1>1, <1>2, <1>5 DEF ReadingInv, FileInv

LEMMA CountRowsKeeps ==
  ASSUME ReadingInv, CountRows
  PROVE  ReadingInv'
<1>1. /\ reader \in Reader /\ table' = table /\ dirty' = dirty
      /\ reader.state = "count"
      /\ reader' = [reader EXCEPT !.state = "items", !.total = Count(reader.filter)]
  BY DEF CountRows, ReadingInv, TypeOK
<1>2. Count(reader.filter) \in Nat
  BY SelectedIsFinite
<1>3. /\ reader' \in Reader
      /\ reader'.state = "items" /\ reader'.total = Count(reader.filter)
      /\ reader'.kind = reader.kind /\ reader'.list = reader.list /\ reader'.filter = reader.filter
      /\ reader'.sort = reader.sort /\ reader'.page = reader.page /\ reader'.seen = reader.seen
  BY <1>1, <1>2 DEF Reader
<1>4. reader.kind = "pages"
  BY <1>1 DEF ReadingInv, FileInv, TypeOK, Reader
<1>5. TypeOK'
  BY <1>1, <1>3 DEF ReadingInv, TypeOK
<1>6. PagesInv'
  <2>1. \A list, f, sort : /\ Listing(list, f, sort)' = Listing(list, f, sort)
                           /\ Count(f)' = Count(f)
    BY <1>1, SameTable
  <2>2. PICK list, f, sort : list = reader.list /\ f = reader.filter /\ sort = reader.sort
    OBVIOUS
  <2>3. Before' = Before
    BY <1>3 DEF Before
  <2> QED
    BY <1>1, <1>3, <1>4, <2>1, <2>2, <2>3 DEF ReadingInv, PagesInv
<1> QED
  BY <1>3, <1>4, <1>5, <1>6 DEF ReadingInv, FileInv

\* The page that is due is the next stretch of the list; the last page ends it.
LEMMA ReadPageKeeps ==
  ASSUME ReadingInv, ReadPage
  PROVE  ReadingInv'
<1>1. PICK q \in Listing(reader.list, reader.filter, reader.sort) :
        reader' = [reader EXCEPT
                     !.seen = @ \o Page(q, reader.page),
                     !.page = @ + 1,
                     !.state = IF reader.page * PageSize < reader.total THEN "count" ELSE "done"]
  BY DEF ReadPage
<1>2. reader \in Reader /\ reader.state = "items" /\ table' = table /\ dirty' = dirty
  BY DEF ReadPage, ReadingInv, TypeOK
<1>3. reader.kind = "pages" /\ reader.page \in Nat /\ reader.page >= 1
  BY <1>2 DEF ReadingInv, FileInv, PagesInv, Reader
<1> DEFINE n == reader.page
           a == (n - 1) * PageSize
           b == n * PageSize
           last == IF b < Len(q) THEN b ELSE Len(q)
<1>4. /\ q \in Seq(Orders) /\ Len(q) = Count(reader.filter)
      /\ Len(q) \in Nat
  BY ListingIsSeq
<1>5. /\ Page(q, n) \in Seq(Orders) /\ a \in Nat /\ b = a + PageSize
      /\ Page(q, n) = SubSeq(q, a + 1, last) /\ last \in Nat
  BY <1>3, <1>4, PageIsStretch
<1>6. reader.seen \in Seq(Orders) /\ reader.seen \o Page(q, n) \in Seq(Orders)
  BY <1>2, <1>5, ConcatProperties DEF Reader
<1>7. /\ reader' \in Reader
      /\ reader'.state = IF b < reader.total THEN "count" ELSE "done"
      /\ reader'.seen = reader.seen \o Page(q, n) /\ reader'.page = n + 1
      /\ reader'.kind = "pages" /\ reader'.list = reader.list /\ reader'.filter = reader.filter
      /\ reader'.sort = reader.sort /\ reader'.total = reader.total
  <2> DEFINE state == IF b < reader.total THEN "count" ELSE "done"
             seen == reader.seen \o Page(q, n)
  <2>1. state \in {"count", "done"} /\ seen \in Seq(Orders) /\ n + 1 \in Nat
    BY <1>3, <1>6
  <2>2. reader' = [reader EXCEPT !.seen = seen, !.page = n + 1, !.state = state]
    BY <1>1, Zenon
  <2> HIDE DEF state, seen, n
  <2>3. /\ reader' \in Reader
        /\ reader'.state = state /\ reader'.seen = seen /\ reader'.page = n + 1
        /\ reader'.kind = "pages" /\ reader'.list = reader.list /\ reader'.filter = reader.filter
        /\ reader'.sort = reader.sort /\ reader'.total = reader.total
    BY <1>2, <1>3, <2>1, <2>2 DEF Reader
  <2> QED
    BY <2>3 DEF state, seen
<1>8. TypeOK'
  BY <1>2, <1>7 DEF ReadingInv, TypeOK
<1>9. Before' = b /\ Before = a
  BY <1>3, <1>7 DEF Before
<1>10. /\ Listing(reader.list, reader.filter, reader.sort)' = Listing(reader.list, reader.filter, reader.sort)
  <2>1. \A list, f, sort : Listing(list, f, sort)' = Listing(list, f, sort)
    BY <1>2, SameTable
  <2>2. PICK list, f, sort : list = reader.list /\ f = reader.filter /\ sort = reader.sort
    OBVIOUS
  <2> QED
    BY <1>7, <2>1, <2>2
<1>11. ASSUME reader.list \in Definite, ~dirty
       PROVE  /\ reader'.state = "count" =>
                   \A p \in Listing(reader.list, reader.filter, reader.sort) :
                     b <= Len(p) /\ reader'.seen = SubSeq(p, 1, b)
              /\ reader'.state = "done" =>
                   /\ reader'.seen \in Listing(reader.list, reader.filter, reader.sort)
                   /\ reader'.total = Len(reader'.seen)
  <2>1. reader.total = Len(q) /\ a <= Len(q) /\ reader.seen = SubSeq(q, 1, a)
    BY <1>2, <1>3, <1>4, <1>9, <1>11 DEF ReadingInv, PagesInv
  <2>2. \A p \in Listing(reader.list, reader.filter, reader.sort) : p = q
    BY <1>2, <1>11, ListingUnique DEF ReadingInv, Reader
  <2>3. last <= Len(q) /\ a <= last
    <3> HIDE DEF a, b
    <3> QED
      BY <1>4, <1>5, <2>1, SizesArePositive
  <2>4. reader'.seen = SubSeq(q, 1, last)
    <3> HIDE DEF a, last
    <3> QED
      BY <1>4, <1>5, <1>7, <2>1, <2>3, StretchesMeet
  <2>5. CASE b < Len(q)
    <3>1. last = b /\ reader'.state = "count"
      BY <1>7, <2>1, <2>5
    <3> HIDE DEF b, last
    <3> QED
      BY <1>4, <1>5, <2>2, <2>3, <2>4, <3>1
  <2>6. CASE ~(b < Len(q))
    <3>1. last = Len(q) /\ reader'.state = "done"
      BY <1>7, <2>1, <2>6
    <3>2. SubSeq(q, 1, Len(q)) = q
      BY <1>4, SubSeqFull
    <3> HIDE DEF b, last
    <3> QED
      BY <1>7, <2>1, <2>4, <3>1, <3>2
  <2> QED
    BY <2>5, <2>6
<1>12. PagesInv'
  <2>1. reader'.state \in {"count", "done"} /\ reader'.page >= 1
    <3> HIDE DEF b
    <3> QED
      BY <1>3, <1>7
  <2> HIDE DEF b
  <2> QED
    BY <1>2, <1>7, <1>9, <1>10, <1>11, <2>1 DEF PagesInv
<1> QED
  BY <1>7, <1>8, <1>12 DEF ReadingInv, FileInv

LEMMA BeginFileKeeps ==
  ASSUME ReadingInv, BeginFile
  PROVE  ReadingInv'
<1>1. /\ reader' \in Reader /\ dirty' = FALSE /\ table' = table
      /\ reader'.kind = "file"
      /\ reader'.state = IF reader'.xlsx THEN "probe" ELSE "stream"
  BY BegunFile
<1>2. reader'.xlsx \in BOOLEAN
  BY <1>1 DEF Reader
<1> QED
  BY <1>1, <1>2 DEF ReadingInv, TypeOK, FileInv, PagesInv

\* The probe refuses exactly the files that are too long.
LEMMA ProbeKeeps ==
  ASSUME ReadingInv, Probe
  PROVE  ReadingInv'
<1> DEFINE long == BeyondLimit(Exported(reader.filter))
           state == IF long THEN "refused" ELSE "stream"
<1>1. /\ reader \in Reader /\ table' = table /\ dirty' = dirty
      /\ reader.state = "probe" /\ reader' = [reader EXCEPT !.state = state]
  BY DEF Probe, ReadingInv, TypeOK
<1>2. state \in {"refused", "stream"} /\ (state = "refused" <=> long)
  OBVIOUS
<1> HIDE DEF state, long
<1>3. /\ reader' \in Reader /\ reader'.state = state
      /\ reader'.kind = reader.kind /\ reader'.filter = reader.filter
      /\ reader'.xlsx = reader.xlsx /\ reader'.seen = reader.seen
  BY <1>1, <1>2 DEF Reader
<1>4. reader.kind = "file"
  BY <1>1 DEF ReadingInv, PagesInv, TypeOK, Reader
<1>5. TypeOK'
  BY <1>1, <1>3 DEF ReadingInv, TypeOK
<1>6. Count(Exported(reader.filter))' = Count(Exported(reader.filter))
  <2>1. \A f : Count(f)' = Count(f)
    BY <1>1, SameTable
  <2>2. PICK f : f = Exported(reader.filter)
    OBVIOUS
  <2>3. Exported(reader.filter)' = f
    BY <1>3, <2>2 DEF Exported
  <2> QED
    BY <2>1, <2>2, <2>3
<1>7. Count(Exported(reader.filter)) \in Nat /\ MaxRows \in Nat
  BY SelectedIsFinite, SizesArePositive
<1>8. long <=> Count(Exported(reader.filter)) > MaxRows
  BY DEF long, BeyondLimit
<1>9. FileInv'
  <2>1. CASE long
    BY <1>1, <1>2, <1>3, <1>4, <1>6, <1>7, <1>8, <2>1 DEF FileInv
  <2>2. CASE ~long
    BY <1>1, <1>2, <1>3, <1>4, <1>6, <1>7, <1>8, <2>2 DEF FileInv
  <2> QED
    BY <2>1, <2>2
<1> QED
  BY <1>2, <1>3, <1>4, <1>5, <1>9 DEF ReadingInv, PagesInv

\* The stream has as many rows as the probe saw, if no one wrote in between.
LEMMA StreamKeeps ==
  ASSUME ReadingInv, Stream
  PROVE  ReadingInv'
<1>1. PICK q \in Listing(reader.list, Exported(reader.filter), reader.sort) :
        reader' = [reader EXCEPT !.state = "done", !.seen = q]
  BY DEF Stream
<1>2. /\ reader \in Reader /\ table' = table /\ dirty' = dirty /\ reader.state = "stream"
  BY DEF Stream, ReadingInv, TypeOK
<1>3. q \in Seq(Orders) /\ Len(q) = Count(Exported(reader.filter))
  BY ListingIsSeq
<1>4. /\ reader' \in Reader /\ reader'.state = "done" /\ reader'.seen = q
      /\ reader'.kind = reader.kind /\ reader'.xlsx = reader.xlsx
  BY <1>1, <1>2, <1>3 DEF Reader
<1>5. reader.kind = "file"
  BY <1>2 DEF ReadingInv, PagesInv, TypeOK, Reader
<1>6. TypeOK'
  BY <1>2, <1>4 DEF ReadingInv, TypeOK
<1>7. FileInv'
  BY <1>2, <1>3, <1>4, <1>5 DEF ReadingInv, FileInv
<1> QED
  BY <1>4, <1>5, <1>6, <1>7 DEF ReadingInv, PagesInv

LEMMA CloseKeeps ==
  ASSUME ReadingInv, Close
  PROVE  ReadingInv'
BY IdleIsReader DEF Close, ReadingInv, TypeOK, FileInv, PagesInv

\* A commit while something is read is one the reader may have missed.
LEMMA WriteKeeps ==
  ASSUME ReadingInv, Write
  PROVE  ReadingInv'
<1>1. /\ reader' = reader /\ dirty' = (reader.kind # "idle")
  BY DEF Write
<1>2. TypeOK'
  BY <1>1 DEF ReadingInv, TypeOK, Write
<1>3. CASE reader.kind = "idle"
  BY <1>1, <1>2, <1>3 DEF ReadingInv, FileInv, PagesInv
<1>4. CASE reader.kind # "idle"
  BY <1>1, <1>2, <1>4 DEF ReadingInv, FileInv, PagesInv
<1> QED
  BY <1>3, <1>4

LEMMA ReadingStep == ReadingInv /\ [Next]_vars => ReadingInv'
<1> SUFFICES ASSUME ReadingInv, [Next]_vars PROVE ReadingInv'
  OBVIOUS
<1>1. CASE UNCHANGED vars
  <2>1. table' = table /\ reader' = reader /\ dirty' = dirty
    BY <1>1 DEF vars
  <2>2. \A list, f, sort : /\ Listing(list, f, sort)' = Listing(list, f, sort)
                           /\ Count(f)' = Count(f)
    BY <2>1, SameTable
  <2>3. PICK list, f, sort, g : /\ list = reader.list /\ f = reader.filter /\ sort = reader.sort
                                /\ g = Exported(reader.filter)
    OBVIOUS
  <2>4. /\ Listing(reader.list, reader.filter, reader.sort)' = Listing(reader.list, reader.filter, reader.sort)
        /\ Count(reader.filter)' = Count(reader.filter)
        /\ Count(Exported(reader.filter))' = Count(Exported(reader.filter))
    BY <2>1, <2>2, <2>3 DEF Exported
  <2>5. TypeOK' /\ Before' = Before
    BY <2>1 DEF ReadingInv, TypeOK, Before
  <2>6. FileInv'
    BY <2>1, <2>4 DEF ReadingInv, FileInv
  <2>7. PagesInv'
    BY <2>1, <2>4, <2>5 DEF ReadingInv, PagesInv
  <2> QED
    BY <2>1, <2>5, <2>6, <2>7 DEF ReadingInv
<1> QED
  BY <1>1, BeginPagesKeeps, CountRowsKeeps, ReadPageKeeps, BeginFileKeeps, ProbeKeeps,
     StreamKeeps, CloseKeeps, WriteKeeps DEF Next

\* What every moment of reading keeps: a file is no longer than its probe allowed, and the
\* pages received are the beginning of the one list their order allows.
THEOREM ReadingHolds == Spec => []ReadingInv
BY ReadingInit, ReadingStep, PTL DEF Spec

\* The types of the table and of the reader (order_schedule_snapshot and the list services).
THEOREM TypesHold == Spec => []TypeOK
<1>1. ReadingInv => TypeOK
  BY DEF ReadingInv
<1> QED
  BY ReadingHolds, <1>1, PTL

\* The page loop of the lists, with a count and a page per request: for every page size and any
\* number of rows, the pages of a table nobody writes to are the list an export gives.
THEOREM PagesHold == Spec => []PagesCoverTheList
<1>1. ReadingInv => PagesCoverTheList
  BY DEF ReadingInv, PagesInv, PagesCoverTheList
<1> QED
  BY ReadingHolds, <1>1, PTL

\* The probe and the stream of an xlsx export: whatever the limit, a file that a writer has not
\* overtaken has at most that many rows, and only longer ones are refused.
THEOREM XlsxHolds == Spec => []XlsxFits
<1>1. ReadingInv => XlsxFits
  BY DEF ReadingInv, FileInv, XlsxFits
<1> QED
  BY ReadingHolds, <1>1, PTL

-----------------------------------------------------------------------------
(* What the filters of the dashboard select *)

\* Filters whose days are any integers, as the dashboard computes them.
WideFilter == [status : Statuses \union {Null}, bucket : {"unscheduled", "risk", Null},
               warning : Warnings \union {Null}, released : BOOLEAN \union {Null},
               from : Int \union {Null}, to : Int \union {Null}]

LEMMA NoFilterIsWide ==
  /\ NoFilter \in WideFilter
  /\ NoFilter.status = Null /\ NoFilter.bucket = Null /\ NoFilter.warning = Null
  /\ NoFilter.released = Null /\ NoFilter.from = Null /\ NoFilter.to = Null
BY DEF NoFilter, WideFilter

LEMMA InBucketIs ==
  ASSUME NEW r
  PROVE  /\ InBucket("unscheduled", r) <=> r.status # "scheduled"
         /\ InBucket("risk", r) <=> r.status # "scheduled" \/ r.warning = "abnormal"
         /\ InBucket(Null, r)
<1>1. Null # "unscheduled" /\ Null # "risk"
  BY NullIsApart
<1>2. InBucket("unscheduled", r) <=> r.status # "scheduled"
  BY Zenon DEF InBucket
<1>3. InBucket("risk", r) <=> r.status # "scheduled" \/ r.warning = "abnormal"
  BY Zenon DEF InBucket
<1>4. InBucket(Null, r)
  BY <1>1, Zenon DEF InBucket
<1> QED
  BY <1>2, <1>3, <1>4

\* What a filter without days selects.
LEMMA SelectedAnyDay ==
  ASSUME TypeOK, NEW f \in WideFilter, f.from = Null, f.to = Null, f.released = Null
  PROVE  Selected(f) = {o \in Known : /\ f.status = Null \/ table[o].status = f.status
                                      /\ f.warning = Null \/ table[o].warning = f.warning
                                      /\ InBucket(f.bucket, table[o])}
<1>1. ASSUME NEW o \in Known
      PROVE  Matches(f, table[o]) <=> /\ f.status = Null \/ table[o].status = f.status
                                      /\ f.warning = Null \/ table[o].warning = f.warning
                                      /\ InBucket(f.bucket, table[o])
  BY Zenon DEF Matches
<1> QED
  BY <1>1 DEF Selected

\* What a filter with both days selects.
LEMMA SelectedInDays ==
  ASSUME TypeOK, NEW f \in WideFilter, f.from \in Int, f.to \in Int, f.released = Null
  PROVE  Selected(f) = {o \in Within("delivery", f.from, f.to + 1) :
                           /\ f.status = Null \/ table[o].status = f.status
                           /\ f.warning = Null \/ table[o].warning = f.warning
                           /\ InBucket(f.bucket, table[o])}
<1>0. f.from # Null /\ f.to # Null
  BY NullIsApart
<1>1. ASSUME NEW o \in Known
      PROVE  (table[o].delivery # Null /\ table[o].delivery >= From(f.from) /\ table[o].delivery < Until(f.to))
               <=> table[o].delivery \in Window(f.from, f.to + 1)
  <2>1. table[o].delivery \in Nat \union {Null}
    BY KnownRow
  <2>2. From(f.from) = 2 * f.from /\ Until(f.to) = 2 * (f.to + 1)
    BY DEF From, Until, Midnight
  <2>3. Window(f.from, f.to + 1) = (2 * f.from) .. (2 * (f.to + 1) - 1)
    BY DEF Window, Midnight
  <2>4. ASSUME NEW x \in Nat \union {Null}, NEW lo \in Int, NEW hi \in Int
        PROVE  (x # Null /\ x >= lo /\ x < hi) <=> x \in lo .. (hi - 1)
    BY NullIsApart
  <2>5. 2 * f.from \in Int /\ 2 * (f.to + 1) \in Int
    OBVIOUS
  <2> QED
    BY <2>1, <2>2, <2>3, <2>4, <2>5
<1>2. ASSUME NEW o \in Known
      PROVE  Matches(f, table[o]) <=>
               /\ table[o].delivery \in Window(f.from, f.to + 1)
               /\ f.status = Null \/ table[o].status = f.status
               /\ f.warning = Null \/ table[o].warning = f.warning
               /\ InBucket(f.bucket, table[o])
  BY <1>0, <1>1, Zenon DEF Matches
<1>3. Within("delivery", f.from, f.to + 1) =
        {o \in Known : table[o].delivery \in Window(f.from, f.to + 1)}
  BY DEF Within
<1> QED
  BY <1>2, <1>3 DEF Selected

LEMMA WithinIsFinite ==
  ASSUME NEW field, NEW from, NEW to
  PROVE  /\ Within(field, from, to) \subseteq Known
         /\ IsFiniteSet(Within(field, from, to))
         /\ Cardinality(Within(field, from, to)) \in Nat
<1>1. Within(field, from, to) \subseteq Known
  BY DEF Within
<1> QED
  BY <1>1, SelectedIsFinite, FS_Subset, FS_CardinalityType

\* The tiles of a window of days are the totals of the list the window opens.
LEMMA WindowSummaryMatches ==
  ASSUME TypeOK, NEW from \in Int, NEW to \in Int
  PROVE  SummaryMatches(WindowSummary(from, to), Listed(from, to))
<1> DEFINE f == Listed(from, to)
           S == Within("delivery", from, to)
<1>1. /\ f \in WideFilter /\ f.from = from /\ f.to = to - 1 /\ f.to + 1 = to
      /\ f.status = Null /\ f.warning = Null /\ f.bucket = Null /\ f.released = Null
  <2>1. PICK g : g = NoFilter
    OBVIOUS
  <2>2. f = [g EXCEPT !.from = from, !.to = to - 1]
    BY <2>1 DEF Listed
  <2>3. PICK d \in Int : d = to - 1 /\ d + 1 = to
    OBVIOUS
  <2>4. /\ g \in WideFilter /\ g.status = Null /\ g.bucket = Null /\ g.warning = Null
        /\ g.released = Null
    BY <2>1, NoFilterIsWide
  <2> HIDE DEF f
  <2>5. f = [g EXCEPT !.from = from, !.to = d]
    BY <2>2, <2>3
  <2> QED
    BY <2>3, <2>4, <2>5 DEF WideFilter
<1> HIDE DEF f
<1>2. Selected(f) = S
  <2>1. Selected(f) = {o \in S : /\ f.status = Null \/ table[o].status = f.status
                                 /\ f.warning = Null \/ table[o].warning = f.warning
                                 /\ InBucket(f.bucket, table[o])}
    BY <1>1, SelectedInDays
  <2>2. \A o \in S : InBucket(f.bucket, table[o])
    BY <1>1, InBucketIs
  <2> HIDE DEF S
  <2> QED
    BY <1>1, <2>1, <2>2
<1>3. Selected([f EXCEPT !.bucket = "unscheduled"]) = {o \in S : table[o].status # "scheduled"}
  <2>1. PICK g : g = [f EXCEPT !.bucket = "unscheduled"]
    OBVIOUS
  <2>2. /\ g \in WideFilter /\ g.from = from /\ g.to = to - 1 /\ g.to + 1 = to
        /\ g.status = Null /\ g.warning = Null /\ g.bucket = "unscheduled" /\ g.released = Null
    BY <1>1, <2>1 DEF WideFilter
  <2>3. Selected(g) = {o \in S : table[o].status # "scheduled"}
    BY <2>2, SelectedInDays, InBucketIs
  <2> QED
    BY <2>1, <2>3
<1>4. Selected([f EXCEPT !.warning = "abnormal"]) = {o \in S : table[o].warning = "abnormal"}
  <2>1. PICK g : g = [f EXCEPT !.warning = "abnormal"]
    OBVIOUS
  <2>2. /\ g \in WideFilter /\ g.from = from /\ g.to = to - 1 /\ g.to + 1 = to
        /\ g.status = Null /\ g.warning = "abnormal" /\ g.bucket = Null /\ g.released = Null
    BY <1>1, <2>1 DEF WideFilter, Warnings
  <2>3. Selected(g) = {o \in S : table[o].warning = "abnormal"}
    BY <2>2, SelectedInDays, InBucketIs, NullIsApart DEF Warnings
  <2> QED
    BY <2>1, <2>3
<1> HIDE DEF S
<1>5. /\ WindowSummary(from, to).delivery = Cardinality(S)
      /\ WindowSummary(from, to).unscheduled = Cardinality({o \in S : table[o].status # "scheduled"})
      /\ WindowSummary(from, to).abnormal = Cardinality({o \in S : table[o].warning = "abnormal"})
  BY DEF WindowSummary, S
<1>6. SummaryMatches(WindowSummary(from, to), f)
  BY <1>2, <1>3, <1>4, <1>5 DEF SummaryMatches, Count
<1> QED
  BY <1>6 DEF f

\* The filters the dashboard's tiles lead to.
LEMMA TileFilters ==
  ASSUME TypeOK
  PROVE  /\ Selected(NoFilter) = Known
         /\ Selected([NoFilter EXCEPT !.warning = "abnormal"]) =
              {o \in Known : table[o].warning = "abnormal"}
         /\ Selected([NoFilter EXCEPT !.bucket = "unscheduled"]) =
              {o \in Known : table[o].status # "scheduled"}
         /\ Selected([NoFilter EXCEPT !.bucket = "risk"]) =
              {o \in Known : table[o].status # "scheduled" \/ table[o].warning = "abnormal"}
         /\ \A s \in Statuses : Selected([NoFilter EXCEPT !.status = s]) =
              {o \in Known : table[o].status = s}
<1>1. PICK g \in WideFilter :
        /\ g = NoFilter
        /\ g.status = Null /\ g.bucket = Null /\ g.warning = Null
        /\ g.released = Null /\ g.from = Null /\ g.to = Null
  BY NoFilterIsWide
<1>2. Selected(g) = Known
  <2>1. Selected(g) = {o \in Known : /\ g.status = Null \/ table[o].status = g.status
                                     /\ g.warning = Null \/ table[o].warning = g.warning
                                     /\ InBucket(g.bucket, table[o])}
    BY <1>1, SelectedAnyDay
  <2>2. \A o \in Known : InBucket(g.bucket, table[o])
    BY <1>1, InBucketIs
  <2> QED
    BY <1>1, <2>1, <2>2
<1>3. Selected([g EXCEPT !.warning = "abnormal"]) = {o \in Known : table[o].warning = "abnormal"}
  <2>1. PICK f : f = [g EXCEPT !.warning = "abnormal"]
    OBVIOUS
  <2>2. /\ f \in WideFilter /\ f.from = Null /\ f.to = Null /\ f.released = Null
        /\ f.status = Null /\ f.warning = "abnormal" /\ f.bucket = Null
    BY <1>1, <2>1 DEF WideFilter, Warnings
  <2>3. f.warning # Null
    BY <2>2, NullIsApart DEF Warnings
  <2>4. Selected(f) = {o \in Known : /\ f.status = Null \/ table[o].status = f.status
                                     /\ f.warning = Null \/ table[o].warning = f.warning
                                     /\ InBucket(f.bucket, table[o])}
    BY <2>2, SelectedAnyDay
  <2>5. \A o \in Known : InBucket(f.bucket, table[o])
    BY <2>2, InBucketIs
  <2> QED
    BY <2>1, <2>2, <2>3, <2>4, <2>5
<1>4. ASSUME NEW bucket \in {"unscheduled", "risk"}
      PROVE  Selected([g EXCEPT !.bucket = bucket]) = {o \in Known : InBucket(bucket, table[o])}
  <2>1. PICK f : f = [g EXCEPT !.bucket = bucket]
    OBVIOUS
  <2>2. /\ f \in WideFilter /\ f.from = Null /\ f.to = Null /\ f.released = Null
        /\ f.status = Null /\ f.warning = Null /\ f.bucket = bucket
    BY <1>1, <2>1 DEF WideFilter
  <2>3. Selected(f) = {o \in Known : /\ f.status = Null \/ table[o].status = f.status
                                     /\ f.warning = Null \/ table[o].warning = f.warning
                                     /\ InBucket(f.bucket, table[o])}
    BY <2>2, SelectedAnyDay
  <2> QED
    BY <2>1, <2>2, <2>3
<1>5. Selected([g EXCEPT !.bucket = "unscheduled"]) = {o \in Known : table[o].status # "scheduled"}
  BY <1>4, InBucketIs
<1>6. Selected([g EXCEPT !.bucket = "risk"]) =
        {o \in Known : table[o].status # "scheduled" \/ table[o].warning = "abnormal"}
  BY <1>4, InBucketIs
<1>7. ASSUME NEW s \in Statuses
      PROVE  Selected([g EXCEPT !.status = s]) = {o \in Known : table[o].status = s}
  <2>1. PICK f : f = [g EXCEPT !.status = s]
    OBVIOUS
  <2>2. /\ f \in WideFilter /\ f.from = Null /\ f.to = Null /\ f.released = Null
        /\ f.status = s /\ f.warning = Null /\ f.bucket = Null
    BY <1>1, <2>1 DEF WideFilter
  <2>3. f.status # Null
    BY <2>2, NullIsApart
  <2>4. Selected(f) = {o \in Known : /\ f.status = Null \/ table[o].status = f.status
                                     /\ f.warning = Null \/ table[o].warning = f.warning
                                     /\ InBucket(f.bucket, table[o])}
    BY <2>2, SelectedAnyDay
  <2>5. \A o \in Known : InBucket(f.bucket, table[o])
    BY <2>2, InBucketIs
  <2> QED
    BY <2>1, <2>2, <2>3, <2>4, <2>5
<1> QED
  BY <1>1, <1>2, <1>3, <1>5, <1>6, <1>7

\* Of finitely many rows, those without a plan are all but those with one.
LEMMA UnscheduledIs ==
  Unscheduled = Cardinality({o \in Known : table[o].status # "scheduled"})
<1> DEFINE A == {o \in Known : table[o].status = "scheduled"}
           B == {o \in Known : table[o].status # "scheduled"}
           n == MachineSummary.total - MachineSummary.scheduled
<1>1. B = Known \ A /\ Known \intersect A = A
  OBVIOUS
<1>2. MachineSummary.total = Cardinality(Known) /\ MachineSummary.scheduled = Cardinality(A)
  BY DEF MachineSummary
<1> HIDE DEF A, B
<1>3. Cardinality(B) = Cardinality(Known) - Cardinality(A) /\ Cardinality(B) \in Nat
  <2>1. IsFiniteSet(Known)
    BY SelectedIsFinite
  <2>2. /\ IsFiniteSet(Known \ A)
        /\ Cardinality(Known \ A) = Cardinality(Known) - Cardinality(Known \intersect A)
    BY <2>1, FS_Difference
  <2> QED
    BY <1>1, <2>2, FS_CardinalityType
<1>4. n = Cardinality(B)
  BY <1>2, <1>3
<1> HIDE DEF n
<1>5. Unscheduled = IF n > 0 THEN n ELSE 0
  BY DEF Unscheduled, n
<1> QED
  BY <1>3, <1>4, <1>5 DEF B

\* The tiles of the whole table are the totals of the lists they lead to.
LEMMA MachinesMatch ==
  ASSUME TypeOK
  PROVE  /\ MachineSummary.total = Count(NoFilter)
         /\ MachineSummary.abnormal = Count([NoFilter EXCEPT !.warning = "abnormal"])
         /\ Unscheduled = Count([NoFilter EXCEPT !.bucket = "unscheduled"])
         /\ \A s \in DOMAIN MachineSummary.statuses :
              MachineSummary.statuses[s] = Count([NoFilter EXCEPT !.status = s])
<1> DEFINE statuses == [s \in {table[o].status : o \in Known} |->
                          Cardinality({o \in Known : table[o].status = s})]
<1>1. /\ MachineSummary.total = Cardinality(Known)
      /\ MachineSummary.abnormal = Cardinality({o \in Known : table[o].warning = "abnormal"})
      /\ MachineSummary.statuses = statuses
  <2> HIDE DEF statuses
  <2> QED
    BY DEF MachineSummary, statuses
<1>2. \A o \in Known : table[o].status \in Statuses
  BY KnownRow
<1>3. \A s \in DOMAIN statuses : statuses[s] = Count([NoFilter EXCEPT !.status = s])
  BY <1>2, TileFilters DEF Count
<1> HIDE DEF statuses
<1> QED
  BY <1>1, <1>3, TileFilters, UnscheduledIs DEF Count

-----------------------------------------------------------------------------
(* Months *)

\* The month of a day of the calendar: months are numbered through, so the next one is m + 1.
LEMMA MonthOfToday ==
  LET m == MonthOf(Today)
  IN /\ m \in DOMAIN MonthStart /\ m \in Int
     /\ (m - (MonthPoints - 1)) .. (m + 1) \subseteq DOMAIN MonthStart
     /\ MonthStart[m] <= Today /\ Today < MonthStart[m + 1]
<1> DEFINE P(m) == /\ m \in DOMAIN MonthStart
                   /\ MonthStart[m] <= Today /\ (m + 1) \in DOMAIN MonthStart
                   /\ Today < MonthStart[m + 1]
           m == MonthOf(Today)
<1>1. PICK k \in DOMAIN MonthStart :
        /\ (k - (MonthPoints - 1)) .. (k + 1) \subseteq DOMAIN MonthStart
        /\ MonthStart[k] <= Today /\ Today < MonthStart[k + 1]
  BY CalendarReaches
<1>2. \A n \in DOMAIN MonthStart : n \in Int /\ MonthStart[n] \in Int
  BY CalendarAscends
<1>3. P(k)
  <2>1. k + 1 \in (k - (MonthPoints - 1)) .. (k + 1)
    BY <1>2, LengthsAreNumbers
  <2> QED
    BY <1>1, <2>1
<1>4. P(m)
  BY <1>3, Zenon DEF MonthOf
<1> HIDE DEF m
<1>5. m = k
  <2>1. ASSUME m < k PROVE FALSE
    <3>1. MonthStart[m + 1] <= MonthStart[k]
      BY <1>2, <1>3, <1>4, <2>1, CalendarAscends
    <3> QED
      BY <1>2, <1>3, <1>4, <3>1, LengthsAreNumbers
  <2>2. ASSUME k < m PROVE FALSE
    <3>1. MonthStart[k + 1] <= MonthStart[m]
      BY <1>2, <1>3, <1>4, <2>2, CalendarAscends
    <3> QED
      BY <1>2, <1>3, <1>4, <3>1, LengthsAreNumbers
  <2> QED
    BY <1>2, <1>3, <1>4, <2>1, <2>2
<1> QED
  BY <1>1, <1>2, <1>5 DEF m

LEMMA ShiftMonthIs ==
  ASSUME NEW m \in Int, NEW k \in Int
  PROVE  ShiftMonth(m, k) = m + k
BY DEF ShiftMonth, Year, Month

-----------------------------------------------------------------------------
(* The short lists *)

\* The first rows of some order lines: as many as fit, each once, from one sorted sequence.
LEMMA TopIs ==
  ASSUME TypeOK, NEW cs \in Seq(Columns), NEW S \in SUBSET Known, NEW limit \in Nat
  PROVE  \E q : /\ InOrder(q, S, cs) /\ q \in Seq(Orders) /\ Len(q) = Cardinality(S)
                /\ Top(S, cs, limit) = SubSeq(q, 1, IF Len(q) < limit THEN Len(q) ELSE limit)
<1> DEFINE n == Cardinality(S)
           P(q) == q \in [1..n -> S] /\
                   \A i, j \in 1..n : i < j => q[i] # q[j] /\ ~Precedes(cs, q[j], q[i])
           q == CHOOSE q \in [1..n -> S] :
                  \A i, j \in 1..n : i < j => q[i] # q[j] /\ ~Precedes(cs, q[j], q[i])
<1>1. IsFiniteSet(S) /\ n \in Nat /\ S \subseteq Orders
  BY SelectedIsFinite, FS_Subset, FS_CardinalityType
<1>2. \E p : P(p)
  BY SortedExists DEF InOrder
<1>3. P(q)
  <2> HIDE DEF n
  <2> QED
    BY <1>2, Zenon
<1>4. Top(S, cs, limit) = SubSeq(q, 1, IF n < limit THEN n ELSE limit)
  BY DEF Top
<1> HIDE DEF q
<1>5. InOrder(q, S, cs)
  BY <1>3 DEF InOrder
<1>6. q \in Seq(Orders) /\ Len(q) = n
  <2> HIDE DEF n
  <2>1. q \in [1..n -> Orders]
    BY <1>1, <1>3
  <2> QED
    BY <1>1, <2>1
<1> QED
  BY <1>4, <1>5, <1>6

\* The columns of the dashboard's short lists.
LEMMA TopColumns ==
  /\ <<"delivery asc", "id desc">> \in Seq(Columns)
  /\ <<"delivery asc", "id asc">> \in Seq(Columns)
  /\ <<"delivery asc", "abnormal first", "unscheduled first", "id asc">> \in Seq(Columns)
<1>1. \A c, d \in Columns : <<c, d>> \in Seq(Columns)
  OBVIOUS
<1>2. \A c, d, e, g \in Columns : <<c, d, e, g>> \in Seq(Columns)
  OBVIOUS
<1>3. /\ "delivery asc" \in Columns /\ "id desc" \in Columns /\ "id asc" \in Columns
      /\ "abnormal first" \in Columns /\ "unscheduled first" \in Columns
  BY DEF Columns
<1> QED
  BY <1>1, <1>2, <1>3, Zenon

\* The rows of a short list.
Shown(q) == {q[i] : i \in DOMAIN q}

\* The head of a sequence without repetitions: its rows are rows of the set, all of them or
\* as many as the limit.
LEMMA HeadOfSorted ==
  ASSUME NEW S, IsFiniteSet(S), NEW q \in Seq(S), Len(q) = Cardinality(S),
         \A i, j \in 1..Len(q) : i < j => q[i] # q[j],
         NEW limit \in Nat
  PROVE  LET p == SubSeq(q, 1, IF Len(q) < limit THEN Len(q) ELSE limit)
         IN Shown(p) \subseteq S /\ (Shown(p) = S \/ Cardinality(Shown(p)) = limit)
<1> DEFINE n == IF Len(q) < limit THEN Len(q) ELSE limit
           p == SubSeq(q, 1, n)
           shown == Shown(p)
<1>1. n \in Nat /\ n <= Len(q) /\ (n = Len(q) \/ n = limit)
  OBVIOUS
<1> HIDE DEF n
<1>2. p \in Seq(S) /\ Len(p) = n /\ \A i \in 1..n : p[i] = q[i]
  BY <1>1, SubSeqProperties
<1> HIDE DEF p
<1>3. DOMAIN p = 1..n /\ shown \subseteq S
  BY <1>2 DEF Shown
<1>4. \A i, j \in 1..n : p[i] = p[j] => i = j
  <2>1. \A i, j \in 1..n : i < j => p[i] # p[j]
    BY <1>1, <1>2
  <2> QED
    BY <1>1, <2>1
<1>5. Cardinality(shown) = n
  <2>1. p \in Injection(1..n, shown)
    <3>1. p \in [1..n -> shown]
      BY <1>2, <1>3 DEF Shown
    <3> QED
      BY <1>4, <3>1 DEF Injection, IsInjective
  <2>2. p \in Surjection(1..n, shown)
    <3>1. \A x \in shown : \E i \in 1..n : p[i] = x
      BY <1>3 DEF Shown
    <3> QED
      BY <2>1, <3>1 DEF Injection, Surjection
  <2>3. IsFiniteSet(1..n) /\ Cardinality(1..n) = n
    BY <1>1, FS_Interval
  <2> HIDE DEF shown
  <2> QED
    BY <2>1, <2>2, <2>3, FS_Surjection
<1>6. shown = S \/ Cardinality(shown) = limit
  <2>1. CASE n = limit
    BY <1>5, <2>1
  <2>2. CASE n = Len(q)
    <3> HIDE DEF shown
    <3> QED
      BY <1>3, <1>5, <2>2, FS_Subset
  <2> QED
    BY <1>1, <2>1, <2>2
<1> QED
  BY <1>3, <1>6 DEF n, p

LEMMA TopMatches ==
  ASSUME TypeOK, NEW cs \in Seq(Columns), NEW S \in SUBSET Known, NEW limit \in Nat
  PROVE  /\ Shown(Top(S, cs, limit)) \subseteq S
         /\ Shown(Top(S, cs, limit)) = S \/ Cardinality(Shown(Top(S, cs, limit))) = limit
<1>1. PICK q : /\ InOrder(q, S, cs) /\ q \in Seq(Orders) /\ Len(q) = Cardinality(S)
               /\ Top(S, cs, limit) = SubSeq(q, 1, IF Len(q) < limit THEN Len(q) ELSE limit)
  BY TopIs
<1>2. IsFiniteSet(S)
  BY SelectedIsFinite, FS_Subset
<1>3. q \in Seq(S) /\ \A i, j \in 1..Len(q) : i < j => q[i] # q[j]
  <2>1. Len(q) \in Nat
    BY <1>1
  <2>2. q \in [1..Len(q) -> S]
    BY <1>1 DEF InOrder
  <2>3. q \in Seq(S)
    BY <2>1, <2>2
  <2>4. \A i, j \in 1..Len(q) : i < j => q[i] # q[j]
    BY <1>1 DEF InOrder
  <2> QED
    BY <2>3, <2>4
<1> DEFINE p == SubSeq(q, 1, IF Len(q) < limit THEN Len(q) ELSE limit)
<1>4. Shown(p) \subseteq S /\ (Shown(p) = S \/ Cardinality(Shown(p)) = limit)
  BY <1>1, <1>2, <1>3, HeadOfSorted
<1>5. Top(S, cs, limit) = p
  BY <1>1
<1> HIDE DEF p
<1> QED
  BY <1>4, <1>5

\* The short list of warnings is the head of the list it leads to.
LEMMA WarningsHead ==
  ASSUME TypeOK
  PROVE  Heads(WarningOrders, [NoFilter EXCEPT !.bucket = "risk"], WarningLimit)
<1> DEFINE S == {o \in Known : table[o].warning # "normal" \/ table[o].status # "scheduled"}
           cs == <<"delivery asc", "id desc">>
<1>1. PICK f : f = [NoFilter EXCEPT !.bucket = "risk"]
  OBVIOUS
<1>2. Selected(f) = S
  <2>1. \A o \in Known : table[o].warning \in Warnings
    BY KnownRow
  <2>2. \A o \in Known : table[o].warning # "normal" <=> table[o].warning = "abnormal"
    BY <2>1 DEF Warnings
  <2> QED
    BY <1>1, <2>2, TileFilters
<1>3. WarningLimit \in Nat
  BY LengthsAreNumbers
<1>4. WarningOrders = Top(S, cs, WarningLimit)
  BY DEF WarningOrders
<1>5. S \in SUBSET Known /\ cs \in Seq(Columns)
  BY TopColumns
<1>6. OrderBy("schedules", <<>>) = cs
  <2>1. DefaultOrder("schedules") = cs
    BY Zenon DEF DefaultOrder
  <2> HIDE DEF cs
  <2>2. <<>> \o cs = cs
    BY <1>5
  <2> QED
    BY <2>1, <2>2 DEF OrderBy
<1> HIDE DEF S, cs
<1>7. PICK q : /\ InOrder(q, S, cs) /\ q \in Seq(Orders) /\ Len(q) = Cardinality(S)
               /\ Top(S, cs, WarningLimit) =
                    SubSeq(q, 1, IF Len(q) < WarningLimit THEN Len(q) ELSE WarningLimit)
  BY <1>3, <1>5, TopIs
<1> DEFINE n == IF Len(q) < WarningLimit THEN Len(q) ELSE WarningLimit
<1>8. n \in Nat /\ n <= Len(q) /\ (n = Len(q) \/ n = WarningLimit)
  BY <1>3, <1>7
<1>9. WarningOrders = SubSeq(q, 1, n)
  BY <1>4, <1>7
<1> HIDE DEF n
<1>10. Len(WarningOrders) = n
  BY <1>7, <1>8, <1>9, SubSeqProperties
<1>11. q \in Listing("schedules", f, <<>>)
  BY <1>2, <1>6, <1>7 DEF Listing, InOrder
<1>12. Len(q) = Count(f)
  BY <1>2, <1>7 DEF Count
<1> QED
  BY <1>1, <1>8, <1>9, <1>10, <1>11, <1>12 DEF Heads

LEMMA AbnormalRows ==
  ASSUME TypeOK
  PROVE  Shown(AbnormalOrders) \subseteq Selected([NoFilter EXCEPT !.warning = "abnormal"])
<1> DEFINE S == {o \in Known : table[o].warning = "abnormal"}
           cs == <<"delivery asc", "id asc">>
<1>1. AbnormalOrders = Top(S, cs, AbnormalLimit)
  BY DEF AbnormalOrders
<1>2. S \in SUBSET Known /\ cs \in Seq(Columns) /\ AbnormalLimit \in Nat
  BY TopColumns, LengthsAreNumbers
<1>3. Selected([NoFilter EXCEPT !.warning = "abnormal"]) = S
  BY TileFilters
<1> HIDE DEF S, cs
<1> QED
  BY <1>1, <1>2, <1>3, TopMatches

\* The risks shown are those of the list of the coming days, all of them or as many as the limit.
LEMMA RiskRows ==
  ASSUME TypeOK, NEW near,
         near = [[NoFilter EXCEPT !.bucket = "risk"] EXCEPT !.from = Today, !.to = Today + RiskDays - 1]
  PROVE  /\ Shown(RiskOrders) \subseteq Selected(near)
         /\ Shown(RiskOrders) = Selected(near) \/ Cardinality(Shown(RiskOrders)) = RiskLimit
<1> DEFINE W == Within("delivery", Today, Today + RiskDays)
           S == {o \in W : table[o].status # "scheduled" \/ table[o].warning = "abnormal"}
           cs == <<"delivery asc", "abnormal first", "unscheduled first", "id asc">>
<1>1. RiskOrders = Top(S, cs, RiskLimit)
  BY DEF RiskOrders
<1>2. S \in SUBSET Known /\ cs \in Seq(Columns) /\ RiskLimit \in Nat
  BY TopColumns, LengthsAreNumbers, WithinIsFinite
<1>3. Selected(near) = S
  <2>1. PICK g \in WideFilter :
          /\ g = NoFilter
          /\ g.status = Null /\ g.bucket = Null /\ g.warning = Null
          /\ g.released = Null /\ g.from = Null /\ g.to = Null
    BY NoFilterIsWide
  <2>2. PICK f : f = [g EXCEPT !.bucket = "risk"]
    OBVIOUS
  <2>3. /\ f \in WideFilter /\ f.bucket = "risk"
        /\ f.status = Null /\ f.warning = Null /\ f.released = Null
    BY <2>1, <2>2 DEF WideFilter
  <2>4. PICK to \in Int : to = Today + RiskDays - 1 /\ to + 1 = Today + RiskDays
    BY LengthsAreNumbers
  <2>5. near = [f EXCEPT !.from = Today, !.to = to]
    BY <2>1, <2>2, <2>4
  <2>6. Today \in Int
    BY LengthsAreNumbers
  <2>7. /\ near \in WideFilter /\ near.from = Today /\ near.to = to
        /\ near.bucket = "risk" /\ near.status = Null /\ near.warning = Null /\ near.released = Null
    BY <2>3, <2>5, <2>6 DEF WideFilter
  <2>8. near.from \in Int /\ near.to \in Int
    BY <2>6, <2>7
  <2>9. Selected(near) = {o \in Within("delivery", near.from, near.to + 1) :
                           /\ near.status = Null \/ table[o].status = near.status
                           /\ near.warning = Null \/ table[o].warning = near.warning
                           /\ InBucket(near.bucket, table[o])}
    BY <2>7, <2>8, SelectedInDays
  <2>10. Within("delivery", near.from, near.to + 1) = W
    BY <2>4, <2>7
  <2>11. \A o \in W : InBucket(near.bucket, table[o]) <=>
                        table[o].status # "scheduled" \/ table[o].warning = "abnormal"
    BY <2>7, InBucketIs
  <2> HIDE DEF W
  <2> QED
    BY <2>7, <2>9, <2>10, <2>11
<1> HIDE DEF S, cs
<1> QED
  BY <1>1, <1>2, <1>3, TopMatches

-----------------------------------------------------------------------------
(* Parts *)

LEMMA PartsAreFinite ==
  ASSUME TypeOK
  PROVE  /\ IsFiniteSet(VisibleParts) /\ VisibleParts \subseteq Known \X Part
<1> DEFINE parts(o) == {<<o, p>> : p \in table[o].parts}
           f == [o \in Known |-> parts(o)]
           F == {parts(o) : o \in Known}
<1>1. ASSUME NEW o \in Known PROVE IsFiniteSet(parts(o)) /\ parts(o) \subseteq Known \X Part
  <2>1. IsFiniteSet(table[o].parts) /\ table[o].parts \subseteq Part
    BY KnownRow
  <2>2. IsFiniteSet({o} \X table[o].parts)
    BY <2>1, FS_Singleton, FS_Product
  <2>3. parts(o) \in SUBSET ({o} \X table[o].parts)
    OBVIOUS
  <2>4. parts(o) \subseteq Known \X Part
    BY <2>1
  <2> HIDE DEF parts
  <2> QED
    BY <2>2, <2>3, <2>4, FS_Subset
<1>2. IsFiniteSet(F)
  <2>1. f \in Surjection(Known, F)
    <3> HIDE DEF parts
    <3> QED
      BY DEF Surjection
  <2>2. IsFiniteSet(Known)
    BY SelectedIsFinite
  <2> HIDE DEF F, f
  <2> QED
    BY <2>1, <2>2, FS_Surjection
<1>3. \A T \in F : IsFiniteSet(T) /\ T \subseteq Known \X Part
  BY <1>1
<1>4. PartRows = UNION F
  BY DEF PartRows
<1> HIDE DEF F
<1>5. IsFiniteSet(PartRows) /\ PartRows \subseteq Known \X Part
  BY <1>2, <1>3, <1>4, FS_UNION
<1>6. VisibleParts \subseteq PartRows
  BY DEF VisibleParts
<1> QED
  BY <1>5, <1>6, FS_Subset

LEMMA PartListIs ==
  ASSUME TypeOK
  PROVE  /\ PartList(Assemblies, Warnings) = VisibleParts
         /\ PartList(Assemblies, {"abnormal"}) = {x \in VisibleParts : x[2].warning = "abnormal"}
         /\ \A a \in Assemblies : PartList({a}, Warnings) = {x \in VisibleParts : x[2].assembly = a}
         /\ \A x \in VisibleParts : x[2].assembly \in Assemblies
<1>1. \A x \in VisibleParts : x[2].assembly \in Assemblies /\ x[2].warning \in Warnings
  BY PartsAreFinite DEF Part
<1> QED
  BY <1>1 DEF PartList

\* The assemblies shown are best filled: an assembly that is left out has no more parts than
\* any that is shown, for every limit.
LEMMA PartsMatch ==
  ASSUME TypeOK
  PROVE  PartNumbersMatchLists(PartSummary)
<1> DEFINE D == DOMAIN AssemblyCount
           num(a) == Cardinality({x \in VisibleParts : x[2].assembly = a})
           Better(a) == {b \in D : \/ AssemblyCount[b] > AssemblyCount[a]
                                   \/ AssemblyCount[b] = AssemblyCount[a] /\ b < a}
           top == [a \in TopAssemblies |-> AssemblyCount[a]]
<1>1. D \subseteq Assemblies /\ Assemblies \subseteq Nat /\ \A a \in D : AssemblyCount[a] = num(a)
  <2>1. \A a \in {x[2].assembly : x \in VisibleParts} : a \in Assemblies
    BY PartListIs
  <2> QED
    BY <2>1 DEF AssemblyCount, Assemblies
<1>2. \A a \in Assemblies : num(a) \in Nat
  <2>1. \A a \in Assemblies : {x \in VisibleParts : x[2].assembly = a} \in SUBSET VisibleParts
    OBVIOUS
  <2> QED
    BY <2>1, PartsAreFinite, FS_Subset, FS_CardinalityType
<1>3. \A a \in Assemblies : a \notin D => num(a) = 0
  <2>1. ASSUME NEW a \in Assemblies, a \notin D
        PROVE  {x \in VisibleParts : x[2].assembly = a} = {}
    BY <2>1 DEF AssemblyCount
  <2> QED
    BY <2>1, FS_EmptySet
<1>4. \A a \in Assemblies : Cardinality(PartList({a}, Warnings)) = num(a)
  BY PartListIs
<1>5. TopAssemblies = {a \in D : Cardinality(Better(a)) < AssemblyLimit}
  BY DEF TopAssemblies
<1> HIDE DEF num, D
<1>6. ASSUME NEW a \in D, NEW b \in TopAssemblies, a \notin TopAssemblies
      PROVE  num(b) >= num(a)
  <2> SUFFICES ASSUME num(b) < num(a) PROVE FALSE
    BY <1>1, <1>2, <1>5
  <2>1. b \in D
    BY <1>5
  <2>2. ASSUME NEW c \in Better(a) PROVE c \in Better(b)
    <3>1. c \in D /\ num(c) >= num(a)
      BY <1>1, <1>2
    <3>2. num(c) > num(b)
      BY <1>1, <1>2, <2>1, <3>1
    <3> QED
      BY <1>1, <2>1, <3>1, <3>2
  <2>3. IsFiniteSet(Assemblies)
    <3>1. \A n \in Nat : Assemblies = 1..n => IsFiniteSet(Assemblies)
      BY FS_Interval
    <3>2. 3 \in Nat /\ Assemblies = 1..3
      BY DEF Assemblies
    <3> QED
      BY <3>1, <3>2, Zenon
  <2>4. Better(b) \in SUBSET Assemblies
    BY <1>1
  <2> HIDE DEF Better
  <2>5. IsFiniteSet(Better(b))
    BY <2>3, <2>4, FS_Subset
  <2>6. Cardinality(Better(a)) <= Cardinality(Better(b)) /\ IsFiniteSet(Better(a))
    BY <2>2, <2>5, FS_Subset
  <2>7. Cardinality(Better(a)) \in Nat /\ Cardinality(Better(b)) \in Nat /\ AssemblyLimit \in Nat
    BY <2>5, <2>6, FS_CardinalityType, LengthsAreNumbers
  <2>8. Cardinality(Better(b)) < AssemblyLimit /\ ~(Cardinality(Better(a)) < AssemblyLimit)
    BY <1>5, <1>6
  <2> QED
    BY <2>6, <2>7, <2>8
<1>7. /\ PartSummary.total = Cardinality(VisibleParts)
      /\ PartSummary.abnormal = Cardinality({x \in VisibleParts : x[2].warning = "abnormal"})
      /\ PartSummary.top = top
  <2> HIDE DEF top
  <2> QED
    BY DEF PartSummary, top
<1>8. \A a \in Assemblies :
        IF a \in DOMAIN top THEN top[a] = num(a) ELSE \A b \in DOMAIN top : top[b] >= num(a)
  <2>1. DOMAIN top = TopAssemblies /\ \A a \in TopAssemblies : a \in D /\ top[a] = num(a)
    BY <1>1, <1>5
  <2> HIDE DEF top
  <2>2. ASSUME NEW a \in Assemblies, a \notin TopAssemblies, NEW b \in TopAssemblies
        PROVE  num(b) >= num(a)
    <3>1. CASE a \in D
      BY <1>6, <2>2, <3>1
    <3>2. CASE a \notin D
      <4>1. num(a) = 0 /\ num(b) \in Nat
        BY <1>1, <1>2, <1>3, <2>1, <2>2, <3>2
      <4> QED
        BY <4>1
    <3> QED
      BY <3>1, <3>2
  <2> QED
    BY <2>1, <2>2
<1> HIDE DEF top
<1> QED
  BY <1>4, <1>7, <1>8, PartListIs DEF PartNumbersMatchLists

\* Whatever the table holds, its numbers on the dashboard and those of the lists agree.
LEMMA DashboardMatches ==
  ASSUME TypeOK
  PROVE  DashboardMatchesLists
<1> DEFINE m == MonthOf(Today)
           risk == [NoFilter EXCEPT !.bucket = "risk"]
           near == [risk EXCEPT !.from = Today, !.to = Today + RiskDays - 1]
<1>1. /\ Overview.machines = MachineSummary /\ Overview.unscheduled = Unscheduled
      /\ Overview.parts = PartSummary /\ Overview.today = TodaySummary
      /\ Overview.week = WeekSummary /\ Overview.month = MonthSummary
      /\ Overview.warnings = WarningOrders /\ Overview.abnormal = AbnormalOrders
      /\ Overview.risks = RiskOrders
  BY DEF Overview
<1>2. Today \in Int /\ Today + 1 \in Int /\ WeekStart(Today) \in Int /\ WeekStart(Today) + 7 \in Int
  BY LengthsAreNumbers DEF WeekStart
<1>3. FirstDay(m) \in Int /\ FirstDay(ShiftMonth(m, 1)) \in Int
  <2>1. m \in DOMAIN MonthStart /\ m \in Int /\ MonthPoints \in Nat \ {0}
    BY MonthOfToday, LengthsAreNumbers
  <2>2. m + 1 \in (m - (MonthPoints - 1)) .. (m + 1)
    BY <2>1
  <2>3. m + 1 \in DOMAIN MonthStart
    BY <2>2, MonthOfToday
  <2>4. ShiftMonth(m, 1) = m + 1
    BY <2>1, ShiftMonthIs
  <2> HIDE DEF m
  <2> QED
    BY <2>1, <2>3, <2>4, CalendarAscends DEF FirstDay
<1>4. SummaryMatches(TodaySummary, Listed(Today, Today + 1))
  BY <1>2, WindowSummaryMatches DEF TodaySummary
<1>5. SummaryMatches(WeekSummary, Listed(WeekStart(Today), WeekStart(Today) + 7))
  BY <1>2, WindowSummaryMatches DEF WeekSummary
<1>6. SummaryMatches(MonthSummary, Listed(FirstDay(m), FirstDay(ShiftMonth(m, 1))))
  BY <1>3, WindowSummaryMatches DEF MonthSummary
<1>7. /\ Shown(RiskOrders) \subseteq Selected(near)
      /\ Shown(RiskOrders) = Selected(near) \/ Cardinality(Shown(RiskOrders)) = RiskLimit
  BY RiskRows
<1> QED
  BY <1>1, <1>4, <1>5, <1>6, <1>7, MachinesMatch, WarningsHead, AbnormalRows, PartsMatch, Zenon
     DEF DashboardMatchesLists, Shown

\* The dashboard (schedule_query_service and its repositories) and the lists its tiles open: in every
\* state of the table each number is the list's total, and each short list its head.
THEOREM DashboardHolds == Spec => []DashboardMatchesLists
BY TypesHold, DashboardMatches, PTL

-----------------------------------------------------------------------------
(* Days *)

\* The rows of a day, as the calendar groups them and as the detail of the day finds them.
LEMMA DayIs ==
  ASSUME TypeOK, NEW field \in CalendarFields, NEW from \in Int, NEW to \in Int,
         NEW d \in Int, from <= d, d < to
  PROVE  DayRange(field, d) = {o \in Within(field, from, to) : DayOf(table[o][field]) = d}
<1>1. ASSUME NEW o \in Known
      PROVE  table[o][field] \in Window(d, d + 1) <=>
               table[o][field] \in Window(from, to) /\ DayOf(table[o][field]) = d
  <2>1. table[o][field] \in Nat \union {Null}
    BY KnownRow DEF CalendarFields
  <2>2. ASSUME NEW x \in Nat \union {Null}
        PROVE  x \in (2 * d) .. (2 * (d + 1) - 1) <=>
                 x \in (2 * from) .. (2 * to - 1) /\ x \div 2 = d
    <3>1. CASE x = Null
      BY <3>1, NullIsApart
    <3>2. CASE x \in Nat
      BY <3>2
    <3> QED
      BY <3>1, <3>2
  <2> QED
    BY <2>1, <2>2 DEF Window, Midnight, DayOf
<1> QED
  BY <1>1 DEF DayRange, Within

\* The group of a day, or none, tallies the rows of the day.
LEMMA GroupAt ==
  ASSUME TypeOK, NEW field \in CalendarFields, NEW from \in Int, NEW to \in Int,
         NEW d \in Int, from <= d, d < to
  PROVE  At(GroupByDay(field, from, to), d) = Tally(DayRange(field, d))
<1> DEFINE S == Within(field, from, to)
           D == {DayOf(table[o][field]) : o \in S}
           G == GroupByDay(field, from, to)
<1>1. DayRange(field, d) = {o \in S : DayOf(table[o][field]) = d}
  BY DayIs
<1>2. G = [e \in D |-> Tally({o \in S : DayOf(table[o][field]) = e})]
  BY DEF GroupByDay
<1>3. CASE d \in D
  <2>1. d \in DOMAIN G /\ G[d] = Tally({o \in S : DayOf(table[o][field]) = d})
    <3> HIDE DEF S, D, G
    <3> QED
      BY <1>2, <1>3
  <2> HIDE DEF S, D, G
  <2> QED
    BY <1>1, <2>1 DEF At, G
<1>4. CASE d \notin D
  <2>1. DayRange(field, d) = {}
    BY <1>1, <1>4
  <2>2. d \notin DOMAIN G
    <3> HIDE DEF S, D, G
    <3> QED
      BY <1>2, <1>4
  <2> HIDE DEF S, D, G
  <2> QED
    BY <2>1, <2>2 DEF At, G
<1> QED
  BY <1>3, <1>4

LEMMA DetailIs ==
  ASSUME NEW field \in CalendarFields, NEW d
  PROVE  /\ DayDetail(d)[field] = Tally(DayRange(field, d))
         /\ DayDetail(d)[field].orders = Cardinality(DayRange(field, d))
<1> DEFINE shown == UNION {DayRange(g, d) : g \in CalendarFields}
<1>1. {o \in shown : o \in DayRange(field, d)} = DayRange(field, d)
  OBVIOUS
<1>2. DayDetail(d)[field] = Tally({o \in shown : o \in DayRange(field, d)})
  BY DEF DayDetail
<1> HIDE DEF shown
<1>3. DayDetail(d)[field] = Tally(DayRange(field, d))
  BY <1>1, <1>2
<1> QED
  BY <1>3 DEF Tally

-----------------------------------------------------------------------------
(* Sums over days *)

\* The recursion of a sum over the subsets of D of what g gives.
SumsUp(sum, D, g) ==
  sum = [s \in SUBSET D |->
           IF s = {} THEN 0
           ELSE g[CHOOSE x \in s : TRUE] + sum[s \ {CHOOSE x \in s : TRUE}]]

LEMMA SumIsUnique ==
  ASSUME NEW D, IsFiniteSet(D), NEW g, NEW h, NEW k, SumsUp(h, D, g), SumsUp(k, D, g)
  PROVE  h[D] = k[D]
<1> DEFINE F == {s \in SUBSET D : h[s] # k[s]}
<1> SUFFICES ASSUME F # {} PROVE FALSE
  OBVIOUS
<1>1. \A s \in F : IsFiniteSet(s)
  BY FS_Subset
<1>2. PICK T \in F : \A U \in F : U \subseteq T => U = T
  <2> HIDE DEF F
  <2> QED
    BY <1>1, SmallestFinite
<1> DEFINE x == CHOOSE x \in T : TRUE
           U == T \ {x}
<1>3. /\ h[{}] = 0 /\ k[{}] = 0
      /\ T # {} => h[T] = g[x] + h[U] /\ k[T] = g[x] + k[U]
  BY <1>2 DEF SumsUp
<1>4. T # {} /\ T \in SUBSET D /\ h[T] # k[T]
  BY <1>2, <1>3
<1>5. x \in T
  BY <1>4
<1>6. U \in SUBSET D /\ U \subseteq T /\ U # T
  BY <1>4, <1>5
<1>7. h[U] = k[U]
  <2> HIDE DEF U
  <2> QED
    BY <1>2, <1>6
<1> HIDE DEF U, x
<1> QED
  BY <1>3, <1>4, <1>7

\* Rows counted day by day are as many as the rows.
LEMMA CountByDay ==
  ASSUME NEW K, IsFiniteSet(K), NEW D, IsFiniteSet(D), NEW c \in [K -> D]
  PROVE  SumsUp([s \in SUBSET D |-> Cardinality({o \in K : c[o] \in s})], D,
                [d \in D |-> Cardinality({o \in K : c[o] = d})])
<1> DEFINE of(s) == {o \in K : c[o] \in s}
           on(d) == {o \in K : c[o] = d}
           h == [s \in SUBSET D |-> Cardinality(of(s))]
           g == [d \in D |-> Cardinality(on(d))]
<1>1. Cardinality(of({})) = 0
  <2>1. of({}) = {}
    OBVIOUS
  <2> QED
    BY <2>1, FS_EmptySet
<1>2. ASSUME NEW s \in SUBSET D, NEW x \in s
      PROVE  Cardinality(of(s)) = Cardinality(on(x)) + Cardinality(of(s \ {x}))
  <2>1. /\ of(s) = on(x) \cup of(s \ {x}) /\ on(x) \intersect of(s \ {x}) = {}
        /\ on(x) \in SUBSET K /\ of(s \ {x}) \in SUBSET K
    OBVIOUS
  <2> HIDE DEF of, on
  <2>2. IsFiniteSet(on(x)) /\ IsFiniteSet(of(s \ {x}))
    BY <2>1, FS_Subset
  <2>3. Cardinality(of(s)) =
          Cardinality(on(x)) + Cardinality(of(s \ {x})) - Cardinality(on(x) \intersect of(s \ {x}))
    BY <2>1, <2>2, FS_Union
  <2>4. Cardinality(on(x) \intersect of(s \ {x})) = 0
    BY <2>1, FS_EmptySet
  <2>5. Cardinality(on(x)) \in Nat /\ Cardinality(of(s \ {x})) \in Nat
    BY <2>2, FS_CardinalityType
  <2> QED
    BY <2>3, <2>4, <2>5
<1> HIDE DEF of, on
<1>3. ASSUME NEW s \in SUBSET D
      PROVE  h[s] = IF s = {} THEN 0
                    ELSE g[CHOOSE x \in s : TRUE] + h[s \ {CHOOSE x \in s : TRUE}]
  <2>1. CASE s = {}
    BY <1>1, <2>1
  <2>2. CASE s # {}
    <3> DEFINE x == CHOOSE x \in s : TRUE
    <3>1. x \in s
      BY <2>2
    <3> HIDE DEF x
    <3>2. /\ h[s] = Cardinality(of(s)) /\ g[x] = Cardinality(on(x))
          /\ h[s \ {x}] = Cardinality(of(s \ {x}))
      BY <3>1
    <3> HIDE DEF g, h
    <3>3. h[s] = g[x] + h[s \ {x}]
      BY <1>2, <3>1, <3>2
    <3> QED
      BY <2>2, <3>3 DEF x
  <2> QED
    BY <2>1, <2>2
<1>4. h = [s \in SUBSET D |-> h[s]]
  OBVIOUS
<1> HIDE DEF g, h
<1>5. SumsUp(h, D, g)
  BY <1>3, <1>4 DEF SumsUp
<1> QED
  BY <1>5 DEF g, h, of, on

\* h sums up g, the number of rows of each day, and comes to the rows of the window.
CountsDays(h, g, field, from, to) ==
  /\ SumsUp(h, from .. (to - 1), g)
  /\ h[from .. (to - 1)] = Cardinality(Within(field, from, to))
  /\ \A d \in from .. (to - 1) : g[d] = Cardinality(DayRange(field, d))

\* A window is counted day by day.
LEMMA DaysCounted ==
  ASSUME TypeOK, NEW field \in CalendarFields, NEW from \in Int, NEW to \in Int
  PROVE  \E h, g : CountsDays(h, g, field, from, to)
<1> DEFINE D == from .. (to - 1)
           K == Within(field, from, to)
           c == [o \in K |-> DayOf(table[o][field])]
           h == [s \in SUBSET D |-> Cardinality({o \in K : c[o] \in s})]
           g == [d \in D |-> Cardinality({o \in K : c[o] = d})]
<1>1. IsFiniteSet(D) /\ IsFiniteSet(K)
  BY FS_Interval, WithinIsFinite
<1>2. c \in [K -> D]
  <2>1. ASSUME NEW o \in K PROVE DayOf(table[o][field]) \in D
    <3>1. table[o][field] \in (2 * from) .. (2 * to - 1)
      BY DEF Within, Window, Midnight
    <3>2. ASSUME NEW x \in (2 * from) .. (2 * to - 1) PROVE x \div 2 \in from .. (to - 1)
      OBVIOUS
    <3> QED
      BY <3>1, <3>2 DEF DayOf
  <2> QED
    BY <2>1
<1>3. SumsUp(h, D, g)
  <2> HIDE DEF D, K, c
  <2> QED
    BY <1>1, <1>2, CountByDay
<1>4. h[D] = Cardinality(K)
  <2>1. {o \in K : c[o] \in D} = K
    <3> HIDE DEF c, D, K
    <3> QED
      BY <1>2
  <2> HIDE DEF c, D, K
  <2> QED
    BY <2>1
<1>5. ASSUME NEW d \in D PROVE g[d] = Cardinality(DayRange(field, d))
  <2>1. DayRange(field, d) = {o \in K : DayOf(table[o][field]) = d}
    BY DayIs
  <2>2. {o \in K : c[o] = d} = {o \in K : DayOf(table[o][field]) = d}
    OBVIOUS
  <2> HIDE DEF c, K, D
  <2> QED
    BY <2>1, <2>2
<1> HIDE DEF h, g
<1>6. CountsDays(h, g, field, from, to)
  BY <1>3, <1>4, <1>5 DEF CountsDays
<1> QED
  BY <1>6

\* The trends add up the groups of their days; that is the number of rows in the window.
LEMMA CountInRangeIs ==
  ASSUME TypeOK, NEW field \in CalendarFields, NEW lo \in Int, NEW hi \in Int,
         NEW from \in Int, NEW to \in Int, lo <= from, to <= hi
  PROVE  CountInRange(GroupByDay(field, lo, hi), from, to) = Cardinality(Within(field, from, to))
<1> DEFINE D == from .. (to - 1)
           G == GroupByDay(field, lo, hi)
           P(sum) == sum = [s \in SUBSET D |->
                              IF s = {} THEN 0
                              ELSE At(G, CHOOSE x \in s : TRUE).orders
                                     + sum[s \ {CHOOSE x \in s : TRUE}]]
           total == CHOOSE sum : P(sum)
<1>2. PICK h, g : CountsDays(h, g, field, from, to)
  BY DaysCounted
<1>3. /\ SumsUp(h, D, g) /\ h[D] = Cardinality(Within(field, from, to))
      /\ \A d \in D : g[d] = Cardinality(DayRange(field, d))
  BY <1>2 DEF CountsDays
<1>5. ASSUME NEW d \in D PROVE At(G, d).orders = g[d]
  <2>1. At(G, d) = Tally(DayRange(field, d))
    BY GroupAt
  <2> HIDE DEF G
  <2> QED
    BY <1>3, <2>1 DEF Tally
<1> HIDE DEF D, G
<1>6. ASSUME NEW sum PROVE P(sum) <=> SumsUp(sum, D, g)
  <2>1. ASSUME NEW s \in SUBSET D
        PROVE  (IF s = {} THEN 0
                ELSE At(G, CHOOSE x \in s : TRUE).orders + sum[s \ {CHOOSE x \in s : TRUE}])
             = (IF s = {} THEN 0
                ELSE g[CHOOSE x \in s : TRUE] + sum[s \ {CHOOSE x \in s : TRUE}])
    <3>1. s # {} => (CHOOSE x \in s : TRUE) \in D
      OBVIOUS
    <3> QED
      BY <1>5, <3>1, Zenon
  <2>2. [s \in SUBSET D |-> IF s = {} THEN 0
                ELSE At(G, CHOOSE x \in s : TRUE).orders + sum[s \ {CHOOSE x \in s : TRUE}]]
      = [s \in SUBSET D |-> IF s = {} THEN 0
                ELSE g[CHOOSE x \in s : TRUE] + sum[s \ {CHOOSE x \in s : TRUE}]]
    BY <2>1, Zenon
  <2> QED
    BY <2>2, Zenon DEF SumsUp
<1>7. P(total)
  <2> HIDE DEF P
  <2> QED
    BY <1>3, <1>6, Zenon
<1>8. total[D] = h[D]
  <2>1. IsFiniteSet(D)
    BY FS_Interval DEF D
  <2> HIDE DEF P, total
  <2> QED
    BY <1>3, <1>6, <1>7, <2>1, SumIsUnique
<1>9. CountInRange(G, from, to) = total[D]
  BY Zenon DEF CountInRange, MapThenSumSet, MapThenFoldSet, D
<1> QED
  BY <1>3, <1>8, <1>9 DEF G

\* The details of the days of a month add up to the rows of the month.
LEMMA DetailsAddUp ==
  ASSUME TypeOK, NEW field \in CalendarFields, NEW m,
         FirstDay(m) \in Int, FirstDay(ShiftMonth(m, 1)) \in Int
  PROVE  MapThenSumSet(LAMBDA d : DayDetail(d)[field].orders, Days(m)) =
           Cardinality(Within(field, FirstDay(m), FirstDay(ShiftMonth(m, 1))))
<1> DEFINE from == FirstDay(m)
           to == FirstDay(ShiftMonth(m, 1))
           D == from .. (to - 1)
           P(sum) == sum = [s \in SUBSET D |->
                              IF s = {} THEN 0
                              ELSE DayDetail(CHOOSE x \in s : TRUE)[field].orders
                                     + sum[s \ {CHOOSE x \in s : TRUE}]]
           total == CHOOSE sum : P(sum)
<1>2. PICK h, g : CountsDays(h, g, field, from, to)
  BY DaysCounted
<1>3. /\ SumsUp(h, D, g) /\ h[D] = Cardinality(Within(field, from, to))
      /\ \A d \in D : g[d] = Cardinality(DayRange(field, d))
  BY <1>2 DEF CountsDays
<1>5. ASSUME NEW d \in D PROVE DayDetail(d)[field].orders = g[d]
  <2> HIDE DEF D
  <2> QED
    BY <1>3, DetailIs
<1> HIDE DEF D
<1>6. ASSUME NEW sum PROVE P(sum) <=> SumsUp(sum, D, g)
  <2>1. ASSUME NEW s \in SUBSET D
        PROVE  (IF s = {} THEN 0
                ELSE DayDetail(CHOOSE x \in s : TRUE)[field].orders + sum[s \ {CHOOSE x \in s : TRUE}])
             = (IF s = {} THEN 0
                ELSE g[CHOOSE x \in s : TRUE] + sum[s \ {CHOOSE x \in s : TRUE}])
    <3>1. s # {} => (CHOOSE x \in s : TRUE) \in D
      OBVIOUS
    <3> QED
      BY <1>5, <3>1, Zenon
  <2>2. [s \in SUBSET D |-> IF s = {} THEN 0
                ELSE DayDetail(CHOOSE x \in s : TRUE)[field].orders + sum[s \ {CHOOSE x \in s : TRUE}]]
      = [s \in SUBSET D |-> IF s = {} THEN 0
                ELSE g[CHOOSE x \in s : TRUE] + sum[s \ {CHOOSE x \in s : TRUE}]]
    BY <2>1, Zenon
  <2> QED
    BY <2>2, Zenon DEF SumsUp
<1>7. P(total)
  <2> HIDE DEF P
  <2> QED
    BY <1>3, <1>6, Zenon
<1>8. total[D] = h[D]
  <2>1. IsFiniteSet(D)
    BY FS_Interval DEF D
  <2> HIDE DEF P, total
  <2> QED
    BY <1>3, <1>6, <1>7, <2>1, SumIsUnique
<1>9. MapThenSumSet(LAMBDA d : DayDetail(d)[field].orders, Days(m)) = total[D]
  BY Zenon DEF MapThenSumSet, MapThenFoldSet, Days, D
<1> QED
  BY <1>3, <1>8, <1>9
-----------------------------------------------------------------------------
(* The calendar and the trends *)

\* The months of the trends and the first of the month after them are in the calendar.
LEMMA TrendMonths ==
  ASSUME NEW m \in Int, MonthOf(Today) - (MonthPoints - 1) <= m, m <= MonthOf(Today)
  PROVE  /\ FirstDay(m) \in Int /\ FirstDay(m + 1) \in Int
         /\ FirstDay(MonthOf(Today) - (MonthPoints - 1)) <= FirstDay(m)
         /\ FirstDay(m + 1) <= FirstDay(MonthOf(Today) + 1)
         /\ FirstDay(MonthOf(Today) - (MonthPoints - 1)) \in Int
         /\ FirstDay(MonthOf(Today) + 1) \in Int
<1>1. PICK t \in Int, k \in Nat \ {0} : t = MonthOf(Today) /\ k = MonthPoints
  BY MonthOfToday, LengthsAreNumbers
<1>2. \A n \in (t - (k - 1)) .. (t + 1) : n \in DOMAIN MonthStart
  BY <1>1, MonthOfToday
<1>3. /\ m \in DOMAIN MonthStart /\ m + 1 \in DOMAIN MonthStart
      /\ t - (k - 1) \in DOMAIN MonthStart /\ t + 1 \in DOMAIN MonthStart
      /\ t - (k - 1) <= m /\ m + 1 <= t + 1
  BY <1>1, <1>2
<1>4. \A a, b \in DOMAIN MonthStart : MonthStart[a] \in Int /\ (a <= b => MonthStart[a] <= MonthStart[b])
  <2>1. \A a \in DOMAIN MonthStart : a \in Int /\ MonthStart[a] \in Int
    BY CalendarAscends
  <2>2. \A a, b \in DOMAIN MonthStart : a < b => MonthStart[a] < MonthStart[b]
    BY CalendarAscends
  <2>3. \A a, b \in DOMAIN MonthStart : a <= b => a = b \/ a < b
    BY <2>1
  <2> QED
    BY <2>1, <2>2, <2>3
<1> QED
  BY <1>1, <1>3, <1>4 DEF FirstDay

\* The calendar of a month shows for each of its days what the day opens.
LEMMA CalendarMatches ==
  ASSUME TypeOK, NEW m \in Int, FirstDay(m) \in Int, FirstDay(m + 1) \in Int, NEW d \in Days(m)
  PROVE  Distribution(m)[d] = DayDetail(d)
<1>1. ShiftMonth(m, 1) = m + 1
  BY ShiftMonthIs
<1> DEFINE from == FirstDay(m)
           to == FirstDay(ShiftMonth(m, 1))
           groups == [field \in CalendarFields |-> GroupByDay(field, from, to)]
<1>2. from \in Int /\ to \in Int /\ d \in Int /\ from <= d /\ d < to
  BY <1>1 DEF Days
<1> HIDE DEF from, to
<1>3. \A field \in CalendarFields : At(groups[field], d) = Tally(DayRange(field, d))
  BY <1>2, GroupAt
<1>4. Distribution(m)[d] = [field \in CalendarFields |-> At(groups[field], d)]
  BY DEF Distribution, from, to
<1> HIDE DEF groups
<1>5. Distribution(m)[d] = [field \in CalendarFields |-> Tally(DayRange(field, d))]
  BY <1>3, <1>4
<1>6. DayDetail(d) = [field \in CalendarFields |-> DayDetail(d)[field]]
  BY DEF DayDetail
<1>7. \A field \in CalendarFields : DayDetail(d)[field] = Tally(DayRange(field, d))
  BY DetailIs
<1> QED
  BY <1>5, <1>6, <1>7, Zenon

LEMMA DayTrendIs ==
  ASSUME TypeOK, NEW field \in CalendarFields, NEW i \in 1..DayPoints
  PROVE  DayTrend(field)[i] = Cardinality(DayRange(field, Today - DayPoints + i))
<1> DEFINE first == Today - (DayPoints - 1)
           d == Today - DayPoints + i
           G == GroupByDay(field, first, Today + 1)
<1>1. /\ first \in Int /\ Today + 1 \in Int /\ d \in Int
      /\ first <= d /\ d < Today + 1 /\ first + i - 1 = d
  BY LengthsAreNumbers
<1>2. At(G, d) = Tally(DayRange(field, d))
  <2> HIDE DEF first, d
  <2> QED
    BY <1>1, GroupAt
<1>3. DayTrend(field)[i] = At(G, first + i - 1).orders
  BY DEF DayTrend
<1> HIDE DEF first, d, G
<1>4. DayTrend(field)[i] = Cardinality(DayRange(field, d))
  BY <1>1, <1>2, <1>3 DEF Tally
<1> QED
  BY <1>4 DEF d

\* The last week of the trend is the current one.
LEMMA WeekTrendIs ==
  ASSUME TypeOK, NEW field \in CalendarFields
  PROVE  WeekTrend(field)[WeekPoints] =
           Cardinality(Within(field, WeekStart(Today), WeekStart(Today) + 7))
<1> DEFINE first == WeekStart(Today) - 7 * (WeekPoints - 1)
           G == GroupByDay(field, first, WeekStart(Today) + 7)
<1>1. WeekStart(Today) \in Int /\ WeekPoints \in Nat /\ WeekPoints >= 1
  BY LengthsAreNumbers DEF WeekStart
<1>2. /\ first \in Int /\ WeekStart(Today) + 7 \in Int /\ first <= WeekStart(Today)
      /\ first + 7 * (WeekPoints - 1) = WeekStart(Today)
      /\ first + 7 * WeekPoints = WeekStart(Today) + 7
  BY <1>1
<1>3. WeekTrend(field)[WeekPoints] =
        CountInRange(G, first + 7 * (WeekPoints - 1), first + 7 * WeekPoints)
  BY <1>1 DEF WeekTrend
<1> HIDE DEF first
<1>4. CountInRange(G, WeekStart(Today), WeekStart(Today) + 7) =
        Cardinality(Within(field, WeekStart(Today), WeekStart(Today) + 7))
  BY <1>1, <1>2, CountInRangeIs
<1> QED
  BY <1>2, <1>3, <1>4

LEMMA MonthTrendIs ==
  ASSUME TypeOK, NEW field \in CalendarFields, NEW i \in 1..MonthPoints,
         NEW m \in Int, m = MonthOf(Today) + i - MonthPoints
  PROVE  MonthTrend(field)[i] = Cardinality(Within(field, FirstDay(m), FirstDay(m + 1)))
<1> DEFINE t == MonthOf(Today)
           first == ShiftMonth(t, -(MonthPoints - 1))
           G == GroupByDay(field, FirstDay(first), FirstDay(ShiftMonth(t, 1)))
<1>1. t \in Int /\ MonthPoints \in Nat /\ MonthPoints >= 1 /\ i \in Nat /\ 1 <= i /\ i <= MonthPoints
  BY MonthOfToday, LengthsAreNumbers
<1>2. MonthTrend(field)[i] =
        CountInRange(G, FirstDay(ShiftMonth(first, i - 1)), FirstDay(ShiftMonth(ShiftMonth(first, i - 1), 1)))
  BY DEF MonthTrend
<1> HIDE DEF t
<1>3. /\ first = t - (MonthPoints - 1) /\ first \in Int
      /\ ShiftMonth(t, 1) = t + 1
  <2>1. -(MonthPoints - 1) \in Int /\ t + (-(MonthPoints - 1)) = t - (MonthPoints - 1)
    BY <1>1
  <2>2. \A a, b \in Int : ShiftMonth(a, b) = a + b
    BY ShiftMonthIs
  <2>3. first = t + (-(MonthPoints - 1))
    BY <1>1, <2>1, <2>2
  <2>4. 1 \in Int
    OBVIOUS
  <2>5. ShiftMonth(t, 1) = t + 1
    BY <1>1, <2>2, <2>4
  <2> HIDE DEF first
  <2> QED
    BY <1>1, <2>1, <2>3, <2>5
<1> HIDE DEF first
<1>4. first + (i - 1) = m /\ first <= m /\ m <= t
  BY <1>1, <1>3 DEF t
<1>5. ShiftMonth(first, i - 1) = m /\ ShiftMonth(m, 1) = m + 1
  <2>1. \A a, b \in Int : ShiftMonth(a, b) = a + b
    BY ShiftMonthIs
  <2>2. i - 1 \in Int /\ 1 \in Int
    BY <1>1
  <2> QED
    BY <1>3, <1>4, <2>1, <2>2
<1>6. /\ FirstDay(m) \in Int /\ FirstDay(m + 1) \in Int
      /\ FirstDay(first) <= FirstDay(m) /\ FirstDay(m + 1) <= FirstDay(t + 1)
      /\ FirstDay(first) \in Int /\ FirstDay(t + 1) \in Int
  BY <1>3, <1>4, TrendMonths DEF t
<1>7. CountInRange(G, FirstDay(m), FirstDay(m + 1)) = Cardinality(Within(field, FirstDay(m), FirstDay(m + 1)))
  BY <1>3, <1>6, CountInRangeIs
<1> QED
  BY <1>2, <1>5, <1>7

\* Whatever the table holds, the calendar, the days it opens, the trends and the tiles of the
\* current day, week and month put every order line in the same day, week and month.
LEMMA TrendsMatch ==
  ASSUME TypeOK
  PROVE  CalendarMatchesTrends
<1> DEFINE t == MonthOf(Today)
           trends == DeliveryTrends
           months == {ShiftMonth(MonthOf(Today), -k) : k \in 0..(MonthPoints - 1)}
           monthly(field, m) == MapThenSumSet(LAMBDA d : DayDetail(d)[field].orders, Days(m))
<1>1. /\ Overview.trends = trends /\ Overview.today = TodaySummary
      /\ Overview.week = WeekSummary /\ Overview.month = MonthSummary
  BY DEF Overview
<1>2. /\ Today \in Int /\ t \in Int /\ DayPoints \in Nat \ {0} /\ WeekPoints \in Nat \ {0}
      /\ MonthPoints \in Nat \ {0}
  BY LengthsAreNumbers, MonthOfToday
<1>3. \A a, b \in Int : ShiftMonth(a, b) = a + b
  BY ShiftMonthIs
<1>4. {"start", "delivery"} \subseteq CalendarFields /\ DOMAIN trends = {"start", "delivery"}
  BY DEF DeliveryTrends, CalendarFields
<1>5. \A field \in {"start", "delivery"} :
        /\ trends[field].days = DayTrend(field) /\ trends[field].weeks = WeekTrend(field)
        /\ trends[field].months = MonthTrend(field)
  BY DEF DeliveryTrends
<1> HIDE DEF trends
<1>6. ASSUME NEW m \in months, NEW d \in Days(m) PROVE Distribution(m)[d] = DayDetail(d)
  <2>1. PICK k \in 0..(MonthPoints - 1) : m = ShiftMonth(t, -k)
    OBVIOUS
  <2> HIDE DEF t
  <2>2. -k \in Int /\ t + (-k) = t - k /\ t - (MonthPoints - 1) <= t - k /\ t - k <= t /\ t - k \in Int
    BY <1>2
  <2>3. m = t - k
    BY <1>2, <1>3, <2>1, <2>2
  <2>4. FirstDay(m) \in Int /\ FirstDay(m + 1) \in Int /\ m \in Int
    BY <2>2, <2>3, TrendMonths DEF t
  <2> HIDE DEF months
  <2> QED
    BY <2>4, CalendarMatches
<1>7. ASSUME NEW field \in {"start", "delivery"}, NEW i \in 1..DayPoints
      PROVE  trends[field].days[i] = DayDetail(Today - DayPoints + i)[field].orders
  BY <1>4, <1>5, DayTrendIs, DetailIs
<1>8. ASSUME NEW field \in {"start", "delivery"}, NEW i \in 1..MonthPoints
      PROVE  trends[field].months[i] = monthly(field, ShiftMonth(t, i - MonthPoints))
  <2> HIDE DEF t
  <2>1. PICK m \in Int : m = t + i - MonthPoints
    BY <1>2
  <2>2. /\ i - MonthPoints \in Int /\ t + (i - MonthPoints) = m
        /\ t - (MonthPoints - 1) <= m /\ m <= t
    BY <1>2, <2>1
  <2>3. ShiftMonth(t, i - MonthPoints) = m
    BY <1>2, <1>3, <2>2
  <2>4. ShiftMonth(m, 1) = m + 1
    BY ShiftMonthIs
  <2>5. FirstDay(m) \in Int /\ FirstDay(m + 1) \in Int
    BY <2>2, TrendMonths DEF t
  <2>6. field \in CalendarFields
    BY <1>4
  <2>7. MonthTrend(field)[i] = Cardinality(Within(field, FirstDay(m), FirstDay(m + 1)))
    BY <2>1, <2>6, MonthTrendIs DEF t
  <2>8. MapThenSumSet(LAMBDA d : DayDetail(d)[field].orders, Days(m)) =
          Cardinality(Within(field, FirstDay(m), FirstDay(ShiftMonth(m, 1))))
    BY <2>4, <2>5, <2>6, DetailsAddUp
  <2>9. trends[field].months = MonthTrend(field)
    BY <1>5
  <2> QED
    BY <2>3, <2>4, <2>7, <2>8, <2>9
<1>9. trends["delivery"].days[DayPoints] = TodaySummary.delivery
  <2>1. trends["delivery"].days[DayPoints] = Cardinality(DayRange("delivery", Today))
    <3>1. DayPoints \in 1..DayPoints /\ Today - DayPoints + DayPoints = Today
      BY <1>2
    <3>2. DayTrend("delivery")[DayPoints] =
            Cardinality(DayRange("delivery", Today - DayPoints + DayPoints))
      BY <1>4, <3>1, DayTrendIs
    <3> QED
      BY <1>5, <3>1, <3>2
  <2> QED
    BY <2>1 DEF TodaySummary, WindowSummary, DayRange
<1>10. trends["delivery"].weeks[WeekPoints] = WeekSummary.delivery
  <2>1. WeekTrend("delivery")[WeekPoints] =
          Cardinality(Within("delivery", WeekStart(Today), WeekStart(Today) + 7))
    BY <1>4, WeekTrendIs
  <2> QED
    BY <1>5, <2>1 DEF WeekSummary, WindowSummary
<1>11. trends["delivery"].months[MonthPoints] = MonthSummary.delivery
  <2>1. MonthPoints \in 1..MonthPoints /\ t = t + MonthPoints - MonthPoints
    BY <1>2
  <2>2. MonthTrend("delivery")[MonthPoints] = Cardinality(Within("delivery", FirstDay(t), FirstDay(t + 1)))
    BY <1>2, <1>4, <2>1, MonthTrendIs
  <2>3. ShiftMonth(t, 1) = t + 1
    BY <1>2, ShiftMonthIs
  <2>4. MonthSummary = WindowSummary(FirstDay(t), FirstDay(ShiftMonth(t, 1)))
    BY DEF MonthSummary
  <2> HIDE DEF t
  <2> QED
    BY <1>5, <2>2, <2>3, <2>4 DEF WindowSummary
<1> HIDE DEF monthly, months, t
<1>12. \A field \in DOMAIN trends :
         /\ \A i \in 1..DayPoints :
              trends[field].days[i] = DayDetail(Today - DayPoints + i)[field].orders
         /\ \A i \in 1..MonthPoints :
              trends[field].months[i] = monthly(field, ShiftMonth(t, i - MonthPoints))
  BY <1>4, <1>7, <1>8, Zenon
<1>13. \A field \in DOMAIN Overview.trends :
         /\ \A i \in 1..DayPoints :
              Overview.trends[field].days[i] = DayDetail(Today - DayPoints + i)[field].orders
         /\ \A i \in 1..MonthPoints :
              Overview.trends[field].months[i] = monthly(field, ShiftMonth(t, i - MonthPoints))
  BY <1>1, <1>12, Zenon
<1>14. /\ Overview.trends["delivery"].days[DayPoints] = Overview.today.delivery
       /\ Overview.trends["delivery"].weeks[WeekPoints] = Overview.week.delivery
       /\ Overview.trends["delivery"].months[MonthPoints] = Overview.month.delivery
  BY <1>1, <1>9, <1>10, <1>11, Zenon
<1> QED
  BY <1>6, <1>13, <1>14, Zenon DEF CalendarMatchesTrends, monthly, months, t

\* The calendar and the trends of the dashboard (order_schedule_snapshot_repo,
\* schedule_query_service): in every state of the table they count alike, for any
\* calendar whose months ascend and reach from the first month of the trend to the next one.
THEOREM CalendarHolds == Spec => []CalendarMatchesTrends
BY TypesHold, TrendsMatch, PTL
=============================================================================
