------------------------------- MODULE Dashboard -------------------------------
(***************************************************************************)
(* The numbers of the dashboard and of the calendar: each counts the same  *)
(* order lines in its own way, with windows and groupings of its own.      *)
(***************************************************************************)
EXTENDS Listings, FiniteSetsExt

CONSTANTS
  Today,         \* local_today()
  MonthStart,    \* the first day of each month of the calendar, by year * 12 + month - 1
  DayPoints, WeekPoints, MonthPoints,          \* length of the trends
  WarningLimit, AbnormalLimit, RiskLimit, AssemblyLimit,
  RiskDays       \* length of the window of delivery risks

ASSUMPTION CalendarAscends ==
  /\ DOMAIN MonthStart \subseteq Int
  /\ MonthStart \in [DOMAIN MonthStart -> Int]
  /\ \A m, n \in DOMAIN MonthStart : m < n => MonthStart[m] < MonthStart[n]
ASSUMPTION CalendarReaches ==
  \E m \in DOMAIN MonthStart :
    /\ (m - (MonthPoints - 1)) .. (m + 1) \subseteq DOMAIN MonthStart
    /\ MonthStart[m] <= Today /\ Today < MonthStart[m + 1]
ASSUMPTION LengthsAreNumbers ==
  /\ Today \in Int /\ {DayPoints, WeekPoints, MonthPoints} \subseteq Nat \ {0}
  /\ {WarningLimit, AbnormalLimit, RiskLimit, AssemblyLimit, RiskDays} \subseteq Nat

-----------------------------------------------------------------------------
(* Windows of days *)

\* From the midnight of one day up to, not including, that of another.
Window(from, to) == Midnight(from) .. (Midnight(to) - 1)

\* A null column is in no window.
Within(field, from, to) == {o \in Known : table[o][field] \in Window(from, to)}

DayRange(field, d) == Within(field, d, d + 1)

\* Day 0 is a Monday.
WeekStart(d) == d - (d % 7)

\* _shift_month: months are numbered through, a date is mapped to the first of its month.
MonthOf(d) == CHOOSE m \in DOMAIN MonthStart :
                MonthStart[m] <= d /\ (m + 1) \in DOMAIN MonthStart /\ d < MonthStart[m + 1]

Year(m) == m \div 12
Month(m) == (m % 12) + 1

ShiftMonth(m, months) == Year(m) * 12 + (Month(m) - 1) + months

FirstDay(m) == MonthStart[m]

QuantitySum(S) ==
  MapThenSumSet(LAMBDA o : IF table[o].quantity = Null THEN 0 ELSE table[o].quantity, S)

Tally(S) == [orders |-> Cardinality(S), quantity |-> QuantitySum(S)]

-----------------------------------------------------------------------------
(* The dashboard *)

MachineSummary ==
  [total     |-> Cardinality(Known),
   scheduled |-> Cardinality({o \in Known : table[o].status = "scheduled"}),
   abnormal  |-> Cardinality({o \in Known : table[o].warning = "abnormal"}),
   statuses  |-> [s \in {table[o].status : o \in Known} |->
                    Cardinality({o \in Known : table[o].status = s})],
   endMonths |-> [m \in {MonthOf(DayOf(table[o].end)) : o \in {k \in Known : table[k].end # Null}} |->
                    Cardinality({o \in Known : table[o].end # Null /\ MonthOf(DayOf(table[o].end)) = m})]]

Unscheduled ==
  LET n == MachineSummary.total - MachineSummary.scheduled
  IN IF n > 0 THEN n ELSE 0

WindowSummary(from, to) ==
  LET S == Within("delivery", from, to)
  IN [delivery    |-> Cardinality(S),
      unscheduled |-> Cardinality({o \in S : table[o].status # "scheduled"}),
      abnormal    |-> Cardinality({o \in S : table[o].warning = "abnormal"})]

TodaySummary == WindowSummary(Today, Today + 1)
WeekSummary == WindowSummary(WeekStart(Today), WeekStart(Today) + 7)
MonthSummary ==
  LET m == MonthOf(Today)
  IN WindowSummary(FirstDay(m), FirstDay(ShiftMonth(m, 1)))

\* The first rows in the order of the columns; S holds at least one such sequence.
Top(S, columns, limit) ==
  LET n == Cardinality(S)
      q == CHOOSE q \in [1..n -> S] :
             \A i, j \in 1..n : i < j => q[i] # q[j] /\ ~Precedes(columns, q[j], q[i])
  IN SubSeq(q, 1, IF n < limit THEN n ELSE limit)

WarningOrders ==
  Top({o \in Known : table[o].warning # "normal" \/ table[o].status # "scheduled"},
      <<"delivery asc", "id desc">>, WarningLimit)

AbnormalOrders ==
  Top({o \in Known : table[o].warning = "abnormal"}, <<"delivery asc", "id asc">>, AbnormalLimit)

RiskOrders ==
  LET S == {o \in Within("delivery", Today, Today + RiskDays) :
              table[o].status # "scheduled" \/ table[o].warning = "abnormal"}
  IN Top(S, <<"delivery asc", "abnormal first", "unscheduled first", "id asc">>, RiskLimit)

-----------------------------------------------------------------------------
(* Parts *)

PartRows == UNION {{<<o, p>> : p \in table[o].parts} : o \in Known}

VisibleParts == {x \in PartRows : x[2].visible}

\* The filters of the list of part schedules that the dashboard's numbers use.
PartList(assemblies, warnings) ==
  {x \in VisibleParts : x[2].assembly \in assemblies /\ x[2].warning \in warnings}

AssemblyCount == [a \in {x[2].assembly : x \in VisibleParts} |->
                    Cardinality({x \in VisibleParts : x[2].assembly = a})]

\* row_number() over the count, ties by name.
TopAssemblies ==
  {a \in DOMAIN AssemblyCount :
     Cardinality({b \in DOMAIN AssemblyCount :
                    \/ AssemblyCount[b] > AssemblyCount[a]
                    \/ AssemblyCount[b] = AssemblyCount[a] /\ b < a}) < AssemblyLimit}

PartSummary ==
  [total    |-> Cardinality(VisibleParts),
   abnormal |-> Cardinality({x \in VisibleParts : x[2].warning = "abnormal"}),
   top      |-> [a \in TopAssemblies |-> AssemblyCount[a]]]
-----------------------------------------------------------------------------
(* The calendar *)

CalendarFields == {"delivery", "trigger", "start"}

\* GROUP BY the date of the column.
GroupByDay(field, from, to) ==
  LET S == Within(field, from, to)
  IN [d \in {DayOf(table[o][field]) : o \in S} |-> Tally({o \in S : DayOf(table[o][field]) = d})]

At(groups, d) == IF d \in DOMAIN groups THEN groups[d] ELSE Tally({})

Days(m) == FirstDay(m) .. (FirstDay(ShiftMonth(m, 1)) - 1)

Distribution(m) ==
  LET groups == [field \in CalendarFields |->
                   GroupByDay(field, FirstDay(m), FirstDay(ShiftMonth(m, 1)))]
  IN [d \in Days(m) |-> [field \in CalendarFields |-> At(groups[field], d)]]

DayDetail(d) ==
  LET shown == UNION {DayRange(field, d) : field \in CalendarFields}
  IN [field \in CalendarFields |-> Tally({o \in shown : o \in DayRange(field, d)})]

-----------------------------------------------------------------------------
(* The trends *)

\* Variant: the end of the range is counted too.
CountInRange_Closed(groups, from, to) ==
  MapThenSumSet(LAMBDA d : At(groups, d).orders, from .. to)

CountInRange(groups, from, to) ==
  MapThenSumSet(LAMBDA d : At(groups, d).orders, from .. (to - 1))

DayTrend(field) ==
  LET first == Today - (DayPoints - 1)
      groups == GroupByDay(field, first, Today + 1)
  IN [i \in 1..DayPoints |-> At(groups, first + i - 1).orders]

WeekTrend(field) ==
  LET first == WeekStart(Today) - 7 * (WeekPoints - 1)
      groups == GroupByDay(field, first, WeekStart(Today) + 7)
  IN [i \in 1..WeekPoints |-> CountInRange(groups, first + 7 * (i - 1), first + 7 * i)]

MonthTrend(field) ==
  LET first == ShiftMonth(MonthOf(Today), -(MonthPoints - 1))
      groups == GroupByDay(field, FirstDay(first), FirstDay(ShiftMonth(MonthOf(Today), 1)))
      from(i) == FirstDay(ShiftMonth(first, i - 1))
      to(i) == FirstDay(ShiftMonth(ShiftMonth(first, i - 1), 1))
  IN [i \in 1..MonthPoints |-> CountInRange(groups, from(i), to(i))]

DeliveryTrends ==
  [field \in {"start", "delivery"} |->
     [days |-> DayTrend(field), weeks |-> WeekTrend(field), months |-> MonthTrend(field)]]

\* What the dashboard is sent.
Overview ==
  [machines |-> MachineSummary, unscheduled |-> Unscheduled, parts |-> PartSummary,
   today |-> TodaySummary, week |-> WeekSummary, month |-> MonthSummary,
   trends |-> DeliveryTrends,
   warnings |-> WarningOrders, abnormal |-> AbnormalOrders, risks |-> RiskOrders]

-----------------------------------------------------------------------------
\* The numbers depend on the table alone, so they are compared while nothing is being read.
Quiet == reader.kind = "idle"

\* The list that a window of days opens: its last day is included.
Listed(from, to) == [NoFilter EXCEPT !.from = from, !.to = to - 1]

SummaryMatches(summary, f) ==
  /\ summary.delivery = Count(f)
  /\ summary.unscheduled = Count([f EXCEPT !.bucket = "unscheduled"])
  /\ summary.abnormal = Count([f EXCEPT !.warning = "abnormal"])

\* The best-filled assemblies, the abnormal parts and the total.
PartNumbersMatchLists(parts) ==
  /\ parts.total = Cardinality(PartList(Assemblies, Warnings))
  /\ parts.abnormal = Cardinality(PartList(Assemblies, {"abnormal"}))
  /\ \A a \in Assemblies :
       LET n == Cardinality(PartList({a}, Warnings))
       IN IF a \in DOMAIN parts.top
          THEN parts.top[a] = n
          ELSE \A b \in DOMAIN parts.top : parts.top[b] >= n

\* q is the head of what the list shows, all of it if it fits.
Heads(q, f, limit) ==
  /\ \E l \in Listing("schedules", f, <<>>) : q = SubSeq(l, 1, Len(q))
  /\ Len(q) = Count(f) \/ Len(q) = limit

\* Every number of the dashboard is the total of the list it leads to, and each of its
\* short lists holds that list's rows, all of them if they fit.
DashboardMatchesLists == Quiet =>
  LET o == Overview
      m == MonthOf(Today)
      risk == [NoFilter EXCEPT !.bucket = "risk"]
      near == [risk EXCEPT !.from = Today, !.to = Today + RiskDays - 1]
      shown == {o.risks[i] : i \in DOMAIN o.risks}
  IN /\ o.machines.total = Count(NoFilter)
     /\ o.machines.abnormal = Count([NoFilter EXCEPT !.warning = "abnormal"])
     /\ o.unscheduled = Count([NoFilter EXCEPT !.bucket = "unscheduled"])
     /\ \A s \in DOMAIN o.machines.statuses :
          o.machines.statuses[s] = Count([NoFilter EXCEPT !.status = s])
     /\ SummaryMatches(o.today, Listed(Today, Today + 1))
     /\ SummaryMatches(o.week, Listed(WeekStart(Today), WeekStart(Today) + 7))
     /\ SummaryMatches(o.month, Listed(FirstDay(m), FirstDay(ShiftMonth(m, 1))))
     /\ Heads(o.warnings, risk, WarningLimit)
     /\ {o.abnormal[i] : i \in DOMAIN o.abnormal} \subseteq
          Selected([NoFilter EXCEPT !.warning = "abnormal"])
     /\ shown \subseteq Selected(near)
     /\ shown = Selected(near) \/ Cardinality(shown) = RiskLimit
     /\ PartNumbersMatchLists(o.parts)

\* The calendar, the days it opens, the windows and the trends count every order line in the
\* same day, week and month.
CalendarMatchesTrends == Quiet =>
  LET o == Overview
      months == {ShiftMonth(MonthOf(Today), -k) : k \in 0..(MonthPoints - 1)}
      monthly(field, m) == MapThenSumSet(LAMBDA d : DayDetail(d)[field].orders, Days(m))
  IN /\ \A m \in months : \A d \in Days(m) : Distribution(m)[d] = DayDetail(d)
     /\ \A field \in DOMAIN o.trends :
          /\ \A i \in 1..DayPoints :
               o.trends[field].days[i] = DayDetail(Today - DayPoints + i)[field].orders
          /\ \A i \in 1..MonthPoints :
               o.trends[field].months[i] = monthly(field, ShiftMonth(MonthOf(Today), i - MonthPoints))
     /\ o.trends["delivery"].days[DayPoints] = o.today.delivery
     /\ o.trends["delivery"].weeks[WeekPoints] = o.week.delivery
     /\ o.trends["delivery"].months[MonthPoints] = o.month.delivery
=============================================================================
