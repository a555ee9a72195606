------------------------------ MODULE MCDashboard ------------------------------
(* Small instances of Listings and Dashboard for TLC. *)
EXTENDS Dashboard

CONSTANTS noRow, null

\* Months of two to four days across a turn of the year; days 14 and 21 are Mondays.
MCMonthStart == [m \in 9..15 |-> <<0, 4, 8, 10, 14, 18, 22>>[m - 8]]

Waiting(delivery, warning, quantity) ==
  [status |-> "waiting", warning |-> warning, released |-> TRUE, delivery |-> delivery,
   trigger |-> null, start |-> null, end |-> null, quantity |-> quantity, parts |-> {}]

Planned(status, delivery, start, warning, quantity, parts) ==
  [status |-> status, warning |-> warning, released |-> TRUE, delivery |-> delivery,
   trigger |-> start, start |-> start, end |-> delivery, quantity |-> quantity, parts |-> parts]

PartOf(rank, assembly, warning, visible) ==
  [rank |-> rank, assembly |-> assembly, warning |-> warning, visible |-> visible]

\* Deliveries at the midnight or the noon of a day: earlier in the week, today, on the last day
\* of the month, in the week but past the month, past the week, and never.
MCRows ==
  {[Waiting(null, "normal", null) EXCEPT !.released = FALSE],
   Waiting(2 * 16, "abnormal", 2),
   [Waiting(2 * 14 + 1, "normal", 1) EXCEPT !.trigger = 2 * 16],
   Planned("scheduled", 2 * 17 + 1, 2 * 12, "normal", 2,
           {PartOf(1, 1, "normal", TRUE), PartOf(2, 2, "abnormal", TRUE)}),
   Planned("scheduled", 2 * 21, 2 * 9, "abnormal", 1,
           {PartOf(1, 2, "normal", TRUE), PartOf(1, 3, "normal", FALSE)}),
   Planned("scheduled_stale", 2 * 18 + 1, 2 * 14, "abnormal", null, {PartOf(1, 1, "normal", TRUE)})}

\* Once the table has changed under a reader, no property says anything until the next one.
Undisturbed == ~dirty

MCFilters ==
  {[status |-> null, bucket |-> b, warning |-> null, released |-> r, from |-> null, to |-> t] :
     b \in {null, "risk"}, r \in {null, FALSE}, t \in {null, 17}}
=============================================================================
