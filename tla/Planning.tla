------------------------------- MODULE Planning -------------------------------
(***************************************************************************)
(* How one order becomes dates.  The check decides whether the order's     *)
(* trigger date has come, the machine plan counts the machine's cycle      *)
(* back from the delivery date, and the part plan walks the BOM below each *)
(* assembly, finds its key part and counts the assemblies back one         *)
(* production sequence after another.  The assembly times of the machine   *)
(* model are a table that planning completes and administrators edit.      *)
(*                                                                         *)
(* Days are integers.  Machine cycles and assembly times are kept to a     *)
(* fraction of a day and are counted here in half-days; part cycles are    *)
(* rounded to whole days when they are stored.                             *)
(***************************************************************************)
EXTENDS Integers, Sequences, FiniteSets, SequencesExt, FiniteSetsExt, Functions, TLC

CONSTANTS
  Rows,          \* BOM rows, numbered in the order siblings are walked
  Parent, Child, \* the material a row belongs to, the material it lists
  Machine,       \* the ordered machine's material
  NameOf,        \* the assembly a direct child's description stands for, or None
  Names, Whole,  \* assembly names, and the name of the final assembly among them
  DefaultSeq,    \* production sequence of an assembly nobody configured
  Worlds,        \* what planning may find: see the variable world
  Requests,      \* assembly times an administrator may save
  None,
  Delivery,      \* the confirmed delivery date
  DefaultCycle, DefaultPart, DefaultSub, DefaultFinal,  \* durations when there is no baseline
  CheckSlack, CycleSlack, PartReach, EndSlack,  \* how much calendar each step loads
  MaxIterations, \* days subtract_workdays goes back at most
  MaxEdits       \* bound on the administrator's changes

\* Siblings have an order; every row has a parent and a child; a description stands for
\* at most one of the assembly names, which are a fixed list.
ASSUME RowsAreOrdered ==
  /\ Rows \subseteq Int /\ IsFiniteSet(Rows)
  /\ DOMAIN Parent = Rows /\ DOMAIN Child = Rows

ASSUME NamesAreListed ==
  /\ IsFiniteSet(Names) /\ Whole \in Names
  /\ None \notin Names \union {"missing_bom", "pending_trigger", "schedulable"}
  /\ \A r \in Rows : NameOf[r] \in Names \union {None}

\* Nothing checks what is saved: a sequence and a time are any integers.
ASSUME TimesAreNumbers ==
  /\ DefaultSeq \in [Names -> Int] /\ DefaultPart \in Nat
  /\ {DefaultCycle, DefaultSub, DefaultFinal} \subseteq Int
  /\ \A request \in Requests : /\ request.seq \in Int /\ request.half \in Int
                               /\ request.final \in BOOLEAN

\* The part plan loads a year of calendar; the loop over its days is cut off after a
\* thousand.
ASSUME CalendarIsLoaded ==
  /\ Delivery \in Int
  /\ {CheckSlack, CycleSlack, PartReach, EndSlack, MaxIterations} \subseteq Nat
  /\ PartReach <= MaxIterations

\* Quantities and part cycles are not negative.  Nothing is assumed of the calendar: any
\* days may be listed, as workdays or not.
ASSUME WorldsAreTables ==
  \A w \in Worlds :
    /\ w.bom \subseteq Rows /\ w.own \subseteq w.bom
    /\ \A r \in w.own : w.cycle[Child[r]] \in Nat \union {None}
    /\ DOMAIN w.entries \subseteq Int /\ \A d \in DOMAIN w.entries : w.entries[d] \in BOOLEAN
    /\ w.today \in Int /\ w.qty \in Nat
    /\ DOMAIN w.baselines \subseteq Nat /\ IsFiniteSet(DOMAIN w.baselines)
    /\ \A q \in DOMAIN w.baselines : w.baselines[q] \in Int

VARIABLES
  world,   \* bom, its self-made rows own, part cycles, calendar entries, today, qty, baselines
  times,   \* assembly_time_baseline of the model: name -> row
  stage,   \* the planning transaction: "idle", "checked", "machine"
  verdict, \* the last check's answer
  machine, \* machine_schedule_result of the order, or None
  parts,   \* part_schedule_result of the order
  edits

vars == <<world, times, stage, verdict, machine, parts, edits>>

Init ==
  /\ world \in Worlds
  /\ times = <<>>
  /\ stage = "idle"
  /\ verdict = None
  /\ machine = None
  /\ parts = {}
  /\ edits = 0

-----------------------------------------------------------------------------
(* The calendar *)

\* Days the calendar does not list are workdays from Monday to Friday.
IsWorkday(day, calendar) ==
  IF day \in DOMAIN calendar THEN calendar[day] ELSE day % 7 < 5

\* The entries a step loads from the work_calendar table.
Calendar(from, to) == Restrict(world.entries, DOMAIN world.entries \intersect (from .. to))

\* subtract_workdays: a day back at a time until n workdays are passed or the cap is hit.
SubtractWorkdays(from, n, calendar) ==
  LET back[i \in 0 .. MaxIterations + 1] == [left \in 0 .. n |->
        IF left = 0 \/ i > MaxIterations
        THEN from - i
        ELSE back[i + 1][IF IsWorkday(from - i - 1, calendar) THEN left - 1 ELSE left]]
  IN IF n <= 0 THEN from ELSE back[0][n]

\* int() drops the fraction.
WholeDays(halves) == IF halves < 0 THEN -((-halves) \div 2) ELSE halves \div 2

-----------------------------------------------------------------------------
(* The machine *)

Distance(a, b) == IF a < b THEN b - a ELSE a - b

\* The baseline of the order's quantity; else that of the nearest one (the smaller of
\* two), in proportion; else the default.
MachineCycle ==
  LET known == world.baselines
      qty == IF world.qty = 0 THEN 1 ELSE world.qty
      nearest == CHOOSE q \in DOMAIN known : \A r \in DOMAIN known :
                   \/ Distance(q, qty) < Distance(r, qty)
                   \/ Distance(q, qty) = Distance(r, qty) /\ q <= r
  IN CASE qty \in DOMAIN known -> known[qty]
       [] DOMAIN known = {} -> DefaultCycle
       [] OTHER -> IF nearest = 0 THEN known[nearest] ELSE (known[nearest] * qty) \div nearest

TriggerDate_LoadedLate ==
  SubtractWorkdays(Delivery, WholeDays(MachineCycle),
                   Calendar(world.today + CheckSlack, Delivery + EndSlack))

TriggerDate ==
  SubtractWorkdays(Delivery, WholeDays(MachineCycle),
                   Calendar(world.today - CheckSlack, Delivery + EndSlack))

PlannedStart ==
  SubtractWorkdays(Delivery, WholeDays(MachineCycle),
                   Calendar(Delivery - (WholeDays(MachineCycle) * 2 + CycleSlack), Delivery + EndSlack))

-----------------------------------------------------------------------------
(* Assembly times *)

\* find_final_assembly takes a row with the flag or with the name, and raises on two.
Finals(table) == {n \in DOMAIN table : table[n].final \/ n = Whole}
Subs(table) == {n \in DOMAIN table : ~table[n].final /\ n # Whole}

LastSub(table) ==
  LET seqs == {table[n].seq : n \in Subs(table)}
  IN IF seqs = {} THEN 0 ELSE Max(seqs)

Reconcile_NoRenumber(table) ==
  [n \in DOMAIN table |->
     IF n \in Finals(table) THEN [table[n] EXCEPT !.final = TRUE] ELSE table[n]]

\* reconcile_final_assembly_sequence
Reconcile(table) ==
  [n \in DOMAIN table |->
     IF n \in Finals(table)
     THEN [table[n] EXCEPT !.final = TRUE,
                           !.seq = IF n = Whole THEN LastSub(table) + 1 ELSE DefaultSeq[n]]
     ELSE table[n]]

DefaultRow(table, name) ==
  [seq |-> IF name = Whole THEN LastSub(table) + 1 ELSE DefaultSeq[name],
   half |-> IF name = Whole THEN DefaultFinal ELSE DefaultSub,
   final |-> name = Whole]

Ensure(table, names) ==
  [n \in DOMAIN table \union names |->
     IF n \in DOMAIN table THEN table[n] ELSE DefaultRow(table, n)]

-----------------------------------------------------------------------------
(* The BOM below an assembly *)

ChildRows(material) ==
  LET rows == {r \in world.bom : Parent[r] = material}
  IN CHOOSE seq \in [1 .. Cardinality(rows) -> rows] :
       \A i, j \in DOMAIN seq : i < j => seq[i] < seq[j]

PartPaths_StopAtBought(assembly) ==
  LET walk[seen \in SUBSET Range(Child)] == [material \in Range(Child) |->
        FlattenSeq([i \in DOMAIN ChildRows(material) |->
          LET row == ChildRows(material)[i]
              below == walk[seen \union {Child[row]}][Child[row]]
          IN IF Child[row] \in seen \/ row \notin world.own THEN <<>>
             ELSE << <<row>> >> \o [j \in DOMAIN below |-> <<row>> \o below[j]]])]
  IN walk[{assembly}][assembly]

\* Self-made parts below an assembly in the order they are walked, each as the rows from
\* the assembly down to it (bom_path_key).  A material already on the path is skipped.
PartPaths(assembly) ==
  LET walk[seen \in SUBSET Range(Child)] == [material \in Range(Child) |->
        FlattenSeq([i \in DOMAIN ChildRows(material) |->
          LET row == ChildRows(material)[i]
              below == walk[seen \union {Child[row]}][Child[row]]
          IN IF Child[row] \in seen THEN <<>>
             ELSE (IF row \in world.own THEN << <<row>> >> ELSE <<>>)
                  \o [j \in DOMAIN below |-> <<row>> \o below[j]]])]
  IN walk[{assembly}][assembly]

PartCycle(path) ==
  LET known == world.cycle[Child[Last(path)]]
  IN IF known = None THEN DefaultPart ELSE known

KeyPath_First(paths) == paths[1]

\* The first of the longest.
KeyPath(paths) ==
  paths[CHOOSE i \in DOMAIN paths :
          /\ \A j \in DOMAIN paths : PartCycle(paths[j]) <= PartCycle(paths[i])
          /\ \A j \in 1 .. i - 1 : PartCycle(paths[j]) < PartCycle(paths[i])]

AssemblyRows == {r \in world.bom : Parent[r] = Machine /\ NameOf[r] # None}

\* Of several direct children with one name the first is taken; the query has no order.
Picks == {pick \in [{NameOf[r] : r \in AssemblyRows} -> AssemblyRows] :
            \A n \in DOMAIN pick : NameOf[pick[n]] = n}

-----------------------------------------------------------------------------
(* The part plan *)

InGroup(table, names, seq) == {n \in names : table[n].seq = seq}

GroupTime_Shortest(table, group) ==
  IF group = {} THEN 0 ELSE Min({table[n].half : n \in group})

GroupTime(table, group) == Max({table[n].half : n \in group} \union {0})

\* Groups of one production sequence, the last first: each must be finished when the next
\* one's assembly begins, the last group when final assembly begins.
GroupEnds(table, names, calendar) ==
  LET seqs == {table[n].seq : n \in names}
      last == Max(seqs)
      days(seq) == WholeDays(GroupTime(table, InGroup(table, names, seq)))
      final == IF machine.assembly = 0 THEN DefaultFinal ELSE machine.assembly
      end[seq \in Min(seqs) .. last] ==
        IF seq = last
        THEN SubtractWorkdays(machine.end, WholeDays(final), calendar)
        ELSE SubtractWorkdays(end[seq + 1], days(seq + 1), calendar)
  IN end

\* The rows of one assembly with the key part's path.
IsKey(path, key) == path = key

\* One row per part; an assembly without parts has one row without a part.
PartRows(name, timing, row, end, calendar) ==
  LET paths == PartPaths(Child[row])
      key == KeyPath(paths)
      planned(path, cycle, isKey, start) ==
        [name |-> name, seq |-> timing.seq, half |-> timing.half, end |-> end,
         path |-> path, cycle |-> cycle, key |-> isKey, start |-> start]
  IN IF paths = <<>>
     THEN {planned(<<>>, None, FALSE, None)}
     ELSE {planned(path, PartCycle(path), IsKey(path, key),
                   SubtractWorkdays(end, PartCycle(key), calendar)) : path \in Range(paths)}

-----------------------------------------------------------------------------
(* The planning of the order, in one transaction *)

CheckOrder ==
  /\ stage = "idle"
  /\ verdict' = CASE world.bom = {} -> "missing_bom"
                  [] world.bom # {} /\ world.today < TriggerDate -> "pending_trigger"
                  [] OTHER -> "schedulable"
  /\ stage' = IF verdict' = "schedulable" THEN "checked" ELSE "idle"
  /\ UNCHANGED <<world, times, machine, parts, edits>>

BuildMachine ==
  /\ stage = "checked"
  /\ Cardinality(Finals(times)) <= 1
  /\ times' = IF Finals(times) = {} THEN Ensure(times, {Whole}) ELSE times
  /\ machine' = [start |-> PlannedStart, end |-> Delivery, cycle |-> MachineCycle,
                 assembly |-> times'[CHOOSE n \in Finals(times') : TRUE].half]
  /\ stage' = "machine"
  /\ UNCHANGED <<world, verdict, parts, edits>>

\* A BOM without assemblies leaves the old part plan and the assembly times alone.
BuildParts ==
  /\ stage = "machine"
  /\ \/ AssemblyRows = {} /\ UNCHANGED <<times, parts>>
     \/ \E pick \in Picks :
          LET names == DOMAIN pick
              calendar == Calendar(machine.end - PartReach, machine.end + EndSlack)
              ends == GroupEnds(times', names, calendar)
          IN /\ names # {}
             /\ times' = Reconcile(Ensure(times, names))
             /\ Cardinality(Finals(times')) <= 1
             /\ parts' = UNION {PartRows(n, times'[n], pick[n], ends[times'[n].seq], calendar) :
                                  n \in names}
  /\ stage' = "idle"
  /\ UNCHANGED <<world, verdict, machine, edits>>

-----------------------------------------------------------------------------
(* The administrator.  Two final assemblies make the reconciliation raise, and nothing is
   saved. *)

Edit(table) ==
  /\ stage = "idle"
  /\ edits < MaxEdits
  /\ Cardinality(Finals(table)) <= 1
  /\ times' = Reconcile(table)
  /\ edits' = edits + 1
  /\ UNCHANGED <<world, stage, verdict, machine, parts>>

SaveTime(name, request) ==
  LET final == request.final \/ name = Whole
      row == [seq |-> IF final THEN LastSub(times) + 1 ELSE request.seq,
              half |-> request.half, final |-> final]
  IN Edit([n \in DOMAIN times \union {name} |-> IF n = name THEN row ELSE times[n]])

DeleteTime(name) ==
  /\ name \in DOMAIN times
  /\ Edit(Restrict(times, DOMAIN times \ {name}))

Next ==
  \/ CheckOrder \/ BuildMachine \/ BuildParts
  \/ \E name \in Names : \E request \in Requests : SaveTime(name, request)
  \/ \E name \in Names : DeleteTime(name)

Spec == Init /\ [][Next]_vars

-----------------------------------------------------------------------------
(* What a plan must be *)

\* Workdays of the factory from one day up to another, by the whole work calendar.
FactoryDays(from, to) == Cardinality({d \in from .. to - 1 : IsWorkday(d, world.entries)})

\* Ways down the BOM from a material to a self-made part that meet no material twice.
SimplePaths(material) ==
  LET below == {r \in world.bom : \E s \in world.bom : Child[s] = Parent[r]}
  IN {path \in BoundedSeq(below, Cardinality({Child[r] : r \in below})) :
     /\ path # <<>> /\ Last(path) \in world.own
     /\ Parent[path[1]] = material
     /\ \A i \in 2 .. Len(path) : Parent[path[i]] = Child[path[i - 1]]
     /\ \A i \in DOMAIN path : /\ Child[path[i]] # material
                               /\ \A j \in 1 .. i - 1 : Child[path[j]] # Child[path[i]]}

\* The part plan has every assembly of the BOM, and in it every occurrence of every
\* self-made part below that assembly: a part used in two places is planned in both, and a
\* BOM that loops loses nothing else.
EveryPathPlanned ==
  parts # {} =>
    \A n \in {NameOf[r] : r \in AssemblyRows} :
      \E r \in AssemblyRows :
        LET wanted == SimplePaths(Child[r])
        IN /\ NameOf[r] = n
           /\ {p.path : p \in {q \in parts : q.name = n}} =
                IF wanted = {} THEN {<<>>} ELSE wanted

\* Every part of an assembly, not only its key part, can be made between the planned start
\* and end, counting the days the factory really works.
PartsFit ==
  \A p \in parts : p.path # <<>> => FactoryDays(p.start, p.end) >= p.cycle

\* Once the planning transaction has ended, an assembly's parts are finished early enough
\* to assemble them before any assembly of a
\* later sequence is due, and all of them before final assembly.
AssembliesInOrder ==
  stage # "machine" => \A p \in parts :
    /\ FactoryDays(p.end, machine.end) >= WholeDays(machine.assembly)
    /\ \A q \in parts : p.seq < q.seq => FactoryDays(p.end, q.end) >= WholeDays(q.half)

\* The check and the machine plan load different stretches of the calendar, yet an order is
\* found schedulable exactly when its planned start has come.
VerdictMatchesPlan ==
  verdict \in {"pending_trigger", "schedulable"} =>
    (verdict = "schedulable" <=> PlannedStart <= world.today)

\* The model has at most one final assembly, and one of that name comes after all others.
FinalComesLast ==
  /\ Cardinality(Finals(times)) <= 1
  /\ Whole \in DOMAIN times => \A n \in Subs(times) : times[n].seq < times[Whole].seq

\* docs/code-review-fix-checklist.md: fractions of a day are rounded up.
FractionsRoundUp ==
  machine # None => 2 * FactoryDays(machine.start, machine.end) >= machine.cycle
=============================================================================
