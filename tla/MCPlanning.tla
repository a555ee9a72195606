------------------------------ MODULE MCPlanning ------------------------------
(* A machine of four direct children, two of them of one name, over three part materials;
   BOMs with shared parts and with loops; two weeks of calendar. *)
EXTENDS Planning

MCParent == <<"machine", "machine", "machine", "a", "a", "b", "p", "q", "q", "machine">>
MCChild == <<"a", "b", "c", "p", "q", "q", "q", "p", "a", "d">>
MCNameOf == <<"body", "drive", "drive", None, None, None, None, None, None,
              "slider">>
MCDefaultSeq == [n \in Names |-> IF n = "body" THEN 1 ELSE 2]
MCRequests == [seq : {-1, 1, 3}, half : {-3, 0, 3, 6}, final : BOOLEAN]

Cycles(a, p, q) == [m \in {"a", "p", "q"} |-> CASE m = "a" -> a [] m = "p" -> p [] OTHER -> q]

Base == [bom |-> (1 .. 6) \union {10}, own |-> {4, 5, 6}, cycle |-> Cycles(None, 2, 1), entries |-> <<>>,
         today |-> 17, qty |-> 1, baselines |-> 1 :> 5]

\* Every BOM over the rows that has the first and the last assembly, one without
\* assemblies and the empty one.
Boms == {bom \in SUBSET Rows : {1, 10} \subseteq bom} \union {{4}, {}}

Structures ==
  {[Base EXCEPT !.bom = bom, !.own = own \intersect bom, !.cycle = cycle] :
     bom \in Boms, own \in {4 .. 9, {5, 6, 7, 8}},
     cycle \in {Cycles(None, 2, 1), Cycles(3, 0, 1)}}

\* Holidays and worked weekends before the delivery date, days on which the check runs.
Calendars ==
  {[Base EXCEPT !.entries = entries, !.today = today, !.baselines = baselines, !.qty = qty] :
     entries \in {<<>>, 15 :> FALSE @@ 16 :> FALSE, 12 :> TRUE @@ 14 :> FALSE @@ 9 :> FALSE},
     today \in 7 .. 17, qty \in {0, 2, 3},
     baselines \in {<<>>, 1 :> 3 @@ 3 :> 7, 0 :> 5}}

MCWorlds == Structures \union Calendars
=============================================================================
