---------------------------- MODULE MCOrderSchedule ----------------------------
(* Small instances of OrderSchedule for TLC. *)
EXTENDS OrderSchedule, TLC

CONSTANTS o1, o2, m1, m2, k1, k2, p1, p2

\* Orders and parties are interchangeable.  Materials and plants are not: blank rows
\* hold a chosen one.
Symmetry == Permutations(Orders) \union Permutations(Parties)
=============================================================================
