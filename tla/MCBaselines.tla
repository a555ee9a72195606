------------------------------ MODULE MCBaselines ------------------------------
(* Small instances of Baselines for TLC. *)
EXTENDS Baselines

CONSTANTS noRow, r1, r2

\* One order, two whose median is another, and two whose cycles are too far apart.
MCHistories == {<<2>>, <<2, 3>>, <<2, 5>>}
=============================================================================
