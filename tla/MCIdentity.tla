------------------------------ MODULE MCIdentity ------------------------------
(* Small instances of Identity for TLC. *)
EXTENDS Identity, TLC

CONSTANTS u1, u2, admin, r1, s1, s2, s3, p1, p2

\* What follows a clash is not explored: every property is about the time before one.
Unclashed == ~adminClash /\ accountClash = {}

\* One user is the bootstrap account and one role the system role, so neither are interchangeable.
Symmetry == Permutations(Sessions) \union Permutations(Parties)
=============================================================================
