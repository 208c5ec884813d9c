----------------------------- MODULE MCRegistry -----------------------------
(* Values of the constants of Registry for TLC.  Uuids and threads only    *)
(* differ by identity; of the names, "one" reads like the first user's id. *)
EXTENDS Registry, TLC

CONSTANTS ann, one

MCNumberOf == [n \in Names |-> IF n = one THEN 1 ELSE 0]

Symmetry ==
  Permutations(UserUuids) \cup Permutations(GameUuids) \cup Permutations(Threads)
=============================================================================
