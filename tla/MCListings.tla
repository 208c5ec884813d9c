----------------------------- MODULE MCListings -----------------------------
(* Values of the constants of Listings for TLC.  Every game was won        *)
(* after a count of five digits, as any count below the loss limit may be. *)
EXTENDS Listings, TLC

MCNumberOf == [n \in Names |-> 0]

MCOutcomes == {[count |-> 10546, accepted |-> 1000, finished |-> TRUE, won |-> TRUE]}

Symmetry ==
  Permutations(UserUuids) \cup Permutations(GameUuids) \cup Permutations(Threads)
=============================================================================
