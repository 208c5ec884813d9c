----------------------------- MODULE MCConnPool -----------------------------
(* Symmetry of ConnPool for TLC: threads run the same code.                *)
EXTENDS ConnPool, TLC

ThreadSymmetry == Permutations(Threads)
=============================================================================
