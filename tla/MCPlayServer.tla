---------------------------- MODULE MCPlayServer ----------------------------
(* Values of the constants of PlayServer for TLC.                          *)
EXTENDS PlayServer

\* one goal: at least one accepted person with attribute 0
MCGoals == {[kind |-> "const", attr |-> 0, k |-> 1]}
MCAttrs == {0}

\* "no pending person": a set that no symbol of MCAttrs equals
MCNobody == {-1}
=============================================================================
