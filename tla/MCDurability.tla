---------------------------- MODULE MCDurability ----------------------------
(* Values of the constants of Durability for TLC.                          *)
EXTENDS Durability

MCGoals == {}
MCAttrs == {0}
MCNobody == {-1}
=============================================================================
