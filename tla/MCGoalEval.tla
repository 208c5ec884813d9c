----------------------------- MODULE MCGoalEval -----------------------------
(***************************************************************************)
(* The goals TLC evaluates, and the counts.                                *)
(***************************************************************************)
EXTENDS GoalPage, FiniteSets

(* Goals: the built-in ones with their constants, and every relation of a  *)
(* leaf to an expression of one operator, or of two, over two attributes   *)
(* and a constant.                                                         *)
Leaves == {<<Attr(0)>>, <<Attr(1)>>, <<Value(2)>>}
Relations == {Code.LT, Code.GE}
Arithmetic == {Code.PLUS, Code.MINUS, Code.DIV, Code.MULT}
Combine(ops, S, T) == {<<op>> \o x \o y : op \in ops, x \in S, y \in T}
Flat == Leaves \cup Combine(Arithmetic, Leaves, Leaves)
Deep == Combine({Code.MINUS, Code.MULT}, {<<Attr(0)>>}, Combine(Arithmetic, Leaves, Leaves))

BuiltInGoals == UNION {BuiltIn[type] : type \in 1 .. 4}
MCGoals ==
  BuiltInGoals \cup Combine(Relations, {<<Attr(1)>>}, Flat) \cup Combine({Code.GE}, Leaves, Deep)
MCCounts == {[a \in 0 .. 3 |-> IF a \in {0, 2} THEN m ELSE n] : m \in {0, 3, 600}, n \in {0, 300}}

=============================================================================
