------------------------------ MODULE GoalPage ------------------------------
(***************************************************************************)
(* The second evaluator of goals: static/game_details.js rewrites a goal   *)
(* line by line, attributes first, then operator by operator, and shows    *)
(* "true" or "false" beside the verdict the server reached with GoalEval.  *)
(* Both work on the same goal (/params) and the same counts (/details).    *)
(***************************************************************************)
EXTENDS GoalEval

CONSTANT NaN     \* the number NaN, and undefined where a number is expected

ASSUME PageAssumption == NaN \notin Int

VARIABLES
  line,     \* the goal as rewritten so far
  shown     \* "none", then "true" or "false"

pageVars == <<vars, line, shown>>

(* A value that is no number has none of the flag bits.                    *)
FlaggedOper(x) == x # NaN /\ IsOper(x)
FlaggedAttr(x) == x # NaN /\ IsAttr(x)

(* goal_val: a constant stands for itself, without sign.                   *)
GoalVal(x) ==
  IF ~FlaggedAttr(x) THEN x
  ELSE IF Low12(x) \in DOMAIN attr_n THEN attr_n[Low12(x)] ELSE NaN

(* a1 / a2 in JavaScript.  Only the outermost operator of a goal sees both *)
(* its operands (see Sliced), so nothing but the truth of a quotient       *)
(* matters: 1 stands for every quotient that is not zero.                  *)
Quotient(a, b) == IF a # 0 THEN 1 ELSE IF b # 0 THEN 0 ELSE NaN

(* apply_op on numbers: NaN spreads, and no comparison with it holds.      *)
PageApply(op, a, b) ==
  IF op \notin {Code.PLUS, Code.MINUS, Code.DIV, Code.MULT, Code.LT, Code.GE} THEN -1
  ELSE IF NaN \in {a, b} THEN IF op \in {Code.LT, Code.GE} THEN 0 ELSE NaN
  ELSE CASE op = Code.PLUS  -> a + b
         [] op = Code.MINUS -> a - b
         [] op = Code.DIV   -> Quotient(a, b)
         [] op = Code.MULT  -> a * b
         [] op = Code.LT    -> Truth(a < b)
         [] op = Code.GE    -> Truth(a >= b)

(* An operator followed by two operands; the page takes the first.         *)
TripleAt(n) ==
  /\ n + 2 <= Len(line)
  /\ FlaggedOper(line[n]) /\ ~FlaggedOper(line[n + 1]) /\ ~FlaggedOper(line[n + 2])
FirstTriple(n) == TripleAt(n) /\ \A k \in 1 .. n - 1 : ~TripleAt(k)

(* Variant: the triple starts one term late.                               *)
SlicedLate(n) == SubSeq(line, n + 1, 3)

(* goal.slice(i, 3) with i = n - 1: 3 is an end index, so this is the      *)
(* triple only where it starts the line, and two, one or no terms of it    *)
(* elsewhere.                                                              *)
Sliced(n) == SubSeq(line, n, 3)

Term(s, k) == IF k <= Len(s) THEN s[k] ELSE NaN

(* What takes the triple's place.  The bits of a missing operator are      *)
(* those of "+".                                                           *)
Rewritten(n) ==
  LET s == Sliced(n)
  IN  PageApply(IF Term(s, 1) = NaN THEN Code.PLUS ELSE s[1], GoalVal(Term(s, 2)), GoalVal(Term(s, 3)))

PageInit == Init /\ line = goal /\ shown = "none"

(* The server's verdict on the game is part of /details, so it comes first. *)
Server == Next /\ UNCHANGED <<line, shown>>

Rewriting == status = "done" /\ shown = "none" /\ Len(line) > 1

Substitute ==
  /\ Rewriting
  /\ \E n \in DOMAIN line :
       /\ FlaggedAttr(line[n]) /\ \A k \in 1 .. n - 1 : ~FlaggedAttr(line[k])
       /\ line' = [line EXCEPT ![n] = GoalVal(@)]
  /\ UNCHANGED <<vars, shown>>

(* Variant: only the operator is taken out of the line.                    *)
ApplyFirstKeeping ==
  /\ Rewriting
  /\ \A n \in DOMAIN line : ~FlaggedAttr(line[n])
  /\ \E n \in DOMAIN line :
       /\ FirstTriple(n)
       /\ line' = [line EXCEPT ![n] = Rewritten(n)]
  /\ UNCHANGED <<vars, shown>>

(* goal.splice.  A line without triple, which no goal in polish notation   *)
(* leads to, would end the rendering with an exception.                    *)
ApplyFirst ==
  /\ Rewriting
  /\ \A n \in DOMAIN line : ~FlaggedAttr(line[n])
  /\ \E n \in DOMAIN line :
       /\ FirstTriple(n)
       /\ line' = SubSeq(line, 1, n - 1) \o <<Rewritten(n)>> \o SubSeq(line, n + 3, Len(line))
  /\ UNCHANGED <<vars, shown>>

Show ==
  /\ status = "done" /\ shown = "none" /\ Len(line) = 1
  /\ shown' = IF line[1] \in {0, NaN} THEN "false" ELSE "true"
  /\ UNCHANGED <<vars, line>>

PageNext == Server \/ Substitute \/ ApplyFirst \/ Show

PageSpec == PageInit /\ [][PageNext]_pageVars

(* Both programs go on once started.                                       *)
PageFairSpec == PageSpec /\ WF_pageVars(PageNext)
-----------------------------------------------------------------------------
(* Properties.                                                             *)

Nested == \E n \in 2 .. Len(goal) : IsOper(goal[n])

(* The page never shows a goal as met that the server found not met, and   *)
(* where the goal compares two leaves it shows what the server found.      *)
PageSound ==
  /\ shown = "true" => Result # 0
  /\ shown = "false" /\ ~Nested => Result = 0

(* The page shows the server's verdict on every goal.                      *)
PageAgrees == shown # "none" => (shown = "true") = (Result # 0)

(* Every goal the server has decided is shown in the end.                  *)
PageFinishes == status = "done" ~> shown # "none"
=============================================================================
