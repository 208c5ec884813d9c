------------------------------ MODULE GoalEval ------------------------------
(***************************************************************************)
(* goal_param of server/goal.c: a goal, written in polish notation as      *)
(* packed terms, is evaluated on a stack that also receives the results.   *)
(* The same bits of a stack entry say what it is, so a result is read back *)
(* as a term: bit 13 makes it an operator, bit 12 an attribute index, and  *)
(* the low 12 bits are a signed constant.                                  *)
(***************************************************************************)
EXTENDS Integers, Sequences

CONSTANTS
  Goals,    \* sequences of terms, without the closing GOAL_TAIL
  Counts    \* possible values of attr_n, functions from attribute indices

ASSUME GoalAssumption ==
  /\ Goals \subseteq Seq(Int)
  /\ \A c \in Counts : c \in [DOMAIN c -> Int]

IsOper(x) == (x \div 8192) % 2 = 1     \* bit 13
IsAttr(x) == (x \div 4096) % 2 = 1     \* bit 12
Low12(x) == x % 4096

Code == [PLUS |-> 8192, MINUS |-> 8193, DIV |-> 8194, MULT |-> 8195,
         LT |-> 8196, GE |-> 8197]
Attr(a) == 4096 + a        \* GOAL_ATTR
Value(k) == Low12(k)       \* GOAL_VALUE

(* The goals of the four built-in types of game.                           *)
BuiltIn ==
  LET AtLeast(a, k) == <<Code.GE, Attr(a), Value(k)>>
      AtLeastHalf(a, b) == <<Code.GE, Attr(a), Code.DIV, Attr(b), Value(2)>>
  IN  <<{AtLeast(0, 600), AtLeast(1, 600)},
        {AtLeast(0, 600), AtLeast(1, 600)},
        {AtLeast(0, 300), AtLeast(1, 300)},
        {AtLeastHalf(1, 0), AtLeastHalf(2, 3)}>>

VARIABLES
  goal,       \* the goal being evaluated
  attr_n,     \* accepted persons per attribute
  compute,    \* the stack; the code's compute[k] is compute[k + 1] here
  i,          \* index of the next term; past the end stands GOAL_TAIL
  has_input,
  status      \* "eval", "done", or "trap" when an operation is undefined in C

vars == <<goal, attr_n, compute, i, has_input, status>>

TypeOK ==
  /\ goal \in Goals
  /\ attr_n \in Counts
  /\ compute \in Seq(Int)
  /\ i \in 1 .. Len(goal) + 1
  /\ has_input \in BOOLEAN
  /\ status \in {"eval", "done", "trap"}

Init ==
  /\ goal \in Goals
  /\ attr_n \in Counts
  /\ compute = <<>>
  /\ i = 1
  /\ has_input = TRUE
  /\ status = "eval"

-----------------------------------------------------------------------------
(* sign_extend(x, 12)                                                      *)
SignExtend(x) == IF x >= 2048 THEN x - 4096 ELSE x

DecodeValue(x) == IF IsAttr(x) THEN attr_n[Low12(x)] ELSE SignExtend(Low12(x))

Magnitude(a) == IF a >= 0 THEN a ELSE -a
Truth(p) == IF p THEN 1 ELSE 0

(* apply_op; C division truncates toward zero.                             *)
ApplyOp(op, a, b) ==
  CASE op = Code.PLUS  -> a + b
    [] op = Code.MINUS -> a - b
    [] op = Code.DIV   -> LET q == Magnitude(a) \div Magnitude(b)
                          IN  IF (a >= 0) = (b > 0) THEN q ELSE -q
    [] op = Code.MULT  -> a * b
    [] op = Code.LT    -> Truth(a < b)
    [] op = Code.GE    -> Truth(a >= b)
    [] OTHER           -> 0

Depth == Len(compute)
Operator == compute[Depth - 2]
Left == compute[Depth - 1]
Right == compute[Depth]

(* Variant: off by one, the last operator of a goal is never applied.      *)
ReducibleDeep == Depth > 3 /\ IsOper(Operator) /\ ~IsOper(Left) /\ ~IsOper(Right)

(* The inner loop's condition: an operator under two operands.             *)
Reducible == Depth > 2 /\ IsOper(Operator) /\ ~IsOper(Left) /\ ~IsOper(Right)

(* Reading attr_n past its end or dividing by zero is undefined.           *)
Decodable(x) == IsAttr(x) => Low12(x) \in DOMAIN attr_n
Computable ==
  /\ Decodable(Left) /\ Decodable(Right)
  /\ Operator = Code.DIV => DecodeValue(Right) # 0

(* Variant: operands taken in the order they leave a stack.                *)
ReduceSwapped ==
  /\ status = "eval" /\ Reducible /\ Computable
  /\ compute' = Append(SubSeq(compute, 1, Depth - 3),
                       ApplyOp(Operator, DecodeValue(Right), DecodeValue(Left)))
  /\ UNCHANGED <<goal, attr_n, i, has_input, status>>

(* Variant: the result is pushed without taking the operands off.          *)
ReduceKept ==
  /\ status = "eval" /\ Reducible /\ Computable
  /\ compute' = Append(compute, ApplyOp(Operator, DecodeValue(Left), DecodeValue(Right)))
  /\ UNCHANGED <<goal, attr_n, i, has_input, status>>

Reduce ==
  /\ status = "eval" /\ Reducible /\ Computable
  /\ compute' = Append(SubSeq(compute, 1, Depth - 3),
                       ApplyOp(Operator, DecodeValue(Left), DecodeValue(Right)))
  /\ UNCHANGED <<goal, attr_n, i, has_input, status>>

Trap ==
  /\ status = "eval" /\ Reducible /\ ~Computable
  /\ status' = "trap"
  /\ UNCHANGED <<goal, attr_n, compute, i, has_input>>

(* Variant: a term is skipped after each one pushed.                       *)
PushSkipping ==
  /\ status = "eval" /\ ~Reducible
  /\ i <= Len(goal)
  /\ compute' = Append(compute, goal[i])
  /\ i' = i + 2
  /\ UNCHANGED <<goal, attr_n, has_input, status>>

(* The outer loop, once nothing is reducible: push the next term, note the *)
(* end of the input, or leave when at most two entries remain.  With more  *)
(* than two entries and no input left the loop goes round without change.  *)
PushTerm ==
  /\ status = "eval" /\ ~Reducible
  /\ i <= Len(goal)
  /\ compute' = Append(compute, goal[i])
  /\ i' = i + 1
  /\ UNCHANGED <<goal, attr_n, has_input, status>>

EndOfInput ==
  /\ status = "eval" /\ ~Reducible
  /\ has_input /\ i > Len(goal)
  /\ has_input' = FALSE
  /\ UNCHANGED <<goal, attr_n, compute, i, status>>

Leave ==
  /\ status = "eval" /\ ~has_input /\ Depth <= 2
  /\ status' = "done"
  /\ UNCHANGED <<goal, attr_n, compute, i, has_input>>

Next == Reduce \/ Trap \/ PushTerm \/ EndOfInput \/ Leave

Spec == Init /\ [][Next]_vars

(* The function runs to its end once called.                               *)
FairSpec == Spec /\ WF_vars(Next)

(* What goal_param returns: compute[0].                                    *)
Result == compute[1]
-----------------------------------------------------------------------------
(* The fixed array compute[128] is never overrun by a goal that fits it:   *)
(* the stack holds no more entries than terms were read.                   *)
StackFits == Depth < i /\ Depth <= Len(goal)

(***************************************************************************)
(* What a goal is documented to mean (static/index.html: polish notation,  *)
(* constants exact), for the expression that starts at a term: its value,  *)
(* the index after it, whether it is read back as that value where it is   *)
(* an operand, whether that holds of all operands in it, and whether no    *)
(* division by zero is met and all attributes are counted.                 *)
(***************************************************************************)
Meaning[n \in Nat \ {0}] ==
  IF n > Len(goal)
  THEN [value |-> 0, after |-> n + 1, reads |-> FALSE, exact |-> FALSE, safe |-> FALSE]
  ELSE IF ~IsOper(goal[n])
  THEN [value |-> IF IsAttr(goal[n]) THEN attr_n[Low12(goal[n])] ELSE Low12(goal[n]),
        after |-> n + 1,
        reads |-> IsAttr(goal[n]) \/ Low12(goal[n]) < 2048,
        exact |-> TRUE,
        safe  |-> Decodable(goal[n])]
  ELSE LET left  == Meaning[n + 1]
           right == Meaning[left.after]
           zero  == goal[n] = Code.DIV /\ right.value = 0
           v     == IF zero THEN 0 ELSE ApplyOp(goal[n], left.value, right.value)
       IN  [value |-> v,
            after |-> right.after,
            reads |-> v \in 0 .. 2047,
            exact |-> left.exact /\ left.reads /\ right.exact /\ right.reads,
            safe  |-> left.safe /\ right.safe /\ ~zero]

(* A goal is one expression, and an operator at its top: a term alone      *)
(* would be returned as it is encoded.                                     *)
Polish == Meaning[1].after = Len(goal) + 1 /\ IsOper(goal[1])
Exact == Polish /\ Meaning[1].exact

(* A goal whose operands stay within 0 .. 2047, so that no flag bit is set *)
(* and the sign bit is clear, is decided as documented, whatever its       *)
(* nesting; this covers the built-in goals.                                *)
ValueAsDocumented == status = "done" /\ Exact => Result = Meaning[1].value

(* Such a goal is decided after finitely many rounds of the loop.          *)
EvaluableDecided == Exact /\ Meaning[1].safe => <>(status = "done")
=============================================================================
