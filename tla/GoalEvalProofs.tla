--------------------------- MODULE GoalEvalProofs ---------------------------
(***************************************************************************)
(* Proofs about GoalEval and GoalPage, for goals of any length and nesting *)
(* and all counts: the stack never outgrows the terms that were read; a    *)
(* goal whose operands stay in range is decided as documented, and always  *)
(* in reach of a decision; what the page shows of a comparison is sound.   *)
(***************************************************************************)
EXTENDS GoalPage, WellFoundedInduction, TLAPS

-----------------------------------------------------------------------------
(* One operator applied on the stack.                                      *)

(* The bottom of a stack.                                                  *)
LEMMA Bottom ==
  ASSUME NEW s \in Seq(Int), NEW n \in 0 .. Len(s)
  PROVE  /\ SubSeq(s, 1, n) \in Seq(Int) /\ Len(SubSeq(s, 1, n)) = n
         /\ \A k \in 1 .. n : SubSeq(s, 1, n)[k] = s[k]
  OBVIOUS

(* Taking three entries off and putting one on.                            *)
Replaced(s, v) == Append(SubSeq(s, 1, Len(s) - 3), v)

LEMMA ReducedStack ==
  ASSUME NEW s \in Seq(Int), Len(s) > 2, NEW v \in Int
  PROVE  /\ Replaced(s, v) \in Seq(Int) /\ Len(Replaced(s, v)) = Len(s) - 2
         /\ Replaced(s, v)[Len(s) - 2] = v
         /\ \A k \in 1 .. Len(s) - 3 : Replaced(s, v)[k] = s[k]
<1> DEFINE n == Len(s) - 3
           b == SubSeq(s, 1, n)
<1>1. Len(s) \in Nat /\ n \in 0 .. Len(s) /\ n + 1 = Len(s) - 2 /\ Replaced(s, v) = Append(b, v)
  BY DEF Replaced
<1> HIDE DEF n
<1>2. b \in Seq(Int) /\ Len(b) = n /\ \A k \in 1 .. n : b[k] = s[k]
  BY <1>1, Bottom
<1> HIDE DEF b
<1>3. /\ Append(b, v) \in Seq(Int) /\ Len(Append(b, v)) = n + 1
      /\ Append(b, v)[n + 1] = v
      /\ \A k \in 1 .. n : Append(b, v)[k] = b[k]
  BY <1>1, <1>2
<1> QED
  BY <1>1, <1>2, <1>3 DEF n

(* Whatever the operator, the result is a number.                          *)
LEMMA ApplyOpInt ==
  ASSUME NEW op, NEW a \in Int, NEW b \in Int, op = Code.DIV => b # 0
  PROVE  ApplyOp(op, a, b) \in Int
<1>1. Magnitude(a) \in Nat /\ Magnitude(b) \in Nat /\ (b # 0 => Magnitude(b) > 0)
  BY DEF Magnitude
<1>2. b # 0 => Magnitude(a) \div Magnitude(b) \in Int
  BY <1>1
<1>3. a + b \in Int /\ a - b \in Int /\ a * b \in Int
  OBVIOUS
<1>4. \A p \in BOOLEAN : Truth(p) \in Int
  BY DEF Truth
<1>5. Truth(a < b) \in Int /\ Truth(a >= b) \in Int
  BY DEF Truth
<1> QED
  BY <1>2, <1>3, <1>5 DEF ApplyOp

(* What stands for an attribute or a constant is a number.                 *)
LEMMA DecodeInt ==
  ASSUME NEW x \in Int, attr_n \in Counts, Decodable(x)
  PROVE  DecodeValue(x) \in Int
  BY GoalAssumption DEF DecodeValue, Decodable, SignExtend, Low12

(* The stack holds no more entries than terms were read.                   *)
Inv == TypeOK /\ Len(compute) < i

(* Nothing was read yet.                                                   *)
LEMMA InvInit == Init => Inv
<1> SUFFICES ASSUME Init PROVE Inv
  OBVIOUS
<1>1. Len(goal) \in Nat
  BY GoalAssumption DEF Init
<1> QED
  BY <1>1 DEF Init, Inv, TypeOK

(* A term read is an entry more, an operator applied two entries less.     *)
LEMMA InvStep == Inv /\ [Next]_vars => Inv'
<1> SUFFICES ASSUME Inv, [Next]_vars PROVE Inv'
  OBVIOUS
<1>a. /\ TypeOK /\ goal \in Seq(Int) /\ Len(goal) \in Nat /\ i \in 1 .. Len(goal) + 1
      /\ compute \in Seq(Int) /\ Len(compute) \in Nat /\ Len(compute) < i
  BY GoalAssumption DEF Inv, TypeOK
<1>1. CASE Reduce
  <2>0. Len(compute) > 2
    BY <1>1 DEF Reduce, Reducible, Depth
  <2>1. Left \in Int /\ Right \in Int
    <3>1. Len(compute) - 1 \in DOMAIN compute /\ Len(compute) \in DOMAIN compute
      BY <1>a, <2>0
    <3> QED
      BY <1>a, <3>1 DEF Depth, Left, Right
  <2>2. DecodeValue(Left) \in Int /\ DecodeValue(Right) \in Int
    BY <1>a, <1>1, <2>1, DecodeInt DEF Reduce, Computable, TypeOK
  <2>3. ApplyOp(Operator, DecodeValue(Left), DecodeValue(Right)) \in Int
    BY <1>1, <2>2, ApplyOpInt DEF Reduce, Computable
  <2>4. compute' \in Seq(Int) /\ Len(compute') = Len(compute) - 2
    BY <1>a, <1>1, <2>0, <2>3, ReducedStack DEF Reduce, Depth, Replaced
  <2>5. TypeOK'
    BY <1>a, <1>1, <2>4 DEF Reduce, TypeOK
  <2> QED
    BY <1>a, <1>1, <2>4, <2>5 DEF Reduce, Inv
<1>2. CASE PushTerm
  <2>1. goal[i] \in Int
    BY <1>a, <1>2 DEF PushTerm
  <2>2. compute' \in Seq(Int) /\ Len(compute') = Len(compute) + 1
    BY <1>a, <1>2, <2>1 DEF PushTerm
  <2> QED
    BY <1>a, <1>2, <2>2 DEF PushTerm, Inv, TypeOK
<1>3. CASE Trap \/ EndOfInput \/ Leave \/ UNCHANGED vars
  BY <1>a, <1>3 DEF Trap, EndOfInput, Leave, vars, Inv, TypeOK
<1> QED
  BY <1>1, <1>2, <1>3 DEF Next

(* Every entry of the stack is a number, whatever is evaluated.            *)
THEOREM EvalTypes == Spec => []TypeOK
<1>1. Inv => TypeOK
  BY DEF Inv
<1> QED
  BY <1>1, InvInit, InvStep, PTL DEF Spec

(* compute[128] is large enough for every goal of at most 128 terms, well  *)
(* formed or not.                                                          *)
THEOREM StackNeverOverruns == Spec => []StackFits
<1>1. Inv => StackFits
  <2> SUFFICES ASSUME Inv PROVE StackFits
    OBVIOUS
  <2>1. Len(goal) \in Nat /\ i <= Len(goal) + 1 /\ Len(compute) \in Nat /\ Len(compute) < i
        /\ i \in Nat
    BY GoalAssumption DEF Inv, TypeOK
  <2> QED
    BY <2>1 DEF StackFits, Depth
<1> QED
  BY <1>1, InvInit, InvStep, PTL DEF Spec

(* What the bits of a term say, where no value is negative or too large.   *)
LEMMA TermBits ==
  /\ \A x \in Nat : x < 2048 => ~IsOper(x) /\ ~IsAttr(x) /\ Low12(x) = x /\ SignExtend(x) = x
  /\ \A x \in Nat : x < 4096 => ~IsOper(Attr(x)) /\ IsAttr(Attr(x)) /\ Low12(Attr(x)) = x
  /\ IsOper(Code.GE) /\ IsOper(Code.DIV)
<1>1. \A x \in Nat : x < 2048 => ~IsOper(x) /\ ~IsAttr(x) /\ Low12(x) = x /\ SignExtend(x) = x
  BY DEF IsOper, IsAttr, Low12, SignExtend
<1>2. \A x \in Nat : x < 4096 => ~IsOper(Attr(x)) /\ IsAttr(Attr(x)) /\ Low12(Attr(x)) = x
  BY DEF IsOper, IsAttr, Low12, Attr
<1>3. Code.GE = 8197 /\ Code.DIV = 8194
  BY DEF Code
<1>4. IsOper(8197) /\ IsOper(8194)
  BY DEF IsOper
<1> QED
  BY <1>1, <1>2, <1>3, <1>4

-----------------------------------------------------------------------------
(* A non-empty set of natural numbers has a least member.                  *)
LEMMA LeastNat ==
  ASSUME NEW T, T \subseteq Nat, T # {}
  PROVE  \E n \in T : \A m \in T : n <= m
<1>1. IsWellFoundedOn(OpToRel(<, Nat), Nat)
  BY NatLessThanWellFounded, Zenon
<1>2. \E x \in T : \A y \in T : <<y, x>> \notin OpToRel(<, Nat)
  BY <1>1, WFMin, Zenon
<1>3. \E x \in T : \A y \in T : ~(y < x)
  BY <1>2, Zenon DEF OpToRel
<1> QED
  BY <1>3

(* The meaning of a goal.                                                  *)

Places == Nat \ {0}

(* One round of the recursion in Meaning.                                  *)
MeaningAt(m, n) ==
  IF n > Len(goal)
  THEN [value |-> 0, after |-> n + 1, reads |-> FALSE, exact |-> FALSE, safe |-> FALSE]
  ELSE IF ~IsOper(goal[n])
  THEN [value |-> IF IsAttr(goal[n]) THEN attr_n[Low12(goal[n])] ELSE Low12(goal[n]),
        after |-> n + 1,
        reads |-> IsAttr(goal[n]) \/ Low12(goal[n]) < 2048,
        exact |-> TRUE,
        safe  |-> Decodable(goal[n])]
  ELSE LET left  == m[n + 1]
           right == m[left.after]
           zero  == goal[n] = Code.DIV /\ right.value = 0
           v     == IF zero THEN 0 ELSE ApplyOp(goal[n], left.value, right.value)
       IN  [value |-> v,
            after |-> right.after,
            reads |-> v \in 0 .. 2047,
            exact |-> left.exact /\ left.reads /\ right.exact /\ right.reads,
            safe  |-> left.safe /\ right.safe /\ ~zero]

Later(m, n) == m[n].after \in Places /\ m[n].after > n

(* What a term means depends on later terms only, and so does where its    *)
(* expression ends.                                                        *)
LEMMA MeaningLater ==
  ASSUME Len(goal) \in Nat, NEW m, NEW f, NEW n \in Places,
         \A k \in Places : k > n => f[k] = m[k] /\ Later(m, k)
  PROVE  MeaningAt(f, n) = MeaningAt(m, n) /\ MeaningAt(m, n).after \in Places
         /\ MeaningAt(m, n).after > n
<1>1. n + 1 \in Places /\ n + 1 > n
  BY DEF Places
<1>2. f[n + 1] = m[n + 1] /\ m[n + 1].after \in Places /\ m[n + 1].after > n
  BY <1>1 DEF Later, Places
<1> DEFINE e == m[n + 1].after
<1>3. f[e] = m[e] /\ m[e].after \in Places /\ m[e].after > e
  BY <1>2 DEF Later
<1>4. m[e].after > n
  BY <1>2, <1>3 DEF Places
<1>5. MeaningAt(f, n) = MeaningAt(m, n)
  BY <1>2, <1>3 DEF MeaningAt
<1>6. MeaningAt(m, n).after \in {n + 1, m[e].after}
  BY DEF MeaningAt
<1> QED
  BY <1>1, <1>3, <1>4, <1>5, <1>6

Defined(m, n) ==
  \A k \in Places : (k >= n => m[k] = MeaningAt(m, k)) /\ Later(m, k)

(* There is such a function, built from the end of the goal.               *)
LEMMA MeaningExists ==
  ASSUME Len(goal) \in Nat
  PROVE  \E m : m = [n \in Places |-> MeaningAt(m, n)] /\ \A n \in Places : Later(m, n)
<1> DEFINE L == Len(goal)
           T == {n \in Places : \E m : DOMAIN m = Places /\ m = [k \in Places |-> m[k]] /\ Defined(m, n)}
<1>1. L + 1 \in T
  <2> DEFINE m == [k \in Places |->
               [value |-> 0, after |-> k + 1, reads |-> FALSE, exact |-> FALSE, safe |-> FALSE]]
  <2>1. /\ DOMAIN m = Places /\ m = [k \in Places |-> m[k]]
        /\ \A k \in Places : m[k] = [value |-> 0, after |-> k + 1, reads |-> FALSE,
                                     exact |-> FALSE, safe |-> FALSE]
    OBVIOUS
  <2> HIDE DEF m
  <2>2. ASSUME NEW k \in Places, k >= L + 1 PROVE m[k] = MeaningAt(m, k)
    <3>1. k > Len(goal)
      BY <2>2 DEF Places
    <3> QED
      BY <2>1, <3>1 DEF MeaningAt
  <2>3. ASSUME NEW k \in Places PROVE Later(m, k)
    <3>1. m[k].after = k + 1
      BY <2>1
    <3> QED
      BY <3>1 DEF Later, Places
  <2>4. Defined(m, L + 1)
    BY <2>2, <2>3 DEF Defined
  <2> QED
    BY <2>1, <2>4 DEF Places
<1>2. PICK n \in T : \A k \in T : n <= k
  <2>1. T \subseteq Nat /\ T # {}
    BY <1>1 DEF Places
  <2> QED
    BY <2>1, LeastNat
<1>3. n \in Places
  OBVIOUS
<1>4. PICK m : DOMAIN m = Places /\ m = [k \in Places |-> m[k]] /\ Defined(m, n)
  BY <1>2
<1>5. n = 1
  <2> SUFFICES ASSUME n # 1 PROVE FALSE
    OBVIOUS
  <2>1. n - 1 \in Places /\ n - 1 < n
    BY <1>3 DEF Places
  <2> DEFINE p == n - 1
             f == [k \in Places |-> IF k = p THEN MeaningAt(m, p) ELSE m[k]]
  <2>2. \A k \in Places : k # p => f[k] = m[k]
    OBVIOUS
  <2>3. \A k \in Places : k > p => k >= n
    BY <1>3 DEF Places
  <2>4. \A k \in Places : Later(m, k)
    BY <1>4 DEF Defined
  <2>5. ASSUME NEW k \in Places, k >= p
        PROVE  MeaningAt(f, k) = MeaningAt(m, k) /\ MeaningAt(m, k).after \in Places
               /\ MeaningAt(m, k).after > k
    <3>1. \A j \in Places : j > k => f[j] = m[j] /\ Later(m, j)
      BY <2>1, <2>2, <2>4, <2>5 DEF Places
    <3> HIDE DEF f, p
    <3> QED
      BY <3>1, MeaningLater
  <2>6. f[p] = MeaningAt(m, p)
    BY <2>1
  <2> HIDE DEF f
  <2>7. \A k \in Places : Later(f, k)
    <3> SUFFICES ASSUME NEW k \in Places PROVE Later(f, k)
      OBVIOUS
    <3>1. CASE k = p
      <4>1. p >= p /\ p \in Places
        BY <2>1 DEF Places
      <4> HIDE DEF p
      <4> QED
        BY <2>5, <2>6, <3>1, <4>1 DEF Later
    <3>2. CASE k # p
      BY <2>2, <2>4, <3>2 DEF Later
    <3> QED
      BY <3>1, <3>2
  <2>8. ASSUME NEW k \in Places, k >= p PROVE f[k] = MeaningAt(f, k)
    <3>1. CASE k = p
      <4> HIDE DEF p
      <4> QED
        BY <2>5, <2>6, <2>8, <3>1
    <3>2. CASE k # p
      <4>1. k >= n
        BY <2>1, <2>3, <2>8, <3>2 DEF Places
      <4>2. m[k] = MeaningAt(m, k)
        BY <1>4, <4>1 DEF Defined
      <4> HIDE DEF p
      <4> QED
        BY <2>2, <2>5, <2>8, <3>2, <4>2
    <3> QED
      BY <3>1, <3>2
  <2>9. p \in T
    <3>1. DOMAIN f = Places /\ f = [k \in Places |-> f[k]]
      BY DEF f
    <3>2. Defined(f, p)
      BY <2>7, <2>8 DEF Defined
    <3> QED
      BY <2>1, <3>1, <3>2
  <2> QED
    BY <1>2, <1>3, <2>1, <2>9 DEF Places
<1>6. m = [k \in Places |-> MeaningAt(m, k)] /\ \A k \in Places : Later(m, k)
  <2>1. \A k \in Places : k >= 1
    BY DEF Places
  <2>2. \A k \in Places : m[k] = MeaningAt(m, k) /\ Later(m, k)
    BY <1>4, <1>5, <2>1 DEF Defined
  <2>3. m = [k \in Places |-> m[k]]
    BY <1>4
  <2> HIDE DEF T
  <2> QED
    BY <2>2, <2>3
<1> QED
  BY <1>6

(* So Meaning is what its definition says, and ends after it begins.       *)
LEMMA MeaningDef ==
  ASSUME Len(goal) \in Nat
  PROVE  \A n \in Places : Meaning[n] = MeaningAt(Meaning, n) /\ Later(Meaning, n)
<1>1. Meaning = CHOOSE m : m = [n \in Places |-> MeaningAt(m, n)]
  BY DEF Meaning, MeaningAt, Places
<1>2. Meaning = [n \in Places |-> MeaningAt(Meaning, n)]
  BY <1>1, MeaningExists, Zenon
<1>3. \A n \in Places : Meaning[n] = MeaningAt(Meaning, n)
  BY <1>2
<1> DEFINE m == Meaning
           L == Len(goal)
           T == {d \in Nat : \E n \in Places : n + d = L + 1 /\ ~Later(m, n)}
<1>4. ASSUME NEW n \in Places, n > L PROVE Later(m, n)
  <2>1. MeaningAt(m, n).after = n + 1
    BY <1>4 DEF MeaningAt
  <2>2. m[n] = MeaningAt(m, n)
    BY <1>3
  <2>3. n + 1 \in Places /\ n + 1 > n
    BY DEF Places
  <2> QED
    BY ONLY <2>1, <2>2, <2>3 DEF Later
<1>5. T = {}
  <2> SUFFICES ASSUME T # {} PROVE FALSE
    OBVIOUS
  <2>1. PICK d \in T : \A k \in T : d <= k
    BY LeastNat
  <2>2. PICK n \in Places : n + d = L + 1 /\ ~Later(m, n)
    BY <2>1
  <2>3. ASSUME NEW k \in Places, k > n PROVE Later(m, k)
    <3>1. CASE k > L
      BY <1>4, <3>1
    <3>2. CASE ~(k > L)
      <4>1. L + 1 - k \in Nat /\ k + (L + 1 - k) = L + 1 /\ ~(d <= L + 1 - k)
        BY <2>2, <2>3, <3>2 DEF Places
      <4> QED
        BY <2>1, <4>1
    <3> QED
      BY <3>1, <3>2
  <2>4. MeaningAt(m, n).after \in Places /\ MeaningAt(m, n).after > n
    <3>1. n + 1 \in Places /\ n + 1 > n
      BY DEF Places
    <3>2. Later(m, n + 1)
      BY <2>3, <3>1
    <3> DEFINE e == m[n + 1].after
    <3>3. e \in Places /\ e > n
      BY <3>2 DEF Later, Places
    <3>4. m[e].after \in Places /\ m[e].after > e
      BY <2>3, <3>3 DEF Later
    <3>5. m[e].after > n
      BY <3>3, <3>4 DEF Places
    <3>6. MeaningAt(m, n).after \in {n + 1, m[e].after}
      BY DEF MeaningAt
    <3> HIDE DEF e, m
    <3> QED
      BY <3>1, <3>4, <3>5, <3>6
  <2> QED
    BY <1>3, <2>2, <2>4 DEF Later
<1>6. ASSUME NEW n \in Places PROVE Later(m, n)
  <2>1. CASE n > L
    BY <1>4, <2>1
  <2>2. CASE ~(n > L)
    <3>1. L + 1 - n \in Nat /\ n + (L + 1 - n) = L + 1
      BY <2>2 DEF Places
    <3> QED
      BY <1>5, <3>1
  <2> QED
    BY <2>1, <2>2
<1> QED
  BY <1>3, <1>6

After(n) == Meaning[n].after

(* Meaning depends on the goal and the counts only.                        *)
LEMMA MeaningKept == goal' = goal /\ attr_n' = attr_n => Meaning' = Meaning
  BY SMT DEF Meaning, Decodable

(* An expression ends after it begins; past the goal there are only terms. *)
LEMMA AfterLater ==
  ASSUME goal \in Seq(Int)
  PROVE  /\ \A n \in Places : After(n) \in Places /\ After(n) > n
         /\ \A n \in Places : n > Len(goal) => After(n) = n + 1
<1>1. \A n \in Places : Meaning[n] = MeaningAt(Meaning, n) /\ Later(Meaning, n)
  BY MeaningDef
<1>2. \A n \in Places : After(n) \in Places /\ After(n) > n
  BY <1>1 DEF After, Later
<1>3. ASSUME NEW n \in Places, n > Len(goal) PROVE After(n) = n + 1
  <2>1. MeaningAt(Meaning, n).after = n + 1
    BY <1>3 DEF MeaningAt
  <2>2. Meaning[n] = MeaningAt(Meaning, n)
    BY <1>1
  <2> QED
    BY ONLY <2>1, <2>2 DEF After
<1> QED
  BY <1>2, <1>3

(* What a single term means.                                               *)
LEMMA LeafMeaning ==
  ASSUME goal \in Seq(Int), NEW n \in 1 .. Len(goal), ~IsOper(goal[n])
  PROVE  /\ After(n) = n + 1
         /\ Meaning[n].exact
         /\ Meaning[n].safe <=> Decodable(goal[n])
         /\ Meaning[n].reads <=> IsAttr(goal[n]) \/ Low12(goal[n]) < 2048
         /\ Meaning[n].value = IF IsAttr(goal[n]) THEN attr_n[Low12(goal[n])] ELSE Low12(goal[n])
<1>1. n \in Places /\ ~(n > Len(goal))
  BY DEF Places
<1>2. Meaning[n] = MeaningAt(Meaning, n)
  BY <1>1, MeaningDef
<1>3. MeaningAt(Meaning, n)
      = [value |-> IF IsAttr(goal[n]) THEN attr_n[Low12(goal[n])] ELSE Low12(goal[n]),
         after |-> n + 1,
         reads |-> IsAttr(goal[n]) \/ Low12(goal[n]) < 2048,
         exact |-> TRUE,
         safe  |-> Decodable(goal[n])]
  BY <1>1 DEF MeaningAt
<1>4. /\ Meaning[n].after = n + 1
      /\ Meaning[n].value = IF IsAttr(goal[n]) THEN attr_n[Low12(goal[n])] ELSE Low12(goal[n])
  BY ONLY <1>2, <1>3
<1>5. /\ Meaning[n].exact
      /\ Meaning[n].safe <=> Decodable(goal[n])
      /\ Meaning[n].reads <=> IsAttr(goal[n]) \/ Low12(goal[n]) < 2048
  <2> DEFINE s == Decodable(goal[n])
             r == IsAttr(goal[n]) \/ Low12(goal[n]) < 2048
             v == IF IsAttr(goal[n]) THEN attr_n[Low12(goal[n])] ELSE Low12(goal[n])
  <2>1. s \in BOOLEAN /\ r \in BOOLEAN
    BY DEF Decodable
  <2>2. MeaningAt(Meaning, n)
        = [value |-> v, after |-> n + 1, reads |-> r, exact |-> TRUE, safe |-> s]
    BY ONLY <1>3
  <2> HIDE DEF s, r, v
  <2>3. Meaning[n].reads = r /\ Meaning[n].safe = s /\ Meaning[n].exact
    BY ONLY <1>2, <2>2
  <2>4. (Meaning[n].reads <=> r) /\ (Meaning[n].safe <=> s)
    BY ONLY <2>1, <2>3
  <2> QED
    BY ONLY <2>3, <2>4 DEF r, s
<1> QED
  BY <1>4, <1>5 DEF After

(* The meaning of an operator, its operands at places l and r.            *)
Means(n, l, r) ==
  /\ After(n) = After(r)
  /\ Meaning[n].exact <=> Meaning[l].exact /\ Meaning[l].reads /\ Meaning[r].exact /\ Meaning[r].reads
  /\ Meaning[n].reads <=> Meaning[n].value \in 0 .. 2047
  /\ Meaning[n].safe <=> Meaning[l].safe /\ Meaning[r].safe /\ ~(goal[n] = Code.DIV /\ Meaning[r].value = 0)
  /\ ~(goal[n] = Code.DIV /\ Meaning[r].value = 0) =>
       Meaning[n].value = ApplyOp(goal[n], Meaning[l].value, Meaning[r].value)

(* What an operator makes of its operands.                                 *)
LEMMA OperMeaning ==
  ASSUME goal \in Seq(Int), NEW n \in 1 .. Len(goal), IsOper(goal[n])
  PROVE  Means(n, n + 1, After(n + 1))
<1> DEFINE left  == Meaning[n + 1]
           right == Meaning[After(n + 1)]
           zero  == goal[n] = Code.DIV /\ right.value = 0
           v     == IF zero THEN 0 ELSE ApplyOp(goal[n], left.value, right.value)
<1>1. n \in Places /\ ~(n > Len(goal))
  BY DEF Places
<1>2. Meaning[n] = MeaningAt(Meaning, n)
  BY <1>1, MeaningDef
<1>3. MeaningAt(Meaning, n)
      = [value |-> v,
         after |-> right.after,
         reads |-> v \in 0 .. 2047,
         exact |-> left.exact /\ left.reads /\ right.exact /\ right.reads,
         safe  |-> left.safe /\ right.safe /\ ~zero]
  BY <1>1 DEF MeaningAt, After
<1> HIDE DEF left, right, zero, v
<1>4. Meaning[n].value = v /\ Meaning[n].after = right.after
  BY ONLY <1>2, <1>3
<1>5. /\ Meaning[n].reads <=> v \in 0 .. 2047
      /\ Meaning[n].exact <=> left.exact /\ left.reads /\ right.exact /\ right.reads
      /\ Meaning[n].safe <=> left.safe /\ right.safe /\ ~zero
  <2> DEFINE e == left.exact /\ left.reads /\ right.exact /\ right.reads
             s == left.safe /\ right.safe /\ ~zero
             r == v \in 0 .. 2047
  <2>1. e \in BOOLEAN /\ s \in BOOLEAN /\ r \in BOOLEAN
    OBVIOUS
  <2>2. MeaningAt(Meaning, n) = [value |-> v, after |-> right.after, reads |-> r, exact |-> e, safe |-> s]
    BY ONLY <1>3
  <2> HIDE DEF e, s, r
  <2>3. Meaning[n].reads = r /\ Meaning[n].exact = e /\ Meaning[n].safe = s
    BY ONLY <1>2, <2>2
  <2>4. (Meaning[n].reads <=> r) /\ (Meaning[n].exact <=> e) /\ (Meaning[n].safe <=> s)
    BY ONLY <2>1, <2>3
  <2> QED
    BY ONLY <2>4 DEF e, s, r
<1>6. ~zero => v = ApplyOp(goal[n], left.value, right.value)
  BY ONLY TRUE DEF v
<1>7. Meaning[n].reads <=> Meaning[n].value \in 0 .. 2047
  BY ONLY <1>4, <1>5
<1>8. After(n) = After(After(n + 1))
  BY ONLY <1>4 DEF After, right
<1> QED
  BY ONLY <1>4, <1>5, <1>6, <1>7, <1>8 DEF Means, left, right, zero

(* What holds of an expression holds of those in it; they are read back    *)
(* as their values, as they are operands.                                  *)
Within(p) ==
  \A q \in p .. After(p) - 1 :
    /\ After(q) <= After(p)
    /\ Meaning[p].exact => Meaning[q].exact /\ (q # p => Meaning[q].reads)
    /\ Meaning[p].safe => Meaning[q].safe

(* The operands of an operator in a complete expression are in the goal.   *)
LEMMA Operands ==
  ASSUME goal \in Seq(Int), NEW p \in 1 .. Len(goal), IsOper(goal[p]), After(p) <= Len(goal) + 1
  PROVE  /\ p + 1 \in 1 .. Len(goal) /\ After(p + 1) \in 1 .. Len(goal)
         /\ p + 1 < After(p + 1) /\ After(p + 1) < After(p) /\ After(After(p + 1)) = After(p)
<1>1. p + 1 \in Places
  BY DEF Places
<1>2. After(p + 1) \in Places /\ After(p + 1) > p + 1
  BY <1>1, AfterLater
<1>3. After(After(p + 1)) > After(p + 1) /\ After(After(p + 1)) \in Places
  BY <1>2, AfterLater
<1>4. After(p) = After(After(p + 1))
  BY OperMeaning DEF Means
<1> QED
  BY <1>2, <1>3, <1>4 DEF Places

(* A leaf is alone in its expression; an operator has two expressions.     *)
LEMMA WithinFrom ==
  ASSUME goal \in Seq(Int), NEW p \in 1 .. Len(goal), After(p) <= Len(goal) + 1,
         IsOper(goal[p]) => Within(p + 1) /\ Within(After(p + 1))
  PROVE  Within(p)
<1>1. After(p) \in Places /\ p < After(p) /\ p \in Places
  BY AfterLater DEF Places
<1>2. CASE ~IsOper(goal[p])
  <2>1. After(p) = p + 1
    BY <1>2, LeafMeaning
  <2>2. \A q \in p .. After(p) - 1 : q = p
    BY <2>1
  <2> QED
    BY <1>1, <2>2 DEF Within, Places
<1>3. CASE IsOper(goal[p])
  <2> DEFINE e == After(p + 1)
  <2>1. /\ p + 1 \in 1 .. Len(goal) /\ e \in 1 .. Len(goal)
        /\ p + 1 < e /\ e < After(p) /\ After(e) = After(p)
    BY <1>3, Operands
  <2>2. /\ Meaning[p].exact => /\ Meaning[p + 1].exact /\ Meaning[p + 1].reads
                               /\ Meaning[e].exact /\ Meaning[e].reads
        /\ Meaning[p].safe => Meaning[p + 1].safe /\ Meaning[e].safe
    BY <1>3, OperMeaning DEF Means
  <2>3. Within(p + 1) /\ Within(e) /\ After(p + 1) = e
    BY <1>3
  <2> HIDE DEF e
  <2>4. ASSUME NEW q \in p .. After(p) - 1
        PROVE  /\ After(q) <= After(p)
               /\ Meaning[p].exact => Meaning[q].exact /\ (q # p => Meaning[q].reads)
               /\ Meaning[p].safe => Meaning[q].safe
    <3>1. q \in Places
      BY <1>1 DEF Places
    <3>2. After(q) \in Places
      BY <3>1, AfterLater
    <3>3. q = p \/ q \in p + 1 .. e - 1 \/ q \in e .. After(e) - 1
      BY <1>1, <2>1 DEF Places
    <3>4. CASE q = p
      BY <1>1, <3>4 DEF Places
    <3>5. CASE q \in p + 1 .. e - 1
      <4>1. /\ After(q) <= e
            /\ Meaning[p + 1].exact => Meaning[q].exact /\ (q # p + 1 => Meaning[q].reads)
            /\ Meaning[p + 1].safe => Meaning[q].safe
        BY ONLY <2>3, <3>5 DEF Within
      <4>2. After(q) <= After(p)
        BY <1>1, <2>1, <3>2, <4>1 DEF Places
      <4> QED
        BY ONLY <2>2, <4>1, <4>2
    <3>6. CASE q \in e .. After(e) - 1
      <4>1. /\ After(q) <= After(e)
            /\ Meaning[e].exact => Meaning[q].exact /\ (q # e => Meaning[q].reads)
            /\ Meaning[e].safe => Meaning[q].safe
        BY ONLY <2>3, <3>6 DEF Within
      <4> QED
        BY ONLY <2>1, <2>2, <4>1
    <3> QED
      BY <3>3, <3>4, <3>5, <3>6
  <2> QED
    BY <2>4 DEF Within
<1> QED
  BY <1>2, <1>3

(* This holds of every expression of the goal.                             *)
LEMMA WithinTerm ==
  ASSUME goal \in Seq(Int)
  PROVE  \A p \in 1 .. Len(goal) : After(p) <= Len(goal) + 1 => Within(p)
<1> DEFINE L == Len(goal)
           Bad(p) == After(p) <= L + 1 /\ ~Within(p)
           T == {d \in Nat : \E p \in 1 .. L : p + d = L /\ Bad(p)}
<1> SUFFICES ASSUME NEW x \in 1 .. L, Bad(x) PROVE FALSE
  OBVIOUS
<1>1. L - x \in T
  <2>1. L - x \in Nat /\ x + (L - x) = L
    OBVIOUS
  <2> QED
    BY <2>1
<1>2. PICK d \in T : \A k \in T : d <= k
  BY <1>1, LeastNat
<1>3. PICK p \in 1 .. L : p + d = L /\ Bad(p)
  OBVIOUS
<1>4. ASSUME NEW k \in 1 .. L, k > p, After(k) <= L + 1 PROVE Within(k)
  <2>1. L - k \in Nat /\ k + (L - k) = L /\ ~(d <= L - k)
    BY <1>3, <1>4
  <2> QED
    BY <1>2, <1>4, <2>1
<1> HIDE DEF T
<1>5. CASE ~IsOper(goal[p])
  BY <1>3, <1>5, WithinFrom
<1>6. CASE IsOper(goal[p])
  <2>1. After(p) \in Places /\ p \in Places
    BY AfterLater DEF Places
  <2>2. /\ p + 1 \in 1 .. L /\ After(p + 1) \in 1 .. L
        /\ p + 1 < After(p + 1) /\ After(p + 1) < After(p) /\ After(After(p + 1)) = After(p)
    BY <1>3, <1>6, Operands
  <2>3. Within(p + 1) /\ Within(After(p + 1))
    BY <1>3, <1>4, <2>1, <2>2 DEF Places
  <2> QED
    BY <1>3, <2>3, WithinFrom
<1> QED
  BY <1>5, <1>6

(* All the terms of a goal, by the definition of Polish and Exact.         *)
LEMMA TermsOf ==
  ASSUME goal \in Seq(Int), Polish
  PROVE  /\ Len(goal) \in Nat /\ 1 \in 1 .. Len(goal)
         /\ \A q \in 1 .. Len(goal) : q \in Places /\ After(q) \in Places
                                      /\ q < After(q) /\ After(q) <= Len(goal) + 1
         /\ Exact => \A q \in 2 .. Len(goal) : Meaning[q].reads
         /\ Meaning[1].safe => \A q \in 1 .. Len(goal) : Meaning[q].safe
<1>1. After(1) = Len(goal) + 1
  BY DEF Polish, After
<1>2. Len(goal) \in Nat /\ 1 \in Places /\ After(1) > 1
  BY AfterLater DEF Places
<1>3. 1 \in 1 .. Len(goal) /\ After(1) <= Len(goal) + 1
  BY <1>1, <1>2
<1>4. Within(1)
  BY <1>3, WithinTerm
<1>5. \A q \in 1 .. Len(goal) : q \in Places /\ After(q) \in Places /\ q < After(q)
  BY AfterLater DEF Places
<1>6. \A q \in 1 .. Len(goal) : q \in 1 .. After(1) - 1
  BY <1>1, <1>2
<1>7. 2 .. Len(goal) \subseteq 1 .. Len(goal) /\ \A q \in 2 .. Len(goal) : q # 1
  OBVIOUS
<1> QED
  BY <1>1, <1>2, <1>3, <1>4, <1>5, <1>6, <1>7 DEF Within, Exact

-----------------------------------------------------------------------------
(* What is left of a goal when some of its expressions were computed.      *)

(* The entries of s stand for the goal up to term next: an operator for    *)
(* itself, anything else for the expression that starts at its place.      *)
Laid(s, pos, next) ==
  /\ pos \in [1 .. Len(s) + 1 -> Places]
  /\ pos[1] = 1 /\ pos[Len(s) + 1] = next
  /\ \A k \in 1 .. Len(s) :
       /\ pos[k] \in 1 .. Len(goal)
       /\ FlaggedOper(s[k]) => IsOper(goal[pos[k]]) /\ s[k] = goal[pos[k]] /\ pos[k + 1] = pos[k] + 1
       /\ ~FlaggedOper(s[k]) => pos[k + 1] = After(pos[k])

Triple(s, n) ==
  /\ n \in 1 .. Len(s) - 2
  /\ FlaggedOper(s[n]) /\ ~FlaggedOper(s[n + 1]) /\ ~FlaggedOper(s[n + 2])

(* Only the first entry stands for the start of the goal.                  *)
LEMMA RootFirst ==
  ASSUME goal \in Seq(Int), NEW s, Len(s) \in Nat, NEW pos, NEW next, Laid(s, pos, next)
  PROVE  \A k \in 2 .. Len(s) + 1 : pos[k] # 1
<1> SUFFICES ASSUME NEW k \in 2 .. Len(s) + 1 PROVE pos[k] # 1
  OBVIOUS
<1>1. k - 1 \in 1 .. Len(s) /\ (k - 1) + 1 = k
  OBVIOUS
<1>2. pos[k - 1] \in Places /\ (pos[k] = pos[k - 1] + 1 \/ pos[k] = After(pos[k - 1]))
  <2> DEFINE j == k - 1
  <2>1. j \in 1 .. Len(s) /\ j + 1 = k
    BY <1>1
  <2> HIDE DEF j
  <2>2. pos[j] \in 1 .. Len(goal) /\ (pos[j + 1] = pos[j] + 1 \/ pos[j + 1] = After(pos[j]))
    BY <2>1 DEF Laid
  <2>3. pos[j] \in Places /\ (pos[k] = pos[j] + 1 \/ pos[k] = After(pos[j]))
    BY ONLY <2>1, <2>2 DEF Places
  <2> QED
    BY <2>3 DEF j
<1>3. After(pos[k - 1]) \in Places /\ After(pos[k - 1]) > pos[k - 1]
  BY <1>2, AfterLater
<1> QED
  BY <1>2, <1>3 DEF Places

(* An operator under its two operands is an expression of the goal.        *)
LEMMA TripleLaid ==
  ASSUME goal \in Seq(Int), NEW s, Len(s) \in Nat, NEW pos, NEW next, Laid(s, pos, next),
         NEW n, Triple(s, n)
  PROVE  /\ n \in 1 .. Len(s) /\ n + 1 \in 1 .. Len(s) /\ n + 2 \in 1 .. Len(s)
         /\ pos[n] \in 1 .. Len(goal) /\ IsOper(goal[pos[n]]) /\ s[n] = goal[pos[n]]
         /\ pos[n + 1] = pos[n] + 1 /\ pos[n + 2] = After(pos[n] + 1)
         /\ pos[n + 3] = After(pos[n])
<1>1. n \in 1 .. Len(s) /\ n + 1 \in 1 .. Len(s) /\ n + 2 \in 1 .. Len(s)
  BY DEF Triple
<1>2. /\ pos[n] \in 1 .. Len(goal) /\ IsOper(goal[pos[n]]) /\ s[n] = goal[pos[n]]
      /\ pos[n + 1] = pos[n] + 1
  BY <1>1 DEF Laid, Triple
<1>3. pos[(n + 1) + 1] = After(pos[n + 1]) /\ pos[(n + 2) + 1] = After(pos[n + 2])
  BY <1>1 DEF Laid, Triple
<1>4. (n + 1) + 1 = n + 2 /\ (n + 2) + 1 = n + 3
  BY <1>1
<1>5. After(pos[n]) = After(After(pos[n] + 1))
  BY <1>2, OperMeaning DEF Means
<1> QED
  BY ONLY <1>1, <1>2, <1>3, <1>4, <1>5

(* r is s, with v in the place of the three entries from n on.             *)
Closes(s, n, v, r) ==
  /\ Len(r) = Len(s) - 2 /\ r[n] = v
  /\ \A k \in 1 .. n - 1 : r[k] = s[k]
  /\ \A k \in n + 1 .. Len(r) : r[k] = s[k + 2]

(* The triple gives way to its value.                                      *)
LEMMA Spliced ==
  ASSUME goal \in Seq(Int), NEW s, Len(s) \in Nat, NEW pos, NEW next, Laid(s, pos, next),
         NEW n, Triple(s, n), NEW v, NEW r, Closes(s, n, v, r), ~FlaggedOper(v)
  PROVE  \E q : /\ Laid(r, q, next)
                /\ \A k \in 1 .. n : q[k] = pos[k]
                /\ \A k \in n + 1 .. Len(r) + 1 : q[k] = pos[k + 2]
<1> SUFFICES ASSUME Len(r) = Len(s) - 2, ~FlaggedOper(r[n]),
                    \A k \in 1 .. n - 1 : r[k] = s[k],
                    \A k \in n + 1 .. Len(r) : r[k] = s[k + 2]
             PROVE  \E q : /\ Laid(r, q, next)
                           /\ \A k \in 1 .. n : q[k] = pos[k]
                           /\ \A k \in n + 1 .. Len(r) + 1 : q[k] = pos[k + 2]
  BY DEF Closes
<1>1. /\ n \in 1 .. Len(s) /\ n + 1 \in 1 .. Len(s) /\ n + 2 \in 1 .. Len(s)
      /\ pos[n] \in 1 .. Len(goal) /\ pos[n + 3] = After(pos[n])
  BY TripleLaid
<1>2. Len(r) \in Nat /\ n \in 1 .. Len(r) /\ Len(r) + 2 = Len(s)
  BY <1>1
<1> DEFINE q == [k \in 1 .. Len(r) + 1 |-> IF k <= n THEN pos[k] ELSE pos[k + 2]]
<1>3. /\ DOMAIN q = 1 .. Len(r) + 1
      /\ \A k \in 1 .. n : q[k] = pos[k]
      /\ \A k \in n + 1 .. Len(r) + 1 : q[k] = pos[k + 2]
      /\ q = [k \in 1 .. Len(r) + 1 |-> q[k]]
  BY <1>2
<1> HIDE DEF q
<1>4. pos \in [1 .. Len(s) + 1 -> Places] /\ pos[1] = 1 /\ pos[Len(s) + 1] = next
  BY DEF Laid
<1>5. q \in [1 .. Len(r) + 1 -> Places]
  <2>1. ASSUME NEW k \in 1 .. Len(r) + 1 PROVE q[k] \in Places
    <3>1. CASE k \in 1 .. n
      <4>1. k \in 1 .. Len(s) + 1
        BY <1>1, <3>1
      <4>2. q[k] = pos[k]
        BY <1>3, <3>1
      <4> QED
        BY <1>4, <4>1, <4>2
    <3>2. CASE k \in n + 1 .. Len(r) + 1
      <4>1. k + 2 \in 1 .. Len(s) + 1
        BY <1>1, <1>2, <3>2
      <4> QED
        BY <1>3, <1>4, <3>2, <4>1
    <3> QED
      BY <1>2, <3>1, <3>2
  <2> QED
    BY <1>3, <2>1
<1>6. q[1] = 1
  <2>1. 1 \in 1 .. n
    BY <1>2
  <2> QED
    BY ONLY <1>3, <1>4, <2>1
<1>7. q[Len(r) + 1] = next
  <2>1. Len(r) + 1 \in n + 1 .. Len(r) + 1 /\ (Len(r) + 1) + 2 = Len(s) + 1
    BY <1>2
  <2>2. q[Len(r) + 1] = pos[(Len(r) + 1) + 2]
    BY ONLY <1>3, <2>1
  <2> QED
    BY ONLY <1>4, <2>1, <2>2
<1>8. ASSUME NEW k \in 1 .. Len(r)
      PROVE  /\ q[k] \in 1 .. Len(goal)
             /\ FlaggedOper(r[k]) => IsOper(goal[q[k]]) /\ r[k] = goal[q[k]] /\ q[k + 1] = q[k] + 1
             /\ ~FlaggedOper(r[k]) => q[k + 1] = After(q[k])
  <2>1. CASE k < n
    <3>1. k \in 1 .. n /\ k + 1 \in 1 .. n /\ k \in 1 .. n - 1 /\ k \in 1 .. Len(s)
      BY <1>1, <1>2, <2>1
    <3>2. q[k] = pos[k] /\ q[k + 1] = pos[k + 1] /\ r[k] = s[k]
      BY <1>3, <3>1
    <3> QED
      BY <3>1, <3>2 DEF Laid
  <2>2. CASE k = n
    <3>1. n \in 1 .. n /\ n + 1 \in n + 1 .. Len(r) + 1 /\ (n + 1) + 2 = n + 3
      BY <1>2
    <3>2. q[n] = pos[n] /\ q[n + 1] = pos[n + 3]
      BY <1>3, <3>1
    <3> QED
      BY <1>1, <2>2, <3>2
  <2>3. CASE k > n
    <3>1. /\ k \in n + 1 .. Len(r) + 1 /\ k + 1 \in n + 1 .. Len(r) + 1
          /\ k \in n + 1 .. Len(r) /\ k + 2 \in 1 .. Len(s) /\ (k + 1) + 2 = (k + 2) + 1
      BY <1>1, <1>2, <2>3
    <3>2. q[k] = pos[k + 2] /\ q[k + 1] = pos[(k + 1) + 2]
      BY ONLY <1>3, <3>1
    <3>3. r[k] = s[k + 2]
      BY <3>1
    <3> QED
      BY <3>1, <3>2, <3>3 DEF Laid
  <2> QED
    BY <1>2, <2>1, <2>2, <2>3
<1>9. Laid(r, q, next)
  BY <1>5, <1>6, <1>7, <1>8 DEF Laid
<1> QED
  BY <1>3, <1>9

(* As long as an operator is left of a whole goal, one has both operands:  *)
(* the last one.                                                           *)
LEMMA SomeTriple ==
  ASSUME goal \in Seq(Int), Polish, NEW s, Len(s) \in Nat, NEW pos,
         Laid(s, pos, Len(goal) + 1), \E k \in 1 .. Len(s) : FlaggedOper(s[k])
  PROVE  \E n : Triple(s, n)
<1> DEFINE L == Len(s)
           T == {d \in Nat : \E k \in 1 .. L : k + d = L /\ FlaggedOper(s[k])}
<1>1. T # {}
  <2>1. PICK k \in 1 .. L : FlaggedOper(s[k])
    OBVIOUS
  <2>2. L - k \in Nat /\ k + (L - k) = L
    OBVIOUS
  <2> QED
    BY <2>1, <2>2
<1>2. PICK d \in T : \A k \in T : d <= k
  BY <1>1, LeastNat
<1>3. PICK n \in 1 .. L : n + d = L /\ FlaggedOper(s[n])
  OBVIOUS
<1>4. ASSUME NEW k \in 1 .. L, k > n PROVE ~FlaggedOper(s[k])
  <2>1. L - k \in Nat /\ k + (L - k) = L /\ ~(d <= L - k)
    BY <1>3, <1>4
  <2> QED
    BY <1>2, <2>1
<1> HIDE DEF T
<1>5. pos[n] \in 1 .. Len(goal) /\ IsOper(goal[pos[n]]) /\ pos[n + 1] = pos[n] + 1
  BY <1>3 DEF Laid
<1>6. pos[L + 1] = Len(goal) + 1
  BY DEF Laid
<1>7. Len(goal) \in Nat /\ After(pos[n]) <= Len(goal) + 1
  BY <1>5, TermsOf
<1>8. /\ pos[n] + 1 \in 1 .. Len(goal) /\ After(pos[n] + 1) \in 1 .. Len(goal)
  BY <1>5, <1>7, Operands
<1>9. n # L
  <2>1. n = L => pos[n + 1] = Len(goal) + 1
    BY ONLY <1>6
  <2> QED
    BY ONLY <1>5, <1>7, <1>8, <2>1
<1>10. n + 1 \in 1 .. L /\ ~FlaggedOper(s[n + 1])
  BY <1>4, <1>9
<1>11. pos[(n + 1) + 1] = After(pos[n] + 1)
  BY <1>5, <1>10 DEF Laid
<1>12. n + 1 # L
  BY <1>6, <1>7, <1>8, <1>11
<1>13. n \in 1 .. L - 2 /\ n + 2 \in 1 .. L /\ n + 2 > n
  BY <1>9, <1>12
<1> QED
  BY <1>3, <1>4, <1>10, <1>13 DEF Triple

-----------------------------------------------------------------------------
(* Goals of any shape, on the stack.                                       *)

(* An entry of the stack is read as the value of an expression.            *)
Entry(x, p) ==
  /\ Decodable(x) => Meaning[p].safe
  /\ Meaning[p].safe => Decodable(x)
  /\ DecodeValue(x) = Meaning[p].value

Entries(pos) ==
  /\ Laid(compute, pos, i)
  /\ \A k \in 1 .. Depth : ~FlaggedOper(compute[k]) => Entry(compute[k], pos[k])

(* Before the goal is decided, only the top of the stack is reducible.     *)
Unread ==
  /\ has_input /\ status # "done"
  /\ status = "trap" => ~Meaning[1].safe
  /\ Depth > 0 => FlaggedOper(compute[1])
  /\ \A m \in 1 .. Depth - 3 : ~Triple(compute, m)
  /\ \E pos : Entries(pos)

Decided ==
  /\ i = Len(goal) + 1 /\ Depth = 1 /\ compute[1] = Meaning[1].value
  /\ Meaning[1].safe /\ status # "trap"

StackInv == Inv /\ (Exact => Unread \/ Decided)

(* A number has the flags of its bits.                                     *)
LEMMA IntFlags == \A x \in Int : FlaggedOper(x) <=> IsOper(x)
  BY PageAssumption DEF FlaggedOper

(* A term of the goal that is an operand, and a computed value.            *)
LEMMA LeafEntry ==
  ASSUME goal \in Seq(Int), NEW n \in 1 .. Len(goal), ~IsOper(goal[n]), Meaning[n].reads
  PROVE  Entry(goal[n], n)
<1>1. /\ Meaning[n].safe <=> Decodable(goal[n])
      /\ Meaning[n].reads => IsAttr(goal[n]) \/ Low12(goal[n]) < 2048
      /\ Meaning[n].value = IF IsAttr(goal[n]) THEN attr_n[Low12(goal[n])] ELSE Low12(goal[n])
  BY LeafMeaning
<1>2. IsAttr(goal[n]) \/ Low12(goal[n]) < 2048
  BY <1>1
<1>3. DecodeValue(goal[n]) = Meaning[n].value
  <2>1. CASE IsAttr(goal[n])
    BY ONLY <1>1, <2>1 DEF DecodeValue
  <2>2. CASE ~IsAttr(goal[n])
    <3>1. Low12(goal[n]) \in Int
      BY DEF Low12
    <3>2. SignExtend(Low12(goal[n])) = Low12(goal[n])
      BY <1>2, <2>2, <3>1 DEF SignExtend
    <3> QED
      BY ONLY <1>1, <2>2, <3>2 DEF DecodeValue
  <2> QED
    BY <2>1, <2>2
<1> QED
  BY <1>1, <1>3 DEF Entry

LEMMA ValueEntry ==
  ASSUME NEW p, Meaning[p].safe, Meaning[p].value \in 0 .. 2047
  PROVE  /\ Entry(Meaning[p].value, p)
         /\ ~FlaggedOper(Meaning[p].value) /\ Meaning[p].value \in Int
<1> DEFINE v == Meaning[p].value
<1>0. v \in 0 .. 2047
  OBVIOUS
<1> HIDE DEF v
<1>1. v \in Nat /\ v < 2048 /\ v \in Int
  BY ONLY <1>0
<1>2. ~IsOper(v) /\ ~IsAttr(v) /\ Low12(v) = v /\ SignExtend(v) = v
  BY <1>1, TermBits
<1>3. Decodable(v) /\ DecodeValue(v) = v
  BY ONLY <1>2 DEF Decodable, DecodeValue
<1>4. ~FlaggedOper(v)
  BY <1>1, <1>2, IntFlags
<1>5. v = Meaning[p].value
  BY DEF v
<1> QED
  BY ONLY <1>1, <1>3, <1>4, <1>5, Meaning[p].safe DEF Entry

(* What Reduce computes is what the expression means, and it traps where   *)
(* the expression has no meaning.                                          *)
LEMMA Computed ==
  ASSUME goal \in Seq(Int), compute \in Seq(Int), NEW pos, Entries(pos), Reducible
  PROVE  LET p == pos[Depth - 2]
         IN  /\ Triple(compute, Depth - 2) /\ p \in 1 .. Len(goal)
             /\ IsOper(goal[p]) /\ After(p) = i
             /\ Computable => Meaning[p].safe
             /\ Meaning[p].safe => Computable
             /\ Computable => ApplyOp(Operator, DecodeValue(Left), DecodeValue(Right)) = Meaning[p].value
<1> DEFINE n == Depth - 2
           p == pos[n]
           e == After(p + 1)
<1>1. Len(compute) \in Nat /\ Depth = Len(compute) /\ Depth > 2
  BY DEF Depth, Reducible
<1>2. n \in 1 .. Len(compute) /\ n + 1 = Depth - 1 /\ n + 2 = Depth /\ n + 3 = Len(compute) + 1
      /\ n \in 1 .. Len(compute) - 2 /\ n + 1 \in 1 .. Depth /\ n + 2 \in 1 .. Depth
  BY <1>1
<1>3. /\ Operator = compute[n] /\ Left = compute[n + 1] /\ Right = compute[n + 2]
      /\ compute[n] \in Int /\ compute[n + 1] \in Int /\ compute[n + 2] \in Int
  BY <1>1, <1>2 DEF Operator, Left, Right
<1> HIDE DEF n
<1>4. Triple(compute, n)
  BY <1>2, <1>3, IntFlags DEF Triple, Reducible
<1>5. Laid(compute, pos, i)
  BY DEF Entries
<1>6. /\ p \in 1 .. Len(goal) /\ IsOper(goal[p]) /\ compute[n] = goal[p]
      /\ pos[n + 1] = p + 1 /\ pos[n + 2] = e /\ pos[n + 3] = After(p)
  BY <1>1, <1>4, <1>5, TripleLaid
<1>7. After(p) = i
  BY <1>2, <1>5, <1>6 DEF Laid
<1> HIDE DEF p
<1>8. Entry(Left, p + 1) /\ Entry(Right, e)
  BY <1>2, <1>3, <1>4, <1>6 DEF Entries, Triple
<1> DEFINE zero == goal[p] = Code.DIV /\ Meaning[e].value = 0
<1>9. /\ Meaning[p].safe => Meaning[p + 1].safe /\ Meaning[e].safe /\ ~zero
      /\ Meaning[p + 1].safe /\ Meaning[e].safe /\ ~zero => Meaning[p].safe
      /\ ~zero => Meaning[p].value = ApplyOp(goal[p], Meaning[p + 1].value, Meaning[e].value)
  BY <1>6, OperMeaning DEF Means
<1>10. Operator = goal[p]
  BY <1>3, <1>6
<1> HIDE DEF e
<1>11. /\ Computable => Meaning[p + 1].safe /\ Meaning[e].safe /\ ~zero
       /\ Meaning[p + 1].safe /\ Meaning[e].safe /\ ~zero => Computable
  BY ONLY <1>8, <1>10 DEF Computable, Entry
<1>12. DecodeValue(Left) = Meaning[p + 1].value /\ DecodeValue(Right) = Meaning[e].value
  BY ONLY <1>8 DEF Entry
<1> HIDE DEF zero
<1>13. /\ Computable => Meaning[p].safe
       /\ Meaning[p].safe => Computable
       /\ Computable => ApplyOp(Operator, DecodeValue(Left), DecodeValue(Right)) = Meaning[p].value
  BY ONLY <1>9, <1>10, <1>11, <1>12
<1> QED
  BY <1>4, <1>6, <1>7, <1>13 DEF n, p

(* A term read is laid after those before it.                              *)
LEMMA Pushed ==
  ASSUME goal \in Seq(Int), NEW s, Len(s) \in Nat, NEW pos, NEW n \in 1 .. Len(goal),
         Laid(s, pos, n), NEW r, Len(r) = Len(s) + 1, r[Len(s) + 1] = goal[n],
         \A k \in 1 .. Len(s) : r[k] = s[k]
  PROVE  \E q : Laid(r, q, n + 1) /\ \A k \in 1 .. Len(s) + 1 : q[k] = pos[k]
<1> DEFINE q == [k \in 1 .. Len(r) + 1 |-> IF k <= Len(s) + 1 THEN pos[k] ELSE n + 1]
<1>1. Len(r) + 1 = Len(s) + 2 /\ Len(r) \in Nat /\ Len(s) + 1 \in 1 .. Len(s) + 1
  OBVIOUS
<1>2. /\ DOMAIN q = 1 .. Len(r) + 1 /\ q = [k \in 1 .. Len(r) + 1 |-> q[k]]
      /\ \A k \in 1 .. Len(s) + 1 : q[k] = pos[k]
      /\ q[Len(s) + 2] = n + 1
  BY <1>1
<1> HIDE DEF q
<1>3. pos \in [1 .. Len(s) + 1 -> Places] /\ pos[1] = 1 /\ pos[Len(s) + 1] = n
  BY DEF Laid
<1>4. q \in [1 .. Len(r) + 1 -> Places]
  <2>1. ASSUME NEW k \in 1 .. Len(r) + 1 PROVE q[k] \in Places
    <3>1. CASE k \in 1 .. Len(s) + 1
      BY <1>2, <1>3, <3>1
    <3>2. CASE k = Len(s) + 2
      <4>1. n + 1 \in Places
        BY DEF Places
      <4> QED
        BY ONLY <1>2, <3>2, <4>1
    <3> QED
      BY <1>1, <3>1, <3>2
  <2> QED
    BY <1>2, <2>1
<1>5. q[1] = 1 /\ q[Len(r) + 1] = n + 1
  <2>1. 1 \in 1 .. Len(s) + 1
    OBVIOUS
  <2> QED
    BY ONLY <1>1, <1>2, <1>3, <2>1
<1>6. ASSUME NEW k \in 1 .. Len(r)
      PROVE  /\ q[k] \in 1 .. Len(goal)
             /\ FlaggedOper(r[k]) => IsOper(goal[q[k]]) /\ r[k] = goal[q[k]] /\ q[k + 1] = q[k] + 1
             /\ ~FlaggedOper(r[k]) => q[k + 1] = After(q[k])
  <2>1. CASE k \in 1 .. Len(s)
    <3>1. k \in 1 .. Len(s) + 1 /\ k + 1 \in 1 .. Len(s) + 1
      BY <2>1
    <3>2. q[k] = pos[k] /\ q[k + 1] = pos[k + 1] /\ r[k] = s[k]
      BY <1>2, <2>1, <3>1
    <3> QED
      BY <2>1, <3>2 DEF Laid
  <2>2. CASE k = Len(s) + 1
    <3>1. k + 1 = Len(s) + 2 /\ k \in 1 .. Len(s) + 1
      BY <2>2
    <3>2. q[k] = n /\ q[k + 1] = n + 1 /\ r[k] = goal[n]
      BY ONLY <1>2, <1>3, <2>2, <3>1, r[Len(s) + 1] = goal[n]
    <3>3. goal[n] \in Int
      OBVIOUS
    <3>4. FlaggedOper(goal[n]) <=> IsOper(goal[n])
      BY <3>3, IntFlags
    <3>5. ~IsOper(goal[n]) => After(n) = n + 1
      BY LeafMeaning
    <3> QED
      BY <3>2, <3>4, <3>5
  <2> QED
    BY <2>1, <2>2
<1>7. Laid(r, q, n + 1)
  BY <1>4, <1>5, <1>6 DEF Laid
<1> QED
  BY <1>2, <1>7

(* What a step leaves alone.                                               *)
LEMMA EvalKept ==
  ASSUME [Next]_vars
  PROVE  goal' = goal /\ attr_n' = attr_n /\ Meaning' = Meaning /\ (Exact' <=> Exact)
<1>1. goal' = goal /\ attr_n' = attr_n
  BY DEF Next, Reduce, Trap, PushTerm, EndOfInput, Leave, vars
<1>2. Meaning' = Meaning
  BY <1>1, MeaningKept
<1> QED
  BY <1>1, <1>2 DEF Exact, Polish

(* The layout after a step, from the layout of the new stack.              *)
LEMMA EntriesNext ==
  ASSUME goal' = goal, attr_n' = attr_n, NEW q, Laid(compute', q, i'),
         \A k \in 1 .. Len(compute') : ~FlaggedOper(compute'[k]) => Entry(compute'[k], q[k])
  PROVE  Entries(q)'
<1>1. Meaning' = Meaning
  BY MeaningKept
<1>2. Laid(compute, q, i)'
  BY <1>1 DEF Laid, After
<1>3. \A k \in 1 .. Depth' : ~FlaggedOper(compute'[k]) => Entry(compute[k], q[k])'
  BY <1>1 DEF Entry, Decodable, DecodeValue, Depth
<1> QED
  BY <1>2, <1>3 DEF Entries, FlaggedOper

(* Types of the state and the shape of a goal.                             *)
LEMMA StackTypes ==
  ASSUME Inv
  PROVE  /\ goal \in Seq(Int) /\ Len(goal) \in Nat /\ i \in 1 .. Len(goal) + 1
         /\ compute \in Seq(Int) /\ Len(compute) \in Nat /\ Depth = Len(compute)
  BY GoalAssumption DEF Inv, TypeOK, Depth

(* Applying an operator keeps the layout, or decides the goal.             *)
LEMMA UnreadReduce ==
  ASSUME Inv, Exact, Unread, Reduce
  PROVE  Unread' \/ Decided'
<1>1. /\ goal \in Seq(Int) /\ Len(goal) \in Nat /\ i \in 1 .. Len(goal) + 1
      /\ compute \in Seq(Int) /\ Len(compute) \in Nat /\ Depth = Len(compute)
  BY StackTypes
<1>2. PICK pos : Entries(pos)
  BY DEF Unread
<1>3. goal' = goal /\ attr_n' = attr_n /\ Meaning' = Meaning
  BY EvalKept DEF Next
<1> DEFINE n == Depth - 2
           p == pos[n]
           v == Meaning[p].value
<1>4. Depth > 2 /\ Reducible /\ Computable /\ status = "eval"
  BY DEF Reduce, Reducible
<1>5. /\ Triple(compute, n) /\ p \in 1 .. Len(goal)
      /\ IsOper(goal[p]) /\ After(p) = i /\ Meaning[p].safe
      /\ ApplyOp(Operator, DecodeValue(Left), DecodeValue(Right)) = v
  BY <1>1, <1>2, <1>4, Computed
<1>6. compute' = Append(SubSeq(compute, 1, Len(compute) - 3), v)
  BY <1>1, <1>5 DEF Reduce
<1>7. i' = i /\ has_input' = has_input /\ status' = status
  BY DEF Reduce
<1>8. v \in Int
  <2>1. Left \in Int /\ Right \in Int
    <3>1. Len(compute) - 1 \in DOMAIN compute /\ Len(compute) \in DOMAIN compute
      BY <1>1, <1>4
    <3> QED
      BY <1>1, <3>1 DEF Left, Right
  <2>2. DecodeValue(Left) \in Int /\ DecodeValue(Right) \in Int
    BY <1>4, <2>1, DecodeInt DEF Computable, Inv, TypeOK
  <2>3. ApplyOp(Operator, DecodeValue(Left), DecodeValue(Right)) \in Int
    BY <1>4, <2>2, ApplyOpInt DEF Computable
  <2> QED
    BY <1>5, <2>3
<1> HIDE DEF p, v
<1>9. /\ compute' \in Seq(Int) /\ Len(compute') = Len(compute) - 2
      /\ compute'[n] = v /\ \A k \in 1 .. n - 1 : compute'[k] = compute[k]
  <2>1. n = Len(compute) - 2 /\ n - 1 = Len(compute) - 3 /\ Len(compute) > 2
    BY <1>1, <1>4
  <2> HIDE DEF n
  <2> DEFINE r == compute'
  <2>2. compute \in Seq(Int) /\ r = Replaced(compute, v)
    BY <1>1, <1>6 DEF Replaced
  <2> HIDE DEF r
  <2>3. /\ r \in Seq(Int) /\ Len(r) = Len(compute) - 2
        /\ r[Len(compute) - 2] = v
        /\ \A k \in 1 .. Len(compute) - 3 : r[k] = compute[k]
    BY ONLY <1>8, <2>1, <2>2, ReducedStack
  <2> QED
    BY ONLY <2>1, <2>3 DEF r
<1>10. n \in 1 .. Len(compute) /\ Len(compute') = n /\ n \in Nat
  BY <1>1, <1>4, <1>9
<1>11. Laid(compute, pos, i) /\ pos[1] = 1
  BY <1>2 DEF Entries, Laid
<1>12. CASE p = 1
  <2>1. n = 1
    <3>1. n \in 2 .. Len(compute) + 1 => pos[n] # 1
      BY <1>1, <1>11, RootFirst
    <3>2. pos[n] = 1
      BY <1>12 DEF p
    <3>3. n \notin 2 .. Len(compute) + 1
      BY ONLY <3>1, <3>2
    <3> HIDE DEF n
    <3> QED
      BY ONLY <1>1, <1>10, <3>3
  <2>2. After(1) = Len(goal) + 1
    BY DEF Exact, Polish, After
  <2>3. /\ i' = Len(goal') + 1 /\ compute'[1] = Meaning'[1].value
        /\ Meaning'[1].safe /\ status' # "trap"
    BY <1>3, <1>4, <1>5, <1>7, <1>9, <1>12, <2>1, <2>2 DEF v
  <2>4. Depth' = 1
    BY <1>10, <2>1 DEF Depth
  <2> QED
    BY <2>3, <2>4 DEF Decided
<1>13. CASE p # 1
  <2>1. n > 1
    BY <1>10, <1>11, <1>13 DEF p
  <2>2. p \in 2 .. Len(goal)
    BY <1>1, <1>5, <1>13
  <2>3. Meaning[p].reads
    BY <1>1, <2>2, TermsOf DEF Exact
  <2>4. v \in 0 .. 2047
    BY <1>1, <1>5, <2>3, OperMeaning DEF v, Means
  <2>5. Entry(v, p) /\ ~FlaggedOper(v)
    BY <1>5, <2>4, ValueEntry DEF v
  <2>6. PICK q : Laid(compute', q, i) /\ \A k \in 1 .. n : q[k] = pos[k]
    <3> DEFINE r == compute'
    <3>1. \A k \in n + 1 .. Len(r) : r[k] = compute[k + 2]
      BY <1>10
    <3>2. ~FlaggedOper(r[n])
      BY <1>9, <2>5
    <3>3. \A k \in 1 .. n - 1 : r[k] = compute[k]
      BY <1>9
    <3>4. Len(r) = Len(compute) - 2 /\ Triple(compute, n)
      BY <1>5, <1>9
    <3>0. goal \in Seq(Int) /\ Len(compute) \in Nat /\ Laid(compute, pos, i)
      BY <1>1, <1>11
    <3>a. Closes(compute, n, r[n], r)
      BY <3>1, <3>3, <3>4 DEF Closes
    <3> HIDE DEF n, r
    <3>5. \E q : /\ Laid(r, q, i)
                 /\ \A k \in 1 .. n : q[k] = pos[k]
                 /\ \A k \in n + 1 .. Len(r) + 1 : q[k] = pos[k + 2]
      BY ONLY <3>0, <3>2, <3>4, <3>a, Spliced
    <3> QED
      BY <3>5, Zenon DEF r
  <2>7. ASSUME NEW k \in 1 .. Len(compute'), ~FlaggedOper(compute'[k])
        PROVE  Entry(compute'[k], q[k])
    <3>1. CASE k = n
      BY <1>9, <1>10, <2>5, <2>6, <3>1 DEF p
    <3>2. CASE k # n
      <4>1. k \in 1 .. n - 1 /\ k \in 1 .. n /\ k \in 1 .. Depth
        BY <1>1, <1>10, <3>2
      <4>2. compute'[k] = compute[k] /\ q[k] = pos[k]
        BY <1>9, <2>6, <4>1
      <4> QED
        BY <1>2, <2>7, <4>1, <4>2 DEF Entries
    <3> QED
      BY <3>1, <3>2
  <2>8. Entries(q)'
    BY <1>3, <1>7, <2>6, <2>7, EntriesNext
  <2>9. FlaggedOper(compute[1])'
    <3>1. 1 \in 1 .. n - 1 /\ Depth > 0
      <4>1. Depth > 0
        BY <1>1, <1>4
      <4> HIDE DEF n
      <4> QED
        BY ONLY <1>10, <2>1, <4>1
    <3>2. compute'[1] = compute[1]
      BY <1>9, <3>1
    <3> QED
      BY <3>1, <3>2 DEF Unread, FlaggedOper
  <2>10. ASSUME NEW m \in 1 .. Depth' - 3 PROVE ~Triple(compute, m)'
    <3>1. /\ m \in 1 .. Depth - 3 /\ m \in 1 .. n - 1 /\ m + 1 \in 1 .. n - 1 /\ m + 2 \in 1 .. n - 1
          /\ m \in 1 .. Len(compute) - 2
      BY <1>1, <1>10 DEF Depth
    <3>2. compute'[m] = compute[m] /\ compute'[m + 1] = compute[m + 1] /\ compute'[m + 2] = compute[m + 2]
      BY <1>9, <3>1
    <3>3. ~Triple(compute, m)
      BY <3>1 DEF Unread
    <3> QED
      BY <3>1, <3>2, <3>3 DEF Triple, FlaggedOper
  <2>11. has_input' /\ status' = "eval"
    BY <1>4, <1>7 DEF Unread
  <2> QED
    BY <2>8, <2>9, <2>10, <2>11 DEF Unread
<1> QED
  BY <1>12, <1>13

(* So does reading a term.                                                 *)
LEMMA UnreadPush ==
  ASSUME Inv, Exact, Unread, PushTerm
  PROVE  Unread'
<1>1. /\ goal \in Seq(Int) /\ Len(goal) \in Nat /\ i \in 1 .. Len(goal)
      /\ compute \in Seq(Int) /\ Len(compute) \in Nat /\ Depth = Len(compute)
  <2>1. i <= Len(goal)
    BY DEF PushTerm
  <2> QED
    BY <2>1, StackTypes
<1>2. PICK pos : Entries(pos)
  BY DEF Unread
<1>3. goal' = goal /\ attr_n' = attr_n
  BY DEF PushTerm
<1>4. /\ compute' = Append(compute, goal[i]) /\ i' = i + 1
      /\ has_input' = has_input /\ status' = status /\ status = "eval" /\ ~Reducible
  BY DEF PushTerm
<1>5. goal[i] \in Int
  BY <1>1
<1>6. /\ Len(compute') = Len(compute) + 1 /\ compute'[Len(compute) + 1] = goal[i]
      /\ \A k \in 1 .. Len(compute) : compute'[k] = compute[k]
  BY <1>1, <1>4, <1>5
<1>7. Laid(compute, pos, i) /\ pos[1] = 1 /\ pos[Len(compute) + 1] = i
  BY <1>2 DEF Entries, Laid
<1>8. PICK q : Laid(compute', q, i + 1) /\ \A k \in 1 .. Len(compute) + 1 : q[k] = pos[k]
  BY <1>1, <1>6, <1>7, Pushed
<1>9. i = 1 => FlaggedOper(goal[i])
  BY <1>5, IntFlags DEF Exact, Polish
<1>10. ASSUME NEW k \in 1 .. Len(compute'), ~FlaggedOper(compute'[k])
       PROVE  Entry(compute'[k], q[k])
  <2>1. CASE k = Len(compute) + 1
    <3>1. compute'[k] = goal[i] /\ q[k] = i
      <4>1. k \in 1 .. Len(compute) + 1
        BY <2>1, <1>1
      <4> QED
        BY ONLY <1>6, <1>7, <1>8, <2>1, <4>1
    <3>2. ~IsOper(goal[i]) /\ i \in 2 .. Len(goal)
      BY <1>1, <1>5, <1>9, <1>10, <3>1, IntFlags
    <3>3. Meaning[i].reads
      BY <1>1, <3>2, TermsOf DEF Exact
    <3> QED
      BY <1>1, <3>1, <3>2, <3>3, LeafEntry
  <2>2. CASE k # Len(compute) + 1
    <3>1. k \in 1 .. Len(compute) /\ k \in 1 .. Depth /\ k \in 1 .. Len(compute) + 1
      BY <1>1, <1>6, <2>2
    <3>2. compute'[k] = compute[k] /\ q[k] = pos[k]
      BY <1>6, <1>8, <3>1
    <3> QED
      BY <1>2, <1>10, <3>1, <3>2 DEF Entries
  <2> QED
    BY <2>1, <2>2
<1>11. Entries(q)'
  BY <1>3, <1>4, <1>8, <1>10, EntriesNext
<1>12. FlaggedOper(compute[1])'
  <2>1. CASE Len(compute) = 0
    <3>1. i = 1 /\ compute'[1] = goal[1]
      BY <1>6, <1>7, <2>1
    <3> QED
      BY <1>9, <3>1 DEF FlaggedOper
  <2>2. CASE Len(compute) # 0
    <3>1. 1 \in 1 .. Len(compute) /\ Depth > 0
      BY <1>1, <2>2
    <3>2. compute'[1] = compute[1]
      BY <1>6, <3>1
    <3> QED
      BY <3>1, <3>2 DEF Unread, FlaggedOper
  <2> QED
    BY <2>1, <2>2
<1>13. ASSUME NEW m \in 1 .. Depth' - 3 PROVE ~Triple(compute, m)'
  <2>1. /\ m \in 1 .. Depth - 2 /\ m \in 1 .. Len(compute) /\ m + 1 \in 1 .. Len(compute)
        /\ m + 2 \in 1 .. Len(compute)
    BY <1>1, <1>6 DEF Depth
  <2>2. compute'[m] = compute[m] /\ compute'[m + 1] = compute[m + 1] /\ compute'[m + 2] = compute[m + 2]
    BY <1>6, <2>1
  <2>3. ~Triple(compute, m)
    <3>1. CASE m = Depth - 2
      <4>1. /\ Operator = compute[m] /\ Left = compute[m + 1] /\ Right = compute[m + 2]
            /\ Depth > 2
        <5>1. m + 1 = Depth - 1 /\ m + 2 = Depth /\ Depth > 2
          BY <1>1, <2>1, <3>1
        <5> QED
          BY ONLY <3>1, <5>1 DEF Operator, Left, Right
      <4>2. compute[m] \in Int /\ compute[m + 1] \in Int /\ compute[m + 2] \in Int
        BY <1>1, <2>1
      <4> QED
        BY <1>4, <4>1, <4>2, IntFlags DEF Triple, Reducible
    <3>2. CASE m # Depth - 2
      <4>1. m \in 1 .. Depth - 3
        BY <1>1, <2>1, <3>2
      <4> QED
        BY <4>1 DEF Unread
    <3> QED
      BY <3>1, <3>2
  <2>4. m \in 1 .. Len(compute) - 2
    BY <1>1, <2>1
  <2> QED
    BY <2>2, <2>3, <2>4 DEF Triple, FlaggedOper
<1>14. has_input' /\ status' = "eval"
  BY <1>4 DEF Unread
<1> QED
  BY <1>11, <1>12, <1>13, <1>14 DEF Unread

(* With the whole goal read, an operator is left at the top.               *)
LEMMA UnreadEnd ==
  ASSUME Inv, Exact, Unread, i = Len(goal) + 1
  PROVE  Reducible
<1>1. /\ goal \in Seq(Int) /\ Len(goal) \in Nat
      /\ compute \in Seq(Int) /\ Len(compute) \in Nat /\ Depth = Len(compute)
  BY StackTypes
<1>2. PICK pos : Entries(pos)
  BY DEF Unread
<1>3. Laid(compute, pos, Len(goal) + 1) /\ pos[1] = 1 /\ pos[Len(compute) + 1] = Len(goal) + 1
  BY <1>2 DEF Entries, Laid
<1>4. Len(goal) > 0
  BY <1>1, TermsOf DEF Exact
<1>5. Len(compute) # 0
  BY <1>1, <1>3, <1>4
<1>6. 1 \in 1 .. Len(compute) /\ FlaggedOper(compute[1])
  BY <1>1, <1>5 DEF Unread
<1>7. PICK n : Triple(compute, n)
  BY <1>1, <1>3, <1>6, SomeTriple DEF Exact
<1>8. n = Depth - 2 /\ Depth > 2
  <2>1. n \in 1 .. Depth - 2
    BY <1>1, <1>7 DEF Triple
  <2>2. n \notin 1 .. Depth - 3
    BY <1>7 DEF Unread
  <2> QED
    BY <1>1, <2>1, <2>2
<1>9. /\ FlaggedOper(compute[Depth - 2]) /\ ~FlaggedOper(compute[Depth - 1])
      /\ ~FlaggedOper(compute[Depth])
  <2>1. n + 1 = Depth - 1 /\ n + 2 = Depth
    BY <1>1, <1>8
  <2> QED
    BY ONLY <1>7, <1>8, <2>1 DEF Triple
<1>10. compute[Depth - 2] \in Int /\ compute[Depth - 1] \in Int /\ compute[Depth] \in Int
  BY <1>1, <1>8
<1> QED
  BY <1>8, <1>9, <1>10, IntFlags DEF Reducible, Operator, Left, Right

(* A trap on the way means that the goal has no value.                     *)
LEMMA UnreadTrap ==
  ASSUME Inv, Exact, Unread, Reducible, ~Computable
  PROVE  ~Meaning[1].safe
<1>1. goal \in Seq(Int) /\ compute \in Seq(Int)
  BY StackTypes
<1>2. PICK pos : Entries(pos)
  BY DEF Unread
<1>3. pos[Depth - 2] \in 1 .. Len(goal) /\ (Meaning[pos[Depth - 2]].safe => Computable)
  BY <1>1, <1>2, Computed
<1> QED
  BY <1>1, <1>3, TermsOf DEF Exact

(* Nothing is read at first.                                               *)
LEMMA StackInvInit == Init => StackInv
<1> SUFFICES ASSUME Init PROVE StackInv
  OBVIOUS
<1>1. Inv
  BY InvInit
<1>2. Exact => Unread
  <2> SUFFICES ASSUME Exact PROVE Unread
    OBVIOUS
  <2> DEFINE pos == [k \in 1 .. 1 |-> 1]
  <2>1. compute = <<>> /\ i = 1 /\ has_input /\ status = "eval"
    BY DEF Init
  <2>2. Len(compute) = 0 /\ Depth = 0
    BY <2>1 DEF Depth
  <2>3. pos \in [1 .. Len(compute) + 1 -> Places] /\ pos[1] = 1 /\ pos[Len(compute) + 1] = 1
    BY <2>2 DEF Places
  <2> HIDE DEF pos
  <2>4. Laid(compute, pos, i)
    BY <2>1, <2>2, <2>3 DEF Laid
  <2>5. Entries(pos)
    BY <2>2, <2>4 DEF Entries
  <2> QED
    BY <2>1, <2>2, <2>5 DEF Unread
<1> QED
  BY <1>1, <1>2 DEF StackInv

(* Every round of the loop keeps the layout.                               *)
LEMMA StackInvStep == StackInv /\ [Next]_vars => StackInv'
<1> SUFFICES ASSUME StackInv, [Next]_vars PROVE StackInv'
  OBVIOUS
<1>1. Inv /\ Inv'
  BY InvStep DEF StackInv
<1>2. /\ goal' = goal /\ attr_n' = attr_n /\ Meaning' = Meaning /\ (Exact' <=> Exact)
  BY EvalKept
<1>3. Len(goal) \in Nat /\ i \in 1 .. Len(goal) + 1
  BY <1>1, StackTypes
<1> SUFFICES ASSUME Exact PROVE (Unread \/ Decided)'
  BY <1>1, <1>2 DEF StackInv
<1>4. CASE Unread
  <2>1. CASE Reduce
    BY <1>1, <1>4, <2>1, UnreadReduce
  <2>2. CASE Trap
    <3>1. ~Meaning'[1].safe
      BY <1>1, <1>2, <1>4, <2>2, UnreadTrap DEF Trap
    <3>2. compute' = compute /\ i' = i /\ has_input' = has_input /\ status' = "trap"
      BY <2>2 DEF Trap
    <3>3. PICK pos : Entries(pos)
      BY <1>4 DEF Unread
    <3>4. Entries(pos)'
      BY <1>2, <3>2, <3>3, EntriesNext DEF Entries, Depth
    <3>5. \A m \in 1 .. Depth' - 3 : ~Triple(compute, m)'
      BY <1>4, <3>2 DEF Unread, Triple, FlaggedOper, Depth
    <3>6. Depth' > 0 => FlaggedOper(compute[1])'
      BY <1>4, <3>2 DEF Unread, FlaggedOper, Depth
    <3> QED
      BY <1>4, <3>1, <3>2, <3>4, <3>5, <3>6 DEF Unread
  <2>3. CASE PushTerm
    BY <1>1, <1>4, <2>3, UnreadPush
  <2>4. ~EndOfInput
    <3>1. EndOfInput => i = Len(goal) + 1 /\ ~Reducible
      BY <1>3 DEF EndOfInput
    <3> QED
      BY <1>1, <1>4, <3>1, UnreadEnd
  <2>5. ~Leave
    BY <1>4 DEF Leave, Unread
  <2>6. CASE UNCHANGED vars
    <3>1. compute' = compute /\ i' = i /\ has_input' = has_input /\ status' = status
      BY <2>6 DEF vars
    <3>2. PICK pos : Entries(pos)
      BY <1>4 DEF Unread
    <3>3. Entries(pos)'
      BY <1>2, <3>1, <3>2, EntriesNext DEF Entries, Depth
    <3>4. \A m \in 1 .. Depth' - 3 : ~Triple(compute, m)'
      BY <1>4, <3>1 DEF Unread, Triple, FlaggedOper, Depth
    <3>5. Depth' > 0 => FlaggedOper(compute[1])'
      BY <1>4, <3>1 DEF Unread, FlaggedOper, Depth
    <3> QED
      BY <1>2, <1>4, <3>1, <3>3, <3>4, <3>5 DEF Unread
  <2> QED
    BY <2>1, <2>2, <2>3, <2>4, <2>5, <2>6 DEF Next
<1>5. CASE Decided
  <2>1. i' = i /\ compute' = compute /\ status' # "trap"
    BY <1>3, <1>5 DEF Decided, Next, Reduce, Trap, PushTerm, EndOfInput, Leave, vars, Reducible
  <2> QED
    BY <1>2, <1>5, <2>1 DEF Decided, Depth
<1> QED
  BY <1>4, <1>5 DEF StackInv

(* A goal in polish notation, of any nesting, whose operands stay within   *)
(* 0 .. 2047 is decided as documented, for all counts: although results    *)
(* are kept on the stack as terms, none is mistaken for an operator, an    *)
(* attribute or a negative constant.                                       *)
THEOREM DecidedAsDocumented == Spec => []ValueAsDocumented
<1>1. StackInv => ValueAsDocumented
  BY DEF StackInv, ValueAsDocumented, Unread, Decided, Result
<1> QED
  BY <1>1, StackInvInit, StackInvStep, PTL DEF Spec

(* The outer loop has something to do: reduce, push a term, note the end   *)
(* of the input, or leave.                                                 *)
Advances ==
  \/ Reducible /\ Computable
  \/ ~Reducible /\ (i <= Len(goal) \/ has_input \/ Depth <= 2)

(* It always has, and never meets an undefined operation.                  *)
LEMMA GoesOn ==
  StackInv => (Exact /\ Meaning[1].safe => status # "trap" /\ (status = "eval" => Advances))
<1> SUFFICES ASSUME StackInv, Exact, Meaning[1].safe
             PROVE  status # "trap" /\ Advances
  OBVIOUS
<1>1. CASE Unread
  <2>1. ~Reducible => has_input
    BY <1>1 DEF Unread
  <2>2. Reducible => Computable
    BY <1>1, UnreadTrap DEF StackInv
  <2> QED
    BY <1>1, <2>1, <2>2 DEF Unread, Advances
<1>2. CASE Decided
  BY <1>2 DEF Decided, Advances, Reducible
<1> QED
  BY <1>1, <1>2 DEF StackInv

(* The evaluation of such a goal, if its attributes are counted and no     *)
(* division by zero is met, never does what is undefined, and the loop     *)
(* never goes round without doing anything: what EvaluableDecided rests    *)
(* on, for goals of any nesting.                                           *)
THEOREM EvaluableAdvances ==
  Spec => [](Exact /\ Meaning[1].safe => status # "trap" /\ (status = "eval" => Advances))
  BY GoesOn, StackInvInit, StackInvStep, PTL DEF Spec

-----------------------------------------------------------------------------
(* The goals of game_params: two shapes.                                   *)

AtLeast(a, k) == <<Code.GE, Attr(a), Value(k)>>
AtLeastPart(a, b, k) == <<Code.GE, Attr(a), Code.DIV, Attr(b), Value(k)>>

(* The goals of game_params, with any attributes and constants that fit a  *)
(* term.                                                                   *)
Indices == {a \in Nat : a < 4096}
Constants == {k \in Nat : k < 2048}
FlatGoal(g) == \E a \in Indices, k \in Constants : g = AtLeast(a, k)
PartGoal(g) == \E a, b \in Indices, k \in Constants : g = AtLeastPart(a, b, k)
GameGoals == \A g \in Goals : FlatGoal(g) \/ PartGoal(g)

(* Attribute counts of a venue of ACCEPTED_LIMIT people.                   *)
SmallCounts == \A c \in Counts : \A x \in DOMAIN c : c[x] \in Constants

(* The attributes of a goal are counted, and nothing is divided by zero.   *)
Answerable(g) ==
  \/ \E a \in Indices, k \in Constants :
       g = AtLeast(a, k) /\ \A c \in Counts : a \in DOMAIN c
  \/ \E a, b \in Indices, k \in Constants \ {0} :
       g = AtLeastPart(a, b, k) /\ \A c \in Counts : {a, b} \subseteq DOMAIN c

(* game_params: the four types of game, with up to four attributes.        *)
LEMMA BuiltInAnswerable ==
  ASSUME Goals \subseteq UNION {BuiltIn[t] : t \in 1 .. 4},
         \A c \in Counts : 0 .. 3 \subseteq DOMAIN c
  PROVE  GameGoals /\ \A g \in Goals : Answerable(g)
<1>1. {0, 1, 2, 3} \subseteq Indices /\ {2, 300, 600} \subseteq Constants \ {0}
  BY DEF Indices, Constants
<1>2. \A c \in Counts : {0, 1, 2, 3} \subseteq DOMAIN c
  OBVIOUS
<1> SUFFICES ASSUME NEW g \in Goals
             PROVE  (FlatGoal(g) \/ PartGoal(g)) /\ Answerable(g)
  BY DEF GameGoals
<1>3. PICK t \in 1 .. 4 : g \in BuiltIn[t]
  OBVIOUS
<1>4. \/ \E a \in {0, 1}, k \in {300, 600} : g = AtLeast(a, k)
      \/ g = AtLeastPart(1, 0, 2) \/ g = AtLeastPart(2, 3, 2)
  BY <1>3 DEF BuiltIn, AtLeast, AtLeastPart
<1>5. CASE \E a \in {0, 1}, k \in {300, 600} : g = AtLeast(a, k)
  BY <1>1, <1>2, <1>5 DEF FlatGoal, Answerable
<1>6. CASE g = AtLeastPart(1, 0, 2)
  BY <1>1, <1>2, <1>6 DEF PartGoal, Answerable
<1>7. CASE g = AtLeastPart(2, 3, 2)
  BY <1>1, <1>2, <1>7 DEF PartGoal, Answerable
<1> QED
  BY <1>4, <1>5, <1>6, <1>7

(* An operator and its two operands.                                       *)
LEMMA OperAt ==
  ASSUME goal \in Seq(Int), NEW n \in 1 .. Len(goal), IsOper(goal[n]),
         NEW l, l = n + 1, NEW r, r = After(l)
  PROVE  Means(n, l, r)
  BY OperMeaning

(* Comparison.                                                             *)
LEMMA Compared == \A x, y : ApplyOp(Code.GE, x, y) = Truth(x >= y)
<1>1. /\ Code.GE # Code.PLUS /\ Code.GE # Code.MINUS /\ Code.GE # Code.DIV
      /\ Code.GE # Code.MULT /\ Code.GE # Code.LT
  BY DEF Code
<1> QED
  BY ONLY <1>1, Zenon DEF ApplyOp

(* Division of a count.                                                    *)
LEMMA Divided == \A x \in Nat, y \in Nat \ {0} : ApplyOp(Code.DIV, x, y) = x \div y
<1>1. Code.PLUS = 8192 /\ Code.MINUS = 8193 /\ Code.DIV = 8194 /\ Code.MULT = 8195
      /\ Code.LT = 8196 /\ Code.GE = 8197
  BY DEF Code
<1> SUFFICES ASSUME NEW x \in Nat, NEW y \in Nat \ {0}
             PROVE  ApplyOp(Code.DIV, x, y) = x \div y
  OBVIOUS
<1>2. Magnitude(x) = x /\ Magnitude(y) = y /\ (x >= 0) = (y > 0)
  BY DEF Magnitude
<1> QED
  BY <1>1, <1>2 DEF ApplyOp

(* What a comparison with a constant means.                                *)
LEMMA FlatMeaning ==
  ASSUME goal \in Seq(Int), NEW a \in Indices, NEW k \in Constants, goal = AtLeast(a, k)
  PROVE  /\ Exact /\ Meaning[1].value = Truth(attr_n[a] >= k)
         /\ Meaning[1].safe <=> a \in DOMAIN attr_n
<1>1. a \in Nat /\ a < 4096 /\ k \in Nat /\ k < 2048
  BY DEF Indices, Constants
<1>2. /\ IsOper(Code.GE) /\ ~IsOper(Attr(a)) /\ IsAttr(Attr(a)) /\ Low12(Attr(a)) = a
      /\ ~IsOper(k) /\ ~IsAttr(k) /\ Low12(k) = k /\ Code.GE # Code.DIV
  BY <1>1, TermBits DEF Code
<1>3. Len(goal) = 3 /\ goal[1] = Code.GE /\ goal[2] = Attr(a) /\ goal[3] = k
  BY <1>2 DEF AtLeast, Value
<1>4. /\ After(2) = 3 /\ (Meaning[2].safe <=> a \in DOMAIN attr_n) /\ Meaning[2].value = attr_n[a]
      /\ Meaning[2].exact /\ Meaning[2].reads
  BY <1>2, <1>3, LeafMeaning DEF Decodable
<1>5. /\ After(3) = 4 /\ Meaning[3].safe /\ Meaning[3].value = k
      /\ Meaning[3].exact /\ Meaning[3].reads
  BY <1>1, <1>2, <1>3, LeafMeaning DEF Decodable
<1>6. /\ After(1) = 4 /\ Meaning[1].exact
      /\ Meaning[1].safe <=> a \in DOMAIN attr_n
      /\ Meaning[1].value = ApplyOp(Code.GE, attr_n[a], k)
  <2>1. 1 \in 1 .. Len(goal) /\ IsOper(goal[1]) /\ 2 = 1 + 1 /\ goal[1] # Code.DIV
    BY <1>2, <1>3
  <2> QED
    <3>1. Means(1, 2, 3)
      BY <1>4, <2>1, OperAt
    <3> QED
      BY ONLY <1>3, <1>4, <1>5, <2>1, <3>1 DEF Means
<1>7. Polish
  BY <1>2, <1>3, <1>6 DEF Polish, After
<1> QED
  BY ONLY <1>6, <1>7, Compared DEF Exact

(* And a comparison with a part of another count.                          *)
LEMMA PartMeaning ==
  ASSUME goal \in Seq(Int), NEW a \in Indices, NEW b \in Indices, NEW k \in Constants,
         goal = AtLeastPart(a, b, k)
  PROVE  /\ Polish
         /\ k # 0 /\ attr_n[b] \in Constants =>
              /\ Exact /\ Meaning[1].value = Truth(attr_n[a] >= attr_n[b] \div k)
              /\ {a, b} \subseteq DOMAIN attr_n => Meaning[1].safe
<1>1. /\ a \in Nat /\ a < 4096 /\ b \in Nat /\ b < 4096 /\ k \in Nat /\ k < 2048
  BY DEF Indices, Constants
<1>2. /\ IsOper(Code.GE) /\ IsOper(Code.DIV) /\ Code.GE # Code.DIV
      /\ ~IsOper(Attr(a)) /\ IsAttr(Attr(a)) /\ Low12(Attr(a)) = a
      /\ ~IsOper(Attr(b)) /\ IsAttr(Attr(b)) /\ Low12(Attr(b)) = b
      /\ ~IsOper(k) /\ ~IsAttr(k) /\ Low12(k) = k
  BY <1>1, TermBits DEF Code
<1>3. /\ Len(goal) = 5 /\ goal[1] = Code.GE /\ goal[2] = Attr(a)
      /\ goal[3] = Code.DIV /\ goal[4] = Attr(b) /\ goal[5] = k
  BY <1>2 DEF AtLeastPart, Value
<1>4. /\ After(2) = 3 /\ (Meaning[2].safe <=> a \in DOMAIN attr_n) /\ Meaning[2].value = attr_n[a]
      /\ Meaning[2].exact /\ Meaning[2].reads
  BY <1>2, <1>3, LeafMeaning DEF Decodable
<1>5. /\ After(4) = 5 /\ (Meaning[4].safe <=> b \in DOMAIN attr_n) /\ Meaning[4].value = attr_n[b]
      /\ Meaning[4].exact /\ Meaning[4].reads
  BY <1>2, <1>3, LeafMeaning DEF Decodable
<1>6. /\ After(5) = 6 /\ Meaning[5].safe /\ Meaning[5].value = k
      /\ Meaning[5].exact /\ Meaning[5].reads
  BY <1>1, <1>2, <1>3, LeafMeaning DEF Decodable
<1>a. /\ 1 \in 1 .. Len(goal) /\ IsOper(goal[1]) /\ 2 = 1 + 1 /\ goal[1] # Code.DIV
      /\ 3 \in 1 .. Len(goal) /\ IsOper(goal[3]) /\ 4 = 3 + 1
  BY <1>2, <1>3
<1>b. Means(3, 4, 5) /\ Means(1, 2, 3)
  BY <1>4, <1>5, <1>a, OperAt
<1>7. After(3) = 6 /\ After(1) = 6
  BY ONLY <1>6, <1>b DEF Means
<1>8. Polish
  BY <1>2, <1>3, <1>7 DEF Polish, After
<1>9. ASSUME k # 0, attr_n[b] \in Constants
      PROVE  /\ Exact /\ Meaning[1].value = Truth(attr_n[a] >= attr_n[b] \div k)
             /\ {a, b} \subseteq DOMAIN attr_n => Meaning[1].safe
  <2>1. attr_n[b] \in Nat /\ attr_n[b] < 2048 /\ k \in Nat \ {0}
    BY <1>1, <1>9 DEF Constants
  <2> DEFINE q == attr_n[b] \div k
  <2>2. q \in 0 .. 2047
    <3> DEFINE c == attr_n[b]
    <3> HIDE DEF c
    <3>1. c \in Nat /\ c < 2048 /\ k \in Nat \ {0}
      BY <2>1 DEF c
    <3>2. c \div k \in Nat /\ c \div k < 2048
      BY ONLY <3>1
    <3> QED
      BY ONLY <3>2 DEF c, q
  <2>3. ApplyOp(Code.DIV, attr_n[b], k) = q
    BY <2>1, Divided
  <2> HIDE DEF q
  <2>4. /\ Meaning[3].value = q /\ Meaning[3].exact /\ Meaning[3].reads
        /\ b \in DOMAIN attr_n => Meaning[3].safe
    <3>1. /\ Meaning[3].exact
          /\ Meaning[3].reads <=> Meaning[3].value \in 0 .. 2047
          /\ Meaning[3].safe <=> Meaning[4].safe
          /\ Meaning[3].value = ApplyOp(goal[3], Meaning[4].value, Meaning[5].value)
      BY ONLY <1>5, <1>6, <1>9, <1>b DEF Means
    <3>2. Meaning[3].value = q
      BY ONLY <1>3, <1>5, <1>6, <2>3, <3>1
    <3> QED
      BY ONLY <1>5, <2>2, <3>1, <3>2
  <2>5. /\ Meaning[1].exact
        /\ a \in DOMAIN attr_n /\ b \in DOMAIN attr_n => Meaning[1].safe
        /\ Meaning[1].value = ApplyOp(Code.GE, attr_n[a], q)
    BY ONLY <1>3, <1>4, <1>a, <1>b, <2>4 DEF Means
  <2>6. Meaning[1].value = Truth(attr_n[a] >= q)
    BY ONLY <2>5, Compared
  <2> QED
    BY ONLY <1>8, <2>5, <2>6 DEF Exact, q
<1> QED
  BY <1>8, <1>9

(* The verdict on a goal read back exactly.                                *)
LEMMA DoneExact == StackInv /\ status = "done" /\ Exact => Result = Meaning[1].value /\ Meaning[1].safe
  BY DEF StackInv, Unread, Decided, Result

(* The verdict on a goal of types 0 to 2 once the evaluation is over.       *)
FlatDecided(a, k) ==
  goal = AtLeast(a, k) /\ status = "done" => (Result # 0 <=> attr_n[a] >= k)

(* The goals of types 0 to 2, ">= attr k", are met exactly when the count  *)
(* is at least the constant, for every count and every constant to 2047.   *)
THEOREM AtLeastExact ==
  ASSUME NEW a \in Nat, a < 4096, NEW k \in Nat, k < 2048
  PROVE  Spec => []FlatDecided(a, k)
<1>1. StackInv => FlatDecided(a, k)
  <2> SUFFICES ASSUME StackInv, goal = AtLeast(a, k), status = "done"
               PROVE  Result # 0 <=> attr_n[a] >= k
    BY DEF FlatDecided
  <2>1. goal \in Seq(Int) /\ a \in Indices /\ k \in Constants
    BY StackTypes DEF StackInv, Indices, Constants
  <2>2. Exact /\ Meaning[1].value = Truth(attr_n[a] >= k)
    BY <2>1, FlatMeaning
  <2>3. Result = Truth(attr_n[a] >= k)
    BY <2>2, DoneExact
  <2> QED
    BY ONLY <2>3 DEF Truth
<1> QED
  BY <1>1, StackInvInit, StackInvStep, PTL DEF Spec

(* The verdict on a goal of type 3 once the evaluation is over.            *)
PartDecided(a, b, k) ==
  goal = AtLeastPart(a, b, k) /\ status = "done" /\ attr_n[b] \in Nat /\ attr_n[b] < 2048 =>
    (Result # 0 <=> attr_n[a] >= attr_n[b] \div k)

(* The goals of type 3, ">= attr / other k", are met exactly when the      *)
(* count is at least the whole part of the other count divided by k: the   *)
(* quotient survives on the stack for all counts to 2047, twice what the   *)
(* venue holds.                                                            *)
THEOREM AtLeastPartExact ==
  ASSUME NEW a \in Nat, a < 4096, NEW b \in Nat, b < 4096, NEW k \in Nat \ {0}, k < 2048
  PROVE  Spec => []PartDecided(a, b, k)
<1>1. StackInv => PartDecided(a, b, k)
  <2> SUFFICES ASSUME StackInv, goal = AtLeastPart(a, b, k), status = "done",
                      attr_n[b] \in Nat, attr_n[b] < 2048
               PROVE  Result # 0 <=> attr_n[a] >= attr_n[b] \div k
    BY DEF PartDecided
  <2>1. /\ goal \in Seq(Int) /\ a \in Indices /\ b \in Indices /\ k \in Constants
        /\ k # 0 /\ attr_n[b] \in Constants
    BY StackTypes DEF StackInv, Indices, Constants
  <2>2. Exact /\ Meaning[1].value = Truth(attr_n[a] >= attr_n[b] \div k)
    BY <2>1, PartMeaning
  <2>3. Result = Truth(attr_n[a] >= attr_n[b] \div k)
    BY <2>2, DoneExact
  <2> QED
    BY ONLY <2>3 DEF Truth
<1> QED
  BY <1>1, StackInvInit, StackInvStep, PTL DEF Spec

(* Such goals are decided.                                                *)
LEMMA AnswerableSafe ==
  ASSUME SmallCounts, Inv, Answerable(goal)
  PROVE  Exact /\ Meaning[1].safe
<1>1. goal \in Seq(Int) /\ attr_n \in Counts
  BY StackTypes DEF Inv, TypeOK
<1>2. ASSUME NEW a \in Indices, NEW k \in Constants, goal = AtLeast(a, k), a \in DOMAIN attr_n
      PROVE  Exact /\ Meaning[1].safe
  BY <1>1, <1>2, FlatMeaning
<1>3. ASSUME NEW a \in Indices, NEW b \in Indices, NEW k \in Constants \ {0},
             goal = AtLeastPart(a, b, k), {a, b} \subseteq DOMAIN attr_n
      PROVE  Exact /\ Meaning[1].safe
  <2>1. attr_n[b] \in Constants /\ k \in Constants /\ k # 0
    BY <1>1, <1>3 DEF SmallCounts
  <2> QED
    BY <1>1, <1>3, <2>1, PartMeaning
<1> QED
  BY <1>1, <1>2, <1>3 DEF Answerable

(* A goal of a game is decided without division by zero or a read outside  *)
(* attr_n, and the loop never goes round without doing anything: what      *)
(* EvaluableDecided rests on, for every goal of these shapes.              *)
THEOREM GameGoalsAdvance ==
  ASSUME SmallCounts, \A g \in Goals : Answerable(g)
  PROVE  Spec => [](status # "trap" /\ (status = "eval" => Advances))
<1>1. StackInv => Exact /\ Meaning[1].safe
  <2> SUFFICES ASSUME StackInv PROVE Exact /\ Meaning[1].safe
    OBVIOUS
  <2>1. Inv /\ Answerable(goal)
    BY DEF StackInv, Inv, TypeOK
  <2> QED
    BY <2>1, AnswerableSafe
<1>2. StackInv => (Exact /\ Meaning[1].safe => status # "trap" /\ (status = "eval" => Advances))
  BY GoesOn
<1>3. StackInv => status # "trap" /\ (status = "eval" => Advances)
  BY <1>1, <1>2
<1> QED
  BY <1>3, StackInvInit, StackInvStep, PTL DEF Spec

-----------------------------------------------------------------------------
(* The page.                                                               *)

Numbers == Int \cup {NaN}

(* A value as the page computes it: a count, a constant or NaN.            *)
Plain(x) == x = NaN \/ x \in Constants

(* None of the flag bits is set in such a value.                           *)
LEMMA PlainValues ==
  /\ \A x : Plain(x) => ~FlaggedOper(x) /\ ~FlaggedAttr(x) /\ GoalVal(x) = x /\ x \in Numbers
  /\ \A a \in Indices : FlaggedAttr(Attr(a)) /\ ~FlaggedOper(Attr(a)) /\ Attr(a) \in Int
  /\ FlaggedOper(Code.GE) /\ ~FlaggedAttr(Code.GE) /\ Code.GE \in Int
  /\ FlaggedOper(Code.DIV) /\ ~FlaggedAttr(Code.DIV) /\ Code.DIV \in Int
<1>1. Code.GE = 8197 /\ Code.DIV = 8194
  BY DEF Code
<1>2. ~IsAttr(8197) /\ ~IsAttr(8194)
  BY DEF IsAttr
<1>3. \A a \in Indices : Attr(a) \in Int
  BY DEF Attr, Indices
<1>4. \A x : Plain(x) => ~FlaggedOper(x) /\ ~FlaggedAttr(x)
  BY TermBits DEF Plain, Constants, FlaggedOper, FlaggedAttr
<1> QED
  BY <1>1, <1>2, <1>3, <1>4, TermBits, PageAssumption
  DEF Plain, Indices, Constants, FlaggedOper, FlaggedAttr, GoalVal, Numbers

(* What goal_val gives for an attribute is its count.                      *)
LEMMA CountPlain ==
  ASSUME SmallCounts, attr_n \in Counts, NEW a \in Indices
  PROVE  /\ Plain(GoalVal(Attr(a)))
         /\ a \in DOMAIN attr_n => GoalVal(Attr(a)) = attr_n[a] /\ attr_n[a] \in Nat
<1>1. FlaggedAttr(Attr(a)) /\ Low12(Attr(a)) = a
  BY PlainValues, TermBits DEF Indices
<1> QED
  BY <1>1 DEF GoalVal, SmallCounts, Plain, Constants

(* A line around a new term.                                               *)
LEMMA Around ==
  ASSUME NEW S, NEW b \in Seq(S), NEW e \in Seq(S), NEW v \in S, NEW r, r = b \o <<v>> \o e
  PROVE  /\ r \in Seq(S) /\ Len(r) = Len(b) + 1 + Len(e)
         /\ r[Len(b) + 1] = v /\ \A k \in 1 .. Len(b) : r[k] = b[k]
         /\ \A k \in 1 .. Len(e) : r[Len(b) + 1 + k] = e[k]
  OBVIOUS

(* What is left of a line when three terms are taken out.                  *)
LEMMA Cut ==
  ASSUME NEW S, NEW s \in Seq(S), NEW n \in 1 .. Len(s), n + 2 <= Len(s)
  PROVE  /\ SubSeq(s, 1, n - 1) \in Seq(S) /\ Len(SubSeq(s, 1, n - 1)) = n - 1
         /\ \A k \in 1 .. n - 1 : SubSeq(s, 1, n - 1)[k] = s[k]
         /\ SubSeq(s, n + 3, Len(s)) \in Seq(S) /\ Len(SubSeq(s, n + 3, Len(s))) = Len(s) - n - 2
         /\ \A k \in 1 .. Len(s) - n - 2 : SubSeq(s, n + 3, Len(s))[k] = s[n + 2 + k]
  OBVIOUS

(* goal.splice: three terms go and one takes their place.                  *)
Splice(s, n, v) == SubSeq(s, 1, n - 1) \o <<v>> \o SubSeq(s, n + 3, Len(s))

LEMMA SplicedLine ==
  ASSUME NEW S, NEW s \in Seq(S), NEW v \in S, NEW n \in 1 .. Len(s), n + 2 <= Len(s)
  PROVE  Splice(s, n, v) \in Seq(S) /\ Closes(s, n, v, Splice(s, n, v))
<1> DEFINE r == Splice(s, n, v)
<1> DEFINE b == SubSeq(s, 1, n - 1)
           e == SubSeq(s, n + 3, Len(s))
<1>1. /\ b \in Seq(S) /\ Len(b) = n - 1 /\ \A k \in 1 .. n - 1 : b[k] = s[k]
      /\ e \in Seq(S) /\ Len(e) = Len(s) - n - 2
      /\ \A k \in 1 .. Len(s) - n - 2 : e[k] = s[n + 2 + k]
  BY Cut
<1> HIDE DEF b, e
<1>2. b \in Seq(S) /\ e \in Seq(S) /\ r = b \o <<v>> \o e
  BY <1>1 DEF b, e, Splice
<1> HIDE DEF r
<1>3. /\ r \in Seq(S) /\ Len(r) = Len(b) + 1 + Len(e)
      /\ r[Len(b) + 1] = v /\ \A k \in 1 .. Len(b) : r[k] = b[k]
      /\ \A k \in 1 .. Len(e) : r[Len(b) + 1 + k] = e[k]
  BY ONLY <1>2, Around, v \in S
<1>4. Len(s) \in Nat /\ n \in Nat
  OBVIOUS
<1>5. Len(b) = n - 1 /\ Len(b) + 1 = n /\ Len(b) + 1 + Len(e) = Len(s) - 2
  BY <1>1, <1>4
<1>6. ASSUME NEW k \in n + 1 .. Len(r) PROVE r[k] = s[k + 2]
  <2> DEFINE j == k - n
  <2>1. /\ j \in 1 .. Len(e) /\ j \in 1 .. Len(s) - n - 2
        /\ Len(b) + 1 + j = k /\ n + 2 + j = k + 2
    <3>1. Len(e) = Len(s) - n - 2 /\ Len(r) = Len(s) - 2 /\ Len(b) + 1 = n
      BY <1>1, <1>3, <1>5
    <3> QED
      BY ONLY <1>4, <3>1, k \in n + 1 .. Len(r)
  <2> HIDE DEF j
  <2>2. r[Len(b) + 1 + j] = e[j] /\ e[j] = s[n + 2 + j]
    BY ONLY <1>1, <1>3, <2>1
  <2> QED
    BY ONLY <2>1, <2>2
<1> QED
  BY ONLY <1>1, <1>3, <1>5, <1>6 DEF Closes, r

(* Only the page rewrites the line, once the server is done.               *)
LEMMA Kept ==
  ASSUME [PageNext]_pageVars
  PROVE  /\ [Next]_vars /\ goal' = goal /\ attr_n' = attr_n
         /\ status = "done" => UNCHANGED vars
         /\ Substitute \/ ApplyFirst \/ Show \/ UNCHANGED <<line, shown>>
  BY DEF PageNext, Server, Substitute, ApplyFirst, Show, pageVars, Next, Reduce, Trap,
         PushTerm, EndOfInput, Leave, vars

(* The term that is rewritten, and what becomes of the line.               *)
LEMMA SubstituteAt ==
  Substitute => \E n \in DOMAIN line : FlaggedAttr(line[n]) /\ line' = [line EXCEPT ![n] = GoalVal(@)]
  BY DEF Substitute

(* The operator that is applied.                                           *)
LEMMA ApplyFirstAt ==
  ApplyFirst => \E n \in DOMAIN line :
    /\ TripleAt(n)
    /\ line' = SubSeq(line, 1, n - 1) \o <<Rewritten(n)>> \o SubSeq(line, n + 3, Len(line))
  BY DEF ApplyFirst, FirstTriple

(* apply_op yields a number or NaN, whatever is left of the operator.      *)
LEMMA PageApplyTyped ==
  ASSUME NEW op, NEW x \in Numbers, NEW y \in Numbers
  PROVE  PageApply(op, x, y) \in Numbers
<1>1. CASE NaN \in {x, y}
  BY <1>1 DEF PageApply, Numbers
<1>2. CASE NaN \notin {x, y}
  <2>1. x \in Int /\ y \in Int
    BY <1>2 DEF Numbers
  <2>2. /\ x + y \in Int /\ x - y \in Int /\ x * y \in Int
        /\ Truth(x < y) \in Int /\ Truth(x >= y) \in Int
    BY <2>1 DEF Truth
  <2>3. Quotient(x, y) \in Numbers
    BY DEF Quotient, Numbers
  <2>4. Int \subseteq Numbers /\ -1 \in Numbers
    BY DEF Numbers
  <2> QED
    BY <1>2, <2>2, <2>3, <2>4 DEF PageApply
<1> QED
  BY <1>1, <1>2

(* Every rewriting leaves a line of numbers.                               *)
LEMMA LineKept ==
  ASSUME Inv, line \in Seq(Numbers), [PageNext]_pageVars
  PROVE  line' \in Seq(Numbers)
<1>0. attr_n \in [DOMAIN attr_n -> Int]
  BY GoalAssumption DEF Inv, TypeOK
<1>1. ASSUME NEW x \in Numbers
      PROVE  GoalVal(x) \in Numbers
  BY <1>0 DEF GoalVal, Numbers
<1>2. CASE Substitute
  <2>1. PICK n \in DOMAIN line : line' = [line EXCEPT ![n] = GoalVal(@)]
    BY <1>2, SubstituteAt, Zenon
  <2>2. line[n] \in Numbers
    OBVIOUS
  <2>3. GoalVal(line[n]) \in Numbers
    BY <1>1, <2>2
  <2> QED
    BY <2>1, <2>3
<1>3. CASE ApplyFirst
  <2>1. PICK n \in DOMAIN line :
          /\ TripleAt(n)
          /\ line' = SubSeq(line, 1, n - 1) \o <<Rewritten(n)>> \o SubSeq(line, n + 3, Len(line))
    BY <1>3, ApplyFirstAt, Zenon
  <2>2. n \in 1 .. Len(line) /\ n + 2 <= Len(line)
    BY <2>1 DEF TripleAt
  <2>3. Sliced(n) \in Seq(Numbers)
    BY <2>2 DEF Sliced
  <2>4. \A m \in 1 .. 3 : GoalVal(Term(Sliced(n), m)) \in Numbers
    <3>1. \A m \in 1 .. 3 : Term(Sliced(n), m) \in Numbers
      BY <2>3 DEF Term, Numbers
    <3> QED
      BY <1>1, <3>1
  <2>5. Rewritten(n) \in Numbers
    BY <2>4, PageApplyTyped DEF Rewritten
  <2> QED
    BY <2>1, <2>2, <2>5, SplicedLine DEF Splice
<1> QED
  BY <1>2, <1>3, Kept DEF Show

-----------------------------------------------------------------------------
(* Comparisons of any nesting, on the page.                                *)

Arithmetic == {Code.PLUS, Code.MINUS, Code.DIV, Code.MULT}

(* A comparison of arithmetic expressions over attributes and constants.   *)
Comparison(g) ==
  /\ g[1] \in {Code.LT, Code.GE}
  /\ \A n \in 2 .. Len(g) : g[n] \in Arithmetic \cup Constants \cup {Attr(a) : a \in Indices}

(* What the page holds where an expression was: itself, its value if it is *)
(* a leaf, and no number if it is anything else.                           *)
Stands(x, p) == IF IsOper(goal[p]) THEN x = NaN ELSE x \in {goal[p], GoalVal(goal[p])}

Lined(pos) ==
  /\ Laid(line, pos, Len(goal) + 1) /\ line[1] = goal[1]
  /\ \A k \in 2 .. Len(line) : ~FlaggedOper(line[k]) => Stands(line[k], pos[k])

Open == shown = "none" /\ \E pos : Lined(pos)

Closed ==
  /\ Len(line) = 1 /\ line[1] \in {0, 1} /\ status = "done"
  /\ Nested => line[1] = 0
  /\ ~Nested => Exact /\ (Meaning[1].safe => line[1] = Meaning[1].value)
  /\ shown \in {"none", IF line[1] = 0 THEN "false" ELSE "true"}

(* The terms of a comparison.                                              *)
LEMMA Terms ==
  ASSUME goal \in Seq(Int), Polish, Comparison(goal)
  PROVE  /\ goal[1] \in {Code.LT, Code.GE} /\ FlaggedOper(goal[1]) /\ ~FlaggedAttr(goal[1])
         /\ \A n \in 2 .. Len(goal) :
              /\ IsOper(goal[n]) => goal[n] \in Arithmetic /\ ~FlaggedAttr(goal[n])
              /\ ~IsOper(goal[n]) => goal[n] \in Constants \cup {Attr(a) : a \in Indices}
<1>1. Code.PLUS = 8192 /\ Code.MINUS = 8193 /\ Code.DIV = 8194 /\ Code.MULT = 8195
      /\ Code.LT = 8196 /\ Code.GE = 8197
  BY DEF Code
<1>2. \A c \in 8192 .. 8197 : IsOper(c) /\ ~IsAttr(c)
  BY DEF IsOper, IsAttr
<1>3. ASSUME NEW c \in Arithmetic \cup {Code.LT, Code.GE}
      PROVE  FlaggedOper(c) /\ IsOper(c) /\ ~FlaggedAttr(c)
  <2>1. c \in 8192 .. 8197
    BY <1>1 DEF Arithmetic
  <2>2. c # NaN
    BY <2>1, PageAssumption
  <2> QED
    BY <1>2, <2>1, <2>2 DEF FlaggedOper, FlaggedAttr
<1>4. \A c \in Constants \cup {Attr(a) : a \in Indices} : ~IsOper(c)
  BY TermBits DEF Constants, Indices
<1> QED
  BY <1>3, <1>4 DEF Comparison

(* A leaf's value has no flags, and stands for itself.                     *)
LEMMA LeafPlain ==
  ASSUME SmallCounts, attr_n \in Counts, NEW x \in Constants \cup {Attr(a) : a \in Indices}
  PROVE  /\ Plain(GoalVal(x)) /\ ~FlaggedOper(x)
         /\ ~FlaggedAttr(x) => GoalVal(x) = x
<1>1. CASE x \in Constants
  BY <1>1, PlainValues DEF Plain
<1>2. CASE \E a \in Indices : x = Attr(a)
  BY <1>2, PlainValues, CountPlain
<1> QED
  BY <1>1, <1>2

(* What stands for an expression has none of the flag bits, once looked up. *)
LEMMA StandsFor ==
  ASSUME SmallCounts, attr_n \in Counts, goal \in Seq(Int), Polish, Comparison(goal),
         NEW p \in 2 .. Len(goal), NEW x, Stands(x, p)
  PROVE  /\ ~FlaggedOper(x)
         /\ Stands(GoalVal(x), p)
         /\ ~FlaggedAttr(x) => /\ Plain(x) /\ GoalVal(x) = x
                               /\ IF IsOper(goal[p]) THEN x = NaN ELSE x = GoalVal(goal[p])
<1>1. CASE IsOper(goal[p])
  <2>1. x = NaN
    BY <1>1 DEF Stands
  <2>2. Plain(NaN)
    BY DEF Plain
  <2> QED
    BY <1>1, <2>1, <2>2, PlainValues DEF Stands
<1>2. CASE ~IsOper(goal[p])
  <2>1. goal[p] \in Constants \cup {Attr(a) : a \in Indices}
    BY <1>2, Terms
  <2>2. /\ Plain(GoalVal(goal[p])) /\ ~FlaggedOper(goal[p])
        /\ ~FlaggedAttr(goal[p]) => GoalVal(goal[p]) = goal[p]
    BY <2>1, LeafPlain
  <2>3. /\ ~FlaggedOper(GoalVal(goal[p])) /\ ~FlaggedAttr(GoalVal(goal[p]))
        /\ GoalVal(GoalVal(goal[p])) = GoalVal(goal[p])
    BY <2>2, PlainValues
  <2>4. x = goal[p] \/ x = GoalVal(goal[p])
    BY <1>2 DEF Stands
  <2> QED
    BY <1>2, <2>2, <2>3, <2>4 DEF Stands
<1> QED
  BY <1>1, <1>2

(* A leaf is read back as it is, and the page finds the same value.        *)
LEMMA LeafValue ==
  ASSUME attr_n \in Counts, goal \in Seq(Int), NEW n \in 1 .. Len(goal),
         goal[n] \in Constants \cup {Attr(a) : a \in Indices}
  PROVE  /\ Meaning[n].exact /\ Meaning[n].reads /\ After(n) = n + 1
         /\ Meaning[n].safe => GoalVal(goal[n]) = Meaning[n].value /\ Meaning[n].value \in Int
<1>0. attr_n \in [DOMAIN attr_n -> Int]
  BY GoalAssumption
<1>1. CASE goal[n] \in Constants
  <2>1. ~IsOper(goal[n]) /\ ~IsAttr(goal[n]) /\ Low12(goal[n]) = goal[n] /\ Low12(goal[n]) < 2048
        /\ goal[n] \in Int
    BY <1>1, TermBits DEF Constants
  <2>2. /\ Meaning[n].exact /\ Meaning[n].reads /\ After(n) = n + 1
        /\ Meaning[n].value = goal[n]
    BY <2>1, LeafMeaning
  <2>3. GoalVal(goal[n]) = goal[n]
    BY <2>1 DEF GoalVal, FlaggedAttr
  <2> QED
    BY <2>1, <2>2, <2>3
<1>2. CASE \E a \in Indices : goal[n] = Attr(a)
  <2>1. PICK a \in Indices : goal[n] = Attr(a)
    BY <1>2
  <2>2. ~IsOper(Attr(a)) /\ IsAttr(Attr(a)) /\ Low12(Attr(a)) = a /\ FlaggedAttr(Attr(a))
    BY TermBits, PlainValues DEF Indices
  <2>3. /\ Meaning[n].exact /\ Meaning[n].reads /\ After(n) = n + 1
        /\ Meaning[n].value = attr_n[a]
        /\ Meaning[n].safe => a \in DOMAIN attr_n
    BY <2>1, <2>2, LeafMeaning DEF Decodable
  <2>4. a \in DOMAIN attr_n => GoalVal(goal[n]) = attr_n[a] /\ attr_n[a] \in Int
    BY <1>0, <2>1, <2>2 DEF GoalVal
  <2> QED
    BY <2>3, <2>4
<1> QED
  BY <1>1, <1>2

(* The layout of the line after a step.                                    *)
LEMMA LinedNext ==
  ASSUME goal' = goal, attr_n' = attr_n, NEW q, Laid(line', q, Len(goal) + 1), line'[1] = goal[1],
         \A k \in 2 .. Len(line') : ~FlaggedOper(line'[k]) => Stands(line'[k], q[k])
  PROVE  Lined(q)'
<1>1. Meaning' = Meaning
  BY MeaningKept
<1>2. Laid(line, q, Len(goal) + 1)'
  BY <1>1 DEF Laid, After
<1>3. \A k \in 2 .. Len(line') : ~FlaggedOper(line'[k]) => Stands(line[k], q[k])'
  BY DEF Stands, GoalVal
<1> QED
  BY <1>2, <1>3 DEF Lined, FlaggedOper

(* An open line has an operator left, and something before it in the goal. *)
LEMMA OpenLine ==
  ASSUME goal \in Seq(Int), Polish, Comparison(goal), line \in Seq(Numbers), NEW pos, Lined(pos)
  PROVE  /\ 1 \in DOMAIN line /\ Len(line) > 2 /\ \E n : Triple(line, n)
         /\ \A k \in 2 .. Len(line) : pos[k] \in 2 .. Len(goal)
         /\ pos \in [1 .. Len(line) + 1 -> Places] /\ pos[1] = 1
         /\ pos[Len(line) + 1] = Len(goal) + 1
<1>1. /\ Len(line) \in Nat /\ Laid(line, pos, Len(goal) + 1) /\ pos[1] = 1
      /\ pos[Len(line) + 1] = Len(goal) + 1 /\ pos \in [1 .. Len(line) + 1 -> Places]
  BY DEF Lined, Laid
<1>2. Len(goal) \in Nat /\ Len(goal) > 0
  BY TermsOf
<1>3. Len(line) # 0
  BY <1>1, <1>2
<1>4. 1 \in 1 .. Len(line) /\ FlaggedOper(line[1])
  BY <1>1, <1>3, Terms DEF Lined
<1>5. PICK n : Triple(line, n)
  BY <1>1, <1>4, SomeTriple
<1>6. Len(line) > 2
  BY <1>1, <1>5 DEF Triple
<1>7. ASSUME NEW k \in 2 .. Len(line) PROVE pos[k] \in 2 .. Len(goal)
  <2>1. k \in 1 .. Len(line) /\ k \in 2 .. Len(line) + 1
    OBVIOUS
  <2>2. pos[k] \in 1 .. Len(goal)
    BY <1>1, <2>1 DEF Laid
  <2>3. pos[k] # 1
    BY <1>1, <2>1, RootFirst
  <2> QED
    BY ONLY <1>2, <2>2, <2>3
<1> QED
  BY <1>1, <1>4, <1>5, <1>6, <1>7

(* Looking up an attribute keeps the layout.                               *)
LEMMA OpenSubstitute ==
  ASSUME SmallCounts, Inv, Polish, Comparison(goal), line \in Seq(Numbers), Open, Substitute
  PROVE  Open'
<1>0. goal \in Seq(Int) /\ Len(goal) \in Nat /\ attr_n \in Counts /\ Len(line) \in Nat
  BY StackTypes DEF Inv, TypeOK
<1>1. PICK pos : Lined(pos)
  BY DEF Open
<1>2. PICK n \in DOMAIN line : FlaggedAttr(line[n]) /\ line' = [line EXCEPT ![n] = GoalVal(@)]
  BY SubstituteAt, Zenon
<1>3. goal' = goal /\ attr_n' = attr_n /\ shown' = shown
  BY DEF Substitute, vars
<1>4. /\ 1 \in DOMAIN line /\ Len(line) > 2
      /\ \A k \in 2 .. Len(line) : pos[k] \in 2 .. Len(goal)
  BY <1>0, <1>1, OpenLine
<1>5. Laid(line, pos, Len(goal) + 1) /\ line[1] = goal[1]
  BY <1>1 DEF Lined
<1>6. n \in 1 .. Len(line) /\ n # 1 /\ n \in 2 .. Len(line)
  <2>1. ~FlaggedAttr(line[1])
    BY <1>0, <1>5, Terms
  <2> QED
    BY <1>2, <2>1
<1>7. pos[n] \in 2 .. Len(goal)
  BY <1>4, <1>6
<1>8. ~FlaggedOper(line[n])
  <2>1. FlaggedOper(line[n]) => IsOper(goal[pos[n]]) /\ line[n] = goal[pos[n]]
    BY <1>5, <1>6 DEF Laid
  <2> QED
    BY <1>0, <1>2, <1>7, <2>1, Terms
<1>9. Stands(line[n], pos[n])
  BY <1>1, <1>6, <1>8 DEF Lined
<1> DEFINE v == GoalVal(line[n])
<1>10. Stands(v, pos[n])
  BY <1>0, <1>7, <1>9, StandsFor
<1>11. ~FlaggedOper(v)
  BY <1>0, <1>7, <1>10, StandsFor
<1> HIDE DEF v
<1> DEFINE r == line'
<1>12. Len(r) = Len(line) /\ r[n] = v /\ \A k \in 1 .. Len(line) : k # n => r[k] = line[k]
  BY <1>0, <1>2 DEF v
<1> HIDE DEF r
<1>13. Laid(r, pos, Len(goal) + 1)
  <2>1. ASSUME NEW k \in 1 .. Len(r)
        PROVE  /\ pos[k] \in 1 .. Len(goal)
               /\ FlaggedOper(r[k]) => IsOper(goal[pos[k]]) /\ r[k] = goal[pos[k]] /\ pos[k + 1] = pos[k] + 1
               /\ ~FlaggedOper(r[k]) => pos[k + 1] = After(pos[k])
    <3>1. CASE k = n
      BY <1>5, <1>6, <1>8, <1>11, <1>12, <3>1 DEF Laid
    <3>2. CASE k # n
      <4>1. r[k] = line[k] /\ k \in 1 .. Len(line)
        BY <1>12, <3>2
      <4> QED
        BY <1>5, <4>1 DEF Laid
    <3> QED
      BY <3>1, <3>2
  <2> QED
    BY <1>5, <1>12, <2>1 DEF Laid
<1>14. r[1] = goal[1]
  BY <1>4, <1>5, <1>6, <1>12
<1>15. ASSUME NEW k \in 2 .. Len(r), ~FlaggedOper(r[k])
       PROVE  Stands(r[k], pos[k])
  <2>1. CASE k = n
    BY <1>10, <1>12, <2>1
  <2>2. CASE k # n
    <3>1. r[k] = line[k] /\ k \in 2 .. Len(line)
      BY <1>12, <2>2
    <3> QED
      BY <1>1, <1>15, <3>1 DEF Lined
  <2> QED
    BY <2>1, <2>2
<1>16. Lined(pos)'
  BY <1>3, <1>13, <1>14, <1>15, LinedNext DEF r
<1> QED
  BY <1>3, <1>16 DEF Open

(* Comparisons of the page: 0 where there is no number, else as in goal_param. *)
LEMMA PageCompares ==
  ASSUME NEW op \in {Code.LT, Code.GE}, NEW x, NEW y
  PROVE  /\ x = NaN \/ y = NaN => PageApply(op, x, y) = 0
         /\ x # NaN /\ y # NaN => PageApply(op, x, y) = ApplyOp(op, x, y)
         /\ PageApply(op, x, y) \in {0, 1} /\ op # Code.DIV
<1>1. /\ Code.LT # Code.PLUS /\ Code.LT # Code.MINUS /\ Code.LT # Code.DIV /\ Code.LT # Code.MULT
      /\ Code.GE # Code.PLUS /\ Code.GE # Code.MINUS /\ Code.GE # Code.DIV /\ Code.GE # Code.MULT
      /\ Code.GE # Code.LT
  BY DEF Code
<1>2. \A p : Truth(p) \in {0, 1}
  BY DEF Truth
<1>3. /\ ApplyOp(Code.LT, x, y) = Truth(x < y)
      /\ ApplyOp(Code.GE, x, y) = Truth(x >= y)
  BY ONLY <1>1, Zenon DEF ApplyOp
<1>4. CASE x = NaN \/ y = NaN
  <2>1. PageApply(op, x, y) = 0
    BY ONLY <1>4, op \in {Code.LT, Code.GE} DEF PageApply
  <2> QED
    BY <1>1, <1>4, <2>1
<1>5. CASE x # NaN /\ y # NaN
  <2>1. NaN \notin {x, y}
    BY <1>5
  <2>2. /\ PageApply(Code.LT, x, y) = Truth(x < y)
        /\ PageApply(Code.GE, x, y) = Truth(x >= y)
    BY ONLY <1>1, <2>1, Zenon DEF PageApply
  <2>3. op = Code.LT \/ op = Code.GE
    OBVIOUS
  <2> QED
    BY ONLY <1>1, <1>2, <1>3, <1>5, <2>2, <2>3
<1> QED
  BY <1>4, <1>5

(* Within a line, goal.slice leaves at most two of the three terms.        *)
LEMMA InnerNaN ==
  ASSUME line \in Seq(Numbers), NEW n \in 2 .. Len(line), n + 2 <= Len(line), line[n] \in Arithmetic
  PROVE  Rewritten(n) = NaN
<1>1. /\ Code.PLUS \in Arithmetic
      /\ \A c \in Arithmetic : c \notin {Code.LT, Code.GE}
  BY DEF Arithmetic, Code
<1>2. Term(Sliced(n), 3) = NaN
  <2>1. Len(Sliced(n)) \in Nat /\ Len(Sliced(n)) < 3
    BY DEF Sliced
  <2> QED
    BY <2>1 DEF Term
<1>3. GoalVal(NaN) = NaN
  BY PlainValues DEF Plain
<1> DEFINE op == IF Term(Sliced(n), 1) = NaN THEN Code.PLUS ELSE Sliced(n)[1]
<1>4. op \in Arithmetic
  <2>1. CASE n \in {2, 3}
    <3>1. Len(Sliced(n)) > 0 /\ Sliced(n)[1] = line[n]
      BY <2>1 DEF Sliced
    <3> QED
      BY <1>1, <3>1
  <2>2. CASE n \notin {2, 3}
    <3>1. Len(Sliced(n)) = 0
      BY <2>2 DEF Sliced
    <3>2. Term(Sliced(n), 1) = NaN
      BY <3>1 DEF Term
    <3> QED
      BY <1>1, <3>2
  <2> QED
    BY <2>1, <2>2
<1>5. Rewritten(n) = PageApply(op, GoalVal(Term(Sliced(n), 2)), NaN)
  BY <1>2, <1>3 DEF Rewritten
<1>6. op \notin {Code.LT, Code.GE} /\ op \in Arithmetic
  BY <1>1, <1>4
<1> HIDE DEF op
<1> QED
  BY ONLY <1>5, <1>6 DEF PageApply, Arithmetic

(* The outermost operator is applied to both its operands.                 *)
LEMMA OuterValue ==
  ASSUME line \in Seq(Numbers), Len(line) = 3, line[1] \in {Code.LT, Code.GE},
         GoalVal(line[2]) = line[2], GoalVal(line[3]) = line[3]
  PROVE  Rewritten(1) = PageApply(line[1], line[2], line[3])
<1>1. line[1] # NaN
  <2>1. {Code.LT, Code.GE} \subseteq Int
    BY DEF Code
  <2> QED
    BY <2>1, PageAssumption
<1>2. Len(Sliced(1)) = 3 /\ Sliced(1)[1] = line[1] /\ Sliced(1)[2] = line[2] /\ Sliced(1)[3] = line[3]
  BY DEF Sliced
<1>3. Term(Sliced(1), 1) = line[1] /\ Term(Sliced(1), 2) = line[2] /\ Term(Sliced(1), 3) = line[3]
  BY <1>2 DEF Term
<1> QED
  BY <1>1, <1>2, <1>3 DEF Rewritten

(* A leaf is one term.                                                     *)
LEMMA LeafEnds ==
  ASSUME goal \in Seq(Int), NEW n \in 1 .. Len(goal), ~IsOper(goal[n])
  PROVE  After(n) = n + 1
  BY LeafMeaning

(* The last operator applied: what the page makes of the goal.             *)
LEMMA OpenLast ==
  ASSUME SmallCounts, Inv, Polish, Comparison(goal), line \in Seq(Numbers), NEW pos, Lined(pos),
         \A n \in DOMAIN line : ~FlaggedAttr(line[n]), Triple(line, 1)
  PROVE  /\ Len(line) = 3 /\ Rewritten(1) \in {0, 1}
         /\ Nested => Rewritten(1) = 0
         /\ ~Nested => Exact /\ (Meaning[1].safe => Rewritten(1) = Meaning[1].value)
<1>0. goal \in Seq(Int) /\ Len(goal) \in Nat /\ attr_n \in Counts /\ Len(line) \in Nat
  BY StackTypes DEF Inv, TypeOK
<1>1. Laid(line, pos, Len(goal) + 1) /\ line[1] = goal[1]
  BY DEF Lined
<1> DEFINE e == After(2)
<1>2. 1 \in 1 .. Len(goal) /\ After(1) = Len(goal) + 1 /\ IsOper(goal[1]) /\ goal[1] \in {Code.LT, Code.GE}
  BY <1>0, TermsOf, Terms DEF Polish, After
<1>3. pos[1] = 1 /\ pos[2] = 2 /\ pos[3] = e /\ pos[4] = Len(goal) + 1
  <2>1. pos[1] = 1
    BY <1>1 DEF Laid
  <2>2. pos[1 + 1] = pos[1] + 1 /\ pos[1 + 2] = After(pos[1] + 1) /\ pos[1 + 3] = After(pos[1])
    BY <1>0, <1>1, TripleLaid
  <2> QED
    BY <1>2, <2>1, <2>2
<1>4. Len(line) = 3
  <2>1. Len(line) >= 3
    BY <1>0 DEF Triple
  <2>2. 4 \notin 1 .. Len(line)
    <3>1. 4 \in 1 .. Len(line) => pos[4] \in 1 .. Len(goal)
      BY <1>1 DEF Laid
    <3> QED
      BY ONLY <1>0, <1>3, <3>1
  <2> DEFINE L == Len(line)
  <2>3. L \in Nat /\ L >= 3 /\ 4 \notin 1 .. L
    BY <1>0, <2>1, <2>2
  <2> HIDE DEF L
  <2>4. L = 3
    BY ONLY <2>3
  <2> QED
    BY <2>4 DEF L
<1>5. /\ 2 \in 2 .. Len(goal) /\ e \in 2 .. Len(goal) /\ 2 \in 1 .. Len(goal) /\ e \in 1 .. Len(goal)
      /\ After(e) = Len(goal) + 1
  <2>1. 2 \in 2 .. Len(line) /\ 3 \in 2 .. Len(line)
    BY <1>4
  <2>2. pos[2] \in 2 .. Len(goal) /\ pos[3] \in 2 .. Len(goal)
    BY <1>0, <2>1, OpenLine
  <2>3. After(1) = After(After(1 + 1))
    BY <1>0, <1>2, OperMeaning DEF Means
  <2>4. 2 \in 2 .. Len(goal) /\ e \in 2 .. Len(goal) /\ After(e) = Len(goal) + 1
    BY ONLY <1>2, <1>3, <2>2, <2>3
  <2> HIDE DEF e
  <2> QED
    BY ONLY <1>0, <2>4
<1>6. Stands(line[2], 2) /\ Stands(line[3], e)
  <2>1. ~FlaggedOper(line[2]) /\ ~FlaggedOper(line[3])
    BY DEF Triple
  <2>2. Stands(line[2], pos[2]) /\ Stands(line[3], pos[3])
    BY <1>4, <2>1 DEF Lined
  <2> QED
    BY ONLY <1>3, <2>2
<1> HIDE DEF e
<1>7. /\ GoalVal(line[2]) = line[2] /\ GoalVal(line[3]) = line[3]
      /\ IF IsOper(goal[2]) THEN line[2] = NaN ELSE line[2] = GoalVal(goal[2])
      /\ IF IsOper(goal[e]) THEN line[3] = NaN ELSE line[3] = GoalVal(goal[e])
  <2>1. ~FlaggedAttr(line[2]) /\ ~FlaggedAttr(line[3])
    BY <1>4
  <2> QED
    BY <1>0, <1>5, <1>6, <2>1, StandsFor
<1>8. Rewritten(1) = PageApply(goal[1], line[2], line[3])
  BY <1>1, <1>2, <1>4, <1>7, OuterValue
<1>9. Rewritten(1) \in {0, 1}
  BY <1>2, <1>8, PageCompares
<1>10. ASSUME Nested PROVE Rewritten(1) = 0
  <2>1. IsOper(goal[2]) \/ IsOper(goal[e])
    <3> SUFFICES ASSUME ~IsOper(goal[2]), ~IsOper(goal[e]) PROVE FALSE
      OBVIOUS
    <3>1. After(2) = 2 + 1 /\ After(e) = e + 1
      <4>1. 2 \in 1 .. Len(goal) /\ e \in 1 .. Len(goal)
        BY <1>5
      <4> QED
        BY ONLY <1>0, <4>1, LeafEnds, ~IsOper(goal[2]), ~IsOper(goal[e])
    <3> DEFINE L == Len(goal)
    <3>2. e = 2 + 1 /\ L + 1 = e + 1 /\ L \in Nat
      <4>1. e = After(2)
        BY DEF e
      <4> QED
        BY ONLY <1>0, <1>5, <3>1, <4>1
    <3> HIDE DEF L
    <3>3. \A n \in 2 .. L : n = 2 \/ n = e
      BY ONLY <3>2
    <3>4. \A n \in 2 .. Len(goal) : n = 2 \/ n = e
      BY ONLY <3>3 DEF L
    <3> QED
      BY <1>10, <3>4 DEF Nested
  <2>2. line[2] = NaN \/ line[3] = NaN
    BY ONLY <1>7, <2>1
  <2> QED
    BY <1>2, <1>8, <2>2, PageCompares
<1>11. ASSUME ~Nested
       PROVE  Exact /\ (Meaning[1].safe => Rewritten(1) = Meaning[1].value)
  <2>1. ~IsOper(goal[2]) /\ ~IsOper(goal[e])
    BY <1>5, <1>11 DEF Nested
  <2>2. /\ goal[2] \in Constants \cup {Attr(a) : a \in Indices}
        /\ goal[e] \in Constants \cup {Attr(a) : a \in Indices}
    BY <1>0, <1>5, <2>1, Terms
  <2>3. /\ Meaning[2].exact /\ Meaning[2].reads
        /\ Meaning[2].safe => GoalVal(goal[2]) = Meaning[2].value /\ Meaning[2].value \in Int
        /\ Meaning[e].exact /\ Meaning[e].reads
        /\ Meaning[e].safe => GoalVal(goal[e]) = Meaning[e].value /\ Meaning[e].value \in Int
    BY <1>0, <1>5, <2>2, LeafValue
  <2>4. Means(1, 2, e)
    <3>1. 2 = 1 + 1 /\ e = After(2)
      BY DEF e
    <3> QED
      BY <1>0, <1>2, <3>1, OperAt
  <2>5. goal[1] # Code.DIV
    BY <1>2, PageCompares
  <2>6. Meaning[1].exact
    BY ONLY <2>3, <2>4 DEF Means
  <2>7. ASSUME Meaning[1].safe PROVE Rewritten(1) = Meaning[1].value
    <3>1. Meaning[2].safe /\ Meaning[e].safe
      BY ONLY <2>4, <2>7 DEF Means
    <3>2. Meaning[1].value = ApplyOp(goal[1], Meaning[2].value, Meaning[e].value)
      BY ONLY <2>4, <2>5 DEF Means
    <3>3. line[2] = Meaning[2].value /\ line[3] = Meaning[e].value /\ line[2] # NaN /\ line[3] # NaN
      <4>1. line[2] = Meaning[2].value /\ line[3] = Meaning[e].value
        BY ONLY <1>7, <2>1, <2>3, <3>1
      <4>2. Meaning[2].value \in Int /\ Meaning[e].value \in Int
        BY ONLY <2>3, <3>1
      <4> QED
        BY <4>1, <4>2, PageAssumption
    <3> QED
      BY <1>2, <1>8, <3>2, <3>3, PageCompares
  <2> QED
    BY <2>6, <2>7 DEF Exact
<1> QED
  BY <1>4, <1>9, <1>10, <1>11

(* Applying an operator within the line leaves no number there, applying   *)
(* the outermost one ends the rewriting.                                   *)
LEMMA OpenApply ==
  ASSUME SmallCounts, Inv, Polish, Comparison(goal), line \in Seq(Numbers), Open, ApplyFirst
  PROVE  Open' \/ Closed'
<1>0. goal \in Seq(Int) /\ Len(goal) \in Nat /\ attr_n \in Counts /\ Len(line) \in Nat
  BY StackTypes DEF Inv, TypeOK
<1>1. PICK pos : Lined(pos)
  BY DEF Open
<1>2. PICK n \in DOMAIN line :
        /\ TripleAt(n)
        /\ line' = Splice(line, n, Rewritten(n))
  BY ApplyFirstAt, Zenon DEF Splice
<1>3. /\ goal' = goal /\ attr_n' = attr_n /\ shown' = "none" /\ status' = "done"
      /\ \A k \in DOMAIN line : ~FlaggedAttr(line[k])
  BY DEF ApplyFirst, Rewriting, Open, vars
<1>4. Triple(line, n) /\ n \in 1 .. Len(line) /\ n + 2 <= Len(line)
  BY <1>0, <1>2 DEF TripleAt, Triple
<1>5a. line \in Seq(Numbers)
  OBVIOUS
<1>5. Laid(line, pos, Len(goal) + 1) /\ line[1] = goal[1]
  BY <1>1 DEF Lined
<1>6. CASE n = 1
  <2>1. /\ Len(line) = 3 /\ Rewritten(1) \in {0, 1}
        /\ Nested => Rewritten(1) = 0
        /\ ~Nested => Exact /\ (Meaning[1].safe => Rewritten(1) = Meaning[1].value)
    BY <1>0, <1>1, <1>3, <1>4, <1>6, OpenLast
  <2>2. Rewritten(1) \in Numbers
    BY <2>1 DEF Numbers
  <2>3. Len(line') = 1 /\ line'[1] = Rewritten(1)
    <3> DEFINE v == Rewritten(1)
    <3>1. v \in Numbers /\ line' = Splice(line, 1, v) /\ 1 \in 1 .. Len(line) /\ 1 + 2 <= Len(line)
      BY <1>2, <1>4, <1>6, <2>2
    <3> HIDE DEF v
    <3>2. Closes(line, 1, v, line')
      BY ONLY <1>5a, <3>1, SplicedLine
    <3>3. Len(line') = 3 - 2 /\ line'[1] = v
      BY ONLY <2>1, <3>2 DEF Closes
    <3> QED
      BY <3>3 DEF v
  <2>4. Meaning' = Meaning
    BY <1>3, MeaningKept
  <2>5. (Nested' <=> Nested) /\ (Exact' <=> Exact)
    BY <1>3, <2>4 DEF Nested, Exact, Polish
  <2> QED
    BY <1>3, <2>1, <2>3, <2>4, <2>5 DEF Closed
<1>7. CASE n # 1
  <2>1. n \in 2 .. Len(line)
    BY <1>4, <1>7
  <2>2. pos[n] \in 2 .. Len(goal)
    BY <1>0, <1>1, <2>1, OpenLine
  <2>3. line[n] = goal[pos[n]] /\ IsOper(goal[pos[n]])
    BY <1>0, <1>4, <1>5, TripleLaid
  <2>4. line[n] \in Arithmetic
    BY <1>0, <2>2, <2>3, Terms
  <2>5. Rewritten(n) = NaN
    BY <1>4, <2>1, <2>4, InnerNaN
  <2>6. NaN \in Numbers
    BY DEF Numbers
  <2> DEFINE v == Rewritten(n)
  <2>a. v \in Numbers /\ v = NaN
    BY <2>5, <2>6
  <2>b. line' = Splice(line, n, v)
    BY ONLY <1>2
  <2> HIDE DEF v
  <2>c. Closes(line, n, v, line')
    BY ONLY <1>4, <1>5a, <2>a, <2>b, SplicedLine
  <2> DEFINE r == line'
  <2>7. /\ Len(r) = Len(line) - 2 /\ r[n] = NaN
        /\ \A k \in 1 .. n - 1 : r[k] = line[k]
        /\ \A k \in n + 1 .. Len(r) : r[k] = line[k + 2]
    BY ONLY <2>a, <2>c DEF Closes
  <2> HIDE DEF r
  <2>8. ~FlaggedOper(r[n])
    BY <2>7 DEF FlaggedOper
  <2>9. PICK q : /\ Laid(r, q, Len(goal) + 1)
                 /\ \A k \in 1 .. n : q[k] = pos[k]
                 /\ \A k \in n + 1 .. Len(r) + 1 : q[k] = pos[k + 2]
    <3>0. goal \in Seq(Int) /\ Len(line) \in Nat /\ Laid(line, pos, Len(goal) + 1)
      BY ONLY <1>0, <1>5
    <3>1. Triple(line, n)
      BY ONLY <1>4
    <3>a. Closes(line, n, v, r) /\ ~FlaggedOper(v)
      BY <2>a, <2>c, <2>7, <2>8 DEF r
    <3>2. \E q : /\ Laid(r, q, Len(goal) + 1)
                 /\ \A k \in 1 .. n : q[k] = pos[k]
                 /\ \A k \in n + 1 .. Len(r) + 1 : q[k] = pos[k + 2]
      BY ONLY <3>0, <3>1, <3>a, Spliced
    <3> QED
      BY ONLY <3>2
  <2>10. r[1] = goal[1]
    <3>1. 1 \in 1 .. n - 1
      BY <2>1
    <3> QED
      BY ONLY <1>5, <2>7, <3>1
  <2>11. ASSUME NEW k \in 2 .. Len(r), ~FlaggedOper(r[k])
         PROVE  Stands(r[k], q[k])
    <3>1. CASE k < n
      <4>1. k \in 1 .. n - 1 /\ k \in 1 .. n /\ k \in 2 .. Len(line)
        BY <1>4, <3>1
      <4>2. r[k] = line[k] /\ q[k] = pos[k]
        BY <2>7, <2>9, <4>1
      <4> QED
        BY <1>1, <2>11, <4>1, <4>2 DEF Lined
    <3>2. CASE k = n
      <4>1. n \in 1 .. n
        BY <2>1
      <4>2. q[n] = pos[n]
        BY <2>9, <4>1
      <4> QED
        BY <2>3, <2>7, <3>2, <4>2 DEF Stands
    <3>3. CASE k > n
      <4>1. k \in n + 1 .. Len(r) /\ k \in n + 1 .. Len(r) + 1 /\ k + 2 \in 2 .. Len(line)
        BY <1>0, <1>4, <2>7, <3>3
      <4>2. r[k] = line[k + 2] /\ q[k] = pos[k + 2]
        BY <2>7, <2>9, <4>1
      <4> QED
        BY <1>1, <2>11, <4>1, <4>2 DEF Lined
    <3> QED
      BY <1>4, <3>1, <3>2, <3>3
  <2>12. Lined(q)'
    BY <1>3, <2>9, <2>10, <2>11, LinedNext DEF r
  <2> QED
    BY <1>3, <2>12 DEF Open
<1> QED
  BY <1>6, <1>7

-----------------------------------------------------------------------------
(* The invariant of the page.                                              *)
LineInv ==
  /\ StackInv /\ line \in Seq(Numbers)
  /\ Polish /\ Comparison(goal) => Open \/ Closed

(* The line starts as the goal, each term at its own place.                *)
LEMMA LineInvInit == PageInit => LineInv
<1> SUFFICES ASSUME PageInit PROVE LineInv
  OBVIOUS
<1>0. Init /\ line = goal /\ shown = "none"
  BY DEF PageInit
<1>1. StackInv
  BY <1>0, StackInvInit
<1>2. goal \in Seq(Int) /\ Len(goal) \in Nat
  BY <1>1, StackTypes DEF StackInv
<1>3. line \in Seq(Numbers)
  BY <1>0, <1>2 DEF Numbers
<1>4. ASSUME Polish, Comparison(goal) PROVE Open
  <2> DEFINE L == Len(goal)
             pos == [k \in 1 .. L + 1 |-> k]
  <2>1. L \in Nat /\ 1 \in 1 .. L
    BY <1>2, <1>4, TermsOf
  <2>2. DOMAIN pos = 1 .. L + 1 /\ \A k \in 1 .. L + 1 : pos[k] = k
    OBVIOUS
  <2>3. pos \in [1 .. L + 1 -> Places]
    BY <2>1 DEF Places
  <2> HIDE DEF pos
  <2>4. ASSUME NEW k \in 1 .. L
        PROVE  /\ pos[k] = k /\ pos[k + 1] = k + 1 /\ goal[k] \in Int
               /\ FlaggedOper(goal[k]) <=> IsOper(goal[k])
               /\ ~FlaggedOper(goal[k]) => After(k) = k + 1
    <3>1. k \in 1 .. L + 1 /\ k + 1 \in 1 .. L + 1
      BY <2>1
    <3>2. goal[k] \in Int
      BY <1>2
    <3>3. FlaggedOper(goal[k]) <=> IsOper(goal[k])
      BY <3>2, IntFlags
    <3>4. ~IsOper(goal[k]) => After(k) = k + 1
      BY <1>2, LeafMeaning
    <3> QED
      BY ONLY <2>2, <3>1, <3>2, <3>3, <3>4
  <2>5. Laid(line, pos, Len(goal) + 1)
    <3>1. pos[1] = 1 /\ pos[L + 1] = L + 1
      BY <2>1, <2>2
    <3>2. \A k \in 1 .. L :
            /\ pos[k] \in 1 .. L
            /\ FlaggedOper(line[k]) => IsOper(goal[pos[k]]) /\ line[k] = goal[pos[k]] /\ pos[k + 1] = pos[k] + 1
            /\ ~FlaggedOper(line[k]) => pos[k + 1] = After(pos[k])
      BY <1>0, <2>4
    <3> QED
      BY <1>0, <2>3, <3>1, <3>2 DEF Laid
  <2>6. ASSUME NEW k \in 2 .. L, ~FlaggedOper(goal[k]) PROVE Stands(goal[k], pos[k])
    <3>1. pos[k] = k /\ ~IsOper(goal[k])
      BY <2>4, <2>6
    <3> QED
      BY <3>1 DEF Stands
  <2>7. Lined(pos)
    BY <1>0, <2>5, <2>6 DEF Lined
  <2> QED
    BY <1>0, <2>7 DEF Open
<1> QED
  BY <1>1, <1>3, <1>4 DEF LineInv

(* Nothing about the goal and its place in the line changes but in a       *)
(* rewriting.                                                              *)
LEMMA LineInvStep ==
  ASSUME SmallCounts
  PROVE  LineInv /\ [PageNext]_pageVars => LineInv'
<1> SUFFICES ASSUME LineInv, [PageNext]_pageVars PROVE LineInv'
  OBVIOUS
<1>1. /\ [Next]_vars /\ goal' = goal /\ attr_n' = attr_n
      /\ status = "done" => status' = "done"
      /\ Substitute \/ ApplyFirst \/ Show \/ UNCHANGED <<line, shown>>
  BY Kept DEF vars
<1>2. Inv /\ StackInv' /\ line' \in Seq(Numbers)
  BY <1>1, StackInvStep, LineKept DEF LineInv, StackInv
<1>3. Meaning' = Meaning
  BY <1>1, MeaningKept
<1>4. /\ (Polish' <=> Polish) /\ (Exact' <=> Exact) /\ (Nested' <=> Nested)
      /\ (Comparison(goal)' <=> Comparison(goal))
  BY <1>1, <1>3 DEF Polish, Exact, Nested, Comparison
<1> SUFFICES ASSUME Polish, Comparison(goal) PROVE Open' \/ Closed'
  BY <1>2, <1>4 DEF LineInv
<1>5. goal \in Seq(Int) /\ line \in Seq(Numbers)
  BY <1>2, StackTypes DEF LineInv
<1>6. CASE Open
  <2>1. CASE Substitute
    BY <1>2, <1>5, <1>6, <2>1, OpenSubstitute
  <2>2. CASE ApplyFirst
    BY <1>2, <1>5, <1>6, <2>2, OpenApply
  <2>3. ~Show
    <3>1. Len(line) # 1
      <4>1. PICK pos : Lined(pos)
        BY <1>6 DEF Open
      <4> DEFINE L == Len(line)
      <4>2. L > 2
        BY ONLY <1>5, <4>1, Polish, Comparison(goal), OpenLine
      <4> HIDE DEF L
      <4>3. L # 1
        BY ONLY <4>2
      <4> QED
        BY ONLY <4>3 DEF L
    <3> QED
      BY ONLY <3>1 DEF Show
  <2>4. CASE UNCHANGED <<line, shown>>
    <3>1. PICK pos : Lined(pos)
      BY <1>6 DEF Open
    <3>2. Lined(pos)'
      BY <1>1, <2>4, <3>1, LinedNext DEF Lined
    <3> QED
      BY <1>6, <2>4, <3>2 DEF Open
  <2> QED
    BY <1>1, <2>1, <2>2, <2>3, <2>4
<1>7. CASE Closed
  <2>1. ~Substitute /\ ~ApplyFirst
    BY <1>7 DEF Closed, Substitute, ApplyFirst, Rewriting
  <2>2. line' = line /\ status' = "done"
    BY <1>1, <1>7, <2>1 DEF Closed, Show
  <2>3. shown' \in {"none", IF line[1] = 0 THEN "false" ELSE "true"}
    <3>1. line[1] # NaN
      BY <1>7, PageAssumption DEF Closed
    <3> QED
      BY <1>1, <1>7, <2>1, <3>1 DEF Closed, Show
  <2> QED
    BY <1>3, <1>4, <1>7, <2>2, <2>3 DEF Closed
<1> QED
  BY <1>6, <1>7 DEF LineInv

(* What the invariant says of a comparison.                                *)
LEMMA LineSound == LineInv /\ Polish /\ Comparison(goal) => PageSound /\ (Nested => shown # "true")
<1> SUFFICES ASSUME LineInv, Polish, Comparison(goal)
             PROVE  PageSound /\ (Nested => shown # "true")
  OBVIOUS
<1>1. CASE Open
  BY <1>1 DEF Open, PageSound
<1>2. CASE Closed
  <2>1. ASSUME ~Nested PROVE Result = line[1]
    <3>1. Exact /\ status = "done"
      BY <1>2, <2>1 DEF Closed
    <3> QED
      BY <1>2, <2>1, <3>1, DoneExact DEF LineInv, Closed
  <2> QED
    BY <1>2, <2>1 DEF Closed, PageSound
<1> QED
  BY <1>1, <1>2 DEF LineInv

(* What the page has left to do with a line: an attribute to look up, or   *)
(* an operator with its two operands.                                      *)
Rewritable ==
  \/ Len(line) = 1
  \/ \E n \in DOMAIN line : FlaggedAttr(line[n])
  \/ \E n \in DOMAIN line : FirstTriple(n)

LEMMA LineRewritable == LineInv /\ Polish /\ Comparison(goal) => Rewritable
<1> SUFFICES ASSUME LineInv, Polish, Comparison(goal), Len(line) # 1
             PROVE  \E n \in DOMAIN line : FirstTriple(n)
  BY DEF Rewritable
<1>1. goal \in Seq(Int) /\ line \in Seq(Numbers) /\ Len(line) \in Nat
  BY StackTypes DEF LineInv, StackInv
<1>2. Open
  BY DEF LineInv, Closed
<1>3. PICK pos : Lined(pos)
  BY <1>2 DEF Open
<1>4. \E n : Triple(line, n)
  BY ONLY <1>1, <1>3, Polish, Comparison(goal), OpenLine
<1> DEFINE T == {n \in Nat : Triple(line, n)}
<1>5. T # {}
  <2>1. \A n : Triple(line, n) => n \in Nat
    BY DEF Triple
  <2> QED
    BY ONLY <1>4, <2>1
<1>6. PICK n \in T : \A m \in T : n <= m
  BY <1>5, LeastNat
<1>7. n \in 1 .. Len(line) /\ TripleAt(n)
  <2>1. Triple(line, n)
    OBVIOUS
  <2>2. n \in 1 .. Len(line) - 2
    BY <2>1 DEF Triple
  <2>3. n \in 1 .. Len(line) /\ n + 2 <= Len(line)
    BY ONLY <1>1, <2>2
  <2> QED
    BY ONLY <2>1, <2>3 DEF Triple, TripleAt
<1>8. ASSUME NEW m \in 1 .. n - 1, TripleAt(m) PROVE FALSE
  <2>1. m \in Nat /\ m < n /\ Triple(line, m)
    BY <1>1, <1>7, <1>8 DEF Triple, TripleAt
  <2> QED
    BY <1>6, <2>1
<1> QED
  BY <1>7, <1>8 DEF FirstTriple

(* For every comparison of arithmetic expressions, however nested, over    *)
(* constants that fit a term and any attributes, and any counts of a       *)
(* venue: the page never shows a goal as met that the server found not     *)
(* met, shows a comparison of two leaves as the server decided it, and     *)
(* shows none with an operator among its operands as met, since NaN has    *)
(* taken the place of every such operand.                                  *)
THEOREM ComparisonsShownSound ==
  ASSUME SmallCounts
  PROVE  PageSpec => [](Polish /\ Comparison(goal) => PageSound /\ (Nested => shown # "true"))
<1>1. LineInv => (Polish /\ Comparison(goal) => PageSound /\ (Nested => shown # "true"))
  BY LineSound
<1> QED
  BY <1>1, LineInvInit, LineInvStep, PTL DEF PageSpec

(* Although goal.slice takes the wrong terms, the page never meets a line  *)
(* of such a goal without an operator to apply, where it would end in an   *)
(* exception: what PageFinishes rests on.                                  *)
THEOREM ComparisonsNeverStuck ==
  ASSUME SmallCounts
  PROVE  PageSpec => [](Polish /\ Comparison(goal) => Rewritable)
<1>1. LineInv => (Polish /\ Comparison(goal) => Rewritable)
  BY LineRewritable
<1> QED
  BY <1>1, LineInvInit, LineInvStep, PTL DEF PageSpec

(* The goals of game_params are such comparisons.                          *)
LEMMA GameComparison ==
  ASSUME goal \in Seq(Int)
  PROVE  /\ FlatGoal(goal) => Polish /\ Comparison(goal)
         /\ PartGoal(goal) => Polish /\ Comparison(goal) /\ Nested
<1>1. ASSUME NEW a \in Indices, NEW k \in Constants, goal = AtLeast(a, k)
      PROVE  Polish /\ Comparison(goal)
  <2>1. Len(goal) = 3 /\ goal[1] = Code.GE /\ goal[2] = Attr(a) /\ goal[3] = k
    <3>1. Value(k) = k
      BY TermBits DEF Value, Constants
    <3> QED
      BY <1>1, <3>1 DEF AtLeast
  <2>2. \A n \in 2 .. 3 : n = 2 \/ n = 3
    OBVIOUS
  <2>3. Comparison(goal)
    BY <2>1, <2>2 DEF Comparison
  <2> QED
    BY <1>1, <2>3, FlatMeaning DEF Exact
<1>2. ASSUME NEW a \in Indices, NEW b \in Indices, NEW k \in Constants, goal = AtLeastPart(a, b, k)
      PROVE  Polish /\ Comparison(goal) /\ Nested
  <2>1. /\ Len(goal) = 5 /\ goal[1] = Code.GE /\ goal[2] = Attr(a) /\ goal[3] = Code.DIV
        /\ goal[4] = Attr(b) /\ goal[5] = k
    <3>1. Value(k) = k
      BY TermBits DEF Value, Constants
    <3> QED
      BY <1>2, <3>1 DEF AtLeastPart
  <2>2. \A n \in 2 .. 5 : n = 2 \/ n = 3 \/ n = 4 \/ n = 5
    OBVIOUS
  <2>3. Comparison(goal)
    BY <2>1, <2>2 DEF Comparison, Arithmetic
  <2>4. Nested
    BY <2>1, TermBits DEF Nested
  <2> QED
    BY <1>2, <2>3, <2>4, PartMeaning
<1> QED
  BY <1>1, <1>2 DEF FlatGoal, PartGoal

(* So are the goals the invariant is about.                                *)
LEMMA LineGame ==
  ASSUME LineInv
  PROVE  /\ GameGoals => Polish /\ Comparison(goal)
         /\ PartGoal(goal) => Polish /\ Comparison(goal) /\ Nested
<1>1. goal \in Seq(Int) /\ goal \in Goals
  BY StackTypes DEF LineInv, StackInv, Inv, TypeOK
<1> QED
  BY <1>1, GameComparison DEF GameGoals

(* For the goals of game_params, with any attributes and constants, and    *)
(* any counts of a venue: the page never shows a goal as met that the      *)
(* server found not met, and shows goals of types 0 to 2 as the server     *)
(* decided them.                                                           *)
THEOREM PageSoundForGames ==
  ASSUME GameGoals, SmallCounts
  PROVE  PageSpec => []PageSound
<1>1. LineInv => PageSound
  BY LineGame, LineSound
<1> QED
  BY <1>1, LineInvInit, LineInvStep, PTL DEF PageSpec

(* No goal of type 3 is ever shown as met, though the server may have      *)
(* found it met: PageAgrees fails for all of them, not only for those of   *)
(* the run.                                                                *)
THEOREM PartGoalsNeverShownMet ==
  ASSUME SmallCounts
  PROVE  PageSpec => [](PartGoal(goal) => shown # "true")
<1>1. LineInv => (PartGoal(goal) => shown # "true")
  BY LineGame, LineSound
<1> QED
  BY <1>1, LineInvInit, LineInvStep, PTL DEF PageSpec

(* In particular no goal of a game.                                        *)
THEOREM PageNeverStuck ==
  ASSUME GameGoals, SmallCounts
  PROVE  PageSpec => []Rewritable
<1>1. LineInv => Rewritable
  BY LineGame, LineRewritable
<1> QED
  BY <1>1, LineInvInit, LineInvStep, PTL DEF PageSpec
=============================================================================
