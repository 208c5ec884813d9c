---------------------------- MODULE GreedProofs ----------------------------
(***************************************************************************)
(* Proofs about Greed for every limit, every set of goals ">= attr k" that *)
(* fit, and whatever the player's estimates are; then about Analyze, the   *)
(* search in a game that Greed has finished.                               *)
(***************************************************************************)
EXTENDS Analyze, RulesProofs

IInv == TypeOK /\ GreedInv

-----------------------------------------------------------------------------
(* The lists the player makes.                                             *)

(* sort_by_L loses no goal and makes none up.                              *)
LEMMA SortingKeeps ==
  ASSUME NEW l \in Seq(Needs), NEW s \in Sortings(l)
  PROVE  /\ s \in Seq(Needs) /\ DOMAIN s = DOMAIN l
         /\ \A i \in DOMAIN s : \E j \in DOMAIN l : s[i] = l[j]
         /\ \A j \in DOMAIN l : \E i \in DOMAIN s : s[i] = l[j]
<1>1. PICK f \in [DOMAIN l -> DOMAIN l] :
        /\ s = [i \in DOMAIN l |-> l[f[i]]]
        /\ \A i \in DOMAIN l : \E j \in DOMAIN l : f[j] = i
  BY DEF Sortings
<1>2. s \in [1 .. Len(l) -> Needs]
  BY <1>1
<1> QED
  BY <1>1, <1>2

(* The goals that update_goals drops are met.                              *)
LEMMA DropMetKeeps ==
  ASSUME NEW s \in Seq(Needs)
  PROVE  /\ DropMet(s) \in Seq(Needs)
         /\ \A i \in DOMAIN DropMet(s) : i \in DOMAIN s /\ DropMet(s)[i] = s[i]
         /\ \A i \in DOMAIN s : i \in DOMAIN DropMet(s) \/ s[i].num <= 0
<1> DEFINE MetFrom(n) == \A i \in n + 1 .. Len(s) : s[i].num <= 0
           Ends == {n \in 0 .. Len(s) : MetFrom(n)}
           IsLast(n) == MetFrom(n) /\ (n > 0 => s[n].num > 0)
<1>1. /\ \A i \in 1 .. Len(s) : s[i].num \in Int
      /\ Len(s) \in Nat /\ DOMAIN s = 1 .. Len(s)
  <2>1. \A i \in 1 .. Len(s) : s[i] \in Needs
    OBVIOUS
  <2> QED
    BY <2>1 DEF Needs
<1>2. \E n \in 0 .. Len(s) : IsLast(n)
  <2>1. Len(s) \in Ends /\ Ends \subseteq Nat
    OBVIOUS
  <2>2. PICK n \in Ends : \A m \in Ends : n <= m
    BY <2>1, LeastNat
  <2>3. n > 0 => s[n].num > 0
    <3> SUFFICES ASSUME n > 0, s[n].num <= 0 PROVE FALSE
      BY <1>1, <2>2
    <3>1. MetFrom(n - 1)
      <4>1. \A i \in n - 1 + 1 .. Len(s) : i = n \/ i \in n + 1 .. Len(s)
        BY <1>1, <2>2
      <4> QED
        BY <2>2, <4>1
    <3>2. n - 1 \in Ends
      BY <2>2, <3>1
    <3>3. n <= n - 1 /\ n \in Nat
      BY <2>1, <2>2, <3>2
    <3> QED
      BY <3>3
  <2> QED
    BY <2>2, <2>3
<1> DEFINE N == CHOOSE n \in 0 .. Len(s) : IsLast(n)
<1>3. N \in 0 .. Len(s) /\ MetFrom(N)
  BY <1>2
<1>4. DropMet(s) = SubSeq(s, 1, N)
  BY DEF DropMet
<1> HIDE DEF N
<1>5. /\ SubSeq(s, 1, N) \in Seq(Needs)
      /\ DOMAIN SubSeq(s, 1, N) = 1 .. N
      /\ \A i \in 1 .. N : SubSeq(s, 1, N)[i] = s[i]
  BY <1>3
<1> QED
  BY <1>3, <1>4, <1>5
-----------------------------------------------------------------------------
(* The books: what BooksAgree says of a list, a space and judged people.   *)

Books(l, sp, judged) ==
  /\ sp = AcceptedLimit - Accepted(judged)
  /\ \A i \in DOMAIN l : l[i].num = l[i].goal.k - AttrCount(judged, l[i].goal.attr)
  /\ \A g \in Goals : (\A i \in DOMAIN l : l[i].goal # g) => GoalMet(g, judged)

Fits(l, sp) == \A i \in DOMAIN l : l[i].num <= sp
Spare(l, sp) == \A i \in DOMAIN l : l[i].goal.attr \notin person => l[i].num < sp

(* A goal the player understands is met by k people with its attribute,    *)
(* and stays met.                                                          *)
LEMMA ConstGoal ==
  ASSUME NEW g \in Goals, NEW judged \in Seq(Persons)
  PROVE  /\ g.k \in 0 .. AcceptedLimit
         /\ AttrCount(judged, g.attr) \in Nat
         /\ GoalMet(g, judged) <=> AttrCount(judged, g.attr) >= g.k
         /\ \A p \in Persons : GoalMet(g, judged) => GoalMet(g, Append(judged, p))
<1>1. g.kind = "const" /\ g.k \in 0 .. AcceptedLimit
  BY GreedAssumption
<1>2. \A p \in Persons : /\ AttrCount(judged, g.attr) \in Nat
                        /\ AttrCount(Append(judged, p), g.attr) >= AttrCount(judged, g.attr)
                        /\ AttrCount(Append(judged, p), g.attr) \in Nat
  BY AttrCountAppend
<1>3. \A j : GoalMet(g, j) <=> AttrCount(j, g.attr) >= g.k
  BY <1>1 DEF GoalMet, GoalBound
<1>4. AttrCount(judged, g.attr) \in Nat
  <2>1. [attrs |-> {}, ok |-> FALSE] \in Persons
    BY DEF Persons, Symbols
  <2> QED
    BY <1>2, <2>1
<1>5. g.k \in Int
  BY <1>1, RulesAssumption
<1> QED
  BY <1>1, <1>2, <1>3, <1>4, <1>5

(* A person who is turned down changes nothing in the books.               *)
LEMMA RejectBooks ==
  ASSUME NEW l \in Seq(Needs), NEW sp, NEW judged \in Seq(Persons),
         NEW p \in Persons, ~p.ok, Books(l, sp, judged)
  PROVE  Books(l, sp, Append(judged, p))
<1>1. Accepted(Append(judged, p)) = Accepted(judged)
  BY AcceptedAppend, AcceptedFinite
<1>2. \A a : AttrCount(Append(judged, p), a) = AttrCount(judged, a)
  BY AttrCountAppend
<1>3. \A g \in Goals : GoalMet(g, judged) => GoalMet(g, Append(judged, p))
  BY ConstGoal
<1> QED
  BY <1>1, <1>2, <1>3 DEF Books

(* Sorting the list changes nothing in the books.                          *)
LEMMA SortBooks ==
  ASSUME NEW l \in Seq(Needs), NEW s \in Sortings(l), NEW sp, NEW judged
  PROVE  /\ Books(l, sp, judged) => Books(s, sp, judged)
         /\ Fits(l, sp) => Fits(s, sp)
         /\ Spare(l, sp) => Spare(s, sp)
<1>1. /\ \A i \in DOMAIN s : \E j \in DOMAIN l : s[i] = l[j]
      /\ \A j \in DOMAIN l : \E i \in DOMAIN s : s[i] = l[j]
  BY SortingKeeps
<1>2. Books(l, sp, judged) => Books(s, sp, judged)
  <2> SUFFICES ASSUME Books(l, sp, judged) PROVE Books(s, sp, judged)
    OBVIOUS
  <2>1. \A i \in DOMAIN s : s[i].num = s[i].goal.k - AttrCount(judged, s[i].goal.attr)
    BY <1>1 DEF Books
  <2>2. ASSUME NEW g \in Goals, \A i \in DOMAIN s : s[i].goal # g
        PROVE  GoalMet(g, judged)
    <3>1. \A j \in DOMAIN l : l[j].goal # g
      BY <1>1, <2>2
    <3> QED
      BY <3>1 DEF Books
  <2> QED
    BY <2>1, <2>2 DEF Books
<1>3. (Fits(l, sp) => Fits(s, sp)) /\ (Spare(l, sp) => Spare(s, sp))
  BY <1>1 DEF Fits, Spare
<1> QED
  BY <1>2, <1>3

(* A person who is accepted is booked, and the goals still fit when nobody *)
(* without a needed attribute took the last place for it.                  *)
LEMMA AcceptBooks ==
  ASSUME NEW l \in Seq(Needs), NEW sp \in Int, NEW judged \in Seq(Persons),
         person \in Symbols, Books(l, sp, judged), Fits(l, sp), Spare(l, sp)
  PROVE  /\ DropMet(Admitted(l)) \in Seq(Needs)
         /\ Books(DropMet(Admitted(l)), sp - 1, Append(judged, [attrs |-> person, ok |-> TRUE]))
         /\ Fits(DropMet(Admitted(l)), sp - 1)
<1> DEFINE p == [attrs |-> person, ok |-> TRUE]
           adm == Admitted(l)
           rest == DropMet(adm)
<1>1. p \in Persons /\ p.ok /\ p.attrs = person
  BY DEF Persons
<1>2. \A i \in DOMAIN l : l[i].goal \in Goals /\ l[i].num \in Int /\ l[i] \in Needs
  <2>1. \A i \in DOMAIN l : l[i] \in Needs
    OBVIOUS
  <2> QED
    BY <2>1 DEF Needs
<1>3. /\ DOMAIN adm = DOMAIN l
      /\ \A i \in DOMAIN l :
           /\ adm[i] \in Needs /\ adm[i].goal = l[i].goal
           /\ adm[i].num = IF l[i].goal.attr \in person THEN l[i].num - 1 ELSE l[i].num
  BY <1>2 DEF Admitted, Needs
<1>4. adm \in Seq(Needs)
  BY <1>3 DEF Admitted
<1> HIDE DEF adm
<1>5. /\ rest \in Seq(Needs)
      /\ \A i \in DOMAIN rest : i \in DOMAIN adm /\ rest[i] = adm[i]
      /\ \A i \in DOMAIN adm : i \in DOMAIN rest \/ adm[i].num <= 0
  BY <1>4, DropMetKeeps
<1> HIDE DEF rest, p
<1>6. sp - 1 = AcceptedLimit - Accepted(Append(judged, p))
  <2>1. Accepted(Append(judged, p)) = Accepted(judged) + 1 /\ Accepted(judged) \in Nat
    BY <1>1, AcceptedAppend, AcceptedFinite
  <2>2. sp = AcceptedLimit - Accepted(judged) /\ AcceptedLimit \in Nat
    BY RulesAssumption DEF Books
  <2> QED
    BY <2>1, <2>2
<1>7. \A i \in DOMAIN l :
         adm[i].num = l[i].goal.k - AttrCount(Append(judged, p), l[i].goal.attr)
  <2> SUFFICES ASSUME NEW i \in DOMAIN l
               PROVE  adm[i].num = l[i].goal.k - AttrCount(Append(judged, p), l[i].goal.attr)
    OBVIOUS
  <2>1. l[i].goal.k \in Int /\ AttrCount(judged, l[i].goal.attr) \in Nat
    BY <1>2, ConstGoal, RulesAssumption
  <2>2. AttrCount(Append(judged, p), l[i].goal.attr) =
          AttrCount(judged, l[i].goal.attr) + (IF l[i].goal.attr \in person THEN 1 ELSE 0)
    BY <1>1, AttrCountAppend
  <2>3. l[i].num = l[i].goal.k - AttrCount(judged, l[i].goal.attr)
    BY DEF Books
  <2>4. CASE l[i].goal.attr \in person
    BY <1>3, <2>1, <2>2, <2>3, <2>4
  <2>5. CASE l[i].goal.attr \notin person
    BY <1>3, <2>1, <2>2, <2>3, <2>5
  <2> QED
    BY <2>4, <2>5
<1>8. ASSUME NEW g \in Goals, \A i \in DOMAIN rest : rest[i].goal # g
      PROVE  GoalMet(g, Append(judged, p))
  <2>1. CASE \A i \in DOMAIN l : l[i].goal # g
    BY <1>1, <2>1, ConstGoal DEF Books
  <2>2. CASE \E i \in DOMAIN l : l[i].goal = g
    <3>1. PICK i \in DOMAIN l : l[i].goal = g
      BY <2>2
    <3>2. adm[i].num <= 0
      BY <1>3, <1>5, <1>8, <3>1
    <3>3. Append(judged, p) \in Seq(Persons)
      BY <1>1
    <3>4. /\ g.k \in Int /\ AttrCount(Append(judged, p), g.attr) \in Nat
          /\ adm[i].num = g.k - AttrCount(Append(judged, p), g.attr)
      <4>1. g.k \in 0 .. AcceptedLimit /\ AttrCount(Append(judged, p), g.attr) \in Nat
        BY <3>3, ConstGoal
      <4>2. adm[i].num = g.k - AttrCount(Append(judged, p), g.attr)
        BY <1>7, <3>1
      <4> QED
        BY <4>1, <4>2, RulesAssumption
    <3>5. AttrCount(Append(judged, p), g.attr) >= g.k
      BY <3>2, <3>4
    <3> QED
      BY <3>3, <3>5, ConstGoal
  <2> QED
    BY <2>1, <2>2
<1>9. Books(rest, sp - 1, Append(judged, p))
  BY <1>3, <1>5, <1>6, <1>7, <1>8 DEF Books
<1>10. Fits(rest, sp - 1)
  <2> SUFFICES ASSUME NEW i \in DOMAIN rest PROVE rest[i].num <= sp - 1
    BY DEF Fits
  <2>1. i \in DOMAIN l /\ rest[i] = adm[i]
    BY <1>3, <1>5
  <2>2. CASE l[i].goal.attr \in person
    BY <1>2, <1>3, <2>1, <2>2 DEF Fits
  <2>3. CASE l[i].goal.attr \notin person
    BY <1>2, <1>3, <2>1, <2>3 DEF Spare
  <2> QED
    BY <2>2, <2>3
<1> QED
  BY <1>5, <1>9, <1>10 DEF adm, rest, p
-----------------------------------------------------------------------------
(* The invariant.                                                          *)

(* BooksAgree, NeedsFit and NoneRequired are about the player's own list.  *)
LEMMA GreedInvBooks ==
  GreedInv <=>
    /\ Fits(list, space)
    /\ pc # "gone" => Books(list, space, Judged) /\ personid = Len(seen)
    /\ pc = "decide" => ~first /\ ~IsFinished(seen) /\ (AtTop \/ Spare(list, space))
  BY DEF GreedInv, NeedsFit, BooksAgree, NoneRequired, Fits, Books, Spare

(* While the player decides there is room, and the books are the server's. *)
LEMMA Deciding ==
  ASSUME IInv, pc = "decide"
  PROVE  /\ space \in 1 .. AcceptedLimit
         /\ Books(list, space, seen) /\ Fits(list, space)
         /\ personid = Len(seen) /\ ~first /\ ~IsFinished(seen)
         /\ AtTop \/ Spare(list, space)
<1>1. /\ Books(list, space, seen) /\ Fits(list, space)
      /\ personid = Len(seen) /\ ~first /\ ~IsFinished(seen)
      /\ AtTop \/ Spare(list, space)
  BY GreedInvBooks DEF IInv, Judged
<1>2. Accepted(seen) \in Nat /\ Accepted(seen) < AcceptedLimit
  <2>1. seen \in Seq(Persons)
    BY DEF IInv, TypeOK
  <2>2. Accepted(seen) \in Nat
    BY <2>1, AcceptedFinite
  <2>3. ~(Accepted(seen) >= AcceptedLimit)
    BY <1>1 DEF IsFinished
  <2> QED
    BY <2>2, <2>3, RulesAssumption
<1>3. space = AcceptedLimit - Accepted(seen)
  BY <1>1 DEF Books
<1> QED
  BY <1>1, <1>2, <1>3, RulesAssumption

(* The initial state: the goals as the server lists them.                  *)
LEMMA InitInv == Init => IInv
<1> SUFFICES ASSUME Init PROVE IInv
  OBVIOUS
<1>1. PICK f \in [1 .. Cardinality(Goals) -> Goals] :
        /\ list = [i \in 1 .. Cardinality(Goals) |-> [goal |-> f[i], num |-> f[i].k]]
        /\ \A g \in Goals : \E i \in DOMAIN f : f[i] = g
  BY DEF Init
<1>2. \A g \in Goals : g.k \in Int /\ g.k <= AcceptedLimit /\ g.k \in 0 .. AcceptedLimit
  BY GreedAssumption, RulesAssumption
<1>3. Cardinality(Goals) \in Nat
  BY GreedAssumption, FS_CardinalityType
<1>4. DOMAIN list = 1 .. Cardinality(Goals)
  BY <1>1
<1>5. \A i \in DOMAIN list : /\ list[i].goal = f[i] /\ list[i].num = f[i].k
                             /\ list[i] \in Needs /\ f[i] \in Goals
  BY <1>1, <1>2 DEF Needs
<1>6. list \in Seq(Needs)
  <2>1. list \in [1 .. Cardinality(Goals) -> Needs]
    BY <1>1, <1>5
  <2> QED
    BY <1>3, <2>1
<1>7. TypeOK
  <2>1. [list |-> <<>>, space |-> 0] \in [list : Seq(Needs), space : Int]
    OBVIOUS
  <2>2. view \in [list : Seq(Needs), space : Int]
    BY <2>1 DEF Init
  <2>3. space \in 0 .. AcceptedLimit
    BY RulesAssumption DEF Init
  <2>4. person \in Symbols /\ seen \in Seq(Persons)
    BY DEF Init, NoAttrs, Symbols
  <2> QED
    BY <1>6, <2>2, <2>3, <2>4 DEF Init, TypeOK
<1>8. Fits(list, space)
  BY <1>2, <1>5 DEF Init, Fits
<1>9. Books(list, space, <<>>)
  <2>1. space = AcceptedLimit - Accepted(<<>>)
    BY EmptyCounts, RulesAssumption DEF Init
  <2>2. \A i \in DOMAIN list : list[i].num = list[i].goal.k - AttrCount(<<>>, list[i].goal.attr)
    BY <1>2, <1>5, EmptyCounts
  <2>3. \A g \in Goals : \E i \in DOMAIN list : list[i].goal = g
    BY <1>1, <1>4, <1>5
  <2> QED
    BY <2>1, <2>2, <2>3 DEF Books
<1>10. Judged = <<>> /\ personid = Len(seen) /\ pc = "ask"
  BY DEF Init, Judged, Recorded
<1> QED
  BY <1>7, <1>8, <1>9, <1>10, GreedInvBooks DEF IInv

(* The player answers from a list whose books are right; it accepts only   *)
(* when nobody lacks what every place is needed for.                       *)
LEMMA AnswerInv ==
  ASSUME IInv, pc = "decide", NEW s \in Seq(Needs), NEW v \in BOOLEAN,
         Books(s, space, seen), Fits(s, space), v => Spare(s, space), Answer(v, s)
  PROVE  IInv'
<1> DEFINE p == [attrs |-> person, ok |-> v]
<1>1. /\ space \in 1 .. AcceptedLimit /\ space \in Int
      /\ personid = Len(seen) /\ ~first
      /\ seen \in Seq(Persons) /\ person \in Symbols
  BY Deciding, RulesAssumption DEF IInv, TypeOK
<1>2. p \in Persons
  BY <1>1 DEF Persons
<1>3. /\ pc' = "ask" /\ choice' = v
      /\ UNCHANGED <<view, person, personid, first, seen>>
  BY DEF Answer
<1>4. Judged' = Append(seen, p)
  BY <1>1, <1>3 DEF Judged, Recorded
<1>5. /\ list' \in Seq(Needs) /\ space' \in 0 .. AcceptedLimit
      /\ Fits(list, space)' /\ Books(list', space', Append(seen, p))
  <2>1. CASE v
    <3>1. space' = space - 1 /\ list' = DropMet(Admitted(s)) /\ p = [attrs |-> person, ok |-> TRUE]
      BY <2>1 DEF Answer
    <3>2. /\ list' \in Seq(Needs)
          /\ Books(list', space', Append(seen, p))
          /\ Fits(list', space')
      BY <1>1, <2>1, <3>1, AcceptBooks
    <3> QED
      BY <1>1, <3>1, <3>2, RulesAssumption DEF Fits
  <2>2. CASE ~v
    <3>1. space' = space /\ list' = s /\ ~p.ok
      BY <2>2 DEF Answer
    <3>2. Books(s, space, Append(seen, p))
      BY <1>1, <1>2, <3>1, RejectBooks
    <3> QED
      BY <1>1, <3>1, <3>2, RulesAssumption DEF Fits
  <2> QED
    BY <2>1, <2>2
<1>6. TypeOK'
  BY <1>1, <1>3, <1>5 DEF IInv, TypeOK
<1>7. GreedInv'
  <2>1. Books(list, space, Judged)'
    BY <1>4, <1>5 DEF Books
  <2> QED
    BY <1>1, <1>3, <1>5, <2>1 DEF GreedInv, NeedsFit, BooksAgree, Fits, Books
<1> QED
  BY <1>6, <1>7 DEF IInv

(* Every step keeps the invariant.                                         *)
LEMMA NextInv == IInv /\ [Next]_vars => IInv'
<1> SUFFICES ASSUME IInv, [Next]_vars PROVE IInv'
  OBVIOUS
<1>a. TypeOK /\ GreedInv
  BY DEF IInv
<1>b. list \in Seq(Needs) /\ view.list \in Seq(Needs) /\ view.space \in Int
  BY <1>a DEF TypeOK
<1>1. CASE OutOfGoals
  <2>1. (view.space > 0) => Spare(list, space)
    <3>1. CASE AtTop
      <4>1. list = <<>>
        BY <1>1, <3>1 DEF OutOfGoals, AtTop
      <4> QED
        BY <4>1 DEF Spare
    <3> QED
      BY <1>1, <3>1, Deciding DEF OutOfGoals
  <2> DEFINE room == view.space > 0
  <2>2. room \in BOOLEAN /\ Answer(room, list) /\ (room => Spare(list, space))
    BY <1>1, <2>1 DEF OutOfGoals
  <2>3. pc = "decide"
    BY <1>1 DEF OutOfGoals
  <2> HIDE DEF room
  <2> QED
    BY <1>b, <2>2, <2>3, Deciding, AnswerInv
<1>2. CASE RejectRequired
  BY <1>2, <1>b, Deciding, AnswerInv DEF RejectRequired
<1>3. CASE Consider
  <2>1. PICK s \in Sortings(view.list) :
          \/ s[1].num <= 0 /\ Answer(view.space > 0, Kept(s))
          \/ s[1].num > 0 /\ s[1].goal.attr \in person /\ Answer(TRUE, Kept(s))
          \/ /\ s[1].num > 0 /\ s[1].goal.attr \notin person
             /\ view' = Rest(s, view.space) /\ list' = Kept(s)
             /\ UNCHANGED <<pc, space, person, choice, personid, first, seen>>
    BY <1>3 DEF Consider
  <2>2. pc = "decide" /\ ~RejectForRequired(view.list, view.space, person) /\ view.list # <<>>
    BY <1>3 DEF Consider
  <2>3. s \in Seq(Needs) /\ DOMAIN s = DOMAIN view.list /\ Len(s) \in Nat \ {0}
    BY <1>b, <2>2, SortingKeeps
  <2>4. /\ Books(list, space, seen) /\ Fits(list, space) /\ space \in 1 .. AcceptedLimit
        /\ Spare(list, space) /\ ~first /\ ~IsFinished(seen) /\ personid = Len(seen)
    <3>1. CASE AtTop
      <4>1. view.list = list /\ view.space = space
        BY <3>1 DEF AtTop
      <4>2. space > 0 /\ space \in Int
        BY <2>2, Deciding, RulesAssumption
      <4>3. \A i \in DOMAIN list : list[i].num \in Int
        <5>1. \A i \in DOMAIN list : list[i] \in Needs
          BY <1>b
        <5> QED
          BY <5>1 DEF Needs
      <4>4. Spare(list, space)
        BY <2>2, <4>1, <4>2, <4>3 DEF Spare, RejectForRequired
      <4> QED
        BY <2>2, <4>4, Deciding
    <3> QED
      BY <2>2, <3>1, Deciding
  <2>5. /\ Kept(s) \in Seq(Needs)
        /\ Books(Kept(s), space, seen) /\ Fits(Kept(s), space) /\ Spare(Kept(s), space)
    <3>1. CASE AtTop
      <4>1. view.list = list /\ Kept(s) = s
        BY <3>1 DEF AtTop, Kept
      <4> QED
        BY <1>b, <2>3, <2>4, <4>1, SortBooks
    <3>2. CASE ~AtTop
      BY <1>b, <2>4, <3>2 DEF Kept
    <3> QED
      BY <3>1, <3>2
  <2>6. CASE Answer(view.space > 0, Kept(s))
    <3> DEFINE room == view.space > 0
    <3>1. room \in BOOLEAN /\ Answer(room, Kept(s))
      BY <2>6
    <3> HIDE DEF room
    <3> QED
      BY <2>2, <2>5, <3>1, AnswerInv
  <2>7. CASE Answer(TRUE, Kept(s))
    BY <2>2, <2>5, <2>7, AnswerInv
  <2>8. CASE /\ view' = Rest(s, view.space) /\ list' = Kept(s)
             /\ UNCHANGED <<pc, space, person, choice, personid, first, seen>>
    <3>1. Rest(s, view.space) \in [list : Seq(Needs), space : Int]
      <4> DEFINE brings(i) ==
                   CeilDiv(s[1].num * ProbGiven(s[i + 1].goal.attr, s[1].goal.attr), 10000)
                 entry(i) == [s[i + 1] EXCEPT !.num = @ - brings(i)]
                 rest == [i \in 1 .. Len(s) - 1 |-> entry(i)]
      <4>1. \A i \in DOMAIN s : /\ s[i] \in Needs /\ s[i].num \in Int
                               /\ s[i].goal \in Goals /\ s[i].goal.attr \in Attrs
        <5>1. \A i \in DOMAIN s : s[i] \in Needs
          BY <2>3
        <5>2. \A i \in DOMAIN s : s[i].num \in Int /\ s[i].goal \in Goals
          BY <5>1 DEF Needs
        <5> QED
          BY <5>1, <5>2, GreedAssumption
      <4>2. \A a, b \in Attrs : ProbGiven(a, b) \in Int
        <5> SUFFICES ASSUME NEW a \in Attrs, NEW b \in Attrs PROVE ProbGiven(a, b) \in Int
          OBVIOUS
        <5>1. Prob[a] \in Int /\ Corr[a][b] \in Int
          <6>1. Prob[a] \in 1 .. 100 /\ Corr[a] \in [Attrs -> -100 .. 100]
            BY GreedAssumption
          <6>2. Corr[a][b] \in -100 .. 100
            BY <6>1
          <6> QED
            BY <6>1, <6>2
        <5> QED
          BY <5>1 DEF ProbGiven
      <4>3. ASSUME NEW i \in 1 .. Len(s) - 1
            PROVE  brings(i) \in Int /\ i + 1 \in DOMAIN s
        <5>1. i + 1 \in DOMAIN s /\ 1 \in DOMAIN s
          BY <2>3
        <5>2. ProbGiven(s[i + 1].goal.attr, s[1].goal.attr) \in Int /\ s[1].num \in Int
          BY <4>1, <4>2, <5>1
        <5>3. \A x, y \in Int : x * y \in Int
          OBVIOUS
        <5>4. \A x \in Int : CeilDiv(x, 10000) \in Int
          BY DEF CeilDiv
        <5>5. s[1].num * ProbGiven(s[i + 1].goal.attr, s[1].goal.attr) \in Int
          BY <5>2, <5>3
        <5> QED
          BY <5>1, <5>4, <5>5
      <4> HIDE DEF brings
      <4>4. \A i \in 1 .. Len(s) - 1 : entry(i) \in Needs
        <5> SUFFICES ASSUME NEW i \in 1 .. Len(s) - 1
                     PROVE  entry(i) \in Needs
          OBVIOUS
        <5>1. s[i + 1] \in Needs /\ s[i + 1].num - brings(i) \in Int
          BY <4>1, <4>3
        <5> QED
          BY <5>1 DEF Needs
      <4> HIDE DEF entry
      <4>5. rest \in Seq(Needs)
        <5>1. rest \in [1 .. Len(s) - 1 -> Needs] /\ Len(s) - 1 \in Nat
          BY <2>3, <4>4
        <5> QED
          BY <5>1
      <4>6. view.space - s[1].num \in Int
        BY <1>b, <2>3, <4>1
      <4> QED
        BY <4>5, <4>6 DEF Rest, entry, brings
    <3>2. TypeOK'
      BY <1>a, <2>5, <2>8, <3>1 DEF TypeOK
    <3>3. Fits(list', space') /\ Books(list', space', seen') /\ Spare(Kept(s), space)
      BY <2>5, <2>8
    <3>4. NoneRequired'
      BY <2>8, <3>3 DEF NoneRequired, Spare
    <3>5. GreedInv'
      BY <2>2, <2>4, <2>8, <3>3, <3>4 DEF GreedInv, NeedsFit, BooksAgree, Judged, Fits, Books
    <3> QED
      BY <3>2, <3>5 DEF IInv
  <2> QED
    BY <2>1, <2>6, <2>7, <2>8
<1>4. CASE GetPerson
  <2>1. /\ pc = "ask" /\ personid = Len(seen) /\ ~IsFinished(seen)
        /\ seen' = Recorded /\ first' = FALSE
        /\ personid' = IF first THEN personid ELSE personid + 1
        /\ UNCHANGED <<list, space, choice>>
    BY <1>4 DEF GetPerson, book
  <2>2. /\ Fits(list, space) /\ Books(list, space, Recorded)
        /\ seen \in Seq(Persons) /\ [attrs |-> person, ok |-> choice] \in Persons
    BY <1>a, <2>1, GreedInvBooks DEF Judged, TypeOK, Persons
  <2>3. Recorded \in Seq(Persons) /\ personid' = Len(Recorded) /\ personid' \in Nat
    BY <2>1, <2>2 DEF Recorded
  <2>4. CASE IsFinished(seen')
    <3>1. pc' = "over" /\ UNCHANGED <<view, person>>
      BY <1>4, <2>4 DEF GetPerson
    <3>2. TypeOK'
      BY <1>a, <2>1, <2>3, <3>1 DEF TypeOK
    <3>3. GreedInv'
      BY <2>1, <2>2, <2>3, <3>1 DEF GreedInv, NeedsFit, BooksAgree, Judged, Fits, Books
    <3> QED
      BY <3>2, <3>3 DEF IInv
  <2>5. CASE ~IsFinished(seen')
    <3>1. /\ pc' = "decide" /\ person' \in Symbols
          /\ view' = [list |-> list, space |-> space]
      BY <1>4, <2>1, <2>3, <2>5 DEF GetPerson
    <3>2. TypeOK'
      <4>1. [list |-> list, space |-> space] \in [list : Seq(Needs), space : Int]
        BY <1>a, RulesAssumption DEF TypeOK
      <4>2. view' \in [list : Seq(Needs), space : Int]
        BY <3>1, <4>1
      <4> QED
        BY <1>a, <2>1, <2>3, <3>1, <4>2 DEF TypeOK
    <3>3. AtTop'
      BY <2>1, <3>1 DEF AtTop
    <3>4. GreedInv'
      BY <2>1, <2>2, <2>3, <2>5, <3>1, <3>3
      DEF GreedInv, NeedsFit, BooksAgree, Judged, Fits, Books
    <3> QED
      BY <3>2, <3>4 DEF IInv
  <2> QED
    BY <2>4, <2>5
<1>5. CASE GiveUp
  <2>1. /\ pc' = "gone" /\ UNCHANGED <<book, view, person, choice, personid, first>>
        /\ seen' = seen \/ seen' = Recorded
    BY <1>5 DEF GiveUp
  <2>2. Recorded \in Seq(Persons)
    <3>1. [attrs |-> person, ok |-> choice] \in Persons /\ seen \in Seq(Persons)
      BY <1>a DEF TypeOK, Persons
    <3> QED
      BY <3>1 DEF Recorded
  <2>3. TypeOK'
    BY <1>a, <2>1, <2>2 DEF TypeOK, book
  <2>4. GreedInv'
    BY <1>a, <2>1 DEF GreedInv, NeedsFit, BooksAgree, book
  <2> QED
    BY <2>3, <2>4 DEF IInv
<1>6. CASE UNCHANGED vars
  <2>1. TypeOK'
    BY <1>a, <1>6 DEF vars, book, TypeOK
  <2>2. GreedInv'
    BY <1>a, <1>6
    DEF vars, book, GreedInv, NeedsFit, BooksAgree, Judged, Recorded, AtTop, NoneRequired
  <2> QED
    BY <2>1, <2>2 DEF IInv
<1> QED
  BY <1>1, <1>2, <1>3, <1>4, <1>5, <1>6 DEF Next
-----------------------------------------------------------------------------
(* The theorems.                                                           *)

(* The player's state keeps its types.                                     *)
THEOREM GreedTypes == Spec => []TypeOK
<1>1. IInv => TypeOK
  BY DEF IInv
<1> QED
  BY <1>1, InitInv, NextInv, PTL DEF Spec

(* No goal ever needs more people than there is space for.                 *)
THEOREM GoalsAlwaysFit == Spec => []NeedsFit
<1>1. IInv => NeedsFit
  BY DEF IInv, GreedInv
<1> QED
  BY <1>1, InitInv, NextInv, PTL DEF Spec

(* The player's goals, space and person number follow from what the server *)
(* has on record.                                                          *)
THEOREM BooksAlwaysAgree == Spec => []BooksAgree
<1>1. IInv => BooksAgree
  BY DEF IInv, GreedInv
<1> QED
  BY <1>1, InitInv, NextInv, PTL DEF Spec

(* A venue that the player fills is a game won, whatever the people, the   *)
(* goals and the estimates.                                                *)
THEOREM FullVenueIsWon == Spec => []FullVenueWins
<1>1. IInv => FullVenueWins
  <2> SUFFICES ASSUME IInv, pc = "over", Accepted(seen) = AcceptedLimit
               PROVE  Status(seen) = "completed"
    BY DEF FullVenueWins
  <2>1. IsFinished(seen)
    BY RulesAssumption DEF IsFinished
  <2>2. /\ Fits(list, space) /\ Books(list, space, seen)
        /\ seen \in Seq(Persons) /\ list \in Seq(Needs)
    BY GreedInvBooks DEF IInv, Judged, TypeOK
  <2>3. space = 0
    BY <2>2, RulesAssumption DEF Books
  <2>4. ASSUME NEW g \in Goals PROVE GoalMet(g, seen)
    <3>1. CASE \A i \in DOMAIN list : list[i].goal # g
      BY <2>2, <3>1 DEF Books
    <3>2. CASE \E i \in DOMAIN list : list[i].goal = g
      <4>1. PICK i \in DOMAIN list : list[i].goal = g
        BY <3>2
      <4>2. list[i].num = g.k - AttrCount(seen, g.attr) /\ list[i].num <= 0
        BY <2>2, <2>3, <4>1 DEF Books, Fits
      <4>3. g.k \in 0 .. AcceptedLimit /\ AttrCount(seen, g.attr) \in Nat
        BY <2>2, ConstGoal
      <4>4. AttrCount(seen, g.attr) >= g.k
        BY <4>2, <4>3, RulesAssumption
      <4> QED
        BY <2>2, <4>4, ConstGoal
    <3> QED
      BY <3>1, <3>2
  <2> QED
    BY <2>1, <2>4 DEF Status, GoalsSatisfied
<1> QED
  BY <1>1, InitInv, NextInv, PTL DEF Spec

-----------------------------------------------------------------------------
(* Why the player comes to an end: requests left to make, and levels of    *)
(* the recursion left in this one.                                         *)

RoundsLeft == LossLimit - Len(seen) + (IF first THEN 1 ELSE 0)
LevelsLeft == IF pc = "decide" THEN Len(view.list) + 1 ELSE 0

Advance ==
  \/ pc' \in {"over", "gone"}
  \/ RoundsLeft > 0 /\ RoundsLeft' < RoundsLeft
  \/ RoundsLeft' = RoundsLeft /\ LevelsLeft' >= 0 /\ LevelsLeft' < LevelsLeft

(* Every request that the server answers uses up one of the rounds that    *)
(* the loss limit leaves, and every level of decide_for looks at fewer     *)
(* goals than the one before, whatever it estimates: neither get_person    *)
(* nor decide_for goes on for ever.                                        *)
THEOREM PlayerAdvances == Spec => [][Advance]_vars
<1>1. IInv /\ [Next]_vars => [Advance]_vars
  <2> SUFFICES ASSUME IInv, Next PROVE Advance
    BY DEF vars
  <2>1. /\ seen \in Seq(Persons) /\ Len(seen) \in Nat /\ LossLimit \in Nat
        /\ view.list \in Seq(Needs) /\ Len(view.list) \in Nat
    BY RulesAssumption DEF IInv, TypeOK
  <2>2. ASSUME pc = "decide", NEW v, NEW s, Answer(v, s) PROVE Advance
    <3>1. RoundsLeft' = RoundsLeft
      BY <2>2 DEF Answer, RoundsLeft
    <3>2. LevelsLeft' = 0 /\ LevelsLeft = Len(view.list) + 1
      BY <2>2 DEF Answer, LevelsLeft
    <3> QED
      BY <2>1, <3>1, <3>2 DEF Advance
  <2>3. CASE OutOfGoals
    BY <2>2, <2>3 DEF OutOfGoals
  <2>4. CASE RejectRequired
    BY <2>2, <2>4 DEF RejectRequired
  <2>5. CASE Consider
    <3>1. pc = "decide"
      BY <2>5 DEF Consider
    <3>2. PICK s \in Sortings(view.list) :
            \/ Answer(view.space > 0, Kept(s))
            \/ Answer(TRUE, Kept(s))
            \/ view' = Rest(s, view.space) /\ UNCHANGED <<pc, first, seen>>
      BY <2>5 DEF Consider
    <3>3. CASE view' = Rest(s, view.space) /\ UNCHANGED <<pc, first, seen>>
      <4>1. Len(s) = Len(view.list) /\ Len(s) \in Nat \ {0}
        <5>1. s \in Seq(Needs) /\ DOMAIN s = DOMAIN view.list
          BY <2>1, SortingKeeps
        <5>2. view.list # <<>>
          BY <2>5 DEF Consider
        <5> QED
          BY <2>1, <5>1, <5>2
      <4>2. DOMAIN view'.list = 1 .. Len(s) - 1
        BY <3>3 DEF Rest
      <4>3. Len(view'.list) = Len(s) - 1
        BY <4>1, <3>3 DEF Rest
      <4>4. LevelsLeft' = Len(s) /\ LevelsLeft = Len(s) + 1
        BY <3>1, <3>3, <4>1, <4>3 DEF LevelsLeft
      <4>5. RoundsLeft' = RoundsLeft
        BY <3>3 DEF RoundsLeft
      <4> QED
        BY <4>1, <4>4, <4>5 DEF Advance
    <3> QED
      BY <2>2, <3>1, <3>2, <3>3
  <2>6. CASE GetPerson
    <3>1. /\ ~IsFinished(seen) /\ seen' = Recorded /\ ~first'
          /\ Len(Recorded) = IF first THEN Len(seen) ELSE Len(seen) + 1
      BY <2>1, <2>6 DEF GetPerson, Recorded
    <3>2. Len(seen) < LossLimit
      BY <2>1, <3>1 DEF IsFinished
    <3>3. RoundsLeft > 0 /\ RoundsLeft' < RoundsLeft
      <4>1. CASE first
        <5>1. RoundsLeft' = LossLimit - Len(seen) /\ RoundsLeft = LossLimit - Len(seen) + 1
          BY <2>1, <3>1, <4>1 DEF RoundsLeft
        <5> QED
          BY <2>1, <3>2, <5>1
      <4>2. CASE ~first
        <5>1. RoundsLeft' = LossLimit - (Len(seen) + 1) /\ RoundsLeft = LossLimit - Len(seen)
          BY <2>1, <3>1, <4>2 DEF RoundsLeft
        <5> QED
          BY <2>1, <3>2, <5>1
      <4> QED
        BY <4>1, <4>2
    <3> QED
      BY <3>3 DEF Advance
  <2>7. CASE GiveUp
    BY <2>7 DEF GiveUp, Advance
  <2> QED
    BY <2>3, <2>4, <2>5, <2>6, <2>7 DEF Next
<1> QED
  BY <1>1, InitInv, NextInv, PTL DEF Spec

-----------------------------------------------------------------------------
(* Counting accepted people of a symbol.                                   *)

TakenAt(t, n, sym) == {i \in 1 .. n : t[i].ok /\ t[i].attrs = sym}

(* They are finitely many.                                                 *)
LEMMA TakenFinite ==
  ASSUME NEW t, NEW n \in Int, NEW sym
  PROVE  IsFiniteSet(TakenAt(t, n, sym))
<1>1. IsFiniteSet(1 .. n)
  BY FS_Interval
<1> QED
  BY <1>1, FS_Subset DEF TakenAt

(* The beginning of a list has the accepted people of its positions.       *)
LEMMA TakenOfPrefix ==
  ASSUME NEW t \in Seq(Persons), NEW n \in 0 .. Len(t), NEW sym
  PROVE  AcceptedAs(SubSeq(t, 1, n), sym) = Cardinality(TakenAt(t, n, sym))
<1>1. /\ Len(SubSeq(t, 1, n)) = n
      /\ \A i \in 1 .. n : SubSeq(t, 1, n)[i] = t[i]
  OBVIOUS
<1>2. {i \in AcceptedAt(SubSeq(t, 1, n)) : SubSeq(t, 1, n)[i].attrs = sym}
        = TakenAt(t, n, sym)
  BY <1>1 DEF AcceptedAt, TakenAt
<1> QED
  BY <1>2 DEF AcceptedAs

(* Someone rejected at the end does not count.                             *)
LEMMA TakenShorter ==
  ASSUME NEW t, NEW n \in Nat \ {0}, ~t[n].ok, NEW sym
  PROVE  TakenAt(t, n - 1, sym) = TakenAt(t, n, sym)
BY DEF TakenAt

(* Two people of the same symbol, one of them accepted, change places.     *)
LEMMA TakenExchanged ==
  ASSUME NEW t \in Seq(Persons), NEW n \in 1 .. Len(t), NEW j \in 1 .. n - 1,
         NEW u, u = [t EXCEPT ![n] = t[j], ![j] = t[n]],
         t[n].ok, ~t[j].ok, t[j].attrs = t[n].attrs, NEW sym
  PROVE  Cardinality(TakenAt(u, n, sym)) = Cardinality(TakenAt(t, n, sym))
<1>1. /\ DOMAIN t = 1 .. Len(t) /\ j # n /\ j \in 1 .. n /\ n \in 1 .. n
      /\ u[n] = t[j] /\ u[j] = t[n]
      /\ \A i \in 1 .. n : i # n /\ i # j => u[i] = t[i]
  OBVIOUS
<1>2. CASE t[n].attrs # sym
  <2>1. TakenAt(u, n, sym) = TakenAt(t, n, sym)
    BY <1>1, <1>2 DEF TakenAt
  <2> QED
    BY <2>1
<1>3. CASE t[n].attrs = sym
  <2> DEFINE others == TakenAt(t, n, sym) \ {n}
  <2>1. IsFiniteSet(others)
    BY TakenFinite, FS_Subset
  <2>2. TakenAt(t, n, sym) = others \cup {n} /\ n \notin others
    BY <1>1, <1>3 DEF TakenAt
  <2>3. TakenAt(u, n, sym) = others \cup {j} /\ j \notin others
    BY <1>1, <1>3 DEF TakenAt
  <2> HIDE DEF others
  <2>4. /\ Cardinality(others \cup {n}) = Cardinality(others) + 1
        /\ Cardinality(others \cup {j}) = Cardinality(others) + 1
    BY <2>1, <2>2, <2>3, FS_AddElement
  <2> QED
    BY <2>2, <2>3, <2>4
<1> QED
  BY <1>2, <1>3

-----------------------------------------------------------------------------
(* The invariant of the search.                                            *)

SameCounts == \A sym \in Symbols :
  Cardinality(TakenAt(text, last, sym)) = AcceptedAs(Input, sym)

(* The game is over and its people stay where they are, only verdicts      *)
(* move; nobody after "last" is needed.                                    *)
SearchInv ==
  /\ pc = "over"
  /\ text \in Seq(Persons) /\ Len(text) = Len(Input)
  /\ last \in 0 .. Len(text) /\ (last = 0 => text = <<>>)
  /\ \A i \in DOMAIN text : text[i].attrs = seen[i].attrs
  /\ SameCounts

AInv ==
  /\ IInv
  /\ step \in {"unread", "search", "done"}
  /\ step # "unread" => SearchInv
  /\ step = "done" /\ last > 1 => text[last].ok /\ \A j \in DOMAIN text : ~Match(j)

(* What is read is the beginning of the game.                              *)
LEMMA InputIsPrefix ==
  ASSUME seen \in Seq(Persons)
  PROVE  /\ Input \in Seq(Persons) /\ Len(Input) \in 0 .. Len(seen)
         /\ \A i \in DOMAIN Input : Input[i] = seen[i]
<1> DEFINE n == IF Len(seen) <= BufSize THEN Len(seen) ELSE BufSize
<1>1. n \in 0 .. Len(seen)
  BY AnalyzeAssumption
<1> HIDE DEF n
<1>2. /\ SubSeq(seen, 1, n) \in Seq(Persons) /\ Len(SubSeq(seen, 1, n)) = n
      /\ \A i \in 1 .. n : SubSeq(seen, 1, n)[i] = seen[i]
  BY <1>1
<1>3. Input = SubSeq(seen, 1, n)
  BY DEF Input, n
<1>4. DOMAIN Input = 1 .. n
  BY <1>2, <1>3
<1> QED
  BY <1>1, <1>2, <1>3, <1>4

(* Before the analyzer is started there is nothing to say.                 *)
LEMMA AInitInv == AInit => AInv
BY InitInv DEF AInit, AInv

(* A finished game stays as it is, and the search keeps its invariant.     *)
LEMMA ANextInv == AInv /\ [ANext]_allVars => AInv'
<1> SUFFICES ASSUME AInv, [ANext]_allVars PROVE AInv'
  OBVIOUS
<1>a. IInv /\ seen \in Seq(Persons) /\ step \in {"unread", "search", "done"}
  BY DEF AInv, IInv, TypeOK
<1>1. CASE Next /\ UNCHANGED analysis
  <2>1. pc # "over"
    BY <1>1 DEF Next, GetPerson, GiveUp, OutOfGoals, RejectRequired, Consider
  <2>2. step = "unread"
    BY <2>1 DEF AInv, SearchInv
  <2> QED
    BY <1>1, <1>a, <2>2, NextInv DEF analysis, AInv
<1>2. CASE Analyzer
  <2>0. UNCHANGED vars
    BY <1>2 DEF Analyzer, Read, SkipRejected, Exchange, Stop
  <2>1. IInv' /\ pc' = pc /\ seen' = seen /\ Input' = Input
    BY <1>a, <2>0, NextInv DEF vars, Input
  <2>2. CASE Read
    <3>1. /\ step' = "search" /\ text' = Input /\ last' = Len(Input) /\ pc = "over"
      BY <2>2 DEF Read
    <3>2. /\ Input \in Seq(Persons) /\ Len(Input) \in Nat
          /\ \A i \in DOMAIN Input : Input[i] = seen[i]
      BY <1>a, InputIsPrefix
    <3>3. \A sym : AcceptedAs(Input, sym) = Cardinality(TakenAt(Input, Len(Input), sym))
      <4>1. \A sym : {i \in AcceptedAt(Input) : Input[i].attrs = sym}
                       = TakenAt(Input, Len(Input), sym)
        BY DEF AcceptedAt, TakenAt
      <4> QED
        BY <4>1 DEF AcceptedAs
    <3>4. SameCounts'
      BY <2>1, <3>1, <3>3 DEF SameCounts, Symbols
    <3>5. SearchInv'
      BY <2>1, <3>1, <3>2, <3>4 DEF SearchInv
    <3> QED
      BY <2>1, <3>1, <3>5 DEF AInv
  <2>3. CASE SkipRejected
    <3>1. /\ step = "search" /\ last > 1 /\ ~text[last].ok /\ last' = last - 1
          /\ step' = step /\ text' = text /\ SearchInv
      BY <2>3 DEF SkipRejected, AInv
    <3>2. last \in Nat \ {0} /\ last - 1 \in 0 .. Len(text) /\ last - 1 # 0
      BY <3>1 DEF SearchInv
    <3>3. SameCounts'
      BY <2>1, <3>1, <3>2, TakenShorter DEF SameCounts, SearchInv, Symbols
    <3>4. SearchInv'
      BY <2>1, <3>1, <3>2, <3>3 DEF SearchInv
    <3> QED
      BY <2>1, <3>1, <3>4 DEF AInv
  <2>4. CASE Exchange
    <3>1. PICK j \in DOMAIN text :
            Match(j) /\ text' = [text EXCEPT ![last] = text[j], ![j] = text[last]]
      BY <2>4 DEF Exchange
    <3>2. /\ step = "search" /\ last > 1 /\ text[last].ok /\ last' = last
          /\ step' = step /\ SearchInv
      BY <2>4 DEF Exchange, AInv
    <3>3. /\ last \in 1 .. Len(text) /\ j \in 1 .. last - 1 /\ text \in Seq(Persons)
          /\ ~text[j].ok /\ text[j].attrs = text[last].attrs
      BY <3>1, <3>2 DEF SearchInv, Match
    <3>4. SameCounts'
      <4> DEFINE t == text
                 u == [t EXCEPT ![last] = t[j], ![j] = t[last]]
      <4>1. t \in Seq(Persons) /\ last \in 1 .. Len(t) /\ t[last].ok
        BY <3>2, <3>3
      <4>2. ~t[j].ok /\ t[j].attrs = t[last].attrs
        BY <3>3
      <4>3. u = [t EXCEPT ![last] = t[j], ![j] = t[last]] /\ text' = u
        BY <3>1
      <4> HIDE DEF t, u
      <4>4. \A sym : Cardinality(TakenAt(u, last, sym)) = Cardinality(TakenAt(t, last, sym))
        BY <3>3, <4>1, <4>2, <4>3, TakenExchanged
      <4> QED
        BY <2>1, <3>2, <4>3, <4>4 DEF SameCounts, SearchInv, Symbols, t
    <3>5. /\ text' \in Seq(Persons) /\ Len(text') = Len(text) /\ DOMAIN text' = DOMAIN text
          /\ \A i \in DOMAIN text : text'[i].attrs = text[i].attrs
      BY <3>1, <3>3
    <3>6. SearchInv'
      BY <2>1, <3>2, <3>3, <3>4, <3>5 DEF SearchInv
    <3> QED
      BY <2>1, <3>2, <3>6 DEF AInv
  <2>5. CASE Stop
    <3>1. /\ step = "search" /\ step' = "done" /\ text' = text /\ last' = last /\ SearchInv
          /\ last > 1 => text[last].ok /\ \A j \in DOMAIN text : ~Match(j)
      BY <2>5 DEF Stop, AInv
    <3>2. SearchInv'
      BY <2>1, <3>1 DEF SearchInv, SameCounts
    <3>3. \A j : Match(j)' <=> Match(j)
      BY <3>1 DEF Match
    <3> QED
      BY <2>1, <3>1, <3>2, <3>3 DEF AInv
  <2> QED
    BY <1>2, <2>2, <2>3, <2>4, <2>5 DEF Analyzer
<1>3. CASE UNCHANGED allVars
  <2>1. IInv'
    BY <1>3, <1>a, NextInv DEF allVars
  <2>2. pc' = pc /\ seen' = seen /\ step' = step /\ text' = text /\ last' = last
    BY <1>3 DEF allVars, vars, analysis
  <2>3. SearchInv' <=> SearchInv
    BY <2>2 DEF SearchInv, SameCounts, Input
  <2>4. \A j : Match(j)' <=> Match(j)
    BY <2>2 DEF Match
  <2> QED
    BY <2>1, <2>2, <2>3, <2>4 DEF AInv
<1> QED
  BY <1>1, <1>2, <1>3 DEF ANext

-----------------------------------------------------------------------------
(* The theorems.                                                           *)

(* The improved game accepts as many people of every symbol as the one     *)
(* that was played, out of the same arrivals, for any game, goals, limits  *)
(* and buffer.                                                             *)
THEOREM ImprovedGameIsWon == ASpec => []SameGameWon
<1>1. AInv => SameGameWon
  <2> SUFFICES ASSUME AInv, step = "done" PROVE
        /\ \A sym \in Symbols : AcceptedAs(Improved, sym) = AcceptedAs(Input, sym)
        /\ \A i \in DOMAIN text : text[i].attrs = seen[i].attrs
    BY DEF SameGameWon
  <2>1. SearchInv
    BY DEF AInv
  <2>2. \A sym \in Symbols : AcceptedAs(Improved, sym) = Cardinality(TakenAt(text, last, sym))
    BY <2>1, TakenOfPrefix DEF SearchInv, Improved
  <2> QED
    BY <2>1, <2>2 DEF SearchInv, SameCounts
<1> QED
  BY <1>1, AInitInv, ANextInv, PTL DEF ASpec

(* No shorter beginning of the same arrivals has the people it accepts.    *)
THEOREM ImprovedGameIsShortest == ASpec => []ShortestPossible
<1>1. AInv => ShortestPossible
  <2> SUFFICES ASSUME AInv, step = "done", Accepted(Input) > 0
               PROVE  \E sym \in Symbols : MetAs(Input, last - 1, sym) < AcceptedAs(Input, sym)
    BY DEF ShortestPossible
  <2>1. SearchInv /\ seen \in Seq(Persons)
    BY DEF AInv, IInv, TypeOK
  <2>2. /\ Input \in Seq(Persons) /\ Len(text) = Len(Input) /\ text \in Seq(Persons)
        /\ last \in 0 .. Len(text)
        /\ \A i \in 1 .. Len(text) : Input[i].attrs = text[i].attrs /\ text[i] \in Persons
    BY <2>1, InputIsPrefix DEF SearchInv
  <2>3. CASE last > 1
    <3> DEFINE sym == text[last].attrs
               met == {i \in 1 .. last - 1 : text[i].attrs = sym}
    <3>1. sym \in Symbols
      BY <2>2, <2>3 DEF Persons
    <3>2. text[last].ok /\ \A j \in 1 .. last - 1 : text[j].attrs = sym => text[j].ok
      BY <2>2, <2>3 DEF AInv, Match
    <3>3. TakenAt(text, last, sym) = met \cup {last} /\ last \notin met
      BY <2>2, <2>3, <3>2 DEF TakenAt
    <3>4. MetAs(Input, last - 1, sym) = Cardinality(met)
      <4>1. {i \in 1 .. last - 1 : Input[i].attrs = sym} = met
        BY <2>2, <2>3
      <4> QED
        BY <4>1 DEF MetAs
    <3> HIDE DEF met
    <3>5. IsFiniteSet(TakenAt(text, last, sym))
      BY <2>2, TakenFinite
    <3>6. IsFiniteSet(met)
      BY <3>3, <3>5, FS_Subset
    <3>7. /\ Cardinality(met \cup {last}) = Cardinality(met) + 1
          /\ Cardinality(met) \in Nat
      BY <3>3, <3>6, FS_AddElement, FS_CardinalityType
    <3>8. AcceptedAs(Input, sym) = Cardinality(met) + 1
      BY <2>1, <3>1, <3>3, <3>7 DEF SearchInv, SameCounts
    <3>9. MetAs(Input, last - 1, sym) < AcceptedAs(Input, sym)
      BY <3>4, <3>7, <3>8
    <3> QED
      BY <3>1, <3>9
  <2>4. CASE ~(last > 1)
    <3>1. PICK i \in AcceptedAt(Input) : TRUE
      <4>1. AcceptedAt(Input) # {}
        BY FS_EmptySet DEF Accepted
      <4> QED
        BY <4>1
    <3> DEFINE sym == Input[i].attrs
               taken == {k \in AcceptedAt(Input) : Input[k].attrs = sym}
    <3>2. sym \in Symbols
      BY <2>2, <3>1 DEF AcceptedAt, Persons
    <3>3. IsFiniteSet(taken) /\ i \in taken
      BY <2>2, <3>1, AcceptedFinite, FS_Subset
    <3>4. AcceptedAs(Input, sym) = Cardinality(taken)
      BY DEF AcceptedAs
    <3> HIDE DEF taken
    <3>5. Cardinality(taken) \in Nat /\ Cardinality(taken) # 0
      BY <3>3, FS_CardinalityType, FS_EmptySet
    <3>6. {k \in 1 .. last - 1 : Input[k].attrs = sym} = {}
      BY <2>2, <2>4
    <3>7. MetAs(Input, last - 1, sym) = 0
      BY <3>6, FS_EmptySet DEF MetAs
    <3>8. MetAs(Input, last - 1, sym) < AcceptedAs(Input, sym)
      BY <3>4, <3>5, <3>7
    <3> QED
      BY <3>2, <3>8
  <2> QED
    BY <2>3, <2>4
<1> QED
  BY <1>1, AInitInv, ANextInv, PTL DEF ASpec

(* Rounds the search can still make: one for every person before "last",   *)
(* and one for an exchange before a person is left behind.                 *)
SearchLeft == 2 * last + (IF text[last].ok THEN 1 ELSE 0)

(* An exchange leaves a rejected person at the end, and that person is     *)
(* left behind for good: although "last" stays where it is when an         *)
(* exchange starts the search over, it cannot be started over for ever.    *)
THEOREM AnalysisShrinks ==
  ASpec => /\ [](step = "search" => SearchLeft \in Nat)
           /\ [][step = "search" => step' = "done" \/ SearchLeft' < SearchLeft]_allVars
<1>1. AInv => (step = "search" => SearchLeft \in Nat)
  BY DEF AInv, SearchInv, SearchLeft
<1>2. AInv /\ [ANext]_allVars
        => [step = "search" => step' = "done" \/ SearchLeft' < SearchLeft]_allVars
  <2> SUFFICES ASSUME AInv, ANext, step = "search"
               PROVE  step' = "done" \/ SearchLeft' < SearchLeft
    BY DEF allVars
  <2>1. /\ SearchInv /\ pc = "over" /\ last \in Nat /\ text \in Seq(Persons)
        /\ last > 1 => last \in DOMAIN text
    BY DEF AInv, SearchInv
  <2>2. CASE Next /\ UNCHANGED analysis
    BY <2>1, <2>2 DEF Next, GetPerson, GiveUp, OutOfGoals, RejectRequired, Consider
  <2>3. CASE SkipRejected
    <3>1. SearchLeft = 2 * last
      BY <2>1, <2>3 DEF SkipRejected, SearchLeft
    <3>2. last' = last - 1 /\ text' = text
      BY <2>3 DEF SkipRejected
    <3>3. SearchLeft' = 2 * (last - 1) + (IF text[last - 1].ok THEN 1 ELSE 0)
      BY <3>2 DEF SearchLeft
    <3> QED
      BY <2>1, <3>1, <3>3
  <2>4. CASE Exchange
    <3>1. /\ last > 1 /\ text[last].ok /\ last' = last
          /\ \E j \in DOMAIN text :
               Match(j) /\ text' = [text EXCEPT ![last] = text[j], ![j] = text[last]]
      BY <2>4 DEF Exchange
    <3>2. PICK j \in DOMAIN text :
            Match(j) /\ text' = [text EXCEPT ![last] = text[j], ![j] = text[last]]
      BY <3>1
    <3>3. j # last /\ ~text[j].ok
      BY <2>1, <3>1, <3>2 DEF Match
    <3>4. text'[last] = text[j]
      BY <2>1, <3>1, <3>2, <3>3
    <3>5. SearchLeft' = 2 * last /\ SearchLeft = 2 * last + 1
      BY <2>1, <3>1, <3>3, <3>4 DEF SearchLeft
    <3> QED
      BY <2>1, <3>5
  <2>5. CASE Stop
    BY <2>5 DEF Stop
  <2> QED
    BY <2>2, <2>3, <2>4, <2>5 DEF ANext, Analyzer, Read
<1> QED
  BY <1>1, <1>2, AInitInv, ANextInv, PTL DEF ASpec
=============================================================================
