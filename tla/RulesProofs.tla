---------------------------- MODULE RulesProofs ----------------------------
(***************************************************************************)
(* Lemmas about the counters and limits of GameRules, which the proofs     *)
(* about the server and about the greedy player share.                     *)
(***************************************************************************)
EXTENDS GameRules, FiniteSetTheorems, WellFoundedInduction, TLAPS

(* A non-empty set of natural numbers has a least member.                  *)
LEMMA LeastNat ==
  ASSUME NEW T, T \subseteq Nat, T # {}
  PROVE  \E n \in T : \A m \in T : n <= m
<1>1. IsWellFoundedOn(OpToRel(<, Nat), Nat)
  BY NatLessThanWellFounded, Zenon
<1>2. \E x \in T : \A y \in T : <<y, x>> \notin OpToRel(<, Nat)
  BY <1>1, WFMin, Zenon
<1>3. \E x \in T : \A y \in T : ~(y < x)
  BY <1>2, Zenon DEF OpToRel
<1> QED
  BY <1>3

(* A list of judged persons has finitely many accepted ones.               *)
LEMMA AcceptedFinite ==
  ASSUME NEW s \in Seq(Persons)
  PROVE  /\ IsFiniteSet(AcceptedAt(s))
         /\ Accepted(s) \in Nat
<1>1. IsFiniteSet(1 .. Len(s))
  BY FS_Interval
<1>2. AcceptedAt(s) \subseteq 1 .. Len(s)
  BY DEF AcceptedAt
<1>3. IsFiniteSet(AcceptedAt(s))
  BY <1>1, <1>2, FS_Subset
<1> QED
  BY <1>3, FS_CardinalityType DEF Accepted

(* One more judged person adds one accepted person exactly when the        *)
(* verdict was to accept.                                                  *)
LEMMA AcceptedAppend ==
  ASSUME NEW s \in Seq(Persons), NEW p \in Persons
  PROVE  Accepted(Append(s, p)) = Accepted(s) + (IF p.ok THEN 1 ELSE 0)
<1>1. /\ Append(s, p) \in Seq(Persons)
      /\ Len(Append(s, p)) = Len(s) + 1
      /\ \A i \in 1 .. Len(s) : Append(s, p)[i] = s[i]
      /\ Append(s, p)[Len(s) + 1] = p
      /\ Len(s) \in Nat
  OBVIOUS
<1>2. CASE p.ok
  <2>1. AcceptedAt(Append(s, p)) = AcceptedAt(s) \cup {Len(s) + 1}
    BY <1>1, <1>2 DEF AcceptedAt
  <2>2. Len(s) + 1 \notin AcceptedAt(s)
    BY <1>1 DEF AcceptedAt
  <2> QED
    BY <1>2, <2>1, <2>2, AcceptedFinite, FS_AddElement DEF Accepted
<1>3. CASE ~p.ok
  <2>1. AcceptedAt(Append(s, p)) = AcceptedAt(s)
    BY <1>1, <1>3 DEF AcceptedAt
  <2> QED
    BY <1>3, <2>1, AcceptedFinite DEF Accepted
<1> QED
  BY <1>2, <1>3

(* A new game is not over.                                                 *)
LEMMA EmptyNotFinished == ~IsFinished(<<>>)
<1>1. AcceptedAt(<<>>) = {}
  BY DEF AcceptedAt
<1>2. Accepted(<<>>) = 0
  BY <1>1, FS_EmptySet DEF Accepted
<1> QED
  BY <1>2, RulesAssumption DEF IsFinished

(* Judging one more person of a game that is not over respects the limits. *)
LEMMA OneMoreFits ==
  ASSUME NEW s \in Seq(Persons), NEW p \in Persons, ~IsFinished(s)
  PROVE  /\ Accepted(Append(s, p)) <= AcceptedLimit
         /\ Len(Append(s, p)) <= LossLimit
<1>1. /\ Accepted(s) < AcceptedLimit
      /\ Len(s) < LossLimit
  BY AcceptedFinite, RulesAssumption DEF IsFinished
<1> QED
  BY <1>1, AcceptedAppend, AcceptedFinite, RulesAssumption

(* Nobody was judged in a new game.                                        *)
LEMMA EmptyCounts ==
  /\ Accepted(<<>>) = 0
  /\ \A a : AttrCount(<<>>, a) = 0
<1>1. AcceptedAt(<<>>) = {}
  BY DEF AcceptedAt
<1>2. \A a : {i \in AcceptedAt(<<>>) : a \in (<<>>)[i].attrs} = {}
  BY <1>1
<1> QED
  BY <1>1, <1>2, FS_EmptySet DEF Accepted, AttrCount

(* One more judged person adds to the count of an attribute exactly when   *)
(* an accepted person has it.                                              *)
LEMMA AttrCountAppend ==
  ASSUME NEW s \in Seq(Persons), NEW p \in Persons, NEW a
  PROVE  /\ AttrCount(s, a) \in Nat
         /\ AttrCount(Append(s, p), a) =
              AttrCount(s, a) + (IF p.ok /\ a \in p.attrs THEN 1 ELSE 0)
<1> DEFINE With(t) == {i \in AcceptedAt(t) : a \in t[i].attrs}
<1>1. /\ Append(s, p) \in Seq(Persons)
      /\ Len(Append(s, p)) = Len(s) + 1
      /\ \A i \in 1 .. Len(s) : Append(s, p)[i] = s[i]
      /\ Append(s, p)[Len(s) + 1] = p
      /\ Len(s) \in Nat
  OBVIOUS
<1>2. IsFiniteSet(With(s)) /\ Cardinality(With(s)) \in Nat
  BY AcceptedFinite, FS_Subset, FS_CardinalityType
<1>3. CASE p.ok /\ a \in p.attrs
  <2>1. With(Append(s, p)) = With(s) \cup {Len(s) + 1}
    BY <1>1, <1>3 DEF AcceptedAt
  <2>2. Len(s) + 1 \notin With(s)
    BY <1>1 DEF AcceptedAt
  <2>3. Cardinality(With(s) \cup {Len(s) + 1}) = Cardinality(With(s)) + 1
    BY <1>2, <2>2, FS_AddElement
  <2> QED
    BY <1>2, <1>3, <2>1, <2>3 DEF AttrCount
<1>4. CASE ~(p.ok /\ a \in p.attrs)
  <2>1. With(Append(s, p)) = With(s)
    BY <1>1, <1>4 DEF AcceptedAt
  <2>2. AttrCount(Append(s, p), a) = AttrCount(s, a) /\ AttrCount(s, a) \in Nat
    BY <1>2, <2>1, Zenon DEF AttrCount
  <2> QED
    BY <1>4, <2>2
<1> QED
  BY <1>3, <1>4
=============================================================================
