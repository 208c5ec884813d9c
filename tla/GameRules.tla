------------------------------ MODULE GameRules ------------------------------
(***************************************************************************)
(* The rules of one game of server/game.c and server/goal.c: what a        *)
(* judged person is, when a game is over, when its goals are met and what  *)
(* the server answers about it.  Everything here is computed from the list *)
(* of judged persons, which is what game_update does after every load and  *)
(* every verdict.                                                          *)
(***************************************************************************)
EXTENDS Integers, Sequences, FiniteSets

CONSTANTS
  AcceptedLimit,   \* ACCEPTED_LIMIT, 1000 in game.h
  LossLimit,       \* LOSS_LIMIT, 20000 + ACCEPTED_LIMIT in game.h
  Attrs,           \* attribute indices in use, within 0 .. MAX_ATTRS-1
  Goals            \* the goals of the game's type, see GoalMet

ASSUME RulesAssumption ==
  /\ AcceptedLimit \in Nat \ {0}
  /\ LossLimit \in Nat
  /\ LossLimit > AcceptedLimit

(* A symbol is the set of attributes of a person (bits 0 to 6 of a byte);  *)
(* a judged person adds BIT_ATTR_ACCEPT.                                   *)
Symbols == SUBSET Attrs
Persons == [attrs : Symbols, ok : BOOLEAN]
NoAttrs == {}

(* game_update: the counters derived from the list of judged persons.      *)
AcceptedAt(seen) == {i \in 1 .. Len(seen) : seen[i].ok}
Accepted(seen) == Cardinality(AcceptedAt(seen))
AttrCount(seen, a) == Cardinality({i \in AcceptedAt(seen) : a \in seen[i].attrs})

(* Variant: off by one at the limits.                                      *)
IsFinishedLate(seen) ==
  \/ Accepted(seen) > AcceptedLimit
  \/ Len(seen) > LossLimit

(* game_is_finished *)
IsFinished(seen) ==
  \/ Accepted(seen) >= AcceptedLimit
  \/ Len(seen) >= LossLimit

(***************************************************************************)
(* The two shapes of goal in game_params: ">= attr k" (types 0 to 2) and   *)
(* ">= attr / other k" (type 3).  GoalEval models how the expression is    *)
(* evaluated; this is its value on these two shapes.                       *)
(***************************************************************************)
GoalBound(goal, seen) ==
  IF goal.kind = "const" THEN goal.k ELSE AttrCount(seen, goal.other) \div goal.k
GoalMet(goal, seen) == AttrCount(seen, goal.attr) >= GoalBound(goal, seen)
GoalsSatisfied(seen) == \A goal \in Goals : GoalMet(goal, seen)

(* format_game: the "status" field of a reply.                             *)
Status(seen) ==
  IF ~IsFinished(seen) THEN "running"
  ELSE IF GoalsSatisfied(seen) THEN "completed" ELSE "failed"
=============================================================================
