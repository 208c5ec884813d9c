-------------------------------- MODULE Greed --------------------------------
(***************************************************************************)
(* The greedy player, greed.c, in a game of its own: how it decides, how   *)
(* it keeps the goals and the space that are left, and the requests it     *)
(* sends.  The server's side is GameRules on the list of judged people:    *)
(* a verdict on the current person is recorded and answered with the next  *)
(* person or the end (what PlayServer does for one player without faults). *)
(*                                                                         *)
(* Probabilities are percentages and the arithmetic on them is exact where *)
(* the program rounds floats: they only order and estimate.                *)
(***************************************************************************)
EXTENDS GameRules

CONSTANTS
  Prob,   \* Prob[a] : how often attribute a is set, in percent
  Corr    \* Corr[a][b] : correlation of a and b, in percent

(* The player understands goals ">= attr k" only, and k people must fit.   *)
ASSUME GreedAssumption ==
  /\ IsFiniteSet(Goals)
  /\ \A g \in Goals : g.kind = "const" /\ g.attr \in Attrs /\ g.k \in 0 .. AcceptedLimit
  /\ Prob \in [Attrs -> 1 .. 100]
  /\ Corr \in [Attrs -> [Attrs -> -100 .. 100]]

VARIABLES
  pc,         \* "ask", "decide", "over" or "gone" (dump_exit)
  list,       \* all_goals->g[0 .. n-1]: goals and how many people they need
  space,      \* all_goals->space
  view,       \* the goals and the space that decide_for looks at
  person,     \* attributes of the person to decide on
  choice,     \* the verdict to send
  personid,   \* the person number of the next request
  first,      \* no person was received yet
  seen        \* the server's list of judged people

book == <<list, space>>
vars == <<pc, list, space, view, person, choice, personid, first, seen>>

Needs == [goal : Goals, num : Int]

TypeOK ==
  /\ pc \in {"ask", "decide", "over", "gone"}
  /\ list \in Seq(Needs)
  /\ space \in 0 .. AcceptedLimit
  /\ view \in [list : Seq(Needs), space : Int]
  /\ person \in Symbols
  /\ choice \in BOOLEAN
  /\ personid \in Nat
  /\ first \in BOOLEAN
  /\ seen \in Seq(Persons)

(* new_game: the goals in the order the server lists them.                 *)
Init ==
  /\ pc = "ask"
  /\ list \in {[i \in 1 .. Cardinality(Goals) |-> [goal |-> f[i], num |-> f[i].k]] :
                 f \in {f \in [1 .. Cardinality(Goals) -> Goals] :
                          \A g \in Goals : \E i \in DOMAIN f : f[i] = g}}
  /\ space = AcceptedLimit
  /\ view = [list |-> <<>>, space |-> 0]
  /\ person = NoAttrs
  /\ choice = FALSE
  /\ personid = 0
  /\ first = TRUE
  /\ seen = <<>>

-----------------------------------------------------------------------------
(* Estimates.                                                              *)

CeilDiv(a, b) == -((-a) \div b)

(* getL: expected number of people until the goal is met.                  *)
LengthFor(need) == CeilDiv(need.num * 100, Prob[need.goal.attr])

(* get_p_given, in hundredths of a percent.                                *)
ProbGiven(a, given) ==
  IF Corr[a][given] < 0 THEN Prob[a] * (100 + Corr[a][given])
  ELSE Prob[a] * 100 + Corr[a][given] * (100 - Prob[a])

(* sort_by_L: longest first; qsort leaves the order of equals open.        *)
Sortings(s) ==
  {[i \in DOMAIN s |-> s[f[i]]] :
     f \in {f \in [DOMAIN s -> DOMAIN s] :
              /\ \A i \in DOMAIN s : \E j \in DOMAIN s : f[j] = i
              /\ \A i, j \in DOMAIN s : i < j => LengthFor(s[f[i]]) >= LengthFor(s[f[j]])}}

(* Variant: decide_for is called again on the goals it was given.          *)
RestUnchanged(s, room) == view

(* adjust_goal_rest: the other goals, less what meeting the first one is   *)
(* expected to bring.                                                      *)
Rest(s, room) ==
  [list |-> [i \in 1 .. Len(s) - 1 |->
               [s[i + 1] EXCEPT !.num =
                  @ - CeilDiv(s[1].num * ProbGiven(s[i + 1].goal.attr, s[1].goal.attr), 10000)]],
   space |-> room - s[1].num]

-----------------------------------------------------------------------------
(* decide_for, one level of its recursion per action.                      *)

(* Variant: off by one.                                                    *)
RejectWhenTooLate(s, room, p) ==
  room > 0 /\ \E i \in DOMAIN s : s[i].num > room /\ s[i].goal.attr \notin p

(* reject_for_required *)
RejectForRequired(s, room, p) ==
  room > 0 /\ \E i \in DOMAIN s : s[i].num >= room /\ s[i].goal.attr \notin p

(* Variant: goals are dropped one person early.                            *)
DropAlmostMet(s) ==
  SubSeq(s, 1, CHOOSE n \in 0 .. Len(s) :
    /\ \A i \in n + 1 .. Len(s) : s[i].num <= 1
    /\ n > 0 => s[n].num > 1)

(* The while loop of update_goals: met goals at the end are dropped.       *)
DropMet(s) ==
  SubSeq(s, 1, CHOOSE n \in 0 .. Len(s) :
    /\ \A i \in n + 1 .. Len(s) : s[i].num <= 0
    /\ n > 0 => s[n].num > 0)

Admitted(s) ==
  [i \in DOMAIN s |->
     IF s[i].goal.attr \in person THEN [s[i] EXCEPT !.num = @ - 1] ELSE s[i]]

(* Variant: the space is updated where the person is accepted as well.     *)
AnswerTwice(verdict, s) ==
  /\ choice' = verdict
  /\ pc' = "ask"
  /\ IF verdict THEN space' = space - 2 /\ list' = DropMet(Admitted(s))
     ELSE list' = s /\ UNCHANGED space
  /\ UNCHANGED <<view, person, personid, first, seen>>

(* The decision, then update_goals when it is to accept.                   *)
Answer(verdict, s) ==
  /\ choice' = verdict
  /\ pc' = "ask"
  /\ IF verdict THEN space' = space - 1 /\ list' = DropMet(Admitted(s))
     ELSE list' = s /\ UNCHANGED space
  /\ UNCHANGED <<view, person, personid, first, seen>>

(* Level 0 looks at the player's own list, which sort_by_L reorders.       *)
AtTop == view = [list |-> list, space |-> space]
Kept(s) == IF AtTop THEN s ELSE list

OutOfGoals ==
  /\ pc = "decide"
  /\ view.list = <<>>
  /\ Answer(view.space > 0, list)

RejectRequired ==
  /\ pc = "decide"
  /\ view.list # <<>>
  /\ RejectForRequired(view.list, view.space, person)
  /\ Answer(FALSE, list)

Consider ==
  /\ pc = "decide"
  /\ view.list # <<>>
  /\ ~RejectForRequired(view.list, view.space, person)
  /\ \E s \in Sortings(view.list) :
       \/ /\ s[1].num <= 0
          /\ Answer(view.space > 0, Kept(s))
       \/ /\ s[1].num > 0 /\ s[1].goal.attr \in person
          /\ Answer(TRUE, Kept(s))
       \/ /\ s[1].num > 0 /\ s[1].goal.attr \notin person
          /\ view' = Rest(s, view.space)
          /\ list' = Kept(s)
          /\ UNCHANGED <<pc, space, person, choice, personid, first, seen>>

-----------------------------------------------------------------------------
(* get_person and parse_person.                                            *)

(* What the server has on record once it has handled the request.          *)
Recorded ==
  IF first THEN seen ELSE Append(seen, [attrs |-> person, ok |-> choice])

(* The request names the person the server stands at; the reply is the end *)
(* of the game or the next person.                                         *)
GetPerson ==
  /\ pc = "ask"
  /\ personid = Len(seen) /\ ~IsFinished(seen)
  /\ seen' = Recorded
  /\ personid' = IF first THEN personid ELSE personid + 1
  /\ first' = FALSE
  /\ IF IsFinished(seen')
     THEN pc' = "over" /\ UNCHANGED <<view, person>>
     ELSE /\ pc' = IF Len(seen') = personid' THEN "decide" ELSE "gone"
          /\ \E p \in Symbols : person' = p
          /\ view' = [list |-> list, space |-> space]
  /\ UNCHANGED <<book, choice>>

(* "wrong person", "game finished", or a request or reply that got lost    *)
(* before or after the verdict was recorded: the player exits.             *)
GiveUp ==
  /\ pc = "ask"
  /\ pc' = "gone"
  /\ \/ UNCHANGED seen
     \/ personid = Len(seen) /\ ~IsFinished(seen) /\ seen' = Recorded
  /\ UNCHANGED <<book, view, person, choice, personid, first>>

Next == GetPerson \/ GiveUp \/ OutOfGoals \/ RejectRequired \/ Consider

Spec == Init /\ [][Next]_vars

(* The program runs and every request is answered or fails.                *)
FairSpec == Spec /\ WF_vars(Next)
-----------------------------------------------------------------------------
(* Properties.                                                             *)

(* What the server will have on record when the pending request is served. *)
Judged == IF pc = "ask" THEN Recorded ELSE seen

(* No goal ever needs more people than there is space for: the player      *)
(* never paints itself into a corner, whatever its estimates.              *)
NeedsFit == \A i \in DOMAIN list : list[i].num <= space

(* The player's books are the server's: space, needs and the number of the *)
(* next person follow from the judged people, and a goal that was dropped  *)
(* is met.                                                                 *)
BooksAgree ==
  pc # "gone" =>
    /\ space = AcceptedLimit - Accepted(Judged)
    /\ \A i \in DOMAIN list :
         list[i].num = list[i].goal.k - AttrCount(Judged, list[i].goal.attr)
    /\ \A g \in Goals :
         (\A i \in DOMAIN list : list[i].goal # g) => GoalMet(g, Judged)
    /\ personid = Len(seen)

(* A venue that the greedy player fills is a game won.                     *)
FullVenueWins ==
  pc = "over" /\ Accepted(seen) = AcceptedLimit => Status(seen) = "completed"

(* The player comes to an end, also when it looks past goals it cannot     *)
(* help with the person at hand.                                           *)
PlayerFinishes == <>(pc \in {"over", "gone"})
-----------------------------------------------------------------------------
(* Why the goals always fit: GreedInv is the inductive invariant of        *)
(* GreedProofs.                                                            *)

(* Nobody who lacks an attribute is turned down for want of room.          *)
NoneRequired ==
  \A i \in DOMAIN list : list[i].goal.attr \notin person => list[i].num < space

(* A level of the recursion that looks at estimates was reached through    *)
(* one that looked at the goals themselves and had room to spare.          *)
GreedInv ==
  /\ NeedsFit
  /\ BooksAgree
  /\ pc = "decide" => ~first /\ ~IsFinished(seen) /\ (AtTop \/ NoneRequired)
=============================================================================
