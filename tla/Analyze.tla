------------------------------- MODULE Analyze -------------------------------
(***************************************************************************)
(* The offline analyzer, analyze.c, on a game that the greedy player has   *)
(* finished: parse.sh turns the player's log into one letter per person,   *)
(* the symbol as the letter and the verdict as its case, and the analyzer  *)
(* moves the last accepted person to an earlier rejected one of the same   *)
(* symbol until it cannot.  What remains in front is the shortest game     *)
(* that accepts the same people.  Here a letter is a judged person.        *)
(***************************************************************************)
EXTENDS Greed

CONSTANT BufSize     \* sizeof(seq), 8192; longer input is not read

ASSUME AnalyzeAssumption == BufSize \in Nat \ {0}

VARIABLES
  step,     \* "unread", "search" or "done"
  text,     \* the array seq
  last      \* the program's i, counted from 1 as TLA+ sequences are

analysis == <<step, text, last>>
allVars == <<vars, analysis>>

AInit ==
  /\ Init
  /\ step = "unread" /\ text = <<>> /\ last = 0

(* What the read loop puts into seq.                                       *)
Input == SubSeq(seen, 1, IF Len(seen) <= BufSize THEN Len(seen) ELSE BufSize)

Read ==
  /\ pc = "over" /\ step = "unread"
  /\ step' = "search"
  /\ text' = Input
  /\ last' = Len(Input)
  /\ UNCHANGED vars

(* Someone who was rejected is not needed at the end.                      *)
SkipRejected ==
  /\ step = "search"
  /\ last > 1 /\ ~text[last].ok
  /\ last' = last - 1
  /\ UNCHANGED <<vars, step, text>>

(* Variants: any rejected person will do; the search begins one late; the  *)
(* verdict is not looked at.                                               *)
MatchAnyone(j) == j < last /\ ~text[j].ok
MatchLate(j) == j > 1 /\ j < last /\ ~text[j].ok /\ text[j].attrs = text[last].attrs
MatchAgain(j) == j < last /\ text[j].attrs = text[last].attrs

(* A previously rejected person of the same type.                          *)
Match(j) == j < last /\ ~text[j].ok /\ text[j].attrs = text[last].attrs

Exchange ==
  /\ step = "search"
  /\ last > 1 /\ text[last].ok
  /\ \E j \in DOMAIN text :
       /\ Match(j) /\ \A k \in 1 .. j - 1 : ~Match(k)
       /\ text' = [text EXCEPT ![last] = text[j], ![j] = text[last]]
  /\ UNCHANGED <<vars, step, last>>

Stop ==
  /\ step = "search"
  /\ last > 1 => text[last].ok /\ \A j \in DOMAIN text : ~Match(j)
  /\ step' = "done"
  /\ UNCHANGED <<vars, text, last>>

Analyzer == Read \/ SkipRejected \/ Exchange \/ Stop
ANext == (Next /\ UNCHANGED analysis) \/ Analyzer

(* The player as before; the analyzer runs to its end once started.        *)
ASpec == AInit /\ [][ANext]_allVars
AFairSpec ==
  /\ ASpec
  /\ WF_allVars(Next /\ UNCHANGED analysis)
  /\ WF_allVars(SkipRejected \/ Exchange \/ Stop)
-----------------------------------------------------------------------------
(* Properties.                                                             *)

Improved == SubSeq(text, 1, last)

AcceptedAs(s, sym) == Cardinality({i \in AcceptedAt(s) : s[i].attrs = sym})
MetAs(s, n, sym) == Cardinality({i \in 1 .. n : s[i].attrs = sym})

(* The improved game accepts as many people of every symbol as the game    *)
(* that was played, out of the same arrivals: whatever goals and limit the *)
(* one met, the other meets.                                               *)
SameGameWon ==
  step = "done" =>
    /\ \A sym \in Symbols : AcceptedAs(Improved, sym) = AcceptedAs(Input, sym)
    /\ \A i \in DOMAIN text : text[i].attrs = seen[i].attrs

(* It is the shortest such game: in fewer arrivals there are not enough    *)
(* people of some symbol.  (With nobody accepted the length is one, not    *)
(* zero.)                                                                  *)
ShortestPossible ==
  step = "done" /\ Accepted(Input) > 0 =>
    \E sym \in Symbols : MetAs(Input, last - 1, sym) < AcceptedAs(Input, sym)

(* The search ends, although every exchange starts it over.                *)
AnalysisEnds == step = "search" ~> step = "done"
=============================================================================
