------------------------------- MODULE GameLog -------------------------------
(***************************************************************************)
(* What the server promises about the games it plays, without requests,    *)
(* threads or database commands.  A game is a log of judged persons that   *)
(* only grows.  One symbol at a time is drawn for the position after the   *)
(* log; once drawn it stays until it is judged, and the judged person is   *)
(* the drawn symbol with the player's verdict.  The server may also lose   *)
(* the symbol of a game (a refused command, a crash): such a game never    *)
(* moves again, because no code path draws a replacement.                  *)
(***************************************************************************)
EXTENDS GameRules

CONSTANTS Games, Nobody

VARIABLES
  log,     \* log[g] : the judged persons of g, oldest first
  phase,   \* phase[g] : what holds of the position after the log
  offer    \* offer[g] : the symbol drawn for that position, or Nobody

logVars == <<log, phase, offer>>

Phases == {"absent", "due", "open", "over", "lost"}

LogInit ==
  /\ log = [g \in Games |-> <<>>]
  /\ phase = [g \in Games |-> "absent"]
  /\ offer = [g \in Games |-> Nobody]

Start(g) ==
  /\ phase[g] = "absent"
  /\ phase' = [phase EXCEPT ![g] = "due"]
  /\ UNCHANGED <<log, offer>>

Draw(g) ==
  /\ phase[g] = "due"
  /\ \E s \in Symbols : offer' = [offer EXCEPT ![g] = s]
  /\ phase' = [phase EXCEPT ![g] = "open"]
  /\ UNCHANGED log

Judge(g) ==
  /\ phase[g] = "open"
  /\ \E ok \in BOOLEAN :
       log' = [log EXCEPT ![g] = Append(@, [attrs |-> offer[g], ok |-> ok])]
  /\ offer' = [offer EXCEPT ![g] = Nobody]
  /\ phase' = [phase EXCEPT ![g] = IF IsFinished(log'[g]) THEN "over" ELSE "due"]

Lose(g) ==
  /\ phase[g] \in {"due", "open"}
  /\ phase' = [phase EXCEPT ![g] = "lost"]
  /\ offer' = [offer EXCEPT ![g] = Nobody]
  /\ UNCHANGED log

LogNext == \E g \in Games : Start(g) \/ Draw(g) \/ Judge(g) \/ Lose(g)

LogSpec == LogInit /\ [][LogNext]_logVars
=============================================================================
