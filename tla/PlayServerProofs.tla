-------------------------- MODULE PlayServerProofs --------------------------
(***************************************************************************)
(* Proofs about PlayServer for every number of games, attributes and       *)
(* limits.  Type correctness and NeverShrinks hold for any number of       *)
(* threads; the other safety properties hold when requests do not overlap  *)
(* (Serial) and rest on the inductive invariant SerialInv.               *)
(***************************************************************************)
EXTENDS PlayServer, RulesProofs

-----------------------------------------------------------------------------
(* Lemmas about the commands.                                              *)

(* SETRANGE keeps a list of judged persons, and one written at its end     *)
(* appends.                                                                *)
LEMMA SetRangeType ==
  ASSUME NEW s \in Seq(Persons), NEW p \in Persons,
         NEW offset \in Nat, offset <= Len(s)
  PROVE  /\ SetRange(s, offset, p) \in Seq(Persons)
         /\ Len(SetRange(s, offset, p)) =
              IF offset < Len(s) THEN Len(s) ELSE Len(s) + 1
         /\ offset = Len(s) => SetRange(s, offset, p) = Append(s, p)
  BY DEF SetRange

-----------------------------------------------------------------------------
(* Type correctness and history, for any number of threads.                *)

(* The initial state is well typed.                                        *)
LEMMA InitTypeInv == Init => TypeInv
<1> SUFFICES ASSUME Init PROVE TypeInv
  OBVIOUS
<1>1. <<>> \in Seq(Persons) /\ Len(<<>>) = 0
  OBVIOUS
<1>2. TypeOK
  BY <1>1, RulesAssumption DEF Init, TypeOK, Requests, NoRequest, NoCopy, Steps, Verdicts
<1>3. LengthInv
  BY <1>1, RulesAssumption DEF Init, LengthInv, InFlight, NoCopy
<1> QED
  BY <1>2, <1>3 DEF TypeInv

(* A handler that returns leaves a well typed state, whatever its last     *)
(* command wrote.                                                          *)
LEMMA ReturnTypeInv ==
  ASSUME TypeInv, NEW t \in Threads, Return(t), UNCHANGED made,
         next' \in [Games -> Symbols \cup {Nobody}],
         seen' \in [Games -> Seq(Persons)],
         \A g \in Games : Len(seen'[g]) \in Len(seen[g]) .. LossLimit,
         told' \subseteq [game : Games, count : 0 .. LossLimit, next : Symbols],
         acks' \subseteq [game : Games, person : 0 .. LossLimit, ok : BOOLEAN]
  PROVE  TypeInv'
<1>1. <<>> \in Seq(Persons) /\ Len(<<>>) = 0
  OBVIOUS
<1>2. TypeOK'
  BY <1>1, RulesAssumption
  DEF TypeInv, TypeOK, Return, Requests, NoRequest, NoCopy, Steps, Verdicts
<1>3. LengthInv'
  BY <1>1, RulesAssumption
  DEF TypeInv, TypeOK, LengthInv, InFlight, Return, NoRequest, NoCopy, GameOf
<1> QED
  BY <1>2, <1>3 DEF TypeInv

LEMMA QuietReturnTypeInv ==
  ASSUME TypeInv, NEW t \in Threads, Return(t), UNCHANGED <<made, next, seen>>,
         told' \subseteq [game : Games, count : 0 .. LossLimit, next : Symbols],
         acks' \subseteq [game : Games, person : 0 .. LossLimit, ok : BOOLEAN]
  PROVE  TypeInv'
<1>1. \A g \in Games : Len(seen[g]) \in Len(seen[g]) .. LossLimit
  BY RulesAssumption DEF TypeInv, TypeOK, LengthInv
<1> QED
  BY <1>1, ReturnTypeInv DEF TypeInv, TypeOK

(* A game that is not over has room for one more verdict.                  *)
LEMMA UnfinishedHasRoom ==
  ASSUME NEW s \in Seq(Persons), ~IsFinished(s)
  PROVE  Len(s) < LossLimit /\ Len(s) \in 0 .. LossLimit
  BY RulesAssumption DEF IsFinished

(* Replies that name an unfinished game and verdicts that were answered    *)
(* are well typed.                                                         *)
LEMMA TellType ==
  ASSUME TypeInv, NEW g \in Games, NEW count \in 0 .. LossLimit,
         NEW n \in Symbols \cup {Nobody}, TellRunning(g, count, n)
  PROVE  told' \subseteq [game : Games, count : 0 .. LossLimit, next : Symbols]
<1>1. Shown(n) \in Symbols
  BY DEF Shown, NoAttrs, Symbols
<1> QED
  BY <1>1 DEF TypeInv, TypeOK, TellRunning

LEMMA AcknowledgeType ==
  ASSUME TypeInv, NEW t \in Threads, pc[t] # "idle", Acknowledge(t)
  PROVE  acks' \subseteq [game : Games, person : 0 .. LossLimit, ok : BOOLEAN]
<1>1. /\ GameOf(t) \in Games
      /\ req[t].person \in 0 .. LossLimit
  BY DEF TypeInv, TypeOK, Requests, GameOf
<1>2. (req[t].verdict # "false") \in BOOLEAN
  OBVIOUS
<1>3. [game |-> GameOf(t), person |-> req[t].person, ok |-> req[t].verdict # "false"]
        \in [game : Games, person : 0 .. LossLimit, ok : BOOLEAN]
  BY <1>1, <1>2, Zenon
<1>4. acks \subseteq [game : Games, person : 0 .. LossLimit, ok : BOOLEAN]
  BY DEF TypeInv, TypeOK
<1> QED
  BY <1>3, <1>4, Zenon DEF Acknowledge

(* SETRANGE writes a person at a position its game has reached: the list   *)
(* stays a list of judged persons and never gets shorter or too long.      *)
LEMMA WriteGrows ==
  ASSUME TypeInv, NEW t \in Threads, WriteVerdict(t)
  PROVE  /\ seen' \in [Games -> Seq(Persons)]
         /\ \A h \in Games : Len(seen'[h]) \in Len(seen[h]) .. LossLimit
         /\ Append(copy[t].seen, JudgedPerson(t)) \in Seq(Persons)
         /\ Len(Append(copy[t].seen, JudgedPerson(t))) <= LossLimit
<1> DEFINE g == GameOf(t)
           p == JudgedPerson(t)
           offset == Len(copy[t].seen)
<1>1. /\ g \in Games
      /\ seen[g] \in Seq(Persons)
      /\ copy[t].seen \in Seq(Persons)
      /\ offset \in Nat /\ offset < LossLimit /\ offset <= Len(seen[g])
      /\ copy[t].next \in Symbols
  BY DEF TypeInv, TypeOK, LengthInv, InFlight, WriteVerdict, GameOf
<1>2. p \in Persons
  BY <1>1, Zenon DEF JudgedPerson, Persons
<1>3. /\ seen' = [seen EXCEPT ![g] = SetRange(seen[g], offset, p)]
      /\ SetRange(seen[g], offset, p) \in Seq(Persons)
      /\ Len(SetRange(seen[g], offset, p)) \in Len(seen[g]) .. LossLimit
  <2>1. seen' = [seen EXCEPT ![g] = SetRange(seen[g], offset, p)]
    BY DEF WriteVerdict
  <2>2. Len(seen[g]) \in Nat /\ Len(seen[g]) <= LossLimit
    BY <1>1 DEF TypeInv, LengthInv
  <2>3. /\ SetRange(seen[g], offset, p) \in Seq(Persons)
        /\ Len(SetRange(seen[g], offset, p)) =
             IF offset < Len(seen[g]) THEN Len(seen[g]) ELSE Len(seen[g]) + 1
    BY <1>1, <1>2, SetRangeType
  <2> QED
    BY <1>1, <2>1, <2>2, <2>3, RulesAssumption
<1>4. seen' \in [Games -> Seq(Persons)]
  BY <1>1, <1>3 DEF TypeInv, TypeOK
<1>5. \A h \in Games : Len(seen'[h]) \in Len(seen[h]) .. LossLimit
  BY <1>1, <1>3, RulesAssumption DEF TypeInv, TypeOK, LengthInv
<1>6. Append(copy[t].seen, p) \in Seq(Persons) /\ Len(Append(copy[t].seen, p)) <= LossLimit
  BY <1>1, <1>2, RulesAssumption
<1> QED
  BY <1>4, <1>5, <1>6

(* Every step keeps the type and length invariant.                         *)
LEMMA NextTypeInv == TypeInv /\ [Next]_vars => TypeInv'
<1> SUFFICES ASSUME TypeInv, [Next]_vars PROVE TypeInv'
  OBVIOUS
<1> USE RulesAssumption
<1>0. <<>> \in Seq(Persons) /\ Len(<<>>) = 0
  OBVIOUS
<1>1. ASSUME NEW t \in Threads, NEW g \in Games, NEW person \in 0 .. LossLimit,
             NEW verdict \in Verdicts, Receive(t, g, person, verdict)
      PROVE  TypeInv'
  <2>1. TypeOK'
    BY <1>1 DEF TypeInv, TypeOK, Receive, Go, Requests, Steps, store, replies
  <2>2. LengthInv'
    BY <1>1 DEF TypeInv, TypeOK, LengthInv, InFlight, GameOf, Receive, Go, store, replies
  <2> QED
    BY <2>1, <2>2 DEF TypeInv
<1>2. ASSUME NEW t \in Threads, NEW g \in Games, NewGame(t, g)
      PROVE  TypeInv'
  <2>1. TypeOK'
    BY <1>2 DEF TypeInv, TypeOK, NewGame, Go, Requests, Verdicts, Steps, store, replies
  <2>2. LengthInv'
    BY <1>2 DEF TypeInv, TypeOK, LengthInv, InFlight, GameOf, NewGame, Go, store, replies
  <2> QED
    BY <2>1, <2>2 DEF TypeInv
<1>3. ASSUME NEW t \in Threads, LoadHash(t)
      PROVE  TypeInv'
  <2>1. CASE GameOf(t) \notin made
    BY <1>3, <2>1, QuietReturnTypeInv DEF TypeInv, TypeOK, LoadHash, store, replies
  <2>2. CASE GameOf(t) \in made
    <3>3. /\ copy' = [copy EXCEPT ![t].next = next[GameOf(t)]]
          /\ pc' = [pc EXCEPT ![t] = "get"]
          /\ pc[t] = "hgetall"
          /\ GameOf(t) \in Games
          /\ UNCHANGED <<made, next, seen, req, told, acks>>
      BY <1>3, <2>2 DEF LoadHash, Go, store, replies, TypeInv, TypeOK
    <3>1. TypeOK'
      BY <3>3 DEF TypeInv, TypeOK, Steps
    <3>2. LengthInv'
      BY <3>3 DEF TypeInv, TypeOK, LengthInv, InFlight, GameOf
    <3> QED
      BY <3>1, <3>2 DEF TypeInv
  <2> QED
    BY <2>1, <2>2
<1>4. ASSUME NEW t \in Threads, Report(t)
      PROVE  TypeInv'
  <2>1. GameOf(t) \in Games /\ seen[GameOf(t)] \in Seq(Persons)
    BY <1>4 DEF TypeInv, TypeOK, Report, GameOf
  <2>2. told' \subseteq [game : Games, count : 0 .. LossLimit, next : Symbols]
    <3>1. CASE IsFinished(seen[GameOf(t)])
      BY <1>4, <3>1 DEF Report, TypeInv, TypeOK
    <3>2. CASE ~IsFinished(seen[GameOf(t)])
      BY <1>4, <3>2, <2>1, UnfinishedHasRoom, TellType DEF Report, TypeInv, TypeOK
    <3> QED
      BY <3>1, <3>2
  <2> QED
    BY <1>4, <2>2, QuietReturnTypeInv DEF TypeInv, TypeOK, Report, store
<1>5. ASSUME NEW t \in Threads, Decline(t) \/ CommandRefused(t)
      PROVE  TypeInv'
  BY <1>5, QuietReturnTypeInv DEF TypeInv, TypeOK, Decline, CommandRefused, store, replies
<1>6. ASSUME NEW t \in Threads, Admit(t)
      PROVE  TypeInv'
  <2>1. /\ GameOf(t) \in Games
        /\ seen[GameOf(t)] \in Seq(Persons)
        /\ Len(seen[GameOf(t)]) < LossLimit
    BY <1>6, UnfinishedHasRoom DEF TypeInv, TypeOK, Admit, Wrong, GameOf
  <2>2. TypeOK'
    BY <1>6, <2>1 DEF TypeInv, TypeOK, Admit, GameOf, Go, Steps, store, replies
  <2>3. LengthInv'
    BY <1>6, <2>1
    DEF TypeInv, TypeOK, LengthInv, InFlight, GameOf, Admit, Wrong, Go, store, replies
  <2> QED
    BY <2>2, <2>3 DEF TypeInv
<1>7. ASSUME NEW t \in Threads, TakeNext(t)
      PROVE  TypeInv'
  <2>1. TypeOK'
    BY <1>7 DEF TypeInv, TypeOK, TakeNext, GameOf, Go, Steps, replies
  <2>2. LengthInv'
    BY <1>7 DEF TypeInv, TypeOK, LengthInv, InFlight, GameOf, TakeNext, Go, replies
  <2> QED
    BY <2>1, <2>2 DEF TypeInv
<1>8. ASSUME NEW t \in Threads, WriteVerdict(t)
      PROVE  TypeInv'
  <2> DEFINE after == Append(copy[t].seen, JudgedPerson(t))
  <2>1. seen' \in [Games -> Seq(Persons)]
    BY <1>8, WriteGrows
  <2>2. \A h \in Games : Len(seen'[h]) \in Len(seen[h]) .. LossLimit
    BY <1>8, WriteGrows
  <2>3. after \in Seq(Persons) /\ Len(after) <= LossLimit
    BY <1>8, WriteGrows
  <2>4. acks' \subseteq [game : Games, person : 0 .. LossLimit, ok : BOOLEAN]
    BY <1>8, AcknowledgeType DEF WriteVerdict, TypeInv, TypeOK
  <2>5. /\ pc[t] = "setrange"
        /\ UNCHANGED <<made, next, told>>
        /\ IsFinished(after) => Return(t)
        /\ ~IsFinished(after) =>
             /\ copy' = [copy EXCEPT ![t].seen = after]
             /\ pc' = [pc EXCEPT ![t] = "offer"]
             /\ UNCHANGED <<req, acks>>
    BY <1>8, Zenon DEF WriteVerdict, Go
  <2> HIDE DEF after
  <2>6. CASE IsFinished(after)
    BY <2>1, <2>2, <2>4, <2>5, <2>6, ReturnTypeInv DEF TypeInv, TypeOK
  <2>7. CASE ~IsFinished(after)
    <3>1. TypeOK'
      BY <2>1, <2>3, <2>5, <2>7 DEF TypeInv, TypeOK, Steps
    <3>2. \A h \in Games : Len(seen'[h]) <= LossLimit
      BY <2>1, <2>2
    <3>3. ASSUME NEW u \in Threads PROVE Len(copy'[u].seen) <= LossLimit
      BY <2>3, <2>5, <2>7 DEF TypeInv, TypeOK, LengthInv
    <3>4. ASSUME NEW u \in Threads PROVE InFlight(u)'
      <4>1. CASE u = t
        BY <2>5, <2>7, <4>1 DEF InFlight, TypeInv, TypeOK
      <4>2. CASE u # t
        <5>1. copy'[u] = copy[u] /\ pc'[u] = pc[u] /\ req'[u] = req[u]
          BY <2>5, <2>7, <4>2 DEF TypeInv, TypeOK
        <5>2. ASSUME pc[u] \in {"hdel", "setrange"}
              PROVE  Len(copy[u].seen) <= Len(seen'[GameOf(u)])
          <6>1. /\ GameOf(u) \in Games
                /\ Len(copy[u].seen) <= Len(seen[GameOf(u)])
            BY <5>2 DEF TypeInv, TypeOK, LengthInv, InFlight, GameOf
          <6>2. Len(copy[u].seen) \in Nat /\ Len(seen[GameOf(u)]) \in Nat
            BY <6>1 DEF TypeInv, TypeOK
          <6> QED
            BY <2>2, <6>1, <6>2
        <5> QED
          BY <5>1, <5>2 DEF InFlight, GameOf, TypeInv, LengthInv
      <4> QED
        BY <4>1, <4>2
    <3>5. LengthInv'
      BY <3>2, <3>3, <3>4 DEF LengthInv
    <3> QED
      BY <3>1, <3>5 DEF TypeInv
  <2> QED
    BY <2>6, <2>7
<1>9. ASSUME NEW t \in Threads, CreateHash(t) \/ IndexGame(t)
      PROVE  TypeInv'
  <2>1. TypeOK'
    BY <1>9 DEF TypeInv, TypeOK, CreateHash, IndexGame, GameOf, Go, Steps, store, replies
  <2>2. LengthInv'
    BY <1>9
    DEF TypeInv, TypeOK, LengthInv, InFlight, GameOf, CreateHash, IndexGame, Go, store, replies
  <2> QED
    BY <2>1, <2>2 DEF TypeInv
<1>10. ASSUME NEW t \in Threads, OfferNext(t)
       PROVE  TypeInv'
  <2>1. PICK s \in Symbols :
          /\ next' = [next EXCEPT ![GameOf(t)] = s]
          /\ IF req[t].verdict = "none" THEN UNCHANGED told
             ELSE TellRunning(GameOf(t), Len(copy[t].seen), s)
    BY <1>10 DEF OfferNext
  <2>2. /\ GameOf(t) \in Games
        /\ Len(copy[t].seen) \in 0 .. LossLimit
    BY <1>10 DEF TypeInv, TypeOK, LengthInv, OfferNext, GameOf
  <2>3. told' \subseteq [game : Games, count : 0 .. LossLimit, next : Symbols]
    <3>1. CASE req[t].verdict = "none"
      BY <2>1, <3>1 DEF TypeInv, TypeOK
    <3>2. CASE req[t].verdict # "none"
      BY <2>1, <2>2, <3>2, TellType
    <3> QED
      BY <3>1, <3>2
  <2>4. acks' \subseteq [game : Games, person : 0 .. LossLimit, ok : BOOLEAN]
    BY <1>10, AcknowledgeType DEF OfferNext
  <2>5. /\ next' \in [Games -> Symbols \cup {Nobody}]
        /\ \A g \in Games : Len(seen[g]) \in Len(seen[g]) .. LossLimit
    BY <2>1, <2>2 DEF TypeInv, TypeOK, LengthInv
  <2> QED
    BY <1>10, <2>3, <2>4, <2>5, ReturnTypeInv DEF TypeInv, TypeOK, OfferNext
<1>11. CASE Crash
  <2>1. TypeOK'
    BY <1>0, <1>11
    DEF TypeInv, TypeOK, Crash, Requests, NoRequest, NoCopy, Steps, Verdicts, store, replies
  <2>2. LengthInv'
    BY <1>0, <1>11
    DEF TypeInv, TypeOK, LengthInv, InFlight, Crash, NoCopy, store, replies
  <2> QED
    BY <2>1, <2>2 DEF TypeInv
<1>12. CASE UNCHANGED vars
  BY <1>12 DEF TypeInv, TypeOK, LengthInv, InFlight, GameOf, vars
<1> QED
  BY <1>1, <1>2, <1>3, <1>4, <1>5, <1>6, <1>7, <1>8, <1>9, <1>10, <1>11, <1>12
  DEF Next, Process

(* The variables keep their types in every reachable state, for any number *)
(* of threads and any interleaving of their commands.                      *)
THEOREM TypeCorrect == Spec => []TypeOK
<1>1. TypeInv => TypeOK
  BY DEF TypeInv
<1> QED
  BY <1>1, InitTypeInv, NextTypeInv, PTL DEF Spec

(* Whatever requests overlap, a step never shortens a game's history and   *)
(* never extends it past LOSS_LIMIT, even with a stale SETRANGE offset.    *)
THEOREM HistoryNeverShrinks == Spec => NeverShrinks
<1> DEFINE Grows == \A g \in Games : Len(seen'[g]) \in Len(seen[g]) .. LossLimit
<1>1. TypeInv /\ [Next]_vars => [Grows]_vars
  <2> SUFFICES ASSUME TypeInv, Next PROVE Grows
    BY Zenon
  <2>1. CASE seen' = seen
    BY <2>1, RulesAssumption DEF TypeInv, TypeOK, LengthInv
  <2>2. CASE \E t \in Threads : WriteVerdict(t)
    BY <2>2, WriteGrows
  <2> QED
    BY <2>1, <2>2
    DEF Next, Process, Receive, LoadHash, Report, Decline, Admit, TakeNext, NewGame,
        CreateHash, IndexGame, OfferNext, CommandRefused, Crash, store
<1> QED
  BY <1>1, InitTypeInv, NextTypeInv, PTL DEF Spec, NeverShrinks

-----------------------------------------------------------------------------
(* Safety when requests do not overlap.                                    *)

(* The server starts with nothing to contradict.                           *)
LEMMA InitSerialInv == Init => SerialInv
<1> SUFFICES ASSUME Init PROVE SerialInv
  OBVIOUS
<1>1. /\ <<>> \in Seq(Persons) /\ Len(<<>>) = 0
      /\ ~IsFinished(<<>>)
  BY EmptyNotFinished
<1>2. Accepted(<<>>) <= AcceptedLimit
  <2>1. Accepted(<<>>) \in Nat
    BY <1>1, AcceptedFinite
  <2> QED
    BY <1>1, <2>1, RulesAssumption DEF IsFinished
<1>3. \A t \in Threads : CopyFresh(t) /\ VerdictRecorded(t)
  BY DEF Init, CopyFresh, VerdictRecorded
<1>4. NoOfferAfterEnd /\ Unmade /\ Unplayed
  BY DEF Init, NoOfferAfterEnd, Unmade, Unplayed
<1>5. Capacity
  BY <1>1, <1>2, RulesAssumption DEF Init, Capacity
<1>6. told = {} /\ acks = {}
  BY DEF Init
<1> QED
  BY <1>3, <1>4, <1>5, <1>6 DEF SerialInv, PlayInv, JudgedAsShown, AcksKept

(* A symbol that was shown still stands after a command that writes        *)
(* neither the hash nor the string of its game and starts no draw for it.  *)
LEMMA ShownStandsQuiet ==
  ASSUME Serial, TypeInv, PlayInv, NEW t \in Threads,
         UNCHANGED <<next, seen>>, made \subseteq made',
         pc'[t] = "setrange" => FALSE,
         pc'[t] \in {"index", "offer"} =>
           (req'[t] = req[t] /\ (Drawing(GameOf(t), t) \/ GameOf(t) \notin made)),
         NEW r \in told
  PROVE  ShownStands(r)'
<1>1. ShownStands(r) /\ r.game \in Games /\ \A u \in Threads : u = t
  BY DEF PlayInv, Serial, TypeInv, TypeOK
<1>2. CASE r.count = Len(seen[r.game]) /\ next[r.game] # r.next
  <2>1. next[r.game] = Nobody
    BY <1>1, <1>2 DEF ShownStands, Taking, PlayInv, CopyFresh, GameOf
  <2>2. ~Drawing(r.game, t)
    BY <1>1, <1>2 DEF ShownStands, Taking, Drawing
  <2>3. ~Taking(r.game, t)' /\ ~Drawing(r.game, t)'
    BY <1>1, <2>2 DEF Taking, Drawing, GameOf, ShownStands
  <2> QED
    BY <1>1, <2>1, <2>3 DEF ShownStands
<1> QED
  BY <1>1, <1>2 DEF ShownStands

(* What is left to show of a command that answers nobody and writes        *)
(* nothing.                                                                *)
LEMMA SerialQuiet ==
  ASSUME Serial, TypeInv, PlayInv, NEW t \in Threads,
         UNCHANGED <<made, next, seen, told, acks>>,
         CopyFresh(t)', VerdictRecorded(t)',
         \A r \in told : ShownStands(r)'
  PROVE  PlayInv'
<1>1. \A u \in Threads : u = t
  BY DEF Serial
<1>2. Unmade' /\ NoOfferAfterEnd' /\ Capacity' /\ JudgedAsShown' /\ AcksKept'
  BY DEF PlayInv, Unmade, NoOfferAfterEnd, Capacity, JudgedAsShown, AcksKept
<1> QED
  BY <1>1, <1>2 DEF PlayInv

(* A thread that has returned knows nothing that could be stale.           *)
LEMMA ReturnedFresh ==
  ASSUME TypeInv, NEW t \in Threads, Return(t)
  PROVE  /\ CopyFresh(t)'
         /\ VerdictRecorded(t)'
         /\ pc'[t] = "idle"
  BY DEF TypeInv, TypeOK, Return, CopyFresh, VerdictRecorded

(* /process-person without a verdict, or declined.                         *)
LEMMA ReceiveSerial ==
  ASSUME Serial, TypeInv, PlayInv, NEW t \in Threads, NEW g \in Games,
         NEW person \in 0 .. LossLimit, NEW verdict \in Verdicts,
         Receive(t, g, person, verdict)
  PROVE  PlayInv'
<1>1. CopyFresh(t)' /\ VerdictRecorded(t)' /\ pc'[t] = "hgetall"
  BY DEF Receive, Go, CopyFresh, VerdictRecorded, GameOf, PlayInv, TypeInv, TypeOK
<1> QED
  BY <1>1, ShownStandsQuiet, SerialQuiet DEF Receive, store, replies

LEMMA LoadHashSerial ==
  ASSUME Serial, TypeInv, PlayInv, NEW t \in Threads, LoadHash(t)
  PROVE  PlayInv'
<1>1. CASE GameOf(t) \notin made
  BY <1>1, ReturnedFresh, ShownStandsQuiet, SerialQuiet DEF LoadHash, store, replies
<1>2. CASE GameOf(t) \in made
  <2>1. /\ copy' = [copy EXCEPT ![t].next = next[GameOf(t)]]
        /\ pc' = [pc EXCEPT ![t] = "get"]
        /\ UNCHANGED <<made, next, seen, req, told, acks>>
    BY <1>2 DEF LoadHash, Go, store, replies
  <2>2. CopyFresh(t)' /\ VerdictRecorded(t)' /\ pc'[t] = "get"
    BY <1>2, <2>1 DEF CopyFresh, VerdictRecorded, GameOf, TypeInv, TypeOK
  <2> QED
    BY <2>1, <2>2, ShownStandsQuiet, SerialQuiet
<1> QED
  BY <1>1, <1>2

(* A report is taken from the store as it is: the game's count and its     *)
(* pending person, or nobody (printed as 0) when the person was lost.      *)
LEMMA ReportSerial ==
  ASSUME Serial, TypeInv, PlayInv, NEW t \in Threads, Report(t)
  PROVE  PlayInv'
<1> DEFINE g == GameOf(t)
           r == [game |-> g, count |-> Len(seen[g]), next |-> Shown(copy[t].next)]
<1>1. /\ g \in made /\ g \in Games
      /\ copy[t].next = next[g]
      /\ pc[t] = "get"
  BY DEF Report, PlayInv, CopyFresh, TypeInv, TypeOK, GameOf
<1>2. /\ UNCHANGED <<made, next, seen, acks>>
      /\ Return(t)
      /\ told' \subseteq told \cup {r}
  BY DEF Report, store, TellRunning
<1>3. CopyFresh(t)' /\ VerdictRecorded(t)' /\ pc'[t] = "idle"
  BY <1>2, ReturnedFresh
<1>4. \A u \in Threads : u = t
  BY DEF Serial
<1>5. Len(seen[g]) \in Nat
  BY <1>1 DEF TypeInv, TypeOK
<1>6. ASSUME NEW q \in told', q \notin told
      PROVE  ShownStands(q)'
  <2>1. q = r
    BY <1>2, <1>6
  <2>2. q.game = g /\ q.count = Len(seen[g]) /\ q.next = Shown(next[g])
    BY <1>1, <2>1
  <2>3. next[g] = Nobody \/ next[g] = q.next
    BY <2>2 DEF Shown
  <2> QED
    BY <1>1, <1>2, <1>3, <1>4, <1>5, <2>2, <2>3 DEF ShownStands, Taking, Drawing
<1>7. ASSUME NEW q \in told PROVE ShownStands(q)'
  BY <1>2, <1>3, ShownStandsQuiet
<1>8. JudgedAsShown'
  BY <1>2, <1>5 DEF PlayInv, JudgedAsShown
<1>9. Unmade' /\ NoOfferAfterEnd' /\ Capacity' /\ AcksKept'
  BY <1>2 DEF PlayInv, Unmade, NoOfferAfterEnd, Capacity, AcksKept
<1> QED
  BY <1>2, <1>3, <1>4, <1>6, <1>7, <1>8, <1>9 DEF PlayInv

LEMMA DeclineSerial ==
  ASSUME Serial, TypeInv, PlayInv, NEW t \in Threads, Decline(t) \/ CommandRefused(t)
  PROVE  PlayInv'
<1>1. Return(t) /\ UNCHANGED <<made, next, seen, told, acks>>
  BY DEF Decline, CommandRefused, store, replies
<1> QED
  BY <1>1, ReturnedFresh, ShownStandsQuiet, SerialQuiet

(* The server process ended, and its request with it.                      *)
LEMMA EndedSerial ==
  ASSUME Serial, TypeInv, PlayInv, NEW t \in Threads,
         UNCHANGED <<made, next, seen, told, acks>>,
         pc'[t] = "idle", req'[t] = NoRequest, copy'[t] = NoCopy
  PROVE  PlayInv'
<1>1. CopyFresh(t)' /\ VerdictRecorded(t)'
  BY DEF CopyFresh, VerdictRecorded
<1> QED
  BY <1>1, ShownStandsQuiet, SerialQuiet

LEMMA AdmitSerial ==
  ASSUME Serial, TypeInv, PlayInv, NEW t \in Threads, Admit(t)
  PROVE  PlayInv'
<1>1. /\ pc[t] = "get" /\ pc' = [pc EXCEPT ![t] = "hdel"]
      /\ copy' = [copy EXCEPT ![t].seen = seen[GameOf(t)]]
      /\ UNCHANGED <<made, next, seen, req, told, acks>>
      /\ copy[t].next # Nobody
      /\ req[t].verdict # "none"
      /\ req[t].person = Len(seen[GameOf(t)])
      /\ ~IsFinished(seen[GameOf(t)])
  BY DEF Admit, Wrong, Go, store, replies
<1>2. CopyFresh(t)' /\ VerdictRecorded(t)' /\ pc'[t] = "hdel"
  BY <1>1 DEF CopyFresh, VerdictRecorded, GameOf, PlayInv, TypeInv, TypeOK
<1> QED
  BY <1>1, <1>2, ShownStandsQuiet, SerialQuiet

LEMMA NewGameSerial ==
  ASSUME Serial, TypeInv, PlayInv, NEW t \in Threads, NEW g \in Games, NewGame(t, g),
         seen[g] = <<>>
  PROVE  PlayInv'
<1>1. CopyFresh(t)' /\ VerdictRecorded(t)' /\ pc'[t] = "create"
  BY DEF NewGame, Go, CopyFresh, VerdictRecorded, GameOf, PlayInv, TypeInv, TypeOK,
         store, replies
<1> QED
  BY <1>1, ShownStandsQuiet, SerialQuiet DEF NewGame, store, replies

LEMMA IndexGameSerial ==
  ASSUME Serial, TypeInv, PlayInv, NEW t \in Threads, IndexGame(t)
  PROVE  PlayInv'
<1>1. /\ pc[t] = "index" /\ pc' = [pc EXCEPT ![t] = "offer"]
      /\ UNCHANGED <<made, next, seen, req, copy, told, acks>>
  BY DEF IndexGame, Go, store, replies
<1>2. CopyFresh(t)' /\ VerdictRecorded(t)' /\ pc'[t] = "offer"
  BY <1>1 DEF CopyFresh, VerdictRecorded, GameOf, PlayInv, TypeInv, TypeOK
<1>3. Drawing(GameOf(t), t)
  BY <1>1 DEF Drawing
<1> QED
  BY <1>1, <1>2, <1>3, ShownStandsQuiet, SerialQuiet

LEMMA CreateHashSerial ==
  ASSUME Serial, TypeInv, PlayInv, NEW t \in Threads, CreateHash(t)
  PROVE  PlayInv'
<1> DEFINE g == GameOf(t)
<1>1. /\ pc[t] = "create" /\ pc' = [pc EXCEPT ![t] = "index"]
      /\ made' = made \cup {g}
      /\ UNCHANGED <<next, seen, req, copy, told, acks>>
  BY DEF CreateHash, Go, replies
<1>2. /\ g \in Games \ made /\ next[g] = Nobody /\ seen[g] = <<>>
      /\ \A u \in Threads : u = t
  BY <1>1 DEF PlayInv, CopyFresh, Unmade, GameOf, TypeInv, TypeOK, Serial
<1>3. CopyFresh(t)' /\ VerdictRecorded(t)' /\ pc'[t] = "index"
  BY <1>1, <1>2, EmptyNotFinished
  DEF CopyFresh, VerdictRecorded, GameOf, PlayInv, TypeInv, TypeOK, NoCopy
<1>4. ASSUME NEW r \in told PROVE ShownStands(r)'
  BY <1>1, <1>2, <1>3, ShownStandsQuiet
<1>5. Unmade' /\ NoOfferAfterEnd' /\ Capacity' /\ JudgedAsShown' /\ AcksKept'
  BY <1>1 DEF PlayInv, Unmade, NoOfferAfterEnd, Capacity, JudgedAsShown, AcksKept
<1> QED
  BY <1>1, <1>2, <1>3, <1>4, <1>5 DEF PlayInv

(* HDEL takes the pending symbol; the thread that holds the game now has   *)
(* the only copy of it.                                                    *)
LEMMA TakeNextSerial ==
  ASSUME Serial, TypeInv, PlayInv, NEW t \in Threads, TakeNext(t)
  PROVE  PlayInv'
<1> DEFINE g == GameOf(t)
<1>1. /\ pc[t] = "hdel" /\ pc' = [pc EXCEPT ![t] = "setrange"]
      /\ next' = [next EXCEPT ![g] = Nobody]
      /\ UNCHANGED <<made, seen, req, copy, told, acks>>
  BY DEF TakeNext, Go, replies
<1>2. /\ g \in Games
      /\ copy[t].next = next[g] /\ next[g] # Nobody
      /\ \A u \in Threads : u = t
  BY <1>1 DEF PlayInv, CopyFresh, GameOf, TypeInv, TypeOK, Serial
<1>3. next'[g] = Nobody /\ \A h \in Games \ {g} : next'[h] = next[h]
  BY <1>1, <1>2 DEF TypeInv, TypeOK
<1>4. CopyFresh(t)' /\ VerdictRecorded(t)'
  BY <1>1, <1>2, <1>3
  DEF CopyFresh, VerdictRecorded, GameOf, PlayInv, TypeInv, TypeOK, Steps
<1>5. ASSUME NEW r \in told PROVE ShownStands(r)'
  <2>1. ShownStands(r) /\ r.game \in Games
    BY DEF PlayInv, TypeInv, TypeOK
  <2>2. CASE r.game = g
    <3>1. Taking(r.game, t)'
      BY <1>1, <1>2, <2>2 DEF Taking, GameOf, TypeInv, TypeOK
    <3>2. r.count = Len(seen[g]) => copy[t].next = r.next
      BY <1>1, <1>2, <2>1, <2>2 DEF ShownStands, Taking
    <3> QED
      BY <1>1, <2>1, <2>2, <3>1, <3>2 DEF ShownStands
  <2>3. CASE r.game # g
    BY <1>1, <1>2, <1>3, <2>1, <2>3 DEF ShownStands, Taking, Drawing, GameOf
  <2> QED
    BY <2>2, <2>3
<1>6. Unmade' /\ NoOfferAfterEnd' /\ Capacity' /\ JudgedAsShown' /\ AcksKept'
  BY <1>1, <1>3 DEF PlayInv, Unmade, NoOfferAfterEnd, Capacity, JudgedAsShown, AcksKept
<1> QED
  BY <1>1, <1>2, <1>4, <1>5, <1>6 DEF PlayInv

(* What a verdict writes: exactly one person, the one that was offered, at *)
(* the end of a game that was not over.                                    *)
LEMMA VerdictAppends ==
  ASSUME Serial, TypeInv, PlayInv, NEW t \in Threads, WriteVerdict(t)
  PROVE  LET g == GameOf(t) IN
         /\ g \in made /\ g \in Games
         /\ ~IsFinished(seen[g])
         /\ JudgedPerson(t) \in Persons
         /\ copy[t].seen = seen[g]
         /\ next[g] = Nobody
         /\ seen' = [seen EXCEPT ![g] = Append(seen[g], JudgedPerson(t))]
<1> DEFINE g == GameOf(t)
<1>1. /\ g \in made /\ g \in Games
      /\ ~IsFinished(seen[g])
      /\ copy[t].seen = seen[g] /\ next[g] = Nobody
      /\ copy[t].next \in Symbols
      /\ seen[g] \in Seq(Persons)
  BY DEF PlayInv, CopyFresh, GameOf, TypeInv, TypeOK, WriteVerdict
<1>2. JudgedPerson(t) \in Persons
  BY <1>1, Zenon DEF JudgedPerson, Persons
<1>3. seen' = [seen EXCEPT ![g] = SetRange(seen[g], Len(seen[g]), JudgedPerson(t))]
  BY <1>1 DEF WriteVerdict
<1>4. SetRange(seen[g], Len(seen[g]), JudgedPerson(t)) = Append(seen[g], JudgedPerson(t))
  BY <1>1, <1>2, SetRangeType
<1> QED
  BY <1>1, <1>2, <1>3, <1>4

(* The verdict is on record under the symbol every reply showed for that   *)
(* position.                                                               *)
LEMMA WriteVerdictSerial ==
  ASSUME Serial, TypeInv, PlayInv, NEW t \in Threads, WriteVerdict(t)
  PROVE  PlayInv'
<1> DEFINE g == GameOf(t)
           p == JudgedPerson(t)
           s == seen[g]
<1>1. /\ g \in made /\ g \in Games
      /\ ~IsFinished(s)
      /\ p \in Persons
      /\ copy[t].seen = s
      /\ next[g] = Nobody
      /\ seen' = [seen EXCEPT ![g] = Append(s, p)]
  BY VerdictAppends
<1>2. /\ s \in Seq(Persons)
      /\ Len(s) \in Nat
      /\ Append(s, p) \in Seq(Persons)
      /\ Len(Append(s, p)) = Len(s) + 1
      /\ \A i \in 1 .. Len(s) : Append(s, p)[i] = s[i]
      /\ Append(s, p)[Len(s) + 1] = p
  BY <1>1 DEF TypeInv, TypeOK
<1>3. /\ seen'[g] = Append(s, p)
      /\ \A h \in Games \ {g} : seen'[h] = seen[h]
  BY <1>1 DEF TypeInv, TypeOK
<1>4. /\ pc[t] = "setrange"
      /\ UNCHANGED <<made, next, told>>
      /\ IsFinished(Append(s, p)) => Return(t) /\ Acknowledge(t)
      /\ ~IsFinished(Append(s, p)) =>
           /\ copy' = [copy EXCEPT ![t].seen = Append(s, p)]
           /\ pc' = [pc EXCEPT ![t] = "offer"]
           /\ UNCHANGED <<req, acks>>
  <2>1. Append(copy[t].seen, p) = Append(s, p)
    BY <1>1
  <2> QED
    BY <2>1, Zenon DEF WriteVerdict, Go
<1>5. /\ req[t].verdict # "none"
      /\ req[t].person = Len(s)
      /\ \A u \in Threads : u = t
  BY <1>4 DEF PlayInv, CopyFresh, Serial, GameOf
<1>6. p.ok = (req[t].verdict # "false") /\ p.attrs = copy[t].next
  BY Zenon DEF JudgedPerson
<1> HIDE DEF g, p, s
<1>7. CopyFresh(t)' /\ VerdictRecorded(t)'
  <2>1. CASE IsFinished(Append(s, p))
    BY <1>4, <2>1, ReturnedFresh
  <2>2. CASE ~IsFinished(Append(s, p))
    <3>1. /\ GameOf(t)' = g /\ pc'[t] = "offer" /\ req'[t] = req[t]
          /\ copy'[t].seen = Append(s, p)
      BY <1>4, <2>2 DEF TypeInv, TypeOK, GameOf, g
    <3>2. CopyFresh(t)'
      BY <1>1, <1>3, <1>4, <2>2, <3>1 DEF CopyFresh
    <3>3. VerdictRecorded(t)'
      <4>1. seen'[g][req[t].person + 1] = p /\ req[t].person < Len(seen'[g])
        BY <1>2, <1>3, <1>5
      <4>2. seen'[g][req[t].person + 1].ok = (req[t].verdict # "false")
        BY <1>6, <4>1, Zenon
      <4> QED
        BY <3>1, <4>1, <4>2, Zenon DEF VerdictRecorded
    <3> QED
      BY <3>2, <3>3
  <2> QED
    BY <2>1, <2>2
<1>8. Unmade' /\ NoOfferAfterEnd'
  BY <1>1, <1>3, <1>4 DEF PlayInv, Unmade, NoOfferAfterEnd
<1>9. Capacity'
  <2>1. /\ Accepted(seen'[g]) <= AcceptedLimit
        /\ Len(seen'[g]) <= LossLimit
    BY <1>1, <1>2, <1>3, OneMoreFits
  <2> QED
    BY <1>3, <2>1 DEF PlayInv, Capacity
<1>10. ASSUME NEW r \in told
       PROVE  /\ ShownStands(r)'
              /\ r.count < Len(seen'[r.game]) =>
                   seen'[r.game][r.count + 1].attrs = r.next
  <2>1. /\ ShownStands(r) /\ r.game \in Games /\ r.count \in Nat /\ r.next \in Symbols
        /\ r.count < Len(seen[r.game]) => seen[r.game][r.count + 1].attrs = r.next
    <3>1. r.game \in Games /\ r.count \in Nat /\ r.next \in Symbols
      BY DEF TypeInv, TypeOK
    <3> QED
      BY <3>1 DEF PlayInv, JudgedAsShown
  <2>2. CASE r.game = g
    <3>1. r.count <= Len(s) /\ Len(seen'[r.game]) = Len(s) + 1
      BY <1>2, <1>3, <2>1, <2>2 DEF ShownStands, s
    <3>2. ShownStands(r)'
      BY <1>1, <1>2, <1>4, <2>2, <3>1, <2>1 DEF ShownStands
    <3>3. CASE r.count < Len(s)
      BY <1>2, <1>3, <2>1, <2>2, <3>2, <3>3 DEF s
    <3>4. CASE r.count = Len(s)
      <4>1. Taking(g, t)
        BY <1>4 DEF Taking, g
      <4>2. copy[t].next = r.next
        BY <1>1, <1>5, <2>1, <2>2, <3>4, <4>1, PlayAssumption DEF ShownStands, s
      <4> QED
        BY <1>2, <1>3, <1>6, <2>2, <3>2, <3>4, <4>2
    <3> QED
      BY <1>2, <2>1, <3>1, <3>3, <3>4
  <2>3. CASE r.game # g
    <3>1. seen'[r.game] = seen[r.game] /\ next'[r.game] = next[r.game]
      BY <1>3, <1>4, <2>1, <2>3
    <3>2. ~Taking(r.game, t) /\ ~Drawing(r.game, t)
      BY <2>3 DEF Taking, Drawing, g
    <3>3. ~Taking(r.game, t)' /\ ~Drawing(r.game, t)'
      <4>1. pc'[t] = "idle" \/ GameOf(t)' = g
        BY <1>4, ReturnedFresh DEF GameOf, g
      <4> QED
        BY <2>3, <4>1 DEF Taking, Drawing
    <3> QED
      BY <1>4, <1>5, <2>1, <3>1, <3>2, <3>3 DEF ShownStands
  <2> QED
    BY <2>2, <2>3
<1>11. JudgedAsShown'
  BY <1>4, <1>10 DEF JudgedAsShown
<1>12. AcksKept'
  <2>1. ASSUME NEW a \in acks
        PROVE  a.person < Len(seen'[a.game]) /\ seen'[a.game][a.person + 1].ok = a.ok
    <3>1. /\ a.game \in Games /\ a.person \in Nat
          /\ a.person < Len(seen[a.game]) /\ seen[a.game][a.person + 1].ok = a.ok
      BY DEF PlayInv, AcksKept, TypeInv, TypeOK
    <3>2. CASE a.game = g
      <4>1. a.person + 1 \in 1 .. Len(s)
        BY <1>2, <3>1, <3>2 DEF s
      <4>2. seen'[a.game][a.person + 1] = seen[a.game][a.person + 1]
        BY <1>2, <1>3, <3>2, <4>1 DEF s
      <4>3. a.person < Len(seen'[a.game])
        BY <1>2, <1>3, <3>1, <3>2 DEF s
      <4> QED
        BY <3>1, <4>2, <4>3, Zenon
    <3>3. CASE a.game # g
      BY <1>3, <3>1, <3>3, Zenon
    <3> QED
      BY <3>2, <3>3
  <2>2. ASSUME NEW a \in acks', a \notin acks
        PROVE  a.person < Len(seen'[a.game]) /\ seen'[a.game][a.person + 1].ok = a.ok
    <3>1. a = [game |-> g, person |-> req[t].person, ok |-> req[t].verdict # "false"]
      BY <1>4, <1>5, <2>2, Zenon DEF Acknowledge, g
    <3>2. a.game = g /\ a.person = req[t].person /\ a.ok = (req[t].verdict # "false")
      BY <3>1, Zenon
    <3>3. seen'[a.game][a.person + 1] = p /\ a.person < Len(seen'[a.game])
      BY <1>2, <1>3, <1>5, <3>2
    <3> QED
      BY <1>6, <3>2, <3>3, Zenon
  <2> QED
    BY <2>1, <2>2 DEF AcksKept
<1> QED
  BY <1>4, <1>5, <1>7, <1>8, <1>9, <1>10, <1>11, <1>12 DEF PlayInv

(* A new symbol is drawn only when none is pending and none that was shown *)
(* is still to be judged.                                                  *)
LEMMA OfferNextSerial ==
  ASSUME Serial, TypeInv, PlayInv, NEW t \in Threads, OfferNext(t)
  PROVE  PlayInv'
<1> DEFINE g == GameOf(t)
<1>1. PICK s \in Symbols :
        /\ next' = [next EXCEPT ![g] = s]
        /\ IF req[t].verdict = "none" THEN UNCHANGED told
           ELSE TellRunning(g, Len(copy[t].seen), s)
  BY DEF OfferNext
<1>2. /\ pc[t] = "offer" /\ Return(t) /\ Acknowledge(t)
      /\ UNCHANGED <<made, seen>>
  BY DEF OfferNext
<1>3. /\ g \in made /\ g \in Games /\ next[g] = Nobody
      /\ copy[t].seen = seen[g] /\ ~IsFinished(seen[g])
      /\ Len(seen[g]) \in Nat
      /\ \A u \in Threads : u = t
  BY <1>2 DEF PlayInv, CopyFresh, Serial, GameOf, TypeInv, TypeOK
<1>4. CopyFresh(t)' /\ VerdictRecorded(t)' /\ pc'[t] = "idle"
  BY <1>2, ReturnedFresh
<1>5. /\ next'[g] = s /\ s # Nobody
      /\ \A h \in Games \ {g} : next'[h] = next[h]
  BY <1>1, <1>3, PlayAssumption DEF TypeInv, TypeOK
<1>6. s \notin {Nobody} /\ Shown(s) = s
  BY <1>5 DEF Shown
<1> HIDE DEF g
<1>7. ASSUME NEW r \in told, r.game = g PROVE r.count < Len(seen[g])
  <2>1. ShownStands(r) /\ r.count \in Nat /\ r.next \in Symbols
    BY DEF PlayInv, TypeInv, TypeOK
  <2>2. Drawing(g, t)
    BY <1>2 DEF Drawing, g
  <2>3. ~Taking(g, t)
    BY <1>2 DEF Taking
  <2>4. r.count # Len(seen[g])
    BY <1>3, <1>7, <2>1, <2>2, <2>3, PlayAssumption DEF ShownStands
  <2> QED
    BY <1>3, <1>7, <2>1, <2>4 DEF ShownStands
<1>8. ASSUME NEW r \in told PROVE ShownStands(r)'
  <2>1. CASE r.game = g
    BY <1>2, <1>3, <1>7, <2>1 DEF ShownStands, TypeInv, TypeOK
  <2>2. CASE r.game # g
    <3>1. ShownStands(r) /\ next'[r.game] = next[r.game]
      BY <1>5, <2>2 DEF PlayInv, TypeInv, TypeOK
    <3>2. ~Taking(r.game, t) /\ ~Taking(r.game, t)' /\ ~Drawing(r.game, t)'
      BY <1>2, <1>4 DEF Taking, Drawing
    <3> QED
      BY <1>2, <1>3, <3>1, <3>2 DEF ShownStands
  <2> QED
    BY <2>1, <2>2
<1>9. ASSUME NEW r \in told', r \notin told
      PROVE  ShownStands(r)' /\ ~(r.count < Len(seen'[r.game]))
  <2>1. r = [game |-> g, count |-> Len(seen[g]), next |-> s]
    BY <1>1, <1>3, <1>6, <1>9 DEF TellRunning
  <2> QED
    BY <1>2, <1>3, <1>5, <2>1 DEF ShownStands
<1>10. JudgedAsShown'
  BY <1>2, <1>9 DEF PlayInv, JudgedAsShown
<1>11. AcksKept'
  <2>1. ASSUME NEW a \in acks', a \notin acks
        PROVE  a.person < Len(seen'[a.game]) /\ seen'[a.game][a.person + 1].ok = a.ok
    <3>1. /\ a = [game |-> g, person |-> req[t].person, ok |-> req[t].verdict # "false"]
          /\ req[t].verdict # "none"
      BY <1>2, <2>1, Zenon DEF Acknowledge, g
    <3>2. a.game = g /\ a.person = req[t].person /\ a.ok = (req[t].verdict # "false")
      BY <3>1, Zenon
    <3>3. /\ req[t].person < Len(seen[g])
          /\ seen[g][req[t].person + 1].ok = (req[t].verdict # "false")
      BY <1>2, <3>1, Zenon DEF PlayInv, VerdictRecorded, g
    <3> QED
      BY <1>2, <3>2, <3>3, Zenon
  <2> QED
    BY <1>2, <2>1 DEF PlayInv, AcksKept
<1>12. Unmade' /\ NoOfferAfterEnd' /\ Capacity'
  BY <1>2, <1>3, <1>5 DEF PlayInv, Unmade, NoOfferAfterEnd, Capacity
<1> QED
  BY <1>2, <1>3, <1>4, <1>8, <1>9, <1>10, <1>11, <1>12 DEF PlayInv

(* Every command of a request keeps what the request knows fresh.          *)
LEMMA ProcessSerial ==
  ASSUME Serial, TypeInv, PlayInv, NEW t \in Threads, Process(t)
  PROVE  PlayInv'
  BY LoadHashSerial, ReportSerial, DeclineSerial, AdmitSerial, TakeNextSerial,
     WriteVerdictSerial, CreateHashSerial, IndexGameSerial, OfferNextSerial
  DEF Process

LEMMA QuietPlayInv == PlayInv /\ UNCHANGED vars => PlayInv'
  BY DEF vars, PlayInv, CopyFresh, VerdictRecorded, Unmade, NoOfferAfterEnd, Capacity,
         ShownStands, Taking, Drawing, JudgedAsShown, AcksKept, GameOf

(* A game without its hash is never written to.                            *)
LEMMA NextUnplayed ==
  ASSUME Serial, TypeInv, PlayInv, Unplayed, [Next]_vars
  PROVE  Unplayed'
<1>1. CASE seen' = seen
  <2>1. made \subseteq made'
    BY DEF Next, Process, Receive, LoadHash, Report, Decline, Admit, TakeNext, WriteVerdict,
           NewGame, CreateHash, IndexGame, OfferNext, CommandRefused, Crash, store, vars
  <2> QED
    BY <1>1, <2>1 DEF Unplayed
<1>2. ASSUME NEW t \in Threads, WriteVerdict(t) PROVE Unplayed'
  <2>1. made' = made /\ \A g \in Games \ made : seen'[g] = seen[g]
    BY <1>2, VerdictAppends DEF WriteVerdict, TypeInv, TypeOK
  <2> QED
    BY <2>1 DEF Unplayed
<1> QED
  BY <1>1, <1>2
  DEF Next, Process, Receive, LoadHash, Report, Decline, Admit, TakeNext, NewGame,
      CreateHash, IndexGame, OfferNext, CommandRefused, Crash, store, vars

(* Every step of a server that serves one request at a time keeps          *)
(* SerialInv.                                                              *)
LEMMA NextSerialInv ==
  ASSUME Serial PROVE TypeInv /\ SerialInv /\ [Next]_vars => SerialInv'
<1> SUFFICES ASSUME TypeInv, SerialInv, [Next]_vars PROVE PlayInv' /\ Unplayed'
  BY DEF SerialInv
<1>0. PlayInv /\ Unplayed
  BY DEF SerialInv
<1>1. CASE UNCHANGED vars
  BY <1>0, <1>1, QuietPlayInv, NextUnplayed
<1>2. CASE Crash
  <2>1. UNCHANGED <<made, next, seen, told, acks>>
    BY <1>2 DEF Crash, store, replies
  <2>2. ASSUME Threads = {} PROVE PlayInv'
    BY <1>0, <2>1, <2>2
    DEF PlayInv, Unmade, NoOfferAfterEnd, Capacity, ShownStands, JudgedAsShown, AcksKept
  <2>3. ASSUME NEW t \in Threads PROVE PlayInv'
    <3>1. pc'[t] = "idle" /\ req'[t] = NoRequest /\ copy'[t] = NoCopy
      BY <1>2 DEF Crash
    <3> QED
      BY <1>0, <2>1, <3>1, EndedSerial
  <2> QED
    BY <1>0, <2>2, <2>3, NextUnplayed
<1>3. ASSUME NEW t \in Threads, Process(t) PROVE PlayInv'
  BY <1>0, <1>3, ProcessSerial
<1>4. ASSUME NEW t \in Threads,
             \/ \E g \in Games, person \in 0 .. LossLimit, verdict \in Verdicts :
                  Receive(t, g, person, verdict)
             \/ CommandRefused(t)
      PROVE  PlayInv'
  BY <1>0, <1>4, ReceiveSerial, DeclineSerial
<1>5. ASSUME NEW t \in Threads, NEW g \in Games, NewGame(t, g) PROVE PlayInv'
  BY <1>0, <1>5, NewGameSerial DEF NewGame, Unplayed
<1> QED
  BY <1>0, <1>1, <1>2, <1>3, <1>4, <1>5, NextUnplayed DEF Next

(* SerialInv holds in every state of a server that serves one request at a *)
(* time.                                                                   *)
THEOREM SerialPlay == ASSUME Serial PROVE Spec => []SerialInv
  BY InitTypeInv, NextTypeInv, InitSerialInv, NextSerialInv, PTL DEF Spec

(* The venue never overfills and nobody is judged past LOSS_LIMIT.         *)
THEOREM VenueCapacity == ASSUME Serial PROVE Spec => []Capacity
<1>1. SerialInv => Capacity
  BY DEF SerialInv, PlayInv
<1> QED
  BY <1>1, SerialPlay, PTL

(* The person on record at a position is the one every reply showed there. *)
THEOREM PersonsJudgedAsShown == ASSUME Serial PROVE Spec => []JudgedAsShown
<1>1. SerialInv => JudgedAsShown
  BY DEF SerialInv, PlayInv
<1> QED
  BY <1>1, SerialPlay, PTL

(* An acknowledged verdict stays on record whatever is retried or fails.   *)
THEOREM AcknowledgedVerdictsKept == ASSUME Serial PROVE Spec => []AcksKept
<1>1. SerialInv => AcksKept
  BY DEF SerialInv, PlayInv
<1> QED
  BY <1>1, SerialPlay, PTL

(* A finished game has no pending person.                                  *)
THEOREM FinishedGamesOfferNobody == ASSUME Serial PROVE Spec => []NoOfferAfterEnd
<1>1. SerialInv => NoOfferAfterEnd
  BY DEF SerialInv, PlayInv
<1> QED
  BY <1>1, SerialPlay, PTL

(* A verdict adds one person to a running game and nothing else writes a   *)
(* game's history.                                                         *)
THEOREM HistoryAppendOnly == ASSUME Serial PROVE Spec => AppendOnly
<1> DEFINE Appends ==
             \A g \in Games :
               \/ seen'[g] = seen[g]
               \/ /\ ~IsFinished(seen[g])
                  /\ \E p \in Persons : seen'[g] = Append(seen[g], p)
<1>1. TypeInv /\ SerialInv /\ [Next]_vars => [Appends]_vars
  <2> SUFFICES ASSUME TypeInv, PlayInv, Next PROVE Appends
    BY Zenon DEF SerialInv
  <2>1. CASE seen' = seen
    BY <2>1
  <2>2. ASSUME NEW t \in Threads, WriteVerdict(t) PROVE Appends
    BY <2>2, VerdictAppends DEF TypeInv, TypeOK
  <2> QED
    BY <2>1, <2>2
    DEF Next, Process, Receive, LoadHash, Report, Decline, Admit, TakeNext, NewGame,
        CreateHash, IndexGame, OfferNext, CommandRefused, Crash, store
<1> QED
  BY <1>1, InitTypeInv, NextTypeInv, InitSerialInv, NextSerialInv, PTL
  DEF Spec, AppendOnly

(* A "running" reply shows the game as it stands when the reply is sent,   *)
(* whatever commands were refused and whatever crashed before.             *)
THEOREM RepliesShowGame == ASSUME Serial PROVE Spec => RunningShowsGame
<1> DEFINE ShowsGame ==
             \A r \in told' \ told :
               r.count = Len(seen'[r.game]) /\ Shown(next'[r.game]) = r.next
<1>1. TypeInv /\ SerialInv /\ [Next]_vars => [ShowsGame]_vars
  <2> SUFFICES ASSUME TypeInv, PlayInv, Next PROVE ShowsGame
    BY Zenon DEF SerialInv
  <2>1. ASSUME NEW t \in Threads, Report(t) PROVE ShowsGame
    <3> DEFINE g == GameOf(t)
    <3>1. /\ pc[t] = "get" /\ UNCHANGED <<next, seen>>
          /\ told' \subseteq told \cup
               {[game |-> g, count |-> Len(seen[g]), next |-> Shown(copy[t].next)]}
      BY <2>1 DEF Report, TellRunning, store
    <3>2. copy[t].next = next[g]
      BY <3>1 DEF PlayInv, CopyFresh
    <3> QED
      BY <3>1, <3>2
  <2>2. ASSUME NEW t \in Threads, OfferNext(t) PROVE ShowsGame
    <3> DEFINE g == GameOf(t)
    <3>1. PICK s \in Symbols :
            /\ next' = [next EXCEPT ![g] = s]
            /\ told' \subseteq told \cup
                 {[game |-> g, count |-> Len(copy[t].seen), next |-> Shown(s)]}
      BY <2>2 DEF OfferNext, TellRunning
    <3>2. seen' = seen /\ copy[t].seen = seen[g] /\ g \in Games
      BY <2>2 DEF OfferNext, PlayInv, CopyFresh, TypeInv, TypeOK, GameOf
    <3>3. next'[g] = s
      BY <3>1, <3>2 DEF TypeInv, TypeOK
    <3> QED
      BY <3>1, <3>2, <3>3
  <2>3. CASE told' = told
    BY <2>3
  <2> QED
    BY <2>1, <2>2, <2>3
    DEF Next, Process, Receive, LoadHash, Decline, Admit, TakeNext, WriteVerdict, NewGame,
        CreateHash, IndexGame, CommandRefused, Crash, replies
<1> QED
  BY <1>1, InitTypeInv, NextTypeInv, InitSerialInv, NextSerialInv, PTL
  DEF Spec, RunningShowsGame

-----------------------------------------------------------------------------
(* No game gets stuck while nothing fails.                                 *)

(* A command leaves its game with somebody to judge, or with its own       *)
(* thread as the one that brings somebody; the other games it leaves       *)
(* alone.                                                                  *)
LEMMA CommandKeepsWhole ==
  ASSUME Serial, TypeInv, PlayInv, NEW t \in Threads, Process(t),
         NEW g \in Games, g \in made', g \in made => Whole(g)
  PROVE  Whole(g)'
<1>0. \A u \in Threads : u = t
  BY DEF Serial
<1>1. CASE LoadHash(t) \/ Report(t) \/ Decline(t) \/ Admit(t)
  <2>1. /\ UNCHANGED <<made, next, seen>>
        /\ pc[t] \in {"hgetall", "get"}
    BY <1>1 DEF LoadHash, Report, Decline, Admit, store
  <2>2. ~Taking(g, t) /\ ~Drawing(g, t)
    BY <2>1 DEF Taking, Drawing
  <2> QED
    BY <1>0, <2>1, <2>2 DEF Whole
<1>2. CASE TakeNext(t)
  <2>1. /\ pc[t] = "hdel" /\ pc'[t] = "setrange" /\ req' = req
        /\ UNCHANGED <<made, seen>>
        /\ next' = [next EXCEPT ![GameOf(t)] = Nobody]
    BY <1>2 DEF TakeNext, Go, TypeInv, TypeOK
  <2>2. ~Taking(g, t) /\ ~Drawing(g, t) /\ (GameOf(t) = g => Taking(g, t)')
    BY <2>1 DEF Taking, Drawing, GameOf
  <2>3. GameOf(t) # g => next'[g] = next[g]
    BY <2>1 DEF TypeInv, TypeOK
  <2> QED
    BY <1>0, <2>1, <2>2, <2>3 DEF Whole
<1>3. CASE WriteVerdict(t)
  <2>1. PICK h \in Games : h = GameOf(t)
    BY <1>3 DEF WriteVerdict, TypeInv, TypeOK, GameOf
  <2>2. /\ pc[t] = "setrange" /\ UNCHANGED <<made, next>>
        /\ seen' = [seen EXCEPT ![h] = Append(seen[h], JudgedPerson(t))]
        /\ copy[t].seen = seen[h]
    BY <1>3, <2>1, VerdictAppends DEF WriteVerdict
  <2>3. \/ IsFinished(seen'[h])
        \/ Drawing(h, t)'
    <3>1. seen'[h] = Append(copy[t].seen, JudgedPerson(t))
      BY <2>2 DEF TypeInv, TypeOK
    <3>2. ~IsFinished(seen'[h]) => pc'[t] = "offer" /\ req' = req
      BY <1>3, <3>1 DEF WriteVerdict, Go, TypeInv, TypeOK
    <3> QED
      BY <2>1, <3>2 DEF Drawing, GameOf
  <2>4. ASSUME g # h PROVE seen'[g] = seen[g] /\ ~Taking(g, t) /\ ~Drawing(g, t)
    BY <2>1, <2>2, <2>4 DEF TypeInv, TypeOK, Taking, Drawing
  <2> QED
    BY <1>0, <2>2, <2>3, <2>4 DEF Whole
<1>4. CASE CreateHash(t)
  <2>1. /\ pc[t] = "create" /\ pc'[t] = "index" /\ req' = req
        /\ UNCHANGED <<next, seen>> /\ made' = made \cup {GameOf(t)}
    BY <1>4 DEF CreateHash, Go, TypeInv, TypeOK
  <2>2. ~Taking(g, t) /\ ~Drawing(g, t) /\ (GameOf(t) = g => Drawing(g, t)')
    BY <2>1 DEF Taking, Drawing, GameOf
  <2> QED
    BY <1>0, <2>1, <2>2 DEF Whole
<1>5. CASE IndexGame(t)
  <2>1. /\ pc[t] = "index" /\ pc'[t] = "offer" /\ req' = req
        /\ UNCHANGED <<made, next, seen>>
    BY <1>5 DEF IndexGame, Go, store, TypeInv, TypeOK
  <2>2. ~Taking(g, t) /\ (Drawing(g, t) => Drawing(g, t)')
    BY <2>1 DEF Taking, Drawing, GameOf
  <2> QED
    BY <1>0, <2>1, <2>2 DEF Whole
<1>6. CASE OfferNext(t)
  <2>1. PICK s \in Symbols : next' = [next EXCEPT ![GameOf(t)] = s]
    BY <1>6 DEF OfferNext
  <2>2. pc[t] = "offer" /\ UNCHANGED <<made, seen>>
    BY <1>6 DEF OfferNext
  <2>3. s # Nobody
    BY PlayAssumption
  <2>4. next'[g] = IF g = GameOf(t) THEN s ELSE next[g]
    BY <2>1 DEF TypeInv, TypeOK
  <2>5. ~Taking(g, t) /\ (Drawing(g, t) => GameOf(t) = g)
    BY <2>2 DEF Taking, Drawing
  <2> QED
    BY <1>0, <2>2, <2>3, <2>4, <2>5 DEF Whole
<1> QED
  BY <1>1, <1>2, <1>3, <1>4, <1>5, <1>6 DEF Process

(* A request that begins touches no game and leaves the other threads to   *)
(* their commands.                                                         *)
LEMMA RequestBegins ==
  ASSUME TypeOK, NEW t \in Threads,
         \/ \E h \in Games, person \in 0 .. LossLimit, verdict \in Verdicts :
              Receive(t, h, person, verdict)
         \/ \E h \in Games : NewGame(t, h)
  PROVE  /\ UNCHANGED <<made, next, seen, told, acks>>
         /\ \A g \in Games, u \in Threads : /\ Taking(g, u) => Taking(g, u)'
                                            /\ Drawing(g, u) => Drawing(g, u)'
<1>1. /\ UNCHANGED <<made, next, seen, told, acks>> /\ pc[t] = "idle"
      /\ \A u \in Threads \ {t} : pc'[u] = pc[u] /\ req'[u] = req[u]
  BY DEF Receive, NewGame, Go, store, replies, TypeOK
<1> QED
  BY <1>1 DEF Taking, Drawing, GameOf

(* When no command is refused and the server does not crash, no game ever  *)
(* loses its pending person: there is always somebody to judge, or a       *)
(* thread that is about to draw somebody, until the game is over.          *)
THEOREM NoGameStuck ==
  ASSUME Serial, Faults = {}
  PROVE  Spec => [](\A g \in made : Whole(g))
<1> DEFINE Inv == \A g \in made : Whole(g)
<1>1. Init => Inv
  BY DEF Init
<1>2. TypeInv /\ SerialInv /\ Inv /\ [Next]_vars => Inv'
  <2> SUFFICES ASSUME TypeInv, PlayInv, Inv, [Next]_vars, NEW g \in made'
               PROVE  Whole(g)'
    BY DEF SerialInv
  <2>0. made \subseteq Games
    BY DEF TypeInv, TypeOK
  <2>1. CASE UNCHANGED vars
    BY <2>1 DEF vars, Whole, Taking, Drawing, GameOf
  <2>2. ASSUME NEW t \in Threads, Process(t) PROVE Whole(g)'
    <3>1. g \in Games
      BY NextTypeInv DEF TypeInv, TypeOK
    <3> QED
      BY <2>2, <3>1, CommandKeepsWhole
  <2>3. ASSUME NEW t \in Threads,
               \/ \E h \in Games, person \in 0 .. LossLimit, verdict \in Verdicts :
                    Receive(t, h, person, verdict)
               \/ \E h \in Games : NewGame(t, h)
        PROVE  Whole(g)'
    <3>1. /\ UNCHANGED <<made, next, seen>>
          /\ \A u \in Threads : /\ Taking(g, u) => Taking(g, u)'
                                /\ Drawing(g, u) => Drawing(g, u)'
      <4>1. UNCHANGED made
        BY <2>3 DEF Receive, NewGame, store
      <4>2. g \in Games /\ TypeOK
        BY <2>0, <4>1 DEF TypeInv
      <4> QED
        BY <2>3, <4>2, RequestBegins
    <3> QED
      BY <3>1 DEF Whole
  <2> QED
    BY <2>1, <2>2, <2>3 DEF Next, CommandRefused, Crash
<1> QED
  BY <1>1, <1>2, InitTypeInv, NextTypeInv, InitSerialInv, NextSerialInv, PTL DEF Spec

-----------------------------------------------------------------------------
(* The handlers implement GameLog.                                         *)

(* With one thread, the offer and the phase of a game are read off that    *)
(* thread and the store.                                                   *)
LEMMA SerialView ==
  ASSUME Serial, NEW t \in Threads, NEW g \in Games
  PROVE  /\ OfferOf(g) = IF Taking(g, t) THEN copy[t].next ELSE next[g]
         /\ PhaseOf(g) = IF g \notin made THEN "absent"
                         ELSE IF OfferOf(g) # Nobody THEN "open"
                         ELSE IF Drawing(g, t) THEN "due"
                         ELSE IF IsFinished(seen[g]) THEN "over" ELSE "lost"
         /\ OfferOf(g)' = IF Taking(g, t)' THEN copy'[t].next ELSE next'[g]
         /\ PhaseOf(g)' = IF g \notin made' THEN "absent"
                          ELSE IF OfferOf(g)' # Nobody THEN "open"
                          ELSE IF Drawing(g, t)' THEN "due"
                          ELSE IF IsFinished(seen'[g]) THEN "over" ELSE "lost"
<1>1. \A u \in Threads : u = t
  BY DEF Serial
<1>2. OfferOf(g) = IF Taking(g, t) THEN copy[t].next ELSE next[g]
  <2>1. CASE Taking(g, t)
    <3>1. (CHOOSE u \in Threads : Taking(g, u)) = t
      BY <1>1, <2>1
    <3> QED
      BY <2>1, <3>1 DEF OfferOf
  <2>2. CASE ~Taking(g, t)
    BY <1>1, <2>2 DEF OfferOf
  <2> QED
    BY <2>1, <2>2
<1>3. OfferOf(g)' = IF Taking(g, t)' THEN copy'[t].next ELSE next'[g]
  <2>1. CASE Taking(g, t)'
    <3>1. (CHOOSE u \in Threads : Taking(g, u)') = t
      BY <1>1, <2>1
    <3> QED
      BY <2>1, <3>1 DEF OfferOf
  <2>2. CASE ~Taking(g, t)'
    BY <1>1, <2>2 DEF OfferOf
  <2> QED
    BY <2>1, <2>2
<1>4. (\E u \in Threads : Drawing(g, u)) <=> Drawing(g, t)
  BY <1>1
<1>5. (\E u \in Threads : Drawing(g, u)') <=> Drawing(g, t)'
  BY <1>1
<1> QED
  BY <1>2, <1>3, <1>4, <1>5 DEF PhaseOf

(* A request leaves the games it does not serve as they were.              *)
LEMMA Bystander ==
  ASSUME Serial, NEW t \in Threads, NEW h \in Games,
         h # GameOf(t) \/ pc[t] \notin {"setrange", "index", "offer"},
         h # GameOf(t)' \/ pc'[t] \notin {"setrange", "index", "offer"},
         next'[h] = next[h], seen'[h] = seen[h], h \in made' <=> h \in made
  PROVE  OfferOf(h)' = OfferOf(h) /\ PhaseOf(h)' = PhaseOf(h)
<1>1. ~Taking(h, t) /\ ~Drawing(h, t) /\ ~Taking(h, t)' /\ ~Drawing(h, t)'
  BY DEF Taking, Drawing
<1>2. OfferOf(h)' = OfferOf(h)
  BY <1>1, SerialView
<1> QED
  BY <1>1, <1>2, SerialView

LogVars == <<seen, [g \in Games |-> PhaseOf(g)], [g \in Games |-> OfferOf(g)]>>

(* A step that keeps the view of every game is a stutter of GameLog.       *)
LEMMA Stutter ==
  ASSUME UNCHANGED seen,
         \A g \in Games : OfferOf(g)' = OfferOf(g) /\ PhaseOf(g)' = PhaseOf(g)
  PROVE  UNCHANGED LogVars
<1>1. [g \in Games |-> PhaseOf(g)]' = [g \in Games |-> PhaseOf(g)]
  OBVIOUS
<1>2. [g \in Games |-> OfferOf(g)]' = [g \in Games |-> OfferOf(g)]
  OBVIOUS
<1> QED
  BY <1>1, <1>2 DEF LogVars

(* The initial state of the server is that of the log.                     *)
LEMMA InitImplements == Init => Log!LogInit
<1> SUFFICES ASSUME Init PROVE Log!LogInit
  OBVIOUS
<1>1. \A g \in Games : OfferOf(g) = Nobody
  BY DEF Init, OfferOf, Taking
<1>2. \A g \in Games : PhaseOf(g) = "absent"
  BY DEF Init, PhaseOf
<1> QED
  BY <1>1, <1>2 DEF Init, Log!LogInit

(* The view of the game a request serves, moved by one step of the log.    *)
LEMMA OneGameMoves ==
  ASSUME NEW g \in Games,
         \A h \in Games \ {g} : OfferOf(h)' = OfferOf(h) /\ PhaseOf(h)' = PhaseOf(h)
  PROVE  /\ [h \in Games |-> PhaseOf(h)]' =
              [[h \in Games |-> PhaseOf(h)] EXCEPT ![g] = PhaseOf(g)']
         /\ [h \in Games |-> OfferOf(h)]' =
              [[h \in Games |-> OfferOf(h)] EXCEPT ![g] = OfferOf(g)']
  OBVIOUS

(* CreateHash starts a game.                                               *)
LEMMA CreateHashStarts ==
  ASSUME Serial, TypeInv, PlayInv, NEW t \in Threads, CreateHash(t)
  PROVE  Log!Start(GameOf(t))
<1> DEFINE g == GameOf(t)
<1>1. /\ pc[t] = "create" /\ pc' = [pc EXCEPT ![t] = "index"]
      /\ made' = made \cup {g}
      /\ UNCHANGED <<next, seen, req, copy, told, acks>>
  BY DEF CreateHash, Go, replies
<1>2. /\ g \in Games \ made /\ next[g] = Nobody
      /\ pc'[t] = "index" /\ g' = g
  BY <1>1 DEF PlayInv, CopyFresh, Unmade, GameOf, TypeInv, TypeOK
<1>3. ASSUME NEW h \in Games \ {g}
      PROVE  OfferOf(h)' = OfferOf(h) /\ PhaseOf(h)' = PhaseOf(h)
  BY <1>1, <1>2, Bystander
<1>4. PhaseOf(g) = "absent" /\ OfferOf(g) = Nobody
  BY <1>1, <1>2, SerialView DEF Taking
<1>5. Drawing(g, t)' /\ ~Taking(g, t)'
  BY <1>2 DEF Drawing, Taking
<1>6. PhaseOf(g)' = "due" /\ OfferOf(g)' = Nobody
  BY <1>1, <1>2, <1>5, SerialView
<1> HIDE DEF g
<1>7. /\ [h \in Games |-> PhaseOf(h)]' = [[h \in Games |-> PhaseOf(h)] EXCEPT ![g] = "due"]
      /\ [h \in Games |-> OfferOf(h)]' = [h \in Games |-> OfferOf(h)]
  BY <1>2, <1>3, <1>4, <1>6, OneGameMoves
<1> QED
  BY <1>1, <1>2, <1>4, <1>7 DEF Log!Start, g

(* OfferNext draws the symbol of a game that is due one.                   *)
LEMMA OfferNextDraws ==
  ASSUME Serial, TypeInv, PlayInv, NEW t \in Threads, OfferNext(t),
         NEW g \in Games, g = GameOf(t)
  PROVE  Log!Draw(g)
<1>1. PICK s \in Symbols : next' = [next EXCEPT ![g] = s]
  BY DEF OfferNext
<1>2. /\ pc[t] = "offer" /\ pc'[t] = "idle"
      /\ UNCHANGED <<made, seen>>
  BY ReturnedFresh DEF OfferNext
<1>3. g \in made /\ next[g] = Nobody
  BY <1>2 DEF PlayInv, CopyFresh
<1>4. /\ next'[g] = s /\ s # Nobody
      /\ \A h \in Games \ {g} : next'[h] = next[h]
  BY <1>1, PlayAssumption DEF TypeInv, TypeOK
<1>5. ASSUME NEW h \in Games \ {g}
      PROVE  OfferOf(h)' = OfferOf(h) /\ PhaseOf(h)' = PhaseOf(h)
  BY <1>2, <1>4, Bystander
<1>6. /\ ~Taking(g, t) /\ Drawing(g, t)
      /\ ~Taking(g, t)' /\ ~Drawing(g, t)'
  BY <1>2 DEF Taking, Drawing
<1>7. /\ OfferOf(g) = Nobody /\ PhaseOf(g) = "due"
      /\ OfferOf(g)' = s /\ PhaseOf(g)' = "open"
  BY <1>2, <1>3, <1>4, <1>6, SerialView
<1>8. /\ [h \in Games |-> PhaseOf(h)]' = [[h \in Games |-> PhaseOf(h)] EXCEPT ![g] = "open"]
      /\ [h \in Games |-> OfferOf(h)]' = [[h \in Games |-> OfferOf(h)] EXCEPT ![g] = s]
  BY <1>5, <1>7, OneGameMoves
<1> QED
  BY <1>2, <1>7, <1>8 DEF Log!Draw, Log!Symbols, Symbols

(* GameLog and PlayServer play by the same rules.                          *)
LEMMA SameRules == ASSUME NEW s PROVE Log!IsFinished(s) <=> IsFinished(s)
<1>1. Log!AcceptedAt(s) = AcceptedAt(s)
  BY Zenon DEF Log!AcceptedAt, AcceptedAt
<1>2. Log!Accepted(s) = Accepted(s)
  BY <1>1, Zenon
  DEF Log!Accepted, Accepted, Log!Cardinality, Cardinality
<1> QED
  BY <1>2, Zenon DEF Log!IsFinished, IsFinished

(* WriteVerdict judges the open offer of its game.                         *)
LEMMA WriteVerdictJudges ==
  ASSUME Serial, TypeInv, PlayInv, NEW t \in Threads, WriteVerdict(t),
         NEW g \in Games, g = GameOf(t)
  PROVE  Log!Judge(g)
<1> DEFINE p == JudgedPerson(t)
<1>1. /\ g \in made /\ ~IsFinished(seen[g])
      /\ p \in Persons
      /\ copy[t].seen = seen[g]
      /\ next[g] = Nobody
      /\ seen' = [seen EXCEPT ![g] = Append(seen[g], p)]
  BY VerdictAppends
<1>2. /\ seen'[g] = Append(seen[g], p)
      /\ \A h \in Games \ {g} : seen'[h] = seen[h]
      /\ copy[t].next # Nobody
  BY <1>1 DEF TypeInv, TypeOK, PlayInv, CopyFresh, WriteVerdict
<1>3. /\ pc[t] = "setrange"
      /\ UNCHANGED <<made, next>>
      /\ IsFinished(seen'[g]) => pc'[t] = "idle"
      /\ ~IsFinished(seen'[g]) => pc'[t] = "offer" /\ GameOf(t)' = g
  <2>1. /\ pc[t] = "setrange"
        /\ UNCHANGED <<made, next>>
        /\ IsFinished(seen'[g]) => Return(t)
        /\ ~IsFinished(seen'[g]) => Go(t, "offer") /\ UNCHANGED req
    BY <1>1, <1>2 DEF WriteVerdict
  <2> QED
    BY <2>1, ReturnedFresh DEF Go, GameOf, TypeInv, TypeOK
<1>4. p = [attrs |-> copy[t].next, ok |-> p.ok] /\ p.ok \in BOOLEAN
  BY Zenon DEF JudgedPerson
<1> HIDE DEF p
<1>5. ASSUME NEW h \in Games \ {g}
      PROVE  OfferOf(h)' = OfferOf(h) /\ PhaseOf(h)' = PhaseOf(h)
  <2>1. h # GameOf(t)' \/ pc'[t] \notin {"setrange", "index", "offer"}
    BY <1>3
  <2> QED
    BY <1>2, <1>3, <2>1, Bystander
<1>6. Taking(g, t) /\ ~Taking(g, t)'
  BY <1>3 DEF Taking
<1>7. OfferOf(g) = copy[t].next /\ PhaseOf(g) = "open" /\ OfferOf(g)' = Nobody
  BY <1>1, <1>2, <1>3, <1>6, SerialView
<1>8. PhaseOf(g)' = IF IsFinished(seen'[g]) THEN "over" ELSE "due"
  BY <1>1, <1>3, <1>7, SerialView DEF Drawing
<1>9. /\ [h \in Games |-> PhaseOf(h)]' =
           [[h \in Games |-> PhaseOf(h)] EXCEPT ![g] =
              IF IsFinished(seen'[g]) THEN "over" ELSE "due"]
      /\ [h \in Games |-> OfferOf(h)]' = [[h \in Games |-> OfferOf(h)] EXCEPT ![g] = Nobody]
  BY <1>5, <1>7, <1>8, OneGameMoves
<1>10. \E ok \in BOOLEAN :
         seen' = [seen EXCEPT ![g] = Append(@, [attrs |-> copy[t].next, ok |-> ok])]
  BY <1>1, <1>4
<1>11. Log!IsFinished(seen'[g]) <=> IsFinished(seen'[g])
  BY SameRules
<1>12. /\ [h \in Games |-> PhaseOf(h)][g] = "open"
       /\ [h \in Games |-> OfferOf(h)][g] = copy[t].next
  BY <1>7
<1> QED
  BY <1>9, <1>10, <1>11, <1>12 DEF Log!Judge

(* Ending a request early, by a refused command or a crash, loses the      *)
(* symbol of its game, or loses nothing.                                   *)
LEMMA EarlyEndLoses ==
  ASSUME Serial, TypeInv, PlayInv, NEW t \in Threads,
         UNCHANGED <<made, next, seen>>, pc'[t] = "idle"
  PROVE  \/ UNCHANGED LogVars
         \/ \E g \in Games : Log!Lose(g)
<1>1. CASE pc[t] \notin {"setrange", "index", "offer"}
  <2>1. ASSUME NEW h \in Games
        PROVE  OfferOf(h)' = OfferOf(h) /\ PhaseOf(h)' = PhaseOf(h)
    BY <1>1, Bystander
  <2> QED
    BY <2>1, Stutter
<1>2. CASE pc[t] \in {"setrange", "index", "offer"}
  <2>1. PICK g \in Games : g = GameOf(t)
    BY <1>2 DEF TypeInv, TypeOK, GameOf
  <2>2. /\ g \in made /\ next[g] = Nobody /\ ~IsFinished(seen[g])
        /\ pc[t] = "setrange" => copy[t].next # Nobody
    BY <1>2, <2>1 DEF PlayInv, CopyFresh
  <2>3. ASSUME NEW h \in Games \ {g}
        PROVE  OfferOf(h)' = OfferOf(h) /\ PhaseOf(h)' = PhaseOf(h)
    BY <2>1, Bystander
  <2>4. /\ Taking(g, t) \/ Drawing(g, t)
        /\ Taking(g, t) => copy[t].next # Nobody
        /\ ~Taking(g, t)' /\ ~Drawing(g, t)'
    BY <1>2, <2>1, <2>2 DEF Taking, Drawing
  <2>5. /\ PhaseOf(g) \in {"open", "due"}
        /\ OfferOf(g)' = Nobody /\ PhaseOf(g)' = "lost"
    BY <2>2, <2>4, SerialView
  <2>6. /\ [h \in Games |-> PhaseOf(h)]' = [[h \in Games |-> PhaseOf(h)] EXCEPT ![g] = "lost"]
        /\ [h \in Games |-> OfferOf(h)]' = [[h \in Games |-> OfferOf(h)] EXCEPT ![g] = Nobody]
    BY <2>3, <2>5, OneGameMoves
  <2>7. Log!Lose(g)
    BY <2>5, <2>6 DEF Log!Lose
  <2> QED
    BY <2>7
<1> QED
  BY <1>1, <1>2

(* Every step of the server is a step of the log or a stutter.             *)
LEMMA NextImplements ==
  ASSUME Serial PROVE TypeInv /\ SerialInv /\ [Next]_vars => [Log!LogNext]_LogVars
<1> SUFFICES ASSUME TypeInv, PlayInv, [Next]_vars
             PROVE  UNCHANGED LogVars \/ \E g \in Games :
                      Log!Start(g) \/ Log!Draw(g) \/ Log!Judge(g) \/ Log!Lose(g)
  BY DEF Log!LogNext, SerialInv
<1>1. CASE UNCHANGED vars
  BY <1>1, Stutter DEF vars, OfferOf, PhaseOf, Taking, Drawing, GameOf
<1>2. CASE Crash
  <2>1. CASE Threads = {}
    BY <1>2, <2>1, Stutter DEF Crash, OfferOf, PhaseOf, store, replies
  <2>2. CASE Threads # {}
    BY <1>2, <2>2, EarlyEndLoses DEF Crash, store, replies
  <2> QED
    BY <2>1, <2>2
<1>3. ASSUME NEW t \in Threads, CommandRefused(t)
      PROVE  UNCHANGED LogVars \/ \E g \in Games : Log!Lose(g)
  BY <1>3, ReturnedFresh, EarlyEndLoses DEF CommandRefused, store, replies
<1>4. ASSUME NEW t \in Threads,
             \/ \E g \in Games, person \in 0 .. LossLimit, verdict \in Verdicts :
                  Receive(t, g, person, verdict)
             \/ \E g \in Games : NewGame(t, g)
             \/ LoadHash(t) \/ Report(t) \/ Decline(t) \/ Admit(t)
      PROVE  UNCHANGED LogVars
  <2>1. /\ UNCHANGED <<made, next, seen>>
        /\ pc[t] \in {"idle", "hgetall", "get"}
        /\ pc'[t] \notin {"setrange", "index", "offer"}
    BY <1>4, ReturnedFresh
    DEF Receive, NewGame, LoadHash, Report, Decline, Admit, Go, store, TypeInv, TypeOK
  <2>2. ASSUME NEW h \in Games
        PROVE  OfferOf(h)' = OfferOf(h) /\ PhaseOf(h)' = PhaseOf(h)
    BY <2>1, Bystander
  <2> QED
    BY <2>1, <2>2, Stutter
<1>5. ASSUME NEW t \in Threads, TakeNext(t)
      PROVE  UNCHANGED LogVars
  <2>1. PICK g \in Games : g = GameOf(t)
    BY <1>5 DEF TakeNext, TypeInv, TypeOK, GameOf
  <2>2. /\ pc[t] = "hdel" /\ pc' = [pc EXCEPT ![t] = "setrange"]
        /\ next' = [next EXCEPT ![g] = Nobody]
        /\ UNCHANGED <<made, seen, req, copy>>
    BY <1>5, <2>1 DEF TakeNext, Go, replies
  <2>3. /\ copy[t].next = next[g] /\ next[g] # Nobody
        /\ GameOf(t)' = g
        /\ pc'[t] = "setrange"
        /\ \A h \in Games \ {g} : next'[h] = next[h]
    BY <2>1, <2>2 DEF PlayInv, CopyFresh, GameOf, TypeInv, TypeOK
  <2>4. ASSUME NEW h \in Games \ {g}
        PROVE  OfferOf(h)' = OfferOf(h) /\ PhaseOf(h)' = PhaseOf(h)
    BY <2>1, <2>2, <2>3, Bystander
  <2>5. /\ ~Taking(g, t) /\ Taking(g, t)'
    BY <2>2, <2>3 DEF Taking
  <2>6. OfferOf(g)' = OfferOf(g) /\ PhaseOf(g)' = PhaseOf(g)
    BY <2>2, <2>3, <2>5, SerialView
  <2> QED
    BY <2>2, <2>4, <2>6, Stutter
<1>6. ASSUME NEW t \in Threads, IndexGame(t)
      PROVE  UNCHANGED LogVars
  <2>1. /\ pc[t] = "index" /\ pc'[t] = "offer"
        /\ UNCHANGED <<made, next, seen, req, copy>>
    BY <1>6 DEF IndexGame, Go, store, replies, TypeInv, TypeOK
  <2>2. ASSUME NEW h \in Games
        PROVE  OfferOf(h)' = OfferOf(h) /\ PhaseOf(h)' = PhaseOf(h)
    BY <2>1, SerialView DEF Taking, Drawing, GameOf
  <2> QED
    BY <2>1, <2>2, Stutter
<1>7. ASSUME NEW t \in Threads, WriteVerdict(t) \/ CreateHash(t) \/ OfferNext(t)
      PROVE  \E g \in Games : Log!Start(g) \/ Log!Draw(g) \/ Log!Judge(g)
  <2>1. PICK g \in Games : g = GameOf(t)
    BY <1>7 DEF WriteVerdict, CreateHash, OfferNext, TypeInv, TypeOK, GameOf
  <2> QED
    BY <1>7, <2>1, WriteVerdictJudges, CreateHashStarts, OfferNextDraws
<1> QED
  BY <1>1, <1>2, <1>3, <1>4, <1>5, <1>6, <1>7 DEF Next, Process

(* A server that serves one request at a time implements GameLog: whatever *)
(* is retried, refused or cut short, each game is an append-only log of    *)
(* judged offers.                                                          *)
THEOREM SerialPlayIsGameLog == ASSUME Serial PROVE Spec => ImplementsGameLog
<1>1. TypeInv /\ SerialInv /\ [Next]_vars => [Log!LogNext]_(Log!logVars)
  BY NextImplements DEF LogVars, Log!logVars
<1> QED
  BY <1>1, InitTypeInv, NextTypeInv, InitSerialInv, NextSerialInv, InitImplements, PTL
  DEF Spec, ImplementsGameLog, Log!LogSpec
=============================================================================
