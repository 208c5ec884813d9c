-------------------------- MODULE DurabilityProofs --------------------------
(***************************************************************************)
(* Proofs about Durability for every number of games, attributes and       *)
(* limits, and a server that serves one request at a time: what restarts   *)
(* of valkey or the server, and resets, leave of the games.  They rest on  *)
(* DurableInv: whatever valkey may be started with is a state an idle      *)
(* server could be in.                                                     *)
(***************************************************************************)
EXTENDS Durability, PlayServerProofs

-----------------------------------------------------------------------------
(* Lemmas about the contents of valkey.                                    *)

LEMMA Fields ==
  /\ Contents.made = made /\ Contents.next = next /\ Contents.seen = seen
  /\ Contents.told = told /\ Contents.acks = acks
  /\ Contents.cut = cut \cup {g \in Games : Halfway(g)}
  BY DEF Contents

LEMMA FieldsAfter ==
  /\ Contents'.made = made' /\ Contents'.next = next' /\ Contents'.seen = seen'
  /\ Contents'.told = told' /\ Contents'.acks = acks'
  /\ Contents'.cut = cut' \cup {g \in Games : Halfway(g)'}
  BY DEF Contents

(* A file stays sound while more games are drawn and wiped.                *)
LEMMA FileKept ==
  ASSUME Sound(file), file' = file, used \subseteq used', wiped \subseteq wiped'
  PROVE  Sound(file)'
<1>1. KeysSound(file)'
  BY DEF Sound, KeysSound
<1>2. RepliesSound(file)'
  BY DEF Sound, RepliesSound
<1>3. CutsSound(file)'
  BY DEF Sound, CutsSound
<1> QED
  BY <1>1, <1>2, <1>3 DEF Sound

(* Neither keys nor replies change, and no game that something had stopped *)
(* in is forgotten.                                                        *)
LEMMA ContentsKept ==
  ASSUME Sound(Contents), UNCHANGED <<made, next, seen, told, acks>>,
         used \subseteq used', wiped \subseteq wiped',
         Contents.cut \subseteq Contents'.cut, cut' \subseteq Games
  PROVE  Sound(Contents)'
<1>1. KeysSound(Contents)'
  BY Fields, FieldsAfter DEF Sound, KeysSound
<1>2. RepliesSound(Contents)'
  BY Fields, FieldsAfter DEF Sound, RepliesSound
<1>3. CutsSound(Contents)'
  BY Fields, FieldsAfter DEF Sound, CutsSound
<1> QED
  BY <1>1, <1>2, <1>3 DEF Sound

(* Sound keys and replies and well typed threads are a well typed server.  *)
LEMMA SoundTyped ==
  ASSUME Sound(Contents)', used' \subseteq Games,
         pc' \in [Threads -> Steps],
         req' \in [Threads -> Requests],
         copy' \in [Threads -> [next : Symbols \cup {Nobody}, seen : Seq(Persons)]],
         \A t \in Threads : pc'[t] # "idle" => req'[t].game \in Games
  PROVE  TypeOK'
  BY FieldsAfter DEF Sound, KeysSound, RepliesSound, TypeOK

(* A server at rest has nothing to contradict the keys with.               *)
LEMMA RestPlays ==
  ASSUME TypeOK', Sound(Contents)', \A t \in Threads : AtRest(t)'
  PROVE  LengthInv' /\ PlayInv'
<1>1. LengthInv'
  BY FieldsAfter, RulesAssumption
  DEF Sound, KeysSound, AtRest, LengthInv, InFlight, NoCopy
<1>2. ASSUME NEW t \in Threads PROVE CopyFresh(t)' /\ VerdictRecorded(t)'
  BY DEF AtRest, CopyFresh, VerdictRecorded
<1>3. Unmade' /\ NoOfferAfterEnd' /\ Capacity'
  BY FieldsAfter DEF Sound, KeysSound, Unmade, NoOfferAfterEnd, Capacity
<1>4. ASSUME NEW r \in told' PROVE ShownStands(r)'
  BY FieldsAfter DEF Sound, RepliesSound, ShownStands, AtRest, Taking, Drawing
<1>5. JudgedAsShown' /\ AcksKept'
  BY FieldsAfter DEF Sound, RepliesSound, JudgedAsShown, AcksKept
<1> QED
  BY <1>1, <1>2, <1>3, <1>4, <1>5 DEF PlayInv

(* The keys as a server at work leaves them are sound.                     *)
LEMMA PlaySound ==
  ASSUME TypeOK', PlayInv',
         made' \subseteq used', \A g \in Games \ used' : seen'[g] = <<>>
  PROVE  KeysSound(Contents)' /\ RepliesSound(Contents)'
<1>1. KeysSound(Contents)'
  BY FieldsAfter
  DEF KeysSound, TypeOK, PlayInv, Unmade, NoOfferAfterEnd, Capacity
<1>2. ASSUME NEW r \in told'
      PROVE  /\ r.game \in made'
             /\ r.count <= Len(seen'[r.game])
             /\ r.count = Len(seen'[r.game]) => next'[r.game] \in {r.next, Nobody}
  <2>1. ShownStands(r)'
    BY DEF PlayInv
  <2>2. \A t \in Threads : Taking(r.game, t)' => next'[r.game] = Nobody
    BY DEF PlayInv, CopyFresh, Taking
  <2> QED
    BY <2>1, <2>2 DEF ShownStands
<1>3. RepliesSound(Contents)'
  BY <1>2, FieldsAfter DEF RepliesSound, TypeOK, PlayInv, JudgedAsShown, AcksKept
<1> QED
  BY <1>1, <1>3

-----------------------------------------------------------------------------
(* The requests.                                                           *)

(* A command writes to no game but one that is made or being created.      *)
LEMMA ProcessTouches ==
  ASSUME Serial, TypeInv, PlayInv, NEW t \in Threads, Process(t),
         NEW g \in Games, g \notin made, ~(pc[t] = "create" /\ GameOf(t) = g)
  PROVE  g \notin made' /\ next'[g] = next[g] /\ seen'[g] = seen[g]
<1>1. CASE LoadHash(t) \/ Report(t) \/ Decline(t) \/ Admit(t) \/ IndexGame(t)
  BY <1>1 DEF LoadHash, Report, Decline, Admit, IndexGame, store
<1>2. CASE CreateHash(t)
  BY <1>2 DEF CreateHash
<1>3. CASE TakeNext(t) \/ OfferNext(t)
  <2>1. GameOf(t) \in made
    BY <1>3 DEF TakeNext, OfferNext, PlayInv, CopyFresh
  <2> QED
    BY <1>3, <2>1 DEF TakeNext, OfferNext, TypeInv, TypeOK
<1>4. CASE WriteVerdict(t)
  BY <1>4, VerdictAppends DEF WriteVerdict, TypeInv, TypeOK
<1> QED
  BY <1>1, <1>2, <1>3, <1>4 DEF Process

LEMMA AskDurable ==
  ASSUME Serial, DurableInv, NEW t \in Threads, Ask(t)
  PROVE  DurableInv'
<1>1. /\ mode = "up" /\ UNCHANGED <<file, linked, mode, keys, wiped, cut, cleared>>
      /\ used \subseteq used' /\ used' \subseteq Games
      /\ TypeOK
  BY DEF Ask, Serving, server, DurableInv, ResetSound, DTypeOK
<1>2. \/ /\ \E g \in Games, person \in 0 .. LossLimit, verdict \in Verdicts :
               Receive(t, g, person, verdict)
         /\ used' = used
      \/ \E g \in Games \ used : NewGame(t, g) /\ used' = used \cup {g}
  BY DEF Ask
<1>3. /\ UNCHANGED <<made, next, seen, told, acks>>
      /\ \A g \in Games, u \in Threads : /\ Taking(g, u) => Taking(g, u)'
                                         /\ Drawing(g, u) => Drawing(g, u)'
  BY <1>1, <1>2, RequestBegins
<1>4. TypeOK'
  <2>1. PICK q \in Requests, step \in {"hgetall", "create"} :
          /\ req' = [req EXCEPT ![t] = q]
          /\ pc' = [pc EXCEPT ![t] = step]
          /\ copy' = copy
          /\ q.game \in Games
    <3>1. ASSUME NEW g \in Games, NEW person \in 0 .. LossLimit, NEW verdict \in Verdicts
          PROVE  [game |-> g, person |-> person, verdict |-> verdict] \in Requests
      BY DEF Requests
    <3>2. 0 \in 0 .. LossLimit /\ "none" \in Verdicts
      BY RulesAssumption DEF Verdicts
    <3>3. ASSUME NEW g \in Games, NEW person \in 0 .. LossLimit, NEW verdict \in Verdicts,
                 Receive(t, g, person, verdict)
          PROVE  \E q \in Requests, step \in {"hgetall", "create"} :
                   /\ req' = [req EXCEPT ![t] = q] /\ pc' = [pc EXCEPT ![t] = step]
                   /\ copy' = copy /\ q.game \in Games
      BY <3>1, <3>3 DEF Receive, Go
    <3>4. ASSUME NEW g \in Games, NewGame(t, g)
          PROVE  \E q \in Requests, step \in {"hgetall", "create"} :
                   /\ req' = [req EXCEPT ![t] = q] /\ pc' = [pc EXCEPT ![t] = step]
                   /\ copy' = copy /\ q.game \in Games
      BY <3>1, <3>2, <3>4 DEF NewGame, Go
    <3> QED
      BY <1>2, <3>3, <3>4
  <2> QED
    BY <1>1, <1>3, <2>1 DEF TypeOK, Steps
<1>5. ASSUME linked PROVE LengthInv' /\ PlayInv'
  <2>1. TypeInv /\ PlayInv
    BY <1>1, <1>5 DEF DurableInv, RequestsSound, TypeInv
  <2>2. LengthInv'
    BY <1>2, <2>1, NextTypeInv DEF Next, TypeInv
  <2>3. \A g \in Games \ used : seen[g] = <<>>
    BY Fields DEF DurableInv, Sound, KeysSound
  <2> QED
    BY <1>2, <2>1, <2>2, <2>3, ReceiveSerial, NewGameSerial
<1>6. \A u \in Threads : pc'[u] = "create" => GameOf(u)' \in used' \ wiped'
  <2>1. \A u \in Threads : pc[u] = "create" => GameOf(u) \in used \ wiped
    BY DEF DurableInv, RequestsSound
  <2>2. wiped \subseteq used
    BY DEF DurableInv, ResetSound
  <2> QED
    <3>1. CASE used' = used
      BY <1>1, <1>2, <2>1, <2>2, <3>1 DEF Receive, NewGame, Go, GameOf, TypeOK
    <3>2. ASSUME NEW g \in Games \ used, NewGame(t, g), used' = used \cup {g}
          PROVE  \A u \in Threads : pc'[u] = "create" => GameOf(u)' \in used' \ wiped'
      BY <1>1, <2>1, <2>2, <3>2 DEF NewGame, Go, GameOf, TypeOK
    <3> QED
      BY <1>2, <3>1, <3>2
<1>7. RequestsSound'
  BY <1>1, <1>5, <1>6 DEF RequestsSound
<1>8. ResetSound'
  BY <1>1, <1>3 DEF DurableInv, ResetSound, Blank
<1>9. Sound(Contents)'
  <2>1. Contents.cut \subseteq Contents'.cut
    BY <1>1, <1>3, Fields, FieldsAfter DEF Halfway
  <2>2. cut' \subseteq Games
    BY <1>1, Fields DEF DurableInv, Sound, CutsSound
  <2> QED
    BY <1>1, <1>3, <2>1, <2>2, ContentsKept DEF DurableInv
<1>10. Sound(file)'
  BY <1>1, FileKept DEF DurableInv
<1>11. DTypeOK'
  BY <1>1, <1>4 DEF DurableInv, DTypeOK
<1> QED
  BY <1>7, <1>8, <1>9, <1>10, <1>11 DEF DurableInv

LEMMA WorkDurable ==
  ASSUME Serial, DurableInv, NEW t \in Threads, Work(t)
  PROVE  DurableInv'
<1>1. /\ mode = "up" /\ linked /\ Process(t)
      /\ UNCHANGED <<file, linked, mode, keys, used, wiped, cut, cleared>>
  BY DEF Work, Serving, server, history
<1>2. TypeInv /\ PlayInv
  BY <1>1 DEF DurableInv, DTypeOK, RequestsSound, TypeInv
<1>3. TypeInv' /\ PlayInv'
  BY <1>1, <1>2, NextTypeInv, ProcessSerial DEF Next
<1>4. /\ pc[t] = "create" => GameOf(t) \in used \ wiped
      /\ made \subseteq used /\ used \subseteq Games /\ wiped \subseteq Games
      /\ \A g \in Games \ used : seen[g] = <<>>
      /\ cut \subseteq Games
  BY Fields
  DEF DurableInv, RequestsSound, ResetSound, Sound, KeysSound, CutsSound
<1>5. /\ made' \subseteq used'
      /\ \A g \in Games \ used' : seen'[g] = <<>>
  <2>1. ASSUME NEW g \in Games \ used PROVE g \notin made' /\ seen'[g] = <<>>
    BY <1>1, <1>2, <1>4, <2>1, ProcessTouches
  <2>2. made' \subseteq Games
    BY <1>3 DEF TypeInv, TypeOK
  <2> QED
    BY <1>1, <2>1, <2>2
<1>6. CutsSound(Contents)'
  <2>1. ASSUME NEW g \in made' \ wiped'
        PROVE  next'[g] # Nobody \/ IsFinished(seen'[g]) \/ Halfway(g)' \/ g \in cut'
    <3>1. g \in Games
      BY <1>3 DEF TypeInv, TypeOK
    <3>2. g \in made => Whole(g) \/ g \in cut
      BY <1>1, <2>1, Fields DEF DurableInv, Sound, CutsSound, Halfway, Whole
    <3>3. CASE g \in made => Whole(g)
      <4>1. Whole(g)'
        BY <1>1, <1>2, <2>1, <3>1, <3>3, CommandKeepsWhole
      <4> QED
        BY <1>1, <4>1 DEF Whole, Halfway
    <3> QED
      BY <1>1, <3>2, <3>3
  <2>2. made' \subseteq Games
    BY <1>3 DEF TypeInv, TypeOK
  <2> QED
    BY <1>1, <1>4, <2>1, <2>2, FieldsAfter DEF CutsSound
<1>7. Sound(Contents)'
  BY <1>3, <1>5, <1>6, PlaySound DEF Sound, TypeInv
<1>8. RequestsSound'
  <2>1. \A u \in Threads : pc'[u] = "create" => pc[u] = "create" /\ GameOf(u)' = GameOf(u)
    BY <1>1, <1>2
    DEF Process, LoadHash, Report, Decline, Admit, TakeNext, WriteVerdict, CreateHash,
        IndexGame, OfferNext, Return, Go, GameOf, TypeInv, TypeOK
  <2>2. \A u \in Threads : pc[u] = "create" => GameOf(u) \in used \ wiped
    BY DEF DurableInv, RequestsSound
  <2> QED
    BY <1>1, <1>3, <2>1, <2>2 DEF RequestsSound, TypeInv
<1>9. ResetSound'
  <2>1. ASSUME cleared, NEW g \in wiped PROVE Blank(g)'
    <3>1. Blank(g) /\ g \in Games
      BY <1>4, <2>1 DEF DurableInv, ResetSound
    <3> QED
      BY <1>1, <1>2, <1>4, <3>1, ProcessTouches DEF Blank
  <2> QED
    BY <1>1, <2>1 DEF DurableInv, ResetSound
<1>10. Sound(file)'
  BY <1>1, FileKept DEF DurableInv
<1>11. DTypeOK'
  BY <1>1, <1>3 DEF DurableInv, DTypeOK, TypeInv
<1> QED
  BY <1>7, <1>8, <1>9, <1>10, <1>11 DEF DurableInv

(* A request that ends early leaves its game among those that were cut.    *)
LEMMA EndDurable ==
  ASSUME Serial, DurableInv, NEW t \in Threads, Refuse(t) \/ NoReply(t)
  PROVE  DurableInv'
<1>1. /\ mode = "up" /\ Return(t) /\ UNCHANGED <<made, next, seen, told, acks>>
      /\ UNCHANGED <<file, linked, mode, keys, used, wiped, cleared>>
      /\ cut' \subseteq cut \cup {g \in Games : Halfway(g)}
      /\ {g \in Games : Halfway(g)} \subseteq cut' /\ cut \subseteq cut'
  BY DEF Refuse, NoReply, Serving, CommandRefused, store, replies, server, history, Halfway
<1>2. TypeOK /\ TypeOK'
  <2>1. TypeOK
    BY DEF DurableInv, DTypeOK
  <2>2. NoRequest \in Requests /\ NoCopy \in [next : Symbols \cup {Nobody}, seen : Seq(Persons)]
    BY RulesAssumption DEF NoRequest, NoCopy, Requests, Verdicts
  <2> QED
    BY <1>1, <2>1, <2>2 DEF TypeOK, Return, Steps
<1>3. ASSUME linked PROVE LengthInv' /\ PlayInv'
  <2>1. TypeInv /\ PlayInv
    BY <1>2, <1>3 DEF DurableInv, RequestsSound, TypeInv
  <2>2. CommandRefused(t)
    BY <1>3 DEF Refuse, NoReply
  <2> QED
    BY <2>1, <2>2, NextTypeInv, DeclineSerial DEF Next, TypeInv
<1>4. RequestsSound'
  <2>1. \A u \in Threads : pc'[u] = "create" => pc[u] = "create" /\ GameOf(u)' = GameOf(u)
    BY <1>1, <1>2 DEF Return, GameOf, TypeOK
  <2>2. \A u \in Threads : pc[u] = "create" => GameOf(u) \in used \ wiped
    BY DEF DurableInv, RequestsSound
  <2> QED
    BY <1>1, <1>3, <2>1, <2>2 DEF RequestsSound
<1>5. ResetSound'
  BY <1>1 DEF DurableInv, ResetSound, Blank
<1>6. Sound(Contents)'
  <2>1. Contents.cut \subseteq Contents'.cut
    BY <1>1, Fields, FieldsAfter
  <2>2. cut' \subseteq Games
    BY <1>1, Fields DEF DurableInv, Sound, CutsSound
  <2> QED
    BY <1>1, <2>1, <2>2, ContentsKept DEF DurableInv
<1>7. Sound(file)'
  BY <1>1, FileKept DEF DurableInv
<1>8. DTypeOK'
  BY <1>1, <1>2 DEF DurableInv, DTypeOK
<1> QED
  BY <1>4, <1>5, <1>6, <1>7, <1>8 DEF DurableInv

-----------------------------------------------------------------------------
(* valkey.                                                                 *)

(* The file takes the keys and the replies as they are.                    *)
LEMMA SaveDurable ==
  ASSUME DurableInv, Save
  PROVE  DurableInv'
<1>1. file' = Contents /\ UNCHANGED <<vars, server, history>>
  BY DEF Save
<1>2. UNCHANGED <<made, next, seen, pc, req, copy, told, acks, linked, mode, keys,
                  used, wiped, cut, cleared>>
  BY <1>1 DEF vars, server, history
<1>3. RequestsSound'
  BY <1>1, <1>2, QuietPlayInv
  DEF DurableInv, RequestsSound, AtRest, GameOf, LengthInv, InFlight
<1>4. ResetSound'
  BY <1>2 DEF DurableInv, ResetSound, Blank
<1>5. Contents' = Contents
  BY <1>2 DEF Contents, Halfway, Taking, Drawing, GameOf
<1>6. cut' \subseteq Games
  BY <1>2, Fields DEF DurableInv, Sound, CutsSound
<1>7. Sound(Contents)'
  BY <1>2, <1>5, <1>6, ContentsKept DEF DurableInv
<1>8. Sound(file)'
  BY <1>1, <1>2 DEF DurableInv, Sound, KeysSound, RepliesSound, CutsSound
<1>9. DTypeOK'
  BY <1>2 DEF DurableInv, DTypeOK, TypeOK
<1> QED
  BY <1>3, <1>4, <1>7, <1>8, <1>9 DEF DurableInv

(* valkey comes back with the file, and the server has no connection to    *)
(* it.                                                                     *)
LEMMA ValkeyRestartDurable ==
  ASSUME DurableInv, ValkeyRestart
  PROVE  DurableInv'
<1>1. /\ made' = file.made /\ next' = file.next /\ seen' = file.seen
      /\ told' = file.told /\ acks' = file.acks /\ cut' = file.cut
      /\ linked' = FALSE /\ cleared' = FALSE
      /\ UNCHANGED <<pc, req, copy, file, mode, keys, used, wiped>>
  BY DEF ValkeyRestart, local
<1>2. Contents'.cut = cut'
  BY <1>1, FieldsAfter DEF Halfway
<1>3. Sound(Contents)'
  <2>1. KeysSound(Contents)'
    BY <1>1, FieldsAfter DEF DurableInv, Sound, KeysSound
  <2>2. RepliesSound(Contents)'
    BY <1>1, FieldsAfter DEF DurableInv, Sound, RepliesSound
  <2>3. CutsSound(Contents)'
    BY <1>1, <1>2, FieldsAfter DEF DurableInv, Sound, CutsSound
  <2> QED
    BY <2>1, <2>2, <2>3 DEF Sound
<1>4. Sound(file)'
  BY <1>1, FileKept DEF DurableInv
<1>5. RequestsSound'
  BY <1>1 DEF DurableInv, RequestsSound, AtRest, GameOf
<1>6. ResetSound'
  BY <1>1 DEF DurableInv, ResetSound
<1>7. DTypeOK'
  <2>1. TypeOK'
    BY <1>1, <1>3, SoundTyped DEF DurableInv, ResetSound, DTypeOK, TypeOK
  <2> QED
    BY <1>1, <2>1 DEF DurableInv, DTypeOK
<1> QED
  BY <1>3, <1>4, <1>5, <1>6, <1>7 DEF DurableInv

-----------------------------------------------------------------------------
(* The server.                                                             *)

(* A step that leaves the server at rest, with sound contents.             *)
LEMMA RestDurable ==
  ASSUME DurableInv, Sound(Contents)', ResetSound',
         TypeOK', \A t \in Threads : AtRest(t)',
         linked' \in BOOLEAN, cleared' \in BOOLEAN, mode' \in {"down", "reset", "up"},
         file' = file, used \subseteq used', wiped \subseteq wiped'
  PROVE  DurableInv'
<1>1. Sound(file)'
  BY FileKept DEF DurableInv
<1>2. RequestsSound'
  BY RestPlays DEF RequestsSound, AtRest
<1> QED
  BY <1>1, <1>2 DEF DurableInv, DTypeOK

LEMMA StopDurable ==
  ASSUME DurableInv, Stop
  PROVE  DurableInv'
<1>1. /\ mode' = "down"
      /\ pc' = [t \in Threads |-> "idle"]
      /\ req' = [t \in Threads |-> NoRequest]
      /\ copy' = [t \in Threads |-> NoCopy]
      /\ cut' = cut \cup {g \in Games : Halfway(g)}
      /\ UNCHANGED <<made, next, seen, told, acks, file, linked, used, wiped, cleared>>
  BY DEF Stop, store, replies
<1>2. Sound(Contents)'
  <2>1. Contents.cut \subseteq Contents'.cut
    BY <1>1, Fields, FieldsAfter
  <2>2. cut' \subseteq Games
    BY <1>1, Fields DEF DurableInv, Sound, CutsSound
  <2> QED
    BY <1>1, <2>1, <2>2, ContentsKept DEF DurableInv
<1>3. TypeOK'
  <2>1. TypeOK
    BY DEF DurableInv, DTypeOK
  <2>2. NoRequest \in Requests /\ NoCopy \in [next : Symbols \cup {Nobody}, seen : Seq(Persons)]
    BY RulesAssumption DEF NoRequest, NoCopy, Requests, Verdicts
  <2> QED
    BY <1>1, <2>1, <2>2 DEF TypeOK, Steps
<1>4. \A t \in Threads : AtRest(t)'
  BY <1>1 DEF AtRest
<1>5. ResetSound'
  BY <1>1 DEF DurableInv, ResetSound, Blank
<1> QED
  BY <1>1, <1>2, <1>3, <1>4, <1>5, RestDurable DEF DurableInv, DTypeOK

(* Starting the server, with or without a reset, or giving the reset up.   *)
LEMMA StartDurable ==
  ASSUME DurableInv, Start \/ ResetFails \/ Launch
  PROVE  DurableInv'
<1>1. /\ UNCHANGED <<made, next, seen, pc, req, copy, told, acks, file, used, wiped, cut>>
      /\ mode \in {"down", "reset"}
      /\ linked' \in BOOLEAN /\ cleared' \in BOOLEAN /\ mode' \in {"down", "up"}
  BY DEF Start, ResetFails, Launch, vars, history, DurableInv, DTypeOK
<1>2. \A t \in Threads : AtRest(t) /\ AtRest(t)'
  BY <1>1 DEF DurableInv, RequestsSound, AtRest
<1>3. Sound(Contents)'
  <2>1. Contents.cut \subseteq Contents'.cut
    BY <1>1, <1>2, Fields, FieldsAfter DEF Halfway, AtRest, Taking, Drawing
  <2>2. cut' \subseteq Games
    BY <1>1, Fields DEF DurableInv, Sound, CutsSound
  <2> QED
    BY <1>1, <2>1, <2>2, ContentsKept DEF DurableInv
<1>4. TypeOK'
  BY <1>1 DEF DurableInv, DTypeOK, TypeOK
<1>5. ResetSound'
  <2>1. cleared' => linked' /\ \A g \in wiped : Blank(g)
    <3>1. CASE Start
      BY <3>1 DEF Start, history, DurableInv, ResetSound
    <3>2. CASE ResetFails
      BY <3>2 DEF ResetFails, history, DurableInv, ResetSound
    <3>3. CASE Launch
      BY <3>3 DEF Launch, DurableInv, ResetSound, Blank
    <3> QED
      BY <3>1, <3>2, <3>3
  <2> QED
    BY <1>1, <2>1 DEF DurableInv, ResetSound, Blank
<1> QED
  BY <1>1, <1>2, <1>3, <1>4, <1>5, RestDurable

(* KEYS * finds every key of every game.                                   *)
LEMMA StartResetDurable ==
  ASSUME DurableInv, StartReset
  PROVE  DurableInv'
<1>1. /\ mode = "down" /\ mode' = "reset" /\ linked' = TRUE /\ cleared' = FALSE
      /\ keys' = {HashKey(g) : g \in {h \in Games : h \in made \/ next[h] # Nobody}}
                   \cup {SeenKey(g) : g \in {h \in Games : seen[h] # <<>>}}
      /\ wiped' = used /\ told' = {} /\ acks' = {}
      /\ UNCHANGED <<made, next, seen, pc, req, copy, file, used, cut>>
  BY DEF StartReset, store, local
<1>2. wiped \subseteq used /\ used \subseteq Games
  BY DEF DurableInv, ResetSound
<1>3. \A t \in Threads : AtRest(t)'
  BY <1>1 DEF DurableInv, RequestsSound, AtRest
<1>4. Sound(Contents)'
  <2>1. KeysSound(Contents)'
    BY <1>1, Fields, FieldsAfter DEF DurableInv, Sound, KeysSound
  <2>2. RepliesSound(Contents)'
    BY <1>1, FieldsAfter DEF RepliesSound
  <2>3. CutsSound(Contents)'
    BY <1>1, Fields, FieldsAfter DEF DurableInv, Sound, KeysSound, CutsSound
  <2> QED
    BY <2>1, <2>2, <2>3 DEF Sound
<1>5. TypeOK'
  BY <1>1 DEF DurableInv, DTypeOK, TypeOK
<1>6. ResetSound'
  BY <1>1, <1>2 DEF ResetSound
<1> QED
  BY <1>1, <1>2, <1>3, <1>4, <1>5, <1>6, RestDurable

(* DEL of one key makes one more game blank, and harms no reply: the reset *)
(* has taken them all back.                                                *)
LEMMA DeleteDurable ==
  ASSUME DurableInv, NEW d \in Games, Delete(d)
  PROVE  DurableInv'
<1>1. /\ mode = "reset" /\ linked
      /\ UNCHANGED <<pc, req, copy, told, acks, file, linked, mode, used, wiped, cut, cleared>>
  BY DEF Delete, local, replies, history
<1>2. \/ /\ keys' = keys \ {HashKey(d)} /\ made' = made \ {d}
         /\ next' = [next EXCEPT ![d] = Nobody] /\ UNCHANGED seen
      \/ /\ keys' = keys \ {SeenKey(d)} /\ UNCHANGED <<made, next>>
         /\ seen' = [seen EXCEPT ![d] = <<>>]
  BY DEF Delete
<1>3. /\ told = {} /\ acks = {} /\ wiped = used /\ cleared = FALSE
      /\ used \subseteq Games
      /\ \A g \in Games : HashKey(g) \in keys \/ (g \notin made /\ next[g] = Nobody)
      /\ \A g \in Games : SeenKey(g) \in keys \/ seen[g] = <<>>
  BY <1>1 DEF DurableInv, ResetSound, DTypeOK
<1>4. /\ made' \subseteq made
      /\ next' \in [Games -> Symbols \cup {Nobody}] /\ seen' \in [Games -> Seq(Persons)]
      /\ \A g \in Games : g \notin made' => g \notin made \/ next'[g] = Nobody
      /\ \A g \in Games : next'[g] \in {next[g], Nobody} /\ seen'[g] \in {seen[g], <<>>}
  <2>1. TypeOK /\ <<>> \in Seq(Persons)
    BY DEF DurableInv, DTypeOK
  <2>2. CASE seen' = seen
    BY <1>2, <2>1, <2>2 DEF TypeOK
  <2>3. CASE made' = made /\ next' = next /\ seen' = [seen EXCEPT ![d] = <<>>]
    BY <2>1, <2>3 DEF TypeOK
  <2>4. \A g \in Games : g \in made /\ g \notin made' => next'[g] = Nobody
    BY <1>2, <2>1 DEF TypeOK
  <2> QED
    BY <1>2, <2>2, <2>3, <2>4
<1>5. Sound(Contents)'
  <2>1. /\ Accepted(<<>>) <= AcceptedLimit /\ Len(<<>>) <= LossLimit
        /\ ~IsFinished(<<>>)
    <3>1. <<>> \in Seq(Persons) /\ Len(<<>>) = 0
      OBVIOUS
    <3>2. ~IsFinished(<<>>)
      BY EmptyNotFinished
    <3>3. Accepted(<<>>) \in Nat
      BY <3>1, AcceptedFinite
    <3> QED
      BY <3>1, <3>2, <3>3, RulesAssumption DEF IsFinished
  <2>2. KeysSound(Contents)
    BY DEF DurableInv, Sound
  <2>3. KeysSound(Contents)'
    <3>1. \A g \in Games : /\ Accepted(seen'[g]) <= AcceptedLimit
                           /\ Len(seen'[g]) <= LossLimit
                           /\ IsFinished(seen'[g]) => next'[g] = Nobody
      BY <1>4, <2>1, <2>2, Fields DEF KeysSound
    <3> QED
      BY <1>1, <1>4, <2>2, <3>1, Fields, FieldsAfter DEF KeysSound
  <2>4. RepliesSound(Contents)'
    BY <1>1, <1>3, FieldsAfter DEF RepliesSound
  <2>5. CutsSound(Contents)'
    BY <1>1, <1>3, <1>4, <2>2, Fields, FieldsAfter
    DEF DurableInv, Sound, KeysSound, CutsSound, Halfway, Taking, Drawing, GameOf
  <2> QED
    BY <2>3, <2>4, <2>5 DEF Sound
<1>6. \A t \in Threads : AtRest(t)'
  BY <1>1 DEF DurableInv, RequestsSound, AtRest
<1>7. TypeOK'
  BY <1>1, <1>4 DEF DurableInv, DTypeOK, TypeOK
<1>8. ResetSound'
  <2>1. ASSUME NEW g \in Games
        PROVE  /\ HashKey(g) \in keys' \/ (g \notin made' /\ next'[g] = Nobody)
               /\ SeenKey(g) \in keys' \/ seen'[g] = <<>>
    <3>1. HashKey(g) # SeenKey(d) /\ SeenKey(g) # HashKey(d)
      BY DEF HashKey, SeenKey
    <3>2. g # d => HashKey(g) # HashKey(d) /\ SeenKey(g) # SeenKey(d)
      BY DEF HashKey, SeenKey
    <3>3. next \in [Games -> Symbols \cup {Nobody}] /\ seen \in [Games -> Seq(Persons)]
      BY DEF DurableInv, DTypeOK, TypeOK
    <3> QED
      BY <1>2, <1>3, <3>1, <3>2, <3>3
  <2> QED
    BY <1>1, <1>3, <2>1 DEF ResetSound
<1> QED
  BY <1>1, <1>5, <1>6, <1>7, <1>8, RestDurable DEF DurableInv, DTypeOK

-----------------------------------------------------------------------------
(* The theorems.                                                           *)

LEMMA InitDurable == DInit => DurableInv
<1> SUFFICES ASSUME DInit PROVE DurableInv
  OBVIOUS
<1>1. TypeInv /\ PlayInv
  BY InitTypeInv, InitSerialInv DEF DInit, SerialInv
<1>2. /\ made = {} /\ told = {} /\ acks = {} /\ cut = {} /\ used = {} /\ wiped = {}
      /\ seen = [g \in Games |-> <<>>] /\ mode = "up" /\ cleared = FALSE /\ linked = TRUE
      /\ pc = [t \in Threads |-> "idle"] /\ file = Contents
  BY DEF DInit, Init
<1>3. Contents.cut = {}
  BY <1>2, Fields DEF Halfway, Taking, Drawing
<1>4. Sound(Contents)
  <2>1. KeysSound(Contents)
    BY <1>1, <1>2, Fields
    DEF KeysSound, TypeInv, TypeOK, PlayInv, Unmade, NoOfferAfterEnd, Capacity
  <2>2. RepliesSound(Contents)
    BY <1>2, Fields DEF RepliesSound
  <2>3. CutsSound(Contents)
    BY <1>2, <1>3, Fields DEF CutsSound
  <2> QED
    BY <2>1, <2>2, <2>3 DEF Sound
<1> QED
  BY <1>1, <1>2, <1>4
  DEF DurableInv, DTypeOK, RequestsSound, ResetSound, TypeInv

(* Every step of the server and of valkey keeps DurableInv.                *)
LEMMA NextDurable == ASSUME Serial PROVE DurableInv /\ [DNext]_allVars => DurableInv'
<1> SUFFICES ASSUME DurableInv, [DNext]_allVars PROVE DurableInv'
  OBVIOUS
<1>1. CASE UNCHANGED allVars
  <2>1. /\ UNCHANGED vars
        /\ UNCHANGED <<made, next, seen, pc, req, copy, told, acks, file, linked, mode, keys,
                       used, wiped, cut, cleared>>
    BY <1>1 DEF allVars, vars, server, history
  <2>2. RequestsSound'
    BY <2>1, QuietPlayInv
    DEF DurableInv, RequestsSound, AtRest, GameOf, LengthInv, InFlight
  <2>3. ResetSound'
    BY <2>1 DEF DurableInv, ResetSound, Blank
  <2>4. Contents' = Contents
    BY <2>1 DEF Contents, Halfway, Taking, Drawing, GameOf
  <2>5. cut' \subseteq Games
    BY <2>1, Fields DEF DurableInv, Sound, CutsSound
  <2>6. Sound(Contents)' /\ Sound(file)'
    BY <2>1, <2>4, <2>5, ContentsKept, FileKept DEF DurableInv
  <2>7. DTypeOK'
    BY <2>1 DEF DurableInv, DTypeOK, TypeOK
  <2> QED
    BY <2>2, <2>3, <2>6, <2>7 DEF DurableInv
<1>2. ASSUME NEW t \in Threads, Ask(t) \/ Work(t) \/ Refuse(t) \/ NoReply(t)
      PROVE  DurableInv'
  BY <1>2, AskDurable, WorkDurable, EndDurable
<1>3. CASE Save \/ ValkeyRestart \/ Stop \/ Start \/ StartReset \/ ResetFails \/ Launch
  BY <1>3, SaveDurable, ValkeyRestartDurable, StopDurable, StartDurable, StartResetDurable
<1>4. ASSUME NEW g \in Games, Delete(g) PROVE DurableInv'
  BY <1>4, DeleteDurable
<1> QED
  BY <1>1, <1>2, <1>3, <1>4 DEF DNext

(* Whatever valkey may be started with is a state an idle server could be  *)
(* in.                                                                     *)
THEOREM DurableHolds == ASSUME Serial PROVE DSpec => []DurableInv
  BY InitDurable, NextDurable, PTL DEF DSpec

(* What a player was told and is in the file stays true through every      *)
(* restart of valkey and of the server.                                    *)
THEOREM SavedRepliesStay == ASSUME Serial PROVE DSpec => []SavedRepliesHold
<1>1. DurableInv => SavedRepliesHold
  BY Fields
  DEF DurableInv, Sound, RepliesSound, SavedRepliesHold, JudgedAsShown, AcksKept
<1> QED
  BY <1>1, DurableHolds, PTL

(* Only a game that something stopped in the middle of can lose its        *)
(* pending person; every other one can be played on after every restart.   *)
THEOREM IdleGamesPlayable == ASSUME Serial PROVE DSpec => []IdleGamesSurvive
<1>1. DurableInv => IdleGamesSurvive
  <2> SUFFICES ASSUME DurableInv, NEW g \in made \ wiped
               PROVE  next[g] # Nobody \/ IsFinished(seen[g]) \/ Halfway(g) \/ g \in cut
    BY DEF IdleGamesSurvive
  <2> QED
    BY Fields DEF DurableInv, Sound, CutsSound
<1> QED
  BY <1>1, DurableHolds, PTL

(* A completed reset leaves nothing of the games there were, and no        *)
(* request brings any of it back.                                          *)
THEOREM ResetForgetsGames == ASSUME Serial PROVE DSpec => []ResetForgets
<1>1. DurableInv => ResetForgets
  BY DEF DurableInv, ResetSound, ResetForgets, Blank
<1> QED
  BY <1>1, DurableHolds, PTL
=============================================================================
