----------------------------- MODULE PlayServer -----------------------------
(***************************************************************************)
(* How server/main.c and server/game.c play games: the /process-person     *)
(* handler and the part of /new-game that concerns the game's own keys,    *)
(* one action per valkey command.  Between two commands of one request     *)
(* the thread works on a copy (struct game_t) while other threads, a       *)
(* refused command or a crash may intervene.                               *)
(*                                                                         *)
(* The daemon is started with one polling thread, so handlers do not       *)
(* overlap: that is Threads with one element.  The comment on web_entry    *)
(* and the locks are written for one thread per request: that is Threads   *)
(* with more.                                                              *)
(***************************************************************************)
EXTENDS GameRules

CONSTANTS
  Threads,   \* MHD request threads
  Games,     \* game uuids
  Nobody,    \* the "next" field is not set (has_next is false)
  NoGame,    \* the game of an idle thread
  Faults     \* which of "refuse" and "crash" may happen

ASSUME PlayAssumption ==
  /\ Nobody \notin Symbols
  /\ NoGame \notin Games
  /\ Faults \subseteq {"refuse", "crash"}

VARIABLES
  made,     \* the games whose hash exists (HSET uuid id userid type)
  next,     \* next[g] : field "next" of the hash, or Nobody
  seen,     \* seen[g] : the string uuid-m, one byte per judged person
  pc,       \* pc[t] : the next command of thread t
  req,      \* req[t] : the arguments of the request t serves
  copy,     \* copy[t] : the struct game_t of that request
  told,     \* every "running" reply sent: game, count and next
  acks      \* every verdict answered without an error

store == <<made, next, seen>>
local == <<pc, req, copy>>
replies == <<told, acks>>
vars == <<made, next, seen, pc, req, copy, told, acks>>

Steps == {"idle", "hgetall", "get", "hdel", "setrange", "create", "index", "offer"}
Verdicts == {"none", "true", "false"}

Requests == [game : Games \cup {NoGame}, person : 0 .. LossLimit, verdict : Verdicts]
NoRequest == [game |-> NoGame, person |-> 0, verdict |-> "none"]
NoCopy == [next |-> Nobody, seen |-> <<>>]

TypeOK ==
  /\ made \subseteq Games
  /\ next \in [Games -> Symbols \cup {Nobody}]
  /\ seen \in [Games -> Seq(Persons)]
  /\ pc \in [Threads -> Steps]
  /\ req \in [Threads -> Requests]
  /\ copy \in [Threads -> [next : Symbols \cup {Nobody}, seen : Seq(Persons)]]
  /\ told \subseteq [game : Games, count : 0 .. LossLimit, next : Symbols]
  /\ acks \subseteq [game : Games, person : 0 .. LossLimit, ok : BOOLEAN]
  /\ \A t \in Threads : pc[t] # "idle" => req[t].game \in Games

Init ==
  /\ made = {}
  /\ next = [g \in Games |-> Nobody]
  /\ seen = [g \in Games |-> <<>>]
  /\ pc = [t \in Threads |-> "idle"]
  /\ req = [t \in Threads |-> NoRequest]
  /\ copy = [t \in Threads |-> NoCopy]
  /\ told = {}
  /\ acks = {}

-----------------------------------------------------------------------------
(* Operators on the thread's own state.                                    *)

GameOf(t) == req[t].game
Go(t, step) == pc' = [pc EXCEPT ![t] = step]

(* The handler returns: its struct game_t and arguments are gone.          *)
Return(t) ==
  /\ pc' = [pc EXCEPT ![t] = "idle"]
  /\ req' = [req EXCEPT ![t] = NoRequest]
  /\ copy' = [copy EXCEPT ![t] = NoCopy]

(* format_game prints game.next, which is 0 when no "next" was loaded.     *)
Shown(n) == IF n = Nobody THEN NoAttrs ELSE n

TellRunning(g, count, n) ==
  told' = told \cup {[game |-> g, count |-> count, next |-> Shown(n)]}

Acknowledge(t) ==
  acks' = IF req[t].verdict = "none" THEN acks
          ELSE acks \cup {[game |-> GameOf(t), person |-> req[t].person,
                           ok |-> req[t].verdict # "false"]}

(* Variants that the properties must tell from the code (PROJECT.json,     *)
(* mutants): the offset of the previous person, and                         *)
(* SET of the prefix instead of SETRANGE.                                  *)
SetRangeOneLow(s, offset, p) ==
  IF offset > 0 /\ offset <= Len(s) THEN [s EXCEPT ![offset] = p] ELSE Append(s, p)
SetTruncating(s, offset, p) == Append(SubSeq(s, 1, offset), p)

(* SETRANGE of one byte at an offset inside or just after the string.      *)
SetRange(s, offset, p) ==
  IF offset < Len(s) THEN [s EXCEPT ![offset + 1] = p] ELSE Append(s, p)

-----------------------------------------------------------------------------
(* /process-person: web_process_person, find_game, process_next_person.    *)

Receive(t, g, person, verdict) ==
  /\ pc[t] = "idle"
  /\ Go(t, "hgetall")
  /\ req' = [req EXCEPT ![t] = [game |-> g, person |-> person, verdict |-> verdict]]
  /\ UNCHANGED <<store, copy, replies>>

(* HGETALL uuid: an unknown game is answered with web_bad_arg.             *)
LoadHash(t) ==
  /\ pc[t] = "hgetall"
  /\ \/ /\ GameOf(t) \notin made
        /\ Return(t)
     \/ /\ GameOf(t) \in made
        /\ copy' = [copy EXCEPT ![t].next = next[GameOf(t)]]
        /\ Go(t, "get")
        /\ UNCHANGED req
  /\ UNCHANGED <<store, replies>>

(* Variants: one check of the handler is missing.                          *)
WrongButAnyPerson(t, s) == IsFinished(s) \/ copy[t].next = Nobody
WrongButNoPatron(t, s) == req[t].person # Len(s) \/ IsFinished(s)

(* What the handler knows once GET uuid-m has answered.                    *)
Wrong(t, s) ==
  \/ req[t].person # Len(s)         \* "wrong person"
  \/ IsFinished(s)                  \* "game finished"
  \/ copy[t].next = Nobody          \* "no patron available"

(* Without a verdict the handler only reports the game.                    *)
Report(t) ==
  /\ pc[t] = "get"
  /\ req[t].verdict = "none"
  /\ IF IsFinished(seen[GameOf(t)]) THEN UNCHANGED told
     ELSE TellRunning(GameOf(t), Len(seen[GameOf(t)]), copy[t].next)
  /\ Return(t)
  /\ UNCHANGED <<store, acks>>

Decline(t) ==
  /\ pc[t] = "get"
  /\ req[t].verdict # "none"
  /\ Wrong(t, seen[GameOf(t)])
  /\ Return(t)
  /\ UNCHANGED <<store, replies>>

Admit(t) ==
  /\ pc[t] = "get"
  /\ req[t].verdict # "none"
  /\ ~Wrong(t, seen[GameOf(t)])
  /\ copy' = [copy EXCEPT ![t].seen = seen[GameOf(t)]]
  /\ Go(t, "hdel")
  /\ UNCHANGED <<store, req, replies>>

(* Variant: the pending symbol is left in the hash.                        *)
TakeNextKept(t) ==
  /\ pc[t] = "hdel"
  /\ Go(t, "setrange")
  /\ UNCHANGED <<store, req, copy, replies>>

(* HDEL uuid next                                                          *)
TakeNext(t) ==
  /\ pc[t] = "hdel"
  /\ next' = [next EXCEPT ![GameOf(t)] = Nobody]
  /\ Go(t, "setrange")
  /\ UNCHANGED <<made, seen, req, copy, replies>>

JudgedPerson(t) == [attrs |-> copy[t].next, ok |-> req[t].verdict # "false"]

(* Variant: no create_next_person after a verdict.                         *)
WriteVerdictOnly(t) ==
  /\ pc[t] = "setrange"
  /\ seen' = [seen EXCEPT ![GameOf(t)] =
                 SetRange(@, Len(copy[t].seen), JudgedPerson(t))]
  /\ Return(t) /\ Acknowledge(t)
  /\ UNCHANGED <<made, next, told>>

(* SETRANGE uuid-m count byte, then game_update on the copy; a finished    *)
(* game is answered at once, otherwise create_next_person follows.         *)
WriteVerdict(t) ==
  LET after == Append(copy[t].seen, JudgedPerson(t)) IN
  /\ pc[t] = "setrange"
  /\ seen' = [seen EXCEPT ![GameOf(t)] =
                 SetRange(@, Len(copy[t].seen), JudgedPerson(t))]
  /\ IF IsFinished(after)
     THEN Return(t) /\ Acknowledge(t)
     ELSE /\ copy' = [copy EXCEPT ![t].seen = after]
          /\ Go(t, "offer")
          /\ UNCHANGED <<req, acks>>
  /\ UNCHANGED <<made, next, told>>
-----------------------------------------------------------------------------
(* /new-game: new_game after INCR next_game and uuid_generate.             *)

NewGame(t, g) ==
  /\ pc[t] = "idle"
  /\ g \notin made
  /\ \A u \in Threads : pc[u] = "create" => GameOf(u) # g    \* uuids are fresh
  /\ Go(t, "create")
  /\ req' = [req EXCEPT ![t] = [game |-> g, person |-> 0, verdict |-> "none"]]
  /\ UNCHANGED <<store, copy, replies>>

(* HSET uuid id userid type                                                *)
CreateHash(t) ==
  /\ pc[t] = "create"
  /\ made' = made \cup {GameOf(t)}
  /\ Go(t, "index")
  /\ UNCHANGED <<next, seen, req, copy, replies>>

(* HSET gameids, LPUSH, LLEN, RPOP: none of them touches the game's keys.  *)
IndexGame(t) ==
  /\ pc[t] = "index"
  /\ Go(t, "offer")
  /\ UNCHANGED <<store, req, copy, replies>>

(* Variant: the reply shows the symbol that was just judged.               *)
OfferNextStaleReply(t) ==
  /\ pc[t] = "offer"
  /\ \E s \in Symbols : next' = [next EXCEPT ![GameOf(t)] = s]
  /\ IF req[t].verdict = "none" THEN UNCHANGED told
     ELSE TellRunning(GameOf(t), Len(copy[t].seen), copy[t].next)
  /\ Acknowledge(t)
  /\ Return(t)
  /\ UNCHANGED <<made, seen>>

(* create_next_person: HMSET uuid next, the last command of /new-game and  *)
(* of a verdict that does not finish the game.  /new-game answers with the *)
(* uuid only, a verdict with the count and the new symbol.                 *)
OfferNext(t) ==
  /\ pc[t] = "offer"
  /\ \E s \in Symbols :
       /\ next' = [next EXCEPT ![GameOf(t)] = s]
       /\ IF req[t].verdict = "none" THEN UNCHANGED told
          ELSE TellRunning(GameOf(t), Len(copy[t].seen), s)
  /\ Acknowledge(t)
  /\ Return(t)
  /\ UNCHANGED <<made, seen>>
-----------------------------------------------------------------------------
(* Faults.                                                                 *)

(* valkey refuses a command that may need memory (maxmemory, noeviction):  *)
(* HSET, LPUSH, SETRANGE and HMSET, but not HDEL.  The handler returns the *)
(* error and undoes nothing.                                               *)
CommandRefused(t) ==
  /\ "refuse" \in Faults
  /\ pc[t] \in {"create", "index", "setrange", "offer"}
  /\ Return(t)
  /\ UNCHANGED <<store, replies>>

(* The server process ends between two commands and is started again.      *)
Crash ==
  /\ "crash" \in Faults
  /\ pc' = [t \in Threads |-> "idle"]
  /\ req' = [t \in Threads |-> NoRequest]
  /\ copy' = [t \in Threads |-> NoCopy]
  /\ UNCHANGED <<store, replies>>

-----------------------------------------------------------------------------
Process(t) ==
  \/ LoadHash(t) \/ Report(t) \/ Decline(t) \/ Admit(t)
  \/ TakeNext(t) \/ WriteVerdict(t)
  \/ CreateHash(t) \/ IndexGame(t) \/ OfferNext(t)

Next ==
  \/ \E t \in Threads :
       \/ \E g \in Games, person \in 0 .. LossLimit, verdict \in Verdicts :
            Receive(t, g, person, verdict)
       \/ \E g \in Games : NewGame(t, g)
       \/ Process(t)
       \/ CommandRefused(t)
  \/ Crash

Spec == Init /\ [][Next]_vars

(* A started handler runs to its end: MHD's thread calls it and every      *)
(* command is a blocking call that valkey answers.                         *)
ServerFairness == \A t \in Threads : WF_vars(Process(t))

(* A persistent player: whenever the game stands at some person, the       *)
(* verdict on that person is eventually sent again.  Strong, because other *)
(* requests may hold the only thread in between.                           *)
Play(g) ==
  \E t \in Threads, verdict \in {"true", "false"} :
    /\ g \in made
    /\ Receive(t, g, Len(seen[g]), verdict)
PlayerFairness == \A g \in Games : SF_vars(Play(g))

FairSpec == Spec /\ ServerFairness /\ PlayerFairness
-----------------------------------------------------------------------------
(* Properties.                                                             *)

(* The venue never holds more than ACCEPTED_LIMIT people and nobody is     *)
(* judged after LOSS_LIMIT people: the guards of process_next_person, read *)
(* from a copy, still hold when SETRANGE lands.                            *)
Capacity ==
  \A g \in Games : Accepted(seen[g]) <= AcceptedLimit /\ Len(seen[g]) <= LossLimit

(* The symbol recorded for a position is the symbol players were shown for *)
(* that position: no request sneaks in a fresh draw between showing a      *)
(* person and judging it.                                                  *)
JudgedAsShown ==
  \A r \in told :
    r.count < Len(seen[r.game]) => seen[r.game][r.count + 1].attrs = r.next

(* A verdict answered without an error is the one on record, for good: a   *)
(* repeated or late request neither overwrites nor doubles it.             *)
AcksKept ==
  \A a \in acks :
    /\ a.person < Len(seen[a.game])
    /\ seen[a.game][a.person + 1].ok = a.ok

(* A finished game has no pending person: the last verdict removed it and  *)
(* no create_next_person follows.                                          *)
NoOfferAfterEnd ==
  \A g \in Games : IsFinished(seen[g]) => next[g] = Nobody

(* Judged persons are history: a step leaves the string alone or adds one  *)
(* person at its end, and never touches a finished game.                   *)
AppendOnly ==
  [][\A g \in Games :
       \/ seen'[g] = seen[g]
       \/ /\ ~IsFinished(seen[g])
          /\ \E p \in Persons : seen'[g] = Append(seen[g], p)]_vars

(* The weaker history guarantee that survives requests running in parallel *)
(* (SETRANGE at a stale offset): positions are never lost and the string   *)
(* never outgrows LOSS_LIMIT.                                              *)
NeverShrinks == [][\A g \in Games : Len(seen'[g]) \in Len(seen[g]) .. LossLimit]_vars

(* A "running" reply about a game that its player has begun to play names  *)
(* the pending person: after it, the game's hash holds that symbol, so a   *)
(* verdict on it can be given.                                             *)
RunningOffersPending ==
  [][\A r \in told' \ told :
       (\E a \in acks : a.game = r.game) =>
         r.count = Len(seen'[r.game]) /\ next'[r.game] = r.next]_vars

(* What does hold with faults: a "running" reply shows the game as it is,  *)
(* with the number of people on record and its pending symbol, or with     *)
(* symbol 0 when the game has lost its pending person.                     *)
RunningShowsGame ==
  [][\A r \in told' \ told :
       r.count = Len(seen'[r.game]) /\ Shown(next'[r.game]) = r.next]_vars

(* A verdict decided on an old copy is about to turn an accepted person    *)
(* into a rejected one.                                                    *)
Undoing(g) ==
  \E t \in Threads :
    /\ pc[t] = "setrange" /\ GameOf(t) = g /\ req[t].verdict = "false"
    /\ Len(copy[t].seen) < Len(seen[g]) /\ seen[g][Len(copy[t].seen) + 1].ok

(* Without faults, a game whose player keeps answering is played to its    *)
(* end: a pending person is always replaced until the game is over.  The   *)
(* one exception needs two requests at once: a late verdict that undoes an *)
(* acceptance may empty a place in the venue after another handler, whose  *)
(* copy was full, has ended the game and offered nobody.                   *)
EveryGameEnds ==
  \A g \in Games : (g \in made ~> IsFinished(seen[g])) \/ <>Undoing(g)

-----------------------------------------------------------------------------
(* PlayServer implements GameLog when requests do not overlap.  A symbol   *)
(* taken off by HDEL is still the game's open offer until SETRANGE lands;  *)
(* a draw is due while a thread is on its way to create_next_person.       *)
Taking(g, t) == pc[t] = "setrange" /\ GameOf(t) = g
Drawing(g, t) == pc[t] \in {"index", "offer"} /\ GameOf(t) = g

OfferOf(g) ==
  IF \E t \in Threads : Taking(g, t)
  THEN copy[CHOOSE t \in Threads : Taking(g, t)].next
  ELSE next[g]

PhaseOf(g) ==
  IF g \notin made THEN "absent"
  ELSE IF OfferOf(g) # Nobody THEN "open"
  ELSE IF \E t \in Threads : Drawing(g, t) THEN "due"
  ELSE IF IsFinished(seen[g]) THEN "over"
  ELSE "lost"

Log == INSTANCE GameLog WITH
         log <- seen,
         phase <- [g \in Games |-> PhaseOf(g)],
         offer <- [g \in Games |-> OfferOf(g)]

(* Every behaviour of the request handlers is a behaviour of GameLog: each *)
(* game is an append-only log of judged offers, whatever was retried,      *)
(* refused or cut short by a crash.                                        *)
ImplementsGameLog == Log!LogSpec
-----------------------------------------------------------------------------
(* Why TypeOK and NeverShrinks hold, for any number of threads.            *)

(* A thread that decided to record a verdict does so at a position the     *)
(* string has reached, whatever other threads did since it read it.        *)
InFlight(t) ==
  pc[t] \in {"hdel", "setrange"} =>
    /\ copy[t].next # Nobody
    /\ Len(copy[t].seen) < LossLimit
    /\ Len(copy[t].seen) <= Len(seen[GameOf(t)])

LengthInv ==
  /\ \A g \in Games : Len(seen[g]) <= LossLimit
  /\ \A t \in Threads : Len(copy[t].seen) <= LossLimit /\ InFlight(t)

TypeInv == TypeOK /\ LengthInv

-----------------------------------------------------------------------------
(* Why the properties hold when requests do not overlap: what a thread     *)
(* knows at each command is still what the store holds.  SerialInv is the  *)
(* inductive invariant of PlayServerProofs.                                *)
Serial == \A t, u \in Threads : t = u

(* A handler's struct game_t agrees with the keys of its game.             *)
CopyFresh(t) ==
  LET g == GameOf(t) IN
  /\ pc[t] = "idle" => req[t] = NoRequest
  /\ pc[t] \in {"get", "hdel", "setrange", "index", "offer"} => g \in made
  /\ pc[t] \in {"idle", "hgetall", "create", "index"} => copy[t] = NoCopy
  /\ pc[t] = "create" => g \notin made /\ seen[g] = <<>>
  /\ pc[t] \in {"create", "index"} => req[t].verdict = "none"
  /\ pc[t] \in {"get", "hdel"} => copy[t].next = next[g]
  /\ pc[t] \in {"setrange", "index", "offer"} => next[g] = Nobody
  /\ pc[t] \in {"hdel", "setrange", "index", "offer"} =>
       copy[t].seen = seen[g] /\ ~IsFinished(seen[g])
  /\ pc[t] \in {"hdel", "setrange"} =>
       /\ copy[t].next # Nobody
       /\ req[t].verdict # "none"
       /\ req[t].person = Len(seen[g])

(* Between SETRANGE and HMSET the verdict being answered is on record.     *)
VerdictRecorded(t) ==
  LET g == GameOf(t) IN
  pc[t] = "offer" /\ req[t].verdict # "none" =>
    /\ req[t].person < Len(seen[g])
    /\ seen[g][req[t].person + 1].ok = (req[t].verdict # "false")

Unmade == \A g \in Games \ made : next[g] = Nobody
Unplayed == \A g \in Games \ made : seen[g] = <<>>

(* There is somebody to judge, or a thread on its way to bring one, until  *)
(* the game is over: what EveryGameEnds lives on.                          *)
Whole(g) ==
  next[g] # Nobody \/ IsFinished(seen[g]) \/ \E t \in Threads : Taking(g, t) \/ Drawing(g, t)

(* A symbol once shown is still pending, being judged, on record, or lost  *)
(* with no thread left that could draw another one in its place.           *)
ShownStands(r) ==
  /\ r.game \in made
  /\ r.count <= Len(seen[r.game])
  /\ r.count = Len(seen[r.game]) =>
       \/ next[r.game] = r.next
       \/ \E t \in Threads : Taking(r.game, t) /\ copy[t].next = r.next
       \/ /\ next[r.game] = Nobody
          /\ \A t \in Threads : ~Taking(r.game, t) /\ ~Drawing(r.game, t)

(* Every copy is fresh and every shown symbol stands.                      *)
PlayInv ==
  /\ \A t \in Threads : CopyFresh(t) /\ VerdictRecorded(t)
  /\ Unmade
  /\ NoOfferAfterEnd
  /\ Capacity
  /\ \A r \in told : ShownStands(r)
  /\ JudgedAsShown
  /\ AcksKept

(* The inductive invariant of serial play.  A valkey that lost keys        *)
(* (Durability) may hold the string of a game it has no hash of: Unplayed  *)
(* is what the server alone adds to PlayInv.                               *)
SerialInv == PlayInv /\ Unplayed
=============================================================================
