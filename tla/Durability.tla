----------------------------- MODULE Durability -----------------------------
(***************************************************************************)
(* What becomes of the games when valkey or the server is restarted, and   *)
(* when the server is started with -r.  valkey.conf lets valkey write its  *)
(* keys to a file now and then, at any moment of a request; a valkey that  *)
(* is started again has the keys of that file.  The connections of the     *)
(* pool are opened once, by init_valkey, so a running server has none from *)
(* then on.  -r deletes the keys one by one before the daemon starts.      *)
(*                                                                         *)
(* The keys here are the two of a game, the hash and the list of judged    *)
(* persons; PlayServer has the commands that write them.                   *)
(***************************************************************************)
EXTENDS PlayServer

VARIABLES
  file,     \* the last file valkey wrote, with the replies given until then
  linked,   \* the connections of the pool are open
  mode,     \* the server: "down", "reset" (in reinit_db) or "up"
  keys,     \* the keys that reinit_db has still to delete
  used,     \* history: the game uuids that were ever drawn
  wiped,    \* history: the games that a reset was to delete
  cut,      \* history: the games in whose keys a request may have stopped
  cleared   \* history: a reset was completed and valkey not restarted since

server == <<linked, mode, keys>>
history == <<used, wiped, cut, cleared>>
allVars == <<vars, file, server, history>>

(* A request is between two of the writes that belong together: HDEL and   *)
(* SETRANGE and HMSET, or HSET and HMSET.  With its connection broken it    *)
(* does not come to the second one.                                        *)
Halfway(g) == linked /\ \E t \in Threads : Taking(g, t) \/ Drawing(g, t)

Contents ==
  [made |-> made, next |-> next, seen |-> seen, told |-> told, acks |-> acks,
   cut |-> cut \cup {g \in Games : Halfway(g)}]

DInit ==
  /\ Init
  /\ linked = TRUE /\ mode = "up" /\ keys = {}
  /\ used = {} /\ wiped = {} /\ cut = {} /\ cleared = FALSE
  /\ file = Contents

-----------------------------------------------------------------------------
(* Requests.                                                               *)

(* Variant: the daemon is started before the database is reset.            *)
ServingAlways == mode # "down"

Serving == mode = "up"

Ask(t) ==
  /\ Serving
  /\ \/ /\ \E g \in Games, person \in 0 .. LossLimit, verdict \in Verdicts :
             Receive(t, g, person, verdict)
        /\ UNCHANGED used
     \/ \E g \in Games \ used : NewGame(t, g) /\ used' = used \cup {g}
  /\ UNCHANGED <<file, server, wiped, cut, cleared>>

Work(t) ==
  /\ Serving /\ linked
  /\ Process(t)
  /\ UNCHANGED <<file, server, history>>

Refuse(t) ==
  /\ Serving /\ linked
  /\ CommandRefused(t)
  /\ cut' = cut \cup {g \in Games : Halfway(g)}
  /\ UNCHANGED <<file, server, used, wiped, cleared>>

(* valkeyCommand on a broken connection has no reply, and the handler      *)
(* answers with an error.                                                  *)
NoReply(t) ==
  /\ Serving /\ ~linked
  /\ pc[t] # "idle"
  /\ Return(t)
  /\ UNCHANGED <<store, replies, file, server, history>>

-----------------------------------------------------------------------------
(* valkey.                                                                 *)

(* The file is written, whatever the server is doing.                      *)
Save ==
  /\ file' = Contents
  /\ UNCHANGED <<vars, server, history>>

(* Variant: the connections survive, and so do the requests under way.     *)
ValkeyRestartReconnecting ==
  /\ made' = file.made /\ next' = file.next /\ seen' = file.seen
  /\ told' = file.told /\ acks' = file.acks /\ cut' = file.cut
  /\ cleared' = FALSE
  /\ UNCHANGED <<local, file, server, used, wiped>>

(* valkey ends and is started again with its file.  Nothing is claimed of  *)
(* the replies that were given since the file was written.                 *)
ValkeyRestart ==
  /\ made' = file.made /\ next' = file.next /\ seen' = file.seen
  /\ told' = file.told /\ acks' = file.acks /\ cut' = file.cut
  /\ linked' = FALSE /\ cleared' = FALSE
  /\ UNCHANGED <<local, file, mode, keys, used, wiped>>

-----------------------------------------------------------------------------
(* The server.                                                             *)

Stop ==
  /\ mode # "down"
  /\ mode' = "down" /\ keys' = {}
  /\ pc' = [t \in Threads |-> "idle"]
  /\ req' = [t \in Threads |-> NoRequest]
  /\ copy' = [t \in Threads |-> NoCopy]
  /\ cut' = cut \cup {g \in Games : Halfway(g)}
  /\ UNCHANGED <<store, replies, file, linked, used, wiped, cleared>>

Start ==
  /\ mode = "down"
  /\ mode' = "up" /\ linked' = TRUE
  /\ UNCHANGED <<vars, file, keys, history>>

HashKey(g) == <<g, "hash">>
SeenKey(g) == <<g, "seen">>

(* -r: KEYS * lists what there is.  From here on the replies given so far  *)
(* bind nobody.                                                            *)
StartReset ==
  /\ mode = "down"
  /\ mode' = "reset" /\ linked' = TRUE
  /\ keys' = {HashKey(g) : g \in {h \in Games : h \in made \/ next[h] # Nobody}}
               \cup {SeenKey(g) : g \in {h \in Games : seen[h] # <<>>}}
  /\ wiped' = used
  /\ told' = {} /\ acks' = {} /\ cleared' = FALSE
  /\ UNCHANGED <<store, local, file, used, cut>>

(* DEL of one key.                                                         *)
Delete(g) ==
  /\ mode = "reset" /\ linked
  /\ \/ /\ HashKey(g) \in keys /\ keys' = keys \ {HashKey(g)}
        /\ made' = made \ {g} /\ next' = [next EXCEPT ![g] = Nobody]
        /\ UNCHANGED seen
     \/ /\ SeenKey(g) \in keys /\ keys' = keys \ {SeenKey(g)}
        /\ seen' = [seen EXCEPT ![g] = <<>>]
        /\ UNCHANGED <<made, next>>
  /\ UNCHANGED <<local, replies, file, linked, mode, history>>

(* DEL has no reply: "failed to delete key, fatal".                        *)
ResetFails ==
  /\ mode = "reset" /\ ~linked /\ keys # {}
  /\ mode' = "down" /\ keys' = {}
  /\ UNCHANGED <<vars, file, linked, history>>

(* Every key is gone, and the daemon is started.                           *)
Launch ==
  /\ mode = "reset" /\ keys = {}
  /\ mode' = "up" /\ cleared' = linked
  /\ UNCHANGED <<vars, file, linked, keys, used, wiped, cut>>

DNext ==
  \/ \E t \in Threads : Ask(t) \/ Work(t) \/ Refuse(t) \/ NoReply(t)
  \/ Save \/ ValkeyRestart
  \/ Stop \/ Start \/ StartReset \/ ResetFails \/ Launch
  \/ \E g \in Games : Delete(g)

DSpec == DInit /\ [][DNext]_allVars
-----------------------------------------------------------------------------
(* Properties.                                                             *)

(* What a player was told and is in the file stays true: a restart of      *)
(* valkey takes back newer verdicts and shown persons, but no request that *)
(* began before it writes into the older keys.                             *)
SavedRepliesHold == JudgedAsShown /\ AcksKept

(* A game that no request was changing when something stopped, or when the *)
(* file was written, has a pending person after every restart, so that it  *)
(* can be played on.                                                       *)
IdleGamesSurvive ==
  \A g \in made \ wiped :
    next[g] # Nobody \/ IsFinished(seen[g]) \/ Halfway(g) \/ g \in cut

(* After a completed reset nothing of an older game is left, neither at    *)
(* the start nor through a request: until valkey is restarted with a file  *)
(* from before the reset.                                                  *)
ResetForgets ==
  cleared /\ mode = "up" =>
    \A g \in wiped : g \notin made /\ next[g] = Nobody /\ seen[g] = <<>>
-----------------------------------------------------------------------------
(* Why they hold, for requests that do not overlap: whatever valkey may be *)
(* started with (Contents, or file) is a state in which an idle server     *)
(* could be.  DurableInv is the inductive invariant of DurabilityProofs.   *)

(* The keys are well typed, and there are none of a game not yet drawn.    *)
KeysSound(C) ==
  /\ C.made \subseteq used
  /\ C.next \in [Games -> Symbols \cup {Nobody}]
  /\ C.seen \in [Games -> Seq(Persons)]
  /\ \A g \in Games \ C.made : C.next[g] = Nobody
  /\ \A g \in Games \ used : C.seen[g] = <<>>
  /\ \A g \in Games :
       /\ Accepted(C.seen[g]) <= AcceptedLimit
       /\ Len(C.seen[g]) <= LossLimit
       /\ IsFinished(C.seen[g]) => C.next[g] = Nobody

(* The replies that were given say what the keys say.                      *)
RepliesSound(C) ==
  /\ C.told \subseteq [game : Games, count : 0 .. LossLimit, next : Symbols]
  /\ C.acks \subseteq [game : Games, person : 0 .. LossLimit, ok : BOOLEAN]
  /\ \A r \in C.told :
       /\ r.game \in C.made
       /\ r.count <= Len(C.seen[r.game])
       /\ r.count = Len(C.seen[r.game]) => C.next[r.game] \in {r.next, Nobody}
       /\ r.count < Len(C.seen[r.game]) => C.seen[r.game][r.count + 1].attrs = r.next
  /\ \A a \in C.acks :
       /\ a.person < Len(C.seen[a.game])
       /\ C.seen[a.game][a.person + 1].ok = a.ok

(* Only a game in whose keys something stopped has nobody to judge.        *)
CutsSound(C) ==
  /\ C.cut \subseteq Games
  /\ \A g \in C.made \ wiped :
       C.next[g] # Nobody \/ IsFinished(C.seen[g]) \/ g \in C.cut

Sound(C) == KeysSound(C) /\ RepliesSound(C) /\ CutsSound(C)

AtRest(t) == pc[t] = "idle" /\ req[t] = NoRequest /\ copy[t] = NoCopy
Blank(g) == g \notin made /\ next[g] = Nobody /\ seen[g] = <<>>

(* Nobody asks a server that is not up, and a game being created is one    *)
(* drawn after the last reset.                                             *)
RequestsSound ==
  /\ mode # "up" => \A t \in Threads : AtRest(t)
  /\ \A t \in Threads : pc[t] = "create" => GameOf(t) \in used \ wiped
  /\ linked => LengthInv /\ PlayInv

(* The reset works on every key there was; it is over when none is left.   *)
ResetSound ==
  /\ wiped \subseteq used /\ used \subseteq Games
  /\ mode = "reset" /\ linked =>
       /\ told = {} /\ acks = {} /\ wiped = used
       /\ \A g \in Games : /\ HashKey(g) \in keys \/ (g \notin made /\ next[g] = Nobody)
                           /\ SeenKey(g) \in keys \/ seen[g] = <<>>
  /\ cleared => linked /\ mode # "reset" /\ \A g \in wiped : Blank(g)

DTypeOK ==
  /\ TypeOK
  /\ linked \in BOOLEAN /\ cleared \in BOOLEAN
  /\ mode \in {"down", "reset", "up"}

DurableInv ==
  /\ DTypeOK
  /\ RequestsSound
  /\ ResetSound
  /\ Sound(Contents)
  /\ Sound(file)
=============================================================================
