------------------------------ MODULE Listings ------------------------------
(***************************************************************************)
(* The lists of games, /recent-games and /user-games of server/main.c, as  *)
(* threads that read what Registry writes: the ids are read first, then    *)
(* every game is described with commands of its own while other requests   *)
(* go on.                                                                  *)
(***************************************************************************)
EXTENDS Registry

CONSTANTS
  Readers,       \* MHD threads that serve these two requests
  RecentLimit,   \* RECENT_GAME_LIMIT, 100 in game.h
  Outcomes       \* what a game may have come to when it is described

ASSUME ListingAssumption ==
  /\ RecentLimit \in Nat \ {0}
  /\ Outcomes # {}
  /\ Outcomes \subseteq [count : Nat, accepted : Nat, finished : BOOLEAN, won : BOOLEAN]

VARIABLES
  rpc,    \* rpc[r] : the next command of reader r
  view    \* view[r] : the handler's locals

listing == <<rpc, view>>
allVars == <<vars, listing>>

(* todo: the ids still to be described; out: the ids printed, 0 for "{}";  *)
(* used, room: bytes printed and size of the buffer; due: history, the     *)
(* games that had been answered when the request came.                     *)
NoView == [user |-> Absent, todo |-> <<>>, out |-> <<>>, used |-> 0, room |-> 0, due |-> {}]

LInit ==
  /\ Init
  /\ rpc = [r \in Readers |-> "idle"]
  /\ view = [r \in Readers |-> NoView]

(* SIGSEGV in one thread ends the process.                                 *)
Alive == \A r \in Readers : rpc[r] # "segv"

RAt(r, step) == Alive /\ rpc[r] = step
RGo(r, step) == rpc' = [rpc EXCEPT ![r] = step]
Close(r) == RGo(r, "idle") /\ view' = [view EXCEPT ![r] = NoView]

-----------------------------------------------------------------------------
(* Bytes that describe_game prints.                                        *)

Digits(n) ==
  CASE n < 10 -> 1 [] n < 100 -> 2 [] n < 1000 -> 3 [] n < 10000 -> 4 [] OTHER -> 5

(* {"id":,"count":,"accepted":,"type":,                                    *)
(* "finished":true,"won":true}  "finished":true,"won":false}               *)
(* "finished":false}                                                       *)
DescriptorLength(id, o) ==
  36 + Digits(id) + Digits(o.count) + Digits(o.accepted) + 1
     + (IF ~o.finished THEN 17 ELSE IF o.won THEN 27 ELSE 28)

Opening == 10     \* {"games":[
Closing == 3      \* ]} and the end of the string

-----------------------------------------------------------------------------
Min2(a, b) == IF a <= b THEN a ELSE b

AskRecent(r) ==
  /\ RAt(r, "idle") /\ RGo(r, "next")
  /\ view' = [view EXCEPT ![r].due = {a.id : a \in ackGames}]
  /\ UNCHANGED vars

AskUser(r, u) ==
  /\ RAt(r, "idle") /\ RGo(r, "find")
  /\ view' = [view EXCEPT ![r].user = u]
  /\ UNCHANGED vars

(* Variant: one game less, and game 0 only when there is no other.         *)
RecentIdsShort(n) == [k \in 1 .. Min2(RecentLimit, n) |-> n - k]

(* The loop of web_recent_games and the line after it: the newest games    *)
(* down to number 1 or to the limit, then one more.                        *)
RecentIds(n) == [k \in 1 .. Min2(RecentLimit, n) + 1 |-> n - k + 1]

(* GET next_game.  Before the first game there is no such key, and atoi is *)
(* called with a null pointer.                                             *)
GetNext(r) ==
  /\ RAt(r, "next")
  /\ IF next_game = 0 THEN RGo(r, "segv") /\ UNCHANGED view
     ELSE /\ RGo(r, "describe")
          /\ view' = [view EXCEPT ![r].todo = RecentIds(next_game),
                                  ![r].room = 64 + 64 * RecentLimit,
                                  ![r].used = Opening]
  /\ UNCHANGED vars

(* find_user_by_string, which leads to HMGET uuid id name.                 *)
FindListed(r) ==
  /\ RAt(r, "find")
  /\ IF IdOf(view[r].user) = 0 THEN Close(r) ELSE RGo(r, "range") /\ UNCHANGED view
  /\ UNCHANGED vars

(* LRANGE uuid-games 0 -1                                                  *)
GetRange(r) ==
  LET ids == history[view[r].user] IN
  /\ RAt(r, "range") /\ RGo(r, "describe")
  /\ view' = [view EXCEPT ![r].todo = ids, ![r].room = 64 + 64 * Len(ids), ![r].used = Opening]
  /\ UNCHANGED vars

(* describe_game: a game that is not found is printed as {}.  The hash was *)
(* written before the index, so two reads make one.                        *)
Found(id) == <<FindGameById(id).id>>

Describe(r) ==
  LET todo == view[r].todo
      found == FindGameById(Head(todo)) # NoGame
      comma == IF Len(todo) > 1 THEN 1 ELSE 0
  IN
  /\ RAt(r, "describe") /\ todo # <<>>
  /\ \E o \in Outcomes :
       view' = [view EXCEPT
                  ![r].todo = Tail(todo), ![r].out = @ \o Found(Head(todo)),
                  ![r].used = @ + comma + (IF found THEN DescriptorLength(Head(todo), o) ELSE 2)]
  /\ UNCHANGED <<vars, rpc>>

(* The reply is complete and is sent.                                      *)
SendList(r) ==
  /\ RAt(r, "describe") /\ view[r].todo = <<>>
  /\ Close(r)
  /\ UNCHANGED vars

Read(r) ==
  \/ AskRecent(r) \/ \E u \in Owners : AskUser(r, u)
  \/ GetNext(r) \/ FindListed(r) \/ GetRange(r) \/ Describe(r) \/ SendList(r)

(* The process ends, by a fault or a null pointer, and is started again.   *)
Restart ==
  /\ "crash" \in Faults \/ ~Alive
  /\ Ended
  /\ rpc' = [r \in Readers |-> "idle"]
  /\ view' = [r \in Readers |-> NoView]

LNext ==
  \/ \E t \in Threads : Alive /\ Write(t) /\ UNCHANGED listing
  \/ \E r \in Readers : Read(r)
  \/ Restart

LSpec == LInit /\ [][LNext]_allVars
-----------------------------------------------------------------------------
(* Properties.                                                             *)

Ready(r) == rpc[r] = "describe" /\ view[r].todo = <<>>

(* Of the games a list names (0 is none) no two are the same; each comes   *)
(* before the older ones.                                                  *)
Apart(s) == \A k, l \in DOMAIN s : k < l /\ s[k] # 0 /\ s[l] # 0 => s[k] # s[l]
Falling(s) == \A k, l \in DOMAIN s : k < l /\ s[k] # 0 /\ s[l] # 0 => s[k] > s[l]

(* A finished reply lists no game twice and newest first, and a reply to   *)
(* /recent-games every game that had been answered when it was asked for,  *)
(* unless its RecentLimit + 1 places went to larger numbers, whatever was  *)
(* written meanwhile.  (A game that was cut short may keep its place, {}.) *)
ListedOnce ==
  \A r \in Readers : LET out == view[r].out IN
    Ready(r) =>
      /\ IF view[r].user = Absent \/ ~overlap THEN Falling(out) ELSE Apart(out)
      /\ view[r].user = Absent =>
           \A i \in view[r].due :
             \/ \E k \in DOMAIN out : out[k] = i
             \/ /\ Len(out) = RecentLimit + 1 /\ next_game > i + RecentLimit
                /\ \A k \in DOMAIN out : out[k] # 0 => out[k] > i

(* Every list is answered with a JSON object (static/index.html): it fits  *)
(* the buffer it is printed to.                                            *)
ReplyFits == \A r \in Readers : Ready(r) => view[r].used + Closing <= view[r].room
-----------------------------------------------------------------------------
(* Why, for any number of readers and threads: ListingInv is the inductive *)
(* invariant of ListingsProofs.                                            *)

LTypeOK ==
  /\ rpc \in [Readers -> {"idle", "next", "segv", "find", "range", "describe"}]
  /\ view \in [Readers -> [user : Owners \cup {Absent}, todo : Seq(Nat), out : Seq(Nat),
                           used : Nat, room : Nat, due : SUBSET GameIds]]

(* What the reply will name at most: a game drops out, and never comes in. *)
Listed(r) == view[r].out \o view[r].todo

(* The list of /recent-games counts down from the last number given when   *)
(* it was read, and keeps the games that are due.                          *)
CountsDown(s, due) ==
  \E n \in GameIds :
    /\ n <= next_game /\ Len(s) = Min2(RecentLimit, n) + 1
    /\ \A k \in DOMAIN s : s[k] \in {0, n - k + 1}
    /\ \A i \in due : i <= n /\ (n - i + 1 \in DOMAIN s => s[n - i + 1] = i)

ReaderSound(r) ==
  /\ rpc[r] \in {"find", "range"} => view[r].user # Absent
  /\ rpc[r] \in {"idle", "next"} => view[r].user = Absent
  /\ rpc[r] \in {"idle", "next", "find", "range"} => view[r].out = <<>>
  /\ view[r].due \subseteq {a.id : a \in ackGames}
  /\ rpc[r] = "describe" =>
       IF view[r].user = Absent THEN CountsDown(Listed(r), view[r].due)
       ELSE Apart(Listed(r)) /\ (~overlap => Falling(Listed(r)))

ListingInv == LTypeOK /\ \A r \in Readers : ReaderSound(r)
=============================================================================
