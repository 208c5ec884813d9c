------------------------------ MODULE Registry ------------------------------
(***************************************************************************)
(* Users, names, ids and lists of games: the /new-user and /new-game       *)
(* handlers of server/main.c and the valkey keys they write, one action    *)
(* per command.  A record is spread over several keys that valkey does not *)
(* update together, so what a reader can find depends on the order of the  *)
(* writes and on where a handler was cut short.                            *)
(*                                                                         *)
(* PlayServer models the same /new-game handler on the keys of the game    *)
(* itself; here "offer" stands for its create_next_person.                 *)
(***************************************************************************)
EXTENDS Naturals, Sequences, FiniteSets

CONSTANTS
  Threads,        \* MHD request threads
  Names,          \* display names
  UserUuids, GameUuids,
  HistoryLimit,   \* VALKEY_USER_GAME_HISTORY, 100 in game.h
  NumberOf,       \* NumberOf[n] : atoi of name n, 0 when it starts with a letter
  Absent,         \* a field that is not set
  Faults          \* which of "refuse" and "crash" may happen

ASSUME RegistryAssumption ==
  /\ HistoryLimit \in Nat \ {0}
  /\ IsFiniteSet(UserUuids) /\ IsFiniteSet(GameUuids)
  /\ UserUuids \cap GameUuids = {}
  /\ NumberOf \in [Names -> Nat]
  /\ Absent \notin Names \cup UserUuids \cup GameUuids
  /\ Faults \subseteq {"refuse", "crash"}

VARIABLES
  next_user, next_game,   \* the counters
  usernames,   \* hash: name -> user uuid
  userids,     \* hash: user id -> user uuid
  users,       \* users[u] : the hash u, fields id and name
  gameids,     \* hash: game id -> game uuid
  games,       \* games[g] : the hash g, fields id and userid
  history,     \* history[u] : the list u-games, newest first
  pc, req,     \* per thread: the next command and the handler's locals
  drawn,       \* the uuids that uuid_generate has returned
  ackUsers, ackGames,  \* what was answered without an error
  named,       \* history: named[g] is the uuid that was given for g's owner
  overlap      \* history: a request came while another was being served

userKeys == <<next_user, usernames, userids, users>>
gameKeys == <<next_game, gameids, games, history>>
answers == <<ackUsers, ackGames, named>>
vars == <<userKeys, gameKeys, pc, req, drawn, answers, overlap>>

(* A counter moves only when a uuid is drawn, so ids stay in these ranges. *)
UserIds == 1 .. Cardinality(UserUuids)
GameIds == 1 .. Cardinality(GameUuids)

(* What /new-game and /user-games take for the uuid of a user: find_user   *)
(* looks at the field id only, which the hash of a game has as well.       *)
Owners == UserUuids \cup GameUuids

NoUser == [id |-> 0, name |-> Absent]
NoGame == [id |-> 0, userid |-> 0]
NoRequest == [name |-> Absent, user |-> Absent, id |-> 0, game |-> Absent, gid |-> 0]

SignUpSteps == {"hget", "incr_user", "hsetnx", "userids", "user"}
GameSteps == {"hmget", "incr_game", "game", "gameids", "lpush", "llen", "rpop", "offer"}

TypeOK ==
  /\ next_user \in {0} \cup UserIds /\ next_game \in {0} \cup GameIds
  /\ usernames \in [Names -> UserUuids \cup {Absent}]
  /\ userids \in [UserIds -> UserUuids \cup {Absent}]
  /\ users \in [UserUuids -> [id : UserIds, name : Names] \cup {NoUser}]
  /\ gameids \in [GameIds -> GameUuids \cup {Absent}]
  /\ games \in [GameUuids -> [id : GameIds, userid : UserIds \cup GameIds] \cup {NoGame}]
  /\ history \in [Owners -> Seq(GameIds)]
  /\ pc \in [Threads -> {"idle"} \cup SignUpSteps \cup GameSteps]
  /\ req \in [Threads -> [name : Names \cup {Absent}, user : Owners \cup {Absent},
                          id : {0} \cup UserIds \cup GameIds,
                          game : GameUuids \cup {Absent}, gid : {0} \cup GameIds]]
  /\ drawn \subseteq UserUuids \cup GameUuids
  /\ ackUsers \subseteq [user : UserUuids, id : UserIds, name : Names]
  /\ ackGames \subseteq [user : Owners, game : GameUuids, id : GameIds]
  /\ named \in [GameUuids -> Owners \cup {Absent}]
  /\ overlap \in BOOLEAN

Init ==
  /\ next_user = 0 /\ next_game = 0
  /\ usernames = [n \in Names |-> Absent]
  /\ userids = [i \in UserIds |-> Absent]
  /\ users = [u \in UserUuids |-> NoUser]
  /\ gameids = [i \in GameIds |-> Absent]
  /\ games = [g \in GameUuids |-> NoGame]
  /\ history = [u \in Owners |-> <<>>]
  /\ pc = [t \in Threads |-> "idle"]
  /\ req = [t \in Threads |-> NoRequest]
  /\ drawn = {} /\ ackUsers = {} /\ ackGames = {} /\ overlap = FALSE
  /\ named = [g \in GameUuids |-> Absent]

-----------------------------------------------------------------------------
At(t, step) == pc[t] = step
Go(t, step) == pc' = [pc EXCEPT ![t] = step]
Return(t) == Go(t, "idle") /\ req' = [req EXCEPT ![t] = NoRequest]
Arrive(t) == overlap' = (overlap \/ \E u \in Threads \ {t} : ~At(u, "idle"))

(***************************************************************************)
(* What the readers find.  Each reads several keys, but a key they reach   *)
(* is written once, so the answer is that of a single moment.              *)
(***************************************************************************)
FindUserById(i) ==
  IF i \notin UserIds \/ userids[i] = Absent THEN NoUser ELSE users[userids[i]]

FindUserByName(n) ==
  IF usernames[n] = Absent THEN NoUser ELSE users[usernames[n]]

(* Variant: the number comes first.                                        *)
FindUserByNumberFirst(n) ==
  IF FindUserById(NumberOf[n]) # NoUser THEN FindUserById(NumberOf[n]) ELSE FindUserByName(n)

(* find_user_by_string on a string that is no uuid: a name, else a number. *)
FindUserByString(n) ==
  IF FindUserByName(n) # NoUser THEN FindUserByName(n) ELSE FindUserById(NumberOf[n])

(* The field id of the hash u, 0 when there is none.                       *)
IdOf(u) == IF u \in UserUuids THEN users[u].id ELSE games[u].id

FindGameById(i) ==
  IF i \notin GameIds \/ gameids[i] = Absent THEN NoGame ELSE games[gameids[i]]

-----------------------------------------------------------------------------
(* /new-user                                                               *)

SignUp(t, n) ==
  /\ At(t, "idle") /\ Go(t, "hget")
  /\ req' = [req EXCEPT ![t].name = n] /\ Arrive(t)
  /\ UNCHANGED <<userKeys, gameKeys, drawn, answers>>

(* HGET usernames name: "username taken".                                  *)
CheckName(t) ==
  /\ At(t, "hget")
  /\ IF usernames[req[t].name] # Absent THEN Return(t)
     ELSE Go(t, "incr_user") /\ UNCHANGED req
  /\ UNCHANGED <<userKeys, gameKeys, drawn, answers, overlap>>

(* INCR next_user, then uuid_generate.                                     *)
IncrUser(t) ==
  /\ At(t, "incr_user") /\ Go(t, "hsetnx")
  /\ next_user' = next_user + 1
  /\ \E u \in UserUuids \ drawn :
       /\ drawn' = drawn \cup {u}
       /\ req' = [req EXCEPT ![t].user = u, ![t].id = next_user + 1]
  /\ UNCHANGED <<usernames, userids, users, gameKeys, answers, overlap>>

(* Variant: HSET instead of HSETNX.                                        *)
ReserveNameAlways(t) ==
  /\ At(t, "hsetnx") /\ Go(t, "userids")
  /\ usernames' = [usernames EXCEPT ![req[t].name] = req[t].user]
  /\ UNCHANGED <<next_user, userids, users, gameKeys, req, drawn, answers, overlap>>

(* HSETNX usernames name uuid: whether it set the field is not looked at.  *)
ReserveName(t) ==
  /\ At(t, "hsetnx") /\ Go(t, "userids")
  /\ usernames' = [usernames EXCEPT ![req[t].name] =
                     IF @ = Absent THEN req[t].user ELSE @]
  /\ UNCHANGED <<next_user, userids, users, gameKeys, req, drawn, answers, overlap>>

(* Variant: the user's id is not indexed.                                  *)
IndexUserNever(t) ==
  /\ At(t, "userids") /\ Go(t, "user")
  /\ UNCHANGED <<userKeys, gameKeys, req, drawn, answers, overlap>>

(* HSET userids id uuid                                                    *)
IndexUser(t) ==
  /\ At(t, "userids") /\ Go(t, "user")
  /\ userids' = [userids EXCEPT ![req[t].id] = req[t].user]
  /\ UNCHANGED <<next_user, usernames, users, gameKeys, req, drawn, answers, overlap>>

(* HSET uuid id name, then the answer with the uuid.                       *)
WriteUser(t) ==
  /\ At(t, "user") /\ Return(t)
  /\ users' = [users EXCEPT ![req[t].user] = [id |-> req[t].id, name |-> req[t].name]]
  /\ ackUsers' = ackUsers \cup
       {[user |-> req[t].user, id |-> req[t].id, name |-> req[t].name]}
  /\ UNCHANGED <<next_user, usernames, userids, gameKeys, drawn, ackGames, named, overlap>>

-----------------------------------------------------------------------------
(* /new-game: web_new_game, find_user and new_game                         *)

StartGame(t, u) ==
  /\ At(t, "idle") /\ Go(t, "hmget")
  /\ req' = [req EXCEPT ![t].user = u] /\ Arrive(t)
  /\ UNCHANGED <<userKeys, gameKeys, drawn, answers>>

(* Variant: the user is taken to exist.                                    *)
FindUserTrusting(t) ==
  /\ At(t, "hmget") /\ Go(t, "incr_game")
  /\ req' = [req EXCEPT ![t].id = IdOf(req[t].user)]
  /\ UNCHANGED <<userKeys, gameKeys, drawn, answers, overlap>>

(* HMGET uuid id name: no field id is answered with web_bad_arg.           *)
FindUser(t) ==
  /\ At(t, "hmget")
  /\ IF IdOf(req[t].user) = 0 THEN Return(t)
     ELSE /\ Go(t, "incr_game")
          /\ req' = [req EXCEPT ![t].id = IdOf(req[t].user)]
  /\ UNCHANGED <<userKeys, gameKeys, drawn, answers, overlap>>

(* INCR next_game, then uuid_generate.                                     *)
IncrGame(t) ==
  /\ At(t, "incr_game") /\ Go(t, "game")
  /\ next_game' = next_game + 1
  /\ \E g \in GameUuids \ drawn :
       /\ drawn' = drawn \cup {g}
       /\ req' = [req EXCEPT ![t].game = g, ![t].gid = next_game + 1]
  /\ UNCHANGED <<gameids, games, history, userKeys, answers, overlap>>

(* HSET uuid id userid type                                                *)
WriteGame(t) ==
  /\ At(t, "game") /\ Go(t, "gameids")
  /\ games' = [games EXCEPT ![req[t].game] = [id |-> req[t].gid, userid |-> req[t].id]]
  /\ named' = [named EXCEPT ![req[t].game] = req[t].user]
  /\ UNCHANGED <<next_game, gameids, history, userKeys, req, drawn, ackUsers, ackGames, overlap>>

(* Variant: the index is not written.                                      *)
IndexGameNever(t) ==
  /\ At(t, "gameids") /\ Go(t, "lpush")
  /\ UNCHANGED <<userKeys, gameKeys, req, drawn, answers, overlap>>

(* HSET gameids id uuid                                                    *)
IndexGame(t) ==
  /\ At(t, "gameids") /\ Go(t, "lpush")
  /\ gameids' = [gameids EXCEPT ![req[t].gid] = req[t].game]
  /\ UNCHANGED <<next_game, games, history, userKeys, req, drawn, answers, overlap>>

(* LPUSH uuid-games id                                                     *)
PushGame(t) ==
  /\ At(t, "lpush") /\ Go(t, "llen")
  /\ history' = [history EXCEPT ![req[t].user] = <<req[t].gid>> \o @]
  /\ UNCHANGED <<next_game, gameids, games, userKeys, req, drawn, answers, overlap>>

(* Variants: off by one either way.                                        *)
MeasureEarly(t) ==
  /\ At(t, "llen")
  /\ Go(t, IF Len(history[req[t].user]) >= HistoryLimit THEN "rpop" ELSE "offer")
  /\ UNCHANGED <<userKeys, gameKeys, req, drawn, answers, overlap>>
MeasureLate(t) ==
  /\ At(t, "llen")
  /\ Go(t, IF Len(history[req[t].user]) > HistoryLimit + 1 THEN "rpop" ELSE "offer")
  /\ UNCHANGED <<userKeys, gameKeys, req, drawn, answers, overlap>>

(* LLEN uuid-games                                                         *)
Measure(t) ==
  /\ At(t, "llen")
  /\ Go(t, IF Len(history[req[t].user]) > HistoryLimit THEN "rpop" ELSE "offer")
  /\ UNCHANGED <<userKeys, gameKeys, req, drawn, answers, overlap>>

ButLast(s) == SubSeq(s, 1, Len(s) - 1)

(* RPOP uuid-games; on a list that is gone it does nothing.                *)
Trim(t) ==
  /\ At(t, "rpop") /\ Go(t, "offer")
  /\ history' = [history EXCEPT ![req[t].user] = ButLast(@)]
  /\ UNCHANGED <<next_game, gameids, games, userKeys, req, drawn, answers, overlap>>

(* create_next_person, then the answer with the game's uuid.               *)
Offer(t) ==
  /\ At(t, "offer") /\ Return(t)
  /\ ackGames' = ackGames \cup
       {[user |-> req[t].user, game |-> req[t].game, id |-> req[t].gid]}
  /\ UNCHANGED <<userKeys, gameKeys, drawn, ackUsers, named, overlap>>

-----------------------------------------------------------------------------
(* Faults: valkey refuses a command that may need memory, and the handler  *)
(* returns without undoing anything; the server ends and is started again. *)

CommandRefused(t) ==
  /\ "refuse" \in Faults
  /\ pc[t] \in {"incr_user", "hsetnx", "userids", "user",
                "incr_game", "game", "gameids", "lpush", "offer"}
  /\ Return(t)
  /\ UNCHANGED <<userKeys, gameKeys, drawn, answers, overlap>>

(* The process ends and is started again: every handler is gone.           *)
Ended ==
  /\ pc' = [t \in Threads |-> "idle"]
  /\ req' = [t \in Threads |-> NoRequest]
  /\ UNCHANGED <<userKeys, gameKeys, drawn, answers, overlap>>

Crash == "crash" \in Faults /\ Ended

NewUser(t) == CheckName(t) \/ IncrUser(t) \/ ReserveName(t) \/ IndexUser(t) \/ WriteUser(t)
NewGame(t) ==
  \/ FindUser(t) \/ IncrGame(t) \/ WriteGame(t) \/ IndexGame(t)
  \/ PushGame(t) \/ Measure(t) \/ Trim(t) \/ Offer(t)

Write(t) ==
  \/ \E n \in Names : SignUp(t, n)
  \/ \E u \in Owners : StartGame(t, u)
  \/ NewUser(t) \/ NewGame(t)
  \/ CommandRefused(t)

Next == (\E t \in Threads : Write(t)) \/ Crash

Spec == Init /\ [][Next]_vars
-----------------------------------------------------------------------------
(* Properties.                                                             *)

(* A user who was given a uuid can play with it, and the id that the       *)
(* user's games carry leads back to the same user.  Every game, also one   *)
(* whose /new-game was cut short, carries the number of what its request   *)
(* named.  When that was a user, /details finds this user; when it was a   *)
(* game, an older one, the number is a game's and says nothing of users:   *)
(* whoever has it as a user id, if anybody has, is shown as the owner.     *)
UsersResolve ==
  /\ \A a \in ackUsers :
       /\ users[a.user] = [id |-> a.id, name |-> a.name]
       /\ FindUserById(a.id) = users[a.user]
  /\ \A g \in GameUuids : games[g] # NoGame =>
       /\ games[g].userid = IdOf(named[g]) /\ games[g].userid # 0
       /\ named[g] \in UserUuids => FindUserById(games[g].userid) = users[named[g]]
       /\ named[g] \in GameUuids => games[named[g]].id < games[g].id

(* A name leads to the user who signed up with it, also a name that reads  *)
(* like another user's id: nobody else was given the same name.  (Two      *)
(* sign-ups at once can both be told that a name is theirs.)               *)
NamesResolve ==
  ~overlap => \A a \in ackUsers : FindUserByString(a.name) = [id |-> a.id, name |-> a.name]

(* An index entry never dangles: a game id leads to the game with that id, *)
(* an owner's list holds ids of games that this owner was named for, each  *)
(* once, and a game that was answered is found by its id.                  *)
IndexSound ==
  /\ \A i \in GameIds : gameids[i] # Absent => FindGameById(i).id = i
  /\ \A u \in Owners : \A k, l \in DOMAIN history[u] :
       /\ gameids[history[u][k]] # Absent /\ named[gameids[history[u][k]]] = u
       /\ k # l => history[u][k] # history[u][l]
  /\ \A a \in ackGames : gameids[a.id] = a.game /\ games[a.game].id = a.id

(* The list of a user starts with the newest games, newest first: a game  *)
(* that was answered leaves the list only for HistoryLimit newer ones.     *)
(* (Of two requests at once the one with the larger id may push first.)    *)
NewestGamesListed ==
  ~overlap =>
    /\ \A a \in ackGames :
         \/ \E k \in DOMAIN history[a.user] : history[a.user][k] = a.id
         \/ Cardinality({k \in DOMAIN history[a.user] : history[a.user][k] > a.id})
              >= HistoryLimit
    /\ \A u \in Owners : \A k, l \in DOMAIN history[u] :
         k < l => history[u][k] > history[u][l]

(* No list is longer than the limit by more than the owner's games that    *)
(* were not answered, because their requests are still being served or     *)
(* were cut short, whatever the order of LPUSH, LLEN and RPOP of several   *)
(* threads.                                                                *)
Unanswered(u) ==
  {g \in GameUuids : named[g] = u /\ \A a \in ackGames : a.game # g}
HistoryWithinLimit ==
  \A u \in Owners : Len(history[u]) <= HistoryLimit + Cardinality(Unanswered(u))

(* A name, once bound to a uuid, stays bound to it.                        *)
NamesNeverRebound ==
  [][\A n \in Names : usernames[n] # Absent => usernames'[n] = usernames[n]]_vars
-----------------------------------------------------------------------------
(* Why the users and games resolve, for any number of threads: RegistryInv *)
(* is the inductive invariant of RegistryProofs.                           *)

HasUser(t) == pc[t] \in {"hsetnx", "userids", "user"}
HasGame(t) == pc[t] \in {"game", "gameids", "lpush", "llen", "rpop", "offer"}
HasOwner(t) == At(t, "incr_game") \/ HasGame(t)

(* A thread that signs somebody up writes to keys nobody else has written. *)
SignUpSound(t) ==
  /\ pc[t] \in SignUpSteps => req[t].name \in Names
  /\ HasUser(t) =>
       /\ req[t].user \in drawn \cap UserUuids
       /\ req[t].id \in 1 .. next_user
       /\ users[req[t].user] = NoUser
       /\ userids[req[t].id] = IF At(t, "user") THEN req[t].user ELSE Absent

(* So does a thread that registers a game; its owner was found before.     *)
NewGameSound(t) ==
  /\ pc[t] \in GameSteps => req[t].user \in Owners
  /\ HasOwner(t) => req[t].id = IdOf(req[t].user) /\ req[t].id # 0
  /\ HasGame(t) =>
       /\ req[t].game \in drawn \cap GameUuids
       /\ req[t].gid \in 1 .. next_game
       /\ req[t].user \in GameUuids => req[t].id < req[t].gid
       /\ IF At(t, "game") THEN games[req[t].game] = NoGame
          ELSE /\ games[req[t].game] = [id |-> req[t].gid, userid |-> req[t].id]
               /\ named[req[t].game] = req[t].user
       /\ gameids[req[t].gid] =
            IF pc[t] \in {"game", "gameids"} THEN Absent ELSE req[t].game
  /\ At(t, "lpush") =>
       \A u \in Owners : \A k \in DOMAIN history[u] : history[u][k] # req[t].gid

(* No two threads were given the same uuid or the same number.             *)
UsersApart(t, u) ==
  HasUser(t) /\ HasUser(u) => req[t].user # req[u].user /\ req[t].id # req[u].id
GamesApart(t, u) ==
  HasGame(t) /\ HasGame(u) => req[t].game # req[u].game /\ req[t].gid # req[u].gid

(* A user's hash is written after the index that leads to it.              *)
UsersIndexed ==
  /\ \A i \in UserIds : userids[i] # Absent => i <= next_user
  /\ \A u \in UserUuids : users[u] # NoUser => u \in drawn /\ userids[users[u].id] = u

(* A game's hash is written before the index, and after its owner's.       *)
GamesOwned ==
  /\ \A i \in GameIds : gameids[i] # Absent => i <= next_game
  /\ \A g \in GameUuids : games[g] = NoGame => named[g] = Absent
  /\ \A g \in GameUuids : games[g] # NoGame =>
       /\ g \in drawn /\ games[g].id <= next_game /\ named[g] \in Owners
       /\ games[g].userid = IdOf(named[g]) /\ games[g].userid # 0
       /\ named[g] \in GameUuids => games[g].userid < games[g].id

(* A counter is the number of uuids drawn, so it never passes its ids.     *)
UserSide ==
  /\ next_user = Cardinality(drawn \cap UserUuids)
  /\ \A t \in Threads : SignUpSound(t)
  /\ \A t, u \in Threads : t # u => UsersApart(t, u)
  /\ UsersIndexed
  /\ \A a \in ackUsers : users[a.user] = [id |-> a.id, name |-> a.name]

GameSide ==
  /\ next_game = Cardinality(drawn \cap GameUuids)
  /\ \A t \in Threads : NewGameSound(t)
  /\ \A t, u \in Threads : t # u => GamesApart(t, u)
  /\ GamesOwned
  /\ IndexSound

RegistryInv == UserSide /\ GameSide

(* Why names resolve as long as requests came one at a time: between HGET  *)
(* and HSETNX nobody else takes the name.                                  *)
NamesKnown ==
  ~overlap =>
    /\ \A t, u \in Threads : ~At(t, "idle") /\ ~At(u, "idle") => t = u
    /\ \A a \in ackUsers : usernames[a.name] = a.user
    /\ \A t \in Threads :
         /\ pc[t] \in {"incr_user", "hsetnx"} => usernames[req[t].name] = Absent
         /\ pc[t] \in {"userids", "user"} => usernames[req[t].name] = req[t].user

(* Why the newest games stay listed, again while requests came one at a    *)
(* time: LPUSH puts the greatest number first, and RPOP takes the least    *)
(* from a list that is longer than the limit.                              *)
Sorted(s) == \A k, l \in DOMAIN s : k < l => s[k] > s[l]

ListedOrPast(s, n) ==
  \/ \E k \in DOMAIN s : s[k] = n
  \/ Len(s) >= HistoryLimit /\ \A k \in DOMAIN s : s[k] > n

Pushing(t) ==
  /\ pc[t] \in {"game", "gameids", "lpush"} =>
       \A u \in Owners : \A k \in DOMAIN history[u] : history[u][k] < req[t].gid
  /\ pc[t] \in {"llen", "rpop", "offer"} =>
       LET s == history[req[t].user] IN Len(s) > 0 /\ s[1] = req[t].gid
  /\ At(t, "rpop") => Len(history[req[t].user]) > HistoryLimit

NewestKnown ==
  ~overlap =>
    /\ \A u \in Owners :
         Sorted(history[u]) /\ \A k \in DOMAIN history[u] : history[u][k] <= next_game
    /\ \A a \in ackGames : ListedOrPast(history[a.user], a.id)
    /\ \A t \in Threads : Pushing(t)

(* Why the lists stay within the limit, with any number of requests: of    *)
(* the unanswered games those are left out that are not pushed yet, or     *)
(* whose handler has measured and trimmed the list already.                *)
OutOfCount(t) == pc[t] \in {"gameids", "lpush", "offer"}
Counted(u) == {g \in Unanswered(u) : \A t \in Threads : OutOfCount(t) => req[t].game # g}

LengthsKnown ==
  /\ \A t \in Threads : HasGame(t) => \A a \in ackGames : a.game # req[t].game
  /\ \A u \in Owners : Len(history[u]) <= HistoryLimit + Cardinality(Counted(u))
-----------------------------------------------------------------------------
(* Registry implements Directory, for any number of threads and with every *)
(* fault: the half-written users and games are those that nobody finds.    *)
PersonOf == [i \in UserIds |-> FindUserById(i)]
NamedPerson == [n \in Names |-> FindUserByName(n)]
GameOf == [i \in GameIds |-> FindGameById(i)]

(* An owner is known by its kind and the number in its hash.               *)
Keys == ({"person"} \X UserIds) \cup ({"game"} \X GameIds)
KeyOf == [u \in Owners |-> <<IF u \in UserUuids THEN "person" ELSE "game", IdOf(u)>>]
OwnerOf == [i \in GameIds |-> IF gameids[i] = Absent THEN Absent ELSE KeyOf[named[gameids[i]]]]

(* The list of the owner with key o: a list that is empty is no key.       *)
Under(o, key, lists) ==
  LET holders == {u \in Owners : lists[u] # <<>> /\ key[u] = o}
  IN IF holders = {} THEN <<>> ELSE lists[CHOOSE u \in holders : TRUE]
ListOf == [o \in Keys |-> Under(o, KeyOf, history)]

Dir == INSTANCE Directory WITH
         person <- PersonOf, byName <- NamedPerson, game <- GameOf,
         owner <- OwnerOf, list <- ListOf, Owners <- Keys, NoOwner <- Absent

(* What a reader finds by id or by name appears whole and never changes,   *)
(* a name that leads to somebody leads nowhere else later, a game's owner  *)
(* is somebody who was found or an older game, and a list changes by one   *)
(* of its owner's games at the front or one less at the end, however the   *)
(* commands of /new-user and /new-game interleave.                         *)
ImplementsDirectory == Dir!DirSpec

(* Why a record shows up at one place only: an entry that leads to a uuid  *)
(* agrees with the user's hash and with the thread that will write it.     *)
IdsLeadHome ==
  \A i \in UserIds : userids[i] # Absent =>
    /\ userids[i] \in drawn
    /\ users[userids[i]] # NoUser => users[userids[i]].id = i
    /\ \A t \in Threads : HasUser(t) /\ req[t].user = userids[i] => req[t].id = i

(* No two hashes carry the same number of a game.                          *)
NumbersApart ==
  /\ \A g, h \in GameUuids : games[g] # NoGame /\ games[g].id = games[h].id => g = h
  /\ \A t \in Threads : At(t, "game") => \A g \in GameUuids : games[g].id # req[t].gid

NamesLeadHome ==
  \A n \in Names : usernames[n] # Absent =>
    /\ usernames[n] \in drawn
    /\ users[usernames[n]] # NoUser => users[usernames[n]].name = n
    /\ \A t \in Threads : HasUser(t) /\ req[t].user = usernames[n] => req[t].name = n
=============================================================================
