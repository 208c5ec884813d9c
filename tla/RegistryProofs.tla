--------------------------- MODULE RegistryProofs ---------------------------
(***************************************************************************)
(* Proofs about Registry for every number of threads, users, names and     *)
(* games, every limit and every choice of faults.                          *)
(***************************************************************************)
EXTENDS Registry, FiniteSetTheorems, TLAPS

IInv == TypeOK /\ RegistryInv

(* A step of a handler, or the process ending for whatever reason: what    *)
(* Registry does, and what the listings built on it see it do.             *)
AnyStep == (\E t \in Threads : Write(t)) \/ Ended

-----------------------------------------------------------------------------
(* Counting uuids.                                                         *)

(* A uuid that was not drawn yet leaves room for one more number.          *)
LEMMA OneMoreDrawn ==
  ASSUME NEW U, IsFiniteSet(U), NEW D, NEW x \in U \ D
  PROVE  /\ Cardinality(D \cap U) \in Nat
         /\ Cardinality((D \cup {x}) \cap U) = Cardinality(D \cap U) + 1
         /\ Cardinality(D \cap U) + 1 \in 1 .. Cardinality(U)
<1>1. IsFiniteSet(D \cap U) /\ Cardinality(D \cap U) \in Nat
  BY FS_Subset, FS_CardinalityType
<1>2. (D \cup {x}) \cap U = (D \cap U) \cup {x}
  OBVIOUS
<1>3. Cardinality((D \cup {x}) \cap U) = Cardinality(D \cap U) + 1
  BY <1>1, <1>2, FS_AddElement
<1>4. /\ Cardinality((D \cup {x}) \cap U) <= Cardinality(U)
      /\ Cardinality(U) \in Nat
  <2>1. (D \cup {x}) \cap U \subseteq U
    OBVIOUS
  <2> QED
    BY <2>1, FS_Subset, FS_CardinalityType
<1> QED
  BY <1>1, <1>3, <1>4

(* Drawing a uuid of the other kind changes no count.                      *)
LEMMA OtherKind ==
  ASSUME NEW U, NEW V, U \cap V = {}, NEW D, NEW x \in V
  PROVE  (D \cup {x}) \cap U = D \cap U
  OBVIOUS

(* What find_user reads is a number of a user or of a game, or nothing.    *)
LEMMA IdTyped == TypeOK => \A u \in Owners : IdOf(u) \in {0} \cup UserIds \cup GameIds
  BY DEF TypeOK, IdOf, Owners, NoUser, NoGame

LEMMA Counts ==
  /\ Cardinality(UserUuids) \in Nat
  /\ Cardinality(GameUuids) \in Nat
  BY RegistryAssumption, FS_CardinalityType

(* RPOP leaves the front of a list, LPUSH puts a number before it.         *)
LEMMA ButLastFront ==
  ASSUME NEW S, NEW s \in Seq(S)
  PROVE  /\ ButLast(s) \in Seq(S)
         /\ DOMAIN ButLast(s) \subseteq DOMAIN s
         /\ \A k \in DOMAIN ButLast(s) : ButLast(s)[k] = s[k]
<1>1. CASE s = <<>>
  BY <1>1 DEF ButLast
<1>2. CASE s # <<>>
  BY <1>2 DEF ButLast
<1> QED
  BY <1>1, <1>2

LEMMA PushFront ==
  ASSUME NEW S, NEW s \in Seq(S), NEW x \in S
  PROVE  /\ <<x>> \o s \in Seq(S)
         /\ DOMAIN (<<x>> \o s) = 1 .. Len(s) + 1
         /\ (<<x>> \o s)[1] = x
         /\ \A k \in 2 .. Len(s) + 1 : (<<x>> \o s)[k] = s[k - 1]
         /\ DOMAIN s = 1 .. Len(s) /\ Len(s) \in Nat
  OBVIOUS
-----------------------------------------------------------------------------
(* What an action leaves alone.                                            *)

(* The users' side of the invariant survives an action that writes none of *)
(* the users' keys and moves no thread that holds a new user.              *)
LEMMA UserSideKept ==
  ASSUME TypeOK, UserSide, UNCHANGED <<userKeys, ackUsers>>,
         drawn' \cap UserUuids = drawn \cap UserUuids,
         \A t \in Threads : HasUser(t)' => pc'[t] = pc[t] /\ req'[t] = req[t],
         \A t \in Threads : pc'[t] \in SignUpSteps => req'[t].name \in Names
  PROVE  UserSide'
<1>1. (next_user = Cardinality(drawn \cap UserUuids))'
  BY DEF UserSide, userKeys
<1>2. \A t \in Threads : HasUser(t)' => HasUser(t)
  BY DEF HasUser
<1>3. \A t \in Threads : SignUpSound(t)'
  BY <1>2 DEF UserSide, SignUpSound, HasUser, At, userKeys
<1>4. \A t, u \in Threads : t # u => UsersApart(t, u)'
  BY <1>2 DEF UserSide, UsersApart
<1>5. UsersIndexed'
  BY DEF UserSide, UsersIndexed, userKeys
<1> QED
  BY <1>1, <1>3, <1>4, <1>5 DEF UserSide, userKeys

(* So does the games' side, also when users are added.                     *)
LEMMA GameSideKept ==
  ASSUME TypeOK, GameSide, UNCHANGED <<gameKeys, ackGames>>,
         drawn' \cap GameUuids = drawn \cap GameUuids,
         UNCHANGED named, \A u \in Owners : IdOf(u) # 0 => IdOf(u)' = IdOf(u),
         \A t \in Threads : HasOwner(t)' => pc'[t] = pc[t] /\ req'[t] = req[t],
         \A t \in Threads : pc'[t] \in GameSteps => req'[t].user \in Owners
  PROVE  GameSide'
<1>1. (next_game = Cardinality(drawn \cap GameUuids))'
  BY DEF GameSide, gameKeys
<1>2. \A t \in Threads :
         /\ HasOwner(t)' => HasOwner(t)
         /\ HasGame(t)' => HasGame(t) /\ HasOwner(t)'
         /\ At(t, "lpush")' => HasGame(t)'
  BY DEF HasGame, HasOwner, At
<1>3. \A t \in Threads : NewGameSound(t)'
  <2> SUFFICES ASSUME NEW t \in Threads PROVE NewGameSound(t)'
    OBVIOUS
  <2>1. NewGameSound(t)
    BY DEF GameSide
  <2>2. CASE HasOwner(t)'
    <3>1. pc'[t] = pc[t] /\ req'[t] = req[t] /\ HasOwner(t)
      BY <1>2, <2>2
    <3>2. pc[t] \in GameSteps
      BY <3>1 DEF HasOwner, HasGame, At, GameSteps
    <3>3. IdOf(req[t].user)' = IdOf(req[t].user)
      <4>1. req[t].user \in Owners /\ IdOf(req[t].user) # 0
        BY <2>1, <3>1, <3>2 DEF NewGameSound
      <4> QED
        BY <3>1, <4>1 DEF IdOf, Owners
    <3> QED
      BY <2>1, <3>1, <3>2, <3>3 DEF NewGameSound, HasGame, HasOwner, At, gameKeys
  <2>3. CASE ~HasOwner(t)'
    BY <1>2, <2>3 DEF NewGameSound
  <2> QED
    BY <2>2, <2>3
<1>4. \A t, u \in Threads : t # u => GamesApart(t, u)'
  BY <1>2 DEF GameSide, GamesApart
<1>5. GamesOwned'
  BY DEF GameSide, GamesOwned, gameKeys
<1>6. IndexSound'
  <2>1. \A i \in GameIds : FindGameById(i)' = FindGameById(i)
    BY DEF FindGameById, gameKeys
  <2> QED
    BY <2>1 DEF GameSide, IndexSound, gameKeys
<1> QED
  BY <1>1, <1>3, <1>4, <1>5, <1>6 DEF GameSide
-----------------------------------------------------------------------------
(* The initial state.                                                      *)
LEMMA InitInv == Init => IInv
<1> SUFFICES ASSUME Init PROVE IInv
  OBVIOUS
<1>1. Cardinality({}) = 0
  BY FS_EmptySet
<1>2. TypeOK
  <2>1. <<>> \in Seq(GameIds)
    OBVIOUS
  <2>2. NoRequest \in [name : Names \cup {Absent}, user : Owners \cup {Absent},
                       id : {0} \cup UserIds \cup GameIds,
                       game : GameUuids \cup {Absent}, gid : {0} \cup GameIds]
    BY DEF NoRequest
  <2> QED
    BY <2>1, <2>2 DEF Init, TypeOK
<1>3. UserSide
  <2>1. \A t \in Threads : pc[t] = "idle"
    BY DEF Init
  <2>2. drawn \cap UserUuids = {}
    BY DEF Init
  <2>3. \A t \in Threads : SignUpSound(t)
    BY <2>1 DEF SignUpSound, HasUser, SignUpSteps
  <2>4. \A t, u \in Threads : t # u => UsersApart(t, u)
    BY <2>1 DEF UsersApart, HasUser
  <2> QED
    BY <1>1, <2>2, <2>3, <2>4 DEF Init, UserSide, UsersIndexed
<1>4. GameSide
  <2>1. \A t \in Threads : pc[t] = "idle"
    BY DEF Init
  <2>2. drawn \cap GameUuids = {}
    BY DEF Init
  <2>3. \A t \in Threads : NewGameSound(t)
    BY <2>1 DEF NewGameSound, HasOwner, HasGame, GameSteps, At
  <2>4. \A t, u \in Threads : t # u => GamesApart(t, u)
    BY <2>1 DEF GamesApart, HasGame
  <2>5. GamesOwned /\ IndexSound
    BY DEF Init, GamesOwned, IndexSound
  <2> QED
    BY <1>1, <2>2, <2>3, <2>4, <2>5 DEF Init, GameSide
<1> QED
  BY <1>2, <1>3, <1>4 DEF IInv, RegistryInv

(* Every action keeps the types.                                           *)
LEMMA TypeStep == IInv /\ [AnyStep]_vars => TypeOK'
<1> SUFFICES ASSUME IInv, [AnyStep]_vars PROVE TypeOK'
  OBVIOUS
<1> USE DEF IInv
<1>a. NoRequest \in [name : Names \cup {Absent}, user : Owners \cup {Absent},
                     id : {0} \cup UserIds \cup GameIds,
                     game : GameUuids \cup {Absent}, gid : {0} \cup GameIds]
  BY DEF NoRequest
<1>b. ASSUME NEW t \in Threads, Return(t),
             UNCHANGED <<userKeys, gameKeys, drawn, answers, overlap>>
      PROVE  TypeOK'
  BY <1>a, <1>b DEF TypeOK, Return, Go, userKeys, gameKeys, answers
<1>1. ASSUME NEW t \in Threads, NEW n \in Names, SignUp(t, n) PROVE TypeOK'
  BY <1>1 DEF TypeOK, SignUp, Go, Arrive, userKeys, gameKeys, answers, SignUpSteps
<1>2. ASSUME NEW t \in Threads, CheckName(t) PROVE TypeOK'
  <2>1. CASE Return(t)
    BY <1>2, <2>1, <1>b DEF CheckName
  <2>2. CASE Go(t, "incr_user") /\ UNCHANGED req
    BY <1>2, <2>2 DEF CheckName, TypeOK, Go, userKeys, gameKeys, answers, SignUpSteps
  <2> QED
    BY <1>2, <2>1, <2>2 DEF CheckName
<1>3. ASSUME NEW t \in Threads, IncrUser(t) PROVE TypeOK'
  <2>1. PICK u \in UserUuids \ drawn :
          /\ drawn' = drawn \cup {u}
          /\ req' = [req EXCEPT ![t].user = u, ![t].id = next_user + 1]
    BY <1>3 DEF IncrUser
  <2>2. next_user + 1 \in UserIds
    BY OneMoreDrawn, RegistryAssumption DEF RegistryInv, UserSide, UserIds
  <2>a. req \in [Threads -> [name : Names \cup {Absent}, user : Owners \cup {Absent},
                              id : {0} \cup UserIds \cup GameIds,
                              game : GameUuids \cup {Absent}, gid : {0} \cup GameIds]]
    BY DEF TypeOK
  <2>b. u \in Owners
    BY <2>1 DEF Owners
  <2>3. req' \in [Threads -> [name : Names \cup {Absent}, user : Owners \cup {Absent},
                              id : {0} \cup UserIds \cup GameIds,
                              game : GameUuids \cup {Absent}, gid : {0} \cup GameIds]]
    BY <2>1, <2>2, <2>a, <2>b
  <2>4. pc' \in [Threads -> {"idle"} \cup SignUpSteps \cup GameSteps]
    BY <1>3 DEF IncrUser, TypeOK, Go, SignUpSteps
  <2> QED
    BY <1>3, <2>1, <2>2, <2>3, <2>4 DEF IncrUser, TypeOK, gameKeys, answers
<1>4. ASSUME NEW t \in Threads, ReserveName(t) PROVE TypeOK'
  <2>1. SignUpSound(t) /\ HasUser(t) /\ pc[t] \in SignUpSteps
    BY <1>4 DEF ReserveName, At, HasUser, SignUpSteps, RegistryInv, UserSide
  <2> QED
    BY <1>4, <2>1 DEF SignUpSound, ReserveName, TypeOK, Go, gameKeys, answers, SignUpSteps
<1>5. ASSUME NEW t \in Threads, IndexUser(t) PROVE TypeOK'
  <2>1. SignUpSound(t) /\ HasUser(t)
    BY <1>5 DEF IndexUser, At, HasUser, RegistryInv, UserSide
  <2> QED
    BY <1>5, <2>1 DEF SignUpSound, IndexUser, TypeOK, Go, gameKeys, answers, SignUpSteps
<1>6. ASSUME NEW t \in Threads, WriteUser(t) PROVE TypeOK'
  <2>1. SignUpSound(t) /\ HasUser(t) /\ pc[t] \in SignUpSteps
    BY <1>6 DEF WriteUser, At, HasUser, SignUpSteps, RegistryInv, UserSide
  <2>2. /\ req[t].user \in UserUuids /\ req[t].name \in Names
        /\ req[t].id \in UserIds
    BY <2>1, Counts DEF SignUpSound, TypeOK, UserIds
  <2> QED
    BY <1>6, <1>a, <2>2 DEF WriteUser, TypeOK, Return, Go, gameKeys, answers
<1>7. ASSUME NEW t \in Threads, NEW u \in Owners, StartGame(t, u) PROVE TypeOK'
  BY <1>7 DEF TypeOK, StartGame, Go, Arrive, userKeys, gameKeys, answers, GameSteps
<1>8. ASSUME NEW t \in Threads, FindUser(t) PROVE TypeOK'
  <2>1. CASE Return(t)
    BY <1>8, <2>1, <1>b DEF FindUser
  <2>2. CASE /\ IdOf(req[t].user) # 0 /\ Go(t, "incr_game")
             /\ req' = [req EXCEPT ![t].id = IdOf(req[t].user)]
    <3>1. req[t].user \in Owners
      BY <1>8 DEF FindUser, At, RegistryInv, GameSide, NewGameSound, GameSteps
    <3>2. IdOf(req[t].user) \in {0} \cup UserIds \cup GameIds
      BY <3>1, IdTyped
    <3> QED
      BY <1>8, <2>2, <3>2 DEF FindUser, TypeOK, Go, userKeys, gameKeys, answers, GameSteps
  <2> QED
    BY <1>8, <2>1, <2>2 DEF FindUser
<1>9. ASSUME NEW t \in Threads, IncrGame(t) PROVE TypeOK'
  <2>1. PICK g \in GameUuids \ drawn :
          /\ drawn' = drawn \cup {g}
          /\ req' = [req EXCEPT ![t].game = g, ![t].gid = next_game + 1]
    BY <1>9 DEF IncrGame
  <2>2. next_game + 1 \in GameIds
    BY OneMoreDrawn, RegistryAssumption DEF RegistryInv, GameSide, GameIds
  <2>a. req \in [Threads -> [name : Names \cup {Absent}, user : Owners \cup {Absent},
                              id : {0} \cup UserIds \cup GameIds,
                              game : GameUuids \cup {Absent}, gid : {0} \cup GameIds]]
    BY DEF TypeOK
  <2>b. g \in Owners
    BY <2>1 DEF Owners
  <2>3. req' \in [Threads -> [name : Names \cup {Absent}, user : Owners \cup {Absent},
                              id : {0} \cup UserIds \cup GameIds,
                              game : GameUuids \cup {Absent}, gid : {0} \cup GameIds]]
    BY <2>1, <2>2, <2>a, <2>b
  <2>4. pc' \in [Threads -> {"idle"} \cup SignUpSteps \cup GameSteps]
    BY <1>9 DEF IncrGame, TypeOK, Go, GameSteps
  <2> QED
    BY <1>9, <2>1, <2>2, <2>3, <2>4 DEF IncrGame, TypeOK, userKeys, answers
<1>10. ASSUME NEW t \in Threads,
              WriteGame(t) \/ IndexGame(t) \/ PushGame(t) \/ Measure(t) \/ Trim(t) \/ Offer(t)
       PROVE  TypeOK'
  <2>1. HasGame(t)
    BY <1>10 DEF WriteGame, IndexGame, PushGame, Measure, Trim, Offer, At, HasGame
  <2>2. /\ NewGameSound(t) /\ HasOwner(t) /\ pc[t] \in GameSteps
    BY <2>1 DEF HasGame, HasOwner, GameSteps, RegistryInv, GameSide
  <2>3. /\ req[t].user \in Owners /\ req[t].game \in GameUuids
        /\ req[t].id \in UserIds \cup GameIds /\ req[t].gid \in GameIds
    <3>1. /\ req[t].user \in Owners /\ req[t].game \in GameUuids
          /\ req[t].gid \in 1 .. next_game
          /\ req[t].id # 0
      BY <2>1, <2>2 DEF NewGameSound
    <3>2. req[t].id \in {0} \cup UserIds \cup GameIds
      BY DEF TypeOK
    <3>3. req[t].gid \in {0} \cup GameIds /\ next_game \in {0} \cup GameIds
      BY DEF TypeOK
    <3> QED
      BY <3>1, <3>2, <3>3, Counts DEF GameIds
  <2>4. CASE WriteGame(t)
    BY <2>3, <2>4 DEF WriteGame, TypeOK, Go, userKeys, answers, GameSteps
  <2>5. CASE IndexGame(t)
    BY <2>3, <2>5 DEF IndexGame, TypeOK, Go, userKeys, answers, GameSteps
  <2>6. CASE PushGame(t)
    <3>1. <<req[t].gid>> \o history[req[t].user] \in Seq(GameIds)
      BY <2>3, PushFront DEF TypeOK
    <3> QED
      BY <2>3, <2>6, <3>1 DEF PushGame, TypeOK, Go, userKeys, answers, GameSteps
  <2>7. CASE Measure(t)
    BY <2>7 DEF Measure, TypeOK, Go, userKeys, gameKeys, answers, GameSteps
  <2>8. CASE Trim(t)
    <3>1. ButLast(history[req[t].user]) \in Seq(GameIds)
      BY <2>3, ButLastFront DEF TypeOK
    <3> QED
      BY <2>3, <2>8, <3>1 DEF Trim, TypeOK, Go, userKeys, answers, GameSteps
  <2>9. CASE Offer(t)
    BY <1>a, <2>3, <2>9 DEF Offer, TypeOK, Return, Go, userKeys, gameKeys, answers
  <2> QED
    BY <1>10, <2>4, <2>5, <2>6, <2>7, <2>8, <2>9
<1>11. ASSUME NEW t \in Threads, CommandRefused(t) PROVE TypeOK'
  BY <1>11, <1>b DEF CommandRefused
<1>12. CASE Ended
  BY <1>12, <1>a DEF Ended, TypeOK, userKeys, gameKeys, answers
<1>13. CASE UNCHANGED vars
  BY <1>13 DEF vars, TypeOK, userKeys, gameKeys, answers
<1> QED
  BY <1>1, <1>2, <1>3, <1>4, <1>5, <1>6, <1>7, <1>8, <1>9, <1>10, <1>11, <1>12, <1>13
  DEF AnyStep, Write, NewUser, NewGame
-----------------------------------------------------------------------------
(* The users' side.                                                        *)

LEMMA UserStep == IInv /\ [AnyStep]_vars => UserSide'
<1> SUFFICES ASSUME IInv, [AnyStep]_vars PROVE UserSide'
  OBVIOUS
<1>a. TypeOK /\ UserSide /\ GameSide
  BY DEF IInv, RegistryInv
<1>b. \A t \in Threads : SignUpSound(t) /\ pc[t] \in {"idle"} \cup SignUpSteps \cup GameSteps
  BY <1>a DEF UserSide, TypeOK
<1>e. UsersIndexed /\ \A a \in ackUsers : users[a.user] = [id |-> a.id, name |-> a.name]
  BY <1>a DEF UserSide
<1>f. \A t, u \in Threads : t # u => UsersApart(t, u)
  BY <1>a DEF UserSide
<1>g. \A a \in ackUsers : a.user \in UserUuids /\ a.id \in UserIds /\ users[a.user] # NoUser
  <2>1. ackUsers \subseteq [user : UserUuids, id : UserIds, name : Names]
    BY <1>a DEF TypeOK
  <2>2. 0 \notin UserIds
    BY Counts DEF UserIds
  <2> SUFFICES ASSUME NEW a \in ackUsers
               PROVE  a.user \in UserUuids /\ a.id \in UserIds /\ users[a.user] # NoUser
    OBVIOUS
  <2>3. a.user \in UserUuids /\ a.id \in UserIds
    BY <2>1
  <2>4. users[a.user] = [id |-> a.id, name |-> a.name]
    BY <1>e
  <2>5. users[a.user].id = a.id
    BY <2>4
  <2> QED
    BY <2>2, <2>3, <2>5 DEF NoUser
(* An action that writes no key of a user moves only one thread.           *)
<1>c. ASSUME NEW t \in Threads, UNCHANGED <<userKeys, ackUsers>>,
             drawn' \cap UserUuids = drawn \cap UserUuids,
             pc' \in [Threads -> {"idle"} \cup SignUpSteps \cup GameSteps],
             \A u \in Threads \ {t} : pc'[u] = pc[u] /\ req'[u] = req[u],
             pc'[t] \notin {"hsetnx", "userids", "user"},
             pc'[t] \in SignUpSteps => req'[t].name \in Names
      PROVE  UserSide'
  <2>1. \A u \in Threads : HasUser(u)' => pc'[u] = pc[u] /\ req'[u] = req[u]
    BY <1>c DEF HasUser
  <2>2. \A u \in Threads : pc'[u] \in SignUpSteps => req'[u].name \in Names
    BY <1>b, <1>c DEF SignUpSound
  <2> QED
    BY <1>a, <1>c, <2>1, <2>2, UserSideKept
<1>d. ASSUME NEW t \in Threads, Return(t),
             UNCHANGED <<userKeys, gameKeys, drawn, answers, overlap>>
      PROVE  UserSide'
  <2>1. pc'[t] = "idle" /\ \A u \in Threads \ {t} : pc'[u] = pc[u] /\ req'[u] = req[u]
    BY <1>a, <1>d DEF Return, Go, TypeOK
  <2>2. pc' \in [Threads -> {"idle"} \cup SignUpSteps \cup GameSteps]
    BY <1>a, <1>d DEF Return, Go, TypeOK
  <2> QED
    BY <1>c, <1>d, <2>1, <2>2 DEF answers, SignUpSteps
<1>1. ASSUME NEW t \in Threads, NEW n \in Names, SignUp(t, n) PROVE UserSide'
  <2>1. /\ pc'[t] = "hget" /\ req'[t].name = n
        /\ \A u \in Threads \ {t} : pc'[u] = pc[u] /\ req'[u] = req[u]
        /\ pc' \in [Threads -> {"idle"} \cup SignUpSteps \cup GameSteps]
    BY <1>a, <1>1 DEF SignUp, Go, TypeOK, SignUpSteps
  <2> QED
    BY <1>c, <1>1, <2>1 DEF SignUp, answers
<1>2. ASSUME NEW t \in Threads, CheckName(t) PROVE UserSide'
  <2>1. CASE Return(t)
    BY <1>2, <2>1, <1>d DEF CheckName
  <2>2. CASE Go(t, "incr_user") /\ UNCHANGED req
    <3>1. /\ pc'[t] = "incr_user" /\ req'[t].name \in Names
          /\ \A u \in Threads \ {t} : pc'[u] = pc[u] /\ req'[u] = req[u]
          /\ pc' \in [Threads -> {"idle"} \cup SignUpSteps \cup GameSteps]
      BY <1>a, <1>b, <1>2, <2>2 DEF CheckName, At, Go, TypeOK, SignUpSteps, SignUpSound
    <3> QED
      BY <1>c, <1>2, <3>1 DEF CheckName, answers
  <2> QED
    BY <1>2, <2>1, <2>2 DEF CheckName
<1>3. ASSUME NEW t \in Threads, IncrUser(t) PROVE UserSide'
  <2>1. PICK x \in UserUuids \ drawn :
          /\ drawn' = drawn \cup {x}
          /\ req' = [req EXCEPT ![t].user = x, ![t].id = next_user + 1]
    BY <1>3 DEF IncrUser
  <2>2. /\ next_user' = next_user + 1 /\ next_user + 1 \in UserIds
        /\ next_user' = Cardinality(drawn' \cap UserUuids) /\ next_user \in Nat
    BY <1>a, <1>3, <2>1, OneMoreDrawn, RegistryAssumption DEF IncrUser, UserSide, UserIds
  <2>3. /\ pc'[t] = "hsetnx" /\ req'[t].user = x /\ req'[t].id = next_user + 1
        /\ req'[t].name = req[t].name
        /\ \A u \in Threads \ {t} : pc'[u] = pc[u] /\ req'[u] = req[u]
        /\ At(t, "incr_user") /\ UNCHANGED <<userids, users, ackUsers>>
    BY <1>a, <1>3, <2>1 DEF IncrUser, Go, TypeOK, answers
  <2>4. userids[next_user + 1] = Absent /\ users[x] = NoUser
    <3>1. users[x] = NoUser
      BY <1>e, <2>1 DEF UsersIndexed
    <3>2. ~(next_user + 1 <= next_user) /\ next_user + 1 \in UserIds
      BY <2>2
    <3> QED
      BY <1>e, <3>1, <3>2 DEF UsersIndexed
  <2>a. ASSUME NEW u \in Threads \ {t}, HasUser(u)'
        PROVE  /\ HasUser(u) /\ pc'[u] = pc[u] /\ req'[u] = req[u]
               /\ req'[u].user # x /\ req'[u].id # next_user + 1
    <3>1. HasUser(u) /\ pc'[u] = pc[u] /\ req'[u] = req[u]
      BY <2>3, <2>a DEF HasUser
    <3>2. req[u].user \in drawn /\ req[u].id \in 1 .. next_user
      BY <1>b, <3>1 DEF SignUpSound
    <3>3. req[u].user # x
      BY <3>2
    <3>4. req[u].id # next_user + 1
      BY <2>2, <3>2
    <3> QED
      BY <3>1, <3>3, <3>4
  <2>5. \A u \in Threads : SignUpSound(u)'
    <3> SUFFICES ASSUME NEW u \in Threads PROVE SignUpSound(u)'
      OBVIOUS
    <3>1. CASE u = t
      BY <1>b, <2>1, <2>2, <2>3, <2>4, <3>1 DEF SignUpSound, HasUser, At, SignUpSteps
    <3>2. CASE u # t
      <4>1. SignUpSound(u) /\ pc'[u] = pc[u] /\ req'[u] = req[u]
        BY <1>b, <2>3, <3>2
      <4>2. drawn \cap UserUuids \subseteq drawn' \cap UserUuids
        BY <2>1
      <4>3. 1 .. next_user \subseteq 1 .. next_user'
        BY <2>2
      <4> QED
        BY <2>3, <4>1, <4>2, <4>3 DEF SignUpSound, HasUser, At
    <3> QED
      BY <3>1, <3>2
  <2>7. \A u, v \in Threads : u # v => UsersApart(u, v)'
    <3> SUFFICES ASSUME NEW u \in Threads, NEW v \in Threads, u # v, HasUser(u)', HasUser(v)'
                 PROVE  req'[u].user # req'[v].user /\ req'[u].id # req'[v].id
      BY DEF UsersApart
    <3>1. CASE u = t
      BY <2>3, <2>a, <3>1
    <3>2. CASE v = t
      BY <2>3, <2>a, <3>2
    <3>3. CASE u # t /\ v # t
      BY <1>f, <2>a, <3>3 DEF UsersApart
    <3> QED
      BY <3>1, <3>2, <3>3
  <2>8. UsersIndexed'
    <3>1. \A i \in UserIds : i <= next_user => i <= next_user'
      BY <2>2, Counts DEF UserIds
    <3> QED
      BY <1>e, <2>1, <2>3, <3>1 DEF UsersIndexed
  <2> QED
    BY <1>a, <2>2, <2>3, <2>5, <2>7, <2>8 DEF UserSide
<1>4. ASSUME NEW t \in Threads, ReserveName(t) PROVE UserSide'
  <2>1. /\ pc'[t] = "userids" /\ At(t, "hsetnx") /\ req' = req
        /\ \A u \in Threads \ {t} : pc'[u] = pc[u]
        /\ UNCHANGED <<next_user, userids, users, drawn, ackUsers>>
    BY <1>a, <1>4 DEF ReserveName, Go, TypeOK, answers
  <2>2. \A u \in Threads : SignUpSound(u)' /\ (HasUser(u)' => HasUser(u))
    BY <1>b, <2>1 DEF SignUpSound, HasUser, At, SignUpSteps
  <2>3. \A u, v \in Threads : u # v => UsersApart(u, v)'
    BY <1>a, <2>1, <2>2 DEF UserSide, UsersApart
  <2> QED
    BY <1>a, <2>1, <2>2, <2>3 DEF UserSide, UsersIndexed
<1>5. ASSUME NEW t \in Threads, IndexUser(t) PROVE UserSide'
  <2>1. /\ pc'[t] = "user" /\ At(t, "userids") /\ req' = req
        /\ \A u \in Threads \ {t} : pc'[u] = pc[u]
        /\ userids' = [userids EXCEPT ![req[t].id] = req[t].user]
        /\ UNCHANGED <<next_user, users, drawn, ackUsers>>
    BY <1>a, <1>5 DEF IndexUser, Go, TypeOK, answers
  <2>2. /\ HasUser(t) /\ SignUpSound(t)
        /\ req[t].id \in UserIds /\ req[t].id <= next_user
        /\ req[t].user \in UserUuids
    <3>1. HasUser(t) /\ SignUpSound(t)
      BY <1>b, <2>1 DEF HasUser, At
    <3> QED
      BY <1>a, <3>1, Counts DEF SignUpSound, TypeOK, UserIds
  <2>3. /\ userids'[req[t].id] = req[t].user /\ userids[req[t].id] = Absent
        /\ \A i \in UserIds \ {req[t].id} : userids'[i] = userids[i]
    BY <1>a, <2>1, <2>2 DEF TypeOK, SignUpSound, At
  <2>4. \A u \in Threads : (HasUser(u)' => HasUser(u)) /\ HasUser(t)
    BY <2>1, <2>2 DEF HasUser
  <2>5. \A u \in Threads : SignUpSound(u)'
    <3> SUFFICES ASSUME NEW u \in Threads PROVE SignUpSound(u)'
      OBVIOUS
    <3>1. CASE u = t
      BY <1>b, <2>1, <2>2, <2>3, <3>1 DEF SignUpSound, HasUser, At, SignUpSteps
    <3>2. CASE u # t
      <4>1. HasUser(u) => req[u].id # req[t].id /\ req[u].id \in UserIds
        <5>1. HasUser(u) => req[u].id # req[t].id /\ req[u].id \in 1 .. next_user
          BY <1>b, <1>f, <2>2, <3>2 DEF UsersApart, SignUpSound
        <5>2. next_user \in Nat /\ next_user <= Cardinality(UserUuids)
          BY <1>a, Counts DEF TypeOK, UserIds
        <5> QED
          BY <5>1, <5>2, Counts DEF UserIds
      <4> QED
        BY <1>b, <2>1, <2>3, <2>4, <3>2, <4>1 DEF SignUpSound, HasUser, At
    <3> QED
      BY <3>1, <3>2
  <2>6. \A u, v \in Threads : u # v => UsersApart(u, v)'
    BY <1>a, <2>1, <2>4 DEF UserSide, UsersApart
  <2>7. UsersIndexed'
    <3>1. \A u \in UserUuids : users[u] # NoUser =>
             users[u].id \in UserIds /\ users[u].id # req[t].id
      <4> SUFFICES ASSUME NEW u \in UserUuids, users[u] # NoUser
                   PROVE  users[u].id \in UserIds /\ users[u].id # req[t].id
        OBVIOUS
      <4>1. users[u].id \in UserIds
        BY <1>a DEF TypeOK
      <4>2. userids[users[u].id] = u /\ u # Absent
        BY <1>a, RegistryAssumption DEF UserSide, UsersIndexed
      <4> QED
        BY <4>1, <4>2, <2>3
    <3> QED
      BY <1>a, <2>1, <2>2, <2>3, <3>1 DEF UserSide, UsersIndexed
  <2> QED
    BY <1>a, <2>1, <2>5, <2>6, <2>7 DEF UserSide
<1>6. ASSUME NEW t \in Threads, WriteUser(t) PROVE UserSide'
  <2> DEFINE new == [id |-> req[t].id, name |-> req[t].name]
  <2>1. /\ pc'[t] = "idle" /\ At(t, "user")
        /\ \A u \in Threads \ {t} : pc'[u] = pc[u] /\ req'[u] = req[u]
        /\ users' = [users EXCEPT ![req[t].user] = new]
        /\ ackUsers' = ackUsers \cup {[user |-> req[t].user, id |-> req[t].id, name |-> req[t].name]}
        /\ UNCHANGED <<next_user, userids, drawn>>
    BY <1>a, <1>6 DEF WriteUser, Return, Go, TypeOK
  <2>2. /\ HasUser(t) /\ SignUpSound(t)
        /\ req[t].id \in UserIds /\ userids[req[t].id] = req[t].user
        /\ req[t].user \in UserUuids \cap drawn /\ users[req[t].user] = NoUser
    <3>1. HasUser(t) /\ SignUpSound(t)
      BY <1>b, <2>1 DEF HasUser, At
    <3> QED
      BY <1>a, <2>1, <3>1, Counts DEF SignUpSound, TypeOK, UserIds
  <2>3. /\ users'[req[t].user] = new
        /\ \A u \in UserUuids \ {req[t].user} : users'[u] = users[u]
    BY <1>a, <2>1, <2>2 DEF TypeOK
  <2>4. \A u \in Threads : HasUser(u)' => HasUser(u) /\ u # t
    BY <2>1 DEF HasUser
  <2>5. \A u \in Threads : SignUpSound(u)'
    <3> SUFFICES ASSUME NEW u \in Threads PROVE SignUpSound(u)'
      OBVIOUS
    <3>1. CASE u = t
      BY <2>1, <3>1 DEF SignUpSound, HasUser, SignUpSteps
    <3>2. CASE u # t
      <4>1. HasUser(u) => req[u].user # req[t].user
        BY <1>a, <2>2, <3>2 DEF UserSide, UsersApart
      <4> QED
        BY <1>b, <2>1, <2>3, <3>2, <4>1 DEF SignUpSound, HasUser, At
    <3> QED
      BY <3>1, <3>2
  <2>6. \A u, v \in Threads : u # v => UsersApart(u, v)'
    BY <1>a, <2>1, <2>4 DEF UserSide, UsersApart
  <2>7. UsersIndexed'
    <3>1. \A i \in UserIds : userids'[i] # Absent => i <= next_user'
      BY <1>e, <2>1 DEF UsersIndexed
    <3>2. ASSUME NEW u \in UserUuids, users'[u] # NoUser
          PROVE  u \in drawn' /\ userids'[users'[u].id] = u
      <4>1. CASE u = req[t].user
        BY <2>1, <2>2, <2>3, <4>1
      <4>2. CASE u # req[t].user
        BY <1>e, <2>1, <2>3, <3>2, <4>2 DEF UsersIndexed
      <4> QED
        BY <4>1, <4>2
    <3> QED
      BY <3>1, <3>2 DEF UsersIndexed
  <2>8. \A a \in ackUsers' : users'[a.user] = [id |-> a.id, name |-> a.name]
    <3> SUFFICES ASSUME NEW a \in ackUsers'
                 PROVE  users'[a.user] = [id |-> a.id, name |-> a.name]
      OBVIOUS
    <3>1. CASE a \in ackUsers
      BY <1>e, <1>g, <2>2, <2>3, <3>1
    <3>2. CASE a = [user |-> req[t].user, id |-> req[t].id, name |-> req[t].name]
      BY <2>3, <3>2
    <3> QED
      BY <2>1, <3>1, <3>2
  <2> QED
    BY <1>a, <2>1, <2>5, <2>6, <2>7, <2>8 DEF UserSide
<1>7. ASSUME NEW t \in Threads, NEW v \in Owners, StartGame(t, v) PROVE UserSide'
  <2>1. /\ pc'[t] = "hmget"
        /\ \A u \in Threads \ {t} : pc'[u] = pc[u] /\ req'[u] = req[u]
        /\ pc' \in [Threads -> {"idle"} \cup SignUpSteps \cup GameSteps]
    BY <1>a, <1>7 DEF StartGame, Go, TypeOK, GameSteps
  <2> QED
    BY <1>c, <1>7, <2>1 DEF StartGame, answers, SignUpSteps
<1>8. ASSUME NEW t \in Threads, FindUser(t) PROVE UserSide'
  <2>1. CASE Return(t)
    BY <1>8, <2>1, <1>d DEF FindUser
  <2>2. CASE Go(t, "incr_game") /\ req' = [req EXCEPT ![t].id = IdOf(req[t].user)]
    <3>1. /\ pc'[t] = "incr_game"
          /\ \A u \in Threads \ {t} : pc'[u] = pc[u] /\ req'[u] = req[u]
          /\ pc' \in [Threads -> {"idle"} \cup SignUpSteps \cup GameSteps]
      BY <1>a, <2>2 DEF Go, TypeOK, GameSteps
    <3> QED
      BY <1>c, <1>8, <3>1 DEF FindUser, answers, SignUpSteps
  <2> QED
    BY <1>8, <2>1, <2>2 DEF FindUser
<1>9. ASSUME NEW t \in Threads, IncrGame(t) PROVE UserSide'
  <2>1. PICK g \in GameUuids \ drawn :
          /\ drawn' = drawn \cup {g}
          /\ req' = [req EXCEPT ![t].game = g, ![t].gid = next_game + 1]
    BY <1>9 DEF IncrGame
  <2>2. drawn' \cap UserUuids = drawn \cap UserUuids
    BY <2>1, OtherKind, RegistryAssumption
  <2>3. /\ pc'[t] = "game"
        /\ \A u \in Threads \ {t} : pc'[u] = pc[u] /\ req'[u] = req[u]
        /\ pc' \in [Threads -> {"idle"} \cup SignUpSteps \cup GameSteps]
    BY <1>a, <1>9, <2>1 DEF IncrGame, Go, TypeOK, GameSteps
  <2> QED
    BY <1>c, <1>9, <2>2, <2>3 DEF IncrGame, answers, SignUpSteps
<1>10. ASSUME NEW t \in Threads,
              WriteGame(t) \/ IndexGame(t) \/ PushGame(t) \/ Measure(t) \/ Trim(t) \/ Offer(t)
       PROVE  UserSide'
  <2>1. /\ pc'[t] \in {"idle", "gameids", "lpush", "llen", "rpop", "offer"}
        /\ \A u \in Threads \ {t} : pc'[u] = pc[u] /\ req'[u] = req[u]
        /\ pc' \in [Threads -> {"idle"} \cup SignUpSteps \cup GameSteps]
    BY <1>a, <1>10
    DEF WriteGame, IndexGame, PushGame, Measure, Trim, Offer, Return, Go, TypeOK, GameSteps
  <2>2. UNCHANGED <<userKeys, ackUsers, drawn>>
    BY <1>10 DEF WriteGame, IndexGame, PushGame, Measure, Trim, Offer, answers
  <2> QED
    BY <1>c, <2>1, <2>2 DEF SignUpSteps
<1>11. ASSUME NEW t \in Threads, CommandRefused(t) PROVE UserSide'
  BY <1>11, <1>d DEF CommandRefused
<1>12. CASE Ended
  <2>1. \A t \in Threads : pc'[t] = "idle"
    BY <1>12 DEF Ended
  <2>2. UNCHANGED <<userKeys, ackUsers, drawn>>
    BY <1>12 DEF Ended, answers
  <2> QED
    BY <1>a, <2>1, <2>2, UserSideKept DEF HasUser, SignUpSteps
<1>13. CASE UNCHANGED vars
  <2>1. UNCHANGED <<userKeys, ackUsers, drawn, pc, req>>
    BY <1>13 DEF vars, answers
  <2> QED
    BY <1>a, <1>b, <2>1, UserSideKept DEF SignUpSound
<1> QED
  BY <1>1, <1>2, <1>3, <1>4, <1>5, <1>6, <1>7, <1>8, <1>9, <1>10, <1>11, <1>12, <1>13
  DEF AnyStep, Write, NewUser, NewGame
-----------------------------------------------------------------------------
(* The games' side.  IndexSound in parts that read the keys directly.      *)

IdsFound == \A i \in GameIds : gameids[i] # Absent => games[gameids[i]].id = i
OwnListed ==
  \A u \in Owners : \A k \in DOMAIN history[u] :
    gameids[history[u][k]] # Absent /\ named[gameids[history[u][k]]] = u
OnceListed ==
  \A u \in Owners : \A k, l \in DOMAIN history[u] : k # l => history[u][k] # history[u][l]
AnswersFound == \A a \in ackGames : gameids[a.id] = a.game /\ games[a.game].id = a.id

(* What IndexSound says of the keys.                                       *)
LEMMA IndexSoundParts ==
  ASSUME IndexSound
  PROVE  IdsFound /\ OwnListed /\ OnceListed /\ AnswersFound
<1>1. ASSUME NEW i \in GameIds, gameids[i] # Absent
      PROVE  FindGameById(i) = games[gameids[i]]
  BY <1>1 DEF FindGameById
<1> QED
  BY <1>1 DEF IndexSound, IdsFound, OwnListed, OnceListed, AnswersFound

(* The parts, after a step, give IndexSound back.                          *)
LEMMA IndexSoundFromParts ==
  ASSUME IdsFound', OwnListed', OnceListed', AnswersFound'
  PROVE  IndexSound'
<1>1. ASSUME NEW i \in GameIds, gameids'[i] # Absent
      PROVE  FindGameById(i)' = games'[gameids'[i]]
  BY <1>1 DEF FindGameById
<1> QED
  BY <1>1 DEF IndexSound, IdsFound, OwnListed, OnceListed, AnswersFound

(* Every action keeps the games' side.                                     *)
LEMMA GameStep == IInv /\ TypeOK' /\ [AnyStep]_vars => GameSide'
<1> SUFFICES ASSUME IInv, TypeOK', [AnyStep]_vars PROVE GameSide'
  OBVIOUS
<1> DEFINE Steps == {"idle"} \cup SignUpSteps \cup GameSteps
<1>a. TypeOK /\ UserSide /\ GameSide
  BY DEF IInv, RegistryInv
<1>b. /\ \A t \in Threads : NewGameSound(t)
      /\ \A t \in Threads : pc[t] \in Steps
      /\ \A t, u \in Threads : t # u => GamesApart(t, u)
      /\ GamesOwned
  BY <1>a DEF GameSide, TypeOK
<1>e. IdsFound /\ OwnListed /\ OnceListed /\ AnswersFound
  BY <1>a, IndexSoundParts DEF GameSide
<1>f. /\ 0 \notin GameIds /\ 0 \notin UserIds
      /\ next_game \in Nat /\ next_game <= Cardinality(GameUuids)
  BY <1>a, Counts DEF GameIds, UserIds, TypeOK
<1>g. /\ \A u \in Owners : \A k \in DOMAIN history[u] : history[u][k] \in GameIds
      /\ \A a \in ackGames : a.game \in GameUuids /\ a.id \in GameIds
  <2>1. \A u \in Owners : history[u] \in Seq(GameIds)
    BY <1>a DEF TypeOK
  <2>2. ackGames \subseteq [user : Owners, game : GameUuids, id : GameIds]
    BY <1>a DEF TypeOK
  <2> QED
    BY <2>1, <2>2
(* An action that writes no key of a game moves only one thread.           *)
<1>c. ASSUME NEW t \in Threads, UNCHANGED <<gameKeys, ackGames>>,
             drawn' \cap GameUuids = drawn \cap GameUuids,
             UNCHANGED named, \A u \in Owners : IdOf(u) # 0 => IdOf(u)' = IdOf(u),
             \A u \in Threads \ {t} : pc'[u] = pc[u] /\ req'[u] = req[u],
             ~HasOwner(t)',
             pc'[t] \in GameSteps => req'[t].user \in Owners
      PROVE  GameSide'
  <2>1. \A u \in Threads : HasOwner(u)' => pc'[u] = pc[u] /\ req'[u] = req[u]
    BY <1>c
  <2>2. \A u \in Threads : pc'[u] \in GameSteps => req'[u].user \in Owners
    BY <1>b, <1>c DEF NewGameSound
  <2> QED
    BY <1>a, <1>c, <2>1, <2>2, GameSideKept
<1>d. ASSUME NEW t \in Threads, Return(t),
             UNCHANGED <<userKeys, gameKeys, drawn, answers, overlap>>
      PROVE  GameSide'
  <2>1. pc'[t] = "idle" /\ \A u \in Threads \ {t} : pc'[u] = pc[u] /\ req'[u] = req[u]
    BY <1>a, <1>d DEF Return, Go, TypeOK
  <2> QED
    BY <1>c, <1>d, <2>1 DEF answers, userKeys, gameKeys, IdOf, HasOwner, HasGame, At, GameSteps
(* What a thread with a game knows.                                        *)
<1>m. ASSUME NEW t \in Threads, HasGame(t)
      PROVE  /\ req[t].user \in Owners
             /\ req[t].game \in GameUuids \cap drawn
             /\ req[t].gid \in GameIds /\ req[t].gid <= next_game
             /\ req[t].id = IdOf(req[t].user) /\ req[t].id # 0
             /\ req[t].user \in GameUuids => req[t].id < req[t].gid
             /\ At(t, "game") => games[req[t].game] = NoGame
             /\ ~At(t, "game") => /\ games[req[t].game] = [id |-> req[t].gid, userid |-> req[t].id]
                                  /\ named[req[t].game] = req[t].user
             /\ gameids[req[t].gid] =
                  IF pc[t] \in {"game", "gameids"} THEN Absent ELSE req[t].game
             /\ \A u \in Threads \ {t} : HasGame(u) =>
                  req[u].game # req[t].game /\ req[u].gid # req[t].gid
  <2>1. NewGameSound(t) /\ HasOwner(t) /\ pc[t] \in GameSteps
    BY <1>b, <1>m DEF HasGame, HasOwner, GameSteps
  <2>2. /\ req[t].user \in Owners
        /\ req[t].id = IdOf(req[t].user) /\ req[t].id # 0
        /\ req[t].user \in GameUuids => req[t].id < req[t].gid
        /\ req[t].game \in GameUuids \cap drawn /\ req[t].gid \in 1 .. next_game
    BY <1>m, <2>1 DEF NewGameSound
  <2>3. req[t].gid \in GameIds /\ req[t].gid <= next_game
    BY <1>f, <2>2, Counts DEF GameIds
  <2>4. \A u \in Threads \ {t} : HasGame(u) =>
           req[u].game # req[t].game /\ req[u].gid # req[t].gid
    BY <1>b, <1>m DEF GamesApart
  <2>5. /\ At(t, "game") => games[req[t].game] = NoGame
        /\ ~At(t, "game") => /\ games[req[t].game] = [id |-> req[t].gid, userid |-> req[t].id]
                             /\ named[req[t].game] = req[t].user
        /\ gameids[req[t].gid] =
             IF pc[t] \in {"game", "gameids"} THEN Absent ELSE req[t].game
    BY <1>m, <2>1 DEF NewGameSound
  <2> QED
    BY <2>2, <2>3, <2>4, <2>5
(* A thread that goes on with its game: only what it writes is left.       *)
<1>n. ASSUME NEW t \in Threads, HasGame(t), UNCHANGED <<next_game, req, drawn, ackGames>>,
             \A u \in Threads \ {t} : pc'[u] = pc[u],
             pc'[t] \in {"gameids", "lpush", "llen", "rpop", "offer"},
             \A u \in Threads : NewGameSound(u)',
             GamesOwned', IdsFound', OwnListed', OnceListed', AnswersFound'
      PROVE  GameSide'
  <2>1. next_game' = Cardinality(drawn' \cap GameUuids)
    BY <1>a, <1>n DEF GameSide
  <2>2. \A u \in Threads : HasGame(u)' => HasGame(u)
    BY <1>n DEF HasGame
  <2>3. \A u, v \in Threads : u # v => GamesApart(u, v)'
    BY <1>b, <1>n, <2>2 DEF GamesApart
  <2>4. IndexSound'
    BY <1>n, IndexSoundFromParts
  <2> QED
    BY <1>n, <2>1, <2>3, <2>4 DEF GameSide
<1>1. ASSUME NEW t \in Threads, NEW n \in Names, SignUp(t, n) PROVE GameSide'
  <2>1. pc'[t] = "hget" /\ \A u \in Threads \ {t} : pc'[u] = pc[u] /\ req'[u] = req[u]
    BY <1>a, <1>1 DEF SignUp, Go, TypeOK
  <2> QED
    BY <1>c, <1>1, <2>1
    DEF SignUp, answers, userKeys, gameKeys, IdOf, HasOwner, HasGame, At, GameSteps
<1>2. ASSUME NEW t \in Threads, CheckName(t) PROVE GameSide'
  <2>1. CASE Return(t)
    BY <1>2, <2>1, <1>d DEF CheckName
  <2>2. CASE Go(t, "incr_user") /\ UNCHANGED req
    <3>1. pc'[t] = "incr_user" /\ \A u \in Threads \ {t} : pc'[u] = pc[u] /\ req'[u] = req[u]
      BY <1>a, <2>2 DEF Go, TypeOK
    <3> QED
      BY <1>c, <1>2, <3>1
      DEF CheckName, answers, userKeys, gameKeys, IdOf, HasOwner, HasGame, At, GameSteps
  <2> QED
    BY <1>2, <2>1, <2>2 DEF CheckName
<1>3. ASSUME NEW t \in Threads, IncrUser(t) PROVE GameSide'
  <2>1. PICK x \in UserUuids \ drawn :
          /\ drawn' = drawn \cup {x}
          /\ req' = [req EXCEPT ![t].user = x, ![t].id = next_user + 1]
    BY <1>3 DEF IncrUser
  <2>2. drawn' \cap GameUuids = drawn \cap GameUuids
    BY <2>1, RegistryAssumption
  <2>3. pc'[t] = "hsetnx" /\ \A u \in Threads \ {t} : pc'[u] = pc[u] /\ req'[u] = req[u]
    BY <1>a, <1>3, <2>1 DEF IncrUser, Go, TypeOK
  <2> QED
    BY <1>c, <1>3, <2>2, <2>3
    DEF IncrUser, answers, gameKeys, IdOf, HasOwner, HasGame, At, GameSteps
<1>4. ASSUME NEW t \in Threads, ReserveName(t) \/ IndexUser(t) PROVE GameSide'
  <2>1. /\ pc'[t] \in {"userids", "user"}
        /\ \A u \in Threads \ {t} : pc'[u] = pc[u] /\ req'[u] = req[u]
    BY <1>a, <1>4 DEF ReserveName, IndexUser, Go, TypeOK
  <2>2. UNCHANGED <<gameKeys, ackGames, named, drawn, users>>
    BY <1>4 DEF ReserveName, IndexUser, answers
  <2> QED
    BY <1>c, <2>1, <2>2 DEF gameKeys, IdOf, HasOwner, HasGame, At, GameSteps
<1>6. ASSUME NEW t \in Threads, WriteUser(t) PROVE GameSide'
  <2>1. /\ pc'[t] = "idle" /\ At(t, "user")
        /\ \A u \in Threads \ {t} : pc'[u] = pc[u] /\ req'[u] = req[u]
        /\ UNCHANGED <<gameKeys, ackGames, named, drawn>>
        /\ users' = [users EXCEPT ![req[t].user] = [id |-> req[t].id, name |-> req[t].name]]
    BY <1>a, <1>6 DEF WriteUser, Return, Go, TypeOK
  <2>2. users[req[t].user] = NoUser
    BY <1>a, <2>1 DEF UserSide, SignUpSound, HasUser, At
  <2>3. \A u \in Owners : IdOf(u) # 0 => IdOf(u)' = IdOf(u)
    BY <1>a, <2>1, <2>2 DEF TypeOK, IdOf, NoUser, gameKeys
  <2> QED
    BY <1>c, <2>1, <2>3 DEF HasOwner, HasGame, At, GameSteps
<1>7. ASSUME NEW t \in Threads, NEW v \in Owners, StartGame(t, v) PROVE GameSide'
  <2>1. /\ pc'[t] = "hmget" /\ req'[t].user = v
        /\ \A u \in Threads \ {t} : pc'[u] = pc[u] /\ req'[u] = req[u]
    BY <1>a, <1>7 DEF StartGame, Go, TypeOK
  <2> QED
    BY <1>c, <1>7, <2>1 DEF StartGame, answers, userKeys, gameKeys, IdOf, HasOwner, HasGame, At
<1>8. ASSUME NEW t \in Threads, FindUser(t) PROVE GameSide'
  <2>1. CASE Return(t)
    BY <1>8, <2>1, <1>d DEF FindUser
  <2>2. CASE /\ IdOf(req[t].user) # 0 /\ Go(t, "incr_game")
             /\ req' = [req EXCEPT ![t].id = IdOf(req[t].user)]
    <3>1. /\ pc'[t] = "incr_game" /\ At(t, "hmget")
          /\ req'[t].user = req[t].user /\ req'[t].id = IdOf(req[t].user)
          /\ \A u \in Threads \ {t} : pc'[u] = pc[u] /\ req'[u] = req[u]
          /\ UNCHANGED <<next_game, gameids, games, history, users, drawn, ackGames, named>>
      BY <1>a, <1>8, <2>2 DEF FindUser, Go, TypeOK, userKeys, gameKeys, answers
    <3>2. NewGameSound(t)'
      <4>1. (IdOf(req[t].user))' = IdOf(req[t].user)
        BY <3>1 DEF IdOf
      <4>2. req'[t].user \in Owners
        BY <1>b, <3>1 DEF NewGameSound, At, GameSteps
      <4> QED
        BY <2>2, <3>1, <4>1, <4>2 DEF NewGameSound, HasOwner, HasGame, At
    <3>3. \A u \in Threads : NewGameSound(u)'
      <4> SUFFICES ASSUME NEW u \in Threads, u # t PROVE NewGameSound(u)'
        BY <3>2
      <4> QED
        BY <1>b, <3>1 DEF NewGameSound, IdOf, HasOwner, HasGame, At
    <3>4. \A u \in Threads : HasGame(u)' => HasGame(u) /\ req'[u] = req[u]
      BY <3>1 DEF HasGame
    <3>5. \A u, v \in Threads : u # v => GamesApart(u, v)'
      BY <1>b, <3>4 DEF GamesApart
    <3>6. GamesOwned' /\ IdsFound' /\ OwnListed' /\ OnceListed' /\ AnswersFound'
      BY <1>b, <1>e, <3>1 DEF GamesOwned, IdOf, IdsFound, OwnListed, OnceListed, AnswersFound
    <3>7. next_game' = Cardinality(drawn' \cap GameUuids)
      BY <1>a, <3>1 DEF GameSide
    <3> QED
      BY <3>3, <3>5, <3>6, <3>7, IndexSoundFromParts DEF GameSide
  <2> QED
    BY <1>8, <2>1, <2>2 DEF FindUser
<1>9. ASSUME NEW t \in Threads, IncrGame(t) PROVE GameSide'
  <2>1. PICK x \in GameUuids \ drawn :
          /\ drawn' = drawn \cup {x}
          /\ req' = [req EXCEPT ![t].game = x, ![t].gid = next_game + 1]
    BY <1>9 DEF IncrGame
  <2>2. /\ next_game' = next_game + 1 /\ next_game + 1 \in GameIds
        /\ next_game' = Cardinality(drawn' \cap GameUuids)
    BY <1>a, <1>9, <2>1, OneMoreDrawn, RegistryAssumption DEF IncrGame, GameSide, GameIds
  <2>3. /\ pc'[t] = "game" /\ req'[t].game = x /\ req'[t].gid = next_game + 1
        /\ req'[t].user = req[t].user /\ req'[t].id = req[t].id
        /\ \A u \in Threads \ {t} : pc'[u] = pc[u] /\ req'[u] = req[u]
        /\ At(t, "incr_game")
        /\ UNCHANGED <<gameids, games, history, users, ackGames, named>>
    BY <1>a, <1>9, <2>1 DEF IncrGame, Go, TypeOK, answers, userKeys
  <2>4. gameids[next_game + 1] = Absent /\ games[x] = NoGame
    <3>1. games[x] = NoGame
      BY <1>b, <2>1 DEF GamesOwned
    <3>2. ~(next_game + 1 <= next_game)
      BY <1>f
    <3> QED
      BY <1>b, <2>2, <3>1, <3>2 DEF GamesOwned
  <2>5. ASSUME NEW u \in Threads \ {t}, HasGame(u)'
        PROVE  /\ HasGame(u) /\ pc'[u] = pc[u] /\ req'[u] = req[u]
               /\ req'[u].game # x /\ req'[u].gid # next_game + 1
    <3>1. HasGame(u) /\ pc'[u] = pc[u] /\ req'[u] = req[u]
      BY <2>3, <2>5 DEF HasGame
    <3>2. req[u].game \in drawn /\ req[u].gid <= next_game /\ req[u].gid \in GameIds
      BY <1>m, <3>1
    <3>3. req[u].gid # next_game + 1
      BY <1>f, <3>2
    <3> QED
      BY <2>1, <3>1, <3>2, <3>3
  <2>6. \A u \in Threads : NewGameSound(u)'
    <3> SUFFICES ASSUME NEW u \in Threads PROVE NewGameSound(u)'
      OBVIOUS
    <3>1. CASE u = t
      <4>1. /\ req[t].user \in Owners
            /\ req[t].id = IdOf(req[t].user) /\ req[t].id # 0
        BY <1>b, <2>3 DEF NewGameSound, HasOwner, At, GameSteps
      <4>2. x \in drawn' \cap GameUuids /\ next_game + 1 \in 1 .. next_game'
        BY <1>f, <2>1, <2>2
      <4>3. req[t].user \in GameUuids => req[t].id < next_game + 1
        <5>1. SUFFICES ASSUME req[t].user \in GameUuids PROVE req[t].id < next_game + 1
          OBVIOUS
        <5>2. req[t].id = games[req[t].user].id
          BY <4>1, <5>1, RegistryAssumption DEF IdOf
        <5>3. games[req[t].user] # NoGame
          BY <4>1, <5>2 DEF NoGame
        <5>4. games[req[t].user].id <= next_game /\ games[req[t].user].id \in GameIds
          BY <1>a, <1>b, <5>1, <5>3 DEF GamesOwned, TypeOK
        <5> QED
          BY <1>f, <5>2, <5>4 DEF GameIds
      <4> QED
        BY <2>3, <2>4, <3>1, <4>1, <4>2, <4>3 DEF NewGameSound, IdOf, HasOwner, HasGame, At
    <3>2. CASE u # t
      <4>1. NewGameSound(u) /\ pc'[u] = pc[u] /\ req'[u] = req[u]
        BY <1>b, <2>3, <3>2
      <4>2. drawn \cap GameUuids \subseteq drawn' \cap GameUuids
        BY <2>1
      <4>3. 1 .. next_game \subseteq 1 .. next_game'
        BY <1>f, <2>2
      <4> QED
        BY <2>3, <4>1, <4>2, <4>3 DEF NewGameSound, IdOf, HasOwner, HasGame, At
    <3> QED
      BY <3>1, <3>2
  <2>7. \A u, v \in Threads : u # v => GamesApart(u, v)'
    <3> SUFFICES ASSUME NEW u \in Threads, NEW v \in Threads, u # v, HasGame(u)', HasGame(v)'
                 PROVE  req'[u].game # req'[v].game /\ req'[u].gid # req'[v].gid
      BY DEF GamesApart
    <3>1. CASE u = t
      BY <2>3, <2>5, <3>1
    <3>2. CASE v = t
      BY <2>3, <2>5, <3>2
    <3>3. CASE u # t /\ v # t
      BY <1>b, <2>5, <3>3 DEF GamesApart
    <3> QED
      BY <3>1, <3>2, <3>3
  <2>8. GamesOwned'
    <3>1. \A i \in GameIds : i <= next_game => i <= next_game'
      BY <1>f, <2>2, Counts DEF GameIds
    <3>2. \A g \in GameUuids : games[g] # NoGame => games[g].id \in GameIds
      BY <1>a DEF TypeOK
    <3> QED
      BY <1>b, <2>1, <2>3, <3>1, <3>2 DEF GamesOwned, IdOf
  <2>9. IdsFound' /\ OwnListed' /\ OnceListed' /\ AnswersFound'
    BY <1>e, <2>3 DEF IdsFound, OwnListed, OnceListed, AnswersFound
  <2> QED
    BY <2>2, <2>6, <2>7, <2>8, <2>9, IndexSoundFromParts DEF GameSide
(* What thread t writes is seen by no other thread.                        *)
<1>10. ASSUME NEW t \in Threads, WriteGame(t) PROVE GameSide'
  <2> DEFINE new == [id |-> req[t].gid, userid |-> req[t].id]
  <2>1. /\ pc'[t] = "gameids" /\ At(t, "game") /\ HasGame(t) /\ pc[t] = "game"
        /\ \A u \in Threads \ {t} : pc'[u] = pc[u]
        /\ games' = [games EXCEPT ![req[t].game] = new]
        /\ named' = [named EXCEPT ![req[t].game] = req[t].user]
        /\ UNCHANGED <<next_game, gameids, history, users, req, drawn, ackGames>>
    BY <1>a, <1>10 DEF WriteGame, Go, TypeOK, userKeys, HasGame, At
  <2>2. /\ games[req[t].game] = NoGame /\ games'[req[t].game] = new
        /\ named'[req[t].game] = req[t].user
        /\ \A g \in GameUuids \ {req[t].game} : games'[g] = games[g] /\ named'[g] = named[g]
    BY <1>a, <1>m, <2>1 DEF TypeOK
  <2>3. /\ \A g \in GameUuids : games[g] # NoGame => games'[g] = games[g] /\ named'[g] = named[g]
        /\ NoGame.id = 0
    BY <2>2 DEF NoGame
  <2>4. ASSUME NEW u \in Owners, IdOf(u) # 0 PROVE IdOf(u)' = IdOf(u)
    BY <2>1, <2>3, <2>4 DEF IdOf, Owners
  <2>5. \A u \in Threads : NewGameSound(u)'
    <3> SUFFICES ASSUME NEW u \in Threads PROVE NewGameSound(u)'
      OBVIOUS
    <3>a. HasOwner(u) => (IdOf(req[u].user))' = IdOf(req[u].user)
      <4>1. SUFFICES ASSUME HasOwner(u) PROVE (IdOf(req[u].user))' = IdOf(req[u].user)
        OBVIOUS
      <4>2. PICK w \in Owners : w = req[u].user /\ IdOf(w) # 0
        BY <1>b, <4>1 DEF NewGameSound, HasOwner, HasGame, At, GameSteps
      <4>3. IdOf(w)' = IdOf(w)
        BY <2>4, <4>2
      <4> QED
        BY <2>1, <4>2, <4>3 DEF IdOf
    <3>1. CASE u = t
      BY <1>b, <2>1, <2>2, <3>1, <3>a DEF NewGameSound, HasOwner, HasGame, At, GameSteps
    <3>2. CASE u # t
      <4>1. HasGame(u) => /\ games'[req[u].game] = games[req[u].game]
                          /\ named'[req[u].game] = named[req[u].game]
        BY <1>m, <2>1, <2>2, <3>2
      <4> QED
        BY <1>b, <2>1, <3>2, <3>a, <4>1 DEF NewGameSound, HasOwner, HasGame, At
    <3> QED
      BY <3>1, <3>2
  <2>6. GamesOwned'
    <3>1. /\ req[t].game \in drawn /\ req[t].user \in Owners
          /\ req[t].gid <= next_game /\ req[t].gid # 0
          /\ req[t].id = IdOf(req[t].user) /\ req[t].id # 0
          /\ req[t].user \in GameUuids => req[t].id < req[t].gid
      BY <1>f, <1>m, <2>1
    <3>2. \A i \in GameIds : gameids'[i] # Absent => i <= next_game'
      BY <1>b, <2>1 DEF GamesOwned
    <3>3. ASSUME NEW g \in GameUuids, games'[g] = NoGame PROVE named'[g] = Absent
      <4>1. g # req[t].game
        BY <2>2, <2>3, <3>1, <3>3
      <4> QED
        BY <1>b, <2>2, <3>3, <4>1 DEF GamesOwned
    <3>4. ASSUME NEW g \in GameUuids, games'[g] # NoGame
          PROVE  /\ g \in drawn' /\ games'[g].id <= next_game' /\ named'[g] \in Owners
                 /\ games'[g].userid = (IdOf(named[g]))' /\ games'[g].userid # 0
                 /\ named'[g] \in GameUuids => games'[g].userid < games'[g].id
      <4>1. PICK w \in Owners : w = named'[g] /\ IdOf(w) = games'[g].userid
        <5>1. CASE g = req[t].game
          BY <2>2, <3>1, <5>1
        <5>2. CASE g # req[t].game
          BY <1>b, <2>2, <3>4, <5>2 DEF GamesOwned
        <5> QED
          BY <5>1, <5>2
      <4>2. /\ g \in drawn /\ games'[g].id <= next_game /\ games'[g].userid # 0
            /\ named'[g] \in GameUuids => games'[g].userid < games'[g].id
        <5>1. CASE g = req[t].game
          BY <2>2, <3>1, <5>1
        <5>2. CASE g # req[t].game
          BY <1>b, <2>2, <3>4, <5>2 DEF GamesOwned
        <5> QED
          BY <5>1, <5>2
      <4>3. IdOf(w)' = IdOf(w)
        BY <2>4, <4>1, <4>2
      <4>4. (IdOf(named[g]))' = IdOf(w)'
        BY <4>1 DEF IdOf
      <4> QED
        BY <2>1, <4>1, <4>2, <4>3, <4>4
    <3> QED
      BY <3>2, <3>3, <3>4 DEF GamesOwned
  <2>7. IdsFound' /\ OwnListed' /\ OnceListed' /\ AnswersFound'
    <3>1. ASSUME NEW i \in GameIds, gameids[i] # Absent
          PROVE  /\ gameids[i] \in GameUuids /\ games[gameids[i]] # NoGame
      BY <1>a, <1>e, <1>f, <2>3, <3>1 DEF IdsFound, TypeOK
    <3>2. IdsFound'
      BY <1>e, <2>1, <2>3, <3>1 DEF IdsFound
    <3>3. OwnListed'
      BY <1>e, <1>g, <2>1, <2>3, <3>1 DEF OwnListed
    <3>4. AnswersFound'
      BY <1>e, <1>f, <1>g, <2>1, <2>3 DEF AnswersFound
    <3> QED
      BY <1>e, <2>1, <3>2, <3>3, <3>4 DEF OnceListed
  <2> QED
    BY <1>n, <2>1, <2>5, <2>6, <2>7
<1>11. ASSUME NEW t \in Threads, IndexGame(t) PROVE GameSide'
  <2>1. /\ pc'[t] = "lpush" /\ At(t, "gameids") /\ HasGame(t) /\ pc[t] = "gameids"
        /\ \A u \in Threads \ {t} : pc'[u] = pc[u]
        /\ gameids' = [gameids EXCEPT ![req[t].gid] = req[t].game]
        /\ UNCHANGED <<next_game, games, history, users, req, drawn, ackGames, named>>
    BY <1>a, <1>11 DEF IndexGame, Go, TypeOK, answers, userKeys, HasGame, At
  <2>2. /\ gameids[req[t].gid] = Absent /\ gameids'[req[t].gid] = req[t].game
        /\ \A i \in GameIds \ {req[t].gid} : gameids'[i] = gameids[i]
    BY <1>a, <1>m, <2>1 DEF TypeOK
  <2>3. \A i \in GameIds : gameids[i] # Absent => gameids'[i] = gameids[i]
    BY <2>2
  <2>4. games[req[t].game].id = req[t].gid
    <3>1. games[req[t].game] = [id |-> req[t].gid, userid |-> req[t].id]
      BY <1>m, <2>1 DEF At
    <3> QED
      BY <3>1
  <2>5. \A u \in Threads : NewGameSound(u)'
    <3> SUFFICES ASSUME NEW u \in Threads PROVE NewGameSound(u)'
      OBVIOUS
    <3>1. CASE u = t
      <4>1. \A v \in Owners : \A k \in DOMAIN history[v] : history[v][k] # req[t].gid
        BY <1>e, <2>2 DEF OwnListed
      <4> QED
        BY <1>b, <2>1, <2>2, <3>1, <4>1 DEF NewGameSound, IdOf, HasOwner, HasGame, At, GameSteps
    <3>2. CASE u # t
      <4>1. HasGame(u) => gameids'[req[u].gid] = gameids[req[u].gid]
        BY <1>m, <2>1, <2>2, <3>2
      <4> QED
        BY <1>b, <2>1, <3>2, <4>1 DEF NewGameSound, IdOf, HasOwner, HasGame, At
    <3> QED
      BY <3>1, <3>2
  <2>6. GamesOwned'
    BY <1>b, <1>m, <2>1, <2>2 DEF GamesOwned, IdOf
  <2>7. IdsFound' /\ OwnListed' /\ OnceListed' /\ AnswersFound'
    <3>1. IdsFound'
      BY <1>e, <2>1, <2>2, <2>4 DEF IdsFound
    <3>2. OwnListed'
      BY <1>e, <1>g, <2>1, <2>3 DEF OwnListed
    <3>3. AnswersFound'
      <4>1. \A a \in ackGames : a.game # Absent
        BY <1>g, RegistryAssumption
      <4> QED
        BY <1>e, <1>g, <2>1, <2>3, <4>1 DEF AnswersFound
    <3> QED
      BY <1>e, <2>1, <3>1, <3>2, <3>3 DEF OnceListed
  <2> QED
    BY <1>n, <2>1, <2>5, <2>6, <2>7
<1>12. ASSUME NEW t \in Threads, PushGame(t) PROVE GameSide'
  <2> DEFINE old == history[req[t].user]
             new == <<req[t].gid>> \o old
  <2>1. /\ pc'[t] = "llen" /\ At(t, "lpush") /\ HasGame(t) /\ pc[t] = "lpush"
        /\ \A u \in Threads \ {t} : pc'[u] = pc[u]
        /\ history' = [history EXCEPT ![req[t].user] = new]
        /\ UNCHANGED <<next_game, games, gameids, users, req, drawn, ackGames, named>>
    BY <1>a, <1>12 DEF PushGame, Go, TypeOK, answers, userKeys, HasGame, At
  <2>2. /\ req[t].user \in Owners /\ req[t].gid \in GameIds
        /\ old \in Seq(GameIds)
    BY <1>a, <1>m, <2>1 DEF TypeOK
  <2>3. /\ history'[req[t].user] = new
        /\ \A u \in Owners \ {req[t].user} : history'[u] = history[u]
    BY <1>a, <2>1, <2>2 DEF TypeOK
  <2>4. /\ DOMAIN new = 1 .. Len(old) + 1 /\ DOMAIN old = 1 .. Len(old) /\ Len(old) \in Nat
        /\ new[1] = req[t].gid
        /\ \A k \in 2 .. Len(old) + 1 : new[k] = old[k - 1]
    BY <2>2, PushFront
  <2>5. \A k \in DOMAIN new : k = 1 \/ (k - 1 \in DOMAIN old /\ new[k] = old[k - 1])
    BY <2>4
  <2> HIDE DEF new
  <2>6. \A v \in Owners : \A k \in DOMAIN history[v] : history[v][k] # req[t].gid
    BY <1>b, <2>1 DEF NewGameSound
  <2>7. \A v \in Owners : \A k \in DOMAIN history'[v] :
           \/ v = req[t].user /\ k = 1 /\ history'[v][k] = req[t].gid
           \/ \E l \in DOMAIN history[v] : history'[v][k] = history[v][l]
    <3> SUFFICES ASSUME NEW v \in Owners, NEW k \in DOMAIN history'[v]
                 PROVE  \/ v = req[t].user /\ k = 1 /\ history'[v][k] = req[t].gid
                        \/ \E l \in DOMAIN history[v] : history'[v][k] = history[v][l]
      OBVIOUS
    <3>1. CASE v # req[t].user
      BY <2>3, <3>1
    <3>2. CASE v = req[t].user
      <4>1. k \in DOMAIN new /\ history'[v][k] = new[k]
        BY <2>3, <3>2
      <4>2. CASE k = 1
        BY <2>4, <3>2, <4>1, <4>2
      <4>3. CASE k # 1
        <5>1. k - 1 \in DOMAIN old /\ new[k] = old[k - 1]
          BY <2>5, <4>1, <4>3
        <5> QED
          BY <3>2, <4>1, <5>1
      <4> QED
        BY <4>2, <4>3
    <3> QED
      BY <3>1, <3>2
  <2>8. \A u \in Threads : NewGameSound(u)'
    <3> SUFFICES ASSUME NEW u \in Threads PROVE NewGameSound(u)'
      OBVIOUS
    <3>1. CASE u = t
      BY <1>b, <2>1, <3>1 DEF NewGameSound, IdOf, HasOwner, HasGame, At, GameSteps
    <3>2. CASE u # t
      <4>1. ASSUME At(u, "lpush")
            PROVE  \A v \in Owners : \A k \in DOMAIN history'[v] : history'[v][k] # req[u].gid
        <5>1. HasGame(u)
          BY <4>1 DEF At, HasGame
        <5>2. req[u].gid # req[t].gid
          BY <1>m, <2>1, <3>2, <5>1
        <5>3. \A v \in Owners : \A k \in DOMAIN history[v] : history[v][k] # req[u].gid
          BY <1>b, <4>1 DEF NewGameSound
        <5> QED
          BY <2>7, <5>2, <5>3
      <4> QED
        BY <1>b, <2>1, <3>2, <4>1 DEF NewGameSound, IdOf, HasOwner, HasGame, At
    <3> QED
      BY <3>1, <3>2
  <2>9. GamesOwned' /\ IdsFound' /\ AnswersFound'
    BY <1>b, <1>e, <2>1 DEF GamesOwned, IdOf, IdsFound, AnswersFound
  <2>10. OwnListed'
    <3>1. /\ gameids[req[t].gid] = req[t].game /\ req[t].game # Absent
          /\ named[req[t].game] = req[t].user
      BY <1>m, <2>1, RegistryAssumption DEF At
    <3> QED
      BY <1>e, <2>1, <2>7, <3>1 DEF OwnListed
  <2>11. OnceListed'
    <3> SUFFICES ASSUME NEW v \in Owners, NEW k \in DOMAIN history'[v],
                        NEW l \in DOMAIN history'[v], k # l
                 PROVE  history'[v][k] # history'[v][l]
      BY DEF OnceListed
    <3>1. CASE v # req[t].user
      BY <1>e, <2>3, <3>1 DEF OnceListed
    <3>2. CASE v = req[t].user
      <4>1. \A i, j \in DOMAIN old : i # j => old[i] # old[j]
        BY <1>e, <2>2 DEF OnceListed
      <4>2. \A i \in DOMAIN old : old[i] # req[t].gid
        BY <2>2, <2>6
      <4>3. k \in DOMAIN new /\ l \in DOMAIN new
        BY <2>3, <3>2
      <4>4. CASE k = 1 \/ l = 1
        BY <2>3, <2>4, <2>5, <3>2, <4>2, <4>3, <4>4
      <4>5. CASE k # 1 /\ l # 1
        <5>1. k - 1 \in DOMAIN old /\ l - 1 \in DOMAIN old /\ k - 1 # l - 1
          BY <2>4, <2>5, <4>3, <4>5
        <5> QED
          BY <2>3, <2>5, <3>2, <4>1, <4>3, <4>5, <5>1
      <4> QED
        BY <4>4, <4>5
    <3> QED
      BY <3>1, <3>2
  <2> QED
    BY <1>n, <2>1, <2>8, <2>9, <2>10, <2>11
<1>13. ASSUME NEW t \in Threads, Measure(t) \/ Trim(t) PROVE GameSide'
  <2>1. /\ pc'[t] \in {"rpop", "offer"} /\ HasGame(t) /\ pc[t] \in {"llen", "rpop"}
        /\ \A u \in Threads \ {t} : pc'[u] = pc[u]
        /\ UNCHANGED <<next_game, games, gameids, users, req, drawn, ackGames, named>>
    BY <1>a, <1>13 DEF Measure, Trim, Go, TypeOK, answers, userKeys, gameKeys, HasGame, At
  <2>2. \A v \in Owners : /\ DOMAIN history'[v] \subseteq DOMAIN history[v]
                            /\ \A k \in DOMAIN history'[v] : history'[v][k] = history[v][k]
    <3> SUFFICES ASSUME NEW v \in Owners
                 PROVE  /\ DOMAIN history'[v] \subseteq DOMAIN history[v]
                        /\ \A k \in DOMAIN history'[v] : history'[v][k] = history[v][k]
      OBVIOUS
    <3>1. CASE history' = history
      BY <3>1
    <3>2. CASE history' = [history EXCEPT ![req[t].user] = ButLast(@)]
      <4>1. history \in [Owners -> Seq(GameIds)]
        BY <1>a DEF TypeOK
      <4>2. history'[v] = IF v = req[t].user THEN ButLast(history[v]) ELSE history[v]
        BY <3>2, <4>1
      <4>3. /\ DOMAIN ButLast(history[v]) \subseteq DOMAIN history[v]
            /\ \A k \in DOMAIN ButLast(history[v]) : ButLast(history[v])[k] = history[v][k]
        BY <4>1, ButLastFront
      <4> QED
        BY <4>2, <4>3
    <3> QED
      BY <1>13, <3>1, <3>2 DEF Measure, Trim, gameKeys
  <2>3. \A u \in Threads : NewGameSound(u)'
    <3> SUFFICES ASSUME NEW u \in Threads PROVE NewGameSound(u)'
      OBVIOUS
    <3>1. CASE u = t
      BY <1>b, <2>1, <3>1 DEF NewGameSound, IdOf, HasOwner, HasGame, At, GameSteps
    <3>2. CASE u # t
      <4>1. At(u, "lpush") =>
              \A v \in Owners : \A k \in DOMAIN history'[v] : history'[v][k] # req[u].gid
        <5> SUFFICES ASSUME At(u, "lpush"), NEW v \in Owners, NEW k \in DOMAIN history'[v]
                     PROVE  history'[v][k] # req[u].gid
          OBVIOUS
        <5>1. k \in DOMAIN history[v] /\ history'[v][k] = history[v][k]
          BY <2>2
        <5>2. \A w \in Owners : \A i \in DOMAIN history[w] : history[w][i] # req[u].gid
          BY <1>b DEF NewGameSound
        <5> QED
          BY <5>1, <5>2
      <4> QED
        BY <1>b, <2>1, <3>2, <4>1 DEF NewGameSound, IdOf, HasOwner, HasGame, At
    <3> QED
      BY <3>1, <3>2
  <2>4. GamesOwned' /\ IdsFound' /\ AnswersFound'
    BY <1>b, <1>e, <2>1 DEF GamesOwned, IdOf, IdsFound, AnswersFound
  <2>5. OwnListed' /\ OnceListed'
    BY <1>e, <2>1, <2>2 DEF OwnListed, OnceListed
  <2> QED
    BY <1>n, <2>1, <2>3, <2>4, <2>5
<1>14. ASSUME NEW t \in Threads, Offer(t) PROVE GameSide'
  <2> DEFINE answer == [user |-> req[t].user, game |-> req[t].game, id |-> req[t].gid]
  <2>1. /\ pc'[t] = "idle" /\ HasGame(t) /\ pc[t] = "offer"
        /\ \A u \in Threads \ {t} : pc'[u] = pc[u] /\ req'[u] = req[u]
        /\ ackGames' = ackGames \cup {answer}
        /\ UNCHANGED <<next_game, games, gameids, history, users, drawn, named>>
    BY <1>a, <1>14 DEF Offer, Return, Go, TypeOK, userKeys, gameKeys, HasGame, At
  <2>2. \A u \in Threads : HasOwner(u)' => u # t /\ pc'[u] = pc[u] /\ req'[u] = req[u]
    BY <2>1 DEF HasOwner, HasGame, At
  <2>3. \A u \in Threads : NewGameSound(u)'
    <3> SUFFICES ASSUME NEW u \in Threads PROVE NewGameSound(u)'
      OBVIOUS
    <3>1. CASE u = t
      BY <2>1, <3>1 DEF NewGameSound, HasOwner, HasGame, At, GameSteps
    <3>2. CASE u # t
      BY <1>b, <2>1, <3>2 DEF NewGameSound, IdOf, HasOwner, HasGame, At
    <3> QED
      BY <3>1, <3>2
  <2>4. \A u, v \in Threads : u # v => GamesApart(u, v)'
    <3>1. \A u \in Threads : HasGame(u)' => HasGame(u) /\ req'[u] = req[u]
      BY <2>1 DEF HasGame
    <3> QED
      BY <1>b, <3>1 DEF GamesApart
  <2>5. GamesOwned' /\ IdsFound' /\ OwnListed' /\ OnceListed'
    BY <1>b, <1>e, <2>1 DEF GamesOwned, IdOf, IdsFound, OwnListed, OnceListed
  <2>6. AnswersFound'
    <3>1. games[req[t].game] = [id |-> req[t].gid, userid |-> req[t].id]
      BY <1>m, <2>1 DEF At
    <3>2. gameids[req[t].gid] = req[t].game
      BY <1>m, <2>1
    <3> QED
      BY <1>e, <2>1, <3>1, <3>2 DEF AnswersFound
  <2>7. next_game' = Cardinality(drawn' \cap GameUuids)
    BY <1>a, <2>1 DEF GameSide
  <2> QED
    BY <2>3, <2>4, <2>5, <2>6, <2>7, IndexSoundFromParts DEF GameSide
<1>15. ASSUME NEW t \in Threads, CommandRefused(t) PROVE GameSide'
  BY <1>15, <1>d DEF CommandRefused
<1>16. CASE Ended
  <2>1. \A t \in Threads : pc'[t] = "idle"
    BY <1>16 DEF Ended
  <2>2. UNCHANGED <<gameKeys, users, ackGames, named, drawn>>
    BY <1>16 DEF Ended, answers, userKeys
  <2> QED
    BY <1>a, <2>1, <2>2, GameSideKept DEF gameKeys, IdOf, HasOwner, HasGame, At, GameSteps
<1>17. CASE UNCHANGED vars
  <2>1. UNCHANGED <<gameKeys, users, ackGames, named, drawn, pc, req>>
    BY <1>17 DEF vars, answers, userKeys
  <2> QED
    BY <1>a, <1>b, <2>1, GameSideKept DEF gameKeys, IdOf, NewGameSound
<1> QED
  BY <1>1, <1>2, <1>3, <1>4, <1>6, <1>7, <1>8, <1>9, <1>10, <1>11, <1>12, <1>13, <1>14,
     <1>15, <1>16, <1>17
  DEF AnyStep, Write, NewUser, NewGame
-----------------------------------------------------------------------------
(* The theorems.                                                           *)

(* Registry's own steps are among them.                                    *)
LEMMA StepOfRegistry == [Next]_vars => [AnyStep]_vars
BY DEF Next, Crash, AnyStep

LEMMA InvStep == IInv /\ [AnyStep]_vars => IInv'
<1>1. IInv /\ [AnyStep]_vars => TypeOK'
  BY TypeStep
<1>2. IInv /\ [AnyStep]_vars => UserSide'
  BY UserStep
<1>3. IInv /\ TypeOK' /\ [AnyStep]_vars => GameSide'
  BY GameStep
<1> QED
  BY <1>1, <1>2, <1>3 DEF IInv, RegistryInv

(* The invariant holds in every state of Registry, for every number of     *)
(* threads: what the handlers know while they wait for valkey stays true.  *)
THEOREM RegistryHolds == Spec => []IInv
BY InitInv, InvStep, StepOfRegistry, PTL DEF Spec

(* The keys keep their types: no counter passes the uuids drawn, no field  *)
(* is written with a request's empty locals.                               *)
THEOREM TypeCorrect == Spec => []TypeOK
<1>1. IInv => TypeOK
  BY DEF IInv
<1> QED
  BY <1>1, RegistryHolds, PTL

(* No index entry dangles, no list names another owner's game or a game    *)
(* twice, and an answered game is found by its id, with every interleaving *)
(* of /new-user and /new-game, refused commands and restarts.              *)
THEOREM IndexCorrect == Spec => []IndexSound
<1>1. IInv => IndexSound
  BY DEF IInv, RegistryInv, GameSide
<1> QED
  BY <1>1, RegistryHolds, PTL

(* A user who was given a uuid is found under the id it was given.  Every  *)
(* game, also one that was cut short, carries the number of what its       *)
(* request named: a user, who is found by it, or an older game.            *)
THEOREM UsersCorrect == Spec => []UsersResolve
<1>1. IInv => UsersResolve
  <2> SUFFICES ASSUME TypeOK, UserSide, GameSide PROVE UsersResolve
    BY DEF IInv, RegistryInv
  <2>1. \A u \in UserUuids : users[u] # NoUser =>
           users[u].id \in UserIds /\ userids[users[u].id] = u
    BY DEF TypeOK, UserSide, UsersIndexed
  <2>2. \A u \in UserUuids : users[u] # NoUser => FindUserById(users[u].id) = users[u]
    BY <2>1, RegistryAssumption DEF FindUserById
  <2>3. ASSUME NEW a \in ackUsers
        PROVE  /\ users[a.user] = [id |-> a.id, name |-> a.name]
               /\ FindUserById(a.id) = users[a.user]
    <3>1. ackUsers \subseteq [user : UserUuids, id : UserIds, name : Names]
      BY DEF TypeOK
    <3>2. a.user \in UserUuids /\ a.id \in UserIds
      BY <3>1
    <3>3. users[a.user] = [id |-> a.id, name |-> a.name]
      BY DEF UserSide
    <3>4. users[a.user].id = a.id /\ a.id # 0
      BY <3>2, <3>3, Counts DEF UserIds
    <3>5. users[a.user] # NoUser
      BY <3>4 DEF NoUser
    <3> QED
      BY <2>2, <3>2, <3>3, <3>4, <3>5
  <2>4. ASSUME NEW g \in GameUuids, games[g] # NoGame
        PROVE  /\ games[g].userid = IdOf(named[g]) /\ games[g].userid # 0
               /\ named[g] \in UserUuids =>
                    FindUserById(games[g].userid) = users[named[g]]
               /\ named[g] \in GameUuids => games[named[g]].id < games[g].id
    <3>1. /\ games[g].userid = IdOf(named[g]) /\ games[g].userid # 0
          /\ named[g] \in GameUuids => games[g].userid < games[g].id
      BY <2>4 DEF GameSide, GamesOwned
    <3>2. ASSUME named[g] \in UserUuids
          PROVE  FindUserById(games[g].userid) = users[named[g]]
      <4>1. users[named[g]].id = games[g].userid /\ users[named[g]] # NoUser
        BY <3>1, <3>2 DEF IdOf, NoUser
      <4> QED
        BY <2>2, <3>2, <4>1
    <3>3. named[g] \in GameUuids => games[named[g]].id = games[g].userid
      BY <3>1, RegistryAssumption DEF IdOf
    <3> QED
      BY <3>1, <3>2, <3>3
  <2> QED
    BY <2>3, <2>4 DEF UsersResolve
<1> QED
  BY <1>1, RegistryHolds, PTL

(* HSETNX is the only command that writes a name, so two sign-ups at once  *)
(* cannot take a name from each other, whoever is told what.               *)
THEOREM NamesKept == Spec => NamesNeverRebound
<1>1. TypeOK /\ [Next]_vars =>
        [\A n \in Names : usernames[n] # Absent => usernames'[n] = usernames[n]]_vars
  <2> SUFFICES ASSUME TypeOK, Next, NEW n \in Names, usernames[n] # Absent
               PROVE  usernames'[n] = usernames[n]
    OBVIOUS
  <2>1. CASE \E t \in Threads : ReserveName(t)
    BY <2>1 DEF ReserveName, TypeOK
  <2>2. CASE ~ \E t \in Threads : ReserveName(t)
    <3>1. usernames' = usernames
      BY <2>2 DEF Next, Write, NewUser, NewGame, SignUp, StartGame, CheckName, IncrUser,
         IndexUser, WriteUser, FindUser, IncrGame, WriteGame, IndexGame, PushGame, Measure,
         Trim, Offer, CommandRefused, Crash, Ended, userKeys
    <3> QED
      BY <3>1
  <2> QED
    BY <2>1, <2>2
<1> QED
  BY <1>1, TypeCorrect, PTL DEF Spec, NamesNeverRebound

-----------------------------------------------------------------------------
(* Names, while requests come one at a time.                               *)

(* Every handler keeps what is known of names: only HSETNX changes them.   *)
LEMMA NamesStep == IInv /\ NamesKnown /\ [AnyStep]_vars => NamesKnown'
<1> SUFFICES ASSUME IInv, NamesKnown, [AnyStep]_vars, ~overlap' PROVE NamesKnown'
  BY DEF NamesKnown
<1>a. /\ TypeOK
      /\ \A t \in Threads : HasUser(t) => req[t].user \in UserUuids
      /\ \A t \in Threads : pc[t] \in SignUpSteps => req[t].name \in Names
  BY DEF IInv, RegistryInv, UserSide, SignUpSound
<1>b. ASSUME NEW t \in Threads,
             overlap' = overlap, ~At(t, "idle"),
             \A u \in Threads \ {t} : pc'[u] = pc[u],
             \A a \in ackUsers' : usernames'[a.name] = a.user,
             pc'[t] \in {"incr_user", "hsetnx"} => usernames'[req'[t].name] = Absent,
             pc'[t] \in {"userids", "user"} => usernames'[req'[t].name] = req'[t].user
      PROVE  NamesKnown'
  <2>1. \A u \in Threads \ {t} : pc[u] = "idle"
    BY <1>b DEF NamesKnown, At
  <2>2. \A u \in Threads : u # t => pc'[u] = "idle"
    BY <1>b, <2>1
  <2> QED
    BY <1>b, <2>2 DEF NamesKnown, At
(* A request arrives while nothing is being served.                        *)
<1>1. ASSUME NEW t \in Threads, NEW n \in Names, SignUp(t, n) PROVE NamesKnown'
  <2>1. /\ ~overlap /\ \A u \in Threads \ {t} : pc[u] = "idle"
        /\ usernames' = usernames /\ ackUsers' = ackUsers
        /\ pc' = [pc EXCEPT ![t] = "hget"]
    BY <1>1 DEF SignUp, Arrive, At, Go, userKeys, answers
  <2>2. pc'[t] = "hget" /\ \A u \in Threads : u # t => pc'[u] = "idle"
    BY <1>a, <2>1 DEF TypeOK
  <2> QED
    BY <2>1, <2>2 DEF NamesKnown, At
<1>2. ASSUME NEW t \in Threads, NEW u \in Owners, StartGame(t, u) PROVE NamesKnown'
  <2>1. /\ ~overlap /\ \A v \in Threads \ {t} : pc[v] = "idle"
        /\ usernames' = usernames /\ ackUsers' = ackUsers
        /\ pc' = [pc EXCEPT ![t] = "hmget"]
    BY <1>2 DEF StartGame, Arrive, At, Go, userKeys, answers
  <2>2. pc'[t] = "hmget" /\ \A v \in Threads : v # t => pc'[v] = "idle"
    BY <1>a, <2>1 DEF TypeOK
  <2> QED
    BY <2>1, <2>2 DEF NamesKnown, At
<1>3. ASSUME NEW t \in Threads, CheckName(t) PROVE NamesKnown'
  <2>1. /\ overlap' = overlap /\ pc[t] = "hget"
        /\ usernames' = usernames /\ ackUsers' = ackUsers
    BY <1>3 DEF CheckName, At, userKeys, answers
  <2>2. CASE usernames[req[t].name] # Absent
    <3>1. pc' = [pc EXCEPT ![t] = "idle"]
      BY <1>3, <2>2 DEF CheckName, Return, Go
    <3>2. pc'[t] = "idle" /\ \A u \in Threads \ {t} : pc'[u] = pc[u]
      BY <1>a, <3>1 DEF TypeOK
    <3> QED
      BY <1>b, <2>1, <3>2 DEF NamesKnown, At, SignUpSteps
  <2>3. CASE usernames[req[t].name] = Absent
    <3>1. pc' = [pc EXCEPT ![t] = "incr_user"] /\ req' = req
      BY <1>3, <2>3 DEF CheckName, Go
    <3>2. pc'[t] = "incr_user" /\ \A u \in Threads \ {t} : pc'[u] = pc[u]
      BY <1>a, <3>1 DEF TypeOK
    <3> QED
      BY <1>b, <2>1, <2>3, <3>1, <3>2 DEF NamesKnown, At, SignUpSteps
  <2> QED
    BY <2>2, <2>3
<1>4. ASSUME NEW t \in Threads, IncrUser(t) PROVE NamesKnown'
  <2>1. PICK u \in UserUuids \ drawn :
          req' = [req EXCEPT ![t].user = u, ![t].id = next_user + 1]
    BY <1>4 DEF IncrUser
  <2>2. /\ overlap' = overlap /\ pc[t] = "incr_user"
        /\ usernames' = usernames /\ ackUsers' = ackUsers
        /\ pc' = [pc EXCEPT ![t] = "hsetnx"]
    BY <1>4 DEF IncrUser, At, Go, answers
  <2>3. /\ pc'[t] = "hsetnx" /\ \A v \in Threads \ {t} : pc'[v] = pc[v]
        /\ req'[t].name = req[t].name
    BY <1>a, <2>1, <2>2 DEF TypeOK
  <2> QED
    BY <1>b, <2>2, <2>3 DEF NamesKnown, At, SignUpSteps
<1>5. ASSUME NEW t \in Threads, ReserveName(t) PROVE NamesKnown'
  <2> DEFINE n == req[t].name
  <2>1. /\ overlap' = overlap /\ pc[t] = "hsetnx" /\ ackUsers' = ackUsers /\ req' = req
        /\ pc' = [pc EXCEPT ![t] = "userids"]
        /\ usernames' = [usernames EXCEPT ![n] = IF @ = Absent THEN req[t].user ELSE @]
    BY <1>5 DEF ReserveName, At, Go, answers
  <2>2. n \in Names /\ usernames[n] = Absent /\ ~overlap
        /\ \A a \in ackUsers : a.name \in Names /\ a.user \in UserUuids
                                 /\ usernames[a.name] = a.user
    BY <1>a, <2>1 DEF NamesKnown, SignUpSteps, TypeOK
  <2>3. usernames'[n] = req[t].user /\ \A m \in Names \ {n} : usernames'[m] = usernames[m]
    BY <1>a, <2>1, <2>2 DEF TypeOK
  <2>4. \A a \in ackUsers' : usernames'[a.name] = a.user
    BY <2>1, <2>2, <2>3, RegistryAssumption
  <2>5. pc'[t] = "userids" /\ \A v \in Threads \ {t} : pc'[v] = pc[v]
    BY <1>a, <2>1 DEF TypeOK
  <2> QED
    BY <1>b, <2>1, <2>3, <2>4, <2>5 DEF At, SignUpSteps
<1>6. ASSUME NEW t \in Threads, IndexUser(t) PROVE NamesKnown'
  <2>1. /\ overlap' = overlap /\ pc[t] = "userids" /\ ackUsers' = ackUsers /\ req' = req
        /\ pc' = [pc EXCEPT ![t] = "user"] /\ usernames' = usernames
    BY <1>6 DEF IndexUser, At, Go, answers
  <2>2. pc'[t] = "user" /\ \A v \in Threads \ {t} : pc'[v] = pc[v]
    BY <1>a, <2>1 DEF TypeOK
  <2> QED
    BY <1>b, <2>1, <2>2 DEF NamesKnown, At, SignUpSteps
<1>7. ASSUME NEW t \in Threads, WriteUser(t) PROVE NamesKnown'
  <2>1. /\ overlap' = overlap /\ pc[t] = "user" /\ usernames' = usernames
        /\ pc' = [pc EXCEPT ![t] = "idle"]
        /\ ackUsers' = ackUsers \cup
             {[user |-> req[t].user, id |-> req[t].id, name |-> req[t].name]}
    BY <1>7 DEF WriteUser, At, Go, Return
  <2>2. \A a \in ackUsers' : usernames'[a.name] = a.user
    BY <2>1 DEF NamesKnown
  <2>3. pc'[t] = "idle" /\ \A v \in Threads \ {t} : pc'[v] = pc[v]
    BY <1>a, <2>1 DEF TypeOK
  <2> QED
    BY <1>b, <2>1, <2>2, <2>3 DEF At, SignUpSteps
(* The rest of the commands, a refusal and a restart leave names alone.    *)
<1>8. ASSUME NEW t \in Threads, NewGame(t) \/ CommandRefused(t) PROVE NamesKnown'
  <2>1. /\ overlap' = overlap /\ pc[t] # "idle"
        /\ usernames' = usernames /\ ackUsers' = ackUsers
    BY <1>8 DEF NewGame, FindUser, IncrGame, WriteGame, IndexGame, PushGame, Measure, Trim,
                Offer, CommandRefused, At, userKeys, answers
  <2>2. \E s \in {"idle"} \cup GameSteps : pc' = [pc EXCEPT ![t] = s]
    BY <1>8 DEF NewGame, FindUser, IncrGame, WriteGame, IndexGame, PushGame, Measure, Trim,
                Offer, CommandRefused, Return, Go, GameSteps
  <2>3. /\ pc'[t] \in {"idle"} \cup GameSteps
        /\ \A v \in Threads \ {t} : pc'[v] = pc[v]
    BY <1>a, <2>2 DEF TypeOK
  <2> QED
    BY <1>b, <2>1, <2>3 DEF NamesKnown, At, SignUpSteps, GameSteps
<1>9. CASE Ended
  <2>1. /\ overlap' = overlap /\ usernames' = usernames /\ ackUsers' = ackUsers
        /\ \A t \in Threads : pc'[t] = "idle"
    BY <1>9 DEF Ended, userKeys, answers
  <2> QED
    BY <2>1 DEF NamesKnown, At
<1>10. CASE UNCHANGED vars
  BY <1>10 DEF vars, userKeys, answers, NamesKnown, At
<1> QED
  BY <1>1, <1>2, <1>3, <1>4, <1>5, <1>6, <1>7, <1>8, <1>9, <1>10 DEF AnyStep, Write, NewUser

(* As long as no two requests were served at once, a name leads to the     *)
(* user who signed up with it, also a name that reads like another id.     *)
THEOREM NamesCorrect == Spec => []NamesResolve
<1>1. Init => NamesKnown
  BY DEF Init, NamesKnown, At
<1>2. IInv /\ NamesKnown => NamesResolve
  <2> SUFFICES ASSUME IInv, NamesKnown PROVE NamesResolve
    OBVIOUS
  <2>1. ASSUME NEW a \in ackUsers, ~overlap
        PROVE  FindUserByString(a.name) = [id |-> a.id, name |-> a.name]
    <3>1. /\ a.user \in UserUuids /\ a.id \in UserIds /\ usernames[a.name] = a.user
          /\ users[a.user] = [id |-> a.id, name |-> a.name]
      <4>1. ackUsers \subseteq [user : UserUuids, id : UserIds, name : Names]
        BY DEF IInv, TypeOK
      <4>2. users[a.user] = [id |-> a.id, name |-> a.name]
        BY DEF IInv, RegistryInv, UserSide
      <4>3. usernames[a.name] = a.user
        BY <2>1 DEF NamesKnown
      <4> QED
        BY <4>1, <4>2, <4>3
    <3>2. a.user # Absent
      BY <3>1, RegistryAssumption
    <3>3. users[a.user].id # 0
      BY <3>1 DEF UserIds
    <3>4. users[a.user] # NoUser
      BY <3>3 DEF NoUser
    <3> QED
      BY <3>1, <3>2, <3>4 DEF FindUserByString, FindUserByName
  <2> QED
    BY <2>1, Zenon DEF NamesResolve
<1> QED
  BY <1>1, <1>2, NamesStep, StepOfRegistry, RegistryHolds, PTL DEF Spec
-----------------------------------------------------------------------------
(* The lists of games, as long as requests come one at a time.             *)

(* LPUSH of a greater number keeps a list sorted and drops nobody.         *)
LEMMA PushKeeps ==
  ASSUME NEW s \in Seq(GameIds), Sorted(s), NEW x \in GameIds,
         \A k \in DOMAIN s : s[k] < x
  PROVE  /\ Sorted(<<x>> \o s)
         /\ \A k \in DOMAIN (<<x>> \o s) : (<<x>> \o s)[k] <= x
         /\ Len(<<x>> \o s) = Len(s) + 1 /\ (<<x>> \o s)[1] = x
         /\ \A n \in GameIds : ListedOrPast(s, n) /\ n <= x => ListedOrPast(<<x>> \o s, n)
<1> DEFINE p == <<x>> \o s
<1>1. /\ p \in Seq(GameIds) /\ DOMAIN p = 1 .. Len(s) + 1 /\ p[1] = x
      /\ \A k \in 2 .. Len(s) + 1 : p[k] = s[k - 1]
      /\ DOMAIN s = 1 .. Len(s) /\ Len(s) \in Nat /\ Len(p) = Len(s) + 1
  BY PushFront
<1>2. x \in Nat /\ \A k \in DOMAIN s : s[k] \in Nat
  BY Counts DEF GameIds
<1> HIDE DEF p
<1>3. \A k \in 2 .. Len(s) + 1 : k - 1 \in DOMAIN s
  BY <1>1
<1>4. \A k \in DOMAIN p : k = 1 \/ k \in 2 .. Len(s) + 1
  BY <1>1
<1>5. Sorted(p)
  <2> SUFFICES ASSUME NEW k \in DOMAIN p, NEW l \in DOMAIN p, k < l PROVE p[k] > p[l]
    BY DEF Sorted
  <2>1. l \in 2 .. Len(s) + 1 /\ p[l] = s[l - 1] /\ l - 1 \in DOMAIN s
    BY <1>1, <1>3, <1>4
  <2>2. CASE k = 1
    BY <1>1, <1>2, <2>1, <2>2
  <2>3. CASE k \in 2 .. Len(s) + 1
    <3>1. p[k] = s[k - 1] /\ k - 1 \in DOMAIN s /\ k - 1 < l - 1
      BY <1>1, <1>3, <2>1, <2>3
    <3>2. s[k - 1] > s[l - 1]
      BY <2>1, <3>1 DEF Sorted
    <3> QED
      BY <2>1, <3>1, <3>2
  <2> QED
    BY <1>4, <2>2, <2>3
<1>6. \A k \in DOMAIN p : p[k] <= x
  BY <1>1, <1>2, <1>3, <1>4
<1>7. ASSUME NEW n \in GameIds, ListedOrPast(s, n), n <= x PROVE ListedOrPast(p, n)
  <2>1. CASE \E k \in DOMAIN s : s[k] = n
    <3>1. PICK k \in DOMAIN s : s[k] = n
      BY <2>1
    <3>2. k + 1 \in DOMAIN p /\ p[k + 1] = n
      BY <1>1, <3>1
    <3> QED
      BY <3>2 DEF ListedOrPast
  <2>2. CASE n = x
    BY <1>1, <2>2 DEF ListedOrPast
  <2>3. CASE n # x /\ Len(s) >= HistoryLimit /\ \A k \in DOMAIN s : s[k] > n
    <3>1. n \in Nat /\ n < x
      BY <1>2, <1>7, <2>3, Counts DEF GameIds
    <3>2. Len(p) >= HistoryLimit
      BY <1>1, <2>3, RegistryAssumption
    <3>3. \A k \in DOMAIN p : p[k] > n
      BY <1>1, <1>2, <1>3, <1>4, <2>3, <3>1
    <3> QED
      BY <3>2, <3>3 DEF ListedOrPast
  <2> QED
    BY <1>7, <2>1, <2>2, <2>3 DEF ListedOrPast
<1> QED
  BY <1>1, <1>5, <1>6, <1>7 DEF p

(* RPOP on a list past the limit drops the least, which has enough above.  *)
LEMMA TrimKeeps ==
  ASSUME NEW s \in Seq(GameIds), Sorted(s), Len(s) > HistoryLimit
  PROVE  /\ Sorted(ButLast(s))
         /\ \A k \in DOMAIN ButLast(s) : k \in DOMAIN s /\ ButLast(s)[k] = s[k]
         /\ Len(ButLast(s)) > 0 /\ ButLast(s)[1] = s[1]
         /\ \A n \in GameIds : ListedOrPast(s, n) => ListedOrPast(ButLast(s), n)
<1> DEFINE b == ButLast(s)
<1>1. Len(s) \in Nat /\ HistoryLimit \in Nat /\ HistoryLimit >= 1 /\ DOMAIN s = 1 .. Len(s)
  BY RegistryAssumption
<1>2. /\ b \in Seq(GameIds) /\ DOMAIN b \subseteq DOMAIN s
      /\ \A k \in DOMAIN b : b[k] = s[k]
  BY ButLastFront
<1>3. Len(b) = Len(s) - 1 /\ DOMAIN b = 1 .. Len(s) - 1
  BY <1>1 DEF ButLast
<1> HIDE DEF b
<1>4. Sorted(b)
  BY <1>2 DEF Sorted
<1>5. Len(b) > 0 /\ b[1] = s[1] /\ Len(b) >= HistoryLimit
  BY <1>1, <1>2, <1>3
<1>6. ASSUME NEW n \in GameIds, ListedOrPast(s, n) PROVE ListedOrPast(b, n)
  <2>1. CASE \E k \in DOMAIN s : s[k] = n
    <3>1. PICK k \in DOMAIN s : s[k] = n
      BY <2>1
    <3>2. CASE k = Len(s)
      <4>1. \A l \in DOMAIN b : l \in DOMAIN s /\ l < k /\ b[l] = s[l]
        BY <1>1, <1>2, <1>3, <3>2
      <4>2. \A l \in DOMAIN b : b[l] > n
        BY <3>1, <4>1 DEF Sorted
      <4> QED
        BY <1>5, <4>2 DEF ListedOrPast
    <3>3. CASE k # Len(s)
      <4>1. k \in DOMAIN b /\ b[k] = n
        BY <1>1, <1>2, <1>3, <3>1, <3>3
      <4> QED
        BY <4>1 DEF ListedOrPast
    <3> QED
      BY <3>2, <3>3
  <2>2. CASE \A k \in DOMAIN s : s[k] > n
    BY <1>2, <1>5, <2>2 DEF ListedOrPast
  <2> QED
    BY <1>6, <2>1, <2>2 DEF ListedOrPast
<1> QED
  BY <1>2, <1>4, <1>5, <1>6 DEF b

ListsKnown ==
  \A u \in Owners :
    Sorted(history[u]) /\ \A k \in DOMAIN history[u] : history[u][k] <= next_game
AcksListed == \A a \in ackGames : ListedOrPast(history[a.user], a.id)

LEMMA NewestStep == IInv /\ NamesKnown /\ NewestKnown /\ [AnyStep]_vars => NewestKnown'
<1> SUFFICES ASSUME IInv, NamesKnown, NewestKnown, [AnyStep]_vars, ~overlap' PROVE NewestKnown'
  BY DEF NewestKnown
<1>a. /\ TypeOK
      /\ \A t \in Threads : pc[t] \in GameSteps => req[t].user \in Owners
      /\ \A t \in Threads : HasGame(t) =>
           req[t].gid \in 1 .. next_game /\ req[t].gid \in GameIds
  <2>1. TypeOK /\ \A t \in Threads : NewGameSound(t)
    BY DEF IInv, RegistryInv, GameSide
  <2>2. next_game \in {0} \cup GameIds
    BY <2>1 DEF TypeOK
  <2>3. ASSUME NEW t \in Threads, HasGame(t)
        PROVE  req[t].gid \in 1 .. next_game /\ req[t].gid \in GameIds
    <3>1. req[t].gid \in 1 .. next_game
      BY <2>1, <2>3 DEF NewGameSound
    <3> QED
      BY <2>2, <3>1, Counts DEF GameIds
  <2> QED
    BY <2>1, <2>3 DEF NewGameSound
<1>b. ASSUME NEW t \in Threads, overlap' = overlap, ~At(t, "idle"),
             \A v \in Threads \ {t} : pc'[v] = pc[v]
      PROVE  ~overlap /\ \A v \in Threads : v # t => pc'[v] = "idle"
  BY <1>b DEF NamesKnown, At
<1>c. ~overlap => ListsKnown /\ AcksListed /\ \A t \in Threads : Pushing(t)
  BY DEF NewestKnown, ListsKnown, AcksListed
<1>d. ASSUME NEW t \in Threads, ListsKnown', AcksListed', Pushing(t)',
             \A v \in Threads : v # t => pc'[v] = "idle"
      PROVE  NewestKnown'
  <2>1. \A v \in Threads : v # t => Pushing(v)'
    BY <1>d DEF Pushing, At
  <2>2. \A v \in Threads : Pushing(v)'
    BY <1>d, <2>1
  <2> QED
    BY <1>d, <2>2 DEF NewestKnown, ListsKnown, AcksListed
<1>e. ASSUME ListsKnown, AcksListed, history' = history, ackGames' = ackGames, next_game' = next_game
      PROVE  ListsKnown' /\ AcksListed'
  BY <1>e DEF ListsKnown, AcksListed
(* Arrivals, sign-ups, the look-up of the user and refusals.               *)
<1>1. ASSUME NEW t \in Threads, NEW n \in Names, SignUp(t, n) PROVE NewestKnown'
  <2>1. /\ ~overlap /\ \A v \in Threads \ {t} : pc[v] = "idle"
        /\ history' = history /\ ackGames' = ackGames /\ next_game' = next_game
        /\ pc' = [pc EXCEPT ![t] = "hget"]
    BY <1>1 DEF SignUp, Arrive, At, Go, gameKeys, answers
  <2>2. pc'[t] = "hget" /\ \A v \in Threads : v # t => pc'[v] = "idle"
    BY <1>a, <2>1 DEF TypeOK
  <2>3. Pushing(t)'
    BY <2>2 DEF Pushing, At
  <2> QED
    BY <1>c, <1>d, <1>e, <2>1, <2>2, <2>3
<1>2. ASSUME NEW t \in Threads, NEW u \in Owners, StartGame(t, u) PROVE NewestKnown'
  <2>1. /\ ~overlap /\ \A v \in Threads \ {t} : pc[v] = "idle"
        /\ history' = history /\ ackGames' = ackGames /\ next_game' = next_game
        /\ pc' = [pc EXCEPT ![t] = "hmget"]
    BY <1>2 DEF StartGame, Arrive, At, Go, gameKeys, answers
  <2>2. pc'[t] = "hmget" /\ \A v \in Threads : v # t => pc'[v] = "idle"
    BY <1>a, <2>1 DEF TypeOK
  <2>3. Pushing(t)'
    BY <2>2 DEF Pushing, At
  <2> QED
    BY <1>c, <1>d, <1>e, <2>1, <2>2, <2>3
<1>3. ASSUME NEW t \in Threads, NewUser(t) \/ FindUser(t) \/ CommandRefused(t)
      PROVE  NewestKnown'
  <2>1. /\ overlap' = overlap /\ ~At(t, "idle")
        /\ history' = history /\ ackGames' = ackGames /\ next_game' = next_game
    BY <1>3 DEF NewUser, CheckName, IncrUser, ReserveName, IndexUser, WriteUser, FindUser,
                CommandRefused, At, gameKeys, answers
  <2>2. \E s \in {"idle", "incr_game"} \cup SignUpSteps : pc' = [pc EXCEPT ![t] = s]
    BY <1>3 DEF NewUser, CheckName, IncrUser, ReserveName, IndexUser, WriteUser, FindUser,
                CommandRefused, Return, Go, SignUpSteps
  <2>3. /\ pc'[t] \in {"idle", "incr_game"} \cup SignUpSteps
        /\ \A v \in Threads \ {t} : pc'[v] = pc[v]
    BY <1>a, <2>2 DEF TypeOK
  <2>4. Pushing(t)'
    BY <2>3 DEF Pushing, At, SignUpSteps
  <2> QED
    BY <1>b, <1>c, <1>d, <1>e, <2>1, <2>3, <2>4
(* The new number is greater than all that were given.                     *)
<1>4. ASSUME NEW t \in Threads, IncrGame(t) PROVE NewestKnown'
  <2>1. PICK g \in GameUuids \ drawn :
          req' = [req EXCEPT ![t].game = g, ![t].gid = next_game + 1]
    BY <1>4 DEF IncrGame
  <2>2. /\ overlap' = overlap /\ ~At(t, "idle")
        /\ history' = history /\ ackGames' = ackGames /\ next_game' = next_game + 1
        /\ pc' = [pc EXCEPT ![t] = "game"]
    BY <1>4 DEF IncrGame, At, Go, answers
  <2>3. /\ pc'[t] = "game" /\ \A v \in Threads \ {t} : pc'[v] = pc[v]
        /\ req'[t].gid = next_game + 1
    BY <1>a, <2>1, <2>2 DEF TypeOK
  <2>4. ListsKnown /\ AcksListed
    BY <1>b, <1>c, <2>2, <2>3
  <2>5. next_game \in Nat /\ \A u \in Owners : \A k \in DOMAIN history[u] : history[u][k] \in Nat
    BY <1>a, Counts DEF TypeOK, GameIds
  <2>6. ListsKnown' /\ AcksListed'
    BY <2>2, <2>4, <2>5 DEF ListsKnown, AcksListed
  <2>7. Pushing(t)'
    BY <2>2, <2>3, <2>4, <2>5 DEF Pushing, At, ListsKnown
  <2> QED
    BY <1>b, <1>d, <2>2, <2>3, <2>6, <2>7
<1>5. ASSUME NEW t \in Threads, WriteGame(t) \/ IndexGame(t) PROVE NewestKnown'
  <2>1. /\ overlap' = overlap /\ pc[t] \in {"game", "gameids"} /\ req' = req
        /\ history' = history /\ ackGames' = ackGames /\ next_game' = next_game
    BY <1>5 DEF WriteGame, IndexGame, At, answers
  <2>2. \E s \in {"gameids", "lpush"} : pc' = [pc EXCEPT ![t] = s]
    BY <1>5 DEF WriteGame, IndexGame, Go
  <2>3. pc'[t] \in {"gameids", "lpush"} /\ \A v \in Threads \ {t} : pc'[v] = pc[v]
    BY <1>a, <2>2 DEF TypeOK
  <2>4. ListsKnown /\ AcksListed /\ Pushing(t)
    BY <1>b, <1>c, <2>1, <2>3 DEF At
  <2>5. Pushing(t)'
    BY <2>1, <2>3, <2>4 DEF Pushing, At
  <2> QED
    BY <1>b, <1>d, <1>e, <2>1, <2>3, <2>4, <2>5 DEF At
<1>6. ASSUME NEW t \in Threads, PushGame(t) PROVE NewestKnown'
  <2> DEFINE w == req[t].user
             x == req[t].gid
  <2>1. /\ overlap' = overlap /\ pc[t] = "lpush" /\ req' = req
        /\ ackGames' = ackGames /\ next_game' = next_game
        /\ pc' = [pc EXCEPT ![t] = "llen"]
        /\ history' = [history EXCEPT ![w] = <<x>> \o @]
    BY <1>6 DEF PushGame, At, Go, answers
  <2>2. pc'[t] = "llen" /\ \A v \in Threads \ {t} : pc'[v] = pc[v]
    BY <1>a, <2>1 DEF TypeOK
  <2>3. ListsKnown /\ AcksListed /\ Pushing(t)
    BY <1>b, <1>c, <2>1, <2>2 DEF At
  <2>4. w \in Owners /\ x \in 1 .. next_game /\ x \in GameIds
    BY <1>a, <2>1 DEF HasGame, GameSteps
  <2>5. /\ history[w] \in Seq(GameIds) /\ Sorted(history[w])
        /\ \A u \in Owners : \A k \in DOMAIN history[u] : history[u][k] < x
    BY <1>a, <2>1, <2>3, <2>4 DEF TypeOK, ListsKnown, Pushing
  <2>6. /\ history'[w] = <<x>> \o history[w]
        /\ \A u \in Owners \ {w} : history'[u] = history[u]
    BY <1>a, <2>1, <2>4 DEF TypeOK
  <2>7. /\ Sorted(history'[w]) /\ \A k \in DOMAIN history'[w] : history'[w][k] <= x
        /\ Len(history'[w]) = Len(history[w]) + 1 /\ history'[w][1] = x
        /\ \A n \in GameIds : ListedOrPast(history[w], n) /\ n <= x => ListedOrPast(history'[w], n)
    BY <2>4, <2>5, <2>6, PushKeeps
  <2>8. ListsKnown'
    <3>1. \A k \in DOMAIN history'[w] : history'[w][k] \in Nat
      <4>1. history'[w] \in Seq(GameIds)
        BY <2>4, <2>5, <2>6, PushFront
      <4> QED
        BY <4>1, Counts DEF GameIds
    <3>2. next_game \in Nat
      BY <1>a, Counts DEF TypeOK, GameIds
    <3>3. \A k \in DOMAIN history'[w] : history'[w][k] <= next_game'
      BY <2>1, <2>4, <2>7, <3>1, <3>2
    <3> QED
      BY <2>1, <2>3, <2>6, <2>7, <3>3 DEF ListsKnown
  <2>9. AcksListed'
    <3> SUFFICES ASSUME NEW a \in ackGames PROVE ListedOrPast(history'[a.user], a.id)
      BY <2>1 DEF AcksListed
    <3>1. a.user \in Owners /\ a.id \in GameIds /\ ListedOrPast(history[a.user], a.id)
      BY <1>a, <2>3 DEF TypeOK, AcksListed
    <3>2. CASE a.user # w
      BY <2>6, <3>1, <3>2
    <3>3. CASE a.user = w /\ a.id <= x
      BY <2>7, <3>1, <3>3
    <3>4. CASE a.user = w /\ a.id > x
      <4>1. ~\E k \in DOMAIN history[w] : history[w][k] > a.id \/ history[w][k] = a.id
        <5>1. \A k \in DOMAIN history[w] : history[w][k] \in Nat
          BY <2>5, Counts DEF GameIds
        <5>2. x \in Nat /\ a.id \in Nat
          BY <2>4, <3>1, Counts DEF GameIds
        <5> QED
          BY <2>4, <2>5, <3>4, <5>1, <5>2
      <4>2. Len(history[w]) >= 1 /\ 1 \in DOMAIN history[w]
        BY <2>5, <3>1, <3>4, <4>1, RegistryAssumption DEF ListedOrPast
      <4> QED
        BY <3>1, <3>4, <4>1, <4>2 DEF ListedOrPast
    <3> QED
      BY <2>4, <3>1, <3>2, <3>3, <3>4, Counts DEF GameIds
  <2>10. Pushing(t)'
    BY <2>1, <2>2, <2>5, <2>7 DEF Pushing, At
  <2> QED
    BY <1>b, <1>d, <2>1, <2>2, <2>8, <2>9, <2>10 DEF At
<1>7. ASSUME NEW t \in Threads, Measure(t) PROVE NewestKnown'
  <2>1. /\ overlap' = overlap /\ pc[t] = "llen" /\ req' = req
        /\ history' = history /\ ackGames' = ackGames /\ next_game' = next_game
        /\ pc' = [pc EXCEPT ![t] = IF Len(history[req[t].user]) > HistoryLimit
                                   THEN "rpop" ELSE "offer"]
    BY <1>7 DEF Measure, At, Go, gameKeys, answers
  <2>2. /\ pc'[t] \in {"rpop", "offer"} /\ \A v \in Threads \ {t} : pc'[v] = pc[v]
        /\ pc'[t] = "rpop" => Len(history[req[t].user]) > HistoryLimit
    BY <1>a, <2>1 DEF TypeOK
  <2>3. ListsKnown /\ AcksListed /\ Pushing(t)
    BY <1>b, <1>c, <2>1, <2>2 DEF At
  <2>4. Pushing(t)'
    BY <2>1, <2>2, <2>3 DEF Pushing, At
  <2> QED
    BY <1>b, <1>d, <1>e, <2>1, <2>2, <2>3, <2>4 DEF At
<1>8. ASSUME NEW t \in Threads, Trim(t) PROVE NewestKnown'
  <2> DEFINE w == req[t].user
  <2>1. /\ overlap' = overlap /\ pc[t] = "rpop" /\ req' = req
        /\ ackGames' = ackGames /\ next_game' = next_game
        /\ pc' = [pc EXCEPT ![t] = "offer"]
        /\ history' = [history EXCEPT ![w] = ButLast(@)]
    BY <1>8 DEF Trim, At, Go, answers
  <2>2. pc'[t] = "offer" /\ \A v \in Threads \ {t} : pc'[v] = pc[v]
    BY <1>a, <2>1 DEF TypeOK
  <2>3. ListsKnown /\ AcksListed /\ Pushing(t)
    BY <1>b, <1>c, <2>1, <2>2 DEF At
  <2>4. w \in Owners
    BY <1>a, <2>1 DEF GameSteps
  <2>5. /\ history[w] \in Seq(GameIds) /\ Sorted(history[w]) /\ Len(history[w]) > HistoryLimit
        /\ history[w][1] = req[t].gid
    BY <1>a, <2>1, <2>3, <2>4 DEF TypeOK, ListsKnown, Pushing, At
  <2>6. /\ history'[w] = ButLast(history[w])
        /\ \A u \in Owners \ {w} : history'[u] = history[u]
    BY <1>a, <2>1, <2>4 DEF TypeOK
  <2>7. /\ Sorted(history'[w])
        /\ \A k \in DOMAIN history'[w] : k \in DOMAIN history[w] /\ history'[w][k] = history[w][k]
        /\ Len(history'[w]) > 0 /\ history'[w][1] = history[w][1]
        /\ \A n \in GameIds : ListedOrPast(history[w], n) => ListedOrPast(history'[w], n)
    BY <2>5, <2>6, TrimKeeps
  <2>8. ListsKnown'
    BY <2>1, <2>3, <2>6, <2>7 DEF ListsKnown
  <2>9. AcksListed'
    <3> SUFFICES ASSUME NEW a \in ackGames PROVE ListedOrPast(history'[a.user], a.id)
      BY <2>1 DEF AcksListed
    <3>1. a.user \in Owners /\ a.id \in GameIds /\ ListedOrPast(history[a.user], a.id)
      BY <1>a, <2>3 DEF TypeOK, AcksListed
    <3> QED
      BY <2>6, <2>7, <3>1
  <2>10. Pushing(t)'
    BY <2>1, <2>2, <2>5, <2>7 DEF Pushing, At
  <2> QED
    BY <1>b, <1>d, <2>1, <2>2, <2>8, <2>9, <2>10 DEF At
(* The answer: the game is first in its list.                              *)
<1>9. ASSUME NEW t \in Threads, Offer(t) PROVE NewestKnown'
  <2>1. /\ overlap' = overlap /\ pc[t] = "offer"
        /\ history' = history /\ next_game' = next_game
        /\ pc' = [pc EXCEPT ![t] = "idle"]
        /\ ackGames' = ackGames \cup
             {[user |-> req[t].user, game |-> req[t].game, id |-> req[t].gid]}
    BY <1>9 DEF Offer, At, Return, Go, gameKeys
  <2>2. pc'[t] = "idle" /\ \A v \in Threads \ {t} : pc'[v] = pc[v]
    BY <1>a, <2>1 DEF TypeOK
  <2>3. ListsKnown /\ AcksListed /\ Pushing(t)
    BY <1>b, <1>c, <2>1, <2>2 DEF At
  <2>4. req[t].user \in Owners /\ history[req[t].user] \in Seq(GameIds)
    BY <1>a, <2>1 DEF GameSteps, TypeOK
  <2>5. 1 \in DOMAIN history[req[t].user] /\ history[req[t].user][1] = req[t].gid
    BY <2>1, <2>3, <2>4 DEF Pushing
  <2>6. ListedOrPast(history[req[t].user], req[t].gid)
    BY <2>5 DEF ListedOrPast
  <2>7. ListsKnown' /\ AcksListed'
    BY <2>1, <2>3, <2>6 DEF ListsKnown, AcksListed
  <2>8. Pushing(t)'
    BY <2>2 DEF Pushing, At
  <2> QED
    BY <1>b, <1>d, <2>1, <2>2, <2>7, <2>8 DEF At
<1>10. CASE Ended
  <2>1. /\ overlap' = overlap
        /\ history' = history /\ ackGames' = ackGames /\ next_game' = next_game
        /\ \A t \in Threads : pc'[t] = "idle"
    BY <1>10 DEF Ended, gameKeys, answers
  <2>2. \A t \in Threads : Pushing(t)'
    BY <2>1 DEF Pushing, At
  <2>3. ListsKnown' /\ AcksListed'
    BY <1>c, <1>e, <2>1
  <2> QED
    BY <2>2, <2>3 DEF NewestKnown, ListsKnown, AcksListed
<1>11. CASE UNCHANGED vars
  BY <1>11 DEF vars, gameKeys, answers, NewestKnown, Pushing, At
<1> QED
  BY <1>1, <1>2, <1>3, <1>4, <1>5, <1>6, <1>7, <1>8, <1>9, <1>10, <1>11 DEF AnyStep, Write, NewGame

(* As long as no two requests were served at once, a list is newest first, *)
(* and an answered game leaves it only for as many newer ones as the limit *)
(* allows: RPOP never takes the game that was just pushed.                 *)
THEOREM NewestCorrect == Spec => []NewestGamesListed
<1>1. Init => NamesKnown /\ NewestKnown
  BY Counts DEF Init, NamesKnown, NewestKnown, Sorted, Pushing, At
<1>2. IInv /\ NewestKnown => NewestGamesListed
  <2> SUFFICES ASSUME IInv, NewestKnown PROVE NewestGamesListed
    OBVIOUS
  <2>1. TypeOK
    BY DEF IInv
  <2>2. ASSUME NEW a \in ackGames, ~overlap
        PROVE  \/ \E k \in DOMAIN history[a.user] : history[a.user][k] = a.id
               \/ Cardinality({k \in DOMAIN history[a.user] : history[a.user][k] > a.id})
                    >= HistoryLimit
    <3> DEFINE s == history[a.user]
    <3>1. ListedOrPast(s, a.id)
      BY <2>2 DEF NewestKnown
    <3>2. s \in Seq(GameIds)
      BY <2>1 DEF TypeOK
    <3>3. CASE Len(s) >= HistoryLimit /\ \A k \in DOMAIN s : s[k] > a.id
      <4>1. {k \in DOMAIN s : s[k] > a.id} = 1 .. Len(s) /\ Len(s) \in Nat
        BY <3>2, <3>3
      <4>2. \A m \in Nat : Cardinality(1 .. m) = IF 1 > m THEN 0 ELSE m - 1 + 1
        BY FS_Interval
      <4>3. Cardinality(1 .. Len(s)) = Len(s)
        BY <4>1, <4>2
      <4> QED
        BY <3>3, <4>1, <4>3
    <3> QED
      BY <3>1, <3>3 DEF ListedOrPast
  <2>3. ASSUME NEW u \in Owners, ~overlap
        PROVE  \A k, l \in DOMAIN history[u] : k < l => history[u][k] > history[u][l]
    BY <2>3 DEF NewestKnown, Sorted
  <2> QED
    BY <2>2, <2>3, Zenon DEF NewestGamesListed
<1> QED
  BY <1>1, <1>2, NamesStep, NewestStep, StepOfRegistry, RegistryHolds, PTL DEF Spec
-----------------------------------------------------------------------------
(* The length of the lists, for any number of requests at once.            *)

(* Games not answered can be counted.                                      *)
LEMMA UnansweredFinite ==
  ASSUME NEW u \in Owners
  PROVE  /\ IsFiniteSet(Unanswered(u)) /\ Cardinality(Unanswered(u)) \in Nat
         /\ IsFiniteSet(Counted(u)) /\ Cardinality(Counted(u)) \in Nat
<1>1. Unanswered(u) \subseteq GameUuids /\ Counted(u) \subseteq GameUuids
  BY DEF Unanswered, Counted
<1> QED
  BY <1>1, RegistryAssumption, FS_Subset, FS_CardinalityType

(* One element less, or one more, changes the number by one.               *)
LEMMA OneLess ==
  ASSUME NEW S, IsFiniteSet(S), NEW T, IsFiniteSet(T), NEW x, S \subseteq T \cup {x}
  PROVE  /\ Cardinality(S) \in Nat /\ Cardinality(T) \in Nat
         /\ Cardinality(S) <= Cardinality(T) + 1
         /\ x \notin S => Cardinality(S) <= Cardinality(T)
         /\ x \in T /\ x \notin S => Cardinality(S) + 1 <= Cardinality(T)
<1>1. Cardinality(S) \in Nat /\ Cardinality(T) \in Nat
  BY FS_CardinalityType
<1>2. /\ IsFiniteSet(T \cup {x})
      /\ Cardinality(T \cup {x}) = IF x \in T THEN Cardinality(T) ELSE Cardinality(T) + 1
  BY FS_AddElement
<1>3. Cardinality(S) <= Cardinality(T \cup {x})
  BY <1>2, FS_Subset
<1>4. ASSUME x \notin S PROVE Cardinality(S) <= Cardinality(T)
  <2>1. S \subseteq T
    BY <1>4
  <2> QED
    BY <2>1, FS_Subset
<1>5. ASSUME x \in T, x \notin S PROVE Cardinality(S) + 1 <= Cardinality(T)
  <2>1. /\ IsFiniteSet(S \cup {x}) /\ Cardinality(S \cup {x}) = Cardinality(S) + 1
    BY <1>5, FS_AddElement
  <2>2. S \cup {x} \subseteq T
    BY <1>5
  <2> QED
    BY <2>1, <2>2, FS_Subset
<1> QED
  BY <1>1, <1>2, <1>3, <1>4, <1>5

(* LPUSH makes a list longer by the game it counts from then on; a thread  *)
(* that leaves the count has seen, or made, a list within the limit.       *)
LEMMA LengthsStep == IInv /\ LengthsKnown /\ [AnyStep]_vars => LengthsKnown'
<1> SUFFICES ASSUME IInv, LengthsKnown, [AnyStep]_vars PROVE LengthsKnown'
  OBVIOUS
<1>a. /\ TypeOK
      /\ \A t \in Threads : NewGameSound(t) /\ SignUpSound(t)
      /\ \A t, u \in Threads : t # u => GamesApart(t, u)
      /\ GamesOwned /\ IndexSound
  BY DEF IInv, RegistryInv, GameSide, UserSide
<1>b. \A t \in Threads : \A a \in ackGames : HasGame(t) => a.game # req[t].game
  BY DEF LengthsKnown
<1>c. \A u \in Owners : /\ Len(history[u]) \in Nat
                           /\ Len(history[u]) <= HistoryLimit + Cardinality(Counted(u))
  <2>1. \A u \in Owners : history[u] \in Seq(GameIds)
    BY <1>a DEF TypeOK
  <2> QED
    BY <2>1 DEF LengthsKnown
<1>l. HistoryLimit \in Nat /\ Absent \notin GameUuids \cup Owners
  BY RegistryAssumption DEF Owners
<1>m. \A t \in Threads : OutOfCount(t) => HasGame(t)
  BY DEF OutOfCount, HasGame
(* When no list is written, it is enough that no game leaves the count.    *)
<1>d. ASSUME history' = history, \A u \in Owners : Counted(u) \subseteq Counted(u)'
      PROVE  (\A u \in Owners : Len(history[u]) <= HistoryLimit + Cardinality(Counted(u)))'
  <2> SUFFICES ASSUME NEW u \in Owners
               PROVE  Len(history[u]) <= HistoryLimit + Cardinality(Counted(u)')
    BY <1>d
  <2>1. IsFiniteSet(Counted(u)')
    <3>1. Counted(u)' \subseteq GameUuids
      BY DEF Counted, Unanswered
    <3> QED
      BY <3>1, RegistryAssumption, FS_Subset
  <2>2. Cardinality(Counted(u)) <= Cardinality(Counted(u)') /\ Cardinality(Counted(u)') \in Nat
    BY <1>d, <2>1, FS_Subset, FS_CardinalityType
  <2> QED
    BY <1>c, <1>l, <2>2, UnansweredFinite
(* What leaves the answers and the owners of the written games alone.      *)
<1>e. ASSUME ackGames' = ackGames,
             \A g \in GameUuids : named[g] # Absent => named'[g] = named[g],
             NEW x,
             \A t \in Threads : OutOfCount(t)' =>
               req'[t].game = x \/ (OutOfCount(t) /\ req'[t].game = req[t].game)
      PROVE  \A u \in Owners : Counted(u) \ {x} \subseteq Counted(u)'
  <2> SUFFICES ASSUME NEW u \in Owners, NEW g \in Counted(u), g # x
               PROVE  g \in Counted(u)'
    OBVIOUS
  <2>1. /\ g \in GameUuids /\ named[g] = u
        /\ \A a \in ackGames : a.game # g
        /\ \A t \in Threads : OutOfCount(t) => req[t].game # g
    BY DEF Counted, Unanswered
  <2>2. named'[g] = named[g]
    BY <1>e, <1>l, <2>1
  <2>3. \A t \in Threads : OutOfCount(t)' => req'[t].game # g
    BY <1>e, <2>1
  <2> QED
    BY <1>e, <2>1, <2>2, <2>3 DEF Counted, Unanswered
(* Arrivals, sign-ups, look-ups, and the draw of a number: the thread that *)
(* moves holds no game that is written, or none at all.                    *)
<1>1. ASSUME NEW t \in Threads,
             \/ \E n \in Names : SignUp(t, n)
             \/ \E u \in Owners : StartGame(t, u)
             \/ NewUser(t) \/ FindUser(t) \/ IncrGame(t) \/ CommandRefused(t)
      PROVE  LengthsKnown'
  <2>1. /\ history' = history /\ ackGames' = ackGames /\ named' = named
    BY <1>1 DEF SignUp, StartGame, NewUser, CheckName, IncrUser, ReserveName, IndexUser,
                WriteUser, FindUser, IncrGame, CommandRefused, gameKeys, answers
  <2>3. /\ \A u \in Threads \ {t} : pc'[u] = pc[u] /\ req'[u] = req[u]
        /\ ~OutOfCount(t)'
        /\ HasGame(t)' => IncrGame(t)
    <3>1. pc'[t] \in SignUpSteps \cup {"idle", "hmget", "incr_game", "game"}
          /\ \A u \in Threads \ {t} : pc'[u] = pc[u]
      BY <1>1, <1>a DEF SignUp, StartGame, NewUser, CheckName, IncrUser, ReserveName, IndexUser,
                  WriteUser, FindUser, IncrGame, CommandRefused, Return, Go, TypeOK, SignUpSteps
    <3>2. pc'[t] = "game" => IncrGame(t)
      BY <1>1, <1>a DEF SignUp, StartGame, NewUser, CheckName, IncrUser, ReserveName, IndexUser,
                  WriteUser, FindUser, CommandRefused, Return, Go, TypeOK
    <3>3. \A u \in Threads \ {t} : req'[u] = req[u]
      BY <1>1, <1>a DEF SignUp, StartGame, NewUser, CheckName, IncrUser, ReserveName, IndexUser,
                  WriteUser, FindUser, IncrGame, CommandRefused, Return, TypeOK
    <3> QED
      BY <3>1, <3>2, <3>3 DEF OutOfCount, HasGame, SignUpSteps
  <2>4. \A u \in Owners : Counted(u) \subseteq Counted(u)'
    <3>1. \A u \in Owners : Counted(u) \ {Absent} \subseteq Counted(u)'
      BY <1>e, <2>1, <2>3 DEF OutOfCount
    <3>2. \A u \in Owners : Absent \notin Counted(u)
      BY <1>l DEF Counted, Unanswered
    <3> QED
      BY <3>1, <3>2
  <2>5. \A u \in Threads : HasGame(u)' => \A a \in ackGames' : a.game # req'[u].game
    <3> SUFFICES ASSUME NEW u \in Threads, HasGame(u)', NEW a \in ackGames
                 PROVE  a.game # req'[u].game
      BY <2>1
    <3>1. CASE u # t
      BY <1>b, <2>3, <3>1 DEF HasGame
    <3>2. CASE u = t
      <4>1. IncrGame(t)
        BY <2>3, <3>2
      <4>2. PICK g \in GameUuids \ drawn :
              req' = [req EXCEPT ![t].game = g, ![t].gid = next_game + 1]
        BY <4>1 DEF IncrGame
      <4>3. req'[t].game = g
        BY <1>a, <4>2 DEF TypeOK
      <4>4. a.game \in GameUuids /\ games[a.game].id = a.id /\ a.id \in GameIds
        BY <1>a DEF IndexSound, TypeOK
      <4>5. games[a.game] # NoGame
        BY <4>4, Counts DEF NoGame, GameIds
      <4> QED
        BY <1>a, <3>2, <4>2, <4>3, <4>4, <4>5 DEF GamesOwned
    <3> QED
      BY <3>1, <3>2
  <2> QED
    BY <1>d, <2>1, <2>4, <2>5 DEF LengthsKnown
(* The game's hash and index: the game is not counted before it is pushed. *)
<1>2. ASSUME NEW t \in Threads, WriteGame(t) \/ IndexGame(t) PROVE LengthsKnown'
  <2>1. /\ history' = history /\ ackGames' = ackGames /\ req' = req
        /\ \A u \in Threads \ {t} : pc'[u] = pc[u]
        /\ HasGame(t)
    BY <1>2, <1>a DEF WriteGame, IndexGame, answers, Go, TypeOK, HasGame, At
  <2>2. \A g \in GameUuids : named[g] # Absent => named'[g] = named[g]
    <3>1. CASE WriteGame(t)
      <4>1. named[req[t].game] = Absent /\ req[t].game \in GameUuids
        BY <1>a, <2>1, <3>1 DEF NewGameSound, GamesOwned, WriteGame, At
      <4> QED
        BY <1>a, <3>1, <4>1 DEF WriteGame, TypeOK
    <3>2. CASE IndexGame(t)
      BY <3>2 DEF IndexGame, answers
    <3> QED
      BY <1>2, <3>1, <3>2
  <2>3. \A u \in Owners : Counted(u) \ {req[t].game} \subseteq Counted(u)'
    <3>1. \A u \in Threads : OutOfCount(u)' =>
             req'[u].game = req[t].game \/ (OutOfCount(u) /\ req'[u].game = req[u].game)
      BY <2>1 DEF OutOfCount
    <3> QED
      BY <1>e, <2>1, <2>2, <3>1
  <2>4. \A u \in Owners : req[t].game \notin Counted(u)
    <3>1. CASE WriteGame(t)
      <4>1. named[req[t].game] = Absent
        BY <1>a, <2>1, <3>1 DEF NewGameSound, GamesOwned, WriteGame, At
      <4> QED
        BY <1>l, <4>1 DEF Counted, Unanswered
    <3>2. CASE IndexGame(t)
      BY <3>2 DEF IndexGame, At, OutOfCount, Counted
    <3> QED
      BY <1>2, <3>1, <3>2
  <2>5. \A u \in Threads : HasGame(u)' => \A a \in ackGames' : a.game # req'[u].game
    BY <1>b, <2>1 DEF HasGame
  <2>6. \A u \in Owners : Counted(u) \subseteq Counted(u)'
    BY <2>3, <2>4
  <2> QED
    BY <1>d, <2>1, <2>5, <2>6 DEF LengthsKnown
<1>3. ASSUME NEW t \in Threads, PushGame(t) PROVE LengthsKnown'
  <2> DEFINE w == req[t].user
             x == req[t].game
  <2>1. /\ ackGames' = ackGames /\ named' = named /\ req' = req
        /\ \A u \in Threads \ {t} : pc'[u] = pc[u]
        /\ HasGame(t) /\ pc[t] = "lpush" /\ pc'[t] = "llen"
        /\ history' = [history EXCEPT ![w] = <<req[t].gid>> \o @]
    BY <1>3, <1>a DEF PushGame, answers, Go, TypeOK, HasGame, At
  <2>2. /\ w \in Owners /\ x \in GameUuids /\ req[t].gid \in {0} \cup GameIds
        /\ named[x] = w
    BY <1>a, <2>1 DEF NewGameSound, HasOwner, At, GameSteps, TypeOK
  <2>4. /\ \A u \in Owners \ {w} : history'[u] = history[u]
        /\ Len(history'[w]) = Len(history[w]) + 1
    BY <1>a, <2>1, <2>2 DEF TypeOK
  <2>5. \A u \in Owners : Counted(u) \subseteq Counted(u)'
    <3>1. \A u \in Owners : Counted(u) \ {Absent} \subseteq Counted(u)'
      BY <1>e, <2>1 DEF OutOfCount
    <3>2. \A u \in Owners : Absent \notin Counted(u)
      BY <1>l DEF Counted, Unanswered
    <3> QED
      BY <3>1, <3>2
  <2>6. ASSUME NEW u \in Owners, u = w PROVE x \notin Counted(u) /\ x \in Counted(u)'
    <3>1. OutOfCount(t) /\ ~OutOfCount(t)'
      BY <2>1 DEF OutOfCount
    <3>2. \A v \in Threads : OutOfCount(v)' => req'[v].game # x
      BY <1>a, <1>m, <2>1, <3>1 DEF GamesApart, OutOfCount
    <3>3. \A a \in ackGames' : a.game # x
      BY <1>b, <2>1
    <3> QED
      BY <2>1, <2>2, <2>6, <3>1, <3>2, <3>3 DEF Counted, Unanswered
  <2>7. ASSUME NEW u \in Owners
        PROVE  /\ IsFiniteSet(Counted(u)) /\ Cardinality(Counted(u)) \in Nat
               /\ IsFiniteSet(Counted(u)') /\ Cardinality(Counted(u)') \in Nat
               /\ Cardinality(Counted(u)) <= Cardinality(Counted(u)')
    <3>1. Counted(u)' \subseteq GameUuids
      BY DEF Counted, Unanswered
    <3>2. IsFiniteSet(Counted(u)')
      BY <3>1, RegistryAssumption, FS_Subset
    <3>3. Counted(u) \subseteq Counted(u)'
      BY <2>5
    <3> QED
      BY <3>2, <3>3, UnansweredFinite, FS_Subset, FS_CardinalityType
  <2>8. ASSUME NEW u \in Owners
        PROVE  Len(history'[u]) <= HistoryLimit + Cardinality(Counted(u)')
    <3>1. CASE u = w
      <4>1. Counted(u) \subseteq Counted(u)' \cup {x}
        BY <2>5
      <4>2. x \notin Counted(u) /\ x \in Counted(u)'
        BY <2>6, <3>1
      <4>3. IsFiniteSet(Counted(u)) /\ IsFiniteSet(Counted(u)')
        BY <2>7
      <4> HIDE DEF x
      <4>4. Cardinality(Counted(u)) + 1 <= Cardinality(Counted(u)')
        BY <4>1, <4>2, <4>3, OneLess
      <4> QED
        BY <1>c, <1>l, <2>4, <2>7, <3>1, <4>4
    <3>2. CASE u # w
      BY <1>c, <1>l, <2>4, <2>7, <3>2
    <3> QED
      BY <3>1, <3>2
  <2>9. \A u \in Threads : HasGame(u)' => \A a \in ackGames' : a.game # req'[u].game
    BY <1>b, <2>1 DEF HasGame
  <2> QED
    BY <2>8, <2>9 DEF LengthsKnown
(* LLEN within the limit, or RPOP: the game is not needed any more.        *)
<1>4. ASSUME NEW t \in Threads, Measure(t) \/ Trim(t) PROVE LengthsKnown'
  <2> DEFINE w == req[t].user
             x == req[t].game
  <2>1. /\ ackGames' = ackGames /\ named' = named /\ req' = req
        /\ \A u \in Threads \ {t} : pc'[u] = pc[u]
        /\ HasGame(t) /\ pc[t] \in {"llen", "rpop"}
    BY <1>4, <1>a DEF Measure, Trim, answers, gameKeys, Go, TypeOK, HasGame, At
  <2>2. w \in Owners /\ x \in GameUuids /\ named[x] = w
    BY <1>a, <2>1 DEF NewGameSound, HasOwner, At, GameSteps, TypeOK
  <2>4. \A u \in Owners : Counted(u) \ {x} \subseteq Counted(u)'
    <3>1. \A u \in Threads : OutOfCount(u)' =>
             req'[u].game = x \/ (OutOfCount(u) /\ req'[u].game = req[u].game)
      BY <2>1 DEF OutOfCount
    <3> QED
      BY <1>e, <2>1, <3>1
  <2>5. \A u \in Owners \ {w} : x \notin Counted(u)
    BY <2>2 DEF Counted, Unanswered
  <2>6. \A u \in Owners : IsFiniteSet(Counted(u)') /\ IsFiniteSet(Counted(u))
    <3>1. \A u \in Owners : Counted(u)' \subseteq GameUuids /\ Counted(u) \subseteq GameUuids
      BY DEF Counted, Unanswered
    <3> QED
      BY <3>1, RegistryAssumption, FS_Subset
  <2>7. ASSUME NEW u \in Owners
        PROVE  /\ Cardinality(Counted(u)) \in Nat /\ Cardinality(Counted(u)') \in Nat
               /\ Cardinality(Counted(u)) <= Cardinality(Counted(u)') + 1
               /\ u # w => Cardinality(Counted(u)) <= Cardinality(Counted(u)')
               /\ OutOfCount(t)' \/ Cardinality(Counted(u)) <= Cardinality(Counted(u)')
    <3>1. Counted(u) \subseteq Counted(u)' \cup {x}
      BY <2>4
    <3>2. /\ Cardinality(Counted(u)) \in Nat /\ Cardinality(Counted(u)') \in Nat
          /\ Cardinality(Counted(u)) <= Cardinality(Counted(u)') + 1
          /\ x \notin Counted(u) => Cardinality(Counted(u)) <= Cardinality(Counted(u)')
      BY <2>6, <3>1, OneLess
    <3>3. ASSUME ~OutOfCount(t)' PROVE Cardinality(Counted(u)) <= Cardinality(Counted(u)')
      <4>1. Counted(u) \ {Absent} \subseteq Counted(u)'
        BY <1>e, <2>1, <3>3 DEF OutOfCount
      <4>2. Counted(u) \subseteq Counted(u)'
        BY <1>l, <4>1 DEF Counted, Unanswered
      <4> QED
        BY <2>6, <4>2, FS_Subset
    <3> QED
      BY <2>5, <3>2, <3>3
  <2>8. ASSUME NEW u \in Owners
        PROVE  Len(history'[u]) <= HistoryLimit + Cardinality(Counted(u)')
    <3>1. CASE Measure(t)
      <4>1. history' = history
            /\ (OutOfCount(t)' => Len(history[w]) <= HistoryLimit)
        BY <1>a, <1>c, <1>l, <2>2, <3>1 DEF Measure, gameKeys, Go, TypeOK, OutOfCount
      <4> QED
        BY <1>c, <1>l, <2>7, <4>1
    <3>2. CASE Trim(t)
      <4>1. /\ history' = [history EXCEPT ![w] = ButLast(history[w])]
            /\ history \in [Owners -> Seq(GameIds)]
        BY <1>a, <3>2 DEF Trim, TypeOK
      <4>2. /\ history'[w] = ButLast(history[w]) /\ history[w] \in Seq(GameIds)
            /\ u # w => history'[u] = history[u]
        BY <2>2, <4>1
      <4>3. Len(history'[w]) = IF Len(history[w]) = 0 THEN 0 ELSE Len(history[w]) - 1
        <5>1. CASE history[w] = <<>>
          BY <4>2, <5>1 DEF ButLast
        <5>2. CASE history[w] # <<>>
          BY <4>1, <4>2, <5>2 DEF ButLast
        <5> QED
          BY <4>1, <5>1, <5>2
      <4> QED
        BY <1>c, <1>l, <2>2, <2>7, <4>2, <4>3
    <3> QED
      BY <1>4, <3>1, <3>2
  <2>9. \A u \in Threads : HasGame(u)' => \A a \in ackGames' : a.game # req'[u].game
    BY <1>b, <2>1 DEF HasGame
  <2> QED
    BY <2>8, <2>9 DEF LengthsKnown
(* The answered game is not counted already.                               *)
<1>5. ASSUME NEW t \in Threads, Offer(t) PROVE LengthsKnown'
  <2> DEFINE x == req[t].game
             answer == [user |-> req[t].user, game |-> req[t].game, id |-> req[t].gid]
  <2>1. /\ ackGames' = ackGames \cup {answer}
        /\ history' = history /\ named' = named
        /\ \A u \in Threads \ {t} : pc'[u] = pc[u] /\ req'[u] = req[u]
        /\ HasGame(t) /\ OutOfCount(t) /\ pc'[t] = "idle"
    BY <1>5, <1>a DEF Offer, Return, gameKeys, Go, TypeOK, HasGame, OutOfCount, At
  <2>2. \A u \in Owners : Counted(u) \subseteq Counted(u)'
    <3> SUFFICES ASSUME NEW u \in Owners, NEW g \in Counted(u) PROVE g \in Counted(u)'
      OBVIOUS
    <3>1. g # x
      BY <2>1 DEF Counted
    <3>2. \A v \in Threads : OutOfCount(v)' => OutOfCount(v) /\ req'[v] = req[v]
      BY <2>1 DEF OutOfCount
    <3> QED
      BY <2>1, <3>1, <3>2 DEF Counted, Unanswered
  <2>3. \A u \in Threads : HasGame(u)' => \A a \in ackGames' : a.game # req'[u].game
    <3>1. \A u \in Threads : HasGame(u)' => u # t /\ HasGame(u) /\ req'[u] = req[u]
      BY <2>1 DEF HasGame
    <3> QED
      BY <1>a, <1>b, <2>1, <3>1 DEF GamesApart
  <2> QED
    BY <1>d, <2>1, <2>2, <2>3 DEF LengthsKnown
<1>6. CASE Ended
  <2>1. /\ ackGames' = ackGames /\ history' = history /\ named' = named
        /\ \A t \in Threads : pc'[t] = "idle"
    BY <1>6 DEF Ended, answers, gameKeys
  <2>2. \A t \in Threads : ~OutOfCount(t)' /\ ~HasGame(t)'
    BY <2>1 DEF OutOfCount, HasGame
  <2>3. \A u \in Owners : Counted(u) \subseteq Counted(u)'
    BY <2>1, <2>2 DEF Counted, Unanswered
  <2> QED
    BY <1>d, <2>1, <2>2, <2>3 DEF LengthsKnown
<1>7. CASE UNCHANGED vars
  BY <1>7 DEF vars, gameKeys, answers, LengthsKnown, Counted, Unanswered, OutOfCount,
              HasGame
<1> QED
  BY <1>1, <1>2, <1>3, <1>4, <1>5, <1>6, <1>7 DEF AnyStep, Write, NewGame

(* What the counted games allow, the unanswered ones do.                   *)
LEMMA LengthsWithinLimit == IInv /\ LengthsKnown => HistoryWithinLimit
<1> SUFFICES ASSUME IInv, LengthsKnown, NEW u \in Owners
             PROVE  Len(history[u]) <= HistoryLimit + Cardinality(Unanswered(u))
  BY DEF HistoryWithinLimit
<1>1. Counted(u) \subseteq Unanswered(u)
  BY DEF Counted
<1>2. Cardinality(Counted(u)) <= Cardinality(Unanswered(u))
  BY <1>1, UnansweredFinite, FS_Subset
<1>3. Len(history[u]) \in Nat
  BY DEF IInv, TypeOK
<1> QED
  BY <1>2, <1>3, UnansweredFinite, RegistryAssumption DEF LengthsKnown

(* No list of games outgrows the limit by more than the games of the same  *)
(* owner that were not answered: LLEN and RPOP of several threads never     *)
(* leave a list longer than the requests in flight or cut short explain.   *)
THEOREM HistoryCorrect == Spec => []HistoryWithinLimit
<1>1. Init => LengthsKnown
  <2> SUFFICES ASSUME Init PROVE LengthsKnown
    OBVIOUS
  <2>1. \A u \in Owners : Len(history[u]) = 0
    BY DEF Init
  <2> QED
    BY <2>1, UnansweredFinite, RegistryAssumption DEF Init, LengthsKnown, HasGame
<1> QED
  BY <1>1, LengthsWithinLimit, LengthsStep, StepOfRegistry, RegistryHolds, PTL DEF Spec
-----------------------------------------------------------------------------
(* Registry implements Directory.                                          *)

LeadHome == IdsLeadHome /\ NamesLeadHome

(* A step that writes no index and no user's hash, and gives nobody a uuid *)
(* to write, leaves every entry leading home.                              *)
LEMMA LeadHomeKept ==
  ASSUME TypeOK, LeadHome, UNCHANGED <<usernames, userids, users>>, drawn \subseteq drawn',
         \A t \in Threads :
           HasUser(t)' => /\ HasUser(t) /\ req'[t].user = req[t].user
                          /\ req'[t].id = req[t].id /\ req'[t].name = req[t].name
  PROVE  LeadHome'
<1>1. IdsLeadHome'
  BY DEF LeadHome, IdsLeadHome
<1>2. NamesLeadHome'
  BY DEF LeadHome, NamesLeadHome
<1> QED
  BY <1>1, <1>2 DEF LeadHome

(* Every handler keeps it: a uuid is drawn once, and each index is written *)
(* with the id and the name that the hash will hold.                       *)
LEMMA LeadHomeStep == IInv /\ LeadHome /\ [AnyStep]_vars => LeadHome'
<1> SUFFICES ASSUME IInv, LeadHome, [AnyStep]_vars PROVE LeadHome'
  OBVIOUS
<1>a. /\ TypeOK
      /\ \A t \in Threads : SignUpSound(t)
      /\ \A t, u \in Threads : t # u => UsersApart(t, u)
  BY DEF IInv, RegistryInv, UserSide
<1>b. ASSUME NEW t \in Threads, Return(t),
             UNCHANGED <<userKeys, gameKeys, drawn, answers, overlap>>
      PROVE  LeadHome'
  <2>1. pc'[t] = "idle" /\ \A u \in Threads \ {t} : pc'[u] = pc[u] /\ req'[u] = req[u]
    BY <1>a, <1>b DEF Return, Go, TypeOK
  <2> QED
    BY <1>a, <1>b, <2>1, LeadHomeKept DEF HasUser, userKeys
(* An action that moves a thread without a new user.                       *)
<1>c. ASSUME NEW t \in Threads, UNCHANGED <<usernames, userids, users>>,
             drawn \subseteq drawn',
             \A u \in Threads \ {t} : pc'[u] = pc[u] /\ req'[u] = req[u],
             pc'[t] \notin {"hsetnx", "userids", "user"}
      PROVE  LeadHome'
  BY <1>a, <1>c, LeadHomeKept DEF HasUser
<1>1. ASSUME NEW t \in Threads,
             \/ \E n \in Names : SignUp(t, n)
             \/ \E u \in Owners : StartGame(t, u)
             \/ CheckName(t) \/ NewGame(t)
      PROVE  LeadHome'
  <2>1. CASE Return(t) /\ UNCHANGED <<userKeys, gameKeys, drawn, answers, overlap>>
    BY <1>b, <2>1
  <2>2. CASE ~Return(t)
    <3>1. /\ UNCHANGED <<usernames, userids, users>> /\ drawn \subseteq drawn'
          /\ \A u \in Threads \ {t} : pc'[u] = pc[u] /\ req'[u] = req[u]
          /\ pc'[t] \notin {"hsetnx", "userids", "user"}
      BY <1>1, <1>a, <2>2 DEF SignUp, StartGame, CheckName, NewGame, FindUser, IncrGame, WriteGame,
         IndexGame, PushGame, Measure, Trim, Offer, Go, TypeOK, userKeys
    <3> QED
      BY <1>c, <3>1
  <2>3. CASE Offer(t)
    <3>1. /\ UNCHANGED <<usernames, userids, users, drawn>> /\ pc'[t] = "idle"
          /\ \A u \in Threads \ {t} : pc'[u] = pc[u] /\ req'[u] = req[u]
      BY <1>a, <2>3 DEF Offer, Return, Go, TypeOK, userKeys
    <3> QED
      BY <1>c, <3>1
  <2>4. CASE Return(t) /\ ~Offer(t)
    <3>1. pc'[t] = "idle"
      BY <1>a, <2>4 DEF Return, Go, TypeOK
    <3>2. UNCHANGED <<userKeys, gameKeys, drawn, answers, overlap>>
      BY <1>1, <1>a, <2>4, <3>1 DEF SignUp, StartGame, CheckName, NewGame, FindUser, IncrGame,
         WriteGame, IndexGame, PushGame, Measure, Trim, Go, TypeOK
    <3> QED
      BY <2>1, <2>4, <3>2
  <2> QED
    BY <2>2, <2>3, <2>4
<1>2. ASSUME NEW t \in Threads, IncrUser(t) PROVE LeadHome'
  <2>1. PICK x \in UserUuids \ drawn :
          /\ drawn' = drawn \cup {x}
          /\ req' = [req EXCEPT ![t].user = x, ![t].id = next_user + 1]
    BY <1>2 DEF IncrUser
  <2>2. /\ pc'[t] = "hsetnx" /\ req'[t].user = x /\ UNCHANGED <<usernames, userids, users>>
        /\ \A u \in Threads \ {t} : pc'[u] = pc[u] /\ req'[u] = req[u]
    BY <1>a, <1>2, <2>1 DEF IncrUser, Go, TypeOK
  <2>3. \A u \in Threads \ {t} : HasUser(u)' => HasUser(u)
    BY <2>2 DEF HasUser
  <2>4. ASSUME NEW i \in UserIds, userids[i] # Absent, NEW u \in Threads,
               HasUser(u)', req'[u].user = userids[i]
        PROVE  req'[u].id = i
    <3>1. userids[i] \in drawn
      BY <2>4 DEF LeadHome, IdsLeadHome
    <3>2. u # t
      BY <2>1, <2>2, <2>4, <3>1
    <3> QED
      BY <2>2, <2>3, <2>4, <3>2 DEF LeadHome, IdsLeadHome
  <2>5. ASSUME NEW n \in Names, usernames[n] # Absent, NEW u \in Threads,
               HasUser(u)', req'[u].user = usernames[n]
        PROVE  req'[u].name = n
    <3>1. usernames[n] \in drawn
      BY <2>5 DEF LeadHome, NamesLeadHome
    <3>2. u # t
      BY <2>1, <2>2, <2>5, <3>1
    <3> QED
      BY <2>2, <2>3, <2>5, <3>2 DEF LeadHome, NamesLeadHome
  <2>6. IdsLeadHome'
    <3> SUFFICES ASSUME NEW i \in UserIds, userids[i] # Absent
                 PROVE  /\ userids[i] \in drawn'
                        /\ users[userids[i]] # NoUser => users[userids[i]].id = i
                        /\ \A u \in Threads :
                             HasUser(u)' /\ req'[u].user = userids[i] => req'[u].id = i
      BY <2>2 DEF IdsLeadHome
    <3> QED
      BY <2>1, <2>4 DEF LeadHome, IdsLeadHome
  <2>7. NamesLeadHome'
    <3> SUFFICES ASSUME NEW n \in Names, usernames[n] # Absent
                 PROVE  /\ usernames[n] \in drawn'
                        /\ users[usernames[n]] # NoUser => users[usernames[n]].name = n
                        /\ \A u \in Threads :
                             HasUser(u)' /\ req'[u].user = usernames[n] => req'[u].name = n
      BY <2>2 DEF NamesLeadHome
    <3> QED
      BY <2>1, <2>5 DEF LeadHome, NamesLeadHome
  <2> QED
    BY <2>6, <2>7 DEF LeadHome
<1>3. ASSUME NEW t \in Threads, ReserveName(t) PROVE LeadHome'
  <2>1. /\ HasUser(t) /\ UNCHANGED <<userids, users, req, drawn>> /\ pc'[t] = "userids"
        /\ \A u \in Threads \ {t} : pc'[u] = pc[u]
    BY <1>a, <1>3 DEF ReserveName, At, Go, HasUser, TypeOK
  <2>2. req[t].user \in drawn /\ users[req[t].user] = NoUser
    BY <1>a, <2>1 DEF SignUpSound
  <2>3. \A u \in Threads : HasUser(u)' => HasUser(u)
    BY <2>1 DEF HasUser
  <2>4. \A u \in Threads : HasUser(u) /\ req[u].user = req[t].user => u = t
    BY <1>a, <2>1 DEF UsersApart
  <2>5. \A n \in Names : usernames'[n] =
          IF n = req[t].name /\ usernames[n] = Absent THEN req[t].user ELSE usernames[n]
    BY <1>a, <1>3 DEF ReserveName, TypeOK
  <2>6. IdsLeadHome'
    BY <2>1, <2>3 DEF LeadHome, IdsLeadHome
  <2>7. NamesLeadHome'
    BY <2>1, <2>2, <2>3, <2>4, <2>5 DEF LeadHome, NamesLeadHome
  <2> QED
    BY <2>6, <2>7 DEF LeadHome
<1>4. ASSUME NEW t \in Threads, IndexUser(t) PROVE LeadHome'
  <2>1. /\ HasUser(t) /\ UNCHANGED <<usernames, users, req, drawn>> /\ pc'[t] = "user"
        /\ \A u \in Threads \ {t} : pc'[u] = pc[u]
    BY <1>a, <1>4 DEF IndexUser, At, Go, HasUser, TypeOK
  <2>2. req[t].user \in drawn /\ users[req[t].user] = NoUser
    BY <1>a, <2>1 DEF SignUpSound
  <2>3. \A u \in Threads : HasUser(u)' => HasUser(u)
    BY <2>1 DEF HasUser
  <2>4. \A u \in Threads : HasUser(u) /\ req[u].user = req[t].user => u = t
    BY <1>a, <2>1 DEF UsersApart
  <2>5. \A i \in UserIds : userids'[i] = IF i = req[t].id THEN req[t].user ELSE userids[i]
    BY <1>a, <1>4 DEF IndexUser, TypeOK
  <2>6. IdsLeadHome'
    BY <2>1, <2>2, <2>3, <2>4, <2>5 DEF LeadHome, IdsLeadHome
  <2>7. NamesLeadHome'
    BY <2>1, <2>3 DEF LeadHome, NamesLeadHome
  <2> QED
    BY <2>6, <2>7 DEF LeadHome
<1>5. ASSUME NEW t \in Threads, WriteUser(t) PROVE LeadHome'
  <2>1. /\ HasUser(t) /\ UNCHANGED <<usernames, userids, drawn>> /\ pc'[t] = "idle"
        /\ \A u \in Threads \ {t} : pc'[u] = pc[u] /\ req'[u] = req[u]
    BY <1>a, <1>5 DEF WriteUser, At, Return, Go, HasUser, TypeOK
  <2>2. \A u \in Threads : HasUser(u)' => HasUser(u) /\ req'[u] = req[u]
    BY <2>1 DEF HasUser
  <2>3. \A v \in UserUuids : users'[v] =
          IF v = req[t].user THEN [id |-> req[t].id, name |-> req[t].name] ELSE users[v]
    BY <1>a, <1>5 DEF WriteUser, TypeOK
  <2>4. IdsLeadHome'
    <3>1. \A i \in UserIds : userids[i] # Absent => userids[i] \in UserUuids
      BY <1>a DEF TypeOK
    <3> QED
      BY <2>1, <2>2, <2>3, <3>1 DEF LeadHome, IdsLeadHome
  <2>5. NamesLeadHome'
    <3>1. \A n \in Names : usernames[n] # Absent => usernames[n] \in UserUuids
      BY <1>a DEF TypeOK
    <3> QED
      BY <2>1, <2>2, <2>3, <3>1 DEF LeadHome, NamesLeadHome
  <2> QED
    BY <2>4, <2>5 DEF LeadHome
<1>6. ASSUME NEW t \in Threads, CommandRefused(t) PROVE LeadHome'
  BY <1>6, <1>b DEF CommandRefused
<1>7. CASE Ended
  BY <1>7, <1>a, LeadHomeKept DEF Ended, HasUser, userKeys
<1>8. CASE UNCHANGED vars
  BY <1>8, <1>a, LeadHomeKept DEF vars, userKeys, HasUser
<1> QED
  BY <1>1, <1>2, <1>3, <1>4, <1>5, <1>6, <1>7, <1>8 DEF AnyStep, Write, NewUser

(* No number of a game is in two hashes: a thread that is about to write   *)
(* one has a number that was drawn for it alone.                           *)
LEMMA NumbersStep == IInv /\ NumbersApart /\ [AnyStep]_vars => NumbersApart'
<1> SUFFICES ASSUME IInv, NumbersApart, [AnyStep]_vars PROVE NumbersApart'
  OBVIOUS
<1>a. TypeOK /\ GamesOwned /\ \A t, u \in Threads : t # u => GamesApart(t, u)
  BY DEF IInv, RegistryInv, GameSide
(* A step that writes no game and brings no thread to "game".              *)
<1>b. ASSUME UNCHANGED games,
             \A t \in Threads : At(t, "game")' => At(t, "game") /\ req'[t].gid = req[t].gid
      PROVE  NumbersApart'
  BY <1>b DEF NumbersApart
<1>c. ASSUME NEW t \in Threads, UNCHANGED games, pc'[t] # "game",
             \A u \in Threads \ {t} : pc'[u] = pc[u] /\ req'[u] = req[u]
      PROVE  NumbersApart'
  <2>1. \A u \in Threads : At(u, "game")' => At(u, "game") /\ req'[u].gid = req[u].gid
    BY <1>c DEF At
  <2> QED
    BY <1>b, <1>c, <2>1
<1>1. ASSUME NEW t \in Threads,
             \/ \E n \in Names : SignUp(t, n)
             \/ \E u \in Owners : StartGame(t, u)
             \/ NewUser(t) \/ FindUser(t) \/ IndexGame(t) \/ PushGame(t) \/ Measure(t)
             \/ Trim(t) \/ Offer(t) \/ CommandRefused(t)
      PROVE  NumbersApart'
  <2>1. games' = games
    BY <1>1 DEF SignUp, StartGame, NewUser, CheckName, IncrUser, ReserveName, IndexUser, WriteUser,
       FindUser, IndexGame, PushGame, Measure, Trim, Offer, CommandRefused, gameKeys
  <2>2. /\ pc'[t] # "game"
        /\ \A u \in Threads \ {t} : pc'[u] = pc[u] /\ req'[u] = req[u]
    BY <1>1, <1>a DEF SignUp, StartGame, NewUser, CheckName, IncrUser, ReserveName, IndexUser,
       WriteUser, FindUser, IndexGame, PushGame, Measure, Trim, Offer, CommandRefused, Go, Return,
       TypeOK
  <2> QED
    BY <1>c, <2>1, <2>2
<1>2. ASSUME NEW t \in Threads, IncrGame(t) PROVE NumbersApart'
  <2>1. /\ UNCHANGED games
        /\ \A u \in Threads \ {t} : pc'[u] = pc[u] /\ req'[u] = req[u]
        /\ req'[t].gid = next_game + 1
    BY <1>2, <1>a DEF IncrGame, Go, TypeOK
  <2>2. next_game \in Nat
    BY <1>a, Counts DEF TypeOK, GameIds
  <2>3. \A g \in GameUuids : games[g].id # next_game + 1
    <3> SUFFICES ASSUME NEW g \in GameUuids, games[g].id = next_game + 1 PROVE FALSE
      OBVIOUS
    <3>1. CASE games[g] = NoGame
      BY <2>2, <3>1 DEF NoGame
    <3>2. CASE games[g] # NoGame
      BY <1>a, <2>2, <3>2 DEF GamesOwned
    <3> QED
      BY <3>1, <3>2
  <2> QED
    BY <2>1, <2>3 DEF NumbersApart, At
<1>3. ASSUME NEW t \in Threads, WriteGame(t) PROVE NumbersApart'
  <2>1. /\ req' = req /\ pc'[t] = "gameids" /\ At(t, "game") /\ HasGame(t)
        /\ \A u \in Threads \ {t} : pc'[u] = pc[u]
    BY <1>3, <1>a DEF WriteGame, Go, At, HasGame, TypeOK
  <2>2. \A g \in GameUuids : games'[g] =
          IF g = req[t].game THEN [id |-> req[t].gid, userid |-> req[t].id] ELSE games[g]
    BY <1>3, <1>a DEF WriteGame, TypeOK
  <2>3. \A g \in GameUuids : games[g].id # req[t].gid
    BY <2>1 DEF NumbersApart
  <2>4. ASSUME NEW g \in GameUuids, NEW h \in GameUuids,
               games'[g] # NoGame, games'[g].id = games'[h].id
        PROVE  g = h
    BY <2>2, <2>3, <2>4 DEF NumbersApart
  <2>5. ASSUME NEW u \in Threads, At(u, "game")', NEW g \in GameUuids
        PROVE  games'[g].id # req'[u].gid
    <3>1. u # t /\ At(u, "game") /\ HasGame(u)
      BY <2>1, <2>5 DEF At, HasGame
    <3>2. req[u].gid # req[t].gid
      BY <1>a, <2>1, <3>1 DEF GamesApart
    <3> QED
      BY <2>1, <2>2, <3>1, <3>2 DEF NumbersApart
  <2> QED
    BY <2>4, <2>5 DEF NumbersApart
<1>4. CASE Ended
  BY <1>4, <1>b DEF Ended, At, gameKeys
<1>5. CASE UNCHANGED vars
  BY <1>5, <1>b DEF vars, gameKeys, At
<1> QED
  BY <1>1, <1>2, <1>3, <1>4, <1>5 DEF AnyStep, Write, NewGame

(* An owner is known by its kind and number.                               *)
OneKey == \A u, w \in Owners : IdOf(u) # 0 /\ KeyOf[u] = KeyOf[w] => u = w

LEMMA KeysApart == IInv /\ NumbersApart => OneKey
<1> SUFFICES ASSUME IInv, NumbersApart, NEW u \in Owners, NEW w \in Owners,
                    IdOf(u) # 0, KeyOf[u] = KeyOf[w]
             PROVE  u = w
  BY DEF OneKey
<1>a. TypeOK /\ UsersIndexed
  BY DEF IInv, RegistryInv, UserSide
<1>1. IdOf(u) = IdOf(w) /\ (u \in UserUuids <=> w \in UserUuids)
  BY DEF KeyOf
<1>2. CASE u \in UserUuids
  <2>1. users[u].id = users[w].id /\ users[u].id # 0 /\ w \in UserUuids
    BY <1>1, <1>2 DEF IdOf
  <2>2. users[u] # NoUser /\ users[w] # NoUser
    BY <2>1 DEF NoUser
  <2> QED
    BY <1>a, <1>2, <2>1, <2>2 DEF UsersIndexed
<1>3. CASE u \notin UserUuids
  <2>1. games[u].id = games[w].id /\ games[u].id # 0 /\ u \in GameUuids /\ w \in GameUuids
    BY <1>1, <1>3 DEF IdOf, Owners
  <2>2. games[u] # NoGame
    BY <2>1 DEF NoGame
  <2> QED
    BY <2>1, <2>2 DEF NumbersApart
<1> QED
  BY <1>2, <1>3

(* The list under a key is that of the one owner who has it.               *)
LEMMA UnderKey ==
  ASSUME NEW key, NEW lists, NEW u \in Owners, \A w \in Owners : key[w] = key[u] => w = u
  PROVE  Under(key[u], key, lists) = lists[u]
<1> DEFINE holders == {w \in Owners : lists[w] # <<>> /\ key[w] = key[u]}
<1>1. CASE lists[u] = <<>>
  <2>1. holders = {}
    BY <1>1
  <2> QED
    BY <1>1, <2>1 DEF Under
<1>2. CASE lists[u] # <<>>
  <2>1. holders = {u}
    BY <1>2
  <2>2. (CHOOSE w \in holders : TRUE) = u
    BY <2>1
  <2> QED
    BY <2>1, <2>2 DEF Under
<1> QED
  BY <1>1, <1>2

(* Numbers once written stay, so a key keeps its list but for what is      *)
(* written to it, and a new owner starts with none.                        *)
LEMMA ListsAfter ==
  ASSUME OneKey, OneKey',
         \A u \in Owners : IdOf(u) # 0 => IdOf(u)' = IdOf(u),
         \A u \in Owners : IdOf(u) = 0 => history'[u] = <<>>
  PROVE  \A o \in Keys :
           IF \E u \in Owners : KeyOf[u] = o
           THEN \A u \in Owners : KeyOf[u] = o =>
                  IdOf(u) # 0 /\ ListOf[o] = history[u] /\ ListOf'[o] = history'[u]
           ELSE ListOf[o] = <<>> /\ ListOf'[o] = <<>>
<1> SUFFICES ASSUME NEW o \in Keys
             PROVE  IF \E u \in Owners : KeyOf[u] = o
                    THEN \A u \in Owners : KeyOf[u] = o =>
                           IdOf(u) # 0 /\ ListOf[o] = history[u] /\ ListOf'[o] = history'[u]
                    ELSE ListOf[o] = <<>> /\ ListOf'[o] = <<>>
  OBVIOUS
<1>1. o[2] # 0
  BY Counts DEF Keys, UserIds, GameIds
<1>2. ListOf[o] = Under(o, KeyOf, history) /\ ListOf'[o] = Under(o, KeyOf', history')
  BY DEF ListOf
<1>3. \A u \in Owners : (KeyOf[u] = o => IdOf(u) = o[2]) /\ (KeyOf'[u] = o => IdOf(u)' = o[2])
  BY DEF KeyOf
<1>4. \A u \in Owners : IdOf(u)' = IdOf(u) => KeyOf'[u] = KeyOf[u]
  BY DEF KeyOf
<1>5. ASSUME NEW u \in Owners, KeyOf[u] = o
      PROVE  IdOf(u) # 0 /\ ListOf[o] = history[u] /\ ListOf'[o] = history'[u]
  <2>1. IdOf(u) # 0 /\ IdOf(u)' = IdOf(u) /\ KeyOf'[u] = o
    BY <1>1, <1>3, <1>4, <1>5
  <2>2. \A w \in Owners : KeyOf[w] = KeyOf[u] => w = u
    BY <2>1 DEF OneKey
  <2>3. \A w \in Owners : KeyOf'[w] = KeyOf'[u] => w = u
    BY <2>1 DEF OneKey
  <2>4. Under(o, KeyOf, history) = history[u]
    BY <1>5, <2>2, UnderKey
  <2>5. Under(o, KeyOf', history') = history'[u]
    BY <2>1, <2>3, UnderKey
  <2> QED
    BY <1>2, <2>1, <2>4, <2>5
<1>6. ASSUME \A u \in Owners : KeyOf[u] # o
      PROVE  ListOf[o] = <<>> /\ ListOf'[o] = <<>>
  <2>1. ListOf[o] = <<>>
    BY <1>2, <1>6 DEF Under
  <2>2. CASE \A u \in Owners : KeyOf'[u] # o
    <3>1. Under(o, KeyOf', history') = <<>>
      BY <2>2 DEF Under
    <3> QED
      BY <1>2, <2>1, <3>1
  <2>3. ASSUME NEW u \in Owners, KeyOf'[u] = o PROVE ListOf'[o] = <<>>
    <3>1. IdOf(u)' # 0 /\ IdOf(u) = 0
      BY <1>1, <1>3, <1>4, <1>6, <2>3
    <3>2. \A w \in Owners : KeyOf'[w] = KeyOf'[u] => w = u
      BY <3>1 DEF OneKey
    <3>3. Under(o, KeyOf', history') = history'[u]
      BY <2>3, <3>2, UnderKey
    <3> QED
      BY <1>2, <3>1, <3>3
  <2> QED
    BY <2>1, <2>2, <2>3
<1> QED
  BY <1>5, <1>6

(* A step that writes no list.                                             *)
LEMMA ListsKept ==
  ASSUME TypeOK, OneKey, OneKey', UNCHANGED history,
         \A u \in Owners : IdOf(u) # 0 => IdOf(u)' = IdOf(u),
         \A u \in Owners : IdOf(u) = 0 => history[u] = <<>>
  PROVE  ListOf' = ListOf
<1>1. \A o \in Keys :
        IF \E u \in Owners : KeyOf[u] = o
        THEN \A u \in Owners : KeyOf[u] = o =>
               IdOf(u) # 0 /\ ListOf[o] = history[u] /\ ListOf'[o] = history'[u]
        ELSE ListOf[o] = <<>> /\ ListOf'[o] = <<>>
  BY ListsAfter
<1>2. \A o \in Keys : ListOf'[o] = ListOf[o]
  BY <1>1
<1>3. ListOf = [o \in Keys |-> ListOf[o]] /\ ListOf' = [o \in Keys |-> ListOf'[o]]
  BY DEF ListOf
<1> QED
  BY <1>2, <1>3

(* Nobody and nothing is found at first.                                   *)
LEMMA DirectoryEmpty == Init => LeadHome /\ NumbersApart /\ Dir!DirInit
<1> SUFFICES ASSUME Init PROVE LeadHome /\ NumbersApart /\ Dir!DirInit
  OBVIOUS
<1>1. LeadHome /\ NumbersApart
  BY DEF Init, LeadHome, IdsLeadHome, NamesLeadHome, NumbersApart, At
<1>2. /\ \A i \in UserIds : FindUserById(i) = NoUser
      /\ \A n \in Names : FindUserByName(n) = NoUser
      /\ \A g \in GameIds : FindGameById(g) = NoGame /\ gameids[g] = Absent
  BY DEF Init, FindUserById, FindUserByName, FindGameById
<1>3. \A o \in Keys : Under(o, KeyOf, history) = <<>>
  BY DEF Init, Under
<1>4. PersonOf = [i \in UserIds |-> NoUser] /\ NamedPerson = [n \in Names |-> NoUser]
  BY <1>2 DEF PersonOf, NamedPerson
<1>5. GameOf = [g \in GameIds |-> NoGame] /\ OwnerOf = [g \in GameIds |-> Absent]
  BY <1>2 DEF GameOf, OwnerOf
<1>6. ListOf = [o \in Keys |-> <<>>]
  BY <1>3 DEF ListOf
<1>7. Dir!DirInit
  BY <1>4, <1>5, <1>6 DEF Dir!DirInit
<1> QED
  BY <1>1, <1>7

(* Nothing was pushed for a uuid that no hash is written under.            *)
LEMMA NoListYet ==
  ASSUME IInv, NEW u \in Owners, IdOf(u) = 0
  PROVE  history[u] = <<>>
<1>a. TypeOK /\ GamesOwned /\ IndexSound
  BY DEF IInv, RegistryInv, GameSide
<1>1. history[u] \in Seq(GameIds)
  BY <1>a DEF TypeOK
<1>2. ASSUME NEW k \in DOMAIN history[u] PROVE FALSE
  <2> DEFINE i == history[u][k]
             g == gameids[i]
  <2>1. i \in GameIds /\ i # 0
    BY <1>1, Counts DEF GameIds
  <2>2. g # Absent /\ named[g] = u
    BY <1>a DEF IndexSound
  <2>3. g \in GameUuids /\ games[g].id = i
    BY <1>a, <2>1, <2>2 DEF TypeOK, IndexSound, FindGameById
  <2>4. games[g] # NoGame
    BY <2>1, <2>3 DEF NoGame
  <2>5. IdOf(named[g]) # 0
    BY <1>a, <2>3, <2>4 DEF GamesOwned
  <2> QED
    BY <2>2, <2>5
<1>3. 1 \notin DOMAIN history[u]
  BY <1>2
<1> QED
  BY <1>1, <1>3

(* A game that is found has the same owner after any step that leaves its  *)
(* hash and its owner's number alone.                                      *)
LEMMA OwnersKept ==
  ASSUME IInv, UNCHANGED gameids,
         \A g \in GameUuids : games[g] # NoGame => named'[g] = named[g],
         \A u \in Owners : IdOf(u) # 0 => IdOf(u)' = IdOf(u)
  PROVE  OwnerOf' = OwnerOf
<1>a. TypeOK /\ GamesOwned /\ IndexSound
  BY DEF IInv, RegistryInv, GameSide
<1> SUFFICES ASSUME NEW i \in GameIds, gameids[i] # Absent
             PROVE  (KeyOf')[named'[gameids[i]]] = KeyOf[named[gameids[i]]]
  BY DEF OwnerOf
<1> DEFINE g == gameids[i]
<1>1. g \in GameUuids /\ games[g].id = i /\ i # 0
  BY <1>a, Counts DEF TypeOK, IndexSound, FindGameById, GameIds
<1>2. games[g] # NoGame
  BY <1>1 DEF NoGame
<1>3. named[g] \in Owners /\ IdOf(named[g]) # 0 /\ named'[g] = named[g]
  BY <1>a, <1>1, <1>2 DEF GamesOwned
<1> HIDE DEF g
<1>4. PICK u \in Owners : u = named[g]
  BY <1>3
<1>5. IdOf(u)' = IdOf(u)
  BY <1>3, <1>4
<1>6. (KeyOf')[u] = KeyOf[u]
  BY <1>5 DEF KeyOf
<1> QED
  BY <1>3, <1>4, <1>6 DEF g

(* Writing the user's hash is the moment a sign-up is done.                *)
LEMMA WriteUserJoins ==
  ASSUME IInv, LeadHome, OneKey, OneKey', NEW t \in Threads, WriteUser(t)
  PROVE  Dir!DirStep
<1> DEFINE i == req[t].id
           n == req[t].name
           v == req[t].user
           p == [id |-> i, name |-> n]
<1>1. /\ TypeOK /\ SignUpSound(t) /\ HasUser(t) /\ At(t, "user") /\ pc[t] \in SignUpSteps
  BY DEF IInv, RegistryInv, UserSide, WriteUser, At, HasUser, SignUpSteps
<1>2. n \in Names /\ v \in UserUuids /\ users[v] = NoUser /\ userids[i] = v
  BY <1>1 DEF SignUpSound
<1>3. i \in UserIds /\ i # 0
  <2>1. i \in 1 .. next_user /\ next_user \in {0} \cup UserIds
    BY <1>1 DEF SignUpSound, TypeOK
  <2> QED
    BY <2>1, Counts DEF UserIds
<1>4. /\ \A w \in UserUuids : users'[w] = IF w = v THEN p ELSE users[w]
      /\ UNCHANGED <<usernames, userids, gameids, games, history, named>>
  BY <1>1 DEF WriteUser, TypeOK, gameKeys
<1>5. \A j \in UserIds : userids[j] = v => j = i
  BY <1>1, <1>2, RegistryAssumption DEF LeadHome, IdsLeadHome
<1>6. \A m \in Names : usernames[m] = v => m = n
  BY <1>1, <1>2, RegistryAssumption DEF LeadHome, NamesLeadHome
<1>7. v # Absent
  BY <1>2, RegistryAssumption
<1> HIDE DEF i, n, v, p
<1>8. PersonOf[i] = NoUser
  BY <1>2, <1>3, <1>7 DEF PersonOf, FindUserById
<1>9. PersonOf' = [PersonOf EXCEPT ![i] = p]
  <2> SUFFICES ASSUME NEW j \in UserIds
               PROVE  FindUserById(j)' = IF j = i THEN p ELSE FindUserById(j)
    BY DEF PersonOf
  <2>1. userids[j] \in UserUuids \cup {Absent}
    BY <1>1 DEF TypeOK
  <2> QED
    BY <1>2, <1>3, <1>4, <1>5, <1>7, <2>1 DEF FindUserById
<1>10. \/ NamedPerson[n] = NoUser /\ NamedPerson' = [NamedPerson EXCEPT ![n] = p]
       \/ UNCHANGED NamedPerson
  <2>1. \A m \in Names : usernames[m] \in UserUuids \cup {Absent}
    BY <1>1 DEF TypeOK
  <2>2. CASE usernames[n] = v
    <3>1. FindUserByName(n) = NoUser
      BY <1>2, <1>7, <2>2 DEF FindUserByName
    <3>2. \A m \in Names : FindUserByName(m)' = IF m = n THEN p ELSE FindUserByName(m)
      BY <1>4, <1>6, <1>7, <2>1, <2>2, <1>2 DEF FindUserByName
    <3> QED
      BY <1>2, <3>1, <3>2 DEF NamedPerson
  <2>3. CASE usernames[n] # v
    <3>1. \A m \in Names : FindUserByName(m)' = FindUserByName(m)
      BY <1>4, <1>6, <2>1, <2>3 DEF FindUserByName
    <3> QED
      BY <3>1 DEF NamedPerson
  <2> QED
    BY <2>2, <2>3
<1>11. UNCHANGED <<GameOf, OwnerOf, ListOf>>
  <2>1. UNCHANGED GameOf
    BY <1>4 DEF GameOf, FindGameById
  <2>2. \A u \in Owners : IdOf(u) # 0 => IdOf(u)' = IdOf(u)
    BY <1>2, <1>4 DEF IdOf, Owners, NoUser
  <2>3. UNCHANGED OwnerOf
    BY <1>4, <2>2, OwnersKept
  <2>4. UNCHANGED ListOf
    BY <1>1, <1>4, <2>2, NoListYet, ListsKept
  <2> QED
    BY <2>1, <2>3, <2>4
<1>12. Dir!Join(i, n)
  BY <1>8, <1>9, <1>10, <1>11 DEF Dir!Join, p
<1> QED
  BY <1>2, <1>3, <1>12 DEF Dir!DirStep

(* What a thread that registers a game knows of its owner.                 *)
LEMMA OwnerListed ==
  ASSUME IInv, NEW t \in Threads, HasGame(t)
  PROVE  /\ req[t].user \in Owners /\ req[t].id = IdOf(req[t].user) /\ req[t].id # 0
         /\ KeyOf[req[t].user] \in Keys /\ KeyOf[req[t].user][2] = req[t].id
         /\ req[t].game \in GameUuids /\ req[t].gid \in GameIds
<1>1. TypeOK /\ NewGameSound(t) /\ HasOwner(t) /\ pc[t] \in GameSteps
  BY DEF IInv, RegistryInv, GameSide, HasGame, HasOwner, GameSteps
<1>2. /\ req[t].user \in Owners /\ req[t].id = IdOf(req[t].user) /\ req[t].id # 0
      /\ req[t].game \in GameUuids /\ req[t].gid \in 1 .. next_game
  BY <1>1 DEF NewGameSound
<1>3. req[t].gid \in GameIds
  <2>1. req[t].gid \in {0} \cup UserIds \cup GameIds /\ next_game \in {0} \cup GameIds
    BY <1>1 DEF TypeOK
  <2> QED
    BY <1>2, <2>1, Counts DEF GameIds
<1>4. KeyOf[req[t].user][2] = req[t].id
  BY <1>2 DEF KeyOf
<1>5. CASE req[t].user \in UserUuids
  <2>1. users[req[t].user].id \in UserIds
    BY <1>1, <1>2, <1>5 DEF TypeOK, IdOf, NoUser
  <2> QED
    BY <1>2, <1>3, <1>4, <1>5, <2>1 DEF KeyOf, Keys, IdOf
<1>6. CASE req[t].user \notin UserUuids
  <2>1. games[req[t].user].id \in GameIds
    BY <1>1, <1>2, <1>6 DEF TypeOK, IdOf, NoGame, Owners
  <2> QED
    BY <1>2, <1>3, <1>4, <1>6, <2>1 DEF KeyOf, Keys, IdOf
<1> QED
  BY <1>5, <1>6

(* The game's hash is there before the index that leads to it, and so is   *)
(* what /new-game took for its owner.                                      *)
LEMMA IndexGameRegisters ==
  ASSUME IInv, OneKey, OneKey', NEW t \in Threads, IndexGame(t)
  PROVE  Dir!DirStep
<1> DEFINE g == req[t].gid
           v == req[t].user
           x == req[t].game
           o == KeyOf[v]
<1>1. TypeOK /\ NewGameSound(t) /\ HasGame(t) /\ HasOwner(t) /\ At(t, "gameids") /\ UsersIndexed
  BY DEF IInv, RegistryInv, UserSide, GameSide, IndexGame, At, HasGame, HasOwner
<1>2. /\ v \in Owners /\ req[t].id = IdOf(v) /\ req[t].id # 0
      /\ o \in Keys /\ o[2] = req[t].id /\ x \in GameUuids /\ g \in GameIds
  BY <1>1, OwnerListed
<1>3. games[x] = [id |-> g, userid |-> o[2]] /\ gameids[g] = Absent /\ named[x] = v
  BY <1>1, <1>2 DEF NewGameSound, At
<1>4. /\ \A h \in GameIds : gameids'[h] = IF h = g THEN x ELSE gameids[h]
      /\ UNCHANGED <<usernames, userids, users, games, history, named>>
  BY <1>1 DEF IndexGame, TypeOK, userKeys, answers
<1>5. GameOf[g] = NoGame
  BY <1>2, <1>3 DEF GameOf, FindGameById
<1>6. Dir!MayOwn(o, g)
  <2>1. CASE v \in UserUuids
    <3>1. o = <<"person", users[v].id>> /\ users[v].id # 0
      BY <1>2, <2>1 DEF KeyOf, IdOf
    <3>2. users[v] # NoUser /\ users[v].id \in UserIds
      BY <1>1, <2>1, <3>1 DEF NoUser, TypeOK
    <3>3. userids[users[v].id] = v /\ v # Absent
      BY <1>1, <2>1, <3>2, RegistryAssumption DEF UsersIndexed
    <3>4. PersonOf[users[v].id] # NoUser
      BY <3>2, <3>3 DEF PersonOf, FindUserById
    <3> QED
      BY <3>1, <3>4 DEF Dir!MayOwn
  <2>2. CASE v \notin UserUuids
    <3>1. v \in GameUuids /\ o[1] = "game"
      BY <1>2, <2>2 DEF KeyOf, Owners
    <3>2. req[t].id < g
      BY <1>1, <3>1 DEF NewGameSound
    <3> QED
      BY <1>2, <3>1, <3>2 DEF Dir!MayOwn
  <2> QED
    BY <2>1, <2>2
<1>7. x # Absent
  BY <1>2, RegistryAssumption
<1>8. GameOf' = [GameOf EXCEPT ![g] = [id |-> g, userid |-> o[2]]]
  <2> SUFFICES ASSUME NEW h \in GameIds
               PROVE  FindGameById(h)' = IF h = g THEN games[x] ELSE FindGameById(h)
    BY <1>3 DEF GameOf
  <2> QED
    BY <1>4, <1>7 DEF FindGameById
<1>9. KeyOf' = KeyOf
  BY <1>4 DEF KeyOf, IdOf
<1>10. OwnerOf' = [OwnerOf EXCEPT ![g] = o]
  <2> SUFFICES ASSUME NEW h \in GameIds
               PROVE  OwnerOf'[h] = IF h = g THEN o ELSE OwnerOf[h]
    BY DEF OwnerOf
  <2>1. OwnerOf'[h] = IF gameids'[h] = Absent THEN Absent ELSE KeyOf[named[gameids'[h]]]
    BY <1>4, <1>9 DEF OwnerOf
  <2> QED
    BY <1>3, <1>4, <1>7, <2>1 DEF OwnerOf
<1>11. UNCHANGED <<PersonOf, NamedPerson, ListOf>>
  <2>1. UNCHANGED <<PersonOf, NamedPerson>>
    BY <1>4 DEF PersonOf, NamedPerson, FindUserById, FindUserByName
  <2>2. ListOf' = ListOf
    BY <1>4, <1>9 DEF ListOf
  <2> QED
    BY <2>1, <2>2
<1> HIDE DEF g, o
<1>12. Dir!Register(g, o)
  BY <1>5, <1>6, <1>8, <1>10, <1>11 DEF Dir!Register
<1> QED
  BY <1>2, <1>12 DEF Dir!DirStep

(* A list is changed for the one key that is its owner's.                  *)
LEMMA ListChanged ==
  ASSUME IInv, OneKey, OneKey', NEW t \in Threads, HasGame(t), NEW s,
         history' = [history EXCEPT ![req[t].user] = s],
         UNCHANGED <<usernames, userids, users, gameids, games, named>>
  PROVE  /\ ListOf' = [ListOf EXCEPT ![KeyOf[req[t].user]] = s]
         /\ ListOf[KeyOf[req[t].user]] = history[req[t].user]
         /\ UNCHANGED <<PersonOf, NamedPerson, GameOf, OwnerOf>>
<1> DEFINE v == req[t].user
           o == KeyOf[v]
<1>1. v \in Owners /\ IdOf(v) # 0 /\ o \in Keys /\ TypeOK
  BY OwnerListed DEF IInv
<1>2. \A u \in Owners : history'[u] = IF u = v THEN s ELSE history[u]
  BY <1>1 DEF TypeOK
<1>3. \A u \in Owners : IdOf(u)' = IdOf(u)
  BY DEF IdOf
<1>4. \A u \in Owners : IdOf(u) = 0 => history'[u] = <<>>
  BY <1>1, <1>2, NoListYet
<1>5. \A k \in Keys :
        IF \E u \in Owners : KeyOf[u] = k
        THEN \A u \in Owners : KeyOf[u] = k =>
               IdOf(u) # 0 /\ ListOf[k] = history[u] /\ ListOf'[k] = history'[u]
        ELSE ListOf[k] = <<>> /\ ListOf'[k] = <<>>
  BY <1>3, <1>4, ListsAfter
<1>6. ListOf[o] = history[v]
  BY <1>1, <1>5
<1>7. ASSUME NEW k \in Keys PROVE ListOf'[k] = IF k = o THEN s ELSE ListOf[k]
  <2>1. CASE k = o
    BY <1>1, <1>2, <1>5, <2>1
  <2>2. ASSUME k # o, NEW u \in Owners, KeyOf[u] = k PROVE ListOf'[k] = ListOf[k]
    BY <1>2, <1>5, <2>2
  <2>3. CASE \A u \in Owners : KeyOf[u] # k
    BY <1>1, <1>5, <2>3
  <2> QED
    BY <2>1, <2>2, <2>3
<1>8. ListOf = [k \in Keys |-> ListOf[k]] /\ ListOf' = [k \in Keys |-> ListOf'[k]]
  BY DEF ListOf
<1> HIDE DEF o
<1>9. ListOf' = [ListOf EXCEPT ![o] = s]
  BY <1>7, <1>8
<1>10. UNCHANGED <<PersonOf, NamedPerson, GameOf>>
  BY DEF PersonOf, NamedPerson, GameOf, FindUserById, FindUserByName, FindGameById
<1>11. UNCHANGED OwnerOf
  BY <1>3, OwnersKept
<1> QED
  BY <1>6, <1>9, <1>10, <1>11 DEF o

(* The game that is pushed is found by its id already, with its owner.     *)
LEMMA PushGameEnlists ==
  ASSUME IInv, OneKey, OneKey', NEW t \in Threads, PushGame(t)
  PROVE  Dir!DirStep
<1> DEFINE g == req[t].gid
           v == req[t].user
           o == KeyOf[v]
<1>1. TypeOK /\ NewGameSound(t) /\ HasGame(t) /\ At(t, "lpush")
  BY DEF IInv, RegistryInv, GameSide, PushGame, At, HasGame
<1>2. v \in Owners /\ o \in Keys /\ g \in GameIds /\ req[t].game \in GameUuids /\ g # 0
  BY <1>1, OwnerListed, Counts DEF GameIds
<1>3. games[req[t].game].id = g /\ gameids[g] = req[t].game /\ named[req[t].game] = v
  BY <1>1 DEF NewGameSound, At
<1>4. \A k \in DOMAIN history[v] : history[v][k] # g
  BY <1>1, <1>2 DEF NewGameSound
<1>5. /\ history' = [history EXCEPT ![v] = <<g>> \o history[v]]
      /\ UNCHANGED <<usernames, userids, users, gameids, games, named>>
  BY <1>1 DEF PushGame, userKeys, answers
<1>6. /\ ListOf' = [ListOf EXCEPT ![o] = <<g>> \o history[v]] /\ ListOf[o] = history[v]
      /\ UNCHANGED <<PersonOf, NamedPerson, GameOf, OwnerOf>>
  BY <1>1, <1>5, ListChanged
<1>7. req[t].game # Absent
  BY <1>2, RegistryAssumption
<1>8. GameOf[g] # NoGame /\ OwnerOf[g] = o
  BY <1>2, <1>3, <1>7 DEF GameOf, FindGameById, OwnerOf, NoGame
<1> HIDE DEF g, v, o
<1>9. Dir!Enlist(g)
  BY <1>4, <1>6, <1>8 DEF Dir!Enlist
<1> QED
  BY <1>2, <1>9 DEF Dir!DirStep

(* RPOP takes the oldest entry, or finds the list gone already.            *)
LEMMA TrimDrops ==
  ASSUME IInv, OneKey, OneKey', NEW t \in Threads, Trim(t)
  PROVE  [Dir!DirStep]_(Dir!directory)
<1> DEFINE v == req[t].user
           o == KeyOf[v]
<1>1. TypeOK /\ HasGame(t)
  BY DEF IInv, Trim, At, HasGame
<1>2. v \in Owners /\ o \in Keys
  BY <1>1, OwnerListed
<1>3. /\ history' = [history EXCEPT ![v] = ButLast(history[v])]
      /\ UNCHANGED <<usernames, userids, users, gameids, games, named>>
  BY <1>1 DEF Trim, userKeys, answers
<1>4. /\ ListOf' = [ListOf EXCEPT ![o] = ButLast(history[v])] /\ ListOf[o] = history[v]
      /\ UNCHANGED <<PersonOf, NamedPerson, GameOf, OwnerOf>>
  BY <1>1, <1>3, ListChanged
<1> HIDE DEF o, v
<1>5. CASE ListOf[o] # <<>>
  <2>1. Dir!DropOldest(o)
    BY <1>4, <1>5 DEF Dir!DropOldest, ButLast
  <2> QED
    BY <1>2, <2>1 DEF Dir!DirStep
<1>6. CASE ListOf[o] = <<>>
  <2>1. ButLast(history[v]) = <<>>
    BY <1>4, <1>6 DEF ButLast
  <2>2. ListOf' = ListOf
    BY <1>4, <1>6, <2>1 DEF ListOf
  <2> QED
    BY <1>4, <2>2 DEF Dir!directory
<1> QED
  BY <1>5, <1>6

(* A step that writes nothing of a game, its owner or a list.              *)
LEMMA OwnerSideKept ==
  ASSUME UNCHANGED <<users, gameids, games, history, named>>
  PROVE  UNCHANGED <<GameOf, OwnerOf, ListOf>>
<1>1. UNCHANGED KeyOf
  BY DEF KeyOf, IdOf
<1> QED
  BY <1>1 DEF GameOf, OwnerOf, ListOf, FindGameById

(* The other writes are of keys that nothing leads to yet, or of an index  *)
(* that leads to a hash that is not there yet.                             *)
LEMMA UnseenWrites ==
  ASSUME IInv, OneKey, OneKey', NEW t \in Threads,
         ReserveName(t) \/ IndexUser(t) \/ WriteGame(t)
  PROVE  UNCHANGED Dir!directory
<1>a. TypeOK /\ SignUpSound(t) /\ NewGameSound(t) /\ IndexSound
  BY DEF IInv, RegistryInv, UserSide, GameSide
<1>1. CASE ReserveName(t)
  <2>1. HasUser(t)
    BY <1>1 DEF ReserveName, At, HasUser
  <2>2. users[req[t].user] = NoUser /\ req[t].user \in UserUuids
    BY <1>a, <2>1 DEF SignUpSound
  <2>3. /\ \A n \in Names : usernames'[n] =
             IF n = req[t].name /\ usernames[n] = Absent THEN req[t].user ELSE usernames[n]
        /\ UNCHANGED <<userids, users, gameids, games, history, named>>
    BY <1>a, <1>1 DEF ReserveName, TypeOK, gameKeys, answers
  <2>4. \A n \in Names : FindUserByName(n)' = FindUserByName(n)
    BY <2>2, <2>3 DEF FindUserByName
  <2> QED
    BY <2>3, <2>4, OwnerSideKept DEF Dir!directory, PersonOf, NamedPerson, FindUserById
<1>2. CASE IndexUser(t)
  <2>1. HasUser(t) /\ ~At(t, "user")
    BY <1>2 DEF IndexUser, At, HasUser
  <2>2. /\ users[req[t].user] = NoUser /\ req[t].user \in UserUuids
        /\ userids[req[t].id] = Absent
    BY <1>a, <2>1 DEF SignUpSound
  <2>3. /\ \A i \in UserIds : userids'[i] = IF i = req[t].id THEN req[t].user ELSE userids[i]
        /\ UNCHANGED <<usernames, users, gameids, games, history, named>>
    BY <1>a, <1>2 DEF IndexUser, TypeOK, gameKeys, answers
  <2>4. \A i \in UserIds : FindUserById(i)' = FindUserById(i)
    BY <2>2, <2>3 DEF FindUserById
  <2> QED
    BY <2>3, <2>4, OwnerSideKept DEF Dir!directory, PersonOf, NamedPerson, FindUserByName
<1>3. CASE WriteGame(t)
  <2>1. HasGame(t) /\ At(t, "game")
    BY <1>3 DEF WriteGame, At, HasGame
  <2>2. games[req[t].game] = NoGame
    BY <1>a, <2>1 DEF NewGameSound
  <2>3. /\ \A x \in GameUuids :
             x # req[t].game => games'[x] = games[x] /\ named'[x] = named[x]
        /\ UNCHANGED <<usernames, userids, users, gameids, history>>
    BY <1>a, <1>3 DEF WriteGame, TypeOK, userKeys
  <2>4. ASSUME NEW g \in GameIds, gameids[g] # Absent PROVE gameids[g] # req[t].game
    <3>1. FindGameById(g).id = g /\ g # 0
      BY <1>a, <2>4, Counts DEF IndexSound, GameIds
    <3>2. games[gameids[g]] # NoGame
      BY <2>4, <3>1 DEF FindGameById, NoGame
    <3> QED
      BY <2>2, <3>2
  <2>5. \A g \in GameIds : FindGameById(g)' = FindGameById(g)
    BY <1>a, <2>3, <2>4 DEF FindGameById, TypeOK
  <2>6. \A u \in Owners : IdOf(u) # 0 => IdOf(u)' = IdOf(u)
    BY <2>2, <2>3 DEF IdOf, Owners, NoGame
  <2>7. OwnerOf' = OwnerOf
    BY <2>2, <2>3, <2>6, OwnersKept
  <2>8. ListOf' = ListOf
    BY <1>a, <2>3, <2>6, NoListYet, ListsKept
  <2> QED
    BY <2>3, <2>5, <2>7, <2>8 DEF Dir!directory, PersonOf, NamedPerson, GameOf, FindUserById,
       FindUserByName
<1> QED
  BY <1>1, <1>2, <1>3

(* A step that writes no record, index or list.                            *)
LEMMA DirectoryKept ==
  ASSUME UNCHANGED <<usernames, userids, users, gameids, games, history, named>>
  PROVE  UNCHANGED Dir!directory
BY OwnerSideKept DEF Dir!directory, PersonOf, NamedPerson, FindUserById, FindUserByName

(* Every step of a handler is a step of Directory or leaves it alone.      *)
LEMMA StepOfDirectory ==
  IInv /\ LeadHome /\ OneKey /\ OneKey' /\ [AnyStep]_vars => [Dir!DirNext]_(Dir!directory)
<1> SUFFICES ASSUME IInv, LeadHome, OneKey, OneKey', [AnyStep]_vars
             PROVE  [Dir!DirStep]_(Dir!directory)
  BY DEF Dir!DirNext
<1>1. ASSUME NEW t \in Threads, WriteUser(t) PROVE Dir!DirStep
  BY <1>1, WriteUserJoins
<1>2. ASSUME NEW t \in Threads, IndexGame(t) PROVE Dir!DirStep
  BY <1>2, IndexGameRegisters
<1>3. ASSUME NEW t \in Threads, PushGame(t) PROVE Dir!DirStep
  BY <1>3, PushGameEnlists
<1>4. ASSUME NEW t \in Threads, Trim(t) PROVE [Dir!DirStep]_(Dir!directory)
  BY <1>4, TrimDrops
<1>5. ASSUME NEW t \in Threads, ReserveName(t) \/ IndexUser(t) \/ WriteGame(t)
      PROVE  UNCHANGED Dir!directory
  BY <1>5, UnseenWrites
<1>6. ASSUME NEW t \in Threads,
             \/ \E n \in Names : SignUp(t, n)
             \/ \E u \in Owners : StartGame(t, u)
             \/ CheckName(t) \/ IncrUser(t) \/ FindUser(t) \/ IncrGame(t)
             \/ Measure(t) \/ Offer(t) \/ CommandRefused(t)
      PROVE  UNCHANGED Dir!directory
  <2>1. UNCHANGED <<usernames, userids, users, gameids, games, history, named>>
    BY <1>6 DEF SignUp, StartGame, CheckName, IncrUser, FindUser, IncrGame, Measure, Offer,
       CommandRefused, userKeys, gameKeys, answers
  <2> QED
    BY <2>1, DirectoryKept
<1>7. CASE Ended \/ UNCHANGED vars
  <2>1. UNCHANGED <<usernames, userids, users, gameids, games, history, named>>
    BY <1>7 DEF Ended, vars, userKeys, gameKeys, answers
  <2> QED
    BY <2>1, DirectoryKept
<1> QED
  BY <1>1, <1>2, <1>3, <1>4, <1>5, <1>6, <1>7 DEF AnyStep, Write, NewUser, NewGame

(* Registry implements Directory: whoever looks a person, a name, a game   *)
(* or a list up sees whole records that appear at one moment and stay, and *)
(* a game's owner, a person or an older game whose uuid was given, is      *)
(* there before it, for any number of threads, every limit, refused        *)
(* commands and restarts.                                                  *)
THEOREM RegistryIsDirectory == Spec => ImplementsDirectory
<1>1. Init => IInv /\ LeadHome /\ NumbersApart /\ Dir!DirInit
  BY InitInv, DirectoryEmpty
<1>2. IInv /\ LeadHome /\ NumbersApart /\ [Next]_vars => IInv' /\ LeadHome' /\ NumbersApart'
  BY StepOfRegistry, InvStep, LeadHomeStep, NumbersStep
<1>3. IInv /\ LeadHome /\ OneKey /\ OneKey' /\ [Next]_vars => [Dir!DirNext]_(Dir!directory)
  BY StepOfRegistry, StepOfDirectory
<1> QED
  BY <1>1, <1>2, <1>3, KeysApart, PTL DEF Spec, ImplementsDirectory, Dir!DirSpec
=============================================================================
