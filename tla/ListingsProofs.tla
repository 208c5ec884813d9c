--------------------------- MODULE ListingsProofs ---------------------------
(***************************************************************************)
(* Proofs about Listings for every number of readers and writers, every    *)
(* limit and every choice of faults: what a reply lists, put together from *)
(* commands between which games are written, trimmed and cut short.        *)
(***************************************************************************)
EXTENDS Listings, RegistryProofs

WritersInv == IInv /\ NamesKnown /\ NewestKnown /\ LengthsKnown
LIInv == WritersInv /\ ListingInv

-----------------------------------------------------------------------------
(* Lists of numbers out of which games drop.                               *)

(* Replacing one number of a list by 0, or leaving it, keeps the order.    *)
LEMMA DropKeepsOrder ==
  ASSUME NEW s \in Seq(Nat), NEW q \in Seq(Nat), DOMAIN q = DOMAIN s,
         \A k \in DOMAIN s : q[k] \in {0, s[k]}
  PROVE  (Apart(s) => Apart(q)) /\ (Falling(s) => Falling(q))
BY DEF Apart, Falling

(* Describing the next game of a list: it moves from what is still to be   *)
(* described to what is printed.                                           *)
LEMMA MoveOne ==
  ASSUME NEW out \in Seq(Nat), NEW todo \in Seq(Nat), todo # <<>>, NEW x \in Nat
  PROVE  LET s == out \o todo
             q == (out \o <<x>>) \o Tail(todo)
         IN  /\ s \in Seq(Nat) /\ q \in Seq(Nat)
             /\ Len(q) = Len(s) /\ DOMAIN q = DOMAIN s
             /\ Len(out) + 1 \in DOMAIN s
             /\ s[Len(out) + 1] = Head(todo) /\ q[Len(out) + 1] = x
             /\ \A k \in DOMAIN s : k # Len(out) + 1 => q[k] = s[k]
<1> DEFINE s == out \o todo
           q == (out \o <<x>>) \o Tail(todo)
<1>1. /\ Len(out) \in Nat /\ Len(todo) \in Nat /\ Len(todo) >= 1
      /\ Tail(todo) \in Seq(Nat) /\ Len(Tail(todo)) = Len(todo) - 1
      /\ Head(todo) = todo[1]
      /\ \A k \in 1 .. Len(todo) - 1 : Tail(todo)[k] = todo[k + 1]
  OBVIOUS
<1>2. /\ s \in Seq(Nat) /\ Len(s) = Len(out) + Len(todo)
      /\ \A k \in 1 .. Len(s) : s[k] = IF k <= Len(out) THEN out[k] ELSE todo[k - Len(out)]
  BY <1>1
<1>3. /\ out \o <<x>> \in Seq(Nat) /\ Len(out \o <<x>>) = Len(out) + 1
      /\ \A k \in 1 .. Len(out) : (out \o <<x>>)[k] = out[k]
      /\ (out \o <<x>>)[Len(out) + 1] = x
  OBVIOUS
<1> DEFINE o == out \o <<x>>
<1> HIDE DEF o
<1>4. /\ q \in Seq(Nat) /\ Len(q) = Len(o) + Len(Tail(todo))
      /\ \A k \in 1 .. Len(q) : q[k] = IF k <= Len(o) THEN o[k] ELSE Tail(todo)[k - Len(o)]
  BY <1>1, <1>3 DEF o
<1>5. Len(q) = Len(s) /\ DOMAIN q = 1 .. Len(s) /\ DOMAIN s = 1 .. Len(s)
  BY <1>1, <1>2, <1>3, <1>4 DEF o
<1>6. /\ Len(out) + 1 \in 1 .. Len(s) /\ s[Len(out) + 1] = todo[1] /\ q[Len(out) + 1] = x
  BY <1>1, <1>2, <1>3, <1>4, <1>5 DEF o
<1>7. ASSUME NEW k \in 1 .. Len(s), k # Len(out) + 1 PROVE q[k] = s[k]
  <2>1. CASE k <= Len(out)
    BY <1>1, <1>2, <1>3, <1>4, <1>5, <2>1 DEF o
  <2>2. CASE k > Len(out) + 1
    <3>1. /\ k - Len(o) \in 1 .. Len(todo) - 1 /\ Len(o) = Len(out) + 1
          /\ k - Len(o) + 1 = k - Len(out)
      BY <1>1, <1>2, <1>3, <2>2 DEF o
    <3>2. q[k] = Tail(todo)[k - Len(o)]
      BY <1>4, <1>5, <2>2, <3>1
    <3>3. s[k] = todo[k - Len(out)]
      BY <1>1, <1>2, <2>2
    <3> QED
      BY <1>1, <3>1, <3>2, <3>3
  <2> QED
    BY <1>1, <1>7, <2>1, <2>2
<1> QED
  BY <1>1, <1>2, <1>4, <1>5, <1>6, <1>7

(* A game id is found as itself or not at all.                             *)
LEMMA FoundOrNot ==
  ASSUME IInv, NEW i \in Nat
  PROVE  FindGameById(i).id \in {0, i}
<1>1. NoGame.id = 0
  BY DEF NoGame
<1>2. \A j \in GameIds : gameids[j] # Absent => FindGameById(j).id = j
  BY DEF IInv, RegistryInv, GameSide, IndexSound
<1> QED
  BY <1>1, <1>2 DEF FindGameById

(* An answered game is found.                                              *)
LEMMA AnswerFound ==
  ASSUME IInv, NEW a \in ackGames
  PROVE  a.id \in GameIds /\ a.id <= next_game /\ FindGameById(a.id).id = a.id
<1>1. a.id \in GameIds /\ a.game \in GameUuids
  BY DEF IInv, TypeOK
<1>2. gameids[a.id] = a.game /\ games[a.game].id = a.id
  BY DEF IInv, RegistryInv, GameSide, IndexSound
<1>3. gameids[a.id] # Absent
  BY <1>1, <1>2, RegistryAssumption
<1> QED
  BY <1>1, <1>2, <1>3 DEF FindGameById, IInv, RegistryInv, GameSide, GamesOwned

-----------------------------------------------------------------------------
(* The writers do not know of the readers.                                 *)

LEMMA InitWriters == Init => WritersInv
<1> SUFFICES ASSUME Init PROVE WritersInv
  OBVIOUS
<1>1. NamesKnown /\ NewestKnown
  BY Counts DEF Init, NamesKnown, NewestKnown, Sorted, Pushing, At
<1>2. \A u \in Owners : Len(history[u]) = 0
  BY DEF Init
<1>3. LengthsKnown
  BY <1>2, UnansweredFinite, RegistryAssumption DEF Init, LengthsKnown, HasGame
<1> QED
  BY <1>1, <1>3, InitInv DEF WritersInv

LEMMA StepOfWriters == [LNext]_allVars => [AnyStep]_vars
BY DEF LNext, allVars, listing, Restart, AnyStep, Read, AskRecent, AskUser, GetNext, FindListed,
       GetRange, Describe, SendList

LEMMA WritersStep == WritersInv /\ [AnyStep]_vars => WritersInv'
BY InvStep, NamesStep, NewestStep, LengthsStep DEF WritersInv

(* What a reader holds against the registry only moves one way.            *)
LEMMA OneWay ==
  ASSUME IInv, [AnyStep]_vars
  PROVE  /\ ackGames \subseteq ackGames' /\ (~overlap' => ~overlap)
         /\ next_game \in Nat /\ next_game' \in Nat /\ next_game <= next_game'
<1>1. ackGames \subseteq ackGames'
  <2>1. ackGames' = ackGames \/ \E t \in Threads : Offer(t)
    BY DEF AnyStep, Write, NewUser, NewGame, SignUp, StartGame, CheckName, IncrUser, ReserveName,
           IndexUser, WriteUser, FindUser, IncrGame, WriteGame, IndexGame, PushGame, Measure,
           Trim, CommandRefused, Ended, answers, vars
  <2> QED
    BY <2>1 DEF Offer
<1>4. ~overlap' => ~overlap
  <2>1. \/ overlap' = overlap
        \/ \E t \in Threads : Arrive(t)
    BY DEF AnyStep, Write, NewUser, NewGame, SignUp, StartGame, CheckName, IncrUser, ReserveName,
           IndexUser, WriteUser, FindUser, IncrGame, WriteGame, IndexGame, PushGame, Measure,
           Trim, Offer, CommandRefused, Ended, vars
  <2> QED
    BY <2>1 DEF Arrive
<1>2. next_game' \in {next_game, next_game + 1}
  BY DEF AnyStep, Write, NewUser, NewGame, SignUp, StartGame, CheckName, IncrUser, ReserveName,
         IndexUser, WriteUser, FindUser, IncrGame, WriteGame, IndexGame, PushGame, Measure,
         Trim, Offer, CommandRefused, Ended, gameKeys, vars
<1>3. next_game \in Nat
  BY Counts DEF IInv, TypeOK, GameIds
<1> QED
  BY <1>1, <1>2, <1>3, <1>4

-----------------------------------------------------------------------------
(* The readers.                                                            *)

(* A reader that does not move keeps what it knows.                        *)
LEMMA ReaderKept ==
  ASSUME IInv, [AnyStep]_vars, LTypeOK, NEW r \in Readers, ReaderSound(r),
         rpc'[r] = rpc[r], view'[r] = view[r]
  PROVE  ReaderSound(r)'
<1>1. /\ ackGames \subseteq ackGames' /\ (~overlap' => ~overlap)
      /\ next_game \in Nat /\ next_game' \in Nat /\ next_game <= next_game'
  BY OneWay
<1>2. Listed(r)' = Listed(r)
  BY DEF Listed
<1>3. view[r].due \subseteq {a.id : a \in ackGames'}
  BY <1>1 DEF ReaderSound
<1>4. CountsDown(Listed(r), view[r].due) => CountsDown(Listed(r), view[r].due)'
  <2>1. \A n \in GameIds : n <= next_game => n <= next_game'
    BY <1>1, Counts DEF GameIds
  <2> QED
    BY <1>2, <2>1 DEF CountsDown
<1>5. CASE view[r].user = Absent
  BY <1>2, <1>3, <1>4, <1>5 DEF ReaderSound
<1>6. CASE view[r].user # Absent
  BY <1>1, <1>2, <1>3, <1>6 DEF ReaderSound
<1> QED
  BY <1>5, <1>6

(* The newest numbers, and those of them that are due.                     *)
LEMMA RecentCounts ==
  ASSUME next_game \in GameIds, NEW due, \A i \in due : i \in GameIds /\ i <= next_game
  PROVE  /\ RecentIds(next_game) \in Seq(Nat)
         /\ CountsDown(<<>> \o RecentIds(next_game), due)
<1> DEFINE n == next_game
           m == Min2(RecentLimit, n) + 1
<1>1. n \in Nat /\ n >= 1 /\ RecentLimit \in Nat /\ RecentLimit >= 1
  BY Counts, ListingAssumption DEF GameIds
<1>2. m \in Nat /\ m >= 1 /\ m <= n + 1
  BY <1>1 DEF Min2
<1> DEFINE s == [k \in 1 .. m |-> n - k + 1]
<1> HIDE DEF m
<1>3. \A k \in 1 .. m : n - k + 1 \in Nat
  BY <1>1, <1>2
<1>4. s \in Seq(Nat) /\ Len(s) = m /\ DOMAIN s = 1 .. m /\ <<>> \o s = s
  BY <1>2, <1>3
<1>5. RecentIds(n) = s
  BY DEF RecentIds, m
<1>6. \A i \in due : i <= n /\ (n - i + 1 \in DOMAIN s => s[n - i + 1] = i)
  BY <1>1, <1>4, Counts DEF GameIds
<1>7. Len(s) = Min2(RecentLimit, n) + 1 /\ \A k \in DOMAIN s : s[k] = n - k + 1
  BY <1>4 DEF m
<1> HIDE DEF s
<1>8. CountsDown(s, due)
  BY <1>1, <1>6, <1>7 DEF CountsDown
<1> QED
  BY <1>4, <1>5, <1>8

(* Describing a game leaves a list as it was, or without the game.         *)
LEMMA DescribeKeeps ==
  ASSUME IInv, NEW out \in Seq(Nat), NEW todo \in Seq(Nat), todo # <<>>,
         NEW due, due \subseteq {a.id : a \in ackGames}
  PROVE  LET s == out \o todo
             q == (out \o Found(Head(todo))) \o Tail(todo)
         IN  /\ Found(Head(todo)) \in Seq(Nat)
             /\ Apart(s) => Apart(q)
             /\ Falling(s) => Falling(q)
             /\ CountsDown(s, due) => CountsDown(q, due)
<1> DEFINE x == FindGameById(Head(todo)).id
           s == out \o todo
           q == (out \o <<x>>) \o Tail(todo)
           p == Len(out) + 1
<1>1. Head(todo) \in Nat /\ x \in {0, Head(todo)}
  BY FoundOrNot
<1>2. x \in Nat /\ Found(Head(todo)) = <<x>>
  BY <1>1 DEF Found
<1> HIDE DEF x
<1>3. /\ s \in Seq(Nat) /\ q \in Seq(Nat)
      /\ Len(q) = Len(s) /\ DOMAIN q = DOMAIN s
      /\ p \in DOMAIN s /\ s[p] = Head(todo) /\ q[p] = x
      /\ \A k \in DOMAIN s : k # p => q[k] = s[k]
  BY <1>2, MoveOne
<1> HIDE DEF s, q, p
<1>4. \A k \in DOMAIN s : q[k] \in {0, s[k]}
  BY <1>1, <1>3
<1>5. (Apart(s) => Apart(q)) /\ (Falling(s) => Falling(q))
  BY <1>3, <1>4, DropKeepsOrder
<1>6. ASSUME CountsDown(s, due) PROVE CountsDown(q, due)
  <2>1. PICK n \in GameIds :
          /\ n <= next_game /\ Len(s) = Min2(RecentLimit, n) + 1
          /\ \A k \in DOMAIN s : s[k] \in {0, n - k + 1}
          /\ \A i \in due : i <= n /\ (n - i + 1 \in DOMAIN s => s[n - i + 1] = i)
    BY <1>6 DEF CountsDown
  <2>2. \A k \in DOMAIN q : q[k] \in {0, n - k + 1}
    BY <1>3, <1>4, <2>1
  <2>3. ASSUME NEW i \in due, n - i + 1 \in DOMAIN q PROVE q[n - i + 1] = i
    <3>1. s[n - i + 1] = i
      BY <1>3, <2>1, <2>3
    <3>2. CASE n - i + 1 = p
      <4>1. Head(todo) = i /\ \E a \in ackGames : a.id = i
        BY <1>3, <3>1, <3>2
      <4>2. x = i
        BY <4>1, AnswerFound DEF x
      <4> QED
        BY <1>3, <3>2, <4>2
    <3>3. CASE n - i + 1 # p
      BY <1>3, <2>3, <3>1, <3>3
    <3> QED
      BY <3>2, <3>3
  <2> QED
    BY <1>3, <2>1, <2>2, <2>3 DEF CountsDown
<1>7. Found(Head(todo)) \in Seq(Nat)
  <2>1. <<x>> \in Seq(Nat)
    BY <1>2
  <2> QED
    BY <1>2, <2>1, Zenon
<1>8. q = (out \o Found(Head(todo))) \o Tail(todo) /\ s = out \o todo
  BY <1>2 DEF s, q
<1> QED
  BY <1>5, <1>6, <1>7, <1>8, Zenon

(* The bytes of a description are a number.                                *)
LEMMA LengthType ==
  ASSUME NEW id \in Nat, NEW o \in Outcomes
  PROVE  DescriptorLength(id, o) \in Nat
<1>1. o.count \in Nat /\ o.accepted \in Nat
  BY ListingAssumption
<1>2. \A n \in Nat : Digits(n) \in Nat
  BY DEF Digits
<1>3. Digits(id) \in Nat /\ Digits(o.count) \in Nat /\ Digits(o.accepted) \in Nat
  BY <1>1, <1>2
<1> QED
  BY <1>3 DEF DescriptorLength

ViewType ==
  [user : Owners \cup {Absent}, todo : Seq(Nat), out : Seq(Nat),
   used : Nat, room : Nat, due : SUBSET GameIds]

(* A step of one reader: it is enough to look at that reader.              *)
LEMMA OneReader ==
  ASSUME WritersInv, ListingInv, UNCHANGED vars, NEW r \in Readers,
         NEW step \in {"idle", "next", "segv", "find", "range", "describe"},
         NEW v \in ViewType,
         rpc' = [rpc EXCEPT ![r] = step], view' = [view EXCEPT ![r] = v],
         ReaderSound(r)'
  PROVE  ListingInv'
<1>1. LTypeOK /\ \A s \in Readers : ReaderSound(s)
  BY DEF ListingInv
<1>2. LTypeOK'
  BY <1>1 DEF LTypeOK, ViewType
<1>3. ASSUME NEW s \in Readers, s # r PROVE ReaderSound(s)'
  <2>1. rpc'[s] = rpc[s] /\ view'[s] = view[s]
    BY <1>1, <1>3 DEF LTypeOK
  <2> QED
    BY <1>1, <2>1, ReaderKept DEF WritersInv
<1> QED
  BY <1>2, <1>3 DEF ListingInv

LEMMA ReadStep ==
  ASSUME WritersInv, ListingInv, UNCHANGED vars, NEW r \in Readers, Read(r)
  PROVE  ListingInv'
<1> DEFINE old == view[r]
<1>a. /\ LTypeOK /\ ReaderSound(r) /\ old \in ViewType
      /\ view \in [Readers -> ViewType]
      /\ rpc \in [Readers -> {"idle", "next", "segv", "find", "range", "describe"}]
  BY DEF ListingInv, LTypeOK, ViewType
<1>b. IInv /\ TypeOK /\ NewestKnown /\ 0 \in Nat
      /\ \A a \in ackGames : a.id \in GameIds /\ a.id <= next_game
  BY AnswerFound DEF WritersInv, IInv
<1>c. NoView \in ViewType /\ <<>> \in Seq(Nat)
  BY DEF NoView, ViewType
<1>d. UNCHANGED <<ackGames, next_game, history, overlap>>
  BY DEF vars, userKeys, gameKeys, answers
<1>e. ASSUME NEW step \in {"idle", "next", "segv", "find", "range", "describe"},
             NEW v \in ViewType,
             rpc' = [rpc EXCEPT ![r] = step], view' = [view EXCEPT ![r] = v]
      PROVE  rpc'[r] = step /\ view'[r] = v
  BY <1>a, <1>e
<1>1. CASE AskRecent(r)
  <2> DEFINE due == {a.id : a \in ackGames}
             v == [old EXCEPT !.due = due]
  <2>1. due \in SUBSET GameIds
    BY <1>b
  <2> HIDE DEF due
  <2>2. v \in ViewType /\ v.due = due /\ v.user = old.user /\ v.out = old.out
    BY <1>a, <2>1 DEF ViewType
  <2>3. /\ rpc' = [rpc EXCEPT ![r] = "next"] /\ view' = [view EXCEPT ![r] = v]
        /\ rpc[r] = "idle"
    BY <1>1 DEF AskRecent, RGo, RAt, due
  <2> HIDE DEF v
  <2>4. rpc'[r] = "next" /\ view'[r] = v
    BY <1>e, <2>2, <2>3
  <2>5. ReaderSound(r)'
    BY <1>a, <1>d, <2>2, <2>3, <2>4 DEF ReaderSound, due
  <2> QED
    BY <2>2, <2>3, <2>5, OneReader
<1>2. ASSUME NEW u \in Owners, AskUser(r, u) PROVE ListingInv'
  <2> DEFINE v == [old EXCEPT !.user = u]
  <2>1. v \in ViewType /\ v.due = old.due /\ v.user = u /\ v.out = old.out
    BY <1>a DEF ViewType
  <2>2. /\ rpc' = [rpc EXCEPT ![r] = "find"] /\ view' = [view EXCEPT ![r] = v]
        /\ rpc[r] = "idle"
    BY <1>2 DEF AskUser, RGo, RAt
  <2> HIDE DEF v
  <2>3. rpc'[r] = "find" /\ view'[r] = v
    BY <1>e, <2>1, <2>2
  <2>4. u # Absent
    BY RegistryAssumption DEF Owners
  <2>5. ReaderSound(r)'
    BY <1>a, <1>d, <2>1, <2>2, <2>3, <2>4 DEF ReaderSound
  <2> QED
    BY <2>1, <2>2, <2>5, OneReader
(* The numbers that are listed were given before this moment.              *)
<1>3. CASE GetNext(r)
  <2>1. CASE next_game = 0
    <3>1. /\ rpc' = [rpc EXCEPT ![r] = "segv"] /\ view' = [view EXCEPT ![r] = old]
      BY <1>3, <1>a, <2>1 DEF GetNext, RGo
    <3>2. rpc'[r] = "segv" /\ view'[r] = old
      BY <1>a, <1>e, <3>1
    <3>3. ReaderSound(r)'
      BY <1>a, <1>d, <3>2 DEF ReaderSound
    <3> QED
      BY <1>a, <3>1, <3>3, OneReader
  <2>2. CASE next_game # 0
    <3> DEFINE ids == RecentIds(next_game)
               size == 64 + 64 * RecentLimit
               v == [old EXCEPT !.todo = ids, !.room = size, !.used = Opening]
    <3>1. next_game \in GameIds
      BY <1>b, <2>2 DEF TypeOK
    <3>2. old.due \subseteq GameIds /\ \A i \in old.due : i \in GameIds /\ i <= next_game
      BY <1>a, <1>b DEF ReaderSound
    <3>3. ids \in Seq(Nat) /\ CountsDown(<<>> \o ids, old.due)
      BY <3>1, <3>2, RecentCounts
    <3>4. size \in Nat /\ Opening \in Nat
      BY ListingAssumption DEF Opening
    <3>5. /\ rpc' = [rpc EXCEPT ![r] = "describe"]
          /\ view' = [view EXCEPT ![r].todo = ids, ![r].room = size, ![r].used = Opening]
          /\ rpc[r] = "next"
      BY <1>3, <2>2 DEF GetNext, RGo, RAt
    <3> HIDE DEF ids, size
    <3>6. /\ v \in ViewType /\ v.due = old.due /\ v.user = old.user /\ v.out = old.out
          /\ v.todo = ids
      BY <1>a, <3>3, <3>4 DEF ViewType
    <3>7. view' = [view EXCEPT ![r] = v]
      BY <1>a, <3>5 DEF ViewType
    <3> HIDE DEF v
    <3>8. rpc'[r] = "describe" /\ view'[r] = v
      BY <1>e, <3>5, <3>6, <3>7
    <3>9. Listed(r)' = <<>> \o ids
      BY <1>a, <3>5, <3>6, <3>8 DEF Listed, ReaderSound
    <3>10. CountsDown(Listed(r), view[r].due)'
      BY <1>d, <3>3, <3>6, <3>8, <3>9 DEF CountsDown
    <3>11. ReaderSound(r)'
      BY <1>a, <1>d, <3>5, <3>6, <3>8, <3>9, <3>10 DEF ReaderSound
    <3> QED
      BY <3>5, <3>6, <3>7, <3>11, OneReader
  <2> QED
    BY <2>1, <2>2
<1>4. ASSUME Close(r) PROVE ListingInv'
  <2>1. rpc' = [rpc EXCEPT ![r] = "idle"] /\ view' = [view EXCEPT ![r] = NoView]
    BY <1>4 DEF Close, RGo
  <2>2. rpc'[r] = "idle" /\ view'[r] = NoView
    BY <1>c, <1>e, <2>1
  <2>3. ReaderSound(r)'
    BY <2>2 DEF ReaderSound, NoView
  <2> QED
    BY <1>c, <2>1, <2>3, OneReader
<1>5. CASE FindListed(r)
  <2>1. CASE Close(r)
    BY <1>4, <2>1
  <2>2. CASE RGo(r, "range") /\ UNCHANGED view
    <3>1. /\ rpc' = [rpc EXCEPT ![r] = "range"] /\ view' = [view EXCEPT ![r] = old]
          /\ rpc[r] = "find"
      BY <1>5, <1>a, <2>2 DEF FindListed, RGo, RAt
    <3>2. rpc'[r] = "range" /\ view'[r] = old
      BY <1>a, <1>e, <3>1
    <3>3. ReaderSound(r)'
      BY <1>a, <1>d, <3>1, <3>2 DEF ReaderSound
    <3> QED
      BY <1>a, <3>1, <3>3, OneReader
  <2> QED
    BY <1>5, <2>1, <2>2 DEF FindListed
(* A list has no number twice, and is in order if nobody wrote two games   *)
(* at once.                                                                *)
<1>6. CASE GetRange(r)
  <2> DEFINE ids == history[old.user]
             size == 64 + 64 * Len(ids)
             v == [old EXCEPT !.todo = ids, !.room = size, !.used = Opening]
  <2>1. /\ rpc' = [rpc EXCEPT ![r] = "describe"]
        /\ view' = [view EXCEPT ![r].todo = ids, ![r].room = size, ![r].used = Opening]
        /\ rpc[r] = "range"
    BY <1>6 DEF GetRange, RGo, RAt
  <2>2. old.user \in Owners /\ old.user # Absent /\ old.out = <<>>
    BY <1>a, <2>1 DEF ReaderSound, ViewType
  <2>3. ids \in Seq(GameIds)
    BY <1>b, <2>2 DEF TypeOK
  <2>4. ids \in Seq(Nat) /\ size \in Nat /\ Opening \in Nat
    BY <2>3, Counts DEF GameIds, Opening
  <2>5. Apart(ids)
    <3>1. \A k, l \in DOMAIN ids : k # l => ids[k] # ids[l]
      BY <1>b, <2>2 DEF IInv, RegistryInv, GameSide, IndexSound
    <3>2. \A k \in DOMAIN ids : k \in Nat
      BY <2>3
    <3> QED
      BY <3>1, <3>2 DEF Apart
  <2>6. ~overlap => Falling(ids)
    BY <1>b, <2>2 DEF NewestKnown, Sorted, Falling
  <2> HIDE DEF ids, size
  <2>7. /\ v \in ViewType /\ v.due = old.due /\ v.user = old.user /\ v.out = old.out
        /\ v.todo = ids
    BY <1>a, <2>4 DEF ViewType
  <2>8. view' = [view EXCEPT ![r] = v]
    BY <1>a, <2>1 DEF ViewType
  <2> HIDE DEF v
  <2>9. rpc'[r] = "describe" /\ view'[r] = v
    BY <1>e, <2>1, <2>7, <2>8
  <2>10. Listed(r)' = ids
    <3>1. Listed(r)' = <<>> \o ids
      BY <2>2, <2>7, <2>9 DEF Listed
    <3> QED
      BY <2>4, <3>1
  <2>11. ReaderSound(r)'
    BY <1>a, <1>d, <2>1, <2>2, <2>5, <2>6, <2>7, <2>9, <2>10 DEF ReaderSound
  <2> QED
    BY <2>1, <2>7, <2>8, <2>11, OneReader
<1>7. CASE Describe(r)
  <2> DEFINE h == Head(old.todo)
             comma == IF Len(old.todo) > 1 THEN 1 ELSE 0
             out == old.out \o Found(h)
  <2>1. /\ rpc[r] = "describe" /\ old.todo # <<>> /\ rpc' = rpc
        /\ \E o \in Outcomes :
             view' = [view EXCEPT
                        ![r].todo = Tail(old.todo), ![r].out = out,
                        ![r].used = @ + comma + (IF FindGameById(h) # NoGame
                                                 THEN DescriptorLength(h, o) ELSE 2)]
    BY <1>7, <1>a DEF Describe, RAt
  <2>2. /\ old.todo \in Seq(Nat) /\ old.out \in Seq(Nat) /\ h \in Nat
        /\ Tail(old.todo) \in Seq(Nat) /\ comma \in Nat
        /\ old.used \in Nat
    BY <1>a, <2>1 DEF ViewType
  <2>3. old.due \subseteq {a.id : a \in ackGames}
    BY <1>a DEF ReaderSound
  <2>4. /\ Found(h) \in Seq(Nat)
        /\ Apart(old.out \o old.todo) => Apart(out \o Tail(old.todo))
        /\ Falling(old.out \o old.todo) => Falling(out \o Tail(old.todo))
        /\ CountsDown(old.out \o old.todo, old.due)
             => CountsDown(out \o Tail(old.todo), old.due)
    BY <1>b, <2>1, <2>2, <2>3, DescribeKeeps
  <2>5. out \in Seq(Nat)
    BY <2>2, <2>4
  <2>6. PICK o \in Outcomes :
          view' = [view EXCEPT
                     ![r].todo = Tail(old.todo), ![r].out = out,
                     ![r].used = @ + comma + (IF FindGameById(h) # NoGame
                                              THEN DescriptorLength(h, o) ELSE 2)]
    BY <2>1
  <2> DEFINE used == old.used + comma + (IF FindGameById(h) # NoGame
                                         THEN DescriptorLength(h, o) ELSE 2)
             v == [old EXCEPT !.todo = Tail(old.todo), !.out = out, !.used = used]
  <2>7. used \in Nat
    <3>1. DescriptorLength(h, o) \in Nat
      BY <2>2, LengthType
    <3> HIDE DEF h, comma
    <3> QED
      BY <2>2, <3>1
  <2>8. view' = [view EXCEPT ![r].todo = Tail(old.todo), ![r].out = out, ![r].used = used]
    BY <1>a, <2>6 DEF ViewType
  <2> HIDE DEF out, used
  <2>9. /\ v \in ViewType /\ v.due = old.due /\ v.user = old.user /\ v.out = out
        /\ v.todo = Tail(old.todo)
    BY <1>a, <2>2, <2>5, <2>7 DEF ViewType
  <2>10. view' = [view EXCEPT ![r] = v] /\ rpc' = [rpc EXCEPT ![r] = "describe"]
    BY <1>a, <2>1, <2>8 DEF ViewType
  <2> HIDE DEF v
  <2>11. rpc'[r] = "describe" /\ view'[r] = v
    BY <1>e, <2>9, <2>10
  <2>12. Listed(r)' = out \o Tail(old.todo) /\ Listed(r) = old.out \o old.todo
    BY <2>9, <2>11 DEF Listed
  <2>13. CountsDown(out \o Tail(old.todo), old.due)
           <=> CountsDown(Listed(r), view[r].due)'
    BY <1>d, <2>9, <2>11, <2>12 DEF CountsDown
  <2>14. ReaderSound(r)'
    BY <1>a, <1>d, <2>1, <2>4, <2>9, <2>11, <2>12, <2>13 DEF ReaderSound
  <2> QED
    BY <2>9, <2>10, <2>14, OneReader
<1>8. CASE SendList(r)
  BY <1>4, <1>8 DEF SendList
<1> QED
  BY <1>1, <1>2, <1>3, <1>5, <1>6, <1>7, <1>8 DEF Read

LEMMA ListingStep == LIInv /\ [LNext]_allVars => LIInv'
<1> SUFFICES ASSUME WritersInv, ListingInv, [LNext]_allVars PROVE LIInv'
  BY DEF LIInv
<1>1. [AnyStep]_vars /\ WritersInv'
  BY StepOfWriters, WritersStep
<1>2. CASE UNCHANGED listing
  BY <1>1, <1>2, ReaderKept DEF listing, ListingInv, LTypeOK, WritersInv, LIInv
<1>3. CASE \E r \in Readers : Read(r)
  <2>1. UNCHANGED vars
    BY <1>3 DEF Read, AskRecent, AskUser, GetNext, FindListed, GetRange, Describe, SendList
  <2> QED
    BY <1>1, <1>3, <2>1, ReadStep DEF LIInv
<1>4. CASE Restart
  <2>1. NoView \in ViewType
    BY DEF NoView, ViewType
  <2>2. LTypeOK'
    BY <1>4, <2>1 DEF Restart, LTypeOK, ViewType
  <2>3. \A r \in Readers : rpc'[r] = "idle" /\ view'[r] = NoView
    BY <1>4 DEF Restart
  <2>4. \A r \in Readers : ReaderSound(r)'
    BY <2>3 DEF ReaderSound, NoView
  <2> QED
    BY <1>1, <2>2, <2>4 DEF LIInv, ListingInv
<1> QED
  BY <1>2, <1>3, <1>4 DEF LNext, allVars

-----------------------------------------------------------------------------
(* The theorems.                                                           *)

(* Whatever is written, refused or cut short between its commands, a       *)
(* reader's list only loses games, and what the writers rely on is not     *)
(* disturbed by the readers, nor by the null pointer that ends the process *)
(* when there is no game yet.                                              *)
THEOREM ListingHolds == LSpec => []LIInv
<1>1. LInit => LIInv
  <2> SUFFICES ASSUME LInit PROVE LIInv
    OBVIOUS
  <2>1. NoView \in ViewType
    BY DEF NoView, ViewType
  <2>2. LTypeOK
    BY <2>1 DEF LInit, LTypeOK, ViewType
  <2>3. \A r \in Readers : ReaderSound(r)
    BY DEF LInit, ReaderSound, NoView
  <2> QED
    BY <2>2, <2>3, InitWriters DEF LInit, LIInv, ListingInv
<1> QED
  BY <1>1, ListingStep, PTL DEF LSpec

(* Also beside readers, and when the process is ended by one of them, no   *)
(* index entry dangles and no list outgrows the limit.                     *)
THEOREM WritersUndisturbed == LSpec => [](IndexSound /\ HistoryWithinLimit)
<1>1. LIInv => IndexSound /\ HistoryWithinLimit
  BY LengthsWithinLimit DEF LIInv, WritersInv, IInv, RegistryInv, GameSide
<1> QED
  BY <1>1, ListingHolds, PTL

(* Beside readers, too, the registry implements Directory: what a reply    *)
(* shows of a game at one moment is what a later one shows.                *)
THEOREM ReadersSeeDirectory == LSpec => ImplementsDirectory
<1>1. LInit => LeadHome /\ NumbersApart /\ Dir!DirInit
  BY DirectoryEmpty DEF LInit
<1>2. LIInv => IInv
  BY DEF LIInv, WritersInv
<1>3. IInv /\ LeadHome /\ NumbersApart /\ [LNext]_allVars => LeadHome' /\ NumbersApart'
  BY StepOfWriters, LeadHomeStep, NumbersStep
<1>4. IInv /\ LeadHome /\ OneKey /\ OneKey' /\ [LNext]_allVars => [Dir!DirNext]_(Dir!directory)
  BY StepOfWriters, StepOfDirectory
<1> QED
  BY <1>1, <1>2, <1>3, <1>4, KeysApart, ListingHolds, PTL
     DEF LSpec, ImplementsDirectory, Dir!DirSpec

(* A finished reply names no game twice, newest first, and a reply to      *)
(* /recent-games leaves out an answered game only for RecentLimit newer    *)
(* numbers, for every number of readers and writers and every limit.       *)
THEOREM ListingCorrect == LSpec => []ListedOnce
<1>1. LIInv => ListedOnce
  <2> SUFFICES ASSUME LIInv, NEW r \in Readers, Ready(r)
               PROVE  LET out == view[r].out IN
                      /\ IF view[r].user = Absent \/ ~overlap THEN Falling(out) ELSE Apart(out)
                      /\ view[r].user = Absent =>
                           \A i \in view[r].due :
                             \/ \E k \in DOMAIN out : out[k] = i
                             \/ /\ Len(out) = RecentLimit + 1 /\ next_game > i + RecentLimit
                                /\ \A k \in DOMAIN out : out[k] # 0 => out[k] > i
    BY DEF ListedOnce
  <2> DEFINE out == view[r].out
  <2>1. out \in Seq(Nat) /\ Listed(r) = out /\ rpc[r] = "describe"
        /\ view[r].due \subseteq GameIds
    BY DEF LIInv, ListingInv, LTypeOK, Ready, Listed
  <2>2. ReaderSound(r)
    BY DEF LIInv, ListingInv
  <2> HIDE DEF out
  <2>3. CASE view[r].user # Absent
    BY <2>1, <2>2, <2>3 DEF ReaderSound, out
  <2>4. CASE view[r].user = Absent
    <3>1. PICK n \in GameIds :
            /\ n <= next_game /\ Len(out) = Min2(RecentLimit, n) + 1
            /\ \A k \in DOMAIN out : out[k] \in {0, n - k + 1}
            /\ \A i \in view[r].due : i <= n /\ (n - i + 1 \in DOMAIN out => out[n - i + 1] = i)
      BY <2>1, <2>2, <2>4 DEF ReaderSound, CountsDown
    <3>2. /\ n \in Nat /\ next_game \in Nat /\ RecentLimit \in Nat /\ DOMAIN out = 1 .. Len(out)
          /\ Len(out) \in Nat /\ \A k \in DOMAIN out : out[k] \in Nat /\ k \in Nat
      BY <2>1, Counts, ListingAssumption DEF GameIds, LIInv, WritersInv, IInv, TypeOK
    <3>3. Falling(out)
      BY <3>1, <3>2 DEF Falling
    <3>4. ASSUME NEW i \in view[r].due
          PROVE  \/ \E k \in DOMAIN out : out[k] = i
                 \/ /\ Len(out) = RecentLimit + 1 /\ next_game > i + RecentLimit
                    /\ \A k \in DOMAIN out : out[k] # 0 => out[k] > i
      <4>1. i \in Nat /\ i >= 1 /\ i <= n
        BY <2>1, <3>1, <3>4, Counts DEF GameIds
      <4>2. CASE n - i + 1 \in DOMAIN out
        BY <3>1, <4>2
      <4>3. CASE n - i + 1 \notin DOMAIN out
        <5>1. n - i + 1 > Len(out)
          BY <3>2, <4>1, <4>3
        <5>2. Len(out) = RecentLimit + 1 /\ n > i + RecentLimit
          BY <3>1, <3>2, <4>1, <5>1 DEF Min2
        <5>3. \A k \in DOMAIN out : out[k] # 0 => out[k] > i
          BY <3>1, <3>2, <4>1, <5>2
        <5> QED
          BY <3>1, <3>2, <4>1, <5>2, <5>3
      <4> QED
        BY <4>2, <4>3
    <3> QED
      BY <2>4, <3>3, <3>4 DEF out
  <2> QED
    BY <2>3, <2>4
<1> QED
  BY <1>1, ListingHolds, PTL
=============================================================================
