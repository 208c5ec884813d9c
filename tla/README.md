# Verification of ocsc-game

Models, model checks and proofs for the game server under `src/server`, a small HTTP
daemon that plays the "Berghain challenge": symbols (people with binary attributes)
arrive one by one, a player accepts or rejects each, and the game ends when the venue is
full or too many people were judged. All durable state lives in a valkey database that
several handlers update with sequences of single commands. The player program
`greed.c`, the offline analyzer `analyze.c` and the goal evaluation of the web page are
modelled with it.

## 1. The system

| part | code | state | operations |
|---|---|---|---|
| game rules | `server/game.h`, `game_update`, `game_is_finished`, `format_game` | derived from the list of judged people | none of its own |
| playing requests | `web_process_person`, `find_game`, `process_next_person`, `create_next_person`, the game's own keys in `new_game` | valkey hash *uuid* (`id userid type next`) and string *uuid*`-m` (one byte per judged person); a `struct game_t` copy per request | `/process-person` with or without a verdict, `/new-game` |
| users, names, ids, lists | `web_new_user`, `web_new_game`, `new_game`, `find_user*`, `find_game_by_id` | counters `next_user` `next_game`, hashes `usernames` `userids` `gameids`, one hash per user and game, one list *uuid*`-games` per user | `/new-user`, `/new-game`, the lookups |
| read-only listings | rest of `server/main.c` | a handler's locals and its reply buffer | `/recent-games /user-games /details /symbols /params /gameid` |
| reset, durability | `reinit_db`, `main`, `valkey.conf` | the whole database, the file valkey writes | `-r`, start, stop, restart of valkey |
| connection pool | `server/valkey.c` | the list `vk_list`, a `next` field per connection | `get_valkey`, `release_valkey` |
| goal evaluation | `server/goal.c`, `server/goal.h` | a stack of packed terms | `goal_param` |
| pages | `static/` | none; `game_details.js` rewrites each goal | display, and a second evaluation of goals |
| greedy player | `greed.c` | goals left, space left | plays one game over HTTP |
| analyzer | `analyze.c`, `parse.sh` | a string of letters | one offline search |
| random attributes | `server/game.c:130-333`, `server/check.c` | WELL generator | `generate_attributes` |

**Interaction.** nginx passes `/game/*` to libmicrohttpd, which calls `web_entry`; a
handler takes a connection from the pool, sends blocking valkey commands one after the
other and answers. Handlers share nothing in memory but the pool and the random
generator: they communicate through valkey keys. `MHD_start_daemon` is called with
`MHD_USE_INTERNAL_POLLING_THREAD` only (`server/main.c:778`), so one thread runs all
handlers and two requests never overlap; the comment on `web_entry`
(`server/main.c:657`), the lock-free pool and the spinlock are written for a thread per
request. Both are modelled: `Threads = {t1}` is the daemon as it is started, two threads
the one the code provides for.

**What is hard.** Every handler reads, decides on a copy, then writes with several
commands, any of which valkey may refuse (`maxmemory 128mb`, `noeviction`) and between
any two of which the process may end; nothing is undone. valkey itself keeps its keys in
a file that it writes now and then, in the middle of a request if it so happens. Replies
get lost and players retry. Goals are evaluated on a stack whose entries are values and
tagged terms at once, and a second time, differently, by the page. The pool is lock-free.
Listings read many keys while others write them. `PROJECT.json` lists these hazards at
their lines.

**What makes each part correct.**

* rules and play: what was shown is what is judged, what was acknowledged stays, history
  only grows, limits are never passed, a game can always be played to its end;
* registry: what was answered can be found by every key, an index never dangles, a
  user's list keeps the newest games;
* listings: nothing twice, nothing new missing, newest first, and the text fits;
* reset and durability: what was answered and saved stays true, untouched games survive,
  and a reset leaves nothing;
* pool: a connection has one user, none is lost, and threads never all wait for each other;
* goals: the documented value, in finitely many steps, within the array; on the page the
  same;
* greedy player: no goal ever needs more people than there is space for;
* analyzer: the same people accepted, in as few arrivals as possible.

## 2. Modules

| module | models |
|---|---|
| `GameRules` | a judged person, counters, end of the game, goals, status: operators on the list of judged people |
| `GameLog` | abstract specification of a game: start, draw, judge, lose |
| `Directory` | abstract specification of people, games, their owners and lists: join, register, enlist, drop the oldest |
| `PlayServer`, `MCPlayServer` | the playing requests, one action per valkey command; INSTANCEs `GameLog` |
| `Durability`, `MCDurability` | EXTENDS `PlayServer`: the file of valkey, restarts of both programs, the reset |
| `Registry`, `MCRegistry` | sign-up and the registration of games, one action per valkey command, and what readers find; INSTANCEs `Directory` |
| `Listings`, `MCListings` | EXTENDS `Registry`: the two lists of games, read while others write |
| `ConnPool`, `MCConnPool` | the pool, one action per access to shared memory |
| `GoalEval` | `goal_param`, one action per round of its loops, and the documented meaning of a goal as a recursive function |
| `GoalPage`, `MCGoalEval` | EXTENDS `GoalEval`: the page's rewriting of the same goal; the goals TLC evaluates |
| `Greed` | the greedy player: its decision, one level of the recursion per action, its books, its requests |
| `Analyze`, `MCGreed` | EXTENDS `Greed`: the analyzer on the game that was played |
| `RulesProofs` | lemmas about the counters of `GameRules` |
| `PlayServerProofs`, `DurabilityProofs`, `RegistryProofs`, `ListingsProofs`, `ConnPoolProofs` | theorems about the module of that name |
| `GoalEvalProofs` | theorems about `GoalEval` and `GoalPage` |
| `GreedProofs` | theorems about `Greed` and `Analyze` |

The `MC` modules give values to constants. Operators introduced as "Variant" are the
same operation with a plausible mistake; no specification uses them. They show that a
property notices the mistake.

### PlayServer

`made`, `next[g]`, `seen[g]` are the keys: does the hash exist, its field `next`
(`Nobody` when it is not set), and the string `uuid-m`. Per thread, `pc` is the next
valkey command, `req` the arguments, `copy` the `struct game_t` (the pending symbol and
the judged people; everything else in it is computed from these by `game_update`).
`told` and `acks` record replies: they are what players can rely on.

| action | command or code |
|---|---|
| `Receive` | `/process-person` arrives; any person number, verdict absent, true or false |
| `LoadHash` | `HGETALL uuid` |
| `Report`, `Decline`, `Admit` | `GET uuid-m`, then: no verdict; wrong person, finished or nobody pending; a verdict to record |
| `TakeNext` | `HDEL uuid next` |
| `WriteVerdict` | `SETRANGE uuid-m count byte` and `game_update` |
| `NewGame`, `CreateHash`, `IndexGame` | `/new-game`, `HSET uuid`, the commands on other keys |
| `OfferNext` | `HMSET uuid next` of `create_next_person`, and the reply |
| `CommandRefused` | valkey answers an error to a command that may need memory; `HDEL` is not one |
| `Crash` | the process ends and is started again; valkey keeps its data |

A symbol is the set of its attributes; the random generator may draw any. `Faults`
chooses which of the last two actions exist.

### GameLog and the refinement

`GameLog` is the promise: per game a log that only grows, and a phase: `absent`; `due`
(a symbol will be drawn); `open` (one is on offer); `over`; `lost`. `open` survives until
the offer is judged as it was drawn, and `lost` is final. The mapping in `PlayServer`
reads the log from `seen`. The offer is the field `next`, or, between `HDEL` and
`SETRANGE`, the copy in the hands of the thread that took it. A game is `due` while a
thread is on its way to `create_next_person`; without offer, thread or end it is `lost`.

### Durability

The keys are `PlayServer`'s. `file` is what valkey wrote last (`Save`, at any moment,
which includes every schedule of `valkey.conf`), with the replies that had been given
until then. `ValkeyRestart` goes back to it. The connections of the pool are opened once,
in `init_valkey`, and nothing reopens one: after the restart `linked` is false, every
command has no reply, and the requests under way end with an error (`NoReply`) until the
server is started again (`Stop`, `Start`). `StartReset`, `Delete` and `Launch` are
`reinit_db`: one `KEYS *`, one `DEL` per key in any order, then the daemon;
`ResetFails` is the fatal error when `DEL` gets no reply, and `Stop` may cut it short.

Replies given after the file was written bind nobody once valkey has gone back to it:
that is what `valkey.conf` accepts. `cut` notes the games in whose keys a request may
have stopped half-way, at a stop, a refusal or a snapshot in the middle of it; these may
be lost as described under findings. `ResetForgets` speaks of the time until valkey is
restarted, which may bring back a file from before the reset, and of resets that were
completed; one that was cut short leaves some keys and has to be repeated with `-r`. The
counters and index hashes are deleted in the same loop as the games and are not repeated
in this module.

### Registry

The counters, the three index hashes, the hashes of users and games and the lists are the
variables; `pc` and `req` are a thread's next command and locals; `ackUsers` and
`ackGames` are the replies without an error; `overlap` notes that two requests were under
way at once. `FindUserById`, `FindUserByName`, `FindUserByString` and `FindGameById` are
the lookups of `game.c`; the keys they read are written once, so their several commands
are read at one moment. `Owners` is what `/new-game` and `/user-games` take in a user's
place: `find_user` reads the fields `id` and `name` of any hash and looks at `id` only, so
the uuid of a game is as good as that of a user. The game it starts carries the number of
that game as its `userid` and is listed under its uuid; `named` notes which uuid the
request had. `NumberOf` is what `atoi` makes of a name, for
`find_user_by_string` tries a string as a name before it tries it as a number. `Offer`
stands for `create_next_person`, whose effect `PlayServer` models; `PlayServer`'s
`IndexGame` stands for the commands from `HSET gameids` to `RPOP`, which are spelled out
here.

`Directory` is the promise to readers, without uuids and commands: who is found under an
id and a name, which game under an id and whose it is, and the list of each owner. A
record appears whole, at one moment, and never changes; a name that leads to somebody
leads nowhere else later; the owner of a game is somebody who can be found, or an older
game; a list gains one game of its owner, not yet on it, at the front, or loses one at the
end. The mapping is what the lookups of `game.c` return (`PersonOf`, `NamedPerson`,
`GameOf`); an owner's uuid is mapped to its kind and number (`KeyOf`), which
`userid` alone does not tell, and `OwnerOf` and `ListOf` are read with it. A sign-up
happens when its last command, the `HSET` of the user's hash, does; a game when its index
is written. A sign-up or game that was cut short before is one that nobody finds. `Join`
leaves the name alone when it leads elsewhere: that is the sign-up that lost the race for
its name and was answered with success all the same. `DropOldest` has no limit in its
guard, because two requests that push before either measures may trim a list below the
limit.

### Listings

`rpc` and `view` are a reader's next command and locals: the ids still to be described,
the ones printed, the bytes printed and the size of the buffer. `RecentIds` has the
loop of `web_recent_games` and the line after it. A game is described by `Describe` with
`find_game_by_id`, at a moment of its own. `DescriptorLength` counts the bytes of
`describe_game`'s format; `Outcomes` are the counts a game may have come to, which are
keys of `PlayServer`. `AskUser` takes any uuid of `Owners`, as `find_user` does. A `GET next_game` before the first game is a null pointer for
`atoi`: the step `segv`, after which only `Restart` is possible.

### ConnPool

`get_valkey` reads the head, reads it again for `vk_list->next`, reads `next`, then
compares and swaps; `release_valkey` links and swaps. Each is an action. A handler may
take a further connection while it holds one (`describe_game` inside a listing). A second
read that finds the list empty dereferences NULL: the step `segv` ends the process. The head that was read a
second time may not be the first, and the head at the compare-and-swap may be the first
one again with another successor; then a connection that is in use, or one far down the
list, becomes the head. `stale` notes that this has happened. `pool_threads` shows what
comes of it; the properties of `pool_shared` say that nothing else damages the list. The
memory model is sequentially consistent: what `READ_RELAXED` and `CAS_RELAXED` allow
beyond that is not modelled.

### GoalEval and GoalPage

The bits of a stack entry say what it is: bit 13 operator, bit 12 attribute, the low
twelve a signed constant; results are stored in the same entries. `Reduce` is a round of
the inner loop, `PushTerm` and `EndOfInput` the rest of the outer loop's body, `Leave`
its exit. Dividing by zero or reading past `attr_n` is undefined in C and leads to the
status `trap`. Integers are not wrapped to 32 bits: with counts up to 21000 and the goals
checked nothing comes near the limit.

The page receives the server's verdict and evaluates the goal once more: `Substitute` is
one attribute replaced by its count, `ApplyFirst` one operator with two operands. `Sliced`
is `goal.slice(i, 3)` with its end index; a term that is missing is `NaN`, and how
JavaScript computes with it is in `PageApply`. Division on the page is real division;
since its operands are only both there for an outermost operator, whose value is shown as
true or false, `Quotient` keeps just its truth.

### Greed and Analyze

`list`, `space` are `all_goals`; `view` is the argument of the current level of
`decide_for`, whose recursive call is in tail position, so that a level is an action
(`OutOfGoals`, `RejectRequired`, `Consider`) and the last one also performs
`update_goals` (`Answer`). `GetPerson` is a request with its reply, the server's side
being `GameRules` on `seen`; the player alone knows its game's uuid, so nobody else
judges in it. `GiveUp` is an error reply, or a loss before or after the server recorded
the verdict. Percentages replace floats: they order goals and estimate progress, and what
is checked must hold whatever they are. Equal goals may be sorted either way.

`Analyze` takes the finished game as `parse.sh` would pass it on, one letter per person
(the symbol, the verdict as its case), at most `BufSize` of them. `SkipRejected`,
`Exchange` and `Stop` are the branches of its loop, `last` its index `i`.

## 3. Runs

| run | configuration | what it shows |
|---|---|---|
| `play_serial` | 1 thread, 1 game, limits 2/4, refused commands and crashes | `JudgedAsShown`, `AcksKept`, `Capacity`, `NoOfferAfterEnd`, `AppendOnly`, `RunningShowsGame`, the inductive invariant `SerialInv`, and `ImplementsGameLog`, all under retries and faults |
| `play_threads` | 2 threads, limits 2/3, no attributes, no faults, fairness | `NeverShrinks`, what remains true of the history when requests overlap; `EveryGameEnds`, unless a late verdict rejects an accepted person |
| `play_doc_pending` | as `play_serial` | finding: a game whose player has begun to play answers "running" with a next person who is not pending |
| `durability` | 1 thread, 1 game, limits 1/3, refused commands, snapshots, restarts, resets | `SavedRepliesHold`, `IdleGamesSurvive`, `ResetForgets` |
| `registry_serial` | 1 thread, 2 names of which one reads like an id, 2 users, 4 games, lists of 2, faults | `UsersResolve`, `NamesResolve`, `NewestGamesListed` |
| `registry_threads` | 2 threads that write, 1 that lists, 1 name, 2 users, 2 games, both limits 1, faults | `IndexSound`, `HistoryWithinLimit`, `ListedOnce`, and `ImplementsDirectory` |
| `listing_fits` | one user, five won games with 10546 judged people each, no faults | finding: the list does not fit its buffer |
| `pool_shared` | 2 threads, 3 connections, nesting 2, fairness | `ExclusiveUntilStale`, `LostOnlyWhenStale`; `PoolMovesOn` at the limit of the pool |
| `pool_threads` | 2 threads, 2 connections | finding: connections are lost |
| `goal_sound` | the built-in goals, relations of a leaf to expressions of one or two operators, six sets of counts, fairness | `StackFits`, `ValueAsDocumented`, `EvaluableDecided`; `PageSound`, `PageFinishes` |
| `goal_page` | the built-in goals | finding: the page shows met goals as not met |
| `greed_play` | venue of 3, loss limit 5, three goals on three attributes, correlated and anti-correlated, analyzer buffer of 4, fairness | `NeedsFit`, `BooksAgree`, `FullVenueWins`, `PlayerFinishes`; `SameGameWon`, `ShortestPossible`, `AnalysisEnds` |

The `TypeOK` of each module is checked in the run of its first line above.

**Bounds.** Limits of 1 to 4 people instead of 1000 and 21000 let both limits be reached,
alone and together, and leave room for a verdict before, at and after each. One game
suffices for play, since no command of a game touches another's keys. One attribute gives
two symbols, enough to tell a shown person from another. Person numbers are bounded by
the loss limit. In `durability` the one game is started, played, taken back to an older file
and deleted; its uuid is drawn once and never comes back, so what is checked is what a
request from before the restart or the reset can do to it afterwards. In `play_threads` a
venue of two leaves a game unfinished after one acceptance, so that one thread can go on
with it while the other is late with a verdict on the first person; a venue of one does not
show the game that gets stuck so. People are told apart by their place there, and no
attribute is needed. In the registry, four games against lists of two let a list be trimmed
twice and overflow by a fault in between, and let games be started for games in turn; two
games against limits of one let a list be read before, between and after a push and its
trim, and one name with two users is the race for it. Two threads that nest two deep, as
the listings do, hold two of the pool's three connections when both ask for another:
`T * (nesting - 1) + 1` of them is the smallest pool that does not come to a standstill,
and with two connections `PoolMovesOn` is violated. Two connections and two threads
already show the loss. The analyzer's buffer of four is shorter than the longest game of five.
Deadlock checking is off where the bound on uuids, or the end of an evaluation or
process, stops the model.

**Fairness.** Weak fairness of each started handler: the thread runs it and valkey
answers every blocking command. `EveryGameEnds` also assumes a player who keeps sending a
verdict on the current person: strong fairness, as requests on other matters may hold the
thread each time the player's turn comes; it is checked without faults, since a lost game
does not end. `PoolMovesOn` assumes that every thread runs and that handlers give their
connections back, not that a request comes or that a handler takes another one. It does
not promise each thread its connection, as other threads may win every
compare-and-swap. `EvaluableDecided`,
`PageFinishes`, `PlayerFinishes` and `AnalysisEnds` assume that a program goes on and that
a request is answered or fails.

## 4. Proofs

**PlayServerProofs** holds for every number of games, every set of attributes, every pair
of limits with `LossLimit > AcceptedLimit > 0` (`RulesAssumption`) and every choice of
faults (`PlayAssumption`). For *any set of threads*: `TypeCorrect` and
`HistoryNeverShrinks`. The argument for the latter: an offset is bounded by
`LossLimit - 1` because it was read from a game that was not finished, and SETRANGE at or
below the length never shortens a string. For a server that serves *one request at a
time* (`Serial`, an assumption of each theorem, justified by `server/main.c:778`):
`SerialPlay` proves the invariant `SerialInv`, and from it follow `VenueCapacity`,
`PersonsJudgedAsShown`, `AcknowledgedVerdictsKept`, `FinishedGamesOfferNobody`,
`HistoryAppendOnly` and `SerialPlayIsGameLog`, the refinement of `GameLog`.

`RepliesShowGame` follows from it too. `NoGameStuck` is the safety core of
`EveryGameEnds` for the one thread of the daemon: without faults, a game is at every
moment over, pending, or held by a request that will draw somebody (`Whole`). With two
threads this is false in the one way that `EveryGameEnds` leaves out: a verdict that was
decided on an old copy rejects a person who was accepted meanwhile (`Undoing`), after
another handler, whose copy was full, has ended the game and drawn nobody.

Why a strengthening is needed: `AcksKept` and `JudgedAsShown` speak of replies and of the
history, but a step preserves them only if the handler's copy still agrees with the keys.
`PlayInv` adds this: `CopyFresh` (what a handler knows at each command is what the
store holds), `VerdictRecorded` (between SETRANGE and HMSET the verdict being answered is
on record), `Unmade` (a game without a hash has nobody pending), and `ShownStands` (a
symbol once shown is pending, being judged, on record, or lost with nobody left to draw
another). The last is what makes a retry after a crash harmless. `SerialInv` is `PlayInv`
and `Unplayed`, a game without a hash has no history, which holds until a reset is cut
short between the two keys of a game; `PlayInv` survives that,
because it asks for an empty `uuid-m` only of a game that is being created.

**DurabilityProofs** holds for the same constants, and one request at a time, on top of
`PlayInv`. `DurableHolds` proves `DurableInv`. The argument: what valkey holds, without
the copies of requests under way, and what its file holds are both states in which an idle
server could be (`Sound`, of `Contents` and of `file`: the keys are well typed and within
the limits, the replies that still bind agree with them, and only a game in `cut` has
nobody to judge). `Save` copies one to the other; `ValkeyRestart` copies it back
and cuts the links; and from a sound store with no request under way `PlayInv` holds, so that
`Start` may go on with the invariant of `PlayServerProofs`. Steps of handlers preserve
`Sound` by way of `PlayInv`, and a handler that lost its link changes no key. `ResetSound`
says what the reset still has to delete: a key that is left is in the reply to `KEYS *`.
From it come `SavedRepliesStay`, `IdleGamesPlayable` and `ResetForgetsGames`. TLC finds no
violation of `DurableInv` with the configuration of `durability` either.

**RegistryProofs** holds for any threads, users, names, games, limit and faults.
`RegistryHolds` proves `RegistryInv`, and from it come `TypeCorrect`, `IndexCorrect`,
`UsersCorrect`; `NamesKept` is an action property (`NamesNeverRebound`, also of a name
whose user is not written yet). `NamesCorrect` holds while no two
requests were served at once: `NamesKnown` adds that nobody takes a name between another
sign-up's `HGET` and its `HSETNX`, which is false with two threads: the later of two
sign-ups then writes a hash that its name does not lead to. `NewestCorrect` holds on the
same condition: `NewestKnown` says that a number from INCR is greater than all that are
listed when LPUSH puts it first, and that RPOP meets a sorted list longer than the limit,
so that it drops the least number, never the one just pushed. The invariant says what each handler
knows between two commands, step by step of its `pc` (`SignUpSound`, `NewGameSound`), and
why no other handler can spoil it: uuids are fresh and numbers come from INCR, so no two
handlers write to the same keys (`UsersApart`, `GamesApart`), and every hash is written
before, or after, its index entry as its readers need it (`UsersIndexed`, `GamesOwned`).
`GamesOwned` says whose number a game carries: that of the uuid its request named, which
is set once, before the request's `INCR next_game`; hence the number of a game that was
named in a user's place is less than the new game's own, and a user that was named is in
the index.
A counter is the number of uuids drawn, which keeps ids in the range of the model.

`HistoryCorrect` needs an account of every entry beyond the limit, with any number of
requests pushing and trimming the same list at once. `LengthsKnown` keeps it: a list
exceeds the limit by no more than the unanswered games of its owner that were pushed and
whose handler has neither found the list short enough nor trimmed it yet (`Counted`).
Handlers that were cut short stay among these for ever, and an answered game never is.

`RegistryIsDirectory` is the refinement of `Directory`. `RegistryInv` says that what was
written can be found; the refinement also needs the converse, that it is found in one
place only: an index entry agrees with the hash it leads to and, while there is no hash
yet, with the thread that is going to write it (`IdsLeadHome`, `NamesLeadHome`; TLC finds
no violation of these with the configuration of `registry_threads`). Without it, one `HSET`
could make somebody appear under two ids. Owners are mapped to their numbers, so these
have to be told apart by them: `NumbersApart` says that no two hashes of games carry the
same number, `KeysApart` that an owner is found by its key, and `UnderKey` and
`ListsAfter` that a list that changes is the list of that key and no other. One lemma per writing action says which step of
`Directory` it is, `UnseenWrites` that the others are none: `HSETNX` and `HSET userids`
lead to a hash that is not there, `HSET uuid` of a game writes a hash that nothing leads
to.

**ListingsProofs** holds for any readers besides, and any limit of `/recent-games`.
`ListingHolds` proves `ListingInv`, with the invariants of the writers beside it
(`WritersUndisturbed`): a list once read only loses games (`Listed`), is in falling order
of numbers that count down from the last one given (`CountsDown`) or, for one user,
without repetition, because the list of the user was (`RegistryInv`) and falling if no two
requests overlapped (`NewestKnown`); a game that had been answered when it was asked for
is found by every later lookup, so it stays. `ListingCorrect` is this at the end of the
list. `ReadersSeeDirectory` is the refinement of `Directory` under the specification that
`registry_threads` runs, with readers and the null pointer that ends the process.

**GreedProofs** holds for any limits, any finite set of goals of the one kind that the
player reads, "at least k with attribute a" with k at most the venue's size, and any
estimates (`GreedAssumption`): `GreedTypes`, `GoalsAlwaysFit`, `BooksAlwaysAgree`,
`FullVenueIsWon`. The invariant `GreedInv` adds to `NeedsFit` and `BooksAgree` what the
recursion carries down: a level that looks at estimates was reached through the first
one, which looks at the goals themselves and rejects whoever lacks an attribute that all
remaining places need. Only thanks to that may the deeper levels admit somebody on
estimates alone, whatever those are. `PlayerAdvances` is the variant behind
`PlayerFinishes`: rounds that the loss limit leaves (`RoundsLeft`), then levels of the
recursion (`LevelsLeft`).

**ConnPoolProofs** holds for any pool, any nesting and, but for `OneThreadIsSafe`, any
number of threads. `PoolTypes`: however they damage the list, what threads read and hold
are connections, and nobody holds more than a handler nests. `OneUserEach` and `NoLeak`
are about the time until a stale successor becomes the head. `PoolInv` says that until
then there is a list, without repetition, that starts at the head and follows `next`
(`IsList`), and that every connection is in it or with one thread (`Places`). A push needs
no more: whatever the head was when the connection was linked, the compare-and-swap
succeeds only if the head is what its `next` says (`Pushed`). A pop takes the head and
installs `new`; if that is the head's successor, the rest of the list is the list
(`Popped`), and if not, `stale` says so. A read that is out of date does no harm otherwise,
as the compare-and-swap then fails. That what the head reaches is this list (`ListReach`)
would be proved by induction; a lemma of numbers, that every non-empty set has a least one
(`LeastNat`), takes its place. `SomebodyCanGo` is the safety core of `PoolMovesOn`: if the
pool is larger than the number of threads times one less than the nesting, then an empty
list means that some thread is using or returning a connection, since threads that only
wait hold too few (a count of connections against places to hold them).
`OneThreadIsSafe`, for the daemon as it is started: nothing changes between the accesses
of `get_valkey` (`Calm`), so that no successor is stale, no connection is lost or shared,
and no second read finds NULL. With two threads this is false, as `pool_threads` shows.

For the analyzer **GreedProofs** holds for any game that the player could have played and
any buffer. `SearchInv` says what an exchange leaves alone: the people stay where they are,
and of every symbol as many are accepted among the first `last` people as in the whole
game that was read. `ImprovedGameIsWon` is that count at the end. When no exchange is left,
everyone of the last accepted person's symbol who came earlier is accepted, so any
shorter game lacks one of that symbol: `ImprovedGameIsShortest`. `AnalysisShrinks` is the
variant behind `AnalysisEnds`: an exchange leaves "last" where it is, but the person there
is then a rejected one, and is left behind for good (`SearchLeft`).

**GoalEvalProofs** holds for any goals and counts. `StackNeverOverruns`: a round of the
inner loop replaces three entries by one, and the outer loop pushes one per term read.

The documented meaning of a goal, `Meaning`, is a function defined by recursion: what a
term means depends on later terms only, so such a function exists and satisfies its
definition (`MeaningDef`, by taking the least counterexample, as `LeastNat` allows). The
invariant is a layout (`Laid`): positions in the goal, one per entry of the stack, such
that an operator on the stack is the one at its position, any other entry stands for the
expression that starts at its position, and the next entry's position is where that
expression ends. `Entry` says that an entry is read back as the value of its expression,
`Unread` that only the top of the stack is ever reducible. An operator under two operands
is then an expression of the goal (`TripleLaid`) and takes their place with its value
(`Spliced`); what `Exact` demands, operands within 0 .. 2047, is what makes that value one
without tag and sign bits. `DecidedAsDocumented` follows when the layout has shrunk to one
entry. As an operator that is left in a whole goal has its operands sooner or later
(`SomeTriple`), the loop always has something to do: `EvaluableAdvances`.

`AtLeastExact`, `AtLeastPartExact` and `GameGoalsAdvance` are what this says of the goals
of `game_params`, for any attribute, any constant below 2048 and, where one is divided,
any count below 2048 (twice the venue): `FlatMeaning` and `PartMeaning` compute the
meaning of the two shapes, and `BuiltInAnswerable` says that the goals of `game_params`
are among them.

The page rewrites the goal in another order, first all attributes, then the first operator
with two operands, but the same layout describes its line. `Comparison` is a comparison of
arithmetic expressions, over constants and attributes, of any nesting. The invariant
`LineInv` says that the line is `Open`, laid out over the goal with `NaN` wherever an
operator within the goal has been applied (`InnerNaN`: `slice(i, 3)` never has the third
term there), or `Closed`, the verdict alone (`OpenLast`). Counts are assumed to be below
2048 (`SmallCounts`; the venue holds 1000 people), so that no count has a flag bit.
`ComparisonsShownSound`: the page never errs towards "true", is right about comparisons of
two leaves, and shows every other comparison as not met, whatever the counts.
`ComparisonsNeverStuck` is the safety core of `PageFinishes`: the line always has an
attribute to look up or an operator with its operands. `PageSoundForGames`,
`PartGoalsNeverShownMet` and `PageNeverStuck` are the same for the goals of games, with any
attributes and constants; the finding of `goal_page` thus concerns every goal of game
type 3.

**Only model-checked.** Liveness under fairness is out of the prover's reach:
`EveryGameEnds`, `PoolMovesOn`, `EvaluableDecided`, `PageFinishes`,
`PlayerFinishes`, `AnalysisEnds`. Of each the safety core is a theorem (`NoGameStuck`,
`SomebodyCanGo`, `EvaluableAdvances`, `ComparisonsNeverStuck`, `PlayerAdvances`,
`AnalysisShrinks`);
that a step so shown to be possible or to come nearer the end is also taken is fairness.
What a goal with an operand outside 0 .. 2047 comes to is not described, but for its
types and the size of the stack. All invariants and action properties of the passing runs
are theorems: `PageSound` for comparisons as above with counts below 2048; those of
`PlayServer` but `TypeOK` and `NeverShrinks`, and of `Durability`, for the one thread of
the daemon. That games end with two threads, `Undoing` apart, is checked with one game and
limits 2/3 only.

## 5. Findings

* After a fault between `HDEL` and the following `HMSET` of a verdict, a game that its
  player has begun to play answers "running" with `"next":0`, as if a person without
  attributes were next, though nobody is pending and nobody will be (`play_doc_pending`).
* `get_valkey` is not safe for two threads (`pool_threads`). The daemon has one.
* The page shows every goal of game type 3 as not met, also when the server found it met:
  `slice(i, 3)` takes an end index (`goal_page`). It never errs the other way
  (`PageSound`).
* A list of five won games with counts of five digits is longer than the buffer its length guess allows, and is cut
  off in the middle of a JSON object (`listing_fits`).

Seen while modelling, without a run of their own:

* with two threads, no fault and a venue of two or more, a game can get stuck: one thread
  has a rejection of the first person in its hands, decided before the other one
  recorded an acceptance of the same person; the other goes on, accepts until its copy
  is full and draws nobody; the first then overwrites the acceptance. The venue has a
  place again, the game is not over and nobody is pending. `EveryGameEnds` leaves
  these behaviours out (`Undoing`); without that it is violated in `play_threads`. The
  daemon's one thread rules them out (`NoGameStuck`);
* `server/main.c:194` says of the uuid that `/new-game` requires: "so that you cannot
  start games as someone else". The uuid of a game is accepted too (`find_user` looks at
  the field `id` only), and its number is taken for the user's: `/details` then shows the
  user with that id as the owner. `UsersResolve` and `Directory` say what holds of such
  games;
* a game that reaches `LOSS_LIMIT` with its goals met is answered "completed" whatever the
  number of accepted people (`server/main.c:215`; `static/index.html:108` says the venue
  is full), and the loss limit counts judged people, not rejected ones as `desc.md` says;
* constants from 2048 to 4095 in goals are negative (`server/goal.c:19`), and a goal whose
  subtraction goes below zero is never decided, keeping the only thread; a goal of one
  attribute would be answered by its code instead of its count (`Polish` leaves it out); no
  built-in goal is of these kinds;
* `/recent-games` before the first game reads a null pointer (`server/main.c:537`);
* a sign-up whose later command fails leaves its name taken;
* the analyzer answers length 1 when nobody was accepted, reads at most 8192 of up to
  21000 people, and takes index -1 of an empty input (`analyze.c:63`); `parse.sh` has
  letters for games of two attributes only.

## 6. Not modelled, and the plan

Left out: `/details`, `/symbols`, `/params` and `/gameid`, which print what one
`find_game` returned and change nothing; JSON text, cookies, argument syntax and markup;
polling by the pages, which keeps no state; memory exhaustion in the server process;
the random generator and `check.c`, which are statistics on real numbers (the models
draw any symbol, so nothing here depends on them); nginx, the build, and the submodules,
whose directories are empty.

Of the proofs, these would come next:

1. a refinement for `Durability`'s server while it is linked, as there is for
   `PlayServer` (`SerialPlayIsGameLog`) and `Registry` (`RegistryIsDirectory`);
2. goals with an operand outside 0 .. 2047, which the stack takes for another term.
