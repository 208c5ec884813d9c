------------------------------ MODULE ConnPool ------------------------------
(***************************************************************************)
(* The pool of valkey connections of server/valkey.c: a linked list whose  *)
(* head vk_list is popped by get_valkey and pushed by release_valkey with  *)
(* compare-and-swap and no lock.  One action per access to shared memory.  *)
(*                                                                         *)
(* A handler takes connections nested: web_user_games and web_recent_games *)
(* keep one while describe_game takes and returns another, so a thread     *)
(* holds at most two and returns the last one taken first.                 *)
(***************************************************************************)
EXTENDS Naturals, Sequences

CONSTANTS
  Threads,
  PoolSize,   \* VALKEY_POOL_SIZE, 16 in valkey.h
  Null,
  Depth       \* connections one handler holds at once, 2 in main.c

ASSUME PoolAssumption ==
  /\ PoolSize \in Nat \ {0}
  /\ Depth \in Nat \ {0}
  /\ Null \notin 1 .. PoolSize

Conns == 1 .. PoolSize
Links == Conns \cup {Null}

VARIABLES
  vk_list,   \* head of the free list
  nextOf,    \* nextOf[c] : field next of struct valkey_t c
  pc,        \* pc[t] : the next access of thread t
  ret,       \* ret[t] : get_valkey's local, the head it read
  via,       \* via[t] : the head get_valkey read again for "vk_list->next"
  new,       \* new[t] : the value the CAS will install
  held,      \* held[t] : connections t has, last taken last
  stale      \* history: the head was replaced by something else than its successor

vars == <<vk_list, nextOf, pc, ret, via, new, held, stale>>

Steps == {"idle", "load", "again", "next", "cas", "use", "link", "push", "segv"}

TypeOK ==
  /\ vk_list \in Links
  /\ nextOf \in [Conns -> Links]
  /\ pc \in [Threads -> Steps]
  /\ ret \in [Threads -> Links]
  /\ via \in [Threads -> Links]
  /\ new \in [Threads -> Links]
  /\ held \in [Threads -> Seq(Conns)]
  /\ \A t \in Threads : Len(held[t]) <= Depth
  /\ stale \in BOOLEAN

(* init_valkey pushes the connections one by one before any request.       *)
Init ==
  /\ vk_list = PoolSize
  /\ nextOf = [c \in Conns |-> IF c = 1 THEN Null ELSE c - 1]
  /\ pc = [t \in Threads |-> "idle"]
  /\ ret = [t \in Threads |-> Null]
  /\ via = [t \in Threads |-> Null]
  /\ new = [t \in Threads |-> Null]
  /\ held = [t \in Threads |-> <<>>]
  /\ stale = FALSE

Go(t, step) == pc' = [pc EXCEPT ![t] = step]
Last(s) == s[Len(s)]
ButLast(s) == SubSeq(s, 1, Len(s) - 1)

-----------------------------------------------------------------------------
(* get_valkey                                                              *)

Begin(t) ==
  /\ pc[t] = "idle"
  /\ Go(t, "load")
  /\ UNCHANGED <<vk_list, nextOf, ret, via, new, held, stale>>

(* ret = READ_RELAXED(&vk_list), repeated with sched_yield while it is     *)
(* NULL.                                                                   *)
Load(t) ==
  /\ pc[t] = "load"
  /\ vk_list # Null
  /\ ret' = [ret EXCEPT ![t] = vk_list]
  /\ Go(t, "again")
  /\ UNCHANGED <<vk_list, nextOf, via, new, held, stale>>

(* The third argument of the CAS is vk_list->next, not ret->next: vk_list  *)
(* is read once more before its next field is.                             *)
ReadAgain(t) ==
  /\ pc[t] = "again"
  /\ via' = [via EXCEPT ![t] = vk_list]
  /\ Go(t, IF vk_list = Null THEN "segv" ELSE "next")
  /\ UNCHANGED <<vk_list, nextOf, ret, new, held, stale>>

ReadNext(t) ==
  /\ pc[t] = "next"
  /\ new' = [new EXCEPT ![t] = nextOf[via[t]]]
  /\ via' = [via EXCEPT ![t] = Null]
  /\ Go(t, "cas")
  /\ UNCHANGED <<vk_list, nextOf, ret, held, stale>>

(* What was read is not looked at after the compare-and-swap.              *)
Forget(t) == ret' = [ret EXCEPT ![t] = Null] /\ new' = [new EXCEPT ![t] = Null]

(* Variant: the new head is returned instead of the old one.               *)
CasNewHead(t) ==
  /\ pc[t] = "cas"
  /\ vk_list = ret[t]
  /\ vk_list' = new[t]
  /\ held' = [held EXCEPT ![t] = Append(@, new[t])]
  /\ Go(t, "use") /\ Forget(t)
  /\ UNCHANGED <<nextOf, via, stale>>

(* CAS_RELAXED(&vk_list, ret, ...): on failure get_valkey starts over.     *)
Cas(t) ==
  /\ pc[t] = "cas"
  /\ \/ /\ vk_list = ret[t]
        /\ vk_list' = new[t]
        /\ held' = [held EXCEPT ![t] = Append(@, ret[t])]
        /\ stale' = (stale \/ new[t] # nextOf[ret[t]])
        /\ Go(t, "use")
     \/ /\ vk_list # ret[t]
        /\ Go(t, "load")
        /\ UNCHANGED <<vk_list, held, stale>>
  /\ Forget(t)
  /\ UNCHANGED <<nextOf, via>>

-----------------------------------------------------------------------------
(* The handler between two accesses to the pool: it takes one more         *)
(* connection or returns the last one.                                     *)

(* Variant: one call nests deeper than the pool was made for.              *)
TakeAnotherDeeper(t) ==
  /\ pc[t] = "use"
  /\ Len(held[t]) <= Depth
  /\ Go(t, "load")
  /\ UNCHANGED <<vk_list, nextOf, ret, via, new, held, stale>>

(* describe_game takes a connection while its caller keeps one.            *)
TakeAnother(t) ==
  /\ pc[t] = "use"
  /\ Len(held[t]) < Depth
  /\ Go(t, "load")
  /\ UNCHANGED <<vk_list, nextOf, ret, via, new, held, stale>>

(* Variant: an error path that returns without release_valkey.             *)
GiveBackForgotten(t) ==
  /\ pc[t] = "use"
  /\ held' = [held EXCEPT ![t] = ButLast(@)]
  /\ Go(t, IF Len(held[t]) = 1 THEN "idle" ELSE "use")
  /\ UNCHANGED <<vk_list, nextOf, ret, via, new, stale>>

GiveBack(t) ==
  /\ pc[t] = "use"
  /\ Go(t, "link")
  /\ UNCHANGED <<vk_list, nextOf, ret, via, new, held, stale>>

-----------------------------------------------------------------------------
(* release_valkey                                                          *)

(* vk->next = READ_RELAXED(&vk_list)                                       *)
Link(t) ==
  /\ pc[t] = "link"
  /\ nextOf' = [nextOf EXCEPT ![Last(held[t])] = vk_list]
  /\ Go(t, "push")
  /\ UNCHANGED <<vk_list, ret, via, new, held, stale>>

(* Variant: the handler goes on with the connection it returned.           *)
PushKept(t) ==
  /\ pc[t] = "push"
  /\ vk_list' = Last(held[t])
  /\ Go(t, IF Len(held[t]) = 1 THEN "idle" ELSE "use")
  /\ UNCHANGED <<nextOf, ret, via, new, held, stale>>

(* CAS_RELAXED(&vk_list, vk->next, vk)                                     *)
Push(t) ==
  /\ pc[t] = "push"
  /\ \/ /\ vk_list = nextOf[Last(held[t])]
        /\ vk_list' = Last(held[t])
        /\ held' = [held EXCEPT ![t] = ButLast(@)]
        /\ Go(t, IF Len(held[t]) = 1 THEN "idle" ELSE "use")
     \/ /\ vk_list # nextOf[Last(held[t])]
        /\ Go(t, "link")
        /\ UNCHANGED <<vk_list, held>>
  /\ UNCHANGED <<nextOf, ret, via, new, stale>>

-----------------------------------------------------------------------------
(* A NULL dereference ends the process, and with it every thread.          *)
Alive == \A t \in Threads : pc[t] # "segv"

Step(t) ==
  Load(t) \/ ReadAgain(t) \/ ReadNext(t) \/ Cas(t) \/ Link(t) \/ Push(t)

Next ==
  /\ Alive
  /\ \E t \in Threads : Begin(t) \/ Step(t) \/ TakeAnother(t) \/ GiveBack(t)

Spec == Init /\ [][Next]_vars

(* The kernel runs every thread that can take a step, and a handler gives  *)
(* its connections back: valkey answers every command.                     *)
FairSpec ==
  /\ Spec
  /\ \A t \in Threads : WF_vars(Alive /\ (Step(t) \/ GiveBack(t)))

-----------------------------------------------------------------------------
(* Properties.                                                             *)

Holds(t, c) == \E i \in DOMAIN held[t] : held[t][i] = c

(* The connections reachable from the head: in every set that holds the    *)
(* head and is closed under "next".                                        *)
Closed(S) == \A c \in S : nextOf[c] \in S \cup {Null}
Free ==
  {c \in Conns : \A S \in SUBSET Conns :
                   vk_list \in S \cup {Null} /\ Closed(S) => c \in S}

(* A connection serves one request at a time: no two threads hold it, no   *)
(* thread holds it twice, and while it is held the list does not offer it. *)
Exclusive ==
  /\ \A t, u \in Threads : t # u => \A c \in Conns : ~(Holds(t, c) /\ Holds(u, c))
  /\ \A t \in Threads : \A i, j \in DOMAIN held[t] : i # j => held[t][i] # held[t][j]
  /\ \A t \in Threads, c \in Conns : Holds(t, c) => c \notin Free

(* No connection leaks: each one is in the list or held by some thread, so *)
(* the pool keeps handling as many connections as it was made for.  With   *)
(* two threads the code does not keep this.                                *)
NoConnectionLost ==
  \A c \in Conns : c \in Free \/ \E t \in Threads : Holds(t, c)

(* The only way to either is the stale successor of get_valkey: until one  *)
(* is installed, threads that take and return connections in any order     *)
(* share none and lose none, whichever compare-and-swap of either side     *)
(* fails and whichever head the second read finds.                         *)
ExclusiveUntilStale == ~stale => Exclusive
LostOnlyWhenStale == ~stale => NoConnectionLost

(* Until then the pool moves on as a whole: if some thread is always       *)
(* waiting for a connection, or for its compare-and-swap to succeed, then  *)
(* the head of the list changes again and again.  Threads that each hold   *)
(* connections do not all wait for one more, with a pool one larger than   *)
(* what they hold then.  (Any one thread may starve, as the comment of     *)
(* get_valkey says; and a null head may end the process.)                  *)
Busy == \E t \in Threads : pc[t] \notin {"idle", "use"}
PoolMovesOn ==
  \/ []<>~Busy \/ []<><<TRUE>>_vk_list
  \/ <>stale \/ <>~Alive
-----------------------------------------------------------------------------
(* Why: TypeInv, PoolInv and, for one thread, Calm are the inductive       *)
(* invariants of ConnPoolProofs.                                           *)

(* What a thread knows of its own connections, also when there are more.   *)
Knows(t) ==
  /\ pc[t] = "idle" => held[t] = <<>>
  /\ pc[t] \in {"load", "again", "next", "cas", "segv"} => Len(held[t]) < Depth
  /\ pc[t] \in {"use", "link", "push"} => held[t] # <<>>
  /\ pc[t] \in {"again", "next", "cas"} => ret[t] \in Conns
  /\ pc[t] = "next" => via[t] \in Conns

TypeInv == TypeOK /\ \A t \in Threads : Knows(t)

(* s is the free list: its head, the links along it, no connection twice.  *)
IsList(s) ==
  /\ vk_list = IF s = <<>> THEN Null ELSE s[1]
  /\ \A i \in DOMAIN s : nextOf[s[i]] = IF i = Len(s) THEN Null ELSE s[i + 1]
  /\ \A i, j \in DOMAIN s : i # j => s[i] # s[j]

Listed(s, c) == \E i \in DOMAIN s : s[i] = c

(* Every connection has one place: in the list or with one thread.         *)
Places(s) ==
  /\ \A c \in Conns : Listed(s, c) \/ \E t \in Threads : Holds(t, c)
  /\ \A c \in Conns, t \in Threads : Holds(t, c) => ~Listed(s, c)
  /\ \A c \in Conns, t, u \in Threads : Holds(t, c) /\ Holds(u, c) => t = u
  /\ \A t \in Threads : \A i, j \in DOMAIN held[t] : i # j => held[t][i] # held[t][j]

PoolInv == ~stale => \E s \in Seq(Conns) : IsList(s) /\ Places(s)

(* While the list is empty some thread is about to return a connection.    *)
SomebodyReturns ==
  ~stale /\ vk_list = Null => \E t \in Threads : pc[t] \in {"use", "link", "push"}

(* Requests do not overlap.                                                *)
Serial == \A t, u \in Threads : t = u

(* Then nothing changes between the accesses of get_valkey.                *)
Undisturbed(t) ==
  /\ ~stale /\ pc[t] # "segv"
  /\ pc[t] \in {"again", "next", "cas"} => ret[t] = vk_list
  /\ pc[t] = "next" => via[t] = vk_list
  /\ pc[t] = "cas" => new[t] = nextOf[vk_list]
Calm == \A t \in Threads : Undisturbed(t)
=============================================================================
