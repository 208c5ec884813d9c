--------------------------- MODULE ConnPoolProofs ---------------------------
(***************************************************************************)
(* Proofs about ConnPool for a pool, a nesting and a number of threads of  *)
(* any size.  With the daemon's one thread nothing ever becomes stale.     *)
(***************************************************************************)
EXTENDS ConnPool, FiniteSetTheorems, WellFoundedInduction, TLAPS

(* A non-empty set of natural numbers has a least member.                  *)
LEMMA LeastNat ==
  ASSUME NEW T, T \subseteq Nat, T # {}
  PROVE  \E n \in T : \A m \in T : n <= m
<1>1. IsWellFoundedOn(OpToRel(<, Nat), Nat)
  BY NatLessThanWellFounded, Zenon
<1>2. \E x \in T : \A y \in T : <<y, x>> \notin OpToRel(<, Nat)
  BY <1>1, WFMin, Zenon
<1>3. \E x \in T : \A y \in T : ~(y < x)
  BY <1>2, Zenon DEF OpToRel
<1> QED
  BY <1>3

-----------------------------------------------------------------------------
(* Types, for any number of threads.                                       *)

(* Taking and returning at the end of the list of held connections.        *)
LEMMA LastOf ==
  ASSUME NEW s \in Seq(Conns), s # <<>>
  PROVE  /\ Last(s) \in Conns /\ Len(s) \in Nat \ {0}
         /\ ButLast(s) \in Seq(Conns) /\ Len(ButLast(s)) = Len(s) - 1
         /\ \A i \in DOMAIN ButLast(s) : i \in DOMAIN s /\ ButLast(s)[i] = s[i]
         /\ Len(s) = 1 => ButLast(s) = <<>>
<1>1. Len(s) \in Nat \ {0} /\ DOMAIN s = 1 .. Len(s) /\ s[Len(s)] \in Conns
  OBVIOUS
<1>2. /\ SubSeq(s, 1, Len(s) - 1) \in Seq(Conns)
      /\ Len(SubSeq(s, 1, Len(s) - 1)) = Len(s) - 1
  BY <1>1
<1>3. \A i \in 1 .. Len(s) - 1 : SubSeq(s, 1, Len(s) - 1)[i] = s[i]
  BY <1>1
<1>4. /\ ButLast(s) \in Seq(Conns) /\ Len(ButLast(s)) = Len(s) - 1
      /\ \A i \in 1 .. Len(s) - 1 : ButLast(s)[i] = s[i]
  BY <1>2, <1>3 DEF ButLast
<1>5. DOMAIN ButLast(s) = 1 .. Len(s) - 1
  BY <1>4
<1>6. Len(s) = 1 => ButLast(s) = <<>>
  BY <1>4
<1>7. \A i \in DOMAIN ButLast(s) : i \in DOMAIN s /\ ButLast(s)[i] = s[i]
  BY <1>1, <1>4, <1>5
<1> QED
  BY <1>1, <1>4, <1>6, <1>7 DEF Last

(* The pool that init_valkey made.                                         *)
LEMMA TypeInit == Init => TypeInv
<1> SUFFICES ASSUME Init PROVE TypeInv
  OBVIOUS
<1>1. PoolSize \in Conns /\ \A c \in Conns : c = 1 \/ c - 1 \in Conns
  BY PoolAssumption DEF Conns
<1>2. TypeOK
  <2>1. stale \in BOOLEAN
    BY DEF Init
  <2>2. nextOf \in [Conns -> Links]
    BY <1>1 DEF Init, Links
  <2>3. held \in [Threads -> Seq(Conns)] /\ \A t \in Threads : Len(held[t]) <= Depth
    BY PoolAssumption DEF Init
  <2> QED
    BY <1>1, <2>1, <2>2, <2>3 DEF Init, TypeOK, Links, Steps
<1>3. \A t \in Threads : Knows(t)
  BY DEF Init, Knows
<1> QED
  BY <1>2, <1>3 DEF TypeInv

(* Every access to shared memory keeps the types.                          *)
LEMMA TypeStep == TypeInv /\ [Next]_vars => TypeInv'
<1> SUFFICES ASSUME TypeInv, [Next]_vars PROVE TypeInv'
  OBVIOUS
<1>a. TypeOK /\ \A t \in Threads : Knows(t) /\ held[t] \in Seq(Conns)
  BY DEF TypeInv, TypeOK
(* A step of one thread changes what that thread knows only.               *)
<1>b. ASSUME NEW t \in Threads,
             \A u \in Threads \ {t} : /\ pc'[u] = pc[u] /\ held'[u] = held[u]
                                      /\ ret'[u] = ret[u] /\ via'[u] = via[u],
             Knows(t)', TypeOK'
      PROVE  TypeInv'
  <2>1. \A u \in Threads \ {t} : Knows(u)'
    BY <1>a, <1>b DEF Knows
  <2> QED
    BY <1>b, <2>1 DEF TypeInv
<1>1. ASSUME NEW t \in Threads, Begin(t) \/ TakeAnother(t) PROVE TypeInv'
  <2>1. TypeOK'
    BY <1>a, <1>1 DEF Begin, TakeAnother, TypeOK, Go, Steps
  <2>2. Knows(t)'
    BY <1>a, <1>1, PoolAssumption DEF Begin, TakeAnother, TypeOK, Go, Knows
  <2> QED
    BY <1>a, <1>b, <1>1, <2>1, <2>2 DEF Begin, TakeAnother, Go, TypeOK
<1>2. ASSUME NEW t \in Threads, Load(t) PROVE TypeInv'
  <2>1. TypeOK'
    BY <1>a, <1>2 DEF Load, TypeOK, Go, Steps
  <2>2. Knows(t)'
    BY <1>a, <1>2 DEF Load, TypeOK, Go, Knows, Links
  <2> QED
    BY <1>a, <1>b, <1>2, <2>1, <2>2 DEF Load, Go, TypeOK
<1>3. ASSUME NEW t \in Threads, ReadAgain(t) PROVE TypeInv'
  <2>1. TypeOK'
    BY <1>a, <1>3 DEF ReadAgain, TypeOK, Go, Steps
  <2>2. Knows(t)'
    BY <1>a, <1>3 DEF ReadAgain, TypeOK, Go, Knows, Links
  <2> QED
    BY <1>a, <1>b, <1>3, <2>1, <2>2 DEF ReadAgain, Go, TypeOK
<1>4. ASSUME NEW t \in Threads, ReadNext(t) PROVE TypeInv'
  <2>1. TypeOK'
    <3>1. nextOf[via[t]] \in Links /\ Null \in Links
      BY <1>a, <1>4 DEF ReadNext, TypeOK, Knows, Links
    <3> QED
      BY <1>a, <1>4, <3>1 DEF ReadNext, TypeOK, Go, Steps
  <2>2. Knows(t)'
    BY <1>a, <1>4 DEF ReadNext, TypeOK, Go, Knows
  <2> QED
    BY <1>a, <1>b, <1>4, <2>1, <2>2 DEF ReadNext, Go, TypeOK
<1>5. ASSUME NEW t \in Threads, Cas(t) PROVE TypeInv'
  <2>1. ret[t] \in Conns /\ Len(held[t]) < Depth /\ pc[t] = "cas"
    BY <1>a, <1>5 DEF Cas, Knows
  <2>a. /\ ret' \in [Threads -> Links] /\ new' \in [Threads -> Links]
        /\ \A u \in Threads : u # t => ret'[u] = ret[u]
        /\ UNCHANGED <<nextOf, via>>
    BY <1>a, <1>5 DEF Cas, Forget, TypeOK, Links
  <2>2. CASE /\ vk_list' = new[t] /\ held' = [held EXCEPT ![t] = Append(@, ret[t])]
             /\ stale' = (stale \/ new[t] # nextOf[ret[t]])
             /\ Go(t, "use")
    <3>1. /\ Append(held[t], ret[t]) \in Seq(Conns)
          /\ Len(Append(held[t], ret[t])) = Len(held[t]) + 1
          /\ Append(held[t], ret[t]) # <<>> /\ Len(held[t]) + 1 <= Depth
      BY <1>a, <2>1, PoolAssumption
    <3>2. TypeOK'
      <4>1. stale' \in BOOLEAN
        BY <2>2
      <4> QED
        BY <1>a, <2>a, <2>2, <3>1, <4>1 DEF TypeOK, Go, Steps
    <3>3. Knows(t)'
      BY <1>a, <2>2, <3>1 DEF TypeOK, Go, Knows
    <3> QED
      BY <1>a, <1>b, <2>a, <2>2, <3>2, <3>3 DEF Go, TypeOK
  <2>3. CASE Go(t, "load") /\ UNCHANGED <<vk_list, held, stale>>
    <3>1. TypeOK'
      BY <1>a, <2>a, <2>3 DEF TypeOK, Go, Steps
    <3>2. Knows(t)'
      BY <1>a, <2>1, <2>3 DEF TypeOK, Go, Knows
    <3> QED
      BY <1>a, <1>b, <2>a, <2>3, <3>1, <3>2 DEF Go, TypeOK
  <2> QED
    BY <1>5, <2>2, <2>3 DEF Cas
<1>6. ASSUME NEW t \in Threads, GiveBack(t) PROVE TypeInv'
  <2>1. TypeOK'
    BY <1>a, <1>6 DEF GiveBack, TypeOK, Go, Steps
  <2>2. Knows(t)'
    BY <1>a, <1>6 DEF GiveBack, TypeOK, Go, Knows
  <2> QED
    BY <1>a, <1>b, <1>6, <2>1, <2>2 DEF GiveBack, Go, TypeOK
<1>7. ASSUME NEW t \in Threads, Link(t) PROVE TypeInv'
  <2>1. Last(held[t]) \in Conns
    BY <1>a, <1>7, LastOf DEF Link, Knows
  <2>2. TypeOK'
    BY <1>a, <1>7, <2>1 DEF Link, TypeOK, Go, Steps
  <2>3. Knows(t)'
    BY <1>a, <1>7 DEF Link, TypeOK, Go, Knows
  <2> QED
    BY <1>a, <1>b, <1>7, <2>2, <2>3 DEF Link, Go, TypeOK
<1>8. ASSUME NEW t \in Threads, Push(t) PROVE TypeInv'
  <2>1. /\ Last(held[t]) \in Conns /\ Len(held[t]) \in Nat \ {0} /\ held[t] # <<>>
        /\ ButLast(held[t]) \in Seq(Conns) /\ Len(ButLast(held[t])) = Len(held[t]) - 1
        /\ Len(held[t]) = 1 => ButLast(held[t]) = <<>>
    BY <1>a, <1>8, LastOf DEF Push, Knows
  <2>2. CASE /\ vk_list' = Last(held[t]) /\ held' = [held EXCEPT ![t] = ButLast(@)]
             /\ Go(t, IF Len(held[t]) = 1 THEN "idle" ELSE "use")
    <3>1. Len(held[t]) - 1 <= Depth /\ (Len(held[t]) # 1 => ButLast(held[t]) # <<>>)
      BY <1>a, <2>1, PoolAssumption DEF TypeOK
    <3>2. TypeOK'
      BY <1>a, <1>8, <2>1, <2>2, <3>1 DEF Push, TypeOK, Go, Steps, Links
    <3>3. Knows(t)'
      BY <1>a, <1>8, <2>1, <2>2, <3>1 DEF Push, TypeOK, Go, Knows
    <3> QED
      BY <1>a, <1>b, <1>8, <2>2, <3>2, <3>3 DEF Push, Go, TypeOK
  <2>3. CASE Go(t, "link") /\ UNCHANGED <<vk_list, held>>
    <3>1. TypeOK'
      BY <1>a, <1>8, <2>3 DEF Push, TypeOK, Go, Steps
    <3>2. Knows(t)'
      BY <1>a, <1>8, <2>1, <2>3 DEF Push, TypeOK, Go, Knows
    <3> QED
      BY <1>a, <1>b, <1>8, <2>3, <3>1, <3>2 DEF Push, Go, TypeOK
  <2> QED
    BY <1>8, <2>2, <2>3 DEF Push
<1>9. CASE UNCHANGED vars
  BY <1>9 DEF vars, TypeInv, TypeOK, Knows
<1> QED
  BY <1>1, <1>2, <1>3, <1>4, <1>5, <1>6, <1>7, <1>8, <1>9 DEF Next, Step

(* Whatever the threads do to each other, what they read and hold are      *)
(* connections, and no handler holds more than it needs.                   *)
THEOREM PoolTypes == Spec => []TypeOK
<1>1. TypeInv => TypeOK
  BY DEF TypeInv
<1> QED
  BY <1>1, TypeInit, TypeStep, PTL DEF Spec
-----------------------------------------------------------------------------
(* The free list and who holds what, for any number of threads.            *)

(* What can be reached from the head of a list is the list: a first member *)
(* that could not be would follow one that can.                            *)
LEMMA ListReach ==
  ASSUME NEW s \in Seq(Conns), IsList(s), NEW c \in Conns
  PROVE  c \in Free <=> Listed(s, c)
<1> DEFINE R == {s[i] : i \in DOMAIN s}
<1>1. DOMAIN s = 1 .. Len(s) /\ Len(s) \in Nat /\ (s = <<>> <=> Len(s) = 0)
      /\ \A i \in DOMAIN s : s[i] \in Conns
  OBVIOUS
<1>2. ASSUME c \in Free PROVE Listed(s, c)
  <2>1. R \in SUBSET Conns
    BY <1>1
  <2>2. vk_list \in R \cup {Null}
    BY <1>1 DEF IsList
  <2>3. Closed(R)
    <3> SUFFICES ASSUME NEW i \in DOMAIN s PROVE nextOf[s[i]] \in R \cup {Null}
      BY DEF Closed
    <3>1. nextOf[s[i]] = IF i = Len(s) THEN Null ELSE s[i + 1]
      BY DEF IsList
    <3>2. i # Len(s) => i + 1 \in DOMAIN s
      BY <1>1
    <3> QED
      BY <3>1, <3>2
  <2>4. c \in R
    BY <1>2, <2>1, <2>2, <2>3 DEF Free
  <2> QED
    BY <2>4 DEF Listed
<1>3. ASSUME Listed(s, c), c \notin Free PROVE FALSE
  <2>1. PICK S \in SUBSET Conns : vk_list \in S \cup {Null} /\ Closed(S) /\ c \notin S
    BY <1>3 DEF Free
  <2> DEFINE T == {i \in DOMAIN s : s[i] \notin S}
  <2>2. T \subseteq Nat /\ T # {}
    BY <1>1, <1>3, <2>1 DEF Listed
  <2>3. PICK i \in T : \A j \in T : i <= j
    BY <2>2, LeastNat
  <2>4. i \in 1 .. Len(s) /\ s[i] \notin S
    BY <1>1, <2>3
  <2>5. s[1] \in S
    <3>1. vk_list = s[1] /\ s[1] \in Conns
      BY <1>1, <2>4 DEF IsList
    <3> QED
      BY <2>1, <3>1, PoolAssumption DEF Conns
  <2>6. i # 1 /\ i - 1 \in DOMAIN s /\ i - 1 # Len(s) /\ (i - 1) + 1 = i /\ ~(i <= i - 1)
    BY <1>1, <2>4, <2>5
  <2>7. s[i - 1] \in S
    BY <2>3, <2>6
  <2>8. nextOf[s[i - 1]] = s[i]
    BY <2>6 DEF IsList
  <2>9. s[i] \in S \cup {Null}
    BY <2>1, <2>7, <2>8 DEF Closed
  <2> QED
    BY <1>1, <2>4, <2>9, PoolAssumption DEF Conns
<1> QED
  BY <1>2, <1>3

(* The list that init_valkey made counts down from the last connection.    *)
LEMMA PoolInit == Init => PoolInv
<1> SUFFICES ASSUME Init PROVE \E s \in Seq(Conns) : IsList(s) /\ Places(s)
  BY DEF PoolInv
<1> DEFINE s == [i \in 1 .. PoolSize |-> PoolSize + 1 - i]
<1>1. PoolSize \in Nat \ {0} /\ Conns = 1 .. PoolSize
  BY PoolAssumption DEF Conns
<1>2. \A i \in 1 .. PoolSize : PoolSize + 1 - i \in Conns
  BY <1>1
<1>3. s \in Seq(Conns) /\ Len(s) = PoolSize /\ DOMAIN s = 1 .. PoolSize
      /\ \A i \in 1 .. PoolSize : s[i] = PoolSize + 1 - i
  BY <1>1, <1>2
<1> HIDE DEF s
<1>4. s # <<>> /\ s[1] = PoolSize
  BY <1>1, <1>3
<1>5. \A i \in 1 .. PoolSize : nextOf[s[i]] = IF i = PoolSize THEN Null ELSE s[i + 1]
  <2> SUFFICES ASSUME NEW i \in 1 .. PoolSize
               PROVE  nextOf[s[i]] = IF i = PoolSize THEN Null ELSE s[i + 1]
    OBVIOUS
  <2> DEFINE c == PoolSize + 1 - i
  <2>0. c = 1 <=> i = PoolSize
    BY <1>1
  <2>1. c \in Conns /\ s[i] = c
    BY <1>2, <1>3
  <2>2. nextOf[c] = IF c = 1 THEN Null ELSE c - 1
    BY <2>1 DEF Init
  <2>3. i # PoolSize => i + 1 \in 1 .. PoolSize /\ s[i + 1] = c - 1
    BY <1>1, <1>3
  <2> QED
    BY <2>0, <2>1, <2>2, <2>3
<1>6. IsList(s)
  <2>1. \A i, j \in 1 .. PoolSize : i # j => s[i] # s[j]
    BY <1>1, <1>3
  <2>2. vk_list = s[1]
    BY <1>4 DEF Init
  <2> QED
    BY <1>3, <1>4, <1>5, <2>1, <2>2 DEF IsList
<1>7. \A c \in Conns : Listed(s, c)
  <2> SUFFICES ASSUME NEW c \in Conns PROVE Listed(s, c)
    OBVIOUS
  <2>1. PoolSize + 1 - c \in 1 .. PoolSize /\ PoolSize + 1 - (PoolSize + 1 - c) = c
    BY <1>1
  <2> QED
    BY <1>3, <2>1 DEF Listed
<1>8. \A t \in Threads : held[t] = <<>>
  BY DEF Init
<1>9. \A t \in Threads : \A i \in DOMAIN held[t] : FALSE
  BY <1>8
<1>10. Places(s)
  BY <1>7, <1>9 DEF Places, Holds
<1> QED
  BY <1>3, <1>6, <1>10

(* The head of the list moves to a thread, and the rest is the list.       *)
LEMMA Popped ==
  ASSUME NEW s \in Seq(Conns), IsList(s), Places(s), TypeOK,
         NEW t \in Threads, vk_list \in Conns,
         vk_list' = nextOf[vk_list], nextOf' = nextOf,
         held' = [held EXCEPT ![t] = Append(@, vk_list)]
  PROVE  \E r \in Seq(Conns) : IsList(r)' /\ Places(r)'
<1> DEFINE r == Tail(s)
<1>1. s # <<>> /\ vk_list = s[1]
  BY PoolAssumption DEF IsList, Conns
<1>2. /\ Len(s) \in Nat \ {0} /\ DOMAIN s = 1 .. Len(s)
      /\ r \in Seq(Conns) /\ Len(r) = Len(s) - 1 /\ DOMAIN r = 1 .. Len(s) - 1
      /\ \A i \in 1 .. Len(s) - 1 : r[i] = s[i + 1]
  BY <1>1
<1> HIDE DEF r
<1>3. IsList(r)'
  <2>1. nextOf[s[1]] = IF 1 = Len(s) THEN Null ELSE s[2]
    BY <1>2 DEF IsList
  <2>2. r = <<>> <=> Len(s) = 1
    BY <1>2
  <2>3. vk_list' = IF r = <<>> THEN Null ELSE r[1]
    BY <1>1, <1>2, <2>1, <2>2
  <2>4. \A i \in DOMAIN r : nextOf[r[i]] = IF i = Len(r) THEN Null ELSE r[i + 1]
    <3> SUFFICES ASSUME NEW i \in 1 .. Len(s) - 1
                 PROVE  nextOf[r[i]] = IF i = Len(r) THEN Null ELSE r[i + 1]
      BY <1>2
    <3>0. i # Len(r) => i + 1 \in 1 .. Len(s) - 1
      <4>1. i \in Nat /\ 1 <= i /\ i <= Len(s) - 1 /\ Len(s) \in Nat
        BY <1>2
      <4>2. i # Len(s) - 1 => i + 1 \in 1 .. Len(s) - 1
        BY ONLY <4>1
      <4>3. Len(r) = Len(s) - 1
        BY <1>2
      <4> QED
        BY <4>2, <4>3
    <3>1. i + 1 \in DOMAIN s /\ (i + 1 = Len(s) <=> i = Len(r))
      BY <1>2
    <3>2. nextOf[s[i + 1]] = IF i + 1 = Len(s) THEN Null ELSE s[(i + 1) + 1]
      BY <3>1 DEF IsList
    <3> QED
      BY <1>2, <3>0, <3>1, <3>2
  <2>5. \A i, j \in DOMAIN r : i # j => r[i] # r[j]
    BY <1>2 DEF IsList
  <2> QED
    BY <2>3, <2>4, <2>5 DEF IsList
<1>4. \A c \in Conns : Listed(s, c) <=> c = s[1] \/ Listed(r, c)
  <2> SUFFICES ASSUME NEW c \in Conns PROVE Listed(s, c) <=> c = s[1] \/ Listed(r, c)
    OBVIOUS
  <2>1. ASSUME NEW i \in DOMAIN s, s[i] = c, i # 1 PROVE Listed(r, c)
    <3>1. i - 1 \in DOMAIN r /\ (i - 1) + 1 = i
      BY <1>2, <2>1
    <3> QED
      BY <1>2, <2>1, <3>1 DEF Listed
  <2>2. ASSUME NEW i \in DOMAIN r, r[i] = c PROVE Listed(s, c)
    BY <1>2, <2>2 DEF Listed
  <2>3. 1 \in DOMAIN s
    BY <1>2
  <2> QED
    BY <2>1, <2>2, <2>3 DEF Listed
<1>5. ~Listed(r, s[1])
  BY <1>2 DEF Listed, IsList
<1> DEFINE more == Append(held[t], vk_list)
<1>6. /\ held[t] \in Seq(Conns) /\ Len(held[t]) \in Nat /\ DOMAIN held[t] = 1 .. Len(held[t])
      /\ DOMAIN more = 1 .. Len(held[t]) + 1 /\ more[Len(held[t]) + 1] = vk_list
      /\ \A i \in 1 .. Len(held[t]) : more[i] = held[t][i]
  BY DEF TypeOK
<1> HIDE DEF more
<1>7. held'[t] = more /\ \A u \in Threads : u # t => held'[u] = held[u]
  BY DEF TypeOK, more
<1>8. \A c \in Conns : Holds(t, c)' <=> Holds(t, c) \/ c = s[1]
  BY <1>1, <1>6, <1>7 DEF Holds
<1>9. \A c \in Conns, u \in Threads : u # t => (Holds(u, c)' <=> Holds(u, c))
  BY <1>7 DEF Holds
<1>10. s[1] \in Conns /\ Listed(s, s[1])
  BY <1>1, <1>4
<1>11. \A u \in Threads : ~Holds(u, s[1])
  BY <1>10 DEF Places
<1>12. Places(r)'
  <2>1. \A c \in Conns : Listed(r, c) \/ \E u \in Threads : Holds(u, c)'
    BY <1>4, <1>8, <1>9 DEF Places
  <2>2. \A c \in Conns, u \in Threads : Holds(u, c)' => ~Listed(r, c)
    BY <1>4, <1>5, <1>8, <1>9 DEF Places
  <2>3. \A c \in Conns, u, v \in Threads : Holds(u, c)' /\ Holds(v, c)' => u = v
    BY <1>8, <1>9, <1>11 DEF Places
  <2>4. \A i, j \in DOMAIN more : i # j => more[i] # more[j]
    BY <1>1, <1>6, <1>11 DEF Places, Holds
  <2>5. \A u \in Threads : \A i, j \in DOMAIN held'[u] : i # j => held'[u][i] # held'[u][j]
    BY <1>7, <2>4 DEF Places
  <2>6. \A c : Listed(r, c)' <=> Listed(r, c)
    BY DEF Listed
  <2> QED
    BY <2>1, <2>2, <2>3, <2>5, <2>6 DEF Places
<1> QED
  BY <1>2, <1>3, <1>12

(* A connection that was linked to the head becomes the head.              *)
LEMMA Pushed ==
  ASSUME NEW s \in Seq(Conns), IsList(s), Places(s), TypeOK,
         NEW t \in Threads, held[t] # <<>>,
         vk_list = nextOf[Last(held[t])],
         vk_list' = Last(held[t]), nextOf' = nextOf,
         held' = [held EXCEPT ![t] = ButLast(@)]
  PROVE  \E r \in Seq(Conns) : IsList(r)' /\ Places(r)'
<1>0. held[t] \in Seq(Conns)
  BY DEF TypeOK
<1>k. PICK k : k = Last(held[t])
  OBVIOUS
<1> DEFINE less == ButLast(held[t])
           n == Len(held[t])
           r == <<k>> \o s
<1>1. /\ k \in Conns /\ n \in Nat \ {0} /\ Len(less) = n - 1 /\ less \in Seq(Conns)
      /\ \A i \in DOMAIN less : i \in DOMAIN held[t] /\ less[i] = held[t][i]
      /\ DOMAIN held[t] = 1 .. n
  BY <1>0, <1>k, LastOf
<1>2. k = held[t][n]
  BY <1>k DEF Last
<1>3. DOMAIN less = 1 .. n - 1
  BY <1>1
<1> HIDE DEF less, n
<1>4. Len(s) \in Nat /\ DOMAIN s = 1 .. Len(s) /\ (s = <<>> <=> Len(s) = 0)
  OBVIOUS
<1>5. /\ r \in Seq(Conns) /\ Len(r) = Len(s) + 1 /\ DOMAIN r = 1 .. Len(s) + 1
      /\ r[1] = k /\ \A i \in 2 .. Len(s) + 1 : r[i] = s[i - 1]
  BY <1>1, <1>4
<1> HIDE DEF r
<1>6. Holds(t, k)
  BY <1>1, <1>2 DEF Holds
<1>7. ~Listed(s, k)
  BY <1>1, <1>6 DEF Places
<1>8. IsList(r)'
  <2>1. r # <<>> /\ vk_list' = r[1]
    BY <1>k, <1>4, <1>5
  <2>2. \A i \in DOMAIN r : nextOf[r[i]] = IF i = Len(r) THEN Null ELSE r[i + 1]
    <3> SUFFICES ASSUME NEW i \in 1 .. Len(s) + 1
                 PROVE  nextOf[r[i]] = IF i = Len(r) THEN Null ELSE r[i + 1]
      BY <1>5
    <3>1. CASE i = 1
      <4>1. nextOf[k] = vk_list
        BY <1>k
      <4>2. vk_list = IF s = <<>> THEN Null ELSE s[1]
        BY DEF IsList
      <4>3. s # <<>> => r[2] = s[1]
        BY <1>4, <1>5
      <4> QED
        BY <1>4, <1>5, <3>1, <4>1, <4>2, <4>3
    <3>2. CASE i # 1
      <4>1. i - 1 \in DOMAIN s /\ r[i] = s[i - 1]
        BY <1>4, <1>5, <3>2
      <4>2. nextOf[s[i - 1]] = IF i - 1 = Len(s) THEN Null ELSE s[(i - 1) + 1]
        BY <4>1 DEF IsList
      <4>3. i # Len(r) => r[i + 1] = s[i]
        BY <1>4, <1>5, <3>2
      <4> QED
        BY <1>4, <1>5, <3>2, <4>1, <4>2, <4>3
    <3> QED
      BY <3>1, <3>2
  <2>3. \A i, j \in DOMAIN r : i # j => r[i] # r[j]
    <3>1. \A i \in 2 .. Len(s) + 1 : r[i] # k
      BY <1>4, <1>5, <1>7 DEF Listed
    <3>2. \A i, j \in 2 .. Len(s) + 1 : i # j => r[i] # r[j]
      <4> SUFFICES ASSUME NEW i \in 2 .. Len(s) + 1, NEW j \in 2 .. Len(s) + 1, i # j
                   PROVE  r[i] # r[j]
        OBVIOUS
      <4>1. i - 1 \in DOMAIN s /\ j - 1 \in DOMAIN s /\ i - 1 # j - 1
        BY <1>4
      <4>2. s[i - 1] # s[j - 1]
        BY <4>1 DEF IsList
      <4> QED
        BY <1>5, <4>2
    <3>3. \A i \in DOMAIN r : i = 1 \/ i \in 2 .. Len(s) + 1
      BY <1>4, <1>5
    <3> QED
      BY <1>5, <3>1, <3>2, <3>3
  <2> QED
    BY <2>1, <2>2, <2>3 DEF IsList
<1>9. \A c : Listed(r, c) <=> c = k \/ Listed(s, c)
  <2>1. ASSUME NEW c, NEW i \in DOMAIN r, r[i] = c PROVE c = k \/ Listed(s, c)
    <3>1. CASE i = 1
      BY <1>5, <2>1, <3>1
    <3>2. CASE i # 1
      <4>1. i \in 2 .. Len(s) + 1 /\ i - 1 \in DOMAIN s
        BY <1>4, <1>5, <3>2
      <4>2. s[i - 1] = c
        BY <1>5, <2>1, <4>1
      <4> QED
        BY <4>1, <4>2 DEF Listed
    <3> QED
      BY <3>1, <3>2
  <2>2. ASSUME NEW c, NEW i \in DOMAIN s, s[i] = c PROVE Listed(r, c)
    <3>1. i + 1 \in DOMAIN r /\ r[i + 1] = s[i]
      BY <1>4, <1>5
    <3> QED
      BY <2>2, <3>1 DEF Listed
  <2>3. 1 \in DOMAIN r /\ r[1] = k
    BY <1>4, <1>5
  <2> QED
    BY <2>1, <2>2, <2>3 DEF Listed
<1>10. held'[t] = less /\ \A u \in Threads : u # t => held'[u] = held[u]
  BY DEF TypeOK, less
<1>11. \A i \in DOMAIN less : less[i] # k
  <2> SUFFICES ASSUME NEW i \in DOMAIN less PROVE held[t][i] # held[t][n]
    BY <1>1, <1>2
  <2>1. i \in 1 .. n - 1 /\ i \in DOMAIN held[t] /\ n \in DOMAIN held[t] /\ i # n
    BY <1>1, <1>3
  <2> QED
    BY <2>1 DEF Places
<1>12. \A c \in Conns : Holds(t, c)' <=> Holds(t, c) /\ c # k
  <2> SUFFICES ASSUME NEW c \in Conns PROVE Holds(t, c)' <=> Holds(t, c) /\ c # k
    OBVIOUS
  <2>1. ASSUME NEW i \in DOMAIN held[t], held[t][i] = c, c # k PROVE i \in DOMAIN less
    BY <1>1, <1>2, <1>3, <2>1
  <2> QED
    BY <1>1, <1>10, <1>11, <2>1 DEF Holds
<1>13. \A c \in Conns, u \in Threads : u # t => (Holds(u, c)' <=> Holds(u, c))
  BY <1>10 DEF Holds
<1>14. \A u \in Threads : u # t => ~Holds(u, k)
  BY <1>1, <1>6 DEF Places
<1>15. Places(r)'
  <2>1. \A c \in Conns : Listed(r, c) \/ \E u \in Threads : Holds(u, c)'
    BY <1>9, <1>12, <1>13 DEF Places
  <2>2. \A c \in Conns, u \in Threads : Holds(u, c)' => ~Listed(r, c)
    BY <1>9, <1>12, <1>13, <1>14 DEF Places
  <2>3. \A c \in Conns, u, v \in Threads : Holds(u, c)' /\ Holds(v, c)' => u = v
    BY <1>12, <1>13 DEF Places
  <2>4. \A i, j \in DOMAIN less : i # j => less[i] # less[j]
    BY <1>1 DEF Places
  <2>5. \A u \in Threads : \A i, j \in DOMAIN held'[u] : i # j => held'[u][i] # held'[u][j]
    BY <1>10, <2>4 DEF Places
  <2>6. \A c : Listed(r, c)' <=> Listed(r, c)
    BY DEF Listed
  <2> QED
    BY <2>1, <2>2, <2>3, <2>5, <2>6 DEF Places
<1> QED
  BY <1>5, <1>8, <1>15

(* Until a stale successor is installed every step keeps the list and the  *)
(* connections in their places.                                            *)
LEMMA PoolStep == TypeInv /\ PoolInv /\ [Next]_vars => PoolInv'
<1> SUFFICES ASSUME TypeInv, PoolInv, [Next]_vars, ~stale'
             PROVE  \E r \in Seq(Conns) : IsList(r)' /\ Places(r)'
  BY DEF PoolInv
<1>a. TypeOK /\ \A t \in Threads : Knows(t) /\ held[t] \in Seq(Conns)
  BY DEF TypeInv, TypeOK
<1>b. ~stale
  <2>1. ASSUME NEW t \in Threads, Cas(t) PROVE ~stale
    BY <2>1 DEF Cas
  <2>2. ASSUME NEW t \in Threads,
               \/ Begin(t) \/ TakeAnother(t) \/ GiveBack(t)
               \/ Load(t) \/ ReadAgain(t) \/ ReadNext(t) \/ Link(t) \/ Push(t)
        PROVE  stale' = stale
    BY <2>2 DEF Begin, TakeAnother, GiveBack, Load, ReadAgain, ReadNext, Link, Push
  <2> QED
    BY <2>1, <2>2 DEF Next, Step, vars
<1>c. PICK s \in Seq(Conns) : IsList(s) /\ Places(s)
  BY <1>b DEF PoolInv
(* Whoever only looks at the list changes nothing of it.                   *)
<1>d. ASSUME UNCHANGED <<vk_list, nextOf, held>>
      PROVE  \E r \in Seq(Conns) : IsList(r)' /\ Places(r)'
  <2>1. IsList(s)' /\ Places(s)'
    BY <1>c, <1>d DEF IsList, Places, Listed, Holds
  <2> QED
    BY <2>1
<1>1. ASSUME NEW t \in Threads,
             \/ Begin(t) \/ TakeAnother(t) \/ GiveBack(t)
             \/ Load(t) \/ ReadAgain(t) \/ ReadNext(t)
      PROVE  \E r \in Seq(Conns) : IsList(r)' /\ Places(r)'
  BY <1>d, <1>1 DEF Begin, TakeAnother, GiveBack, Load, ReadAgain, ReadNext
<1>2. ASSUME NEW t \in Threads, Cas(t)
      PROVE  \E r \in Seq(Conns) : IsList(r)' /\ Places(r)'
  <2>1. CASE vk_list # ret[t]
    BY <1>d, <1>2, <2>1 DEF Cas
  <2>2. CASE vk_list = ret[t]
    <3>1. /\ vk_list \in Conns /\ vk_list' = new[t] /\ nextOf' = nextOf
          /\ held' = [held EXCEPT ![t] = Append(@, vk_list)]
          /\ stale' = (stale \/ new[t] # nextOf[vk_list])
      BY <1>a, <1>2, <2>2 DEF Cas, Knows
    <3>2. vk_list' = nextOf[vk_list]
      BY <3>1
    <3> QED
      BY <1>a, <1>c, <3>1, <3>2, Popped
  <2> QED
    BY <2>1, <2>2
<1>3. ASSUME NEW t \in Threads, Link(t)
      PROVE  \E r \in Seq(Conns) : IsList(r)' /\ Places(r)'
  <2>1. /\ held[t] # <<>> /\ held[t] \in Seq(Conns)
        /\ nextOf' = [nextOf EXCEPT ![Last(held[t])] = vk_list]
        /\ UNCHANGED <<vk_list, held>>
    BY <1>a, <1>3 DEF Link, Knows
  <2>2. PICK c \in Conns : c = Last(held[t]) /\ Holds(t, c)
    BY <2>1, LastOf DEF Holds, Last
  <2>3. ~Listed(s, c)
    BY <1>c, <2>2 DEF Places
  <2>4. \A i \in DOMAIN s : s[i] \in Conns /\ s[i] # c
    BY <2>3 DEF Listed
  <2>5. \A d \in Conns : d # c => nextOf'[d] = nextOf[d]
    BY <1>a, <2>1, <2>2 DEF TypeOK
  <2>6. IsList(s)'
    BY <1>c, <2>1, <2>4, <2>5 DEF IsList
  <2>7. Places(s)'
    BY <1>c, <2>1 DEF Places, Listed, Holds
  <2> QED
    BY <2>6, <2>7
<1>4. ASSUME NEW t \in Threads, Push(t)
      PROVE  \E r \in Seq(Conns) : IsList(r)' /\ Places(r)'
  <2>1. CASE vk_list # nextOf[Last(held[t])]
    BY <1>d, <1>4, <2>1 DEF Push
  <2>2. CASE vk_list = nextOf[Last(held[t])]
    <3>1. /\ held[t] # <<>> /\ vk_list' = Last(held[t]) /\ nextOf' = nextOf
          /\ held' = [held EXCEPT ![t] = ButLast(@)]
      BY <1>a, <1>4, <2>2 DEF Push, Knows
    <3> QED
      BY <1>a, <1>c, <2>2, <3>1, Pushed
  <2> QED
    BY <2>1, <2>2
<1>5. CASE UNCHANGED vars
  BY <1>d, <1>5 DEF vars
<1> QED
  BY <1>1, <1>2, <1>3, <1>4, <1>5 DEF Next, Step

LEMMA PoolHolds == Spec => [](TypeInv /\ PoolInv)
  BY TypeInit, TypeStep, PoolInit, PoolStep, PTL DEF Spec

(* A connection in use is not on offer and nobody else has it, for any     *)
(* number of threads, any pool and any nesting, as long as get_valkey has  *)
(* installed no stale successor.                                           *)
LEMMA PlacesExclusive == TypeInv /\ PoolInv /\ ~stale => Exclusive
<1> SUFFICES ASSUME TypeInv, PoolInv, ~stale PROVE Exclusive
  OBVIOUS
<1>1. PICK s \in Seq(Conns) : IsList(s) /\ Places(s)
  BY DEF PoolInv
<1>2. \A t \in Threads, c \in Conns : Holds(t, c) => c \notin Free
  BY <1>1, ListReach DEF Places
<1> QED
  BY <1>1, <1>2 DEF Exclusive, Places

THEOREM OneUserEach == Spec => []ExclusiveUntilStale
<1>1. TypeInv /\ PoolInv => ExclusiveUntilStale
  BY PlacesExclusive DEF ExclusiveUntilStale
<1> QED
  BY <1>1, PoolHolds, PTL

(* Nor is a connection lost: what nobody holds is in the list.             *)
LEMMA PlacesKept == TypeInv /\ PoolInv /\ ~stale => NoConnectionLost
<1> SUFFICES ASSUME TypeInv, PoolInv, ~stale PROVE NoConnectionLost
  OBVIOUS
<1>1. PICK s \in Seq(Conns) : IsList(s) /\ Places(s)
  BY DEF PoolInv
<1> QED
  BY <1>1, ListReach DEF Places, NoConnectionLost

THEOREM NoLeak == Spec => []LostOnlyWhenStale
<1>1. TypeInv /\ PoolInv => LostOnlyWhenStale
  BY PlacesKept DEF LostOnlyWhenStale
<1> QED
  BY <1>1, PoolHolds, PTL
-----------------------------------------------------------------------------
(* With a pool one larger than what all threads hold when they ask, they   *)
(* never all wait for each other: an empty list has given its connections  *)
(* to the threads, and one that asks has fewer than it nests.              *)
THEOREM SomebodyCanGo ==
  ASSUME IsFiniteSet(Threads), Cardinality(Threads) * (Depth - 1) < PoolSize
  PROVE  Spec => []SomebodyReturns
<1>1. TypeInv /\ PoolInv => SomebodyReturns
  <2> SUFFICES ASSUME TypeInv, PoolInv, ~stale, vk_list = Null,
                      \A t \in Threads : pc[t] \notin {"use", "link", "push"}
               PROVE  FALSE
    BY DEF SomebodyReturns
  <2>1. PICK s \in Seq(Conns) : IsList(s) /\ Places(s)
    BY DEF PoolInv
  <2>2. s = <<>>
    BY <2>1, PoolAssumption DEF IsList, Conns
  <2>3. \A c \in Conns : \E t \in Threads : Holds(t, c)
    BY <2>1, <2>2 DEF Places, Listed
  <2>4. \A t \in Threads : held[t] \in Seq(Conns) /\ Len(held[t]) < Depth
    <3> SUFFICES ASSUME NEW t \in Threads PROVE held[t] \in Seq(Conns) /\ Len(held[t]) < Depth
      OBVIOUS
    <3>1. /\ held[t] \in Seq(Conns) /\ Knows(t)
          /\ pc[t] \in {"idle", "load", "again", "next", "cas", "segv"}
      BY DEF TypeInv, TypeOK, Steps
    <3> QED
      BY <3>1, PoolAssumption DEF Knows
  <2>5. ASSUME NEW t \in Threads, NEW i \in DOMAIN held[t] PROVE i \in 1 .. Depth - 1
    <3>1. held[t] \in Seq(Conns) /\ Len(held[t]) < Depth
      BY <2>4
    <3>2. i \in 1 .. Len(held[t]) /\ Len(held[t]) \in Nat
      BY <3>1
    <3> QED
      BY <3>1, <3>2, PoolAssumption
  <2> DEFINE Slots == Threads \X (1 .. Depth - 1)
             slot == [c \in Conns |-> CHOOSE p \in Slots :
                        p[2] \in DOMAIN held[p[1]] /\ held[p[1]][p[2]] = c]
  <2>6. \A c \in Conns : \E p \in Slots : p[2] \in DOMAIN held[p[1]] /\ held[p[1]][p[2]] = c
    <3> SUFFICES ASSUME NEW c \in Conns
                 PROVE  \E p \in Slots : p[2] \in DOMAIN held[p[1]] /\ held[p[1]][p[2]] = c
      OBVIOUS
    <3>0. PICK t \in Threads : Holds(t, c)
      BY <2>3
    <3>1. PICK i \in DOMAIN held[t] : held[t][i] = c
      BY <3>0 DEF Holds
    <3>2. <<t, i>> \in Slots
      BY <2>5, <3>1
    <3> QED
      BY <3>1, <3>2
  <2>7. \A c \in Conns : slot[c] \in Slots /\ held[slot[c][1]][slot[c][2]] = c
    BY <2>6
  <2> HIDE DEF slot
  <2>8. slot \in [Conns -> Slots]
    BY <2>7 DEF slot
  <2>9. IsFiniteSet(Conns) /\ Cardinality(Conns) = PoolSize
    BY FS_Interval, PoolAssumption DEF Conns
  <2>10. IsFiniteSet(1 .. Depth - 1) /\ Cardinality(1 .. Depth - 1) = Depth - 1
    BY FS_Interval, PoolAssumption
  <2>11. IsFiniteSet(Slots) /\ Cardinality(Slots) < Cardinality(Conns)
    BY <2>9, <2>10, FS_Product
  <2>12. PICK c, d \in Conns : c # d /\ slot[c] = slot[d]
    BY <2>8, <2>9, <2>11, FS_PigeonHole
  <2> QED
    BY <2>7, <2>12
<1> QED
  BY <1>1, PoolHolds, PTL
-----------------------------------------------------------------------------
(* One thread: the head that is read twice is the same head.               *)
LEMMA UndisturbedStep ==
  ASSUME Serial
  PROVE  TypeInv /\ Calm /\ [Next]_vars => Calm'
<1> SUFFICES ASSUME TypeInv, Calm, [Next]_vars PROVE Calm'
  OBVIOUS
<1>a. TypeOK /\ \A t \in Threads : Knows(t) /\ Undisturbed(t)
  BY DEF TypeInv, Calm
<1>b. ASSUME NEW t \in Threads, Undisturbed(t)' PROVE Calm'
  BY <1>b DEF Calm, Serial
<1>1. ASSUME NEW t \in Threads, Begin(t) \/ TakeAnother(t) \/ GiveBack(t) \/ Link(t) \/ Push(t)
      PROVE  Undisturbed(t)'
  BY <1>a, <1>1 DEF Begin, TakeAnother, GiveBack, Link, Push, Go, TypeOK, Undisturbed
<1>2. ASSUME NEW t \in Threads, Load(t) PROVE Undisturbed(t)'
  BY <1>a, <1>2 DEF Load, Go, TypeOK, Undisturbed
<1>3. ASSUME NEW t \in Threads, ReadAgain(t) PROVE Undisturbed(t)'
  <2>1. vk_list # Null
    BY <1>a, <1>3, PoolAssumption DEF ReadAgain, Undisturbed, Knows, Conns
  <2> QED
    BY <1>a, <1>3, <2>1 DEF ReadAgain, Go, TypeOK, Undisturbed
<1>4. ASSUME NEW t \in Threads, ReadNext(t) PROVE Undisturbed(t)'
  BY <1>a, <1>4 DEF ReadNext, Go, TypeOK, Undisturbed
<1>5. ASSUME NEW t \in Threads, Cas(t) PROVE Undisturbed(t)'
  <2>1. ret[t] = vk_list /\ new[t] = nextOf[ret[t]] /\ ~stale
    BY <1>a, <1>5 DEF Cas, Undisturbed
  <2>2. ~stale' /\ pc'[t] = "use"
    BY <1>a, <1>5, <2>1 DEF Cas, Go, TypeOK
  <2> QED
    BY <2>2 DEF Undisturbed
<1>6. CASE UNCHANGED vars
  BY <1>a, <1>6 DEF vars, Calm, Undisturbed
<1> QED
  BY <1>1, <1>2, <1>3, <1>4, <1>5, <1>6, <1>b DEF Next, Step

(* With the daemon's one thread no connection is ever shared or lost: no   *)
(* successor is stale, and no null head ends the process.                  *)
THEOREM OneThreadIsSafe ==
  ASSUME Serial, NEW t \in Threads
  PROVE  Spec => [](NoConnectionLost /\ Exclusive /\ Alive)
<1>1. Init => Calm
  BY DEF Init, Calm, Undisturbed
<1>2. TypeInv /\ PoolInv /\ Calm => NoConnectionLost /\ Exclusive /\ Alive
  BY PlacesExclusive, PlacesKept DEF Calm, Undisturbed, Alive
<1> QED
  BY <1>1, <1>2, PoolHolds, TypeInit, TypeStep, UndisturbedStep, PTL DEF Spec
=============================================================================
