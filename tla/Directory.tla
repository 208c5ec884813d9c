------------------------------ MODULE Directory ------------------------------
(***************************************************************************)
(* What the server promises about people and games, without uuids, hashes, *)
(* threads or database commands.  Whoever looks an id or a name up finds   *)
(* nobody, or a whole record that never changes again.  A person is found  *)
(* under the id and under the name at the same moment, if the name leads   *)
(* to the person at all: another sign-up may have taken the name.  A game  *)
(* has an owner for good, a person or, when a game was named in a person's *)
(* place, an older game.  A list grows by one of its owner's games, or     *)
(* loses its oldest.                                                       *)
(***************************************************************************)
EXTENDS Naturals, Sequences

CONSTANTS
  Names, UserIds, GameIds,
  Owners,   \* <<"person", i>> for a user id i, <<"game", g>> for a game id g
  NoUser, NoGame, NoOwner

VARIABLES
  person,   \* person[i] : who is found under user id i
  byName,   \* byName[n] : who is found under name n
  game,     \* game[g] : the game found under game id g
  owner,    \* owner[g] : whose game it is, which its userid does not tell
  list      \* list[o] : the ids of the games of owner o, newest first

directory == <<person, byName, game, owner, list>>

DirInit ==
  /\ person = [i \in UserIds |-> NoUser]
  /\ byName = [n \in Names |-> NoUser]
  /\ game = [g \in GameIds |-> NoGame]
  /\ owner = [g \in GameIds |-> NoOwner]
  /\ list = [o \in Owners |-> <<>>]

Join(i, n) ==
  LET p == [id |-> i, name |-> n] IN
  /\ person[i] = NoUser
  /\ person' = [person EXCEPT ![i] = p]
  /\ \/ byName[n] = NoUser /\ byName' = [byName EXCEPT ![n] = p]
     \/ UNCHANGED byName
  /\ UNCHANGED <<game, owner, list>>

MayOwn(o, g) ==
  \/ o[1] = "person" /\ person[o[2]] # NoUser
  \/ o[1] = "game" /\ o[2] < g

Register(g, o) ==
  /\ game[g] = NoGame /\ MayOwn(o, g)
  /\ game' = [game EXCEPT ![g] = [id |-> g, userid |-> o[2]]]
  /\ owner' = [owner EXCEPT ![g] = o]
  /\ UNCHANGED <<person, byName, list>>

Enlist(g) ==
  /\ game[g] # NoGame
  /\ \A k \in DOMAIN list[owner[g]] : list[owner[g]][k] # g
  /\ list' = [list EXCEPT ![owner[g]] = <<g>> \o @]
  /\ UNCHANGED <<person, byName, game, owner>>

DropOldest(o) ==
  /\ list[o] # <<>>
  /\ list' = [list EXCEPT ![o] = SubSeq(@, 1, Len(@) - 1)]
  /\ UNCHANGED <<person, byName, game, owner>>

DirStep ==
  \/ \E i \in UserIds, n \in Names : Join(i, n)
  \/ \E g \in GameIds, o \in Owners : Register(g, o)
  \/ \E g \in GameIds : Enlist(g)
  \/ \E o \in Owners : DropOldest(o)

(* What a step of the server comes to, unless readers see nothing of it.   *)
DirNext == directory' # directory /\ DirStep

DirSpec == DirInit /\ [][DirNext]_directory
=============================================================================
