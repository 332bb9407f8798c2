---------------------------- MODULE HubDirectory ----------------------------
(***************************************************************************)
(* What the hub promises about nicks, without the login protocol, the      *)
(* lists by mode or class, or the way connections are closed: a nick has   *)
(* at most one holder, only a connection that was let in can become one,   *)
(* it holds one nick, and a connection that lost its nick, or was refused  *)
(* it, does not get another before it has left.                            *)
(***************************************************************************)
CONSTANTS Conns, Nicks, NoOne, Robot

VARIABLES
    stage,   \* how far a connection has come
    holder   \* who holds a nick

dirVars == <<stage, holder>>

DirInit ==
    /\ stage = [c \in Conns |-> "out"]
    /\ holder = [n \in Nicks |-> NoOne]

LetIn(c) ==
    /\ stage[c] = "out"
    /\ stage' = [stage EXCEPT ![c] = "admitted"]
    /\ UNCHANGED holder

(* A free nick is given to a connection that was let in. *)
Take(c, n) ==
    /\ stage[c] = "admitted"
    /\ holder[n] = NoOne
    /\ stage' = [stage EXCEPT ![c] = "listed"]
    /\ holder' = [holder EXCEPT ![n] = c]

(* The holder d of a nick makes way for c and is finished. *)
TakeFrom(c, d, n) ==
    /\ stage[c] = "admitted"
    /\ holder[n] = d /\ d # c
    /\ stage' = [stage EXCEPT ![c] = "listed", ![d] = "retired"]
    /\ holder' = [holder EXCEPT ![n] = c]

Refuse(c) ==
    /\ stage[c] = "admitted"
    /\ stage' = [stage EXCEPT ![c] = "retired"]
    /\ UNCHANGED holder

Leave(c) ==
    /\ stage[c] # "out"
    /\ stage' = [stage EXCEPT ![c] = "out"]
    /\ holder' = [n \in Nicks |-> IF holder[n] = c THEN NoOne ELSE holder[n]]

RobotTakes(n) ==
    /\ holder[n] = NoOne
    /\ holder' = [holder EXCEPT ![n] = Robot]
    /\ UNCHANGED stage

RobotLeaves(n) ==
    /\ holder[n] = Robot
    /\ holder' = [holder EXCEPT ![n] = NoOne]
    /\ UNCHANGED stage

DirNext ==
    \/ \E c \in Conns : LetIn(c) \/ Refuse(c) \/ Leave(c)
    \/ \E c \in Conns, n \in Nicks : Take(c, n) \/ \E d \in Conns : TakeFrom(c, d, n)
    \/ \E n \in Nicks : RobotTakes(n) \/ RobotLeaves(n)

DirSpec == DirInit /\ [][DirNext]_dirVars

=============================================================================
