----------------------------- MODULE ConnLife -----------------------------
(***************************************************************************)
(* The life of a client connection as the rest of the hub sees it: open,   *)
(* closing (only pending output keeps it), dead (waits to be deleted), and *)
(* free again.  It never goes back, except through free.  HubLogin's sock  *)
(* is this life, told together with the login.                             *)
(***************************************************************************)
CONSTANT Sockets

VARIABLE life

LifeInit == life = [s \in Sockets |-> "free"]

(* From one stage to another; "free" is reached from every stage, for an error of the socket
   deletes a connection at once. *)
Before(stage) ==
    CASE stage = "open"    -> {"free"}
      [] stage = "closing" -> {"open"}
      [] stage = "dead"    -> {"open", "closing"}
      [] stage = "free"    -> {"open", "closing", "dead"}

LifeNext ==
    \E s \in Sockets, stage \in {"open", "closing", "dead", "free"} :
        /\ life[s] \in Before(stage)
        /\ life' = [life EXCEPT ![s] = stage]

LifeSpec == LifeInit /\ [][LifeNext]_life

=============================================================================
