----------------------------- MODULE MCServices -----------------------------
(***************************************************************************)
(* Small instances of WorkerThread, Roster, Scripts, Upkeep (its orders    *)
(* and settings, its watch, or its errands) and PluginUsers (one plugin).  *)
(* They share no state, so that a behaviour runs one of them.              *)
(***************************************************************************)
EXTENDS WorkerThread, Roster, Scripts, Upkeep, PluginUsers, TLC

CONSTANTS u1, u2, b1, a1
ASSUME ServicesAssumption == u1 \in Guests      \* the one who sends mail

(* two nicks in one slot of the table while it has three *)
Hashes == u1 :> 0 @@ u2 :> 1 @@ b1 :> 3

\* two users who come from one address
FromOne == u1 :> a1 @@ u2 :> a1
Classes == u1 :> 1 @@ u2 :> 2

ScriptFiles == "lua" :> <<"l1", "l2">> @@ "python" :> <<"p1">>

VARIABLE serves    \* which of them moves

servicesVars == <<serves, workerVars, rosterVars, scriptsVars, upkeepVars, guestsVars>>

UpkeepParts == {"orders", "watch", "errands"}

ServesWorker ==
    serves = "worker" /\ UNCHANGED <<serves, rosterVars, scriptsVars, upkeepVars, guestsVars>>
ServesRoster ==
    serves = "roster" /\ UNCHANGED <<serves, workerVars, scriptsVars, upkeepVars, guestsVars>>
ServesScripts ==
    serves = "scripts" /\ UNCHANGED <<serves, workerVars, rosterVars, upkeepVars, guestsVars>>
ServesUpkeep ==
    /\ serves \in UpkeepParts
    /\ UNCHANGED <<serves, workerVars, rosterVars, scriptsVars, guestsVars>>
ServesGuests ==
    /\ serves \in Followers
    /\ UNCHANGED <<serves, workerVars, rosterVars, scriptsVars, upkeepVars>>
ServicesInit ==
    /\ serves \in {"worker", "roster", "scripts"} \cup UpkeepParts \cup Followers
    /\ WorkerInit /\ RosterInit /\ ScriptsInit /\ UpkeepInit /\ GuestsInit
    /\ serves # "floodprot" => plugs = {}
ServicesNext ==
    \/ ServesWorker /\ WorkerNext
    \/ ServesRoster /\ RosterNext
    \/ ServesScripts /\ ScriptsNext
    \/ ServesUpkeep /\ serves = "orders" /\ OrderSteps
    \/ ServesUpkeep /\ serves = "watch" /\ WatchSteps
    \/ ServesUpkeep /\ serves = "errands" /\ ErrandSteps
    \/ ServesUpkeep /\ LoopStep
    \/ ServesGuests /\ (Switches(serves) \/ \E g \in Guests : ComesAndGoes(g))
    \/ ServesGuests /\ serves = "floodprot" /\ FloodSteps
    \/ ServesGuests /\ serves = "chatroom" /\ RoomSteps
    \/ ServesGuests /\ serves = "messenger" /\ MailSteps({u1})

ServicesSpec ==
    /\ ServicesInit /\ [][ServicesNext]_servicesVars
    /\ WF_servicesVars(ServesWorker /\ HubStep)
    /\ WF_servicesVars(ServesWorker /\ ThreadStep)
    /\ WF_servicesVars(ServesScripts /\ PassStep)
    /\ WF_servicesVars(ServesUpkeep /\ LoopStep)

(***************************************************************************)
(* What the hub or a thread has begun it ends: work that was accepted is   *)
(* done, the queue of commands between scripts is emptied, an attack that  *)
(* was reported is reported as over, and an order to stop is followed.     *)
(***************************************************************************)
WorkEnds == AcceptedIsDone /\ DrainEnds /\ AttackEnds /\ StopComes

ServicesTypeOK == WorkerTypeOK /\ RosterTypeOK /\ ScriptsTypeOK /\ UpkeepTypeOK
                  /\ GuestsTypeOK
=============================================================================
