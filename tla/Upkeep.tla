------------------------------- MODULE Upkeep -------------------------------
(***************************************************************************)
(* Upkeep: what the hub does by the clock and on orders to itself.  run    *)
(* calls OnTimer every timer_serv_period and ends when an order to stop    *)
(* has come due; OnTimer steps the functions that change a setting for a   *)
(* time (!userlimit), watches for connections that clients of other hubs   *)
(* are sent here with ($MyNick and $Lock instead of a login), and reloads  *)
(* the lists when a signal asked for it.  Registering in hublists and      *)
(* looking for a new version are given to a thread, which answers whoever  *)
(* asked by the nick.                                                      *)
(*                                                                         *)
(* A step of time is one call of OnTimer.  The worker thread itself is in  *)
(* WorkerThread, the sweep of bans in Bans, the triggers in Tables.        *)
(***************************************************************************)
EXTENDS Integers, FiniteSets

CONSTANTS
    Delays,       \* delays in texts of !quit and !restart that can be read
    MaxOrders,    \* bound: orders to stop
    Minute,       \* calls of OnTimer in a minute
    Storm,        \* so many in a minute are no attack yet (9)
    Referers,     \* hubs that clients are sent from
    MaxTotal,     \* bound: length of mCtmToHubList
    Targets,      \* limits given to !userlimit
    Askers,       \* nicks of operators who ask
    MaxSessions   \* bound: how often each of them comes

NoRef == "no referer"
None == "none"
NoAsker == ""
Never == -1
Unseen == -1
NoPeriod == -2
Quiet == 3 * Minute                   \* 180 seconds

ASSUME UpkeepAssumption ==
    /\ Delays \subseteq Nat /\ Targets \subseteq Nat
    /\ MaxOrders \in Nat /\ Minute \in Nat \ {0} /\ Storm \in Nat
    /\ MaxTotal \in Nat /\ MaxSessions \in Nat
    /\ NoRef \notin Referers /\ None \notin Askers /\ NoAsker \notin Askers

VARIABLES
    up,         \* mbRun, and how it ended: "run", "ended", "killed"
    stopIn,     \* time until mT.stop, or Never
    result,     \* mRunResult
    orders,     \* orders to stop that were given
    fresh,      \* mCtmToHubConf.mNew
    total,      \* length of mCtmToHubList
    found,      \* referer -> not in the list, "new" (mUniq) or "told"
    attack,     \* mCtmToHubConf.mStart
    minute,     \* time since mCtmToHubConf.mTime
    quiet,      \* time since mCtmToHubConf.mLast
    usersMax,   \* mC.max_users_total
    ramps,      \* mTmpFunc: the functions that change it
    hup,        \* mReloadNow
    reading,    \* ReloadNow runs
    edited,     \* the files were edited and not read since
    wanted,     \* a signal came after they were edited, and they were not read
    missed,     \* history: a signal came while ReloadNow ran
    errand,     \* kind of work -> nick it answers, or NoAsker, or None
    sought,     \* kind of work -> session the thread holds a pointer to, 0 if it found none, or Unseen
    session,    \* nick -> number of its session, 0 while it is not in the list
    came,       \* nick -> sessions so far
    owed        \* sessions told to wait, and neither answered nor ended

stopVars == <<up, stopIn, result, orders>>
attackVars == <<fresh, total, found, attack, minute, quiet>>
rampVars == <<usersMax, ramps>>
reloadVars == <<hup, reading, edited, wanted, missed>>
errandVars == <<errand, sought, session, came, owed>>
upkeepVars == <<stopVars, attackVars, rampVars, reloadVars, errandVars>>

Runs == up = "run" /\ ~reading
Kinds2 == {"hublist", "update"}

-----------------------------------------------------------------------------
(* Orders to stop *)

\* stop: a delay of -1 withdraws what was ordered
Stops(code, delay) == stopIn' = delay /\ result' = code

\* a text that is no period prints an error, and the hub stops at once
DelayOf(text) == IF text = NoPeriod THEN 0 ELSE text

CmdQuit(code, text) ==
    /\ Runs /\ orders < MaxOrders
    /\ orders' = orders + 1
    /\ LET delay == DelayOf(text)
           c == IF delay = Never THEN 0 ELSE code
       IN IF c >= 0 THEN Stops(c, delay) /\ UNCHANGED up
          ELSE up' = "killed" /\ UNCHANGED <<stopIn, result>>
    /\ UNCHANGED <<attackVars, rampVars, reloadVars, errandVars>>

\* SIGTERM and SIGQUIT: SyncStop, but the handler leaves the program
Signalled ==
    /\ up = "run"
    /\ Stops(0, 0)
    /\ up' = "killed"
    /\ UNCHANGED <<orders, attackVars, rampVars, reloadVars, errandVars>>

-----------------------------------------------------------------------------
(* Connections clients of other hubs are sent here with *)

\* DCC_Lock: the first of each referer counts as one hub
CtmToHubAddItem(ref) ==
    /\ Runs /\ total < MaxTotal
    /\ total' = total + 1
    /\ found' = IF ref = NoRef THEN found ELSE [found EXCEPT ![ref] = IF @ = "no" THEN "new" ELSE @]
    /\ fresh' = fresh + 1
    /\ attack' = (attack \/ fresh' > Storm)
    /\ UNCHANGED <<stopVars, minute, quiet, rampVars, reloadVars, errandVars>>

\* OnTimer tells operators each hub once, and nothing before an attack
ToldAll == [r \in Referers |-> IF found[r] = "new" THEN "told" ELSE found[r]]
Gathered ==
    /\ found' = IF attack THEN ToldAll ELSE found
    /\ fresh' = 0 /\ quiet' = 0
    /\ UNCHANGED <<total, attack>>

\* nothing new for three minutes: "DDoS stopped" when it had started
AttackOver == attack' = FALSE
Cleared ==
    /\ AttackOver
    /\ found' = [r \in Referers |-> "no"]
    /\ total' = 0 /\ quiet' = 0
    /\ UNCHANGED fresh

Alert == fresh > 0

WatchCtm ==
    IF minute + 1 < Minute
    THEN /\ minute' = minute + 1
         /\ quiet' = IF quiet < Quiet THEN quiet + 1 ELSE quiet
         /\ UNCHANGED <<fresh, total, found, attack>>
    ELSE /\ minute' = 0
         /\ IF total = 0 THEN UNCHANGED <<fresh, total, found, attack>>
                              /\ quiet' = IF quiet < Quiet THEN quiet + 1 ELSE quiet
            ELSE IF Alert THEN Gathered
            ELSE IF quiet + 1 >= Quiet THEN Cleared
            ELSE quiet' = quiet + 1 /\ UNCHANGED <<fresh, total, found, attack>>

-----------------------------------------------------------------------------
(* !userlimit: a function that is to lead the setting to its target *)

\* steps to go, steps skipped and to skip, the next change, the target
Ramp(target, steps) ==
    [left |-> steps, done |-> 0, skip |-> steps, by |-> (target - usersMax) \div 2,
     target |-> target, from |-> usersMax]

CmdUserLimit(target) ==
    /\ Runs /\ ramps = {}                \* bound: one at a time
    /\ ramps' = {Ramp(target, Minute)}
    /\ UNCHANGED <<usersMax, stopVars, attackVars, reloadVars, errandVars>>

\* what is done is deleted, the others make a step
Due(r) == r.done >= r.skip
Stepped(r) ==
    IF Due(r) THEN [r EXCEPT !.left = @ - 1, !.done = 0, !.by = @ \div 2]
              ELSE [r EXCEPT !.left = @ - 1, !.done = @ + 1]
StepRamps ==
    LET going == {r \in ramps : r.left > 0}
    IN /\ ramps' = {Stepped(r) : r \in going}
       /\ usersMax' = IF \E r \in going : Due(r)
                      THEN usersMax + (CHOOSE r \in going : Due(r)).by ELSE usersMax

-----------------------------------------------------------------------------
(* SIGHUP and ReloadNow *)

EditFiles ==
    /\ up = "run"
    /\ edited' = TRUE
    /\ UNCHANGED <<stopVars, attackVars, rampVars, hup, reading, wanted, missed, errandVars>>

\* SyncReload, in the handler of the signal: at any time
SyncReload ==
    /\ up = "run"
    /\ hup' = TRUE
    /\ wanted' = edited
    /\ missed' = (missed \/ reading)
    /\ UNCHANGED <<stopVars, attackVars, rampVars, reading, edited, errandVars>>

\* the lists are read, and the flag is reset when operators were told
ReadLists == reading' = TRUE /\ edited' = FALSE /\ wanted' = FALSE /\ UNCHANGED <<hup, missed>>
EndReload ==
    /\ up = "run" /\ reading
    /\ reading' = FALSE /\ hup' = FALSE
    /\ UNCHANGED <<stopVars, attackVars, rampVars, edited, wanted, missed, errandVars>>

-----------------------------------------------------------------------------
(* One call of OnTimer, and the test of mT.stop that follows it *)

Elapsed ==
    /\ stopIn' = IF stopIn <= 0 THEN stopIn ELSE stopIn - 1
    /\ up' = IF stopIn' = 0 THEN "ended" ELSE up
    /\ UNCHANGED <<result, orders>>

OnTimer ==
    /\ Runs
    /\ StepRamps
    /\ WatchCtm
    /\ Elapsed
    /\ IF hup THEN ReadLists ELSE UNCHANGED reloadVars
    /\ UNCHANGED errandVars

-----------------------------------------------------------------------------
(* What is given to a thread *)

Enters(n) ==
    /\ Runs /\ session[n] = 0 /\ came[n] < MaxSessions
    /\ came' = [came EXCEPT ![n] = @ + 1]
    /\ session' = [session EXCEPT ![n] = came[n] + 1]
    /\ UNCHANGED <<errand, sought, owed, stopVars, attackVars, rampVars, reloadVars>>

Leaves(n) ==
    /\ Runs /\ session[n] # 0
    /\ session' = [session EXCEPT ![n] = 0]
    /\ owed' = owed \ {o \in owed : o[1] = n}
    /\ UNCHANGED <<errand, sought, came, stopVars, attackVars, rampVars, reloadVars>>

\* AddWork refuses while the thread has work, and the asker is told
AcceptsSlip(k) == TRUE                               \* a slip: new work replaces the old
Accepts(k) == errand[k] = None

\* RegisterInHublist, CheckForUpdates
Asked(k, n) ==
    /\ Runs /\ session[n] # 0
    /\ Accepts(k)
    /\ errand' = [errand EXCEPT ![k] = n]
    /\ owed' = owed \cup {<<n, session[n], k>>}
    /\ UNCHANGED <<sought, session, came, stopVars, attackVars, rampVars, reloadVars>>
ByTimer(k) ==
    /\ Runs /\ Accepts(k)
    /\ errand' = [errand EXCEPT ![k] = NoAsker]
    /\ UNCHANGED <<sought, session, came, owed, stopVars, attackVars, rampVars, reloadVars>>

\* DoRegisterInHublist, DoCheckForUpdates: the thread takes the pointer of
\* whoever has the nick by now, without a lock
SeekAsker(k) ==
    /\ up = "run" /\ errand[k] # None /\ sought[k] = Unseen
    /\ sought' = [sought EXCEPT ![k] = IF errand[k] = NoAsker THEN 0 ELSE session[errand[k]]]
    /\ UNCHANGED <<errand, session, came, owed, stopVars, attackVars, rampVars, reloadVars>>

\* ... and answers him.  If the hub deleted the user in between, the thread
\* uses memory that is free: nothing comes of it, or the program ends.
Dangles(k) == sought[k] > 0 /\ session[errand[k]] # sought[k]
DoErrand(k) ==
    /\ up = "run" /\ errand[k] # None /\ sought[k] # Unseen
    /\ errand' = [errand EXCEPT ![k] = None]
    /\ sought' = [sought EXCEPT ![k] = Unseen]
    /\ owed' = owed \ {<<errand[k], sought[k], k>>}
    /\ up' = "run" \/ (Dangles(k) /\ up' = "killed")
    /\ UNCHANGED <<session, came, stopIn, result, orders, attackVars, rampVars, reloadVars>>

-----------------------------------------------------------------------------
UpkeepInit ==
    /\ up = "run" /\ stopIn = Never /\ result = 0 /\ orders = 0
    /\ fresh = 0 /\ total = 0 /\ found = [r \in Referers |-> "no"]
    /\ attack = FALSE /\ minute = 0 /\ quiet = 0
    /\ usersMax = 0 /\ ramps = {}
    /\ hup = FALSE /\ reading = FALSE /\ edited = FALSE /\ wanted = FALSE /\ missed = FALSE
    /\ errand = [k \in Kinds2 |-> None] /\ sought = [k \in Kinds2 |-> Unseen]
    /\ session = [n \in Askers |-> 0] /\ came = [n \in Askers |-> 0] /\ owed = {}

OrderSteps ==
    \/ \E code \in {-1, 0, 1}, text \in Delays \cup {Never} : CmdQuit(code, text)
    \/ \E code \in {-1, 0, 1} : CmdQuit(code, NoPeriod)
    \/ Signalled \/ EditFiles \/ SyncReload
WatchSteps ==
    \/ \E ref \in Referers \cup {NoRef} : CtmToHubAddItem(ref)
    \/ \E target \in Targets : CmdUserLimit(target)
ErrandSteps ==
    \/ \E n \in Askers : \/ Enters(n)
                         \/ Leaves(n)
                         \/ \E k \in Kinds2 : Asked(k, n)
    \/ \E k \in Kinds2 : ByTimer(k) \/ SeekAsker(k) \/ DoErrand(k)
LoopStep == OnTimer \/ EndReload

UpkeepNext == OrderSteps \/ WatchSteps \/ ErrandSteps \/ LoopStep
UpkeepSpec == UpkeepInit /\ [][UpkeepNext]_upkeepVars /\ WF_upkeepVars(LoopStep)

-----------------------------------------------------------------------------
UpkeepTypeOK ==
    /\ up \in {"run", "ended", "killed"} /\ stopIn \in Delays \cup Nat \cup {Never}
    /\ result \in {0, 1} /\ orders \in 0 .. MaxOrders
    /\ fresh \in 0 .. total /\ total \in 0 .. MaxTotal
    /\ found \in [Referers -> {"no", "new", "told"}] /\ attack \in BOOLEAN
    /\ minute \in 0 .. Minute - 1 /\ quiet \in 0 .. Quiet
    /\ usersMax \in Int
    /\ \A b \in {hup, reading, edited, wanted, missed} : b \in BOOLEAN
    /\ errand \in [Kinds2 -> Askers \cup {NoAsker, None}]
    /\ sought \in [Kinds2 -> {Unseen} \cup (0 .. MaxSessions)]
    /\ session \in [Askers -> 0 .. MaxSessions] /\ came \in [Askers -> 0 .. MaxSessions]

(***************************************************************************)
(* What operators are told is true: an attack that is said to go on has    *)
(* connections behind it, and once the connections of a minute were        *)
(* reported no hub that was found is left unreported; whoever was told to  *)
(* wait for the hublists or the update is the one the thread will answer   *)
(* by his nick, and if it holds a pointer to him already, it is the        *)
(* session he asked from; and what a signal asked to be read is read,      *)
(* unless it came while the lists were being read (ReloadNow resets the    *)
(* flag at its end).                                                       *)
(***************************************************************************)
UpkeepRight ==
    /\ attack => total > Storm
    /\ attack /\ fresh = 0 => \A r \in Referers : found[r] # "new"
    /\ \A o \in owed : /\ errand[o[3]] = o[1] /\ session[o[1]] = o[2]
                      /\ sought[o[3]] \in {Unseen, o[2]}
    /\ wanted => hup \/ missed

(***************************************************************************)
(* An attack that was reported is reported as over when no such connection *)
(* comes any more, and a hub that was told to stop stops.                  *)
(***************************************************************************)
AttackEnds == attack ~> (~attack \/ up # "run")
StopComes == (orders = MaxOrders /\ stopIn # Never) ~> (up # "run")
=============================================================================
