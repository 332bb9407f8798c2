------------------------------- MODULE Scripts -------------------------------
(***************************************************************************)
(* Scripts: the Lua and the Python plugin with the scripts they run, the   *)
(* commands scripts give each other (VH:ScriptCommand, vh.ScriptCommand)   *)
(* and the robots they register.  The hub calls a hook of every plugin in  *)
(* the order of registration, the plugin calls it in its scripts one by    *)
(* one, and a script may call back into the hub from within: queue a       *)
(* command, give one at once (which runs a whole pass inside the present   *)
(* one), register or remove robots.                                        *)
(*                                                                         *)
(* The arguments of a hook stay in members of its callback list while the  *)
(* pass runs (mData1, ...).  Here mData is the depth of the pass whose     *)
(* arguments it points to.  The text of a command is left out, as is       *)
(* botList of a script, which only VH:GetBots reads.  The UnLoad function  *)
(* of a Lua script makes the same calls as its other functions.            *)
(***************************************************************************)
EXTENDS Integers, Sequences, FiniteSets, SequencesExt

CONSTANTS
    Plugins,      \* the plugins with scripts
    Lua,          \* the one of them that is Lua; the other ones are Python
    Files,        \* plugin -> its scripts in the order of their names
    PlainNicks,   \* nicks scripts register robots under
    ReservedNicks2,  \* mC.hub_security and mC.opchat_name, robots of the hub
    Limit,        \* the most commands in mScriptCommands (1000)
    MaxCalls,     \* bound: calls into the hub from one run of a function
    MaxDepth      \* bound: passes inside each other

BotNicks == PlainNicks \cup ReservedNicks2
Nobody == "nobody"
TheHub == "hub"

ASSUME ScriptsAssumption ==
    /\ Lua \in Plugins /\ Nobody \notin Plugins /\ TheHub \notin Plugins
    /\ \A p \in Plugins : Files[p] \in Seq(ToSet(Files[p])) /\ IsInjective(Files[p])
    /\ PlainNicks \cap ReservedNicks2 = {}
    /\ Limit \in Nat \ {0} /\ MaxCalls \in Nat /\ MaxDepth \in Nat \ {0}

VARIABLES
    order,    \* the plugins registered, first come first called
    loaded,   \* plugin -> mLua, mPython
    robot,    \* mRobotList: nick -> who added the robot, or Nobody
    held,     \* mRobots: plugin -> nick -> "no", "live", or "gone" (deleted)
    queue,    \* the length of mScriptCommands
    pos,      \* how many of them were delivered in this pass
    phase,    \* where OnTimer is
    stack,    \* the passes that are running, the innermost last
    mData,    \* depth of the pass mData1.. of OnScriptCommand belong to
    crossed,  \* history: some plugin deleted a robot it does not hold
    dangling      \* history: a deleted robot was used

scriptsVars == <<order, loaded, robot, held, queue, pos, phase, stack, mData, crossed, dangling>>
robotVars == <<robot, held, crossed, dangling>>
passVars == <<queue, pos, phase, stack, mData>>

(* One pass: the plugin and the script it has come to (0 before the        *)
(* first), the calls this script may still make, and the pass whose        *)
(* arguments the plugin was given.                                         *)
Pass(hook) == [hook |-> hook, plug |-> 0, next |-> 0, left |-> 0, got |-> 0]
Top == Last(stack)
Registered2 == ToSet(order)

\* after the use of a deleted robot nothing is known any more: the model stops
Idle == phase = "idle" /\ ~dangling

-----------------------------------------------------------------------------
(* OnTimer: SendScriptCommands, then the OnTimer hook *)

StartTimer ==
    /\ Idle
    /\ IF queue = 0 THEN phase' = "timer" /\ stack' = <<Pass("timer")>>
                    ELSE phase' = "drain" /\ UNCHANGED stack
    /\ UNCHANGED <<order, loaded, robotVars, queue, pos, mData>>

\* the list may grow while it is walked through; it is cleared afterwards
DeliveredSlip == queue' = queue - 1 /\ pos' = pos  \* a slip: each command is taken out
Delivered == pos' = pos + 1 /\ queue' = queue
NextItem ==
    /\ phase = "drain" /\ stack = <<>> /\ pos < queue
    /\ Delivered
    /\ stack' = <<Pass("command")>>
    /\ mData' = 1
    /\ UNCHANGED <<order, loaded, robotVars, phase>>

EndDrain ==
    /\ phase = "drain" /\ stack = <<>> /\ pos = queue
    /\ queue' = 0 /\ pos' = 0
    /\ phase' = "timer"
    /\ stack' = <<Pass("timer")>>
    /\ UNCHANGED <<order, loaded, robotVars, mData>>

EndTimer ==
    /\ phase = "timer" /\ stack = <<>>
    /\ phase' = "idle"
    /\ UNCHANGED <<order, loaded, robotVars, queue, pos, stack, mData>>

\* the function of the script returns: on to the next script, to the next
\* plugin (which takes its arguments from mData now), or out of the pass
InNextScript == [Top EXCEPT !.next = @ + 1, !.left = MaxCalls]
InNextPlugin == [Top EXCEPT !.plug = @ + 1, !.next = 0, !.left = 0,
                            !.got = IF Top.hook = "command" THEN mData ELSE 0]
OnTop(pass) == [stack EXCEPT ![Len(stack)] = pass]

NextScript ==
    /\ stack # <<>> /\ Top.plug > 0
    /\ Top.next < Len(loaded[order[Top.plug]])
    /\ stack' = OnTop(InNextScript)
    /\ UNCHANGED <<order, loaded, robotVars, queue, pos, phase, mData>>

PassedScripts == IF Top.plug = 0 THEN TRUE ELSE Top.next = Len(loaded[order[Top.plug]])

NextPlugin ==
    /\ stack # <<>> /\ PassedScripts /\ Top.plug < Len(order)
    /\ stack' = OnTop(InNextPlugin)
    /\ UNCHANGED <<order, loaded, robotVars, queue, pos, phase, mData>>

EndPass ==
    /\ stack # <<>> /\ PassedScripts /\ Top.plug = Len(order)
    /\ stack' = Front(stack)
    /\ UNCHANGED <<order, loaded, robotVars, queue, pos, phase, mData>>

-----------------------------------------------------------------------------
(* What a script calls while its function runs *)

InScript == IF stack = <<>> THEN FALSE ELSE Top.next > 0 /\ Top.left > 0
Caller == order[Top.plug]
Called == OnTop([Top EXCEPT !.left = @ - 1])

\* AddScriptCommand: what was delivered in this pass still counts
RoomSlip == queue <= Limit         \* a slip: one more than the limit
Room == queue < Limit

QueueCommand ==
    /\ InScript
    /\ stack' = Called
    /\ queue' = IF Room THEN queue + 1 ELSE queue
    /\ UNCHANGED <<order, loaded, robotVars, pos, phase, mData>>

\* "todo: hard limit is not implemented here": MaxDepth stands for what
\* the program's stack can hold
InstantCommand ==
    /\ Len(stack) < MaxDepth
    /\ stack' = Append(Called, Pass("command"))
    /\ mData' = Len(stack) + 1
    /\ UNCHANGED <<order, loaded, robotVars, queue, pos, phase>>
ScriptCommandLua == InScript /\ Caller = Lua /\ InstantCommand   \* VH:ScriptCommand
ScriptCommandPy == InScript /\ Caller # Lua /\ InstantCommand    \* vh.ScriptCommand

\* NewRobot: the server adds the robot, then the plugin, and when its list
\* still has the nick the server removes it again
KeptSlip(p, n) == n \in PlainNicks                     \* a slip: it does not
Kept(p, n) == held[p][n] = "no"

NewRobot(n) ==
    /\ n \in PlainNicks /\ robot[n] = Nobody
    /\ stack' = Called
    /\ robot' = IF Kept(Caller, n) THEN [robot EXCEPT ![n] = Caller] ELSE robot
    /\ held' = [held EXCEPT ![Caller][n] = IF @ = "no" THEN "live" ELSE @]
    /\ UNCHANGED <<order, loaded, queue, pos, phase, mData, crossed, dangling>>

RegBot(n) == InScript /\ Caller = Lua /\ NewRobot(n)       \* VH:RegBot
AddRobotPy(n) == InScript /\ Caller # Lua /\ NewRobot(n)   \* vh.AddRobot

\* cVHPlugin::DelRobot: the caller's list forgets the nick, whoever's robot
\* it is; the list of another owner keeps the pointer
Forgotten(p, n) == [held EXCEPT ![p][n] = "no"]

DelRobot(n) ==
    /\ stack' = Called
    /\ robot' = [robot EXCEPT ![n] = Nobody]
    /\ held' = [q \in Plugins |->
                  [Forgotten(Caller, n)[q] EXCEPT ![n] = IF @ = "live" THEN "gone" ELSE @]]
    /\ crossed' = (crossed \/ robot[n] # Caller)
    /\ UNCHANGED <<order, loaded, queue, pos, phase, mData, dangling>>

UnRegBot(n) ==                     \* VH:UnRegBot refuses reserved nicks
    InScript /\ Caller = Lua /\ n \in PlainNicks /\ robot[n] # Nobody /\ DelRobot(n)
DelRobotPy(n) ==                   \* vh.DelRobot does not
    InScript /\ Caller # Lua /\ robot[n] # Nobody /\ DelRobot(n)

\* the hub itself uses its two robots all the time
UseHubRobot ==
    /\ Idle
    /\ \E n \in ReservedNicks2 : robot[n] = Nobody
    /\ dangling' = TRUE
    /\ UNCHANGED <<order, loaded, robot, held, passVars, crossed>>

-----------------------------------------------------------------------------
(* Operators, between two runs of the timer *)

\* SetConfig of hub_security or opchat_name tells the scripts
TellScripts ==
    /\ Idle
    /\ queue' = IF Room THEN queue + 1 ELSE queue
    /\ UNCHANGED <<order, loaded, robotVars, pos, phase, stack, mData>>

IsIn(s, p) == \E i \in 1 .. Len(loaded[p]) : loaded[p][i] = s
Without(p, s) ==
    IF IsIn(s, p)
    THEN RemoveAt(loaded[p], CHOOSE i \in 1 .. Len(loaded[p]) : loaded[p][i] = s)
    ELSE loaded[p]
SetLoaded(p, list) ==
    /\ Idle /\ p \in Registered2
    /\ loaded' = [loaded EXCEPT ![p] = list]
    /\ UNCHANGED <<order, robotVars, passVars>>

\* !luaload, !pyload of a script that can be parsed; one that cannot
\* leaves the list as it was
AddScript(p, s) == ~IsIn(s, p) /\ SetLoaded(p, Append(loaded[p], s))
AddScriptLua(s) == AddScript(Lua, s)
AddScriptPy(p, s) == p # Lua /\ AddScript(p, s)

\* !luaunload, !pyunload: the robots of the script stay
DelScript(p, s) == IsIn(s, p) /\ SetLoaded(p, Without(p, s))
DelScriptLua(s) == DelScript(Lua, s)
DelScriptPy(p, s) == p # Lua /\ DelScript(p, s)

\* !luareload puts the script last, and loads it even when it was not;
\* !pyreload puts it where it was
ReloadLua(s, parsed) ==
    SetLoaded(Lua, IF parsed THEN Append(Without(Lua, s), s) ELSE Without(Lua, s))
ReloadPy(p, s, parsed) ==
    /\ p # Lua
    /\ SetLoaded(p, IF ~parsed THEN Without(p, s)
                    ELSE IF IsIn(s, p) THEN loaded[p] ELSE Append(loaded[p], s))

\* LoadPlugin with AutoLoad: the scripts that can be parsed, in the order
\* of their names
ComesFirst(p, s, t) == \E i, j \in DOMAIN Files[p] : i < j /\ Files[p][i] = s /\ Files[p][j] = t
AutoLoaded(p, good) ==
    {list \in [1 .. Cardinality(good) -> good] :
        \A i, j \in DOMAIN list : i < j => ComesFirst(p, list[i], list[j])}
AutoLoads(p, good) ==
    \E list \in AutoLoaded(p, good) : loaded' = [loaded EXCEPT ![p] = list]
LoadPlugin(p, good) ==
    /\ Idle /\ p \notin Registered2
    /\ order' = Append(order, p)
    /\ AutoLoads(p, good)
    /\ UNCHANGED <<robotVars, passVars>>

\* ~cVHPlugin deletes the robots of its list, gone or not
Disposed(p) ==
    /\ Idle /\ p \in Registered2
    /\ robot' = [n \in BotNicks |-> IF held[p][n] # "no" THEN Nobody ELSE robot[n]]
    /\ held' = [q \in Plugins |-> [n \in BotNicks |->
                  IF q = p THEN "no"
                  ELSE IF held[q][n] = "live" /\ held[p][n] # "no" THEN "gone" ELSE held[q][n]]]
    /\ dangling' = (dangling \/ \E n \in BotNicks : held[p][n] = "gone")
    /\ UNCHANGED <<crossed, passVars>>

\* Unregister finds the plugin in the list and takes it out there
Unregistered(p) == RemoveAt(order, CHOOSE i \in 1 .. Len(order) : order[i] = p)

UnloadPlugin(p) ==
    /\ Disposed(p)
    /\ order' = Unregistered(p)
    /\ loaded' = [loaded EXCEPT ![p] = <<>>]

ReloadPlugin(p, good) ==
    /\ Disposed(p)
    /\ order' = Append(Unregistered(p), p)
    /\ AutoLoads(p, good)

-----------------------------------------------------------------------------
ScriptsInit ==
    /\ order = <<>> /\ loaded = [p \in Plugins |-> <<>>]
    /\ robot = [n \in BotNicks |-> IF n \in ReservedNicks2 THEN TheHub ELSE Nobody]
    /\ held = [p \in Plugins |-> [n \in BotNicks |-> "no"]]
    /\ queue = 0 /\ pos = 0 /\ phase = "idle" /\ stack = <<>> /\ mData = 0
    /\ crossed = FALSE /\ dangling = FALSE

\* what the hub does on its own: the thread does not stop in between
PassStep == \/ NextItem
            \/ EndDrain
            \/ EndTimer
            \/ NextScript
            \/ NextPlugin
            \/ EndPass
ScriptCall == \/ QueueCommand
              \/ ScriptCommandLua
              \/ ScriptCommandPy
              \/ \E n \in BotNicks : \/ RegBot(n)
                                    \/ UnRegBot(n)
                                    \/ AddRobotPy(n)
                                    \/ DelRobotPy(n)
Manage ==
    \/ TellScripts
    \/ \E p \in Plugins : \/ \E s \in ToSet(Files[p]) : AddScriptPy(p, s) \/ DelScriptPy(p, s)
                          \/ \E s \in ToSet(Files[p]), parsed \in BOOLEAN : ReloadPy(p, s, parsed)
                          \/ \E good \in SUBSET ToSet(Files[p]) : \/ LoadPlugin(p, good)
                                                                  \/ ReloadPlugin(p, good)
                          \/ UnloadPlugin(p)
    \/ \E s \in ToSet(Files[Lua]) : \/ AddScriptLua(s)
                                   \/ DelScriptLua(s)
                                   \/ \E parsed \in BOOLEAN : ReloadLua(s, parsed)

ScriptsNext == \/ StartTimer
               \/ PassStep
               \/ ScriptCall
               \/ Manage
               \/ UseHubRobot

ScriptsSpec == ScriptsInit /\ [][ScriptsNext]_scriptsVars
ScriptsLive == ScriptsSpec /\ WF_scriptsVars(PassStep)

-----------------------------------------------------------------------------
ScriptsTypeOK ==
    /\ IsInjective(order) /\ Registered2 \subseteq Plugins
    /\ \A p \in Plugins : IsInjective(loaded[p]) /\ ToSet(loaded[p]) \subseteq ToSet(Files[p])
    /\ robot \in [BotNicks -> Plugins \cup {Nobody, TheHub}]
    /\ held \in [Plugins -> [BotNicks -> {"no", "live", "gone"}]]
    /\ queue \in 0 .. Limit /\ pos \in 0 .. queue
    /\ phase \in {"idle", "drain", "timer"}
    /\ Len(stack) <= MaxDepth /\ mData \in 0 .. MaxDepth
    /\ crossed \in BOOLEAN /\ dangling \in BOOLEAN

(***************************************************************************)
(* The hub's list of robots and the lists of the plugins agree: a robot    *)
(* is held, alive, by the plugin that added it and by nobody else, and a   *)
(* plugin that is not loaded holds none.  (A nick that another plugin took *)
(* away cannot be used again by its old owner: RegBot is undone.)  A       *)
(* robot that was deleted is used (by its plugin that is unloaded, by the  *)
(* hub) only after a script deleted one of another plugin or of the hub:   *)
(* none of the calls looks at the owner.                                   *)
(***************************************************************************)
RobotsHeld ==
    \A n \in BotNicks, p \in Plugins :
        /\ (robot[n] = p) <=> (held[p][n] = "live")
        /\ p \notin Registered2 => held[p][n] = "no"
        /\ dangling \/ held[p][n] = "gone" => crossed

(***************************************************************************)
(* The scripts that answer each command with another one do not keep the   *)
(* hub in OnTimer: what was delivered counts against the limit until the   *)
(* whole list is cleared.                                                  *)
(***************************************************************************)
DrainEnds == (phase = "drain") ~> (phase # "drain")
=============================================================================
