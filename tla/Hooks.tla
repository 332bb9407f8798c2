-------------------------------- MODULE Hooks --------------------------------
(***************************************************************************)
(* What a client's connection and its messages are to the scripts: the     *)
(* hooks the hub calls on the way, in which order, what a script may       *)
(* answer, and what the hub does then.  One connection; the checks the hub *)
(* makes itself between two hooks are the action HubRefuses.               *)
(*                                                                         *)
(* A message is the set of scripts whose change is in it.  Lua scripts     *)
(* cannot change a message, Python scripts can change chat and $MyINFO.    *)
(***************************************************************************)
EXTENDS Integers, Sequences, SequencesExt

CONSTANTS
    ScriptsOf,     \* plugin ("lua", "python") -> its scripts in order
    Relays,        \* which of RelayHooks clients send
    Effects        \* which of EffectHooks commands lead to

RelayHooks == {"PM", "MCTo"} \cup {"Search", "SR", "ConnectToMe", "RevConnectToMe", "ExtJSON"}
EffectHooks == {"NewReg", "DelReg", "UpdateClass"} \cup {"NewBan", "UnBan"}
               \cup {"OperatorKicks", "OperatorDrops"} \cup {"SetConfig"}

ASSUME HooksAssumption ==
    /\ Relays \subseteq RelayHooks /\ Effects \subseteq EffectHooks
    /\ \A p \in {"lua", "python"} :
         ScriptsOf[p] \in Seq(ToSet(ScriptsOf[p])) /\ IsInjective(ScriptsOf[p])

VARIABLES
    pluginOrder, \* the plugins in the order of their loading
    who,         \* "gone", "new", "named" (mpUser), "listed" (mInList), "left"
    mayEnter,       \* the first $MyINFO was taken: the login may be completed
    deleted,     \* DeleteConn has begun
    link,        \* "ok", "nice" (closes when all is sent) or "now" (closed)
    hooks,       \* the hooks the running handler has before it, the first running
    at,          \* the plugin it has come to, 0 before the first
    called,       \* how many scripts of this plugin were called
    given,       \* the message as this plugin took it when it was called
    text,        \* the message now
    pluginSays, hubHears,   \* ret of the plugin's CallAll, mCall of the list
    stands,      \* history: plugins with a discard no later change took back
    changes,     \* history: the scripts that changed the message
    told         \* history: what scripts know: "out", "in" or "login"

eventVars == <<hooks, at, called, given, text, pluginSays, hubHears, stands, changes>>
hooksVars == <<pluginOrder, who, mayEnter, deleted, link, told, eventVars>>

Hook == Head(hooks)

-----------------------------------------------------------------------------
(* The plugins *)

BeforeUser == {"NewConn", "AnyEx", "Supports", "CtmToHub", "CloseConn", "CloseConnEx"}
HasUser == who # "new"
\* cpiLua::On...: most hooks want conn->mpUser
LuaHears(h) == h \in BeforeUser \cup {"Unknown"} \/ HasUser
\* cpiPython::On...: the hub calls AnyEx only without mpUser, and the
\* plugin passes it on only with it; Unknown only when the user is in the list
PythonHears(h) ==
    /\ h \in BeforeUser \/ HasUser
    /\ h = "AnyEx" => HasUser
    /\ h \notin {"BadPass", "DelReg", "UpdateClass", "UnBan"}
    /\ h = "Unknown" => who = "listed"
Hears(p, h) == IF p = "lua" THEN LuaHears(h) ELSE PythonHears(h)

\* what the function of a script may return
LuaAnswers(h) == {"pass", "discard", "disconnect"}
ChatChanged == {"Chat"}
InfoChanged == {"MyINFO", "FirstMyINFO"}
PythonAnswers(h) == {"pass", "discard"} \cup (IF h \in ChatChanged \cup InfoChanged THEN {"change"} ELSE {})
Answers(p, h) == IF p = "lua" THEN LuaAnswers(h) ELSE PythonAnswers(h)

\* a script that disconnects the user discards as well
Discards(answer) == answer \in {"discard", "disconnect"}

Waits == hooks # <<>>
InPlugin == IF Waits THEN at > 0 /\ at <= Len(pluginOrder) ELSE FALSE
Plugin == pluginOrder[at]

\* the hub's list of callbacks goes on to the next plugin
CallOne ==
    /\ Waits /\ at < Len(pluginOrder)
    /\ IF at = 0 THEN TRUE ELSE called = (IF Hears(Plugin, Hook) THEN Len(ScriptsOf[Plugin]) ELSE 0)
    /\ at' = at + 1 /\ called' = 0
    /\ given' = text
    /\ pluginSays' = TRUE
    /\ hubHears' = (hubHears /\ pluginSays)
    /\ UNCHANGED <<pluginOrder, who, mayEnter, deleted, link, told, hooks, text, stands, changes>>

\* the plugin calls its next script; a function that the script lacks
\* counts as "pass"
AskScript(answer) ==
    /\ InPlugin /\ Hears(Plugin, Hook) /\ called < Len(ScriptsOf[Plugin])
    /\ answer \in Answers(Plugin, Hook)
    /\ called' = called + 1
    /\ link' = IF answer = "disconnect" THEN "now" ELSE link
    /\ pluginSays' = (answer = "change" \/ (pluginSays /\ ~Discards(answer)))
    /\ stands' = IF answer = "change" THEN stands \ {Plugin}
                 ELSE IF answer = "pass" THEN stands ELSE stands \cup {Plugin}
    /\ UNCHANGED <<pluginOrder, who, mayEnter, deleted, told, hooks, at, given, hubHears>>
    /\ LET script == ScriptsOf[Plugin][called + 1] IN
       IF answer = "change"
       THEN text' = given \cup {script} /\ changes' = changes \cup {script}
       ELSE UNCHANGED <<text, changes>>

-----------------------------------------------------------------------------
(* The hub: what it does when the scripts discard *)

\* only told: the handler goes on whatever they answer
NotAsked == {"Unknown", "CloseConn", "CloseConnEx", "UserLogout", "Supports", "BadPass"}
ClosesNow == {"NewConn", "AnyEx", "ValidateNick", "MyPass", "MyHubURL", "Version", "BotINFO",
              "UserInList", "UserLogin"}
ClosesNice == {"ValidateTag", "FirstMyINFO", "CtmToHub"}

AllAsked == Waits /\ at = Len(pluginOrder)
            /\ (IF at = 0 THEN TRUE
                ELSE called = (IF Hears(Plugin, Hook) THEN Len(ScriptsOf[Plugin]) ELSE 0))
VerdictSlip == pluginSays                         \* a slip: the last plugin decides
Verdict == hubHears /\ pluginSays
GoesOn == Verdict \/ Hook \in NotAsked

NextHook(rest) ==
    /\ hooks' = rest /\ at' = 0 /\ called' = 0 /\ given' = {}
    /\ pluginSays' = TRUE /\ hubHears' = TRUE /\ stands' = {}
    /\ IF rest = <<>> THEN text' = {} /\ changes' = {} ELSE UNCHANGED <<text, changes>>

AfterHook(h) ==                  \* what the handler does once the hook let it
    /\ told' = CASE h = "UserInList" -> "in"
                 [] h = "UserLogin" -> "login"
                 [] h = "UserLogout" -> "out"
                 [] OTHER -> told
    /\ who' = CASE h = "AnyEx" /\ Tail(hooks) = <<"ValidateNick">> -> "named"
                [] h \in {"CloseConnEx", "UserLogout"} /\ Tail(hooks) = <<>> ->
                       IF deleted THEN "gone" ELSE "left"
                [] OTHER -> who
    /\ mayEnter' = ((mayEnter \/ (h = "MyINFO" /\ who = "named")) /\ h # "UserInList")

Treat ==
    /\ AllAsked /\ GoesOn
    /\ AfterHook(Hook)
    /\ link' = IF Hook \in {"CtmToHub", "BadPass"} /\ link = "ok" THEN "nice" ELSE link
    /\ NextHook(Tail(hooks))
    /\ UNCHANGED <<pluginOrder, deleted>>

Discard ==
    /\ AllAsked /\ ~GoesOn
    /\ told' = IF Hook \in {"UserInList", "UserLogin"} THEN "in" ELSE told
    /\ mayEnter' = (mayEnter /\ Hook # "UserInList")
    /\ link' = IF Hook \in ClosesNow THEN "now"
               ELSE IF Hook \in ClosesNice /\ link = "ok" THEN "nice" ELSE link
    /\ NextHook(<<>>)
    /\ UNCHANGED <<pluginOrder, who, deleted>>

\* the handler's own checks in front of a hook that is not the first one
HubRefuses(how) ==
    /\ Waits /\ at = 0 /\ Hook \notin {"Any", "AnyEx", "NewConn", "UserInList", "UserLogin",
                                       "CloseConn", "CloseConnEx", "UserLogout"}
    /\ link' = IF link = "ok" THEN how ELSE link
    /\ NextHook(<<>>)
    /\ UNCHANGED <<pluginOrder, who, mayEnter, deleted, told>>

-----------------------------------------------------------------------------
(* What happens to the connection *)

Handle(list) ==
    /\ hooks = <<>>
    /\ NextHook(list)
    /\ UNCHANGED <<pluginOrder, mayEnter, told>>

Connect ==
    /\ who = "gone" /\ Handle(<<"NewConn">>)
    /\ who' = "new" /\ link' = "ok" /\ deleted' = FALSE

Receive(list) == link = "ok" /\ Handle(list) /\ UNCHANGED <<who, link, deleted>>
ReceiveKey == who = "new" /\ Receive(<<"AnyEx">>)
ReceiveSupports == who = "new" /\ Receive(<<"AnyEx", "Supports">>)
ReceiveLock == who = "new" /\ Receive(<<"AnyEx", "CtmToHub">>)
ReceiveNick == who = "new" /\ Receive(<<"AnyEx", "ValidateNick">>)
ReceiveVersion == who = "named" /\ \E h \in {"Version", "MyHubURL", "BotINFO"} : Receive(<<"Any", h>>)
ReceivePass(good) == who = "named" /\ Receive(IF good THEN <<"Any", "MyPass">> ELSE <<"Any", "MyPass", "BadPass">>)
ReceiveInfo ==
    \/ who = "named" /\ ~mayEnter /\ Receive(<<"Any", "ValidateTag", "FirstMyINFO", "MyINFO">>)
    \/ who = "listed" /\ Receive(<<"Any", "ValidateTag", "MyINFO">>)
ReceiveUnknown == IF who = "new" THEN Receive(<<"AnyEx", "Unknown">>)
                  ELSE who \in {"named", "listed"} /\ Receive(<<"Any", "Unknown">>)
ReceiveChat == who = "listed" /\ Receive(<<"Any", "Chat">>)
ReceiveRelayed(h) == who = "listed" /\ Receive(<<"Any", h>>)
ReceiveCommand(h) == who = "listed" /\ Receive(<<"Any", "HubCommand", h>>)
CommandWithEffect(h) == who = "listed" /\ Receive(<<"Any", "HubCommand", "OperatorCommand", h>>)

\* DoUserLogin: after the first $MyINFO, or when the nick list was sent
EnterList ==
    /\ who = "named" /\ mayEnter /\ link = "ok"
    /\ Handle(<<"UserInList", "UserLogin">>)
    /\ who' = "listed" /\ UNCHANGED <<link, deleted>>

\* timeouts, kicks and errors
HubCloses(how) ==
    /\ who \in {"new", "named", "listed"} /\ link # "now" /\ hooks = <<>>
    /\ link' = how
    /\ UNCHANGED <<pluginOrder, who, mayEnter, deleted, told, eventVars>>

\* RemoveNick calls OnUserLogout for users in the list only
LogoutOwedSlip == <<>>                               \* a slip: it is forgotten
LogoutOwed == IF who = "listed" THEN <<"UserLogout">> ELSE <<>>

\* VerifyUniqueNick: the same user is back on another connection
TakenOver ==
    /\ who = "listed" /\ Handle(LogoutOwed)
    /\ link' = IF link = "ok" THEN "nice" ELSE link
    /\ UNCHANGED <<who, deleted>>

\* DeleteConn; the user goes with it
Delete ==
    /\ who # "gone" /\ link # "ok" /\ hooks = <<>>
    /\ NextHook(<<"CloseConn", "CloseConnEx">> \o LogoutOwed)
    /\ mayEnter' = FALSE /\ deleted' = TRUE
    /\ UNCHANGED <<pluginOrder, who, link, told>>

-----------------------------------------------------------------------------
HooksInit ==
    /\ pluginOrder \in {<<"lua", "python">>, <<"python", "lua">>}
    /\ who = "gone" /\ mayEnter = FALSE /\ deleted = TRUE /\ link = "now" /\ told = "out"
    /\ hooks = <<>> /\ at = 0 /\ called = 0 /\ given = {} /\ text = {}
    /\ pluginSays = TRUE /\ hubHears = TRUE /\ stands = {} /\ changes = {}

Incoming ==
    \/ Connect
    \/ ReceiveKey
    \/ ReceiveSupports
    \/ ReceiveLock
    \/ ReceiveNick
    \/ ReceiveVersion
    \/ \E good \in BOOLEAN : ReceivePass(good)
    \/ ReceiveInfo
    \/ ReceiveUnknown
    \/ ReceiveChat
    \/ \E h \in Relays : ReceiveRelayed(h)
    \/ \E h \in {"UserCommand", "OperatorCommand"} : ReceiveCommand(h)
    \/ \E h \in Effects : CommandWithEffect(h)

HooksNext ==
    \/ Incoming
    \/ CallOne
    \/ \E answer \in {"pass", "discard", "disconnect", "change"} : AskScript(answer)
    \/ Treat
    \/ Discard
    \/ \E how \in {"ok", "nice", "now"} : HubRefuses(how)
    \/ EnterList
    \/ \E how \in {"nice", "now"} : HubCloses(how)
    \/ TakenOver
    \/ Delete

HooksSpec == HooksInit /\ [][HooksNext]_hooksVars
-----------------------------------------------------------------------------
HooksTypeOK ==
    /\ who \in {"gone", "new", "named", "listed", "left"} /\ link \in {"ok", "nice", "now"}
    /\ told \in {"out", "in", "login"} /\ mayEnter \in BOOLEAN /\ deleted \in BOOLEAN
    /\ at \in 0 .. Len(pluginOrder) /\ called \in Nat
    /\ called <= IF InPlugin THEN Len(ScriptsOf[Plugin]) ELSE 0
    /\ pluginSays \in BOOLEAN /\ hubHears \in BOOLEAN
    /\ text \subseteq changes /\ given \subseteq changes

(***************************************************************************)
(* A message that any script of any plugin discards is not treated, and    *)
(* one of a connection that a script closed is not treated either, unless  *)
(* the hook only tells.  (A Python script that changes the message takes   *)
(* back the discards of the Python scripts before it, not those of Lua.)   *)
(***************************************************************************)
VerdictStands ==
    [][hooks # <<>> /\ Treat /\ Hook \notin NotAsked => stands = {} /\ link # "now"]_hooksVars

(***************************************************************************)
(* What scripts know of a user is true: it is told out before its          *)
(* connection is deleted, and told in as long as it is in the list, but    *)
(* for the time the two hooks themselves run.                              *)
(***************************************************************************)
ToldRight ==
    /\ who = "gone" => told = "out"
    /\ hooks = <<>> => (who = "listed" <=> told \in {"in", "login"})
=============================================================================
