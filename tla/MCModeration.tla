---------------------------- MODULE MCModeration ----------------------------
(***************************************************************************)
(* Small instances of Rights, of Bans, of Tables, of PluginLists, of       *)
(* Settings (a few variables at a time) and of Console (classes, talk      *)
(* between a master and a user, or queries).  They share no state, so that *)
(* a behaviour runs one of them and leaves the others as they were.        *)
(***************************************************************************)
EXTENDS Rights, Bans, Settings, Tables, PluginLists, Console, TLC

CONSTANTS n1, n2, a1

\* both visitors come from one address and share as much
SameAddress == [n \in {n1, n2} |-> a1]
SameShare == [n \in {n1, n2} |-> 1]

(* nicks of the two robots, one with a character that is replaced, ports, and the others *)
Variables == {"hub_security", "opchat_name", "listen_port", "extra_listen_ports", "max_users",
              "cmd_start_op", "listen_ip", "hub_version", "hub_topic"}
Names == {"Verlihub", "OpChat", "Verli:ub", ""}
Cleaned == [n \in Names |-> IF n = "Verli:ub" THEN "Verlihub" ELSE n]
Defaults == [v \in Variables |->
    CASE v = "hub_security" -> "Verlihub" [] v = "opchat_name" -> "OpChat"
      [] v = "listen_port" -> 1 [] v = "extra_listen_ports" -> {} [] v = "max_users" -> 1
      [] v = "cmd_start_op" -> "!" [] OTHER -> ""]
Tried == [v \in Variables \cup {"pi.setting"} |->
    CASE v \in Special -> Names
      [] v = "listen_port" -> 0 .. 2 [] v = "extra_listen_ports" -> SUBSET {1, 2}
      [] v = "max_users" -> {-1, 1} [] v = "cmd_start_op" -> {"+", ""}
      [] v = "listen_ip" -> {"an address", "no address"} [] OTHER -> {"some text"}]
Together == {Special, Ports, {"max_users", "cmd_start_op", "pi.setting"},
             {"listen_ip", "hub_version", "hub_topic"}}

(* rows of plugman with a dest, and the table's order *)
Dests == "bot" :> "lua" @@ "zed" :> "lua"
PlugOrder == <<"bot", "lua", "py", "zed">>

\* addresses of three bits
Asking == n1 :> 1 @@ n2 :> 6

VARIABLE runs      \* which of them moves, or the variables that are set

TagsSent == {[hubs |-> 1, slots |-> 1, limit |-> -1], [hubs |-> 2, slots |-> 1, limit |-> 1],
             [hubs |-> -1, slots |-> 0, limit |-> 0]}

(* a redirect of one reason, and terms that one of the refused users meets *)
Flags == "v" :> {"kick"} @@ "any" :> {}
TermsOffered == {AnyTerm, [from |-> 1, to |-> 2, lands |-> {"A"}, secure |-> 1, share |-> 1]}
Meeting == [hour |-> 2, land |-> NoLand, secure |-> TRUE, share |-> 1]
UsersRefused == {Meeting, [Meeting EXCEPT !.hour = 0], [Meeting EXCEPT !.land = "B", !.share = 0]}

moderationVars == <<runs, rightsVars, bansVars, settingsVars, tablesVars, listsVars,
                    consoleVars>>
HubVars == <<rightsVars, bansVars, settingsVars, tablesVars>>
OtherVars == <<listsVars, consoleVars>>

RunsRights == runs = {"rights"} /\ UNCHANGED <<runs, bansVars, settingsVars, tablesVars, OtherVars>>
RunsBans   == runs = {"bans"} /\ UNCHANGED <<runs, rightsVars, settingsVars, tablesVars, OtherVars>>
RunsSettings == runs \in Together /\ UNCHANGED <<runs, rightsVars, bansVars, tablesVars, OtherVars>>
RunsTables == runs = {"tables"} /\ UNCHANGED <<runs, rightsVars, bansVars, settingsVars, OtherVars>>
RunsPlugin(name) == runs = {name} /\ UNCHANGED <<runs, HubVars, consoleVars>>
RunsConsole(part) == runs = {part} /\ UNCHANGED <<runs, HubVars, listsVars>>

ModerationInit ==
    /\ runs \in {{"rights"}, {"bans"}, {"tables"}, {"isp"}, {"words"}, {"plugs"},
               {"ranks"}, {"talk"}, {"look"}} \cup Together
    /\ RightsInit /\ BansInit /\ SettingsInit /\ TablesInit /\ ListsInit
    /\ ConsoleInit
    /\ runs # {"tables"} => list = "triggers"
    /\ runs # {"rights"} => cacheOn          \* one state of what does not move
    /\ runs # {"talk"} => hideChat = {}
    /\ runs = {"ranks"} => StoredRank(n1) \in {Cheef, Master} /\ StoredRank(n2) < StoredRank(n1)
    /\ runs = {"talk"} => StoredRank(n1) = Master /\ StoredRank(n2) = 1
    /\ runs \notin {{"ranks"}, {"talk"}} => \A n \in Folk : StoredRank(n) = OperRank
ModerationNext ==
    \/ RunsRights /\ RightsNext
    \/ RunsBans /\ BansNext
    \/ RunsTables /\ TablesNext
    \/ RunsPlugin("isp") /\ IspSteps
    \/ RunsPlugin("words") /\ WordSteps
    \/ RunsPlugin("plugs") /\ PlugSteps
    \/ RunsConsole("ranks") /\ RankSteps
    \/ RunsConsole("talk") /\ TalkSteps
    \/ RunsConsole("look") /\ LookSteps
    \/ RunsSettings /\ (Changes(runs) \/ OtherChanges)
    \/ RunsSettings /\ runs = Special /\ UserMoves

ModerationSpec == ModerationInit /\ [][ModerationNext]_moderationVars

ModerationTypeOK == RightsTypeOK /\ BansTypeOK /\ SettingsTypeOK /\ TablesTypeOK /\ ListsTypeOK
                    /\ ConsoleTypeOK

(***************************************************************************)
(* What the hub keeps in memory of a table is what the table has: of the   *)
(* hub's own tables and of those of the bundled plugins                    *)
(* (tmysqlmemorylist.h, cisps.cpp, cplugs.cpp).                            *)
(***************************************************************************)
CopiesRight == TablesRight /\ ListsRight
=============================================================================
