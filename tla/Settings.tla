------------------------------ MODULE Settings ------------------------------
(***************************************************************************)
(* The configuration of the hub: the variables in memory (cDCConf), their  *)
(* rows in the table SetupList, and the two robots of the hub, which are   *)
(* named after two of the variables.  A change is tried on the variable,   *)
(* shown to the plugins, checked, followed in the user list, and last      *)
(* written: the row is deleted and inserted again, and nobody looks        *)
(* whether that worked.                                                    *)
(***************************************************************************)
EXTENDS Integers, FiniteSets

CONSTANTS
    Items,          \* variables of the main file that are set
    Foreign,        \* variables of other files, which have a row only
    Offered,        \* variable -> values somebody may try to give it
    DefaultOf,      \* variable -> its default
    Nicks2,         \* nicks of users and robots, "" is none of them
    Clean,          \* RepBadNickChars: nick -> nick with one of each bad character replaced
    Width,          \* bits of an unsigned
    Absent          \* there is no row

Special == {"hub_security", "opchat_name"}
Ports == {"listen_port", "extra_listen_ports"}
ASSUME SettingsAssumption ==
    /\ Special \cup Ports \cup {"hub_topic"} \subseteq Items /\ Items \cap Foreign = {} /\ Width \in Nat
    /\ "" \notin Nicks2
    /\ \A v \in Special : \A n \in Offered[v] \cup Nicks2 \cup {""} :
         Clean[n] \in Nicks2 \cup {""} /\ (Clean[n] = "" <=> n = "")
    /\ DefaultOf["hub_security"] \in Nicks2 /\ DefaultOf["opchat_name"] \in Nicks2 \cup {""}
    /\ DefaultOf["listen_port"] \notin DefaultOf["extra_listen_ports"]
    /\ "max_users" \in Items /\ Offered["max_users"] \subseteq Int
    /\ DefaultOf["max_users"] \in 0 .. 2 ^ Width - 1 /\ 2 ^ Width \in Nat \ {0}   \* the provers know no powers
    /\ \A v \in Ports : \A x \in Offered[v] : x # Absent

VARIABLES
    running,        \* between the end of the constructor and a crash
    conf,           \* mC
    stored,         \* the table SetupList
    robotOf,        \* "hub": mHubSec, "chat": mOpChat -> [nick, key], or Gone
    at,             \* mUserList: nick whose hash is the key -> who is there
    unsaved2,       \* history: variables whose last change did not reach the table
    failed,         \* history: ports and hub_security, if any change did not
    pushedOut       \* history: did the robot of the hub lose its place to the room

robots == <<robotOf, at, pushedOut>>
settingsVars == <<running, conf, stored, robots, unsaved2, failed>>

Gone == [nick |-> "", key |-> ""]
NoOneAt == "none"
Empty == [n \in Nicks2 |-> NoOneAt]

-----------------------------------------------------------------------------
(* The check of a new value *)

Unsigned(x) == x % 2 ^ Width

\* ConvertFrom and ConvertTo, and the characters a robot may not have
Kept2(v, given) ==
    IF v \in Special THEN Clean[given]
    ELSE IF v = "max_users" THEN Unsigned(given) ELSE given

\* what a row is read as
Read(v, value) ==
    IF v = "cmd_start_op" /\ value = "" THEN DefaultOf[v] ELSE Kept2(v, value)

\* the ports other than the one that is set
BadPort(port, extra) == port = 0 \/ port \in extra

Refused(v, new, byUser) ==
    \/ v = "hub_version" /\ byUser
    \/ /\ new # conf[v]
       /\ \/ v = "hub_security" /\ new \in {"", conf["opchat_name"]}
          \/ v = "opchat_name" /\ new = conf["hub_security"]
          \/ v = "cmd_start_op" /\ new = ""
          \/ v = "listen_port" /\ BadPort(new, conf["extra_listen_ports"])
          \/ v = "extra_listen_ports" /\ conf["listen_port"] \in new
          \/ v = "listen_ip" /\ new = "no address"

-----------------------------------------------------------------------------
(* The robots of the hub in the user list.  The key of a robot is the hash *)
(* of the nick it was made with, and stays what it is.                     *)

\* AddRobot: nothing happens when the place is taken
AddedAt(list, who, key) == IF list[key] = NoOneAt THEN [list EXCEPT ![key] = who] ELSE list

\* DelRobot takes away whoever has the place of the robot
RemovedAt(list, key) == [list EXCEPT ![key] = NoOneAt]
PushesHub(who) == who # "hub" /\ at[robotOf[who].key] = "hub"

Renamed(who, new) ==
    /\ robotOf' = [robotOf EXCEPT ![who].nick = new]
    /\ at' = AddedAt(RemovedAt(at, robotOf[who].key), who, robotOf[who].key)
    /\ pushedOut' = (pushedOut \/ PushesHub(who))

\* a slip: the room is deleted while the list still points to it
CloseRoomSlip == robotOf' = [robotOf EXCEPT !["chat"] = Gone] /\ UNCHANGED <<at, pushedOut>>
CloseRoom ==
    /\ robotOf' = [robotOf EXCEPT !["chat"] = Gone]
    /\ IF robotOf["chat"] = Gone THEN UNCHANGED <<at, pushedOut>>
       ELSE /\ at' = RemovedAt(at, robotOf["chat"].key)
            /\ pushedOut' = (pushedOut \/ PushesHub("chat"))

OpenRoom(new) ==
    /\ robotOf' = [robotOf EXCEPT !["chat"] = [nick |-> new, key |-> new]]
    /\ at' = AddedAt(at, "chat", new)
    /\ UNCHANGED pushedOut

\* "take care of special hub configs in real time"
Followed(v, new) ==
    IF v \notin Special \/ new = conf[v] THEN UNCHANGED robots
    ELSE IF v = "hub_security" THEN Renamed("hub", new)
    ELSE IF new = "" THEN CloseRoom
    ELSE IF robotOf["chat"] = Gone THEN OpenRoom(new)
    ELSE Renamed("chat", new)

-----------------------------------------------------------------------------
(* Writing: delete the row, insert ignore *)

Outcomes == {"written", "deleted only", "refused"}

Written(rows, v, value, outcome) ==
    CASE outcome = "written" -> [rows EXCEPT ![v] = value]
      [] outcome = "deleted only" -> [rows EXCEPT ![v] = Absent]
      [] outcome = "refused" -> rows          \* neither worked: the old row stays

NotedFor(v, outcome) == IF outcome = "written" THEN unsaved2 \ {v} ELSE unsaved2 \cup {v}

\* the value that was tried goes back to the one that was there
TakenBack(v, new) == conf

Doubted(v) == {v} \cap (Ports \cup {"hub_security"})

\* SetConfig for a variable of the main file
SetConfig(v, given, byUser, vetoed, outcome) ==
    LET new == Kept2(v, given) IN
    /\ running
    /\ IF vetoed \/ Refused(v, new, byUser)
       THEN /\ conf' = TakenBack(v, new)
            /\ UNCHANGED <<stored, robots, unsaved2, failed>>
       ELSE /\ conf' = [conf EXCEPT ![v] = new]
            /\ Followed(v, new)
            /\ stored' = Written(stored, v, new, outcome)
            /\ unsaved2' = NotedFor(v, outcome)
            /\ failed' = IF outcome = "written" THEN failed ELSE failed \cup Doubted(v)
    /\ UNCHANGED running

\* SetConfig for another file: it is only written
SetForeign(v, value, vetoed, outcome) ==
    /\ running
    /\ stored' = IF vetoed THEN stored ELSE Written(stored, v, value, outcome)
    /\ UNCHANGED <<running, conf, robots, unsaved2, failed>>

\* !set asks for an administrator; the texts say "blocked by a plugin" for a
\* value that is not allowed, too
cfSetVar(class, v, given, vetoed, outcome) ==
    class >= 5 /\ (\/ v \in Items /\ SetConfig(v, given, TRUE, vetoed, outcome)
                   \/ v \in Foreign /\ SetForeign(v, given, vetoed, outcome))

\* !topic sets hub_topic, for other classes than !set
CmdTopic(class, mayTopic, topic, vetoed, outcome) ==
    class >= mayTopic /\ SetConfig("hub_topic", topic, TRUE, vetoed, outcome)

\* what !getconf and scripts see, and what !getvar sees
GetConfig(v) == IF v \in Items THEN conf[v] ELSE stored[v]
GetVar(v) == stored[v]

-----------------------------------------------------------------------------
\* mC.Load: rows go over variables, a variable without a row stays, and no
\* robot is renamed; nothing is read if the query fails
AsLoaded(now, rows) ==
    [v \in Items |-> IF rows[v] = Absent THEN now[v] ELSE Read(v, rows[v])]
ReloadConfig(queryWorks) ==
    /\ running /\ queryWorks
    /\ conf' = AsLoaded(conf, stored)
    /\ UNCHANGED <<running, stored, robots, unsaved2, failed>>

\* the hub ends, between the two queries of a write or not; the next
\* constructor runs AddVars
HubEnds ==
    /\ running /\ running' = FALSE
    /\ conf' = [v \in Items |-> DefaultOf[v]]
    /\ robotOf' = [who \in {"hub", "chat"} |-> Gone] /\ at' = Empty /\ pushedOut' = FALSE
Crash == HubEnds /\ UNCHANGED <<stored, unsaved2, failed>>
CrashInWrite(v) ==
    /\ HubEnds
    /\ stored' = [stored EXCEPT ![v] = Absent]
    /\ failed' = failed \cup Doubted(v)
    /\ UNCHANGED unsaved2

\* the rest of the constructor: Save, Load, and the robots; a room with the
\* nick of the other robot is given up
Filled == [v \in DOMAIN stored |-> IF v \in Items /\ stored[v] = Absent THEN DefaultOf[v] ELSE stored[v]]
Start(insertsWork) ==
    LET rows == IF insertsWork THEN Filled ELSE stored
        read == AsLoaded(conf, rows)
        hub == read["hub_security"]
        twice == hub = read["opchat_name"]
        chat == IF twice THEN "" ELSE read["opchat_name"]
    IN  /\ ~running /\ running' = TRUE
        /\ conf' = [read EXCEPT !["opchat_name"] = chat]
        /\ stored' = IF twice THEN [rows EXCEPT !["opchat_name"] = IF insertsWork THEN "" ELSE Absent]
                  ELSE rows
        /\ robotOf' = [hub |-> [nick |-> hub, key |-> hub], chat |-> [nick |-> chat, key |-> chat]]
        /\ at' = [n \in Nicks2 |-> CASE n = hub -> "hub" [] n = chat -> "chat"
                                     [] OTHER -> NoOneAt]
        /\ unsaved2' = {v \in Items : stored'[v] = Absent}
        /\ failed' = failed \ Special            \* the robots follow again
        /\ UNCHANGED pushedOut

\* users come under nicks that nobody has in the list, and go
UserComes(n) ==
    /\ running /\ at[n] = NoOneAt /\ at' = [at EXCEPT ![n] = "user"]
    /\ UNCHANGED <<running, conf, stored, robotOf, pushedOut, unsaved2, failed>>
UserGoes(n) ==
    /\ at[n] = "user" /\ at' = [at EXCEPT ![n] = NoOneAt]
    /\ UNCHANGED <<running, conf, stored, robotOf, pushedOut, unsaved2, failed>>

-----------------------------------------------------------------------------
SettingsInit ==
    /\ running = FALSE
    /\ conf = [v \in Items |-> DefaultOf[v]]
    /\ stored = [v \in Items \cup Foreign |-> Absent]
    /\ robotOf = [who \in {"hub", "chat"} |-> Gone] /\ at = Empty
    /\ unsaved2 = {} /\ failed = {} /\ pushedOut = FALSE

\* what is done to the variables of vs
Changes(vs) ==
    \/ \E v \in vs : \E given \in Offered[v] :
         \E class \in {3, 5}, vetoed \in BOOLEAN, outcome \in Outcomes :
            \/ cfSetVar(class, v, given, vetoed, outcome)
            \/ v = "hub_topic" /\ CmdTopic(class, 3, given, vetoed, outcome)
    \/ \E v \in vs \cap Items : CrashInWrite(v)

\* what is done to all of them
OtherChanges ==
    \/ \E queryWorks \in BOOLEAN : ReloadConfig(queryWorks)
    \/ Crash
    \/ \E insertsWork \in BOOLEAN : Start(insertsWork)

UserMoves == \E n \in Nicks2 : UserComes(n) \/ UserGoes(n)

SettingsNext == Changes(Items \cup Foreign) \/ OtherChanges \/ UserMoves

SettingsSpec == SettingsInit /\ [][SettingsNext]_settingsVars

-----------------------------------------------------------------------------
SettingsTypeOK ==
    /\ {running, pushedOut} \subseteq BOOLEAN /\ failed \cup unsaved2 \subseteq Items
    /\ DOMAIN conf = Items /\ DOMAIN stored = Items \cup Foreign
    /\ conf["max_users"] \in 0 .. 2 ^ Width - 1
    /\ robotOf \in [{"hub", "chat"} -> [nick : Nicks2 \cup {""}, key : Nicks2 \cup {""}]]
    /\ at \in [Nicks2 -> {NoOneAt, "user", "hub", "chat"}]

(***************************************************************************)
(* What runs and what is stored agree: a change that a plugin or a check   *)
(* refused leaves no trace, and a variable has the value of its row, or       *)
(* what the row reads as, unless the last write failed.  The ports of the  *)
(* hub stay apart unless a write of one of them failed.                    *)
(***************************************************************************)
SettingsKept ==
    running =>
      /\ \A v \in Items \ unsaved2 : GetConfig(v) \in {GetVar(v), Read(v, GetVar(v))}
      /\ conf["listen_port"] \in conf["extra_listen_ports"] => failed \cap Ports # {}

(***************************************************************************)
(* However the robots of the hub are renamed, opened and closed, in        *)
(* whatever order users come: the list never holds a room that was         *)
(* deleted, a robot is listed once, at the place it was made for, the one  *)
(* of the hub always, unless a room made for the nick the hub once had     *)
(* pushed it out, and hub_security is its nick, or the nick cleaned as     *)
(* often as it was read and set again, unless a write of it failed.        *)
(***************************************************************************)
CleanedFrom(n) ==
    {k \in Nicks2 \cup {""} :
        \A S \in SUBSET (Nicks2 \cup {""}) : n \in S /\ (\A m \in S : Clean[m] \in S) => k \in S}
RobotsOfHub ==
    LET places == [who \in {"hub", "chat"} |-> {n \in Nicks2 : at[n] = who}]
    IN  running =>
          /\ \A who \in {"hub", "chat"} : places[who] \subseteq {robotOf[who].key}
          /\ places["hub"] = {} => pushedOut
          /\ \/ "hub_security" \in failed
             \/ conf["hub_security"] \in CleanedFrom(robotOf["hub"].nick)

(***************************************************************************)
(* What runs, what is stored and the robots that are made of it agree      *)
(* (cServerDC::SetConfig).                                                 *)
(***************************************************************************)
SettingsRight == SettingsKept /\ RobotsOfHub
=============================================================================
