------------------------------- MODULE Console -------------------------------
(***************************************************************************)
(* The operator console: who may give which command and how far it         *)
(* reaches.  Everybody has the class of the session, which commands        *)
(* change while the user is in the hub, and the class of the account,      *)
(* which registration commands change and from which the next session      *)
(* begins.  The commands compare now the one and now the other: !class,    *)
(* !protect, !kick and !hidekick ask for the session class of the target,  *)
(* !reg for the class of its account, !gag for the first there is.         *)
(*                                                                         *)
(* What the commands do to the lists of operators is in HubLogin, rights   *)
(* for a time are in Rights, bans in Bans and !set in Settings.            *)
(***************************************************************************)
EXTENDS Integers, FiniteSets

CONSTANTS
    Folk,               \* nicks
    Ranks,              \* classes commands may give: 1 registered .. 5 admin, 10 master
    Shields,            \* classes from which they may protect
    classdif_reg, classdif_kick,
    autoreg_class, autounreg_class,
    topic_mod_class, mainchat_class,
    disable_usr_cmds, disable_me_cmd, disable_regme_cmd, disable_report_cmd,
    unknown_cmd_chat,
    Bits,               \* width of an address
    SourceOf              \* the address of each nick

ASSUME ConsoleAssumption ==
    /\ Ranks \subseteq 1 .. 10 /\ Shields \subseteq Ranks
    /\ {classdif_reg, classdif_kick, autoreg_class, autounreg_class} \subseteq Nat
    /\ autoreg_class \in 1 .. 3 => autoreg_class \in Ranks
    /\ Bits \in Nat /\ \A n \in 0 .. Bits : 2 ^ n > 0     \* the provers know no powers
    /\ SourceOf \in [Folk -> 0 .. 2 ^ Bits - 1]

Outside == -2
Guest == 0
Vip == 2
OperRank == 3
Cheef == 4
Admin == 5
Master == 10

Texts == {"", "text"}

VARIABLES
    rank,       \* mClass of who is in the hub
    regRow,        \* the account, if there is one
    guard,      \* mProtectFrom of who is in the hub
    gagged,     \* nicks with a penalty that keeps them out of the main chat
    first,      \* how high the classes went at first, and for whom
    chatters,   \* mChatUsers
    hideChat,   \* mHideChat, and hide_chat of the accounts
    opened,     \* who said +chat since the chat was last hidden
    hideKick,   \* mHideKick
    lastMe,     \* who said what is said now
    topic,
    heard,      \* who got the last line that was sent to others
    listed,      \* whom the last query lists
    askedBlock       \* the address block it askedBlock for

ranksVars == <<rank, regRow, guard, gagged>>
talkVars == <<chatters, hideChat, opened, hideKick, lastMe, topic, heard>>
lookVars == <<listed, askedBlock>>
consoleVars == <<ranksVars, talkVars, lookVars, first>>

Inside == {n \in Folk : rank[n] # Outside}
AccountOf(n) == CHOOSE a \in regRow[n] : TRUE
StoredRank(n) == IF regRow[n] = {} THEN Guest ELSE AccountOf(n).class
High(n) == IF rank[n] > StoredRank(n) THEN rank[n] ELSE StoredRank(n)
-----------------------------------------------------------------------------
(* Which commands are there for whom.                                       *)

\* a case of one class falls through to those below it
OpCommand(class) ==
    UNION {IF class >= OperRank
             THEN {"topic", "get", "help", "hideme", "hidekick", "reg", "who", "kick", "bc",
                   "ban", "hubinfo", "trigger", "getconfig", "raw", "clean"} ELSE {},
           IF class >= Cheef THEN {"class", "protect", "ccbc"} ELSE {},
           IF class >= Admin THEN {"userlimit", "reload"} ELSE {},
           IF class = Master THEN {"quit", "restart", "hublist", "update"} ELSE {}}

UsrCommand(class) ==
    CASE class >= Guest -> {"passwd", "help", "myinfo", "me", "regme", "unregme", "chat",
                            "nochat", "info", "kick", "report"}
      [] OTHER -> {"report"}

\* with the prefix for operators the commands of users are tried after theirs
ParseForCommands(c, word) ==
    /\ c \in Inside
    /\ \/ word \in OpCommand(rank[c])
       \/ ~disable_usr_cmds /\ word \in UsrCommand(rank[c])
-----------------------------------------------------------------------------
(* Classes and protection.                                                  *)

Recognised(n) == regRow[n] # {} /\ ~AccountOf(n).repass    \* Register() leaves who must set a password

Enter(n) ==
    /\ rank[n] = Outside
    /\ rank' = [rank EXCEPT ![n] = IF Recognised(n) THEN AccountOf(n).class ELSE Guest]
    /\ guard' = [guard EXCEPT ![n] = IF Recognised(n) THEN AccountOf(n).protect ELSE 0]
    /\ UNCHANGED <<regRow, gagged>>

Dropped(n) ==
    /\ rank' = [rank EXCEPT ![n] = Outside]
    /\ guard' = [guard EXCEPT ![n] = 0]

LeavesInside(n) == n \in Inside /\ Dropped(n) /\ UNCHANGED <<regRow, gagged>>

\* the highest class a commander of class r may lend
MaxAllowedSlip(r) == IF r > Admin THEN Admin ELSE r
MaxAllowed(r) == IF r > Admin THEN Admin ELSE r - 1

CmdClass(c, n, k) ==
    /\ ParseForCommands(c, "class")
    /\ Guest <= k /\ k <= MaxAllowed(rank[c])
    /\ n \in Inside /\ rank[n] < rank[c]
    /\ rank' = [rank EXCEPT ![n] = k]
    /\ UNCHANGED <<regRow, guard, gagged>>

CmdProtect(c, n, k) ==
    /\ ParseForCommands(c, "protect")
    /\ k <= Admin /\ k < rank[c]
    /\ n \in Inside /\ rank[n] < rank[c]
    /\ guard' = [guard EXCEPT ![n] = k]
    /\ UNCHANGED <<rank, regRow, gagged>>

\* who may touch the account of n, or give class k; a master may do everything
Above(c, k) == rank[c] >= k + classdif_reg
Manages(c, n) ==
    /\ ParseForCommands(c, "reg") /\ regRow[n] # {}
    /\ rank[c] = Master \/ (Above(c, AccountOf(n).class) /\ rank[c] >= AccountOf(n).protect)
Gives(c, k) == rank[c] = Master \/ Above(c, k)

WhenIn(n, f, value) == IF n \in Inside THEN [f EXCEPT ![n] = value] ELSE f

RegNew(c, n, k) ==
    /\ ParseForCommands(c, "reg") /\ regRow[n] = {} /\ Gives(c, k)
    /\ \E withPass \in BOOLEAN :
         regRow' = [regRow EXCEPT ![n] = {[class |-> k, protect |-> 0, repass |-> ~withPass]}]
    /\ rank' = WhenIn(n, rank, k)
    /\ UNCHANGED <<guard, gagged>>

RegDel(c, n) ==
    /\ Manages(c, n)
    /\ regRow' = [regRow EXCEPT ![n] = {}]
    /\ rank' = WhenIn(n, rank, Guest)
    /\ UNCHANGED <<guard, gagged>>

\* the session is changed before the table is, which may fail
SetVar(n, field, value) ==
    regRow' \in {regRow, [regRow EXCEPT ![n] = {[AccountOf(n) EXCEPT ![field] = value]}]}

RegClass(c, n, k) ==
    /\ Manages(c, n) /\ Gives(c, k)
    /\ SetVar(n, "class", k)
    /\ rank' = WhenIn(n, rank, k)
    /\ UNCHANGED <<guard, gagged>>

RegProtect(c, n, k) ==
    /\ Manages(c, n) /\ (rank[c] = Master \/ rank[c] > k)
    /\ SetVar(n, "protect", k)
    /\ guard' = WhenIn(n, guard, k)
    /\ UNCHANGED <<rank, gagged>>

\* any field and value, and the session does not follow
RegSet(c, n, k) ==
    /\ Manages(c, n) /\ rank[c] >= Admin
    /\ SetVar(n, "protect", k)
    /\ UNCHANGED <<rank, guard, gagged>>

RegPass(c, n) ==
    /\ Manages(c, n)
    /\ SetVar(n, "repass", TRUE)
    /\ UNCHANGED <<rank, guard, gagged>>

CmdRegMe(c) ==
    /\ ParseForCommands(c, "regme") /\ ~disable_regme_cmd
    /\ autoreg_class \in 1 .. OperRank /\ regRow[c] = {}
    /\ regRow' = [regRow EXCEPT ![c] = {[class |-> autoreg_class, protect |-> 0, repass |-> FALSE]}]
    /\ rank' = [rank EXCEPT ![c] = autoreg_class]
    /\ UNCHANGED <<guard, gagged>>

CmdUnRegMe(c) ==
    /\ ParseForCommands(c, "unregme") /\ ~disable_regme_cmd /\ autoreg_class <= OperRank
    /\ regRow[c] # {} /\ AccountOf(c).class <= autounreg_class
    /\ regRow' = [regRow EXCEPT ![c] = {}]
    /\ rank' = [rank EXCEPT ![c] = Guest]
    /\ UNCHANGED <<guard, gagged>>

\* the session takes the class of the account again, a lent one is lost
CmdRegMyPasswd(c) ==
    /\ ParseForCommands(c, "passwd")
    /\ regRow[c] # {} /\ AccountOf(c).repass
    /\ regRow' = [regRow EXCEPT ![c] = {[AccountOf(c) EXCEPT !.repass = FALSE]}]
    /\ rank' = [rank EXCEPT ![c] = AccountOf(c).class]
    /\ UNCHANGED <<guard, gagged>>

MayKick(c, class) ==
    /\ ParseForCommands(c, "kick") /\ rank[c] >= Vip
    /\ class + classdif_kick <= rank[c]

\* !kick and !drop: the plugins may keep the user
DCKickNick(c, n) ==
    /\ c # n /\ n \in Inside /\ MayKick(c, rank[n])
    /\ guard[n] < rank[c]
    /\ Dropped(n)
    /\ UNCHANGED <<regRow, gagged>>

\* vipgag and vipungag, also of who is away
KickGag(c, n, on) ==
    /\ MayKick(c, IF n \in Inside THEN rank[n] ELSE StoredRank(n))
    /\ gagged' = IF on THEN gagged \cup {n} ELSE gagged \ {n}
    /\ UNCHANGED <<rank, regRow, guard>>

\* !ban, unban, info and list: a ban does not look at the class of whom it drops
cfBan(c, n, what) ==
    /\ ParseForCommands(c, "ban") /\ n \in Inside
    /\ IF what = "ban" THEN Dropped(n) ELSE UNCHANGED <<rank, guard>>
    /\ UNCHANGED <<regRow, gagged>>

RankSteps ==
    /\ UNCHANGED <<talkVars, lookVars, first>>
    /\ \E c \in Folk :
         \/ Enter(c) \/ LeavesInside(c)
         \/ CmdRegMe(c) \/ CmdUnRegMe(c) \/ CmdRegMyPasswd(c)
         \/ \E n \in Folk, k \in Ranks : CmdClass(c, n, k) \/ RegNew(c, n, k) \/ RegClass(c, n, k)
         \/ \E n \in Folk, k \in Shields :
              CmdProtect(c, n, k) \/ RegProtect(c, n, k) \/ RegSet(c, n, k)
         \/ \E n \in Folk : RegDel(c, n) \/ RegPass(c, n) \/ DCKickNick(c, n) \/ cfBan(c, n, "ban")
-----------------------------------------------------------------------------
(* Talk: what commands do to who hears what.                                *)

Says(c, word) == ParseForCommands(c, word) /\ UNCHANGED <<regRow, gagged, first, lookVars>>
Silent == UNCHANGED <<rank, guard>>

\* the session takes over what the account hides
EnterTalk(n) ==
    /\ Enter(n)
    /\ chatters' = IF n \in hideChat /\ Recognised(n) THEN chatters ELSE chatters \cup {n}
    /\ hideKick' = hideKick \ {n}
    /\ opened' = opened \ {n}
    /\ lastMe' = lastMe \ {n}
    /\ UNCHANGED <<hideChat, topic, heard, lookVars, first>>

QuitTalk(n) ==
    /\ LeavesInside(n)
    /\ chatters' = chatters \ {n}
    /\ opened' = opened \ {n}
    /\ UNCHANGED <<hideChat, hideKick, lastMe, topic, heard, lookVars, first>>

\* +chat and +nochat do not touch mHideChat
CmdChat(c) ==
    /\ Says(c, "chat") /\ Silent
    /\ chatters' = chatters \cup {c}
    /\ opened' = opened \cup {c}
    /\ UNCHANGED <<hideChat, hideKick, lastMe, topic, heard>>

CmdNoChat(c) ==
    /\ Says(c, "nochat") /\ Silent
    /\ chatters' = chatters \ {c}
    /\ opened' = opened \ {c}
    /\ UNCHANGED <<hideChat, hideKick, lastMe, topic, heard>>

\* !regset hide_chat: of who is in the hub at once, if it changes
Hidden(n) == /\ hideChat' = hideChat \cup {n} /\ opened' = opened \ {n}
             /\ chatters' = chatters \ {n}
SetHideChat(c, n) ==
    /\ Says(c, "reg") /\ Manages(c, n) /\ rank[c] >= Admin /\ Silent
    /\ \/ n \notin hideChat /\ Hidden(n)
       \/ /\ n \in hideChat
          /\ hideChat' = hideChat \ {n}
          /\ chatters' = chatters \cup ({n} \cap Inside)
          /\ UNCHANGED opened
    /\ UNCHANGED <<hideKick, lastMe, topic, heard>>

CmdHideKick(c, n, on) ==
    /\ Says(c, "hidekick") /\ Silent
    /\ n \in Inside /\ rank[n] < rank[c]
    /\ hideKick' = IF on THEN hideKick \cup {n} ELSE hideKick \ {n}
    /\ UNCHANGED <<chatters, hideChat, opened, lastMe, topic, heard>>

\* everybody sees it, also those who have switched the chat off
CmdMe(c) ==
    /\ Says(c, "me") /\ Silent /\ ~disable_me_cmd
    /\ rank[c] >= mainchat_class /\ c \notin gagged
    /\ rank[c] < OperRank => c \notin lastMe        \* not the same twice
    /\ lastMe' = lastMe \cup {c}
    /\ heard' \in {heard, Inside}                   \* CheckChatMsg may refuse it
    /\ UNCHANGED <<chatters, hideChat, opened, hideKick, topic>>

\* something else is said in the chat
Chatted(c) ==
    /\ c \in Inside /\ Silent /\ UNCHANGED <<regRow, gagged, first, lookVars>>
    /\ rank[c] >= mainchat_class /\ c \notin gagged
    /\ lastMe' = lastMe \ {c}
    /\ heard' = chatters
    /\ UNCHANGED <<chatters, hideChat, opened, hideKick, topic>>

ChangeTopic(c, t) ==
    /\ Says(c, "topic") /\ Silent
    /\ rank[c] >= topic_mod_class
    /\ topic' \in {topic, t}                    \* a plugin may block it
    /\ heard' = IF topic' = t THEN Inside ELSE heard
    /\ UNCHANGED <<chatters, hideChat, opened, hideKick, lastMe>>

\* to one, or to everybody whatever the command askedBlock for
CmdRaw(c, n) ==
    /\ Says(c, "raw") /\ rank[c] >= Admin /\ Silent
    /\ heard' \in {{n} \cap Inside, Inside}
    /\ UNCHANGED <<chatters, hideChat, opened, hideKick, lastMe, topic>>

CmdReport(c) ==
    /\ Says(c, "report") /\ ~disable_report_cmd /\ Silent
    /\ heard' = {n \in Inside : rank[n] >= OperRank}    \* by the room of operators
    /\ UNCHANGED <<chatters, hideChat, opened, hideKick, lastMe, topic>>

CmdCCBroadcast(c) ==
    /\ Says(c, "ccbc") /\ Silent
    /\ heard' \in SUBSET Inside                 \* whose zones they are
    /\ UNCHANGED <<chatters, hideChat, opened, hideKick, lastMe, topic>>

\* answers to who asks
Answered(c, word, least) ==
    /\ Says(c, word) /\ Silent /\ rank[c] >= least
    /\ heard' = {c}
    /\ UNCHANGED <<chatters, hideChat, opened, hideKick, lastMe, topic>>
CmdMyInfo(c) == Answered(c, "myinfo", Guest)
CmdUInfo(c) == Answered(c, "info", Guest)
cfInfo(c) == Answered(c, "hubinfo", Admin)
cfTrigger(c) == Answered(c, "trigger", Master)
cfGetConfig(c) == Answered(c, "getconfig", Admin)

\* the raw line of a kick: a hidden one to nobody, any other to everybody
KickSeen(c, n) ==
    /\ DCKickNick(c, n)
    /\ heard' = IF c \in hideKick THEN heard ELSE Inside
    /\ chatters' = chatters \ {n}
    /\ opened' = opened \ {n}
    /\ UNCHANGED <<hideChat, hideKick, lastMe, topic, lookVars, first>>

\* a gag is told to everybody
GagSeen(c, n, on) ==
    /\ KickGag(c, n, on)
    /\ heard' = IF n \in Inside THEN Inside ELSE heard
    /\ UNCHANGED <<chatters, hideChat, opened, hideKick, lastMe, topic, lookVars, first>>

\* an unknown command is told to its author, or goes to the chat
UnknownCommand(c) == unknown_cmd_chat /\ Chatted(c)

TalkSteps ==
    \E c \in Folk :
      \/ EnterTalk(c) \/ QuitTalk(c)
      \/ CmdChat(c) \/ CmdNoChat(c) \/ CmdMe(c) \/ Chatted(c) \/ UnknownCommand(c)
      \/ CmdReport(c) \/ CmdCCBroadcast(c)
      \/ CmdMyInfo(c) \/ CmdUInfo(c) \/ cfInfo(c) \/ cfTrigger(c) \/ cfGetConfig(c)
      \/ \E t \in Texts : ChangeTopic(c, t)
      \/ \E n \in Folk :
           \/ SetHideChat(c, n) \/ CmdRaw(c, n) \/ KickSeen(c, n)
           \/ GagSeen(c, n, TRUE) \/ GagSeen(c, n, FALSE)
           \/ CmdHideKick(c, n, TRUE) \/ CmdHideKick(c, n, FALSE)
-----------------------------------------------------------------------------
(* Queries.                                                                 *)

AddressSpace == 0 .. 2 ^ Bits - 1

(***************************************************************************)
(* a/p, the block of addresses that begin with the first p bits of a.  The *)
(* mask is shifted by Bits - p; when p is 0 the machine may shift by       *)
(* nothing instead of shifting everything out, and the block is then all   *)
(* that is not below a.                                                    *)
(***************************************************************************)
Size(p) == 2 ^ (Bits - p)
GetIPRange(a, p) ==
    IF p > 0 THEN {[from |-> a - (a % Size(p)), to |-> a - (a % Size(p)) + Size(p) - 1]}
    ELSE {[from |-> 0, to |-> 2 ^ Bits - 1], [from |-> a, to |-> a + 2 ^ Bits - 1]}

WhoIP(from, to) == {n \in Inside : from <= SourceOf[n] /\ SourceOf[n] <= to}

AsksWho(c) == ParseForCommands(c, "who") /\ UNCHANGED <<ranksVars, talkVars, first>>

\* !whorange, and !whoip for a block of one
Whorange(c, a, p) ==
    /\ AsksWho(c)
    /\ \E b \in GetIPRange(a, p) : listed' = WhoIP(b.from, b.to)
    /\ askedBlock' = {<<a, p>>}

\* an interval, which may be empty
Whointerval(c, a, b) ==
    /\ AsksWho(c)
    /\ listed' = WhoIP(a, b)
    /\ askedBlock' = {}

\* by what their clients said: the country, the city, the port, the supports ...
Whosaid(c) ==
    /\ AsksWho(c)
    /\ listed' \in SUBSET Inside
    /\ askedBlock' = {}

CmdGetip(c, nicks) ==
    /\ ParseForCommands(c, "get") /\ UNCHANGED <<ranksVars, talkVars, first>>
    /\ listed' = nicks \cap Inside
    /\ askedBlock' = {}

\* a user comes or goes, and the list that was shown is an old one
LookAgain(n) ==
    /\ Enter(n) \/ LeavesInside(n)
    /\ listed' = {} /\ askedBlock' = {}
    /\ UNCHANGED <<talkVars, first>>

LookSteps ==
    \/ \E n \in Folk : LookAgain(n)
    \/ \E c \in Folk :
         \/ Whosaid(c)
         \/ \E nicks \in SUBSET Folk : CmdGetip(c, nicks)
         \/ \E a \in AddressSpace :
              \/ \E p \in 0 .. Bits : Whorange(c, a, p)
              \/ \E b \in AddressSpace : Whointerval(c, a, b)
-----------------------------------------------------------------------------
Accounts == [class : Ranks, protect : {0}, repass : {FALSE}]

ConsoleInit ==
    /\ regRow \in [Folk -> {{}} \cup {{a} : a \in Accounts}]
    /\ rank = [n \in Folk |-> Outside]
    /\ guard = [n \in Folk |-> 0]
    /\ gagged = {}
    /\ \E top \in {StoredRank(n) : n \in Folk} :
         /\ \A n \in Folk : StoredRank(n) <= top
         /\ first = [top |-> top, who |-> {n \in Folk : StoredRank(n) = top}]
    /\ chatters = {} /\ opened = {} /\ hideKick = {} /\ lastMe = {} /\ heard = {}
    /\ hideChat \in SUBSET {n \in Folk : regRow[n] # {}}
    /\ topic = ""
    /\ listed = {} /\ askedBlock = {}

\* each group of commands with the state of its own; where another group's
\* would have to follow, it stands still
RanksSpec == ConsoleInit /\ [][RankSteps]_consoleVars
TalkSpec == ConsoleInit /\ [][TalkSteps]_consoleVars
LookSpec == ConsoleInit /\ [][LookSteps]_consoleVars
-----------------------------------------------------------------------------
ConsoleTypeOK ==
    /\ rank \in [Folk -> {Outside, Guest} \cup Ranks]
    /\ \A n \in Folk : regRow[n] = {} \/ \E a \in [class : Ranks, protect : {0} \cup Shields, repass : BOOLEAN] : regRow[n] = {a}
    /\ guard \in [Folk -> {0} \cup Shields]
    /\ {gagged, chatters, hideChat, opened, hideKick, lastMe, heard, listed} \subseteq SUBSET Folk
    /\ askedBlock \subseteq AddressSpace \X (0 .. Bits)
    /\ topic \in Texts

(***************************************************************************)
(* No chain of lent classes, registrations, failures of the database and   *)
(* new sessions lifts anybody to the class of the highest who was there at *)
(* first, as long as those are no masters and accounts need a difference   *)
(* of classes.                                                             *)
(***************************************************************************)
RanksHold ==
    (first.top < Master /\ classdif_reg > 0 /\ autoreg_class < first.top)
        => \A n \in Folk : /\ High(n) <= first.top
                           /\ High(n) = first.top => n \in first.who

(* whoever has the chat hidden by an account without a pending password hears it only after +chat *)
ChatKeptHidden == \A n \in chatters \cap hideChat : Recognised(n) => n \in opened

(* a query by a block lists those in the hub whose addresses begin alike *)
BlocksRight ==
    \A q \in askedBlock : q[2] > 0 =>
        listed = {n \in Inside : SourceOf[n] \div 2 ^ (Bits - q[2]) = q[1] \div 2 ^ (Bits - q[2])}

(***************************************************************************)
(* The commands of the console reach as far as they should: in classes, in *)
(* the chat, and in the users they list.                                   *)
(***************************************************************************)
ConsoleRight == RanksHold /\ ChatKeptHidden /\ BlocksRight
=============================================================================
