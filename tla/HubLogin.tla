------------------------------ MODULE HubLogin ------------------------------
(***************************************************************************)
(* The life of the client connections of the hub: the NMDC login sequence  *)
(* ($Key, $Supports, $ValidateNick, $Version, $MyPass, $MyINFO), the user  *)
(* lists and the hub-wide counters it maintains, the take-over of a nick   *)
(* by a second connection of the same user, the registration commands that *)
(* reach users who are online, the robots, and the disposal of a           *)
(* connection (src/src/cdcproto.cpp, cserverdc.cpp, cconndc.cpp,           *)
(* cuser.cpp, cdcconsole.cpp).                                             *)
(*                                                                         *)
(* The hub handles one message at a time in one thread, so a handler is    *)
(* one action.  What makes the code hard is that a connection goes through *)
(* several handlers, that a handler of one connection changes another one, *)
(* and that a connection that was told to close stays in every list and    *)
(* counter until the event loop deletes it.                                *)
(***************************************************************************)
EXTENDS Integers, FiniteSets, FiniteSetsExt

CONSTANTS
    Conns,            \* connection objects (cConnDC), used again once deleted
    Nicks,            \* nick hashes
    Addresses,        \* IP addresses
    Zones,            \* values of mGeoZone, 0 .. USER_ZONES
    Shares,           \* share sizes announced in $MyINFO
    Accounts,         \* what the reglist may hold for a nick
    RobotNicks,       \* nicks robots may be added under
    ReservedNicks,    \* mC.opchat_name and mC.hub_security
    Operator,         \* the class of mC.oplist_class, also eUC_OPERATOR
    MaxUsers,         \* mC.max_users_total
    MaxZoneUsers,     \* mC.max_users[zone]
    MaxExtra,         \* mC.max_extra_*, for registered users
    MaxPassive,       \* mC.max_users_passive, -1 is no limit
    AllowSameUser,    \* mC.allow_same_user
    MaxClassSameUser, \* mC.max_class_same_user
    BotInfo,          \* whether clients may announce BotINFO in $Supports
    Vetoes,           \* hooks some plugin may answer with "no"
    AdminOps,         \* registration commands operators use
    NoOne, Robot, NoUser

(* nobody is registered under the nick *)
NoAccount == [class |-> 0, pwdChange |-> FALSE, hideShare |-> FALSE]

ASSUME ConstantsAssumption ==
    /\ IsFiniteSet(Conns)
    /\ Conns # {}
    /\ NoOne \notin Conns /\ Robot \notin Conns /\ NoOne # Robot
    /\ NoUser \notin [nick : Nicks, class : Int, passive : BOOLEAN, share : Int,
                      hide : BOOLEAN, inList : BOOLEAN, setPass : BOOLEAN]
    /\ Accounts \subseteq [class : Int, pwdChange : BOOLEAN, hideShare : BOOLEAN]
    /\ NoAccount \in Accounts
    /\ Zones \subseteq Nat
    /\ Shares \subseteq Nat /\ 0 \in Shares
    /\ Operator \in Nat \ {0}
    /\ MaxUsers \in Nat /\ MaxZoneUsers \in Nat /\ MaxExtra \in Nat
    /\ MaxPassive \in Int
    /\ BotInfo \subseteq BOOLEAN
    /\ RobotNicks \subseteq Nicks

(* tLogStatus; eLS_NICKLST, eLS_BOTINFO and eLS_MYHUBURL take no part in the login *)
LoginDone == {"KEYOK", "VALNICK", "PASSWD", "VERSION", "MYINFO", "ALLOWED", "SUPPORTS"}

(* tTimeOut *)
TimeOuts == {"KEY", "VALNICK", "LOGIN", "MYINFO", "SETPASS"}

(* eUC_PINGER and eUC_REGUSER *)
Pinger == -1
RegUser == 1

(***************************************************************************)
(* A connection is "open" (ok and mWritable), "closing" (CloseNice was     *)
(* called and output is pending), "dead" (CloseNow: not ok, waits for      *)
(* delConnection) or "free" (no such object).                              *)
(***************************************************************************)
VARIABLES
    sock,          \* ok and mWritable
    ip,            \* mAddrIP
    zone,          \* mGeoZone
    flags,         \* mLogStatus
    botInfo,       \* mFeatures & eSF_BOTINFO
    armed,         \* mTO: the timeouts that are set
    reg,           \* mRegInfo: the account as it was when last read
    user,          \* mpUser
    userCountTot,  \* mUserCountTot
    userCount,     \* mUserCount
    totalShare,    \* mTotalShare
    userList,      \* mUserList
    activeUsers,   \* mActiveUsers
    passiveUsers,  \* mPassiveUsers
    opList,        \* mOpList
    robotList,     \* mRobotList
    regDB          \* the reglist table

connVars == <<sock, ip, zone, flags, botInfo, armed, reg, user>>
countVars == <<userCountTot, userCount, totalShare>>
listVars == <<userList, activeUsers, passiveUsers, opList>>
vars == <<connVars, countVars, listVars, robotList, regDB>>

Classes == {a.class : a \in Accounts} \cup {Pinger}

Users == [nick : Nicks, class : Classes, passive : BOOLEAN,
          share : Shares, hide : BOOLEAN, inList : BOOLEAN, setPass : BOOLEAN]

(* Every variable holds a value of the type the code declares for it. *)
TypeOK ==
    /\ sock \in [Conns -> {"free", "open", "closing", "dead"}]
    /\ ip \in [Conns -> Addresses \cup {NoOne}]
    /\ zone \in [Conns -> Zones \cup {-1}]
    /\ flags \in [Conns -> SUBSET LoginDone]
    /\ botInfo \in [Conns -> BOOLEAN]
    /\ armed \in [Conns -> SUBSET TimeOuts]
    /\ reg \in [Conns -> [class : Classes, pwdChange : BOOLEAN,
                          hideShare : BOOLEAN]]
    /\ user \in [Conns -> Users \cup {NoUser}]
    /\ userCountTot \in Int /\ userCount \in [Zones -> Int] /\ totalShare \in Int
    /\ userList \in [Nicks -> Conns \cup {NoOne, Robot}]
    /\ activeUsers \in [Nicks -> Conns \cup {NoOne}]
    /\ passiveUsers \in [Nicks -> Conns \cup {NoOne}]
    /\ opList \in [Nicks -> Conns \cup {NoOne, Robot}]
    /\ robotList \in [Nicks -> BOOLEAN]
    /\ regDB \in [Nicks -> [class : Classes, pwdChange : BOOLEAN,
                            hideShare : BOOLEAN]]

Init ==
    /\ sock = [c \in Conns |-> "free"]
    /\ ip = [c \in Conns |-> NoOne]
    /\ zone = [c \in Conns |-> -1]
    /\ flags = [c \in Conns |-> {}]
    /\ botInfo = [c \in Conns |-> FALSE]
    /\ armed = [c \in Conns |-> {}]
    /\ reg = [c \in Conns |-> NoAccount]
    /\ user = [c \in Conns |-> NoUser]
    /\ userCountTot = 0 /\ userCount = [z \in Zones |-> 0] /\ totalShare = 0
    /\ userList = [n \in Nicks |-> NoOne]
    /\ activeUsers = [n \in Nicks |-> NoOne]
    /\ passiveUsers = [n \in Nicks |-> NoOne]
    /\ opList = [n \in Nicks |-> NoOne]
    /\ robotList = [n \in Nicks |-> FALSE]
    /\ regDB \in [Nicks -> Accounts]
    /\ \A n \in ReservedNicks \cap Nicks : regDB[n] = NoAccount

-----------------------------------------------------------------------------
(* Connections and accounts *)

Open(c) == sock[c] = "open"
HasUser(c) == user[c] # NoUser
Listed(c) == HasUser(c) /\ user[c].inList

(* The definitions named after a slip (CompleteWithoutKey, LimitPassed, StillTaken ...) are not
   used: each is what the definition after it must not be, for checking that the properties
   notice. *)

(* CloseNice: with nothing left to send it is CloseNow; a closed connection stays closed *)
CloseNice(c) == IF sock[c] = "dead" THEN {"dead"} ELSE {"closing", "dead"}

(* Every login step is taken. *)
CompleteWithoutKey(fl) == LoginDone \ {"KEYOK"} \subseteq fl
LoginComplete(fl) == LoginDone \subseteq fl

(* GetTheoricalClass: the class the connection will have once it is logged in *)
TheoricalClass(a, bot) == IF a.class # 0 THEN a.class ELSE IF bot THEN Pinger ELSE 0

(* NeedsPassword, with mC.always_ask_password off *)
NeedsPassword(a) == a.class \notin {0, Pinger} /\ ~ a.pwdChange

-----------------------------------------------------------------------------
(* The user lists *)

(* tHashArray::AddWithHash and RemoveByHash: an entry is never overwritten *)
AddWithHash(list, n, x) == IF list[n] = NoOne THEN [list EXCEPT ![n] = x] ELSE list
RemoveByHash(list, n) == [list EXCEPT ![n] = NoOne]

Size(list) == Cardinality({n \in Nicks : list[n] # NoOne})

(* AddToList puts real users, but not robots, into the list of their mode. *)
AddAnyToMode(list, n, x, mode) == IF mode THEN AddWithHash(list, n, x) ELSE list
AddToMode(list, n, x, mode) == IF x \in Conns /\ mode THEN AddWithHash(list, n, x) ELSE list

(* DC_MyINFO moves a listed user who changed mode from one list into the other. *)
ChangesMode(u, pas) == u.inList /\ u.passive # pas
ActiveAfter(c, pas) ==
    LET n == user[c].nick
    IN  IF ~ ChangesMode(user[c], pas) THEN activeUsers
        ELSE IF pas THEN RemoveByHash(activeUsers, n) ELSE AddWithHash(activeUsers, n, c)
PassiveAfter(c, pas) ==
    LET n == user[c].nick
    IN  IF ~ ChangesMode(user[c], pas) THEN passiveUsers
        ELSE IF pas THEN AddWithHash(passiveUsers, n, c) ELSE RemoveByHash(passiveUsers, n)

(* RemoveNick finds the entry of another user under the nick and gives up. *)
AnyEntryIsMine(c) == FALSE
EntryOfOther(c) == userList[user[c].nick] \notin {NoOne, c}

-----------------------------------------------------------------------------
(* The counters *)

(* ResetGeo: the user moves to another zone *)
EnterZone(count, from, to) == [count EXCEPT ![to] = @ + 1]
MoveZone(count, from, to) == [[count EXCEPT ![from] = @ - 1] EXCEPT ![to] = @ + 1]

(* The limits in DC_ValidateNick; operators are let in regardless. *)
Extra(k) == IF k = 0 THEN 0 ELSE MaxExtra
LimitPassed(k, z) ==
    /\ k < Operator
    /\ \/ userCountTot > MaxUsers + Extra(k)
       \/ userCount[z] > MaxZoneUsers + Extra(k)
LimitReached(k, z) ==
    /\ k < Operator
    /\ \/ userCountTot >= MaxUsers + Extra(k)
       \/ userCount[z] >= MaxZoneUsers + Extra(k)

(* The part of mTotalShare that u stands for, and mTotalShare once u announced sh *)
VisibleShare(u) == IF u.hide THEN 0 ELSE u.share
TotalGrows(u, sh) == IF u.hide THEN totalShare ELSE totalShare + sh
TotalAfter(u, sh) == IF u.hide THEN totalShare ELSE totalShare - u.share + sh

(* DeleteConn gives back what DC_ValidateNick and DC_MyINFO have taken. *)
CountedIfUser(c) == HasUser(c)
Counted(c) == "ALLOWED" \in flags[c]
ShareOfUser(c) == IF HasUser(c) THEN VisibleShare(user[c]) ELSE 0

-----------------------------------------------------------------------------
(* Connecting, closing and the timeouts *)

(* The timeouts of a new connection *)
FirstTimeOuts == {"LOGIN", "KEY"}

(* cConnDC(), OnNewConn: the zone is set once, the key is awaited.  A connection that is
   refused here (plugin, load, temporary ban) leaves no trace. *)
OnNewConn(c, a, z) ==
    /\ sock[c] = "free"
    /\ sock' = [sock EXCEPT ![c] = "open"]
    /\ ip' = [ip EXCEPT ![c] = a]
    /\ zone' = [zone EXCEPT ![c] = z]
    /\ armed' = [armed EXCEPT ![c] = FirstTimeOuts]
    /\ UNCHANGED <<flags, botInfo, reg, user, countVars, listVars, robotList, regDB>>

(* Any handler that only refuses: a message out of sequence, a syntax error, a flood, a kick,
   a wrong password, no user yet (CheckUserLogin), a plugin that says no, the general timeout. *)
Reject(c) ==
    /\ Open(c)
    /\ \E s \in CloseNice(c) : sock' = [sock EXCEPT ![c] = s]
    /\ UNCHANGED <<ip, zone, flags, botInfo, armed, reg, user, countVars, listVars, robotList,
                   regDB>>

(* cConnDC::OnTimer: a timeout that is set has passed *)
OnTimer(c, t) ==
    /\ Open(c)
    /\ t \in armed[c]
    /\ \E s \in CloseNice(c) : sock' = [sock EXCEPT ![c] = s]
    /\ UNCHANGED <<ip, zone, flags, botInfo, armed, reg, user, countVars, listVars, robotList,
                   regDB>>

StillOpen(c) == Open(c)
NotClosed(c) == sock[c] \in {"open", "closing"}

(* The output is flushed, the peer has gone, a read or a write failed, or the buffer is full. *)
CloseNow(c) ==
    /\ NotClosed(c)
    /\ sock' = [sock EXCEPT ![c] = "dead"]
    /\ UNCHANGED <<ip, zone, flags, botInfo, armed, reg, user, countVars, listVars, robotList,
                   regDB>>

(* cDCConnFactory::DeleteConn and the RemoveNick it calls *)
DeleteConn(c) ==
    LET n == user[c].nick
        After(list) == IF HasUser(c) /\ ~ EntryOfOther(c) THEN RemoveByHash(list, n) ELSE list
    IN  /\ sock[c] = "dead"
        /\ IF Counted(c)
           THEN /\ userCountTot' = userCountTot - 1
                /\ userCount' = [userCount EXCEPT ![zone[c]] = @ - 1]
                /\ totalShare' = totalShare - ShareOfUser(c)
           ELSE UNCHANGED countVars
        /\ userList' = After(userList)
        /\ opList' = After(opList)
        /\ activeUsers' = After(activeUsers)
        /\ passiveUsers' = After(passiveUsers)
        /\ sock' = [sock EXCEPT ![c] = "free"]
        /\ ip' = [ip EXCEPT ![c] = NoOne]
        /\ zone' = [zone EXCEPT ![c] = -1]
        /\ flags' = [flags EXCEPT ![c] = {}]
        /\ botInfo' = [botInfo EXCEPT ![c] = FALSE]
        /\ armed' = [armed EXCEPT ![c] = {}]
        /\ reg' = [reg EXCEPT ![c] = NoAccount]
        /\ user' = [user EXCEPT ![c] = NoUser]
        /\ UNCHANGED <<robotList, regDB>>

-----------------------------------------------------------------------------
(* The login messages *)

(* $Key.  The nick is awaited from here on, whether or not it has already come. *)
DC_Key(c) ==
    /\ Open(c)
    /\ "KEYOK" \notin flags[c]
    /\ flags' = [flags EXCEPT ![c] = @ \cup {"KEYOK"}]
    /\ armed' = [armed EXCEPT ![c] = (@ \ {"KEY"}) \cup {"VALNICK"}]
    /\ UNCHANGED <<sock, ip, zone, botInfo, reg, user, countVars, listVars, robotList, regDB>>

DC_Supports(c, bot) ==
    /\ Open(c)
    /\ "SUPPORTS" \notin flags[c]
    /\ flags' = [flags EXCEPT ![c] = @ \cup {"SUPPORTS"}]
    /\ botInfo' = [botInfo EXCEPT ![c] = bot]
    /\ UNCHANGED <<sock, ip, zone, armed, reg, user, countVars, listVars, robotList, regDB>>

DC_Version(c) ==
    /\ Open(c)
    /\ HasUser(c)
    /\ "VERSION" \notin flags[c]
    /\ flags' = [flags EXCEPT ![c] = @ \cup {"VERSION"}]
    /\ UNCHANGED <<sock, ip, zone, botInfo, armed, reg, user, countVars, listVars, robotList,
                   regDB>>

(* eVN_USED in ValidateNick: unregistered users do not share a nick, except from one address. *)
NickUsed(c, n) ==
    /\ regDB[n].class = 0
    /\ userList[n] \in Conns
    /\ ip[userList[n]] # ip[c]

(* cUser::Register: the rights of the account, unless the password has to be set first *)
Registered(u, a) ==
    IF a.class = 0 \/ a.pwdChange THEN u ELSE [u EXCEPT !.class = a.class, !.hide = a.hideShare]

(* new cUser, and the class $ValidateNick gives pingers *)
NewUser(n) == [nick |-> n, class |-> 0, passive |-> TRUE, share |-> 0, hide |-> FALSE,
               inList |-> FALSE, setPass |-> FALSE]
Validated(u, a, bot) ==
    IF a.class = Pinger THEN Registered(u, a)
    ELSE IF bot THEN [u EXCEPT !.class = Pinger] ELSE u

ValidNick(c, n) ==
    /\ Open(c)
    /\ "VALNICK" \notin flags[c]
    /\ ~ NickUsed(c, n)
    /\ ~ LimitReached(TheoricalClass(regDB[n], botInfo[c]), zone[c])

(* $ValidateNick with a bad, banned or used nick, or when the hub is full *)
DC_ValidateNickRefused(c, n) ==
    /\ Open(c)
    /\ "VALNICK" \notin flags[c]
    /\ reg' = [reg EXCEPT ![c] = regDB[n]]
    /\ \E s \in CloseNice(c) : sock' = [sock EXCEPT ![c] = s]
    /\ UNCHANGED <<ip, zone, flags, botInfo, armed, user, countVars, listVars, robotList, regDB>>

(* $ValidateNick that the limits allow, and then max_users_from_ip or the account's
   authorization address refuses: counted, without a user *)
DC_ValidateNickCounted(c, n) ==
    /\ ValidNick(c, n)
    /\ flags' = [flags EXCEPT ![c] = @ \cup {"ALLOWED"}]
    /\ userCountTot' = userCountTot + 1
    /\ userCount' = [userCount EXCEPT ![zone[c]] = @ + 1]
    /\ reg' = [reg EXCEPT ![c] = regDB[n]]
    /\ \E s \in CloseNice(c) : sock' = [sock EXCEPT ![c] = s]
    /\ UNCHANGED <<ip, zone, botInfo, armed, user, totalShare, listVars, robotList, regDB>>

(* The rest of DC_ValidateNick: an account's fake address a in zone z replaces the real one. *)
Admit(c, n, a, z) ==
    /\ ValidNick(c, n)
    /\ regDB[n].class = 0 => a = ip[c] /\ z = zone[c]
    /\ userCountTot' = userCountTot + 1
    /\ userCount' = MoveZone([userCount EXCEPT ![zone[c]] = @ + 1], zone[c], z)
    /\ ip' = [ip EXCEPT ![c] = a]
    /\ zone' = [zone EXCEPT ![c] = z]
    /\ reg' = [reg EXCEPT ![c] = regDB[n]]
    /\ UNCHANGED <<botInfo, totalShare, listVars, robotList, regDB>>

AdmitFlags(n) == {"ALLOWED"} \cup (IF NeedsPassword(regDB[n]) THEN {} ELSE {"PASSWD"})

DC_ValidateNick(c, n, a, z) ==
    /\ Admit(c, n, a, z)
    /\ user' = [user EXCEPT ![c] = Validated(NewUser(n), regDB[n], botInfo[c])]
    /\ flags' = [flags EXCEPT ![c] = @ \cup AdmitFlags(n) \cup {"VALNICK"}]
    /\ armed' = [armed EXCEPT ![c] = (@ \ {"VALNICK"}) \cup {"MYINFO"}]
    /\ UNCHANGED sock

(* mOnParsedMsgValidateNick says no *)
DC_ValidateNickVetoed(c, n, a, z) ==
    /\ "ValidateNick" \in Vetoes
    /\ Admit(c, n, a, z)
    /\ user' = [user EXCEPT ![c] = NewUser(n)]
    /\ flags' = [flags EXCEPT ![c] = @ \cup AdmitFlags(n)]
    /\ sock' = [sock EXCEPT ![c] = "dead"]
    /\ UNCHANGED armed

(* $MyPass with the right password *)
DC_MyPass(c) ==
    /\ Open(c)
    /\ HasUser(c)
    /\ "PASSWD" \notin flags[c]
    /\ ~ user[c].setPass
    /\ reg[c].class # 0
    /\ flags' = [flags EXCEPT ![c] = @ \cup {"PASSWD"}]
    /\ user' = [user EXCEPT ![c] = Registered(user[c], reg[c])]
    /\ UNCHANGED <<sock, ip, zone, botInfo, armed, reg, countVars, listVars, robotList, regDB>>

OpsWhenSet(c, n, k) == IF k >= Operator THEN AddWithHash(opList, n, c) ELSE opList

(* What DC_MyPass and +passwd do for a user whose new password is stored: the class k of the
   account takes effect and the account is read again.  Only DC_MyPass resets mSetPass. *)
PasswordSet(c, k, ask) ==
    LET n == user[c].nick
    IN  /\ regDB[n].class # 0
        /\ regDB' = [regDB EXCEPT ![n].pwdChange = FALSE]
        /\ user' = [user EXCEPT ![c].class = k, ![c].setPass = ask]
        /\ opList' = OpsWhenSet(c, n, k)
        /\ reg' = [reg EXCEPT ![c] = [regDB[n] EXCEPT !.pwdChange = FALSE]]
        /\ armed' = [armed EXCEPT ![c] = @ \ {"SETPASS"}]
        /\ UNCHANGED <<sock, ip, zone, flags, botInfo, countVars, userList, activeUsers,
                       passiveUsers, robotList>>

(* $MyPass in answer to the request to set a password *)
DC_MyPassSet(c) ==
    /\ Open(c)
    /\ HasUser(c)
    /\ user[c].setPass
    /\ reg[c].class # 0 /\ reg[c].pwdChange
    /\ PasswordSet(c, reg[c].class, FALSE)

(* ... when no password is awaited any more, it is too short or it cannot be stored *)
DC_MyPassNotSet(c) ==
    /\ Open(c)
    /\ HasUser(c)
    /\ user[c].setPass
    /\ user' = [user EXCEPT ![c].setPass = FALSE]
    /\ UNCHANGED <<sock, ip, zone, flags, botInfo, armed, reg, countVars, listVars, robotList,
                   regDB>>

-----------------------------------------------------------------------------
(* $MyINFO, and the entry into the user list *)

(* DC_MyINFO takes over mode and share, and counts the share, before it checks anything else. *)
Rated(u, sh, pas) == [u EXCEPT !.share = sh, !.passive = pas]

(* The passive user limit, with the lists as DC_MyINFO has just changed them *)
PassiveFull(c, pas) ==
    /\ pas
    /\ user[c].class # Pinger /\ user[c].class < Operator
    /\ MaxPassive > -1
    /\ Size(PassiveAfter(c, pas)) > MaxPassive

(* What every $MyINFO has done when it passes the share limits *)
MyINFO(c, sh, pas) ==
    /\ Open(c)
    /\ HasUser(c)
    /\ totalShare' = TotalAfter(user[c], sh)
    /\ UNCHANGED <<ip, zone, botInfo, reg, userCountTot, userCount, robotList, regDB>>

MyINFOListed(c, sh, pas) ==
    /\ MyINFO(c, sh, pas)
    /\ user' = [user EXCEPT ![c] = Rated(user[c], sh, pas)]
    /\ activeUsers' = ActiveAfter(c, pas)
    /\ passiveUsers' = PassiveAfter(c, pas)
    /\ UNCHANGED <<userList, opList>>

(* The minimum or maximum share refuses the user before the lists follow the mode. *)
DC_MyINFOShareRefused(c, sh, pas) ==
    /\ MyINFO(c, sh, pas)
    /\ user[c].class <= Operator
    /\ user' = [user EXCEPT ![c] = Rated(user[c], sh, pas)]
    /\ \E s \in CloseNice(c) : sock' = [sock EXCEPT ![c] = s]
    /\ UNCHANGED <<flags, armed, listVars>>

(* The passive user limit; for a newcomer also a share ban, mOnFirstMyINFO or a clone *)
DC_MyINFORefused(c, sh, pas) ==
    /\ MyINFOListed(c, sh, pas)
    /\ PassiveFull(c, pas) \/ ~ user[c].inList
    /\ \E s \in CloseNice(c) : sock' = [sock EXCEPT ![c] = s]
    /\ UNCHANGED <<flags, armed>>

(* mOnParsedMsgMyINFO says no: the connection stays *)
DC_MyINFOVetoed(c, sh, pas) ==
    /\ "MyINFO" \in Vetoes
    /\ MyINFOListed(c, sh, pas)
    /\ ~ PassiveFull(c, pas)
    /\ UNCHANGED <<sock, flags, armed>>

(* $MyINFO of a user who is already in the list *)
DC_MyINFOUpdate(c, sh, pas) ==
    /\ MyINFOListed(c, sh, pas)
    /\ ~ PassiveFull(c, pas)
    /\ user[c].inList
    /\ armed' = [armed EXCEPT ![c] = @ \ {"MYINFO"}]
    /\ UNCHANGED <<sock, flags>>

FirstMyINFO(c, sh, pas) ==
    /\ MyINFO(c, sh, pas)
    /\ ~ PassiveFull(c, pas)
    /\ ~ user[c].inList
    /\ flags' = [flags EXCEPT ![c] = @ \cup {"MYINFO"}]

(* BeginUserLogin: a login step is missing *)
DC_MyINFOIncomplete(c, sh, pas) ==
    /\ FirstMyINFO(c, sh, pas)
    /\ ~ LoginComplete(flags[c] \cup {"MYINFO"})
    /\ user' = [user EXCEPT ![c] = Rated(user[c], sh, pas)]
    /\ sock' = [sock EXCEPT ![c] = "dead"]
    /\ UNCHANGED <<armed, listVars>>

(* VerifyUniqueNick.  An unregistered user is the same as the one listed under the nick if
   address, share and $MyINFO are; "same" says whether the two $MyINFO are. *)
SameFromAnywhere(c, sh, same) ==
    LET old == userList[user[c].nick]
    IN  \/ user[c].class >= RegUser
        \/ old \in Conns /\ same /\ sh = user[old].share
SameUser(c, sh, same) ==
    LET old == userList[user[c].nick]
    IN  \/ user[c].class >= RegUser
        \/ /\ old \in Conns /\ same
           /\ ip[c] = ip[old] /\ sh = user[old].share

NickFree(c, sh, same) ==
    \/ userList[user[c].nick] = NoOne
    \/ /\ SameUser(c, sh, same)
       /\ AllowSameUser \/ user[c].class > MaxClassSameUser

DC_MyINFONickTaken(c, sh, pas, same) ==
    /\ FirstMyINFO(c, sh, pas)
    /\ LoginComplete(flags[c] \cup {"MYINFO"})
    /\ ~ NickFree(c, sh, same)
    /\ user' = [user EXCEPT ![c] = Rated(user[c], sh, pas)]
    /\ \E s \in CloseNice(c) : sock' = [sock EXCEPT ![c] = s]
    /\ UNCHANGED <<armed, listVars>>

(* How the connection whose nick is taken over is told to go (ConnCloseMsg) *)
TakenOver(old) == IF old \in Conns THEN CloseNice(old) ELSE {"free"}

(* RemoveNick for the user or robot listed under n *)
StillTaken(list, n) == list
Vacated(list, n) == IF userList[n] = NoOne THEN list ELSE RemoveByHash(list, n)
VacatedMode(list, n) == IF userList[n] \in Conns THEN RemoveByHash(list, n) ELSE list

(* AddToList's condition on mOpList *)
AddToOps(list, n, x, k) == IF k >= Operator THEN AddWithHash(list, n, x) ELSE list

(* VerifyUniqueNick and DoUserLogin: the nick is vacated, the user is listed and asked for the
   password to be set.  The outcome is "in", or the hook that has the connection closed:
   mOnUserInList ("InList") or, at the end of AfterUserLogin, mOnUserLogin ("Login"). *)
Enter(c, sh, pas, same, outcome) ==
    LET n   == user[c].nick
        old == userList[n]
        ask == outcome # "InList" /\ reg[c].class # 0 /\ reg[c].pwdChange
        me  == [Rated(user[c], sh, pas) EXCEPT !.inList = TRUE, !.setPass = ask]
    IN  /\ FirstMyINFO(c, sh, pas)
        /\ LoginComplete(flags[c] \cup {"MYINFO"})
        /\ NickFree(c, sh, same)
        /\ user' = [d \in Conns |-> IF d = c THEN me
                                    ELSE IF d = old THEN [user[d] EXCEPT !.inList = FALSE]
                                    ELSE user[d]]
        /\ userList' = AddWithHash(Vacated(userList, n), n, c)
        /\ activeUsers' = AddToMode(VacatedMode(activeUsers, n), n, c, ~ pas)
        /\ passiveUsers' = AddToMode(VacatedMode(passiveUsers, n), n, c, pas)
        /\ opList' = AddToOps(Vacated(opList, n), n, c, me.class)
        /\ armed' = IF outcome = "InList" THEN armed
                    ELSE [armed EXCEPT ![c] = (@ \ {"LOGIN", "MYINFO"})
                                              \cup (IF ask THEN {"SETPASS"} ELSE {})]
        /\ \E s \in TakenOver(old) :
               sock' = [d \in Conns |-> IF d = c THEN IF outcome = "in" THEN "open" ELSE "dead"
                                        ELSE IF d = old THEN s
                                        ELSE sock[d]]

DC_MyINFOEnter(c, sh, pas, same) == Enter(c, sh, pas, same, "in")
DC_MyINFOEnterVetoed(c, sh, pas, same, hook) == Enter(c, sh, pas, same, hook)

-----------------------------------------------------------------------------
(* Robots (AddRobot, DelRobot): users without a connection, added by the hub or a plugin *)

AddRobot(n, k) ==
    /\ ~ robotList[n]
    /\ userList[n] = NoOne
    /\ userList' = AddWithHash(userList, n, Robot)
    /\ activeUsers' = AddToMode(activeUsers, n, Robot, TRUE)
    /\ opList' = AddToOps(opList, n, Robot, k)
    /\ robotList' = [robotList EXCEPT ![n] = TRUE]
    /\ UNCHANGED <<connVars, countVars, passiveUsers, regDB>>

(* RemoveNick takes a user without a connection for the one listed under the nick. *)
DelRobot(n) ==
    /\ robotList[n]
    /\ userList' = RemoveByHash(userList, n)
    /\ opList' = RemoveByHash(opList, n)
    /\ robotList' = [robotList EXCEPT ![n] = FALSE]
    /\ UNCHANGED <<connVars, countVars, activeUsers, passiveUsers, regDB>>

-----------------------------------------------------------------------------
(* Registration commands (cfReg, and +passwd of the user himself).  They reach the user who is
   listed under the nick, never one who is still logging in. *)

Target(n) == userList[n]
OnNobody(f, n, value) == f
OnTarget(f, n, value) == IF Target(n) \in Conns THEN [f EXCEPT ![Target(n)] = value] ELSE f

(* The mOpList part of eAC_NEW and of eAC_CLASS, and the class of the user *)
OpsWhenNew(n, k) == IF k >= Operator THEN AddWithHash(opList, n, Target(n)) ELSE opList
OpsWhenClass(n, k) ==
    LET was == user[Target(n)].class
    IN  IF was < Operator /\ k >= Operator THEN AddWithHash(opList, n, Target(n))
        ELSE IF was >= Operator /\ k < Operator THEN RemoveByHash(opList, n)
        ELSE opList

(* The account is stored, and read again for a user who is online (SetUserRegInfo). *)
Store(n, a) ==
    /\ regDB' = [regDB EXCEPT ![n] = a]
    /\ reg' = OnTarget(reg, n, a)
    /\ UNCHANGED <<sock, flags, botInfo, armed, userList, activeUsers, passiveUsers, robotList>>

RegNew(n, a) ==
    /\ "new" \in AdminOps
    /\ regDB[n].class = 0 /\ n \notin ReservedNicks
    /\ a.class # 0 /\ ~ a.hideShare
    /\ a.class = Pinger => ~ a.pwdChange
    /\ Store(n, a)
    /\ IF Target(n) \in Conns
       THEN /\ user' = [user EXCEPT ![Target(n)].class = a.class]
            /\ opList' = OpsWhenNew(n, a.class)
       ELSE UNCHANGED <<user, opList>>
    /\ UNCHANGED <<ip, zone, countVars>>

(* A slip for comparison: the share that was hidden stays out of the total. *)
StillHidden(u) == totalShare

(* A user whose share was hidden shows it again. *)
Unhidden(u) == IF u.hide THEN totalShare + u.share ELSE totalShare

RegDel(n) ==
    /\ "del" \in AdminOps
    /\ regDB[n].class # 0
    /\ Store(n, NoAccount)
    /\ IF Target(n) \in Conns
       THEN /\ user' = [user EXCEPT ![Target(n)].class = 0, ![Target(n)].hide = FALSE]
            /\ totalShare' = Unhidden(user[Target(n)])
            /\ opList' = RemoveByHash(opList, n)
       ELSE UNCHANGED <<user, totalShare, opList>>
    /\ UNCHANGED <<ip, zone, userCountTot, userCount>>

RegClass(n, k) ==
    /\ "class" \in AdminOps
    /\ regDB[n].class # 0
    /\ Store(n, [regDB[n] EXCEPT !.class = k])
    /\ IF Target(n) \in Conns
       THEN /\ user' = [user EXCEPT ![Target(n)].class = k]
            /\ opList' = OpsWhenClass(n, k)
       ELSE UNCHANGED <<user, opList>>
    /\ UNCHANGED <<ip, zone, countVars>>

RegHideShare(n, h) ==
    /\ "hide_share" \in AdminOps
    /\ regDB[n].class # 0
    /\ Store(n, [regDB[n] EXCEPT !.hideShare = h])
    /\ IF Target(n) \in Conns
       THEN LET u == user[Target(n)]
            IN  /\ user' = [user EXCEPT ![Target(n)].hide = h]
                /\ totalShare' = IF h = u.hide THEN totalShare
                                 ELSE IF h THEN totalShare - u.share ELSE Unhidden(u)
       ELSE UNCHANGED <<user, totalShare>>
    /\ UNCHANGED <<ip, zone, userCountTot, userCount, opList>>

(* eAC_PASS without a password: the user has to set one *)
RegPassReset(n) ==
    /\ "pass" \in AdminOps
    /\ regDB[n].class # 0
    /\ Store(n, [regDB[n] EXCEPT !.pwdChange = TRUE])
    /\ UNCHANGED <<ip, zone, user, countVars, opList>>

(* eAC_PASS with a password: only stored *)
RegPass(n) ==
    /\ "pass" \in AdminOps
    /\ regDB[n].class # 0
    /\ regDB' = [regDB EXCEPT ![n].pwdChange = FALSE]
    /\ UNCHANGED <<connVars, countVars, listVars, robotList>>

RegFakeIP(n, a, z) ==
    /\ "fake_ip" \in AdminOps
    /\ regDB[n].class # 0
    /\ Target(n) \in Conns
    /\ Store(n, regDB[n])
    /\ ip' = OnTarget(ip, n, a)
    /\ zone' = OnTarget(zone, n, z)
    /\ userCount' = MoveZone(userCount, zone[Target(n)], z)
    /\ UNCHANGED <<user, userCountTot, totalShare, opList>>

(* CmdClass: a class for the time being, for anyone; mOpList follows for registered users only *)
CmdClass(n, k) ==
    /\ "tempclass" \in AdminOps
    /\ Target(n) \in Conns
    /\ user' = [user EXCEPT ![Target(n)].class = k]
    /\ opList' = IF reg[Target(n)].class # 0 THEN OpsWhenClass(n, k) ELSE opList
    /\ UNCHANGED <<sock, ip, zone, flags, botInfo, armed, reg, countVars, userList, activeUsers,
                   passiveUsers, robotList, regDB>>

(* CmdRegMyPasswd, with mC.max_class_self_repass off *)
RegMyPasswd(c) ==
    /\ Open(c)
    /\ Listed(c)
    /\ regDB[user[c].nick].pwdChange
    /\ PasswordSet(c, regDB[user[c].nick].class, user[c].setPass)

-----------------------------------------------------------------------------
LoginStep(c) ==
    \/ \E a \in Addresses, z \in Zones : OnNewConn(c, a, z)
    \/ DC_Key(c)
    \/ \E bot \in BotInfo : DC_Supports(c, bot)
    \/ DC_Version(c)
    \/ \E n \in Nicks : DC_ValidateNickRefused(c, n) \/ DC_ValidateNickCounted(c, n)
    \/ \E n \in Nicks, a \in Addresses, z \in Zones : DC_ValidateNick(c, n, a, z)
    \/ \E n \in Nicks, a \in Addresses, z \in Zones : DC_ValidateNickVetoed(c, n, a, z)
    \/ DC_MyPass(c)
    \/ DC_MyPassSet(c)
    \/ DC_MyPassNotSet(c)
    \/ RegMyPasswd(c)

MyINFOStep(c) ==
    \E sh \in Shares, pas \in BOOLEAN :
        \/ DC_MyINFOShareRefused(c, sh, pas)
        \/ DC_MyINFORefused(c, sh, pas)
        \/ DC_MyINFOVetoed(c, sh, pas)
        \/ DC_MyINFOUpdate(c, sh, pas)
        \/ DC_MyINFOIncomplete(c, sh, pas)
        \/ \E same \in BOOLEAN : DC_MyINFONickTaken(c, sh, pas, same)
        \/ \E same \in BOOLEAN : DC_MyINFOEnter(c, sh, pas, same)
        \/ \E same \in BOOLEAN, hook \in Vetoes \cap {"InList", "Login"} :
               DC_MyINFOEnterVetoed(c, sh, pas, same, hook)

CloseStep(c) ==
    \/ Reject(c)
    \/ \E t \in TimeOuts : OnTimer(c, t)
    \/ CloseNow(c)
    \/ DeleteConn(c)

RobotStep(n) ==
    \/ \E k \in {0, Operator} : AddRobot(n, k)
    \/ DelRobot(n)

AdminStep(n) ==
    \/ \E a \in Accounts : RegNew(n, a)
    \/ RegDel(n)
    \/ \E k \in Classes \ {0} : RegClass(n, k)
    \/ \E k \in Classes \ {Pinger} : CmdClass(n, k)
    \/ \E h \in BOOLEAN : RegHideShare(n, h)
    \/ RegPassReset(n)
    \/ RegPass(n)
    \/ \E a \in Addresses, z \in Zones : RegFakeIP(n, a, z)

Next ==
    \/ \E c \in Conns : LoginStep(c) \/ MyINFOStep(c) \/ CloseStep(c)
    \/ \E n \in RobotNicks : RobotStep(n)
    \/ \E n \in Nicks : AdminStep(n)

Spec == Init /\ [][Next]_vars

(* Poll reports input again and again: TimeStep goes through the sockets only when it reports one,
   and finds a closed connection on that way alone. *)
HubIsBusy == []<><<\E c \in Conns : LoginStep(c) \/ MyINFOStep(c)>>_vars

(* The event loop runs the timers of every connection, whatever poll says, and they also flush the
   output of one that is closing, which ends with CloseNow.  It deletes the closed ones on its next
   way through the sockets, if there is one. *)
Fairness ==
    /\ \A c \in Conns : /\ WF_vars(OnTimer(c, "LOGIN"))
                        /\ WF_vars(CloseNow(c) /\ sock[c] = "closing")
    /\ HubIsBusy => \A c \in Conns : WF_vars(DeleteConn(c))

FairSpec == Spec /\ Fairness

-----------------------------------------------------------------------------
(* Safety *)

Admitted(c) == "ALLOWED" \in flags[c]

(* mUserCountTot, which DC_ValidateNick raises and DeleteConn lowers, is the number of
   connections that were let in and still exist, whatever became of them in between. *)
UserCountExact == userCountTot = Cardinality({c \in Conns : Admitted(c)})

(* So is mUserCount of every zone, although a fake address moves a user from zone to zone
   after he was counted (ResetGeo). *)
ZoneCountExact ==
    \A z \in Zones : userCount[z] = Cardinality({c \in Conns : Admitted(c) /\ zone[c] = z})

(* mTotalShare is the sum of the shares that the users of the hub show: it follows every
   $MyINFO, hide_share, the loss of an account and DeleteConn. *)
TotalShareExact == totalShare = MapThenSumSet(ShareOfUser, {c \in Conns : Admitted(c)})

(* The user list and the connections agree (AddToList, RemoveNick, VerifyUniqueNick,
   DeleteConn): a nick leads to the one user who is listed under it, a user who is listed is
   found under his nick, and no other list keeps someone the user list does not. *)
ListsConsistent ==
    /\ \A n \in Nicks, c \in Conns : userList[n] = c <=> Listed(c) /\ user[c].nick = n
    /\ \A n \in Nicks : /\ activeUsers[n] \in {NoOne, userList[n]}
                        /\ passiveUsers[n] \in {NoOne, userList[n]}
                        /\ opList[n] \in {NoOne, userList[n]}

(* mActiveUsers and mPassiveUsers part the listed users, and an open connection is in the list
   of the mode it announced last (DC_MyINFO moves it, and gives up in between when the share
   limits refuse the user). *)
ModePartition ==
    \A c \in Conns : Listed(c) =>
        LET n == user[c].nick
        IN  /\ (activeUsers[n] = c) # (passiveUsers[n] = c)
            /\ Open(c) => (passiveUsers[n] = c) = user[c].passive

(* mOpList names exactly the listed registered users who are operators now, whichever commands
   made them so, or no longer (AddToList, eAC_CLASS, CmdClass). *)
OpListExact ==
    \A c \in Conns : Listed(c) /\ reg[c].class # 0 =>
        (opList[user[c].nick] = c <=> user[c].class >= Operator)

(* A connection that sent its first $MyINFO is listed or goes: nobody stays in the hub unseen,
   counted but in no list (VerifyUniqueNick, BeginUserLogin, DC_MyINFO). *)
NoGhost == \A c \in Conns : Open(c) /\ "MYINFO" \in flags[c] => Listed(c)

(* The four lists say the same of everybody, and say it of everybody who is in the hub. *)
ListsExact == ListsConsistent /\ ModePartition /\ OpListExact /\ NoGhost

(* Only who took every login step is listed, and the login timeouts are over for him. *)
ListedDone ==
    \A c \in Conns : Listed(c) =>
        /\ LoginDone \subseteq flags[c]
        /\ Open(c) => armed[c] \cap {"KEY", "LOGIN", "MYINFO"} = {}

(* A user never has a class that his account, as the hub knows it, does not give him: Register,
   DC_MyPass, +passwd and the registration commands keep mClass and mRegInfo together. *)
RightsOfAccount ==
    \A c \in Conns : Listed(c) =>
        \/ user[c].class \in {0, reg[c].class}
        \/ user[c].class = Pinger /\ botInfo[c]

(* A user who has become an operator is named in mOpList, also when accounts come and go and
   passwords are set (AddToList, eAC_NEW, DC_MyPass, CmdRegMyPasswd). *)
OperatorsShown ==
    \A c \in Conns : Listed(c) /\ user[c].class >= Operator => opList[user[c].nick] = c

(* Commands about an account reach the user online and the lists alike. *)
AccountFollowed == RightsOfAccount /\ OperatorsShown

(* The limits of DC_ValidateNick hold for unregistered users whatever the order in which users
   of all kinds come and go: they never take more than max_users_total places, nor more than
   max_users of their zone. *)
UserLimitKept ==
    LET Guests == {c \in Conns : Admitted(c) /\ TheoricalClass(reg[c], botInfo[c]) = 0}
    IN  /\ Cardinality(Guests) <= MaxUsers
        /\ \A z \in Zones : Cardinality({c \in Guests : zone[c] = z}) <= MaxZoneUsers

(* Robots stay listed until they are deleted, under nicks that registered users do not have. *)
RobotsListed == \A n \in Nicks : robotList[n] <=> userList[n] = Robot

(* A connection whose listing ends does not come back: VerifyUniqueNick closes the one it
   takes the nick from, and no later message lists it again. *)
NoReturn ==
    [][\A c \in Conns : "MYINFO" \in flags[c] /\ ~ Listed(c) /\ sock[c] # "free"
                            => ~ Listed(c)']_vars

(* A nick passes from one connection to another only if the first is closed in the same step
   and the second is registered or comes from the same address (VerifyUniqueNick). *)
TakeOverRight ==
    [][\A n \in Nicks, c, d \in Conns : c # d /\ userList[n] = c /\ userList'[n] = d =>
           /\ sock'[c] \in {"closing", "dead"}
           /\ user'[d].class >= RegUser \/ ip[c] = ip[d]]_vars

(* A listing passes on to the right connection and never comes back (VerifyUniqueNick). *)
ListingsPass == NoReturn /\ TakeOverRight

(* The hub keeps what HubDirectory promises about nicks. *)
Stage(c) ==
    IF ~ Admitted(c) THEN "out"
    ELSE IF Listed(c) THEN "listed"
    ELSE IF "MYINFO" \in flags[c] THEN "retired" ELSE "admitted"

Directory == INSTANCE HubDirectory WITH stage <- [c \in Conns |-> Stage(c)], holder <- userList

KeepsDirectory == Directory!DirSpec

-----------------------------------------------------------------------------
(* Liveness *)

(* No connection stays in the login, or half-way through its close, for ever: it is a listed user's
   or it is closed, whether its peer reads and writes or not. *)
EntersOrLeaves ==
    \A c \in Conns : sock[c] \in {"open", "closing"} ~>
                        (Open(c) /\ Listed(c)) \/ sock[c] \in {"dead", "free"}

(* In a hub where something goes on, a closed connection leaves every list and counter in the end;
   in one where nothing happens it stays. *)
ClosedLeaves == HubIsBusy => \A c \in Conns : sock[c] = "dead" ~> sock[c] = "free"

(* Both: no login and no close is left half-way (cConnDC::OnTimer, TimeStep). *)
LoginsEnd == EntersOrLeaves /\ ClosedLeaves

=============================================================================
