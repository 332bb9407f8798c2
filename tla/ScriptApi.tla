----------------------------- MODULE ScriptApi -----------------------------
(***************************************************************************)
(* What scripts and operators do to users who are in the hub: the calls of *)
(* script_api.cpp behind the functions of the Lua and Python plugins,      *)
(* broadcasts and the commands of the operators' room.  They edit, apart   *)
(* from each other, the account, the class, the lists of operators and of  *)
(* the room, the total share, the zone counters and the cached country.    *)
(***************************************************************************)
EXTENDS Integers, FiniteSets, FiniteSetsExt

CONSTANTS
    Clients,        \* users with a connection; robots have none and are out of reach
    Ranks,          \* classes that accounts have
    Master,         \* eUC_MASTER
    OpRank,         \* mC.oplist_class
    RoomRank,       \* mC.opchat_class
    KickDif,        \* mC.classdif_kick
    ShareOf,        \* client -> share
    PassiveOnes,    \* clients in mPassiveUsers, the others in mActiveUsers
    Places,         \* addresses
    ZoneAt,         \* address -> zone, by country
    ByCountry,      \* is a cc_zone set
    ChatDefault,    \* mC.chat_default_on
    Ranges,         \* class ranges <<lowest, highest>> that callers give
    MayFail         \* does the database refuse a write now and then

ASSUME ScriptApiAssumption ==
    /\ IsFiniteSet(Clients) /\ Places # {}
    /\ 1 \in Ranks /\ Ranks \subseteq Nat \ {0}
    /\ {Master, OpRank, RoomRank, KickDif} \subseteq Nat
    /\ ShareOf \in [Clients -> Nat] /\ PassiveOnes \subseteq Clients
    /\ {ByCountry, ChatDefault, MayFail} \subseteq BOOLEAN

VARIABLES
    present,        \* mUserList
    closing,        \* CloseNice or CloseNow was called
    rank,           \* mClass
    copied,         \* class in mRegInfo, the copy of the account, 0 for none
    hides,          \* mHideShare
    place,          \* AddrIP
    country,        \* mCC: a zone, or Unasked
    zoned,          \* mGeoZone
    account,        \* the reglist: class (0: none), hide_share, hide_keys
    ops, room, chatters,       \* mOpList, mOpchatList, mChatUsers
    shareSum, zoneUsers,       \* mTotalShare, mUserCount
    banned,         \* who got a ban with a kick
    redirected,     \* whose mCloseRedirect is set
    audience,       \* who gets the text of the last step
    unsaved,        \* history: whose account could not be written
    invited         \* history: who was let into the room by name

session  == <<present, closing, rank, copied, hides>>
location == <<place, country, zoned, zoneUsers>>
lists    == <<ops, room, chatters>>
marks    == <<banned, redirected>>
history  == <<unsaved, invited>>

\* a step without a text
Silent == audience' = {}
scriptApiVars == <<session, location, account, lists, shareSum, marks, audience, history>>

Unasked == -1
Zones2 == {ZoneAt[p] : p \in Places}
NoReg == [class |-> 0, hide |-> FALSE, keys |-> FALSE]

\* GetUser, and the look at mxConn
Found(u) == u \in present

-----------------------------------------------------------------------------
(* Coming and going: what the other operations undo or rely on *)

CountryWhenZoned(p) == IF ByCountry THEN ZoneAt[p] ELSE Unasked

ZoneMoved(count, from, to) ==
    IF from = to THEN count ELSE [count EXCEPT ![from] = @ - 1, ![to] = @ + 1]

JoinsRoom(u, class) == class >= RoomRank

\* show_keys, which puts a lower class on the operator list, is left out
JoinsOps(u, class, keys) == class >= OpRank /\ ~keys

\* AddToList
JoinHub(u, p) ==
    LET a == account[u] IN
    /\ u \notin present /\ u \notin banned
    /\ present' = present \cup {u}
    /\ rank' = [rank EXCEPT ![u] = a.class]
    /\ copied' = [copied EXCEPT ![u] = a.class]
    /\ hides' = [hides EXCEPT ![u] = a.hide]
    /\ place' = [place EXCEPT ![u] = p]
    /\ country' = [country EXCEPT ![u] = CountryWhenZoned(p)]
    /\ zoned' = [zoned EXCEPT ![u] = ZoneAt[p]]
    /\ zoneUsers' = [zoneUsers EXCEPT ![ZoneAt[p]] = @ + 1]
    /\ shareSum' = IF a.hide THEN shareSum ELSE shareSum + ShareOf[u]
    /\ ops' = IF JoinsOps(u, a.class, a.keys) THEN ops \cup {u} ELSE ops
    /\ room' = IF JoinsRoom(u, a.class) THEN room \cup {u} ELSE room
    /\ chatters' = IF ChatDefault \/ a.class >= 3 THEN chatters \cup {u} ELSE chatters
    /\ unsaved' = unsaved \ {u}
    /\ Silent /\ UNCHANGED <<closing, account, marks, invited>>

\* RemoveNick and DeleteConn
LeaveHub(u) ==
    /\ Found(u)
    /\ present' = present \ {u} /\ closing' = closing \ {u}
    /\ ops' = ops \ {u} /\ room' = room \ {u} /\ chatters' = chatters \ {u}
    /\ shareSum' = IF hides[u] THEN shareSum ELSE shareSum - ShareOf[u]
    /\ zoneUsers' = [zoneUsers EXCEPT ![zoned[u]] = @ - 1]
    /\ invited' = invited \ {u} /\ redirected' = redirected \ {u}
    /\ Silent /\ UNCHANGED <<rank, copied, hides, place, country, zoned, account, banned, unsaved>>

-----------------------------------------------------------------------------
(* Texts: each call goes through one list and, most of them, a class range *)

Reached2(to, lo, hi) == {u \in to : u \notin closing /\ lo <= rank[u] /\ rank[u] <= hi}

Tell(to) == /\ audience' = to
            /\ UNCHANGED <<session, location, account, lists, shareSum, marks, unsaved, invited>>

\* the functions of Lua check the classes they are given, those of Python do not
LuaRange(lo, hi) == lo <= hi /\ {lo, hi} \subseteq -1 .. 5 \cup {Master}
PythonRange(lo, hi) == lo <= hi

SendDataToUser(u) == Found(u) /\ Tell({u} \ closing)

SendToList(of, lo, hi) == (LuaRange(lo, hi) \/ PythonRange(lo, hi)) /\ Tell(Reached2(of, lo, hi))

SendToClass(lo, hi) == SendToList(present, lo, hi)
SendToActive(lo, hi) == SendToList(present \ PassiveOnes, lo, hi)
SendToPassive(lo, hi) == SendToList(present \cap PassiveOnes, lo, hi)
SendToChat(lo, hi) == SendToList(chatters, lo, hi)

\* SendToAllWithNick goes through the connections, not through a list
SendPMToAll(lo, hi) == SendToList({u \in present : u \notin closing}, lo, hi)

\* !bc, !oc, !guests ...: each command has its own range and rights
BroadcastRange == {<<0, Master, 4>>, <<3, Master, 3>>, <<0, 0, 4>>, <<1, 1, 4>>, <<2, 2, 4>>,
                   <<4, 5, 3>>, <<5, Master, 5>>, <<Master, Master, 5>>}
Broadcast(u) ==
    \E b \in BroadcastRange :
        Found(u) /\ rank[u] >= b[3] /\ Tell(Reached2(present, b[1], b[2]))

\* !ccbc asks for the country of everybody in the range
BroadcastZone(u, zone) ==
    /\ Found(u) /\ rank[u] >= 3
    /\ audience' = {w \in Reached2(present, 0, Master) : ZoneAt[place[w]] = zone}
    /\ country' = [w \in Clients |-> IF w \in Reached2(present, 0, Master) /\ country[w] = Unasked
                                     THEN ZoneAt[place[w]] ELSE country[w]]
    /\ UNCHANGED <<session, place, zoned, zoneUsers, account, lists, shareSum, marks,
                   unsaved, invited>>

\* a text of a script for the room goes to everybody in it
SendToOpChat == Tell(room \ closing)

-----------------------------------------------------------------------------
(* The room of the operators and the public chat *)

OnlyLists == UNCHANGED <<session, location, account, shareSum, marks, unsaved>>

\* cChatRoom::ReceiveMsg: a text for the room, from somebody in it or allowed in
TalkInRoom(u) ==
    /\ Found(u) /\ (u \in room \/ rank[u] >= RoomRank)
    /\ room' = room \cup {u}
    /\ audience' = room' \ (closing \cup {u})
    /\ OnlyLists /\ UNCHANGED <<ops, chatters, invited>>

Invite(u, w) ==
    /\ u \in room /\ Found(w) /\ w \notin room
    /\ room' = room \cup {w} /\ invited' = invited \cup {w}
    /\ Silent /\ OnlyLists /\ UNCHANGED <<ops, chatters>>

PutOut(u, w) ==
    /\ u \in room /\ w \in room /\ Found(w) /\ rank[w] <= rank[u]
    /\ room' = room \ {w} /\ invited' = invited \ {w}
    /\ Silent /\ OnlyLists /\ UNCHANGED <<ops, chatters>>

LeaveRoom(u) == u \in room /\ PutOut(u, u)

\* +chat and +nochat, AddChatUser and DelChatUser
SwitchChat(u) ==
    /\ Found(u)
    /\ chatters' = IF u \in chatters THEN chatters \ {u} ELSE chatters \cup {u}
    /\ Silent /\ OnlyLists /\ UNCHANGED <<ops, room, invited>>

-----------------------------------------------------------------------------
(* Accounts *)

\* SetUserRegInfo: the copy is read again
Recopied(u, a) == copied' = [copied EXCEPT ![u] = a[u].class]

\* Lua leaves out 0, which Python allows and cRegList stores as 1; neither
\* lets a script make a master, nor take one's account away
LuaMayRegister(k) == k \in Ranks \ {Master}
PythonMayRegister(k) == k \in (Ranks \cup {0}) \ {Master}
StoredRank(k) == IF k \in Ranks THEN k ELSE 1

AddRegUser(u, k, saved) ==
    /\ account[u].class = 0 /\ (saved \/ MayFail)
    /\ LuaMayRegister(k) \/ PythonMayRegister(k)
    /\ account' = IF saved THEN [account EXCEPT ![u] = [NoReg EXCEPT !.class = StoredRank(k)]]
                  ELSE account
    /\ IF saved /\ Found(u)
       THEN /\ room' = IF k >= RoomRank THEN room \cup {u} ELSE room
            /\ ops' = IF k >= OpRank THEN ops \cup {u} ELSE ops
            /\ rank' = [rank EXCEPT ![u] = k]
            /\ Recopied(u, account')
            /\ unsaved' = IF k = StoredRank(k) THEN unsaved \ {u} ELSE unsaved \cup {u}
       ELSE UNCHANGED <<room, ops, rank, copied, unsaved>>
    /\ Silent /\ UNCHANGED <<present, closing, hides, location, chatters, shareSum, marks, invited>>

\* a slip: the share stays hidden from the sum
Shown2Slip(u) == shareSum
Shown2(u) == IF hides[u] THEN shareSum + ShareOf[u] ELSE shareSum

DelRegUser(u, saved) ==
    /\ account[u].class \notin {0, Master} /\ (saved \/ MayFail)
    /\ account' = IF saved THEN [account EXCEPT ![u] = NoReg] ELSE account
    /\ IF saved /\ Found(u)
       THEN /\ room' = room \ {u} /\ ops' = ops \ {u} /\ invited' = invited \ {u}
            /\ rank' = [rank EXCEPT ![u] = 0]
            /\ shareSum' = Shown2(u)
            /\ hides' = [hides EXCEPT ![u] = FALSE]
            /\ Recopied(u, account')
            /\ unsaved' = unsaved \ {u}
       ELSE UNCHANGED <<room, ops, invited, rank, shareSum, hides, copied, unsaved>>
    /\ Silent /\ UNCHANGED <<present, closing, location, chatters, marks>>

\* the lists follow the class the user had and the one he gets
Regrouped(list, u, limit, k) ==
    IF rank[u] < limit /\ k >= limit THEN list \cup {u}
    ELSE IF rank[u] >= limit /\ k < limit THEN list \ {u} ELSE list

\* SetRegClass: first the user online, with the account read before it is
\* written, then the table
SetRegClass(u, k, saved) ==
    /\ k \in Ranks /\ account[u].class \notin {0, k} /\ (saved \/ MayFail)
    /\ IF Found(u)
       THEN /\ room' = Regrouped(room, u, RoomRank, k)
            /\ ops' = IF account[u].keys THEN ops ELSE Regrouped(ops, u, OpRank, k)
            /\ invited' = IF u \in room' THEN invited ELSE invited \ {u}
            /\ rank' = [rank EXCEPT ![u] = k]
            /\ Recopied(u, account)
            /\ unsaved' = IF saved THEN unsaved \ {u} ELSE unsaved \cup {u}
       ELSE UNCHANGED <<room, ops, invited, rank, copied, unsaved>>
    /\ account' = IF saved THEN [account EXCEPT ![u].class = k] ELSE account
    /\ Silent /\ UNCHANGED <<present, closing, hides, location, chatters, shareSum, marks>>

-----------------------------------------------------------------------------
(* Address and country *)

\* SetUserIP, also when the address is the one it was, and ResetGeo
CountryAsked(u, p) == CountryWhenZoned(p)

SetUserIP(u, p) ==
    /\ Found(u)
    /\ place' = [place EXCEPT ![u] = p]
    /\ country' = [country EXCEPT ![u] = CountryAsked(u, p)]
    /\ zoned' = [zoned EXCEPT ![u] = ZoneAt[p]]
    /\ zoneUsers' = ZoneMoved(zoneUsers, zoned[u], ZoneAt[p])
    /\ Silent /\ UNCHANGED <<session, account, lists, shareSum, marks, history>>

\* what is not cached is looked up, and kept
Looked(u) == IF country[u] = Unasked THEN ZoneAt[place[u]] ELSE country[u]

\* GetUserCC, GetUserCN, GetUserCity
AskCountry(u) ==
    /\ Found(u)
    /\ country' = [country EXCEPT ![u] = Looked(u)]
    /\ Silent /\ UNCHANGED <<session, place, zoned, zoneUsers, account, lists, shareSum, marks, history>>

\* GetIPCC, GetIPCN, GetIPCity: an open connection from the address answers,
\* without one nothing is kept
AskAddress(u) == u \notin closing /\ AskCountry(u)

-----------------------------------------------------------------------------
(* Closing *)

CloseConnection(u) ==
    /\ Found(u)
    /\ closing' = closing \cup {u}
    /\ Silent /\ UNCHANGED <<present, rank, copied, hides, location, account, lists, shareSum, marks, history>>

\* DCKickNick: refused for want of rights, for a protection or by a plugin;
\* a kick closes the connection and bans for tban_kick, or as long as the
\* reason says if the operator may
Kicks(u, w) == u # w /\ rank[w] + KickDif <= rank[u]
DCKickNick(u, w) ==
    \/ Kicks(u, w) /\ closing' = closing \cup {w} /\ banned' = banned \cup {w}
    \/ UNCHANGED <<closing, banned>>

KickUser(u, w) ==
    /\ Found(u) /\ Found(w)
    /\ DCKickNick(u, w)
    /\ Silent /\ UNCHANGED <<present, rank, copied, hides, location, account, lists, shareSum, redirected, history>>

\* Lua's KickRedirUser marks the victim, Python's KickUser the operator,
\* whether the kick is allowed or not
KickRedirUser(u, w, python) ==
    /\ Found(u) /\ Found(w)
    /\ redirected' = redirected \cup {IF python THEN u ELSE w}
    /\ DCKickNick(u, w)
    /\ Silent /\ UNCHANGED <<present, rank, copied, hides, location, account, lists, shareSum, history>>

\* Ban of the script interface asks for no rights; the ban ends after a while
BanByScript(u) ==
    /\ Found(u)
    /\ closing' = closing \cup {u} /\ banned' = banned \cup {u}
    /\ Silent /\ UNCHANGED <<present, rank, copied, hides, location, account, lists, shareSum, redirected, history>>
BanEnds(u) ==
    /\ u \in banned
    /\ banned' = banned \ {u}
    /\ Silent /\ UNCHANGED <<session, location, account, lists, shareSum, redirected, history>>

-----------------------------------------------------------------------------
ScriptApiInit ==
    /\ account \in [Clients -> {NoReg} \cup [class : Ranks, hide : BOOLEAN, keys : BOOLEAN]]
    /\ present = {} /\ closing = {} /\ ops = {} /\ room = {} /\ chatters = {}
    /\ rank = [u \in Clients |-> 0] /\ copied = [u \in Clients |-> 0]
    /\ hides = [u \in Clients |-> FALSE]
    /\ place = [u \in Clients |-> CHOOSE p \in Places : TRUE]
    /\ country = [u \in Clients |-> Unasked] /\ zoned = [u \in Clients |-> Unasked]
    /\ shareSum = 0 /\ zoneUsers = [z \in Zones2 |-> 0]
    /\ banned = {} /\ redirected = {} /\ audience = {} /\ unsaved = {} /\ invited = {}

Speaks ==
    \/ \E r \in Ranges : \/ SendToClass(r[1], r[2])
                         \/ SendToActive(r[1], r[2])
                         \/ SendToPassive(r[1], r[2])
                         \/ SendToChat(r[1], r[2])
                         \/ SendPMToAll(r[1], r[2])
    \/ SendToOpChat
    \/ \E u \in Clients : SendDataToUser(u) \/ Broadcast(u)
    \/ \E u \in Clients, z \in Zones2 : BroadcastZone(u, z)

\* users, their accounts and the room
AccountSteps ==
    \/ \E u \in Clients, p \in Places : JoinHub(u, p)
    \/ \E u \in Clients : LeaveHub(u) \/ LeaveRoom(u) \/ TalkInRoom(u)
    \/ \E u, w \in Clients : Invite(u, w) \/ PutOut(u, w)
    \/ \E u \in Clients, k \in Ranks \cup {0}, saved \in BOOLEAN :
         AddRegUser(u, k, saved) \/ SetRegClass(u, k, saved)
    \/ \E u \in Clients, saved \in BOOLEAN : DelRegUser(u, saved)

\* texts, addresses and the ways out of the hub
OtherSteps ==
    \/ Speaks
    \/ \E u \in Clients, p \in Places : SetUserIP(u, p)
    \/ \E u \in Clients : \/ SwitchChat(u)
                          \/ AskCountry(u)
                          \/ AskAddress(u)
                          \/ CloseConnection(u)
                          \/ BanByScript(u)
                          \/ BanEnds(u)
    \/ \E u, w \in Clients : KickUser(u, w)
    \/ \E u, w \in Clients, python \in BOOLEAN : KickRedirUser(u, w, python)

ScriptApiNext == AccountSteps \/ OtherSteps

ScriptApiSpec == ScriptApiInit /\ [][ScriptApiNext]_scriptApiVars

-----------------------------------------------------------------------------
ScriptApiTypeOK ==
    /\ {present, closing, ops, room, chatters, banned, redirected, audience, unsaved, invited}
         \subseteq SUBSET Clients
    /\ rank \in [Clients -> Ranks \cup {0}] /\ copied \in [Clients -> Ranks \cup {0}]
    /\ hides \in [Clients -> BOOLEAN]
    /\ account \in [Clients -> [class : Ranks \cup {0}, hide : BOOLEAN, keys : BOOLEAN]]
    /\ place \in [Clients -> Places]
    /\ country \in [Clients -> Zones2 \cup {Unasked}] /\ zoned \in [Clients -> Zones2 \cup {Unasked}]
    /\ shareSum \in Nat /\ zoneUsers \in [Zones2 -> Nat]

(***************************************************************************)
(* Whatever scripts and operators call, in whatever order: the operator    *)
(* list names the operators who do not hide their keys, the room holds     *)
(* nobody who is neither an operator nor was let in, the total share is    *)
(* the sum of the shares that are shown, and a user has the class of his   *)
(* account, unless it could not be written.                                *)
(***************************************************************************)
AccountReachesUser ==
    /\ ops = {u \in present : rank[u] >= OpRank /\ ~account[u].keys}
    /\ room \subseteq {u \in present : rank[u] >= RoomRank \/ u \in invited}
    /\ shareSum = MapThenSumSet(LAMBDA u : ShareOf[u], {u \in present : ~hides[u]})
    /\ \A u \in present : rank[u] = account[u].class \/ u \in unsaved

(***************************************************************************)
(* A user whose address was set anew is counted in the zone of the new     *)
(* one, each zone counts its users, and no cached country outlives the     *)
(* address it was looked up for.                                           *)
(***************************************************************************)
GeoFollowsAddress ==
    /\ \A z \in Zones2 : zoneUsers[z] = Cardinality({u \in present : zoned[u] = z})
    /\ \A u \in present : /\ zoned[u] = ZoneAt[place[u]]
                          /\ country[u] \in {Unasked, ZoneAt[place[u]]}

(***************************************************************************)
(* Whatever is changed of a user in the hub reaches every list and count   *)
(* that was made from the old value (script_api.cpp, cDCConsole::cfRegUsr, *)
(* cAsyncConn::SetUserIP).                                                 *)
(***************************************************************************)
ChangesReachLists == AccountReachesUser /\ GeoFollowsAddress
=============================================================================
