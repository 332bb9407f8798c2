-------------------------------- MODULE Bans --------------------------------
(***************************************************************************)
(* Bans: the table `banlist` (cBanList), the temporary bans held in memory *)
(* by address and by nick, the commands and protocol messages that add and *)
(* remove both, and the two moments of a login at which they are asked:    *)
(* OnNewConn and ValidateUser.  What happens between $ValidateNick and the *)
(* entry into the user list is not asked again.                            *)
(*                                                                         *)
(* A row has a key (ip, nick) in which one part may be a mark such as      *)
(* "_nickban_"; here a key is the kind with what it is about.  The end of  *)
(* a permanent ban is 0 in memory and null in the table.                   *)
(***************************************************************************)
EXTENDS Integers, FiniteSets

CONSTANTS
    Visitors,    \* nicks that come and go
    Addrs,       \* their addresses
    AddrOf,      \* nick -> the address it comes from
    Registered,  \* nicks with an account: prefix bans do not concern them
    Bypass,      \* nicks of ban_bypass_class and above
    InRange,     \* addresses within the one range an operator may ban
    InHost,      \* addresses whose host name matches a host ban
    HasPrefix,   \* nicks that start with the prefix an operator may ban
    AboveReg,    \* nicks of a class above eUC_REGUSER: share bans do not concern them
    ShareBytes,  \* nick -> bytes it shares
    BanBytes,    \* the number of bytes that may be banned
    BanKinds,    \* kinds of ban the operators give
    Lengths,     \* lengths of bans; 0 is a permanent one
    TempLengths, \* lengths of temporary bans
    IntLogin,    \* int_login: the pause between two logins of a nick, or 0
    KeepRows,    \* how long Cleanup keeps rows that have run out (7 days)
    MaxRows,     \* bound: rows in the table
    MaxTemp,     \* bound: temporary bans at a time
    EndOfTime    \* bound: the clock stops here

NickKeys  == {<<"nick", n>> : n \in Visitors}
IpKeys    == {<<"ip", a>> : a \in Addrs}
BothKeys  == {<<"nickip", n, AddrOf[n]>> : n \in Visitors}
OtherKeys == {<<"range">>, <<"host">>, <<"prefix">>, <<"share">>}
BanKeys == {k \in NickKeys \cup IpKeys \cup BothKeys \cup OtherKeys : k[1] \in BanKinds}

NoBan == -1

ASSUME BansAssumption ==
    /\ AddrOf \in [Visitors -> Addrs]
    /\ Registered \subseteq Visitors /\ Bypass \subseteq Visitors
    /\ HasPrefix \subseteq Visitors /\ AboveReg \subseteq Registered
    /\ ShareBytes \in [Visitors -> Nat] /\ BanBytes \in Nat
    /\ InRange \subseteq Addrs /\ InHost \subseteq Addrs
    /\ Lengths \subseteq Nat /\ TempLengths \subseteq Nat \ {0}
    /\ IntLogin \in Nat /\ KeepRows \in Nat /\ EndOfTime \in Nat /\ MaxRows \in Nat /\ MaxTemp \in Nat

VARIABLES
    time,      \* mTime
    ends,      \* banlist: key -> date_limit, 0 for ever, NoBan without a row
    tempNick,  \* mTempNickBanlist: nick -> mUntil, or NoBan
    tempAddr,  \* mTempIPBanlist: address -> mUntil, or NoBan
    place,     \* nick -> where its connection is
    late       \* history: nick -> keys banned when it was past its check

bansVars == <<time, ends, tempNick, tempAddr, place, late>>

Places == {"out", "open", "asked", "in", "leaving"}

-----------------------------------------------------------------------------
(* What is in force, and whom it concerns *)

\* the condition of TestBan on `date_limit`
Running(k) == ends[k] = 0 \/ ends[k] >= time

\* AddTestCondition: the ip test finds every row with the address, the nick
\* test every row with the nick, so a nickip row counts for both
Concerns(k, n) ==
    CASE k[1] = "nick"   -> k[2] = n
      [] k[1] = "ip"     -> k[2] = AddrOf[n]
      [] k[1] = "nickip" -> k[2] = n \/ k[3] = AddrOf[n]
      [] k[1] = "range"  -> AddrOf[n] \in InRange
      [] k[1] = "host"   -> AddrOf[n] \in InHost
      [] k[1] = "prefix" -> n \in HasPrefix \ Registered
      [] k[1] = "share"  -> ShareBytes[n] = BanBytes

TestBan(n, kinds) ==
    \E k \in BanKeys : k[1] \in kinds /\ Concerns(k, n) /\ Running(k)

AtNick  == {"nick", "ip", "nickip", "range", "host", "prefix"}
AtShare == {"share"}

\* at $MyINFO: whoever shares something, up to eUC_REGUSER; ban_bypass_class
\* has no say here
AskedShare(n) == ShareBytes[n] > 0 /\ n \notin AboveReg

\* whether a login of n asks for bans of the kind of k at all
Asked(n, k) == IF k[1] \in AtShare THEN AskedShare(n) ELSE n \notin Bypass

-----------------------------------------------------------------------------
(* Rows *)

\* AddBan: an existing row keeps the later end, but anything is later than 0
AddedEnd(old, new) == IF old = NoBan \/ new = 0 \/ new > old THEN new ELSE old

Until(length) == IF length = 0 THEN 0 ELSE time + length

\* who is past the check and stays although key k is added now
Unmoved(k, gone) ==
    {n \in Visitors : Concerns(k, n) /\ n \notin gone /\ place[n] \in {"asked", "in"}}

\* ... and whom no command drops: who is still on the way into the list, and
\* who is meant by a kind that drops nobody or by the address of a nickip ban
Spared(k, n) ==
    \/ place[n] = "asked"
    \/ k[1] \in {"host", "prefix", "share"}
    \/ k[1] = "nickip" /\ k[2] # n

AddBan(k, end, gone) ==
    /\ Cardinality({j \in BanKeys \ {k} : ends[j] # NoBan}) < MaxRows
    /\ ends' = [ends EXCEPT ![k] = AddedEnd(@, end)]
    /\ late' = [n \in Visitors |->
                  IF n \in Unmoved(k, gone) /\ Spared(k, n) THEN late[n] \cup {k} ELSE late[n]]

\* users of the list whom the command closes: CloseNow
Closed(gone) == place' = [n \in Visitors |-> IF n \in gone THEN "leaving" ELSE place[n]]
Listed == {n \in Visitors : place[n] = "in"}

\* !bannick, !banip, !banrange ...: an address or range drops who is listed
\* from there, a nick or prefix drops the user of that very name
DropsSlip(k) == {n \in Listed : k[1] = "nick" /\ k[2] = n}  \* a slip: nicks only
Drops(k) == {n \in Listed : \/ k[1] \in {"ip", "range"} /\ Concerns(k, n)
                            \/ k[1] \in {"nick", "nickip"} /\ k[2] = n}

-----------------------------------------------------------------------------
(* Operators and plugins *)

\* a plain !ban means the address, unless the kick list knows who was dropped
\* from it (left open here): then the key is made of that record
BanCommand(k, length) ==
    /\ AddBan(k, Until(length), Drops(k))
    /\ Closed(Drops(k))
    /\ UNCHANGED <<time, tempNick, tempAddr>>

\* DCKickNick with eKI_BAN: !kick, and the reason may name a time
KickBan(n, length) ==
    LET k == <<"nickip", n, AddrOf[n]>>
    IN  /\ n \in Listed /\ k \in BanKeys
        /\ AddBan(k, Until(length), {n})
        /\ Closed({n})
        /\ UNCHANGED <<time, tempNick, tempAddr>>

\* $Ban, $TempBan and the scripts' Ban: without a length the end is now,
\* while the user is told that the ban is permanent
ProtoBan(n, length) ==
    LET k == <<"nickip", n, AddrOf[n]>>
    IN  /\ n \in Listed /\ k \in BanKeys
        /\ AddBan(k, time + length, {n})
        /\ Closed({n})
        /\ UNCHANGED <<time, tempNick, tempAddr>>

Erase(ks) ==
    /\ ends' = [k \in BanKeys |-> IF k \in ks THEN NoBan ELSE ends[k]]
    /\ UNCHANGED <<time, tempNick, tempAddr, place, late>>

RowsOfNick(n) == {k \in BanKeys : k[1] \in {"nick", "nickip"} /\ k[2] = n}
RowsOfAddr(a) == {k \in BanKeys : k = <<"ip", a>> \/ (k[1] = "nickip" /\ k[3] = a)}

\* !unban and !unbannick of a nick; !unban and !unbanip of an address
UnbanNick(n) == Erase(RowsOfNick(n))
UnbanAddr(a) == Erase(RowsOfAddr(a))
UnbanOther(k) == k \in OtherKeys /\ Erase({k})

\* !cleanban
CleanBans == Erase(BanKeys)

-----------------------------------------------------------------------------
(* Temporary bans in memory: an entry that is there is overwritten *)

RoomForTemp ==
    Cardinality({n \in Visitors : tempNick[n] # NoBan})
      + Cardinality({a \in Addrs : tempAddr[a] # NoBan}) < MaxTemp

TempBanNick(n, length) ==        \* clones
    /\ RoomForTemp \/ tempNick[n] # NoBan
    /\ tempNick' = [tempNick EXCEPT ![n] = time + length]
    /\ UNCHANGED <<time, ends, tempAddr, place, late>>
TempBanAddr(a, length) ==        \* wrong passwords, floods, clones
    /\ RoomForTemp \/ tempAddr[a] # NoBan
    /\ tempAddr' = [tempAddr EXCEPT ![a] = time + length]
    /\ UNCHANGED <<time, ends, tempNick, place, late>>

\* !deltempban of either kind
DelTempNick(n) ==
    /\ tempNick[n] # NoBan
    /\ tempNick' = [tempNick EXCEPT ![n] = NoBan]
    /\ UNCHANGED <<time, ends, tempAddr, place, late>>
DelTempAddr(a) ==
    /\ tempAddr[a] # NoBan
    /\ tempAddr' = [tempAddr EXCEPT ![a] = NoBan]
    /\ UNCHANGED <<time, ends, tempNick, place, late>>

\* RemoveOldShortTempBans: the slow timer passes the time, !cleantban a 0
OldSlip(until, before) == until # NoBan /\ until <= before + 1  \* a slip: a second early
Old(until, before) == until # NoBan /\ (before = 0 \/ until < before)
RemoveOld(before) ==
    /\ tempNick' = [n \in Visitors |-> IF Old(tempNick[n], before) THEN NoBan ELSE tempNick[n]]
    /\ tempAddr' = [a \in Addrs |-> IF Old(tempAddr[a], before) THEN NoBan ELSE tempAddr[a]]
    /\ UNCHANGED <<time, ends, place, late>>
CleanTempBans == RemoveOld(0)
SlowTimer == RemoveOld(time)

\* !cleanallban: both tables of bans
CleanAllBans ==
    /\ ends' = [k \in BanKeys |-> NoBan]
    /\ tempNick' = [n \in Visitors |-> NoBan]
    /\ tempAddr' = [a \in Addrs |-> NoBan]
    /\ UNCHANGED <<time, place, late>>

-----------------------------------------------------------------------------
(* Visitors *)

\* OnNewConn: an entry that has run out is deleted here
Connect(n) ==
    LET a == AddrOf[n]
        refused == tempAddr[a] > time
    IN  /\ place[n] = "out"
        /\ place' = IF refused THEN place ELSE [place EXCEPT ![n] = "open"]
        /\ tempAddr' = IF refused THEN tempAddr ELSE [tempAddr EXCEPT ![a] = NoBan]
        /\ UNCHANGED <<time, ends, tempNick, late>>

\* $ValidateNick: ValidateNick, then TestBan unless the class bypasses it
ValidateUser(n) ==
    LET refused == tempNick[n] > time
        banned == n \notin Bypass /\ TestBan(n, AtNick)
    IN  /\ place[n] = "open"
        /\ tempNick' = IF refused THEN tempNick ELSE [tempNick EXCEPT ![n] = NoBan]
        /\ place' = [place EXCEPT ![n] = IF refused \/ banned THEN "out" ELSE "asked"]
        /\ late' = [late EXCEPT ![n] = {}]
        /\ UNCHANGED <<time, ends, tempAddr>>

\* the first $MyINFO: the share, then DoUserLogin
Login(n) ==
    LET banned == AskedShare(n) /\ TestBan(n, AtShare)
    IN  /\ place[n] = "asked"
        /\ place' = [place EXCEPT ![n] = IF banned THEN "leaving" ELSE "in"]
        /\ tempNick' = IF ~banned /\ IntLogin > 0
                       THEN [tempNick EXCEPT ![n] = time + IntLogin] ELSE tempNick
        /\ late' = [late EXCEPT ![n] = {k \in @ : k[1] # "share"}]
        /\ UNCHANGED <<time, ends, tempAddr>>

Depart(n) ==
    /\ place[n] # "out"
    /\ place' = [place EXCEPT ![n] = "out"]
    /\ late' = [late EXCEPT ![n] = {}]
    /\ UNCHANGED <<time, ends, tempNick, tempAddr>>

\* the hub ends and starts again; Cleanup deletes what ran out long ago
RestartBans ==
    /\ ends' = [k \in BanKeys |-> IF ends[k] > 0 /\ ends[k] < time - KeepRows THEN NoBan ELSE ends[k]]
    /\ tempNick' = [n \in Visitors |-> NoBan]
    /\ tempAddr' = [a \in Addrs |-> NoBan]
    /\ place' = [n \in Visitors |-> "out"]
    /\ late' = [n \in Visitors |-> {}]
    /\ UNCHANGED <<time>>

Second ==
    /\ time < EndOfTime
    /\ time' = time + 1
    /\ UNCHANGED <<ends, tempNick, tempAddr, place, late>>

-----------------------------------------------------------------------------
BansInit ==
    /\ time = 1
    /\ ends = [k \in BanKeys |-> NoBan]
    /\ tempNick = [n \in Visitors |-> NoBan]
    /\ tempAddr = [a \in Addrs |-> NoBan]
    /\ place = [n \in Visitors |-> "out"]
    /\ late = [n \in Visitors |-> {}]

BansNext ==
    \/ \E n \in Visitors : \/ Connect(n)
                           \/ ValidateUser(n)
                           \/ Login(n)
                           \/ Depart(n)
                           \/ UnbanNick(n)
                           \/ DelTempNick(n)
    \/ \E n \in Visitors, length \in Lengths : \/ KickBan(n, length)
                                               \/ ProtoBan(n, length)
    \/ \E n \in Visitors, length \in TempLengths : TempBanNick(n, length)
    \/ \E a \in Addrs : UnbanAddr(a) \/ DelTempAddr(a)
    \/ \E a \in Addrs, length \in TempLengths : TempBanAddr(a, length)
    \/ \E k \in BanKeys, length \in Lengths : BanCommand(k, length)
    \/ \E k \in BanKeys : UnbanOther(k)
    \/ CleanBans
    \/ CleanTempBans
    \/ CleanAllBans
    \/ SlowTimer
    \/ RestartBans
    \/ Second

BansSpec == BansInit /\ [][BansNext]_bansVars

-----------------------------------------------------------------------------
BansTypeOK ==
    /\ time \in Nat
    /\ ends \in [BanKeys -> Nat \cup {NoBan}]
    /\ tempNick \in [Visitors -> Nat \cup {NoBan}]
    /\ tempAddr \in [Addrs -> Nat \cup {NoBan}]
    /\ place \in [Visitors -> Places]
    /\ late \in [Visitors -> SUBSET BanKeys]

(***************************************************************************)
(* Nobody is in the hub against a running ban, but who was already past    *)
(* the check when it was given: a login between $ValidateNick and the      *)
(* list is not dropped (only the user list is searched) and not asked      *)
(* again, and a prefix, host or share ban, or the address of a nickip ban, *)
(* drops nobody.  Everything else (a ban given to listed users, a login    *)
(* after it, a row extended, reused or cleaned up) keeps the banned out.   *)
(* That a kind of ban is not meant for somebody (a share of nothing, a     *)
(* share of a class above eUC_REGUSER, any other ban of ban_bypass_class)  *)
(* is part of it.                                                          *)
(***************************************************************************)
BannedStayOut ==
    \A n \in Listed : \A k \in BanKeys :
        Asked(n, k) /\ Concerns(k, n) /\ Running(k) => k \in late[n]

(***************************************************************************)
(* A running ban is taken back by an unban or a clean-up only: giving it   *)
(* again for a shorter time, a restart or Cleanup leave its end.  (The one *)
(* exception is this code's own: a permanent ban given again for a time    *)
(* becomes temporary, since 0 compares as earlier.)  And the two ways in   *)
(* which temporary bans disappear agree with each other: neither the       *)
(* lookup's deletion of what has run out nor the timer's sweep removes an  *)
(* entry whose time is not over.                                           *)
(***************************************************************************)
RowKept(k) ==
    ends[k] # NoBan /\ Running(k) =>
      \/ ends'[k] >= ends[k]
      \/ ends'[k] = 0
      \/ CleanBans \/ CleanAllBans
      \/ UnbanOther(k)
      \/ k[1] \in {"nick", "nickip"} /\ UnbanNick(k[2])
      \/ k[1] = "ip" /\ UnbanAddr(k[2])
      \/ k[1] = "nickip" /\ UnbanAddr(k[3])

AllTempGone == CleanTempBans \/ CleanAllBans \/ RestartBans
TempKept ==
    /\ \A n \in Visitors :
         tempNick[n] > time => tempNick'[n] # NoBan \/ DelTempNick(n) \/ AllTempGone
    /\ \A a \in Addrs :
         tempAddr[a] > time => tempAddr'[a] # NoBan \/ DelTempAddr(a) \/ AllTempGone
BansKept == [][TempKept /\ \A k \in BanKeys : RowKept(k)]_bansVars

(***************************************************************************)
(* Who is told "You are permanently banned from the hub" ($Ban, $TempBan   *)
(* without a time) gets a ban that does not end.                           *)
(***************************************************************************)
PermanentAsTold ==
    [][\A n \in Visitors :
         ProtoBan(n, 0) => ends'[<<"nickip", n, AddrOf[n]>>] = 0]_bansVars
=============================================================================
