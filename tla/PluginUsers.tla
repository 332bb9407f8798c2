----------------------------- MODULE PluginUsers -----------------------------
(***************************************************************************)
(* Plugins that follow the users of the hub by its callbacks: floodprot    *)
(* counts the connections and users of an address and the actions it       *)
(* makes, chatroom keeps the members of its rooms, messenger keeps mail    *)
(* for users who are away.  What the hub does with connections is in       *)
(* HubLogin; here only the order of the callbacks matters:                 *)
(*   OnNewConn, OnUserInList, OnUserLogin, OnCloseConn, OnUserLogout,      *)
(* of which OnUserLogin is left out when a plugin refuses at OnUserInList. *)
(***************************************************************************)
EXTENDS Integers, FiniteSets, FiniteSetsExt

CONSTANTS
    Guests,         \* nicks of users
    Addresses, AddressOf,   \* guest -> address
    ClassIn,        \* guest -> class
    MaxGuests,      \* pi_floodprot.max_users_per_ip
    Burst,          \* actions that are judged together (10)
    Fast, Slow,     \* seconds below which they are a flood, or too quick (10, 30)
    Forget,         \* seconds after which an address is forgotten (30)
    SyncEvery,      \* seconds between two updates of messenger (30)
    MailLife,       \* a week
    MaxClock, MaxMail    \* bounds: seconds, messages

Operator == 3

ASSUME PluginUsersAssumption ==
    /\ IsFiniteSet(Guests)
    /\ AddressOf \in [Guests -> Addresses] /\ ClassIn \in [Guests -> Nat]
    /\ MaxGuests \in Nat \ {0} /\ {Burst, Fast, Slow} \subseteq Nat \ {0}
    /\ Fast <= Slow /\ Forget \in Nat /\ SyncEvery \in Nat \ {0}
    /\ MailLife \in Nat /\ MaxClock \in Nat \ {0} /\ MaxMail \in Nat \ {0}

VARIABLES
    place,      \* guest -> "away", "open" (a connection), "listed" or "in"
    ending,     \* guests whose connection will be deleted
    plugs,      \* plugins that are loaded
    points,     \* mConnCounter; an address that is not in it has 0
    unseen,     \* history: addresses of which floodprot missed a callback
    acts,       \* address -> {} or {its sUserInfo}
    banned,     \* addresses banned by floodprot
    burst,      \* history: actions of an address let through in this second
    room,       \* {} or {the room}
    box,        \* pi_messages
    cache, lastUpdate, lastSync, syncIn,   \* mCache (no messenger: no cache, 0) and mReloadTimer
    clock, sent,    \* seconds; messages so far
    mailed,     \* history: messages saved, and those that were delivered
    got, overlooked    \* history: mail that the cache will not know of

connVars == <<place, ending>>
floodVars == <<points, unseen, acts, banned, burst>>
mailVars == <<box, cache, lastUpdate, lastSync, syncIn, clock, sent, mailed, got, overlooked>>
guestsVars == <<connVars, plugs, floodVars, room, mailVars>>

In == {g \in Guests : place[g] \in {"listed", "in"}}
Of(a) == {g \in Guests : AddressOf[g] = a}
\* a point for every connection, and one for every user
Owed(a) == Cardinality({g \in Of(a) : place[g] # "away"})
           + Cardinality({g \in Of(a) : place[g] = "in"})

-----------------------------------------------------------------------------
(* floodprot: points *)

\* AddConn: nothing is taken from an address that has no counter
Points(a, d) == IF points[a] + d < 0 THEN 0 ELSE points[a] + d
AddConn(g, d) ==
    points' = IF "floodprot" \in plugs
              THEN [points EXCEPT ![AddressOf[g]] = Points(AddressOf[g], d)] ELSE points
Exceeds(g) == "floodprot" \in plugs /\ points[AddressOf[g]] + 1 > 2 * MaxGuests

-----------------------------------------------------------------------------
(* messenger: mail *)

For(g) == {m \in box : m.to = g}
IsLoaded == cache # {}
CountMessages(g) == IF IsLoaded /\ g \notin cache THEN 0 ELSE Cardinality(For(g))

\* DeliverMessagesForUser: all are shown, then those up to the latest are deleted
DeletedFor(g, ms) == {m \in ms : m.to = g}
DeliverMessagesForUser(g) ==
    LET mine == For(g) IN
    /\ box' = box \ DeletedFor(g, {m \in box : m.at <= Max({x.at : x \in mine})})
    /\ got' = got \cup mine
MailOnLogin(g) ==
    IF "messenger" \in plugs /\ CountMessages(g) > 0
    THEN DeliverMessagesForUser(g) ELSE UNCHANGED <<box, got>>

-----------------------------------------------------------------------------
(* chatroom: rooms *)

IsUserAutoJoin(r, g) == r.from <= ClassIn[g] /\ ClassIn[g] <= r.upto
Joined(g) == {IF IsUserAutoJoin(r, g) THEN [r EXCEPT !.members = @ \cup {g}] ELSE r : r \in room}
AutoJoin(g) == room' = Joined(g)

\* OnUserLogout removes the user from every room
LeftSlip(g) ==      \* a slip: who was invited is forgotten
    {IF IsUserAutoJoin(r, g) THEN [r EXCEPT !.members = @ \ {g}] ELSE r : r \in room}
Left(g) == {[r EXCEPT !.members = @ \ {g}] : r \in room}

-----------------------------------------------------------------------------
(* The hub calls *)

\* OnNewConn: who is refused is told so, and deleted like any other
Connects(g) ==
    /\ place[g] = "away" /\ place' = [place EXCEPT ![g] = "open"]
    /\ AddConn(g, 1)
    /\ ending' = IF Exceeds(g) THEN ending \cup {g} ELSE ending
    /\ UNCHANGED <<plugs, unseen, acts, banned, burst, room, mailVars>>

\* DoUserLogin; another plugin may refuse the user who is already in the list
EntersList(g) ==
    /\ place[g] = "open" /\ g \notin ending /\ place' = [place EXCEPT ![g] = "listed"]
    /\ ending' \in {ending, ending \cup {g}}
    /\ UNCHANGED <<plugs, floodVars, room, mailVars>>

\* AfterUserLogin calls every plugin, whatever the others say
LogsIn(g) ==
    /\ place[g] = "listed" /\ g \notin ending /\ place' = [place EXCEPT ![g] = "in"]
    /\ AddConn(g, 1)
    /\ ending' = IF Exceeds(g) THEN ending \cup {g} ELSE ending
    /\ IF room # {} THEN AutoJoin(g) ELSE UNCHANGED room
    /\ MailOnLogin(g)
    /\ UNCHANGED <<plugs, unseen, acts, banned, burst, cache, lastUpdate, lastSync, syncIn,
                   clock, sent, mailed, overlooked>>

Ends(g) == place[g] # "away" /\ ending' = ending \cup {g}
        /\ UNCHANGED <<place, plugs, floodVars, room, mailVars>>

\* DeleteConn: OnCloseConn, and OnUserLogout for a user in the list
Taken(g) == IF g \in In THEN -2 ELSE -1
DeleteConn(g) ==
    /\ g \in ending /\ ending' = ending \ {g} /\ place' = [place EXCEPT ![g] = "away"]
    /\ AddConn(g, Taken(g))
    /\ unseen' = IF place[g] = "listed" THEN unseen \cup {AddressOf[g]} ELSE unseen
    /\ room' = IF g \in In THEN Left(g) ELSE room
    /\ UNCHANGED <<plugs, acts, banned, burst, mailVars>>

\* cpiMessanger::OnLoad: a new tCache is empty, and both its times are now
OpensBox ==
    /\ box' = {m \in box : m.at + MailLife >= clock} /\ overlooked' = box'
    /\ lastUpdate' = clock /\ lastSync' = clock /\ syncIn' = SyncEvery

\* !onplug, !offplug: what the plugin kept in memory is new; chatroom lets
\* everyone in who is in the list
Loads(p) ==
    /\ p \notin plugs /\ plugs' = plugs \cup {p}
    /\ p = "messenger" => OpensBox
    /\ p # "messenger" => UNCHANGED <<box, overlooked, lastUpdate, lastSync, syncIn>>
    /\ p = "chatroom" => room' = {[from |-> 1, upto |-> 2, min |-> 1,
                             members |-> {g \in In : 1 <= ClassIn[g] /\ ClassIn[g] <= 2}]}
    /\ p # "chatroom" => UNCHANGED room
    /\ unseen' = IF p = "floodprot" THEN {a \in Addresses : Owed(a) > 0} ELSE unseen
    /\ UNCHANGED <<connVars, points, acts, banned, burst, cache, clock, sent, mailed, got>>
Unloads(p) ==
    /\ p \in plugs /\ plugs' = plugs \ {p}
    /\ IF p = "floodprot"
       THEN /\ points' = [a \in Addresses |-> 0] /\ acts' = [a \in Addresses |-> {}]
            /\ burst' = [a \in Addresses |-> 0]
       ELSE UNCHANGED <<points, acts, burst>>
    /\ IF p = "chatroom" THEN room' = {} ELSE UNCHANGED room
    /\ IF p = "messenger"
       THEN cache' = {} /\ lastUpdate' = 0 /\ lastSync' = 0 /\ overlooked' = {}
       ELSE UNCHANGED <<cache, lastUpdate, lastSync, overlooked>>
    /\ UNCHANGED <<connVars, unseen, banned, box, syncIn, clock, sent, mailed, got>>

-----------------------------------------------------------------------------
(* floodprot: actions *)

New == [count |-> 0, elapsed |-> 0, idle |-> 0, off |-> FALSE]
Began(i) == [count |-> 0, elapsed |-> 0, idle |-> 0, off |-> i.off]
Counted(i) == [i EXCEPT !.count = @ + 1, !.elapsed = @ + i.idle, !.idle = 0]
Judged(i) == Counted(i).count = Burst

\* CheckFlood(conn): what comes of the action
Outcome(g) ==
    LET a == AddressOf[g] IN
    IF ClassIn[g] >= Operator \/ acts[a] = {} THEN "passes"
    ELSE LET i == CHOOSE x \in acts[a] : TRUE IN
         IF i.off THEN "dropped" ELSE
         IF ~Judged(i) THEN "passes" ELSE
         IF Counted(i).elapsed < Fast THEN "flood" ELSE
         IF Counted(i).elapsed < Slow THEN "closed" ELSE "slow"
Noted(g) ==
    LET i == CHOOSE x \in acts[AddressOf[g]] : TRUE
        o == Outcome(g)
    IN  IF ClassIn[g] >= Operator \/ o = "dropped" THEN acts[AddressOf[g]]
        ELSE IF acts[AddressOf[g]] = {} THEN {New}
        ELSE IF o = "passes" THEN {Counted(i)}
        ELSE {[Began(i) EXCEPT !.off = (o = "flood")]}
\* KickAll: every user in the list who comes from there
KickAll(a) == Of(a) \cap In
CheckFlood(g) ==
    LET a == AddressOf[g] IN
    /\ "floodprot" \in plugs /\ place[g] = "in" /\ g \notin ending
    /\ ClassIn[g] < Operator => burst[a] <= 2 * Burst     \* bound of the history
    /\ acts' = [acts EXCEPT ![a] = Noted(g)]
    /\ ending' = ending \cup CASE Outcome(g) = "flood" -> KickAll(a)
                               [] Outcome(g) = "closed" -> {g} [] OTHER -> {}
    /\ banned' = IF Outcome(g) = "flood" THEN banned \cup {a} ELSE banned
    /\ burst' = IF ClassIn[g] < Operator /\ Outcome(g) \in {"passes", "slow"}
                THEN [burst EXCEPT ![a] = @ + 1] ELSE burst
    /\ UNCHANGED <<place, plugs, points, unseen, room, mailVars>>

\* OnTimer: an address idle for so long is forgotten, whatever it had done
Idler(i) == [i EXCEPT !.idle = IF @ > Forget THEN @ ELSE @ + 1]
CleanUp(is) == {i \in is : i.idle <= Forget}
FloodSecond ==
    /\ acts' = [a \in Addresses |-> IF "floodprot" \in plugs
                    THEN CleanUp({Idler(i) : i \in acts[a]}) ELSE acts[a]]
    /\ burst' = [a \in Addresses |-> 0]
    /\ UNCHANGED <<connVars, plugs, points, unseen, banned, room, mailVars>>

-----------------------------------------------------------------------------
(* chatroom: messages to the room and its orders *)

IsUserAllowed(r, g) == ClassIn[g] >= r.min
MayTell(r, g) == g \in r.members \/ IsUserAllowed(r, g)
MemberSays(g, Op(_)) ==
    \E r \in room : /\ g \in In \ ending /\ MayTell(r, g)
                    /\ room' = {Op([r EXCEPT !.members = @ \cup {g}])}
    /\ UNCHANGED <<connVars, plugs, floodVars, mailVars>>
ReceiveMsg(g) == MemberSays(g, LAMBDA r : r)
cfLeave(g) == MemberSays(g, LAMBDA r : [r EXCEPT !.members = @ \ {g}])
cfInvite(g, h) == h \in In \ {g} /\ MemberSays(g, LAMBDA r : [r EXCEPT !.members = @ \cup {h}])
cfOut(g, h) ==
    /\ h \in In \ {g} /\ ClassIn[h] <= ClassIn[g]
    /\ \A r \in room : h \in r.members
    /\ MemberSays(g, LAMBDA r : [r EXCEPT !.members = @ \ {h}])

\* !addroom, !modroom, !delroom; a new room is empty, whoever is in the hub, and
\* whom a room would let in now is not looked up again
AddsRoom ==
    /\ "chatroom" \in plugs /\ room = {}
    /\ room' = {[from |-> 1, upto |-> 2, min |-> 1, members |-> {}]}
    /\ UNCHANGED <<connVars, plugs, floodVars, mailVars>>
ModsRoom(c) ==
    /\ room # {} /\ room' = {[r EXCEPT !.from = c, !.upto = c] : r \in room}
    /\ UNCHANGED <<connVars, plugs, floodVars, mailVars>>
DelsRoom ==
    /\ room # {} /\ room' = {}
    /\ UNCHANGED <<connVars, plugs, floodVars, mailVars>>

-----------------------------------------------------------------------------
(* messenger: orders and the timer *)

\* SavePK ignores a second message of the sender in one second (the key)
Saved(m) == IF \E x \in box : x.by = m.by /\ x.at = m.at THEN box ELSE box \cup {m}
\* +msgsend: to a user at once, for the others it is saved
SendsMail(g, to) ==
    LET m == [id |-> sent, by |-> g, to |-> to, at |-> clock] IN
    /\ "messenger" \in plugs /\ place[g] = "in" /\ g \notin ending
    /\ sent < MaxMail /\ sent' = sent + 1
    /\ to \in Guests \ In      \* who is here is told at once
    /\ box' = Saved(m) /\ mailed' = mailed \cup {m}
    /\ cache' = IF IsLoaded THEN cache \cup {to} ELSE cache
    /\ overlooked' = IF ~IsLoaded /\ lastUpdate = clock
                     THEN overlooked \cup {m} ELSE overlooked
    /\ UNCHANGED <<connVars, plugs, floodVars, room, lastUpdate, lastSync, syncIn, clock, got>>

\* OnTimer: mCache.Update asks for what is newer than the last update, then
\* what came since the last sync goes to those who are here
NewRows == {m \in box : m.at > lastUpdate}
SinceSync == {m \in box : m.at >= lastSync /\ m.to \in In}
UpdateCache ==
    /\ cache' = cache \cup {m.to : m \in NewRows} /\ lastUpdate' = clock
    /\ box' = box \ SinceSync /\ got' = got \cup SinceSync
    /\ lastSync' = clock /\ syncIn' = SyncEvery
Syncs ==
    /\ "messenger" \in plugs /\ syncIn = 0 /\ UpdateCache
    /\ UNCHANGED <<connVars, plugs, floodVars, room, clock, sent, mailed, overlooked>>
MailSecond ==
    /\ clock < MaxClock /\ clock' = clock + 1
    /\ "messenger" \in plugs => syncIn > 0
    /\ syncIn' = IF syncIn > 0 THEN syncIn - 1 ELSE 0
    /\ UNCHANGED <<connVars, plugs, floodVars, room, box, cache, lastUpdate, lastSync,
                   sent, mailed, got, overlooked>>

-----------------------------------------------------------------------------
GuestsInit ==
    /\ place = [g \in Guests |-> "away"] /\ ending = {} /\ plugs \in {{}, {"floodprot"}}
    /\ points = [a \in Addresses |-> 0] /\ unseen = {} /\ acts = [a \in Addresses |-> {}]
    /\ banned = {} /\ burst = [a \in Addresses |-> 0]
    /\ room = {} /\ box = {} /\ cache = {} /\ lastUpdate = 0 /\ lastSync = 0
    /\ syncIn = 0 /\ clock = 1 /\ sent = 1 /\ mailed = {} /\ got = {} /\ overlooked = {}

ComesAndGoes(g) == Connects(g) \/ EntersList(g) \/ LogsIn(g) \/ Ends(g) \/ DeleteConn(g)
Switches(p) == Loads(p) \/ Unloads(p)
FloodSteps == FloodSecond \/ \E g \in Guests : CheckFlood(g)
RoomSteps ==
    \/ AddsRoom \/ DelsRoom \/ \E c \in 1 .. Operator : ModsRoom(c)
    \/ \E g \in Guests : ReceiveMsg(g) \/ cfLeave(g)
    \/ \E g, h \in Guests : cfInvite(g, h) \/ cfOut(g, h)
MailSteps(senders) ==
    \/ MailSecond \/ Syncs
    \/ \E g \in senders, to \in Guests : SendsMail(g, to)

Followers == {"floodprot", "chatroom", "messenger"}
GuestsNext ==
    \/ \E p \in Followers : Switches(p)
    \/ \E g \in Guests : ComesAndGoes(g)
    \/ FloodSteps \/ RoomSteps \/ MailSteps(Guests)
GuestsSpec == GuestsInit /\ [][GuestsNext]_guestsVars

-----------------------------------------------------------------------------
GuestsTypeOK ==
    /\ place \in [Guests -> {"away", "open", "listed", "in"}] /\ ending \subseteq Guests
    /\ plugs \subseteq {"floodprot", "chatroom", "messenger"}
    /\ points \in [Addresses -> 0 .. 2 * Cardinality(Guests)]
    /\ Cardinality(room) <= 1 /\ clock \in 1 .. MaxClock /\ sent \in 1 .. MaxMail
    /\ \A m \in box \cup mailed \cup got : m.by \in Guests

(***************************************************************************)
(* No address has more points than it has connections and users, so that   *)
(* nobody is refused for those who left; and it has all of them if         *)
(* floodprot was there from the first one on, until a user leaves who was  *)
(* refused in the list: his logout takes a point that he never got.        *)
(***************************************************************************)
PointsRight ==
    \A a \in Addresses :
        /\ points[a] <= Owed(a)
        /\ "floodprot" \in plugs /\ a \notin unseen => points[a] = Owed(a)

(***************************************************************************)
(* Of one address less than two bursts pass within a second: the counter   *)
(* comes to Burst, and either what passed was slow and it starts anew, or  *)
(* the address is cut off.  The first action of all is not counted.        *)
(***************************************************************************)
BurstStopped == \A a \in Addresses : burst[a] <= 2 * Burst

(***************************************************************************)
(* The members of a room are users of the hub, at any time: cRoom keeps    *)
(* pointers to them, which OnUserLogout has to remove.                     *)
(***************************************************************************)
RoomsRight == \A r \in room : r.members \subseteq In

(***************************************************************************)
(* Mail that messenger said was saved is in the table or has reached its   *)
(* receiver, has run out, or came in the second of another one of its      *)
(* sender; and, once the cache is in use, none waits for somebody it does  *)
(* not know of, except what was there when messenger was loaded, and what  *)
(* was saved in the second of the last update or of the load.  (The cache  *)
(* is never loaded from the table: old mail is found only until newer mail *)
(* fills the cache, for CountMessages then says 0 of it.)                  *)
(***************************************************************************)
MailKept ==
    \A m \in mailed : \/ m \in box \cup got \/ m.at + MailLife < clock
                      \/ \E x \in mailed \ {m} : x.by = m.by /\ x.at = m.at
MailFound ==
    "messenger" \in plugs /\ IsLoaded =>
        \A m \in box : m.to \in cache \/ m \in overlooked

(***************************************************************************)
(* What these plugins keep about users is true of the users in the hub.    *)
(***************************************************************************)
GuestsServed == PointsRight /\ BurstStopped /\ RoomsRight /\ MailKept /\ MailFound
=============================================================================
