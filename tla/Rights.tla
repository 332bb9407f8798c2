------------------------------- MODULE Rights -------------------------------
(***************************************************************************)
(* Temporary restrictions and rights: the table `temp_rights`              *)
(* (cPenaltyList), the cache of its nicks (tCache), the fields of the      *)
(* users who are online (cUser::SetRight, Can, ApplyRights) and the        *)
(* operator's commands that touch all three (cDCConsole::cfGag, cfKick,    *)
(* cfClean).                                                               *)
(*                                                                         *)
(* A field holds a time.  A restriction holds until that time, 1 stands    *)
(* for "not restricted" and 0 for "restricted for good", which is what     *)
(* $MyINFO sets when the share is too small.  A privilege holds until that *)
(* time and 1 stands for "never".  The nick's row of the table and the     *)
(* user's own fields are two copies that every order has to keep together. *)
(***************************************************************************)
EXTENDS Integers, FiniteSets

CONSTANTS
    PenNicks,      \* nicks the orders are about
    Restrictions,  \* restricted by a time: "chat", "pm", "search", "ctm"
    Privileges,    \* granted by a time: "opchat", "kick", "reg", "noshare"
    UseFields,     \* what the second share limit takes away: search, ctm
    Pingers,       \* nicks whose account is a pinger's
    Periods,       \* lengths an operator may give, in clock ticks
    LastTime,      \* bound: the clock stops here
    MaySwitchCache \* whether use_penlist_cache is switched while running

PenFields == Restrictions \cup Privileges
Groups == {{f} : f \in PenFields} \cup ({{"chat", "pm"}} \cap SUBSET PenFields)

ASSUME RightsAssumption ==
    /\ UseFields \subseteq Restrictions
    /\ Restrictions \cap Privileges = {}
    /\ Pingers \subseteq PenNicks
    /\ Periods \subseteq Nat \ {0}
    /\ LastTime \in Nat
    /\ MaySwitchCache \in BOOLEAN

VARIABLES
    clock,      \* mTime
    row,        \* temp_rights: nick -> its fields, or NoRow
    cached,     \* hashes of nicks in cPenaltyList::mCache
    cacheOn,    \* mC.use_penlist_cache
    rights,     \* nick -> mGag, mNoPM ... of the user online, or Away
    opchat,     \* mOpchatList
    gap,        \* history: rows the cache missed when it was switched on
    missed,     \* history: users online who were looked up through the gap
    shorter     \* history: the latest order asked for less than is stored

rightsVars ==
    <<clock, row, cached, cacheOn, rights, opchat, gap, missed, shorter>>

NoRow == [f \in {} |-> 0]
Away  == [f \in {} |-> 0]
Fresh == [f \in PenFields |-> 1]                    \* sPenalty()
Online(n) == rights[n] # Away
Stored == {n \in PenNicks : row[n] # NoRow}

(***************************************************************************)
(* cUser::Can for a class that has none of the rights by itself.           *)
(***************************************************************************)
CanDo(pen, f) == IF f \in Restrictions THEN pen[f] # 0 /\ pen[f] <= clock
                                       ELSE pen[f] = 0 \/ pen[f] >= clock

-----------------------------------------------------------------------------
(* The table and its cache *)

\* cPenaltyList::LoadTo: with the cache on, only a cached nick is looked up
ServedSlip(n) == cacheOn /\ n \in cached   \* a slip: only the cache is asked
Served(n) == ~cacheOn \/ n \in cached
Loaded(n) == Served(n) /\ row[n] # NoRow
LoadTo(n) == IF Loaded(n) THEN row[n] ELSE Fresh

Larger(a, b) == [f \in PenFields |-> IF a[f] > b[f] THEN a[f] ELSE b[f]]

\* AddPenalty stores the later of the two times, field by field
Added(n, pen) == IF row[n] = NoRow THEN pen ELSE Larger(pen, row[n])

\* and a row that is new goes to the cache first
Noted(n) == IF row[n] = NoRow /\ cacheOn THEN cached \cup {n} ELSE cached

\* RemPenalty resets what has run out, and keeps the row for what has not
Reset1Slip(n, pen) == [f \in {g \in PenFields : pen[g] < clock} |-> 1]  \* a slip: drops the rest
Reset1(n, pen) == [f \in PenFields |-> IF pen[f] < clock THEN 1 ELSE row[n][f]]
KeepsRow(n, pen) == row[n] # NoRow /\ \E f \in PenFields : pen[f] >= clock

Rows(r) == {n \in PenNicks : r[n] # NoRow}
\* ReloadCache, called when the cache is used
Reloaded(r) == IF cacheOn THEN Rows(r) ELSE cached
\* the rows still out of the cache
Unseen(r, c) == (gap \cap Rows(r)) \ c

-----------------------------------------------------------------------------
(* Users come and go *)

LimitShare(pen, low) == [f \in PenFields |-> IF low /\ f \in UseFields THEN 0 ELSE pen[f]]

\* cUser::cUser and Register: a pinger may not chat, search or download
NewUser(n) == [f \in PenFields |-> IF n \in Pingers /\ f \in Restrictions THEN 0 ELSE 1]

\* the first $MyINFO, then DoUserLogin and AddToList
EnterHub(n) ==
    /\ ~Online(n)
    /\ \E low \in BOOLEAN :
         LET applied == n \notin Pingers /\ Loaded(n)
             pen == IF applied THEN LoadTo(n) ELSE LimitShare(NewUser(n), low)
         IN  /\ rights' = [rights EXCEPT ![n] = pen]
             /\ opchat' = IF "opchat" \in PenFields /\ CanDo(pen, "opchat")
                          THEN opchat \cup {n} ELSE opchat
    /\ missed' = IF n \in gap THEN missed \cup {n} ELSE missed
    /\ shorter' = {s \in shorter : s[1] # n}
    /\ UNCHANGED <<clock, row, cached, cacheOn, gap>>

LeaveHub(n) ==
    /\ Online(n)
    /\ rights' = [rights EXCEPT ![n] = Away]
    /\ opchat' = opchat \ {n}
    /\ missed' = missed \ {n}
    /\ UNCHANGED <<clock, row, cached, cacheOn, gap, shorter>>

\* a later $MyINFO, with a share below the second limit
ShareDrops(n) ==
    /\ Online(n)
    /\ rights' = [rights EXCEPT ![n] = LimitShare(@, TRUE)]
    /\ UNCHANGED <<clock, row, cached, cacheOn, opchat, gap, missed, shorter>>

-----------------------------------------------------------------------------
(* The operator's orders *)

\* the user online, if there is one, gets what the operator asked for
Apply(n, pen, fs, lifts) ==
    /\ rights' = IF Online(n) THEN [rights EXCEPT ![n] = pen] ELSE rights
    /\ opchat' = IF Online(n) /\ "opchat" \in fs
                 THEN IF lifts THEN opchat \ {n} ELSE opchat \cup {n}
                 ELSE opchat
    /\ missed' = IF Online(n) /\ n \in gap THEN missed \cup {n} ELSE missed

\* !gag, !nopm, !nochats, !nodl ... nick period; !gag of the kick menu
Order(n, fs, period) ==
    LET until == clock + period
        pen == [f \in PenFields |-> IF f \in fs THEN until ELSE LoadTo(n)[f]]
        new == Added(n, pen)
    IN  /\ row' = [row EXCEPT ![n] = new]      \* in the future: ToKeepIt
        /\ cached' = Noted(n)
        /\ gap' = Unseen(row', cached')
        /\ shorter' = {s \in shorter : s[1] # n}
                        \cup {<<n, f>> : f \in {g \in fs : new[g] > until}}
        /\ Apply(n, pen, fs, FALSE)
        /\ UNCHANGED <<clock, cacheOn>>

\* the row cannot be saved: the operator is told, the user is left alone
OrderFails(n) ==
    /\ cached' = Noted(n)
    /\ gap' = Unseen(row, cached')
    /\ UNCHANGED <<clock, row, cacheOn, rights, opchat, missed, shorter>>

\* !ungag, !unnopm, !unnochats, !unnodl ... nick
Lift(n, fs) ==
    LET pen == [f \in PenFields |-> IF f \in fs THEN 1 ELSE LoadTo(n)[f]]
        keep == KeepsRow(n, pen)
    IN  /\ row' = [row EXCEPT ![n] = IF keep THEN Reset1(n, pen) ELSE NoRow]
        /\ cached' = IF keep THEN cached ELSE Reloaded(row')
        /\ gap' = Unseen(row', cached')
        /\ shorter' = {s \in shorter : s[1] # n}
        /\ Apply(n, pen, fs, TRUE)
        /\ UNCHANGED <<clock, cacheOn>>

\* !cleantrights
CleanRights ==
    /\ row' = [n \in PenNicks |-> NoRow]
    /\ cached' = {}
    /\ gap' = Unseen(row', cached')
    /\ UNCHANGED <<clock, cacheOn, rights, opchat, missed, shorter>>

\* !cleanallban with clean_gags_cleanbans: whole rows go, whatever else is in them
CleanType(types) ==
    /\ row' = [n \in PenNicks |->
                 IF row[n] # NoRow /\ \E f \in types \cap PenFields : row[n][f] > 1
                 THEN NoRow ELSE row[n]]
    /\ gap' = Unseen(row', cached)
    /\ UNCHANGED <<clock, cached, cacheOn, rights, opchat, missed, shorter>>

-----------------------------------------------------------------------------
(* The hub *)

\* OnTimer, every timer_reloadcfg_period, and !reload
UpdateCache ==
    /\ cacheOn
    /\ cached' = cached \cup Stored
    /\ gap' = Unseen(row, cached')
    /\ UNCHANGED <<clock, row, cacheOn, rights, opchat, missed, shorter>>

\* !set use_penlist_cache: nothing is loaded before the next UpdateCache
SwitchCache ==
    /\ MaySwitchCache
    /\ cacheOn' = ~cacheOn
    /\ gap' = IF cacheOn THEN {} ELSE Stored \ cached
    /\ UNCHANGED <<clock, row, cached, rights, opchat, missed, shorter>>

\* the process ends and starts again: the table is all there is left
CleanedUpSlip(r) ==                       \* a slip: "or" for "and"
    [n \in PenNicks |->
       IF r[n] # NoRow /\ \E f \in PenFields : r[n][f] < clock THEN NoRow ELSE r[n]]
CleanedUp(r) ==
    [n \in PenNicks |->
       IF r[n] # NoRow /\ \A f \in PenFields : r[n][f] < clock THEN NoRow ELSE r[n]]
RestartHub ==
    /\ row' = CleanedUp(row)
    /\ cached' = IF cacheOn THEN Rows(row') ELSE {}
    /\ rights' = [n \in PenNicks |-> Away]
    /\ opchat' = {}
    /\ gap' = {}
    /\ missed' = {}
    /\ shorter' = {}
    /\ UNCHANGED <<clock, cacheOn>>

Tick ==
    /\ clock < LastTime
    /\ clock' = clock + 1
    /\ UNCHANGED <<row, cached, cacheOn, rights, opchat, gap, missed, shorter>>

-----------------------------------------------------------------------------
RightsInit ==
    /\ clock = 2
    /\ row = [n \in PenNicks |-> NoRow]
    /\ cached = {}
    /\ cacheOn \in {TRUE} \cup (IF MaySwitchCache THEN {FALSE} ELSE {})
    /\ rights = [n \in PenNicks |-> Away]
    /\ opchat = {}
    /\ gap = {}
    /\ missed = {}
    /\ shorter = {}

RightsNext ==
    \/ \E n \in PenNicks : \/ EnterHub(n)
                           \/ LeaveHub(n)
                           \/ ShareDrops(n)
    \/ \E n \in PenNicks, fs \in Groups, p \in Periods : Order(n, fs, p)
    \/ \E n \in PenNicks : OrderFails(n)
    \/ \E n \in PenNicks, fs \in Groups : Lift(n, fs)
    \/ CleanRights
    \/ CleanType({"chat"})
    \/ CleanType({"pm"})
    \/ UpdateCache
    \/ SwitchCache
    \/ RestartHub
    \/ Tick

RightsSpec == RightsInit /\ [][RightsNext]_rightsVars

-----------------------------------------------------------------------------
RightsTypeOK ==
    /\ clock \in Nat
    /\ row \in [PenNicks -> [PenFields -> Nat] \cup {NoRow}]
    /\ cached \subseteq PenNicks
    /\ cacheOn \in BOOLEAN
    /\ rights \in [PenNicks -> [PenFields -> Nat] \cup {Away}]
    /\ opchat \subseteq PenNicks
    /\ gap \subseteq PenNicks
    /\ missed \subseteq PenNicks
    /\ shorter \subseteq PenNicks \X PenFields

InForce(n, f) == row[n] # NoRow /\ row[n][f] > clock

(***************************************************************************)
(* What the table holds against (or for) a user, the user online is held   *)
(* to: no order, login, share change, cache reload or restart leaves a     *)
(* user free of a restriction, or short of a right, that the table has in  *)
(* force (cfGag writes the row and the user's fields apart).  Two cases    *)
(* are excepted, both of this code's own making: an order shorter than     *)
(* what is stored binds the user to the shorter time, and a user looked up *)
(* before the switched-on cache was filled.                                *)
(***************************************************************************)
PenaltyHolds ==
    \A n \in PenNicks : \A f \in PenFields :
        Online(n) /\ n \notin Pingers /\ InForce(n, f)
          => \/ rights[n][f] > clock
             \/ f \in UseFields /\ rights[n][f] = 0
             \/ <<n, f>> \in shorter
             \/ n \in missed

(***************************************************************************)
(* A restriction or right in force is stored until it is lifted by name or *)
(* the list is cleaned: another order, a shorter one, an order about       *)
(* another field, a restart's Cleanup leave it.                            *)
(***************************************************************************)
Ends(n, f) ==
    \/ n \in gap
    \/ \E fs \in Groups : f \in fs /\ Lift(n, fs)
    \/ CleanRights
    \/ CleanType({"chat"})
    \/ CleanType({"pm"})
InForceKept ==
    [][\A n \in PenNicks : \A f \in PenFields :
         InForce(n, f) => \/ row'[n] # NoRow /\ row'[n][f] >= row[n][f]
                          \/ Ends(n, f)]_rightsVars

=============================================================================
