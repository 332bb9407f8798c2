------------------------------- MODULE Tables -------------------------------
(***************************************************************************)
(* Tables: the lists of triggers, redirects, clients and connection types, *)
(* tMySQLMemoryList each: a vector in memory and a table of the database   *)
(* behind it, that !add, !mod and !del change together and that a reload   *)
(* reads again.  The four differ in what they are asked: which trigger a   *)
(* command or the clock starts, where a refused user is sent, whether the  *)
(* client a tag names may enter, and what a connection of a kind may have. *)
(*                                                                         *)
(* A behaviour has one of the lists.  An item has a key, one value the     *)
(* question is about (the flags of a redirect, the identifier of a         *)
(* client), whether it is enabled, the least class or version or number of *)
(* slots, the seconds of a timed trigger and the terms of a redirect.  The *)
(* texts are left out.                                                     *)
(***************************************************************************)
EXTENDS Integers, Sequences, FiniteSets, SequencesExt

CONSTANTS
    Keys,         \* primary keys: commands, addresses, names, identifiers
    Values,       \* what items are chosen by
    AnyOne,       \* the value of a redirect for all reasons: no flags
    Reasons,      \* why users are refused (eCR_...)
    NoRedir,       \* reasons that lead nowhere: eCR_NOREDIR, eCR_FORCEMOVE
    FlagsOf,      \* value -> the reasons whose flags it has
    Terms,        \* terms of redirects: hours, countries, security, gigabytes
    TurnedAway,      \* users who are refused: hour, country, security, gigabytes
    OldKeys,      \* addresses that contain the one that moved (mOldMap[1])
    NewKey,       \* where it moved to (mOldMap[0])
    Lows,         \* least classes, versions, slots
    Periods2,     \* seconds of a trigger, 0 is no timer
    Tags,         \* tags clients send
    MaxMatches,   \* redirects that are looked at (10)
    Sessions,     \* connections
    MaxDeleted    \* bound: connection types that are deleted

Default == "default"
Nothing2 == "nothing"
LongAgo == 1 + CHOOSE p \in Periods2 : \A q \in Periods2 : q <= p

\* the terms of a new redirect, and no country
AnyTerm == [from |-> 0, to |-> 0, lands |-> {}, secure |-> 2, share |-> 0]
NoLand == "unknown"

ASSUME TablesAssumption ==
    /\ AnyOne \in Values
    /\ Values \cap {"nobody", "command", "timer", "tag", "redirect"} = {}
    /\ NoRedir \subseteq Reasons /\ FlagsOf \in [Values -> SUBSET Reasons]
    /\ AnyTerm \in Terms /\ NewKey # Nothing2
    /\ IsFiniteSet(Keys) /\ Keys \cap {Nothing2, "mModel"} = {}
    /\ Periods2 \subseteq Nat /\ 0 \in Periods2
    /\ \E p \in Periods2 : \A q \in Periods2 : q <= p
    /\ MaxMatches \in Nat \ {0} /\ MaxDeleted \in Nat

VARIABLES
    list,      \* which of the four it is
    mem,       \* mData
    rows,      \* the table: key -> item, or {} when there is none
    doubt,     \* keys whose last query failed, and was not noticed
    unread,    \* the last reload failed
    asked,     \* the last question, and what was answered
    kind,      \* connection -> mConnType: a key, "mModel", or Nothing2
    freed,     \* connection -> its mConnType was deleted
    deleted,   \* connection types deleted so far
    wild       \* history: a deleted one was used

tablesVars == <<list, mem, rows, doubt, unread, asked, kind, freed, deleted, wild>>
storeVars == <<mem, rows, doubt, unread>>
typeVars == <<kind, freed, deleted, wild>>

Lists == {"triggers", "redirects", "clients", "conntypes"}
NoQuestion == [of |-> "nobody", answer |-> Nothing2]
Item(k, v, on, low, every, only) ==
    [key |-> k, val |-> v, on |-> on, low |-> low, every |-> every, only |-> only,
     since |-> LongAgo]
Items2 == {Item(k, v, on, low, every, only) :
             k \in Keys, v \in Values, on \in BOOLEAN, low \in Lows, every \in Periods2,
             only \in Terms}

\* what the database keeps of an item: not when a trigger was last started
Row(item) == [item EXCEPT !.since = LongAgo]
At(k) == {i \in DOMAIN mem : mem[i].key = k}
InMemory(k) == At(k) # {}
First(s) == CHOOSE i \in s : \A j \in s : i <= j

-----------------------------------------------------------------------------
(* !add, !mod and !del (tListConsole), and the reload *)

\* SavePK is an INSERT IGNORE: a row that was there stays
Inserted(item) == IF rows[item.key] = {} THEN [rows EXCEPT ![item.key] = {Row(item)}] ELSE rows
Doubted2(k, ok) == doubt' = IF ok THEN doubt \ {k} ELSE doubt \cup {k}

Addable(item) == ~InMemory(item.key)
cfAdd(item, ok) ==
    /\ Addable(item)
    /\ mem' = Append(mem, item)
    /\ rows' = IF ok THEN Inserted(item) ELSE rows
    /\ Doubted2(item.key, ok /\ rows[item.key] = {})
    /\ asked' = NoQuestion
    /\ UNCHANGED <<list, unread, typeVars>>

\* what is not given keeps its value, but the timer of a trigger is off
\* unless it is given; a timer goes on from the last start
Modified(old, item) == [item EXCEPT !.since = old.since]
cfMod(item, ok) ==
    /\ InMemory(item.key)
    /\ LET i == First(At(item.key))
       IN mem' = [mem EXCEPT ![i] = Modified(@, item)]
    /\ rows' = IF ok /\ rows[item.key] # {} THEN [rows EXCEPT ![item.key] = {Row(item)}] ELSE rows
    /\ Doubted2(item.key, ok /\ rows[item.key] # {})
    /\ asked' = NoQuestion
    /\ UNCHANGED <<list, unread, typeVars>>

\* the item is deleted, and connections of this type still point to it
cfDel(k, ok) ==
    /\ InMemory(k)
    /\ list = "conntypes" => deleted < MaxDeleted
    /\ mem' = RemoveAt(mem, First(At(k)))
    /\ rows' = IF ok THEN [rows EXCEPT ![k] = {}] ELSE rows
    /\ Doubted2(k, ok)
    /\ freed' = [c \in Sessions |-> freed[c] \/ kind[c] = k]
    /\ deleted' = IF list = "conntypes" THEN deleted + 1 ELSE deleted
    /\ asked' = NoQuestion
    /\ UNCHANGED <<list, unread, kind, wild>>

\* triggers are read by their classes, the others in any order
Stored2 == UNION {rows[k] : k \in Keys}
Orders == {s \in [1 .. Cardinality(Stored2) -> Stored2] : IsInjective(s)}
InOrder(s) == list = "triggers" => \A i, j \in DOMAIN s : i < j => s[i].low >= s[j].low

\* the vector is emptied first, whatever the query does then
ReloadAll(ok) ==
    /\ list # "conntypes"                    \* ReloadNow leaves them alone
    /\ IF ok THEN mem' \in {s \in Orders : InOrder(s)} ELSE mem' = <<>>
    /\ doubt' = IF ok THEN {} ELSE doubt
    /\ unread' = ~ok
    /\ asked' = NoQuestion
    /\ UNCHANGED <<list, rows, typeVars>>

-----------------------------------------------------------------------------
(* Triggers *)

Answered2(question, i) ==
    asked' = [of |-> question, answer |-> IF i = {} THEN Nothing2 ELSE mem[First(i)].key]

\* what it sends goes to all in its classes (SENDTOALL), or to the user who
\* started it, if there is one and the text can be read
DoIt(item, user, readable) ==
    IF ~readable THEN "nobody" ELSE IF item.on THEN "all" ELSE IF user THEN "one" ELSE "nobody"

\* the first one with the command that the class may start; timed ones
\* are for operators
DoCommand(k, class, operator) ==
    /\ list = "triggers"
    /\ LET may == {i \in At(k) : mem[i].low <= class}
       IN IF may # {} /\ (operator \/ mem[First(may)].every = 0)
          THEN \E readable \in BOOLEAN :
                 asked' = [of |-> "command", answer |-> DoIt(mem[First(may)], TRUE, readable)]
          ELSE asked' = [of |-> "command", answer |-> "nobody"]
    /\ UNCHANGED <<list, storeVars, typeVars>>

\* a timed one starts when its seconds are over, in any order
Overdue(t) == t.every # 0 /\ t.since + 1 > t.every
TriggersOnTimer ==
    /\ list = "triggers"
    /\ mem' = [i \in DOMAIN mem |->
                 [mem[i] EXCEPT !.since = IF Overdue(mem[i]) THEN 0
                                          ELSE IF @ < LongAgo THEN @ + 1 ELSE @]]
    /\ asked' = [of |-> "timer", answer |-> {DoIt(mem[i], FALSE, TRUE) : i \in {j \in DOMAIN mem : Overdue(mem[j])}}]
    /\ UNCHANGED <<list, rows, doubt, unread, typeVars>>

-----------------------------------------------------------------------------
(* Redirects *)

\* hours from one to the other, none at all after midnight; a list of countries
\* is asked when the user's is known; 2 is secure or not; 0 any share
Applies(only, who) ==
    /\ only.from = only.to \/ who.hour \in only.from .. only.to
    /\ only.lands = {} \/ who.land = NoLand \/ who.land \in only.lands
    /\ only.secure = 2 \/ (only.secure = 1 <=> who.secure)
    /\ only.share = 0 \/ who.share >= only.share

\* a reason without a flag of its own fits redirects for all reasons
Fits(item, reason, who) ==
    /\ item.on
    /\ item.val = AnyOne \/ reason \in FlagsOf[item.val]
    /\ Applies(item.only, who)

\* the first MaxMatches that fit, and one of them by chance
Considered(reason, who) ==
    LET fits == {i \in DOMAIN mem : Fits(mem[i], reason, who)}
    IN {i \in fits : Cardinality({j \in fits : j < i}) < MaxMatches}

\* where an address leads; an empty one, which no command stores, is left out
Goal(k) == IF k \in OldKeys THEN NewKey ELSE k
MatchByType(reason, who) ==
    /\ list = "redirects"
    /\ \E i \in Considered(reason, who) \cup {0} :
         /\ i = 0 => Considered(reason, who) = {}
         /\ asked' = [of |-> "redirect", reason |-> reason, who |-> who,
                      answer |-> IF i = 0 \/ reason \in NoRedir THEN Nothing2
                                 ELSE Goal(mem[i].key)]
    /\ UNCHANGED <<list, storeVars, typeVars>>

-----------------------------------------------------------------------------
(* Clients and connection types *)

Named(id) == {i \in DOMAIN mem : mem[i].on /\ mem[i].val = id}
FindTag(id) ==
    /\ list = "clients"
    /\ Answered2(id, Named(id))
    /\ UNCHANGED <<list, storeVars, typeVars>>

\* the type of that name, the default one, or mModel
FindConnType(k) ==
    IF InMemory(k) THEN k ELSE IF InMemory(Default) THEN Default ELSE "mModel"

\* the first $MyINFO decides, for as long as the connection lasts
ParseSpeed(c, k) ==
    /\ list = "conntypes" /\ kind[c] = Nothing2
    /\ kind' = [kind EXCEPT ![c] = FindConnType(k)]
    /\ asked' = NoQuestion
    /\ UNCHANGED <<list, storeVars, freed, deleted, wild>>

\* slots, hubs and the limit against what the hub, the client and the type
\* of the connection allow: the first that is wrong counts
Ratio(tag) == IF tag.hubs > 0 THEN tag.slots \div tag.hubs ELSE 0
Faults(tag, low) ==
    << [code |-> "parse", bad |-> tag.hubs < 0 \/ tag.slots < 0],
       [code |-> "min_slots", bad |-> low > 0 /\ tag.slots < low],
       [code |-> "hs_ratio", bad |-> Ratio(tag) < 1],
       [code |-> "min_limit", bad |-> tag.limit >= 0 /\ low > tag.limit] >>
Verdict2(tag, low) ==
    LET f == Faults(tag, low)
        bad == {i \in DOMAIN f : f[i].bad}
    IN IF bad = {} THEN "valid" ELSE f[First(bad)].code

ValidateTag(c, tag) ==
    /\ list = "conntypes" /\ kind[c] # Nothing2
    /\ wild' = (wild \/ freed[c])
    /\ asked' = [of |-> "tag",
                 answer |-> IF freed[c] THEN Nothing2
                            ELSE IF kind[c] = "mModel" THEN Verdict2(tag, 0)
                            ELSE Verdict2(tag, mem[First(At(kind[c]))].low)]
    /\ UNCHANGED <<list, storeVars, kind, freed, deleted>>

Disconnects(c) ==
    /\ list = "conntypes" /\ kind[c] # Nothing2
    /\ kind' = [kind EXCEPT ![c] = Nothing2]
    /\ freed' = [freed EXCEPT ![c] = FALSE]
    /\ asked' = NoQuestion
    /\ UNCHANGED <<list, storeVars, deleted, wild>>

-----------------------------------------------------------------------------
TablesInit ==
    /\ list \in Lists
    /\ mem = <<>> /\ rows = [k \in Keys |-> {}] /\ doubt = {} /\ unread = FALSE
    /\ asked = NoQuestion
    /\ kind = [c \in Sessions |-> Nothing2] /\ freed = [c \in Sessions |-> FALSE]
    /\ deleted = 0 /\ wild = FALSE

\* items of the list at hand: what it does not use does not vary, and the
\* second trigger and the default redirect are plain ones (bound)
Unlimited == {i \in Items2 : i.only = AnyTerm}
Offered2 ==
    CASE list = "triggers"  -> {i \in Unlimited : i.val = AnyOne /\ (i.key = Default => i.on /\ i.every = 0)}
      [] list = "redirects" -> {i \in Items2 : i.low = 0 /\ i.every = 0 /\ (i.key = Default => i.on /\ i.only = AnyTerm)}
      [] list = "clients"   -> {i \in Unlimited : i.low = 0 /\ i.every = 0}
      [] list = "conntypes" -> {i \in Unlimited : i.val = AnyOne /\ i.on /\ i.every = 0}

TablesNext ==
    /\ ~wild
    /\ \/ \E item \in Offered2, ok \in BOOLEAN : cfAdd(item, ok) \/ cfMod(item, ok)
       \/ \E k \in Keys, ok \in BOOLEAN : cfDel(k, ok)
       \/ \E ok \in BOOLEAN : ReloadAll(ok)
       \/ \E k \in Keys, class \in Lows, operator \in BOOLEAN : DoCommand(k, class, operator)
       \/ TriggersOnTimer
       \/ \E reason \in Reasons, who \in TurnedAway : MatchByType(reason, who)
       \/ \E id \in Values : FindTag(id)
       \/ \E c \in Sessions : \/ \E k \in Keys : ParseSpeed(c, k)
                              \/ \E tag \in Tags : ValidateTag(c, tag)
                              \/ Disconnects(c)

TablesSpec == TablesInit /\ [][TablesNext]_tablesVars

-----------------------------------------------------------------------------
TablesTypeOK ==
    /\ list \in Lists /\ \A i \in DOMAIN mem : [mem[i] EXCEPT !.since = LongAgo] \in Items2
    /\ \A i \in DOMAIN mem : mem[i].since \in 0 .. LongAgo
    /\ \A k \in Keys : rows[k] = {} \/ \E item \in Items2 : item.key = k /\ rows[k] = {item}
    /\ doubt \subseteq Keys /\ unread \in BOOLEAN
    /\ kind \in [Sessions -> Keys \cup {"mModel", Nothing2}] /\ freed \in [Sessions -> BOOLEAN]
    /\ deleted \in 0 .. MaxDeleted /\ wild \in BOOLEAN

(***************************************************************************)
(* What the hub works with is what it stored: no key is twice in memory,   *)
(* and an item is in memory exactly as in the table, unless a query about  *)
(* it failed or met a row nobody saw (the commands look at no result), or  *)
(* the last reload failed and left the list empty.  And what was asked     *)
(* follows the table then: a client is found if and only if an enabled row *)
(* names it, and a refused user is sent to the address of an enabled row   *)
(* whose flags and terms fit him, or nowhere if there is none, also after  *)
(* a reload that ordered them anew.  The connection type a connection was  *)
(* given at its first $MyINFO is one that is there; only !delconntype      *)
(* takes it away under it, and the next tag that is checked then reads     *)
(* what was deleted.                                                       *)
(***************************************************************************)
SureOf(k) == k \notin doubt /\ ~unread
TablesRight ==
    /\ \A k \in Keys : Cardinality(At(k)) <= 1
    /\ \A k \in Keys : SureOf(k) => {Row(mem[i]) : i \in At(k)} = rows[k]
    /\ ~unread /\ doubt = {} /\ asked.of \in Values =>
         LET named == {k \in Keys : \E r \in rows[k] : r.on /\ r.val = asked.of}
         IN IF named = {} THEN asked.answer = Nothing2 ELSE asked.answer \in named
    /\ ~unread /\ doubt = {} /\ asked.of = "redirect" =>
         LET fitting == {k \in Keys : \E r \in rows[k] : Fits(r, asked.reason, asked.who)}
         IN IF fitting = {} \/ asked.reason \in NoRedir THEN asked.answer = Nothing2
            ELSE \E k \in fitting : asked.answer = Goal(k)
    /\ \A c \in Sessions : kind[c] \in Keys /\ ~freed[c] => InMemory(kind[c])
    /\ wild => deleted > 0
=============================================================================
