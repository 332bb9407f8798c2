----------------------------- MODULE PluginLists -----------------------------
(***************************************************************************)
(* Lists that plugins keep of what is in their tables and look up for      *)
(* messages and users: the address ranges of isp (kept in order and looked *)
(* up by halving), the words of forbid and of replacer, and the plugins of *)
(* plugman, which loads them at its own start.  Adding, changing and       *)
(* deleting by !add..., !mod..., !del... is that of Tables; here is what   *)
(* the lists of these plugins do with it besides.                          *)
(***************************************************************************)
EXTENDS Integers, FiniteSets, Sequences, SequencesExt

CONSTANTS
    IPs,            \* addresses, numbers from 0
    Countries,
    MaxIsps, MaxMade,     \* bounds: rows of isp, and rows made since the start
    Words,          \* words (patterns) of messages
    BadWords,       \* those that are no regular expressions
    MaxWords,       \* bound: rows of forbid and of replacer
    Levels,         \* classes
    Libs,           \* libraries with a plugin: nick = path
    Hosted,         \* rows with a dest, for scripts
    HostOf,         \* their dest, a plugin
    NickOrder       \* the nicks in their order in the table

NoCountry == "--"

ASSUME PluginListsAssumption ==
    /\ IsFiniteSet(IPs) /\ IPs = 0 .. Cardinality(IPs) - 1
    /\ MaxIsps \in Nat /\ MaxMade \in Nat /\ MaxWords \in Nat
    /\ Levels \subseteq Int /\ BadWords \subseteq Words
    /\ HostOf \in [Hosted -> Libs] /\ ToSet(NickOrder) = Libs \cup Hosted
    /\ IsInjective(NickOrder) /\ NickOrder \in Seq(Libs \cup Hosted)

VARIABLES
    isps,       \* mDataIndex of isp: rows with lo, hi, cc, and id for the object
    ispRows,    \* pi_isp
    ccList,     \* mCCList: objects
    made,       \* objects made so far
    stale,      \* history: rows with a country taken away since the start
    words,      \* the list of forbid: rows with word, mask, upto
    swaps,      \* pi_replacer in its order: words
    swapList,   \* mData of replacer
    plugRows,   \* pi_plug: nicks in it, and those that are automated; mixed
                \* is history: a row came before its plugin at the last start
    plugList,   \* mData of plugman: nicks
    libs        \* libraries that are loaded

ispVars == <<isps, ispRows, ccList, made, stale>>
wordVars == <<words, swaps, swapList>>
plugVars == <<plugRows, plugList, libs>>
listsVars == <<ispVars, wordVars, plugVars>>

-----------------------------------------------------------------------------
(* isp: finding the place of a row; places are counted from 1 *)

Compared(lo, i) == IF lo < isps[i].lo THEN -1 ELSE IF lo > isps[i].lo THEN 1 ELSE 0
Found(i) == [found |-> TRUE, pos |-> i]
Before(i) == [found |-> FALSE, pos |-> i]

\* FindDataPositionLimited(data, lo, hi): what is at lo is smaller already
Limited(key) ==
    LET f[r \in (1 .. Len(isps)) \X (1 .. Len(isps))] ==
        LET low == r[1]  high == r[2]
            mid == (low + high + 1) \div 2
        IN  IF high <= low THEN Before(low)
            ELSE CASE Compared(key, mid) = 0 -> Found(mid)
                   [] Compared(key, mid) = 1 ->
                        IF mid < high THEN f[<<mid, high>>] ELSE Before(mid + 1)
                   [] OTHER -> IF mid > low + 1 THEN f[<<low, mid - 1>>] ELSE Before(mid)
    IN f

\* FindDataPosition(data, from): the place asked for, the ends, the middle
FindDataPosition(key, from) ==
    LET last == Len(isps)
        cur == IF from > last THEN last ELSE from
    IN  IF last = 0 THEN Before(1)
        ELSE IF Compared(key, cur) = 0 THEN Found(cur)
        ELSE IF Compared(key, last) = 0 THEN Found(last)
        ELSE IF Compared(key, last) = 1 THEN Before(last + 1)
        ELSE IF Compared(key, 1) = 0 THEN Found(1)
        ELSE IF Compared(key, 1) = -1 THEN Before(1)
        ELSE IF Compared(key, cur) = 1 THEN Limited(key)[<<cur, last>>]
        ELSE Limited(key)[<<1, cur>>]

\* FindISP: the last range that begins at the address or before, then the
\* country, then the range that begins at 0
RangeOf(ip) ==
    LET p == FindDataPosition(ip, 1)
        i == IF p.found THEN p.pos ELSE p.pos - 1
    IN  IF i > 0 /\ isps[i].hi >= ip THEN {isps[i]} ELSE {}
Freed(o) == o.id \notin {isps[i].id : i \in DOMAIN isps}
\* FindISPByCC: the first with the country; a freed object before it may answer
FindISPByCC(cc) ==
    LET hits == {i \in DOMAIN ccList : ~Freed(ccList[i]) /\ ccList[i].cc = cc}
    IN  {ccList[i] : i \in {j \in DOMAIN ccList :
                                /\ \A h \in hits : j <= h
                                /\ j \in hits \/ Freed(ccList[j])}}
ForAll == {isps[i] : i \in {j \in DOMAIN isps : isps[j].lo = 0}}
FindISP(ip, cc) ==
    IF RangeOf(ip) # {} THEN RangeOf(ip)
    ELSE IF FindISPByCC(cc) # {} THEN FindISPByCC(cc) ELSE ForAll

\* CheckShare: classes over 3 and under 0 are not looked at
CheckShare(class, share, min, max) ==
    IF class \notin 0 .. 3 THEN 0 ELSE IF share < min[class] THEN 1
    ELSE IF max[class] >= 0 /\ share > max[class] THEN -1 ELSE 0

\* OnParsedMsgMyINFO of somebody who is new: what can be answered.  min and max
\* are those of the row (in units), limit the class over which isp looks at nobody
IspAnswers(class, limit, ip, cc, share, all, min, max) ==
    IF class > limit THEN {"passes"}
    ELSE IF FindISP(ip, cc) = {} THEN {IF all THEN "passes" ELSE "no isp"}
    ELSE {"connection", IF CheckShare(class, share, min, max) = 0 THEN "passes" ELSE "share"}

\* cISPs::AddData puts the object where it belongs, and in the list of countries
AddIsp(lo, hi, cc) ==
    LET o == [lo |-> lo, hi |-> hi, cc |-> cc, id |-> made + 1] IN
    /\ lo <= hi /\ \A i \in DOMAIN isps : isps[i].lo # lo
    /\ Len(isps) < MaxIsps /\ made < MaxMade /\ made' = made + 1
    /\ isps' = InsertAt(isps, FindDataPosition(lo, Len(isps) + 1).pos, o)
    /\ ispRows' = ispRows \cup {o}
    /\ ccList' = IF cc # NoCountry THEN Append(ccList, o) ELSE ccList
    /\ UNCHANGED <<stale, wordVars, plugVars>>

\* cISPs::DelData looks for the country in what !delisp gives, which has none
DelIsp(lo) ==
    LET p == FindDataPosition(lo, 1) IN
    /\ \E i \in DOMAIN isps : isps[i].lo = lo
    /\ isps' = RemoveAt(isps, p.pos) /\ ispRows' = {o \in ispRows : o.lo # lo}
    /\ stale' = IF isps[p.pos].cc # NoCountry THEN stale \cup {isps[p.pos].id} ELSE stale
    /\ UNCHANGED <<ccList, made, wordVars, plugVars>>

\* !modisp: an end of the range; what is compiled and the country list stay
ModIsp(lo, hi) ==
    /\ lo <= hi /\ \E i \in DOMAIN isps : isps[i].lo = lo
    /\ isps' = [i \in DOMAIN isps |-> IF isps[i].lo = lo THEN [isps[i] EXCEPT !.hi = hi] ELSE isps[i]]
    /\ ispRows' = {IF o.lo = lo THEN [o EXCEPT !.hi = hi] ELSE o : o \in ispRows}
    /\ UNCHANGED <<ccList, made, stale, wordVars, plugVars>>

\* the plugin starts: ReloadAll reads the table in order, and appends to the
\* end; AppendData does not know the list of countries
RowsByAddress(rows) ==
    {s \in [1 .. Cardinality(rows) -> rows] : \A i, j \in DOMAIN s : i < j => s[i].lo < s[j].lo}
StartIsp ==
    /\ isps' \in RowsByAddress(ispRows)
    /\ ccList' = <<>> /\ stale' = {}
    /\ UNCHANGED <<ispRows, made, wordVars, plugVars>>

-----------------------------------------------------------------------------
(* forbid and replacer *)

\* the place of the first n in a list, and whether m comes before n in it
PlaceOf(list, n) == CHOOSE i \in DOMAIN list : list[i] = n /\ \A j \in 1 .. i - 1 : list[j] # n
Precedes(list, m, n) == \E i, j \in DOMAIN list : i < j /\ list[i] = m /\ list[j] = n

InChat == "chat"
InPM == "pm"
\* ForbiddenParser: the first row that is for this place, matches, and is
\* meant for this class or a higher one, ends it
HitSlip(r, msg, where, class) ==      \* a slip: the class itself is left out
    where \in r.mask /\ r.word \in msg /\ r.upto > class
Hit(r, msg, where, class) == where \in r.mask /\ r.word \in msg /\ r.upto >= class
ForbiddenParser(msg, where, class) ==
    LET hits == {i \in DOMAIN words : Hit(words[i], msg, where, class)} IN
    IF hits = {} THEN {} ELSE {words[CHOOSE i \in hits : \A j \in hits : i <= j]}

\* OnParsedMsgPM: who writes to a user over max_class_dest is not checked
WordRefused(msg, where, class, dest, maxDest) ==
    /\ ForbiddenParser(msg, where, class) # {}
    /\ ~(where = InPM /\ dest > maxDest)

AddForbid(w, mask, upto) ==
    /\ Len(words) < MaxWords /\ \A i \in DOMAIN words : words[i].word # w
    /\ w \notin BadWords
    /\ words' = Append(words, [word |-> w, mask |-> mask, upto |-> upto])
    /\ UNCHANGED <<ispVars, swaps, swapList, plugVars>>
DelForbid(w) ==
    /\ \E i \in DOMAIN words : words[i].word = w
    /\ words' = RemoveAt(words, PlaceOf([i \in DOMAIN words |-> words[i].word], w))
    /\ UNCHANGED <<ispVars, swaps, swapList, plugVars>>

\* cReplacer::LoadAll: a new object is made before the next row is read, and
\* a row that does not compile leaves its object to the next; the last goes
LoadAll(rows) ==
    LET f[i \in 0 .. Len(rows)] ==
            IF i = 0 THEN <<"new">>
            ELSE IF rows[i] \in BadWords THEN Append(Front(f[i - 1]), rows[i])
            ELSE Append(Append(Front(f[i - 1]), rows[i]), "new")
    IN  Front(f[Len(rows)])

\* !addreplacer compiles the word before it is stored; the table may get others
\* from elsewhere before the plugin starts
NewSwap(w) == Len(swaps) < MaxWords /\ \A i \in DOMAIN swaps : swaps[i] # w
AddReplacer(w) ==
    /\ NewSwap(w) /\ w \notin BadWords
    /\ swaps' = Append(swaps, w) /\ swapList' = LoadAll(swaps')
    /\ UNCHANGED <<ispVars, words, plugVars>>
StartReplacer(w) ==
    /\ NewSwap(w) /\ swaps' = Append(swaps, w) /\ swapList' = LoadAll(swaps')
    /\ UNCHANGED <<ispVars, words, plugVars>>
DelReplacer(w) ==
    /\ \E i \in DOMAIN swapList : swapList[i] = w
    /\ swaps' = RemoveAt(swaps, PlaceOf(swaps, w)) /\ swapList' = LoadAll(swaps')
    /\ UNCHANGED <<ispVars, words, plugVars>>

\* ReplacerParser: at most one replacement more than the word is long; the new
\* word may have the old one in it (again = 1)
LeftOver(n, length, again) ==
    LET f[k \in 0 .. length + 1] ==
            IF k = 0 THEN n ELSE IF f[k - 1] = 0 THEN 0 ELSE f[k - 1] - 1 + again
    IN f[length + 1]

-----------------------------------------------------------------------------
(* plugman *)

(* No plugin of the repository runs scripts that plugman names, so that a row   *)
(* with a dest is never loaded; it can only come from the table.            *)
RowsInOrder(ns) ==
    {s \in [1 .. Cardinality(ns) -> ns] :
        \A i, j \in DOMAIN s : i < j => Precedes(NickOrder, s[i], s[j])}

\* OnLoad: a row whose plugin (dest) is not in the list yet saves its error at
\* once, and SaveMe takes the columns to this object: from then on the rows
\* are read into it, and the list gets copies of the row that was being read
Saves(list, n) == n \in Hosted /\ HostOf[n] \notin ToSet(list)
ReloadAllPlugs(rows) ==
    LET f[i \in 0 .. Len(rows)] ==
            IF i = 0 THEN [list |-> <<>>, base |-> 0, cur |-> ""]
            ELSE LET p == f[i - 1]
                     cur == IF p.base = 0 THEN rows[i] ELSE p.cur
                     old == IF p.base = 0 THEN p.list ELSE [p.list EXCEPT ![p.base] = rows[i]]
                     list == Append(old, cur)
                 IN  [list |-> list, cur |-> cur,
                      base |-> IF Saves(list, cur) THEN Len(list) ELSE p.base]
    IN  f[Len(rows)].list

PluginFirst(nicks) ==
    \A s \in nicks \cap Hosted : HostOf[s] \in nicks /\ Precedes(NickOrder, HostOf[s], s)

\* cPlug::Plugin; not at ReloadAll, which is before mPM is set
LoadPlugin(n, working) == {n} \cap working
UnloadPlugin(n) == libs \ {n}
ReloadPlugin(n, working) == UnloadPlugin(n) \cup LoadPlugin(n, working)
Plugin(n, working) == IF n \in Libs THEN LoadPlugin(n, working) ELSE {}
\* the hub starts, and plugman with it: PluginAll loads what is automated and
\* what can be loaded now
StartPlugman(working, foreign) ==
    LET nicks == plugRows.nicks \cup foreign
        auto == plugRows.auto
    IN  /\ plugRows' = [nicks |-> nicks, auto |-> auto, mixed |-> ~PluginFirst(nicks)]
        /\ plugList' \in {ReloadAllPlugs(rows) : rows \in RowsInOrder(nicks)}
        /\ libs' = UNION {Plugin(n, working) : n \in ToSet(plugList') \cap auto}
        /\ UNCHANGED <<ispVars, wordVars>>

InPlugList(n) == n \in ToSet(plugList)
\* !addplug, which has no dest, loads an automated plugin at once, as OnLoadData does
AddPlug(n, auto, working) ==
    /\ ~InPlugList(n)
    /\ plugRows' = [plugRows EXCEPT !.nicks = @ \cup {n},
                                     !.auto = IF auto THEN @ \cup {n} ELSE @ \ {n}]
    /\ plugList' = Append(plugList, n)
    /\ libs' = IF auto THEN libs \cup Plugin(n, working) ELSE libs
    /\ UNCHANGED <<ispVars, wordVars>>
\* !delplug: what is loaded stays so
DelPlug(n) ==
    /\ InPlugList(n) /\ plugRows' = [plugRows EXCEPT !.nicks = @ \ {n}, !.auto = @ \ {n}]
    /\ plugList' = RemoveAt(plugList, PlaceOf(plugList, n))
    /\ UNCHANGED <<libs, ispVars, wordVars>>
cfOn(n, working) ==
    /\ InPlugList(n) /\ n \notin libs /\ libs' = libs \cup Plugin(n, working)
    /\ UNCHANGED <<plugRows, plugList, ispVars, wordVars>>
cfOff(n) ==
    /\ InPlugList(n) /\ n \in libs /\ libs' = UnloadPlugin(n)
    /\ UNCHANGED <<plugRows, plugList, ispVars, wordVars>>
\* Replug unloads it and loads what is in its place now
cfRe(n, working) ==
    /\ InPlugList(n) /\ n \in libs /\ libs' = ReloadPlugin(n, working)
    /\ UNCHANGED <<plugRows, plugList, ispVars, wordVars>>

-----------------------------------------------------------------------------
ListsInit ==
    /\ isps = <<>> /\ ispRows = {} /\ ccList = <<>> /\ made = 0 /\ stale = {}
    /\ words = <<>> /\ swaps = <<>> /\ swapList = <<>>
    /\ plugRows = [nicks |-> {}, auto |-> {}, mixed |-> FALSE] /\ plugList = <<>> /\ libs = {}

\* bound: a range is one address, or reaches to the last
RangeEnds(lo) == {lo, Cardinality(IPs) - 1}
IspSteps ==
    \/ StartIsp
    \/ \E lo \in IPs : \E hi \in RangeEnds(lo) :
        ModIsp(lo, hi) \/ \E cc \in Countries \cup {NoCountry} : AddIsp(lo, hi, cc)
    \/ \E lo \in IPs : DelIsp(lo)
WordSteps ==
    \/ \E w \in Words : DelForbid(w) \/ AddReplacer(w) \/ StartReplacer(w) \/ DelReplacer(w)
    \/ \E w \in Words, mask \in {{InChat}, {InPM}}, upto \in Levels : AddForbid(w, mask, upto)
PlugSteps ==
    \/ \E n \in Libs \cup Hosted : DelPlug(n) \/ cfOff(n)
    \/ \E foreign \in SUBSET Hosted, working \in SUBSET Libs : StartPlugman(working, foreign)
    \/ \E n \in Libs, working \in {{}, Libs} :
        cfOn(n, working) \/ cfRe(n, working) \/ \E auto \in BOOLEAN : AddPlug(n, auto, working)

ListsNext == IspSteps \/ WordSteps \/ PlugSteps
ListsSpec == ListsInit /\ [][ListsNext]_listsVars

-----------------------------------------------------------------------------
ListsTypeOK ==
    /\ Len(isps) <= MaxIsps /\ made \in 0 .. MaxMade /\ stale \subseteq 1 .. MaxMade
    /\ plugRows.auto \subseteq plugRows.nicks /\ libs \subseteq Libs
    /\ \A i \in DOMAIN words : words[i].word \in Words

(***************************************************************************)
(* Halving finds what looking at every range would find, from wherever it  *)
(* starts: the row with the key if there is one, else its place.  What     *)
(* FindISP gives has the address, or the country, or begins at 0, and is   *)
(* no freed object unless a row with a country was deleted; and nobody is  *)
(* turned away for want of a row while the row that begins next below the  *)
(* address reaches up to it.                                               *)
(***************************************************************************)
Smaller(key) == Cardinality({i \in DOMAIN isps : isps[i].lo < key})
HalvingRight ==
    \A key \in IPs, from \in 1 .. Len(isps) + 1 :
        FindDataPosition(key, from) =
            [found |-> \E i \in DOMAIN isps : isps[i].lo = key, pos |-> Smaller(key) + 1]
Nearest(ip, o) == o.lo <= ip /\ \A i \in DOMAIN isps : isps[i].lo > ip \/ isps[i].lo <= o.lo
NoShare == [c \in 0 .. 3 |-> -1]
IspRight == \A ip \in IPs, cc \in Countries :
    /\ "no isp" \in IspAnswers(1, 2, ip, cc, 0, FALSE, NoShare, NoShare) =>
            \A i \in DOMAIN isps : ~(Nearest(ip, isps[i]) /\ ip <= isps[i].hi)
    /\ \A o \in FindISP(ip, cc) :
        ip \in o.lo .. o.hi  \/  o.cc = cc  \/  o.lo = 0  \/  o.id \in stale

(***************************************************************************)
(* Whether a message is refused does not depend on the order of the words, *)
(* which a restart changes, and replacer has the words that compile, in    *)
(* the order of the table, and ends with words that it puts in themselves. *)
(***************************************************************************)
WordsRight ==
    /\ \A msg \in SUBSET Words, where \in {InChat, InPM}, class \in Levels :
            WordRefused(msg, where, class, 0, 0) <=>
                \E i \in DOMAIN words : /\ words[i].word \in msg /\ where \in words[i].mask
                                        /\ class <= words[i].upto
    /\ ToSet(swapList) = ToSet(swaps) \ BadWords /\ IsInjective(swapList)
    /\ \A i, j \in DOMAIN swapList : i < j => Precedes(swaps, swapList[i], swapList[j])
    /\ \A n, length \in 0 .. 3 :
            LeftOver(n, length, 0) = IF n > length + 1 THEN n - length - 1 ELSE 0

(***************************************************************************)
(* plugman has every row of its table once, unless one with a dest came    *)
(* before that of its plugin, or without it, at its start.                 *)
(***************************************************************************)
PlugsRight ==
    ~plugRows.mixed => (ToSet(plugList) = plugRows.nicks /\ IsInjective(plugList))

(***************************************************************************)
(* What the plugins find in their lists is what their tables say.          *)
(***************************************************************************)
ListsRight == HalvingRight /\ IspRight /\ WordsRight /\ PlugsRight
=============================================================================
