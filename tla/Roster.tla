------------------------------- MODULE Roster -------------------------------
(***************************************************************************)
(* The user list as the clients see it: cUserCollection, a hash table      *)
(* (tHashArray) with three lists kept ready made (nicks, $MyINFO, $UserIP),*)
(* what a newcomer and the others are sent when it enters, changes its     *)
(* $MyINFO or leaves (ShowUserToAll, NickList, DC_MyINFO, RemoveNick), and *)
(* what each client has been told so far.                                  *)
(*                                                                         *)
(* A ready-made list is appended to when a user is added and made again    *)
(* at its next use when one was removed; nothing makes it again when a     *)
(* user's $MyINFO changes.                                                 *)
(***************************************************************************)
EXTENDS Integers, Sequences, FiniteSets, SequencesExt

CONSTANTS
    RosterUsers,     \* users and robots; a nick each
    Bots,            \* robots: listed, without a connection
    OldClients,      \* clients with neither NoHello nor NoGetINFO
    NickHash,        \* user -> hash of its nick; two nicks may share one
    Kinds,           \* lists it keeps: all of "nick", "info", "ip" for mUserList
    InitialCapacity, \* 512 in the code
    MaxInfo          \* bound: different $MyINFO of one user

Infos  == 1 .. MaxInfo
Unknown  == -1                      \* not in the client's list
NickOnly == 0                       \* there, without its $MyINFO

ASSUME RosterAssumption ==
    /\ Bots \subseteq RosterUsers /\ OldClients \subseteq RosterUsers \ Bots
    /\ {"nick", "info"} \subseteq Kinds
    /\ NickHash \in [RosterUsers -> Nat]
    /\ InitialCapacity \in Nat \ {0} /\ MaxInfo \in Nat \ {0}

VARIABLES
    buckets,  \* mData: the chains of the hash table, one per slot
    mSize,    \* mSize of the table
    ready,    \* mNickList, mInfoList, mIPList: what they were made of
    remake,   \* mRemakeNextNickList ...
    info,     \* user -> mFakeMyINFO
    cutOff,   \* listed users whose connection is not ok any more
    view,     \* client -> user -> the $MyINFO it has, NickOnly or Unknown
    gotList,    \* clients that got the list they asked for
    behind    \* history: client -> users whose entry in its list was outdated

rosterVars == <<buckets, mSize, ready, remake, info, cutOff, view, gotList, behind>>

-----------------------------------------------------------------------------
(* The hash table *)

SlotOf(u, bs) == (NickHash[u] % Len(bs)) + 1
Everyone(bs) == UNION {ToSet(bs[i]) : i \in DOMAIN bs}
InOrder(bs) ==                                      \* begin() ... end()
    LET joined[i \in 0 .. Len(bs)] == IF i = 0 THEN <<>> ELSE joined[i - 1] \o bs[i]
    IN  joined[Len(bs)]

SameHash(u, bs) == {w \in ToSet(bs[SlotOf(u, bs)]) : NickHash[w] = NickHash[u]}

AddWithHash(u, bs) ==
    IF SameHash(u, bs) = {} THEN [bs EXCEPT ![SlotOf(u, bs)] = Append(@, u)] ELSE bs

\* RemoveByHash: the first of its chain with this hash
RemoveByHash(u, bs) ==
    LET chain == bs[SlotOf(u, bs)]
        place == CHOOSE p \in DOMAIN chain :
                    /\ NickHash[chain[p]] = NickHash[u]
                    /\ \A q \in 1 .. p - 1 : NickHash[chain[q]] # NickHash[u]
    IN  [bs EXCEPT ![SlotOf(u, bs)] = RemoveAt(chain, place)]

\* Resize: every entry is added to a new array, in the order of the old one
Resized(bs, capacity) ==
    LET old == InOrder(bs)
        moved[j \in 0 .. Len(old)] ==
            IF j = 0 THEN [i \in 1 .. capacity |-> <<>>] ELSE AddWithHash(old[j], moved[j - 1])
    IN  moved[Len(old)]

\* AutoResize: when, and to what
Fitting(size) == size + size \div 2 + 1
WrongSize(bs, size) == size > Len(bs) * 2 \/ size * 2 + 1 < Len(bs)

Listed == Everyone(buckets)
CanSend == Listed \ (Bots \cup cutOff)

-----------------------------------------------------------------------------
(* The ready-made lists *)

Entry(k, u, is) == [who |-> u, what |-> IF k = "info" THEN is[u] ELSE NickOnly]
Made(k, bs, is) == [i \in 1 .. Len(InOrder(bs)) |-> Entry(k, InOrder(bs)[i], is)]

\* OnAdd and OnRemove
NotedInSlip(u, is) == ready           \* a slip: only OnRemove remakes
NotedIn(u, is) ==
    [k \in Kinds |-> IF remake[k] THEN ready[k] ELSE Append(ready[k], Entry(k, u, is))]
AllRemade == [k \in Kinds |-> TRUE]

\* GetNickList, GetInfoList, GetIPList: the list a caller gets
Got(k, bs, is, lists) == IF remake[k] THEN Made(k, bs, is) ELSE lists[k]

-----------------------------------------------------------------------------
(* What the clients are told *)

\* SendToAll of a $MyINFO of u
Told(v, u, i, clients) ==
    [w \in RosterUsers |-> IF w \in clients THEN [v[w] EXCEPT ![u] = i] ELSE v[w]]

\* NickList: the $MyINFO list, and before it the nicks, or the nicks alone
TakesIn(v, client, infos, nicks) ==
    [u \in RosterUsers |->
       LET es == {e \in infos : e.who = u}
       IN  IF client \notin OldClients /\ es # {} THEN (CHOOSE e \in es : TRUE).what
           ELSE IF v[u] = Unknown /\ u \in nicks THEN NickOnly
           ELSE v[u]]

\* the list goes to w, out of the table bs, with v known to the clients
SendLists(w, bs, is, lists, v) ==
    LET infos == ToSet(Got("info", bs, is, lists))
        nicks == {e.who : e \in ToSet(Got("nick", bs, is, lists))}
        used  == IF w \in OldClients THEN {"nick"} ELSE {"nick", "info"}
    IN  /\ view' = [v EXCEPT ![w] = TakesIn(v[w], w, infos, nicks)]
        /\ ready' = [k \in Kinds |-> IF k \in used THEN Got(k, bs, is, lists) ELSE lists[k]]
        /\ remake' = [k \in Kinds |-> remake[k] /\ k \notin used]
        /\ gotList' = gotList \cup {w}
        /\ behind' = [behind EXCEPT ![w] =
                        IF w \in OldClients THEN @
                        ELSE {u \in Everyone(bs) : \E e \in infos : e.who = u /\ e.what # is[u]}]

Nothing == [u \in RosterUsers |-> Unknown]

\* a client that is cut off: what it has been told is of no matter any more
Forgets(u, v, b) ==
    /\ view' = [v EXCEPT ![u] = Nothing]
    /\ gotList' = gotList \ {u}
    /\ behind' = [b EXCEPT ![u] = {}]

-----------------------------------------------------------------------------
(* Users *)

\* AddToList and ShowUserToAll, then the list if it was asked for
Arrive(u, i, asks) ==
    LET is    == [info EXCEPT ![u] = i]
        bs    == AddWithHash(u, buckets)
        lists == NotedIn(u, is)
        seen  == Told(view, u, i, CanSend \cup ({u} \ Bots))
    IN  /\ u \notin Listed /\ SameHash(u, buckets) = {}
        /\ buckets' = bs
        /\ mSize' = mSize + 1
        /\ info' = is
        /\ IF asks /\ u \notin Bots
           THEN SendLists(u, bs, is, lists, seen)
           ELSE /\ ready' = lists
                /\ view' = seen
                /\ behind' = [w \in RosterUsers |-> behind[w] \ {u}]
                /\ UNCHANGED <<remake, gotList>>
        /\ UNCHANGED cutOff

\* $GetNickList of a user in the list
GetNickList(w) ==
    /\ w \in CanSend
    /\ SendLists(w, buckets, info, ready, view)
    /\ UNCHANGED <<buckets, mSize, info, cutOff>>

\* the operators' $UserIP list, a script's list of nicks: used, not looked into
UseList(k) ==
    /\ ready' = [ready EXCEPT ![k] = Got(k, buckets, info, ready)]
    /\ remake' = [remake EXCEPT ![k] = FALSE]
    /\ UNCHANGED <<buckets, mSize, info, cutOff, view, gotList, behind>>

\* $GetINFO of another user
GetINFO(w, u) ==
    /\ w \in CanSend /\ u \in Listed
    /\ w \in OldClients
    /\ view' = [view EXCEPT ![w][u] = info[u]]
    /\ UNCHANGED <<buckets, mSize, ready, remake, info, cutOff, gotList, behind>>

\* a later $MyINFO that differs; a robot's description is set
ChangeInfo(u, i) ==
    /\ u \in Listed /\ i # info[u]
    /\ info' = [info EXCEPT ![u] = i]
    /\ view' = Told(view, u, i, CanSend)
    /\ behind' = [w \in RosterUsers |-> behind[w] \ {u}]
    /\ UNCHANGED <<buckets, mSize, ready, remake, cutOff, gotList>>

\* the connection fails; the user is still listed
Break(u) ==
    /\ u \in CanSend
    /\ cutOff' = cutOff \cup {u}
    /\ Forgets(u, view, behind)
    /\ UNCHANGED <<buckets, mSize, ready, remake, info>>

\* RemoveNick: out of the table, then $Quit to all who are left
Quit(u) ==
    /\ u \in Listed
    /\ buckets' = RemoveByHash(u, buckets)
    /\ mSize' = mSize - 1
    /\ remake' = AllRemade
    /\ cutOff' = cutOff \ {u}
    /\ Forgets(u, Told(view, u, Unknown, CanSend), [w \in RosterUsers |-> behind[w] \ {u}])
    /\ ready' = [k \in Kinds |-> <<>>]         \* not read again before it is made again
    /\ info' = [info EXCEPT ![u] = 1]

\* AutoResize, from OnTimer
AutoResize ==
    /\ WrongSize(buckets, mSize)
    /\ buckets' = Resized(buckets, Fitting(mSize))
    /\ UNCHANGED <<mSize, ready, remake, info, cutOff, view, gotList, behind>>

-----------------------------------------------------------------------------
RosterInit ==
    /\ buckets = [i \in 1 .. InitialCapacity |-> <<>>]
    /\ mSize = 0
    /\ ready = [k \in Kinds |-> <<>>]
    /\ remake = AllRemade
    /\ info = [u \in RosterUsers |-> 1]
    /\ cutOff = {}
    /\ view = [u \in RosterUsers |-> Nothing]
    /\ gotList = {}
    /\ behind = [u \in RosterUsers |-> {}]

RosterNext ==
    \/ \E u \in RosterUsers, i \in Infos : \/ \E asks \in BOOLEAN : Arrive(u, i, asks)
                                           \/ ChangeInfo(u, i)
    \/ \E u \in RosterUsers : GetNickList(u) \/ Break(u) \/ Quit(u)
    \/ \E w, u \in RosterUsers : GetINFO(w, u)
    \/ \E k \in Kinds \ {"info"} : UseList(k)
    \/ AutoResize

RosterSpec == RosterInit /\ [][RosterNext]_rosterVars

-----------------------------------------------------------------------------
RosterTypeOK ==
    /\ buckets \in Seq(Seq(RosterUsers)) /\ Len(buckets) > 0
    /\ mSize \in Nat
    /\ ready \in [Kinds -> Seq([who : RosterUsers, what : Infos \cup {NickOnly}])]
    /\ remake \in [Kinds -> BOOLEAN]
    /\ info \in [RosterUsers -> Infos]
    /\ cutOff \subseteq RosterUsers
    /\ view \in [RosterUsers -> [RosterUsers -> Infos \cup {NickOnly, Unknown}]]
    /\ gotList \subseteq RosterUsers
    /\ behind \in [RosterUsers -> SUBSET RosterUsers]

(***************************************************************************)
(* The hash table finds everybody: each entry is in the slot its hash      *)
(* belongs to, once, and mSize counts the entries, whatever the order of   *)
(* additions, removals and resizings.                                      *)
(***************************************************************************)
TableExact ==
    /\ \A i \in DOMAIN buckets : \A u \in ToSet(buckets[i]) : SlotOf(u, buckets) = i
    /\ IsInjective(InOrder(buckets))
    /\ mSize = Len(InOrder(buckets))

(***************************************************************************)
(* What a client that asked for the list has in it is who is there:        *)
(* newcomers are announced after they are listed and before the list goes  *)
(* out to them, and $Quit goes to all who are left, so that nobody is      *)
(* missing and nobody who left stays; and the $MyINFO it has of somebody   *)
(* is that user's own, but for an entry that was out of date in the        *)
(* ready-made list when the client took it, until that user's next change. *)
(* The ready-made lists themselves, unless they are to be made again, name *)
(* everybody in the list, once, and nobody else.                           *)
(***************************************************************************)
ReadyExact ==
    \A k \in Kinds : ~remake[k] =>
        /\ {e.who : e \in ToSet(ready[k])} = Listed
        /\ Len(ready[k]) = mSize
ViewExact ==
    /\ ReadyExact
    /\ \A w \in CanSend : \A u \in RosterUsers :
         /\ w \in gotList => (view[w][u] # Unknown <=> u \in Listed)
         /\ u \in Listed => view[w][u] \in {info[u], NickOnly, Unknown} \/ u \in behind[w]

(***************************************************************************)
(* The collection and what was made of it, both: cUserCollection keeps the *)
(* lists apart from the table that it also is (cusercollection.cpp).       *)
(***************************************************************************)
CollectionsExact == TableExact /\ ViewExact
=============================================================================
