-------------------------------- MODULE Relay --------------------------------
(***************************************************************************)
(* What the hub passes on between users: main chat, private messages,      *)
(* searches, search results and connection requests (cDCProto::DC_Chat,    *)
(* DC_To, DC_MCTo, DC_Search, DC_SA, DC_SP, DC_SR, DC_ConnectToMe,         *)
(* DC_RevConnectToMe), and what it counts to hold floods back: messages    *)
(* per connection and type, messages of a type from all users, requests to *)
(* one user from all, equal messages, searches per pause, results per      *)
(* passive search.                                                         *)
(*                                                                         *)
(* Every handler is one action.  A text is a value, equal texts have equal *)
(* hashes.  What depends on the words alone (length, search pattern, port, *)
(* address, a plugin's veto) refuses or does not refuse: FALSE and TRUE of *)
(* the parameter `fine`.                                                   *)
(***************************************************************************)
EXTENDS Integers, FiniteSets

CONSTANTS
    Members,      \* users in the list, all with a connection
    Who,          \* member -> [class, passive, nat, shares, enough, hidden, chatOnly, lan]
    Texts,        \* different messages
    Mixes,        \* sets of types of message: one behaviour sends those of one
    Period, Limit,       \* type -> int_flood_..._period and limit; limit 0 is none
    Action,              \* type -> proto_flood_..._action: 0 report, 1 skip, 2 drop, 3 ban
    AllPeriod, AllLimit, \* the same for messages from all users
    MaxFloodClass,  \* max_class_proto_flood
    SearchPause,    \* int_search, in seconds
    SearchNumber,   \* search_number
    MaxSame,        \* max_flood_counter_pm, max_flood_counter_mcto
    MaxResults,     \* max_passive_sr, 0 is no limit
    FilterLan,      \* filter_lan_requests
    ClassDif,       \* classdif_pm, classdif_mcto, classdif_download
    MainChatClass, PrivateClass, UseHubClass, UseHubPassive,
    ChatOnlyBypass, \* chatonly_bypass_class
    Judged,         \* bound: members who leave and come back, and lose rights
    LastSecond      \* bound: the clock stops here

Operator == 3
Vip      == 2

AllTypes == {"chat", "to", "mcto", "search", "rctm"} \* ePFA_...
RightOf == [chat |-> "chat", to |-> "pm", mcto |-> "pm", search |-> "search",
            ctm |-> "ctm", rctm |-> "ctm"]

Types == UNION Mixes

ASSUME RelayAssumption ==
    /\ Types \subseteq {"chat", "to", "mcto", "search", "sr", "ctm", "rctm"}
    /\ \A t \in Types : Period[t] \in Nat /\ Limit[t] \in Nat /\ Action[t] \in 0 .. 3
    /\ \A t \in Types \cap AllTypes : AllPeriod[t] \in Nat /\ AllLimit[t] \in Nat
    /\ SearchPause \in Nat /\ SearchNumber \in Nat /\ MaxSame \in Nat /\ MaxResults \in Nat
    /\ Judged \subseteq Members /\ LastSecond \in Nat

VARIABLES
    now,       \* mTime, in seconds
    cut,       \* members whose connection is being closed
    may,       \* member -> rights it has (cUser::Can)
    own,       \* member -> type -> mProtoFloodCounts, mProtoFloodTimes
    all,       \* type -> mProtoFloodAllCounts, Times, Locks
    revs,      \* member -> mRCTMCount, Time, Lock
    last,      \* member -> type -> mFloodHashes; NoText before the first
    same,      \* member -> type -> mFloodCounters
    searched,  \* member -> mT.search, mSearchNumber
    results,   \* member -> mSRCounter, up to max_passive_sr
    heard,     \* member -> the latest search it got: who and how
    went,      \* history: type -> member -> messages that went out of late: when, and
               \* which one in that second
    sent       \* bound: the types of message sent in this behaviour

relayVars == <<sent, now, cut, may, own, all, revs, last, same, searched, results, heard, went>>
counts    == <<own, all, revs, last, same, searched, results, heard, went>>

NoText  == "none"
Here(u) == u \notin cut
Exempt(u) == Who[u].class > MaxFloodClass

-----------------------------------------------------------------------------
(* Counting windows: the first message opens one, which lasts the period   *)

Fresh(w, period) == w.count = 0 \/ now - w.at > period
Over(w, period, limit) == ~Fresh(w, period) /\ w.count >= limit

\* counts above the limit are not told apart
Counted(w, period, limit) ==
    IF Fresh(w, period) THEN [w EXCEPT !.count = 1, !.at = now]
    ELSE [w EXCEPT !.count = IF @ > limit THEN @ ELSE @ + 1]

Checked(u, t) == ~Exempt(u) /\ Limit[t] > 0 /\ Period[t] > 0

\* CheckProtoFlood stops the message: action 1, 2 or 3
Stopped(u, t) ==
    /\ Checked(u, t) /\ Over(own[u][t], Period[t], Limit[t]) /\ Action[t] > 0
    /\ own' = [own EXCEPT ![u][t] = Counted(@, Period[t], Limit[t])]
    /\ cut' = IF Action[t] > 1 THEN cut \cup {u} ELSE cut
    /\ UNCHANGED <<sent, now, may, all, revs, last, same, searched, results, heard, went>>

\* ... or lets it go on, with action 0 although it is over the limit
Passes(u, t) ==
    /\ ~(Checked(u, t) /\ Over(own[u][t], Period[t], Limit[t]) /\ Action[t] > 0)
    /\ own' = IF Checked(u, t) THEN [own EXCEPT ![u][t] = Counted(@, Period[t], Limit[t])]
                               ELSE own

\* CheckProtoFloodAll: a stopped message starts the period anew
AllChecked(u, t) == ~Exempt(u) /\ AllLimit[t] > 0 /\ AllPeriod[t] > 0
AllOver(w, t) == Over(w, AllPeriod[t], AllLimit[t])
AllCountedSlip(w, t) ==               \* a slip: the count starts anew, too
    IF AllOver(w, t) THEN [count |-> 1, at |-> now, lock |-> TRUE]
    ELSE Counted(w, AllPeriod[t], AllLimit[t])
AllCounted(w, t) ==
    LET c == Counted(w, AllPeriod[t], AllLimit[t])
    IN  IF AllOver(w, t) THEN [c EXCEPT !.at = now, !.lock = TRUE]
        ELSE IF Fresh(w, AllPeriod[t]) THEN [c EXCEPT !.lock = FALSE]
        ELSE c

AllStopped(u, t) == AllChecked(u, t) /\ AllOver(all[t], t)
RevStopped(u, w) == AllChecked(u, "rctm") /\ AllOver(revs[w], "rctm")

\* history: the message goes out, one more in this second; older ones are of
\* no account
Recent(messages, span) == {m \in messages : now - m.at <= span}
InSecond(messages) == {m \in messages : m.at = now}
Remembered(t) == IF t = "search" /\ SearchPause > Period[t] THEN SearchPause ELSE Period[t]
Goes(t, u) ==
    went' = [went EXCEPT ![t][u] = Recent(@, Remembered(t))
                 \cup {[at |-> now, nr |-> Cardinality(InSecond(@)) + 1]}]

-----------------------------------------------------------------------------
(* Chat *)

Says(u, t, text) == last' = [last EXCEPT ![u][t] = text]

\* DC_Chat; commands and kick messages are not passed on
Chat(u, text, fine) ==
    /\ Here(u)
    /\ \/ Stopped(u, "chat")
       \/ /\ Passes(u, "chat")
          /\ LET refused == \/ "chat" \notin may[u]
                            \/ Who[u].class < MainChatClass
                            \/ Who[u].class < Operator /\ last[u]["chat"] = text
                 short   == fine \/ Who[u].class >= Vip
             IN  \/ UNCHANGED <<all, last, went>> \* refused, a command, or too soon (int_chat_ms)
                 \/ /\ ~refused /\ Says(u, "chat", text)
                    /\ IF ~short THEN UNCHANGED <<all, went>>
                       ELSE /\ all' = IF AllChecked(u, "chat")
                                      THEN [all EXCEPT !["chat"] = AllCounted(@, "chat")] ELSE all
                            /\ IF AllStopped(u, "chat") THEN UNCHANGED went
                               ELSE Goes("chat", u)
          /\ UNCHANGED <<sent, now, cut, may, revs, same, searched, results, heard>>

\* a private text to another user: type t is "to" or "mcto"
SameAgain(u, t, text) == Who[u].class < Operator /\ last[u][t] = text
TooOften(u, t, text) == SameAgain(u, t, text) /\ same[u][t] > MaxSame

PrivateMessage(u, w, t, text, fine) ==
    /\ Here(u) /\ Here(w)
    /\ \/ Stopped(u, t)
       \/ /\ Passes(u, t)
          /\ LET refused == \/ "pm" \notin may[u]
                            \/ Who[u].class < PrivateClass
                            \/ Who[u].class + ClassDif < Who[w].class
             IN  \/ refused /\ UNCHANGED <<cut, all, last, same, went>>
                 \/ /\ ~refused /\ TooOften(u, t, text)
                    /\ cut' = cut \cup {u}
                    /\ UNCHANGED <<all, last, same, went>>
                 \/ /\ ~refused /\ ~TooOften(u, t, text)
                    /\ Says(u, t, text)
                    /\ same' = IF SameAgain(u, t, text) THEN [same EXCEPT ![u][t] = @ + 1]
                               ELSE IF Who[u].class < Operator THEN [same EXCEPT ![u][t] = 0]
                               ELSE same
                    /\ IF fine \/ Who[u].class >= Vip
                       THEN /\ all' = IF AllChecked(u, t)
                                      THEN [all EXCEPT ![t] = AllCounted(@, t)] ELSE all
                            /\ IF AllStopped(u, t) THEN UNCHANGED went ELSE Goes(t, u)
                       ELSE UNCHANGED <<all, went>>
                    /\ UNCHANGED cut
          /\ UNCHANGED <<sent, now, may, revs, searched, results, heard>>

DC_To(u, w, text, fine)   == PrivateMessage(u, w, "to", text, fine)
DC_MCTo(u, w, text, fine) == PrivateMessage(u, w, "mcto", text, fine)

-----------------------------------------------------------------------------
(* Searches *)

\* SearchToAll: who gets a search of u
ReachedSlip(u, passive) ==            \* a slip: passive users get every search
    {w \in Members \ {u} :
       /\ Here(w)
       /\ Who[w].shares /\ ~Who[w].hidden /\ ~Who[w].chatOnly /\ Who[w].class >= 0
       /\ passive \/ (FilterLan => Who[u].lan = Who[w].lan)}
Reached(u, passive) ==
    {w \in Members \ {u} :
       /\ Here(w)
       /\ Who[w].shares /\ ~Who[w].hidden /\ ~Who[w].chatOnly /\ Who[w].class >= 0
       /\ IF passive THEN ~Who[w].passive \/ (Who[u].nat /\ Who[w].nat)
          ELSE FilterLan => Who[u].lan = Who[w].lan}

\* MinDelay and the number of searches within the pause
TooSoon(u) == SearchPause > 0 /\ now - searched[u].at < SearchPause
Bored(u) == TooSoon(u) /\ SearchNumber > 0 /\ searched[u].number >= SearchNumber
Waited(u) == IF TooSoon(u) THEN searched[u]
             ELSE [at |-> IF SearchPause > 0 THEN now ELSE searched[u].at, number |-> 0]

\* what is said to the user once and then refused, in the order of the handlers
SearchRefused(u, passive, fine) ==
    \/ Who[u].class < (IF passive THEN UseHubPassive ELSE UseHubClass)
    \/ ~Who[u].enough
    \/ "search" \notin may[u]
    \/ ~fine

SearchGoes(u, passive) ==
    /\ searched' = [searched EXCEPT ![u] = [Waited(u) EXCEPT !.number = @ + 1]]
    /\ results' = IF passive THEN [results EXCEPT ![u] = 0] ELSE results
    /\ heard' = [w \in Members |-> IF w \in Reached(u, passive)
                                    THEN [from |-> u, passive |-> passive] ELSE heard[w]]
    /\ Goes("search", u)

\* a passive search asks for results through the hub
Search(u, passive, text, fine) ==
    /\ Here(u)
    /\ \/ Stopped(u, "search")
       \/ /\ Passes(u, "search")
          /\ LET silent  == Who[u].class < Operator /\ last[u]["search"] = text
                 counted == ~silent /\ ~SearchRefused(u, passive, fine)
                            /\ passive /\ AllChecked(u, "search")
             IN  \/ Bored(u) /\ UNCHANGED <<all, last, searched, results, heard, went>>
                 \/ /\ ~Bored(u)
                    /\ last' = IF Who[u].class < Operator THEN [last EXCEPT ![u]["search"] = text]
                               ELSE last
                    /\ all' = IF counted THEN [all EXCEPT !["search"] = AllCounted(@, "search")]
                              ELSE all
                    /\ IF silent \/ SearchRefused(u, passive, fine)
                          \/ (counted /\ AllStopped(u, "search"))
                       THEN /\ searched' = [searched EXCEPT ![u] = Waited(u)]
                            /\ UNCHANGED <<results, heard, went>>
                       ELSE SearchGoes(u, passive)
          /\ UNCHANGED <<sent, now, cut, may, revs, same>>

\* DC_Search does as DC_SA when it names an address, as DC_SP when it names a nick
DC_SA(u, text, fine) == Search(u, FALSE, text, fine)
DC_SP(u, text, fine) == Search(u, TRUE, text, fine)

\* DC_SR: a result for w, from u; results counts those that reach w
AnsweredSlip(n) == IF n <= MaxResults THEN n + 1 ELSE n    \* a slip: one more
Answered(n) == IF n < MaxResults THEN n + 1 ELSE n
SearchResult(u, w) ==
    /\ Here(u) /\ Here(w)
    /\ \/ Stopped(u, "sr")
       \/ /\ Passes(u, "sr")
          /\ results' = IF MaxResults = 0 THEN results
                        ELSE [results EXCEPT ![w] = Answered(@)]
          /\ UNCHANGED <<sent, now, cut, may, all, revs, last, same, searched, heard, went>>

-----------------------------------------------------------------------------
(* Connection requests *)

MayDownload(u, w) ==
    /\ Who[u].enough /\ "ctm" \in may[u]
    /\ Who[u].class + ClassDif >= Who[w].class
    /\ Who[u].class >= Operator \/ ~Who[w].hidden
    /\ Who[w].chatOnly => Who[u].class >= ChatOnlyBypass

\* DC_ConnectToMe: u asks w to connect to it
DirectOpen(u, w) == FilterLan => Who[u].lan = Who[w].lan
ConnectToMe(u, w, fine) ==
    /\ Here(u) /\ Here(w)
    /\ \/ Stopped(u, "ctm")
       \/ /\ Passes(u, "ctm")
          /\ IF /\ u # w /\ fine
                /\ Who[u].class >= UseHubClass
                /\ MayDownload(u, w) /\ DirectOpen(u, w)
             THEN Goes("ctm", u) ELSE UNCHANGED went
          /\ UNCHANGED <<sent, now, cut, may, all, revs, last, same, searched, results, heard>>

\* DC_RevConnectToMe: u asks w to ask u
ReverseOpen(u, w) == ~Who[w].passive \/ (Who[u].nat /\ Who[w].nat)
RevConnectToMe(u, w, fine) ==
    /\ Here(u) /\ Here(w)
    /\ \/ Stopped(u, "rctm")
       \/ /\ Passes(u, "rctm")
          /\ IF /\ u # w
                /\ ReverseOpen(u, w) /\ ~Who[u].hidden
                /\ Who[u].class >= UseHubPassive
                /\ MayDownload(u, w)
             THEN /\ revs' = IF AllChecked(u, "rctm")
                             THEN [revs EXCEPT ![w] = AllCounted(@, "rctm")] ELSE revs
                  /\ IF RevStopped(u, w) \/ ~fine THEN UNCHANGED went ELSE Goes("rctm", u)
             ELSE UNCHANGED <<revs, went>>
          /\ UNCHANGED <<sent, now, cut, may, all, last, same, searched, results, heard>>

-----------------------------------------------------------------------------
(* Around them *)

\* an operator takes a right or gives it back (module Rights)
SetRight(u, r) ==
    /\ may' = [may EXCEPT ![u] = IF r \in @ THEN @ \ {r} ELSE @ \cup {r}]
    /\ UNCHANGED <<sent, now, cut, counts>>

NoWindow  == [count |-> 0, at |-> 0]
NoWindow3 == [count |-> 0, at |-> 0, lock |-> FALSE]
NoSearch  == [from |-> NoText, passive |-> FALSE]
Rights4   == {RightOf[t] : t \in Types \ {"sr"}}

\* the user leaves and another connection takes the place: counters are new
ComeBack(u) ==
    /\ cut' = cut \ {u}
    /\ may' = [may EXCEPT ![u] = Rights4]
    /\ own' = [own EXCEPT ![u] = [t \in Types |-> NoWindow]]
    /\ revs' = [revs EXCEPT ![u] = NoWindow3]
    /\ last' = [last EXCEPT ![u] = [t \in Types |-> NoText]]
    /\ same' = [same EXCEPT ![u] = [t \in Types |-> 0]]
    /\ searched' = [searched EXCEPT ![u] = [at |-> -SearchPause, number |-> 0]]
    /\ results' = [results EXCEPT ![u] = 0]
    /\ heard' = [w \in Members |-> IF w = u \/ heard[w].from = u THEN NoSearch ELSE heard[w]]
    /\ went' = [t \in Types |-> [went[t] EXCEPT ![u] = {}]]
    /\ UNCHANGED <<sent, now, all>>

SecondPasses ==
    /\ now < LastSecond
    /\ now' = now + 1
    /\ UNCHANGED <<sent, cut, may, counts>>

-----------------------------------------------------------------------------
RelayInit ==
    /\ sent \in Mixes
    /\ now = 0 /\ cut = {}
    /\ may = [u \in Members |-> Rights4]
    /\ own = [u \in Members |-> [t \in Types |-> NoWindow]]
    /\ all = [t \in Types \cap AllTypes |-> NoWindow3]
    /\ revs = [u \in Members |-> NoWindow3]
    /\ last = [u \in Members |-> [t \in Types |-> NoText]]
    /\ same = [u \in Members |-> [t \in Types |-> 0]]
    /\ searched = [u \in Members |-> [at |-> -SearchPause, number |-> 0]]
    /\ results = [u \in Members |-> 0]
    /\ heard = [u \in Members |-> NoSearch]
    /\ went = [t \in Types |-> [u \in Members |-> {}]]

RelayNext ==
    \/ \E u \in Members, text \in Texts, fine \in BOOLEAN :
         \/ "chat" \in sent /\ Chat(u, text, fine)
         \/ "search" \in sent /\ DC_SA(u, text, fine)
         \/ "search" \in sent /\ DC_SP(u, text, fine)
         \/ \E w \in Members :
              \/ "to" \in sent /\ DC_To(u, w, text, fine)
              \/ "mcto" \in sent /\ DC_MCTo(u, w, text, fine)
    \/ \E u, w \in Members, fine \in BOOLEAN :
         \/ "sr" \in sent /\ SearchResult(u, w)
         \/ "ctm" \in sent /\ ConnectToMe(u, w, fine)
         \/ "rctm" \in sent /\ RevConnectToMe(u, w, fine)
    \/ \E u \in Judged : \E t \in sent \ {"sr"} : SetRight(u, RightOf[t])
    \/ \E u \in Judged : ComeBack(u)
    \/ SecondPasses

RelaySpec == RelayInit /\ [][RelayNext]_relayVars

-----------------------------------------------------------------------------
RelayTypeOK ==
    /\ sent \in Mixes
    /\ now \in Nat /\ cut \subseteq Members
    /\ may \in [Members -> SUBSET Rights4]
    /\ own \in [Members -> [Types -> [count : Nat, at : Nat]]]
    /\ all \in [Types \cap AllTypes -> [count : Nat, at : Nat, lock : BOOLEAN]]
    /\ revs \in [Members -> [count : Nat, at : Nat, lock : BOOLEAN]]
    /\ last \in [Members -> [Types -> Texts \cup {NoText}]]
    /\ same \in [Members -> [Types -> Nat]]
    /\ searched \in [Members -> [at : Int, number : Nat]]
    /\ results \in [Members -> 0 .. MaxResults]
    /\ heard \in [Members -> [from : Members \cup {NoText}, passive : BOOLEAN]]
    /\ went \in [Types -> [Members -> SUBSET [at : Nat, nr : Nat]]]

(***************************************************************************)
(* A connection gets no more than twice the limit of a type through in any *)
(* stretch as long as the period, since the window is not a sliding one;   *)
(* and "You can perform N searches in T" means at most twice N in any T    *)
(* seconds, whatever becomes of the searches that were refused and still   *)
(* started a pause.                                                        *)
(***************************************************************************)
LimitsHold ==
    /\ \A t \in Types : \A u \in Members :
         Checked(u, t) /\ Action[t] > 0 =>
             Cardinality(Recent(went[t][u], Period[t])) <= 2 * Limit[t]
    /\ \A u \in Members : "search" \in Types /\ SearchNumber > 0 /\ SearchPause > 0 =>
         Cardinality({m \in went["search"][u] : now - m.at < SearchPause}) <= 2 * SearchNumber

(***************************************************************************)
(* Who hears a search can be asked for a connection in the way the search  *)
(* implies, as far as mode, address and what is hidden go: the two filters *)
(* are written apart, in SearchToAll and in the handlers of the requests.  *)
(***************************************************************************)
HeardCanAnswer ==
    \A w \in Members : heard[w].from # NoText =>
        LET u == heard[w].from
        IN  /\ ~Who[w].hidden /\ ~Who[w].chatOnly
            /\ IF heard[w].passive THEN ReverseOpen(u, w) ELSE DirectOpen(u, w)

(***************************************************************************)
(* A command locked for all stays locked until nobody has tried it for a   *)
(* whole period: no message of it goes out before (what has gone out stays *)
(* as it is, or is a leaving member's and forgotten).                      *)
(***************************************************************************)
LockHolds ==
    [][\A t \in Types \cap {"chat", "to", "mcto"} : \A u \in Members :
         all[t].lock /\ now - all[t].at <= AllPeriod[t] /\ ~Exempt(u) =>
             went'[t][u] \in {went[t][u], {}}]_relayVars

(***************************************************************************)
(* The limits and the filters together, which every handler asks in its    *)
(* own order (DC_Search, DC_To, DC_ConnectToMe).                           *)
(***************************************************************************)
RelayRight == LimitsHold /\ HeardCanAnswer
=============================================================================
