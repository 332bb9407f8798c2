------------------------------ MODULE Protocol ------------------------------
(***************************************************************************)
(* The dispatch of a parsed message (cDCProto::TreatMsg) and the handlers  *)
(* of operators' and pingers' messages: who may use them, on whom they     *)
(* work, and what a refused or malformed message costs its sender.         *)
(* Message divides the text, Relay has the messages between users, Bans    *)
(* the bans behind $Ban and $TempBan.                                      *)
(***************************************************************************)
EXTENDS Integers, FiniteSets

CONSTANTS
    Nicks,          \* users and robots
    Bots,           \* those without a connection
    GradeOf,        \* nick -> mClass
    ShieldOf,       \* nick -> mProtectFrom
    SameHost,       \* nicks at one address
    MoveGrade, IpGrade, TopicGrade,   \* mC.min_class_redir, user_ip_class, topic_mod_class
    KickGap,        \* mC.classdif_kick
    Topics,         \* topics, one of them empty
    TooLong         \* types of messages that have a limit of their length

OperatorGrade == 3  \* eUC_OPERATOR
PingerGrade == -1   \* eUC_PINGER
NoTopic == ""

ASSUME ProtocolAssumption ==
    /\ Bots \subseteq Nicks /\ SameHost \subseteq Nicks \ Bots
    /\ GradeOf \in [Nicks -> Int] /\ ShieldOf \in [Nicks -> Nat]
    /\ {MoveGrade, IpGrade, TopicGrade, KickGap} \subseteq Nat
    /\ NoTopic \in Topics
    /\ Topics \cap {"IP", "move", "HubINFO"} = {}   \* an answer is told from a topic

VARIABLES
    seat,      \* nick -> "away", "known" (mpUser), "listed" (mInList), "closing" (listed, CloseNice), "refused"
    features,  \* nick -> BOTINFO was among its features
    pinged,    \* nick -> eLS_BOTINFO
    topic,     \* mC.hub_topic
    savedTopic,\* hub_topic in SetupList
    answer,    \* what the last message made the hub send: to, what, of whom
    setBy      \* history: how the topic got its value

protocolVars == <<seat, features, pinged, topic, savedTopic, answer, setBy>>

People == Nicks \ Bots
InList(n) == seat[n] \in {"listed", "closing"}
MayTalk(n) == seat[n] \in {"known", "listed"}
Nothing == [to |-> {}, what |-> "", of |-> {}]
Replies(n, what, whom) == answer' = [to |-> {n}, what |-> what, of |-> whom]

\* ConnCloseMsg and CloseNow: the connection takes no more messages
Closes(n) == seat' = [seat EXCEPT ![n] = IF InList(n) THEN "closing" ELSE "refused"]
Refuse(n) == Closes(n) /\ answer' = Nothing /\ UNCHANGED <<features, pinged, topic, savedTopic, setBy>>

-----------------------------------------------------------------------------
(* Coming and going *)

ComeIn(n) ==
    /\ n \in People /\ seat[n] = "away"
    /\ seat' = [seat EXCEPT ![n] = "known"]
    /\ \E b \in BOOLEAN : features' = [features EXCEPT ![n] = b]
    /\ answer' = Nothing
    /\ UNCHANGED <<pinged, topic, savedTopic, setBy>>

\* AfterUserLogin shows the topic to those who enter
ShowTopic(n) ==
    /\ seat[n] = "known"
    /\ seat' = [seat EXCEPT ![n] = "listed"]
    /\ IF topic = NoTopic THEN answer' = Nothing ELSE Replies(n, topic, {})
    /\ UNCHANGED <<features, pinged, topic, savedTopic, setBy>>

GoOut(n) ==
    /\ n \in People /\ seat[n] # "away"
    /\ seat' = [seat EXCEPT ![n] = "away"]
    /\ features' = [features EXCEPT ![n] = FALSE] /\ pinged' = [pinged EXCEPT ![n] = FALSE]
    /\ answer' = Nothing
    /\ UNCHANGED <<topic, savedTopic, setBy>>

-----------------------------------------------------------------------------
(* What stands before a handler *)

\* CheckUserLogin: mpUser, and for most messages also mInList
LoggedIn(n, inlist) == seat[n] = "listed" \/ (seat[n] = "known" /\ ~inlist)
\* CheckProtoLen: only some types have a limit
LengthRight(type, long) == ~(long /\ type \in TooLong)

\* TreatMsg asks the plugins, who may drop the message, then the handler asks
\* in this order for the login, the right, the length and the form
Treated(n, type, right, inlist) == LoggedIn(n, inlist) /\ right
TreatMsg(n, type, right, inlist, Handler) ==
    /\ n \in People /\ MayTalk(n)
    /\ \E is \in {"dropped", "long", "malformed", "fine"} :
        IF is = "dropped"
        THEN answer' = Nothing /\ UNCHANGED <<seat, features, pinged, topic, savedTopic, setBy>>
        ELSE IF ~Treated(n, type, right, inlist) \/ ~LengthRight(type, is = "long") \/ is = "malformed"
        THEN Refuse(n)
        ELSE Handler

Grade(n, least) == GradeOf[n] >= least
Asked(n, what, whom) == Replies(n, what, whom) /\ UNCHANGED <<seat, features, pinged, topic, savedTopic, setBy>>

-----------------------------------------------------------------------------
(* The handlers *)

\* DCB_BotINFO: of a pinger or a client that said it is one, once; the others are closed
Pinger(n) == features[n] \/ GradeOf[n] = PingerGrade
BotINFO(n) ==
    TreatMsg(n, "BotINFO", Pinger(n) /\ ~pinged[n], FALSE,
        /\ pinged' = [pinged EXCEPT ![n] = TRUE]
        /\ Replies(n, "HubINFO", {})
        /\ UNCHANGED <<seat, features, topic, savedTopic, setBy>>)

\* DCO_UserIP: of those in the list; robots have the local address
UserIP(n, asked) ==
    TreatMsg(n, "UserIP", Grade(n, IpGrade), TRUE,
        Asked(n, "IP", {k \in asked : k \in Bots \/ InList(k)}))

\* DCO_WhoIP: who is at an address; an unreadable one is nobody's
WhoIP(n, readable) ==
    TreatMsg(n, "WhoIP", Grade(n, IpGrade), TRUE,
        Asked(n, "IP", IF readable THEN {k \in SameHost : InList(k)} ELSE {}))

\* DCO_Kick, DCKickNick with eKI_CLOSE alone: no ban, no text, no plugin
BelowForKick(n, k) == GradeOf[k] + KickGap <= GradeOf[n] /\ ShieldOf[k] < GradeOf[n]
Kick(n, k, canKick) ==
    TreatMsg(n, "Kick", canKick, TRUE,
        /\ IF k # n /\ k \in People /\ InList(k) /\ BelowForKick(n, k)
           THEN seat' = [seat EXCEPT ![k] = "closing"] ELSE UNCHANGED seat
        /\ Replies(n, "kick", {k})
        /\ UNCHANGED <<features, pinged, topic, savedTopic, setBy>>)

\* DCO_OpForceMove: to an address, of somebody below
BelowForMove(n, k) == GradeOf[k] < GradeOf[n] /\ ShieldOf[k] < GradeOf[n]
OpForceMove(n, k, address) ==
    TreatMsg(n, "OpForceMove", Grade(n, MoveGrade), TRUE,
        /\ IF k \in People /\ InList(k) /\ BelowForMove(n, k) /\ address
           THEN seat' = [seat EXCEPT ![k] = "closing"] /\ Replies(k, "move", {n})
           ELSE UNCHANGED seat /\ Replies(n, "not moved", {k})
        /\ UNCHANGED <<features, pinged, topic, savedTopic, setBy>>)

\* DCO_UnBan asks for bans by address and by the empty nick, DCO_GetBanList
\* does nothing for those who may ask
UnBan(n) == TreatMsg(n, "UnBan", Grade(n, OperatorGrade), TRUE, Asked(n, "bans", {}))
GetBanList(n) ==
    TreatMsg(n, "GetBanList", Grade(n, OperatorGrade), TRUE,
        answer' = Nothing /\ UNCHANGED <<seat, features, pinged, topic, savedTopic, setBy>>)

\* DCO_GetTopic: an empty topic is not sent
GetTopic(n) ==
    TreatMsg(n, "GetTopic", Grade(n, OperatorGrade), TRUE,
        /\ IF topic = NoTopic THEN answer' = Nothing ELSE Replies(n, topic, {})
        /\ UNCHANGED <<seat, features, pinged, topic, savedTopic, setBy>>)

\* DCO_SetTopic: not saved, not limited, no plugin hears of it, nobody is told
SetTopic(n, t) ==
    TreatMsg(n, "SetTopic", Grade(n, TopicGrade), TRUE,
        /\ topic' = t /\ setBy' = "message"
        /\ Replies(n, "topic set", {})
        /\ UNCHANGED <<seat, features, pinged, savedTopic>>)

\* !topic: as SetConfig does, saved and shown to everybody
CmdTopic(n, t) ==
    /\ n \in People /\ seat[n] = "listed" /\ Grade(n, TopicGrade)
    /\ topic' = t /\ savedTopic' = t /\ setBy' = "saved"
    /\ answer' = [to |-> {k \in People : seat[k] = "listed"}, what |-> t, of |-> {}]
    /\ UNCHANGED <<seat, features, pinged>>

\* !reload, SIGHUP: the configuration is read again
Reload ==
    /\ topic' = savedTopic /\ setBy' = "saved"
    /\ answer' = Nothing
    /\ UNCHANGED <<seat, features, pinged, savedTopic>>

\* DCU_Unknown, also for messages that are of no use here: too many end the connection
UnknownMessage(n) ==
    /\ n \in People /\ MayTalk(n)
    /\ Closes(n) \/ UNCHANGED seat
    /\ answer' = Nothing
    /\ UNCHANGED <<features, pinged, topic, savedTopic, setBy>>
\* $Quit asks for no login
SaysQuit(n) == n \in People /\ MayTalk(n) /\ Refuse(n)

\* CheckUserNick: a message in the name of somebody else closes its sender
NamesItself(n, k) ==
    /\ n \in People /\ seat[n] = "listed"
    /\ IF k = n THEN Asked(n, "own name", {}) ELSE Refuse(n)

ProtocolInit ==
    /\ seat = [n \in Nicks |-> IF n \in Bots THEN "listed" ELSE "away"]
    /\ features = [n \in Nicks |-> FALSE] /\ pinged = [n \in Nicks |-> FALSE]
    /\ topic \in Topics /\ savedTopic = topic /\ setBy = "saved"
    /\ answer = Nothing

ProtocolNext ==
    \/ Reload
    \/ \E n \in People :
        \/ ComeIn(n) \/ ShowTopic(n) \/ GoOut(n)
        \/ BotINFO(n) \/ UserIP(n, Nicks)
        \/ UnBan(n) \/ GetBanList(n) \/ GetTopic(n)
        \/ UnknownMessage(n) \/ SaysQuit(n)
        \/ \E k \in Nicks, b \in BOOLEAN : Kick(n, k, b) \/ OpForceMove(n, k, b)
        \/ \E b \in BOOLEAN : WhoIP(n, b)
        \/ \E k \in Nicks : NamesItself(n, k)
        \/ \E t \in Topics : SetTopic(n, t) \/ CmdTopic(n, t)

ProtocolSpec == ProtocolInit /\ [][ProtocolNext]_protocolVars

-----------------------------------------------------------------------------
(* Properties *)

(***************************************************************************)
(* An operator's message reaches its handler only from somebody in the     *)
(* list with the class for it, so that addresses, moves and topics come    *)
(* from nobody else, and moves and kicks fall on nobody of the same class  *)
(* or above and on no robot (CheckUserLogin, CheckUserRights, DCKickNick). *)
(***************************************************************************)
AnswersEarned ==
    /\ \A n \in answer.to : answer.what = "IP" => GradeOf[n] >= IpGrade /\ seat[n] = "listed"
    /\ answer.what = "move" =>
         \A n \in answer.to, by \in answer.of :
            /\ n \in People /\ seat[n] = "closing"
            /\ GradeOf[by] >= MoveGrade /\ GradeOf[n] < GradeOf[by] /\ ShieldOf[n] < GradeOf[by]
    /\ answer.what = "HubINFO" => \A n \in answer.to : Pinger(n) /\ pinged[n]
    /\ \A b \in Bots : seat[b] = "listed"

(***************************************************************************)
(* A topic that is not the saved one was set by $SetTopic since the last   *)
(* reload, which takes it back: DCO_SetTopic writes mC.hub_topic alone,    *)
(* where !topic also saves (cdcproto.cpp).                                 *)
(***************************************************************************)
TopicKnown == topic # savedTopic => setBy = "message"

ProtocolRight == AnswersEarned /\ TopicKnown
=============================================================================
