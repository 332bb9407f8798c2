------------------------------ MODULE MCTraffic ------------------------------
(***************************************************************************)
(* Small instances of the modules about a single message: Relay (two       *)
(* users, one type of message at a time), Hooks (two plugins with two      *)
(* scripts each), ScriptApi (two users and their accounts at one address,  *)
(* or all but the accounts), Message (one connection's messages), Protocol *)
(* (two users and a robot) and TlsProxy (one caller).  They share no       *)
(* state, so that a behaviour runs one of them.                            *)
(***************************************************************************)
EXTENDS Relay, Hooks, ScriptApi, Message, Protocol, TlsProxy, TLC

CONSTANTS u1, u2, bot, caller

Member(class, passive) ==
    [class |-> class, passive |-> passive, nat |-> FALSE, shares |-> TRUE, enough |-> TRUE,
     hidden |-> FALSE, chatOnly |-> FALSE, lan |-> FALSE]

(* a passive guest, who may not search through the hub, and an active registered user *)
GuestAndUser == u1 :> Member(0, TRUE) @@ u2 :> Member(1, FALSE)

EveryType == {"chat", "to", "mcto", "search", "sr", "ctm", "rctm"}

(* one type in one behaviour: the counters of different types do not meet *)
OneType == {{t} : t \in EveryType}

OneSecond == [t \in EveryType |-> 1]

(* the limits of private texts and searches are those of their own handlers *)
Limits == [t \in EveryType |-> IF t \in {"search", "to", "mcto"} THEN 0 ELSE 1]

(* too many requests end the connection, too many other messages are skipped *)
Actions == [t \in EveryType |-> IF t = "ctm" THEN 2 ELSE 1]

LimitsForAll == [t \in EveryType |-> IF t = "search" THEN 1 ELSE 2]

TwoScriptsEach == "lua" :> <<"l1", "l2">> @@ "python" :> <<"p1", "p2">>

(* what each shares, and addresses in zones of their own *)
Shares == u1 :> 1 @@ u2 :> 2
ZonesByPlace == "p1" :> 1 @@ "p2" :> 2
ClassRanges == {<<0, 10>>, <<1, 3>>}

\* as long as the shortest divisible message of the type, or one letter longer
Bodies == [t \in Known |-> CASE t = "MyINFO" -> 8 [] t = "OpForceMove" -> 7
                             [] t \in {"SR", "To"} -> 6
                             [] t \in {"MSearch", "MSearchPas"} -> 2
                             [] OTHER -> 5]

\* shorter than what they replace, as long, longer
Wordings == {<<>>, <<"a", "a">>, <<"a", "a", "a">>}

\* an operator, a registered user and the hub's own robot
Grades == u1 :> 3 @@ u2 :> 1 @@ bot :> 10
Unshielded == [n \in {u1, u2, bot} |-> 0]

VARIABLE moves     \* which of them moves

messageVars == <<parserVars, protocolVars, tlsProxyVars>>
trafficVars == <<moves, relayVars, hooksVars, scriptApiVars, messageVars>>

MovesRelay == moves = "relay" /\ UNCHANGED <<moves, hooksVars, scriptApiVars, messageVars>>
MovesHooks == moves = "hooks" /\ UNCHANGED <<moves, relayVars, scriptApiVars, messageVars>>
MovesUsers(what) == moves = what /\ UNCHANGED <<moves, relayVars, hooksVars, messageVars>>
MovesOther(what) == moves = what /\ UNCHANGED <<moves, relayVars, hooksVars, scriptApiVars>>

Coming == \E u \in Clients, p \in Places : JoinHub(u, p) \/ LeaveHub(u)
AtOnePlace == \A u \in Clients : place'[u] = "p1"

TrafficInit ==
    /\ moves \in {"relay", "hooks", "accounts", "calls", "text", "operators", "proxy"}
    /\ RelayInit /\ HooksInit /\ ScriptApiInit /\ ParserInit /\ ProtocolInit /\ TlsProxyInit
    /\ moves # "hooks" => pluginOrder = <<"lua", "python">>
    /\ moves # "relay" => sent = {"chat"}
    /\ moves = "calls" =>
         \A u \in Clients : account[u] \in {NoReg, [NoReg EXCEPT !.class = OpRank]}
    /\ moves \notin {"accounts", "calls"} => \A u \in Clients : account[u] = NoReg
    /\ moves # "operators" => topic = NoTopic
    /\ moves # "proxy" => ~onlyTls
TrafficNext ==
    \/ MovesRelay /\ RelayNext
    \/ MovesHooks /\ HooksNext
    \/ MovesUsers("accounts") /\ AccountSteps /\ AtOnePlace
    \/ MovesUsers("calls") /\ (Coming \/ OtherSteps)
    \/ MovesOther("text") /\ ParserNext /\ UNCHANGED <<protocolVars, tlsProxyVars>>
    \/ MovesOther("operators") /\ ProtocolNext /\ UNCHANGED <<parserVars, tlsProxyVars>>
    \/ MovesOther("proxy") /\ TlsProxyNext /\ UNCHANGED <<parserVars, protocolVars>>

TrafficSpec == TrafficInit /\ [][TrafficNext]_trafficVars

TrafficTypeOK == RelayTypeOK /\ HooksTypeOK /\ ScriptApiTypeOK

(***************************************************************************)
(* A message that arrives is taken for what it is, and divided as it was   *)
(* written (Message); it reaches the handlers of operators' messages only  *)
(* from those who may (Protocol); and through the proxy it comes from the  *)
(* address, and with the version of TLS, that the hub was told of before   *)
(* (TlsProxy).                                                             *)
(***************************************************************************)
MessagesRight == MessageRight /\ ProtocolRight /\ TlsProxyRight
=============================================================================
