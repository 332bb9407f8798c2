------------------------------ MODULE TlsProxy ------------------------------
(***************************************************************************)
(* The TLS proxy that may stand before the hub (tls-proxy, written in Go)  *)
(* and the hub's side of it: a connection from the proxy's address is      *)
(* greeted only when $MyIP has told whose it is and which version of TLS   *)
(* it uses; any other connection is greeted at once.  The proxy runs two   *)
(* goroutines for a caller, one for each direction, and closes both ends   *)
(* when either of them ends.  Callers speak in lines.                      *)
(***************************************************************************)
EXTENDS Integers, Sequences, FiniteSets

CONSTANTS
    Callers,
    Addresses, ProxyAddress,    \* mTLSAddr
    Versions, MinVersion,       \* of TLS, as numbers 10 (1.0) to 13, and tls_min_ver
    Detects,                    \* tls_detect_wait > 0 and a certificate was loaded
    MaxLines                    \* bound on the lines of a caller and of the hub

PlainText == 0    \* version "0.0"
NoVersion == -1   \* mTLSVer is empty

ASSUME TlsProxyAssumption ==
    /\ ProxyAddress \in Addresses /\ Versions \subseteq Nat \ {0} /\ MinVersion \in Nat
    /\ Detects \in BOOLEAN /\ MaxLines \in Nat

VARIABLES
    onlyTls,   \* mC.tls_only_mode, of the whole run
    via,       \* how a caller reaches the hub: "proxy" or "direct"
    origin,    \* its address
    leg,       \* where serve() is: "away", "reading", "shaking", "streaming", "ended"
    opens,     \* the version whose hello it sent first, or PlainText
    agreed,    \* what serve() found out
    outgoing,  \* lines of the caller that the proxy has not read
    wire,      \* what the hub can read of this connection
    hubEnd,    \* the hub's connection: "none", "waiting", "open", "closing", "closed"
    hubAddr, hubVer,   \* AddrIP and mTLSVer
    back,      \* lines of the hub on their way to the caller
    spoken, said,      \* how many lines the caller and the hub have written
    left,      \* the caller has closed its end
    greets,    \* history: how often OnNewConn was called
    early,     \* history: a line was treated before that
    clash      \* history: a line met the closed connection of the hub

sides == <<onlyTls, via, origin, opens, agreed, left>>
lines == <<outgoing, wire, back, spoken, said>>
hubSide == <<hubEnd, hubAddr, hubVer, greets, early>>
tlsProxyVars == <<sides, leg, lines, hubSide, clash>>

Line == [kind |-> "line", addr |-> ProxyAddress, ver |-> PlainText]
MyIP(a, v) == [kind |-> "ip", addr |-> a, ver |-> v]

Set(f, c, x) == [f EXCEPT ![c] = x]
HubHas(c) == hubEnd[c] \in {"waiting", "open", "closing"}

-----------------------------------------------------------------------------
(* The caller *)

\* it may say a hello of TLS first, or nothing, or lines at once
Call(c) ==
    /\ leg[c] = "away"
    /\ \E a \in Addresses, v \in {PlainText} \cup Versions :
        origin' = Set(origin, c, a) /\ opens' = Set(opens, c, v)
    /\ via' = Set(via, c, "proxy") /\ leg' = Set(leg, c, "reading")
    /\ UNCHANGED <<onlyTls, agreed, left, lines, hubSide, clash>>

CallerWrites(c, l) ==
    /\ leg[c] \in {"reading", "shaking", "streaming"} /\ ~left[c] /\ spoken[c] < MaxLines
    /\ outgoing' = Set(outgoing, c, Append(outgoing[c], l))
    /\ spoken' = Set(spoken, c, spoken[c] + 1)
    /\ UNCHANGED <<sides, leg, wire, back, said, hubSide, clash>>

Leaves(c) ==
    /\ leg[c] \in {"reading", "shaking", "streaming"} /\ ~left[c]
    /\ left' = Set(left, c, TRUE)
    /\ UNCHANGED <<onlyTls, via, origin, opens, agreed, leg, lines, hubSide, clash>>

-----------------------------------------------------------------------------
(* The proxy *)

Ends(c) == leg' = Set(leg, c, "ended")
ServeFails(c) == Ends(c) /\ UNCHANGED <<sides, lines, hubSide, clash>>

HeaderSlip(c, v, first) == first \o <<MyIP(origin[c], v)>>
\* dialHub and the first write: the address in front of what was read
Header(c, v, first) == <<MyIP(origin[c], v)>> \o first
WriteAndStream(c, v, first) ==
    \/ ServeFails(c)
    \/ /\ leg' = Set(leg, c, "streaming")
       /\ agreed' = Set(agreed, c, v)
       /\ wire' = Set(wire, c, Header(c, v, first))
       /\ outgoing' = Set(outgoing, c, SubSeq(outgoing[c], Len(first) + 1, Len(outgoing[c])))
       /\ hubEnd' = Set(hubEnd, c, "waiting") /\ hubAddr' = Set(hubAddr, c, ProxyAddress)
       /\ UNCHANGED <<onlyTls, via, origin, opens, left, back, spoken, said, hubVer, greets, early, clash>>

\* serve: a hello in time starts the handshake, a text in time goes with the
\* address, silence until the deadline means plain text, whatever comes later
Serve(c) ==
    /\ leg[c] = "reading"
    /\ \/ ~Detects /\ WriteAndStream(c, PlainText, <<>>)
       \/ Detects /\ opens[c] # PlainText /\ leg' = Set(leg, c, "shaking")
            /\ UNCHANGED <<sides, lines, hubSide, clash>>
       \/ Detects /\ opens[c] = PlainText /\ outgoing[c] # <<>> /\ WriteAndStream(c, PlainText, outgoing[c])
       \/ Detects /\ ~left[c] /\ WriteAndStream(c, PlainText, <<>>)
       \/ Detects /\ left[c] /\ outgoing[c] = <<>> /\ ServeFails(c)

Handshake(c) ==
    /\ leg[c] = "shaking"
    /\ \/ opens[c] >= MinVersion /\ ~left[c] /\ WriteAndStream(c, opens[c], <<>>)
       \/ (opens[c] < MinVersion \/ left[c]) /\ ServeFails(c)

\* copyBuffer from the caller to the hub; a line for a hub that has closed is
\* lost or ends the stream, with what the hub wrote last
CopyUp(c) ==
    /\ leg[c] = "streaming" /\ outgoing[c] # <<>>
    /\ outgoing' = Set(outgoing, c, Tail(outgoing[c]))
    /\ IF HubHas(c)
       THEN wire' = Set(wire, c, Append(wire[c], Head(outgoing[c]))) /\ UNCHANGED <<leg, clash>>
       ELSE /\ UNCHANGED wire /\ clash' = Set(clash, c, TRUE)
            /\ Ends(c) \/ UNCHANGED leg
    /\ UNCHANGED <<sides, back, spoken, said, hubSide>>

CopyDown(c) ==
    /\ leg[c] = "streaming" /\ back[c] > 0
    /\ back' = Set(back, c, back[c] - 1)
    /\ UNCHANGED <<sides, leg, outgoing, wire, spoken, said, hubSide, clash>>

\* stream: both ends are closed when one direction has ended
UpEnds(c) ==
    /\ leg[c] = "streaming" /\ left[c] /\ outgoing[c] = <<>>
    /\ ServeFails(c)
DownOver(c) == hubEnd[c] = "closed" /\ back[c] = 0
DownEnds(c) == leg[c] = "streaming" /\ DownOver(c) /\ ServeFails(c)

-----------------------------------------------------------------------------
(* The hub *)

\* newConnection of a caller that does not come through the proxy
CallDirectly(c) ==
    /\ leg[c] = "away"
    /\ \E a \in Addresses :
        /\ origin' = Set(origin, c, a) /\ hubAddr' = Set(hubAddr, c, a)
        /\ IF a = ProxyAddress      \* wait for myip command
           THEN hubEnd' = Set(hubEnd, c, "waiting") /\ UNCHANGED <<greets, back, said>>
           ELSE hubEnd' = Set(hubEnd, c, "open") /\ greets' = Set(greets, c, greets[c] + 1)
                  /\ back' = Set(back, c, 1) /\ said' = Set(said, c, 1)
    /\ via' = Set(via, c, "direct") /\ leg' = Set(leg, c, "streaming")
    /\ UNCHANGED <<onlyTls, opens, agreed, left, outgoing, wire, spoken, hubVer, early, clash>>

\* SetSecConn: once, of an address that can be read
SetSecConn(c, a) == hubVer[c] = NoVersion

\* OnNewConn may refuse: a plugin, the load of the hub, a temporary ban
Greets(c) ==
    /\ greets' = Set(greets, c, greets[c] + 1)
    /\ \E end \in {"open", "closed"} : hubEnd' = Set(hubEnd, c, end)
    /\ back' = Set(back, c, back[c] + 1) /\ said' = Set(said, c, said[c] + 1)

\* DCC_MyIP: of no meaning but from the proxy's address
TreatMyIP(c, l) ==
    IF hubAddr[c] # ProxyAddress
    THEN UNCHANGED <<hubEnd, hubAddr, hubVer, greets, back, said>>
    ELSE IF ~SetSecConn(c, l.addr)
    THEN hubEnd' = Set(hubEnd, c, "closed") /\ UNCHANGED <<hubAddr, hubVer, greets, back, said>>
    ELSE /\ hubAddr' = Set(hubAddr, c, l.addr) /\ hubVer' = Set(hubVer, c, l.ver)
         /\ IF onlyTls /\ l.ver = PlainText
            THEN /\ hubEnd' = Set(hubEnd, c, "closing") /\ UNCHANGED greets
                 /\ back' = Set(back, c, back[c] + 1) /\ said' = Set(said, c, said[c] + 1)
            ELSE Greets(c)

\* OnNewMessage; any other line may be answered and may end the connection
HubReads(c) ==
    /\ hubEnd[c] \in {"waiting", "open"} /\ wire[c] # <<>>
    /\ wire' = Set(wire, c, Tail(wire[c]))
    /\ LET l == Head(wire[c]) IN
       IF l.kind = "ip"
       THEN TreatMyIP(c, l) /\ UNCHANGED early
       ELSE /\ early' = Set(early, c, early[c] \/ greets[c] = 0)
            /\ \/ UNCHANGED <<hubEnd, back, said>>
               \/ /\ hubEnd' = Set(hubEnd, c, "closing") /\ said[c] < MaxLines
                  /\ back' = Set(back, c, back[c] + 1) /\ said' = Set(said, c, said[c] + 1)
            /\ UNCHANGED <<hubAddr, hubVer, greets>>
    /\ UNCHANGED <<sides, leg, outgoing, spoken, clash>>

\* all that was written has been sent; a timeout or a CloseNow
HubEndCloses(c) ==
    /\ HubHas(c)
    /\ hubEnd' = Set(hubEnd, c, "closed")
    /\ UNCHANGED <<sides, leg, lines, hubAddr, hubVer, greets, early, clash>>

TlsProxyInit ==
    /\ onlyTls \in BOOLEAN
    /\ via = [c \in Callers |-> "direct"] /\ origin = [c \in Callers |-> ProxyAddress]
    /\ leg = [c \in Callers |-> "away"]
    /\ opens = [c \in Callers |-> PlainText] /\ agreed = [c \in Callers |-> NoVersion]
    /\ outgoing = [c \in Callers |-> <<>>] /\ wire = [c \in Callers |-> <<>>]
    /\ hubEnd = [c \in Callers |-> "none"] /\ hubAddr = [c \in Callers |-> ProxyAddress]
    /\ hubVer = [c \in Callers |-> NoVersion]
    /\ back = [c \in Callers |-> 0] /\ spoken = [c \in Callers |-> 0] /\ said = [c \in Callers |-> 0]
    /\ left = [c \in Callers |-> FALSE] /\ greets = [c \in Callers |-> 0]
    /\ early = [c \in Callers |-> FALSE] /\ clash = [c \in Callers |-> FALSE]

TlsProxyNext ==
    \E c \in Callers :
        \/ Call(c) \/ CallDirectly(c) \/ Leaves(c)
        \/ \E a \in Addresses, v \in {PlainText} \cup Versions : CallerWrites(c, MyIP(a, v))
        \/ CallerWrites(c, Line)
        \/ Serve(c) \/ Handshake(c) \/ CopyUp(c) \/ CopyDown(c) \/ UpEnds(c) \/ DownEnds(c)
        \/ HubReads(c) \/ HubEndCloses(c)

TlsProxySpec == TlsProxyInit /\ [][TlsProxyNext]_tlsProxyVars

-----------------------------------------------------------------------------
(* Which users may connect to each other over TLS *)

\* FindInSupports: an item that begins with the name
FindInSupports(list, Begins(_)) == \E i \in list : Begins(i)

Known2(v) == v \notin {NoVersion, PlainText}
\* what the one who asks is told by the versions v, its own, and w: a branch for
\* each version of its own, which names the others one by one
ByVersions(v, w) ==
    IF v = w THEN "works" ELSE
    CASE v = 13 -> IF w = 12 THEN "works" ELSE IF w = 10 THEN "fails" ELSE "unsaid"
      [] v = 12 -> IF w = 13 THEN "works" ELSE IF w = 10 THEN "works" ELSE "unsaid"
      [] v = 10 -> IF w = 13 THEN "fails" ELSE IF w = 12 THEN "works" ELSE "unsaid"
      [] OTHER -> "unsaid"
\* what each announced, in $Supports and in $MyINFO
ByFlags(one, two) == IF ~one.flags THEN FALSE ELSE two.flags
\* CheckCompatTLS of two users [ver, flags]; versions are numbers here, 11 is
\* one that the code does not compare
CheckCompatTLS(one, two) ==
    LET known == Known2(one.ver) /\ Known2(two.ver)
        told == ByVersions(one.ver, two.ver)
    IN IF known /\ told # "unsaid" THEN told = "works" ELSE ByFlags(one, two)

-----------------------------------------------------------------------------
(* Properties *)

TalksThroughProxy(c) == via[c] = "proxy" \/ origin[c] # ProxyAddress

(***************************************************************************)
(* Whoever comes through the proxy, or from another address, is greeted at *)
(* most once, under the address it has, with the version of TLS that the   *)
(* proxy agreed on, before any line of it is treated, whatever $MyIP it    *)
(* sends itself; with tls_only_mode nobody without TLS who came through    *)
(* the proxy is greeted (DCC_MyIP, SetSecConn, writeAndStream).            *)
(***************************************************************************)
AddressFirst ==
    \A c \in Callers : TalksThroughProxy(c) =>
        /\ greets[c] <= 1 /\ ~early[c]
        /\ greets[c] = 1 => hubAddr[c] = origin[c]
        /\ via[c] = "proxy" /\ hubVer[c] # NoVersion => hubVer[c] = agreed[c]
        /\ via[c] = "proxy" /\ agreed[c] = PlainText /\ onlyTls => greets[c] = 0

(***************************************************************************)
(* The proxy ends a stream only when the caller has left, when a line of   *)
(* its met the hub's closed connection, or when all that the hub wrote has *)
(* been passed on: the reason of a refusal and a redirect are the last     *)
(* thing that the hub writes (stream, copyBuffer).                         *)
(***************************************************************************)
LastWordsPassed ==
    \A c \in Callers :
        leg[c] = "ended" /\ ~left[c] /\ ~clash[c] => back[c] = 0

(***************************************************************************)
(* Whether two users may connect does not depend on who asks, and users of *)
(* the same version may (CheckCompatTLS).                                  *)
(***************************************************************************)
CompatSymmetric ==
    LET Ends2 == [ver : {NoVersion, PlainText, 10, 11, 12, 13}, flags : BOOLEAN] IN
    \A one, two \in Ends2 :
        /\ CheckCompatTLS(one, two) = CheckCompatTLS(two, one)
        /\ Known2(one.ver) /\ one.ver = two.ver => CheckCompatTLS(one, two)

TlsProxyRight == AddressFirst /\ LastWordsPassed /\ CompatSymmetric
=============================================================================
