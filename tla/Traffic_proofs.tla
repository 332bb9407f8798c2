--------------------------- MODULE Traffic_proofs ---------------------------
(***************************************************************************)
(* What the hub guarantees about messages on their way, proved for all     *)
(* scripts, members and limits: the answers of the plugins are heeded and  *)
(* what they are told of a user is true (module Hooks); who hears a search *)
(* can answer it, no limit lets through more than twice what it says and a *)
(* command locked for all stays locked (module Relay);                     *)
(* an operator's message works for operators alone and a topic nobody      *)
(* saved came by $SetTopic (module Protocol); whoever comes through the    *)
(* proxy is greeted under its own address and hears the hub's last words   *)
(* (module TlsProxy); what scripts change of a user reaches every list and *)
(* sum made from it (module ScriptApi); a message is taken for the command *)
(* with the longest keyword that it begins with, its division loses and    *)
(* doubles no letter, and a plugin that replaces one field leaves the rest *)
(* as its author sent it (module Message).  The theorems about the six     *)
(* together are of the specification of MCTraffic, for any values of the   *)
(* constants.                                                              *)
(***************************************************************************)
EXTENDS MCTraffic, Message_proofs, Sums_proofs, FiniteSetTheorems, TLAPS

-----------------------------------------------------------------------------
(* Hooks: which hooks a running handler has before it *)

\* hooks of messages; none of them tells of a user's coming or going
MessageHooks ==
    {"NewConn", "AnyEx", "Any", "Supports", "CtmToHub", "ValidateNick", "Version", "MyHubURL",
     "BotINFO", "MyPass", "BadPass", "ValidateTag", "FirstMyINFO", "MyINFO", "Unknown", "Chat",
     "HubCommand", "UserCommand", "OperatorCommand"} \cup RelayHooks \cup EffectHooks

InTold == told \in {"in", "login"}

\* nothing that runs, or a message: AnyEx comes first, and before the user
OnMessage ==
    /\ hooks \in Seq(MessageHooks)
    /\ \A i \in 2 .. Len(hooks) : hooks[i] # "AnyEx"
    /\ hooks # <<>> /\ hooks[1] = "AnyEx" => who # "listed"
    /\ who = "listed" <=> InTold

\* DoUserLogin, whatever the scripts know yet
OnEntering ==
    /\ hooks \in {<<"UserInList", "UserLogin">>, <<"UserLogin">>}
    /\ who = "listed"

\* the user is still in the list, and is going to be told out
OnLeaving ==
    /\ hooks \in {<<"CloseConn", "CloseConnEx", "UserLogout">>,
                  <<"CloseConnEx", "UserLogout">>, <<"UserLogout">>}
    /\ who = "listed"

\* a connection whose user is not in the list
OnClosing ==
    /\ hooks \in {<<"CloseConn", "CloseConnEx">>, <<"CloseConnEx">>}
    /\ who # "listed" /\ ~InTold

ToldInv ==
    /\ told \in {"out", "in", "login"}
    /\ who = "gone" => told = "out"
    /\ OnMessage \/ OnEntering \/ OnLeaving \/ OnClosing

\* what Treat leaves of a list of hooks
LEMMA RestOfMessage ==
    ASSUME NEW S, NEW s \in Seq(S), s # <<>>, \A i \in 2 .. Len(s) : s[i] # "AnyEx"
    PROVE  /\ Tail(s) \in Seq(S)
           /\ Head(s) = s[1] /\ Head(s) \in S
           /\ \A i \in 1 .. Len(Tail(s)) : Tail(s)[i] # "AnyEx"
  OBVIOUS

LEMMA ToldInvInit == HooksInit => ToldInv
  BY DEF HooksInit, ToldInv, OnMessage, InTold

\* A message arrives: the list of its hooks is one of messages.
LEMMA ToldInvIncoming ==
    ASSUME ToldInv, Incoming
    PROVE  ToldInv'
  <1> USE DEF ToldInv, OnMessage, OnEntering, OnLeaving, OnClosing, InTold, MessageHooks
  <1>1. \A list \in Seq(MessageHooks) :
            /\ hooks = <<>> /\ hooks' = list /\ told' = told /\ who' = who
            /\ \A i \in 2 .. Len(list) : list[i] # "AnyEx"
            /\ list # <<>> /\ list[1] = "AnyEx" => who # "listed"
            => ToldInv'
    OBVIOUS
  <1>2. CASE Connect
    BY <1>2 DEF Connect, Handle, NextHook
  <1> USE DEF Receive, Handle, NextHook
  <1>3. CASE ReceiveKey           BY <1>1, <1>3 DEF ReceiveKey
  <1>4. CASE ReceiveSupports      BY <1>1, <1>4 DEF ReceiveSupports
  <1>5. CASE ReceiveLock          BY <1>1, <1>5 DEF ReceiveLock
  <1>6. CASE ReceiveNick          BY <1>1, <1>6 DEF ReceiveNick
  <1>7. CASE ReceiveVersion       BY <1>1, <1>7 DEF ReceiveVersion
  <1>8. CASE \E good \in BOOLEAN : ReceivePass(good)
    <2>1. CASE ReceivePass(TRUE)   BY <1>1, <2>1 DEF ReceivePass
    <2>2. CASE ReceivePass(FALSE)  BY <1>1, <2>2 DEF ReceivePass
    <2> QED  BY <1>8, <2>1, <2>2
  <1>9. CASE ReceiveInfo
    <2>1. CASE who = "named" /\ Receive(<<"Any", "ValidateTag", "FirstMyINFO", "MyINFO">>)
      BY <1>1, <2>1
    <2>2. CASE who = "listed" /\ Receive(<<"Any", "ValidateTag", "MyINFO">>)
      BY <1>1, <2>2
    <2> QED  BY <1>9, <2>1, <2>2 DEF ReceiveInfo
  <1>10. CASE ReceiveUnknown
    <2>1. CASE who = "new" /\ Receive(<<"AnyEx", "Unknown">>)
      BY <1>1, <2>1
    <2>2. CASE who # "new" /\ Receive(<<"Any", "Unknown">>)
      BY <1>1, <2>2
    <2> QED  BY <1>10, <2>1, <2>2 DEF ReceiveUnknown
  <1>11. CASE ReceiveChat         BY <1>1, <1>11 DEF ReceiveChat
  <1>12. CASE \E h \in Relays : ReceiveRelayed(h)
    BY <1>1, <1>12, HooksAssumption DEF ReceiveRelayed, RelayHooks
  <1>13. CASE \E h \in {"UserCommand", "OperatorCommand"} : ReceiveCommand(h)
    BY <1>1, <1>13 DEF ReceiveCommand
  <1>14. CASE \E h \in Effects : CommandWithEffect(h)
    BY <1>1, <1>14, HooksAssumption DEF CommandWithEffect, EffectHooks
  <1> QED
    BY <1>2, <1>3, <1>4, <1>5, <1>6, <1>7, <1>8, <1>9, <1>10, <1>11, <1>12, <1>13, <1>14
    DEF Incoming

\* The handler goes on to the next hook: what it does at the last hook of a
\* list is what makes the scripts' knowledge true again.
LEMMA ToldInvTreat ==
    ASSUME ToldInv, Treat
    PROVE  ToldInv'
  <1> USE DEF Treat, AfterHook, NextHook, AllAsked, Waits, Hook
  <1>0. hooks # <<>> /\ hooks' = Tail(hooks) /\ told \in {"out", "in", "login"}
    BY DEF ToldInv
  <1>1. CASE OnMessage
    <2>1. /\ Head(hooks) \in MessageHooks
          /\ Head(hooks) = hooks[1]
          /\ Tail(hooks) \in Seq(MessageHooks)
          /\ \A i \in 1 .. Len(Tail(hooks)) : Tail(hooks)[i] # "AnyEx"
      BY <1>0, <1>1, RestOfMessage DEF OnMessage
    <2>2. told' = told
      BY <2>1 DEF MessageHooks, RelayHooks, EffectHooks
    <2>3. CASE Head(hooks) = "AnyEx" /\ Tail(hooks) = <<"ValidateNick">>
      <3>1. who # "listed" /\ who' = "named" /\ told = "out"
        BY <1>0, <1>1, <2>1, <2>3 DEF OnMessage, InTold
      <3> QED
        BY <1>0, <2>1, <2>2, <3>1, <2>3 DEF ToldInv, OnMessage, InTold
    <2>4. CASE ~(Head(hooks) = "AnyEx" /\ Tail(hooks) = <<"ValidateNick">>)
      <3>1. who' = who
        BY <2>1, <2>4 DEF MessageHooks, RelayHooks, EffectHooks
      <3>2. who = "listed" <=> InTold
        BY <1>1 DEF OnMessage
      <3>3. hooks' \in Seq(MessageHooks) /\ \A i \in 1 .. Len(hooks') : hooks'[i] # "AnyEx"
        BY <1>0, <2>1
      <3>4. OnMessage'
        BY <3>1, <3>2, <3>3, <2>2 DEF OnMessage, InTold
      <3> QED
        BY <3>1, <3>4, <2>2 DEF ToldInv
    <2> QED
      BY <2>3, <2>4
  <1> USE DEF ToldInv, OnEntering, OnLeaving, OnClosing, InTold
  <1>2. CASE OnEntering
    <2>1. CASE hooks = <<"UserInList", "UserLogin">>
      BY <1>0, <1>2, <2>1
    <2>2. CASE hooks = <<"UserLogin">>
      BY <1>0, <1>2, <2>2 DEF OnMessage
    <2> QED  BY <1>2, <2>1, <2>2
  <1>3. CASE OnLeaving
    <2>1. CASE hooks = <<"CloseConn", "CloseConnEx", "UserLogout">>
      BY <1>0, <1>3, <2>1
    <2>2. CASE hooks = <<"CloseConnEx", "UserLogout">>
      BY <1>0, <1>3, <2>2
    <2>3. CASE hooks = <<"UserLogout">>
      BY <1>0, <1>3, <2>3 DEF OnMessage
    <2> QED  BY <1>3, <2>1, <2>2, <2>3
  <1>4. CASE OnClosing
    <2>1. CASE hooks = <<"CloseConn", "CloseConnEx">>
      BY <1>0, <1>4, <2>1
    <2>2. CASE hooks = <<"CloseConnEx">>
      BY <1>0, <1>4, <2>2 DEF OnMessage
    <2> QED  BY <1>4, <2>1, <2>2
  <1> QED
    BY <1>1, <1>2, <1>3, <1>4

\* A handler that stops leaves no hook to be called.
LEMMA ToldInvStop ==
    ASSUME ToldInv, Discard \/ \E how \in {"ok", "nice", "now"} : HubRefuses(how)
    PROVE  ToldInv'
  <1> USE DEF NextHook, Hook, ToldInv, OnEntering, OnLeaving, OnClosing, OnMessage, InTold
  <1>1. CASE Discard
    <2> USE <1>1 DEF Discard, AllAsked, Waits, GoesOn, NotAsked
    <2>1. CASE OnMessage
      <3>1. Head(hooks) \in MessageHooks
        BY <2>1, RestOfMessage
      <3> QED
        BY <2>1, <3>1 DEF MessageHooks, RelayHooks, EffectHooks
    <2>2. CASE OnEntering  BY <2>2
    <2>3. CASE OnLeaving   BY <2>3
    <2>4. CASE OnClosing   BY <2>4
    <2> QED  BY <2>1, <2>2, <2>3, <2>4
  <1>2. CASE \E how \in {"ok", "nice", "now"} : HubRefuses(how)
    BY <1>2 DEF HubRefuses, Waits
  <1> QED
    BY <1>1, <1>2

LEMMA TwoAndOne == ASSUME NEW a, NEW b, NEW c PROVE <<a, b>> \o <<c>> = <<a, b, c>>
  <1> DEFINE s == <<a, b>> \o <<c>>
             t == <<a, b, c>>
  <1>1. s \in Seq({a, b, c}) /\ t \in Seq({a, b, c})
    OBVIOUS
  <1>2. Len(s) = 3 /\ Len(t) = 3
    OBVIOUS
  <1>3. \A i \in 1 .. 3 : s[i] = t[i]
    OBVIOUS
  <1> HIDE DEF s, t
  <1>4. s = [i \in 1 .. 3 |-> s[i]] /\ t = [i \in 1 .. 3 |-> t[i]]
    BY <1>1, <1>2
  <1>5. s = t
    BY <1>3, <1>4
  <1> QED
    BY <1>5 DEF s, t

LEMMA ToldInvNext == ToldInv /\ [HooksNext]_hooksVars => ToldInv'
  <1> SUFFICES ASSUME ToldInv, [HooksNext]_hooksVars PROVE ToldInv'
    OBVIOUS
  <1> USE DEF ToldInv, OnEntering, OnLeaving, OnClosing, OnMessage, InTold
  <1>1. CASE UNCHANGED <<hooks, who, told>>
    BY <1>1
  <1>2. CASE EnterList
    BY <1>2 DEF EnterList, Handle, NextHook
  <1>3. CASE TakenOver
    BY <1>3 DEF TakenOver, LogoutOwed, Handle, NextHook
  <1>4. CASE Delete
    <2>1. CASE who = "listed"
      <3>1. <<"CloseConn", "CloseConnEx">> \o <<"UserLogout">>
            = <<"CloseConn", "CloseConnEx", "UserLogout">>
        BY TwoAndOne
      <3> QED  BY <1>4, <2>1, <3>1 DEF Delete, LogoutOwed, NextHook
    <2>2. CASE who # "listed"
      <3>1. <<"CloseConn", "CloseConnEx">> \o <<>> = <<"CloseConn", "CloseConnEx">>
        OBVIOUS
      <3> QED  BY <1>4, <2>2, <3>1 DEF Delete, LogoutOwed, NextHook
    <2> QED  BY <2>1, <2>2
  <1> QED
    BY <1>1, <1>2, <1>3, <1>4, ToldInvIncoming, ToldInvTreat, ToldInvStop
    DEF HooksNext, hooksVars, eventVars, CallOne, AskScript, HubCloses

\* What scripts know of a user is true whenever no hook runs, and nothing is
\* left to be told of a connection that is deleted (ccallbacklist.cpp,
\* cserverdc.cpp: DoUserLogin, RemoveNick, DelConnection).
THEOREM ToldRightHolds == HooksSpec => []ToldRight
  <1>1. ToldInv => ToldRight
    BY DEF ToldInv, ToldRight, OnMessage, OnEntering, OnLeaving, OnClosing, InTold
  <1> QED
    BY <1>1, ToldInvInit, ToldInvNext, PTL DEF HooksSpec

-----------------------------------------------------------------------------
(* Hooks: what the answers so far come to *)

HookNames == MessageHooks \cup {"UserInList", "UserLogin", "CloseConn", "CloseConnEx", "UserLogout"}

\* the hooks that only tell come last, so that nothing is asked on a
\* connection that was closed at such a hook
TellingLast ==
    /\ hooks \in Seq(HookNames)
    /\ \A i, j \in 1 .. Len(hooks) :
         i < j /\ hooks[i] \in NotAsked => hooks[j] \in NotAsked

VerdictInv ==
    /\ TellingLast
    /\ at \in Nat /\ pluginSays \in BOOLEAN /\ hubHears \in BOOLEAN
    /\ at = 0 => stands = {}
    /\ at > 0 /\ hubHears => stands \subseteq {Plugin}
    /\ hubHears /\ pluginSays => stands = {}
    /\ link = "now" => "lua" \in stands \/ \A i \in 1 .. Len(hooks) : hooks[i] \in NotAsked

LEMMA VerdictInvInit == HooksInit => VerdictInv
  BY DEF HooksInit, VerdictInv, TellingLast

\* A handler begins with a list of hooks of its own.
LEMMA VerdictInvHandle ==
    ASSUME NextHook(hooks'), TellingLast',
           link' = "now" => \A i \in 1 .. Len(hooks') : hooks'[i] \in NotAsked
    PROVE  VerdictInv'
  BY DEF NextHook, VerdictInv

LEMMA VerdictInvReceive ==
    ASSUME NextHook(hooks'), link' = "ok", hooks' \in Seq(HookNames),
           \A i \in 1 .. Len(hooks') - 1 : hooks'[i] \notin NotAsked
    PROVE  VerdictInv'
  <1>1. TellingLast'
    BY DEF TellingLast
  <1> QED
    BY <1>1, VerdictInvHandle

LEMMA VerdictInvIncoming ==
    ASSUME Incoming
    PROVE  VerdictInv'
  <1> USE DEF NotAsked, HookNames, MessageHooks, Receive, Handle, NextHook
  <1>1. CASE Connect
    BY <1>1, VerdictInvReceive DEF Connect
  <1>2. CASE ReceiveKey       BY <1>2, VerdictInvReceive DEF ReceiveKey
  <1>3. CASE ReceiveSupports  BY <1>3, VerdictInvReceive DEF ReceiveSupports
  <1>4. CASE ReceiveLock      BY <1>4, VerdictInvReceive DEF ReceiveLock
  <1>5. CASE ReceiveNick      BY <1>5, VerdictInvReceive DEF ReceiveNick
  <1>6. CASE ReceiveVersion   BY <1>6, VerdictInvReceive DEF ReceiveVersion
  <1>7. CASE \E good \in BOOLEAN : ReceivePass(good)
    <2>1. CASE ReceivePass(TRUE)   BY <2>1, VerdictInvReceive DEF ReceivePass
    <2>2. CASE ReceivePass(FALSE)  BY <2>2, VerdictInvReceive DEF ReceivePass
    <2> QED  BY <1>7, <2>1, <2>2
  <1>8. CASE ReceiveInfo
    <2>1. CASE Receive(<<"Any", "ValidateTag", "FirstMyINFO", "MyINFO">>)
      BY <2>1, VerdictInvReceive
    <2>2. CASE Receive(<<"Any", "ValidateTag", "MyINFO">>)
      BY <2>2, VerdictInvReceive
    <2> QED  BY <1>8, <2>1, <2>2 DEF ReceiveInfo
  <1>9. CASE ReceiveUnknown
    <2>1. CASE Receive(<<"AnyEx", "Unknown">>)  BY <2>1, VerdictInvReceive
    <2>2. CASE Receive(<<"Any", "Unknown">>)    BY <2>2, VerdictInvReceive
    <2> QED  BY <1>9, <2>1, <2>2 DEF ReceiveUnknown
  <1>10. CASE ReceiveChat     BY <1>10, VerdictInvReceive DEF ReceiveChat
  <1>11. CASE \E h \in Relays : ReceiveRelayed(h)
    BY <1>11, HooksAssumption, VerdictInvReceive DEF ReceiveRelayed, RelayHooks
  <1>12. CASE \E h \in {"UserCommand", "OperatorCommand"} : ReceiveCommand(h)
    BY <1>12, VerdictInvReceive DEF ReceiveCommand
  <1>13. CASE \E h \in Effects : CommandWithEffect(h)
    BY <1>13, HooksAssumption, VerdictInvReceive DEF CommandWithEffect, EffectHooks
  <1> QED
    BY <1>1, <1>2, <1>3, <1>4, <1>5, <1>6, <1>7, <1>8, <1>9, <1>10, <1>11, <1>12, <1>13
    DEF Incoming

\* A script answers: one that closes the connection is of Lua, and its
\* discard is not among those that a change takes back.
LEMMA VerdictInvAsk ==
    ASSUME VerdictInv, NEW says \in {"pass", "discard", "disconnect", "change"},
           AskScript(says)
    PROVE  VerdictInv'
  <1>1. /\ hooks' = hooks /\ at' = at /\ hubHears' = hubHears /\ Plugin' = Plugin
        /\ pluginSays' = (says = "change" \/ (pluginSays /\ ~Discards(says)))
        /\ stands' = IF says = "change" THEN stands \ {Plugin}
                     ELSE IF says = "pass" THEN stands ELSE stands \cup {Plugin}
        /\ link' = IF says = "disconnect" THEN "now" ELSE link
        /\ at > 0
    BY DEF AskScript, Plugin, InPlugin
  <1>2. TellingLast'
    BY <1>1 DEF VerdictInv, TellingLast
  <1> HIDE DEF Plugin
  <1>3. /\ at' \in Nat /\ pluginSays' \in BOOLEAN /\ hubHears' \in BOOLEAN /\ at' > 0
        /\ (\A i \in 1 .. Len(hooks) : hooks[i] \in NotAsked)
               => \A i \in 1 .. Len(hooks') : hooks'[i] \in NotAsked
    BY <1>1 DEF VerdictInv
  <1>4. hubHears => stands \subseteq {Plugin}
    BY <1>1 DEF VerdictInv
  <1>5. hubHears' => stands' \subseteq {Plugin'}
    BY <1>1, <1>4
  <1>6. hubHears' /\ pluginSays' => stands' = {}
    <2>1. CASE says = "change"
      BY <1>1, <1>4, <2>1
    <2>2. CASE says = "pass"
      BY <1>1, <2>2 DEF VerdictInv, Discards
    <2>3. CASE says \in {"discard", "disconnect"}
      BY <1>1, <2>3 DEF Discards
    <2> QED
      BY <2>1, <2>2, <2>3
  <1>7. link' = "now" => "lua" \in stands' \/ \A i \in 1 .. Len(hooks') : hooks'[i] \in NotAsked
    <2>1. says = "disconnect" => Plugin = "lua"
      BY DEF AskScript, Answers, PythonAnswers
    <2>2. says = "change" => Plugin # "lua"
      BY DEF AskScript, Answers, LuaAnswers
    <2>3. CASE says = "disconnect"
      BY <1>1, <2>1, <2>3
    <2>4. CASE says # "disconnect"
      <3>1. link' = "now" =>
                "lua" \in stands \/ \A i \in 1 .. Len(hooks') : hooks'[i] \in NotAsked
        BY <1>1, <1>3, <2>4 DEF VerdictInv
      <3>2. "lua" \in stands => "lua" \in stands'
        BY <1>1, <2>2
      <3> QED
        BY <3>1, <3>2
    <2> QED
      BY <2>3, <2>4
  <1> QED
    BY <1>2, <1>3, <1>5, <1>6, <1>7 DEF VerdictInv

LEMMA VerdictInvCall == VerdictInv /\ CallOne => VerdictInv'
  BY DEF CallOne, VerdictInv, TellingLast, Plugin

\* The handler goes on: past a hook that may forbid only with no discard left.
LEMMA VerdictInvTreat ==
    ASSUME VerdictInv, Treat
    PROVE  VerdictInv' /\ (Hook \notin NotAsked => stands = {} /\ link # "now")
  <1> USE DEF Treat, AllAsked, Waits, NextHook, GoesOn, Verdict, Hook
  <1>1. /\ hooks # <<>> /\ hooks' = Tail(hooks) /\ hooks \in Seq(HookNames)
        /\ Tail(hooks) \in Seq(HookNames) /\ Len(Tail(hooks)) = Len(hooks) - 1
        /\ Len(hooks) \in Nat /\ Len(hooks) > 0
        /\ Head(hooks) = hooks[1]
        /\ \A i \in 1 .. Len(hooks) - 1 : Tail(hooks)[i] = hooks[i + 1]
    BY DEF VerdictInv, TellingLast
  <1>2. TellingLast'
    BY <1>1 DEF VerdictInv, TellingLast
  <1>3. Hook \notin NotAsked => stands = {} /\ link # "now"
    BY <1>1 DEF VerdictInv
  <1>4. link' = "now" => \A i \in 1 .. Len(hooks') : hooks'[i] \in NotAsked
    <2>1. SUFFICES ASSUME link = "now", NEW i \in 1 .. Len(hooks) - 1
                   PROVE  hooks[i + 1] \in NotAsked
      BY <1>1
    <2>2. hooks[1] \in NotAsked
      BY <1>1, <1>3, <2>1
    <2> QED
      BY <1>1, <2>2 DEF VerdictInv, TellingLast
  <1> QED
    BY <1>2, <1>3, <1>4 DEF VerdictInv

LEMMA VerdictInvNext == VerdictInv /\ [HooksNext]_hooksVars => VerdictInv'
  <1> SUFFICES ASSUME VerdictInv, [HooksNext]_hooksVars PROVE VerdictInv'
    OBVIOUS
  <1>1. CASE UNCHANGED hooksVars
    BY <1>1 DEF hooksVars, eventVars, VerdictInv, TellingLast, Plugin
  <1>2. CASE EnterList
    BY <1>2, VerdictInvHandle DEF EnterList, Handle, NextHook, TellingLast, NotAsked, HookNames
  <1>3. CASE TakenOver
    BY <1>3, VerdictInvHandle DEF TakenOver, LogoutOwed, Handle, NextHook, TellingLast, NotAsked, HookNames
  <1>4. CASE Delete
    <2>1. CASE who = "listed"
      <3>1. NextHook(<<"CloseConn", "CloseConnEx", "UserLogout">>)
        BY <1>4, <2>1, TwoAndOne DEF Delete, LogoutOwed
      <3> QED  BY <3>1, VerdictInvHandle DEF NextHook, TellingLast, NotAsked, HookNames
    <2>2. CASE who # "listed"
      <3>1. <<"CloseConn", "CloseConnEx">> \o <<>> = <<"CloseConn", "CloseConnEx">>
        OBVIOUS
      <3>2. NextHook(<<"CloseConn", "CloseConnEx">>)
        BY <1>4, <2>2, <3>1 DEF Delete, LogoutOwed
      <3> QED  BY <3>2, VerdictInvHandle DEF NextHook, TellingLast, NotAsked, HookNames
    <2> QED  BY <2>1, <2>2
  <1>5. CASE Discard \/ \E how \in {"ok", "nice", "now"} : HubRefuses(how)
    <2>1. NextHook(<<>>)
      BY <1>5 DEF Discard, HubRefuses
    <2> QED
      BY <2>1, VerdictInvHandle DEF NextHook, TellingLast
  <1>6. CASE \E how \in {"nice", "now"} : HubCloses(how)
    BY <1>6 DEF HubCloses, eventVars, VerdictInv, TellingLast, Plugin
  <1> QED
    BY <1>1, <1>2, <1>3, <1>4, <1>5, <1>6, VerdictInvIncoming, VerdictInvCall, VerdictInvAsk,
       VerdictInvTreat DEF HooksNext

\* No message is treated that a script of any plugin has discarded, nor one
\* of a connection that a script closed, unless the hook only tells
\* (ccallbacklist.cpp: CallAll; the handlers of cdcproto.cpp).
THEOREM VerdictHolds == HooksSpec => VerdictStands
  <1>1. VerdictInv /\ [HooksNext]_hooksVars =>
            [hooks # <<>> /\ Treat /\ Hook \notin NotAsked => stands = {} /\ link # "now"]_hooksVars
    BY VerdictInvTreat
  <1> QED
    BY <1>1, VerdictInvInit, VerdictInvNext, PTL DEF HooksSpec, VerdictStands

-----------------------------------------------------------------------------
(* Relay: who hears a search *)

\* Who hears a search can be asked for a connection in the way the search
\* implies (cserverdc.cpp: SearchToAll; cdcproto.cpp: DC_ConnectToMe,
\* DC_RevConnectToMe).
THEOREM HeardCanAnswerHolds == RelaySpec => []HeardCanAnswer
  <1>1. RelayInit => HeardCanAnswer
    BY DEF RelayInit, HeardCanAnswer, NoSearch
  <1>2. HeardCanAnswer /\ [RelayNext]_relayVars => HeardCanAnswer'
    <2> SUFFICES ASSUME HeardCanAnswer, [RelayNext]_relayVars PROVE HeardCanAnswer'
      OBVIOUS
    <2>1. ASSUME NEW u \in Members, NEW passive \in BOOLEAN, SearchGoes(u, passive)
          PROVE  HeardCanAnswer'
      BY <2>1 DEF SearchGoes, Reached, HeardCanAnswer, ReverseOpen, DirectOpen
    <2>2. ASSUME NEW u \in Members, ComeBack(u)
          PROVE  HeardCanAnswer'
      BY <2>2 DEF ComeBack, HeardCanAnswer, NoSearch
    <2>3. CASE UNCHANGED heard
      BY <2>3 DEF HeardCanAnswer
    <2>4. ASSUME NEW u \in Members, NEW passive \in BOOLEAN, NEW words, NEW fine,
                 Search(u, passive, words, fine)
          PROVE  HeardCanAnswer'
      BY <2>1, <2>3, <2>4 DEF Search, Stopped
    <2>5. ASSUME NEW u \in Members, NEW w \in Members, NEW t, NEW words, NEW fine,
                 PrivateMessage(u, w, t, words, fine)
          PROVE  UNCHANGED heard
      BY <2>5 DEF PrivateMessage, Stopped
    <2>6. ASSUME NEW u \in Members, NEW words, NEW fine, Chat(u, words, fine)
          PROVE  UNCHANGED heard
      BY <2>6 DEF Chat, Stopped
    <2>7. ASSUME NEW u \in Members, NEW w \in Members, NEW fine,
                 SearchResult(u, w) \/ ConnectToMe(u, w, fine) \/ RevConnectToMe(u, w, fine)
          PROVE  UNCHANGED heard
      BY <2>7 DEF SearchResult, ConnectToMe, RevConnectToMe, Stopped
    <2>8. CASE (\E u \in Judged : \E t \in sent \ {"sr"} : SetRight(u, RightOf[t])) \/ SecondPasses
      BY <2>3, <2>8 DEF SetRight, SecondPasses, counts
    <2>9. CASE UNCHANGED relayVars
      BY <2>3, <2>9 DEF relayVars
    <2> QED
      BY <2>2, <2>3, <2>4, <2>5, <2>6, <2>7, <2>8, <2>9, RelayAssumption
      DEF RelayNext, DC_SA, DC_SP, DC_To, DC_MCTo
  <1> QED
    BY <1>1, <1>2, PTL DEF RelaySpec

-----------------------------------------------------------------------------
(* Relay: the lock for all *)

LockTypes == Types \cap AllTypes
Windows   == [count : Nat, at : Nat, lock : BOOLEAN]

\* a lock goes with a full window: it is set when the limit is reached, the
\* count only grows within the window, and a new window has no lock
LockedFull(w, t) ==
    w.lock => AllLimit[t] > 0 /\ AllPeriod[t] > 0 /\ w.count >= AllLimit[t]

WentShape == went = [t \in Types |-> [u \in Members |-> went[t][u]]]

LockInv ==
    /\ sent \subseteq Types /\ now \in Nat
    /\ WentShape
    /\ all \in [LockTypes -> Windows]
    /\ \A t \in LockTypes : LockedFull(all[t], t)

\* what LockHolds says of one step
LockKept ==
    \A t \in Types \cap {"chat", "to", "mcto"} : \A u \in Members :
        all[t].lock /\ now - all[t].at <= AllPeriod[t] /\ ~Exempt(u) =>
            went'[t][u] \in {went[t][u], {}}

\* CheckProtoFloodAll keeps a window a window, and its lock on a full one.
LEMMA AllCountedFull ==
    ASSUME NEW t \in LockTypes, NEW w \in Windows, LockedFull(w, t), now \in Nat,
           AllLimit[t] > 0, AllPeriod[t] > 0
    PROVE  AllCounted(w, t) \in Windows /\ LockedFull(AllCounted(w, t), t)
  <1>1. AllLimit[t] \in Nat /\ AllPeriod[t] \in Nat
    BY RelayAssumption DEF LockTypes
  <1> DEFINE c == Counted(w, AllPeriod[t], AllLimit[t])
  <1>2. w.count \in Nat /\ w.at \in Nat /\ w.lock \in BOOLEAN
    BY DEF Windows
  <1>3. c \in Windows /\ c.lock = w.lock /\ (~Fresh(w, AllPeriod[t]) => c.count >= w.count)
    <2>1. CASE Fresh(w, AllPeriod[t])
      <3>1. c = [w EXCEPT !.count = 1, !.at = now]
        BY <2>1 DEF Counted
      <3>2. c = [count |-> 1, at |-> now, lock |-> w.lock]
        BY <3>1 DEF Windows
      <3> QED
        BY <1>2, <2>1, <3>2 DEF Windows
    <2>2. CASE ~Fresh(w, AllPeriod[t])
      <3>1. PICK n \in Nat : n >= w.count /\ c = [w EXCEPT !.count = n]
        <4>1. CASE w.count > AllLimit[t]
          BY <1>2, <2>2, <4>1 DEF Counted
        <4>2. CASE ~(w.count > AllLimit[t])
          BY <1>2, <2>2, <4>2 DEF Counted
        <4> QED
          BY <4>1, <4>2
      <3>2. c = [count |-> n, at |-> w.at, lock |-> w.lock]
        BY <3>1 DEF Windows
      <3> QED
        BY <1>2, <3>1, <3>2 DEF Windows
    <2> QED
      BY <2>1, <2>2
  <1> HIDE DEF c
  <1>4. CASE AllOver(w, t)
    <2>1. AllCounted(w, t) = [c EXCEPT !.at = now, !.lock = TRUE]
      BY <1>4 DEF AllCounted, c
    <2>2. ~Fresh(w, AllPeriod[t]) /\ w.count >= AllLimit[t]
      BY <1>4 DEF AllOver, Over
    <2>3. AllCounted(w, t) = [count |-> c.count, at |-> now, lock |-> TRUE]
      BY <1>3, <2>1 DEF Windows
    <2>4. c.count \in Nat /\ c.count >= w.count
      BY <1>3, <2>2 DEF Windows
    <2> QED
      BY <1>1, <1>2, <2>2, <2>3, <2>4 DEF Windows, LockedFull
  <1>5. CASE ~AllOver(w, t) /\ Fresh(w, AllPeriod[t])
    <2>1. AllCounted(w, t) = [c EXCEPT !.lock = FALSE]
      BY <1>5 DEF AllCounted, c
    <2> QED
      BY <1>3, <2>1 DEF Windows, LockedFull
  <1>6. CASE ~AllOver(w, t) /\ ~Fresh(w, AllPeriod[t])
    <2>1. AllCounted(w, t) = c
      BY <1>6 DEF AllCounted, c
    <2> QED
      BY <1>1, <1>2, <1>3, <1>6, <2>1 DEF Windows, LockedFull
  <1> QED
    BY <1>4, <1>5, <1>6

\* While the lock lasts, a message of anyone it binds is stopped.
LEMMA LockedStops ==
    ASSUME LockInv, NEW t \in LockTypes, NEW u, ~Exempt(u), all[t].lock,
           now - all[t].at <= AllPeriod[t]
    PROVE  AllStopped(u, t)
  <1>1. /\ all[t].count \in Nat /\ all[t].at \in Nat
        /\ AllLimit[t] > 0 /\ AllPeriod[t] > 0 /\ all[t].count >= AllLimit[t]
        /\ AllLimit[t] \in Nat /\ AllPeriod[t] \in Nat /\ now \in Nat
    BY RelayAssumption DEF LockInv, LockedFull, LockTypes, Windows
  <1> QED
    BY <1>1 DEF AllStopped, AllChecked, AllOver, Over, Fresh

\* The windows of all users after a message that CheckProtoFloodAll counts.
AllCounts(u, t) == all' = IF AllChecked(u, t) THEN [all EXCEPT ![t] = AllCounted(@, t)] ELSE all

LEMMA AllCountsKeep ==
    ASSUME LockInv, NEW t \in LockTypes, NEW u, AllCounts(u, t)
    PROVE  all' \in [LockTypes -> Windows] /\ \A r \in LockTypes : LockedFull(all'[r], r)
  <1>1. CASE AllChecked(u, t)
    <2>1. AllCounted(all[t], t) \in Windows /\ LockedFull(AllCounted(all[t], t), t)
      BY <1>1, AllCountedFull DEF LockInv, AllChecked
    <2>2. all' = [all EXCEPT ![t] = AllCounted(all[t], t)]
      BY <1>1 DEF AllCounts
    <2> QED
      BY <2>1, <2>2 DEF LockInv
  <1>2. CASE ~AllChecked(u, t)
    BY <1>2 DEF AllCounts, LockInv
  <1> QED
    BY <1>1, <1>2

\* A message goes out: it is kept with those of late, and the history of no
\* other is touched.
Later(messages, t) == Recent(messages, Remembered(t))
                          \cup {[at |-> now, nr |-> Cardinality(InSecond(messages)) + 1]}

LEMMA GoesAlone ==
    ASSUME WentShape, NEW t \in Types, NEW u \in Members, Goes(t, u)
    PROVE  /\ WentShape'
           /\ went'[t][u] = Later(went[t][u], t)
           /\ \A r \in Types, w \in Members : (r # t \/ w # u) => went'[r][w] = went[r][w]
  <1> DEFINE times == Later(went[t][u], t)
  <1>1. went' = [went EXCEPT ![t] = [went[t] EXCEPT ![u] = times]]
    BY DEF Goes, Later
  <1> HIDE DEF times
  <1>2. DOMAIN went = Types /\ \A r \in Types : DOMAIN went[r] = Members
    BY DEF WentShape
  <1>3. went' = [r \in Types |-> IF r = t THEN [went[t] EXCEPT ![u] = times] ELSE went[r]]
    BY <1>1, <1>2
  <1>4. [went[t] EXCEPT ![u] = times] = [w \in Members |-> IF w = u THEN times ELSE went[t][w]]
    BY <1>2
  <1>5. \A r \in Types : went[r] = [w \in Members |-> went[r][w]]
    BY DEF WentShape
  <1>6. \A r \in Types : went'[r] = [w \in Members |-> went'[r][w]]
    BY <1>3, <1>4, <1>5
  <1>7. went' = [r \in Types |-> went'[r]]
    BY <1>3
  <1>8. WentShape'
    BY <1>6, <1>7 DEF WentShape
  <1>9. went'[t][u] = times
    BY <1>3, <1>4
  <1> QED
    BY <1>3, <1>4, <1>8, <1>9 DEF times

\* What a message does to the lock of its type and to what goes out.
LEMMA LockInvCounted ==
    ASSUME LockInv, NEW t \in LockTypes, NEW u \in Members, AllCounts(u, t),
           UNCHANGED <<sent, now>>,
           \/ UNCHANGED went
           \/ Goes(t, u) /\ ~AllStopped(u, t)
    PROVE  LockInv' /\ LockKept
  <1>0. t \in Types
    BY DEF LockTypes
  <1>1. WentShape' /\ \A r \in Types, w \in Members : went'[r][w] # went[r][w] =>
                                  r = t /\ w = u /\ ~AllStopped(u, t)
    BY <1>0, GoesAlone DEF LockInv, WentShape
  <1>2. LockInv'
    BY <1>1, AllCountsKeep DEF LockInv
  <1>3. LockKept
    <2> SUFFICES ASSUME NEW r \in Types \cap {"chat", "to", "mcto"}, NEW w \in Members,
                        all[r].lock, now - all[r].at <= AllPeriod[r], ~Exempt(w)
                 PROVE  went'[r][w] = went[r][w]
      BY DEF LockKept
    <2>1. r \in LockTypes
      BY DEF LockTypes, AllTypes
    <2>2. AllStopped(w, r)
      BY <2>1, LockedStops
    <2> QED
      BY <1>1, <2>2
  <1> QED
    BY <1>2, <1>3

\* A message of a type that LockHolds does not speak of.
LEMMA LockInvOther ==
    ASSUME LockInv, NEW t \in Types \ {"chat", "to", "mcto"}, NEW u \in Members,
           UNCHANGED <<sent, now>>,
           all' \in [LockTypes -> Windows], \A r \in LockTypes : LockedFull(all'[r], r),
           UNCHANGED went \/ Goes(t, u)
    PROVE  LockInv' /\ LockKept
  <1>1. WentShape' /\ \A r \in Types, w \in Members : went'[r][w] # went[r][w] => r = t
    BY GoesAlone DEF LockInv, WentShape
  <1> QED
    BY <1>1 DEF LockInv, LockKept

LEMMA LockInvQuiet ==
    ASSUME LockInv, UNCHANGED <<sent, all, went>>, now' \in Nat
    PROVE  LockInv' /\ LockKept
  BY DEF LockInv, LockKept, WentShape

LEMMA LockInvStopped ==
    ASSUME LockInv, NEW u, NEW t, Stopped(u, t)
    PROVE  LockInv' /\ LockKept
  BY LockInvQuiet DEF Stopped, LockInv

LEMMA LockInvChat ==
    ASSUME LockInv, "chat" \in sent, NEW u \in Members, NEW words, NEW fine \in BOOLEAN, Chat(u, words, fine)
    PROVE  LockInv' /\ LockKept
  <1>0. "chat" \in LockTypes
    BY DEF LockInv, LockTypes, AllTypes
  <1>1. CASE Stopped(u, "chat")
    BY <1>1, LockInvStopped
  <1>2. CASE UNCHANGED <<sent, now, all, went>>
    BY <1>2, LockInvQuiet DEF LockInv
  <1>3. CASE /\ AllCounts(u, "chat") /\ UNCHANGED <<sent, now>>
             /\ UNCHANGED went \/ (Goes("chat", u) /\ ~AllStopped(u, "chat"))
    BY <1>0, <1>3, LockInvCounted
  <1>4. CASE ~Stopped(u, "chat")
    <2>1. UNCHANGED <<sent, now>>
      BY <1>4 DEF Chat
    <2>2. \/ UNCHANGED <<all, went>>
          \/ AllCounts(u, "chat") /\ (UNCHANGED went \/ (Goes("chat", u) /\ ~AllStopped(u, "chat")))
      BY <1>4 DEF Chat, AllCounts
    <2> QED
      BY <1>2, <1>3, <2>1, <2>2
  <1> QED
    BY <1>1, <1>4

LEMMA LockInvPrivate ==
    ASSUME LockInv, NEW t \in sent \cap {"to", "mcto"}, NEW u \in Members, NEW w \in Members,
           NEW words, NEW fine \in BOOLEAN, PrivateMessage(u, w, t, words, fine)
    PROVE  LockInv' /\ LockKept
  <1>0. t \in LockTypes
    BY DEF LockInv, LockTypes, AllTypes
  <1>1. CASE Stopped(u, t)
    BY <1>1, LockInvStopped
  <1>2. CASE UNCHANGED <<sent, now, all, went>>
    BY <1>2, LockInvQuiet DEF LockInv
  <1>3. CASE /\ AllCounts(u, t) /\ UNCHANGED <<sent, now>>
             /\ UNCHANGED went \/ (Goes(t, u) /\ ~AllStopped(u, t))
    BY <1>0, <1>3, LockInvCounted
  <1>4. CASE ~Stopped(u, t)
    <2>1. UNCHANGED <<sent, now>>
      BY <1>4 DEF PrivateMessage
    <2>2. \/ UNCHANGED <<all, went>>
          \/ AllCounts(u, t) /\ (UNCHANGED went \/ (Goes(t, u) /\ ~AllStopped(u, t)))
      BY <1>4 DEF PrivateMessage, AllCounts
    <2> QED
      BY <1>2, <1>3, <2>1, <2>2
  <1> QED
    BY <1>1, <1>4

LEMMA LockInvSearch ==
    ASSUME LockInv, "search" \in sent, NEW u \in Members, NEW passive \in BOOLEAN,
           NEW words, NEW fine \in BOOLEAN, Search(u, passive, words, fine)
    PROVE  LockInv' /\ LockKept
  <1>0. "search" \in LockTypes /\ "search" \in Types \ {"chat", "to", "mcto"}
    BY DEF LockInv, LockTypes, AllTypes
  <1>1. CASE Stopped(u, "search")
    BY <1>1, LockInvStopped
  <1>2. CASE ~Stopped(u, "search")
    <2>1. UNCHANGED <<sent, now>> /\ (UNCHANGED went \/ Goes("search", u))
      BY <1>2 DEF Search, SearchGoes
    <2>2. UNCHANGED all \/ (AllCounts(u, "search") /\ AllChecked(u, "search"))
      BY <1>2 DEF Search, AllCounts
    <2>3. all' \in [LockTypes -> Windows] /\ \A r \in LockTypes : LockedFull(all'[r], r)
      BY <1>0, <2>2, AllCountsKeep DEF LockInv
    <2> QED
      BY <1>0, <2>1, <2>3, LockInvOther
  <1> QED
    BY <1>1, <1>2

LEMMA LockInvRequest ==
    ASSUME LockInv, NEW u \in Members, NEW w \in Members, NEW fine \in BOOLEAN,
           \/ "sr" \in sent /\ SearchResult(u, w)
           \/ "ctm" \in sent /\ ConnectToMe(u, w, fine)
           \/ "rctm" \in sent /\ RevConnectToMe(u, w, fine)
    PROVE  LockInv' /\ LockKept
  <1>1. CASE \E t \in {"sr", "ctm", "rctm"} : Stopped(u, t)
    BY <1>1, LockInvStopped
  <1>2. CASE UNCHANGED <<sent, now, all, went>>
    BY <1>2, LockInvQuiet DEF LockInv
  <1>3. CASE \E t \in sent \cap {"ctm", "rctm"} : UNCHANGED <<sent, now, all>> /\ Goes(t, u)
    BY <1>3, LockInvOther DEF LockInv
  <1> QED
    BY <1>1, <1>2, <1>3 DEF SearchResult, ConnectToMe, RevConnectToMe

LEMMA LockInvComeBack ==
    ASSUME LockInv, NEW u \in Members, ComeBack(u)
    PROVE  LockInv' /\ LockKept
  <1>1. DOMAIN went = Types /\ \A r \in Types : DOMAIN went[r] = Members
    BY DEF LockInv, WentShape
  <1>2. \A r \in Types : went'[r] = [w \in Members |-> IF w = u THEN {} ELSE went[r][w]]
    BY <1>1 DEF ComeBack, LockInv, WentShape
  <1>3. went' = [r \in Types |-> went'[r]]
    BY DEF ComeBack
  <1>4. WentShape'
    BY <1>2, <1>3 DEF WentShape
  <1>5. LockKept
    <2>1. \A r \in Types, w \in Members : went'[r][w] \in {went[r][w], {}}
      BY <1>2
    <2> QED
      BY <2>1 DEF LockKept
  <1> QED
    BY <1>4, <1>5 DEF ComeBack, LockInv

LEMMA LockInvNext ==
    LockInv /\ [RelayNext]_relayVars => LockInv' /\ (LockKept \/ UNCHANGED relayVars)
  <1> SUFFICES ASSUME LockInv, [RelayNext]_relayVars
               PROVE  LockInv' /\ (LockKept \/ UNCHANGED relayVars)
    OBVIOUS
  <1>1. CASE UNCHANGED relayVars
    BY <1>1, LockInvQuiet DEF relayVars, LockInv
  <1>2. CASE \E u \in Judged : \E t \in sent \ {"sr"} : SetRight(u, RightOf[t])
    BY <1>2, LockInvQuiet DEF SetRight, counts, LockInv
  <1>3. CASE SecondPasses
    <2>1. now' \in Nat
      BY <1>3 DEF SecondPasses, LockInv
    <2> QED
      BY <1>3, <2>1, LockInvQuiet DEF SecondPasses, counts
  <1>4. CASE \E u \in Judged : ComeBack(u)
    BY <1>4, LockInvComeBack, RelayAssumption
  <1> QED
    BY <1>1, <1>2, <1>3, <1>4, LockInvChat, LockInvPrivate, LockInvSearch, LockInvRequest
    DEF RelayNext, DC_SA, DC_SP, DC_To, DC_MCTo

LEMMA LockInvInit == RelayInit => LockInv
  <1> SUFFICES ASSUME RelayInit PROVE LockInv
    OBVIOUS
  <1>1. sent \subseteq Types
    BY DEF RelayInit, Types
  <1>2. WentShape
    BY DEF RelayInit, WentShape
  <1>3. all = [t \in LockTypes |-> [count |-> 0, at |-> 0, lock |-> FALSE]]
    BY DEF RelayInit, LockTypes, NoWindow3
  <1>4. all \in [LockTypes -> Windows] /\ \A t \in LockTypes : LockedFull(all[t], t)
    BY <1>3 DEF LockedFull, Windows
  <1> QED
    BY <1>1, <1>2, <1>4 DEF RelayInit, LockInv

\* A type of message locked for all goes out for nobody whom the limits bind
\* until a whole period has passed without one being tried
\* (cserverdc.cpp: CheckProtoFloodAll).
THEOREM LockHoldsAlways == RelaySpec => LockHolds
  <1>1. LockInv /\ [RelayNext]_relayVars =>
            [\A t \in Types \cap {"chat", "to", "mcto"} : \A u \in Members :
               all[t].lock /\ now - all[t].at <= AllPeriod[t] /\ ~Exempt(u) =>
                   went'[t][u] \in {went[t][u], {}}]_relayVars
    BY LockInvNext DEF LockKept
  <1> QED
    BY <1>1, LockInvInit, LockInvNext, PTL DEF RelaySpec, LockHolds

-----------------------------------------------------------------------------
(* Relay: the limits.  A window that opened at a lasts to a + k and has     *)
(* counted n messages; what went out since it opened is no more than that   *)
(* nor than the limit L, and no more than L went out before it and no       *)
(* longer than k ago when it opened.                                        *)

Messages == [at : Nat, nr : Nat]
Log(W)   == W \subseteq Messages /\ IsFiniteSet(W)
Since(W, a)     == {m \in W : m.at >= a}
Before(W, a, k) == {m \in W : m.at < a /\ a <= m.at + k}
Paced(W, a, n, k, L) ==
    /\ \A m \in W : m.at <= a + k
    /\ Cardinality(Since(W, a)) <= n
    /\ Cardinality(Since(W, a)) <= L
    /\ Cardinality(Before(W, a, k)) <= L

\* A part of a log is a log and holds no more.
LEMMA PartOfLog ==
    ASSUME NEW W, Log(W), NEW V, V \subseteq W
    PROVE  Log(V) /\ Cardinality(V) \in Nat /\ Cardinality(V) <= Cardinality(W)
                  /\ Cardinality(W) \in Nat
  BY FS_Subset, FS_CardinalityType DEF Log

\* With fewer messages and a higher count the pace is kept.
LEMMA PacedFewer ==
    ASSUME NEW W, Log(W), NEW V, V \subseteq W, NEW a \in Int, NEW n \in Nat, NEW k \in Nat,
           NEW L \in Nat, NEW p \in Nat, n <= p, Paced(W, a, n, k, L)
    PROVE  Log(V) /\ Paced(V, a, p, k, L)
  <1>1. Log(V) /\ Log(Since(W, a)) /\ Log(Before(W, a, k))
    BY PartOfLog DEF Since, Before
  <1>2. Since(V, a) \subseteq Since(W, a) /\ Before(V, a, k) \subseteq Before(W, a, k)
    BY DEF Since, Before
  <1>3. /\ Cardinality(Since(V, a)) \in Nat /\ Cardinality(Since(W, a)) \in Nat
        /\ Cardinality(Since(V, a)) <= Cardinality(Since(W, a))
    BY <1>1, <1>2, PartOfLog
  <1>4. /\ Cardinality(Before(V, a, k)) \in Nat /\ Cardinality(Before(W, a, k)) \in Nat
        /\ Cardinality(Before(V, a, k)) <= Cardinality(Before(W, a, k))
    BY <1>1, <1>2, PartOfLog
  <1> QED
    BY <1>1, <1>3, <1>4 DEF Paced

\* One more message, counted, within the window and the limit.
LEMMA PacedMore ==
    ASSUME NEW W, Log(W), NEW a \in Int, NEW n \in Nat, NEW k \in Nat, NEW L \in Nat,
           Paced(W, a, n, k, L), NEW x \in Messages, a <= x.at, x.at <= a + k, n + 1 <= L
    PROVE  Log(W \cup {x}) /\ Paced(W \cup {x}, a, n + 1, k, L)
  <1>0. x.at \in Nat
    BY DEF Messages
  <1>1. Log(W \cup {x})
    BY FS_AddElement DEF Log
  <1>2. Log(Since(W, a))
    BY PartOfLog DEF Since
  <1>3. Since(W \cup {x}, a) = Since(W, a) \cup {x}
    BY DEF Since
  <1>4. /\ Cardinality(Since(W, a)) \in Nat /\ Cardinality(Since(W \cup {x}, a)) \in Nat
        /\ Cardinality(Since(W \cup {x}, a)) <= Cardinality(Since(W, a)) + 1
    <2> DEFINE S == Since(W, a)
    <2>1. IsFiniteSet(S) /\ Since(W \cup {x}, a) = S \cup {x}
      BY <1>2, <1>3 DEF Log
    <2> HIDE DEF S
    <2>2. Cardinality(S) \in Nat
      BY <2>1, FS_CardinalityType
    <2>3. Cardinality(S \cup {x}) = IF x \in S THEN Cardinality(S) ELSE Cardinality(S) + 1
      BY <2>1, FS_AddElement
    <2>4. Cardinality(S \cup {x}) \in Nat /\ Cardinality(S \cup {x}) <= Cardinality(S) + 1
      BY <2>2, <2>3
    <2> QED
      BY <2>1, <2>2, <2>4 DEF S
  <1>5. Before(W \cup {x}, a, k) = Before(W, a, k)
    BY <1>0 DEF Before
  <1> QED
    BY <1>1, <1>4, <1>5 DEF Paced

\* A window opens after the last one has run out.
LEMMA PacedAnew ==
    ASSUME NEW W, Log(W), NEW a \in Int, NEW n \in Nat, NEW k \in Nat, NEW L \in Nat,
           Paced(W, a, n, k, L), NEW b \in Nat, b > a + k \/ W = {}
    PROVE  Paced(W, b, 0, k, L)
  <1>0. \A m \in W : m.at \in Nat
    BY DEF Log, Messages
  <1>1. Since(W, b) = {}
    BY <1>0 DEF Paced, Since
  <1>2. Before(W, b, k) \subseteq Since(W, a)
    BY <1>0 DEF Paced, Since, Before
  <1>3. Log(Since(W, a))
    BY PartOfLog DEF Since
  <1>4. /\ Cardinality(Before(W, b, k)) \in Nat /\ Cardinality(Since(W, a)) \in Nat
        /\ Cardinality(Before(W, b, k)) <= Cardinality(Since(W, a))
    BY <1>2, <1>3, PartOfLog
  <1>5. \A m \in W : m.at <= b + k
    BY <1>0 DEF Paced
  <1> QED
    BY <1>1, <1>4, <1>5, FS_EmptySet DEF Paced

\* No stretch as long as the window sees more than twice the limit.
LEMMA PacedBound ==
    ASSUME NEW W, Log(W), NEW a \in Int, NEW n \in Nat, NEW k \in Nat, NEW L \in Nat,
           Paced(W, a, n, k, L), NEW b \in Nat, a <= b
    PROVE  Cardinality({m \in W : b - m.at <= k}) <= 2 * L
  <1> DEFINE late == {m \in W : b - m.at <= k}
  <1>0. \A m \in W : m.at \in Nat
    BY DEF Log, Messages
  <1>1. late \subseteq Since(W, a) \cup Before(W, a, k)
    BY <1>0 DEF Since, Before
  <1>2. Log(Since(W, a)) /\ Log(Before(W, a, k))
    BY PartOfLog DEF Since, Before
  <1>3. Log(Since(W, a) \cup Before(W, a, k))
    BY PartOfLog DEF Since, Before
  <1>4. /\ Cardinality(Since(W, a)) \in Nat /\ Cardinality(Before(W, a, k)) \in Nat
        /\ Cardinality(Since(W, a) \cup Before(W, a, k))
               <= Cardinality(Since(W, a)) + Cardinality(Before(W, a, k))
    <2>1. Since(W, a) \cap Before(W, a, k) = {}
      BY <1>0 DEF Since, Before
    <2>2. /\ IsFiniteSet(Since(W, a)) /\ IsFiniteSet(Before(W, a, k))
          /\ Cardinality(Since(W, a)) \in Nat /\ Cardinality(Before(W, a, k)) \in Nat
      BY <1>2, FS_CardinalityType DEF Log
    <2>3. Cardinality(Since(W, a) \cup Before(W, a, k))
              = Cardinality(Since(W, a)) + Cardinality(Before(W, a, k))
                  - Cardinality(Since(W, a) \cap Before(W, a, k))
      BY <2>2, FS_Union
    <2> QED
      BY <2>1, <2>2, <2>3, FS_EmptySet
  <1>5. Cardinality(late) \in Nat /\ Cardinality(late) <= Cardinality(Since(W, a) \cup Before(W, a, k))
        /\ Cardinality(Since(W, a) \cup Before(W, a, k)) \in Nat
    BY <1>1, <1>3, PartOfLog
  <1> QED
    BY <1>4, <1>5 DEF Paced

-----------------------------------------------------------------------------
(* Relay: the windows of CheckProtoFlood *)

Boxes == [count : Nat, at : Nat]
Opened(w, W, clock, k, L) ==
    /\ w.at <= clock
    /\ w.count = 0 => W = {}
    /\ Paced(W, w.at, w.count, k, L)

LEMMA CountedIs ==
    ASSUME NEW w \in Boxes, now \in Nat, NEW k \in Nat, NEW L \in Nat
    PROVE  /\ Counted(w, k, L) \in Boxes /\ Counted(w, k, L).count # 0
           /\ Fresh(w, k) => Counted(w, k, L).count = 1 /\ Counted(w, k, L).at = now
           /\ ~Fresh(w, k) => /\ Counted(w, k, L).count >= w.count /\ Counted(w, k, L).at = w.at
                              /\ w.count <= L => Counted(w, k, L).count = w.count + 1
  <1>0. w.count \in Nat /\ w.at \in Nat /\ w = [count |-> w.count, at |-> w.at]
    BY DEF Boxes
  <1>1. CASE Fresh(w, k)
    <2>1. Counted(w, k, L) = [count |-> 1, at |-> now]
      BY <1>0, <1>1 DEF Counted
    <2> QED
      BY <1>1, <2>1 DEF Boxes
  <1>2. CASE ~Fresh(w, k)
    <2> DEFINE n == IF w.count > L THEN w.count ELSE w.count + 1
    <2>1. Counted(w, k, L) = [count |-> n, at |-> w.at]
      BY <1>0, <1>2 DEF Counted
    <2>2. n \in Nat /\ n >= w.count /\ (w.count <= L => n = w.count + 1)
      BY <1>0
    <2>3. w.count # 0 /\ n # 0
      BY <1>0, <1>2, <2>2 DEF Fresh
    <2> HIDE DEF n
    <2> QED
      BY <1>0, <1>2, <2>1, <2>2, <2>3 DEF Boxes
  <1> QED
    BY <1>1, <1>2

\* The count goes up, whatever becomes of the message.
LEMMA OpenedCounts ==
    ASSUME NEW w \in Boxes, now \in Nat, NEW k \in Nat, NEW L \in Nat, NEW W, Log(W),
           Opened(w, W, now, k, L)
    PROVE  Opened(Counted(w, k, L), W, now, k, L)
  <1> DEFINE c == Counted(w, k, L)
  <1>0. w.count \in Nat /\ w.at \in Nat /\ w.at \in Int /\ c \in Boxes /\ c.count \in Nat
    BY CountedIs DEF Boxes
  <1>1. c.count # 0
    BY CountedIs
  <1>2. CASE Fresh(w, k)
    <2>1. c.count = 1 /\ c.at = now
      BY <1>2, CountedIs
    <2>2. now > w.at + k \/ W = {}
      BY <1>0, <1>2 DEF Fresh, Opened
    <2>3. Paced(W, now, 0, k, L)
      BY <1>0, <2>2, PacedAnew DEF Opened
    <2>4. Paced(W, now, 1, k, L)
      BY <2>3, PacedFewer
    <2> QED
      BY <2>1, <2>4 DEF Opened
  <1>3. CASE ~Fresh(w, k)
    <2>1. c.count >= w.count /\ c.at = w.at
      BY <1>3, CountedIs
    <2>2. Paced(W, w.at, c.count, k, L)
      BY <1>0, <2>1, PacedFewer DEF Opened
    <2> QED
      BY <1>1, <2>1, <2>2 DEF Opened
  <1> QED
    BY <1>2, <1>3

\* A message that is counted and not over the limit goes out.
LEMMA OpenedGoes ==
    ASSUME NEW w \in Boxes, now \in Nat, NEW k \in Nat, NEW L \in Nat, L > 0, NEW W, Log(W),
           Opened(w, W, now, k, L), ~Over(w, k, L), NEW V, V \subseteq W,
           NEW x \in Messages, x.at = now
    PROVE  Log(V \cup {x}) /\ Opened(Counted(w, k, L), V \cup {x}, now, k, L)
  <1> DEFINE c == Counted(w, k, L)
  <1>0. w.count \in Nat /\ w.at \in Nat /\ w.at \in Int /\ c \in Boxes /\ c.count \in Nat
    BY CountedIs DEF Boxes
  <1>1. c.count # 0
    BY CountedIs
  <1>2. CASE Fresh(w, k)
    <2>1. c.count = 1 /\ c.at = now
      BY <1>2, CountedIs
    <2>2. now > w.at + k \/ W = {}
      BY <1>0, <1>2 DEF Fresh, Opened
    <2>3. Paced(W, now, 0, k, L)
      BY <1>0, <2>2, PacedAnew DEF Opened
    <2>4. Log(V) /\ Paced(V, now, 0, k, L)
      <3>1. now \in Int /\ 0 \in Nat /\ 0 <= 0
        OBVIOUS
      <3> QED
        BY <2>3, <3>1, PacedFewer
    <2>5. Log(V \cup {x}) /\ Paced(V \cup {x}, now, 0 + 1, k, L)
      <3>1. now \in Int /\ 0 \in Nat /\ 0 + 1 <= L /\ now <= x.at /\ x.at <= now + k
        OBVIOUS
      <3> QED
        BY <2>4, <3>1, PacedMore
    <2> QED
      BY <2>1, <2>5 DEF Opened
  <1>3. CASE ~Fresh(w, k)
    <2>1. w.count < L /\ now <= w.at + k
      BY <1>0, <1>3 DEF Over, Fresh
    <2>2. c.count = w.count + 1 /\ c.at = w.at
      <3>1. w.count <= L
        BY <1>0, <2>1
      <3> QED
        BY <1>3, <3>1, CountedIs
    <2>a. w.count <= w.count /\ w.count + 1 <= L /\ w.at <= x.at /\ x.at <= w.at + k
      BY <1>0, <2>1 DEF Opened
    <2>b. Paced(W, w.at, w.count, k, L)
      BY DEF Opened
    <2>3. Log(V) /\ Paced(V, w.at, w.count, k, L)
      BY <1>0, <2>a, <2>b, PacedFewer
    <2>4. Log(V \cup {x}) /\ Paced(V \cup {x}, w.at, w.count + 1, k, L)
      BY <1>0, <2>a, <2>3, PacedMore
    <2> QED
      BY <1>1, <2>2, <2>4 DEF Opened
  <1> QED
    BY <1>2, <1>3

\* What goes out is kept in a log: a part of what was there and one more.
LEMMA LaterIs ==
    ASSUME NEW W, Log(W), now \in Nat, NEW t
    PROVE  /\ Log(Later(W, t))
           /\ \E x \in Messages : x.at = now /\ Later(W, t) = Recent(W, Remembered(t)) \cup {x}
           /\ Recent(W, Remembered(t)) \subseteq W
  <1> DEFINE n == Cardinality(InSecond(W)) + 1
             x == [at |-> now, nr |-> n]
             V == Recent(W, Remembered(t))
  <1>1. n \in Nat
    <2>1. InSecond(W) \subseteq W
      BY DEF InSecond
    <2> QED
      BY <2>1, PartOfLog
  <1>2. Later(W, t) = V \cup {x}
    BY DEF Later
  <1> HIDE DEF n
  <1>3. x \in Messages /\ x.at = now
    BY <1>1 DEF Messages
  <1>4. V \subseteq W
    BY DEF Recent
  <1> HIDE DEF x, V
  <1>5. Log(V)
    BY <1>4, PartOfLog
  <1>6. Log(V \cup {x})
    BY <1>3, <1>5, FS_AddElement DEF Log
  <1> QED
    BY <1>2, <1>3, <1>4, <1>6 DEF V

Pauses == [at : Int, number : Nat]

LimitTypes ==
    /\ sent \subseteq Types /\ now \in Nat
    /\ own \in [Members -> [Types -> Boxes]]
    /\ searched \in [Members -> Pauses]
    /\ WentShape
    /\ \A t \in Types, u \in Members : Log(went[t][u])

Limited(t, u) == Checked(u, t) /\ Action[t] > 0
WindowsRight ==
    \A t \in Types, u \in Members :
        Limited(t, u) => Opened(own[u][t], went[t][u], now, Period[t], Limit[t])

Pausing == "search" \in Types /\ SearchNumber > 0 /\ SearchPause > 0
PauseRight(s, W) ==
    s.at <= now /\ Paced(W, s.at, s.number, SearchPause - 1, SearchNumber)
PausesRight ==
    Pausing => \A u \in Members : PauseRight(searched[u], went["search"][u])

LimitInv == LimitTypes /\ WindowsRight /\ PausesRight

\* Only one box of one member changes.
LEMMA OwnAlone ==
    ASSUME LimitTypes, NEW t \in Types, NEW u \in Members,
           own' = [own EXCEPT ![u][t] = Counted(@, Period[t], Limit[t])]
    PROVE  /\ own' \in [Members -> [Types -> Boxes]]
           /\ own'[u][t] = Counted(own[u][t], Period[t], Limit[t])
           /\ \A r \in Types, w \in Members : (r # t \/ w # u) => own'[w][r] = own[w][r]
  <1> DEFINE c == Counted(own[u][t], Period[t], Limit[t])
  <1>1. own[u][t] \in Boxes /\ Period[t] \in Nat /\ Limit[t] \in Nat
    BY RelayAssumption DEF LimitTypes
  <1>2. c \in Boxes
    BY <1>1, CountedIs DEF LimitTypes
  <1> HIDE DEF c
  <1>3. own' = [own EXCEPT ![u] = [own[u] EXCEPT ![t] = c]]
    BY DEF c
  <1>4. [own[u] EXCEPT ![t] = c] \in [Types -> Boxes]
    BY <1>2 DEF LimitTypes
  <1>5. own' \in [Members -> [Types -> Boxes]]
    BY <1>3, <1>4 DEF LimitTypes
  <1>6. own'[u] = [own[u] EXCEPT ![t] = c] /\ \A w \in Members \ {u} : own'[w] = own[w]
    BY <1>3 DEF LimitTypes
  <1>7. own'[u][t] = c /\ \A r \in Types \ {t} : own'[u][r] = own[u][r]
    BY <1>6 DEF LimitTypes
  <1> QED
    BY <1>5, <1>6, <1>7 DEF c

\* The count goes up and nothing goes out.
LEMMA WindowsCounted ==
    ASSUME LimitTypes, WindowsRight, NEW t \in Types, NEW u \in Members,
           own' = [own EXCEPT ![u][t] = Counted(@, Period[t], Limit[t])], UNCHANGED <<now, went>>
    PROVE  own' \in [Members -> [Types -> Boxes]] /\ WindowsRight'
  <1>1. own' \in [Members -> [Types -> Boxes]]
    BY OwnAlone
  <1>2. ASSUME NEW r \in Types, NEW w \in Members, Limited(r, w)
        PROVE  Opened(own'[w][r], went'[r][w], now, Period[r], Limit[r])
    <2>0. Opened(own[w][r], went[r][w], now, Period[r], Limit[r])
      BY <1>2 DEF WindowsRight
    <2>1. CASE r = t /\ w = u
      <3>1. own'[u][t] = Counted(own[u][t], Period[t], Limit[t])
        BY OwnAlone
      <3>2. own[u][t] \in Boxes /\ Period[t] \in Nat /\ Limit[t] \in Nat /\ now \in Nat
        BY RelayAssumption DEF LimitTypes
      <3>3. Log(went[t][u])
        BY DEF LimitTypes
      <3>4. Opened(Counted(own[u][t], Period[t], Limit[t]), went[t][u], now, Period[t], Limit[t])
        BY <2>0, <2>1, <3>2, <3>3, OpenedCounts
      <3> QED
        BY <2>1, <3>1, <3>4
    <2>2. CASE r # t \/ w # u
      <3>1. own'[w][r] = own[w][r]
        BY <2>2, OwnAlone
      <3> QED
        BY <2>0, <3>1
    <2> QED
      BY <2>1, <2>2
  <1> QED
    BY <1>1, <1>2 DEF WindowsRight, Limited, Checked

\* CheckProtoFlood lets a message go on, and it goes out.
LEMMA WindowsGo ==
    ASSUME LimitTypes, WindowsRight, NEW t \in Types, NEW u \in Members,
           Passes(u, t), Goes(t, u), UNCHANGED now
    PROVE  /\ own' \in [Members -> [Types -> Boxes]] /\ WindowsRight'
           /\ WentShape' /\ \A r \in Types, w \in Members : Log(went'[r][w])
  <1>0. WentShape /\ now \in Nat /\ own[u][t] \in Boxes /\ Period[t] \in Nat /\ Limit[t] \in Nat
    BY RelayAssumption DEF LimitTypes
  <1>1. /\ WentShape' /\ went'[t][u] = Later(went[t][u], t)
        /\ \A r \in Types, w \in Members : (r # t \/ w # u) => went'[r][w] = went[r][w]
    BY <1>0, GoesAlone
  <1>2. Log(went[t][u])
    BY DEF LimitTypes
  <1>3. /\ Log(Later(went[t][u], t)) /\ Recent(went[t][u], Remembered(t)) \subseteq went[t][u]
        /\ \E x \in Messages : /\ x.at = now
                               /\ Later(went[t][u], t) = Recent(went[t][u], Remembered(t)) \cup {x}
    BY <1>0, <1>2, LaterIs
  <1>4. \A r \in Types, w \in Members : Log(went'[r][w])
    BY <1>1, <1>3 DEF LimitTypes
  <1>5. /\ own' \in [Members -> [Types -> Boxes]]
        /\ \A r \in Types, w \in Members : (r # t \/ w # u) => own'[w][r] = own[w][r]
        /\ Checked(u, t) => own'[u][t] = Counted(own[u][t], Period[t], Limit[t])
    <2>1. CASE Checked(u, t)
      BY <2>1, OwnAlone DEF Passes
    <2>2. CASE ~Checked(u, t)
      BY <2>2 DEF Passes, LimitTypes
    <2> QED
      BY <2>1, <2>2
  <1>6. ASSUME NEW r \in Types, NEW w \in Members, Limited(r, w)
        PROVE  Opened(own'[w][r], went'[r][w], now, Period[r], Limit[r])
    <2>0. Opened(own[w][r], went[r][w], now, Period[r], Limit[r])
      BY <1>6 DEF WindowsRight
    <2>1. CASE r = t /\ w = u
      <3>1. PICK x \in Messages :
                   /\ x.at = now
                   /\ Later(went[t][u], t) = Recent(went[t][u], Remembered(t)) \cup {x}
        BY <1>3
      <3>2. Limit[t] > 0 /\ ~Over(own[u][t], Period[t], Limit[t])
        BY <1>6, <2>1 DEF Limited, Checked, Passes
      <3>3. Opened(Counted(own[u][t], Period[t], Limit[t]),
                   Recent(went[t][u], Remembered(t)) \cup {x}, now, Period[t], Limit[t])
        BY <1>0, <1>2, <1>3, <2>0, <2>1, <3>1, <3>2, OpenedGoes
      <3>4. own'[u][t] = Counted(own[u][t], Period[t], Limit[t])
        BY <1>5, <1>6, <2>1 DEF Limited
      <3> QED
        BY <1>1, <2>1, <3>1, <3>3, <3>4
    <2>2. CASE r # t \/ w # u
      <3>1. own'[w][r] = own[w][r] /\ went'[r][w] = went[r][w]
        BY <1>1, <1>5, <2>2
      <3> QED
        BY <2>0, <3>1
    <2> QED
      BY <2>1, <2>2
  <1> QED
    BY <1>1, <1>4, <1>5, <1>6 DEF WindowsRight, Limited, Checked

\* A message that is not a search.
LEMMA LimitInvOther ==
    ASSUME LimitInv, NEW t \in Types, NEW u \in Members, UNCHANGED <<sent, now, searched>>,
           \/ Stopped(u, t)
           \/ Passes(u, t) /\ UNCHANGED went
           \/ Passes(u, t) /\ Goes(t, u) /\ t # "search"
    PROVE  LimitInv'
  <1>1. CASE UNCHANGED went /\ (UNCHANGED own \/
                 own' = [own EXCEPT ![u][t] = Counted(@, Period[t], Limit[t])])
    <2>1. own' \in [Members -> [Types -> Boxes]] /\ WindowsRight'
      <3>1. CASE UNCHANGED own
        BY <1>1, <3>1 DEF LimitInv, LimitTypes, WindowsRight, Limited, Checked, Opened
      <3>2. CASE own' = [own EXCEPT ![u][t] = Counted(@, Period[t], Limit[t])]
        BY <1>1, <3>2, WindowsCounted DEF LimitInv
      <3> QED
        BY <1>1, <3>1, <3>2
    <2>2. PausesRight'
      BY <1>1 DEF LimitInv, PausesRight, Pausing, PauseRight
    <2>3. LimitTypes'
      BY <1>1, <2>1 DEF LimitInv, LimitTypes, WentShape
    <2> QED
      BY <2>1, <2>2, <2>3 DEF LimitInv
  <1>2. CASE Passes(u, t) /\ Goes(t, u) /\ t # "search"
    <2>1. /\ own' \in [Members -> [Types -> Boxes]] /\ WindowsRight'
          /\ WentShape' /\ \A r \in Types, w \in Members : Log(went'[r][w])
      BY <1>2, WindowsGo DEF LimitInv
    <2>2. \A w \in Members : "search" \in Types => went'["search"][w] = went["search"][w]
      BY <1>2, GoesAlone DEF LimitInv, LimitTypes
    <2>3. PausesRight'
      BY <2>2 DEF LimitInv, PausesRight, Pausing, PauseRight
    <2>4. LimitTypes'
      BY <2>1 DEF LimitInv, LimitTypes
    <2> QED
      BY <2>1, <2>3, <2>4 DEF LimitInv
  <1> QED
    BY <1>1, <1>2 DEF Stopped, Passes
-----------------------------------------------------------------------------
(* Relay: the pauses between searches *)

\* The pause is over when it has to be, and starts anew.
LEMMA WaitedRight ==
    ASSUME LimitTypes, NEW u \in Members, Pausing, NEW W, Log(W), PauseRight(searched[u], W)
    PROVE  Waited(u) \in Pauses /\ PauseRight(Waited(u), W)
  <1> DEFINE k == SearchPause - 1
             s == searched[u]
  <1>1. k \in Nat /\ SearchNumber \in Nat /\ SearchPause \in Nat /\ now \in Nat /\ SearchPause > 0
    BY RelayAssumption DEF Pausing, LimitTypes
  <1>2. s \in Pauses /\ s.at \in Int /\ s.number \in Nat
    BY DEF LimitTypes, Pauses
  <1>3. CASE TooSoon(u)
    BY <1>2, <1>3 DEF Waited
  <1>4. CASE ~TooSoon(u)
    <2>1. Waited(u) = [at |-> now, number |-> 0]
      BY <1>1, <1>4 DEF Waited
    <2>2. now > s.at + k
      BY <1>1, <1>2, <1>4 DEF TooSoon
    <2>3. Paced(W, s.at, s.number, k, SearchNumber)
      BY DEF PauseRight
    <2>4. Paced(W, now, 0, k, SearchNumber)
      BY <1>1, <1>2, <2>2, <2>3, PacedAnew
    <2> QED
      BY <1>1, <2>1, <2>4 DEF Pauses, PauseRight
  <1> QED
    BY <1>3, <1>4

LEMMA WaitedTypes ==
    ASSUME LimitTypes, NEW u \in Members
    PROVE  Waited(u) \in Pauses
  <1>1. searched[u] \in Pauses /\ searched[u].at \in Int /\ now \in Nat
    BY DEF LimitTypes, Pauses
  <1> QED
    BY <1>1 DEF Waited, Pauses

\* A search that is not one too many goes out.
LEMMA PauseGoes ==
    ASSUME LimitTypes, NEW u \in Members, Pausing, ~Bored(u), NEW W, Log(W),
           PauseRight(searched[u], W)
    PROVE  PauseRight([Waited(u) EXCEPT !.number = @ + 1], Later(W, "search"))
  <1> DEFINE k == SearchPause - 1
             s == Waited(u)
  <1>1. /\ k \in Nat /\ SearchNumber \in Nat /\ SearchPause \in Nat /\ now \in Nat
        /\ SearchPause > 0 /\ SearchNumber > 0
    BY RelayAssumption DEF Pausing, LimitTypes
  <1>2. s \in Pauses /\ s.at <= now /\ Paced(W, s.at, s.number, k, SearchNumber)
    BY WaitedRight DEF PauseRight
  <1>3. s.at \in Int /\ s.number \in Nat /\ s = [at |-> s.at, number |-> s.number]
    BY <1>2 DEF Pauses
  <1>4. [s EXCEPT !.number = @ + 1] = [at |-> s.at, number |-> s.number + 1]
    BY <1>3
  <1>5. s.number + 1 <= SearchNumber /\ now <= s.at + k
    <2>1. searched[u] \in Pauses /\ searched[u].at \in Int /\ searched[u].number \in Nat
      BY DEF LimitTypes, Pauses
    <2>2. CASE TooSoon(u)
      BY <1>1, <2>1, <2>2 DEF Waited, Bored, TooSoon
    <2>3. CASE ~TooSoon(u)
      <3>1. Waited(u) = [at |-> now, number |-> 0]
        BY <1>1, <2>3 DEF Waited
      <3> QED
        BY <1>1, <3>1
    <2> QED
      BY <2>2, <2>3
  <1> HIDE DEF s
  <1>6. PICK x \in Messages : /\ x.at = now
                              /\ Later(W, "search") = Recent(W, Remembered("search")) \cup {x}
    BY <1>1, LaterIs
  <1>7. Recent(W, Remembered("search")) \subseteq W
    BY <1>1, LaterIs
  <1>8. s.number <= s.number
    BY <1>3
  <1>9. /\ Log(Recent(W, Remembered("search")))
        /\ Paced(Recent(W, Remembered("search")), s.at, s.number, k, SearchNumber)
    BY <1>1, <1>2, <1>3, <1>7, <1>8, PacedFewer
  <1>10. s.at <= x.at /\ x.at <= s.at + k
    BY <1>2, <1>5, <1>6
  <1>11. Paced(Later(W, "search"), s.at, s.number + 1, k, SearchNumber)
    <2> DEFINE V == Recent(W, Remembered("search"))
    <2>1. Log(V) /\ Paced(V, s.at, s.number, k, SearchNumber)
      BY <1>9
    <2>2. k \in Nat /\ SearchNumber \in Nat /\ s.number + 1 <= SearchNumber
      BY <1>1, <1>5
    <2>3. Later(W, "search") = V \cup {x}
      BY <1>6
    <2> HIDE DEF V, k
    <2>4. Paced(V \cup {x}, s.at, s.number + 1, k, SearchNumber)
      BY <1>3, <1>10, <2>1, <2>2, PacedMore
    <2> QED
      BY <2>3, <2>4
  <1>12. PauseRight([at |-> s.at, number |-> s.number + 1], Later(W, "search"))
    BY <1>2, <1>11 DEF PauseRight
  <1> QED
    BY <1>4, <1>12 DEF s

LEMMA SearchedAlone ==
    ASSUME LimitTypes, NEW u \in Members, NEW s \in Pauses,
           searched' = [searched EXCEPT ![u] = s]
    PROVE  /\ searched' \in [Members -> Pauses]
           /\ searched'[u] = s /\ \A w \in Members \ {u} : searched'[w] = searched[w]
  BY DEF LimitTypes

\* A search is refused: its pause may have started.
LEMMA LimitInvRefused ==
    ASSUME LimitInv, NEW u \in Members, "search" \in Types, Passes(u, "search"),
           UNCHANGED <<sent, now, went>>, searched' = [searched EXCEPT ![u] = Waited(u)]
    PROVE  LimitInv'
  <1>1. own' \in [Members -> [Types -> Boxes]] /\ WindowsRight'
    <2>1. CASE UNCHANGED own
      BY <2>1 DEF LimitInv, LimitTypes, WindowsRight, Limited, Checked
    <2>3. CASE own' = [own EXCEPT ![u]["search"] = Counted(@, Period["search"], Limit["search"])]
      BY <2>3, WindowsCounted DEF LimitInv
    <2> QED
      BY <2>1, <2>3 DEF Passes
  <1>2. Waited(u) \in Pauses
    BY WaitedTypes DEF LimitInv
  <1>3. /\ searched' \in [Members -> Pauses]
        /\ searched'[u] = Waited(u) /\ \A w \in Members \ {u} : searched'[w] = searched[w]
    BY <1>2, SearchedAlone DEF LimitInv
  <1>4. LimitTypes'
    BY <1>1, <1>3 DEF LimitInv, LimitTypes, WentShape
  <1>5. ASSUME Pausing, NEW w \in Members
        PROVE  searched'[w].at <= now /\ Paced(went["search"][w], searched'[w].at,
                   searched'[w].number, SearchPause - 1, SearchNumber)
    <2>0. PauseRight(searched[w], went["search"][w]) /\ Log(went["search"][w])
      BY <1>5 DEF LimitInv, LimitTypes, PausesRight
    <2>1. CASE w = u
      <3>1. PauseRight(Waited(u), went["search"][u])
        BY <1>5, <2>0, <2>1, WaitedRight DEF LimitInv
      <3> QED
        BY <1>3, <2>1, <3>1 DEF PauseRight
    <2>2. CASE w # u
      BY <1>3, <2>0, <2>2 DEF PauseRight
    <2> QED
      BY <2>1, <2>2
  <1>6. PausesRight'
    BY <1>5 DEF PausesRight, Pausing, PauseRight
  <1> QED
    BY <1>1, <1>4, <1>6 DEF LimitInv

\* A search goes out.
LEMMA LimitInvSearched ==
    ASSUME LimitInv, NEW u \in Members, "search" \in Types, Passes(u, "search"), ~Bored(u),
           UNCHANGED <<sent, now>>, NEW passive, SearchGoes(u, passive)
    PROVE  LimitInv'
  <1> DEFINE s == [Waited(u) EXCEPT !.number = @ + 1]
  <1>0. Goes("search", u) /\ searched' = [searched EXCEPT ![u] = s]
    BY DEF SearchGoes
  <1>1. /\ own' \in [Members -> [Types -> Boxes]] /\ WindowsRight'
        /\ WentShape' /\ \A r \in Types, w \in Members : Log(went'[r][w])
    BY <1>0, WindowsGo DEF LimitInv
  <1>2. s \in Pauses
    <2>1. Waited(u) \in Pauses
      BY WaitedTypes DEF LimitInv
    <2> QED
      BY <2>1 DEF Pauses
  <1>3. /\ searched' \in [Members -> Pauses]
        /\ searched'[u] = s /\ \A w \in Members \ {u} : searched'[w] = searched[w]
    BY <1>0, <1>2, SearchedAlone DEF LimitInv
  <1>4. /\ went'["search"][u] = Later(went["search"][u], "search")
        /\ \A w \in Members \ {u} : went'["search"][w] = went["search"][w]
    BY <1>0, GoesAlone DEF LimitInv, LimitTypes
  <1>5. LimitTypes'
    BY <1>1, <1>3 DEF LimitInv, LimitTypes
  <1>6. ASSUME Pausing, NEW w \in Members
        PROVE  searched'[w].at <= now /\ Paced(went'["search"][w], searched'[w].at,
                   searched'[w].number, SearchPause - 1, SearchNumber)
    <2>0. PauseRight(searched[w], went["search"][w]) /\ Log(went["search"][w])
      BY <1>6 DEF LimitInv, LimitTypes, PausesRight
    <2>1. CASE w = u
      <3>1. PauseRight(s, Later(went["search"][u], "search"))
        BY <1>6, <2>0, <2>1, PauseGoes DEF LimitInv
      <3> HIDE DEF s
      <3> QED
        BY <1>3, <1>4, <2>1, <3>1 DEF PauseRight
    <2>2. CASE w # u
      BY <1>3, <1>4, <2>0, <2>2 DEF PauseRight
    <2> QED
      BY <2>1, <2>2
  <1>7. PausesRight'
    BY <1>6 DEF PausesRight, Pausing, PauseRight
  <1> QED
    BY <1>1, <1>5, <1>7 DEF LimitInv

LEMMA LimitInvSearch ==
    ASSUME LimitInv, "search" \in sent, NEW u \in Members, NEW passive \in BOOLEAN,
           NEW words, NEW fine \in BOOLEAN, Search(u, passive, words, fine)
    PROVE  LimitInv'
  <1>0. "search" \in Types
    BY DEF LimitInv, LimitTypes
  <1>1. CASE Stopped(u, "search")
    <2>1. UNCHANGED <<sent, now, searched>>
      BY <1>1 DEF Stopped
    <2> QED
      BY <1>0, <1>1, <2>1, LimitInvOther
  <1>2. CASE ~Stopped(u, "search")
    <2>1. Passes(u, "search") /\ UNCHANGED <<sent, now>>
      BY <1>2 DEF Search
    <2>2. \/ UNCHANGED <<searched, went>>
          \/ ~Bored(u) /\ searched' = [searched EXCEPT ![u] = Waited(u)] /\ UNCHANGED went
          \/ ~Bored(u) /\ SearchGoes(u, passive)
      BY <1>2 DEF Search
    <2>3. CASE UNCHANGED <<searched, went>>
      BY <1>0, <2>1, <2>3, LimitInvOther
    <2> QED
      BY <1>0, <2>1, <2>2, <2>3, LimitInvRefused, LimitInvSearched
  <1> QED
    BY <1>1, <1>2

LEMMA LimitInvRequest ==
    ASSUME LimitInv, NEW u \in Members, NEW w \in Members, NEW words, NEW fine \in BOOLEAN,
           \/ "chat" \in sent /\ Chat(u, words, fine)
           \/ "to" \in sent /\ PrivateMessage(u, w, "to", words, fine)
           \/ "mcto" \in sent /\ PrivateMessage(u, w, "mcto", words, fine)
           \/ "sr" \in sent /\ SearchResult(u, w)
           \/ "ctm" \in sent /\ ConnectToMe(u, w, fine)
           \/ "rctm" \in sent /\ RevConnectToMe(u, w, fine)
    PROVE  LimitInv'
  <1>1. CASE \E t \in sent : Stopped(u, t)
    <2>1. PICK t \in sent : Stopped(u, t)
      BY <1>1
    <2>2. UNCHANGED <<sent, now, searched>> /\ t \in Types
      BY <2>1 DEF Stopped, LimitInv, LimitTypes
    <2> QED
      BY <2>1, <2>2, LimitInvOther
  <1>2. CASE \E t \in sent : /\ Passes(u, t) /\ UNCHANGED <<sent, now, searched>>
                             /\ UNCHANGED went \/ (Goes(t, u) /\ t # "search")
    <2>1. PICK t \in sent : /\ Passes(u, t) /\ UNCHANGED <<sent, now, searched>>
                            /\ UNCHANGED went \/ (Goes(t, u) /\ t # "search")
      BY <1>2
    <2>2. t \in Types
      BY DEF LimitInv, LimitTypes
    <2> QED
      BY <2>1, <2>2, LimitInvOther
  <1>3. CASE "chat" \in sent /\ Chat(u, words, fine)
    <2>1. \/ Stopped(u, "chat")
          \/ /\ Passes(u, "chat") /\ UNCHANGED <<sent, now, searched>>
             /\ UNCHANGED went \/ Goes("chat", u)
      BY <1>3 DEF Chat
    <2> QED
      BY <1>1, <1>2, <1>3, <2>1
  <1>4. CASE \E t \in sent \cap {"to", "mcto"} : PrivateMessage(u, w, t, words, fine)
    <2>0. PICK t \in sent \cap {"to", "mcto"} : PrivateMessage(u, w, t, words, fine)
      BY <1>4
    <2>1. \/ Stopped(u, t)
          \/ /\ Passes(u, t) /\ UNCHANGED <<sent, now, searched>>
             /\ UNCHANGED went \/ Goes(t, u)
      BY <2>0 DEF PrivateMessage
    <2> QED
      BY <1>1, <1>2, <2>0, <2>1
  <1>5. CASE "sr" \in sent /\ SearchResult(u, w)
    BY <1>1, <1>2, <1>5 DEF SearchResult
  <1>6. CASE "ctm" \in sent /\ ConnectToMe(u, w, fine)
    <2>1. \/ Stopped(u, "ctm")
          \/ /\ Passes(u, "ctm") /\ UNCHANGED <<sent, now, searched>>
             /\ UNCHANGED went \/ Goes("ctm", u)
      BY <1>6 DEF ConnectToMe
    <2> QED
      BY <1>1, <1>2, <1>6, <2>1
  <1>7. CASE "rctm" \in sent /\ RevConnectToMe(u, w, fine)
    <2>1. \/ Stopped(u, "rctm")
          \/ /\ Passes(u, "rctm") /\ UNCHANGED <<sent, now, searched>>
             /\ UNCHANGED went \/ Goes("rctm", u)
      BY <1>7 DEF RevConnectToMe
    <2> QED
      BY <1>1, <1>2, <1>7, <2>1
  <1> QED
    BY <1>3, <1>4, <1>5, <1>6, <1>7

\* Nobody has sent anything: no window is open.
LEMMA NothingPaced ==
    ASSUME NEW a \in Int, NEW k \in Nat, NEW L \in Nat
    PROVE  Log({}) /\ Paced({}, a, 0, k, L)
  <1>1. Since({}, a) = {} /\ Before({}, a, k) = {}
    BY DEF Since, Before
  <1> QED
    BY <1>1, FS_EmptySet DEF Log, Paced

LEMMA NothingOpened ==
    ASSUME NEW clock \in Nat, NEW t \in Types
    PROVE  Opened(NoWindow, {}, clock, Period[t], Limit[t])
  <1>1. Period[t] \in Nat /\ Limit[t] \in Nat
    BY RelayAssumption
  <1>2. Paced({}, 0, 0, Period[t], Limit[t])
    BY <1>1, NothingPaced
  <1> QED
    BY <1>2 DEF Opened, NoWindow

LEMMA NothingSearched ==
    ASSUME Pausing, now \in Nat
    PROVE  PauseRight([at |-> -SearchPause, number |-> 0], {})
  <1>1. SearchPause \in Nat /\ SearchPause - 1 \in Nat /\ SearchNumber \in Nat /\ -SearchPause <= now
    BY RelayAssumption DEF Pausing
  <1>2. Paced({}, -SearchPause, 0, SearchPause - 1, SearchNumber)
    BY <1>1, NothingPaced
  <1> QED
    BY <1>1, <1>2 DEF PauseRight

LEMMA LimitInvInit == RelayInit => LimitInv
  <1> SUFFICES ASSUME RelayInit PROVE LimitInv
    OBVIOUS
  <1>0. sent \subseteq Types /\ now = 0 /\ now \in Nat
    BY DEF RelayInit, Types
  <1>1. /\ NoWindow \in Boxes
        /\ [at |-> -SearchPause, number |-> 0] \in Pauses
    BY RelayAssumption DEF NoWindow, Boxes, Pauses
  <1>2. own \in [Members -> [Types -> Boxes]]
    BY <1>1 DEF RelayInit
  <1>3. searched \in [Members -> Pauses]
    BY <1>1 DEF RelayInit
  <1>4. WentShape /\ \A t \in Types, u \in Members : went[t][u] = {}
    BY DEF RelayInit, WentShape
  <1>5. Log({})
    BY NothingPaced
  <1>6. LimitTypes
    BY <1>0, <1>2, <1>3, <1>4, <1>5 DEF LimitTypes
  <1>7. WindowsRight
    <2>1. \A t \in Types, u \in Members : own[u][t] = NoWindow
      BY DEF RelayInit
    <2> QED
      BY <1>0, <1>4, <2>1, NothingOpened DEF WindowsRight
  <1>8. PausesRight
    <2>1. \A u \in Members : searched[u] = [at |-> -SearchPause, number |-> 0]
      BY DEF RelayInit
    <2> QED
      BY <1>0, <1>4, <2>1, NothingSearched DEF PausesRight, Pausing
  <1> QED
    BY <1>6, <1>7, <1>8 DEF LimitInv

LEMMA LimitInvComeBack ==
    ASSUME LimitInv, NEW u \in Members, ComeBack(u)
    PROVE  LimitInv'
  <1> DEFINE none == [at |-> -SearchPause, number |-> 0]
             clean == [t \in Types |-> NoWindow]
  <1>0. UNCHANGED <<sent, now>> /\ sent \subseteq Types /\ now \in Nat
    BY DEF ComeBack, LimitInv, LimitTypes
  <1>1. NoWindow \in Boxes /\ none \in Pauses /\ clean \in [Types -> Boxes]
    BY RelayAssumption DEF NoWindow, Boxes, Pauses
  <1> HIDE DEF none
  <1>2. /\ searched' \in [Members -> Pauses]
        /\ searched'[u] = none /\ \A w \in Members \ {u} : searched'[w] = searched[w]
    <2>1. searched' = [searched EXCEPT ![u] = none]
      BY DEF ComeBack, none
    <2> QED
      BY <1>1, <2>1, SearchedAlone DEF LimitInv
  <1>3. /\ own' \in [Members -> [Types -> Boxes]]
        /\ \A t \in Types : own'[u][t] = NoWindow
        /\ \A w \in Members \ {u} : own'[w] = own[w]
    <2>1. own' = [own EXCEPT ![u] = clean] /\ own \in [Members -> [Types -> Boxes]]
      BY DEF ComeBack, LimitInv, LimitTypes
    <2>2. \A t \in Types : clean[t] = NoWindow
      OBVIOUS
    <2> HIDE DEF clean
    <2> QED
      BY <1>1, <2>1, <2>2
  <1>4. DOMAIN went = Types /\ \A r \in Types : DOMAIN went[r] = Members
    BY DEF LimitInv, LimitTypes, WentShape
  <1>5. \A r \in Types : went'[r] = [w \in Members |-> IF w = u THEN {} ELSE went[r][w]]
    BY <1>4 DEF ComeBack, LimitInv, LimitTypes, WentShape
  <1>6. went' = [r \in Types |-> went'[r]]
    BY DEF ComeBack
  <1>7. WentShape'
    BY <1>5, <1>6 DEF WentShape
  <1>8. \A t \in Types : /\ went'[t][u] = {}
                         /\ \A w \in Members \ {u} : went'[t][w] = went[t][w]
    BY <1>5
  <1>9. \A t \in Types, w \in Members : Log(went'[t][w])
    <2>1. Log({})
      BY NothingPaced
    <2> QED
      BY <1>8, <2>1 DEF LimitInv, LimitTypes
  <1>10. LimitTypes'
    BY <1>0, <1>2, <1>3, <1>7, <1>9 DEF LimitTypes
  <1>11. ASSUME NEW t \in Types, NEW w \in Members, Limited(t, w)
         PROVE  Opened(own'[w][t], went'[t][w], now, Period[t], Limit[t])
    <2>1. CASE w = u
      BY <1>0, <1>3, <1>8, <2>1, NothingOpened
    <2>2. CASE w # u
      BY <1>3, <1>8, <1>11, <2>2 DEF LimitInv, WindowsRight
    <2> QED
      BY <2>1, <2>2
  <1>12. WindowsRight'
    BY <1>0, <1>11 DEF WindowsRight, Limited, Checked
  <1>13. ASSUME Pausing, NEW w \in Members
         PROVE  searched'[w].at <= now /\ Paced(went'["search"][w], searched'[w].at,
                    searched'[w].number, SearchPause - 1, SearchNumber)
    <2>0. "search" \in Types
      BY <1>13 DEF Pausing
    <2>1. CASE w = u
      <3>1. PauseRight(none, {})
        BY <1>0, <1>13, NothingSearched DEF none
      <3> QED
        BY <1>2, <1>8, <2>0, <2>1, <3>1 DEF PauseRight
    <2>2. CASE w # u
      BY <1>2, <1>8, <1>13, <2>0, <2>2 DEF LimitInv, PausesRight, PauseRight
    <2> QED
      BY <2>1, <2>2
  <1>14. PausesRight'
    BY <1>0, <1>13 DEF PausesRight, Pausing, PauseRight
  <1> QED
    BY <1>10, <1>12, <1>14 DEF LimitInv

\* Time goes by or nothing that the limits look at changes.
LEMMA LimitInvQuiet ==
    ASSUME LimitInv, UNCHANGED <<sent, own, searched, went>>, now' \in Nat, now <= now'
    PROVE  LimitInv'
  <1>1. LimitTypes'
    BY DEF LimitInv, LimitTypes, WentShape
  <1>2. ASSUME NEW t \in Types, NEW u \in Members, Limited(t, u)
        PROVE  Opened(own[u][t], went[t][u], now', Period[t], Limit[t])
    <2>1. Opened(own[u][t], went[t][u], now, Period[t], Limit[t])
      BY <1>2 DEF LimitInv, WindowsRight
    <2>2. own[u][t].at \in Nat /\ now \in Nat
      BY DEF LimitInv, LimitTypes, Boxes
    <2> QED
      BY <2>1, <2>2 DEF Opened
  <1>3. WindowsRight'
    BY <1>2 DEF WindowsRight, Limited, Checked
  <1>4. PausesRight'
    <2>1. \A u \in Members : searched[u].at \in Int /\ now \in Nat
      BY DEF LimitInv, LimitTypes, Pauses
    <2> QED
      BY <2>1 DEF LimitInv, PausesRight, Pausing, PauseRight
  <1> QED
    BY <1>1, <1>3, <1>4 DEF LimitInv

LEMMA LimitInvNext == LimitInv /\ [RelayNext]_relayVars => LimitInv'
  <1> SUFFICES ASSUME LimitInv, [RelayNext]_relayVars PROVE LimitInv'
    OBVIOUS
  <1>0. now \in Nat /\ now <= now
    BY DEF LimitInv, LimitTypes
  <1>1. CASE UNCHANGED relayVars
    BY <1>0, <1>1, LimitInvQuiet DEF relayVars
  <1>2. CASE \E u \in Judged : \E t \in sent \ {"sr"} : SetRight(u, RightOf[t])
    BY <1>0, <1>2, LimitInvQuiet DEF SetRight, counts
  <1>3. CASE SecondPasses
    <2>1. now' \in Nat /\ now <= now'
      BY <1>0, <1>3 DEF SecondPasses
    <2> QED
      BY <1>3, <2>1, LimitInvQuiet DEF SecondPasses, counts
  <1>4. CASE \E u \in Judged : ComeBack(u)
    BY <1>4, LimitInvComeBack, RelayAssumption
  <1>5. CASE \E u \in Members, words \in Texts, fine \in BOOLEAN :
               \/ "chat" \in sent /\ Chat(u, words, fine)
               \/ \E w \in Members :
                    \/ "to" \in sent /\ PrivateMessage(u, w, "to", words, fine)
                    \/ "mcto" \in sent /\ PrivateMessage(u, w, "mcto", words, fine)
    BY <1>5, LimitInvRequest
  <1>6. CASE \E u \in Members, words \in Texts, passive, fine \in BOOLEAN :
               "search" \in sent /\ Search(u, passive, words, fine)
    BY <1>6, LimitInvSearch
  <1>7. CASE \E u, w \in Members, fine \in BOOLEAN :
               \/ "sr" \in sent /\ SearchResult(u, w)
               \/ "ctm" \in sent /\ ConnectToMe(u, w, fine)
               \/ "rctm" \in sent /\ RevConnectToMe(u, w, fine)
    BY <1>7, LimitInvRequest
  <1> QED
    BY <1>1, <1>2, <1>3, <1>4, <1>5, <1>6, <1>7
    DEF RelayNext, DC_SA, DC_SP, DC_To, DC_MCTo

\* What the windows say is what LimitsHold asks for.
LEMMA LimitInvHolds == LimitInv => LimitsHold
  <1> SUFFICES ASSUME LimitInv PROVE LimitsHold
    OBVIOUS
  <1>1. ASSUME NEW t \in Types, NEW u \in Members, Checked(u, t), Action[t] > 0
        PROVE  Cardinality(Recent(went[t][u], Period[t])) <= 2 * Limit[t]
    <2>1. Opened(own[u][t], went[t][u], now, Period[t], Limit[t]) /\ Log(went[t][u])
      BY <1>1 DEF LimitInv, LimitTypes, WindowsRight, Limited
    <2>2. /\ own[u][t].at \in Int /\ own[u][t].count \in Nat /\ now \in Nat
          /\ Period[t] \in Nat /\ Limit[t] \in Nat
      BY RelayAssumption DEF LimitInv, LimitTypes, Boxes
    <2> QED
      BY <2>1, <2>2, PacedBound DEF Opened, Recent
  <1>2. ASSUME NEW u \in Members, Pausing
        PROVE  Cardinality({m \in went["search"][u] : now - m.at < SearchPause})
                   <= 2 * SearchNumber
    <2>1. PauseRight(searched[u], went["search"][u]) /\ Log(went["search"][u])
      BY <1>2 DEF LimitInv, LimitTypes, PausesRight, Pausing
    <2>2. /\ searched[u].at \in Int /\ searched[u].number \in Nat /\ now \in Nat
          /\ SearchPause \in Nat /\ SearchPause - 1 \in Nat /\ SearchNumber \in Nat
      BY <1>2, RelayAssumption DEF LimitInv, LimitTypes, Pauses, Pausing
    <2>3. {m \in went["search"][u] : now - m.at < SearchPause}
              = {m \in went["search"][u] : now - m.at <= SearchPause - 1}
      BY <2>1, <2>2 DEF Log, Messages
    <2>4. Cardinality({m \in went["search"][u] : now - m.at <= SearchPause - 1})
              <= 2 * SearchNumber
      BY <2>1, <2>2, PacedBound DEF PauseRight
    <2> QED
      BY <2>3, <2>4
  <1> QED
    BY <1>1, <1>2 DEF LimitsHold, Pausing

\* Nobody whom the limits bind gets more than twice the limit through in any
\* stretch as long as the period, nor more than twice the number of searches in
\* a pause, and who hears a search can answer it (cserverdc.cpp:
\* CheckProtoFlood, cdcproto.cpp: DC_Search, SearchToAll).
THEOREM RelayRightAlways == RelaySpec => []RelayRight
  <1>1. RelaySpec => []LimitsHold
    BY LimitInvInit, LimitInvNext, LimitInvHolds, PTL DEF RelaySpec
  <1> QED
    BY <1>1, HeardCanAnswerHolds, PTL DEF RelayRight

-----------------------------------------------------------------------------
(* Protocol: who gets an answer to an operator's message *)

Seats == {"away", "known", "listed", "closing", "refused"}
ProtocolTypes ==
    /\ seat \in [Nicks -> Seats]
    /\ pinged \in [Nicks -> BOOLEAN] /\ features \in [Nicks -> BOOLEAN]
    /\ topic \in Topics /\ savedTopic \in Topics

ProtocolInv == ProtocolTypes /\ AnswersEarned /\ TopicKnown

\* What has no kind of its own is nobody's address, move or greeting.
PlainAnswer == answer.what \notin {"IP", "move", "HubINFO"}

RobotsListed == \A b \in Bots : seat[b] = "listed"

\* A step that gives no answer to an operator and moves no robot keeps
\* all but the topic.
LEMMA PlainKeeps ==
    ASSUME PlainAnswer, RobotsListed
    PROVE  AnswersEarned
  BY DEF PlainAnswer, RobotsListed, AnswersEarned

\* A reply says what it is.
LEMMA RepliesSay ==
    ASSUME NEW n, NEW what, NEW whom, Replies(n, what, whom)
    PROVE  answer'.what = what
  BY DEF Replies

\* Only people are moved.
LEMMA ClosesKeeps ==
    ASSUME ProtocolInv, NEW n \in People, NEW to \in Seats, seat' = [seat EXCEPT ![n] = to]
    PROVE  seat' \in [Nicks -> Seats] /\ RobotsListed'
  BY ProtocolAssumption DEF ProtocolInv, ProtocolTypes, AnswersEarned, RobotsListed, People

LEMMA RefusedKeeps ==
    ASSUME ProtocolInv, NEW n \in People, Refuse(n)
    PROVE  ProtocolInv'
  <1> DEFINE to == IF InList(n) THEN "closing" ELSE "refused"
  <1>1. to \in Seats /\ seat' = [seat EXCEPT ![n] = to]
    BY DEF Refuse, Closes, Seats
  <1> HIDE DEF to
  <1>2. seat' \in [Nicks -> Seats] /\ RobotsListed'
    BY <1>1, ClosesKeeps
  <1>3. PlainAnswer'
    BY DEF Refuse, Nothing, PlainAnswer
  <1>4. AnswersEarned'
    BY <1>2, <1>3, PlainKeeps DEF PlainAnswer, RobotsListed, AnswersEarned
  <1> QED
    BY <1>2, <1>4 DEF Refuse, ProtocolInv, ProtocolTypes, TopicKnown

LEMMA DroppedKeeps ==
    ASSUME ProtocolInv, answer' = Nothing,
           UNCHANGED <<seat, features, pinged, topic, savedTopic, setBy>>
    PROVE  ProtocolInv'
  <1>1. AnswersEarned'
    BY DEF Nothing, ProtocolInv, AnswersEarned
  <1> QED
    BY <1>1 DEF ProtocolInv, ProtocolTypes, TopicKnown

\* A message is dropped, refused, or handled for somebody with the right.
LEMMA BotINFOKeeps ==
    ASSUME ProtocolInv, NEW n \in People, BotINFO(n)
    PROVE  ProtocolInv'
  <1>1. CASE Refuse(n)
    BY <1>1, RefusedKeeps
  <1>2. CASE answer' = Nothing /\ UNCHANGED <<seat, features, pinged, topic, savedTopic, setBy>>
    BY <1>2, DroppedKeeps
  <1>3. CASE /\ Pinger(n) /\ pinged' = [pinged EXCEPT ![n] = TRUE] /\ Replies(n, "HubINFO", {})
             /\ UNCHANGED <<seat, features, topic, savedTopic, setBy>>
    <2>1. n \in Nicks
      BY DEF People
    <2>2. pinged' \in [Nicks -> BOOLEAN] /\ pinged'[n]
      BY <1>3, <2>1 DEF ProtocolInv, ProtocolTypes
    <2>3. Pinger(n)'
      BY <1>3 DEF Pinger
    <2>4. AnswersEarned'
      BY <1>3, <2>2, <2>3 DEF Replies, ProtocolInv, AnswersEarned
    <2> QED
      BY <1>3, <2>2, <2>4 DEF ProtocolInv, ProtocolTypes, TopicKnown
  <1> QED
    BY <1>1, <1>2, <1>3 DEF BotINFO, TreatMsg, Treated

\* UserIP and WhoIP
LEMMA AddressesKeep ==
    ASSUME ProtocolInv, NEW n \in People, UserIP(n, Nicks) \/ \E b \in BOOLEAN : WhoIP(n, b)
    PROVE  ProtocolInv'
  <1>1. CASE Refuse(n)
    BY <1>1, RefusedKeeps
  <1>2. CASE answer' = Nothing /\ UNCHANGED <<seat, features, pinged, topic, savedTopic, setBy>>
    BY <1>2, DroppedKeeps
  <1>3. ASSUME NEW S, LoggedIn(n, TRUE), Grade(n, IpGrade), Asked(n, "IP", S)
        PROVE  ProtocolInv'
    <2>1. answer'.to = {n} /\ answer'.what = "IP"
      BY <1>3 DEF Asked, Replies
    <2>2. UNCHANGED <<seat, features, pinged, topic, savedTopic, setBy>>
      BY <1>3 DEF Asked
    <2>3. AnswersEarned'
      BY <1>3, <2>1, <2>2 DEF LoggedIn, Grade, ProtocolInv, AnswersEarned
    <2> QED
      BY <2>2, <2>3 DEF ProtocolInv, ProtocolTypes, TopicKnown
  <1>4. CASE UserIP(n, Nicks)
    BY <1>1, <1>2, <1>3, <1>4 DEF UserIP, TreatMsg, Treated
  <1>5. CASE \E b \in BOOLEAN : WhoIP(n, b)
    BY <1>1, <1>2, <1>3, <1>5 DEF WhoIP, TreatMsg, Treated
  <1> QED
    BY <1>4, <1>5

LEMMA KickKeeps ==
    ASSUME ProtocolInv, NEW n \in People, NEW k \in Nicks, NEW b \in BOOLEAN, Kick(n, k, b)
    PROVE  ProtocolInv'
  <1>1. CASE Refuse(n)
    BY <1>1, RefusedKeeps
  <1>2. CASE answer' = Nothing /\ UNCHANGED <<seat, features, pinged, topic, savedTopic, setBy>>
    BY <1>2, DroppedKeeps
  <1>3. CASE /\ IF k # n /\ k \in People /\ InList(k) /\ BelowForKick(n, k)
                THEN seat' = [seat EXCEPT ![k] = "closing"] ELSE UNCHANGED seat
             /\ Replies(n, "kick", {k})
             /\ UNCHANGED <<features, pinged, topic, savedTopic, setBy>>
    <2>1. seat' \in [Nicks -> Seats] /\ RobotsListed'
      BY <1>3, ClosesKeeps DEF Seats, ProtocolInv, ProtocolTypes, AnswersEarned, RobotsListed
    <2>2. AnswersEarned'
      BY <1>3, <2>1 DEF Replies, RobotsListed, AnswersEarned
    <2> QED
      BY <1>3, <2>1, <2>2 DEF ProtocolInv, ProtocolTypes, TopicKnown
  <1> QED
    BY <1>1, <1>2, <1>3 DEF Kick, TreatMsg

LEMMA OpForceMoveKeeps ==
    ASSUME ProtocolInv, NEW n \in People, NEW k \in Nicks, NEW b \in BOOLEAN, OpForceMove(n, k, b)
    PROVE  ProtocolInv'
  <1>1. CASE Refuse(n)
    BY <1>1, RefusedKeeps
  <1>2. CASE answer' = Nothing /\ UNCHANGED <<seat, features, pinged, topic, savedTopic, setBy>>
    BY <1>2, DroppedKeeps
  <1>3. CASE /\ Grade(n, MoveGrade) /\ k \in People /\ BelowForMove(n, k)
             /\ seat' = [seat EXCEPT ![k] = "closing"] /\ Replies(k, "move", {n})
             /\ UNCHANGED <<features, pinged, topic, savedTopic, setBy>>
    <2>1. seat' \in [Nicks -> Seats] /\ RobotsListed' /\ seat'[k] = "closing"
      BY <1>3, ClosesKeeps DEF Seats, ProtocolInv, ProtocolTypes
    <2>2. AnswersEarned'
      BY <1>3, <2>1 DEF Replies, RobotsListed, AnswersEarned, Grade, BelowForMove
    <2> QED
      BY <1>3, <2>1, <2>2 DEF ProtocolInv, ProtocolTypes, TopicKnown
  <1>4. CASE UNCHANGED <<seat, features, pinged, topic, savedTopic, setBy>> /\ Replies(n, "not moved", {k})
    <2>1. AnswersEarned'
      BY <1>4 DEF Replies, ProtocolInv, AnswersEarned
    <2> QED
      BY <1>4, <2>1 DEF ProtocolInv, ProtocolTypes, TopicKnown
  <1> QED
    BY <1>1, <1>2, <1>3, <1>4 DEF OpForceMove, TreatMsg, Treated

\* UnBan, GetBanList, GetTopic and NamesItself change nothing else.
LEMMA AskingKeeps ==
    ASSUME ProtocolInv, NEW n \in People,
           UnBan(n) \/ GetBanList(n) \/ GetTopic(n) \/ \E k \in Nicks : NamesItself(n, k)
    PROVE  ProtocolInv'
  <1>1. CASE Refuse(n)
    BY <1>1, RefusedKeeps
  <1>2. CASE answer' = Nothing /\ UNCHANGED <<seat, features, pinged, topic, savedTopic, setBy>>
    BY <1>2, DroppedKeeps
  <1>3. CASE PlainAnswer' /\ UNCHANGED <<seat, features, pinged, topic, savedTopic, setBy>>
    BY <1>3 DEF PlainAnswer, AnswersEarned, ProtocolInv, ProtocolTypes, TopicKnown
  <1>4. CASE UnBan(n)
    <2>1. Asked(n, "bans", {}) => PlainAnswer'
      BY DEF Asked, Replies, PlainAnswer
    <2> QED
      BY <1>1, <1>2, <1>3, <1>4, <2>1 DEF UnBan, TreatMsg, Asked
  <1>5. CASE GetBanList(n)
    BY <1>1, <1>2, <1>5 DEF GetBanList, TreatMsg
  <1>6. CASE GetTopic(n)
    <2>1. topic \notin {"IP", "move", "HubINFO"}
      BY ProtocolAssumption DEF ProtocolInv, ProtocolTypes
    <2>2. Replies(n, topic, {}) => PlainAnswer'
      BY <2>1 DEF Replies, PlainAnswer
    <2> QED
      BY <1>1, <1>2, <1>3, <1>6, <2>2 DEF GetTopic, TreatMsg
  <1>7. CASE \E k \in Nicks : NamesItself(n, k)
    <2>1. Asked(n, "own name", {}) => answer'.what = "own name"
      BY RepliesSay DEF Asked
    <2>2. answer'.what = "own name" => PlainAnswer'
      BY DEF PlainAnswer
    <2> QED
      BY <1>1, <1>3, <1>7, <2>1, <2>2 DEF NamesItself, Asked
  <1> QED
    BY <1>4, <1>5, <1>6, <1>7

LEMMA TopicKeeps ==
    ASSUME ProtocolInv, NEW n \in People, NEW t \in Topics, SetTopic(n, t) \/ CmdTopic(n, t)
    PROVE  ProtocolInv'
  <1>1. CASE Refuse(n)
    BY <1>1, RefusedKeeps
  <1>2. CASE answer' = Nothing /\ UNCHANGED <<seat, features, pinged, topic, savedTopic, setBy>>
    BY <1>2, DroppedKeeps
  <1>3. CASE /\ topic' = t /\ PlainAnswer' /\ UNCHANGED <<seat, features, pinged>>
             /\ (setBy' = "message" /\ savedTopic' = savedTopic) \/ savedTopic' = t
    BY <1>3 DEF PlainAnswer, AnswersEarned, ProtocolInv, ProtocolTypes, TopicKnown
  <1>4. t \notin {"IP", "move", "HubINFO"}
    BY ProtocolAssumption
  <1>5. CASE SetTopic(n, t)
    <2>1. Replies(n, "topic set", {}) => answer'.what = "topic set"
      BY RepliesSay
    <2>2. answer'.what = "topic set" => PlainAnswer'
      BY DEF PlainAnswer
    <2> QED
      BY <1>1, <1>2, <1>3, <1>5, <2>1, <2>2 DEF SetTopic, TreatMsg
  <1>6. CASE CmdTopic(n, t)
    <2>1. answer'.what = t
      BY <1>6 DEF CmdTopic
    <2> QED
      BY <1>3, <1>4, <1>6, <2>1 DEF CmdTopic, PlainAnswer
  <1> QED
    BY <1>5, <1>6

\* Coming, going, and what needs no right.
LEMMA MovingKeeps ==
    ASSUME ProtocolInv, NEW n \in People,
           ComeIn(n) \/ ShowTopic(n) \/ GoOut(n) \/ UnknownMessage(n) \/ SaysQuit(n)
    PROVE  ProtocolInv'
  <1>1. CASE Refuse(n)
    BY <1>1, RefusedKeeps
  <1>2. CASE /\ UNCHANGED seat \/ \E to \in Seats : seat' = [seat EXCEPT ![n] = to]
             /\ UNCHANGED features \/ \E b \in BOOLEAN : features' = [features EXCEPT ![n] = b]
             /\ UNCHANGED pinged \/ \E b \in BOOLEAN : pinged' = [pinged EXCEPT ![n] = b]
             /\ UNCHANGED <<topic, savedTopic, setBy>> /\ PlainAnswer'
    <2>1. seat' \in [Nicks -> Seats] /\ RobotsListed'
      BY <1>2, ClosesKeeps DEF ProtocolInv, ProtocolTypes, AnswersEarned, RobotsListed
    <2>2. features' \in [Nicks -> BOOLEAN]
      BY <1>2 DEF ProtocolInv, ProtocolTypes
    <2>3. pinged' \in [Nicks -> BOOLEAN]
      BY <1>2 DEF ProtocolInv, ProtocolTypes
    <2> QED
      BY <1>2, <2>1, <2>2, <2>3
      DEF RobotsListed, PlainAnswer, AnswersEarned, ProtocolInv, ProtocolTypes, TopicKnown
  <1>3. topic \notin {"IP", "move", "HubINFO"}
    BY ProtocolAssumption DEF ProtocolInv, ProtocolTypes
  <1>4. CASE ComeIn(n)
    BY <1>2, <1>4 DEF ComeIn, Seats, Nothing, PlainAnswer
  <1>5. CASE ShowTopic(n)
    <2>1. answer' = Nothing \/ Replies(n, topic, {})
      BY <1>5 DEF ShowTopic
    <2>2. ASSUME answer' = Nothing PROVE PlainAnswer'
      BY <2>2 DEF Nothing, PlainAnswer
    <2>3. Replies(n, topic, {}) => PlainAnswer'
      BY <1>3, RepliesSay DEF PlainAnswer
    <2> QED
      BY <1>2, <1>5, <2>1, <2>2, <2>3 DEF ShowTopic, Seats
  <1>6. CASE GoOut(n)
    BY <1>2, <1>6 DEF GoOut, Seats, Nothing, PlainAnswer
  <1>7. CASE UnknownMessage(n)
    BY <1>2, <1>7 DEF UnknownMessage, Closes, Seats, Nothing, PlainAnswer
  <1> QED
    BY <1>1, <1>4, <1>5, <1>6, <1>7 DEF SaysQuit

LEMMA ProtocolInvInit == ProtocolInit => ProtocolInv
  <1> SUFFICES ASSUME ProtocolInit PROVE ProtocolInv
    OBVIOUS
  <1>1. seat \in [Nicks -> Seats]
    BY DEF ProtocolInit, Seats
  <1>2. RobotsListed
    BY ProtocolAssumption DEF ProtocolInit, RobotsListed
  <1>3. PlainAnswer
    BY DEF ProtocolInit, Nothing, PlainAnswer
  <1> QED
    BY <1>1, <1>2, <1>3, PlainKeeps DEF ProtocolInit, ProtocolInv, ProtocolTypes, TopicKnown

LEMMA ProtocolInvNext == ProtocolInv /\ [ProtocolNext]_protocolVars => ProtocolInv'
  <1> SUFFICES ASSUME ProtocolInv, [ProtocolNext]_protocolVars PROVE ProtocolInv'
    OBVIOUS
  <1>1. CASE UNCHANGED protocolVars
    BY <1>1 DEF protocolVars, ProtocolInv, ProtocolTypes, AnswersEarned, TopicKnown, Pinger
  <1>2. CASE Reload
    BY <1>2 DEF Reload, Nothing, ProtocolInv, ProtocolTypes, AnswersEarned, TopicKnown
  <1>3. CASE ProtocolNext /\ ~Reload
    <2>1. PICK n \in People :
            \/ ComeIn(n) \/ ShowTopic(n) \/ GoOut(n)
            \/ BotINFO(n) \/ UserIP(n, Nicks)
            \/ UnBan(n) \/ GetBanList(n) \/ GetTopic(n)
            \/ UnknownMessage(n) \/ SaysQuit(n)
            \/ \E k \in Nicks, b \in BOOLEAN : Kick(n, k, b) \/ OpForceMove(n, k, b)
            \/ \E b \in BOOLEAN : WhoIP(n, b)
            \/ \E k \in Nicks : NamesItself(n, k)
            \/ \E t \in Topics : SetTopic(n, t) \/ CmdTopic(n, t)
      BY <1>3 DEF ProtocolNext
    <2> QED
      BY <2>1, BotINFOKeeps, AddressesKeep, KickKeeps, OpForceMoveKeeps, AskingKeeps, TopicKeeps,
         MovingKeeps
  <1> QED
    BY <1>1, <1>2, <1>3

\* Addresses, moves and the hub's description come from and go to those with
\* the right alone (CheckUserRights, DCO_OpForceMove, DCB_BotINFO).
THEOREM AnswersEarnedAlways == ProtocolSpec => []AnswersEarned
  <1>1. ProtocolInv => AnswersEarned
    BY DEF ProtocolInv
  <1> QED
    BY <1>1, ProtocolInvInit, ProtocolInvNext, PTL DEF ProtocolSpec

\* A topic that was not saved came by $SetTopic since the last reload
\* (DCO_SetTopic).
THEOREM TopicKnownAlways == ProtocolSpec => []TopicKnown
  <1>1. ProtocolInv => TopicKnown
    BY DEF ProtocolInv
  <1> QED
    BY <1>1, ProtocolInvInit, ProtocolInvNext, PTL DEF ProtocolSpec

-----------------------------------------------------------------------------
(* TlsProxy: what a connection has behind it, for one caller *)

Hellos == {PlainText} \cup Versions
WireLines == [kind : {"line", "ip"}, addr : Addresses, ver : Hellos]

HubEndStates == {"none", "waiting", "open", "closing", "closed"}

TlsTypes ==
    /\ onlyTls \in BOOLEAN
    /\ via \in [Callers -> {"proxy", "direct"}]
    /\ origin \in [Callers -> Addresses] /\ hubAddr \in [Callers -> Addresses]
    /\ leg \in [Callers -> {"away", "reading", "shaking", "streaming", "ended"}]
    /\ opens \in [Callers -> Hellos] /\ agreed \in [Callers -> {NoVersion} \cup Hellos]
    /\ hubVer \in [Callers -> {NoVersion} \cup Hellos]
    /\ outgoing \in [Callers -> Seq(WireLines)] /\ wire \in [Callers -> Seq(WireLines)]
    /\ hubEnd \in [Callers -> HubEndStates]
    /\ back \in [Callers -> Nat] /\ said \in [Callers -> Nat] /\ spoken \in [Callers -> Nat]
    /\ greets \in [Callers -> Nat]
    /\ left \in [Callers -> BOOLEAN] /\ early \in [Callers -> BOOLEAN] /\ clash \in [Callers -> BOOLEAN]

\* nothing has reached the hub
Unheard(c) ==
    /\ hubEnd[c] = "none"
    /\ wire[c] = <<>> /\ greets[c] = 0 /\ ~early[c] /\ hubVer[c] = NoVersion /\ back[c] = 0

\* the address is the first thing on the wire
Announced(c) ==
    /\ hubEnd[c] \in {"waiting", "closed"} /\ greets[c] = 0 /\ ~early[c]
    /\ hubVer[c] = NoVersion /\ hubAddr[c] = ProxyAddress
    /\ agreed[c] # NoVersion
    /\ wire[c] # <<>> /\ Head(wire[c]) = MyIP(origin[c], agreed[c])

\* the address has been read, and whoever stays was greeted
Introduced(c) ==
    /\ hubEnd[c] \in {"open", "closing", "closed"} /\ greets[c] \in {0, 1} /\ ~early[c]
    /\ hubEnd[c] = "open" => greets[c] = 1
    /\ agreed[c] # NoVersion /\ hubVer[c] = agreed[c] /\ hubAddr[c] = origin[c]
    /\ agreed[c] = PlainText /\ onlyTls => greets[c] = 0

\* a connection that is not the proxy's is greeted at once and keeps its address
Direct(c) ==
    /\ hubEnd[c] \in {"open", "closing", "closed"} /\ greets[c] = 1 /\ ~early[c]
    /\ hubAddr[c] = origin[c]

Placed(c) ==
    /\ leg[c] \in {"away", "reading", "shaking"} => Unheard(c)
    /\ leg[c] = "away" => via[c] = "direct" /\ origin[c] = ProxyAddress
    /\ leg[c] \in {"reading", "shaking"} => via[c] = "proxy"
    /\ leg[c] = "streaming" => hubEnd[c] # "none"
    /\ via[c] = "proxy" => Unheard(c) \/ Announced(c) \/ Introduced(c)
    /\ leg[c] \in {"streaming", "ended"} /\ via[c] = "direct" /\ origin[c] # ProxyAddress => Direct(c)

\* nothing is said to a caller whose stream has ended, as the hub has closed
Finished(c) ==
    leg[c] = "ended" /\ ~left[c] /\ ~clash[c] =>
        hubEnd[c] \in {"none", "closed"} /\ back[c] = 0

TlsInv == TlsTypes /\ \A c \in Callers : Placed(c) /\ Finished(c)

\* What a step does to one caller's connection leaves the others' alone.
SameOf(d) ==
    /\ via'[d] = via[d] /\ origin'[d] = origin[d] /\ leg'[d] = leg[d] /\ agreed'[d] = agreed[d]
    /\ wire'[d] = wire[d] /\ hubEnd'[d] = hubEnd[d] /\ hubAddr'[d] = hubAddr[d]
    /\ hubVer'[d] = hubVer[d] /\ back'[d] = back[d] /\ left'[d] = left[d] /\ greets'[d] = greets[d]
    /\ early'[d] = early[d] /\ clash'[d] = clash[d] /\ onlyTls' = onlyTls

LEMMA SameKeeps ==
    ASSUME NEW d \in Callers, Placed(d), Finished(d), SameOf(d)
    PROVE  Placed(d)' /\ Finished(d)'
  BY DEF SameOf, Placed, Finished, Unheard, Announced, Introduced, Direct, MyIP

\* Setting a function at one caller.
LEMMA SetAt ==
    ASSUME NEW S, NEW f \in [Callers -> S], NEW c \in Callers, NEW x \in S
    PROVE  /\ Set(f, c, x) \in [Callers -> S] /\ Set(f, c, x)[c] = x
           /\ \A d \in Callers \ {c} : Set(f, c, x)[d] = f[d]
  BY DEF Set
LEMMA CountAt ==
    ASSUME TlsInv, NEW c \in Callers, NEW n \in Nat
    PROVE  /\ back \in [Callers -> Nat] /\ Set(back, c, n) \in [Callers -> Nat] /\ back[c] + 1 \in Nat
           /\ said \in [Callers -> Nat] /\ Set(said, c, n) \in [Callers -> Nat] /\ said[c] + 1 \in Nat
           /\ greets \in [Callers -> Nat] /\ Set(greets, c, n) \in [Callers -> Nat] /\ greets[c] + 1 \in Nat
  <1>1. back \in [Callers -> Nat] /\ said \in [Callers -> Nat] /\ greets \in [Callers -> Nat]
    BY DEF TlsInv, TlsTypes, HubEndStates
  <1>2. Set(back, c, n) \in [Callers -> Nat] /\ back[c] + 1 \in Nat
    BY <1>1 DEF Set
  <1>3. Set(said, c, n) \in [Callers -> Nat] /\ said[c] + 1 \in Nat
    BY <1>1 DEF Set
  <1>4. Set(greets, c, n) \in [Callers -> Nat] /\ greets[c] + 1 \in Nat
    BY <1>1 DEF Set
  <1> QED
    BY <1>1, <1>2, <1>3, <1>4

LEMMA HubEndAt ==
    ASSUME TlsInv, NEW c \in Callers
    PROVE  /\ hubEnd \in [Callers -> HubEndStates]
           /\ \A x \in HubEndStates : Set(hubEnd, c, x) \in [Callers -> HubEndStates]
           /\ {"waiting", "open", "closing", "closed"} \subseteq HubEndStates
  <1>1. {"waiting", "open", "closing", "closed"} \subseteq HubEndStates
    BY DEF HubEndStates
  <1> QED
    BY <1>1 DEF Set, TlsInv, TlsTypes, HubEndStates

\* A step of one caller: its own connection is as it should be afterwards.
LEMMA OneMoves ==
    ASSUME TlsInv, NEW c \in Callers, TlsTypes', Placed(c)', Finished(c)',
           \A d \in Callers \ {c} : SameOf(d)
    PROVE  TlsInv'
  BY SameKeeps DEF TlsInv

LEMMA CallKeeps ==
    ASSUME TlsInv, NEW c \in Callers, Call(c)
    PROVE  TlsInv'
  <1>1. PICK a \in Addresses, v \in Hellos :
            origin' = Set(origin, c, a) /\ opens' = Set(opens, c, v)
    BY DEF Call, Hellos
  <1>2. TlsTypes'
    BY <1>1 DEF Call, Set, TlsInv, TlsTypes, HubEndStates, lines, hubSide
  <1>3. Placed(c)' /\ Finished(c)'
    BY <1>1 DEF Call, Set, TlsInv, TlsTypes, HubEndStates, Placed, Finished, Unheard, lines, hubSide
  <1>4. \A d \in Callers \ {c} : SameOf(d)
    BY <1>1 DEF Call, Set, TlsInv, TlsTypes, HubEndStates, SameOf, lines, hubSide
  <1> QED
    BY <1>2, <1>3, <1>4, OneMoves

LEMMA CallerWritesKeeps ==
    ASSUME TlsInv, NEW c \in Callers, NEW l \in WireLines, CallerWrites(c, l)
    PROVE  TlsInv'
  <1>1. Append(outgoing[c], l) \in Seq(WireLines)
    BY DEF TlsInv, TlsTypes, HubEndStates
  <1>2. TlsTypes'
    BY <1>1 DEF CallerWrites, Set, TlsInv, TlsTypes, HubEndStates, sides, hubSide
  <1>3. \A d \in Callers : SameOf(d)
    BY DEF CallerWrites, SameOf, sides, hubSide
  <1> QED
    BY <1>2, <1>3, SameKeeps DEF TlsInv

LEMMA LeavesKeeps ==
    ASSUME TlsInv, NEW c \in Callers, Leaves(c)
    PROVE  TlsInv'
  <1>1. TlsTypes'
    BY DEF Leaves, Set, TlsInv, TlsTypes, HubEndStates, lines, hubSide
  <1>2. Placed(c)' /\ Finished(c)'
    BY DEF Leaves, Set, TlsInv, TlsTypes, HubEndStates, Placed, Finished, Unheard, Announced, Introduced, Direct, MyIP, lines, hubSide
  <1>3. \A d \in Callers \ {c} : SameOf(d)
    BY DEF Leaves, Set, TlsInv, TlsTypes, HubEndStates, SameOf, lines, hubSide
  <1> QED
    BY <1>1, <1>2, <1>3, OneMoves

\* The proxy gives up before it reached the hub, when the caller has left, or
\* when the hub has closed and all that it wrote is passed on.
LEMMA ServeFailsKeeps ==
    ASSUME TlsInv, NEW c \in Callers, ServeFails(c), leg[c] # "away",
           leg[c] \in {"reading", "shaking"} \/ left[c] \/ DownOver(c)
    PROVE  TlsInv'
  <1>1. TlsTypes'
    BY DEF ServeFails, Ends, Set, TlsInv, TlsTypes, HubEndStates, sides, lines, hubSide
  <1>2. Placed(c)' /\ Finished(c)'
    BY DEF ServeFails, Ends, Set, TlsInv, TlsTypes, HubEndStates, Placed, Finished, Unheard, Announced, Introduced, Direct,
           MyIP, DownOver, sides, lines, hubSide
  <1>3. \A d \in Callers \ {c} : SameOf(d)
    BY DEF ServeFails, Ends, Set, TlsInv, TlsTypes, HubEndStates, SameOf, sides, lines, hubSide
  <1> QED
    BY <1>1, <1>2, <1>3, OneMoves

LEMMA WriteKeeps ==
    ASSUME TlsInv, NEW c \in Callers, NEW v \in Hellos, NEW first \in {<<>>, outgoing[c]},
           leg[c] \in {"reading", "shaking"}, WriteAndStream(c, v, first)
    PROVE  TlsInv'
  <1>1. CASE ServeFails(c)
    BY <1>1, ServeFailsKeeps
  <1>2. CASE ~ServeFails(c)
    <2>a. outgoing[c] \in Seq(WireLines) /\ <<>> \in Seq(WireLines)
      BY DEF TlsInv, TlsTypes, HubEndStates
    <2>1. first \in Seq(WireLines) /\ outgoing[c] \in Seq(WireLines)
      BY <2>a
    <2>2. MyIP(origin[c], v) \in WireLines
      BY DEF TlsInv, TlsTypes, HubEndStates, MyIP, WireLines
    <2>3. /\ Header(c, v, first) \in Seq(WireLines) /\ Header(c, v, first) # <<>>
          /\ Head(Header(c, v, first)) = MyIP(origin[c], v)
      <3> DEFINE ip == MyIP(origin[c], v)
      <3>1. ip \in WireLines
        BY <2>2
      <3>2. Header(c, v, first) = <<ip>> \o first
        BY DEF Header
      <3> HIDE DEF ip
      <3>3. /\ <<ip>> \o first \in Seq(WireLines) /\ <<ip>> \o first # <<>>
            /\ Head(<<ip>> \o first) = ip
        BY <2>1, <3>1
      <3> QED
        BY <3>2, <3>3 DEF ip
    <2>4. SubSeq(outgoing[c], Len(first) + 1, Len(outgoing[c])) \in Seq(WireLines)
      BY <2>1
    <2>5. v # NoVersion /\ ProxyAddress \in Addresses
      BY TlsProxyAssumption DEF Hellos, NoVersion, PlainText
    <2>b. /\ wire' = [wire EXCEPT ![c] = Header(c, v, first)]
          /\ outgoing' = [outgoing EXCEPT ![c] = SubSeq(outgoing[c], Len(first) + 1, Len(outgoing[c]))]
      BY <1>2 DEF WriteAndStream, Set
    <2>c. wire' \in [Callers -> Seq(WireLines)] /\ outgoing' \in [Callers -> Seq(WireLines)]
      BY <2>b, <2>3, <2>4 DEF TlsInv, TlsTypes, HubEndStates
    <2>d. /\ leg' = [leg EXCEPT ![c] = "streaming"] /\ agreed' = [agreed EXCEPT ![c] = v]
          /\ hubEnd' = [hubEnd EXCEPT ![c] = "waiting"] /\ hubAddr' = [hubAddr EXCEPT ![c] = ProxyAddress]
      BY <1>2 DEF WriteAndStream, Set
    <2>e. agreed' \in [Callers -> {NoVersion} \cup Hellos] /\ hubAddr' \in [Callers -> Addresses]
      BY <2>d, <2>5 DEF TlsInv, TlsTypes, HubEndStates
    <2>6. TlsTypes'
      BY <1>2, <2>c, <2>d, <2>e DEF WriteAndStream, TlsInv, TlsTypes, HubEndStates
    <2>7. Placed(c)' /\ Finished(c)'
      BY <1>2, <2>3, <2>5 DEF WriteAndStream, Set, TlsInv, TlsTypes, HubEndStates, Placed, Finished, Unheard, Announced
    <2>8. \A d \in Callers \ {c} : SameOf(d)
      BY <1>2 DEF WriteAndStream, Set, TlsInv, TlsTypes, HubEndStates, SameOf
    <2> QED
      BY <2>6, <2>7, <2>8, OneMoves
  <1> QED
    BY <1>1, <1>2

LEMMA ShakesKeeps ==
    ASSUME TlsInv, NEW c \in Callers, leg[c] = "reading", leg' = Set(leg, c, "shaking"),
           UNCHANGED <<sides, lines, hubSide, clash>>
    PROVE  TlsInv'
  <1>1. TlsTypes'
    BY DEF Set, TlsInv, TlsTypes, HubEndStates, sides, lines, hubSide
  <1>2. Placed(c)' /\ Finished(c)'
    BY DEF Set, TlsInv, TlsTypes, HubEndStates, Placed, Finished, Unheard, Announced, Introduced, MyIP, sides, lines, hubSide
  <1>3. \A d \in Callers \ {c} : SameOf(d)
    BY DEF Set, TlsInv, TlsTypes, HubEndStates, SameOf, sides, lines, hubSide
  <1> QED
    BY <1>1, <1>2, <1>3, OneMoves

LEMMA ServeKeeps ==
    ASSUME TlsInv, NEW c \in Callers, Serve(c) \/ Handshake(c)
    PROVE  TlsInv'
  <1>1. PlainText \in Hellos /\ opens[c] \in Hellos
    BY DEF TlsInv, TlsTypes, HubEndStates, Hellos
  <1>2. CASE Serve(c)
    BY <1>1, <1>2, WriteKeeps, ShakesKeeps, ServeFailsKeeps DEF Serve
  <1>3. CASE Handshake(c)
    BY <1>1, <1>3, WriteKeeps, ServeFailsKeeps DEF Handshake
  <1> QED
    BY <1>2, <1>3

LEMMA CopyUpKeeps ==
    ASSUME TlsInv, NEW c \in Callers, CopyUp(c)
    PROVE  TlsInv'
  <1> DEFINE l == Head(outgoing[c])
  <1>1. outgoing[c] \in Seq(WireLines) /\ outgoing[c] # <<>> /\ wire[c] \in Seq(WireLines)
    BY DEF CopyUp, TlsInv, TlsTypes, HubEndStates
  <1>2. l \in WireLines /\ Tail(outgoing[c]) \in Seq(WireLines)
    BY <1>1
  <1> HIDE DEF l
  <1>a. Append(wire[c], l) \in Seq(WireLines) /\ Append(wire[c], l) # <<>>
    <2>1. Append(wire[c], l) \in Seq(WireLines) /\ Len(Append(wire[c], l)) = Len(wire[c]) + 1
      BY <1>1, <1>2
    <2>2. Len(wire[c]) \in Nat
      BY <1>1
    <2> QED
      BY <2>1, <2>2
  <1>b. ASSUME wire[c] # <<>> PROVE Head(Append(wire[c], l)) = Head(wire[c])
    BY <1>1, <1>2, <1>b
  <1>3. /\ Append(wire[c], l) \in Seq(WireLines) /\ Append(wire[c], l) # <<>>
        /\ wire[c] # <<>> => Head(Append(wire[c], l)) = Head(wire[c])
    BY <1>a, <1>b
  <1>4. CASE HubHas(c)
    <2>1. wire' = Set(wire, c, Append(wire[c], l)) /\ UNCHANGED <<leg, clash>>
      BY <1>4 DEF CopyUp, l
    <2>2. TlsTypes'
      BY <1>2, <1>3, <2>1 DEF CopyUp, Set, TlsInv, TlsTypes, HubEndStates, sides, hubSide
    <2>3. Placed(c)' /\ Finished(c)'
      BY <1>3, <1>4, <2>1 DEF CopyUp, HubHas, Set, TlsInv, TlsTypes, HubEndStates, Placed, Finished, Unheard, Announced,
           Introduced, Direct, MyIP, sides, hubSide
    <2>4. \A d \in Callers \ {c} : SameOf(d)
      BY <2>1 DEF CopyUp, Set, TlsInv, TlsTypes, HubEndStates, SameOf, sides, hubSide
    <2> QED
      BY <2>2, <2>3, <2>4, OneMoves
  <1>5. CASE ~HubHas(c)
    <2>1. TlsTypes'
      BY <1>2, <1>5 DEF CopyUp, Ends, Set, TlsInv, TlsTypes, HubEndStates, sides, hubSide
    <2>2. Placed(c)' /\ Finished(c)'
      BY <1>5 DEF CopyUp, Ends, Set, TlsInv, TlsTypes, HubEndStates, Placed, Finished, Unheard, Announced,
           Introduced, Direct, MyIP, sides, hubSide
    <2>3. \A d \in Callers \ {c} : SameOf(d)
      BY <1>5 DEF CopyUp, Ends, Set, TlsInv, TlsTypes, HubEndStates, SameOf, sides, hubSide
    <2> QED
      BY <2>1, <2>2, <2>3, OneMoves
  <1> QED
    BY <1>4, <1>5

LEMMA CopyDownKeeps ==
    ASSUME TlsInv, NEW c \in Callers, CopyDown(c)
    PROVE  TlsInv'
  <1>1. back[c] \in Nat /\ back[c] > 0
    BY DEF CopyDown, TlsInv, TlsTypes, HubEndStates
  <1>2. TlsTypes'
    BY <1>1 DEF CopyDown, Set, TlsInv, TlsTypes, HubEndStates, sides, hubSide
  <1>3. Placed(c)' /\ Finished(c)'
    BY <1>1 DEF CopyDown, Set, TlsInv, TlsTypes, HubEndStates, Placed, Finished, Unheard, Announced, Introduced, Direct, MyIP,
           sides, hubSide
  <1>4. \A d \in Callers \ {c} : SameOf(d)
    BY DEF CopyDown, Set, TlsInv, TlsTypes, HubEndStates, SameOf, sides, hubSide
  <1> QED
    BY <1>2, <1>3, <1>4, OneMoves

LEMMA StreamEndsKeeps ==
    ASSUME TlsInv, NEW c \in Callers, UpEnds(c) \/ DownEnds(c)
    PROVE  TlsInv'
  BY ServeFailsKeeps DEF UpEnds, DownEnds

LEMMA CallDirectlyKeeps ==
    ASSUME TlsInv, NEW c \in Callers, CallDirectly(c)
    PROVE  TlsInv'
  <1>1. PICK a \in Addresses :
        /\ origin' = Set(origin, c, a) /\ hubAddr' = Set(hubAddr, c, a)
        /\ IF a = ProxyAddress
           THEN hubEnd' = Set(hubEnd, c, "waiting") /\ UNCHANGED <<greets, back, said>>
           ELSE hubEnd' = Set(hubEnd, c, "open") /\ greets' = Set(greets, c, greets[c] + 1)
                  /\ back' = Set(back, c, 1) /\ said' = Set(said, c, 1)
    BY DEF CallDirectly
  <1>a. /\ greets' \in [Callers -> Nat] /\ back' \in [Callers -> Nat] /\ said' \in [Callers -> Nat]
        /\ hubEnd' \in [Callers -> HubEndStates]
    <2>1. CASE a = ProxyAddress
      BY <1>1, <2>1 DEF Set, TlsInv, TlsTypes, HubEndStates
    <2>2. CASE a # ProxyAddress
      <3>1. greets[c] + 1 \in Nat /\ 1 \in Nat
        BY DEF TlsInv, TlsTypes, HubEndStates
      <3>2. greets' \in [Callers -> Nat]
        BY <1>1, <2>2, <3>1, CountAt
      <3>3. back' \in [Callers -> Nat] /\ said' \in [Callers -> Nat]
        BY <1>1, <2>2, <3>1, CountAt
      <3> QED
        BY <1>1, <2>2, <3>2, <3>3 DEF Set, TlsInv, TlsTypes, HubEndStates
    <2> QED
      BY <2>1, <2>2
  <1>2. TlsTypes'
    BY <1>1, <1>a DEF CallDirectly, Set, TlsInv, TlsTypes, HubEndStates
  <1>3. Unheard(c)
    BY DEF CallDirectly, TlsInv, Placed
  <1>4. Placed(c)' /\ Finished(c)'
    BY <1>1, <1>3 DEF CallDirectly, Set, TlsInv, TlsTypes, HubEndStates, Placed, Finished, Unheard, Direct
  <1>5. \A d \in Callers \ {c} : SameOf(d)
    BY <1>1 DEF CallDirectly, Set, TlsInv, TlsTypes, HubEndStates, SameOf
  <1> QED
    BY <1>2, <1>4, <1>5, OneMoves

LEMMA HubEndClosesKeeps ==
    ASSUME TlsInv, NEW c \in Callers, HubEndCloses(c)
    PROVE  TlsInv'
  <1>1. TlsTypes'
    BY DEF HubEndCloses, Set, TlsInv, TlsTypes, HubEndStates, sides, lines
  <1>2. Placed(c)' /\ Finished(c)'
    BY DEF HubEndCloses, HubHas, Set, TlsInv, TlsTypes, HubEndStates, Placed, Finished, Unheard, Announced, Introduced, Direct,
           MyIP, sides, lines
  <1>3. \A d \in Callers \ {c} : SameOf(d)
    BY DEF HubEndCloses, Set, TlsInv, TlsTypes, HubEndStates, SameOf, sides, lines
  <1> QED
    BY <1>1, <1>2, <1>3, OneMoves

\* What the hub reads: the address that the proxy wrote, or a line that is of
\* no meaning to the address.
LEMMA HubReadsKeeps ==
    ASSUME TlsInv, NEW c \in Callers, HubReads(c)
    PROVE  TlsInv'
  <1> DEFINE l == Head(wire[c])
  <1>1. wire[c] \in Seq(WireLines) /\ wire[c] # <<>>
    BY DEF HubReads, TlsInv, TlsTypes, HubEndStates
  <1>2. l \in WireLines /\ Tail(wire[c]) \in Seq(WireLines)
    BY <1>1
  <1>3. UNCHANGED <<sides, leg, outgoing, spoken, clash>> /\ wire' = Set(wire, c, Tail(wire[c]))
    BY DEF HubReads
  <1>4. leg[c] \in {"streaming", "ended"}
    BY DEF HubReads, TlsInv, TlsTypes, HubEndStates, Placed, Unheard
  <1>5. l.addr \in Addresses /\ l.ver \in Hellos
    BY <1>2 DEF WireLines
  <1>6. Announced(c) => l.kind = "ip" /\ l.addr = origin[c] /\ l.ver = agreed[c]
    BY DEF Announced, MyIP
  <1>a. CASE l.kind # "ip"
    <2>1. /\ early' = Set(early, c, early[c] \/ greets[c] = 0)
          /\ \/ UNCHANGED <<hubEnd, back, said>>
             \/ /\ hubEnd' = Set(hubEnd, c, "closing") /\ said[c] < MaxLines
                /\ back' = Set(back, c, back[c] + 1) /\ said' = Set(said, c, said[c] + 1)
          /\ UNCHANGED <<hubAddr, hubVer, greets>>
      BY <1>a DEF HubReads
    <2> HIDE DEF l
    <2>a. early' \in [Callers -> BOOLEAN]
      <3>1. (early[c] \/ greets[c] = 0) \in BOOLEAN
        OBVIOUS
      <3> QED
        BY <2>1, <3>1, SetAt DEF TlsInv, TlsTypes, HubEndStates
    <2>b. wire' \in [Callers -> Seq(WireLines)]
      BY <1>2, <1>3, SetAt DEF TlsInv, TlsTypes, HubEndStates
    <2>t. /\ wire \in [Callers -> Seq(WireLines)] /\ hubEnd \in [Callers -> HubEndStates]
          /\ early \in [Callers -> BOOLEAN]
          /\ back \in [Callers -> Nat] /\ said \in [Callers -> Nat]
      BY DEF TlsInv, TlsTypes
    <2>c. /\ back' \in [Callers -> Nat] /\ said' \in [Callers -> Nat]
          /\ hubEnd' \in [Callers -> HubEndStates]
      <3>1. CASE UNCHANGED <<hubEnd, back, said>>
        BY <2>t, <3>1
      <3>2. CASE /\ hubEnd' = Set(hubEnd, c, "closing")
                 /\ back' = Set(back, c, back[c] + 1) /\ said' = Set(said, c, said[c] + 1)
        <4>1. back[c] + 1 \in Nat /\ said[c] + 1 \in Nat /\ "closing" \in HubEndStates
          BY <2>t DEF HubEndStates
        <4>2. back' \in [Callers -> Nat]
          BY <3>2, <4>1, CountAt
        <4>3. said' \in [Callers -> Nat]
          BY <3>2, <4>1, CountAt
        <4> QED
          BY <3>2, <4>1, <4>2, <4>3, HubEndAt
      <3> QED
        BY <2>1, <3>1, <3>2
    <2>2. TlsTypes'
      BY <1>3, <2>1, <2>a, <2>b, <2>c DEF TlsInv, TlsTypes, HubEndStates, sides
    <2>s. UNCHANGED <<onlyTls, via, origin, leg, agreed, hubAddr, hubVer, left, greets, clash>>
      BY <1>3, <2>1 DEF sides
    <2>n. /\ hubEnd[c] \in {"waiting", "open"} /\ hubEnd'[c] \in {hubEnd[c], "closing"}
          /\ early'[c] = (early[c] \/ greets[c] = 0)
      BY <2>1, <2>t DEF HubReads, Set
    <2>m. \A d \in Callers \ {c} : /\ wire'[d] = wire[d] /\ hubEnd'[d] = hubEnd[d]
                                  /\ early'[d] = early[d] /\ back'[d] = back[d]
      BY <1>3, <2>1, <2>t DEF Set
    <2>o. Placed(c) /\ Finished(c) /\ ~Announced(c) /\ ~Unheard(c)
      BY <1>6, <1>a, <2>n DEF TlsInv, Unheard
    <2>3. Placed(c)' /\ Finished(c)'
      <3>0. ASSUME ~early[c], greets[c] = 1 PROVE ~early'[c]
        <4>1. 1 # 0
          OBVIOUS
        <4> QED
          BY <2>n, <3>0, <4>1
      <3>1. ASSUME Introduced(c) PROVE Introduced(c)'
        <4>1. hubEnd[c] = "open" /\ greets[c] = 1 /\ ~early'[c]
          BY <2>n, <3>0, <3>1 DEF Introduced
        <4> QED
          BY <2>s, <2>n, <3>1, <4>1 DEF Introduced
      <3>2. ASSUME Direct(c) PROVE Direct(c)'
        <4>1. ~early'[c]
          BY <3>0, <3>2 DEF Direct
        <4> QED
          BY <2>s, <2>n, <3>2, <4>1 DEF Direct
      <3>3. Placed(c)'
        BY <1>4, <2>s, <2>n, <2>o, <3>1, <3>2 DEF Placed
      <3>4. Finished(c)'
        BY <2>s, <2>n, <2>o DEF Finished
      <3> QED
        BY <3>3, <3>4
    <2>4. \A d \in Callers \ {c} : SameOf(d)
      BY <2>s, <2>m DEF SameOf
    <2> QED
      BY <2>2, <2>3, <2>4, OneMoves
  <1>b. CASE l.kind = "ip"
    <2>1. TreatMyIP(c, l) /\ UNCHANGED early
      BY <1>b DEF HubReads
    <2> HIDE DEF l
    <2>2. CASE hubAddr[c] # ProxyAddress \/ hubVer[c] # NoVersion
      <3>1. /\ UNCHANGED hubEnd \/ hubEnd' = Set(hubEnd, c, "closed")
            /\ UNCHANGED <<hubAddr, hubVer, greets, back, said>>
        BY <2>1, <2>2 DEF TreatMyIP, SetSecConn
      <3>2. TlsTypes'
        BY <1>2, <1>3, <2>1, <3>1 DEF Set, TlsInv, TlsTypes, HubEndStates, sides
      <3>3. Placed(c)' /\ Finished(c)'
        BY <1>3, <1>4, <2>1, <2>2, <3>1 DEF HubReads, Set, TlsInv, TlsTypes, HubEndStates, Placed, Finished, Unheard,
             Announced, Introduced, Direct, sides
      <3>4. \A d \in Callers \ {c} : SameOf(d)
        BY <1>3, <2>1, <3>1 DEF Set, TlsInv, TlsTypes, HubEndStates, SameOf, sides
      <3> QED
        BY <3>2, <3>3, <3>4, OneMoves
    <2>3. CASE hubAddr[c] = ProxyAddress /\ hubVer[c] = NoVersion
      <3>1. /\ hubAddr' = Set(hubAddr, c, l.addr) /\ hubVer' = Set(hubVer, c, l.ver)
            /\ back' = Set(back, c, back[c] + 1) /\ said' = Set(said, c, said[c] + 1)
            /\ \/ onlyTls /\ l.ver = PlainText /\ hubEnd' = Set(hubEnd, c, "closing") /\ UNCHANGED greets
               \/ /\ ~(onlyTls /\ l.ver = PlainText) /\ greets' = Set(greets, c, greets[c] + 1)
                  /\ \E end \in {"open", "closed"} : hubEnd' = Set(hubEnd, c, end)
        BY <2>1, <2>3 DEF TreatMyIP, SetSecConn, Greets
      <3>a. wire' \in [Callers -> Seq(WireLines)]
        BY <1>2, <1>3, SetAt DEF TlsInv, TlsTypes, HubEndStates
      <3>b. hubAddr' \in [Callers -> Addresses] /\ hubVer' \in [Callers -> {NoVersion} \cup Hellos]
        BY <1>5, <3>1 DEF Set, TlsInv, TlsTypes, HubEndStates
      <3>c. /\ back' \in [Callers -> Nat] /\ said' \in [Callers -> Nat] /\ greets' \in [Callers -> Nat]
            /\ hubEnd' \in [Callers -> HubEndStates]
        <4>1. back[c] + 1 \in Nat /\ said[c] + 1 \in Nat /\ greets[c] + 1 \in Nat
          BY DEF TlsInv, TlsTypes, HubEndStates
        <4>2. back' \in [Callers -> Nat]
          BY <3>1, <4>1, CountAt
        <4>3. said' \in [Callers -> Nat]
          BY <3>1, <4>1, CountAt
        <4>4. greets' \in [Callers -> Nat]
          BY <3>1, <4>1, CountAt
        <4> QED
          BY <3>1, <4>2, <4>3, <4>4, HubEndAt
      <3>2. TlsTypes'
        BY <1>3, <2>1, <3>a, <3>b, <3>c DEF TlsInv, TlsTypes, HubEndStates, sides
      <3>3. Placed(c)' /\ Finished(c)'
        <4>1. via[c] = "proxy" => Announced(c)
          BY <2>3 DEF HubReads, TlsInv, Placed, Unheard, Introduced
        <4>2. via[c] = "direct" => origin[c] = ProxyAddress
          BY <1>4, <2>3 DEF TlsInv, TlsTypes, HubEndStates, Placed, Direct
        <4>3. via[c] = "proxy" => Introduced(c)'
          BY <1>3, <1>6, <2>1, <3>1, <4>1 DEF Set, TlsInv, TlsTypes, HubEndStates, Announced, Introduced, sides
        <4>4. via'[c] = via[c] /\ leg'[c] = leg[c] /\ origin'[c] = origin[c] /\ left'[c] = left[c] /\ clash'[c] = clash[c]
          BY <1>3 DEF sides
        <4>5. hubEnd'[c] \in {"open", "closing", "closed"}
          BY <3>1 DEF Set, TlsInv, TlsTypes, HubEndStates
        <4>6. Placed(c)'
          BY <1>4, <4>2, <4>3, <4>4, <4>5 DEF TlsInv, TlsTypes, HubEndStates, Placed
        <4>7. Finished(c)'
          BY <4>4 DEF HubReads, TlsInv, Finished
        <4> QED
          BY <4>6, <4>7
      <3>4. \A d \in Callers \ {c} : SameOf(d)
        BY <1>3, <2>1, <3>1 DEF Set, TlsInv, TlsTypes, HubEndStates, SameOf, sides
      <3> QED
        BY <3>2, <3>3, <3>4, OneMoves
    <2> QED
      BY <2>2, <2>3
  <1> QED
    BY <1>a, <1>b

LEMMA TlsInvInit == TlsProxyInit => TlsInv
  <1> SUFFICES ASSUME TlsProxyInit PROVE TlsInv
    OBVIOUS
  <1>1. TlsTypes
    BY TlsProxyAssumption DEF TlsProxyInit, TlsTypes, HubEndStates, Hellos
  <1>2. \A c \in Callers : Placed(c) /\ Finished(c)
    BY DEF TlsProxyInit, Placed, Finished, Unheard
  <1> QED
    BY <1>1, <1>2 DEF TlsInv

LEMMA TlsInvNext == TlsInv /\ [TlsProxyNext]_tlsProxyVars => TlsInv'
  <1> SUFFICES ASSUME TlsInv, [TlsProxyNext]_tlsProxyVars PROVE TlsInv'
    OBVIOUS
  <1>1. CASE UNCHANGED tlsProxyVars
    <2>1. \A d \in Callers : SameOf(d)
      BY <1>1 DEF tlsProxyVars, sides, lines, hubSide, SameOf
    <2>2. TlsTypes'
      BY <1>1 DEF tlsProxyVars, sides, lines, hubSide, TlsInv, TlsTypes, HubEndStates
    <2> QED
      BY <2>1, <2>2, SameKeeps DEF TlsInv
  <1>2. CASE TlsProxyNext
    <2>1. PICK c \in Callers :
            \/ Call(c) \/ CallDirectly(c) \/ Leaves(c)
            \/ \E a \in Addresses, v \in {PlainText} \cup Versions : CallerWrites(c, MyIP(a, v))
            \/ CallerWrites(c, Line)
            \/ Serve(c) \/ Handshake(c) \/ CopyUp(c) \/ CopyDown(c) \/ UpEnds(c) \/ DownEnds(c)
            \/ HubReads(c) \/ HubEndCloses(c)
      BY <1>2 DEF TlsProxyNext
    <2>2. Line \in WireLines /\ \A a \in Addresses, v \in Hellos : MyIP(a, v) \in WireLines
      BY TlsProxyAssumption DEF Line, MyIP, WireLines, Hellos
    <2> QED
      BY <2>1, <2>2, CallKeeps, CallDirectlyKeeps, LeavesKeeps, CallerWritesKeeps, ServeKeeps,
         CopyUpKeeps, CopyDownKeeps, StreamEndsKeeps, HubReadsKeeps, HubEndClosesKeeps DEF Hellos
  <1> QED
    BY <1>1, <1>2

\* The invariant says it for one caller.
LEMMA AddressFirstHolds == TlsInv => AddressFirst
  <1> SUFFICES ASSUME TlsInv, NEW c \in Callers, TalksThroughProxy(c)
               PROVE  /\ greets[c] <= 1 /\ ~early[c]
                      /\ greets[c] = 1 => hubAddr[c] = origin[c]
                      /\ via[c] = "proxy" /\ hubVer[c] # NoVersion => hubVer[c] = agreed[c]
                      /\ via[c] = "proxy" /\ agreed[c] = PlainText /\ onlyTls => greets[c] = 0
    BY DEF AddressFirst
  <1>1. CASE via[c] = "proxy"
    BY <1>1 DEF TlsInv, TlsTypes, HubEndStates, Placed, Unheard, Announced, Introduced
  <1>2. CASE via[c] # "proxy"
    BY <1>2 DEF TlsInv, TlsTypes, HubEndStates, TalksThroughProxy, Placed, Unheard, Direct
  <1> QED
    BY <1>1, <1>2

\* Who comes through the proxy is greeted at most once, under the address it
\* has and before any line of it is treated (DCC_MyIP, writeAndStream).
THEOREM AddressFirstAlways == TlsProxySpec => []AddressFirst
  <1> QED
    BY AddressFirstHolds, TlsInvInit, TlsInvNext, PTL DEF TlsProxySpec

\* The proxy ends a stream that nobody left with nothing of the hub's kept
\* back (proxy.go: stream, copyBuffer).
THEOREM LastWordsPassedAlways == TlsProxySpec => []LastWordsPassed
  <1>1. TlsInv => LastWordsPassed
    BY DEF TlsInv, Finished, LastWordsPassed
  <1> QED
    BY <1>1, TlsInvInit, TlsInvNext, PTL DEF TlsProxySpec

\* Whether two users may connect does not depend on who asks, though the
\* branches for the versions of the one who asks are written apart, and leave
\* pairs that they do not name to the flags (CheckCompatTLS).
THEOREM CompatSymmetricHolds == CompatSymmetric
  <1> SUFFICES ASSUME NEW one \in [ver : {NoVersion, PlainText, 10, 11, 12, 13}, flags : BOOLEAN],
                      NEW two \in [ver : {NoVersion, PlainText, 10, 11, 12, 13}, flags : BOOLEAN]
               PROVE  /\ CheckCompatTLS(one, two) = CheckCompatTLS(two, one)
                      /\ Known2(one.ver) /\ one.ver = two.ver => CheckCompatTLS(one, two)
    BY DEF CompatSymmetric
  <1> DEFINE v == one.ver
             w == two.ver
  <1>1. v \in {NoVersion, PlainText, 10, 11, 12, 13} /\ w \in {NoVersion, PlainText, 10, 11, 12, 13}
    OBVIOUS
  <1>2. NoVersion = -1 /\ PlainText = 0
    BY DEF NoVersion, PlainText
  <1> HIDE DEF v, w
  <1>3. ByVersions(v, w) = ByVersions(w, v)
    <2>1. CASE v = 13
      BY <1>1, <1>2, <2>1 DEF ByVersions
    <2>2. CASE v = 12
      BY <1>1, <1>2, <2>2 DEF ByVersions
    <2>3. CASE v = 10
      BY <1>1, <1>2, <2>3 DEF ByVersions
    <2>4. CASE v \notin {10, 12, 13}
      BY <1>1, <1>2, <2>4 DEF ByVersions
    <2> QED
      BY <2>1, <2>2, <2>3, <2>4
  <1>4. ByFlags(one, two) = ByFlags(two, one)
    <2>1. one.flags \in BOOLEAN /\ two.flags \in BOOLEAN
      OBVIOUS
    <2> QED
      BY <2>1 DEF ByFlags
  <1>5. CheckCompatTLS(one, two) = CheckCompatTLS(two, one)
    BY <1>3, <1>4 DEF CheckCompatTLS, v, w
  <1>6. ASSUME Known2(one.ver), one.ver = two.ver PROVE CheckCompatTLS(one, two)
    BY <1>6 DEF CheckCompatTLS, ByVersions
  <1> QED
    BY <1>5, <1>6
-----------------------------------------------------------------------------
(* ScriptApi: what an account says of its user *)

Cards == [class : Ranks \cup {0}, hide : BOOLEAN, keys : BOOLEAN]
Shown == {u \in present : ~hides[u]}

AccountTypes ==
    /\ present \subseteq Clients /\ invited \subseteq Clients /\ unsaved \subseteq Clients
    /\ room \subseteq Clients
    /\ rank \in [Clients -> Ranks \cup {0}] /\ hides \in [Clients -> BOOLEAN]
    /\ account \in [Clients -> Cards]

\* who has no account hides no keys and is a guest
GuestsPlain ==
    \A u \in Clients : account[u].class = 0 => ~account[u].keys /\ (u \in present => rank[u] = 0)

OpsRight  == ops = {u \in present : rank[u] >= OpRank /\ ~account[u].keys}
RoomRight == room \subseteq {u \in present : rank[u] >= RoomRank \/ u \in invited}
SumRight  == shareSum = SumOf(ShareOf, Shown)
RankRight == \A u \in present : rank[u] = account[u].class \/ u \in unsaved

AccountInv == AccountTypes /\ GuestsPlain /\ OpsRight /\ RoomRight /\ SumRight /\ RankRight

accountSide == <<present, rank, hides, account, ops, room, invited, unsaved, shareSum>>

LEMMA RanksAreNumbers ==
    /\ Ranks \cup {0} \subseteq Nat /\ OpRank \in Nat /\ RoomRank \in Nat
    /\ 0 \notin Ranks /\ 1 \in Ranks
  BY ScriptApiAssumption

LEMMA AccountQuiet ==
    ASSUME AccountInv, UNCHANGED accountSide
    PROVE  AccountInv'
  BY DEF AccountInv, AccountTypes, GuestsPlain, OpsRight, RoomRight, SumRight, RankRight, Shown,
         accountSide

\* Shares of a part of the users are numbers, and there are finitely many.
LEMMA SharesAdd ==
    ASSUME NEW S, S \subseteq Clients
    PROVE  IsFiniteSet(S) /\ \A u \in S : ShareOf[u] \in Int
  BY ScriptApiAssumption, FS_Subset

\* The sum after one user shows his share, or does no longer.
LEMMA SumJoins ==
    ASSUME NEW S, S \subseteq Clients, NEW u \in Clients \ S
    PROVE  SumOf(ShareOf, S \cup {u}) = SumOf(ShareOf, S) + ShareOf[u]
  <1>1. IsFiniteSet(S) /\ (\A w \in S \cup {u} : ShareOf[w] \in Int) /\ (\A w \in S : ShareOf[w] \in Int)
    BY ScriptApiAssumption, FS_Subset
  <1>2. SumOf(ShareOf, S) \in Int /\ ShareOf[u] \in Int
    BY <1>1, SumIs
  <1>3. SumOf(ShareOf, S \cup {u}) = ShareOf[u] + SumOf(ShareOf, S)
    BY <1>1, SumOfMore
  <1> QED
    BY <1>2, <1>3

LEMMA SumLeaves ==
    ASSUME NEW S, S \subseteq Clients, NEW u \in S
    PROVE  SumOf(ShareOf, S \ {u}) = SumOf(ShareOf, S) - ShareOf[u]
  <1>1. IsFiniteSet(S) /\ (\A w \in S : ShareOf[w] \in Int)
    BY ScriptApiAssumption, FS_Subset
  <1>2. IsFiniteSet(S \ {u}) /\ \A w \in S \ {u} : ShareOf[w] \in Int
    BY <1>1, FS_Subset
  <1>3. SumOf(ShareOf, S \ {u}) \in Int /\ ShareOf[u] \in Int
    BY <1>1, <1>2, SumIs
  <1>4. SumOf(ShareOf, S) = ShareOf[u] + SumOf(ShareOf, S \ {u})
    BY <1>1, SumWith
  <1> QED
    BY <1>3, <1>4

LEMMA JoinHubKeeps ==
    ASSUME AccountInv, NEW u \in Clients, NEW p, JoinHub(u, p)
    PROVE  AccountInv'
  <1> DEFINE a == account[u]
  <1>0. /\ u \notin present /\ a \in Cards /\ a.class \in Ranks \cup {0}
        /\ a.hide \in BOOLEAN /\ a.keys \in BOOLEAN
    BY DEF JoinHub, AccountInv, AccountTypes, Cards
  <1>1. /\ present' = present \cup {u} /\ UNCHANGED <<account, invited>>
        /\ rank' = [rank EXCEPT ![u] = a.class] /\ hides' = [hides EXCEPT ![u] = a.hide]
        /\ unsaved' = unsaved \ {u}
    BY DEF JoinHub
  <1>2. AccountTypes'
    <2>1. room' \subseteq Clients
      BY DEF JoinHub, AccountInv, AccountTypes
    <2> QED
      BY <1>0, <1>1, <2>1 DEF AccountInv, AccountTypes
  <1>3. /\ rank'[u] = a.class /\ hides'[u] = a.hide
        /\ \A w \in Clients \ {u} : rank'[w] = rank[w] /\ hides'[w] = hides[w]
    BY <1>1 DEF AccountInv, AccountTypes
  <1>4. GuestsPlain'
    BY <1>1, <1>3 DEF AccountInv, GuestsPlain
  <1>5. OpsRight'
    <2>1. ops' = IF a.class >= OpRank /\ ~a.keys THEN ops \cup {u} ELSE ops
      BY DEF JoinHub, JoinsOps
    <2> HIDE DEF a
    <2>2. present \subseteq Clients
      BY DEF AccountInv, AccountTypes
    <2>3. account[u].keys = a.keys
      BY DEF a
    <2> QED
      BY <1>0, <1>1, <1>3, <2>1, <2>2, <2>3 DEF AccountInv, OpsRight
  <1>6. RoomRight'
    <2>1. room' = IF a.class >= RoomRank THEN room \cup {u} ELSE room
      BY DEF JoinHub, JoinsRoom
    <2>2. present \subseteq Clients
      BY DEF AccountInv, AccountTypes
    <2> QED
      BY <1>0, <1>1, <1>3, <2>1, <2>2 DEF AccountInv, RoomRight
  <1>7. SumRight'
    <2>1. Shown \subseteq Clients /\ u \notin Shown
      BY <1>0 DEF Shown, AccountInv, AccountTypes
    <2>2. Shown' = IF a.hide THEN Shown ELSE Shown \cup {u}
      BY <1>0, <1>1, <1>3 DEF Shown, AccountInv, AccountTypes
    <2>3. shareSum' = IF a.hide THEN shareSum ELSE shareSum + ShareOf[u]
      BY DEF JoinHub
    <2> QED
      BY <2>1, <2>2, <2>3, SumJoins DEF AccountInv, SumRight
  <1>8. RankRight'
    BY <1>1, <1>3 DEF AccountInv, AccountTypes, RankRight
  <1> QED
    BY <1>2, <1>4, <1>5, <1>6, <1>7, <1>8 DEF AccountInv

LEMMA LeaveHubKeeps ==
    ASSUME AccountInv, NEW u \in Clients, LeaveHub(u)
    PROVE  AccountInv'
  <1>1. /\ present' = present \ {u} /\ UNCHANGED <<account, rank, hides, unsaved>> /\ u \in present
        /\ ops' = ops \ {u} /\ room' = room \ {u} /\ invited' = invited \ {u}
        /\ shareSum' = IF hides[u] THEN shareSum ELSE shareSum - ShareOf[u]
    BY DEF LeaveHub, Found
  <1>2. AccountTypes'
    BY <1>1 DEF AccountInv, AccountTypes
  <1>3. GuestsPlain' /\ OpsRight' /\ RoomRight' /\ RankRight'
    BY <1>1 DEF AccountInv, GuestsPlain, OpsRight, RoomRight, RankRight
  <1>4. SumRight'
    <2>1. Shown \subseteq Clients /\ Shown' = IF hides[u] THEN Shown ELSE Shown \ {u}
      BY <1>1 DEF Shown, AccountInv, AccountTypes
    <2>2. ~hides[u] => u \in Shown
      BY <1>1 DEF Shown
    <2> QED
      BY <1>1, <2>1, <2>2, SumLeaves DEF AccountInv, SumRight
  <1> QED
    BY <1>2, <1>3, <1>4 DEF AccountInv

\* In the room of the operators
LEMMA RoomKeeps ==
    ASSUME AccountInv, NEW u \in Clients, NEW w \in Clients,
           TalkInRoom(u) \/ LeaveRoom(u) \/ Invite(u, w) \/ PutOut(u, w)
    PROVE  AccountInv'
  <1>1. UNCHANGED <<present, rank, hides, account, ops, unsaved, shareSum>>
    BY DEF TalkInRoom, LeaveRoom, Invite, PutOut, OnlyLists, session
  <1>2. room' \subseteq Clients /\ invited' \subseteq Clients
    BY DEF TalkInRoom, LeaveRoom, Invite, PutOut, AccountInv, AccountTypes
  <1>3. RoomRight'
    <2>1. CASE TalkInRoom(u)
      <3>1. u \in present /\ (u \in room \/ rank[u] >= RoomRank)
            /\ room' = room \cup {u} /\ UNCHANGED invited
        BY <2>1 DEF TalkInRoom, Found
      <3> QED
        BY <1>1, <3>1 DEF AccountInv, RoomRight
    <2>2. CASE Invite(u, w)
      <3>1. w \in present /\ room' = room \cup {w} /\ invited' = invited \cup {w}
        BY <2>2 DEF Invite, Found
      <3> QED
        BY <1>1, <3>1 DEF AccountInv, RoomRight
    <2>3. CASE \E v \in Clients : PutOut(u, v)
      <3>1. PICK v \in Clients : room' = room \ {v} /\ invited' = invited \ {v}
        BY <2>3 DEF PutOut
      <3> QED
        BY <1>1, <3>1 DEF AccountInv, RoomRight
    <2> QED
      BY <2>1, <2>2, <2>3 DEF LeaveRoom
  <1> QED
    BY <1>1, <1>2, <1>3
    DEF AccountInv, AccountTypes, GuestsPlain, OpsRight, SumRight, RankRight, Shown
\* An account is stored, changed or deleted, and the user of it told.
LEMMA AddRegUserKeeps ==
    ASSUME AccountInv, NEW u \in Clients, NEW k \in Ranks \cup {0}, NEW saved \in BOOLEAN,
           AddRegUser(u, k, saved)
    PROVE  AccountInv'
  <1> DEFINE c == [NoReg EXCEPT !.class = StoredRank(k)]
  <1>0. account[u].class = 0 /\ account[u] \in Cards
    BY DEF AddRegUser, AccountInv, AccountTypes
  <1>1. UNCHANGED <<present, hides, shareSum, invited>>
    BY DEF AddRegUser
  <1>2. CASE ~saved
    BY <1>1, <1>2, AccountQuiet DEF AddRegUser, accountSide
  <1>3. CASE saved
    <2>1. StoredRank(k) \in Ranks /\ StoredRank(k) # 0
      <3>1. CASE k \in Ranks
        BY <3>1, RanksAreNumbers DEF StoredRank
      <3>2. CASE k \notin Ranks
        <4>1. StoredRank(k) = 1 /\ 1 # 0
          BY <3>2 DEF StoredRank
        <4> QED
          BY <4>1, RanksAreNumbers
      <3> QED
        BY <3>1, <3>2
    <2>2. NoReg \in Cards /\ NoReg.keys = FALSE
      BY DEF NoReg, Cards
    <2>3. c \in Cards /\ c.class = StoredRank(k) /\ c.keys = FALSE
      <3>1. StoredRank(k) \in Ranks \cup {0}
        BY <2>1
      <3> QED
        BY <2>2, <3>1 DEF Cards
    <2> HIDE DEF c
    <2>4. account' = [account EXCEPT ![u] = c]
      BY <1>3 DEF AddRegUser, c
    <2>5. /\ account' \in [Clients -> Cards] /\ account'[u] = c
          /\ \A w \in Clients \ {u} : account'[w] = account[w]
      BY <2>3, <2>4 DEF AccountInv, AccountTypes
    <2>6. CASE u \notin present
      <3>1. UNCHANGED <<room, ops, rank, unsaved>>
        BY <1>3, <2>6 DEF AddRegUser, Found
      <3>2. AccountTypes'
        BY <1>1, <2>5, <3>1 DEF AccountInv, AccountTypes
      <3>3. GuestsPlain'
        BY <1>1, <2>1, <2>3, <2>5, <3>1 DEF AccountInv, GuestsPlain
      <3>4. OpsRight' /\ RankRight'
        BY <1>1, <2>5, <2>6, <3>1 DEF AccountInv, AccountTypes, OpsRight, RankRight
      <3> QED
        BY <1>1, <3>1, <3>2, <3>3, <3>4 DEF AccountInv, RoomRight, SumRight, Shown
    <2>7. CASE u \in present
      <3>1. /\ room' = (IF k >= RoomRank THEN room \cup {u} ELSE room)
            /\ ops' = (IF k >= OpRank THEN ops \cup {u} ELSE ops)
            /\ rank' = [rank EXCEPT ![u] = k]
            /\ unsaved' = IF k = StoredRank(k) THEN unsaved \ {u} ELSE unsaved \cup {u}
        BY <1>3, <2>7 DEF AddRegUser, Found
      <3>2. rank'[u] = k /\ \A w \in Clients \ {u} : rank'[w] = rank[w]
        BY <3>1 DEF AccountInv, AccountTypes
      <3>3. AccountTypes'
        BY <1>1, <2>5, <3>1 DEF AccountInv, AccountTypes
      <3>4. GuestsPlain'
        BY <1>1, <2>1, <2>3, <2>5, <3>2 DEF AccountInv, GuestsPlain
      <3>5. rank[u] = 0 /\ ~account[u].keys
        BY <1>0, <2>7 DEF AccountInv, GuestsPlain
      <3>6. present \subseteq Clients
        BY DEF AccountInv, AccountTypes
      <3>7. OpsRight'
        <4>1. CASE k >= OpRank
          BY <1>1, <2>3, <2>5, <2>7, <3>1, <3>2, <3>6, <4>1 DEF AccountInv, OpsRight
        <4>2. CASE ~(k >= OpRank)
          <5>1. ~(rank[u] >= OpRank)
            BY <3>5, <4>2, RanksAreNumbers
          <5> QED
            BY <1>1, <2>3, <2>5, <2>7, <3>1, <3>2, <3>6, <4>2, <5>1 DEF AccountInv, OpsRight
        <4> QED
          BY <4>1, <4>2
      <3>8. RoomRight'
        <4>1. rank[u] >= RoomRank => k >= RoomRank
          BY <3>5, RanksAreNumbers
        <4> QED
          BY <1>1, <2>7, <3>1, <3>2, <3>6, <4>1 DEF AccountInv, RoomRight
      <3>9. RankRight'
        BY <1>1, <2>3, <2>5, <3>1, <3>2, <3>6 DEF AccountInv, RankRight
      <3> QED
        BY <1>1, <3>3, <3>4, <3>7, <3>8, <3>9 DEF AccountInv, SumRight, Shown
    <2> QED
      BY <2>6, <2>7
  <1> QED
    BY <1>2, <1>3

LEMMA DelRegUserKeeps ==
    ASSUME AccountInv, OpRank > 0, NEW u \in Clients, NEW saved \in BOOLEAN, DelRegUser(u, saved)
    PROVE  AccountInv'
  <1>1. CASE ~saved
    BY <1>1, AccountQuiet DEF DelRegUser, accountSide
  <1>2. CASE saved
    <2>0. NoReg \in Cards /\ NoReg.class = 0 /\ NoReg.keys = FALSE
      BY DEF NoReg, Cards
    <2>1. account' = [account EXCEPT ![u] = NoReg] /\ UNCHANGED present
      BY <1>2 DEF DelRegUser
    <2>2. /\ account' \in [Clients -> Cards] /\ account'[u] = NoReg
          /\ \A w \in Clients \ {u} : account'[w] = account[w]
      BY <2>0, <2>1 DEF AccountInv, AccountTypes
    <2>3. present \subseteq Clients
      BY DEF AccountInv, AccountTypes
    <2>4. CASE u \notin present
      <3>1. UNCHANGED <<room, ops, invited, rank, shareSum, hides, unsaved>>
        BY <1>2, <2>4 DEF DelRegUser, Found
      <3>2. AccountTypes'
        BY <2>1, <2>2, <3>1 DEF AccountInv, AccountTypes
      <3>3. GuestsPlain'
        BY <2>0, <2>1, <2>2, <2>4, <3>1 DEF AccountInv, GuestsPlain
      <3>4. OpsRight' /\ RankRight'
        BY <2>1, <2>2, <2>3, <2>4, <3>1 DEF AccountInv, OpsRight, RankRight
      <3> QED
        BY <2>1, <3>1, <3>2, <3>3, <3>4 DEF AccountInv, RoomRight, SumRight, Shown
    <2>5. CASE u \in present
      <3>1. /\ room' = room \ {u} /\ ops' = ops \ {u} /\ invited' = invited \ {u}
            /\ rank' = [rank EXCEPT ![u] = 0] /\ shareSum' = Shown2(u)
            /\ hides' = [hides EXCEPT ![u] = FALSE] /\ unsaved' = unsaved \ {u}
        BY <1>2, <2>5 DEF DelRegUser, Found
      <3>2. /\ rank'[u] = 0 /\ hides'[u] = FALSE
            /\ \A w \in Clients \ {u} : rank'[w] = rank[w] /\ hides'[w] = hides[w]
        BY <3>1 DEF AccountInv, AccountTypes
      <3>3. AccountTypes'
        BY <2>1, <2>2, <3>1 DEF AccountInv, AccountTypes
      <3>4. GuestsPlain'
        BY <2>0, <2>1, <2>2, <3>2 DEF AccountInv, GuestsPlain
      <3>5. ~(0 >= OpRank)
        BY RanksAreNumbers
      <3>6. OpsRight'
        BY <2>1, <2>2, <2>3, <3>1, <3>2, <3>5 DEF AccountInv, OpsRight
      <3>7. RoomRight'
        BY <2>1, <2>3, <3>1, <3>2 DEF AccountInv, RoomRight
      <3>8. RankRight'
        BY <2>0, <2>1, <2>2, <2>3, <3>1, <3>2 DEF AccountInv, RankRight
      <3>9. SumRight'
        <4>1. Shown \subseteq Clients /\ (u \in Shown <=> ~hides[u])
          BY <2>3, <2>5 DEF Shown
        <4>2. Shown' = Shown \cup {u}
          BY <2>1, <2>3, <2>5, <3>2 DEF Shown
        <4>3. CASE hides[u]
          <5>1. shareSum' = shareSum + ShareOf[u]
            BY <3>1, <4>3 DEF Shown2
          <5> QED
            BY <4>1, <4>2, <4>3, <5>1, SumJoins DEF AccountInv, SumRight
        <4>4. CASE ~hides[u]
          BY <3>1, <4>1, <4>2, <4>4 DEF AccountInv, SumRight, Shown2
        <4> QED
          BY <4>3, <4>4
      <3> QED
        BY <3>3, <3>4, <3>6, <3>7, <3>8, <3>9 DEF AccountInv
    <2> QED
      BY <2>4, <2>5
  <1> QED
    BY <1>1, <1>2

LEMMA SetRegClassKeeps ==
    ASSUME AccountInv, NEW u \in Clients, NEW k \in Ranks, NEW saved \in BOOLEAN,
           SetRegClass(u, k, saved)
    PROVE  AccountInv'
  <1> DEFINE c == [account[u] EXCEPT !.class = k]
  <1>0. /\ account[u] \in Cards /\ account[u].class # 0 /\ k # 0 /\ k \in Ranks \cup {0}
        /\ UNCHANGED <<present, hides, shareSum>> /\ present \subseteq Clients
    BY RanksAreNumbers DEF SetRegClass, AccountInv, AccountTypes
  <1>1. c \in Cards /\ c.class = k /\ c.keys = account[u].keys
    BY <1>0 DEF Cards
  <1> HIDE DEF c
  <1>2. account' = IF saved THEN [account EXCEPT ![u] = c] ELSE account
    BY DEF SetRegClass, c
  <1>3. /\ account' \in [Clients -> Cards] /\ account'[u] = (IF saved THEN c ELSE account[u])
        /\ \A w \in Clients \ {u} : account'[w] = account[w]
    BY <1>1, <1>2 DEF AccountInv, AccountTypes
  <1>4. account'[u].class # 0 /\ account'[u].keys = account[u].keys
        /\ (saved => account'[u].class = k)
    BY <1>0, <1>1, <1>3
  <1>5. CASE u \notin present
    <2>1. UNCHANGED <<room, ops, invited, rank, unsaved>>
      BY <1>5 DEF SetRegClass, Found
    <2>2. AccountTypes'
      BY <1>0, <1>3, <2>1 DEF AccountInv, AccountTypes
    <2>3. GuestsPlain'
      BY <1>0, <1>3, <1>4, <2>1 DEF AccountInv, GuestsPlain
    <2>4. OpsRight' /\ RankRight'
      BY <1>0, <1>3, <1>5, <2>1 DEF AccountInv, OpsRight, RankRight
    <2> QED
      BY <1>0, <2>1, <2>2, <2>3, <2>4 DEF AccountInv, RoomRight, SumRight, Shown
  <1>6. CASE u \in present
    <2>1. /\ room' = Regrouped(room, u, RoomRank, k)
          /\ ops' = (IF account[u].keys THEN ops ELSE Regrouped(ops, u, OpRank, k))
          /\ invited' = (IF u \in room' THEN invited ELSE invited \ {u})
          /\ rank' = [rank EXCEPT ![u] = k]
          /\ unsaved' = IF saved THEN unsaved \ {u} ELSE unsaved \cup {u}
      BY <1>6 DEF SetRegClass, Found
    <2>2. rank'[u] = k /\ \A w \in Clients \ {u} : rank'[w] = rank[w]
      BY <2>1 DEF AccountInv, AccountTypes
    <2>3. AccountTypes'
      BY <1>0, <1>3, <2>1 DEF AccountInv, AccountTypes, Regrouped
    <2>4. GuestsPlain'
      BY <1>0, <1>3, <1>4, <2>2 DEF AccountInv, GuestsPlain
    <2>5. /\ rank[u] \in Nat /\ k \in Nat /\ OpRank \in Nat /\ RoomRank \in Nat
      BY <1>0, RanksAreNumbers DEF AccountInv, AccountTypes
    <2>6. OpsRight'
      <3>1. CASE account[u].keys
        BY <1>0, <1>3, <1>4, <2>1, <2>2, <3>1 DEF AccountInv, OpsRight
      <3>2. CASE ~account[u].keys
        <4>1. u \in ops <=> rank[u] >= OpRank
          BY <1>6, <3>2 DEF AccountInv, OpsRight
        <4>2. (u \in ops' <=> k >= OpRank) /\ \A w : w # u => (w \in ops' <=> w \in ops)
          BY <2>1, <2>5, <3>2, <4>1 DEF Regrouped
        <4> QED
          BY <1>0, <1>3, <1>4, <1>6, <2>2, <3>2, <4>2 DEF AccountInv, OpsRight
      <3> QED
        BY <3>1, <3>2
    <2>7. RoomRight'
      <3>1. \A w : w # u => (w \in room' <=> w \in room) /\ (w \in invited' <=> w \in invited)
        BY <2>1 DEF Regrouped
      <3>2. u \in room' => k >= RoomRank \/ u \in invited'
        BY <2>1, <2>5 DEF Regrouped, AccountInv, RoomRight
      <3> QED
        BY <1>0, <1>6, <2>2, <3>1, <3>2 DEF AccountInv, RoomRight
    <2>8. RankRight'
      BY <1>0, <1>3, <1>4, <2>1, <2>2 DEF AccountInv, RankRight
    <2> QED
      BY <1>0, <2>3, <2>4, <2>6, <2>7, <2>8 DEF AccountInv, SumRight, Shown
  <1> QED
    BY <1>5, <1>6
-----------------------------------------------------------------------------
(* ScriptApi: where a user is *)

InZone(z) == {u \in present : zoned[u] = z}

PlaceTypes ==
    /\ present \subseteq Clients
    /\ place \in [Clients -> Places] /\ zoned \in [Clients -> Zones2 \cup {Unasked}]
    /\ country \in [Clients -> Zones2 \cup {Unasked}]
    /\ zoneUsers = [z \in Zones2 |-> zoneUsers[z]]

ZonesCounted == \A z \in Zones2 : zoneUsers[z] = Cardinality(InZone(z))
ZoneRight(u) == zoned[u] = ZoneAt[place[u]] /\ country[u] \in {Unasked, ZoneAt[place[u]]}

PlaceInv == PlaceTypes /\ ZonesCounted /\ \A u \in present : ZoneRight(u)

placeSide == <<present, place, zoned, country, zoneUsers>>

LEMMA PlaceQuiet ==
    ASSUME PlaceInv, UNCHANGED placeSide
    PROVE  PlaceInv'
  BY DEF PlaceInv, PlaceTypes, ZonesCounted, ZoneRight, InZone, placeSide

LEMMA ZoneCounts ==
    ASSUME PlaceTypes, NEW z
    PROVE  IsFiniteSet(InZone(z)) /\ Cardinality(InZone(z)) \in Nat
  <1>1. InZone(z) \subseteq Clients
    BY DEF InZone, PlaceTypes
  <1> QED
    BY <1>1, ScriptApiAssumption, FS_Subset, FS_CardinalityType

LEMMA ZoneOf ==
    ASSUME NEW p \in Places
    PROVE  ZoneAt[p] \in Zones2 /\ CountryWhenZoned(p) \in {Unasked, ZoneAt[p]}
  BY DEF Zones2, CountryWhenZoned

\* One more and one less in a finite set
LEMMA OneMore ==
    ASSUME NEW S, IsFiniteSet(S), NEW x, x \notin S
    PROVE  Cardinality(S \cup {x}) = Cardinality(S) + 1
  BY FS_AddElement

LEMMA OneLess ==
    ASSUME NEW S, IsFiniteSet(S), NEW x \in S
    PROVE  Cardinality(S \ {x}) = Cardinality(S) - 1
  BY FS_RemoveElement

LEMMA JoinHubPlaces ==
    ASSUME PlaceInv, NEW u \in Clients, NEW p \in Places, JoinHub(u, p)
    PROVE  PlaceInv'
  <1>0. ZoneAt[p] \in Zones2 /\ CountryWhenZoned(p) \in {Unasked, ZoneAt[p]}
    BY ZoneOf
  <1>1. /\ u \notin present /\ present' = present \cup {u}
        /\ place' = [place EXCEPT ![u] = p]
        /\ country' = [country EXCEPT ![u] = CountryWhenZoned(p)]
        /\ zoned' = [zoned EXCEPT ![u] = ZoneAt[p]]
        /\ zoneUsers' = [zoneUsers EXCEPT ![ZoneAt[p]] = @ + 1]
    BY DEF JoinHub
  <1>2. /\ place'[u] = p /\ country'[u] = CountryWhenZoned(p) /\ zoned'[u] = ZoneAt[p]
        /\ \A w \in Clients \ {u} : /\ place'[w] = place[w] /\ country'[w] = country[w]
                                    /\ zoned'[w] = zoned[w]
    BY <1>1 DEF PlaceInv, PlaceTypes
  <1>3. PlaceTypes'
    BY <1>0, <1>1 DEF PlaceInv, PlaceTypes
  <1>4. \A w \in present' : ZoneRight(w)'
    BY <1>0, <1>1, <1>2 DEF PlaceInv, PlaceTypes, ZoneRight
  <1>5. ASSUME NEW z \in Zones2 PROVE zoneUsers'[z] = Cardinality(InZone(z)')
    <2>1. CASE z = ZoneAt[p]
      <3>1. InZone(z)' = InZone(z) \cup {u} /\ u \notin InZone(z)
        BY <1>1, <1>2, <2>1 DEF InZone, PlaceInv, PlaceTypes
      <3>2. IsFiniteSet(InZone(z))
        BY ZoneCounts DEF PlaceInv
      <3>3. zoneUsers'[z] = zoneUsers[z] + 1
        BY <1>1, <2>1 DEF PlaceInv, PlaceTypes
      <3> QED
        BY <3>1, <3>2, <3>3, OneMore DEF PlaceInv, ZonesCounted
    <2>2. CASE z # ZoneAt[p]
      <3>1. InZone(z)' = InZone(z)
        BY <1>1, <1>2, <2>2 DEF InZone, PlaceInv, PlaceTypes
      <3>2. zoneUsers'[z] = zoneUsers[z]
        BY <1>1, <2>2 DEF PlaceInv, PlaceTypes
      <3> QED
        BY <3>1, <3>2 DEF PlaceInv, ZonesCounted
    <2> QED
      BY <2>1, <2>2
  <1> QED
    BY <1>3, <1>4, <1>5 DEF PlaceInv, ZonesCounted

LEMMA LeaveHubPlaces ==
    ASSUME PlaceInv, NEW u \in Clients, LeaveHub(u)
    PROVE  PlaceInv'
  <1>1. /\ u \in present /\ present' = present \ {u} /\ UNCHANGED <<place, country, zoned>>
        /\ zoneUsers' = [zoneUsers EXCEPT ![zoned[u]] = @ - 1]
    BY DEF LeaveHub, Found
  <1>2. PlaceTypes' /\ \A w \in present' : ZoneRight(w)'
    BY <1>1 DEF PlaceInv, PlaceTypes, ZoneRight
  <1>3. ASSUME NEW z \in Zones2 PROVE zoneUsers'[z] = Cardinality(InZone(z)')
    <2>1. CASE z = zoned[u]
      <3>1. InZone(z)' = InZone(z) \ {u} /\ u \in InZone(z)
        BY <1>1, <2>1 DEF InZone
      <3>2. IsFiniteSet(InZone(z))
        BY ZoneCounts DEF PlaceInv
      <3>3. zoneUsers'[z] = zoneUsers[z] - 1
        BY <1>1, <2>1 DEF PlaceInv, PlaceTypes
      <3> QED
        BY <3>1, <3>2, <3>3, OneLess DEF PlaceInv, ZonesCounted
    <2>2. CASE z # zoned[u]
      <3>1. InZone(z)' = InZone(z)
        BY <1>1, <2>2 DEF InZone
      <3>2. zoneUsers'[z] = zoneUsers[z]
        BY <1>1, <2>2 DEF PlaceInv, PlaceTypes
      <3> QED
        BY <3>1, <3>2 DEF PlaceInv, ZonesCounted
    <2> QED
      BY <2>1, <2>2
  <1> QED
    BY <1>2, <1>3 DEF PlaceInv, ZonesCounted

\* The user moves from the zone he was counted in to that of the new address.
LEMMA SetUserIPPlaces ==
    ASSUME PlaceInv, NEW u \in Clients, NEW p \in Places, SetUserIP(u, p)
    PROVE  PlaceInv'
  <1> DEFINE from == zoned[u]
             to == ZoneAt[p]
  <1>0. to \in Zones2 /\ CountryWhenZoned(p) \in {Unasked, to} /\ from = ZoneAt[place[u]]
        /\ from \in Zones2 /\ zoneUsers = [z \in Zones2 |-> zoneUsers[z]]
    <2>1. u \in present /\ ZoneRight(u) /\ place[u] \in Places
      BY DEF SetUserIP, Found, PlaceInv, PlaceTypes
    <2> QED
      BY <2>1, ZoneOf DEF ZoneRight, PlaceInv, PlaceTypes
  <1>1. /\ u \in present /\ UNCHANGED present
        /\ place' = [place EXCEPT ![u] = p]
        /\ country' = [country EXCEPT ![u] = CountryWhenZoned(p)]
        /\ zoned' = [zoned EXCEPT ![u] = to]
        /\ zoneUsers' = ZoneMoved(zoneUsers, from, to)
    BY DEF SetUserIP, Found, CountryAsked, session
  <1>2. /\ place'[u] = p /\ country'[u] = CountryWhenZoned(p) /\ zoned'[u] = to
        /\ \A w \in Clients \ {u} : /\ place'[w] = place[w] /\ country'[w] = country[w]
                                    /\ zoned'[w] = zoned[w]
    BY <1>1 DEF PlaceInv, PlaceTypes
  <1> HIDE DEF from
  <1>3. zoneUsers' = [z \in Zones2 |-> zoneUsers'[z]] /\
        \A z \in Zones2 : zoneUsers'[z] = IF from = to \/ z \notin {from, to} THEN zoneUsers[z]
                                         ELSE IF z = to THEN zoneUsers[z] + 1 ELSE zoneUsers[z] - 1
    <2>1. CASE from = to
      BY <1>0, <1>1, <2>1 DEF ZoneMoved
    <2>2. CASE from # to
      <3>1. zoneUsers' = [zoneUsers EXCEPT ![from] = @ - 1, ![to] = @ + 1]
        BY <1>1, <2>2 DEF ZoneMoved
      <3> QED
        BY <1>0, <2>2, <3>1
    <2> QED
      BY <2>1, <2>2
  <1>4. PlaceTypes'
    BY <1>0, <1>1, <1>3 DEF PlaceInv, PlaceTypes
  <1>5. \A w \in present' : ZoneRight(w)'
    BY <1>0, <1>1, <1>2 DEF PlaceInv, PlaceTypes, ZoneRight
  <1>6. ASSUME NEW z \in Zones2 PROVE zoneUsers'[z] = Cardinality(InZone(z)')
    <2>0. IsFiniteSet(InZone(z)) /\ zoneUsers[z] = Cardinality(InZone(z))
      BY ZoneCounts DEF PlaceInv, ZonesCounted
    <2>1. CASE from = to \/ z \notin {from, to}
      <3>1. InZone(z)' = InZone(z)
        BY <1>1, <1>2, <2>1 DEF InZone, from, PlaceInv, PlaceTypes
      <3> QED
        BY <1>3, <2>0, <2>1, <3>1
    <2>2. CASE from # to /\ z = to
      <3>1. InZone(z)' = InZone(z) \cup {u} /\ u \notin InZone(z)
        BY <1>1, <1>2, <2>2 DEF InZone, from, PlaceInv, PlaceTypes
      <3> QED
        BY <1>3, <2>0, <2>2, <3>1, OneMore
    <2>3. CASE from # to /\ z = from
      <3>1. InZone(z)' = InZone(z) \ {u} /\ u \in InZone(z)
        BY <1>1, <1>2, <2>3 DEF InZone, from, PlaceInv, PlaceTypes
      <3> QED
        BY <1>3, <2>0, <2>3, <3>1, OneLess
    <2> QED
      BY <2>1, <2>2, <2>3
  <1> QED
    BY <1>4, <1>5, <1>6 DEF PlaceInv, ZonesCounted

\* The country of users is asked for: what was not known is looked up.
LEMMA CountriesPlaces ==
    ASSUME PlaceInv, UNCHANGED <<present, place, zoned, zoneUsers>>,
           country' = [w \in Clients |-> country'[w]],
           \A w \in Clients : \/ country'[w] = country[w]
                              \/ country'[w] = ZoneAt[place[w]]
    PROVE  PlaceInv'
  <1>1. country' \in [Clients -> Zones2 \cup {Unasked}]
    <2>1. \A w \in Clients : ZoneAt[place[w]] \in Zones2
      BY ZoneOf DEF PlaceInv, PlaceTypes
    <2>2. \A w \in Clients : country'[w] \in Zones2 \cup {Unasked}
      BY <2>1 DEF PlaceInv, PlaceTypes
    <2> QED
      BY <2>2
  <1> QED
    BY <1>1 DEF PlaceInv, PlaceTypes, ZonesCounted, ZoneRight, InZone

LEMMA AskPlaces ==
    ASSUME PlaceInv, NEW u \in Clients,
           \/ AskCountry(u)
           \/ \E z \in Zones2 : BroadcastZone(u, z)
    PROVE  PlaceInv'
  <1>1. UNCHANGED <<present, place, zoned, zoneUsers>>
    BY DEF AskCountry, BroadcastZone, session
  <1>2. CASE AskCountry(u)
    <2>1. country' = [country EXCEPT ![u] = Looked(u)]
      BY <1>2 DEF AskCountry
    <2>2. Looked(u) \in {country[u], ZoneAt[place[u]]}
      BY DEF Looked
    <2>3. country' = [w \in Clients |-> country'[w]]
      BY <2>1 DEF PlaceInv, PlaceTypes
    <2>4. \A w \in Clients : country'[w] = country[w] \/ country'[w] = ZoneAt[place[w]]
      BY <2>1, <2>2 DEF PlaceInv, PlaceTypes
    <2> QED
      BY <1>1, <2>3, <2>4, CountriesPlaces
  <1>3. CASE \E z \in Zones2 : BroadcastZone(u, z)
    <2>1. country' = [w \in Clients |-> IF w \in Reached2(present, 0, Master) /\ country[w] = Unasked
                                        THEN ZoneAt[place[w]] ELSE country[w]]
      BY <1>3 DEF BroadcastZone
    <2>2. /\ country' = [w \in Clients |-> country'[w]]
          /\ \A w \in Clients : country'[w] = country[w] \/ country'[w] = ZoneAt[place[w]]
      BY <2>1
    <2> QED
      BY <1>1, <2>2, CountriesPlaces
  <1> QED
    BY <1>2, <1>3

-----------------------------------------------------------------------------
(* ScriptApi: all the calls *)

LEMMA ApiInit == ScriptApiInit => AccountInv /\ PlaceInv
  <1> SUFFICES ASSUME ScriptApiInit PROVE AccountInv /\ PlaceInv
    OBVIOUS
  <1>1. account \in [Clients -> Cards] /\ \A u \in Clients : account[u].class = 0 => ~account[u].keys
    <2> DEFINE Stored == [class : Ranks, hide : BOOLEAN, keys : BOOLEAN]
    <2>1. NoReg \in Cards /\ NoReg.class = 0 /\ NoReg.keys = FALSE
      BY DEF NoReg, Cards
    <2>2. ASSUME NEW a \in Stored PROVE a \in Cards
      BY DEF Cards
    <2>3. ASSUME NEW a \in Stored PROVE a.class # 0
      BY RanksAreNumbers
    <2>4. account \in [Clients -> {NoReg} \cup Stored]
      BY DEF ScriptApiInit
    <2> HIDE DEF Stored
    <2> QED
      BY <2>1, <2>2, <2>3, <2>4
  <1>2. AccountTypes
    BY <1>1 DEF ScriptApiInit, AccountTypes
  <1>3. GuestsPlain /\ OpsRight /\ RoomRight /\ RankRight
    BY <1>1 DEF ScriptApiInit, GuestsPlain, OpsRight, RoomRight, RankRight
  <1>4. SumRight
    <2>1. Shown = {} /\ shareSum = 0
      BY DEF ScriptApiInit, Shown
    <2> QED
      BY <2>1, SumOfNothing DEF SumRight
  <1>5. PlaceTypes
    <2>1. (CHOOSE p \in Places : TRUE) \in Places
      BY ScriptApiAssumption
    <2> QED
      BY <2>1 DEF ScriptApiInit, PlaceTypes
  <1>6. ZonesCounted
    <2>1. \A z \in Zones2 : InZone(z) = {} /\ zoneUsers[z] = 0
      BY DEF ScriptApiInit, InZone
    <2> QED
      BY <2>1, FS_EmptySet DEF ZonesCounted
  <1>7. \A u \in present : ZoneRight(u)
    BY DEF ScriptApiInit
  <1> QED
    BY <1>2, <1>3, <1>4, <1>5, <1>6, <1>7 DEF AccountInv, PlaceInv

LEMMA SpeaksKeep ==
    ASSUME AccountInv, PlaceInv, Speaks
    PROVE  AccountInv' /\ PlaceInv'
  <1>1. CASE \E to : Tell(to)
    <2>1. UNCHANGED accountSide /\ UNCHANGED placeSide
      BY <1>1 DEF Tell, accountSide, placeSide, session, location, lists
    <2> QED
      BY <2>1, AccountQuiet, PlaceQuiet
  <1>2. CASE \E u \in Clients, z \in Zones2 : BroadcastZone(u, z)
    <2>1. UNCHANGED accountSide
      BY <1>2 DEF BroadcastZone, accountSide, session, lists
    <2> QED
      BY <1>2, <2>1, AccountQuiet, AskPlaces
  <1> QED
    BY <1>1, <1>2 DEF Speaks, SendToClass, SendToActive, SendToPassive, SendToChat, SendToList,
       SendPMToAll, SendToOpChat, SendDataToUser, Broadcast

LEMMA ApiNext ==
    ASSUME OpRank > 0, AccountInv, PlaceInv, [ScriptApiNext]_scriptApiVars
    PROVE  AccountInv' /\ PlaceInv'
  <1>1. CASE UNCHANGED <<accountSide, placeSide>>
    BY <1>1, AccountQuiet, PlaceQuiet
  <1>2. CASE UNCHANGED scriptApiVars
    <2>1. UNCHANGED <<accountSide, placeSide>>
      BY <1>2 DEF scriptApiVars, accountSide, placeSide, session, location, lists, history
    <2> QED
      BY <1>1, <2>1
  <1>3. CASE Speaks
    BY <1>3, SpeaksKeep
  <1>4. CASE \E u \in Clients, p \in Places : JoinHub(u, p)
    BY <1>4, JoinHubKeeps, JoinHubPlaces
  <1>5. CASE \E u \in Clients : LeaveHub(u)
    BY <1>5, LeaveHubKeeps, LeaveHubPlaces
  <1>6. CASE \E u, w \in Clients : TalkInRoom(u) \/ LeaveRoom(u) \/ Invite(u, w) \/ PutOut(u, w)
    <2>1. UNCHANGED placeSide
      BY <1>6 DEF TalkInRoom, LeaveRoom, Invite, PutOut, OnlyLists, placeSide, session, location
    <2> QED
      BY <1>6, <2>1, RoomKeeps, PlaceQuiet
  <1>7. CASE \E u \in Clients, k \in Ranks \cup {0}, saved \in BOOLEAN :
                AddRegUser(u, k, saved) \/ SetRegClass(u, k, saved)
    <2>1. UNCHANGED placeSide
      BY <1>7 DEF AddRegUser, SetRegClass, placeSide, location
    <2>2. \A u \in Clients, k \in Ranks \cup {0}, saved \in BOOLEAN :
              SetRegClass(u, k, saved) => k \in Ranks
      BY DEF SetRegClass
    <2> QED
      BY <1>7, <2>1, <2>2, AddRegUserKeeps, SetRegClassKeeps, PlaceQuiet
  <1>8. CASE \E u \in Clients, saved \in BOOLEAN : DelRegUser(u, saved)
    <2>1. UNCHANGED placeSide
      BY <1>8 DEF DelRegUser, placeSide, location
    <2> QED
      BY <1>8, <2>1, DelRegUserKeeps, PlaceQuiet
  <1>9. CASE \E u \in Clients, p \in Places : SetUserIP(u, p)
    <2>1. UNCHANGED accountSide
      BY <1>9 DEF SetUserIP, accountSide, session, lists, history
    <2> QED
      BY <1>9, <2>1, AccountQuiet, SetUserIPPlaces
  <1>10. CASE \E u \in Clients : AskCountry(u) \/ AskAddress(u)
    <2>1. PICK u \in Clients : AskCountry(u)
      BY <1>10 DEF AskAddress
    <2>2. UNCHANGED accountSide
      BY <2>1 DEF AskCountry, accountSide, session, lists, history
    <2> QED
      BY <2>1, <2>2, AccountQuiet, AskPlaces
  <1>11. CASE \E u \in Clients : SwitchChat(u) \/ CloseConnection(u) \/ BanByScript(u) \/ BanEnds(u)
    <2>1. UNCHANGED <<accountSide, placeSide>>
      BY <1>11 DEF SwitchChat, CloseConnection, BanByScript, BanEnds, OnlyLists,
         accountSide, placeSide, session, location, lists, history
    <2> QED
      BY <1>1, <2>1
  <1>12. CASE \E u, w \in Clients : KickUser(u, w) \/ \E python \in BOOLEAN : KickRedirUser(u, w, python)
    <2>1. UNCHANGED <<accountSide, placeSide>>
      BY <1>12 DEF KickUser, KickRedirUser, accountSide, placeSide, session, location, lists, history
    <2> QED
      BY <1>1, <2>1
  <1> QED
    BY <1>2, <1>3, <1>4, <1>5, <1>6, <1>7, <1>8, <1>9, <1>10, <1>11, <1>12
    DEF ScriptApiNext, AccountSteps, OtherSteps

\* Whatever scripts and operators change of a user in the hub reaches the list
\* of operators, the operators' room, the total share, the zones and the copy of
\* the country, for any accounts, classes and addresses, as long as the least
\* class of the list of operators is above a guest's (script_api.cpp,
\* cDCConsole::cfRegUsr, cAsyncConn::SetUserIP).
THEOREM ChangesReachListsAlways ==
    ASSUME OpRank > 0
    PROVE  ScriptApiSpec => []ChangesReachLists
  <1>1. AccountInv /\ PlaceInv => ChangesReachLists
    <2> SUFFICES ASSUME AccountInv, PlaceInv PROVE ChangesReachLists
      OBVIOUS
    <2>1. SumOf(ShareOf, Shown) = MapThenSumSet(LAMBDA u : ShareOf[u], Shown)
      <3>1. Shown \subseteq Clients
        BY DEF Shown, AccountInv, AccountTypes
      <3>2. IsFiniteSet(Shown) /\ \A u \in Shown : ShareOf[u] \in Int
        BY <3>1, SharesAdd
      <3> HIDE DEF Shown
      <3> QED
        BY <3>2, SumFolds
    <2>2. shareSum = MapThenSumSet(LAMBDA u : ShareOf[u], {u \in present : ~hides[u]})
      BY <2>1 DEF AccountInv, SumRight, Shown
    <2>3. AccountReachesUser
      BY <2>2 DEF AccountReachesUser, AccountInv, OpsRight, RoomRight, RankRight
    <2>4. GeoFollowsAddress
      BY DEF GeoFollowsAddress, PlaceInv, ZonesCounted, ZoneRight, InZone
    <2> QED
      BY <2>3, <2>4 DEF ChangesReachLists
  <1>2. AccountInv /\ PlaceInv /\ [ScriptApiNext]_scriptApiVars => (AccountInv /\ PlaceInv)'
    BY ApiNext
  <1> QED
    BY <1>1, <1>2, ApiInit, PTL DEF ScriptApiSpec

-----------------------------------------------------------------------------
(* Relay: the types *)

RelayRest ==
    /\ sent \in Mixes /\ cut \subseteq Members
    /\ may \in [Members -> SUBSET Rights4]
    /\ revs \in [Members -> Windows]
    /\ "rctm" \in Types => \A u \in Members : LockedFull(revs[u], "rctm")
    /\ last \in [Members -> [Types -> Texts \cup {NoText}]]
    /\ same \in [Members -> [Types -> Nat]]
    /\ results \in [Members -> 0 .. MaxResults]
    /\ heard \in [Members -> [from : Members \cup {NoText}, passive : BOOLEAN]]

\* One text, or one number, of one member and type.
LEMMA OneCell ==
    ASSUME NEW S, NEW f \in [Members -> [Types -> S]], NEW u \in Members, NEW t \in Types, NEW x \in S
    PROVE  [f EXCEPT ![u][t] = x] \in [Members -> [Types -> S]]
  <1>1. [f[u] EXCEPT ![t] = x] \in [Types -> S]
    OBVIOUS
  <1> QED
    BY <1>1

LEMMA RelayRestInit == RelayInit => RelayRest
  <1> SUFFICES ASSUME RelayInit PROVE RelayRest
    OBVIOUS
  <1>1. NoWindow3 \in Windows /\ NoWindow3.lock = FALSE
    BY DEF NoWindow3, Windows
  <1>2. revs \in [Members -> Windows] /\ \A u \in Members : LockedFull(revs[u], "rctm")
    BY <1>1 DEF RelayInit, LockedFull
  <1>3. /\ last \in [Members -> [Types -> Texts \cup {NoText}]]
        /\ same \in [Members -> [Types -> Nat]]
    BY DEF RelayInit
  <1>4. results \in [Members -> 0 .. MaxResults]
    BY RelayAssumption DEF RelayInit
  <1>5. heard \in [Members -> [from : Members \cup {NoText}, passive : BOOLEAN]]
    BY DEF RelayInit, NoSearch
  <1> QED
    BY <1>2, <1>3, <1>4, <1>5 DEF RelayInit, RelayRest

\* A message that CheckProtoFlood stops: only the connection may go.
LEMMA RestStopped ==
    ASSUME RelayRest, NEW u \in Members, NEW t, Stopped(u, t)
    PROVE  RelayRest'
  BY DEF RelayRest, Stopped, LockedFull

LEMMA RestChat ==
    ASSUME RelayRest, "chat" \in Types, NEW u \in Members, NEW words \in Texts, NEW fine \in BOOLEAN,
           Chat(u, words, fine)
    PROVE  RelayRest'
  <1>1. CASE Stopped(u, "chat")
    BY <1>1, RestStopped
  <1>2. CASE ~Stopped(u, "chat")
    <2>1. /\ UNCHANGED <<sent, cut, may, revs, same, results, heard>>
          /\ last' = last \/ Says(u, "chat", words)
      BY <1>2 DEF Chat
    <2>2. last' \in [Members -> [Types -> Texts \cup {NoText}]]
      <3>1. words \in Texts \cup {NoText} /\ last \in [Members -> [Types -> Texts \cup {NoText}]]
        BY DEF RelayRest
      <3>2. [last EXCEPT ![u]["chat"] = words] \in [Members -> [Types -> Texts \cup {NoText}]]
        BY ONLY <3>1, u \in Members, "chat" \in Types, OneCell
      <3> QED
        BY <2>1, <3>1, <3>2 DEF Says
    <2> QED
      BY <2>1, <2>2 DEF RelayRest, LockedFull
  <1> QED
    BY <1>1, <1>2

LEMMA RestPrivate ==
    ASSUME RelayRest, NEW t \in Types, NEW u \in Members, NEW w \in Members, NEW words \in Texts,
           NEW fine \in BOOLEAN, PrivateMessage(u, w, t, words, fine)
    PROVE  RelayRest'
  <1>1. CASE Stopped(u, t)
    BY <1>1, RestStopped
  <1>2. CASE ~Stopped(u, t)
    <2>1. /\ UNCHANGED <<sent, may, revs, results, heard>>
          /\ cut' \subseteq cut \cup {u}
          /\ last' = last \/ Says(u, t, words)
          /\ \/ UNCHANGED same
             \/ same' = [same EXCEPT ![u][t] = @ + 1]
             \/ same' = [same EXCEPT ![u][t] = 0]
      BY <1>2 DEF PrivateMessage
    <2>2. last' \in [Members -> [Types -> Texts \cup {NoText}]]
      <3>1. words \in Texts \cup {NoText} /\ last \in [Members -> [Types -> Texts \cup {NoText}]]
        BY DEF RelayRest
      <3>2. [last EXCEPT ![u][t] = words] \in [Members -> [Types -> Texts \cup {NoText}]]
        BY ONLY <3>1, u \in Members, t \in Types, OneCell
      <3> QED
        BY <2>1, <3>1, <3>2 DEF Says
    <2>3. same[u][t] \in Nat /\ same[u][t] + 1 \in Nat /\ 0 \in Nat
      BY DEF RelayRest
    <2>4. same' \in [Members -> [Types -> Nat]]
      <3>1. same \in [Members -> [Types -> Nat]]
        BY DEF RelayRest
      <3>2. \A n \in Nat : [same EXCEPT ![u][t] = n] \in [Members -> [Types -> Nat]]
        BY ONLY <3>1, u \in Members, t \in Types, OneCell
      <3>3. /\ [same EXCEPT ![u][t] = same[u][t] + 1] \in [Members -> [Types -> Nat]]
            /\ [same EXCEPT ![u][t] = 0] \in [Members -> [Types -> Nat]]
        BY ONLY <2>3, <3>2
      <3> QED
        BY <2>1, <3>1, <3>3
    <2> QED
      BY <2>1, <2>2, <2>4 DEF RelayRest, LockedFull
  <1> QED
    BY <1>1, <1>2

LEMMA RestSearch ==
    ASSUME RelayRest, "search" \in Types, NEW u \in Members, NEW passive \in BOOLEAN,
           NEW words \in Texts, NEW fine \in BOOLEAN, Search(u, passive, words, fine)
    PROVE  RelayRest'
  <1>1. CASE Stopped(u, "search")
    BY <1>1, RestStopped
  <1>2. CASE ~Stopped(u, "search")
    <2>1. /\ UNCHANGED <<sent, cut, may, revs, same>>
          /\ last' = last \/ last' = [last EXCEPT ![u]["search"] = words]
          /\ UNCHANGED <<results, heard>> \/ SearchGoes(u, passive)
      BY <1>2 DEF Search
    <2>2. last' \in [Members -> [Types -> Texts \cup {NoText}]]
      <3>1. words \in Texts \cup {NoText} /\ last \in [Members -> [Types -> Texts \cup {NoText}]]
        BY DEF RelayRest
      <3>2. [last EXCEPT ![u]["search"] = words] \in [Members -> [Types -> Texts \cup {NoText}]]
        BY ONLY <3>1, u \in Members, "search" \in Types, OneCell
      <3> QED
        BY <2>1, <3>1, <3>2
    <2>3. /\ results' \in [Members -> 0 .. MaxResults]
          /\ heard' \in [Members -> [from : Members \cup {NoText}, passive : BOOLEAN]]
      <3>1. CASE UNCHANGED <<results, heard>>
        BY <3>1 DEF RelayRest
      <3>2. CASE SearchGoes(u, passive)
        <4>1. results' \in [Members -> 0 .. MaxResults]
          BY <3>2, RelayAssumption DEF SearchGoes, RelayRest
        <4>2. [from |-> u, passive |-> passive] \in [from : Members \cup {NoText}, passive : BOOLEAN]
          OBVIOUS
        <4>3. heard' \in [Members -> [from : Members \cup {NoText}, passive : BOOLEAN]]
          BY <3>2, <4>2 DEF SearchGoes, RelayRest
        <4> QED
          BY <4>1, <4>3
      <3> QED
        BY <2>1, <3>1, <3>2
    <2> QED
      BY <2>1, <2>2, <2>3 DEF RelayRest, LockedFull
  <1> QED
    BY <1>1, <1>2

LEMMA RestRequest ==
    ASSUME RelayRest, now \in Nat, sent \subseteq Types, NEW u \in Members, NEW w \in Members,
           NEW fine \in BOOLEAN,
           \/ "sr" \in sent /\ SearchResult(u, w)
           \/ "ctm" \in sent /\ ConnectToMe(u, w, fine)
           \/ "rctm" \in sent /\ RevConnectToMe(u, w, fine)
    PROVE  RelayRest'
  <1>1. CASE \E t \in {"sr", "ctm", "rctm"} : Stopped(u, t)
    BY <1>1, RestStopped
  <1>2. CASE SearchResult(u, w) /\ ~Stopped(u, "sr")
    <2>1. /\ UNCHANGED <<sent, cut, may, revs, last, same, heard>>
          /\ results' = results \/ results' = [results EXCEPT ![w] = Answered(@)]
      BY <1>2 DEF SearchResult
    <2>2. results[w] \in 0 .. MaxResults
      BY DEF RelayRest
    <2>3. Answered(results[w]) \in 0 .. MaxResults
      BY <2>2, RelayAssumption DEF Answered
    <2>4. results' \in [Members -> 0 .. MaxResults]
      BY <2>1, <2>3 DEF RelayRest
    <2> QED
      BY <2>1, <2>4 DEF RelayRest, LockedFull
  <1>3. CASE ConnectToMe(u, w, fine) /\ ~Stopped(u, "ctm")
    BY <1>3 DEF ConnectToMe, RelayRest, LockedFull
  <1>4. CASE "rctm" \in sent /\ RevConnectToMe(u, w, fine) /\ ~Stopped(u, "rctm")
    <2>1. UNCHANGED <<sent, cut, may, last, same, results, heard>>
      BY <1>4 DEF RevConnectToMe
    <2>2. UNCHANGED revs
          \/ (AllChecked(u, "rctm") /\ revs' = [revs EXCEPT ![w] = AllCounted(@, "rctm")])
      BY <1>4 DEF RevConnectToMe
    <2>3. CASE UNCHANGED revs
      BY <2>1, <2>3 DEF RelayRest, LockedFull
    <2>4. CASE AllChecked(u, "rctm") /\ revs' = [revs EXCEPT ![w] = AllCounted(@, "rctm")]
      <3>1. "rctm" \in LockTypes /\ "rctm" \in Types
        BY <1>4 DEF LockTypes, AllTypes
      <3>2. revs[w] \in Windows /\ LockedFull(revs[w], "rctm")
        BY <3>1 DEF RelayRest
      <3>3. AllLimit["rctm"] > 0 /\ AllPeriod["rctm"] > 0
        BY <2>4 DEF AllChecked
      <3> DEFINE c == AllCounted(revs[w], "rctm")
      <3>4. c \in Windows /\ LockedFull(c, "rctm")
        BY <3>1, <3>2, <3>3, AllCountedFull
      <3>5. revs' = [revs EXCEPT ![w] = c]
        BY <2>4
      <3> HIDE DEF c
      <3>6. revs' \in [Members -> Windows] /\ revs'[w] = c
            /\ \A x \in Members \ {w} : revs'[x] = revs[x]
        BY <3>4, <3>5 DEF RelayRest
      <3>7. \A x \in Members : LockedFull(revs'[x], "rctm")
        BY <3>1, <3>4, <3>6 DEF RelayRest
      <3>8. (\A x \in Members : LockedFull(revs[x], "rctm"))'
        BY <3>7 DEF LockedFull
      <3> QED
        BY <2>1, <3>6, <3>8 DEF RelayRest
    <2> QED
      BY <2>2, <2>3, <2>4
  <1> QED
    BY <1>1, <1>2, <1>3, <1>4

LEMMA RestComeBack ==
    ASSUME RelayRest, NEW u \in Members, ComeBack(u)
    PROVE  RelayRest'
  <1>1. NoWindow3 \in Windows /\ NoWindow3.lock = FALSE
    BY DEF NoWindow3, Windows
  <1>2. revs' \in [Members -> Windows] /\ revs'[u] = NoWindow3
        /\ \A w \in Members \ {u} : revs'[w] = revs[w]
    BY <1>1 DEF ComeBack, RelayRest
  <1>3. ("rctm" \in Types => \A w \in Members : LockedFull(revs[w], "rctm"))'
    BY <1>1, <1>2 DEF RelayRest, LockedFull
  <1>4. [t \in Types |-> NoText] \in [Types -> Texts \cup {NoText}]
    OBVIOUS
  <1>5. last' \in [Members -> [Types -> Texts \cup {NoText}]]
    BY <1>4 DEF ComeBack, RelayRest
  <1>6. [t \in Types |-> 0] \in [Types -> Nat]
    OBVIOUS
  <1>7. same' \in [Members -> [Types -> Nat]]
    BY <1>6 DEF ComeBack, RelayRest
  <1>8. results' \in [Members -> 0 .. MaxResults]
    BY RelayAssumption DEF ComeBack, RelayRest
  <1>9. NoSearch \in [from : Members \cup {NoText}, passive : BOOLEAN]
    BY DEF NoSearch
  <1>10. heard' \in [Members -> [from : Members \cup {NoText}, passive : BOOLEAN]]
    BY <1>9 DEF ComeBack, RelayRest
  <1>11. sent' \in Mixes /\ cut' \subseteq Members /\ may' \in [Members -> SUBSET Rights4]
    BY DEF ComeBack, RelayRest
  <1> QED
    BY <1>2, <1>3, <1>5, <1>7, <1>8, <1>10, <1>11 DEF RelayRest

LEMMA RestRight ==
    ASSUME RelayRest, sent \subseteq Types, NEW u \in Members, NEW t \in sent \ {"sr"},
           SetRight(u, RightOf[t])
    PROVE  RelayRest'
  <1>1. RightOf[t] \in Rights4
    BY DEF Rights4
  <1>2. may' \in [Members -> SUBSET Rights4]
    BY <1>1 DEF SetRight, RelayRest
  <1>3. UNCHANGED <<sent, cut, revs, last, same, results, heard>>
    BY DEF SetRight, counts
  <1> QED
    BY <1>2, <1>3 DEF RelayRest, LockedFull

LEMMA RelayRestNext ==
    LockInv /\ RelayRest /\ [RelayNext]_relayVars => RelayRest'
  <1> SUFFICES ASSUME LockInv, RelayRest, [RelayNext]_relayVars PROVE RelayRest'
    OBVIOUS
  <1>0. now \in Nat /\ sent \subseteq Types /\ Judged \subseteq Members
    BY RelayAssumption DEF LockInv
  <1>1. CASE UNCHANGED relayVars
    BY <1>1 DEF relayVars, RelayRest, LockedFull
  <1>2. CASE \E u \in Judged : \E t \in sent \ {"sr"} : SetRight(u, RightOf[t])
    BY <1>0, <1>2, RestRight
  <1>3. CASE SecondPasses
    BY <1>3 DEF SecondPasses, counts, RelayRest, LockedFull
  <1>4. CASE \E u \in Judged : ComeBack(u)
    BY <1>0, <1>4, RestComeBack
  <1> QED
    BY <1>0, <1>1, <1>2, <1>3, <1>4, RestChat, RestPrivate, RestSearch, RestRequest
    DEF RelayNext, DC_SA, DC_SP, DC_To, DC_MCTo

\* What the invariants know of the limits, the lock and the rest is the types.
LEMMA RelayTyped == LimitInv /\ LockInv /\ RelayRest => RelayTypeOK
  <1> SUFFICES ASSUME LimitInv, LockInv, RelayRest PROVE RelayTypeOK
    OBVIOUS
  <1>1. /\ own \in [Members -> [Types -> [count : Nat, at : Nat]]]
        /\ searched \in [Members -> [at : Int, number : Nat]]
    BY DEF LimitInv, LimitTypes, Boxes, Pauses
  <1>2. all \in [Types \cap AllTypes -> [count : Nat, at : Nat, lock : BOOLEAN]]
    BY DEF LockInv, LockTypes, Windows
  <1>3. went \in [Types -> [Members -> SUBSET [at : Nat, nr : Nat]]]
    <2>1. \A t \in Types, u \in Members : went[t][u] \in SUBSET [at : Nat, nr : Nat]
      BY DEF LimitInv, LimitTypes, Log, Messages
    <2>2. went = [t \in Types |-> [u \in Members |-> went[t][u]]]
      BY DEF LockInv, WentShape
    <2>3. \A t \in Types : [u \in Members |-> went[t][u]] \in [Members -> SUBSET [at : Nat, nr : Nat]]
      BY <2>1
    <2> QED
      BY <2>2, <2>3
  <1> QED
    BY <1>1, <1>2, <1>3 DEF RelayTypeOK, RelayRest, LockInv, Windows

-----------------------------------------------------------------------------
(* ScriptApi: the types *)

ApiRest ==
    /\ closing \subseteq Clients /\ chatters \subseteq Clients
    /\ banned \subseteq Clients /\ redirected \subseteq Clients /\ audience \subseteq Clients
    /\ copied \in [Clients -> Ranks \cup {0}]

apiRest == <<closing, chatters, banned, redirected, copied>>

LEMMA ApiRestInit == ScriptApiInit => ApiRest
  BY DEF ScriptApiInit, ApiRest

LEMMA RestQuiet ==
    ASSUME ApiRest, audience' \subseteq Clients,
           /\ closing' \subseteq Clients /\ chatters' \subseteq Clients
           /\ banned' \subseteq Clients /\ redirected' \subseteq Clients,
           \/ UNCHANGED copied
           \/ \E u \in Clients, k \in Ranks \cup {0} : copied' = [copied EXCEPT ![u] = k]
    PROVE  ApiRest'
  BY DEF ApiRest

LEMMA ApiRestNext ==
    ASSUME OpRank > 0, AccountInv, ApiRest, [ScriptApiNext]_scriptApiVars
    PROVE  ApiRest'
  <1> USE DEF Silent
  <1>0. /\ present \subseteq Clients /\ room \subseteq Clients
        /\ \A u \in Clients : account[u].class \in Ranks \cup {0}
        /\ account \in [Clients -> Cards]
        /\ closing \subseteq Clients /\ chatters \subseteq Clients
        /\ banned \subseteq Clients /\ redirected \subseteq Clients /\ audience \subseteq Clients
    BY DEF AccountInv, AccountTypes, Cards, ApiRest
  <1>1. CASE UNCHANGED scriptApiVars
    BY <1>1 DEF scriptApiVars, session, lists, marks, ApiRest
  <1>2. CASE \E to \in SUBSET Clients : Tell(to)
    BY <1>0, <1>2, RestQuiet DEF Tell, session, lists, marks
  <1>3. CASE \E u \in Clients, z \in Zones2 : BroadcastZone(u, z)
    <2>1. audience' \subseteq Clients
      BY <1>0, <1>3 DEF BroadcastZone, Reached2
    <2>2. UNCHANGED apiRest
      BY <1>3 DEF BroadcastZone, session, lists, marks, apiRest
    <2> QED
      BY <1>0, <2>1, <2>2, RestQuiet DEF apiRest
  <1>4. CASE Speaks
    <2>1. \A of \in SUBSET Clients : \A lo, hi : SendToList(of, lo, hi) => \E to \in SUBSET Clients : Tell(to)
      BY DEF SendToList, Reached2
    <2>2. \A lo, hi : Reached2(present, lo, hi) \subseteq Clients
      BY <1>0 DEF Reached2
    <2>3. (\E u \in Clients : SendDataToUser(u) \/ Broadcast(u)) \/ SendToOpChat
              => \E to \in SUBSET Clients : Tell(to)
      BY <1>0, <2>2 DEF SendDataToUser, Broadcast, SendToOpChat
    <2>4. /\ present \ PassiveOnes \in SUBSET Clients /\ present \cap PassiveOnes \in SUBSET Clients
          /\ {u \in present : u \notin closing} \in SUBSET Clients
          /\ chatters \in SUBSET Clients /\ present \in SUBSET Clients
      BY <1>0
    <2> QED
      BY <1>2, <1>3, <1>4, <2>1, <2>3, <2>4
      DEF Speaks, SendToClass, SendToActive, SendToPassive, SendToChat, SendPMToAll
  <1>5. CASE \E u \in Clients, p \in Places : JoinHub(u, p)
    BY <1>0, <1>5, RestQuiet DEF JoinHub, marks
  <1>6. CASE \E u \in Clients : LeaveHub(u)
    BY <1>0, <1>6, RestQuiet DEF LeaveHub
  <1>7. CASE \E u, w \in Clients : TalkInRoom(u) \/ LeaveRoom(u) \/ Invite(u, w) \/ PutOut(u, w)
    <2>1. UNCHANGED apiRest
      BY <1>7 DEF TalkInRoom, LeaveRoom, Invite, PutOut, OnlyLists, session, marks, apiRest
    <2>2. audience' \subseteq Clients
      BY <1>0, <1>7 DEF TalkInRoom, LeaveRoom, Invite, PutOut
    <2> QED
      BY <1>0, <2>1, <2>2, RestQuiet DEF apiRest
  <1>8. CASE \E u \in Clients, k \in Ranks \cup {0}, saved \in BOOLEAN : AddRegUser(u, k, saved)
    <2>1. PICK u \in Clients, k \in Ranks \cup {0}, saved \in BOOLEAN : AddRegUser(u, k, saved)
      BY <1>8
    <2>2. UNCHANGED <<closing, chatters, banned, redirected>> /\ audience' = {}
      BY <2>1 DEF AddRegUser, marks
    <2>3. account'[u].class \in Ranks \cup {0}
      <3>1. AccountInv'
        BY <2>1, AddRegUserKeeps
      <3> QED
        BY <3>1 DEF AccountInv, AccountTypes, Cards
    <2>4. UNCHANGED copied \/ copied' = [copied EXCEPT ![u] = account'[u].class]
      BY <2>1 DEF AddRegUser, Recopied
    <2> QED
      BY <1>0, <2>2, <2>3, <2>4, RestQuiet
  <1>9. CASE \E u \in Clients, saved \in BOOLEAN : DelRegUser(u, saved)
    <2>1. PICK u \in Clients, saved \in BOOLEAN : DelRegUser(u, saved)
      BY <1>9
    <2>2. UNCHANGED <<closing, chatters, banned, redirected>> /\ audience' = {}
      BY <2>1 DEF DelRegUser, marks
    <2>3. account'[u].class \in Ranks \cup {0}
      <3>1. AccountInv'
        BY <2>1, DelRegUserKeeps
      <3> QED
        BY <3>1 DEF AccountInv, AccountTypes, Cards
    <2>4. UNCHANGED copied \/ copied' = [copied EXCEPT ![u] = account'[u].class]
      BY <2>1 DEF DelRegUser, Recopied
    <2> QED
      BY <1>0, <2>2, <2>3, <2>4, RestQuiet
  <1>10. CASE \E u \in Clients, k \in Ranks \cup {0}, saved \in BOOLEAN : SetRegClass(u, k, saved)
    BY <1>0, <1>10, RestQuiet DEF SetRegClass, Recopied, marks
  <1>11. CASE \E u \in Clients, p \in Places : SetUserIP(u, p) \/ AskCountry(u) \/ AskAddress(u)
    BY <1>0, <1>11, RestQuiet DEF SetUserIP, AskCountry, AskAddress, session, lists, marks
  <1>12. CASE \E u \in Clients : SwitchChat(u) \/ CloseConnection(u) \/ BanByScript(u) \/ BanEnds(u)
    BY <1>0, <1>12, RestQuiet
    DEF SwitchChat, CloseConnection, BanByScript, BanEnds, OnlyLists, session, lists, marks
  <1>13. CASE \E u, w \in Clients : KickUser(u, w) \/ \E python \in BOOLEAN : KickRedirUser(u, w, python)
    BY <1>0, <1>13, RestQuiet DEF KickUser, KickRedirUser, DCKickNick, lists
  <1> QED
    BY <1>1, <1>4, <1>5, <1>6, <1>7, <1>8, <1>9, <1>10, <1>11, <1>12, <1>13, ScriptApiAssumption
    DEF ScriptApiNext, AccountSteps, OtherSteps

LEMMA ApiTyped == AccountInv /\ PlaceInv /\ ApiRest => ScriptApiTypeOK
  <1> SUFFICES ASSUME AccountInv, PlaceInv, ApiRest PROVE ScriptApiTypeOK
    OBVIOUS
  <1>1. ops \subseteq Clients
    BY DEF AccountInv, AccountTypes, OpsRight
  <1>2. {present, closing, ops, room, chatters, banned, redirected, audience, unsaved, invited}
            \subseteq SUBSET Clients
    BY <1>1 DEF AccountInv, AccountTypes, ApiRest
  <1>3. shareSum \in Nat
    <2>1. Shown \subseteq Clients
      BY DEF Shown, AccountInv, AccountTypes
    <2>2. IsFiniteSet(Shown) /\ \A u \in Shown : ShareOf[u] \in Nat
      BY <2>1, FS_Subset, ScriptApiAssumption
    <2> HIDE DEF Shown
    <2>3. SumOf(ShareOf, Shown) \in Nat
      BY <2>2, SumOfNat
    <2> QED
      BY <2>3 DEF AccountInv, SumRight
  <1>4. zoneUsers \in [Zones2 -> Nat]
    <2>1. \A z \in Zones2 : zoneUsers[z] \in Nat
      BY ZoneCounts DEF PlaceInv, ZonesCounted
    <2> QED
      BY <2>1 DEF PlaceInv, PlaceTypes
  <1> QED
    BY <1>2, <1>3, <1>4 DEF ScriptApiTypeOK, AccountInv, AccountTypes, Cards, PlaceInv, PlaceTypes, ApiRest

-----------------------------------------------------------------------------
(* Hooks: the types *)

Links == {"ok", "nice", "now"}
HooksRest ==
    /\ pluginOrder \in {<<"lua", "python">>, <<"python", "lua">>}
    /\ who \in {"gone", "new", "named", "listed", "left"} /\ link \in Links
    /\ mayEnter \in BOOLEAN /\ deleted \in BOOLEAN
    /\ at \in 0 .. Len(pluginOrder) /\ called \in Nat
    /\ called <= IF InPlugin THEN Len(ScriptsOf[Plugin]) ELSE 0
    /\ text \subseteq changes /\ given \subseteq changes

LEMMA HooksRestInit == HooksInit => HooksRest
  <1> SUFFICES ASSUME HooksInit PROVE HooksRest
    OBVIOUS
  <1>1. ~InPlugin /\ called = 0
    BY DEF HooksInit, InPlugin, Waits
  <1>2. at \in 0 .. Len(pluginOrder) /\ called \in Nat
    <2>1. Len(pluginOrder) \in Nat
      BY DEF HooksInit
    <2> QED
      BY <2>1 DEF HooksInit
  <1>3. called <= IF InPlugin THEN Len(ScriptsOf[Plugin]) ELSE 0
    BY <1>1
  <1> QED
    BY <1>2, <1>3 DEF HooksInit, HooksRest, Links

\* The hub goes on to a hook: nobody was asked yet.
LEMMA RestNextHook ==
    ASSUME HooksRest, NEW rest, NextHook(rest), UNCHANGED pluginOrder,
           who' \in {"gone", "new", "named", "listed", "left"}, link' \in Links,
           mayEnter' \in BOOLEAN, deleted' \in BOOLEAN
    PROVE  HooksRest'
  <1>1. at' = 0 /\ called' = 0 /\ given' = {} /\ text' \subseteq changes'
    BY DEF NextHook, HooksRest
  <1>2. Len(pluginOrder) \in Nat
    BY DEF HooksRest
  <1>3. ~InPlugin'
    BY <1>1 DEF InPlugin
  <1>4. at' \in 0 .. Len(pluginOrder') /\ called' \in Nat
    BY <1>1, <1>2
  <1>5. (called <= IF InPlugin THEN Len(ScriptsOf[Plugin]) ELSE 0)'
    BY <1>1, <1>3
  <1>6. pluginOrder' \in {<<"lua", "python">>, <<"python", "lua">>}
    BY DEF HooksRest
  <1> QED
    BY <1>1, <1>4, <1>5, <1>6 DEF HooksRest

LEMMA RestCallOne ==
    ASSUME HooksRest, CallOne
    PROVE  HooksRest'
  <1>1. at' \in 0 .. Len(pluginOrder) /\ called' = 0 /\ given' \subseteq changes'
    <2>1. Len(pluginOrder) \in Nat /\ at \in 0 .. Len(pluginOrder) /\ text \subseteq changes
      BY DEF HooksRest
    <2>2. at < Len(pluginOrder) /\ at' = at + 1 /\ called' = 0 /\ given' = text /\ UNCHANGED changes
      BY DEF CallOne
    <2> QED
      BY <2>1, <2>2
  <1>0. Len(pluginOrder) = 2
    BY DEF HooksRest
  <1>2. at' \in {1, 2} /\ UNCHANGED pluginOrder
    <2>1. at \in {0, 1}
      BY <1>0 DEF HooksRest, CallOne
    <2> QED
      BY <2>1 DEF CallOne
  <1>3. Plugin' \in {"lua", "python"}
    BY <1>1, <1>2 DEF Plugin, HooksRest
  <1>4. Len(ScriptsOf[Plugin']) \in Nat
    BY <1>3, HooksAssumption
  <1>5. (called <= IF InPlugin THEN Len(ScriptsOf[Plugin]) ELSE 0)'
    <2>1. CASE InPlugin'
      BY <1>1, <1>4, <2>1
    <2>2. CASE ~InPlugin'
      BY <1>1, <2>2
    <2> QED
      BY <2>1, <2>2
  <1> QED
    BY <1>1, <1>5 DEF CallOne, HooksRest

LEMMA RestAskScript ==
    ASSUME HooksRest, NEW ret, AskScript(ret)
    PROVE  HooksRest'
  <1>1. InPlugin /\ UNCHANGED <<hooks, at, pluginOrder>>
    BY DEF AskScript
  <1>2. at \in {1, 2} /\ Plugin \in {"lua", "python"}
    BY <1>1 DEF InPlugin, Plugin, HooksRest
  <1>3. called < Len(ScriptsOf[Plugin]) /\ called' = called + 1 /\ Len(ScriptsOf[Plugin]) \in Nat
    BY <1>2, HooksAssumption DEF AskScript
  <1>4. InPlugin' /\ Plugin' = Plugin
    BY <1>1 DEF InPlugin, Plugin, Waits
  <1>5. called' \in Nat /\ called' <= Len(ScriptsOf[Plugin])
    BY <1>3 DEF HooksRest
  <1>6. text' \subseteq changes' /\ given' \subseteq changes'
    BY DEF AskScript, HooksRest
  <1>7. link' \in Links /\ UNCHANGED <<who, mayEnter, deleted>>
    BY DEF AskScript, HooksRest, Links
  <1> QED
    BY <1>1, <1>4, <1>5, <1>6, <1>7 DEF HooksRest

LEMMA RestTreat ==
    ASSUME HooksRest, Treat
    PROVE  HooksRest'
  <1>1. who' \in {"gone", "new", "named", "listed", "left"}
    BY DEF Treat, AfterHook, HooksRest
  <1>2. link' \in Links
    BY DEF Treat, HooksRest, Links
  <1>3. mayEnter' \in BOOLEAN /\ deleted' \in BOOLEAN
    BY DEF Treat, AfterHook, HooksRest
  <1> QED
    BY <1>1, <1>2, <1>3, RestNextHook DEF Treat

LEMMA RestStops ==
    ASSUME HooksRest, Discard \/ \E how \in {"ok", "nice", "now"} : HubRefuses(how)
    PROVE  HooksRest'
  <1>1. CASE Discard
    <2>1. link' \in Links
      BY <1>1 DEF Discard, HooksRest, Links
    <2>2. mayEnter' \in BOOLEAN /\ deleted' \in BOOLEAN
      BY <1>1 DEF Discard, HooksRest
    <2> QED
      BY <1>1, <2>1, <2>2, RestNextHook DEF Discard, HooksRest
  <1>2. ASSUME NEW how \in {"ok", "nice", "now"}, HubRefuses(how) PROVE HooksRest'
    <2>1. link' \in Links
      BY <1>2 DEF HubRefuses, HooksRest, Links
    <2> QED
      BY <1>2, <2>1, RestNextHook DEF HubRefuses, HooksRest
  <1> QED
    BY <1>1, <1>2

\* A message, a login or a deletion: the handler has its list of hooks.
LEMMA RestHandles ==
    ASSUME HooksRest, NEW list, Handle(list),
           who' \in {"gone", "new", "named", "listed", "left"}, link' \in Links, deleted' \in BOOLEAN
    PROVE  HooksRest'
  BY RestNextHook DEF Handle, HooksRest

LEMMA RestReceives ==
    ASSUME HooksRest, NEW list, Receive(list)
    PROVE  HooksRest'
  BY RestHandles DEF Receive, HooksRest

LEMMA RestIncoming ==
    ASSUME HooksRest, Incoming
    PROVE  HooksRest'
  <1>1. CASE Connect
    BY <1>1, RestHandles DEF Connect, Links
  <1>2. CASE \E list : Receive(list)
    BY <1>2, RestReceives
  <1> QED
    BY <1>1, <1>2
    DEF Incoming, ReceiveKey, ReceiveSupports, ReceiveLock, ReceiveNick, ReceiveVersion, ReceivePass,
        ReceiveInfo, ReceiveUnknown, ReceiveChat, ReceiveRelayed, ReceiveCommand, CommandWithEffect

LEMMA HooksRestNext == HooksRest /\ [HooksNext]_hooksVars => HooksRest'
  <1> SUFFICES ASSUME HooksRest, [HooksNext]_hooksVars PROVE HooksRest'
    OBVIOUS
  <1>1. CASE UNCHANGED hooksVars
    BY <1>1 DEF hooksVars, eventVars, HooksRest, InPlugin, Plugin, Waits
  <1>2. CASE EnterList
    BY <1>2, RestHandles DEF EnterList, HooksRest
  <1>3. CASE \E how \in {"nice", "now"} : HubCloses(how)
    <2>1. /\ UNCHANGED <<pluginOrder, who, mayEnter, deleted, hooks, at, called, given, text, changes>>
          /\ link' \in Links
      BY <1>3 DEF HubCloses, eventVars, Links
    <2> QED
      BY <2>1 DEF HooksRest, InPlugin, Plugin, Waits
  <1>4. CASE TakenOver
    <2>1. link' \in Links
      BY <1>4 DEF TakenOver, HooksRest, Links
    <2> QED
      BY <1>4, <2>1, RestHandles DEF TakenOver, HooksRest
  <1>5. CASE Delete
    BY <1>5, RestNextHook DEF Delete, HooksRest
  <1> QED
    BY <1>1, <1>2, <1>3, <1>4, <1>5, RestIncoming, RestCallOne, RestAskScript, RestTreat, RestStops
    DEF HooksNext

LEMMA HooksTyped == ToldInv /\ VerdictInv /\ HooksRest => HooksTypeOK
  BY DEF ToldInv, VerdictInv, HooksRest, HooksTypeOK, Links

-----------------------------------------------------------------------------
(* The components together *)

\* What moves is one component, and the others are as they were.
LEMMA OneIsMoved ==
    ASSUME [TrafficNext]_trafficVars
    PROVE  /\ [RelayNext]_relayVars /\ [HooksNext]_hooksVars /\ [ScriptApiNext]_scriptApiVars
           /\ [ParserNext]_parserVars /\ [ProtocolNext]_protocolVars /\ [TlsProxyNext]_tlsProxyVars
  <1>1. CASE UNCHANGED trafficVars
    BY <1>1 DEF trafficVars, messageVars
  <1>2. CASE \/ MovesUsers("accounts") /\ AccountSteps /\ AtOnePlace
             \/ MovesUsers("calls") /\ (Coming \/ OtherSteps)
    <2>1. Coming => AccountSteps
      BY ScriptApiAssumption DEF Coming, AccountSteps
    <2> QED
      BY <1>2, <2>1 DEF MovesUsers, messageVars, ScriptApiNext
  <1> QED
    BY <1>1, <1>2 DEF TrafficNext, MovesRelay, MovesHooks, MovesOther, messageVars

TrafficInv ==
    /\ LimitInv /\ LockInv /\ RelayRest
    /\ ToldInv /\ VerdictInv /\ HooksRest
    /\ AccountInv /\ PlaceInv /\ ApiRest

\* Counters are numbers, windows have a start, answers are of those there are, a
\* script that is asked is one the plugin has, and every list is one of users,
\* in every state and for any members, texts, limits, scripts, accounts and
\* addresses, as long as the least class of the list of operators is above a
\* guest's (cdcproto.cpp, ccallbacklist.cpp, script_api.cpp).
THEOREM TrafficTypesAlways ==
    ASSUME OpRank > 0
    PROVE  TrafficSpec => []TrafficTypeOK
  <1>1. TrafficInit => TrafficInv
    BY LimitInvInit, LockInvInit, RelayRestInit, ToldInvInit, VerdictInvInit, HooksRestInit, ApiInit,
       ApiRestInit DEF TrafficInit, TrafficInv
  <1>2. TrafficInv /\ [TrafficNext]_trafficVars => TrafficInv'
    <2> SUFFICES ASSUME TrafficInv, [TrafficNext]_trafficVars PROVE TrafficInv'
      OBVIOUS
    <2>1. /\ [RelayNext]_relayVars /\ [HooksNext]_hooksVars /\ [ScriptApiNext]_scriptApiVars
      BY OneIsMoved
    <2>2. LimitInv' /\ LockInv' /\ RelayRest'
      BY <2>1, LimitInvNext, LockInvNext, RelayRestNext DEF TrafficInv
    <2>3. ToldInv' /\ VerdictInv' /\ HooksRest'
      BY <2>1, ToldInvNext, VerdictInvNext, HooksRestNext DEF TrafficInv
    <2>4. AccountInv' /\ PlaceInv' /\ ApiRest'
      BY <2>1, ApiNext, ApiRestNext DEF TrafficInv
    <2> QED
      BY <2>2, <2>3, <2>4 DEF TrafficInv
  <1>3. TrafficInv => TrafficTypeOK
    BY RelayTyped, HooksTyped, ApiTyped DEF TrafficInv, TrafficTypeOK
  <1> QED
    BY <1>1, <1>2, <1>3, PTL DEF TrafficSpec

\* A message is taken for the command with the longest keyword that it begins
\* with, and no handler sees a null character; an operator's message works for
\* operators alone; and through the proxy it comes from the address the hub was
\* told of before (cmessagedc.cpp, TreatMsg; cdcproto.cpp; proxy.go).
THEOREM MessagesTakenRightAlways ==
    TrafficSpec => [](LongestWins /\ ProtocolRight /\ TlsProxyRight)
  <1> DEFINE Inv == LongestWins /\ ProtocolInv /\ TlsInv
  <1>1. TrafficInit => Inv
    BY LongestWinsInit, ProtocolInvInit, TlsInvInit DEF TrafficInit
  <1>2. Inv /\ [TrafficNext]_trafficVars => Inv'
    BY OneIsMoved, LongestWinsNext, ProtocolInvNext, TlsInvNext
  <1>3. Inv => LongestWins /\ ProtocolRight /\ TlsProxyRight
    <2>1. TlsInv => LastWordsPassed
      BY DEF TlsInv, Finished, LastWordsPassed
    <2> QED
      BY <2>1, AddressFirstHolds, CompatSymmetricHolds DEF ProtocolInv, ProtocolRight, TlsProxyRight
  <1> QED
    BY <1>1, <1>2, <1>3, PTL DEF TrafficSpec

\* Every invariant of a message: it is taken for the command with the longest
\* keyword, its division loses and doubles no letter, and a plugin that
\* replaces one field leaves the rest (cmessagedc.cpp, TreatMsg; cprotocol.cpp,
\* SplitChunks, ApplyChunk); the handlers' and the proxy's come with it.  What
\* a plugin puts in holds no dollar, which would be a field more.
THEOREM MessagesRightAlways ==
    ASSUME \A w \in Replacements : "$" \notin Range(w)
    PROVE  TrafficSpec => []MessagesRight
  <1> DEFINE Inv == MessageInv /\ ProtocolInv /\ TlsInv
  <1>1. TrafficInit => Inv
    BY MessageInvInit, ProtocolInvInit, TlsInvInit DEF TrafficInit
  <1>2. Inv /\ [TrafficNext]_trafficVars => Inv'
    BY OneIsMoved, MessageInvNext, ProtocolInvNext, TlsInvNext
  <1>3. Inv => MessagesRight
    <2>1. TlsInv => LastWordsPassed
      BY DEF TlsInv, Finished, LastWordsPassed
    <2>2. ProtocolInv /\ TlsInv => ProtocolRight /\ TlsProxyRight
      BY <2>1, AddressFirstHolds, CompatSymmetricHolds DEF ProtocolInv, ProtocolRight, TlsProxyRight
    <2>3. MessageInv => LongestWins
      BY DEF MessageInv
    <2> QED
      BY <2>2, <2>3, InvGivesFields, InvGivesRewrite, MessageAssumption DEF MessagesRight, MessageRight
  <1> QED
    BY <1>1, <1>2, <1>3, PTL DEF TrafficSpec
=============================================================================
