# Verlihub: a verification project in TLA+

Verlihub is a hub for the NMDC chat and file sharing protocol: clients connect, log in under a
nick, and the hub relays their chat, searches and connection requests. This directory holds
TLA+ models of the hub, the TLC configurations that check them on small instances, and proofs
that TLAPS checks for every instance. All paths below are paths in the repository; the hub's C++
sources are in `src/src/`, its plugins in `src/plugins/`.

Contents: 1 the system, 2 the modules, 3 how a model corresponds to the code, 4 the runs,
5 bounds, 6 fairness, 7 proofs, 8 disagreements between code and documentation, 9 what is not
modelled, 10 the plan.

## 1. The system

The hub is one process with one main thread that runs the event loop
(`casyncsocketserver.cpp`, `TimeStep`). The loop asks the chooser which sockets are ready,
reads a message, calls its handler to the end, and deletes the connections that were closed.
Worker threads (hublist registration and update check) exist beside it. So two handlers never
run at the same time. What is hard is that one user's life takes many handlers, that a
handler of one connection changes another connection, that a closed connection goes on being a
user until its output is flushed and the loop deletes it, that plugins are called in the middle
of handlers and call back, and that the same facts are kept in many places: flags of a
connection, fields of a user, four lists, three counters, a copy of the account and the account
itself, rows of tables and their copies in memory.

| component | state | operations | interacts with | correct when |
|---|---|---|---|---|
| **login and life of a connection** (`cdcproto.cpp`, `cserverdc.cpp`, `cconndc.cpp`, `cuser.cpp`) | login flags, timeouts, zone, account copy, user | `DC_Key` ... `DC_MyINFO`, `OnTimer`, `CloseNice/Now`, `DeleteConn` | lists, counters, accounts, plugins, event loop | only who took every step is listed; a nick has one holder; every connection enters or leaves |
| **user lists and counters** (`cserverdc.cpp`) | `mUserList`, `mOpList`, `mActiveUsers`, `mPassiveUsers`, `mRobotList`, user counts, total share | `AddToList`, `RemoveNick`, `VerifyUniqueNick`, `ResetGeo` | everything that has a user | lists agree with each other and with the users; counters are exact |
| **accounts** (`creglist.cpp`, `cdcconsole.cpp`) | the reglist, its cache, copies in connections | `!reg` family, `!class`, `+passwd`, `$MyPass` | operator list, rights of online users | online users have the rights of their account |
| **robots** (`cserverdc.cpp`, `cvhplugin.cpp`) | users without a connection | `AddRobot`, `DelRobot` | user lists, plugins, configuration | stay listed until deleted, by whom they belong to |
| **asynchronous connection** (`casyncconn.cpp`) | flush buffer, send buffer, deadline | `Write`, `Flush`, `CloseNice`, `CloseNow`, `ReadAll` | chooser, server | nothing lost, input held back only while output is full |
| **event loop** (`casyncsocketserver.cpp`, `cconnchoose.cpp`) | connection list, interest, the connection treated | `TimeStep`, `addConnection`, `delConnection` | connections | no deleted connection is used, every closed one is deleted |
| **worker threads** (`cthread.cpp`, `cworkerthread.cpp`) | run and stop flags, one work item | `AddWork`, the thread's loop, destructors | the main thread, through shared memory | work is done once, the object outlives its thread |
| **user collections** (`thasharray.h`, `cusercollection.cpp`) | table, ready-made lists | add, remove, resize, send | clients | the lists are what remaking them would give, and clients know who is there |
| **bans** (`cbanlist.cpp`) | table, temporary bans | ban, unban, sweep, the two checks of a login | login, kicks, console | a ban in force refuses and stays, one that ran out does not |
| **rights for a time** (`cpenaltylist.cpp`, `tcache.h`) | rows, cached nicks, fields of users | `!gag` family, entry, sweep, cache reload | console, login | what is in force is what the user is held to |
| **relay and flood limits** (`cdcproto.cpp`, `cconndc.cpp`) | counters by connection, type and hub; searches | chat, private messages, searches, results, connection requests | user lists, rights | limits and locks hold; who hears can answer |
| **messages** (`cprotocol.cpp`, `cmessagedc.cpp`, `cdcproto.cpp`) | the text, its chunks, strings made of them | parse, split, replace, dispatch | plugins, handlers | a message is taken for what it is and divided as it was written |
| **tables in memory** (`tmysqlmemorylist.h`) | a vector and a table each | add, change, delete, reload, ask | triggers, redirects, clients, connection types, plugins | memory is what the table says |
| **configuration** (`cdcconf.cpp`, `cserverdc.cpp`) | variables, rows, two robots named after variables | `SetConfig`, start | plugins, user list | variable, row and robot agree |
| **operator console** (`cdcconsole.cpp`) | classes and protection of sessions and accounts, who is hidden | all commands that reach another user | everything above | nobody reaches above himself |
| **upkeep** (`cserverdc.cpp`, `OnTimer`) | timeouts, orders, errands of the thread | tick, `!quit`, signal, `!userlimit`, watch | worker, operators | what operators are told is true |
| **plugins and scripts** (`cpluginmanager.cpp`, Lua, Python, `script_api.cpp`) | plugins, scripts, queue of commands, robots | hooks, calls back, load, unload | every handler | an answer is heeded; users are told in and out |
| **bundled plugins** (isp, forbid, replacer, plugman, floodprot, chatroom, messenger) | their lists and what they know of users | hooks and commands | tables, callbacks | what they keep is true |
| **TLS proxy** (`tls-proxy`) | two goroutines for a caller | serve, copy both ways, close | `$MyIP` of the hub | the hub knows the address first; last words arrive |

PROJECT.json lists the components with what is left out of each, and under "hazards" what in this
code is hard to test, at its line, with the properties that would notice it.

## 2. The modules

| module | models |
|---|---|
| `HubLogin` | connections, users, lists, counters, accounts and robots: one action per handler and outcome |
| `HubDirectory` | abstract: who holds a nick, without protocol, modes, classes or sockets |
| `AsyncConn` | one connection and the poll entry of its socket: operators for writing, flushing and closing |
| `EventLoop` | the socket table under the event loop: poll, the iterator, treatment, deletion, timers, and what handlers do in between |
| `ConnLife` | abstract: the life of a connection, which goes one way |
| `WorkerThread` | hub thread and worker thread, one step for each read or write the other may see |
| `OneSlot` | abstract: a place for one piece of work |
| `Roster` | the hash table of users, the lists made of it, what each client has been told |
| `Rights` | rights and restrictions for a time: rows, cache, fields of users |
| `Bans` | permanent and temporary bans and the two checks of a login |
| `Relay` | messages between users with every limit, lock and filter |
| `Message` | recognition, division and replacement of parts of one message |
| `Protocol` | dispatch, and the messages of operators and pingers |
| `TlsProxy` | one caller through the proxy or directly, up to the greeting and the end |
| `Hooks` | the hooks one connection's messages go through, and what answers do |
| `Scripts` | plugins and scripts that load, call each other, and keep robots |
| `ScriptApi` | what scripts and operators change of users who are in the hub |
| `Settings` | the configuration, its rows, and the robots named after it |
| `Tables` | triggers, redirects, clients and connection types |
| `PluginLists` | the lists of isp, forbid, replacer and plugman |
| `PluginUsers` | what floodprot, chatroom and messenger know of users |
| `Console` | who may give which command to whom, and who sees what |
| `Upkeep` | the clock, orders to the hub, watch and errands |
| `MCHubLogin`, `MCModeration`, `MCTraffic`, `MCServices` with their `.cfg` | the instances TLC checks |
| `HubLogin_proofs`, `HubLists_proofs` | theorems about `HubLogin` |
| `EventLoop_proofs` | theorems about the event loop and lemmas about `AsyncConn` |
| `Sums_proofs` | lemmas on sums over finite sets, smallest numbers, recursion over an interval, sequences |
| `Services_proofs` | theorems about `WorkerThread`, `Upkeep`, `Scripts`, `PluginUsers`, `Roster`, and `MCServices` as a whole |
| `Message_proofs` | theorems about `Message`: what its recursion and searches compute, and its invariant |
| `Traffic_proofs` | theorems about `Hooks`, `Relay`, `Protocol`, `TlsProxy`, `ScriptApi`, and `MCTraffic` as a whole |
| `Moderation_proofs` | theorems about `Rights`, `Bans`, `Settings`, `Tables`, `Console`, `PluginLists`, and `MCModeration` as a whole |

`HubLogin` implements `HubDirectory` under the mapping `holder <- userList`, `stage <- Stage`:
a connection is *out* until it is counted, then *admitted*, *listed* when `mInList` is set, and
*retired* when it sent its `$MyINFO` and is not (or no longer) listed. `EventLoop` implements
`ConnLife` under `life <- Life` of every slot; `HubLogin`'s `sock` is the same life (free, open,
closing, dead) with the login attached. `WorkerThread` implements `OneSlot`.

`MCModeration`, `MCTraffic` and `MCServices` each put several modules side by side that share no
state: a behaviour picks one of them at the start, moves it, and leaves the others as they were.
They are one run each because they ask one kind of question, and so that the state space is the
sum of those of their parts and not the product.

## 3. How the models correspond to the code

PROJECT.json's `map` gives the lines of every definition. A handler runs to its end before the
next, so a handler is an action; where it has several outcomes it is several actions whose guards
part the cases. Only `WorkerThread`, `TlsProxy` and the errands of `Upkeep` cut finer, where threads really interleave,
`Hooks` and `Scripts`, where the hub calls plugins in the middle, and `EventLoop`, where handlers
run in the middle of the loop.

**HubLogin.** A connection object (`cConnDC`) is *free* (does not exist), *open* (`ok` and
`mWritable`), *closing* (`CloseNice` was called, output is pending) or *dead* (`CloseNow`, waits
for `delConnection`). `flags` is `mLogStatus`, `armed` the timeouts that are set, `reg` the copy
of the account in `mRegInfo` (class 0: no account), `user` the `mpUser` object. The lists are
functions from nicks to their holders, because `AddWithHash` never overwrites an entry and a
nick hash leads to one user. `regDB` is the reglist table.

| code | actions |
|---|---|
| `OnNewConn`, `DC_Key`, `DC_Supports`, `DC_Version` | the same names; refusals are `Reject` |
| `DC_ValidateNick` | `DC_ValidateNickRefused` (before counting: bad or banned nick, limits), `DC_ValidateNickCounted` (after counting: users per address), `DC_ValidateNickVetoed` (a plugin), `DC_ValidateNick` |
| `DC_MyPass`, `CmdRegMyPasswd` | `DC_MyPass`, `DC_MyPassSet`, `DC_MyPassNotSet`, `RegMyPasswd` |
| `DC_MyINFO` with `DoUserLogin`, `VerifyUniqueNick`, `BeginUserLogin`, `AddToList` | `DC_MyINFOShareRefused` (returns before the totals are renewed in full), `DC_MyINFORefused`, `DC_MyINFOVetoed`, `DC_MyINFOUpdate` (already listed), `DC_MyINFOIncomplete` (a login step is missing), `DC_MyINFONickTaken`, `DC_MyINFOEnter`, `DC_MyINFOEnterVetoed` |
| `OnTimer`, `CloseNow`, kicks and protocol errors | `OnTimer`, `CloseNow`, `Reject` |
| `cDCConnFactory::DeleteConn`, `RemoveNick` | `DeleteConn` |
| `AddRobot`, `DelRobot` | the same names |
| `eAC_NEW`, `eAC_DEL`, `eAC_CLASS`, `eAC_PASS`, `eAC_HIDESHARE`, `eAC_FAKEIP`, `CmdClass` | `RegNew`, `RegDel`, `RegClass`, `RegPass`/`RegPassReset`, `RegHideShare`, `RegFakeIP`, `CmdClass` |

Left free: bans, floods, clone detection and share limits may refuse at the places where the code
asks them; a plugin may veto each hook in `Vetoes`; the zone of a connection is any in `Zones`; the
password is right or wrong; "same user" in `VerifyUniqueNick` is true only when registered, or when
address and share permit it, the rest of the comparison being free.

Settings fixed: `send_pass_request` on, `always_ask_password` off, `max_class_self_repass` 0,
accounts enabled, keys shown, no TLS proxy. Nicks of the hub's own robots (`ReservedNicks`) are
never registered.

**EventLoop.** A slot of the socket table joins a connection (`cAsyncConn`), its place in the
chooser (`cConnChoose`) and its poll entry (`cConnPoll`), since all three go by the descriptor.
Bytes are counted: `flush` is `mBufFlush`, `send` is `mBufSend`; `owed` is a history variable, the
bytes accepted less the bytes the kernel took. `due` is `mCloseAfter`.

| code | actions |
|---|---|
| `run`, `Choose`, `TimeStep` | `Choose` (poll reports something), `Idle` (it reports nothing), `EndListen`, `Pass` |
| `addConnection`, `OnNewConn`, `AcceptSock` | `Accept`, `AcceptRefused`, `AcceptLost` (the peer was gone already) |
| `TimeStep`, `ReadAll`, `input` | `TreatNoInput`, `TreatClosing`, `TreatHangUp`, `TreatInput`, `EndInput` |
| `output`, `delConnection` at the end of a treatment | `EndTreat` |
| `OnTimerBase` of the server and of connections | `NoTimer`, `ServerTimer`, `ConnTimer`, `RunTimer`, `EndTimer` |
| `Send`, `CloseNice`, `CloseNow`, `delConnection` in handlers | `SendTo`, `CloseConnNice`, `CloseConnNow`, `DelTreated` |

The kernel is free: it takes any part of what it is offered, and may fail after it (`Kernel`,
`Before`), and poll
reports any of the events asked for, or errors not asked for. A closed descriptor whose entry is
left is reported as an error (POLLNVAL).

**WorkerThread.** `hub` and `thread` are the places the two threads are at; each step is one read
or write of `mWork`, `mRun`, `mStop` or the mutex, or the freeing of a work. `work` says what has
become of each object, `strayed` that freed memory was used or freed again, `early` that the
destructor ran while the thread was born and had not yet set `mRun`.

**Rights and Bans.** Times are seconds of a clock that stops at a bound. In `Rights` a row is a
function from fields to times, `cached` the nicks the cache knows, `gap` the rows it missed when
it was switched on, `shorter` what the latest order asked for where that was less than what is
stored, `missed` the users who were looked up through the gap. In `Bans` a key is a kind with what it is about; `late`
records which bans a login was past when they were given.

**Relay.** `went` is the history of what each member sent out by type, a set of messages with their
seconds; `own` and
`all` are the windows of `CheckProtoFlood` (`mProtoFloodCounts` of each connection) and of
`CheckProtoFloodAll`. `fine` is the outcome of all
that depends on words.

**Hooks and Scripts.** `Hooks` follows one connection through the list of hooks its handler still
has to ask (`hooks`). `Scripts` has a stack of passes (`stack`), because a script that gives a
command at once starts a pass inside the present one; `mData` is the depth whose arguments the
callback list points to. `crossed` and `dangling` are the robots a script took from another
plugin, and those left in a plugin's list.

**Settings, Tables, PluginLists, PluginUsers.** Each has memory and table as two variables, and a
database that may fail where the code does not look. `Tables` has one of the four lists in a
behaviour; its `doubt` is the keys whose last query failed unnoticed, and `unread` says that
the last reload failed.

**Console, Protocol, Message, TlsProxy, Upkeep, ScriptApi, Roster** name their actions after the
commands, messages and functions they model. In `Message` a text is a sequence of letters; a keyword, with
the blank that ends it, is one letter; positions count from zero. In `TlsProxy` a caller speaks in lines.

**Definitions named after a slip** (`CompleteWithoutKey`, `LimitPassed`, those ending in `Slip`)
take no part in the specification. Each stands before the definition it distorts; put in its place,
it makes the property that PROJECT.json pairs it with fail. They show that the properties notice
such slips.

## 4. The runs

| run | instance | checks |
|---|---|---|
| `login` | 2 connections, 2 nicks, guests only, any order of messages, a plugin that may veto `$ValidateNick`, `$MyINFO`, the entry and the login, BotINFO, passive limit 1 | `UserCountExact`, `ListedDone`: however a login ends, the count is given back once and the user list is right |
| `takeover` | 2 connections, 1 nick, 2 addresses, guests, registered users and operators, classes changed for good and for a time, entries vetoed | `ListsExact`, `ListingsPass`, `KeepsDirectory`: a nick passes only to its owner or from the same address, the loser is closed in the same step and never listed again, all lists agree, and the hub implements `HubDirectory` |
| `accounts` | 2 connections, 2 zones, one place in the hub and per zone and one more for registered users, while accounts are created, passwords reset and set, fake addresses given | `ZoneCountExact`, `AccountFollowed`, `UserLimitKept` |
| `robots` | robots on a reserved nick that guests try; accounts with hidden shares deleted and changed on another nick; passive limit 1; `$ValidateNick`, the entry and the login vetoed | `TypeOK`, `RobotsListed`, `TotalShareExact`: the total follows refusals, repeated `$MyINFO`, `hide_share`, a lost account and deletion |
| `live` | 2 connections, 1 nick, guests and a registered user, any order of messages, `$MyINFO` vetoed | `LoginsEnd`: under `Fairness` everybody enters or is closed, and in a hub in which something goes on (`HubIsBusy`) every closed connection is deleted |
| `loop` | 2 client sockets, buffers of 3, messages of 1, input held back from 3 and let in below 2 | `TypeOK`, `ClosedReported`, `NothingLost`, `KeepsLife`; under the fairness of section 6 `OutputEnds` |
| `moderation` | `Rights`, `Bans`, `Settings`, `Tables`, `PluginLists`, `Console`, one at a time | `PenaltyHolds`, `InForceKept`, `BannedStayOut`, `BansKept`, `SettingsRight`, `CopiesRight`, `ConsoleRight`, `ModerationTypeOK` |
| `traffic` | `TlsProxy`, `Message`, `Protocol`, `Hooks`, `Relay`, `ScriptApi`, one at a time | `RelayRight`, `LockHolds`, `ToldRight`, `VerdictStands`, `ChangesReachLists`, `MessagesRight`, `TrafficTypeOK` |
| `services` | `WorkerThread`, `Roster`, `Scripts`, `Upkeep`, `PluginUsers`, one at a time | `NoWildUse`, `IsOneSlot`, `CollectionsExact`, `RobotsHeld`, `UpkeepRight`, `GuestsServed`, `ServicesTypeOK`; under the fairness of section 6 `WorkEnds` |
| `deaf`, `garbled`, `permban` | the instances of `loop` with one socket, of `traffic` and of `moderation` | section 8 |

Many of these are conjunctions, each part a definition of its own that can be put in a `.cfg`
alone:

| property | parts |
|---|---|
| `ListsExact` | `ListsConsistent`, `ModePartition`, `OpListExact`, `NoGhost` |
| `ListingsPass` | `NoReturn`, `TakeOverRight` |
| `AccountFollowed` | `RightsOfAccount`, `OperatorsShown` |
| `LoginsEnd` | `EntersOrLeaves`, `ClosedLeaves` |
| `OutputEnds` | `ClosedDeleted`, `FlushedAtLast` |
| `SettingsRight` | `SettingsKept`, `RobotsOfHub` |
| `CopiesRight` | `TablesRight`, `ListsRight` (`IspRight`, `HalvingRight`, `WordsRight`, `PlugsRight`) |
| `ConsoleRight` | `RanksHold`, `ChatKeptHidden`, `BlocksRight` |
| `RelayRight` | `LimitsHold`, `HeardCanAnswer` |
| `ChangesReachLists` | `AccountReachesUser`, `GeoFollowsAddress` |
| `MessagesRight` | `MessageRight` (`LongestWins`, `FieldsRight`, `OneRewrite`), `ProtocolRight` (`AnswersEarned`, `TopicKnown`), `TlsProxyRight` (`AddressFirst`, `LastWordsPassed`, `CompatSymmetric`) |
| `CollectionsExact` | `TableExact`, `ViewExact` |
| `GuestsServed` | `PointsRight`, `BurstStopped`, `RoomsRight`, `MailKept`, `MailFound` |
| `WorkEnds` | `AcceptedIsDone`, `DrainEnds`, `AttackEnds`, `StopComes` |

Several properties hold under conditions that the runs make plain by what they leave out, and
that come from the code:

* `OpListExact` needs that the class of a user is not changed by a password: setting one gives
  the class of the account and only ever adds to `mOpList` (`src/src/cdcproto.cpp:811`), so a user
  made operator for the time being stays in the list after his password was reset and set.
* `RightsOfAccount` is about users whose class no operator changes while they are online, since
  `!class` exists to do just that.
* `UserLimitKept` counts a user by the account he came with, so it is checked without the deletion
  of accounts, which turns a registered user into a guest who is in already.
* `ListsConsistent` needs robots on nicks that registered users do not have: such a user pushes
  the robot out (`src/src/cserverdc.cpp:1181` logs it as critical and goes on).
* `TotalShareExact` needs that no plugin refuses the `$MyINFO` of an account with a hidden share:
  it was added while the user was a guest and is not taken back (`src/src/cuser.cpp:141`).

`CHECK_DEADLOCK` is off everywhere: a hub in which no client does anything is idle, an instance
whose connections are all in use and silent may stop, and so may one whose clock stands at its
bound.

## 5. Bounds

`HubLogin` and `EventLoop` have no counter to cap: connection objects are used again after
`DeleteConn`, so runs are over unbounded histories of a bounded population. Two connections
suffice for every pairwise interaction (take-over, refused nick, removal of another's entry), and
for a place that is full. One nick forces every conflict, two allow a user to come back under
another nick and robots to have their own. Two zones, two addresses and shares 0 and 1 tell all
cases of the code apart. Connections and addresses are interchangeable, and so are nicks where no
set of nicks is special: these are the symmetry sets, used in safety runs of `HubLogin` only.

`UsualOrder` is a constraint of `takeover`, `accounts` and `robots`: clients send `$Supports` and
`$Key` before `$ValidateNick`. It cuts interleavings that `login` and `live` explore in full; the
other runs ask questions that arise after `$ValidateNick`.

`loop` uses sizes that are as small as the code lets them be told apart: with room for three
bytes a connection can have nothing, a part and everything in the send buffer, below, between and
above the two thresholds; the kernel takes any part and then says EAGAIN or fails; a message of one byte may wait for a flush (half of the room) or not.
Two sockets let a handler of one close or write to the other, before and after the loop visits
it, and let a descriptor be used again. The listening socket has the lowest descriptor, so it is
treated first; time passes between rounds only, as `mTime` does.

The other modules have bounds in guards, named as CONSTANTS:

| module | bound | why it is enough |
|---|---|---|
| `Rights` | `LastTime` 4 | a right for 1 and one for 3 seconds: both run out, one within the other, with a sweep, a reload and a restart between |
| `Bans` | `MaxRows` 1, `MaxTemp` 1, `EndOfTime` 3 | a second ban replaces or joins the first; one runs out between the two checks of a login, one after the sweep; a user who shares nothing and one above `eUC_REGUSER` (`AboveReg`) are not asked for their share |
| `Settings` | variables move in four groups | variables that the code relates are in one group; `Width` 2 lets -1 wrap around |
| `Tables` | 2 keys and 2 values, `MaxDeleted` 2; a reason with and one without redirects, users who fit a row's terms and who do not, an old address and its new one | a row changed, deleted and put in again while a session points to the item; a row for the reason passed over for each of the causes the code has |
| `PluginLists` | `MaxIsps` 3, `MaxMade` 3, `MaxWords` 2, addresses of 2 bits | halving of a list of one, two and three; an item deleted and its memory still named |
| `Console` | ranks 1, 3, 4, 10, two persons, `Bits` 3 | below, equal and above; every width of an address mask |
| `Relay` | `LastSecond` 2 | a window, its edge and the next window; a search pause of two and its end |
| `Hooks` | two plugins of two scripts each | an earlier and a later answer in one plugin and between two |
| `Message` | bodies of at most a few letters, two replacements | shorter, as long and longer than what they replace |
| `TlsProxy` | `MaxLines` 2 | a last line behind another |
| `WorkerThread` | 3 works | one done, one waiting, one refused |
| `Roster` | capacity 3, two users and a robot, `MaxInfo` 2 | collisions, growth, a list appended to and remade |
| `Scripts` | `MaxDepth` 2, `MaxCalls` 1, `Limit` 2 | a script that calls another in the middle of a pass, a queue that is full |
| `Upkeep` | `MaxOrders` 2, `MaxTotal` 3, `MaxSessions` 2 | a second order while the first is being done; an asker who leaves, or comes back, while the thread holds a pointer to him |
| `PluginUsers` | `MaxClock` 3, `MaxMail` 3, two users at one address | a point forgotten between two attempts, mail to who is away |

## 6. Fairness

`Fairness` of `HubLogin` asks of every connection

* `WF(OnTimer(c, "LOGIN"))`: `cAsyncSocketServer::TimeStep` runs `OnTimerBase` of every
  connection each `timer_conn_period` (4 s), which calls `cConnDC::OnTimer`, which closes when a
  timeout is over; eTO_LOGIN is set from `OnNewConn` to the end of the login;
* `WF(CloseNow(c))` while it is closing: each flush (again every 4 s) either sends everything
  left, or fails and, since a deadline is set, closes;
* `HubIsBusy => WF(DeleteConn(c))`: the loop deletes what `eCC_CLOSE` reports, but only in a round
  in which poll reports some socket: when it reports nothing `TimeStep` returns at once
  (`casyncsocketserver.cpp:416`), and a closed connection, whose entry asks for no event, is seen by
  the iterator only. `HubIsBusy` says that messages of the login come from somebody again and
  again. In a hub where nothing happens a closed connection keeps its nick and its place, and the
  specification has such behaviours.

So `ClosedLeaves` says that a closed connection is deleted if the hub is busy, and `EntersOrLeaves`,
that whoever connected enters or is told to close, asks for nothing of the kind: timers run in an
idle hub, too. Nothing else is assumed of clients: no message of a given one need ever come.

`EventLoop` shows what the last two rest on. Its `FairSpec` asks that the loop goes on
(`WF(Advance)`: it waits for nothing but poll, which has a timeout) and that the timer of the
connections runs again and again (`SF(ConnTimer)`: the time comes every 4 s). `ClosedDeleted`
says that what was told to close is deleted, under the same condition: poll reports some socket
again and again.

`ServicesSpec` asks four things: the operating system lets the hub thread (`HubStep`) and the
worker thread (`ThreadStep`) go on when they can; a pass over plugins and scripts that has begun
goes on to its end (`PassStep`: it is a loop inside one call); and the run loop comes round, with
`OnTimer` and the check of mStop (`LoopStep`). Nothing is assumed of operators, of scripts, or of
what the network answers.

## 7. Proofs

TLAPS checks the theorems for every value of the constants that satisfies the assumptions of the
modules. The assumptions say what kind of thing a constant is (finite sets, natural numbers, marks
that differ from the values they stand beside) and what the code makes sure of (a plugin's robots
have plain nicks); TLC evaluates them in every run. A theorem that needs more has it
as a hypothesis of its own, listed below; the run that checks the property satisfies it.

**HubLogin_proofs: types, order, counters.**

* `TypeCorrect`: `TypeOK` is not inductive: the registration commands update
  `user[Target(n)].class` for the connection the user list leads to, which is typed only if that
  connection has a user. `Holders` adds this. `IInv == TypeOK /\ Holders` is inductive.
* `LoginOrderKept`: `InOrder(c)` says that a free connection has no flag, that an open one is
  counted only after `$ValidateNick`, that the `$Key` timeout is over once the key came, and that
  who is listed has every flag of `LoginDone` and no login timeout left. `ListedUsersAreDone`
  follows.
* `UserCountIsExact`, `ZoneCountsAreExact`: a connection is counted when and only when it gets
  `eLS_ALLOWED`, never twice (`LoginOrder`), and `DeleteConn` of a counted one takes one away from
  the zone it is in by then; `OneMore`, `OneLess` and `SameCount` carry it over to cardinalities.
* `UserLimitIsKept` (hypothesis `AccountsLast`: no account is deleted, see section 4): a guest is
  let in only if the counts, which are exact, are below the limit, and a count of guests grows
  in no other way.
* `TotalShareIsExact` (hypothesis: `$MyINFO` is not vetoed, or no account hides its share, see
  section 4). The invariant says of every connection whether its share is in the total: it is
  when `mShare` was set while it was shown. The sum is a fold over the set of users. The
  library's induction theorems take an operator, which the provers cannot instantiate; the lemmas
  on sums (one term more, one less, one changed) are proved by taking a smallest set against
  them, with sets as the only parameters (`Sums_proofs`).

**HubLists_proofs: the lists.**

* `ListsInvariant`, and from it `ListsAgree`, `RobotsStayListed`, `ListingsPassRight` (action
  properties) and `DirectoryKept` (refinement). Hypothesis `RobotNicks \subseteq ReservedNicks`:
  robots have nicks that no account has. `ListInv` is `ListsConsistent` and `ModePartition`, with
  what is said of those who are about to enter: a connection that is on its way has no entry, and
  an entry leads to a connection that exists.
* `ListsAreExact` (hypothesis `AccountsStay`: robots as above, accounts neither created nor deleted
  and passwords neither reset nor set, while classes may change): with the operator list. What is
  added says that the copy `reg` of every connection agrees with the table on whether there is an
  account and that no password is pending, so that each rule by which the five places edit
  `mOpList` gives the same.
* `AccountsAreFollowed` (hypothesis `AccountsGrow`: accounts are neither deleted nor given another
  class; they may be created, and passwords set). Without it the copy of an account outlives the
  account.

**EventLoop_proofs: the event loop.** Nothing is assumed about the order of the
thresholds.

* `Good(c)` says when a slot is sound: its buffers agree with what was accepted and are within
  the limit; an open connection is watched for errors, and for output when and only when the send
  buffer has something; a connection that accepts no more output has something to send and a
  deadline; a slot without connection is clean. `Ended(c)` says that a closed one has the entry
  that reports it. `Follows(c, d)` says that an operation makes `d` of `c`, keeps both, and brings
  nothing back to life. There is one lemma for each operator.
* `SlotsSound`: `ClosedReported` alone is not inductive: that the entry is left by `CloseNow` needs
  that an open connection is in use in the poll table, and that a slot is clean when its descriptor
  is given away again, since nothing is reset then. The connection that is treated is an exception
  while it is treated (`DelTreated` only marks it); `Treatment` says that it exists.
* `TypeCorrect`, `ClosedIsReported`, `ClosingHasSomething`, `OutputIsKept` follow; `TreatedIsKept`
  is an action property, and `LifeIsKept` the refinement of `ConnLife`, with the steps of the loop
  sorted by what they do to one slot (`OneLife`).

**Services_proofs.**

* `WorkerInvariant`: what each thread has read still holds when it acts on it: what AddWork offers
  is its own until it writes, the worker only ever empties the slot, mRun and mStop tell where the
  thread is until the destructor begins. `WorkerTypes`, `NoWildUseHolds` and `SlotRefined` (the
  refinement of `OneSlot`) follow.
* `UpkeepStaysRight`: one part each for the watch (an attack is announced when it is on), reloading
  (what was asked for is waiting, being done, or was missed during one) and errands (whoever asked
  is answered by the errand that is out, still has the nick and session he asked from, and it is this
  session the thread holds, once it looked).
* `RobotsStayHeld`: the stack of passes is the difficulty. A script that deletes a robot may stand
  in the middle of a pass that another's pass began. `ScriptsInv` is `OrderInv` (plugins
  are registered once each), `PassInv` (every level of the stack is within the list of plugins) and
  `RobotInv` (the hub's robots and the lists of those who hold them agree until a script takes one
  from another, `crossed`).

**Traffic_proofs.**

* `ToldRightHolds`: `ToldInv` says by the hooks that are left to ask how far the entry or the end of
  a connection has come, and what each script was told at that place.
* `VerdictHolds`: a message is treated only after all its hooks were asked and none stands against
  it.
* `HeardCanAnswerHolds` and `LockHoldsAlways`: the filters of searches and of requests are written
  apart and agree; a lock has its window's start moved by each attempt.

**Moderation_proofs.**

* `RightsInvariant`: a row that the cache does not know is in `gap`, and what a user who is online
  is held to is what his row says, but for `shorter` and `missed`. `PenaltyHoldsAlways` and
  `InForceKeptAlways` (an action property) follow.
* `BansInvariant`: `BannedStayOut` extended to who is between the two checks. `BannedStayOutAlways`
  and `BansKeptAlways` follow.
* `SettingsRightAlways`: `SettingsInv` is types, `Stopped2` (a hub that does not run has its
  defaults and nobody in the list), `ValuesKept` (what runs is what is stored or what reading that
  gives), `PortsApart` (about what a start would read, `InEffect`, so that it survives a
  restart), `PlacesRight` (a robot is at its own place or nowhere) and `NickFollowed`. The last one
  is what the attempt to prove `RobotsOfHub` asked for: cleaning a nick may give another one that
  cleaning changes again, so the property is said of every set of nicks closed under `Clean`
  that has the robot's nick.
* `TablesRightAlways`: `TablesInv` adds to `TablesRight` that a connection type is given in a list of
  connection types only, and that only what was deleted leaves somebody with one that is not there.
* `RanksRightAlways`, `TalkRightAlways`, `LookRightAlways`: `ConsoleRight` of the three
  specifications `Console` has, one for orders about classes, one for the chat and one for queries
  (no step of one kind reads what the others change, apart from who is in the hub). `RanksInv` bounds
  both the session and the stored account of everybody; `TalkInv` adds that who chats is in the
  hub; `LookInv` rests on the lemma `SameBlock`, that the block `GetIPRange` computes by taking a
  remainder away is the set of addresses with the same quotient.
* `ListsRightAlways`: what the four list plugins have in memory. For `isp` the difficulty is the
  halving. `Limited` is a recursive function, which TLA+ defines as a CHOOSE; `LimitedIs` gives a
  closed form of its values, shows that it solves the recursion, and that every solution equals
  it, by taking a smallest interval against it. `PositionIs` concludes that `FindDataPosition`
  finds the row or its place from any starting point in a list that is in order, and `IspInv`
  that the list is: adding at the place found and deleting at it (the lemmas `PutIn` and `TakenOut`
  on sequences) keep the order, and rows read by address are in it. `WordInv` says the same of
  words and of texts to replace; what a reload that fails midway leaves (`LeftOverIs`) and what
  `LoadAll` makes of the rows (`LoadedIs`, `LoadedRight`) are recursive functions over the rows,
  which `Repeated` unfolds. `PlugInv` says that plugman's list is in the order of the table as long
  as no row is read into another's place (`ReadPlain`).
* `CopiesRightAlways`, `ModerationTypesAlways`: the same of `ModerationSpec`, in which one of the six
  modules moves: `OneMoves` and `EachMoves` say that every step of the whole is a step or a stutter
  of each part. The types need more of `Console` than its properties do (`ShownTypes`, what is
  told to whom) and of `Settings` (`FlagTypes`, `LimitTypes`).

**Traffic_proofs, the other modules.**

* `RelayRightAlways`: `LimitInv` says of each window that it is `Paced`: what went out since it was
  opened is at most its count and at most the limit, and no more than the limit went out in the
  period before it was opened. Two stretches of this kind cover every stretch as long as
  a period, which gives twice the limit. The pauses between searches are windows of the same form.
  `went` is a set of messages with their times, so that parts of it can be counted.
* `ChangesReachListsAlways` (hypothesis `OpRank > 0`: the class from which on users are shown as
  operators is over a guest's; `DelRegUser` takes a guest off the list whatever `oplist_class` says).
  `AccountInv` says that the list of operators, the room, the total share and the classes are those
  of the accounts; `PlaceInv` that the zones are counted exactly and the zone and the
  country of everybody present follow his address, also right after scripts changed it.
* `AnswersEarnedAlways`, `TopicKnownAlways`: `ProtocolInv` is inductive as it stands, once the
  answers are told apart by kind and only people are moved.
* `AddressFirstAlways`, `LastWordsPassedAlways`: `TlsInv` goes through the stages of one caller's
  connection (`Unheard`, `Announced`, `Introduced` through the proxy, `Direct` without it) and says of
  each what is on the wire and what the hub's end knows; `Finished` what is left at the end.
  `CompatSymmetricHolds` needs no state: it goes through the branches of `CheckCompatTLS` in their
  order for both orders of the two versions.
* `TrafficTypesAlways` (hypothesis `OpRank > 0`, as above): the types of `Relay`, `Hooks` and
  `ScriptApi` in `TrafficSpec`. `RelayRest`, `HooksRest` and `ApiRest` are what the invariants above do
  not say; that the total share is not negative is the lemma `SumOfNat`.
* `MessagesRightAlways`: all of `MessagesRight`, of `TrafficSpec`; `Message_proofs` has the part about
  the parser. Its hypothesis is that the texts which plugins put in hold no dollar: the only one put
  into a `$MyINFO` is the prefix of isp before the description, which the operator writes and the
  code does not look at; with a dollar it ends the description and shifts every field behind it.
* `MessagesTakenRightAlways`: `LongestWins`, with `ProtocolRight` and `TlsProxyRight`, without that
  hypothesis.

**Message_proofs, the parser.**

* `LongestWins`: `Recognise` takes the first row of `sDC_Commands` that fits, so it rests on the order
  of the table: `TableRows` says that the two keywords with a second part stand before every row that
  begins with the same first part, and `FirstIsLongest` concludes. `KeptIsText` is about what is left
  of a message with null characters.
* `FieldsRight`, for lines of any length: `DivideBy` is a recursive function over at most seven steps
  (`FewSteps`), which is unfolded step by step, so that no induction is needed. `CutInto` says that
  the first fields are cut at the first places where their delimiters stand, `CutSoFar` that the rest
  is one chunk to the end of the message; each kind of step carries this on or fails, and fails only
  where `Dividable` does (`CanDivide`). The lemmas `Holds...` bring this to the layouts, one kind of
  message after the other: with one, two or three delimiters, with fixed texts (`$MyINFO`,
  `$OpForceMove`), searches, whose limits are split from the end, and results, whose middle may have
  one part less (`SizeOfResult`).
* `OneRewrite`: `MyINFOPlaces` are the five places at which a `$MyINFO` is cut. A description without
  a dollar moves the three after it by what it is longer or shorter (`PlacesShift`), and the second
  division finds them there (`PlacesDivide`, `OnePlace`): the mail is the same letters (`MailStays`),
  read from the new text (`MailRead`), as long as the message did not grow.
* `MessageInv` is the inductive invariant: in every stage it keeps of what the division was made
  (`Sent`: the message as it came, also after plugins changed it), that the second division is made
  with an error-free first one, and how often and where was written (`PutInv`). `OneRewrite` alone
  says nothing of the division before the rewriting, `FieldsRight` nothing of it after.

**Services_proofs, the bundled plugins.**

* `GuestsServedAlways`: `PointsInv` (no points without floodprot; with it, at most what is owed, and
  all of it unless a callback was missed), `BurstInv` (what passed in this second is in the counter of
  the address, or the counter began anew in it and the next burst is found, or the address is cut
  off; this needs a fast period above 0), `RoomInv`, and `MailInv` (mail that the cache does not know
  of is newer than the last update of the cache).
* `CollectionsExactAlways`: for any users, hashes, capacity and number of different `$MyINFO`s.
  `RosterInv` joins three things. `Sound`: each entry is in the slot of its hash and no two of a
  chain have one hash; an addition, a removal and a resizing keep this and change the users in the
  table by one or by none (`AddedSound`, `RemovedSound`, `ResizedSound`, the last because no
  addition to the new array can be refused). `Exactly`: a ready-made list that stands names whom
  the table holds. `Knows`: what a client that can be sent to has been told, against the users who
  are listed now. The order of the entries and the resizing are recursive functions over an
  interval: that they have values is `Repeated`, and what holds of each step is carried along by
  `UpTo`, both with sets as their only parameters (`Sums_proofs`).
* `ServicesTypesAlways`, `ServicesRightAlways`: `ServicesSpec` implements the specification of each of
  the five modules, so that what is proved of each holds of the whole; the types add what the
  properties do not need (`ScriptsAll`, `UpkeepAll`, `GuestsAll`), among it that no pass is inside
  another deeper than `MaxDepth` and no script stands twice in a list.

**Only model-checked.**

* `LoginsEnd`, `OutputEnds`, `WorkEnds`: liveness under fairness, out of reach of the proof system.
* Everything about the composition of modules: no theorem joins the login with `Bans` or `Relay`.

## 8. Where code and documentation disagree

Three runs show a state that contradicts what the source says of itself; each trace is a short
sequence of ordinary calls. PROJECT.json quotes both sides.

* `deaf`: below `max_unblock_size` "incoming data is unblocked again", but only when a send took a
  part; when one takes everything, the connection is never read again.
* `garbled`: a second replacement in a chat message is made with the positions from before the
  first, though the Python plugin promises that many scripts may change one message.
* `permban`: a ban by `$Ban` or `$TempBan` that carries no time is told to be permanent and has run
  out when it is stored.

Other places where the code does what its reader might not expect. They are part of the models,
which follow the code:

* **Accounts.** Who is between `$ValidateNick` and the end of the login when his account changes
  enters with the old class, although the update is "in real time" (`cdcconsole.cpp:3763`).
  `+passwd` and `+regme` overwrite a class given for a time. `regclass` and `regprotect` change the
  session before the account, where the database may fail (`cdcconsole.cpp:3571`, `3597`).
* **Closing.** What the kernel took before it failed stays in the send buffer
  (`casyncconn.cpp:1041`), which is harmless because the connection is closed. The timer closes a connection before the deadline of a nice close and never because
  it is over (`casyncconn.cpp:936` against `casyncconn.h:270`).
* **Timeouts.** `$Key` arms the timeout of `$ValidateNick` even after it came (`cdcproto.cpp:361`).
* **Console.** `GetIPRange` shifts by 32 less the mask and so differs at masks 0 and above 32
  (`cdcconsole.cpp:3932`). `SendToAll` ignores the range of classes (`cserverdc.cpp:707`), so that
  hidden kicks are seen by all. `!ban` looks neither at class nor protection of its target. `!userlimit`
  never changes the limit (`cinterpolexp.cpp:54`). `$SetTopic` changes the topic and neither saves
  it nor tells plugins (`cdcproto.cpp:3428`).
* **Rights and bans.** A shorter order leaves the longer one in the table. `CleanType` deletes whole
  rows and not from the cache. A permanent ban is replaced by any temporary one. A restart loses
  temporary bans. `$UnBan` deletes nothing.
* **Relay.** Windows that begin anew let twice the limit through within one length. `max_chat_msg`
  0 refuses all, `max_pm_msg` 0 none. The pause between searches is begun by a refused one.
* **Messages.** A second part extends to the end of the message. Messages the hub does not know are
  not searched for nulls. `ParseCommand` keeps the first command in a static string.
* **Scripts.** All plugins are called whatever earlier ones answered (`ccallbacklist.cpp:45`); a
  change by Python takes back what was discarded before (`cpipython.cpp:590`). Reloading a script
  leaves its robots. A script that stops itself frees its interpreter during the pass. Python's
  `DelRobot` does not look at reserved nicks.
* **Plugins.** isp uses an item after it was deleted (`cisps.cpp:245`). A deleted connection type is
  still pointed to by connections (`tmysqlmemorylist.h:186`). Renaming a room does not move its users.
  Mail to a robot's nick uses a connection that is not there (`cmsglist.cpp:157`). messenger never
  fills its cache from the table, and begins with the time of its load as the last update
  (`tcache.h:205`): mail from before is not found any more once newer mail is in the cache, and
  `MailFound` is about the mail since.
* **Configuration.** Renaming `hub_security` or `opchat_name` does not renew the hash of the nick
  (`cuser.cpp:49`). A row is deleted and then inserted, and lost when the insertion fails.
* **TLS proxy.** `tls_only_mode` refuses only those that come through the proxy. A caller at the
  proxy's own address may give any address. The
  hub's last words may be lost when the caller's direction ends first.
* **Upkeep.** A signal during `ReloadNow` is lost (`cserverdc.cpp:3813`). An attack is never told
  over when `detect_ctmtohub` is switched off during it. The thread that registers in hublists or looks
  for an update takes a user from `mUserList` and answers him with no lock (`cserverdc.cpp:2118`,
  `2278`), while the hub thread may delete him.

## 9. What is not modelled

Components without a module have their reason in PROJECT.json. Inside the modelled ones: texts
and wording; statistics and peaks; requests that only read; the MySQL access of the reglist; in the
event loop compression (`mZLibFlag`), the splitting of input into lines and its limit, name lookup,
connections the hub opens itself, the variant with `select`, and the end of `run`; in the plugin
manager what `dlopen` does; the Perl plugin; certificates. The share of the login that `HubLogin`
leaves to a free choice (bans, floods, clones) is where `Bans` and `Relay` say when it refuses;
that the two fit together is not shown. In
`Upkeep` the thread finds its asker in one step and answers in another, with the hub's steps
between, and an answer to a user deleted meanwhile may end the program; a table that is changed while the
thread searches it, and a buffer two threads write to, are not modelled.

## 10. The plan

What the project has: every component of section 1 in a module, the runs of section 4, and a
theorem for every safety property of the passing runs (section 7). What is left, in this order:

1. An action property of `EventLoop`: input is held back only in a step that leaves the buffer over
   the threshold.
2. `HubLogin` with `Bans`: one module in which the refusal of `$ValidateNick` is what `Bans` says.

Runs are kept few and dense: a new module joins the run whose kind of question it asks.
