--------------------------- MODULE HubLogin_proofs ---------------------------
(***************************************************************************)
(* Theorems about HubLogin and their proofs, for any number of             *)
(* connections, nicks, zones, accounts and robots: what is stored has its  *)
(* type, whoever is listed took every step of the login, and the counters  *)
(* that depend on it are exact: users, users of a zone, their limits and   *)
(* the total share.                                                        *)
(***************************************************************************)
EXTENDS HubLogin, Sums_proofs, FiniteSetTheorems, TLAPS

(* Whoever the user list leads to has a user of that nick and took every login step. *)
Holders ==
    \A n \in Nicks, c \in Conns : userList[n] = c =>
        /\ HasUser(c)
        /\ user[c].nick = n
        /\ LoginDone \subseteq flags[c]

IInv == TypeOK /\ Holders

(* A user record is not the missing one. *)
LEMMA UsersAreUsers == NoUser \notin Users
  <1>. DEFINE AnyUsers == [nick : Nicks, class : Int, passive : BOOLEAN, share : Int,
                          hide : BOOLEAN, inList : BOOLEAN, setPass : BOOLEAN]
  <1>1. Classes \subseteq Int /\ Shares \subseteq Int
    BY ConstantsAssumption DEF Classes, Pinger
  <1>2. ASSUME NEW u \in Users PROVE u \in AnyUsers
    BY <1>1, <1>2 DEF Users
  <1>. QED
    BY <1>2, ConstantsAssumption

(* Zones, shares and limits are numbers. *)
LEMMA NumbersAreInt ==
  /\ \A z \in Zones \cup {-1} : z \in Int
  /\ \A sh \in Shares : sh \in Int
  /\ Operator \in Int /\ 0 < Operator
  BY ConstantsAssumption

(* The marks for nobody are not connections. *)
LEMMA MarksAreNotConns == NoOne \notin Conns /\ Robot \notin Conns /\ NoOne # Robot
  BY ConstantsAssumption

(* The values that are stored have their types. *)
LEMMA StoredTypes ==
  /\ 0 \in Classes /\ Pinger \in Classes
  /\ \A a \in Accounts : a \in [class : Classes, pwdChange : BOOLEAN, hideShare : BOOLEAN]
  /\ NoAccount \in [class : Classes, pwdChange : BOOLEAN, hideShare : BOOLEAN]
  /\ BotInfo \subseteq BOOLEAN
  BY ConstantsAssumption DEF Classes, NoAccount

(* What $MyINFO, the password and a new account make of a user is a user of the same nick. *)
LEMMA RatedUser ==
  ASSUME NEW u \in Users, NEW sh \in Shares, NEW pas \in BOOLEAN
  PROVE  /\ Rated(u, sh, pas) \in Users
         /\ Rated(u, sh, pas).nick = u.nick
  BY DEF Users, Rated

(* cUser::Register gives a user another class, never another nick. *)
LEMMA RegisteredUser ==
  ASSUME NEW u \in Users,
         NEW a \in [class : Classes, pwdChange : BOOLEAN, hideShare : BOOLEAN]
  PROVE  /\ Registered(u, a) \in Users
         /\ Registered(u, a).nick = u.nick
  BY DEF Users, Registered

(* A new user has the type of one, whichever account is found for the nick. *)
LEMMA NewUserType ==
  ASSUME NEW n \in Nicks, NEW bot \in BOOLEAN,
         NEW a \in [class : Classes, pwdChange : BOOLEAN, hideShare : BOOLEAN]
  PROVE  NewUser(n) \in Users /\ Validated(NewUser(n), a, bot) \in Users
  <1>1. NewUser(n) \in Users
    BY StoredTypes, ConstantsAssumption DEF Users, NewUser
  <1>. QED
    BY <1>1, RegisteredUser, StoredTypes DEF Validated, Users

(* The operations on lists keep their type. *)
LEMMA ListTypes ==
  ASSUME NEW S, NEW list \in [Nicks -> S], NEW n \in Nicks, NoOne \in S
  PROVE  /\ \A x \in S : AddWithHash(list, n, x) \in [Nicks -> S]
         /\ RemoveByHash(list, n) \in [Nicks -> S]
  BY DEF AddWithHash, RemoveByHash

(* Counting a user in a zone, or in another zone, keeps the type of the zone counters. *)
LEMMA ZoneCountType ==
  ASSUME NEW count \in [Zones -> Int], NEW z
  PROVE  /\ [count EXCEPT ![z] = @ + 1] \in [Zones -> Int]
         /\ [count EXCEPT ![z] = @ - 1] \in [Zones -> Int]
  <1>1. CASE z \in Zones
    BY <1>1
  <1>2. CASE z \notin Zones
    <2>1. /\ [count EXCEPT ![z] = @ + 1] = count
          /\ [count EXCEPT ![z] = @ - 1] = count
      BY <1>2
    <2>. QED
      BY <2>1
  <1>. QED
    BY <1>1, <1>2

(* ResetGeo keeps the type of the zone counters. *)
LEMMA MoveZoneType ==
  ASSUME NEW count \in [Zones -> Int], NEW from, NEW to
  PROVE  MoveZone(count, from, to) \in [Zones -> Int]
  <1>1. [count EXCEPT ![from] = @ - 1] \in [Zones -> Int]
    BY ZoneCountType
  <1>. QED
    BY <1>1, ZoneCountType DEF MoveZone

(* As long as the user list stays, it is enough that nicks stay and login steps are not undone. *)
LEMMA HoldersKept ==
  ASSUME TypeOK, Holders, UNCHANGED userList, NEW c \in Conns, NEW u \in Users,
         u.nick = user[c].nick, user' = [user EXCEPT ![c] = u],
         \A d \in Conns : flags[d] \subseteq flags'[d]
  PROVE  Holders'
  <1>1. NoUser # u
    BY UsersAreUsers
  <1>2. \A d \in Conns : user'[d] = IF d = c THEN u ELSE user[d]
    BY DEF TypeOK
  <1>. QED
    BY <1>1, <1>2 DEF Holders, HasUser

(* The initial state has the declared types and no holders. *)
LEMMA InitIInv == Init => IInv
  <1>. SUFFICES ASSUME Init PROVE IInv
    OBVIOUS
  <1>1. TypeOK
    BY StoredTypes, ConstantsAssumption DEF Init, TypeOK
  <1>2. Holders
    BY MarksAreNotConns DEF Init, Holders
  <1>. QED
    BY <1>1, <1>2 DEF IInv

-----------------------------------------------------------------------------
(* Every step preserves the types and the holders; one lemma for each group of actions. *)

(* A new connection has no user and is not listed. *)
LEMMA OnNewConnIInv ==
  ASSUME IInv, NEW c \in Conns, NEW a \in Addresses, NEW z \in Zones, OnNewConn(c, a, z)
  PROVE  IInv'
  <1>1. TypeOK'
    BY DEF IInv, TypeOK, OnNewConn, FirstTimeOuts, TimeOuts, countVars, listVars
  <1>2. Holders'
    BY DEF IInv, Holders, OnNewConn, HasUser, countVars, listVars
  <1>. QED
    BY <1>1, <1>2 DEF IInv

(* Closing leaves the lists alone; DeleteConn takes the user it deletes out of them. *)
LEMMA CloseIInv ==
  ASSUME IInv, NEW c \in Conns, CloseStep(c)
  PROVE  IInv'
  <1>1. CASE Reject(c) \/ (\E t \in TimeOuts : OnTimer(c, t)) \/ CloseNow(c)
    <2>1. TypeOK'
      BY <1>1 DEF IInv, TypeOK, Reject, OnTimer, CloseNow, CloseNice, countVars, listVars
    <2>2. Holders'
      BY <1>1 DEF IInv, Holders, Reject, OnTimer, CloseNow, HasUser, countVars, listVars
    <2>. QED
      BY <2>1, <2>2 DEF IInv
  <1>2. CASE DeleteConn(c)
    <2>1. totalShare' \in Int /\ userCountTot' \in Int /\ userCount' \in [Zones -> Int]
      <3>1. ShareOfUser(c) \in Int
        <4>1. HasUser(c) => user[c].share \in Shares
          BY DEF IInv, TypeOK, HasUser, Users
        <4>. QED
          BY <4>1, NumbersAreInt DEF ShareOfUser, VisibleShare
      <3>2. zone[c] \in Int
        BY NumbersAreInt DEF IInv, TypeOK
      <3>3. CASE Counted(c)
        BY <1>2, <3>1, <3>2, <3>3 DEF IInv, TypeOK, DeleteConn
      <3>4. CASE ~ Counted(c)
        BY <1>2, <3>4 DEF IInv, TypeOK, DeleteConn, countVars
      <3>. QED
        BY <3>3, <3>4
    <2>2. /\ userList' \in [Nicks -> Conns \cup {NoOne, Robot}]
          /\ opList' \in [Nicks -> Conns \cup {NoOne, Robot}]
          /\ activeUsers' \in [Nicks -> Conns \cup {NoOne}]
          /\ passiveUsers' \in [Nicks -> Conns \cup {NoOne}]
      BY <1>2 DEF IInv, TypeOK, DeleteConn, RemoveByHash
    <2>3. TypeOK'
      BY <1>2, <2>1, <2>2, StoredTypes DEF IInv, TypeOK, DeleteConn
    <2>4. ASSUME NEW n \in Nicks, NEW d \in Conns, userList'[n] = d
          PROVE  d # c /\ userList[n] = d
      <3>1. userList[n] = d
        BY <1>2, <2>4, MarksAreNotConns DEF IInv, TypeOK, DeleteConn, RemoveByHash
      <3>2. CASE d = c
        <4>1. HasUser(c) /\ user[c].nick = n /\ ~ EntryOfOther(c)
          BY <3>1, <3>2 DEF IInv, Holders, EntryOfOther
        <4>2. userList'[n] = NoOne
          BY <1>2, <4>1 DEF IInv, TypeOK, DeleteConn, RemoveByHash
        <4>. QED
          BY <2>4, <4>2, MarksAreNotConns
      <3>. QED
        BY <3>1, <3>2
    <2>5. Holders'
      BY <1>2, <2>4 DEF IInv, TypeOK, Holders, DeleteConn, HasUser
    <2>. QED
      BY <2>3, <2>5 DEF IInv
  <1>. QED
    BY <1>1, <1>2 DEF CloseStep

(* $Key, $Supports and $Version only add a login step. *)
LEMMA SessionIInv ==
  ASSUME IInv, NEW c \in Conns,
         DC_Key(c) \/ (\E bot \in BotInfo : DC_Supports(c, bot)) \/ DC_Version(c)
  PROVE  IInv'
  <1>1. CASE DC_Key(c)
    <2>1. flags' \in [Conns -> SUBSET LoginDone]
      BY <1>1 DEF IInv, TypeOK, DC_Key, LoginDone
    <2>2. armed' \in [Conns -> SUBSET TimeOuts]
      BY <1>1 DEF IInv, TypeOK, DC_Key, TimeOuts
    <2>3. TypeOK'
      BY <1>1, <2>1, <2>2 DEF IInv, TypeOK, DC_Key, countVars, listVars
    <2>4. Holders'
      BY <1>1 DEF IInv, TypeOK, Holders, HasUser, DC_Key, listVars
    <2>. QED
      BY <2>3, <2>4 DEF IInv
  <1>2. CASE \E bot \in BotInfo : DC_Supports(c, bot)
    <2>1. flags' \in [Conns -> SUBSET LoginDone]
      BY <1>2 DEF IInv, TypeOK, DC_Supports, LoginDone
    <2>2. botInfo' \in [Conns -> BOOLEAN]
      BY <1>2, StoredTypes DEF IInv, TypeOK, DC_Supports
    <2>3. TypeOK'
      BY <1>2, <2>1, <2>2 DEF IInv, TypeOK, DC_Supports, countVars, listVars
    <2>4. Holders'
      BY <1>2 DEF IInv, TypeOK, Holders, HasUser, DC_Supports, listVars
    <2>. QED
      BY <2>3, <2>4 DEF IInv
  <1>3. CASE DC_Version(c)
    <2>1. flags' \in [Conns -> SUBSET LoginDone]
      BY <1>3 DEF IInv, TypeOK, DC_Version, LoginDone
    <2>2. TypeOK'
      BY <1>3, <2>1 DEF IInv, TypeOK, DC_Version, countVars, listVars
    <2>3. Holders'
      BY <1>3 DEF IInv, TypeOK, Holders, HasUser, DC_Version, listVars
    <2>. QED
      BY <2>2, <2>3 DEF IInv
  <1>. QED
    BY <1>1, <1>2, <1>3

(* A $ValidateNick that is refused creates no user. *)
LEMMA NotAdmittedIInv ==
  ASSUME IInv, NEW c \in Conns, NEW n \in Nicks,
         DC_ValidateNickRefused(c, n) \/ DC_ValidateNickCounted(c, n)
  PROVE  IInv'
  <1>1. CASE DC_ValidateNickRefused(c, n)
    <2>1. TypeOK'
      BY <1>1 DEF IInv, TypeOK, DC_ValidateNickRefused, CloseNice, countVars, listVars
    <2>2. Holders'
      BY <1>1 DEF IInv, Holders, HasUser, DC_ValidateNickRefused, listVars
    <2>. QED
      BY <2>1, <2>2 DEF IInv
  <1>2. CASE DC_ValidateNickCounted(c, n)
    <2>1. flags' \in [Conns -> SUBSET LoginDone]
      BY <1>2 DEF IInv, TypeOK, DC_ValidateNickCounted, LoginDone
    <2>2. userCount' \in [Zones -> Int] /\ userCountTot' \in Int
      <3>1. [userCount EXCEPT ![zone[c]] = @ + 1] \in [Zones -> Int]
        BY ZoneCountType DEF IInv, TypeOK
      <3>2. userCountTot' \in Int
        BY <1>2 DEF IInv, TypeOK, DC_ValidateNickCounted
      <3>. QED
        BY <1>2, <3>1, <3>2 DEF DC_ValidateNickCounted
    <2>3. TypeOK'
      BY <1>2, <2>1, <2>2 DEF IInv, TypeOK, DC_ValidateNickCounted, CloseNice, listVars
    <2>4. Holders'
      BY <1>2 DEF IInv, TypeOK, Holders, HasUser, DC_ValidateNickCounted, listVars
    <2>. QED
      BY <2>3, <2>4 DEF IInv
  <1>. QED
    BY <1>1, <1>2

(* The user that $ValidateNick creates is the first of the connection, so nobody listed goes. *)
LEMMA AdmittedIInv ==
  ASSUME IInv, NEW c \in Conns, NEW n \in Nicks, NEW a \in Addresses, NEW z \in Zones,
         DC_ValidateNick(c, n, a, z) \/ DC_ValidateNickVetoed(c, n, a, z)
  PROVE  IInv'
  <1>1. ASSUME Admit(c, n, a, z)
        PROVE  /\ userCount' \in [Zones -> Int] /\ userCountTot' \in Int
               /\ \A m \in Nicks : userList[m] # c
               /\ NewUser(n) \in Users
               /\ Validated(NewUser(n), regDB[n], botInfo[c]) \in Users
    <2>1. userCount' \in [Zones -> Int] /\ userCountTot' \in Int
      <3>1. [userCount EXCEPT ![zone[c]] = @ + 1] \in [Zones -> Int]
        BY ZoneCountType DEF IInv, TypeOK
      <3>2. MoveZone([userCount EXCEPT ![zone[c]] = @ + 1], zone[c], z) \in [Zones -> Int]
        BY <3>1, MoveZoneType
      <3>3. userCount' = MoveZone([userCount EXCEPT ![zone[c]] = @ + 1], zone[c], z)
        BY <1>1 DEF Admit
      <3>4. userCountTot' \in Int
        BY <1>1 DEF IInv, TypeOK, Admit
      <3>. QED
        BY <3>2, <3>3, <3>4
    <2>2. \A m \in Nicks : userList[m] # c
      BY <1>1 DEF IInv, Holders, Admit, ValidNick, LoginDone
    <2>. QED
      BY <2>1, <2>2, NewUserType DEF IInv, TypeOK
  <1>2. CASE DC_ValidateNick(c, n, a, z)
    <2>1. flags' \in [Conns -> SUBSET LoginDone]
      BY <1>2 DEF IInv, TypeOK, DC_ValidateNick, AdmitFlags, LoginDone
    <2>2. armed' \in [Conns -> SUBSET TimeOuts]
      BY <1>2 DEF IInv, TypeOK, DC_ValidateNick, TimeOuts
    <2>3. TypeOK'
      BY <1>1, <1>2, <2>1, <2>2 DEF IInv, TypeOK, DC_ValidateNick, Admit, listVars
    <2>4. Holders'
      BY <1>1, <1>2 DEF IInv, TypeOK, Holders, HasUser, DC_ValidateNick, Admit, listVars
    <2>. QED
      BY <2>3, <2>4 DEF IInv
  <1>3. CASE DC_ValidateNickVetoed(c, n, a, z)
    <2>1. flags' \in [Conns -> SUBSET LoginDone]
      BY <1>3 DEF IInv, TypeOK, DC_ValidateNickVetoed, AdmitFlags, LoginDone
    <2>2. TypeOK'
      BY <1>1, <1>3, <2>1 DEF IInv, TypeOK, DC_ValidateNickVetoed, Admit, listVars
    <2>3. Holders'
      BY <1>1, <1>3 DEF IInv, TypeOK, Holders, HasUser, DC_ValidateNickVetoed, Admit, listVars
    <2>. QED
      BY <2>2, <2>3 DEF IInv
  <1>. QED
    BY <1>2, <1>3

(* Passwords change the rights of a user, not the nick. *)
LEMMA PasswordIInv ==
  ASSUME IInv, NEW c \in Conns,
         DC_MyPass(c) \/ DC_MyPassSet(c) \/ DC_MyPassNotSet(c) \/ RegMyPasswd(c)
  PROVE  IInv'
  <1>. HasUser(c) /\ user[c] \in Users
    BY DEF IInv, TypeOK, DC_MyPass, DC_MyPassSet, DC_MyPassNotSet, RegMyPasswd, Listed, HasUser
  <1>1. CASE DC_MyPass(c)
    <2>1. flags' \in [Conns -> SUBSET LoginDone]
      BY <1>1 DEF IInv, TypeOK, DC_MyPass, LoginDone
    <2>2. /\ Registered(user[c], reg[c]) \in Users
          /\ Registered(user[c], reg[c]).nick = user[c].nick
      BY RegisteredUser DEF IInv, TypeOK
    <2>3. TypeOK'
      BY <1>1, <2>1, <2>2 DEF IInv, TypeOK, DC_MyPass, countVars, listVars
    <2>4. Holders'
      <3>1. \A d \in Conns : flags[d] \subseteq flags'[d]
        BY <1>1 DEF IInv, TypeOK, DC_MyPass
      <3>. QED
        BY <1>1, <2>2, <3>1, HoldersKept DEF IInv, DC_MyPass, listVars
    <2>. QED
      BY <2>3, <2>4 DEF IInv
  <1>2. ASSUME NEW k \in Classes, NEW ask \in BOOLEAN, PasswordSet(c, k, ask)
        PROVE  IInv'
    <2>. DEFINE n == user[c].nick
                Stored == [class : Classes, pwdChange : BOOLEAN, hideShare : BOOLEAN]
    <2>1. n \in Nicks
      BY DEF Users
    <2>2. /\ [user[c] EXCEPT !.class = k, !.setPass = ask] \in Users
          /\ [user[c] EXCEPT !.class = k, !.setPass = ask].nick = n
      BY DEF Users
    <2>3. user' = [user EXCEPT ![c] = [user[c] EXCEPT !.class = k, !.setPass = ask]]
      BY <1>2 DEF PasswordSet, IInv, TypeOK
    <2>4. opList' \in [Nicks -> Conns \cup {NoOne, Robot}]
      BY <1>2, <2>1, ListTypes DEF PasswordSet, OpsWhenSet, IInv, TypeOK
    <2>5. armed' \in [Conns -> SUBSET TimeOuts]
      BY <1>2 DEF PasswordSet, IInv, TypeOK
    <2>6. /\ regDB' \in [Nicks -> Stored]
          /\ reg' \in [Conns -> Stored]
      <3>1. [regDB[n] EXCEPT !.pwdChange = FALSE] \in Stored
        BY <2>1 DEF IInv, TypeOK
      <3>. QED
        BY <1>2, <2>1, <3>1 DEF PasswordSet, IInv, TypeOK
    <2>7. TypeOK'
      <3>. HIDE DEF n
      <3>. QED
        BY <1>2, <2>2, <2>3, <2>4, <2>5, <2>6 DEF PasswordSet, IInv, TypeOK, countVars
    <2>8. Holders'
      BY <1>2, <2>2, <2>3, HoldersKept DEF PasswordSet, IInv
    <2>. QED
      BY <2>7, <2>8 DEF IInv
  <1>3. CASE DC_MyPassSet(c)
    BY <1>2, <1>3 DEF DC_MyPassSet, IInv, TypeOK
  <1>4. CASE DC_MyPassNotSet(c)
    <2>1. /\ [user[c] EXCEPT !.setPass = FALSE] \in Users
          /\ [user[c] EXCEPT !.setPass = FALSE].nick = user[c].nick
      BY DEF Users
    <2>2. user' = [user EXCEPT ![c] = [user[c] EXCEPT !.setPass = FALSE]]
      BY <1>4 DEF DC_MyPassNotSet
    <2>3. TypeOK'
      BY <1>4, <2>1, <2>2 DEF IInv, TypeOK, DC_MyPassNotSet, countVars, listVars
    <2>4. Holders'
      BY <1>4, <2>1, <2>2, HoldersKept DEF IInv, DC_MyPassNotSet, listVars
    <2>. QED
      BY <2>3, <2>4 DEF IInv
  <1>5. CASE RegMyPasswd(c)
    <2>1. regDB[user[c].nick].class \in Classes /\ user[c].setPass \in BOOLEAN
      BY DEF IInv, TypeOK, Users
    <2>. QED
      BY <1>2, <1>5, <2>1 DEF RegMyPasswd
  <1>. QED
    BY <1>1, <1>3, <1>4, <1>5

(* Robots are listed under free nicks. *)
LEMMA RobotIInv ==
  ASSUME IInv, NEW n \in Nicks, RobotStep(n)
  PROVE  IInv'
  <1>1. CASE \E k \in {0, Operator} : AddRobot(n, k)
    <2>1. PICK k \in {0, Operator} : AddRobot(n, k)
      BY <1>1
    <2>2. /\ userList' = [userList EXCEPT ![n] = Robot]
          /\ activeUsers' = activeUsers
      BY <2>1, MarksAreNotConns DEF AddRobot, AddWithHash, AddToMode
    <2>3. opList' \in [Nicks -> Conns \cup {NoOne, Robot}]
      BY <2>1, ListTypes DEF IInv, TypeOK, AddRobot, AddToOps
    <2>4. TypeOK'
      BY <2>1, <2>2, <2>3 DEF IInv, TypeOK, AddRobot, connVars, countVars
    <2>5. Holders'
      BY <2>1, <2>2, MarksAreNotConns DEF IInv, TypeOK, Holders, HasUser, AddRobot, connVars
    <2>. QED
      BY <2>4, <2>5 DEF IInv
  <1>2. CASE DelRobot(n)
    <2>1. TypeOK'
      BY <1>2 DEF IInv, TypeOK, DelRobot, RemoveByHash, connVars, countVars
    <2>2. Holders'
      BY <1>2, MarksAreNotConns
         DEF IInv, TypeOK, Holders, HasUser, DelRobot, RemoveByHash, connVars
    <2>. QED
      BY <2>1, <2>2 DEF IInv
  <1>. QED
    BY <1>1, <1>2 DEF RobotStep

(* A user who changed mode moves between lists of connections. *)
LEMMA ModeTypes ==
  ASSUME TypeOK, NEW c \in Conns, user[c] \in Users, NEW pas \in BOOLEAN
  PROVE  /\ ActiveAfter(c, pas) \in [Nicks -> Conns \cup {NoOne}]
         /\ PassiveAfter(c, pas) \in [Nicks -> Conns \cup {NoOne}]
  <1>1. user[c].nick \in Nicks
    BY DEF Users
  <1>2. /\ AddWithHash(activeUsers, user[c].nick, c) \in [Nicks -> Conns \cup {NoOne}]
        /\ RemoveByHash(activeUsers, user[c].nick) \in [Nicks -> Conns \cup {NoOne}]
        /\ AddWithHash(passiveUsers, user[c].nick, c) \in [Nicks -> Conns \cup {NoOne}]
        /\ RemoveByHash(passiveUsers, user[c].nick) \in [Nicks -> Conns \cup {NoOne}]
    BY <1>1 DEF TypeOK, AddWithHash, RemoveByHash
  <1>. QED
    BY <1>2 DEF TypeOK, ActiveAfter, PassiveAfter

(* What every $MyINFO does to the total share and to the login steps *)
LEMMA MyINFOTypes ==
  ASSUME TypeOK, NEW c \in Conns, NEW sh \in Shares, NEW pas \in BOOLEAN, MyINFO(c, sh, pas)
  PROVE  /\ user[c] \in Users
         /\ totalShare' \in Int
         /\ Rated(user[c], sh, pas) \in Users
         /\ Rated(user[c], sh, pas).nick = user[c].nick
         /\ FirstMyINFO(c, sh, pas) => /\ flags' \in [Conns -> SUBSET LoginDone]
                                       /\ \A d \in Conns : flags[d] \subseteq flags'[d]
  <1>1. user[c] \in Users
    BY DEF TypeOK, MyINFO, HasUser
  <1>2. totalShare' \in Int
    <2>1. sh \in Int /\ user[c].share \in Int
      BY <1>1, NumbersAreInt DEF Users
    <2>. QED
      BY <2>1 DEF TypeOK, MyINFO, TotalAfter
  <1>3. FirstMyINFO(c, sh, pas) => /\ flags' \in [Conns -> SUBSET LoginDone]
                                  /\ \A d \in Conns : flags[d] \subseteq flags'[d]
    BY DEF TypeOK, FirstMyINFO, LoginDone
  <1>. QED
    BY <1>1, <1>2, <1>3, RatedUser

(* A $MyINFO that lists nobody changes mode and share of its user. *)
LEMMA MyINFOIInv ==
  ASSUME IInv, NEW c \in Conns, NEW sh \in Shares, NEW pas \in BOOLEAN,
         \/ DC_MyINFOShareRefused(c, sh, pas) \/ DC_MyINFORefused(c, sh, pas)
         \/ DC_MyINFOVetoed(c, sh, pas) \/ DC_MyINFOUpdate(c, sh, pas)
         \/ DC_MyINFOIncomplete(c, sh, pas)
         \/ \E same \in BOOLEAN : DC_MyINFONickTaken(c, sh, pas, same)
  PROVE  IInv'
  <1>0. MyINFO(c, sh, pas)
    BY DEF DC_MyINFOShareRefused, DC_MyINFORefused, DC_MyINFOVetoed, DC_MyINFOUpdate,
           DC_MyINFOIncomplete, DC_MyINFONickTaken, MyINFOListed, FirstMyINFO
  <1>1. /\ user[c] \in Users
        /\ totalShare' \in Int
        /\ Rated(user[c], sh, pas) \in Users
        /\ Rated(user[c], sh, pas).nick = user[c].nick
    BY <1>0, MyINFOTypes DEF IInv
  <1>2. ASSUME MyINFOListed(c, sh, pas), flags' = flags,
               sock' \in [Conns -> {"free", "open", "closing", "dead"}],
               armed' \in [Conns -> SUBSET TimeOuts]
        PROVE  IInv'
    <2>1. /\ activeUsers' \in [Nicks -> Conns \cup {NoOne}]
          /\ passiveUsers' \in [Nicks -> Conns \cup {NoOne}]
      BY <1>1, <1>2, ModeTypes DEF IInv, MyINFOListed
    <2>2. TypeOK'
      BY <1>1, <1>2, <2>1 DEF IInv, TypeOK, MyINFOListed, MyINFO
    <2>3. Holders'
      BY <1>1, <1>2, HoldersKept DEF IInv, MyINFOListed
    <2>. QED
      BY <2>2, <2>3 DEF IInv
  <1>3. ASSUME MyINFO(c, sh, pas), UNCHANGED <<armed, listVars>>,
               user' = [user EXCEPT ![c] = Rated(user[c], sh, pas)],
               sock' \in [Conns -> {"free", "open", "closing", "dead"}],
               flags' \in [Conns -> SUBSET LoginDone],
               \A d \in Conns : flags[d] \subseteq flags'[d]
        PROVE  IInv'
    <2>1. TypeOK'
      BY <1>1, <1>3 DEF IInv, TypeOK, MyINFO, listVars
    <2>2. Holders'
      BY <1>1, <1>3, HoldersKept DEF IInv, listVars
    <2>. QED
      BY <2>1, <2>2 DEF IInv
  <1>4. CASE DC_MyINFOShareRefused(c, sh, pas)
    BY <1>3, <1>4 DEF DC_MyINFOShareRefused, IInv, TypeOK, CloseNice
  <1>5. CASE DC_MyINFORefused(c, sh, pas)
    BY <1>2, <1>5 DEF DC_MyINFORefused, IInv, TypeOK, CloseNice
  <1>6. CASE DC_MyINFOVetoed(c, sh, pas)
    BY <1>2, <1>6 DEF DC_MyINFOVetoed, IInv, TypeOK
  <1>7. CASE DC_MyINFOUpdate(c, sh, pas)
    BY <1>2, <1>7 DEF DC_MyINFOUpdate, IInv, TypeOK
  <1>8. CASE DC_MyINFOIncomplete(c, sh, pas)
    <2>1. /\ flags' \in [Conns -> SUBSET LoginDone]
          /\ \A d \in Conns : flags[d] \subseteq flags'[d]
      BY <1>0, <1>8, MyINFOTypes DEF IInv, DC_MyINFOIncomplete
    <2>. QED
      BY <1>0, <1>3, <1>8, <2>1 DEF DC_MyINFOIncomplete, IInv, TypeOK
  <1>9. CASE \E same \in BOOLEAN : DC_MyINFONickTaken(c, sh, pas, same)
    <2>1. /\ flags' \in [Conns -> SUBSET LoginDone]
          /\ \A d \in Conns : flags[d] \subseteq flags'[d]
      BY <1>0, <1>9, MyINFOTypes DEF IInv, DC_MyINFONickTaken
    <2>. QED
      BY <1>0, <1>3, <1>9, <2>1 DEF DC_MyINFONickTaken, IInv, TypeOK, CloseNice
  <1>. QED
    BY <1>4, <1>5, <1>6, <1>7, <1>8, <1>9

(* The nick of a user who enters is vacated first, so the user gets it. *)
LEMMA NickGiven ==
  ASSUME TypeOK, NEW n \in Nicks, NEW c \in Conns
  PROVE  AddWithHash(Vacated(userList, n), n, c) = [userList EXCEPT ![n] = c]
  <1>1. Vacated(userList, n) = IF userList[n] = NoOne THEN userList
                               ELSE [userList EXCEPT ![n] = NoOne]
    BY DEF Vacated, RemoveByHash
  <1>. QED
    BY <1>1 DEF TypeOK, AddWithHash

(* The user who enters is found under his nick, and whoever had it is not. *)
LEMMA EnterIInv ==
  ASSUME IInv, NEW c \in Conns, NEW sh \in Shares, NEW pas \in BOOLEAN, NEW same \in BOOLEAN,
         NEW outcome, Enter(c, sh, pas, same, outcome)
  PROVE  IInv'
  <1>. DEFINE n == user[c].nick
              old == userList[n]
              ask == outcome # "InList" /\ reg[c].class # 0 /\ reg[c].pwdChange
              me == [Rated(user[c], sh, pas) EXCEPT !.inList = TRUE, !.setPass = ask]
  <1>0. MyINFO(c, sh, pas) /\ FirstMyINFO(c, sh, pas)
    BY DEF Enter, FirstMyINFO
  <1>1. /\ user[c] \in Users
        /\ totalShare' \in Int
        /\ Rated(user[c], sh, pas) \in Users
        /\ Rated(user[c], sh, pas).nick = user[c].nick
        /\ flags' \in [Conns -> SUBSET LoginDone]
        /\ \A d \in Conns : flags[d] \subseteq flags'[d]
    BY <1>0, MyINFOTypes DEF IInv
  <1>2. n \in Nicks
    BY <1>1 DEF Users
  <1>3. ask \in BOOLEAN
    BY DEF IInv, TypeOK
  <1>4. me \in Users /\ me.nick = n
    BY <1>1, <1>3 DEF Users
  <1>5. old \in Conns => user[old] \in Users /\ user[old].nick = n
    BY <1>2 DEF IInv, TypeOK, Holders, HasUser
  <1>6. \A d \in Conns : user'[d] = IF d = c THEN me
                                   ELSE IF d = old THEN [user[d] EXCEPT !.inList = FALSE]
                                   ELSE user[d]
    BY DEF Enter
  <1>7. /\ user' \in [Conns -> Users \cup {NoUser}]
        /\ \A d \in Conns : d # c /\ user[d] # NoUser =>
               user'[d] \in Users /\ user'[d].nick = user[d].nick
    <2>1. old \in Conns => /\ [user[old] EXCEPT !.inList = FALSE] \in Users
                           /\ [user[old] EXCEPT !.inList = FALSE].nick = n
      BY <1>5 DEF Users
    <2>. HIDE DEF n, old, me
    <2>2. \A d \in Conns : user'[d] \in Users \cup {NoUser}
      BY <1>4, <1>6, <2>1 DEF IInv, TypeOK
    <2>3. user' = [d \in Conns |-> user'[d]]
      BY DEF Enter
    <2>. QED
      BY <1>5, <1>6, <2>1, <2>2, <2>3 DEF IInv, TypeOK
  <1>8. userList' = [userList EXCEPT ![n] = c]
    BY <1>2, NickGiven DEF IInv, Enter
  <1>9. /\ activeUsers' \in [Nicks -> Conns \cup {NoOne}]
        /\ passiveUsers' \in [Nicks -> Conns \cup {NoOne}]
    BY <1>2 DEF Enter, IInv, TypeOK, AddToMode, VacatedMode, AddWithHash, RemoveByHash
  <1>10. opList' \in [Nicks -> Conns \cup {NoOne, Robot}]
    BY <1>2 DEF Enter, IInv, TypeOK, AddToOps, Vacated, AddWithHash, RemoveByHash
  <1>11. armed' \in [Conns -> SUBSET TimeOuts]
    BY DEF Enter, IInv, TypeOK, TimeOuts
  <1>12. sock' \in [Conns -> {"free", "open", "closing", "dead"}]
    BY DEF Enter, IInv, TypeOK, TakenOver, CloseNice
  <1>13. TypeOK'
    BY <1>0, <1>1, <1>2, <1>7, <1>8, <1>9, <1>10, <1>11, <1>12 DEF IInv, TypeOK, MyINFO
  <1>14. Holders'
    <2>1. LoginDone \subseteq flags'[c]
      BY <1>0 DEF Enter, FirstMyINFO, LoginComplete, IInv, TypeOK
    <2>2. user'[c] # NoUser /\ user'[c].nick = n
      BY <1>4, <1>6, UsersAreUsers
    <2>. SUFFICES ASSUME NEW m \in Nicks, NEW d \in Conns, userList'[m] = d
                  PROVE  user'[d] # NoUser /\ user'[d].nick = m /\ LoginDone \subseteq flags'[d]
      BY DEF Holders, HasUser
    <2>3. CASE m = n
      <3>1. d = c
        BY <1>2, <1>8, <2>3 DEF IInv, TypeOK
      <3>. QED
        BY <2>1, <2>2, <2>3, <3>1
    <2>4. CASE m # n
      <3>1. userList[m] = d
        BY <1>2, <1>8, <2>4 DEF IInv, TypeOK
      <3>2. user[d] # NoUser /\ user[d].nick = m /\ LoginDone \subseteq flags[d]
        BY <3>1 DEF IInv, Holders, HasUser
      <3>. QED
        BY <1>1, <1>7, <2>4, <3>2, UsersAreUsers
    <2>. QED
      BY <2>3, <2>4
  <1>. QED
    BY <1>13, <1>14 DEF IInv

(* Storing an account keeps the types, in the reglist and for the user who is online. *)
LEMMA StoreTypes ==
  ASSUME TypeOK, NEW n \in Nicks, NEW a, Store(n, a),
         a \in [class : Classes, pwdChange : BOOLEAN, hideShare : BOOLEAN]
  PROVE  /\ regDB' \in [Nicks -> [class : Classes, pwdChange : BOOLEAN, hideShare : BOOLEAN]]
         /\ reg' \in [Conns -> [class : Classes, pwdChange : BOOLEAN, hideShare : BOOLEAN]]
  BY DEF TypeOK, Store, OnTarget

(* The account found for a nick stays one when a field is changed. *)
LEMMA AccountUpdates ==
  ASSUME NEW a \in [class : Classes, pwdChange : BOOLEAN, hideShare : BOOLEAN],
         NEW k \in Classes, NEW b \in BOOLEAN
  PROVE  /\ [a EXCEPT !.class = k] \in [class : Classes, pwdChange : BOOLEAN, hideShare : BOOLEAN]
         /\ [a EXCEPT !.pwdChange = b]
                \in [class : Classes, pwdChange : BOOLEAN, hideShare : BOOLEAN]
         /\ [a EXCEPT !.hideShare = b]
                \in [class : Classes, pwdChange : BOOLEAN, hideShare : BOOLEAN]
  OBVIOUS

(* What the registration commands do to the user who is online *)
LEMMA TargetIInv ==
  ASSUME IInv, NEW d \in Conns, NEW u \in Users, u.nick = user[d].nick,
         user' = [user EXCEPT ![d] = u],
         UNCHANGED <<sock, flags, botInfo, armed, userList, activeUsers, passiveUsers, robotList,
                     ip, zone, userCountTot, userCount>>,
         opList' \in [Nicks -> Conns \cup {NoOne, Robot}],
         regDB' \in [Nicks -> [class : Classes, pwdChange : BOOLEAN, hideShare : BOOLEAN]],
         reg' \in [Conns -> [class : Classes, pwdChange : BOOLEAN, hideShare : BOOLEAN]],
         totalShare' \in Int
  PROVE  IInv'
  <1>1. TypeOK'
    BY DEF IInv, TypeOK
  <1>2. Holders'
    BY HoldersKept DEF IInv
  <1>. QED
    BY <1>1, <1>2 DEF IInv

(* ... when nobody is online under the nick *)
LEMMA NoTargetIInv ==
  ASSUME IInv, UNCHANGED <<sock, flags, botInfo, armed, userList, activeUsers, passiveUsers,
                           robotList, ip, zone, countVars, user, opList>>,
         regDB' \in [Nicks -> [class : Classes, pwdChange : BOOLEAN, hideShare : BOOLEAN]],
         reg' \in [Conns -> [class : Classes, pwdChange : BOOLEAN, hideShare : BOOLEAN]]
  PROVE  IInv'
  BY DEF IInv, TypeOK, Holders, HasUser, countVars

(* The user who is online under a nick has a user record, and a share that can be shown. *)
LEMMA HolderIsUser ==
  ASSUME IInv, NEW n \in Nicks, Target(n) \in Conns
  PROVE  user[Target(n)] \in Users
  BY DEF IInv, TypeOK, Holders, HasUser, Target

(* ... so that adding it to mTotalShare or taking it away gives a number. *)
LEMMA HolderShows ==
  ASSUME IInv, NEW n \in Nicks, Target(n) \in Conns
  PROVE  /\ Unhidden(user[Target(n)]) \in Int
         /\ totalShare - user[Target(n)].share \in Int
  <1>1. user[Target(n)].share \in Int
    BY HolderIsUser, NumbersAreInt DEF Users
  <1>. QED
    BY <1>1 DEF IInv, TypeOK, Unhidden

(* A class command changes mOpList for a connection, or takes the nick out. *)
LEMMA OpsTypes ==
  ASSUME TypeOK, NEW n \in Nicks, Target(n) \in Conns, NEW k
  PROVE  /\ OpsWhenNew(n, k) \in [Nicks -> Conns \cup {NoOne, Robot}]
         /\ OpsWhenClass(n, k) \in [Nicks -> Conns \cup {NoOne, Robot}]
         /\ RemoveByHash(opList, n) \in [Nicks -> Conns \cup {NoOne, Robot}]
  BY DEF TypeOK, OpsWhenNew, OpsWhenClass, AddWithHash, RemoveByHash

(* eAC_NEW gives the user who is online the class of the new account. *)
LEMMA RegNewIInv ==
  ASSUME IInv, NEW n \in Nicks, NEW a \in Accounts, RegNew(n, a)
  PROVE  IInv'
  <1>1. /\ regDB' \in [Nicks -> [class : Classes, pwdChange : BOOLEAN, hideShare : BOOLEAN]]
        /\ reg' \in [Conns -> [class : Classes, pwdChange : BOOLEAN, hideShare : BOOLEAN]]
        /\ a.class \in Classes
    BY StoreTypes, StoredTypes DEF IInv, RegNew, Classes
  <1>2. CASE Target(n) \in Conns
    <2>. DEFINE u == [user[Target(n)] EXCEPT !.class = a.class]
    <2>1. u \in Users /\ u.nick = user[Target(n)].nick
      BY <1>1, <1>2, HolderIsUser DEF Users
    <2>2. user' = [user EXCEPT ![Target(n)] = u]
      BY <1>2 DEF RegNew
    <2>3. opList' \in [Nicks -> Conns \cup {NoOne, Robot}]
      BY <1>2, OpsTypes DEF RegNew, IInv
    <2>4. totalShare' \in Int
      BY DEF RegNew, countVars, IInv, TypeOK
    <2>. HIDE DEF u
    <2>. QED
      BY <1>1, <1>2, <2>1, <2>2, <2>3, <2>4, TargetIInv DEF RegNew, Store, countVars
  <1>3. CASE Target(n) \notin Conns
    BY <1>1, <1>3, NoTargetIInv DEF RegNew, Store, countVars
  <1>. QED
    BY <1>2, <1>3

(* eAC_DEL takes the class away and shows the share. *)
LEMMA RegDelIInv ==
  ASSUME IInv, NEW n \in Nicks, RegDel(n)
  PROVE  IInv'
  <1>1. /\ regDB' \in [Nicks -> [class : Classes, pwdChange : BOOLEAN, hideShare : BOOLEAN]]
        /\ reg' \in [Conns -> [class : Classes, pwdChange : BOOLEAN, hideShare : BOOLEAN]]
    BY StoreTypes, StoredTypes DEF IInv, RegDel
  <1>2. CASE Target(n) \in Conns
    <2>. DEFINE u == [user[Target(n)] EXCEPT !.class = 0, !.hide = FALSE]
    <2>1. u \in Users /\ u.nick = user[Target(n)].nick
      BY <1>2, HolderIsUser, StoredTypes DEF Users
    <2>2. user' = [user EXCEPT ![Target(n)] = u]
      BY <1>2 DEF RegDel, IInv, TypeOK
    <2>3. totalShare' \in Int
      BY <1>2, HolderShows DEF RegDel
    <2>4. opList' \in [Nicks -> Conns \cup {NoOne, Robot}]
      BY <1>2, OpsTypes DEF RegDel, IInv
    <2>. HIDE DEF u
    <2>. QED
      BY <1>1, <1>2, <2>1, <2>2, <2>3, <2>4, TargetIInv DEF RegDel, Store
  <1>3. CASE Target(n) \notin Conns
    BY <1>1, <1>3, NoTargetIInv DEF RegDel, Store, countVars
  <1>. QED
    BY <1>2, <1>3

(* eAC_CLASS and CmdClass change the class. *)
LEMMA RegClassIInv ==
  ASSUME IInv, NEW n \in Nicks, NEW k \in Classes, RegClass(n, k) \/ CmdClass(n, k)
  PROVE  IInv'
  <1>. DEFINE u == [user[Target(n)] EXCEPT !.class = k]
  <1>1. Target(n) \in Conns => u \in Users /\ u.nick = user[Target(n)].nick
    BY HolderIsUser DEF Users
  <1>2. /\ regDB' \in [Nicks -> [class : Classes, pwdChange : BOOLEAN, hideShare : BOOLEAN]]
        /\ reg' \in [Conns -> [class : Classes, pwdChange : BOOLEAN, hideShare : BOOLEAN]]
    <2>1. CASE RegClass(n, k)
      <3>1. [regDB[n] EXCEPT !.class = k]
                \in [class : Classes, pwdChange : BOOLEAN, hideShare : BOOLEAN]
        BY DEF IInv, TypeOK
      <3>. QED
        BY <2>1, <3>1, StoreTypes DEF IInv, RegClass
    <2>2. CASE CmdClass(n, k)
      BY <2>2 DEF IInv, TypeOK, CmdClass
    <2>. QED
      BY <2>1, <2>2
  <1>3. CASE Target(n) \in Conns
    <2>1. user' = [user EXCEPT ![Target(n)] = u]
      BY <1>3 DEF RegClass, CmdClass
    <2>2. opList' \in [Nicks -> Conns \cup {NoOne, Robot}]
      BY <1>3, OpsTypes DEF RegClass, CmdClass, IInv, TypeOK
    <2>. HIDE DEF u
    <2>. QED
      BY <1>1, <1>2, <1>3, <2>1, <2>2, TargetIInv
         DEF RegClass, CmdClass, Store, countVars, IInv, TypeOK
  <1>4. CASE Target(n) \notin Conns
    BY <1>2, <1>4, NoTargetIInv DEF RegClass, CmdClass, Store, countVars
  <1>. QED
    BY <1>3, <1>4

(* eAC_HIDESHARE changes what of the share is counted. *)
LEMMA RegHideShareIInv ==
  ASSUME IInv, NEW n \in Nicks, NEW h \in BOOLEAN, RegHideShare(n, h)
  PROVE  IInv'
  <1>. DEFINE u == [user[Target(n)] EXCEPT !.hide = h]
  <1>1. /\ regDB' \in [Nicks -> [class : Classes, pwdChange : BOOLEAN, hideShare : BOOLEAN]]
        /\ reg' \in [Conns -> [class : Classes, pwdChange : BOOLEAN, hideShare : BOOLEAN]]
    <2>1. [regDB[n] EXCEPT !.hideShare = h]
              \in [class : Classes, pwdChange : BOOLEAN, hideShare : BOOLEAN]
      BY AccountUpdates, StoredTypes DEF IInv, TypeOK
    <2>. QED
      BY <2>1, StoreTypes DEF IInv, RegHideShare
  <1>2. CASE Target(n) \in Conns
    <2>1. u \in Users /\ u.nick = user[Target(n)].nick
      BY <1>2, HolderIsUser DEF Users
    <2>2. user' = [user EXCEPT ![Target(n)] = u]
      BY <1>2 DEF RegHideShare
    <2>3. totalShare' \in Int
      BY <1>2, HolderShows DEF RegHideShare, IInv, TypeOK
    <2>. HIDE DEF u
    <2>. QED
      BY <1>1, <1>2, <2>1, <2>2, <2>3, TargetIInv DEF RegHideShare, Store, IInv, TypeOK
  <1>3. CASE Target(n) \notin Conns
    BY <1>1, <1>3, NoTargetIInv DEF RegHideShare, Store, countVars
  <1>. QED
    BY <1>2, <1>3

(* eAC_PASS changes the account only. *)
LEMMA RegPassIInv ==
  ASSUME IInv, NEW n \in Nicks, RegPassReset(n) \/ RegPass(n)
  PROVE  IInv'
  <1>1. \A b \in BOOLEAN : [regDB[n] EXCEPT !.pwdChange = b]
            \in [class : Classes, pwdChange : BOOLEAN, hideShare : BOOLEAN]
    BY AccountUpdates, StoredTypes DEF IInv, TypeOK
  <1>2. CASE RegPassReset(n)
    <2>1. /\ regDB' \in [Nicks -> [class : Classes, pwdChange : BOOLEAN, hideShare : BOOLEAN]]
          /\ reg' \in [Conns -> [class : Classes, pwdChange : BOOLEAN, hideShare : BOOLEAN]]
      BY <1>1, <1>2, StoreTypes DEF IInv, RegPassReset
    <2>. QED
      BY <1>2, <2>1, NoTargetIInv DEF RegPassReset, Store
  <1>3. CASE RegPass(n)
    <2>1. regDB' \in [Nicks -> [class : Classes, pwdChange : BOOLEAN, hideShare : BOOLEAN]]
      BY <1>1, <1>3 DEF IInv, TypeOK, RegPass
    <2>. QED
      BY <1>3, <2>1, NoTargetIInv DEF RegPass, IInv, TypeOK, connVars, countVars, listVars
  <1>. QED
    BY <1>2, <1>3

(* A fake address moves the user to another zone. *)
LEMMA RegFakeIPIInv ==
  ASSUME IInv, NEW n \in Nicks, NEW a \in Addresses, NEW z \in Zones, RegFakeIP(n, a, z)
  PROVE  IInv'
  <1>1. /\ regDB' \in [Nicks -> [class : Classes, pwdChange : BOOLEAN, hideShare : BOOLEAN]]
        /\ reg' \in [Conns -> [class : Classes, pwdChange : BOOLEAN, hideShare : BOOLEAN]]
    BY StoreTypes DEF IInv, TypeOK, RegFakeIP
  <1>2. ip' \in [Conns -> Addresses \cup {NoOne}] /\ zone' \in [Conns -> Zones \cup {-1}]
    BY DEF IInv, TypeOK, RegFakeIP, OnTarget
  <1>3. userCount' \in [Zones -> Int]
    BY MoveZoneType DEF IInv, TypeOK, RegFakeIP
  <1>4. TypeOK'
    BY <1>1, <1>2, <1>3 DEF IInv, TypeOK, RegFakeIP, Store
  <1>5. Holders'
    BY DEF IInv, Holders, HasUser, RegFakeIP, Store
  <1>. QED
    BY <1>4, <1>5 DEF IInv

(* Every step of the hub keeps the types and the holders. *)
LEMMA NextIInv == IInv /\ [Next]_vars => IInv'
  <1>. SUFFICES ASSUME IInv, [Next]_vars PROVE IInv'
    OBVIOUS
  <1>1. ASSUME NEW c \in Conns, LoginStep(c) PROVE IInv'
    <2>1. CASE \E a \in Addresses, z \in Zones : OnNewConn(c, a, z)
      BY <2>1, OnNewConnIInv
    <2>2. CASE DC_Key(c) \/ (\E bot \in BotInfo : DC_Supports(c, bot)) \/ DC_Version(c)
      BY <2>2, SessionIInv
    <2>3. CASE \E n \in Nicks : DC_ValidateNickRefused(c, n) \/ DC_ValidateNickCounted(c, n)
      BY <2>3, NotAdmittedIInv
    <2>4. CASE \E n \in Nicks, a \in Addresses, z \in Zones :
                   DC_ValidateNick(c, n, a, z) \/ DC_ValidateNickVetoed(c, n, a, z)
      BY <2>4, AdmittedIInv
    <2>5. CASE DC_MyPass(c) \/ DC_MyPassSet(c) \/ DC_MyPassNotSet(c) \/ RegMyPasswd(c)
      BY <2>5, PasswordIInv
    <2>. QED
      BY <1>1, <2>1, <2>2, <2>3, <2>4, <2>5 DEF LoginStep
  <1>2. ASSUME NEW c \in Conns, MyINFOStep(c) PROVE IInv'
    BY <1>2, MyINFOIInv, EnterIInv DEF MyINFOStep, DC_MyINFOEnter, DC_MyINFOEnterVetoed
  <1>3. ASSUME NEW n \in Nicks, AdminStep(n) PROVE IInv'
    BY <1>3, RegNewIInv, RegDelIInv, RegClassIInv, RegHideShareIInv, RegPassIInv, RegFakeIPIInv
       DEF AdminStep
  <1>4. ASSUME NEW n \in RobotNicks, RobotStep(n) PROVE IInv'
    BY <1>4, RobotIInv, ConstantsAssumption
  <1>5. CASE UNCHANGED vars
    BY <1>5 DEF IInv, TypeOK, Holders, HasUser, vars, connVars, countVars, listVars
  <1>. QED
    BY <1>1, <1>2, <1>3, <1>4, <1>5, CloseIInv DEF Next

(* Every variable keeps its type, whatever the clients, the operators and the plugins do: the
   handlers only touch the user of a connection where there is one. *)
THEOREM TypeCorrect == Spec => []TypeOK
  <1>1. IInv => TypeOK
    BY DEF IInv
  <1>. QED
    BY <1>1, InitIInv, NextIInv, PTL DEF Spec

-----------------------------------------------------------------------------
(* The order of the login steps, and the counters that depend on it *)

(* How far a connection has come.  A connection object is handed out clean; until the nick is
   validated an open connection is not counted, so that it is counted once; $Key ends the wait
   for $Key; and whoever is listed took every step, with no login timeout left. *)
InOrder(c) ==
    /\ sock[c] = "free" => flags[c] = {}
    /\ Open(c) /\ "VALNICK" \notin flags[c] => ~ Admitted(c)
    /\ "KEYOK" \in flags[c] => "KEY" \notin armed[c]
    /\ Listed(c) => /\ LoginDone \subseteq flags[c]
                    /\ Open(c) => armed[c] \cap {"KEY", "LOGIN", "MYINFO"} = {}

LoginOrder == \A c \in Conns : InOrder(c)

(* What a handler of another connection may do to d: have it closed, or end its listing *)
Aside(d) ==
    /\ sock'[d] \in {sock[d], "closing", "dead"}
    /\ UNCHANGED <<flags[d], armed[d]>>
    /\ Listed(d)' => Listed(d)

(* Whoever is left aside stays in order. *)
LEMMA AsideInOrder ==
  ASSUME NEW d \in Conns, InOrder(d), Aside(d)
  PROVE  InOrder(d)'
  BY DEF InOrder, Aside, Open, Admitted

(* The initial state is in order. *)
LEMMA InitInOrder == Init => LoginOrder
  BY DEF Init, LoginOrder, InOrder, Open, Listed, HasUser

-----------------------------------------------------------------------------
(* The login and the end of one connection do not change another. *)
LEMMA OthersAside ==
  ASSUME IInv, NEW c \in Conns, LoginStep(c) \/ CloseStep(c), NEW d \in Conns \ {c}
  PROVE  Aside(d)
  <1>1. CASE LoginStep(c)
    BY <1>1 DEF IInv, TypeOK, Aside, Listed, HasUser, LoginStep, OnNewConn, DC_Key, DC_Supports,
                DC_Version, DC_ValidateNickRefused, DC_ValidateNickCounted, DC_ValidateNick,
                DC_ValidateNickVetoed, Admit, DC_MyPass, DC_MyPassSet, DC_MyPassNotSet,
                RegMyPasswd, PasswordSet
  <1>2. CASE CloseStep(c)
    BY <1>2 DEF IInv, TypeOK, Aside, Listed, HasUser, CloseStep, Reject, OnTimer, CloseNow,
                DeleteConn
  <1>. QED
    BY <1>1, <1>2

(* Being listed is a field of the user that only Enter sets. *)
LEMMA NotListedUser ==
  ASSUME NEW u \in Users
  PROVE  /\ \A a \in [class : Classes, pwdChange : BOOLEAN, hideShare : BOOLEAN] :
               Registered(u, a).inList = u.inList
         /\ \A sh \in Shares, pas \in BOOLEAN : Rated(u, sh, pas).inList = u.inList
  BY DEF Users, Registered, Rated

(* $ValidateNick creates a user who is not listed. *)
LEMMA NewUserNotListed ==
  ASSUME NEW n \in Nicks, NEW bot \in BOOLEAN,
         NEW a \in [class : Classes, pwdChange : BOOLEAN, hideShare : BOOLEAN]
  PROVE  ~ NewUser(n).inList /\ ~ Validated(NewUser(n), a, bot).inList
  <1>1. NewUser(n) \in Users /\ ~ NewUser(n).inList
    BY NewUserType DEF NewUser
  <1>2. ~ Registered(NewUser(n), a).inList
    BY <1>1, NotListedUser
  <1>. QED
    BY <1>1, <1>2 DEF Validated, NewUser

(* The login messages other than $MyINFO take steps in order. *)
LEMMA LoginInOrder ==
  ASSUME IInv, NEW c \in Conns, InOrder(c), LoginStep(c)
  PROVE  InOrder(c)'
  <1>1. CASE \E a \in Addresses, z \in Zones : OnNewConn(c, a, z)
    BY <1>1 DEF IInv, TypeOK, InOrder, OnNewConn, Open, Admitted, Listed, HasUser, LoginDone
  <1>2. CASE DC_Key(c)
    BY <1>2 DEF IInv, TypeOK, InOrder, DC_Key, Open, Admitted, Listed, HasUser, LoginDone
  <1>3. CASE (\E bot \in BotInfo : DC_Supports(c, bot)) \/ DC_Version(c)
    BY <1>3 DEF IInv, TypeOK, InOrder, DC_Supports, DC_Version, Open, Admitted, Listed, HasUser,
                LoginDone
  <1>4. CASE \E n \in Nicks : DC_ValidateNickRefused(c, n) \/ DC_ValidateNickCounted(c, n)
    BY <1>4 DEF IInv, TypeOK, InOrder, DC_ValidateNickRefused, DC_ValidateNickCounted, ValidNick,
                CloseNice, Open, Admitted, Listed, HasUser, LoginDone
  <1>5. CASE \E n \in Nicks, a \in Addresses, z \in Zones :
                 DC_ValidateNick(c, n, a, z) \/ DC_ValidateNickVetoed(c, n, a, z)
    <2>1. PICK n \in Nicks, a \in Addresses, z \in Zones :
                 DC_ValidateNick(c, n, a, z) \/ DC_ValidateNickVetoed(c, n, a, z)
      BY <1>5
    <2>2. ~ Listed(c)'
      <3>1. ~ NewUser(n).inList /\ ~ Validated(NewUser(n), regDB[n], botInfo[c]).inList
        BY NewUserNotListed DEF IInv, TypeOK
      <3>. QED
        BY <2>1, <3>1 DEF DC_ValidateNick, DC_ValidateNickVetoed, Listed, HasUser, IInv, TypeOK
    <2>3. "KEYOK" \in flags'[c] => "KEYOK" \in flags[c]
      <3>1. "KEYOK" \notin AdmitFlags(n)
        BY DEF AdmitFlags
      <3>2. flags'[c] \in {flags[c] \cup AdmitFlags(n) \cup {"VALNICK"},
                           flags[c] \cup AdmitFlags(n)}
        BY <2>1 DEF DC_ValidateNick, DC_ValidateNickVetoed, IInv, TypeOK
      <3>. QED
        BY <3>1, <3>2
    <2>4. "KEY" \in armed'[c] => "KEY" \in armed[c]
      BY <2>1 DEF DC_ValidateNick, DC_ValidateNickVetoed, IInv, TypeOK
    <2>5. sock'[c] # "free" /\ (Open(c)' => "VALNICK" \in flags'[c])
      BY <2>1 DEF DC_ValidateNick, DC_ValidateNickVetoed, Admit, ValidNick, Open, IInv, TypeOK
    <2>. QED
      BY <2>2, <2>3, <2>4, <2>5 DEF InOrder
  <1>6. CASE DC_MyPass(c)
    <2>1. Listed(c)' => Listed(c)
      <3>1. HasUser(c) /\ Registered(user[c], reg[c]).inList = user[c].inList
        BY <1>6, NotListedUser DEF IInv, TypeOK, DC_MyPass, HasUser
      <3>. QED
        BY <1>6, <3>1 DEF IInv, TypeOK, DC_MyPass, Listed
    <2>. QED
      BY <1>6, <2>1 DEF IInv, TypeOK, InOrder, DC_MyPass, Open, Admitted
  <1>7. CASE DC_MyPassSet(c) \/ DC_MyPassNotSet(c) \/ RegMyPasswd(c)
    <2>1. user[c] \in Users
      BY <1>7 DEF IInv, TypeOK, DC_MyPassSet, DC_MyPassNotSet, RegMyPasswd, Listed, HasUser
    <2>2. Listed(c)' => Listed(c)
      <3>1. \A k \in Classes, b \in BOOLEAN :
                [user[c] EXCEPT !.class = k, !.setPass = b].inList = user[c].inList
        BY <2>1 DEF Users
      <3>2. [user[c] EXCEPT !.setPass = FALSE].inList = user[c].inList
        BY <2>1 DEF Users
      <3>3. ASSUME NEW k \in Classes, NEW b \in BOOLEAN, PasswordSet(c, k, b)
            PROVE  user'[c].inList = user[c].inList
        <4>1. user'[c] = [user[c] EXCEPT !.class = k, !.setPass = b]
          BY <3>3 DEF PasswordSet, IInv, TypeOK
        <4>. QED
          BY <3>1, <4>1
      <3>4. CASE DC_MyPassSet(c)
        BY <2>1, <3>3, <3>4, UsersAreUsers DEF DC_MyPassSet, IInv, TypeOK, Listed, HasUser
      <3>5. CASE RegMyPasswd(c)
        BY <2>1, <3>5, UsersAreUsers DEF RegMyPasswd, Listed, HasUser
      <3>6. CASE DC_MyPassNotSet(c)
        BY <2>1, <3>2, <3>6, UsersAreUsers DEF DC_MyPassNotSet, IInv, TypeOK, Listed, HasUser
      <3>. QED
        BY <1>7, <3>4, <3>5, <3>6
    <2>3. /\ UNCHANGED <<sock[c], flags[c]>>
          /\ armed'[c] \subseteq armed[c]
      BY <1>7 DEF IInv, TypeOK, DC_MyPassSet, DC_MyPassNotSet, RegMyPasswd, PasswordSet
    <2>. QED
      BY <2>2, <2>3 DEF InOrder, Open, Admitted
  <1>. QED
    BY <1>1, <1>2, <1>3, <1>4, <1>5, <1>6, <1>7 DEF LoginStep

(* Closing takes no step, DeleteConn undoes them all. *)
LEMMA CloseInOrder ==
  ASSUME IInv, NEW c \in Conns, InOrder(c), CloseStep(c)
  PROVE  InOrder(c)'
  <1>1. CASE DeleteConn(c)
    BY <1>1 DEF IInv, TypeOK, InOrder, DeleteConn, Open, Admitted, Listed, HasUser
  <1>2. CASE Reject(c) \/ (\E t \in TimeOuts : OnTimer(c, t)) \/ CloseNow(c)
    BY <1>2 DEF IInv, TypeOK, InOrder, Reject, OnTimer, CloseNow, CloseNice, NotClosed, Open,
                Admitted, Listed, HasUser
  <1>. QED
    BY <1>1, <1>2 DEF CloseStep

(* $MyINFO of c, the entry apart: a login step at most, no new timeout and no listing *)
LEMMA MyINFOInOrder ==
  ASSUME IInv, NEW c \in Conns, NEW sh \in Shares, NEW pas \in BOOLEAN,
         \/ DC_MyINFOShareRefused(c, sh, pas) \/ DC_MyINFORefused(c, sh, pas)
         \/ DC_MyINFOVetoed(c, sh, pas) \/ DC_MyINFOUpdate(c, sh, pas)
         \/ DC_MyINFOIncomplete(c, sh, pas)
         \/ \E same \in BOOLEAN : DC_MyINFONickTaken(c, sh, pas, same)
  PROVE  /\ InOrder(c) => InOrder(c)'
         /\ \A d \in Conns \ {c} : Aside(d)
  <1>1. MyINFO(c, sh, pas) /\ user' = [user EXCEPT ![c] = Rated(user[c], sh, pas)]
    BY DEF DC_MyINFOShareRefused, DC_MyINFORefused, DC_MyINFOVetoed, DC_MyINFOUpdate,
           DC_MyINFOIncomplete, DC_MyINFONickTaken, MyINFOListed, FirstMyINFO
  <1>2. /\ sock'[c] \in {sock[c], "closing", "dead"}
        /\ \A d \in Conns \ {c} : sock'[d] = sock[d]
    BY DEF DC_MyINFOShareRefused, DC_MyINFORefused, DC_MyINFOVetoed, DC_MyINFOUpdate,
           DC_MyINFOIncomplete, DC_MyINFONickTaken, CloseNice, IInv, TypeOK
  <1>3. /\ flags'[c] \in {flags[c], flags[c] \cup {"MYINFO"}}
        /\ \A d \in Conns \ {c} : flags'[d] = flags[d]
    BY DEF DC_MyINFOShareRefused, DC_MyINFORefused, DC_MyINFOVetoed, DC_MyINFOUpdate,
           DC_MyINFOIncomplete, DC_MyINFONickTaken, FirstMyINFO, IInv, TypeOK
  <1>4. /\ armed'[c] \subseteq armed[c]
        /\ \A d \in Conns \ {c} : armed'[d] = armed[d]
    BY DEF DC_MyINFOShareRefused, DC_MyINFORefused, DC_MyINFOVetoed, DC_MyINFOUpdate,
           DC_MyINFOIncomplete, DC_MyINFONickTaken, IInv, TypeOK
  <1>5. \A d \in Conns : Listed(d)' => Listed(d)
    <2>1. HasUser(c) /\ Rated(user[c], sh, pas).inList = user[c].inList
      BY <1>1, NotListedUser DEF MyINFO, HasUser, IInv, TypeOK
    <2>. QED
      BY <1>1, <2>1 DEF Listed, HasUser, IInv, TypeOK
  <1>6. Open(c)
    BY <1>1 DEF MyINFO
  <1>7. InOrder(c) => InOrder(c)'
    BY <1>2, <1>3, <1>4, <1>5, <1>6 DEF InOrder, Open, Admitted
  <1>8. \A d \in Conns \ {c} : Aside(d)
    BY <1>2, <1>3, <1>4, <1>5 DEF Aside
  <1>. QED
    BY <1>7, <1>8

(* The entry of c: every step is taken, the login timeouts are over. *)
LEMMA EnterInOrder ==
  ASSUME IInv, NEW c \in Conns, NEW sh \in Shares, NEW pas \in BOOLEAN, NEW same \in BOOLEAN,
         NEW outcome \in {"in", "InList", "Login"}, Enter(c, sh, pas, same, outcome)
  PROVE  /\ InOrder(c) => InOrder(c)'
         /\ \A d \in Conns \ {c} : Aside(d)
  <1>1. Open(c) /\ flags' = [flags EXCEPT ![c] = @ \cup {"MYINFO"}]
    BY DEF Enter, FirstMyINFO, MyINFO
  <1>2. LoginDone \subseteq flags'[c]
    BY <1>1 DEF Enter, LoginComplete, IInv, TypeOK
  <1>3. sock'[c] # "free" /\ (Open(c)' => outcome = "in")
    BY DEF Enter, Open, IInv, TypeOK
  <1>4. InOrder(c) => InOrder(c)'
    <2>. SUFFICES ASSUME InOrder(c) PROVE InOrder(c)'
      OBVIOUS
    <2>1. "KEYOK" \in flags[c]
      BY <1>1, <1>2 DEF LoginDone, IInv, TypeOK
    <2>2. "KEY" \notin armed[c]
      BY <2>1 DEF InOrder
    <2>3. "KEY" \notin armed'[c]
      BY <2>2 DEF Enter, IInv, TypeOK
    <2>4. outcome = "in" => "LOGIN" \notin armed'[c] /\ "MYINFO" \notin armed'[c]
      BY DEF Enter, IInv, TypeOK
    <2>5. "VALNICK" \in flags'[c]
      BY <1>2 DEF LoginDone
    <2>. QED
      BY <1>2, <1>3, <2>3, <2>4, <2>5 DEF InOrder
  <1>5. ASSUME NEW d \in Conns \ {c} PROVE Aside(d)
    <2>1. flags'[d] = flags[d]
      BY <1>1 DEF IInv, TypeOK
    <2>2. armed'[d] = armed[d]
      BY DEF Enter, IInv, TypeOK
    <2>3. sock'[d] \in {sock[d], "closing", "dead"}
      BY DEF Enter, TakenOver, CloseNice
    <2>4. Listed(d)' => Listed(d)
      <3>. DEFINE old == userList[user[c].nick]
      <3>1. CASE d = old
        <4>1. user'[d] = [user[d] EXCEPT !.inList = FALSE]
          BY <3>1 DEF Enter
        <4>2. user[d] \in Users
          <5>1. user[c].nick \in Nicks
            BY DEF Enter, FirstMyINFO, MyINFO, HasUser, IInv, TypeOK, Users
          <5>. QED
            BY <3>1, <5>1 DEF IInv, TypeOK, Holders, HasUser
        <4>. QED
          BY <4>1, <4>2 DEF Listed, Users
      <3>2. CASE d # old
        BY <3>2 DEF Enter, Listed, HasUser
      <3>. QED
        BY <3>1, <3>2
    <2>. QED
      BY <2>1, <2>2, <2>3, <2>4 DEF Aside
  <1>. QED
    BY <1>4, <1>5

(* Operators and robots change nobody's login. *)
LEMMA AdminAside ==
  ASSUME IInv, NEW n \in Nicks, AdminStep(n) \/ RobotStep(n), NEW d \in Conns
  PROVE  Aside(d)
  <1>1. CASE RobotStep(n)
    BY <1>1 DEF Aside, Listed, HasUser, RobotStep, AddRobot, DelRobot, connVars
  <1>2. CASE AdminStep(n)
    <2>1. UNCHANGED <<sock, flags, armed>>
      BY <1>2 DEF AdminStep, RegNew, RegDel, RegClass, RegHideShare, RegPassReset, RegPass,
                  RegFakeIP, CmdClass, Store, connVars
    <2>2. CASE UNCHANGED user
      BY <2>1, <2>2 DEF Aside, Listed, HasUser
    <2>3. ASSUME Target(n) \in Conns, NEW u \in Users, u.inList = user[Target(n)].inList,
                 user' = [user EXCEPT ![Target(n)] = u]
          PROVE  Aside(d)
      <3>1. HasUser(Target(n))
        BY <2>3, HolderIsUser, UsersAreUsers DEF HasUser
      <3>. QED
        BY <2>1, <2>3, <3>1 DEF Aside, Listed, HasUser, IInv, TypeOK
    <2>4. ASSUME Target(n) \in Conns, NEW k \in Classes, NEW h \in BOOLEAN
          PROVE  LET u == user[Target(n)]
                 IN  /\ [u EXCEPT !.class = k] \in Users
                     /\ [u EXCEPT !.class = k].inList = u.inList
                     /\ [u EXCEPT !.hide = h] \in Users
                     /\ [u EXCEPT !.hide = h].inList = u.inList
                     /\ [u EXCEPT !.class = k, !.hide = h] \in Users
                     /\ [u EXCEPT !.class = k, !.hide = h].inList = u.inList
      BY <2>4, HolderIsUser DEF Users
    <2>5. CASE \E a \in Accounts : RegNew(n, a)
      <3>1. PICK a \in Accounts : RegNew(n, a)
        BY <2>5
      <3>2. a.class \in Classes
        BY DEF Classes
      <3>. QED
        BY <2>2, <2>3, <2>4, <3>1, <3>2 DEF RegNew
    <2>6. CASE RegDel(n)
      <3>1. Target(n) \in Conns =>
               user' = [user EXCEPT ![Target(n)] =
                           [user[Target(n)] EXCEPT !.class = 0, !.hide = FALSE]]
        BY <2>6 DEF RegDel, IInv, TypeOK
      <3>. QED
        BY <2>2, <2>3, <2>4, <2>6, <3>1, StoredTypes DEF RegDel
    <2>7. CASE \E k \in Classes : RegClass(n, k) \/ CmdClass(n, k)
      BY <2>2, <2>3, <2>4, <2>7 DEF RegClass, CmdClass
    <2>8. CASE \E h \in BOOLEAN : RegHideShare(n, h)
      BY <2>2, <2>3, <2>4, <2>8, StoredTypes DEF RegHideShare
    <2>9. CASE \/ RegPassReset(n) \/ RegPass(n)
              \/ \E a \in Addresses, z \in Zones : RegFakeIP(n, a, z)
      BY <2>2, <2>9 DEF RegPassReset, RegPass, RegFakeIP, connVars
    <2>. QED
      BY <1>2, <2>5, <2>6, <2>7, <2>8, <2>9 DEF AdminStep
  <1>. QED
    BY <1>1, <1>2

-----------------------------------------------------------------------------
(* The order of the login steps *)

(* Every step of the hub keeps the order of the login steps. *)
LEMMA NextInOrder == IInv /\ LoginOrder /\ [Next]_vars => LoginOrder'
  <1>. SUFFICES ASSUME IInv, LoginOrder, [Next]_vars, NEW d \in Conns PROVE InOrder(d)'
    BY DEF LoginOrder
  <1>0. InOrder(d)
    BY DEF LoginOrder
  <1>1. ASSUME NEW c \in Conns, LoginStep(c) \/ CloseStep(c) PROVE InOrder(d)'
    BY <1>0, <1>1, LoginInOrder, CloseInOrder, OthersAside, AsideInOrder
  <1>2. ASSUME NEW c \in Conns, MyINFOStep(c) PROVE InOrder(d)'
    <2>1. PICK sh \in Shares, pas \in BOOLEAN :
              \/ DC_MyINFOShareRefused(c, sh, pas) \/ DC_MyINFORefused(c, sh, pas)
              \/ DC_MyINFOVetoed(c, sh, pas) \/ DC_MyINFOUpdate(c, sh, pas)
              \/ DC_MyINFOIncomplete(c, sh, pas)
              \/ \E same \in BOOLEAN : DC_MyINFONickTaken(c, sh, pas, same)
              \/ \E same \in BOOLEAN, outcome \in {"in", "InList", "Login"} :
                     Enter(c, sh, pas, same, outcome)
      BY <1>2 DEF MyINFOStep, DC_MyINFOEnter, DC_MyINFOEnterVetoed
    <2>. QED
      BY <1>0, <2>1, MyINFOInOrder, EnterInOrder, AsideInOrder
  <1>3. ASSUME NEW n \in Nicks, AdminStep(n) \/ RobotStep(n) PROVE InOrder(d)'
    BY <1>0, <1>3, AdminAside, AsideInOrder
  <1>4. CASE UNCHANGED vars
    BY <1>0, <1>4 DEF InOrder, Open, Admitted, Listed, HasUser, vars, connVars
  <1>. QED
    BY <1>1, <1>2, <1>3, <1>4, ConstantsAssumption DEF Next

(* Every connection takes the login steps in the order the handlers enforce (DC_Key,
   DC_ValidateNick, BeginUserLogin), and is handed out clean after DeleteConn. *)
THEOREM LoginOrderKept == Spec => [](IInv /\ LoginOrder)
  BY InitIInv, NextIInv, InitInOrder, NextInOrder, PTL DEF Spec

(* Only who took every login step is listed, and no login timeout is left for him
   (DoUserLogin checks the steps, AfterUserLogin ends the timeouts). *)
THEOREM ListedUsersAreDone == Spec => []ListedDone
  <1>1. LoginOrder => ListedDone
    BY DEF LoginOrder, InOrder, ListedDone
  <1>. QED
    BY <1>1, LoginOrderKept, PTL

-----------------------------------------------------------------------------
(* The count of users *)

AdmittedConns == {c \in Conns : Admitted(c)}

(* The set of admitted connections and its size, when c joins it or leaves it *)
LEMMA AdmittedFinite == IsFiniteSet(AdmittedConns) /\ Cardinality(AdmittedConns) \in Nat
  <1>1. IsFiniteSet(AdmittedConns)
    BY ConstantsAssumption, FS_Subset DEF AdmittedConns
  <1>. QED
    BY <1>1, FS_CardinalityType

(* DC_ValidateNick: one more connection is admitted and counted. *)
LEMMA OneMore ==
  ASSUME NEW c \in Conns, ~ Admitted(c), AdmittedConns' = AdmittedConns \cup {c},
         UserCountExact, userCountTot' = userCountTot + 1
  PROVE  UserCountExact'
  <1>1. Cardinality(AdmittedConns \cup {c}) = Cardinality(AdmittedConns) + 1
    BY AdmittedFinite, FS_AddElement DEF AdmittedConns
  <1>. QED
    BY <1>1 DEF UserCountExact, AdmittedConns

(* DeleteConn: an admitted connection leaves. *)
LEMMA OneLess ==
  ASSUME NEW c \in Conns, Admitted(c), AdmittedConns' = AdmittedConns \ {c},
         UserCountExact, userCountTot' = userCountTot - 1
  PROVE  UserCountExact'
  <1>1. Cardinality(AdmittedConns \ {c}) = Cardinality(AdmittedConns) - 1
    BY AdmittedFinite, FS_RemoveElement DEF AdmittedConns
  <1>. QED
    BY <1>1 DEF UserCountExact, AdmittedConns

(* Most handlers let nobody in and nobody out. *)
LEMMA SameCount ==
  ASSUME UserCountExact, UNCHANGED userCountTot, \A d \in Conns : Admitted(d)' <=> Admitted(d)
  PROVE  UserCountExact'
  <1>1. AdmittedConns' = AdmittedConns
    BY DEF AdmittedConns
  <1>. QED
    BY <1>1 DEF UserCountExact, AdmittedConns

(* Only $ValidateNick counts, and only a connection that is not counted yet. *)
LEMMA LoginCounts ==
  ASSUME IInv, NEW c \in Conns, InOrder(c), LoginStep(c), UserCountExact
  PROVE  UserCountExact'
  <1>1. ASSUME UNCHANGED userCountTot,
               \/ flags' = flags
               \/ \E f \in {"KEYOK", "SUPPORTS", "VERSION", "PASSWD"} :
                      flags' = [flags EXCEPT ![c] = @ \cup {f}]
        PROVE  UserCountExact'
    <2>1. \A d \in Conns : Admitted(d)' <=> Admitted(d)
      BY <1>1 DEF Admitted, IInv, TypeOK
    <2>. QED
      BY <1>1, <2>1, SameCount
  <1>2. CASE \E n \in Nicks, a \in Addresses, z \in Zones :
                DC_ValidateNick(c, n, a, z) \/ DC_ValidateNickVetoed(c, n, a, z)
    <2>1. PICK n \in Nicks, a \in Addresses, z \in Zones :
                DC_ValidateNick(c, n, a, z) \/ DC_ValidateNickVetoed(c, n, a, z)
      BY <1>2
    <2>2. ValidNick(c, n) /\ userCountTot' = userCountTot + 1
      BY <2>1 DEF DC_ValidateNick, DC_ValidateNickVetoed, Admit
    <2>3. ~ Admitted(c)
      BY <2>2 DEF ValidNick, InOrder
    <2>4. Admitted(c)' /\ \A d \in Conns \ {c} : Admitted(d)' <=> Admitted(d)
      <3>1. CASE DC_ValidateNick(c, n, a, z)
        BY <3>1 DEF DC_ValidateNick, AdmitFlags, Admitted, IInv, TypeOK
      <3>2. CASE DC_ValidateNickVetoed(c, n, a, z)
        BY <3>2 DEF DC_ValidateNickVetoed, AdmitFlags, Admitted, IInv, TypeOK
      <3>. QED
        BY <2>1, <3>1, <3>2
    <2>5. AdmittedConns' = AdmittedConns \cup {c}
      BY <2>4 DEF AdmittedConns
    <2>. QED
      BY <2>2, <2>3, <2>5, OneMore
  <1>3. CASE \E n \in Nicks : DC_ValidateNickRefused(c, n) \/ DC_ValidateNickCounted(c, n)
    <2>1. ASSUME NEW n \in Nicks, DC_ValidateNickRefused(c, n) PROVE UserCountExact'
      BY <2>1, SameCount DEF DC_ValidateNickRefused, Admitted, countVars
    <2>2. ASSUME NEW n \in Nicks, DC_ValidateNickCounted(c, n) PROVE UserCountExact'
      <3>1. ValidNick(c, n) /\ userCountTot' = userCountTot + 1
        BY <2>2 DEF DC_ValidateNickCounted
      <3>2. ~ Admitted(c)
        BY <3>1 DEF ValidNick, InOrder
      <3>3. Admitted(c)' /\ \A d \in Conns \ {c} : Admitted(d)' <=> Admitted(d)
        BY <2>2 DEF DC_ValidateNickCounted, Admitted, IInv, TypeOK
      <3>4. AdmittedConns' = AdmittedConns \cup {c}
        BY <3>3 DEF AdmittedConns
      <3>. QED
        BY <3>1, <3>2, <3>4, OneMore
    <2>. QED
      BY <1>3, <2>1, <2>2
  <1>4. CASE \E a \in Addresses, z \in Zones : OnNewConn(c, a, z)
    BY <1>1, <1>4 DEF OnNewConn, countVars
  <1>5. CASE DC_Key(c) \/ (\E bot \in BotInfo : DC_Supports(c, bot)) \/ DC_Version(c)
    BY <1>1, <1>5 DEF DC_Key, DC_Supports, DC_Version, countVars
  <1>6. CASE DC_MyPass(c) \/ DC_MyPassSet(c) \/ DC_MyPassNotSet(c) \/ RegMyPasswd(c)
    BY <1>1, <1>6 DEF DC_MyPass, DC_MyPassSet, DC_MyPassNotSet, RegMyPasswd, PasswordSet, countVars
  <1>. QED
    BY <1>2, <1>3, <1>4, <1>5, <1>6 DEF LoginStep

(* Only DeleteConn uncounts, and only what was counted. *)
LEMMA CloseCounts ==
  ASSUME IInv, NEW c \in Conns, CloseStep(c), UserCountExact
  PROVE  UserCountExact'
  <1>1. CASE DeleteConn(c)
    <2>1. ~ Admitted(c)' /\ \A d \in Conns \ {c} : Admitted(d)' <=> Admitted(d)
      BY <1>1 DEF DeleteConn, Admitted, IInv, TypeOK
    <2>2. CASE Admitted(c)
      <3>1. AdmittedConns' = AdmittedConns \ {c}
        BY <2>1 DEF AdmittedConns
      <3>2. userCountTot' = userCountTot - 1
        BY <1>1, <2>2 DEF DeleteConn, Counted, Admitted
      <3>. QED
        BY <2>2, <3>1, <3>2, OneLess
    <2>3. CASE ~ Admitted(c)
      BY <1>1, <2>1, <2>3, SameCount DEF DeleteConn, Counted, Admitted, countVars
    <2>. QED
      BY <2>2, <2>3
  <1>2. CASE Reject(c) \/ (\E t \in TimeOuts : OnTimer(c, t)) \/ CloseNow(c)
    BY <1>2, SameCount DEF Reject, OnTimer, CloseNow, Admitted, countVars
  <1>. QED
    BY <1>1, <1>2 DEF CloseStep

(* $MyINFO counts nobody. *)
LEMMA MyINFOCounts ==
  ASSUME IInv, NEW c \in Conns, MyINFOStep(c), UserCountExact
  PROVE  UserCountExact'
  <1>1. PICK sh \in Shares, pas \in BOOLEAN :
            \/ DC_MyINFOShareRefused(c, sh, pas) \/ DC_MyINFORefused(c, sh, pas)
            \/ DC_MyINFOVetoed(c, sh, pas) \/ DC_MyINFOUpdate(c, sh, pas)
            \/ DC_MyINFOIncomplete(c, sh, pas)
            \/ \E same \in BOOLEAN : DC_MyINFONickTaken(c, sh, pas, same)
            \/ \E same \in BOOLEAN, outcome \in {"in", "InList", "Login"} :
                   Enter(c, sh, pas, same, outcome)
    BY DEF MyINFOStep, DC_MyINFOEnter, DC_MyINFOEnterVetoed
  <1>2. /\ UNCHANGED userCountTot
        /\ flags' = flags \/ flags' = [flags EXCEPT ![c] = @ \cup {"MYINFO"}]
    BY <1>1 DEF DC_MyINFOShareRefused, DC_MyINFORefused, DC_MyINFOVetoed, DC_MyINFOUpdate,
           DC_MyINFOIncomplete, DC_MyINFONickTaken, Enter, MyINFOListed, FirstMyINFO, MyINFO
  <1>3. \A d \in Conns : Admitted(d)' <=> Admitted(d)
    BY <1>2 DEF Admitted, IInv, TypeOK
  <1>. QED
    BY <1>2, <1>3, SameCount

(* Operators and robots count nobody. *)
LEMMA AdminCounts ==
  ASSUME NEW n \in Nicks, AdminStep(n) \/ RobotStep(n), UserCountExact
  PROVE  UserCountExact'
  <1>1. UNCHANGED <<userCountTot, flags>>
    BY DEF AdminStep, RegNew, RegDel, RegClass, RegHideShare, RegPassReset, RegPass, RegFakeIP,
           CmdClass, Store, RobotStep, AddRobot, DelRobot, connVars, countVars
  <1>. QED
    BY <1>1, SameCount DEF Admitted

(* mUserCountTot is the number of connections that were let in and still exist, for any number
   of connections and in whatever way each of them ends: DC_ValidateNick counts a connection
   once, because a refused one is closed, and DeleteConn goes by mLogStatus, not by the user. *)
THEOREM UserCountIsExact == Spec => []UserCountExact
  <1>1. Init => UserCountExact
    <2>1. ASSUME Init PROVE AdmittedConns = {} /\ userCountTot = 0
      BY <2>1 DEF Init, AdmittedConns, Admitted
    <2>. QED
      BY <2>1, FS_EmptySet DEF UserCountExact, AdmittedConns
  <1>2. IInv /\ LoginOrder /\ UserCountExact /\ [Next]_vars => UserCountExact'
    <2>. SUFFICES ASSUME IInv, LoginOrder, UserCountExact, [Next]_vars PROVE UserCountExact'
      OBVIOUS
    <2>1. CASE UNCHANGED vars
      BY <2>1, SameCount DEF Admitted, vars, connVars, countVars
    <2>. QED
      BY <2>1, LoginCounts, CloseCounts, MyINFOCounts, AdminCounts, ConstantsAssumption
         DEF Next, LoginOrder
  <1>. QED
    BY <1>1, <1>2, LoginOrderKept, PTL DEF Spec


-----------------------------------------------------------------------------
(* What counts c in the zone z *)
CountedIn(c, z) == Admitted(c) /\ zone[c] = z

(* Whoever is connected or counted has a zone. *)
ZoneKnown == \A c \in Conns : Open(c) \/ Admitted(c) => zone[c] \in Zones

ZoneInv == ZoneKnown /\ ZoneCountExact

(* A step in which c alone may come, go or move counts right if mUserCount of every zone grows by
   one where c was not and is, and shrinks by one where c was and is not. *)
LEMMA ZoneStep ==
  ASSUME NEW c \in Conns, NEW z \in Zones, userCount[z] \in Int,
         \A d \in Conns \ {c} : CountedIn(d, z)' <=> CountedIn(d, z),
         userCount[z] = Cardinality({d \in Conns : CountedIn(d, z)}),
         ~ CountedIn(c, z) /\ CountedIn(c, z)' => userCount'[z] = userCount[z] + 1,
         CountedIn(c, z) /\ ~ CountedIn(c, z)' => userCount'[z] = userCount[z] - 1,
         (CountedIn(c, z) <=> CountedIn(c, z)') => userCount'[z] = userCount[z]
  PROVE  userCount'[z] = Cardinality({d \in Conns : CountedIn(d, z)}')
  <1>. DEFINE Here == {d \in Conns : CountedIn(d, z)}
  <1>1. IsFiniteSet(Here)
    BY ConstantsAssumption, FS_Subset
  <1>2. CASE ~ CountedIn(c, z) /\ CountedIn(c, z)'
    <2>1. Here' = Here \cup {c} /\ c \notin Here
      BY <1>2
    <2>2. Cardinality(Here \cup {c}) = Cardinality(Here) + 1
      BY <1>1, <2>1, FS_AddElement
    <2>. QED
      BY <1>2, <2>1, <2>2
  <1>3. CASE CountedIn(c, z) /\ ~ CountedIn(c, z)'
    <2>1. Here' = Here \ {c} /\ c \in Here
      BY <1>3
    <2>2. Cardinality(Here \ {c}) = Cardinality(Here) - 1
      BY <1>1, <2>1, FS_RemoveElement
    <2>. QED
      BY <1>3, <2>1, <2>2
  <1>4. CASE CountedIn(c, z) <=> CountedIn(c, z)'
    <2>1. Here' = Here
      BY <1>4
    <2>. QED
      BY <1>4, <2>1
  <1>. QED
    BY <1>2, <1>3, <1>4

(* Nobody comes, goes or moves in most handlers. *)
LEMMA ZoneStutters ==
  ASSUME ZoneInv, UNCHANGED <<zone, userCount>>,
         \A d \in Conns : (Open(d)' => Open(d)) /\ (Admitted(d)' <=> Admitted(d))
  PROVE  ZoneInv'
  <1>1. ZoneKnown'
    BY DEF ZoneInv, ZoneKnown
  <1>2. \A z \in Zones : {d \in Conns : Admitted(d) /\ zone[d] = z}'
                             = {d \in Conns : Admitted(d) /\ zone[d] = z}
    OBVIOUS
  <1>. QED
    BY <1>1, <1>2 DEF ZoneInv, ZoneCountExact

(* The lemma above for all zones *)
LEMMA ZoneSteps ==
  ASSUME IInv, ZoneInv, NEW c \in Conns, ZoneKnown',
         \A d \in Conns \ {c}, z \in Zones : CountedIn(d, z)' <=> CountedIn(d, z),
         \A z \in Zones :
             userCount'[z] = IF CountedIn(c, z) THEN IF CountedIn(c, z)' THEN userCount[z]
                                                     ELSE userCount[z] - 1
                             ELSE IF CountedIn(c, z)' THEN userCount[z] + 1 ELSE userCount[z]
  PROVE  ZoneInv'
  <1>1. ASSUME NEW z \in Zones
        PROVE  userCount'[z] = Cardinality({d \in Conns : CountedIn(d, z)}')
    <2>1. userCount[z] = Cardinality({d \in Conns : CountedIn(d, z)})
      BY DEF ZoneInv, ZoneCountExact, CountedIn
    <2>2. /\ userCount[z] \in Int
          /\ \A d \in Conns \ {c} : CountedIn(d, z)' <=> CountedIn(d, z)
          /\ ~ CountedIn(c, z) /\ CountedIn(c, z)' => userCount'[z] = userCount[z] + 1
          /\ CountedIn(c, z) /\ ~ CountedIn(c, z)' => userCount'[z] = userCount[z] - 1
          /\ (CountedIn(c, z) <=> CountedIn(c, z)') => userCount'[z] = userCount[z]
      BY DEF IInv, TypeOK
    <2>. QED
      BY <2>1, <2>2, ZoneStep
  <1>. QED
    BY <1>1 DEF ZoneInv, ZoneCountExact, CountedIn


(* $ValidateNick counts the connection in the zone it ends up in. *)
LEMMA LoginZones ==
  ASSUME IInv, ZoneInv, NEW c \in Conns, InOrder(c), LoginStep(c)
  PROVE  ZoneInv'
  <1>1. ASSUME UNCHANGED <<zone, userCount>>, \A d \in Conns : Open(d)' => Open(d),
               \/ flags' = flags
               \/ \E f \in {"KEYOK", "SUPPORTS", "VERSION", "PASSWD"} :
                      flags' = [flags EXCEPT ![c] = @ \cup {f}]
        PROVE  ZoneInv'
    <2>1. \A d \in Conns : Admitted(d)' <=> Admitted(d)
      BY <1>1 DEF Admitted, IInv, TypeOK
    <2>. QED
      BY <1>1, <2>1, ZoneStutters
  <1>2. ASSUME NEW n \in Nicks, NEW a \in Addresses, NEW z \in Zones,
               DC_ValidateNick(c, n, a, z) \/ DC_ValidateNickVetoed(c, n, a, z)
        PROVE  ZoneInv'
    <2>1. /\ Admit(c, n, a, z)
          /\ \A d \in Conns : Open(d)' => Open(d)
      BY <1>2 DEF DC_ValidateNick, DC_ValidateNickVetoed, Open, Admit, IInv, TypeOK
    <2>2. ~ Admitted(c) /\ zone[c] \in Zones
      BY <2>1 DEF Admit, ValidNick, InOrder, ZoneInv, ZoneKnown
    <2>3. Admitted(c)' /\ \A d \in Conns \ {c} : Admitted(d)' <=> Admitted(d)
      <3>1. CASE DC_ValidateNick(c, n, a, z)
        BY <3>1 DEF DC_ValidateNick, AdmitFlags, Admitted, IInv, TypeOK
      <3>2. CASE DC_ValidateNickVetoed(c, n, a, z)
        BY <3>2 DEF DC_ValidateNickVetoed, AdmitFlags, Admitted, IInv, TypeOK
      <3>. QED
        BY <1>2, <3>1, <3>2
    <2>4. zone'[c] = z /\ \A d \in Conns \ {c} : zone'[d] = zone[d]
      BY <2>1 DEF Admit, IInv, TypeOK
    <2>5. \A y \in Zones : userCount'[y] = IF y = z THEN userCount[y] + 1 ELSE userCount[y]
      BY <2>1, <2>2 DEF Admit, MoveZone, IInv, TypeOK
    <2>6. ZoneKnown'
      BY <2>1, <2>3, <2>4 DEF ZoneInv, ZoneKnown
    <2>7. \A d \in Conns \ {c}, y \in Zones : CountedIn(d, y)' <=> CountedIn(d, y)
      BY <2>3, <2>4 DEF CountedIn
    <2>8. \A y \in Zones : ~ CountedIn(c, y) /\ (CountedIn(c, y)' <=> y = z)
      BY <2>2, <2>3, <2>4 DEF CountedIn
    <2>. QED
      BY <2>5, <2>6, <2>7, <2>8, ZoneSteps
  <1>3. ASSUME NEW n \in Nicks, DC_ValidateNickCounted(c, n) PROVE ZoneInv'
    <2>1. /\ ValidNick(c, n)
          /\ \A d \in Conns : Open(d)' => Open(d)
          /\ UNCHANGED zone
      BY <1>3 DEF DC_ValidateNickCounted, ValidNick, Open, CloseNice, IInv, TypeOK
    <2>2. ~ Admitted(c) /\ zone[c] \in Zones
      BY <2>1 DEF ValidNick, InOrder, ZoneInv, ZoneKnown
    <2>3. Admitted(c)' /\ \A d \in Conns \ {c} : Admitted(d)' <=> Admitted(d)
      BY <1>3 DEF DC_ValidateNickCounted, Admitted, IInv, TypeOK
    <2>4. \A y \in Zones : userCount'[y] = IF y = zone[c] THEN userCount[y] + 1 ELSE userCount[y]
      BY <1>3 DEF DC_ValidateNickCounted, IInv, TypeOK
    <2>5. ZoneKnown'
      BY <2>1, <2>2, <2>3 DEF ZoneInv, ZoneKnown
    <2>6. \A d \in Conns \ {c}, y \in Zones : CountedIn(d, y)' <=> CountedIn(d, y)
      BY <2>1, <2>3 DEF CountedIn
    <2>7. \A y \in Zones : ~ CountedIn(c, y) /\ (CountedIn(c, y)' <=> y = zone[c])
      BY <2>1, <2>2, <2>3 DEF CountedIn
    <2>. QED
      BY <2>4, <2>5, <2>6, <2>7, ZoneSteps
  <1>4. ASSUME NEW n \in Nicks, DC_ValidateNickRefused(c, n) PROVE ZoneInv'
    <2>1. /\ UNCHANGED <<zone, userCount, flags>>
          /\ \A d \in Conns : Open(d)' => Open(d)
      BY <1>4 DEF DC_ValidateNickRefused, Open, CloseNice, countVars, IInv, TypeOK
    <2>. QED
      BY <2>1, ZoneStutters DEF Admitted
  <1>5. ASSUME NEW a \in Addresses, NEW z \in Zones, OnNewConn(c, a, z) PROVE ZoneInv'
    <2>1. /\ zone'[c] = z /\ \A d \in Conns \ {c} : zone'[d] = zone[d]
          /\ \A d \in Conns \ {c} : Open(d)' => Open(d)
          /\ UNCHANGED <<flags, userCount>>
      BY <1>5 DEF OnNewConn, Open, countVars, IInv, TypeOK
    <2>2. ~ Admitted(c) /\ \A d \in Conns : Admitted(d)' <=> Admitted(d)
      BY <1>5, <2>1 DEF OnNewConn, InOrder, Admitted
    <2>3. ZoneKnown'
      BY <2>1, <2>2 DEF ZoneInv, ZoneKnown
    <2>4. \A d \in Conns \ {c}, y \in Zones : CountedIn(d, y)' <=> CountedIn(d, y)
      BY <2>1, <2>2 DEF CountedIn
    <2>5. \A y \in Zones : ~ CountedIn(c, y) /\ ~ CountedIn(c, y)'
      BY <2>2 DEF CountedIn
    <2>. QED
      BY <2>1, <2>3, <2>4, <2>5, ZoneSteps
  <1>6. CASE DC_Key(c) \/ (\E bot \in BotInfo : DC_Supports(c, bot)) \/ DC_Version(c)
    BY <1>1, <1>6 DEF DC_Key, DC_Supports, DC_Version, Open, countVars
  <1>7. CASE DC_MyPass(c) \/ DC_MyPassSet(c) \/ DC_MyPassNotSet(c) \/ RegMyPasswd(c)
    BY <1>1, <1>7 DEF DC_MyPass, DC_MyPassSet, DC_MyPassNotSet, RegMyPasswd, PasswordSet, Open,
                      countVars
  <1>. QED
    BY <1>2, <1>3, <1>4, <1>5, <1>6, <1>7 DEF LoginStep

(* DeleteConn gives the place in the zone back in which the connection is by then. *)
LEMMA CloseZones ==
  ASSUME IInv, ZoneInv, NEW c \in Conns, CloseStep(c)
  PROVE  ZoneInv'
  <1>1. CASE DeleteConn(c)
    <2>1. /\ ~ Admitted(c)' /\ ~ Open(c)'
          /\ \A d \in Conns \ {c} : /\ Admitted(d)' <=> Admitted(d)
                                    /\ Open(d)' => Open(d)
                                    /\ zone'[d] = zone[d]
      BY <1>1 DEF DeleteConn, Admitted, Open, IInv, TypeOK
    <2>2. \A z \in Zones : userCount'[z] = IF CountedIn(c, z) THEN userCount[z] - 1
                                           ELSE userCount[z]
      BY <1>1 DEF DeleteConn, Counted, CountedIn, Admitted, countVars, IInv, TypeOK
    <2>3. ZoneKnown'
      BY <2>1 DEF ZoneInv, ZoneKnown
    <2>4. \A d \in Conns \ {c}, z \in Zones : CountedIn(d, z)' <=> CountedIn(d, z)
      BY <2>1 DEF CountedIn
    <2>5. \A z \in Zones : ~ CountedIn(c, z)'
      BY <2>1 DEF CountedIn
    <2>. QED
      BY <2>2, <2>3, <2>4, <2>5, ZoneSteps
  <1>2. CASE Reject(c) \/ (\E t \in TimeOuts : OnTimer(c, t)) \/ CloseNow(c)
    <2>1. /\ UNCHANGED <<zone, userCount, flags>>
          /\ \A d \in Conns : Open(d)' => Open(d)
      BY <1>2 DEF Reject, OnTimer, CloseNow, CloseNice, Open, countVars, IInv, TypeOK
    <2>. QED
      BY <2>1, ZoneStutters DEF Admitted
  <1>. QED
    BY <1>1, <1>2 DEF CloseStep

(* $MyINFO moves nobody from zone to zone. *)
LEMMA MyINFOZones ==
  ASSUME IInv, ZoneInv, NEW c \in Conns, MyINFOStep(c)
  PROVE  ZoneInv'
  <1>1. PICK sh \in Shares, pas \in BOOLEAN :
            \/ DC_MyINFOShareRefused(c, sh, pas) \/ DC_MyINFORefused(c, sh, pas)
            \/ DC_MyINFOVetoed(c, sh, pas) \/ DC_MyINFOUpdate(c, sh, pas)
            \/ DC_MyINFOIncomplete(c, sh, pas)
            \/ \E same \in BOOLEAN : DC_MyINFONickTaken(c, sh, pas, same)
            \/ \E same \in BOOLEAN, outcome \in {"in", "InList", "Login"} :
                   Enter(c, sh, pas, same, outcome)
    BY DEF MyINFOStep, DC_MyINFOEnter, DC_MyINFOEnterVetoed
  <1>2. /\ UNCHANGED <<userCount, zone>> /\ Open(c)
        /\ flags' = flags \/ flags' = [flags EXCEPT ![c] = @ \cup {"MYINFO"}]
    BY <1>1 DEF DC_MyINFOShareRefused, DC_MyINFORefused, DC_MyINFOVetoed, DC_MyINFOUpdate,
           DC_MyINFOIncomplete, DC_MyINFONickTaken, Enter, MyINFOListed, FirstMyINFO, MyINFO
  <1>3. \A d \in Conns : Admitted(d)' <=> Admitted(d)
    BY <1>2 DEF Admitted, IInv, TypeOK
  <1>4. \A d \in Conns \ {c} : Open(d)' => Open(d)
    <2>1. CASE \E same \in BOOLEAN, outcome \in {"in", "InList", "Login"} :
                   Enter(c, sh, pas, same, outcome)
      BY <2>1 DEF Enter, TakenOver, CloseNice, Open
    <2>. QED
      BY <1>1, <2>1 DEF DC_MyINFOShareRefused, DC_MyINFORefused, DC_MyINFOVetoed,
             DC_MyINFOUpdate, DC_MyINFOIncomplete, DC_MyINFONickTaken, CloseNice, Open, IInv,
             TypeOK
  <1>. QED
    BY <1>2, <1>3, <1>4, ZoneStutters

(* Only a fake address moves a user, who was let in, from one zone to another. *)
LEMMA AdminZones ==
  ASSUME IInv, ZoneInv, NEW n \in Nicks, AdminStep(n) \/ RobotStep(n)
  PROVE  ZoneInv'
  <1>1. ASSUME NEW a \in Addresses, NEW z \in Zones, RegFakeIP(n, a, z) PROVE ZoneInv'
    <2>1. PICK d \in Conns : d = Target(n)
      BY <1>1 DEF RegFakeIP
    <2>2. Admitted(d) /\ zone[d] \in Zones
      BY <2>1 DEF Target, IInv, Holders, Admitted, LoginDone, ZoneInv, ZoneKnown
    <2>3. /\ UNCHANGED <<flags, sock>>
          /\ zone' = [zone EXCEPT ![d] = z]
          /\ userCount' = MoveZone(userCount, zone[d], z)
      BY <1>1, <2>1 DEF RegFakeIP, Store, OnTarget
    <2>4. /\ zone'[d] = z
          /\ \A e \in Conns \ {d} : zone'[e] = zone[e]
          /\ \A e \in Conns : (Admitted(e)' <=> Admitted(e)) /\ (Open(e)' <=> Open(e))
      BY <2>3 DEF Admitted, Open, IInv, TypeOK
    <2>5. \A y \in Zones : userCount'[y] = IF y = zone[d] THEN IF y = z THEN userCount[y]
                                                               ELSE userCount[y] - 1
                                           ELSE IF y = z THEN userCount[y] + 1 ELSE userCount[y]
      BY <2>2, <2>3 DEF MoveZone, IInv, TypeOK
    <2>6. ZoneKnown'
      BY <2>4 DEF ZoneInv, ZoneKnown
    <2>7. \A e \in Conns \ {d}, y \in Zones : CountedIn(e, y)' <=> CountedIn(e, y)
      BY <2>4 DEF CountedIn
    <2>8. \A y \in Zones : (CountedIn(d, y) <=> y = zone[d]) /\ (CountedIn(d, y)' <=> y = z)
      BY <2>2, <2>4 DEF CountedIn
    <2>. QED
      BY <2>5, <2>6, <2>7, <2>8, ZoneSteps
  <1>2. CASE ~ \E a \in Addresses, z \in Zones : RegFakeIP(n, a, z)
    <2>1. UNCHANGED <<zone, userCount, flags, sock>>
      BY <1>2 DEF AdminStep, RegNew, RegDel, RegClass, RegHideShare, RegPassReset, RegPass,
             CmdClass, Store, RobotStep, AddRobot, DelRobot, connVars, countVars
    <2>. QED
      BY <2>1, ZoneStutters DEF Admitted, Open
  <1>. QED
    BY <1>1, <1>2

(* Every connection has a zone, and every zone counts its users. *)
LEMMA ZoneInvKept == Spec => []ZoneInv
  <1>1. Init => ZoneInv
    <2>. SUFFICES ASSUME Init PROVE ZoneInv
      OBVIOUS
    <2>1. ZoneKnown
      BY DEF Init, ZoneKnown, Open, Admitted
    <2>2. ASSUME NEW z \in Zones
          PROVE  userCount[z] = Cardinality({c \in Conns : Admitted(c) /\ zone[c] = z})
      <3>1. {c \in Conns : Admitted(c) /\ zone[c] = z} = {}
        BY DEF Init, Admitted
      <3>2. userCount[z] = 0
        BY DEF Init
      <3>. QED
        BY <3>1, <3>2, FS_EmptySet
    <2>. QED
      BY <2>1, <2>2 DEF ZoneInv, ZoneCountExact
  <1>2. IInv /\ LoginOrder /\ ZoneInv /\ [Next]_vars => ZoneInv'
    <2>. SUFFICES ASSUME IInv, LoginOrder, ZoneInv, [Next]_vars PROVE ZoneInv'
      OBVIOUS
    <2>1. CASE UNCHANGED vars
      BY <2>1, ZoneStutters DEF Admitted, Open, vars, connVars, countVars
    <2>. QED
      BY <2>1, LoginZones, CloseZones, MyINFOZones, AdminZones, ConstantsAssumption
         DEF Next, LoginOrder
  <1>. QED
    BY <1>1, <1>2, LoginOrderKept, PTL DEF Spec

(* mUserCount of a zone is the number of connections that were let in and are in that zone, for
   any number of zones: a user is counted in the zone of the real address, moved with the fake
   one (ResetGeo), and taken from the zone he is in when DeleteConn disposes of him. *)
THEOREM ZoneCountsAreExact == Spec => []ZoneCountExact
  <1>1. ZoneInv => ZoneCountExact
    BY DEF ZoneInv
  <1>. QED
    BY <1>1, ZoneInvKept, PTL

-----------------------------------------------------------------------------
(* An unregistered user who takes a place *)
Guest(c) == Admitted(c) /\ TheoricalClass(reg[c], botInfo[c]) = 0

(* A pinger is known by his $Supports, which comes once. *)
BotKnown == \A c \in Conns : "SUPPORTS" \notin flags[c] => ~ botInfo[c]

LimitInv ==
    /\ BotKnown
    /\ Cardinality({c \in Conns : Guest(c)}) <= MaxUsers
    /\ \A z \in Zones : Cardinality({c \in Conns : Guest(c) /\ zone[c] = z}) <= MaxZoneUsers

(* No accounts are deleted: the registered user of a deleted account goes on as a guest. *)
AccountsLast == "del" \notin AdminOps

(* A part of the connections is finite, and no larger than what it is a part of. *)
LEMMA FewerConns ==
  ASSUME NEW S \in SUBSET Conns, NEW T \in SUBSET S
  PROVE  /\ IsFiniteSet(S) /\ Cardinality(S) \in Nat /\ Cardinality(T) \in Nat
         /\ Cardinality(T) <= Cardinality(S)
  BY ConstantsAssumption, FS_Subset, FS_CardinalityType

LEMMA OneConnMore ==
  ASSUME NEW S \in SUBSET Conns, NEW c \in Conns
  PROVE  Cardinality(S \cup {c}) <= Cardinality(S) + 1
  <1>1. IsFiniteSet(S) /\ Cardinality(S) \in Nat
    BY ConstantsAssumption, FS_Subset, FS_CardinalityType
  <1>2. Cardinality(S \cup {c}) = IF c \in S THEN Cardinality(S) ELSE Cardinality(S) + 1
    BY <1>1, FS_AddElement
  <1>. QED
    BY <1>1, <1>2

(* Limits hold on when nobody becomes a guest, and nobody who is one moves. *)
LEMMA NoNewGuests ==
  ASSUME LimitInv, BotKnown', \A c \in Conns : Guest(c)' => Guest(c) /\ zone'[c] = zone[c]
  PROVE  LimitInv'
  <1>. DEFINE Guests == {c \in Conns : Guest(c)}
              GuestsIn(z) == {c \in Conns : Guest(c) /\ zone[c] = z}
  <1>1. Cardinality(Guests)' <= MaxUsers
    <2>1. Guests' \in SUBSET Guests
      OBVIOUS
    <2>2. Guests \in SUBSET Conns
      OBVIOUS
    <2>3. Cardinality(Guests') <= Cardinality(Guests) /\ Cardinality(Guests) <= MaxUsers
      BY <2>1, <2>2, FewerConns DEF LimitInv
    <2>4. Cardinality(Guests') \in Nat /\ Cardinality(Guests) \in Nat
      BY <2>1, <2>2, FewerConns
    <2>. QED
      BY <2>3, <2>4, ConstantsAssumption
  <1>2. ASSUME NEW z \in Zones PROVE Cardinality({c \in Conns : Guest(c) /\ zone[c] = z}') <= MaxZoneUsers
    <2>. DEFINE Here == {c \in Conns : Guest(c) /\ zone[c] = z}
    <2>1. Here' \in SUBSET Here
      OBVIOUS
    <2>2. Here \in SUBSET Conns
      OBVIOUS
    <2>3. Cardinality(Here') <= Cardinality(Here) /\ Cardinality(Here) <= MaxZoneUsers
      BY <2>1, <2>2, FewerConns DEF LimitInv
    <2>4. Cardinality(Here') \in Nat /\ Cardinality(Here) \in Nat
      BY <2>1, <2>2, FewerConns
    <2>. QED
      BY <2>3, <2>4, ConstantsAssumption
  <1>. QED
    BY <1>1, <1>2 DEF LimitInv

(* Whom $ValidateNick lets in as a guest takes a place that is free, in the hub and in his zone. *)
LEMMA GuestEnters ==
  ASSUME IInv, UserCountExact, ZoneInv, LimitInv, BotKnown', NEW c \in Conns, NEW n \in Nicks,
         ValidNick(c, n), zone[c] \in Zones, reg'[c] = regDB[n], botInfo'[c] = botInfo[c],
         Guest(c)' => zone'[c] = zone[c],
         \A d \in Conns \ {c} : Guest(d)' => Guest(d) /\ zone'[d] = zone[d]
  PROVE  LimitInv'
  <1>1. CASE ~ Guest(c)'
    BY <1>1, NoNewGuests
  <1>2. CASE Guest(c)'
    <2>. DEFINE All == {d \in Conns : Admitted(d)}
                Guests == {d \in Conns : Guest(d)}
    <2>1. /\ userCountTot < MaxUsers /\ userCount[zone[c]] < MaxZoneUsers
      <3>1. TheoricalClass(regDB[n], botInfo[c]) = 0
        BY <1>2 DEF Guest
      <3>2. ~ LimitReached(0, zone[c])
        BY <3>1 DEF ValidNick
      <3>3. ~ (userCountTot >= MaxUsers + 0) /\ ~ (userCount[zone[c]] >= MaxZoneUsers + 0)
        BY <3>2, ConstantsAssumption DEF LimitReached, Extra
      <3>4. userCountTot \in Int /\ userCount[zone[c]] \in Int
        BY DEF IInv, TypeOK
      <3>5. MaxUsers \in Int /\ MaxZoneUsers \in Int
        BY ConstantsAssumption
      <3>. QED
        BY <3>3, <3>4, <3>5
    <2>2. Cardinality(Guests') <= MaxUsers
      <3>1. Guests' \in SUBSET (All \cup {c}) /\ All \cup {c} \in SUBSET Conns /\ All \in SUBSET Conns
        BY DEF Guest
      <3>2. IsFiniteSet(All) /\ Cardinality(All) = userCountTot /\ Cardinality(All) \in Nat
        <4>1. All \in SUBSET Conns /\ {} \in SUBSET All
          OBVIOUS
        <4>. QED
          BY <4>1, FewerConns DEF UserCountExact
      <3>3. Cardinality(All \cup {c}) <= Cardinality(All) + 1
        BY <3>1, OneConnMore
      <3>4. /\ Cardinality(Guests') <= Cardinality(All \cup {c})
            /\ Cardinality(Guests') \in Nat /\ Cardinality(All \cup {c}) \in Nat
        BY <3>1, FewerConns
      <3>. QED
        BY <2>1, <3>2, <3>3, <3>4, ConstantsAssumption
    <2>3. ASSUME NEW z \in Zones
          PROVE  Cardinality({d \in Conns : Guest(d) /\ zone[d] = z}') <= MaxZoneUsers
      <3>. DEFINE Here == {d \in Conns : Guest(d) /\ zone[d] = z}
                  AllHere == {d \in Conns : Admitted(d) /\ zone[d] = z}
      <3>0. Here \in SUBSET Conns /\ Here' \in SUBSET Conns
        OBVIOUS
      <3>1. CASE z = zone[c]
        <4>1. /\ Here' \in SUBSET (AllHere \cup {c}) /\ AllHere \cup {c} \in SUBSET Conns
              /\ AllHere \in SUBSET Conns
          BY DEF Guest
        <4>2. IsFiniteSet(AllHere) /\ Cardinality(AllHere) = userCount[z] /\ Cardinality(AllHere) \in Nat
          <5>1. AllHere \in SUBSET Conns /\ {} \in SUBSET AllHere
            OBVIOUS
          <5>. QED
            BY <5>1, FewerConns DEF ZoneInv, ZoneCountExact
        <4>3. Cardinality(AllHere \cup {c}) <= Cardinality(AllHere) + 1
          BY <4>1, OneConnMore
        <4>4. /\ Cardinality(Here') <= Cardinality(AllHere \cup {c})
              /\ Cardinality(Here') \in Nat /\ Cardinality(AllHere \cup {c}) \in Nat
          BY <4>1, FewerConns
        <4>. QED
          BY <2>1, <3>1, <4>2, <4>3, <4>4, ConstantsAssumption
      <3>2. CASE z # zone[c]
        <4>1. Here' \in SUBSET Here
          BY <1>2, <3>2
        <4>2. /\ Cardinality(Here') <= Cardinality(Here) /\ Cardinality(Here) <= MaxZoneUsers
              /\ Cardinality(Here') \in Nat /\ Cardinality(Here) \in Nat
          BY <3>0, <4>1, FewerConns DEF LimitInv
        <4>. QED
          BY <4>2, ConstantsAssumption
      <3>. QED
        BY <3>1, <3>2
    <2>. QED
      BY <2>2, <2>3 DEF LimitInv
  <1>. QED
    BY <1>1, <1>2


(* What a connection was let in as stays, or it is registered by now. *)
LEMMA StayingGuests ==
  ASSUME LimitInv, BotKnown', UNCHANGED <<botInfo, reg>>,
         \A d \in Conns : (Admitted(d)' <=> Admitted(d)) /\ (Admitted(d) => zone'[d] = zone[d])
  PROVE  LimitInv'
  BY NoNewGuests DEF Guest

LEMMA LoginLimits ==
  ASSUME IInv, UserCountExact, ZoneInv, LimitInv, NEW c \in Conns, InOrder(c), LoginStep(c)
  PROVE  LimitInv'
  <1>1. ASSUME NEW n \in Nicks, NEW a \in Addresses, NEW z \in Zones,
               DC_ValidateNick(c, n, a, z) \/ DC_ValidateNickVetoed(c, n, a, z)
        PROVE  LimitInv'
    <2>1. /\ Admit(c, n, a, z)
          /\ ValidNick(c, n)
          /\ UNCHANGED botInfo
      BY <1>1 DEF DC_ValidateNick, DC_ValidateNickVetoed, Admit
    <2>2. zone[c] \in Zones
      BY <2>1 DEF ValidNick, ZoneInv, ZoneKnown
    <2>3. \A d \in Conns : flags[d] \subseteq flags'[d]
      BY <1>1 DEF DC_ValidateNick, DC_ValidateNickVetoed, IInv, TypeOK
    <2>4. BotKnown'
      BY <2>1, <2>3 DEF LimitInv, BotKnown
    <2>5. /\ reg'[c] = regDB[n] /\ zone'[c] = z
          /\ \A d \in Conns \ {c} : reg'[d] = reg[d] /\ zone'[d] = zone[d]
          /\ regDB[n].class = 0 => z = zone[c]
      BY <2>1 DEF Admit, IInv, TypeOK
    <2>6. \A d \in Conns \ {c} : flags'[d] = flags[d]
      BY <1>1 DEF DC_ValidateNick, DC_ValidateNickVetoed, IInv, TypeOK
    <2>7. Guest(c)' => zone'[c] = zone[c]
      BY <2>5 DEF Guest, TheoricalClass, Pinger
    <2>8. \A d \in Conns \ {c} : Guest(d)' => Guest(d) /\ zone'[d] = zone[d]
      BY <2>1, <2>5, <2>6 DEF Guest, Admitted
    <2>. QED
      BY <2>1, <2>2, <2>4, <2>5, <2>7, <2>8, GuestEnters
  <1>2. ASSUME NEW n \in Nicks, DC_ValidateNickCounted(c, n) PROVE LimitInv'
    <2>1. ValidNick(c, n) /\ UNCHANGED <<botInfo, zone>>
      BY <1>2 DEF DC_ValidateNickCounted
    <2>2. zone[c] \in Zones
      BY <2>1 DEF ValidNick, ZoneInv, ZoneKnown
    <2>3. /\ \A d \in Conns : flags[d] \subseteq flags'[d]
          /\ reg'[c] = regDB[n]
          /\ \A d \in Conns \ {c} : reg'[d] = reg[d] /\ flags'[d] = flags[d]
      BY <1>2 DEF DC_ValidateNickCounted, IInv, TypeOK
    <2>4. BotKnown'
      BY <2>1, <2>3 DEF LimitInv, BotKnown
    <2>5. \A d \in Conns \ {c} : Guest(d)' => Guest(d) /\ zone'[d] = zone[d]
      BY <2>1, <2>3 DEF Guest, Admitted
    <2>. QED
      BY <2>1, <2>2, <2>3, <2>4, <2>5, GuestEnters
  <1>3. ASSUME NEW n \in Nicks, DC_ValidateNickRefused(c, n) PROVE LimitInv'
    <2>1. ~ Admitted(c)
      BY <1>3 DEF DC_ValidateNickRefused, InOrder
    <2>2. /\ UNCHANGED <<flags, botInfo, zone>>
          /\ \A d \in Conns \ {c} : reg'[d] = reg[d]
      BY <1>3 DEF DC_ValidateNickRefused, IInv, TypeOK
    <2>3. \A d \in Conns : Guest(d)' => Guest(d) /\ zone'[d] = zone[d]
      BY <2>1, <2>2 DEF Guest, Admitted
    <2>. QED
      BY <2>2, <2>3, NoNewGuests DEF LimitInv, BotKnown
  <1>4. ASSUME NEW a \in Addresses, NEW z \in Zones, OnNewConn(c, a, z) PROVE LimitInv'
    <2>1. ~ Admitted(c)
      BY <1>4 DEF OnNewConn, InOrder, Admitted
    <2>2. /\ UNCHANGED <<flags, botInfo, reg>>
          /\ \A d \in Conns \ {c} : zone'[d] = zone[d]
      BY <1>4 DEF OnNewConn, IInv, TypeOK
    <2>. QED
      BY <2>1, <2>2, StayingGuests DEF LimitInv, BotKnown, Admitted
  <1>5. ASSUME NEW bot \in BotInfo, DC_Supports(c, bot) PROVE LimitInv'
    <2>1. /\ UNCHANGED <<reg, zone>>
          /\ \A d \in Conns \ {c} : botInfo'[d] = botInfo[d] /\ flags'[d] = flags[d]
          /\ flags'[c] = flags[c] \cup {"SUPPORTS"}
          /\ ~ botInfo[c]
      BY <1>5 DEF DC_Supports, LimitInv, BotKnown, IInv, TypeOK
    <2>2. BotKnown'
      BY <2>1 DEF LimitInv, BotKnown
    <2>3. \A d \in Conns : Admitted(d)' <=> Admitted(d)
      BY <2>1 DEF Admitted
    <2>4. Guest(c)' => Guest(c)
      BY <2>1, <2>3 DEF Guest, TheoricalClass
    <2>5. \A d \in Conns \ {c} : Guest(d)' => Guest(d)
      BY <2>1, <2>3 DEF Guest
    <2>. QED
      BY <2>1, <2>2, <2>4, <2>5, NoNewGuests
  <1>6. CASE DC_Key(c) \/ DC_Version(c) \/ DC_MyPassNotSet(c)
    <2>1. /\ UNCHANGED <<botInfo, reg, zone>>
          /\ flags' = flags \/ \E f \in {"KEYOK", "VERSION"} : flags' = [flags EXCEPT ![c] = @ \cup {f}]
      BY <1>6 DEF DC_Key, DC_Version, DC_MyPassNotSet
    <2>2. \A d \in Conns : /\ Admitted(d)' <=> Admitted(d)
                           /\ "SUPPORTS" \in flags'[d] <=> "SUPPORTS" \in flags[d]
      BY <2>1 DEF Admitted, IInv, TypeOK
    <2>. QED
      BY <2>1, <2>2, StayingGuests DEF LimitInv, BotKnown
  <1>7. CASE DC_MyPass(c)
    <2>1. /\ UNCHANGED <<botInfo, reg, zone>>
          /\ flags' = [flags EXCEPT ![c] = @ \cup {"PASSWD"}]
      BY <1>7 DEF DC_MyPass
    <2>2. \A d \in Conns : /\ Admitted(d)' <=> Admitted(d)
                           /\ "SUPPORTS" \in flags'[d] <=> "SUPPORTS" \in flags[d]
      BY <2>1 DEF Admitted, IInv, TypeOK
    <2>. QED
      BY <2>1, <2>2, StayingGuests DEF LimitInv, BotKnown
  <1>8. CASE DC_MyPassSet(c) \/ RegMyPasswd(c)
    <2>1. /\ regDB[user[c].nick].class # 0 /\ HasUser(c)
          /\ UNCHANGED <<flags, botInfo, zone>>
          /\ reg' = [reg EXCEPT ![c] = [regDB[user[c].nick] EXCEPT !.pwdChange = FALSE]]
      BY <1>8 DEF DC_MyPassSet, RegMyPasswd, PasswordSet, Listed
    <2>2. user[c].nick \in Nicks
      BY <2>1 DEF HasUser, IInv, TypeOK, Users
    <2>3. [regDB[user[c].nick] EXCEPT !.pwdChange = FALSE].class = regDB[user[c].nick].class
      BY <2>2 DEF IInv, TypeOK
    <2>4. reg'[c].class # 0 /\ \A d \in Conns \ {c} : reg'[d] = reg[d]
      BY <2>1, <2>3 DEF IInv, TypeOK
    <2>5. ~ Guest(c)'
      BY <2>4 DEF Guest, TheoricalClass
    <2>6. \A d \in Conns \ {c} : Guest(d)' => Guest(d)
      BY <2>1, <2>4 DEF Guest, Admitted
    <2>. QED
      BY <2>1, <2>5, <2>6, NoNewGuests DEF LimitInv, BotKnown
  <1>. QED
    BY <1>1, <1>2, <1>3, <1>4, <1>5, <1>6, <1>7, <1>8 DEF LoginStep

LEMMA CloseLimits ==
  ASSUME IInv, LimitInv, NEW c \in Conns, CloseStep(c)
  PROVE  LimitInv'
  <1>1. CASE DeleteConn(c)
    <2>1. /\ ~ Admitted(c)' /\ ~ botInfo'[c]
          /\ \A d \in Conns \ {c} : UNCHANGED <<flags[d], botInfo[d], reg[d], zone[d]>>
      BY <1>1 DEF DeleteConn, Admitted, IInv, TypeOK
    <2>2. BotKnown'
      BY <2>1 DEF LimitInv, BotKnown
    <2>3. \A d \in Conns : Guest(d)' => Guest(d) /\ zone'[d] = zone[d]
      BY <2>1 DEF Guest, Admitted
    <2>. QED
      BY <2>2, <2>3, NoNewGuests
  <1>2. CASE Reject(c) \/ (\E t \in TimeOuts : OnTimer(c, t)) \/ CloseNow(c)
    BY <1>2, StayingGuests DEF Reject, OnTimer, CloseNow, LimitInv, BotKnown, Admitted
  <1>. QED
    BY <1>1, <1>2 DEF CloseStep

LEMMA MyINFOLimits ==
  ASSUME IInv, LimitInv, NEW c \in Conns, MyINFOStep(c)
  PROVE  LimitInv'
  <1>1. PICK sh \in Shares, pas \in BOOLEAN :
            \/ DC_MyINFOShareRefused(c, sh, pas) \/ DC_MyINFORefused(c, sh, pas)
            \/ DC_MyINFOVetoed(c, sh, pas) \/ DC_MyINFOUpdate(c, sh, pas)
            \/ DC_MyINFOIncomplete(c, sh, pas)
            \/ \E same \in BOOLEAN : DC_MyINFONickTaken(c, sh, pas, same)
            \/ \E same \in BOOLEAN, outcome \in {"in", "InList", "Login"} :
                   Enter(c, sh, pas, same, outcome)
    BY DEF MyINFOStep, DC_MyINFOEnter, DC_MyINFOEnterVetoed
  <1>2. /\ UNCHANGED <<botInfo, reg, zone>>
        /\ flags' = flags \/ flags' = [flags EXCEPT ![c] = @ \cup {"MYINFO"}]
    BY <1>1 DEF DC_MyINFOShareRefused, DC_MyINFORefused, DC_MyINFOVetoed, DC_MyINFOUpdate,
           DC_MyINFOIncomplete, DC_MyINFONickTaken, Enter, MyINFOListed, FirstMyINFO, MyINFO
  <1>3. \A d \in Conns : /\ Admitted(d)' <=> Admitted(d)
                         /\ "SUPPORTS" \in flags'[d] <=> "SUPPORTS" \in flags[d]
    BY <1>2 DEF Admitted, IInv, TypeOK
  <1>. QED
    BY <1>2, <1>3, StayingGuests DEF LimitInv, BotKnown

(* Registration commands make guests registered, and a fake address moves registered users only. *)
LEMMA AdminLimits ==
  ASSUME IInv, LimitInv, AccountsLast, NEW n \in Nicks, AdminStep(n) \/ RobotStep(n)
  PROVE  LimitInv'
  <1>1. UNCHANGED <<flags, botInfo>>
    BY DEF AdminStep, RegNew, RegDel, RegClass, RegHideShare, RegPassReset, RegPass, RegFakeIP,
           CmdClass, Store, RobotStep, AddRobot, DelRobot, connVars
  <1>2. ASSUME NEW a \in [class : Classes, pwdChange : BOOLEAN, hideShare : BOOLEAN],
               a.class # 0, Store(n, a),
               zone' = zone \/ \E z \in Zones : zone' = OnTarget(zone, n, z) /\ Target(n) \in Conns
        PROVE  LimitInv'
    <2>1. ASSUME NEW d \in Conns, Guest(d)' PROVE Guest(d) /\ zone'[d] = zone[d]
      <3>1. CASE d = Target(n)
        <4>1. reg'[d] = a
          BY <1>2, <3>1 DEF Store, OnTarget, IInv, TypeOK
        <4>. QED
          BY <1>2, <2>1, <4>1 DEF Guest, TheoricalClass
      <3>2. CASE d # Target(n)
        <4>1. reg'[d] = reg[d] /\ zone'[d] = zone[d]
          BY <1>2, <3>2 DEF Store, OnTarget, IInv, TypeOK
        <4>. QED
          BY <1>1, <2>1, <4>1 DEF Guest, Admitted
      <3>. QED
        BY <3>1, <3>2
    <2>. QED
      BY <1>1, <2>1, NoNewGuests DEF LimitInv, BotKnown
  <1>3. CASE \E a \in Accounts : RegNew(n, a)
    BY <1>2, <1>3, StoredTypes DEF RegNew
  <1>4. CASE \E k \in Classes \ {0} : RegClass(n, k)
    <2>1. PICK k \in Classes \ {0} : RegClass(n, k)
      BY <1>4
    <2>2. /\ [regDB[n] EXCEPT !.class = k] \in [class : Classes, pwdChange : BOOLEAN, hideShare : BOOLEAN]
          /\ [regDB[n] EXCEPT !.class = k].class = k
      BY DEF IInv, TypeOK
    <2>. QED
      BY <1>2, <2>1, <2>2 DEF RegClass
  <1>5. CASE \E h \in BOOLEAN : RegHideShare(n, h)
    <2>1. PICK h \in BOOLEAN : RegHideShare(n, h)
      BY <1>5
    <2>2. /\ [regDB[n] EXCEPT !.hideShare = h] \in [class : Classes, pwdChange : BOOLEAN, hideShare : BOOLEAN]
          /\ [regDB[n] EXCEPT !.hideShare = h].class = regDB[n].class
      BY DEF IInv, TypeOK
    <2>. QED
      BY <1>2, <2>1, <2>2 DEF RegHideShare
  <1>6. CASE RegPassReset(n)
    <2>1. /\ [regDB[n] EXCEPT !.pwdChange = TRUE] \in [class : Classes, pwdChange : BOOLEAN, hideShare : BOOLEAN]
          /\ [regDB[n] EXCEPT !.pwdChange = TRUE].class = regDB[n].class
      BY DEF IInv, TypeOK
    <2>. QED
      BY <1>2, <1>6, <2>1 DEF RegPassReset
  <1>7. CASE \E a \in Addresses, z \in Zones : RegFakeIP(n, a, z)
    <2>1. regDB[n] \in [class : Classes, pwdChange : BOOLEAN, hideShare : BOOLEAN]
      BY DEF IInv, TypeOK
    <2>. QED
      BY <1>2, <1>7, <2>1 DEF RegFakeIP
  <1>8. CASE RegPass(n) \/ (\E k \in Classes : CmdClass(n, k)) \/ RobotStep(n)
    <2>1. UNCHANGED <<zone, reg>>
      BY <1>8 DEF RegPass, CmdClass, RobotStep, AddRobot, DelRobot, connVars
    <2>. QED
      BY <1>1, <2>1, StayingGuests DEF LimitInv, BotKnown, Admitted
  <1>9. ~ RegDel(n)
    BY DEF RegDel, AccountsLast
  <1>. QED
    BY <1>3, <1>4, <1>5, <1>6, <1>7, <1>8, <1>9 DEF AdminStep

(* Unregistered users never take more than max_users_total places, nor more than max_users of a
   zone, in whatever order users of all kinds come, register, change class, move and go; provided
   no account is deleted, which makes a guest of someone who was let in with the extra places of
   registered users. *)
THEOREM UserLimitIsKept ==
  ASSUME AccountsLast
  PROVE  Spec => []UserLimitKept
  <1>1. Init => LimitInv
    <2>. SUFFICES ASSUME Init PROVE LimitInv
      OBVIOUS
    <2>1. /\ {c \in Conns : Guest(c)} = {}
          /\ \A z \in Zones : {c \in Conns : Guest(c) /\ zone[c] = z} = {}
      BY DEF Init, Guest, Admitted
    <2>2. BotKnown
      BY DEF Init, BotKnown
    <2>3. Cardinality({}) <= MaxUsers /\ Cardinality({}) <= MaxZoneUsers
      BY FS_EmptySet, ConstantsAssumption
    <2>. QED
      BY <2>1, <2>2, <2>3 DEF LimitInv
  <1>2. IInv /\ LoginOrder /\ UserCountExact /\ ZoneInv /\ LimitInv /\ [Next]_vars => LimitInv'
    <2>. SUFFICES ASSUME IInv, LoginOrder, UserCountExact, ZoneInv, LimitInv, [Next]_vars
                  PROVE  LimitInv'
      OBVIOUS
    <2>1. CASE UNCHANGED vars
      BY <2>1, StayingGuests DEF Admitted, vars, connVars, LimitInv, BotKnown
    <2>. QED
      BY <2>1, LoginLimits, CloseLimits, MyINFOLimits, AdminLimits, ConstantsAssumption
         DEF Next, LoginOrder
  <1>3. LimitInv => UserLimitKept
    BY DEF LimitInv, UserLimitKept, Guest
  <1>. QED
    BY <1>1, <1>2, <1>3, LoginOrderKept, UserCountIsExact, ZoneInvKept, PTL DEF Spec

-----------------------------------------------------------------------------
(* The total share *)

(* No account hides its share, and no operator makes one do so. *)
HidesNothing == "hide_share" \notin AdminOps /\ \A a \in Accounts : ~ a.hideShare

(* A user holds a place, has announced nothing as long as a password is awaited (only a plugin
   that discards the $MyINFO keeps the connection then), and hides what the accounts say. *)
ShareSafe(c) ==
    /\ HasUser(c) => Admitted(c)
    /\ "MyINFO" \notin Vetoes /\ Open(c) /\ HasUser(c) /\ "PASSWD" \notin flags[c]
           => user[c].share = 0
    /\ HidesNothing => ~ reg[c].hideShare /\ (HasUser(c) => ~ user[c].hide)

NoneHidden == HidesNothing => \A n \in Nicks : ~ regDB[n].hideShare

SharesShown == SumOf([c \in Conns |-> ShareOfUser(c)], Conns)

ShareInv == NoneHidden /\ (\A c \in Conns : ShareSafe(c)) /\ totalShare = SharesShown

(* What most handlers do about the share of d: nothing *)
ShareKept(d) ==
    /\ flags[d] \subseteq flags'[d]
    /\ HidesNothing => ~ reg'[d].hideShare
    /\ HasUser(d)' <=> HasUser(d)
    /\ HasUser(d) => /\ Open(d)' => Open(d)
                     /\ user'[d].share = user[d].share
                     /\ user'[d].hide = user[d].hide

(* Nothing then changes. *)
LEMMA KeptIsSafe ==
  ASSUME NEW d \in Conns, ShareSafe(d), ShareKept(d)
  PROVE  ShareSafe(d)' /\ ShareOfUser(d)' = ShareOfUser(d)
  <1>1. ShareOfUser(d)' = ShareOfUser(d)
    BY DEF ShareKept, ShareOfUser, VisibleShare
  <1>2. ShareSafe(d)'
    BY DEF ShareKept, ShareSafe, Admitted
  <1>. QED
    BY <1>1, <1>2

(* What a user shows is a number. *)
LEMMA SharesAreInt == ASSUME TypeOK, NEW c \in Conns PROVE ShareOfUser(c) \in Int
  BY NumbersAreInt DEF TypeOK, Users, ShareOfUser, HasUser, VisibleShare

(* mTotalShare follows what happens to one connection. *)
LEMMA ShareStep ==
  ASSUME IInv, IInv', ShareInv, NoneHidden', NEW c \in Conns, ShareSafe(c)',
         \A d \in Conns \ {c} : ShareKept(d),
         totalShare' = totalShare - ShareOfUser(c) + ShareOfUser(c)'
  PROVE  ShareInv'
  <1>. DEFINE f == [d \in Conns |-> ShareOfUser(d)]
              h == [d \in Conns |-> ShareOfUser(d)']
  <1>1. \A d \in Conns \ {c} : ShareSafe(d)' /\ ShareOfUser(d)' = ShareOfUser(d)
    BY KeptIsSafe DEF ShareInv
  <1>2. \A d \in Conns : f[d] \in Int /\ h[d] \in Int
    <2>1. \A d \in Conns : ShareOfUser(d) \in Int
      BY SharesAreInt DEF IInv
    <2>2. \A d \in Conns : ShareOfUser(d)' \in Int
      BY NumbersAreInt DEF IInv, TypeOK, Users, ShareOfUser, HasUser, VisibleShare
    <2>. QED
      BY <2>1, <2>2
  <1>3. f[c] = ShareOfUser(c) /\ h[c] = ShareOfUser(c)' /\ \A d \in Conns \ {c} : h[d] = f[d]
    BY <1>1
  <1>4. SharesShown = SumOf(f, Conns) /\ SharesShown' = SumOf(h, Conns)
    BY DEF SharesShown
  <1>. HIDE DEF f, h
  <1>5. SumOf(h, Conns) = SumOf(f, Conns) - f[c] + h[c]
    BY <1>2, <1>3, ConstantsAssumption, SumChanges
  <1>6. totalShare' = SharesShown'
    BY <1>3, <1>4, <1>5 DEF ShareInv
  <1>. QED
    BY <1>1, <1>6 DEF ShareInv

(* ... or does not, when nobody shows anything else than before. *)
LEMMA ShareStays ==
  ASSUME ShareInv, NoneHidden', \A d \in Conns : ShareKept(d), totalShare' = totalShare
  PROVE  ShareInv'
  <1>1. \A d \in Conns : ShareSafe(d)' /\ ShareOfUser(d)' = ShareOfUser(d)
    BY KeptIsSafe DEF ShareInv
  <1>2. SharesShown' = SharesShown
    BY <1>1 DEF SharesShown
  <1>. QED
    BY <1>1, <1>2 DEF ShareInv

(* A connection without a user: before $ValidateNick, and when it is handed out *)
LEMMA NoUserYet ==
  ASSUME ShareInv, NEW c \in Conns, InOrder(c),
         sock[c] = "free" \/ (Open(c) /\ "VALNICK" \notin flags[c])
  PROVE  ~ HasUser(c) /\ ShareOfUser(c) = 0
  BY DEF ShareInv, ShareSafe, InOrder, Admitted, ShareOfUser

(* Of the login messages only a password that comes after a $MyINFO could touch the share. *)
LEMMA LoginShares ==
  ASSUME IInv, IInv', ShareInv, "MyINFO" \notin Vetoes \/ HidesNothing, NEW c \in Conns,
         InOrder(c), LoginStep(c)
  PROVE  ShareInv'
  <1>1. CASE \/ \E a \in Addresses, z \in Zones : OnNewConn(c, a, z)
             \/ DC_Key(c) \/ (\E bot \in BotInfo : DC_Supports(c, bot)) \/ DC_Version(c)
             \/ \E n \in Nicks : DC_ValidateNickRefused(c, n) \/ DC_ValidateNickCounted(c, n)
    <2>1. UNCHANGED <<user, totalShare, regDB>>
      BY <1>1 DEF OnNewConn, DC_Key, DC_Supports, DC_Version, DC_ValidateNickRefused,
                  DC_ValidateNickCounted, countVars
    <2>2. ASSUME NEW d \in Conns, Open(d)', ~ Open(d) PROVE d = c /\ sock[c] = "free"
      <3>0. sock \in [Conns -> {"free", "open", "closing", "dead"}]
        BY DEF IInv, TypeOK
      <3>1. CASE \E a \in Addresses, z \in Zones : OnNewConn(c, a, z)
        BY <2>2, <3>0, <3>1 DEF OnNewConn, Open
      <3>2. CASE \E n \in Nicks : DC_ValidateNickRefused(c, n) \/ DC_ValidateNickCounted(c, n)
        BY <2>2, <3>0, <3>2 DEF DC_ValidateNickRefused, DC_ValidateNickCounted, Open, CloseNice
      <3>3. CASE DC_Key(c) \/ (\E bot \in BotInfo : DC_Supports(c, bot)) \/ DC_Version(c)
        BY <2>2, <3>3 DEF DC_Key, DC_Supports, DC_Version, Open
      <3>. QED
        BY <1>1, <3>1, <3>2, <3>3
    <2>3. \A d \in Conns : flags[d] \subseteq flags'[d]
      <3>1. flags' = flags \/ \E f : flags' = [flags EXCEPT ![c] = @ \cup {f}]
        BY <1>1 DEF OnNewConn, DC_Key, DC_Supports, DC_Version, DC_ValidateNickRefused,
                    DC_ValidateNickCounted
      <3>. QED
        BY <3>1 DEF IInv, TypeOK
    <2>5. ASSUME NEW d \in Conns, HidesNothing PROVE ~ reg'[d].hideShare
      <3>1. reg' = reg \/ \E n \in Nicks : reg' = [reg EXCEPT ![c] = regDB[n]]
        BY <1>1 DEF OnNewConn, DC_Key, DC_Supports, DC_Version, DC_ValidateNickRefused,
                    DC_ValidateNickCounted
      <3>2. CASE reg' = reg
        BY <2>5, <3>2 DEF ShareInv, ShareSafe
      <3>3. ASSUME NEW n \in Nicks, reg' = [reg EXCEPT ![c] = regDB[n]]
            PROVE  ~ reg'[d].hideShare
        <4>1. reg'[d] = IF d = c THEN regDB[n] ELSE reg[d]
          BY <3>3 DEF IInv, TypeOK
        <4>2. ~ regDB[n].hideShare /\ ~ reg[d].hideShare
          BY <2>5 DEF ShareInv, NoneHidden, ShareSafe
        <4>. QED
          BY <4>1, <4>2
      <3>. QED
        BY <3>1, <3>2, <3>3
    <2>6. sock[c] = "free" => ~ HasUser(c)
      BY DEF InOrder, ShareInv, ShareSafe, Admitted
    <2>4. \A d \in Conns : ShareKept(d)
      <3>1. \A d \in Conns : (HasUser(d)' <=> HasUser(d))
        BY <2>1 DEF HasUser
      <3>2. ASSUME NEW d \in Conns, HasUser(d), Open(d)' PROVE Open(d)
        <4>1. CASE d = c /\ sock[c] = "free"
          BY <2>6, <3>2, <4>1 DEF HasUser
        <4>. QED
          BY <2>2, <3>2, <4>1 DEF Open
      <3>. QED
        BY <2>1, <2>3, <2>5, <3>1, <3>2 DEF ShareKept
    <2>. QED
      BY <2>1, <2>4, ShareStays DEF ShareInv, NoneHidden
  <1>2. ASSUME NEW n \in Nicks, NEW a \in Addresses, NEW z \in Zones,
               DC_ValidateNick(c, n, a, z) \/ DC_ValidateNickVetoed(c, n, a, z)
        PROVE  ShareInv'
    <2>1. /\ Admit(c, n, a, z)
          /\ UNCHANGED <<totalShare, regDB>>
          /\ reg' = [reg EXCEPT ![c] = regDB[n]]
          /\ \A d \in Conns : (Open(d)' => Open(d))
          /\ \A d \in Conns : flags[d] \subseteq flags'[d]
          /\ "ALLOWED" \in flags'[c]
      <3>1. Admit(c, n, a, z)
        BY <1>2 DEF DC_ValidateNick, DC_ValidateNickVetoed
      <3>2. \A d \in Conns : (Open(d)' => Open(d))
        BY <1>2 DEF DC_ValidateNick, DC_ValidateNickVetoed, Open, IInv, TypeOK
      <3>3. \E F : flags' = [flags EXCEPT ![c] = F] /\ flags[c] \subseteq F /\ "ALLOWED" \in F
        <4>1. "ALLOWED" \in AdmitFlags(n)
          BY DEF AdmitFlags
        <4>2. CASE DC_ValidateNick(c, n, a, z)
          <5>1. flags' = [flags EXCEPT ![c] = flags[c] \cup AdmitFlags(n) \cup {"VALNICK"}]
            BY <4>2 DEF DC_ValidateNick
          <5>. DEFINE F == flags[c] \cup AdmitFlags(n) \cup {"VALNICK"}
          <5>2. flags[c] \subseteq F /\ "ALLOWED" \in F
            BY <4>1
          <5>. HIDE DEF F
          <5>. QED
            BY <5>1, <5>2 DEF F
        <4>3. CASE DC_ValidateNickVetoed(c, n, a, z)
          <5>1. flags' = [flags EXCEPT ![c] = flags[c] \cup AdmitFlags(n)]
            BY <4>3 DEF DC_ValidateNickVetoed
          <5>. DEFINE F == flags[c] \cup AdmitFlags(n)
          <5>2. flags[c] \subseteq F /\ "ALLOWED" \in F
            BY <4>1
          <5>. HIDE DEF F
          <5>. QED
            BY <5>1, <5>2 DEF F
        <4>. QED
          BY <1>2, <4>2, <4>3
      <3>4. (\A d \in Conns : flags[d] \subseteq flags'[d]) /\ "ALLOWED" \in flags'[c]
        BY <3>3 DEF IInv, TypeOK
      <3>. QED
        BY <3>1, <3>2, <3>4 DEF Admit
    <2>2. ~ HasUser(c) /\ ShareOfUser(c) = 0
      BY <2>1, NoUserYet DEF Admit, ValidNick
    <2>3. PICK u : /\ user' = [user EXCEPT ![c] = u]
                   /\ u = NewUser(n) \/ u = Validated(NewUser(n), regDB[n], botInfo[c])
      BY <1>2 DEF DC_ValidateNick, DC_ValidateNickVetoed
    <2>4. u.share = 0 /\ (HidesNothing => ~ u.hide)
      <3>1. NewUser(n).share = 0 /\ ~ NewUser(n).hide
        BY DEF NewUser
      <3>2. /\ Registered(NewUser(n), regDB[n]).share = 0
            /\ \/ Registered(NewUser(n), regDB[n]).hide = regDB[n].hideShare
               \/ ~ Registered(NewUser(n), regDB[n]).hide
        BY DEF Registered, NewUser
      <3>3. [NewUser(n) EXCEPT !.class = Pinger].share = 0 /\ ~ [NewUser(n) EXCEPT !.class = Pinger].hide
        BY DEF NewUser
      <3>4. HidesNothing => ~ regDB[n].hideShare
        BY DEF ShareInv, NoneHidden
      <3>5. \/ u = NewUser(n) \/ u = Registered(NewUser(n), regDB[n])
            \/ u = [NewUser(n) EXCEPT !.class = Pinger]
        BY <2>3 DEF Validated
      <3>. HIDE DEF Pinger
      <3>. QED
        BY <3>1, <3>2, <3>3, <3>4, <3>5
    <2>5. user'[c] = u /\ \A d \in Conns \ {c} : user'[d] = user[d] /\ reg'[d] = reg[d]
      BY <2>1, <2>3 DEF IInv, TypeOK
    <2>6. reg'[c] = regDB[n]
      BY <2>1 DEF IInv, TypeOK
    <2>7. ShareSafe(c)' /\ ShareOfUser(c)' = 0
      BY <2>1, <2>4, <2>5, <2>6
         DEF ShareInv, NoneHidden, ShareSafe, ShareOfUser, VisibleShare, Admitted
    <2>8. \A d \in Conns \ {c} : ShareKept(d)
      BY <2>1, <2>5 DEF ShareInv, ShareSafe, ShareKept, HasUser
    <2>9. totalShare' = totalShare - ShareOfUser(c) + ShareOfUser(c)'
      BY <2>1, <2>2, <2>7 DEF IInv, TypeOK
    <2>10. NoneHidden'
      BY <2>1 DEF ShareInv, NoneHidden
    <2>. QED
      BY <2>7, <2>8, <2>9, <2>10, ShareStep
  <1>3. CASE DC_MyPass(c)
    <2>1. /\ UNCHANGED <<totalShare, regDB, reg, sock>> /\ Open(c) /\ HasUser(c)
          /\ "PASSWD" \notin flags[c]
          /\ user' = [user EXCEPT ![c] = Registered(user[c], reg[c])]
          /\ \A d \in Conns : flags[d] \subseteq flags'[d]
          /\ "PASSWD" \in flags'[c]
      BY <1>3 DEF DC_MyPass, countVars, IInv, TypeOK
    <2>2. /\ user'[c] = Registered(user[c], reg[c])
          /\ \A d \in Conns \ {c} : user'[d] = user[d]
      BY <2>1 DEF IInv, TypeOK
    <2>3. user[c] \in Users /\ user'[c] \in Users
      BY <2>1, <2>2, RegisteredUser DEF HasUser, IInv, TypeOK
    <2>4. HasUser(c)'
      BY <2>3, UsersAreUsers DEF HasUser
    <2>5. /\ user'[c].share = user[c].share
          /\ ~ user[c].hide /\ ~ reg[c].hideShare => ~ user'[c].hide
          /\ user[c].hide \in BOOLEAN /\ user'[c].hide \in BOOLEAN
      BY <2>2, <2>3 DEF Registered, Users
    <2>6. ShareSafe(c)' /\ ShareOfUser(c)' = ShareOfUser(c)
      <3>1. /\ Admitted(c)
            /\ "MyINFO" \notin Vetoes => user[c].share = 0
            /\ HidesNothing => ~ reg[c].hideShare /\ ~ user[c].hide
        BY <2>1 DEF ShareInv, ShareSafe
      <3>2. ShareSafe(c)'
        <4>1. "ALLOWED" \in flags'[c]
          BY <2>1, <3>1 DEF Admitted
        <4>2. HidesNothing => ~ reg'[c].hideShare /\ ~ user'[c].hide
          BY <2>1, <2>5, <3>1
        <4>. QED
          BY <2>1, <4>1, <4>2 DEF ShareSafe, Admitted
      <3>3. ShareOfUser(c)' = IF user'[c].hide THEN 0 ELSE user[c].share
        BY <2>4, <2>5 DEF ShareOfUser, VisibleShare
      <3>4. ShareOfUser(c) = IF user[c].hide THEN 0 ELSE user[c].share
        BY <2>1 DEF ShareOfUser, VisibleShare
      <3>5. CASE user[c].share = 0
        BY <2>5, <3>2, <3>3, <3>4, <3>5
      <3>6. CASE user[c].share # 0
        <4>1. HidesNothing
          BY <3>1, <3>6
        <4>. QED
          BY <2>5, <3>1, <3>2, <3>3, <3>4, <4>1
      <3>. QED
        BY <3>5, <3>6
    <2>7. \A d \in Conns \ {c} : ShareKept(d)
      BY <2>1, <2>2 DEF ShareInv, ShareSafe, ShareKept, HasUser, Open
    <2>8. ShareOfUser(c) \in Int /\ totalShare \in Int
      BY SharesAreInt DEF IInv, TypeOK
    <2>9. NoneHidden'
      BY <2>1 DEF ShareInv, NoneHidden
    <2>. QED
      BY <2>1, <2>6, <2>7, <2>8, <2>9, ShareStep
  <1>4. CASE DC_MyPassSet(c) \/ RegMyPasswd(c) \/ DC_MyPassNotSet(c)
    <2>0. HasUser(c) /\ user[c] \in Users
      BY <1>4 DEF DC_MyPassSet, RegMyPasswd, DC_MyPassNotSet, Listed, HasUser, IInv, TypeOK
    <2>1. \E u \in Users : /\ user' = [user EXCEPT ![c] = u]
                           /\ u.share = user[c].share /\ u.hide = user[c].hide
      <3>1. ASSUME NEW k \in Classes, NEW b \in BOOLEAN, PasswordSet(c, k, b)
            PROVE  \E u \in Users : /\ user' = [user EXCEPT ![c] = u]
                                    /\ u.share = user[c].share /\ u.hide = user[c].hide
        <4>1. user' = [user EXCEPT ![c] = [user[c] EXCEPT !.class = k, !.setPass = b]]
          BY <3>1 DEF PasswordSet, IInv, TypeOK
        <4>2. /\ [user[c] EXCEPT !.class = k, !.setPass = b] \in Users
              /\ [user[c] EXCEPT !.class = k, !.setPass = b].share = user[c].share
              /\ [user[c] EXCEPT !.class = k, !.setPass = b].hide = user[c].hide
          BY <2>0 DEF Users
        <4>. QED
          BY <4>1, <4>2
      <3>2. CASE DC_MyPassSet(c)
        BY <3>1, <3>2 DEF DC_MyPassSet, IInv, TypeOK
      <3>3. CASE RegMyPasswd(c)
        <4>1. regDB[user[c].nick].class \in Classes /\ user[c].setPass \in BOOLEAN
          BY <2>0 DEF IInv, TypeOK, Users
        <4>. QED
          BY <3>1, <3>3, <4>1 DEF RegMyPasswd
      <3>4. CASE DC_MyPassNotSet(c)
        <4>1. user' = [user EXCEPT ![c] = [user[c] EXCEPT !.setPass = FALSE]]
          BY <3>4 DEF DC_MyPassNotSet
        <4>2. /\ [user[c] EXCEPT !.setPass = FALSE] \in Users
              /\ [user[c] EXCEPT !.setPass = FALSE].share = user[c].share
              /\ [user[c] EXCEPT !.setPass = FALSE].hide = user[c].hide
          BY <2>0 DEF Users
        <4>. QED
          BY <4>1, <4>2
      <3>. QED
        BY <1>4, <3>2, <3>3, <3>4
    <2>2. UNCHANGED <<totalShare, flags, sock>>
      BY <1>4 DEF DC_MyPassSet, RegMyPasswd, DC_MyPassNotSet, PasswordSet, countVars
    <2>3. NoneHidden' /\ \A d \in Conns : HidesNothing => ~ reg'[d].hideShare
      <3>1. CASE DC_MyPassNotSet(c)
        BY <3>1 DEF DC_MyPassNotSet, ShareInv, NoneHidden, ShareSafe
      <3>2. ASSUME NEW p, NEW q, PasswordSet(c, p, q)
            PROVE  NoneHidden' /\ \A d \in Conns : HidesNothing => ~ reg'[d].hideShare
        <4>. DEFINE n == user[c].nick
        <4>1. n \in Nicks /\ regDB[n] \in [class : Classes, pwdChange : BOOLEAN, hideShare : BOOLEAN]
          BY <2>0 DEF HasUser, IInv, TypeOK, Users
        <4>2. /\ regDB' = [regDB EXCEPT ![n].pwdChange = FALSE]
              /\ reg' = [reg EXCEPT ![c] = [regDB[n] EXCEPT !.pwdChange = FALSE]]
          BY <3>2 DEF PasswordSet
        <4>. HIDE DEF n
        <4>3. \A m \in Nicks : regDB'[m].hideShare = regDB[m].hideShare
          BY <4>1, <4>2 DEF IInv, TypeOK
        <4>4. \A d \in Conns : reg'[d].hideShare = IF d = c THEN regDB[n].hideShare
                                                   ELSE reg[d].hideShare
          BY <4>1, <4>2 DEF IInv, TypeOK
        <4>. QED
          BY <4>1, <4>3, <4>4 DEF ShareInv, NoneHidden, ShareSafe
      <3>. QED
        BY <1>4, <3>1, <3>2 DEF DC_MyPassSet, RegMyPasswd
    <2>5. /\ user'[c].share = user[c].share /\ user'[c].hide = user[c].hide
          /\ user'[c] \in Users
          /\ \A d \in Conns \ {c} : user'[d] = user[d]
      BY <2>1 DEF IInv, TypeOK
    <2>6. HasUser(c)'
      BY <2>5, UsersAreUsers DEF HasUser
    <2>7. \A d \in Conns : ShareKept(d)
      BY <2>0, <2>2, <2>3, <2>5, <2>6 DEF ShareKept, HasUser, Open
    <2>. QED
      BY <2>2, <2>3, <2>7, ShareStays
  <1>. QED
    BY <1>1, <1>2, <1>3, <1>4 DEF LoginStep

(* A $MyINFO takes the share back that was announced before, and adds the new one. *)
LEMMA MyINFOShares ==
  ASSUME IInv, IInv', ShareInv, LoginOrder, NEW c \in Conns, MyINFOStep(c)
  PROVE  ShareInv'
  <1>1. PICK sh \in Shares, pas \in BOOLEAN :
            \/ DC_MyINFOShareRefused(c, sh, pas) \/ DC_MyINFORefused(c, sh, pas)
            \/ DC_MyINFOVetoed(c, sh, pas) \/ DC_MyINFOUpdate(c, sh, pas)
            \/ DC_MyINFOIncomplete(c, sh, pas)
            \/ \E same \in BOOLEAN : DC_MyINFONickTaken(c, sh, pas, same)
            \/ \E same \in BOOLEAN, outcome \in {"in", "InList", "Login"} :
                   Enter(c, sh, pas, same, outcome)
    BY DEF MyINFOStep, DC_MyINFOEnter, DC_MyINFOEnterVetoed
  <1>2. /\ MyINFO(c, sh, pas)
        /\ flags' = flags \/ flags' = [flags EXCEPT ![c] = @ \cup {"MYINFO"}]
    BY <1>1 DEF DC_MyINFOShareRefused, DC_MyINFORefused, DC_MyINFOVetoed, DC_MyINFOUpdate,
           DC_MyINFOIncomplete, DC_MyINFONickTaken, Enter, MyINFOListed, FirstMyINFO
  <1>3. /\ Open(c) /\ HasUser(c) /\ user[c] \in Users
        /\ totalShare' = TotalAfter(user[c], sh)
        /\ UNCHANGED <<reg, regDB>>
    BY <1>2 DEF MyINFO, HasUser, IInv, TypeOK
  <1>4. \A d \in Conns : flags[d] \subseteq flags'[d]
    BY <1>2 DEF IInv, TypeOK
  <1>5. /\ Rated(user[c], sh, pas) \in Users
        /\ Rated(user[c], sh, pas).share = sh
        /\ Rated(user[c], sh, pas).hide = user[c].hide
    BY <1>3, RatedUser DEF Rated, Users
  \* What becomes of the user himself, and of the others
  <1>6. /\ user'[c].share = sh /\ user'[c].hide = user[c].hide /\ user'[c] \in Users
        /\ \A d \in Conns \ {c} : \/ user'[d] = user[d]
                                  \/ user'[d] = [user[d] EXCEPT !.inList = FALSE] /\ user[d] \in Users
    <2>1. CASE user' = [user EXCEPT ![c] = Rated(user[c], sh, pas)]
      BY <1>5, <2>1 DEF IInv, TypeOK
    <2>2. CASE \E same \in BOOLEAN, outcome \in {"in", "InList", "Login"} :
                   Enter(c, sh, pas, same, outcome)
      <3>0. PICK same \in BOOLEAN, outcome \in {"in", "InList", "Login"} :
                   Enter(c, sh, pas, same, outcome)
        BY <2>2
      <3>. DEFINE ask == outcome # "InList" /\ reg[c].class # 0 /\ reg[c].pwdChange
                  old == userList[user[c].nick]
      <3>5. ask \in BOOLEAN
        OBVIOUS
      <3>1. user' = [d \in Conns |->
                               IF d = c
                               THEN [Rated(user[c], sh, pas) EXCEPT !.inList = TRUE, !.setPass = ask]
                               ELSE IF d = old THEN [user[d] EXCEPT !.inList = FALSE] ELSE user[d]]
        BY <3>0 DEF Enter
      <3>. HIDE DEF ask
      <3>2. [Rated(user[c], sh, pas) EXCEPT !.inList = TRUE, !.setPass = ask] \in Users
        BY <1>5, <3>5 DEF Users
      <3>3. /\ [Rated(user[c], sh, pas) EXCEPT !.inList = TRUE, !.setPass = ask].share = sh
            /\ [Rated(user[c], sh, pas) EXCEPT !.inList = TRUE, !.setPass = ask].hide = user[c].hide
        BY <1>5 DEF Users
      <3>4. \A d \in Conns : d = old => user[d] \in Users
        BY <1>3, <3>1 DEF IInv, Holders, HasUser, TypeOK, Users
      <3>. QED
        BY <3>1, <3>2, <3>3, <3>4
    <2>. QED
      BY <1>1, <2>1, <2>2 DEF DC_MyINFOShareRefused, DC_MyINFORefused, DC_MyINFOVetoed,
         DC_MyINFOUpdate, DC_MyINFOIncomplete, DC_MyINFONickTaken, MyINFOListed
  <1>7. \A d \in Conns \ {c} : sock'[d] = "open" => sock[d] = "open"
    <2>1. CASE \E same \in BOOLEAN, outcome \in {"in", "InList", "Login"} :
                   Enter(c, sh, pas, same, outcome)
      BY <2>1 DEF Enter, TakenOver, CloseNice, Open
    <2>. QED
      BY <1>1, <2>1 DEF DC_MyINFOShareRefused, DC_MyINFORefused, DC_MyINFOVetoed,
             DC_MyINFOUpdate, DC_MyINFOIncomplete, DC_MyINFONickTaken, CloseNice, IInv, TypeOK
  \* Only who gave the password, or is listed already, stays.
  <1>8. "MyINFO" \notin Vetoes /\ Open(c)' => "PASSWD" \in flags[c]
    <2>0. Listed(c) => "PASSWD" \in flags[c]
      BY DEF LoginOrder, InOrder, LoginDone
    <2>1. CASE DC_MyINFOUpdate(c, sh, pas)
      BY <1>3, <2>0, <2>1 DEF DC_MyINFOUpdate, Listed
    <2>2. CASE \E same \in BOOLEAN, outcome \in {"in", "InList", "Login"} :
                   Enter(c, sh, pas, same, outcome)
      BY <2>2 DEF Enter, LoginComplete, LoginDone
    <2>3. CASE DC_MyINFOVetoed(c, sh, pas)
      BY <2>3 DEF DC_MyINFOVetoed
    <2>4. CASE \/ DC_MyINFOShareRefused(c, sh, pas) \/ DC_MyINFORefused(c, sh, pas)
               \/ DC_MyINFOIncomplete(c, sh, pas)
               \/ \E same \in BOOLEAN : DC_MyINFONickTaken(c, sh, pas, same)
      BY <2>4 DEF DC_MyINFOShareRefused, DC_MyINFORefused, DC_MyINFOIncomplete,
                  DC_MyINFONickTaken, CloseNice, Open, IInv, TypeOK
    <2>. QED
      BY <1>1, <2>1, <2>2, <2>3, <2>4
  <1>9. HasUser(c)'
    BY <1>6, UsersAreUsers DEF HasUser
  <1>10. ShareSafe(c)'
    <2>1. ShareSafe(c)
      BY DEF ShareInv
    <2>2. Admitted(c)' /\ (HidesNothing => ~ reg'[c].hideShare /\ ~ user'[c].hide)
      BY <1>3, <1>4, <1>6, <2>1 DEF ShareSafe, Admitted
    <2>3. "MyINFO" \notin Vetoes /\ Open(c)' => "PASSWD" \in flags'[c]
      BY <1>4, <1>8
    <2>. QED
      BY <2>2, <2>3 DEF ShareSafe
  <1>11. ASSUME NEW d \in Conns \ {c} PROVE ShareKept(d)
    <2>1. HidesNothing => ~ reg'[d].hideShare
      BY <1>3 DEF ShareInv, ShareSafe
    <2>2. CASE user'[d] = user[d]
      BY <1>4, <1>7, <2>1, <2>2 DEF ShareKept, HasUser, Open
    <2>3. CASE user'[d] = [user[d] EXCEPT !.inList = FALSE] /\ user[d] \in Users
      <3>1. /\ user'[d] \in Users
            /\ user'[d].share = user[d].share /\ user'[d].hide = user[d].hide
        BY <2>3 DEF Users
      <3>2. HasUser(d) /\ HasUser(d)'
        BY <2>3, <3>1, UsersAreUsers DEF HasUser
      <3>. QED
        BY <1>4, <1>7, <2>1, <3>1, <3>2 DEF ShareKept, Open
    <2>. QED
      BY <1>6, <2>2, <2>3
  <1>12. totalShare' = totalShare - ShareOfUser(c) + ShareOfUser(c)'
    <2>1. /\ ShareOfUser(c) = IF user[c].hide THEN 0 ELSE user[c].share
          /\ ShareOfUser(c)' = IF user'[c].hide THEN 0 ELSE user'[c].share
      BY <1>3, <1>9 DEF ShareOfUser, VisibleShare
    <2>2. /\ user[c].share \in Int /\ sh \in Int /\ user[c].hide \in BOOLEAN
          /\ totalShare \in Int
      BY <1>3, NumbersAreInt DEF Users, IInv, TypeOK
    <2>3. totalShare' = IF user[c].hide THEN totalShare ELSE totalShare - user[c].share + sh
      BY <1>3 DEF TotalAfter
    <2>. QED
      BY <1>6, <2>1, <2>2, <2>3
  <1>13. NoneHidden'
    BY <1>3 DEF ShareInv, NoneHidden
  <1>. QED
    BY <1>10, <1>11, <1>12, <1>13, ShareStep

(* DeleteConn takes back what the user shows by then. *)
LEMMA CloseShares ==
  ASSUME IInv, IInv', ShareInv, NEW c \in Conns, CloseStep(c)
  PROVE  ShareInv'
  <1>1. CASE DeleteConn(c)
    <2>1. /\ sock' = [sock EXCEPT ![c] = "free"]
          /\ flags' = [flags EXCEPT ![c] = {}]
          /\ reg' = [reg EXCEPT ![c] = NoAccount]
          /\ user' = [user EXCEPT ![c] = NoUser]
          /\ UNCHANGED regDB
      BY <1>1 DEF DeleteConn
    <2>2. ~ HasUser(c)' /\ ~ reg'[c].hideShare
      BY <2>1 DEF HasUser, NoAccount, IInv, TypeOK
    <2>3. ShareSafe(c)' /\ ShareOfUser(c)' = 0
      BY <2>2 DEF ShareSafe, ShareOfUser
    <2>4. \A d \in Conns \ {c} : ShareKept(d)
      BY <2>1 DEF ShareKept, HasUser, Open, ShareInv, ShareSafe, IInv, TypeOK
    <2>5. totalShare \in Int /\ ShareOfUser(c) \in Int
      BY SharesAreInt DEF IInv, TypeOK
    <2>6. CASE Admitted(c)
      <3>1. totalShare' = totalShare - ShareOfUser(c)
        BY <1>1, <2>6 DEF DeleteConn, Counted, Admitted
      <3>2. totalShare' = totalShare - ShareOfUser(c) + ShareOfUser(c)'
        BY <2>3, <2>5, <3>1
      <3>. QED
        BY <2>1, <2>3, <2>4, <3>2, ShareStep DEF ShareInv, NoneHidden
    <2>7. CASE ~ Admitted(c)
      <3>1. totalShare' = totalShare
        BY <1>1, <2>7 DEF DeleteConn, Counted, Admitted, countVars
      <3>2. ShareOfUser(c) = 0
        BY <2>7 DEF ShareOfUser, ShareInv, ShareSafe
      <3>3. totalShare' = totalShare - ShareOfUser(c) + ShareOfUser(c)'
        BY <2>3, <2>5, <3>1, <3>2
      <3>. QED
        BY <2>1, <2>3, <2>4, <3>3, ShareStep DEF ShareInv, NoneHidden
    <2>. QED
      BY <2>6, <2>7
  <1>2. CASE Reject(c) \/ (\E t \in TimeOuts : OnTimer(c, t)) \/ CloseNow(c)
    <2>1. UNCHANGED <<flags, reg, user, totalShare, regDB>>
      BY <1>2 DEF Reject, OnTimer, CloseNow, countVars
    <2>2. \A d \in Conns : sock'[d] = "open" => sock[d] = "open"
      BY <1>2 DEF Reject, OnTimer, CloseNow, CloseNice, IInv, TypeOK
    <2>3. \A d \in Conns : ShareKept(d)
      BY <2>1, <2>2 DEF ShareKept, HasUser, Open, ShareInv, ShareSafe
    <2>. QED
      BY <2>1, <2>3, ShareStays DEF ShareInv, NoneHidden
  <1>. QED
    BY <1>1, <1>2 DEF CloseStep

(* The commands that hide or show the share of a user who is online change the total with it. *)
LEMMA AdminShares ==
  ASSUME IInv, IInv', ShareInv, NEW n \in Nicks, AdminStep(n) \/ RobotStep(n)
  PROVE  ShareInv'
  <1>. DEFINE Stored == [class : Classes, pwdChange : BOOLEAN, hideShare : BOOLEAN]
              t == Target(n)
  <1>1. UNCHANGED <<sock, flags>>
    BY DEF AdminStep, RegNew, RegDel, RegClass, RegHideShare, RegPassReset, RegPass, RegFakeIP,
           CmdClass, Store, RobotStep, AddRobot, DelRobot, connVars
  <1>2. \A m \in Nicks : regDB[m] \in Stored
    BY DEF IInv, TypeOK
  \* A command that stores an account which hides its share only if one does
  <1>3. ASSUME NEW a, Store(n, a), HidesNothing => ~ a.hideShare
        PROVE  NoneHidden' /\ \A d \in Conns : HidesNothing => ~ reg'[d].hideShare
    <2>1. NoneHidden'
      BY <1>3 DEF Store, ShareInv, NoneHidden, IInv, TypeOK
    <2>2. ASSUME NEW d \in Conns, HidesNothing PROVE ~ reg'[d].hideShare
      <3>1. reg'[d] = reg[d] \/ reg'[d] = a
        BY <1>3 DEF Store, OnTarget, IInv, TypeOK
      <3>. QED
        BY <1>3, <2>2, <3>1 DEF ShareInv, ShareSafe
    <2>. QED
      BY <2>1, <2>2
  \* Nothing becomes of the user, or only his class changes
  <1>4. ASSUME NoneHidden', \A d \in Conns : (HidesNothing => ~ reg'[d].hideShare),
               totalShare' = totalShare,
               \/ user' = user
               \/ t \in Conns /\ \E k \in Classes :
                      user' = [user EXCEPT ![t] = [user[t] EXCEPT !.class = k]]
        PROVE  ShareInv'
    <2>1. CASE user' = user
      <3>1. \A d \in Conns : ShareKept(d)
        BY <1>1, <1>4, <2>1 DEF ShareKept, HasUser, Open
      <3>. QED
        BY <1>4, <3>1, ShareStays
    <2>2. ASSUME t \in Conns, NEW k \in Classes,
                 user' = [user EXCEPT ![t] = [user[t] EXCEPT !.class = k]]
          PROVE  ShareInv'
      <3>1. user[t] \in Users
        BY <2>2, HolderIsUser
      <3>2. /\ [user[t] EXCEPT !.class = k] \in Users
            /\ [user[t] EXCEPT !.class = k].share = user[t].share
            /\ [user[t] EXCEPT !.class = k].hide = user[t].hide
        BY <3>1 DEF Users
      <3>. HIDE DEF t
      <3>3. /\ user'[t] \in Users /\ user'[t].share = user[t].share /\ user'[t].hide = user[t].hide
            /\ \A d \in Conns : d # t => user'[d] = user[d]
        BY <2>2, <3>2 DEF IInv, TypeOK
      <3>4. \A d \in Conns : ShareKept(d)
        BY <1>1, <1>4, <3>1, <3>3, UsersAreUsers DEF ShareKept, HasUser, Open
      <3>. QED
        BY <1>4, <3>4, ShareStays
    <2>. QED
      BY <1>4, <2>1, <2>2
  \* The share of the user is hidden or shown
  <1>5. ASSUME NEW e \in Conns, e = t, NEW h \in BOOLEAN, NEW k \in Classes,
               user' = [user EXCEPT ![e] = [user[e] EXCEPT !.class = k, !.hide = h]]
               \/ user' = [user EXCEPT ![e] = [user[e] EXCEPT !.hide = h]],
               totalShare' = IF h = user[e].hide THEN totalShare
                             ELSE IF h THEN totalShare - user[e].share
                             ELSE totalShare + user[e].share,
               HidesNothing => ~ h,
               NoneHidden', \A d \in Conns : (HidesNothing => ~ reg'[d].hideShare)
        PROVE  ShareInv'
    <2>1. user[e] \in Users
      BY <1>5, HolderIsUser
    <2>2. PICK u \in Users : /\ user' = [user EXCEPT ![e] = u]
                             /\ u.share = user[e].share /\ u.hide = h
      <3>1. /\ [user[e] EXCEPT !.class = k, !.hide = h] \in Users
            /\ [user[e] EXCEPT !.class = k, !.hide = h].share = user[e].share
            /\ [user[e] EXCEPT !.class = k, !.hide = h].hide = h
        BY <1>5, <2>1 DEF Users
      <3>2. /\ [user[e] EXCEPT !.hide = h] \in Users
            /\ [user[e] EXCEPT !.hide = h].share = user[e].share
            /\ [user[e] EXCEPT !.hide = h].hide = h
        BY <1>5, <2>1 DEF Users
      <3>. QED
        BY <1>5, <3>1, <3>2
    <2>. HIDE DEF t
    <2>3. user'[e] = u /\ \A d \in Conns \ {e} : user'[d] = user[d]
      BY <1>5, <2>2 DEF IInv, TypeOK
    <2>4. HasUser(e) /\ HasUser(e)'
      BY <2>1, <2>2, <2>3, UsersAreUsers DEF HasUser
    <2>5. /\ user[e].share \in Int /\ user[e].hide \in BOOLEAN /\ totalShare \in Int
      BY <2>1, NumbersAreInt DEF Users, IInv, TypeOK
    <2>6. /\ ShareOfUser(e) = IF user[e].hide THEN 0 ELSE user[e].share
          /\ ShareOfUser(e)' = IF h THEN 0 ELSE user[e].share
      BY <2>2, <2>3, <2>4 DEF ShareOfUser, VisibleShare
    <2>7. totalShare' = totalShare - ShareOfUser(e) + ShareOfUser(e)'
      <3>1. CASE h = user[e].hide
        BY <1>5, <2>5, <2>6, <3>1
      <3>2. CASE h # user[e].hide /\ h
        <4>1. ~ user[e].hide
          BY <2>5, <3>2
        <4>. QED
          BY <1>5, <2>5, <2>6, <3>2, <4>1
      <3>3. CASE h # user[e].hide /\ ~ h
        <4>1. user[e].hide
          BY <2>5, <3>3
        <4>. QED
          BY <1>5, <2>5, <2>6, <3>3, <4>1
      <3>. QED
        BY <3>1, <3>2, <3>3
    <2>8. ShareSafe(e)'
      <3>1. ShareSafe(e)
        BY <1>5 DEF ShareInv
      <3>2. user'[e].share = user[e].share /\ (HidesNothing => ~ user'[e].hide)
        BY <1>5, <2>2, <2>3
      <3>3. HidesNothing => ~ reg'[e].hideShare
        BY <1>5
      <3>. QED
        BY <1>1, <2>4, <3>1, <3>2, <3>3 DEF ShareSafe, Admitted, Open
    <2>9. \A d \in Conns \ {e} : ShareKept(d)
      BY <1>1, <1>5, <2>3 DEF ShareKept, HasUser, Open
    <2>. QED
      BY <1>5, <2>7, <2>8, <2>9, ShareStep
  <1>6. CASE \E a \in Accounts : RegNew(n, a)
    <2>1. PICK a \in Accounts : RegNew(n, a)
      BY <1>6
    <2>2. /\ Store(n, a) /\ ~ a.hideShare /\ a.class \in Classes
          /\ totalShare' = totalShare
      BY <2>1 DEF RegNew, Classes, countVars
    <2>3. CASE t \in Conns
      <3>1. user' = [user EXCEPT ![t] = [user[t] EXCEPT !.class = a.class]]
        BY <2>1, <2>3 DEF RegNew
      <3>. HIDE DEF t
      <3>. QED
        BY <1>3, <1>4, <2>2, <2>3, <3>1
    <2>4. CASE t \notin Conns
      <3>1. user' = user
        BY <2>1, <2>4 DEF RegNew
      <3>. HIDE DEF t
      <3>. QED
        BY <1>3, <1>4, <2>2, <3>1
    <2>. QED
      BY <2>3, <2>4
  <1>7. CASE RegDel(n)
    <2>1. Store(n, NoAccount) /\ ~ NoAccount.hideShare
      BY <1>7 DEF RegDel, NoAccount
    <2>2. CASE t \in Conns
      <3>1. /\ user' = [user EXCEPT ![t] = [user[t] EXCEPT !.class = 0, !.hide = FALSE]]
            /\ totalShare' = IF user[t].hide THEN totalShare + user[t].share ELSE totalShare
        BY <1>7, <2>2 DEF RegDel, Unhidden, IInv, TypeOK
      <3>2. user[t].hide \in BOOLEAN
        BY <2>2, HolderIsUser DEF Users
      <3>. HIDE DEF t
      <3>3. totalShare' = IF FALSE = user[t].hide THEN totalShare
                          ELSE IF FALSE THEN totalShare - user[t].share
                          ELSE totalShare + user[t].share
        BY <3>1, <3>2
      <3>4. 0 \in Classes
        BY StoredTypes
      <3>. QED
        BY <1>3, <1>5, <2>1, <2>2, <3>1, <3>3, <3>4
    <2>3. CASE t \notin Conns
      <3>1. user' = user /\ totalShare' = totalShare
        BY <1>7, <2>3 DEF RegDel
      <3>. HIDE DEF t
      <3>. QED
        BY <1>3, <1>4, <2>1, <3>1
    <2>. QED
      BY <2>2, <2>3
  <1>8. CASE \E k \in Classes \ {0} : RegClass(n, k)
    <2>1. PICK k \in Classes \ {0} : RegClass(n, k)
      BY <1>8
    <2>2. /\ Store(n, [regDB[n] EXCEPT !.class = k])
          /\ totalShare' = totalShare
      BY <2>1 DEF RegClass, countVars
    <2>3. HidesNothing => ~ [regDB[n] EXCEPT !.class = k].hideShare
      BY <1>2 DEF ShareInv, NoneHidden
    <2>4. CASE t \in Conns
      <3>1. user' = [user EXCEPT ![t] = [user[t] EXCEPT !.class = k]]
        BY <2>1, <2>4 DEF RegClass
      <3>. HIDE DEF t
      <3>. QED
        BY <1>3, <1>4, <2>2, <2>3, <2>4, <3>1
    <2>5. CASE t \notin Conns
      <3>1. user' = user
        BY <2>1, <2>5 DEF RegClass
      <3>. HIDE DEF t
      <3>. QED
        BY <1>3, <1>4, <2>2, <2>3, <3>1
    <2>. QED
      BY <2>4, <2>5
  <1>9. CASE \E h \in BOOLEAN : RegHideShare(n, h)
    <2>1. PICK h \in BOOLEAN : RegHideShare(n, h)
      BY <1>9
    <2>2. Store(n, [regDB[n] EXCEPT !.hideShare = h]) /\ ~ HidesNothing
      BY <2>1 DEF RegHideShare, HidesNothing
    <2>3. CASE t \in Conns
      <3>1. /\ user' = [user EXCEPT ![t] = [user[t] EXCEPT !.hide = h]]
            /\ totalShare' = IF h = user[t].hide THEN totalShare
                             ELSE IF h THEN totalShare - user[t].share
                             ELSE IF user[t].hide THEN totalShare + user[t].share ELSE totalShare
        BY <2>1, <2>3 DEF RegHideShare, Unhidden
      <3>2. user[t].hide \in BOOLEAN
        BY <2>3, HolderIsUser DEF Users
      <3>. HIDE DEF t
      <3>3. totalShare' = IF h = user[t].hide THEN totalShare
                          ELSE IF h THEN totalShare - user[t].share
                          ELSE totalShare + user[t].share
        BY <3>1, <3>2
      <3>4. 0 \in Classes
        BY StoredTypes
      <3>. QED
        BY <1>3, <1>5, <2>2, <2>3, <3>1, <3>3, <3>4
    <2>4. CASE t \notin Conns
      <3>1. user' = user /\ totalShare' = totalShare
        BY <2>1, <2>4 DEF RegHideShare
      <3>. HIDE DEF t
      <3>. QED
        BY <1>3, <1>4, <2>2, <3>1
    <2>. QED
      BY <2>3, <2>4
  <1>10. CASE RegPassReset(n) \/ (\E a \in Addresses, z \in Zones : RegFakeIP(n, a, z))
    <2>1. /\ user' = user /\ totalShare' = totalShare
          /\ Store(n, regDB[n]) \/ Store(n, [regDB[n] EXCEPT !.pwdChange = TRUE])
      BY <1>10 DEF RegPassReset, RegFakeIP, countVars
    <2>2. HidesNothing => /\ ~ regDB[n].hideShare
                          /\ ~ [regDB[n] EXCEPT !.pwdChange = TRUE].hideShare
      BY <1>2 DEF ShareInv, NoneHidden
    <2>. QED
      BY <1>3, <1>4, <2>1, <2>2
  <1>11. CASE RegPass(n) \/ RobotStep(n)
    <2>1. user' = user /\ totalShare' = totalShare /\ reg' = reg
      BY <1>11 DEF RegPass, RobotStep, AddRobot, DelRobot, connVars, countVars
    <2>2. \A m \in Nicks : regDB'[m].hideShare = regDB[m].hideShare
      <3>1. CASE RegPass(n)
        BY <1>2, <3>1 DEF RegPass, IInv, TypeOK
      <3>2. CASE RobotStep(n)
        BY <3>2 DEF RobotStep, AddRobot, DelRobot
      <3>. QED
        BY <1>11, <3>1, <3>2
    <2>3. NoneHidden' /\ \A d \in Conns : (HidesNothing => ~ reg'[d].hideShare)
      BY <2>1, <2>2 DEF ShareInv, NoneHidden, ShareSafe
    <2>. QED
      BY <1>4, <2>1, <2>3
  <1>12. CASE \E k \in Classes : CmdClass(n, k)
    <2>1. PICK k \in Classes : CmdClass(n, k)
      BY <1>12
    <2>2. /\ t \in Conns /\ totalShare' = totalShare /\ UNCHANGED <<reg, regDB>>
          /\ user' = [user EXCEPT ![t] = [user[t] EXCEPT !.class = k]]
      BY <2>1 DEF CmdClass, countVars
    <2>3. NoneHidden' /\ \A d \in Conns : (HidesNothing => ~ reg'[d].hideShare)
      BY <2>2 DEF ShareInv, NoneHidden, ShareSafe
    <2>. HIDE DEF t
    <2>. QED
      BY <1>4, <2>2, <2>3
  <1>. QED
    BY <1>6, <1>7, <1>8, <1>9, <1>10, <1>11, <1>12 DEF AdminStep

(* The sum the runs check, written with the community modules' fold, is the same sum. *)
LEMMA SharesAdd ==
  ASSUME TypeOK, \A c \in Conns : HasUser(c) => Admitted(c)
  PROVE  SharesShown = MapThenSumSet(ShareOfUser, {c \in Conns : Admitted(c)})
  <1>. DEFINE S == {c \in Conns : Admitted(c)}
              f == [c \in Conns |-> ShareOfUser(c)]
              Fold(g) == [s \in SUBSET S |->
                             IF s = {} THEN 0
                             ELSE LET x == CHOOSE x \in s : TRUE
                                  IN  ShareOfUser(x) + g[s \ {x}]]
              iter == CHOOSE g : g = Fold(g)
  <1>1. MapThenSumSet(ShareOfUser, S) = iter[S]
    BY DEF MapThenSumSet, MapThenFoldSet
  <1>2. IsFiniteSet(S) /\ S \in SUBSET Conns /\ \A c \in Conns : f[c] \in Int
    BY ConstantsAssumption, FS_Subset, SharesAreInt
  <1>3. ASSUME NEW g PROVE (g = Fold(g)) <=> /\ g = [s \in SUBSET S |-> g[s]]
                                             /\ Unfolds(g, f, S)
    <2>1. ASSUME NEW s \in SUBSET S
          PROVE  Fold(g)[s] = IF s = {} THEN 0 ELSE f[pick(s)] + g[s \ {pick(s)}]
      <3>1. s # {} => pick(s) \in Conns
        BY PickIs
      <3>2. Fold(g)[s] = IF s = {} THEN 0 ELSE ShareOfUser(pick(s)) + g[s \ {pick(s)}]
        BY DEF pick
      <3>. QED
        BY <3>1, <3>2
    <2>2. Fold(g) = [s \in SUBSET S |-> Fold(g)[s]]
      OBVIOUS
    <2>. HIDE DEF Fold, S, f
    <2>3. ASSUME g = Fold(g) PROVE g = [s \in SUBSET S |-> g[s]] /\ Unfolds(g, f, S)
      BY <2>1, <2>2, <2>3 DEF Unfolds
    <2>4. ASSUME g = [s \in SUBSET S |-> g[s]], Unfolds(g, f, S) PROVE g = Fold(g)
      <3>1. \A s \in SUBSET S : g[s] = Fold(g)[s]
        BY <2>1, <2>4 DEF Unfolds
      <3>. QED
        BY <2>2, <2>4, <3>1
    <2>. QED
      BY <2>3, <2>4
  <1>4. PICK g : AddsUp(g, f, S)
    <2>. HIDE DEF f, S
    <2>. QED
      BY <1>2, CanAddUp
  <1>5. g[S] = SumOf(f, S)
    <2>. HIDE DEF f, S
    <2>. QED
      BY <1>2, <1>4, SumIs
  <1>6. g = Fold(g)
    <2>1. g = [s \in SUBSET S |-> g[s]] /\ Unfolds(g, f, S)
      BY <1>4 DEF AddsUp
    <2>. HIDE DEF Fold, f, S
    <2>. QED
      BY <1>3, <2>1
  <1>7. iter = Fold(iter)
    <2>. HIDE DEF Fold
    <2>. QED
      BY <1>6
  <1>8. Unfolds(iter, f, S)
    <2>. HIDE DEF Fold, iter, f, S
    <2>. QED
      BY <1>3, <1>7
  <1>9. iter[S] = g[S]
    <2>1. Unfolds(g, f, S) /\ S \subseteq S
      BY <1>4 DEF AddsUp
    <2>. HIDE DEF iter, f, S
    <2>. QED
      BY <1>2, <1>8, <2>1, UnfoldsOnce
  <1>10. SumOf(f, Conns) = SumOf(f, S)
    <2>1. \A c \in Conns \ S : f[c] = 0
      BY DEF ShareOfUser
    <2>. HIDE DEF f, S
    <2>. QED
      BY <1>2, <2>1, ConstantsAssumption, SumWithoutZeros
  <1>11. SharesShown = SumOf(f, Conns)
    BY DEF SharesShown
  <1>. HIDE DEF iter, f
  <1>. QED
    BY <1>1, <1>5, <1>9, <1>10, <1>11

(* mTotalShare is what the users of the hub show, whatever they announce and however often, and
   whatever becomes of their accounts; provided that no plugin discards a $MyINFO, or no account
   hides its share: the connection of a user who has announced a share and not yet given the
   password is kept only by such a plugin, and then the share, once counted, is hidden by the
   account (Register) without being taken back. *)
THEOREM TotalShareIsExact ==
  ASSUME "MyINFO" \notin Vetoes \/ HidesNothing
  PROVE  Spec => []TotalShareExact
  <1>1. Init => ShareInv
    <2>. SUFFICES ASSUME Init PROVE ShareInv
      OBVIOUS
    <2>1. NoneHidden
      BY DEF Init, NoneHidden, HidesNothing
    <2>2. \A c \in Conns : ShareSafe(c) /\ ShareOfUser(c) = 0
      BY DEF Init, ShareSafe, ShareOfUser, HasUser, NoAccount
    <2>3. SharesShown = 0
      <3>. DEFINE f == [c \in Conns |-> ShareOfUser(c)]
      <3>1. \A c \in Conns : f[c] = 0
        BY <2>2
      <3>2. SharesShown = SumOf(f, Conns)
        BY DEF SharesShown
      <3>. HIDE DEF f
      <3>3. {} \in SUBSET Conns /\ \A c \in Conns : f[c] \in Int
        BY <3>1
      <3>4. SumOf(f, Conns) = SumOf(f, {})
        BY <3>1, <3>3, ConstantsAssumption, SumWithoutZeros
      <3>. QED
        BY <3>2, <3>4, SumOfNothing
    <2>4. totalShare = 0
      BY DEF Init
    <2>. QED
      BY <2>1, <2>2, <2>3, <2>4 DEF ShareInv
  <1>2. IInv /\ IInv' /\ LoginOrder /\ ShareInv /\ [Next]_vars => ShareInv'
    <2>. SUFFICES ASSUME IInv, IInv', LoginOrder, ShareInv, [Next]_vars PROVE ShareInv'
      OBVIOUS
    <2>1. CASE UNCHANGED vars
      <3>1. UNCHANGED <<sock, flags, reg, user, totalShare, regDB>>
        BY <2>1 DEF vars, connVars, countVars
      <3>2. \A d \in Conns : ShareKept(d)
        BY <3>1 DEF ShareKept, HasUser, Open, ShareInv, ShareSafe
      <3>. QED
        BY <3>1, <3>2, ShareStays DEF ShareInv, NoneHidden
    <2>2. \A c \in Conns : InOrder(c)
      BY DEF LoginOrder
    <2>3. RobotNicks \subseteq Nicks
      BY ConstantsAssumption
    <2>. QED
      BY <2>1, <2>2, <2>3, LoginShares, MyINFOShares, CloseShares, AdminShares DEF Next
  <1>3. IInv /\ ShareInv => TotalShareExact
    <2>. SUFFICES ASSUME IInv, ShareInv PROVE TotalShareExact
      OBVIOUS
    <2>1. SharesShown = MapThenSumSet(ShareOfUser, {c \in Conns : Admitted(c)})
      BY SharesAdd DEF IInv, ShareInv, ShareSafe
    <2>. QED
      BY <2>1 DEF ShareInv, TotalShareExact
  <1>. QED
    BY <1>1, <1>2, <1>3, LoginOrderKept, PTL DEF Spec
=============================================================================
