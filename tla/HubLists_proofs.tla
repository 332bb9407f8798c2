--------------------------- MODULE HubLists_proofs ---------------------------
(***************************************************************************)
(* Theorems about the user lists of HubLogin: that they agree with the     *)
(* connections and with each other, how a nick passes on, that the hub     *)
(* implements HubDirectory, and the counts of users by zone.  They hold    *)
(* for any number of connections, nicks and robots.                        *)
(***************************************************************************)
EXTENDS HubLogin_proofs

(* What the lists say of a connection.  Who has a user, or sent a first $MyINFO, was let in; an
   open connection that sent it, or is asked to set a password, is listed; and a listed one is found under its nick, in one of
   the two lists by mode, the one of the mode it announced last as long as it is open. *)
ConnInv(c) ==
    /\ HasUser(c) \/ "MYINFO" \in flags[c] => Admitted(c)
    /\ Open(c) /\ "MYINFO" \in flags[c] => Listed(c)
    /\ Open(c) /\ HasUser(c) /\ user[c].setPass => Listed(c)
    /\ Listed(c) => /\ userList[user[c].nick] = c
                    /\ (activeUsers[user[c].nick] = c) # (passiveUsers[user[c].nick] = c)
                    /\ Open(c) => (passiveUsers[user[c].nick] = c) = user[c].passive

(* What the lists say of a nick *)
NickInv(n) ==
    /\ userList[n] \in Conns => Listed(userList[n])
    /\ activeUsers[n] \in {NoOne, userList[n]}
    /\ passiveUsers[n] \in {NoOne, userList[n]}
    /\ opList[n] \in {NoOne, userList[n]}
    /\ robotList[n] <=> userList[n] = Robot

(* Nobody has, or will have by his account, the right to take the nick of a robot. *)
NoRobotAccount ==
    /\ \A n \in Nicks : robotList[n] => n \in RobotNicks
    /\ \A n \in RobotNicks : regDB[n].class = 0
    /\ \A c \in Conns : Open(c) /\ HasUser(c) /\ user[c].nick \in RobotNicks =>
          /\ reg[c].class = 0
          /\ ~ user[c].inList => user[c].class \in {0, Pinger}

ListInv == (\A c \in Conns : ConnInv(c)) /\ (\A n \in Nicks : NickInv(n)) /\ NoRobotAccount

-----------------------------------------------------------------------------
(* Steps that list nobody and end no listing *)

Accs == [class : Classes, pwdChange : BOOLEAN, hideShare : BOOLEAN]

(* v is u for the lists *)
Alike(u, v) ==
    /\ v.nick = u.nick /\ v.inList = u.inList /\ v.passive = u.passive
    /\ v.setPass => u.setPass

(* Nothing happens to d that the lists would have to follow. *)
Quiet(d) ==
    /\ HasUser(d)' <=> HasUser(d)
    /\ HasUser(d) => Alike(user[d], user'[d])
    /\ Open(d)' => Open(d)
    /\ "MYINFO" \in flags'[d] => "MYINFO" \in flags[d]
    /\ Admitted(d) => Admitted(d)'

(* ... so what the lists say of d stays right. *)
LEMMA QuietConn ==
  ASSUME NEW d \in Conns, ConnInv(d), Quiet(d), UNCHANGED <<userList, activeUsers, passiveUsers>>
  PROVE  ConnInv(d)'
  BY DEF ConnInv, Quiet, Alike, Listed

(* ... and what they say of a nick. *)
LEMMA QuietNick ==
  ASSUME NEW n \in Nicks, NickInv(n), \A d \in Conns : Quiet(d),
         UNCHANGED <<userList, activeUsers, passiveUsers, robotList>>,
         opList'[n] \in {opList[n], NoOne, userList[n]}
  PROVE  NickInv(n)'
  BY DEF NickInv, Quiet, Alike, Listed

(* Rights, passwords and shares are not what a user is listed by. *)
LEMMA UserUpdates ==
  ASSUME NEW u \in Users, NEW a \in Accs, NEW k \in Classes, NEW h \in BOOLEAN,
         NEW b \in BOOLEAN, b => u.setPass
  PROVE  /\ Registered(u, a) \in Users /\ Alike(u, Registered(u, a))
         /\ [u EXCEPT !.class = k, !.setPass = b] \in Users
         /\ Alike(u, [u EXCEPT !.class = k, !.setPass = b])
         /\ [u EXCEPT !.setPass = b] \in Users /\ Alike(u, [u EXCEPT !.setPass = b])
         /\ [u EXCEPT !.class = k] \in Users /\ Alike(u, [u EXCEPT !.class = k])
         /\ [u EXCEPT !.hide = h] \in Users /\ Alike(u, [u EXCEPT !.hide = h])
         /\ [u EXCEPT !.class = k, !.hide = h] \in Users
         /\ Alike(u, [u EXCEPT !.class = k, !.hide = h])
  BY DEF Users, Alike, Registered, Accs

(* A connection is left alone, or closed, and its user keeps nick, mode and listing. *)
LEMMA UserKept ==
  ASSUME IInv, NEW c \in Conns, HasUser(c), NEW u \in Users, Alike(user[c], u),
         user' = [user EXCEPT ![c] = u],
         \A d \in Conns : /\ Open(d)' => Open(d)
                          /\ "MYINFO" \in flags'[d] => "MYINFO" \in flags[d]
                          /\ Admitted(d) => Admitted(d)'
  PROVE  \A d \in Conns : Quiet(d)
  <1>1. u # NoUser
    BY UsersAreUsers
  <1>2. \A d \in Conns : user'[d] = IF d = c THEN u ELSE user[d]
    BY DEF IInv, TypeOK
  <1>. QED
    BY <1>1, <1>2 DEF Quiet, Alike, HasUser

(* ... or no user is touched at all. *)
LEMMA NobodyTouched ==
  ASSUME UNCHANGED user,
         \A d \in Conns : /\ Open(d)' => Open(d)
                          /\ "MYINFO" \in flags'[d] => "MYINFO" \in flags[d]
                          /\ Admitted(d) => Admitted(d)'
  PROVE  \A d \in Conns : Quiet(d)
  BY DEF Quiet, Alike, HasUser

(* The login messages that give nobody a user *)
LEMMA SessionQuiet ==
  ASSUME IInv, NEW c \in Conns,
         \/ DC_Key(c) \/ (\E bot \in BotInfo : DC_Supports(c, bot)) \/ DC_Version(c)
         \/ \E n \in Nicks : DC_ValidateNickRefused(c, n) \/ DC_ValidateNickCounted(c, n)
         \/ DC_MyPass(c) \/ DC_MyPassSet(c) \/ DC_MyPassNotSet(c) \/ RegMyPasswd(c)
  PROVE  /\ \A d \in Conns : Quiet(d)
         /\ UNCHANGED <<userList, activeUsers, passiveUsers, robotList>>
         /\ opList' = opList \/ \E k \in Classes : opList' = OpsWhenSet(c, user[c].nick, k)
  <1>1. CASE DC_Key(c) \/ (\E bot \in BotInfo : DC_Supports(c, bot)) \/ DC_Version(c)
    <2>1. \A d \in Conns : /\ Open(d)' => Open(d)
                           /\ "MYINFO" \in flags'[d] => "MYINFO" \in flags[d]
                           /\ Admitted(d) => Admitted(d)'
      <3>1. UNCHANGED sock
        BY <1>1 DEF DC_Key, DC_Supports, DC_Version
      <3>2. \E f \in {"KEYOK", "SUPPORTS", "VERSION"} :
                flags' = [flags EXCEPT ![c] = @ \cup {f}]
        BY <1>1 DEF DC_Key, DC_Supports, DC_Version
      <3>. QED
        BY <3>1, <3>2 DEF Open, Admitted, IInv, TypeOK
    <2>. QED
      BY <1>1, <2>1, NobodyTouched DEF DC_Key, DC_Supports, DC_Version, listVars
  <1>2. CASE \E n \in Nicks : DC_ValidateNickRefused(c, n) \/ DC_ValidateNickCounted(c, n)
    <2>1. \A d \in Conns : /\ Open(d)' => Open(d)
                           /\ "MYINFO" \in flags'[d] => "MYINFO" \in flags[d]
                           /\ Admitted(d) => Admitted(d)'
      BY <1>2 DEF DC_ValidateNickRefused, DC_ValidateNickCounted, ValidNick, CloseNice, Open,
                  Admitted, IInv, TypeOK
    <2>. QED
      BY <1>2, <2>1, NobodyTouched DEF DC_ValidateNickRefused, DC_ValidateNickCounted, listVars
  <1>3. CASE DC_MyPass(c) \/ DC_MyPassNotSet(c)
    <2>1. HasUser(c) /\ user[c] \in Users /\ reg[c] \in Accs
      BY <1>3 DEF DC_MyPass, DC_MyPassNotSet, HasUser, IInv, TypeOK, Accs
    <2>2. \A d \in Conns : /\ Open(d)' => Open(d)
                           /\ "MYINFO" \in flags'[d] => "MYINFO" \in flags[d]
                           /\ Admitted(d) => Admitted(d)'
      BY <1>3 DEF DC_MyPass, DC_MyPassNotSet, Open, Admitted, IInv, TypeOK
    <2>3. /\ Registered(user[c], reg[c]) \in Users
          /\ Alike(user[c], Registered(user[c], reg[c]))
          /\ [user[c] EXCEPT !.setPass = FALSE] \in Users
          /\ Alike(user[c], [user[c] EXCEPT !.setPass = FALSE])
      BY <2>1, UserUpdates, StoredTypes
    <2>4. \/ user' = [user EXCEPT ![c] = Registered(user[c], reg[c])]
          \/ user' = [user EXCEPT ![c] = [user[c] EXCEPT !.setPass = FALSE]]
      BY <1>3 DEF DC_MyPass, DC_MyPassNotSet, IInv, TypeOK
    <2>. QED
      BY <1>3, <2>1, <2>2, <2>3, <2>4, UserKept DEF DC_MyPass, DC_MyPassNotSet, listVars
  <1>4. CASE DC_MyPassSet(c) \/ RegMyPasswd(c)
    <2>1. HasUser(c) /\ user[c] \in Users
      BY <1>4 DEF DC_MyPassSet, RegMyPasswd, Listed, HasUser, IInv, TypeOK
    <2>2. PICK k \in Classes, b \in BOOLEAN : PasswordSet(c, k, b) /\ (b => user[c].setPass)
      <3>1. user[c].nick \in Nicks /\ user[c].setPass \in BOOLEAN
        BY <2>1 DEF Users
      <3>2. reg[c].class \in Classes /\ regDB[user[c].nick].class \in Classes
        BY <3>1 DEF IInv, TypeOK
      <3>3. CASE DC_MyPassSet(c)
        <4>1. PasswordSet(c, reg[c].class, FALSE) /\ (FALSE => user[c].setPass)
          BY <3>3 DEF DC_MyPassSet
        <4>2. FALSE \in BOOLEAN
          OBVIOUS
        <4>. QED
          BY <3>2, <4>1, <4>2, Zenon
      <3>4. CASE RegMyPasswd(c)
        BY <3>1, <3>2, <3>4 DEF RegMyPasswd
      <3>. QED
        BY <1>4, <3>3, <3>4
    <2>3. /\ [user[c] EXCEPT !.class = k, !.setPass = b] \in Users
          /\ Alike(user[c], [user[c] EXCEPT !.class = k, !.setPass = b])
      BY <2>1, <2>2, UserUpdates, StoredTypes DEF Accs
    <2>4. user' = [user EXCEPT ![c] = [user[c] EXCEPT !.class = k, !.setPass = b]]
      BY <2>2 DEF PasswordSet, IInv, TypeOK
    <2>5. \A d \in Conns : /\ Open(d)' => Open(d)
                           /\ "MYINFO" \in flags'[d] => "MYINFO" \in flags[d]
                           /\ Admitted(d) => Admitted(d)'
      BY <2>2 DEF PasswordSet, Open, Admitted
    <2>. QED
      BY <2>1, <2>2, <2>3, <2>4, <2>5, UserKept DEF PasswordSet
  <1>. QED
    BY <1>1, <1>2, <1>3, <1>4

(* Closing, before DeleteConn, leaves users and lists alone. *)
LEMMA CloseQuiet ==
  ASSUME IInv, NEW c \in Conns, Reject(c) \/ (\E t \in TimeOuts : OnTimer(c, t)) \/ CloseNow(c)
  PROVE  /\ \A d \in Conns : Quiet(d)
         /\ UNCHANGED <<userList, activeUsers, passiveUsers, opList, robotList>>
  <1>1. \A d \in Conns : /\ Open(d)' => Open(d)
                         /\ "MYINFO" \in flags'[d] => "MYINFO" \in flags[d]
                         /\ Admitted(d) => Admitted(d)'
    BY DEF Reject, OnTimer, CloseNow, CloseNice, Open, Admitted, IInv, TypeOK
  <1>. QED
    BY <1>1, NobodyTouched DEF Reject, OnTimer, CloseNow, listVars

(* What the registration commands do to the user who is online *)
LEMMA AdminQuiet ==
  ASSUME IInv, NEW n \in Nicks, AdminStep(n)
  PROVE  /\ \A d \in Conns : Quiet(d)
         /\ UNCHANGED <<userList, activeUsers, passiveUsers, robotList>>
  <1>0. /\ UNCHANGED <<sock, flags>>
        /\ UNCHANGED <<userList, activeUsers, passiveUsers, robotList>>
    BY DEF AdminStep, RegNew, RegDel, RegClass, RegHideShare, RegPassReset, RegPass,
           RegFakeIP, CmdClass, Store, connVars, listVars
  <1>1. \A d \in Conns : /\ Open(d)' => Open(d)
                         /\ "MYINFO" \in flags'[d] => "MYINFO" \in flags[d]
                         /\ Admitted(d) => Admitted(d)'
    BY <1>0 DEF Open, Admitted
  <1>2. CASE UNCHANGED user
    BY <1>0, <1>1, <1>2, NobodyTouched
  <1>3. ASSUME Target(n) \in Conns, NEW u \in Users, Alike(user[Target(n)], u),
               user' = [user EXCEPT ![Target(n)] = u]
        PROVE  \A d \in Conns : Quiet(d)
    <2>1. HasUser(Target(n))
      BY <1>3, HolderIsUser, UsersAreUsers DEF HasUser
    <2>. QED
      BY <1>1, <1>3, <2>1, UserKept
  <1>4. ASSUME Target(n) \in Conns, NEW k \in Classes, NEW h \in BOOLEAN
        PROVE  LET u == user[Target(n)]
               IN  /\ [u EXCEPT !.class = k] \in Users /\ Alike(u, [u EXCEPT !.class = k])
                   /\ [u EXCEPT !.hide = h] \in Users /\ Alike(u, [u EXCEPT !.hide = h])
                   /\ [u EXCEPT !.class = k, !.hide = h] \in Users
                   /\ Alike(u, [u EXCEPT !.class = k, !.hide = h])
    BY <1>4, HolderIsUser, UserUpdates, StoredTypes DEF Accs
  <1>5. CASE \E a \in Accounts : RegNew(n, a)
    <2>1. PICK a \in Accounts : RegNew(n, a)
      BY <1>5
    <2>2. a.class \in Classes
      BY DEF Classes
    <2>. QED
      BY <1>0, <1>2, <1>3, <1>4, <2>1, <2>2, StoredTypes DEF RegNew
  <1>6. CASE RegDel(n)
    <2>1. Target(n) \in Conns =>
             user' = [user EXCEPT ![Target(n)] =
                         [user[Target(n)] EXCEPT !.class = 0, !.hide = FALSE]]
      BY <1>6 DEF RegDel, IInv, TypeOK
    <2>. QED
      BY <1>0, <1>2, <1>3, <1>4, <1>6, <2>1, StoredTypes DEF RegDel
  <1>7. CASE \E k \in Classes : RegClass(n, k) \/ CmdClass(n, k)
    <2>1. PICK k \in Classes : RegClass(n, k) \/ CmdClass(n, k)
      BY <1>7
    <2>2. \/ UNCHANGED user
          \/ /\ Target(n) \in Conns
             /\ user' = [user EXCEPT ![Target(n)] = [user[Target(n)] EXCEPT !.class = k]]
      BY <2>1 DEF RegClass, CmdClass, IInv, TypeOK
    <2>. QED
      BY <1>0, <1>2, <1>3, <1>4, <2>2, StoredTypes
  <1>8. CASE \E h \in BOOLEAN : RegHideShare(n, h)
    BY <1>0, <1>2, <1>3, <1>4, <1>8, StoredTypes DEF RegHideShare
  <1>9. CASE \/ RegPassReset(n) \/ RegPass(n)
            \/ \E a \in Addresses, z \in Zones : RegFakeIP(n, a, z)
    BY <1>2, <1>9 DEF RegPassReset, RegPass, RegFakeIP, connVars
  <1>. QED
    BY <1>0, <1>5, <1>6, <1>7, <1>8, <1>9 DEF AdminStep

(* ... and what they do to mOpList: the user online under n is put in or taken out. *)
LEMMA AdminOpList ==
  ASSUME IInv, NEW n \in Nicks, AdminStep(n), NEW m \in Nicks
  PROVE  opList'[m] \in {opList[m], NoOne, userList[m]}
  <1>1. ASSUME NEW k
        PROVE  /\ OpsWhenNew(n, k)[m] \in {opList[m], userList[m]}
               /\ OpsWhenClass(n, k)[m] \in {opList[m], NoOne, userList[m]}
               /\ RemoveByHash(opList, n)[m] \in {opList[m], NoOne}
    BY DEF OpsWhenNew, OpsWhenClass, AddWithHash, RemoveByHash, Target, IInv, TypeOK
  <1>2. CASE \E a \in Accounts : RegNew(n, a)
    BY <1>1, <1>2 DEF RegNew
  <1>3. CASE RegDel(n)
    BY <1>1, <1>3 DEF RegDel
  <1>4. CASE \E k \in Classes : RegClass(n, k) \/ CmdClass(n, k)
    BY <1>1, <1>4 DEF RegClass, CmdClass
  <1>5. CASE (\E h \in BOOLEAN : RegHideShare(n, h)) \/ RegPassReset(n) \/ RegPass(n)
    BY <1>5 DEF RegHideShare, RegPassReset, RegPass, listVars
  <1>6. CASE \E a \in Addresses, z \in Zones : RegFakeIP(n, a, z)
    BY <1>6 DEF RegFakeIP
  <1>. QED
    BY <1>2, <1>3, <1>4, <1>5, <1>6 DEF AdminStep

-----------------------------------------------------------------------------
(* Steps that change the lists *)

(* A step of c that leaves the other connections and the lists at their nicks as they were *)
LEMMA OtherConn ==
  ASSUME NEW d \in Conns, ConnInv(d),
         UNCHANGED <<user[d], flags[d]>>, Open(d)' => Open(d),
         Listed(d) => UNCHANGED <<userList[user[d].nick], activeUsers[user[d].nick],
                                  passiveUsers[user[d].nick]>>
  PROVE  ConnInv(d)'
  BY DEF ConnInv, Listed, HasUser, Admitted

(* A new connection object has no user. *)
LEMMA NewConnLists ==
  ASSUME IInv, ListInv, NEW c \in Conns, InOrder(c), NEW a \in Addresses, NEW z \in Zones,
         OnNewConn(c, a, z)
  PROVE  ListInv'
  <1>1. flags[c] = {} /\ ~ HasUser(c) /\ ~ HasUser(c)' /\ flags'[c] = {}
    BY DEF OnNewConn, InOrder, ListInv, ConnInv, Admitted, HasUser
  <1>2. UNCHANGED <<user, flags, reg, regDB, userList, activeUsers, passiveUsers, opList, robotList>>
    BY DEF OnNewConn, listVars
  <1>3. \A d \in Conns \ {c} : Open(d)' <=> Open(d)
    BY DEF OnNewConn, Open, IInv, TypeOK
  <1>4. ASSUME NEW d \in Conns PROVE ConnInv(d)'
    <2>1. CASE d = c
      BY <1>1, <2>1 DEF ConnInv, Listed
    <2>2. CASE d # c
      BY <1>2, <1>3, <2>2, OtherConn DEF ListInv
    <2>. QED
      BY <2>1, <2>2
  <1>5. ASSUME NEW n \in Nicks PROVE NickInv(n)'
    BY <1>2 DEF ListInv, NickInv, Listed, HasUser
  <1>6. NoRobotAccount'
    BY <1>1, <1>2, <1>3 DEF ListInv, NoRobotAccount, HasUser
  <1>. QED
    BY <1>4, <1>5, <1>6 DEF ListInv

(* What $ValidateNick makes of the nick: a user who is not listed, and has the class of the
   account at most *)
LEMMA ValidatedUser ==
  ASSUME NEW n \in Nicks, NEW bot \in BOOLEAN, NEW a \in Accs, NEW u,
         u = NewUser(n) \/ u = Validated(NewUser(n), a, bot)
  PROVE  /\ u \in Users /\ u.nick = n /\ ~ u.inList /\ ~ u.setPass
         /\ a.class = 0 => u.class \in {0, Pinger}
  <1>1. /\ NewUser(n) \in Users /\ NewUser(n).nick = n /\ NewUser(n).class = 0
        /\ ~ NewUser(n).inList /\ ~ NewUser(n).setPass
    BY NewUserType DEF NewUser, Accs
  <1>2. Validated(NewUser(n), a, bot) \in Users
    BY NewUserType DEF Accs
  <1>3. /\ Registered(NewUser(n), a).nick = n /\ ~ Registered(NewUser(n), a).inList
        /\ ~ Registered(NewUser(n), a).setPass
    BY <1>1 DEF Registered, Users
  <1>4. /\ [NewUser(n) EXCEPT !.class = Pinger].nick = n
        /\ ~ [NewUser(n) EXCEPT !.class = Pinger].inList
        /\ ~ [NewUser(n) EXCEPT !.class = Pinger].setPass
        /\ [NewUser(n) EXCEPT !.class = Pinger].class = Pinger
    BY <1>1 DEF Users
  <1>5. /\ Validated(NewUser(n), a, bot).nick = n
        /\ ~ Validated(NewUser(n), a, bot).inList
        /\ ~ Validated(NewUser(n), a, bot).setPass
    BY <1>1, <1>3, <1>4 DEF Validated
  <1>6. a.class = 0 => Validated(NewUser(n), a, bot).class \in {0, Pinger}
    BY <1>1, <1>4 DEF Validated, Registered, Pinger
  <1>. QED
    BY <1>1, <1>2, <1>5, <1>6

(* The user that $ValidateNick creates is in no list. *)
LEMMA ValidateLists ==
  ASSUME IInv, ListInv, NEW c \in Conns, InOrder(c), NEW n \in Nicks, NEW a \in Addresses,
         NEW z \in Zones, DC_ValidateNick(c, n, a, z) \/ DC_ValidateNickVetoed(c, n, a, z)
  PROVE  ListInv'
  <1>1. Admit(c, n, a, z)
    BY DEF DC_ValidateNick, DC_ValidateNickVetoed
  <1>2. Open(c) /\ ~ HasUser(c) /\ "MYINFO" \notin flags[c]
    BY <1>1 DEF Admit, ValidNick, InOrder, ListInv, ConnInv
  <1>3. PICK u : /\ user' = [user EXCEPT ![c] = u]
                 /\ u = NewUser(n) \/ u = Validated(NewUser(n), regDB[n], botInfo[c])
    BY DEF DC_ValidateNick, DC_ValidateNickVetoed
  <1>4. /\ u \in Users /\ u.nick = n /\ ~ u.inList /\ ~ u.setPass
        /\ regDB[n].class = 0 => u.class \in {0, Pinger}
    <2>1. regDB[n] \in Accs /\ botInfo[c] \in BOOLEAN
      BY DEF IInv, TypeOK, Accs
    <2>. QED
      BY <1>3, <2>1, ValidatedUser
  <1>5. user'[c] = u /\ \A d \in Conns \ {c} : user'[d] = user[d]
    BY <1>3 DEF IInv, TypeOK
  <1>6. HasUser(c)' /\ ~ Listed(c)' /\ ~ Listed(c)
    BY <1>2, <1>4, <1>5, UsersAreUsers DEF HasUser, Listed
  <1>7. /\ Admitted(c)' /\ "MYINFO" \notin flags'[c]
        /\ \A d \in Conns \ {c} : flags'[d] = flags[d]
    <2>1. "MYINFO" \notin AdmitFlags(n) /\ "ALLOWED" \in AdmitFlags(n)
      BY DEF AdmitFlags
    <2>. QED
      BY <1>2, <2>1 DEF DC_ValidateNick, DC_ValidateNickVetoed, Admitted, IInv, TypeOK
  <1>8. \A d \in Conns : Open(d)' => Open(d)
    BY DEF DC_ValidateNick, DC_ValidateNickVetoed, Open, IInv, TypeOK
  <1>9. UNCHANGED <<userList, activeUsers, passiveUsers, opList, robotList, regDB>>
    BY <1>1 DEF Admit, listVars
  <1>10. ASSUME NEW d \in Conns PROVE ConnInv(d)'
    <2>1. CASE d = c
      BY <1>4, <1>5, <1>6, <1>7, <2>1 DEF ConnInv
    <2>2. CASE d # c
      BY <1>5, <1>7, <1>8, <1>9, <2>2, OtherConn DEF ListInv
    <2>. QED
      BY <2>1, <2>2
  <1>11. ASSUME NEW m \in Nicks PROVE NickInv(m)'
    BY <1>5, <1>6, <1>9 DEF ListInv, NickInv, Listed, HasUser
  <1>12. NoRobotAccount'
    <2>1. reg'[c] = regDB[n] /\ \A d \in Conns \ {c} : reg'[d] = reg[d]
      BY <1>1 DEF Admit, IInv, TypeOK
    <2>2. \A d \in Conns \ {c} : Open(d)' /\ HasUser(d)' => Open(d) /\ HasUser(d)
      BY <1>5, <1>8 DEF HasUser
    <2>. QED
      BY <1>4, <1>5, <1>9, <2>1, <2>2 DEF ListInv, NoRobotAccount
  <1>. QED
    BY <1>10, <1>11, <1>12 DEF ListInv

(* DeleteConn takes its user out of every list, and nobody else. *)
LEMMA DeleteLists ==
  ASSUME IInv, ListInv, NEW c \in Conns, DeleteConn(c)
  PROVE  ListInv'
  <1>. DEFINE n == user[c].nick
              out == HasUser(c) /\ ~ EntryOfOther(c)
  <1>1. /\ user'[c] = NoUser /\ flags'[c] = {} /\ ~ Open(c)'
        /\ \A d \in Conns \ {c} : UNCHANGED <<user[d], flags[d], sock[d], reg[d]>>
        /\ UNCHANGED <<robotList, regDB>>
    BY DEF DeleteConn, Open, IInv, TypeOK
  <1>2. HasUser(c) => n \in Nicks
    BY DEF HasUser, IInv, TypeOK, Users
  <1>3. ASSUME NEW m \in Nicks
        PROVE  /\ userList'[m] = IF out /\ m = n THEN NoOne ELSE userList[m]
               /\ activeUsers'[m] = IF out /\ m = n THEN NoOne ELSE activeUsers[m]
               /\ passiveUsers'[m] = IF out /\ m = n THEN NoOne ELSE passiveUsers[m]
               /\ opList'[m] = IF out /\ m = n THEN NoOne ELSE opList[m]
    BY DEF DeleteConn, RemoveByHash, IInv, TypeOK
  <1>4. ASSUME NEW m \in Nicks PROVE userList'[m] # c
    <2>1. CASE userList[m] = c
      <3>1. HasUser(c) /\ n = m
        BY <2>1 DEF IInv, Holders
      <3>2. out
        BY <2>1, <3>1 DEF EntryOfOther
      <3>. QED
        BY <1>3, <3>1, <3>2, MarksAreNotConns
    <2>2. CASE userList[m] # c
      BY <1>3, <2>2, MarksAreNotConns
    <2>. QED
      BY <2>1, <2>2
  <1>5. ASSUME NEW d \in Conns PROVE ConnInv(d)'
    <2>1. CASE d = c
      BY <1>1, <2>1 DEF ConnInv, Listed, HasUser
    <2>2. CASE d # c
      <3>1. Listed(d) => user[d].nick \in Nicks /\ ~ (out /\ user[d].nick = n)
        <4>1. Listed(d) => user[d].nick \in Nicks
          BY DEF Listed, HasUser, IInv, TypeOK, Users
        <4>2. Listed(d) => userList[user[d].nick] = d
          BY DEF ListInv, ConnInv
        <4>. QED
          BY <2>2, <4>1, <4>2, MarksAreNotConns DEF EntryOfOther
      <3>2. Open(d)' => Open(d)
        BY <1>1, <2>2 DEF Open
      <3>. HIDE DEF out, n
      <3>3. Listed(d) => UNCHANGED <<userList[user[d].nick], activeUsers[user[d].nick],
                                     passiveUsers[user[d].nick]>>
        <4>1. UNCHANGED user[d]
          BY <1>1, <2>2
        <4>. QED
          BY <1>3, <3>1, <4>1
      <3>. QED
        BY <1>1, <2>2, <3>2, <3>3, OtherConn DEF ListInv
    <2>. QED
      BY <2>1, <2>2
  <1>6. ASSUME NEW m \in Nicks PROVE NickInv(m)'
    <2>1. NickInv(m)
      BY DEF ListInv
    <2>2. CASE out /\ m = n
      <3>1. userList[m] # Robot
        BY <2>2, MarksAreNotConns DEF EntryOfOther
      <3>. QED
        BY <1>1, <1>3, <2>1, <2>2, <3>1, MarksAreNotConns DEF NickInv
    <2>3. CASE ~ (out /\ m = n)
      <3>1. userList[m] \in Conns => Listed(userList[m])'
        BY <1>1, <1>3, <1>4, <2>1, <2>3 DEF NickInv, Listed, HasUser
      <3>. HIDE DEF out, n
      <3>. QED
        BY <1>1, <1>3, <2>1, <2>3, <3>1 DEF NickInv
    <2>. QED
      BY <2>2, <2>3
  <1>7. NoRobotAccount'
    BY <1>1 DEF ListInv, NoRobotAccount, Open, HasUser
  <1>. QED
    BY <1>5, <1>6, <1>7 DEF ListInv

(* What the $MyINFO of c, the entry apart, does to the users *)
LEMMA MyINFOUsers ==
  ASSUME IInv, NEW c \in Conns, NEW sh \in Shares, NEW pas \in BOOLEAN, MyINFO(c, sh, pas),
         user' = [user EXCEPT ![c] = Rated(user[c], sh, pas)]
  PROVE  /\ Open(c) /\ HasUser(c) /\ user[c] \in Users /\ user[c].nick \in Nicks
         /\ HasUser(c)' /\ user'[c].nick = user[c].nick /\ user'[c].inList = user[c].inList
         /\ user'[c].passive = pas /\ user'[c].class = user[c].class
         /\ user'[c].setPass = user[c].setPass
         /\ \A d \in Conns \ {c} : user'[d] = user[d]
         /\ UNCHANGED <<robotList, reg, regDB>>
  <1>1. Open(c) /\ HasUser(c) /\ user[c] \in Users
    BY DEF MyINFO, HasUser, IInv, TypeOK
  <1>2. user'[c] = Rated(user[c], sh, pas) /\ \A d \in Conns \ {c} : user'[d] = user[d]
    BY DEF IInv, TypeOK
  <1>3. /\ user[c].nick \in Nicks
        /\ Rated(user[c], sh, pas) \in Users
        /\ Rated(user[c], sh, pas).nick = user[c].nick
        /\ Rated(user[c], sh, pas).inList = user[c].inList
        /\ Rated(user[c], sh, pas).passive = pas
        /\ Rated(user[c], sh, pas).class = user[c].class
        /\ Rated(user[c], sh, pas).setPass = user[c].setPass
    BY <1>1 DEF Users, Rated
  <1>. QED
    BY <1>1, <1>2, <1>3, UsersAreUsers DEF MyINFO, HasUser

(* A $MyINFO that has the user refused changes no list. *)
LEMMA RefusedLists ==
  ASSUME IInv, ListInv, NEW c \in Conns, NEW sh \in Shares, NEW pas \in BOOLEAN,
         \/ DC_MyINFOShareRefused(c, sh, pas)
         \/ DC_MyINFOIncomplete(c, sh, pas)
         \/ \E same \in BOOLEAN : DC_MyINFONickTaken(c, sh, pas, same)
  PROVE  ListInv'
  <1>1. /\ MyINFO(c, sh, pas) /\ user' = [user EXCEPT ![c] = Rated(user[c], sh, pas)]
        /\ UNCHANGED <<userList, activeUsers, passiveUsers, opList>>
    BY DEF DC_MyINFOShareRefused, DC_MyINFOIncomplete, DC_MyINFONickTaken, FirstMyINFO, listVars
  <1>2. /\ ~ Open(c)' /\ \A d \in Conns \ {c} : Open(d)' <=> Open(d)
        /\ Admitted(c) => Admitted(c)'
        /\ \A d \in Conns \ {c} : flags'[d] = flags[d]
    BY DEF DC_MyINFOShareRefused, DC_MyINFOIncomplete, DC_MyINFONickTaken, FirstMyINFO,
           CloseNice, Open, Admitted, IInv, TypeOK
  <1>3. /\ Open(c) /\ HasUser(c) /\ user[c] \in Users /\ user[c].nick \in Nicks
        /\ HasUser(c)' /\ user'[c].nick = user[c].nick /\ user'[c].inList = user[c].inList
        /\ \A d \in Conns \ {c} : user'[d] = user[d]
        /\ UNCHANGED <<robotList, reg, regDB>>
    BY <1>1, MyINFOUsers
  <1>4. ASSUME NEW d \in Conns PROVE ConnInv(d)'
    <2>1. CASE d = c
      BY <1>1, <1>2, <1>3, <2>1 DEF ListInv, ConnInv, Listed
    <2>2. CASE d # c
      BY <1>1, <1>2, <1>3, <2>2, OtherConn DEF ListInv
    <2>. QED
      BY <2>1, <2>2
  <1>5. ASSUME NEW m \in Nicks PROVE NickInv(m)'
    BY <1>1, <1>3 DEF ListInv, NickInv, Listed, HasUser
  <1>6. NoRobotAccount'
    BY <1>2, <1>3 DEF ListInv, NoRobotAccount, HasUser
  <1>. QED
    BY <1>4, <1>5, <1>6 DEF ListInv

(* DC_MyINFO moves a listed user into the list of his mode, and leaves the others alone. *)
LEMMA ModeMoves ==
  ASSUME IInv, ListInv, NEW c \in Conns, Open(c), HasUser(c), NEW pas \in BOOLEAN,
         NEW m \in Nicks
  PROVE  IF user[c].inList /\ m = user[c].nick
         THEN /\ ActiveAfter(c, pas)[m] = (IF pas THEN NoOne ELSE c)
              /\ PassiveAfter(c, pas)[m] = (IF pas THEN c ELSE NoOne)
         ELSE /\ ActiveAfter(c, pas)[m] = activeUsers[m]
              /\ PassiveAfter(c, pas)[m] = passiveUsers[m]
  <1>. DEFINE n == user[c].nick
  <1>1. user[c] \in Users /\ n \in Nicks /\ user[c].passive \in BOOLEAN
    BY DEF HasUser, IInv, TypeOK, Users
  <1>2. CASE user[c].inList /\ m = n
    <2>1. /\ userList[n] = c
          /\ (activeUsers[n] = c) # (passiveUsers[n] = c)
          /\ (passiveUsers[n] = c) = user[c].passive
      BY <1>2 DEF ListInv, ConnInv, Listed
    <2>2. /\ activeUsers[n] \in {NoOne, c} /\ passiveUsers[n] \in {NoOne, c} /\ c # NoOne
      BY <1>1, <2>1, MarksAreNotConns DEF ListInv, NickInv
    <2>3. CASE user[c].passive = pas
      BY <1>2, <2>1, <2>2, <2>3 DEF ActiveAfter, PassiveAfter, ChangesMode
    <2>4. CASE user[c].passive # pas /\ pas
      <3>1. activeUsers[n] = c /\ passiveUsers[n] = NoOne
        BY <1>1, <2>1, <2>2, <2>4
      <3>2. /\ ActiveAfter(c, pas) = RemoveByHash(activeUsers, n)
            /\ PassiveAfter(c, pas) = AddWithHash(passiveUsers, n, c)
        BY <1>2, <2>4 DEF ActiveAfter, PassiveAfter, ChangesMode
      <3>3. ActiveAfter(c, pas)[n] = NoOne /\ PassiveAfter(c, pas)[n] = c
        BY <1>1, <3>1, <3>2 DEF RemoveByHash, AddWithHash, IInv, TypeOK
      <3>. QED
        BY <1>2, <2>4, <3>3
    <2>5. CASE user[c].passive # pas /\ ~ pas
      <3>1. activeUsers[n] = NoOne /\ passiveUsers[n] = c
        BY <1>1, <2>1, <2>2, <2>5
      <3>2. /\ ActiveAfter(c, pas) = AddWithHash(activeUsers, n, c)
            /\ PassiveAfter(c, pas) = RemoveByHash(passiveUsers, n)
        BY <1>2, <2>5 DEF ActiveAfter, PassiveAfter, ChangesMode
      <3>3. ActiveAfter(c, pas)[n] = c /\ PassiveAfter(c, pas)[n] = NoOne
        BY <1>1, <3>1, <3>2 DEF RemoveByHash, AddWithHash, IInv, TypeOK
      <3>. QED
        BY <1>2, <2>5, <3>3
    <2>. QED
      BY <1>2, <2>3, <2>4, <2>5
  <1>3. CASE ~ (user[c].inList /\ m = n)
    BY <1>1, <1>3 DEF ActiveAfter, PassiveAfter, ChangesMode, RemoveByHash, AddWithHash, IInv, TypeOK
  <1>. QED
    BY <1>2, <1>3

(* A $MyINFO that passes the share limits puts a listed user into the list of his mode. *)
LEMMA UpdatedLists ==
  ASSUME IInv, ListInv, NEW c \in Conns, NEW sh \in Shares, NEW pas \in BOOLEAN,
         \/ DC_MyINFORefused(c, sh, pas)
         \/ DC_MyINFOVetoed(c, sh, pas)
         \/ DC_MyINFOUpdate(c, sh, pas)
  PROVE  ListInv'
  <1>1. /\ MyINFO(c, sh, pas) /\ user' = [user EXCEPT ![c] = Rated(user[c], sh, pas)]
        /\ activeUsers' = ActiveAfter(c, pas) /\ passiveUsers' = PassiveAfter(c, pas)
        /\ UNCHANGED <<userList, opList, flags>>
    BY DEF DC_MyINFORefused, DC_MyINFOVetoed, DC_MyINFOUpdate, MyINFOListed
  <1>2. \A d \in Conns : Open(d)' => Open(d)
    BY DEF DC_MyINFORefused, DC_MyINFOVetoed, DC_MyINFOUpdate, CloseNice, Open, IInv, TypeOK
  <1>3. /\ Open(c) /\ HasUser(c) /\ user[c] \in Users /\ user[c].nick \in Nicks
        /\ HasUser(c)' /\ user'[c].nick = user[c].nick /\ user'[c].inList = user[c].inList
        /\ user'[c].passive = pas /\ user'[c].class = user[c].class
        /\ user'[c].setPass = user[c].setPass
        /\ \A d \in Conns \ {c} : user'[d] = user[d]
        /\ UNCHANGED <<robotList, reg, regDB>>
    BY <1>1, MyINFOUsers
  <1>4. ASSUME NEW m \in Nicks
        PROVE  IF user[c].inList /\ m = user[c].nick
               THEN /\ activeUsers'[m] = (IF pas THEN NoOne ELSE c)
                    /\ passiveUsers'[m] = (IF pas THEN c ELSE NoOne)
               ELSE activeUsers'[m] = activeUsers[m] /\ passiveUsers'[m] = passiveUsers[m]
    BY <1>1, <1>3, ModeMoves
  <1>5. Listed(c) <=> user[c].inList
    BY <1>3 DEF Listed
  <1>6. Listed(c)' <=> Listed(c)
    BY <1>3 DEF Listed
  <1>7. ASSUME NEW d \in Conns PROVE ConnInv(d)'
    <2>1. CASE d = c
      <3>1. Listed(c) => /\ (activeUsers'[user[c].nick] = c) # (passiveUsers'[user[c].nick] = c)
                         /\ (passiveUsers'[user[c].nick] = c) = pas
        BY <1>3, <1>4, <1>5, MarksAreNotConns
      <3>. QED
        <4>1. /\ ConnInv(c) /\ (Admitted(c)' <=> Admitted(c)) /\ (Open(c)' => Open(c))
              /\ "MYINFO" \in flags'[c] <=> "MYINFO" \in flags[c]
          BY <1>1, <1>2 DEF ListInv, Admitted
        <4>. QED
          BY <1>1, <1>3, <1>6, <2>1, <3>1, <4>1 DEF ConnInv
    <2>2. CASE d # c
      <3>1. Listed(d) => user[d].nick \in Nicks /\ ~ (user[c].inList /\ user[d].nick = user[c].nick)
        <4>1. Listed(d) => user[d].nick \in Nicks /\ userList[user[d].nick] = d
          BY DEF Listed, HasUser, IInv, TypeOK, Users, ListInv, ConnInv
        <4>2. Listed(c) => userList[user[c].nick] = c
          BY DEF ListInv, ConnInv
        <4>. QED
          BY <1>5, <2>2, <4>1, <4>2
      <3>. QED
        BY <1>1, <1>2, <1>3, <1>4, <2>2, <3>1, OtherConn DEF ListInv
    <2>. QED
      BY <2>1, <2>2
  <1>8. ASSUME NEW m \in Nicks PROVE NickInv(m)'
    <2>1. user[c].inList /\ m = user[c].nick => userList[m] = c
      BY <1>5 DEF ListInv, ConnInv
    <2>2. userList[m] \in Conns => Listed(userList[m])'
      BY <1>1, <1>3, <1>6 DEF ListInv, NickInv, Listed, HasUser
    <2>. QED
      BY <1>1, <1>3, <1>4, <2>1, <2>2 DEF ListInv, NickInv
  <1>9. NoRobotAccount'
    BY <1>2, <1>3 DEF ListInv, NoRobotAccount, HasUser
  <1>. QED
    BY <1>7, <1>8, <1>9 DEF ListInv

(* Nobody takes a nick from a robot: who may take one from another is registered. *)
LEMMA NickFromWhom ==
  ASSUME IInv, ListInv, NEW c \in Conns, Open(c), HasUser(c), ~ user[c].inList,
         NEW sh, NEW same, NickFree(c, sh, same)
  PROVE  /\ user[c] \in Users /\ user[c].nick \in Nicks
         /\ userList[user[c].nick] \in (Conns \ {c}) \cup {NoOne}
  <1>. DEFINE n == user[c].nick
  <1>1. user[c] \in Users /\ n \in Nicks
    BY DEF HasUser, IInv, TypeOK, Users
  <1>2. userList[n] # Robot
    <2>1. SUFFICES ASSUME userList[n] = Robot PROVE FALSE
      OBVIOUS
    <2>2. n \in RobotNicks
      BY <1>1, <2>1 DEF ListInv, NickInv, NoRobotAccount
    <2>3. user[c].class \in {0, -1}
      BY <2>2 DEF ListInv, NoRobotAccount, Pinger
    <2>4. ~ (user[c].class >= RegUser)
      BY <2>3 DEF RegUser
    <2>. QED
      BY <2>1, <2>4, MarksAreNotConns DEF NickFree, SameUser
  <1>3. userList[n] # c
    BY <1>1, MarksAreNotConns DEF ListInv, NickInv, Listed
  <1>4. userList[n] \in Conns \cup {NoOne, Robot}
    BY <1>1 DEF IInv, TypeOK
  <1>. QED
    BY <1>1, <1>2, <1>3, <1>4

(* The one listed under the nick of c *)
Holder(c) == userList[user[c].nick]

(* What the entry of c does to the users *)
Entered(c, sh, pas, same) ==
    /\ Open(c) /\ HasUser(c) /\ ~ Listed(c) /\ "MYINFO" \notin flags[c] /\ Admitted(c)
    /\ user[c] \in Users /\ user[c].nick \in Nicks
    /\ Holder(c) \in (Conns \ {c}) \cup {NoOne}
    /\ NickFree(c, sh, same)
    /\ user'[c] \in Users /\ user'[c].nick = user[c].nick /\ user'[c].inList
    /\ user'[c].passive = pas /\ user'[c].class = user[c].class
    /\ flags' = [flags EXCEPT ![c] = @ \cup {"MYINFO"}]
    /\ \A d \in Conns \ {c, Holder(c)} : UNCHANGED <<user[d], sock[d]>>
    /\ Holder(c) \in Conns =>
          /\ Listed(Holder(c)) /\ user[Holder(c)] \in Users
          /\ user[Holder(c)].nick = user[c].nick
          /\ user'[Holder(c)] = [user[Holder(c)] EXCEPT !.inList = FALSE]
          /\ sock'[Holder(c)] \in {"closing", "dead"}

LEMMA EnterUsers ==
  ASSUME IInv, ListInv, NEW c \in Conns, NEW sh \in Shares, NEW pas \in BOOLEAN,
         NEW same \in BOOLEAN, NEW outcome, Enter(c, sh, pas, same, outcome)
  PROVE  Entered(c, sh, pas, same)
  <1>. DEFINE n == user[c].nick
              old == userList[n]
              ask == outcome # "InList" /\ reg[c].class # 0 /\ reg[c].pwdChange
              me == [Rated(user[c], sh, pas) EXCEPT !.inList = TRUE, !.setPass = ask]
  <1>1. /\ Open(c) /\ HasUser(c) /\ ~ user[c].inList /\ NickFree(c, sh, same)
        /\ flags' = [flags EXCEPT ![c] = @ \cup {"MYINFO"}]
    BY DEF Enter, FirstMyINFO, MyINFO
  <1>2. user[c] \in Users /\ n \in Nicks /\ old \in (Conns \ {c}) \cup {NoOne}
    BY <1>1, NickFromWhom
  <1>3. ~ Listed(c) /\ "MYINFO" \notin flags[c] /\ Admitted(c)
    BY <1>1 DEF ListInv, ConnInv, Listed
  <1>4. ask \in BOOLEAN
    BY DEF IInv, TypeOK
  <1>5. me \in Users /\ me.nick = n /\ me.inList /\ me.passive = pas /\ me.class = user[c].class
    BY <1>2, <1>4 DEF Users, Rated
  <1>6. /\ user'[c] = me
        /\ \A d \in Conns \ {c, old} : UNCHANGED <<user[d], sock[d]>>
        /\ old \in Conns => /\ user'[old] = [user[old] EXCEPT !.inList = FALSE]
                            /\ sock'[old] \in {"closing", "dead"}
    <2>1. user'[c] = me
      BY DEF Enter
    <2>2. \A d \in Conns \ {c, old} : UNCHANGED <<user[d], sock[d]>>
      BY DEF Enter
    <2>3. old \in Conns => user'[old] = [user[old] EXCEPT !.inList = FALSE]
      BY <1>2, MarksAreNotConns DEF Enter
    <2>4. old \in Conns => sock'[old] \in {"closing", "dead"}
      BY <1>2, MarksAreNotConns DEF Enter, TakenOver, CloseNice
    <2>. QED
      BY <2>1, <2>2, <2>3, <2>4
  <1>7. old \in Conns => Listed(old) /\ user[old] \in Users /\ user[old].nick = n
    BY <1>2 DEF IInv, TypeOK, Holders, HasUser, ListInv, NickInv
  <1>8. old = Holder(c)
    BY DEF Holder
  <1>. HIDE DEF me, ask, old
  <1>. QED
    BY <1>1, <1>2, <1>3, <1>5, <1>6, <1>7, <1>8 DEF Entered

(* ... and to the lists: at the nick of c they know nobody but c, elsewhere they are as before. *)
LEMMA EnterListed ==
  ASSUME IInv, ListInv, NEW c \in Conns, NEW sh \in Shares, NEW pas \in BOOLEAN,
         NEW same \in BOOLEAN, NEW outcome, Enter(c, sh, pas, same, outcome), NEW m \in Nicks
  PROVE  IF m = user[c].nick
         THEN /\ userList'[m] = c
              /\ activeUsers'[m] = (IF pas THEN NoOne ELSE c)
              /\ passiveUsers'[m] = (IF pas THEN c ELSE NoOne)
              /\ opList'[m] = (IF user[c].class >= Operator THEN c ELSE NoOne)
         ELSE UNCHANGED <<userList[m], activeUsers[m], passiveUsers[m], opList[m]>>
  <1>0. /\ user[c] \in Users /\ user[c].nick \in Nicks
        /\ Holder(c) \in (Conns \ {c}) \cup {NoOne}
        /\ user'[c].class = user[c].class
    <2>1. Entered(c, sh, pas, same)
      BY EnterUsers
    <2>. QED
      BY <2>1 DEF Entered
  <1>. DEFINE n == user[c].nick
              old == userList[n]
              Marks == Conns \cup {NoOne, Robot}
  <1>1. /\ user[c] \in Users /\ n \in Nicks /\ old \in (Conns \ {c}) \cup {NoOne}
        /\ user'[c].class = user[c].class
    BY <1>0 DEF Holder
  <1>2. userList' = [userList EXCEPT ![n] = c]
    BY <1>1, NickGiven DEF IInv, Enter
  <1>3. /\ activeUsers[n] \in {NoOne, old} /\ passiveUsers[n] \in {NoOne, old}
        /\ opList[n] \in {NoOne, old}
    BY <1>1 DEF ListInv, NickInv
  <1>4. ASSUME NEW list \in [Nicks -> Marks], list[n] \in {NoOne, old}
        PROVE  /\ VacatedMode(list, n) \in [Nicks -> Marks] /\ Vacated(list, n) \in [Nicks -> Marks]
               /\ VacatedMode(list, n)[n] = NoOne /\ Vacated(list, n)[n] = NoOne
               /\ m # n => VacatedMode(list, n)[m] = list[m] /\ Vacated(list, n)[m] = list[m]
    BY <1>1, <1>4 DEF VacatedMode, Vacated, RemoveByHash
  <1>5. ASSUME NEW list \in [Nicks -> Marks], list[n] = NoOne
        PROVE  /\ AddWithHash(list, n, c)[n] = c
               /\ m # n => AddWithHash(list, n, c)[m] = list[m]
    BY <1>1, <1>5 DEF AddWithHash
  <1>6. /\ activeUsers'[n] = (IF pas THEN NoOne ELSE c)
        /\ m # n => activeUsers'[m] = activeUsers[m]
    <2>1. activeUsers \in [Nicks -> Marks]
      BY DEF IInv, TypeOK
    <2>2. activeUsers' = IF pas THEN VacatedMode(activeUsers, n)
                         ELSE AddWithHash(VacatedMode(activeUsers, n), n, c)
      BY DEF Enter, AddToMode
    <2>. QED
      BY <1>3, <1>4, <1>5, <2>1, <2>2
  <1>7. /\ passiveUsers'[n] = (IF pas THEN c ELSE NoOne)
        /\ m # n => passiveUsers'[m] = passiveUsers[m]
    <2>1. passiveUsers \in [Nicks -> Marks]
      BY DEF IInv, TypeOK
    <2>2. passiveUsers' = IF pas THEN AddWithHash(VacatedMode(passiveUsers, n), n, c)
                          ELSE VacatedMode(passiveUsers, n)
      BY DEF Enter, AddToMode
    <2>. QED
      BY <1>3, <1>4, <1>5, <2>1, <2>2
  <1>8. /\ opList'[n] = (IF user[c].class >= Operator THEN c ELSE NoOne)
        /\ m # n => opList'[m] = opList[m]
    <2>1. opList \in [Nicks -> Marks]
      BY DEF IInv, TypeOK
    <2>2. opList' = AddToOps(Vacated(opList, n), n, c, user'[c].class)
      <3>1. opList' = AddToOps(Vacated(opList, n), n, c,
                        [Rated(user[c], sh, pas) EXCEPT !.inList = TRUE,
                           !.setPass = outcome # "InList" /\ reg[c].class # 0
                                           /\ reg[c].pwdChange].class)
        BY DEF Enter
      <3>. QED
        BY <3>1 DEF Enter
    <2>3. opList' = IF user[c].class >= Operator THEN AddWithHash(Vacated(opList, n), n, c)
                    ELSE Vacated(opList, n)
      BY <1>1, <2>2 DEF AddToOps
    <2>. QED
      BY <1>3, <1>4, <1>5, <2>1, <2>3
  <1>9. userList'[n] = c /\ (m # n => userList'[m] = userList[m])
    BY <1>1, <1>2 DEF IInv, TypeOK
  <1>. HIDE DEF n, old
  <1>. QED
    BY <1>6, <1>7, <1>8, <1>9 DEF n

(* The entry of c: it is the one listed under its nick, and whoever was there is closed. *)
LEMMA EnterLists ==
  ASSUME IInv, ListInv, NEW c \in Conns, NEW sh \in Shares, NEW pas \in BOOLEAN,
         NEW same \in BOOLEAN, NEW outcome, Enter(c, sh, pas, same, outcome)
  PROVE  ListInv'
  <1>. DEFINE n == user[c].nick
              old == Holder(c)
  <1>1. /\ Open(c) /\ HasUser(c) /\ ~ Listed(c) /\ Admitted(c)
        /\ user[c] \in Users /\ n \in Nicks /\ old \in (Conns \ {c}) \cup {NoOne}
        /\ user'[c] \in Users /\ user'[c].nick = n /\ user'[c].inList
        /\ user'[c].passive = pas /\ user'[c].class = user[c].class
        /\ flags' = [flags EXCEPT ![c] = @ \cup {"MYINFO"}]
        /\ \A d \in Conns \ {c, old} : UNCHANGED <<user[d], sock[d]>>
        /\ old \in Conns =>
               /\ Listed(old) /\ user[old] \in Users /\ user[old].nick = n
               /\ user'[old] = [user[old] EXCEPT !.inList = FALSE]
               /\ sock'[old] \in {"closing", "dead"}
    <2>1. Entered(c, sh, pas, same)
      BY EnterUsers
    <2>. QED
      BY <2>1 DEF Entered
  <1>2. \A m \in Nicks :
            IF m = n
            THEN /\ userList'[m] = c
                 /\ activeUsers'[m] = (IF pas THEN NoOne ELSE c)
                 /\ passiveUsers'[m] = (IF pas THEN c ELSE NoOne)
                 /\ opList'[m] = (IF user[c].class >= Operator THEN c ELSE NoOne)
            ELSE UNCHANGED <<userList[m], activeUsers[m], passiveUsers[m], opList[m]>>
    BY EnterListed
  <1>3. UNCHANGED <<reg, regDB, robotList>>
    BY DEF Enter, FirstMyINFO, MyINFO
  <1>4. /\ "MYINFO" \in flags'[c] /\ Admitted(c)'
        /\ \A d \in Conns \ {c} : flags'[d] = flags[d]
    BY <1>1 DEF Admitted, IInv, TypeOK
  <1>5. HasUser(c)' /\ Listed(c)'
    BY <1>1, UsersAreUsers DEF HasUser, Listed
  <1>6. old = userList[n]
    BY DEF Holder
  <1>7. old \in Conns => /\ user'[old] \in Users /\ user'[old].nick = n /\ ~ user'[old].inList
                         /\ sock'[old] # "open"
    <2>1. old \in Conns => [user[old] EXCEPT !.inList = FALSE] \in Users
                           /\ [user[old] EXCEPT !.inList = FALSE].nick = user[old].nick
                           /\ ~ [user[old] EXCEPT !.inList = FALSE].inList
      BY <1>1 DEF Users
    <2>2. old \in Conns => user'[old] = [user[old] EXCEPT !.inList = FALSE]
                           /\ sock'[old] # "open"
      BY <1>1
    <2>3. old \in Conns => user[old].nick = n
      BY <1>1
    <2>. HIDE DEF old, n
    <2>. QED
      BY <2>1, <2>2, <2>3
  <1>. HIDE DEF n, old
  <1>8. ASSUME NEW d \in Conns PROVE ConnInv(d)'
    <2>1. CASE d = c
      BY <1>1, <1>2, <1>4, <1>5, <2>1, MarksAreNotConns DEF ConnInv
    <2>2. CASE d # c /\ d = old
      <3>1. Admitted(d) /\ Admitted(d)'
        BY <1>1, <1>4, <2>2 DEF ListInv, ConnInv, Admitted, Listed
      <3>. QED
        BY <1>7, <2>2, <3>1 DEF ConnInv, Listed, Open
    <2>3. CASE d # c /\ d # old
      <3>1. UNCHANGED <<user[d], sock[d], flags[d]>>
        BY <1>1, <1>4, <2>3
      <3>2. Listed(d) => user[d].nick \in Nicks \ {n}
        BY <1>6, <2>3 DEF Listed, HasUser, IInv, TypeOK, Users, ListInv, ConnInv
      <3>3. Listed(d) => UNCHANGED <<userList[user[d].nick], activeUsers[user[d].nick],
                                     passiveUsers[user[d].nick]>>
        BY <1>2, <3>1, <3>2
      <3>. QED
        BY <3>1, <3>3, OtherConn DEF ListInv, Open
    <2>. QED
      BY <2>1, <2>2, <2>3
  <1>9. ASSUME NEW m \in Nicks PROVE NickInv(m)'
    <2>1. CASE m = n
      <3>1. ~ robotList[m]
        BY <1>1, <1>6, <2>1, MarksAreNotConns DEF ListInv, NickInv
      <3>. QED
        BY <1>1, <1>2, <1>3, <1>5, <2>1, <3>1, MarksAreNotConns DEF NickInv
    <2>2. CASE m # n
      <3>1. UNCHANGED <<userList[m], activeUsers[m], passiveUsers[m], opList[m], robotList>>
        BY <1>2, <1>3, <2>2
      <3>2. userList[m] \in Conns => /\ userList[m] # c /\ userList[m] # old
                                     /\ Listed(userList[m])
        BY <1>1, <2>2 DEF ListInv, NickInv, IInv, Holders
      <3>3. userList[m] \in Conns => Listed(userList[m])'
        BY <1>1, <3>1, <3>2 DEF Listed, HasUser
      <3>. QED
        BY <3>1, <3>3 DEF ListInv, NickInv
    <2>. QED
      BY <2>1, <2>2
  <1>10. NoRobotAccount'
    <2>1. \A d \in Conns : Open(d)' /\ HasUser(d)' => /\ Open(d) /\ HasUser(d) /\ d # old
                                                      /\ user'[d].nick = user[d].nick
      BY <1>1, <1>7 DEF Open, HasUser, n
    <2>2. \A d \in Conns : d # c /\ d # old => user'[d] = user[d]
      BY <1>1
    <2>3. \A d \in Conns : Open(d)' /\ HasUser(d)' /\ ~ user'[d].inList =>
              ~ user[d].inList /\ user'[d].class = user[d].class
      BY <1>1, <2>1, <2>2
    <2>. QED
      BY <1>3, <2>1, <2>3 DEF ListInv, NoRobotAccount
  <1>. QED
    BY <1>8, <1>9, <1>10 DEF ListInv

(* Robots come to nicks that nobody has, and go. *)
LEMMA RobotLists ==
  ASSUME IInv, ListInv, NEW n \in RobotNicks, RobotStep(n)
  PROVE  ListInv'
  <1>0. n \in Nicks
    BY ConstantsAssumption
  <1>1. UNCHANGED <<sock, flags, user, reg, regDB, activeUsers, passiveUsers>>
    BY MarksAreNotConns DEF RobotStep, AddRobot, DelRobot, connVars, AddToMode
  <1>2. \A m \in Nicks : m # n => UNCHANGED <<userList[m], opList[m], robotList[m]>>
    BY DEF RobotStep, AddRobot, DelRobot, AddToOps, AddWithHash, RemoveByHash, IInv, TypeOK
  <1>3. \/ /\ userList[n] = NoOne /\ userList'[n] = Robot
           /\ opList'[n] \in {opList[n], Robot} /\ robotList'[n] = TRUE
        \/ /\ userList[n] = Robot /\ userList'[n] = NoOne
           /\ opList'[n] = NoOne /\ robotList'[n] = FALSE
    <2>1. CASE \E k \in {0, Operator} : AddRobot(n, k)
      BY <1>0, <2>1 DEF AddRobot, AddToOps, AddWithHash, IInv, TypeOK
    <2>2. CASE DelRobot(n)
      BY <1>0, <2>2 DEF DelRobot, RemoveByHash, IInv, TypeOK, ListInv, NickInv
    <2>. QED
      BY <2>1, <2>2 DEF RobotStep
  <1>4. ASSUME NEW d \in Conns PROVE ConnInv(d)'
    <2>1. Listed(d) => user[d].nick \in Nicks \ {n}
      BY <1>3, MarksAreNotConns DEF Listed, HasUser, IInv, TypeOK, Users, ListInv, ConnInv
    <2>. QED
      BY <1>1, <1>2, <2>1, OtherConn DEF ListInv, Open
  <1>5. ASSUME NEW m \in Nicks PROVE NickInv(m)'
    <2>1. CASE m = n
      <3>1. activeUsers[n] = NoOne /\ passiveUsers[n] = NoOne
        BY <1>0, <1>3, MarksAreNotConns DEF ListInv, NickInv, IInv, TypeOK
      <3>2. opList'[n] \in {NoOne, userList'[n]}
        BY <1>0, <1>3 DEF ListInv, NickInv
      <3>. QED
        BY <1>1, <1>3, <2>1, <3>1, <3>2, MarksAreNotConns DEF NickInv
    <2>2. CASE m # n
      BY <1>1, <1>2, <2>2 DEF ListInv, NickInv, Listed, HasUser
    <2>. QED
      BY <2>1, <2>2
  <1>6. NoRobotAccount'
    BY <1>1, <1>2 DEF ListInv, NoRobotAccount, Open, HasUser
  <1>. QED
    BY <1>4, <1>5, <1>6 DEF ListInv

-----------------------------------------------------------------------------
(* The invariant *)

(* A step keeps robots safe if whoever it gives other rights has no robot's nick, is listed, or
   is closed. *)
LEMMA RobotsKept ==
  ASSUME NoRobotAccount, \A d \in Conns : Quiet(d), UNCHANGED robotList,
         \A n \in RobotNicks : regDB'[n].class = regDB[n].class,
         \A d \in Conns : Open(d)' /\ HasUser(d) /\ user[d].nick \in RobotNicks =>
             /\ reg'[d].class = reg[d].class
             /\ user[d].inList \/ user'[d].class = user[d].class
  PROVE  NoRobotAccount'
  <1>1. ASSUME NEW d \in Conns, Open(d)', HasUser(d)', user'[d].nick \in RobotNicks
        PROVE  reg'[d].class = 0 /\ (~ user'[d].inList => user'[d].class \in {0, Pinger})
    <2>1. Open(d) /\ HasUser(d) /\ user[d].nick \in RobotNicks /\ user'[d].inList = user[d].inList
      BY <1>1 DEF Quiet, Alike
    <2>2. reg[d].class = 0 /\ (~ user[d].inList => user[d].class \in {0, Pinger})
      BY <2>1 DEF NoRobotAccount
    <2>. QED
      BY <1>1, <2>1, <2>2
  <1>2. \A n \in RobotNicks : regDB'[n].class = 0
    BY DEF NoRobotAccount
  <1>3. \A n \in Nicks : robotList'[n] => n \in RobotNicks
    BY DEF NoRobotAccount
  <1>. QED
    BY <1>1, <1>2, <1>3 DEF NoRobotAccount

(* The login messages that give nobody a user *)
LEMMA SessionLists ==
  ASSUME IInv, ListInv, NEW c \in Conns,
         \/ DC_Key(c) \/ (\E bot \in BotInfo : DC_Supports(c, bot)) \/ DC_Version(c)
         \/ \E n \in Nicks : DC_ValidateNickRefused(c, n) \/ DC_ValidateNickCounted(c, n)
         \/ DC_MyPass(c) \/ DC_MyPassSet(c) \/ DC_MyPassNotSet(c) \/ RegMyPasswd(c)
  PROVE  ListInv'
  <1>1. /\ \A d \in Conns : Quiet(d)
        /\ UNCHANGED <<userList, activeUsers, passiveUsers, robotList>>
        /\ opList' = opList \/ \E k \in Classes : opList' = OpsWhenSet(c, user[c].nick, k)
    BY SessionQuiet
  <1>2. ASSUME NEW d \in Conns PROVE ConnInv(d)'
    BY <1>1, QuietConn DEF ListInv
  <1>3. ASSUME NEW n \in Nicks PROVE opList'[n] \in {opList[n], NoOne, userList[n]}
    <2>1. CASE opList' = opList
      BY <2>1
    <2>2. CASE opList' # opList
      <3>1. DC_MyPassSet(c) \/ RegMyPasswd(c)
        BY <2>2 DEF DC_Key, DC_Supports, DC_Version, DC_ValidateNickRefused,
                    DC_ValidateNickCounted, DC_MyPass, DC_MyPassNotSet, listVars
      <3>2. Listed(c)
        BY <3>1 DEF DC_MyPassSet, RegMyPasswd, ListInv, ConnInv
      <3>3. userList[user[c].nick] = c
        BY <3>2 DEF ListInv, ConnInv
      <3>4. PICK k \in Classes : opList' = OpsWhenSet(c, user[c].nick, k)
        BY <1>1, <2>2
      <3>. QED
        BY <3>3, <3>4 DEF OpsWhenSet, AddWithHash, IInv, TypeOK
    <2>. QED
      BY <2>1, <2>2
  <1>4. ASSUME NEW n \in Nicks PROVE NickInv(n)'
    BY <1>1, <1>3, QuietNick DEF ListInv
  <1>5. NoRobotAccount'
    <2>1. CASE DC_Key(c) \/ (\E bot \in BotInfo : DC_Supports(c, bot)) \/ DC_Version(c)
      <3>1. UNCHANGED <<user, reg, regDB>>
        BY <2>1 DEF DC_Key, DC_Supports, DC_Version
      <3>. QED
        BY <1>1, <3>1, RobotsKept DEF ListInv
    <2>2. CASE \E n \in Nicks : DC_ValidateNickRefused(c, n) \/ DC_ValidateNickCounted(c, n)
      <3>1. /\ UNCHANGED <<user, regDB>> /\ ~ Open(c)'
            /\ \A d \in Conns \ {c} : reg'[d] = reg[d]
        BY <2>2 DEF DC_ValidateNickRefused, DC_ValidateNickCounted, CloseNice, Open, IInv, TypeOK
      <3>. QED
        BY <1>1, <3>1, RobotsKept DEF ListInv
    <2>3. CASE DC_MyPass(c)
      <3>1. /\ UNCHANGED <<reg, regDB>> /\ user[c].nick \notin RobotNicks
            /\ \A d \in Conns \ {c} : user'[d] = user[d]
        BY <2>3 DEF DC_MyPass, ListInv, NoRobotAccount, IInv, TypeOK
      <3>. QED
        BY <1>1, <3>1, RobotsKept DEF ListInv
    <2>4. CASE DC_MyPassNotSet(c)
      <3>1. UNCHANGED <<reg, regDB>> /\ \A d \in Conns \ {c} : user'[d] = user[d]
        BY <2>4 DEF DC_MyPassNotSet, IInv, TypeOK
      <3>2. user'[c].class = user[c].class
        <4>1. user[c] \in Users /\ user'[c] = [user[c] EXCEPT !.setPass = FALSE]
          BY <2>4 DEF DC_MyPassNotSet, HasUser, IInv, TypeOK
        <4>. QED
          BY <4>1 DEF Users
      <3>. QED
        BY <1>1, <3>1, <3>2, RobotsKept DEF ListInv
    <2>5. CASE DC_MyPassSet(c) \/ RegMyPasswd(c)
      <3>1. PICK k, b : PasswordSet(c, k, b)
        BY <2>5 DEF DC_MyPassSet, RegMyPasswd
      <3>2. user[c].nick \notin RobotNicks
        BY <3>1 DEF PasswordSet, ListInv, NoRobotAccount
      <3>3. /\ \A d \in Conns \ {c} : user'[d] = user[d] /\ reg'[d] = reg[d]
            /\ \A n \in RobotNicks : regDB'[n] = regDB[n]
        BY <3>1, <3>2, ConstantsAssumption DEF PasswordSet, IInv, TypeOK
      <3>. QED
        BY <1>1, <3>2, <3>3, RobotsKept DEF ListInv
    <2>. QED
      BY <2>1, <2>2, <2>3, <2>4, <2>5
  <1>. QED
    BY <1>2, <1>4, <1>5 DEF ListInv

(* The registration commands *)
LEMMA AdminLists ==
  ASSUME RobotNicks \subseteq ReservedNicks, IInv, ListInv, NEW n \in Nicks, AdminStep(n)
  PROVE  ListInv'
  <1>1. /\ \A d \in Conns : Quiet(d)
        /\ UNCHANGED <<userList, activeUsers, passiveUsers, robotList>>
    BY AdminQuiet
  <1>2. ASSUME NEW d \in Conns PROVE ConnInv(d)'
    BY <1>1, QuietConn DEF ListInv
  <1>3. ASSUME NEW m \in Nicks PROVE NickInv(m)'
    BY <1>1, AdminOpList, QuietNick DEF ListInv
  <1>4. Target(n) \in Conns => Listed(Target(n)) /\ user[Target(n)].nick = n
    BY DEF ListInv, NickInv, IInv, Holders, Target
  <1>5. CASE \E k \in Classes : CmdClass(n, k)
    <2>1. /\ UNCHANGED <<reg, regDB>> /\ Target(n) \in Conns
          /\ \A d \in Conns : d # Target(n) => user'[d] = user[d]
      BY <1>5 DEF CmdClass, IInv, TypeOK
    <2>2. NoRobotAccount'
      BY <1>1, <1>4, <2>1, RobotsKept DEF ListInv, Listed
    <2>. QED
      BY <1>2, <1>3, <2>2 DEF ListInv
  <1>6. CASE ~ \E k \in Classes : CmdClass(n, k)
    <2>1. n \notin RobotNicks
      BY <1>6 DEF AdminStep, RegNew, RegDel, RegClass, RegHideShare, RegPassReset, RegPass,
                  RegFakeIP, ListInv, NoRobotAccount
    <2>2. \A m \in Nicks : m # n => regDB'[m] = regDB[m]
      BY <1>6 DEF AdminStep, RegNew, RegDel, RegClass, RegHideShare, RegPassReset, RegPass,
                  RegFakeIP, Store, IInv, TypeOK
    <2>3. \A d \in Conns : d # Target(n) => reg'[d] = reg[d] /\ user'[d] = user[d]
      BY <1>6 DEF AdminStep, RegNew, RegDel, RegClass, RegHideShare, RegPassReset, RegPass,
                  RegFakeIP, Store, OnTarget, IInv, TypeOK, connVars
    <2>4. RobotNicks \subseteq Nicks
      BY ConstantsAssumption
    <2>5. NoRobotAccount'
      BY <1>1, <1>4, <2>1, <2>2, <2>3, <2>4, RobotsKept DEF ListInv
    <2>. QED
      BY <1>2, <1>3, <2>5 DEF ListInv
  <1>. QED
    BY <1>5, <1>6

(* Closing a connection *)
LEMMA CloseLists ==
  ASSUME IInv, ListInv, NEW c \in Conns, CloseStep(c)
  PROVE  ListInv'
  <1>1. CASE Reject(c) \/ (\E t \in TimeOuts : OnTimer(c, t)) \/ CloseNow(c)
    <2>1. /\ \A d \in Conns : Quiet(d)
          /\ UNCHANGED <<userList, activeUsers, passiveUsers, opList, robotList>>
      BY <1>1, CloseQuiet
    <2>2. UNCHANGED <<user, reg, regDB>>
      BY <1>1 DEF Reject, OnTimer, CloseNow
    <2>3. NoRobotAccount'
      BY <2>1, <2>2, RobotsKept DEF ListInv
    <2>. QED
      BY <2>1, <2>3, QuietConn, QuietNick DEF ListInv
  <1>2. CASE DeleteConn(c)
    BY <1>2, DeleteLists
  <1>. QED
    BY <1>1, <1>2 DEF CloseStep

(* The initial lists are empty. *)
LEMMA InitLists ==
  ASSUME RobotNicks \subseteq ReservedNicks, Init
  PROVE  ListInv
  <1>1. \A c \in Conns : ConnInv(c)
    BY DEF Init, ConnInv, HasUser, Listed, Open
  <1>2. \A n \in Nicks : NickInv(n)
    BY MarksAreNotConns DEF Init, NickInv
  <1>3. \A n \in RobotNicks : regDB[n].class = 0
    <2>1. \A n \in RobotNicks : n \in ReservedNicks \cap Nicks
      BY ConstantsAssumption
    <2>. QED
      BY <2>1 DEF Init, NoAccount
  <1>4. NoRobotAccount
    BY <1>3 DEF Init, NoRobotAccount, Open
  <1>. QED
    BY <1>1, <1>2, <1>4 DEF ListInv

(* Every step keeps what the lists say. *)
LEMMA NextLists ==
  ASSUME RobotNicks \subseteq ReservedNicks, IInv, LoginOrder, ListInv, [Next]_vars
  PROVE  ListInv'
  <1>1. ASSUME NEW c \in Conns, LoginStep(c) PROVE ListInv'
    <2>1. InOrder(c)
      BY DEF LoginOrder
    <2>2. CASE \E a \in Addresses, z \in Zones : OnNewConn(c, a, z)
      BY <2>1, <2>2, NewConnLists
    <2>3. CASE \E n \in Nicks, a \in Addresses, z \in Zones :
                   DC_ValidateNick(c, n, a, z) \/ DC_ValidateNickVetoed(c, n, a, z)
      BY <2>1, <2>3, ValidateLists
    <2>4. CASE \/ DC_Key(c) \/ (\E bot \in BotInfo : DC_Supports(c, bot)) \/ DC_Version(c)
               \/ \E n \in Nicks : DC_ValidateNickRefused(c, n) \/ DC_ValidateNickCounted(c, n)
               \/ DC_MyPass(c) \/ DC_MyPassSet(c) \/ DC_MyPassNotSet(c) \/ RegMyPasswd(c)
      BY <2>4, SessionLists
    <2>. QED
      BY <1>1, <2>2, <2>3, <2>4 DEF LoginStep
  <1>2. ASSUME NEW c \in Conns, MyINFOStep(c) PROVE ListInv'
    <2>1. PICK sh \in Shares, pas \in BOOLEAN :
              \/ DC_MyINFOShareRefused(c, sh, pas) \/ DC_MyINFORefused(c, sh, pas)
              \/ DC_MyINFOVetoed(c, sh, pas) \/ DC_MyINFOUpdate(c, sh, pas)
              \/ DC_MyINFOIncomplete(c, sh, pas)
              \/ \E same \in BOOLEAN : DC_MyINFONickTaken(c, sh, pas, same)
              \/ \E same \in BOOLEAN, outcome \in {"in", "InList", "Login"} :
                     Enter(c, sh, pas, same, outcome)
      BY <1>2 DEF MyINFOStep, DC_MyINFOEnter, DC_MyINFOEnterVetoed
    <2>2. CASE \E same \in BOOLEAN, outcome \in {"in", "InList", "Login"} :
                   Enter(c, sh, pas, same, outcome)
      BY <2>2, EnterLists
    <2>3. CASE ~ \E same \in BOOLEAN, outcome \in {"in", "InList", "Login"} :
                   Enter(c, sh, pas, same, outcome)
      BY <2>1, <2>3, RefusedLists, UpdatedLists
    <2>. QED
      BY <2>2, <2>3
  <1>3. ASSUME NEW c \in Conns, CloseStep(c) PROVE ListInv'
    BY <1>3, CloseLists
  <1>4. ASSUME NEW n \in RobotNicks, RobotStep(n) PROVE ListInv'
    BY <1>4, RobotLists
  <1>5. ASSUME NEW n \in Nicks, AdminStep(n) PROVE ListInv'
    BY <1>5, AdminLists
  <1>6. CASE UNCHANGED vars
    BY <1>6 DEF vars, connVars, listVars, ListInv, ConnInv, NickInv, NoRobotAccount, Listed, HasUser,
                Open, Admitted
  <1>. QED
    BY <1>1, <1>2, <1>3, <1>4, <1>5, <1>6 DEF Next

-----------------------------------------------------------------------------
(* The lists *)

(* The invariant, as long as robots have only nicks that are reserved for them. *)
THEOREM ListsInvariant ==
  ASSUME RobotNicks \subseteq ReservedNicks
  PROVE  Spec => [](IInv /\ LoginOrder /\ ListInv)
  <1>1. Init => ListInv
    BY InitLists
  <1>2. IInv /\ LoginOrder /\ ListInv /\ [Next]_vars => ListInv'
    BY NextLists
  <1>3. Spec => [](IInv /\ LoginOrder)
    BY LoginOrderKept
  <1>. QED
    BY <1>1, <1>2, <1>3, PTL DEF Spec

(* Every nick leads to the one connection listed under it, every listed connection is found under
   its nick and in the list of its mode, the other lists know nobody the user list does not, and
   no open connection stays in the hub unseen: AddToList, RemoveNick, VerifyUniqueNick, DC_MyINFO
   and DeleteConn agree, in whatever order connections come, fight for nicks and go. *)
THEOREM ListsAgree ==
  ASSUME RobotNicks \subseteq ReservedNicks
  PROVE  Spec => [](ListsConsistent /\ ModePartition /\ NoGhost)
  <1>1. Spec => [](IInv /\ LoginOrder /\ ListInv)
    BY ListsInvariant
  <1>2. IInv /\ ListInv => ListsConsistent /\ ModePartition /\ NoGhost
    <2>. SUFFICES ASSUME IInv, ListInv PROVE ListsConsistent /\ ModePartition /\ NoGhost
      OBVIOUS
    <2>1. \A n \in Nicks, c \in Conns : userList[n] = c <=> Listed(c) /\ user[c].nick = n
      BY DEF ListInv, ConnInv, NickInv, IInv, Holders
    <2>2. \A n \in Nicks : /\ activeUsers[n] \in {NoOne, userList[n]}
                           /\ passiveUsers[n] \in {NoOne, userList[n]}
                           /\ opList[n] \in {NoOne, userList[n]}
      BY DEF ListInv, NickInv
    <2>3. ModePartition
      BY DEF ModePartition, ListInv, ConnInv
    <2>4. NoGhost
      BY DEF NoGhost, ListInv, ConnInv
    <2>. QED
      BY <2>1, <2>2, <2>3, <2>4 DEF ListsConsistent
  <1>. QED
    BY <1>1, <1>2, PTL

(* A robot is listed until it is deleted: nobody who logs in takes its nick (VerifyUniqueNick
   would let a registered user do so, and there is none under a reserved nick). *)
THEOREM RobotsStayListed ==
  ASSUME RobotNicks \subseteq ReservedNicks
  PROVE  Spec => []RobotsListed
  <1>1. Spec => [](IInv /\ LoginOrder /\ ListInv)
    BY ListsInvariant
  <1>2. ListInv => RobotsListed
    BY DEF ListInv, NickInv, RobotsListed
  <1>. QED
    BY <1>1, <1>2, PTL

-----------------------------------------------------------------------------
(* How a listing passes on *)

(* Some entry into the user list *)
EnterStep(c) ==
    \E sh \in Shares, pas \in BOOLEAN, same \in BOOLEAN, outcome \in {"in", "InList", "Login"} :
        Enter(c, sh, pas, same, outcome)

(* Nobody else is listed than before, under no other nick. *)
NobodyListed ==
    /\ \A d \in Conns : Listed(d)' => Listed(d)
    /\ \A n \in Nicks : userList'[n] \in {userList[n], NoOne, Robot}

(* A first $MyINFO is the only way into the lists. *)
LEMMA WhoIsListed ==
  ASSUME IInv, LoginOrder, ListInv, [Next]_vars
  PROVE  NobodyListed \/ \E c \in Conns : EnterStep(c)
  <1>1. ASSUME \A d \in Conns : Quiet(d), UNCHANGED userList PROVE NobodyListed
    BY <1>1 DEF NobodyListed, Quiet, Alike, Listed
  <1>2. ASSUME NEW c \in Conns, LoginStep(c) PROVE NobodyListed
    <2>1. InOrder(c)
      BY DEF LoginOrder
    <2>2. CASE \E a \in Addresses, z \in Zones : OnNewConn(c, a, z)
      BY <2>2 DEF OnNewConn, NobodyListed, Listed, HasUser, listVars
    <2>3. CASE \E n \in Nicks, a \in Addresses, z \in Zones :
                   DC_ValidateNick(c, n, a, z) \/ DC_ValidateNickVetoed(c, n, a, z)
      <3>1. ~ Listed(c)'
        <4>1. PICK n \in Nicks : user'[c] = NewUser(n)
                                 \/ user'[c] = Validated(NewUser(n), regDB[n], botInfo[c])
          BY <2>3 DEF DC_ValidateNick, DC_ValidateNickVetoed, IInv, TypeOK
        <4>2. regDB[n] \in Accs /\ botInfo[c] \in BOOLEAN
          BY DEF IInv, TypeOK, Accs
        <4>. QED
          BY <4>1, <4>2, ValidatedUser DEF Listed
      <3>2. \A d \in Conns \ {c} : user'[d] = user[d]
        BY <2>3 DEF DC_ValidateNick, DC_ValidateNickVetoed, IInv, TypeOK
      <3>3. UNCHANGED userList
        BY <2>3 DEF DC_ValidateNick, DC_ValidateNickVetoed, Admit, listVars
      <3>. QED
        BY <3>1, <3>2, <3>3 DEF NobodyListed, Listed, HasUser
    <2>4. CASE \/ DC_Key(c) \/ (\E bot \in BotInfo : DC_Supports(c, bot)) \/ DC_Version(c)
               \/ \E n \in Nicks : DC_ValidateNickRefused(c, n) \/ DC_ValidateNickCounted(c, n)
               \/ DC_MyPass(c) \/ DC_MyPassSet(c) \/ DC_MyPassNotSet(c) \/ RegMyPasswd(c)
      BY <1>1, <2>4, SessionQuiet
    <2>. QED
      BY <1>2, <2>2, <2>3, <2>4 DEF LoginStep
  <1>3. ASSUME NEW c \in Conns, MyINFOStep(c) PROVE NobodyListed \/ EnterStep(c)
    <2>1. PICK sh \in Shares, pas \in BOOLEAN :
              \/ DC_MyINFOShareRefused(c, sh, pas) \/ DC_MyINFORefused(c, sh, pas)
              \/ DC_MyINFOVetoed(c, sh, pas) \/ DC_MyINFOUpdate(c, sh, pas)
              \/ DC_MyINFOIncomplete(c, sh, pas)
              \/ \E same \in BOOLEAN : DC_MyINFONickTaken(c, sh, pas, same)
              \/ EnterStep(c)
      BY <1>3 DEF MyINFOStep, DC_MyINFOEnter, DC_MyINFOEnterVetoed, EnterStep
    <2>2. CASE ~ EnterStep(c)
      <3>1. /\ MyINFO(c, sh, pas) /\ user' = [user EXCEPT ![c] = Rated(user[c], sh, pas)]
            /\ UNCHANGED userList
        BY <2>1, <2>2 DEF DC_MyINFOShareRefused, DC_MyINFORefused, DC_MyINFOVetoed,
              DC_MyINFOUpdate, DC_MyINFOIncomplete, DC_MyINFONickTaken, FirstMyINFO, MyINFOListed,
              listVars
      <3>2. /\ HasUser(c) /\ user'[c].inList = user[c].inList
            /\ \A d \in Conns \ {c} : user'[d] = user[d]
        BY <3>1, MyINFOUsers
      <3>. QED
        BY <3>1, <3>2 DEF NobodyListed, Listed, HasUser
    <2>. QED
      BY <2>2
  <1>4. ASSUME NEW c \in Conns, CloseStep(c) PROVE NobodyListed
    <2>1. CASE DeleteConn(c)
      <3>1. \A d \in Conns : Listed(d)' => Listed(d)
        BY <2>1 DEF DeleteConn, Listed, HasUser, IInv, TypeOK
      <3>2. \A n \in Nicks : userList'[n] \in {userList[n], NoOne}
        BY <2>1 DEF DeleteConn, RemoveByHash, IInv, TypeOK
      <3>. QED
        BY <3>1, <3>2 DEF NobodyListed
    <2>2. CASE Reject(c) \/ (\E t \in TimeOuts : OnTimer(c, t)) \/ CloseNow(c)
      BY <1>1, <2>2, CloseQuiet
    <2>. QED
      BY <1>4, <2>1, <2>2 DEF CloseStep
  <1>5. ASSUME NEW n \in RobotNicks, RobotStep(n) PROVE NobodyListed
    BY <1>5 DEF RobotStep, AddRobot, DelRobot, AddWithHash, RemoveByHash, NobodyListed, Listed,
                HasUser, connVars, IInv, TypeOK
  <1>6. ASSUME NEW n \in Nicks, AdminStep(n) PROVE NobodyListed
    BY <1>1, <1>6, AdminQuiet
  <1>7. CASE UNCHANGED vars
    BY <1>7 DEF vars, connVars, listVars, NobodyListed, Listed, HasUser
  <1>. QED
    BY <1>2, <1>3, <1>4, <1>5, <1>6, <1>7 DEF Next

(* A listing passes only to a connection that enters, and the one that loses it is closed in the
   same step and never listed again (VerifyUniqueNick, DoUserLogin). *)
THEOREM ListingsPassRight ==
  ASSUME RobotNicks \subseteq ReservedNicks
  PROVE  Spec => ListingsPass
  <1>1. Spec => [](IInv /\ LoginOrder /\ ListInv)
    BY ListsInvariant
  <1>2. ASSUME IInv, LoginOrder, ListInv, [Next]_vars
        PROVE  \A c \in Conns : "MYINFO" \in flags[c] /\ ~ Listed(c) /\ sock[c] # "free"
                                    => ~ Listed(c)'
    <2>1. SUFFICES ASSUME NEW e \in Conns, EnterStep(e), NEW c \in Conns,
                          "MYINFO" \in flags[c], ~ Listed(c)
                   PROVE  ~ Listed(c)'
      BY <1>2, WhoIsListed DEF NobodyListed
    <2>2. PICK sh \in Shares, pas \in BOOLEAN, same \in BOOLEAN,
               outcome \in {"in", "InList", "Login"} : Enter(e, sh, pas, same, outcome)
      BY <2>1 DEF EnterStep
    <2>3. Entered(e, sh, pas, same)
      BY <1>2, <2>2, EnterUsers
    <2>4. c # e /\ c # Holder(e)
      BY <2>1, <2>3 DEF Entered
    <2>. QED
      BY <2>1, <2>3, <2>4 DEF Entered, Listed, HasUser
  <1>3. ASSUME IInv, LoginOrder, ListInv, [Next]_vars
        PROVE  \A n \in Nicks, c, d \in Conns : c # d /\ userList[n] = c /\ userList'[n] = d =>
                   /\ sock'[c] \in {"closing", "dead"}
                   /\ user'[d].class >= RegUser \/ ip[c] = ip[d]
    <2>1. SUFFICES ASSUME NEW e \in Conns, EnterStep(e), NEW n \in Nicks, NEW c \in Conns,
                          NEW d \in Conns, c # d, userList[n] = c, userList'[n] = d
                   PROVE  /\ sock'[c] \in {"closing", "dead"}
                          /\ user'[d].class >= RegUser \/ ip[c] = ip[d]
      BY <1>3, WhoIsListed, MarksAreNotConns DEF NobodyListed
    <2>2. PICK sh \in Shares, pas \in BOOLEAN, same \in BOOLEAN,
               outcome \in {"in", "InList", "Login"} : Enter(e, sh, pas, same, outcome)
      BY <2>1 DEF EnterStep
    <2>3. Entered(e, sh, pas, same)
      BY <1>3, <2>2, EnterUsers
    <2>4. n = user[e].nick /\ d = e
      <3>1. n # user[e].nick => userList'[n] = userList[n]
        BY <1>3, <2>2, EnterListed
      <3>2. n = user[e].nick => userList'[n] = e
        BY <1>3, <2>2, EnterListed
      <3>. QED
        BY <2>1, <3>1, <3>2
    <2>5. c = Holder(e)
      BY <2>1, <2>4 DEF Holder
    <2>6. sock'[c] \in {"closing", "dead"}
      BY <2>1, <2>3, <2>5 DEF Entered
    <2>7. user'[d].class >= RegUser \/ ip[c] = ip[d]
      BY <2>1, <2>3, <2>4, MarksAreNotConns DEF Entered, NickFree, SameUser
    <2>. QED
      BY <2>6, <2>7
  <1>4. Spec => NoReturn
    BY <1>1, <1>2, PTL DEF Spec, NoReturn
  <1>5. Spec => TakeOverRight
    BY <1>1, <1>3, PTL DEF Spec, TakeOverRight
  <1>. QED
    BY <1>4, <1>5 DEF ListingsPass

-----------------------------------------------------------------------------
(* The refinement of HubDirectory *)

(* Nothing that HubDirectory sees happens to d. *)
Stays(d) ==
    /\ Admitted(d)' <=> Admitted(d)
    /\ Listed(d)' <=> Listed(d)
    /\ "MYINFO" \in flags'[d] <=> "MYINFO" \in flags[d]

(* If all stay, the directory stutters. *)
LEMMA DirectoryStutters ==
  ASSUME \A d \in Conns : Stays(d), UNCHANGED userList
  PROVE  UNCHANGED Directory!dirVars
  BY DEF Directory!dirVars, Stage, Stays

(* If one moves, one entry of "stage" changes. *)
LEMMA OneMoves ==
  ASSUME NEW c \in Conns, \A d \in Conns \ {c} : Stays(d)
  PROVE  [d \in Conns |-> Stage(d)]' = [[d \in Conns |-> Stage(d)] EXCEPT ![c] = Stage(c)']
  <1>1. \A d \in Conns \ {c} : Stage(d)' = Stage(d)
    BY DEF Stage, Stays
  <1>. QED
    BY <1>1

(* The login messages let a connection in, or do nothing HubDirectory sees. *)
LEMMA LoginInDirectory ==
  ASSUME IInv, ListInv, NEW c \in Conns, InOrder(c), LoginStep(c)
  PROVE  [Directory!DirNext]_(Directory!dirVars)
  <1>1. CASE \E a \in Addresses, z \in Zones : OnNewConn(c, a, z)
    <2>1. UNCHANGED <<flags, user, userList>>
      BY <1>1 DEF OnNewConn, listVars
    <2>. QED
      BY <2>1, DirectoryStutters DEF Stays, Admitted, Listed, HasUser
  <1>2. CASE \/ DC_Key(c) \/ (\E bot \in BotInfo : DC_Supports(c, bot)) \/ DC_Version(c)
             \/ \E n \in Nicks : DC_ValidateNickRefused(c, n)
             \/ DC_MyPass(c) \/ DC_MyPassSet(c) \/ DC_MyPassNotSet(c) \/ RegMyPasswd(c)
    <2>1. (\A d \in Conns : Quiet(d)) /\ UNCHANGED userList
      BY <1>2, SessionQuiet
    <2>2. \/ flags' = flags
          \/ \E f \in {"KEYOK", "SUPPORTS", "VERSION", "PASSWD"} :
                 flags' = [flags EXCEPT ![c] = @ \cup {f}]
      BY <1>2 DEF DC_Key, DC_Supports, DC_Version, DC_ValidateNickRefused, DC_MyPass,
                  DC_MyPassSet, DC_MyPassNotSet, RegMyPasswd, PasswordSet
    <2>3. \A d \in Conns : /\ Admitted(d)' <=> Admitted(d)
                           /\ "MYINFO" \in flags'[d] <=> "MYINFO" \in flags[d]
      <3>1. CASE flags' = flags
        BY <3>1 DEF Admitted
      <3>2. CASE flags' # flags
        <4>1. PICK f \in {"KEYOK", "SUPPORTS", "VERSION", "PASSWD"} :
                  flags' = [flags EXCEPT ![c] = @ \cup {f}]
          BY <2>2, <3>2
        <4>2. f # "ALLOWED" /\ f # "MYINFO"
          BY <4>1
        <4>. QED
          BY <4>1, <4>2 DEF Admitted, IInv, TypeOK
      <3>. QED
        BY <3>1, <3>2
    <2>4. \A d \in Conns : Listed(d)' <=> Listed(d)
      BY <2>1 DEF Quiet, Alike, Listed
    <2>. QED
      BY <2>1, <2>3, <2>4, DirectoryStutters DEF Stays
  <1>3. CASE \E n \in Nicks :
                 \/ DC_ValidateNickCounted(c, n)
                 \/ \E a \in Addresses, z \in Zones :
                        DC_ValidateNick(c, n, a, z) \/ DC_ValidateNickVetoed(c, n, a, z)
    <2>1. PICK n \in Nicks :
              \/ DC_ValidateNickCounted(c, n)
              \/ \E a \in Addresses, z \in Zones :
                     DC_ValidateNick(c, n, a, z) \/ DC_ValidateNickVetoed(c, n, a, z)
      BY <1>3
    <2>2. ValidNick(c, n) /\ UNCHANGED userList
      BY <2>1 DEF DC_ValidateNickCounted, DC_ValidateNick, DC_ValidateNickVetoed, Admit, listVars
    <2>3. ~ Admitted(c) /\ ~ HasUser(c) /\ "MYINFO" \notin flags[c]
      BY <2>2 DEF ValidNick, InOrder, ListInv, ConnInv
    <2>4. /\ Admitted(c)' /\ "MYINFO" \notin flags'[c]
          /\ \A d \in Conns \ {c} : UNCHANGED <<flags[d], user[d]>>
      BY <2>1, <2>3 DEF DC_ValidateNickCounted, DC_ValidateNick, DC_ValidateNickVetoed, AdmitFlags,
                        Admitted, IInv, TypeOK
    <2>5. ~ Listed(c)'
      <3>1. CASE UNCHANGED user
        BY <2>3, <3>1 DEF Listed, HasUser
      <3>2. CASE \/ user' = [user EXCEPT ![c] = NewUser(n)]
                 \/ user' = [user EXCEPT ![c] = Validated(NewUser(n), regDB[n], botInfo[c])]
        <4>1. regDB[n] \in Accs /\ botInfo[c] \in BOOLEAN
          BY DEF IInv, TypeOK, Accs
        <4>2. \/ user'[c] = NewUser(n)
              \/ user'[c] = Validated(NewUser(n), regDB[n], botInfo[c])
          BY <3>2 DEF IInv, TypeOK
        <4>. QED
          BY <4>1, <4>2, ValidatedUser DEF Listed
      <3>. QED
        BY <2>1, <3>1, <3>2 DEF DC_ValidateNickCounted, DC_ValidateNick, DC_ValidateNickVetoed
    <2>6. Stage(c) = "out" /\ Stage(c)' = "admitted"
      BY <2>3, <2>4, <2>5 DEF Stage
    <2>7. [d \in Conns |-> Stage(d)]' = [[d \in Conns |-> Stage(d)] EXCEPT ![c] = "admitted"]
      <3>1. \A d \in Conns \ {c} : Stays(d)
        BY <2>4 DEF Stays, Admitted, Listed, HasUser
      <3>. QED
        BY <2>6, <3>1, OneMoves
    <2>8. Directory!LetIn(c)
      BY <2>2, <2>6, <2>7 DEF Directory!LetIn
    <2>. QED
      BY <2>8 DEF Directory!DirNext
  <1>. QED
    BY <1>1, <1>2, <1>3 DEF LoginStep

(* $MyINFO gives a nick, or takes it from its holder, or refuses the connection for good. *)
LEMMA MyINFOInDirectory ==
  ASSUME IInv, ListInv, LoginOrder, NEW c \in Conns, MyINFOStep(c)
  PROVE  [Directory!DirNext]_(Directory!dirVars)
  <1>1. PICK sh \in Shares, pas \in BOOLEAN :
              \/ DC_MyINFOShareRefused(c, sh, pas) \/ DC_MyINFORefused(c, sh, pas)
              \/ DC_MyINFOVetoed(c, sh, pas) \/ DC_MyINFOUpdate(c, sh, pas)
              \/ DC_MyINFOIncomplete(c, sh, pas)
              \/ \E same \in BOOLEAN : DC_MyINFONickTaken(c, sh, pas, same)
              \/ EnterStep(c)
    BY DEF MyINFOStep, DC_MyINFOEnter, DC_MyINFOEnterVetoed, EnterStep
  <1>2. ASSUME MyINFO(c, sh, pas), user' = [user EXCEPT ![c] = Rated(user[c], sh, pas)]
        PROVE  \A d \in Conns : Listed(d)' <=> Listed(d)
    BY <1>2, MyINFOUsers DEF Listed, HasUser
  <1>3. CASE \/ DC_MyINFOShareRefused(c, sh, pas) \/ DC_MyINFORefused(c, sh, pas)
             \/ DC_MyINFOVetoed(c, sh, pas) \/ DC_MyINFOUpdate(c, sh, pas)
    <2>1. /\ MyINFO(c, sh, pas) /\ user' = [user EXCEPT ![c] = Rated(user[c], sh, pas)]
          /\ UNCHANGED <<flags, userList>>
      BY <1>3 DEF DC_MyINFOShareRefused, DC_MyINFORefused, DC_MyINFOVetoed, DC_MyINFOUpdate,
                  MyINFOListed, listVars
    <2>. QED
      BY <1>2, <2>1, DirectoryStutters DEF Stays, Admitted
  <1>4. CASE \/ DC_MyINFOIncomplete(c, sh, pas)
             \/ \E same \in BOOLEAN : DC_MyINFONickTaken(c, sh, pas, same)
    <2>1. /\ MyINFO(c, sh, pas) /\ user' = [user EXCEPT ![c] = Rated(user[c], sh, pas)]
          /\ UNCHANGED userList /\ ~ user[c].inList
          /\ flags' = [flags EXCEPT ![c] = @ \cup {"MYINFO"}]
      BY <1>4 DEF DC_MyINFOIncomplete, DC_MyINFONickTaken, FirstMyINFO, listVars
    <2>2. Admitted(c) /\ ~ Listed(c) /\ "MYINFO" \notin flags[c]
      BY <2>1 DEF MyINFO, ListInv, ConnInv, Listed
    <2>3. /\ Admitted(c)' /\ "MYINFO" \in flags'[c]
          /\ \A d \in Conns \ {c} : flags'[d] = flags[d]
      BY <2>1, <2>2 DEF Admitted, IInv, TypeOK
    <2>4. \A d \in Conns : Listed(d)' <=> Listed(d)
      BY <1>2, <2>1
    <2>5. Stage(c) = "admitted" /\ Stage(c)' = "retired"
      BY <2>2, <2>3, <2>4 DEF Stage
    <2>6. [d \in Conns |-> Stage(d)]' = [[d \in Conns |-> Stage(d)] EXCEPT ![c] = "retired"]
      <3>1. \A d \in Conns \ {c} : Stays(d)
        BY <2>3, <2>4 DEF Stays, Admitted
      <3>. QED
        BY <2>5, <3>1, OneMoves
    <2>7. Directory!Refuse(c)
      BY <2>1, <2>5, <2>6 DEF Directory!Refuse
    <2>. QED
      BY <2>7 DEF Directory!DirNext
  <1>5. CASE EnterStep(c)
    <2>1. PICK pass \in BOOLEAN, shr \in Shares, same \in BOOLEAN,
               outcome \in {"in", "InList", "Login"} : Enter(c, shr, pass, same, outcome)
      BY <1>5 DEF EnterStep
    <2>2. Entered(c, shr, pass, same)
      BY <2>1, EnterUsers
    <2>. DEFINE n == user[c].nick
                old == Holder(c)
    <2>3. n \in Nicks /\ old \in (Conns \ {c}) \cup {NoOne} /\ old = userList[n]
      BY <2>2 DEF Entered, Holder
    <2>4. userList' = [userList EXCEPT ![n] = c]
      BY <2>1, <2>3, NickGiven DEF Enter, IInv
    <2>5. Stage(c) = "admitted" /\ Stage(c)' = "listed"
      <3>1. Admitted(c) /\ ~ Listed(c) /\ "MYINFO" \notin flags[c]
        BY <2>2 DEF Entered
      <3>2. Admitted(c)' /\ Listed(c)'
        BY <2>2, <3>1, UsersAreUsers DEF Entered, Admitted, Listed, HasUser, IInv, TypeOK
      <3>. QED
        BY <3>1, <3>2 DEF Stage
    <2>6. \A d \in Conns \ {c, old} : Stage(d)' = Stage(d)
      BY <2>2 DEF Entered, Stage, Admitted, Listed, HasUser, IInv, TypeOK
    <2>7. ASSUME NEW d \in Conns, d = old
          PROVE  Stage(d)' = "retired"
      <3>1. d # c /\ Listed(d) /\ Admitted(d) /\ "MYINFO" \in flags[d]
        BY <2>2, <2>3, <2>7 DEF Entered, LoginOrder, InOrder, LoginDone, ListInv, ConnInv, Listed
      <3>2. flags'[d] = flags[d]
        BY <2>2, <3>1 DEF Entered, IInv, TypeOK
      <3>3. ~ Listed(d)'
        BY <2>2, <2>7 DEF Entered, Listed, Users
      <3>. QED
        BY <3>1, <3>2, <3>3 DEF Stage, Admitted
    <2>. HIDE DEF n, old
    <2>8. CASE old = NoOne
      <3>1. [d \in Conns |-> Stage(d)]' = [[d \in Conns |-> Stage(d)] EXCEPT ![c] = "listed"]
        BY <2>5, <2>6, <2>8, MarksAreNotConns
      <3>2. Directory!Take(c, n)
        BY <2>3, <2>4, <2>5, <2>8, <3>1 DEF Directory!Take
      <3>. QED
        BY <2>3, <3>2 DEF Directory!DirNext
    <2>9. CASE old \in Conns
      <3>1. [d \in Conns |-> Stage(d)]'
                = [[d \in Conns |-> Stage(d)] EXCEPT ![c] = "listed", ![old] = "retired"]
        BY <2>3, <2>5, <2>6, <2>7, <2>9, MarksAreNotConns
      <3>2. Directory!TakeFrom(c, old, n)
        BY <2>3, <2>4, <2>5, <2>9, <3>1, MarksAreNotConns DEF Directory!TakeFrom
      <3>. QED
        BY <2>3, <2>9, <3>2 DEF Directory!DirNext
    <2>. QED
      BY <2>3, <2>8, <2>9
  <1>. QED
    BY <1>1, <1>3, <1>4, <1>5

(* A connection leaves the directory when it is deleted, not when it is closed. *)
LEMMA CloseInDirectory ==
  ASSUME IInv, ListInv, NEW c \in Conns, CloseStep(c)
  PROVE  [Directory!DirNext]_(Directory!dirVars)
  <1>1. CASE Reject(c) \/ (\E t \in TimeOuts : OnTimer(c, t)) \/ CloseNow(c)
    <2>1. UNCHANGED <<flags, user, userList>>
      BY <1>1 DEF Reject, OnTimer, CloseNow, listVars
    <2>. QED
      BY <2>1, DirectoryStutters DEF Stays, Admitted, Listed, HasUser
  <1>2. CASE DeleteConn(c)
    <2>1. /\ ~ Admitted(c)' /\ ~ Listed(c)' /\ "MYINFO" \notin flags'[c]
          /\ \A d \in Conns \ {c} : UNCHANGED <<flags[d], user[d]>>
      BY <1>2 DEF DeleteConn, Admitted, Listed, HasUser, IInv, TypeOK
    <2>2. \A d \in Conns \ {c} : Stays(d)
      BY <2>1 DEF Stays, Admitted, Listed, HasUser
    <2>3. CASE Admitted(c)
      <3>1. Stage(c) # "out" /\ Stage(c)' = "out"
        BY <2>1, <2>3 DEF Stage
      <3>2. [d \in Conns |-> Stage(d)]' = [[d \in Conns |-> Stage(d)] EXCEPT ![c] = "out"]
        BY <2>2, <3>1, OneMoves
      <3>3. userList' = [n \in Nicks |-> IF userList[n] = c THEN NoOne ELSE userList[n]]
        <4>1. \A n \in Nicks : userList[n] = c => HasUser(c) /\ user[c].nick = n
          BY DEF IInv, Holders
        <4>2. CASE HasUser(c) /\ ~ EntryOfOther(c)
          <5>1. userList' = [userList EXCEPT ![user[c].nick] = NoOne]
            BY <1>2, <4>2 DEF DeleteConn, RemoveByHash
          <5>2. userList[user[c].nick] \in {NoOne, c}
            BY <4>2 DEF EntryOfOther
          <5>3. userList = [n \in Nicks |-> userList[n]]
            BY DEF IInv, TypeOK
          <5>. QED
            BY <4>1, <5>1, <5>2, <5>3
        <4>3. CASE ~ (HasUser(c) /\ ~ EntryOfOther(c))
          <5>1. userList' = userList
            BY <1>2, <4>3 DEF DeleteConn
          <5>2. \A n \in Nicks : userList[n] # c
            BY <4>1, <4>3, MarksAreNotConns DEF EntryOfOther
          <5>3. userList = [n \in Nicks |-> userList[n]]
            BY DEF IInv, TypeOK
          <5>. QED
            BY <5>1, <5>2, <5>3
        <4>. QED
          BY <4>2, <4>3
      <3>4. Directory!Leave(c)
        BY <3>1, <3>2, <3>3 DEF Directory!Leave
      <3>. QED
        BY <3>4 DEF Directory!DirNext
    <2>4. CASE ~ Admitted(c)
      <3>1. ~ HasUser(c) /\ "MYINFO" \notin flags[c]
        BY <2>4 DEF ListInv, ConnInv
      <3>2. UNCHANGED userList
        BY <1>2, <3>1 DEF DeleteConn
      <3>3. Stays(c)
        BY <2>1, <2>4, <3>1 DEF Stays, Listed
      <3>. QED
        BY <2>2, <3>2, <3>3, DirectoryStutters
    <2>. QED
      BY <2>3, <2>4
  <1>. QED
    BY <1>1, <1>2 DEF CloseStep

(* The hub implements HubDirectory: whatever the login protocol, the fights for nicks, closing,
   registration and the robots do, seen as stages of connections and holders of nicks it is a
   step of the directory or none. *)
THEOREM DirectoryKept ==
  ASSUME RobotNicks \subseteq ReservedNicks
  PROVE  Spec => KeepsDirectory
  <1>1. Spec => [](IInv /\ LoginOrder /\ ListInv)
    BY ListsInvariant
  <1>2. Init => Directory!DirInit
    BY DEF Init, Directory!DirInit, Stage, Admitted
  <1>3. ASSUME IInv, LoginOrder, ListInv, [Next]_vars
        PROVE  [Directory!DirNext]_(Directory!dirVars)
    <2>1. ASSUME NEW c \in Conns, LoginStep(c) PROVE [Directory!DirNext]_(Directory!dirVars)
      BY <1>3, <2>1, LoginInDirectory DEF LoginOrder
    <2>2. ASSUME NEW c \in Conns, MyINFOStep(c) PROVE [Directory!DirNext]_(Directory!dirVars)
      BY <1>3, <2>2, MyINFOInDirectory
    <2>3. ASSUME NEW c \in Conns, CloseStep(c) PROVE [Directory!DirNext]_(Directory!dirVars)
      BY <1>3, <2>3, CloseInDirectory
    <2>4. ASSUME NEW n \in RobotNicks, RobotStep(n)
          PROVE  [Directory!DirNext]_(Directory!dirVars)
      <3>1. UNCHANGED [d \in Conns |-> Stage(d)] /\ n \in Nicks
        BY <2>4, ConstantsAssumption DEF RobotStep, AddRobot, DelRobot, connVars, Stage, Admitted,
                                         Listed, HasUser
      <3>2. CASE \E k \in {0, Operator} : AddRobot(n, k)
        BY <3>1, <3>2 DEF AddRobot, AddWithHash, Directory!DirNext, Directory!RobotTakes
      <3>3. CASE DelRobot(n)
        BY <1>3, <3>1, <3>3 DEF DelRobot, RemoveByHash, ListInv, NickInv, Directory!DirNext,
                                Directory!RobotLeaves
      <3>. QED
        BY <2>4, <3>2, <3>3 DEF RobotStep
    <2>5. ASSUME NEW n \in Nicks, AdminStep(n) PROVE [Directory!DirNext]_(Directory!dirVars)
      <3>1. (\A d \in Conns : Quiet(d)) /\ UNCHANGED userList
        BY <1>3, <2>5, AdminQuiet
      <3>2. UNCHANGED flags
        BY <2>5 DEF AdminStep, RegNew, RegDel, RegClass, RegHideShare, RegPassReset, RegPass,
                    RegFakeIP, CmdClass, Store, connVars
      <3>3. \A d \in Conns : Stays(d)
        BY <3>1, <3>2 DEF Quiet, Alike, Stays, Listed, Admitted
      <3>. QED
        BY <3>1, <3>3, DirectoryStutters
    <2>6. CASE UNCHANGED vars
      BY <2>6, DirectoryStutters DEF vars, connVars, listVars, Stays, Listed, Admitted, HasUser
    <2>. QED
      BY <1>3, <2>1, <2>2, <2>3, <2>4, <2>5, <2>6 DEF Next
  <1>. QED
    BY <1>1, <1>2, <1>3, PTL DEF Spec, KeepsDirectory, Directory!DirSpec

-----------------------------------------------------------------------------
(* The operator list *)

(* Accounts neither come nor go while the hub runs, and no password waits to be set. *)
AccountsStay ==
    /\ RobotNicks \subseteq ReservedNicks
    /\ AdminOps \cap {"new", "del", "pass"} = {}
    /\ \A a \in Accounts : ~ a.pwdChange

(* Then what a connection knows of its account has the kind that the table says. *)
KindKnown(c) ==
    /\ ~ reg[c].pwdChange
    /\ HasUser(c) => (reg[c].class = 0 <=> regDB[user[c].nick].class = 0)

OpsRight(c) ==
    Listed(c) /\ reg[c].class # 0 => (opList[user[c].nick] = c <=> user[c].class >= Operator)

OpInv ==
    /\ \A n \in Nicks : ~ regDB[n].pwdChange
    /\ \A c \in Conns : KindKnown(c) /\ OpsRight(c)

(* Whose user, account and place in mOpList stay as they are, stays right. *)
LEMMA OpsKept ==
  ASSUME NEW d \in Conns, KindKnown(d), OpsRight(d), UNCHANGED <<reg[d], regDB>>,
         HasUser(d)' => /\ HasUser(d) /\ user'[d].nick = user[d].nick
                        /\ user'[d].class = user[d].class,
         Listed(d)' => Listed(d) /\ UNCHANGED opList[user[d].nick]
  PROVE  KindKnown(d)' /\ OpsRight(d)'
  <1>1. HasUser(d)' => user'[d].nick = user[d].nick
    OBVIOUS
  <1>2. KindKnown(d)'
    BY <1>1 DEF KindKnown
  <1>3. Listed(d)' => HasUser(d)'
    BY DEF Listed
  <1>4. Listed(d)' => opList'[user'[d].nick] = opList[user[d].nick]
    BY <1>1, <1>3
  <1>5. OpsRight(d)'
    BY <1>3, <1>4 DEF OpsRight
  <1>. QED
    BY <1>2, <1>5

(* The login does not change mOpList while no password waits to be set. *)
LEMMA LoginOps ==
  ASSUME AccountsStay, IInv, ListInv, OpInv, NEW c \in Conns, InOrder(c), LoginStep(c)
  PROVE  OpInv'
  <1>1. CASE \E a \in Addresses, z \in Zones : OnNewConn(c, a, z)
    <2>1. UNCHANGED <<user, reg, regDB, opList>>
      BY <1>1 DEF OnNewConn, listVars
    <2>. QED
      BY <2>1, OpsKept DEF OpInv, Listed, HasUser
  <1>2. CASE DC_Key(c) \/ (\E bot \in BotInfo : DC_Supports(c, bot)) \/ DC_Version(c)
    <2>1. UNCHANGED <<user, reg, regDB, opList>>
      BY <1>2 DEF DC_Key, DC_Supports, DC_Version, listVars
    <2>. QED
      BY <2>1, OpsKept DEF OpInv, Listed, HasUser
  <1>3. CASE \E n \in Nicks : DC_ValidateNickRefused(c, n) \/ DC_ValidateNickCounted(c, n)
    <2>1. PICK n \in Nicks : DC_ValidateNickRefused(c, n) \/ DC_ValidateNickCounted(c, n)
      BY <1>3
    <2>2. ~ HasUser(c)
      BY <2>1 DEF DC_ValidateNickRefused, DC_ValidateNickCounted, ValidNick, InOrder, ListInv, ConnInv
    <2>3. /\ UNCHANGED <<user, regDB, opList>> /\ reg'[c] = regDB[n]
          /\ \A d \in Conns \ {c} : reg'[d] = reg[d]
      BY <2>1 DEF DC_ValidateNickRefused, DC_ValidateNickCounted, listVars, IInv, TypeOK
    <2>4. KindKnown(c)' /\ OpsRight(c)'
      BY <2>2, <2>3 DEF OpInv, KindKnown, OpsRight, Listed, HasUser
    <2>5. \A d \in Conns \ {c} : KindKnown(d)' /\ OpsRight(d)'
      BY <2>3, OpsKept DEF OpInv, Listed, HasUser
    <2>. QED
      BY <2>3, <2>4, <2>5 DEF OpInv
  <1>4. CASE \E n \in Nicks, a \in Addresses, z \in Zones :
                 DC_ValidateNick(c, n, a, z) \/ DC_ValidateNickVetoed(c, n, a, z)
    <2>1. PICK n \in Nicks, a \in Addresses, z \in Zones :
              DC_ValidateNick(c, n, a, z) \/ DC_ValidateNickVetoed(c, n, a, z)
      BY <1>4
    <2>2. /\ Admit(c, n, a, z)
          /\ \/ user' = [user EXCEPT ![c] = NewUser(n)]
             \/ user' = [user EXCEPT ![c] = Validated(NewUser(n), regDB[n], botInfo[c])]
      BY <2>1 DEF DC_ValidateNick, DC_ValidateNickVetoed
    <2>3. /\ UNCHANGED <<regDB, opList>> /\ reg'[c] = regDB[n]
          /\ \A d \in Conns \ {c} : reg'[d] = reg[d] /\ user'[d] = user[d]
      BY <2>2 DEF Admit, listVars, IInv, TypeOK
    <2>4. user'[c].nick = n /\ ~ user'[c].inList
      <3>1. regDB[n] \in Accs /\ botInfo[c] \in BOOLEAN
        BY DEF IInv, TypeOK, Accs
      <3>2. \/ user'[c] = NewUser(n)
            \/ user'[c] = Validated(NewUser(n), regDB[n], botInfo[c])
        BY <2>2 DEF IInv, TypeOK
      <3>. QED
        BY <3>1, <3>2, ValidatedUser
    <2>5. KindKnown(c)' /\ OpsRight(c)'
      BY <2>3, <2>4 DEF OpInv, KindKnown, OpsRight, Listed
    <2>6. \A d \in Conns \ {c} : KindKnown(d)' /\ OpsRight(d)'
      BY <2>3, OpsKept DEF OpInv, Listed, HasUser
    <2>. QED
      BY <2>3, <2>5, <2>6 DEF OpInv
  <1>5. CASE DC_MyPass(c) \/ DC_MyPassNotSet(c)
    <2>1. /\ UNCHANGED <<reg, regDB, opList>> /\ \A d \in Conns \ {c} : user'[d] = user[d]
      BY <1>5 DEF DC_MyPass, DC_MyPassNotSet, listVars, IInv, TypeOK
    <2>2. \A d \in Conns \ {c} : KindKnown(d)' /\ OpsRight(d)'
      BY <2>1, OpsKept DEF OpInv, Listed, HasUser
    <2>3. \A d \in Conns : Quiet(d)
      BY <1>5, SessionQuiet
    <2>4. KindKnown(c)' /\ OpsRight(c)'
      <3>1. CASE DC_MyPass(c)
        <4>1. ~ Listed(c)
          BY <3>1 DEF DC_MyPass, InOrder, LoginDone
        <4>2. ~ Listed(c)'
          BY <2>3, <4>1 DEF Quiet, Alike, Listed
        <4>3. HasUser(c) /\ user'[c].nick = user[c].nick
          BY <2>3, <3>1 DEF DC_MyPass, Quiet, Alike
        <4>. QED
          BY <2>1, <4>2, <4>3 DEF OpInv, KindKnown, OpsRight
      <3>2. CASE DC_MyPassNotSet(c)
        <4>1. user[c] \in Users /\ user'[c] = [user[c] EXCEPT !.setPass = FALSE]
          BY <3>2 DEF DC_MyPassNotSet, HasUser, IInv, TypeOK
        <4>2. /\ user'[c].nick = user[c].nick /\ user'[c].class = user[c].class
              /\ user'[c].inList = user[c].inList
          BY <4>1 DEF Users
        <4>3. HasUser(c)
          BY <3>2 DEF DC_MyPassNotSet
        <4>. QED
          BY <2>1, <4>2, <4>3, OpsKept DEF OpInv, Listed
      <3>. QED
        BY <1>5, <3>1, <3>2
    <2>. QED
      BY <2>1, <2>2, <2>4 DEF OpInv
  <1>6. ~ (DC_MyPassSet(c) \/ RegMyPasswd(c))
    <2>1. HasUser(c) => user[c].nick \in Nicks
      BY DEF HasUser, IInv, TypeOK, Users
    <2>. QED
      BY <2>1 DEF DC_MyPassSet, RegMyPasswd, Listed, OpInv, KindKnown
  <1>. QED
    BY <1>1, <1>2, <1>3, <1>4, <1>5, <1>6 DEF LoginStep

(* $MyINFO: mOpList names who enters, if he is an operator. *)
LEMMA MyINFOOps ==
  ASSUME AccountsStay, IInv, ListInv, OpInv, NEW c \in Conns, MyINFOStep(c)
  PROVE  OpInv'
  <1>1. PICK sh \in Shares, pas \in BOOLEAN :
              \/ DC_MyINFOShareRefused(c, sh, pas) \/ DC_MyINFORefused(c, sh, pas)
              \/ DC_MyINFOVetoed(c, sh, pas) \/ DC_MyINFOUpdate(c, sh, pas)
              \/ DC_MyINFOIncomplete(c, sh, pas)
              \/ \E same \in BOOLEAN : DC_MyINFONickTaken(c, sh, pas, same)
              \/ EnterStep(c)
    BY DEF MyINFOStep, DC_MyINFOEnter, DC_MyINFOEnterVetoed, EnterStep
  <1>2. CASE ~ EnterStep(c)
    <2>1. /\ MyINFO(c, sh, pas) /\ user' = [user EXCEPT ![c] = Rated(user[c], sh, pas)]
          /\ UNCHANGED opList
      BY <1>1, <1>2 DEF DC_MyINFOShareRefused, DC_MyINFORefused, DC_MyINFOVetoed,
            DC_MyINFOUpdate, DC_MyINFOIncomplete, DC_MyINFONickTaken, FirstMyINFO, MyINFOListed,
            listVars
    <2>2. /\ HasUser(c) /\ user'[c].nick = user[c].nick /\ user'[c].class = user[c].class
          /\ user'[c].inList = user[c].inList
          /\ \A d \in Conns \ {c} : user'[d] = user[d]
          /\ UNCHANGED <<reg, regDB>>
      BY <2>1, MyINFOUsers
    <2>3. KindKnown(c)' /\ OpsRight(c)'
      BY <2>1, <2>2, OpsKept DEF OpInv, Listed
    <2>4. \A d \in Conns \ {c} : KindKnown(d)' /\ OpsRight(d)'
      BY <2>1, <2>2, OpsKept DEF OpInv, Listed, HasUser
    <2>. QED
      BY <2>2, <2>3, <2>4 DEF OpInv
  <1>3. CASE EnterStep(c)
    <2>1. PICK shr \in Shares, pass \in BOOLEAN, same \in BOOLEAN,
               outcome \in {"in", "InList", "Login"} : Enter(c, shr, pass, same, outcome)
      BY <1>3 DEF EnterStep
    <2>2. Entered(c, shr, pass, same)
      BY <2>1, EnterUsers
    <2>3. UNCHANGED <<reg, regDB>>
      BY <2>1 DEF Enter, FirstMyINFO, MyINFO
    <2>4. \A m \in Nicks : opList'[m] = IF m = user[c].nick
                                        THEN (IF user[c].class >= Operator THEN c ELSE NoOne)
                                        ELSE opList[m]
      <3>1. ASSUME NEW m \in Nicks
            PROVE  IF m = user[c].nick
                   THEN opList'[m] = (IF user[c].class >= Operator THEN c ELSE NoOne)
                   ELSE UNCHANGED opList[m]
        BY <2>1, EnterListed
      <3>. QED
        BY <3>1
    <2>5. KindKnown(c)' /\ OpsRight(c)'
      <3>1. /\ user'[c].nick = user[c].nick /\ user[c].nick \in Nicks
            /\ user'[c].class = user[c].class /\ HasUser(c)
        BY <2>2 DEF Entered
      <3>. QED
        BY <2>3, <2>4, <3>1, MarksAreNotConns DEF OpInv, KindKnown, OpsRight
    <2>6. ASSUME NEW d \in Conns \ {c} PROVE KindKnown(d)' /\ OpsRight(d)'
      <3>1. CASE d = Holder(c)
        <4>1. HasUser(d) /\ user[d] \in Users /\ user'[d] = [user[d] EXCEPT !.inList = FALSE]
          BY <2>2, <3>1 DEF Entered, Listed
        <4>2. user'[d].nick = user[d].nick /\ ~ user'[d].inList
          BY <4>1 DEF Users
        <4>. QED
          BY <2>3, <4>1, <4>2 DEF OpInv, KindKnown, OpsRight, Listed
      <3>2. CASE d # Holder(c)
        <4>1. user'[d] = user[d]
          BY <2>2, <3>2 DEF Entered
        <4>2. Listed(d) => user[d].nick \in Nicks \ {user[c].nick}
          BY <3>2 DEF Listed, HasUser, IInv, TypeOK, Users, ListInv, ConnInv, Holder
        <4>3. Listed(d) => UNCHANGED opList[user[d].nick]
          BY <2>4, <4>1, <4>2
        <4>. QED
          BY <2>3, <4>1, <4>3, OpsKept DEF OpInv, Listed, HasUser
      <3>. QED
        BY <3>1, <3>2
    <2>. QED
      BY <2>3, <2>5, <2>6 DEF OpInv
  <1>. QED
    BY <1>2, <1>3

(* Who is deleted leaves mOpList, and robots come to nicks and go from nicks nobody else has. *)
LEMMA CloseOps ==
  ASSUME AccountsStay, IInv, ListInv, OpInv, NEW c \in Conns, CloseStep(c)
  PROVE  OpInv'
  <1>1. CASE Reject(c) \/ (\E t \in TimeOuts : OnTimer(c, t)) \/ CloseNow(c)
    <2>1. UNCHANGED <<user, reg, regDB, opList>>
      BY <1>1 DEF Reject, OnTimer, CloseNow, listVars
    <2>. QED
      BY <2>1, OpsKept DEF OpInv, Listed, HasUser
  <1>2. CASE DeleteConn(c)
    <2>1. /\ user'[c] = NoUser /\ reg'[c] = NoAccount /\ UNCHANGED regDB
          /\ \A d \in Conns \ {c} : UNCHANGED <<user[d], reg[d]>>
      BY <1>2 DEF DeleteConn, IInv, TypeOK
    <2>2. KindKnown(c)' /\ OpsRight(c)'
      BY <2>1 DEF KindKnown, OpsRight, Listed, HasUser, NoAccount
    <2>3. ASSUME NEW d \in Conns \ {c} PROVE KindKnown(d)' /\ OpsRight(d)'
      <3>1. Listed(d) => user[d].nick \in Nicks /\ userList[user[d].nick] = d
        BY DEF Listed, HasUser, IInv, TypeOK, Users, ListInv, ConnInv
      <3>2. Listed(d) => opList'[user[d].nick] = opList[user[d].nick]
        <4>1. CASE HasUser(c) /\ ~ EntryOfOther(c)
          <5>1. opList' = [opList EXCEPT ![user[c].nick] = NoOne]
            BY <1>2, <4>1 DEF DeleteConn, RemoveByHash
          <5>2. Listed(d) => user[d].nick # user[c].nick
            BY <3>1, <4>1, MarksAreNotConns DEF EntryOfOther
          <5>. QED
            BY <3>1, <5>1, <5>2 DEF IInv, TypeOK
        <4>2. CASE ~ (HasUser(c) /\ ~ EntryOfOther(c))
          BY <1>2, <4>2 DEF DeleteConn
        <4>. QED
          BY <4>1, <4>2
      <3>. QED
        BY <2>1, <3>2, OpsKept DEF OpInv, Listed, HasUser
    <2>. QED
      BY <2>1, <2>2, <2>3 DEF OpInv
  <1>. QED
    BY <1>1, <1>2 DEF CloseStep

LEMMA RobotOps ==
  ASSUME AccountsStay, IInv, ListInv, OpInv, NEW n \in RobotNicks, RobotStep(n)
  PROVE  OpInv'
  <1>1. /\ UNCHANGED <<user, reg, regDB>> /\ n \in Nicks
        /\ \A m \in Nicks \ {n} : opList'[m] = opList[m]
    BY ConstantsAssumption DEF RobotStep, AddRobot, DelRobot, AddToOps, AddWithHash, RemoveByHash,
                               connVars, IInv, TypeOK
  <1>2. userList[n] \in {NoOne, Robot}
    BY <1>1 DEF RobotStep, AddRobot, DelRobot, ListInv, NickInv
  <1>3. ASSUME NEW d \in Conns PROVE Listed(d) => UNCHANGED opList[user[d].nick]
    <2>1. Listed(d) => user[d].nick \in Nicks /\ userList[user[d].nick] = d
      BY DEF Listed, HasUser, IInv, TypeOK, Users, ListInv, ConnInv
    <2>. QED
      BY <1>1, <1>2, <2>1, MarksAreNotConns
  <1>. QED
    BY <1>1, <1>3, OpsKept DEF OpInv, Listed, HasUser

(* A new class for the user online under n: mOpList follows (eAC_CLASS, CmdClass). *)
LEMMA ClassOps ==
  ASSUME IInv, ListInv, OpInv, NEW n \in Nicks, Target(n) \in Conns, NEW k \in Classes,
         reg[Target(n)].class # 0, opList' = OpsWhenClass(n, k)
  PROVE  /\ opList'[n] = Target(n) <=> k >= Operator
         /\ \A m \in Nicks \ {n} : opList'[m] = opList[m]
  <1>. DEFINE d == Target(n)
  <1>1. Listed(d) /\ user[d].nick = n /\ user[d].class \in Classes
    BY DEF ListInv, NickInv, IInv, TypeOK, Users, Holders, Target, Listed, HasUser
  <1>2. opList[n] = d <=> user[d].class >= Operator
    BY <1>1 DEF OpInv, OpsRight
  <1>3. opList[n] \in {NoOne, d} /\ d # NoOne
    BY MarksAreNotConns DEF ListInv, NickInv, Target
  <1>4. k \in Int /\ user[d].class \in Int /\ Operator \in Int
    BY <1>1, ConstantsAssumption DEF Classes, Pinger
  <1>5. opList \in [Nicks -> Conns \cup {NoOne, Robot}]
    BY DEF IInv, TypeOK
  <1>. HIDE DEF d
  <1>6. opList' = IF user[d].class < Operator /\ k >= Operator THEN AddWithHash(opList, n, d)
                  ELSE IF user[d].class >= Operator /\ k < Operator THEN RemoveByHash(opList, n)
                  ELSE opList
    BY DEF OpsWhenClass, d
  <1>7. opList'[n] = d <=> k >= Operator
    <2>1. CASE user[d].class < Operator /\ k >= Operator
      <3>1. opList[n] = NoOne
        BY <1>2, <1>3, <1>4, <2>1
      <3>. QED
        BY <1>5, <1>6, <2>1, <3>1 DEF AddWithHash
    <2>2. CASE user[d].class >= Operator /\ k < Operator
      <3>1. opList' = RemoveByHash(opList, n)
        BY <1>4, <1>6, <2>2
      <3>2. opList'[n] = NoOne
        BY <1>5, <3>1 DEF RemoveByHash
      <3>. QED
        BY <1>3, <1>4, <2>2, <3>2
    <2>3. CASE ~ (user[d].class < Operator /\ k >= Operator) /\ ~ (user[d].class >= Operator /\ k < Operator)
      <3>1. opList' = opList /\ (user[d].class >= Operator <=> k >= Operator)
        BY <1>4, <1>6, <2>3
      <3>. QED
        BY <1>2, <3>1
    <2>. QED
      BY <2>1, <2>2, <2>3
  <1>8. \A m \in Nicks \ {n} : opList'[m] = opList[m]
    BY <1>5, <1>6 DEF AddWithHash, RemoveByHash
  <1>. QED
    BY <1>7, <1>8 DEF d

(* The registration commands that neither make nor delete accounts *)
LEMMA RegOps ==
  ASSUME AccountsStay, IInv, ListInv, OpInv, NEW n \in Nicks, AdminStep(n)
  PROVE  OpInv'
  <1>. DEFINE d == Target(n)
  <1>1. d \in Conns => /\ Listed(d) /\ HasUser(d) /\ user[d].nick = n /\ user[d] \in Users
    BY DEF ListInv, NickInv, IInv, TypeOK, Holders, Target, Listed, HasUser
  <1>2. \A e \in Conns : Listed(e) /\ user[e].nick = n => e = d
    BY DEF ListInv, ConnInv, Target
  <1>3. \A e \in Conns : HasUser(e) => user[e].nick \in Nicks
    BY DEF HasUser, IInv, TypeOK, Users
  <1>4. CASE \E k \in Classes : CmdClass(n, k)
    <2>1. PICK k \in Classes : CmdClass(n, k)
      BY <1>4
    <2>2. /\ d \in Conns /\ UNCHANGED <<reg, regDB>>
          /\ user' = [user EXCEPT ![d] = [user[d] EXCEPT !.class = k]]
          /\ opList' = IF reg[d].class # 0 THEN OpsWhenClass(n, k) ELSE opList
      BY <2>1 DEF CmdClass, IInv, TypeOK
    <2>3. /\ user'[d].nick = n /\ user'[d].class = k /\ user'[d].inList = user[d].inList
          /\ \A e \in Conns \ {d} : user'[e] = user[e]
      BY <1>1, <2>2 DEF IInv, TypeOK, Users
    <2>4. /\ reg[d].class # 0 => (opList'[n] = d <=> k >= Operator)
          /\ \A m \in Nicks \ {n} : opList'[m] = opList[m]
      BY <2>2, ClassOps
    <2>. HIDE DEF d
    <2>5. ASSUME NEW e \in Conns, e = d PROVE KindKnown(e)' /\ OpsRight(e)'
      <3>1. HasUser(e) /\ user[e].nick = n /\ reg'[e] = reg[e] /\ regDB' = regDB
        BY <1>1, <2>2, <2>5
      <3>2. KindKnown(e)'
        BY <2>3, <2>5, <3>1 DEF OpInv, KindKnown
      <3>3. OpsRight(e)'
        BY <2>3, <2>4, <2>5, <3>1 DEF OpsRight
      <3>. QED
        BY <3>2, <3>3
    <2>6. ASSUME NEW e \in Conns, e # d PROVE KindKnown(e)' /\ OpsRight(e)'
      <3>1. Listed(e) => UNCHANGED opList[user[e].nick]
        BY <1>2, <1>3, <2>3, <2>4, <2>6 DEF Listed
      <3>. QED
        BY <2>2, <2>3, <2>6, <3>1, OpsKept DEF OpInv, Listed, HasUser
    <2>. QED
      BY <2>2, <2>5, <2>6 DEF OpInv
  <1>5. CASE ~ \E k \in Classes : CmdClass(n, k)
    <2>1. n \in Nicks /\ regDB[n] \in Accs /\ regDB[n].class # 0 /\ ~ regDB[n].pwdChange
      BY <1>5 DEF AdminStep, AccountsStay, RegNew, RegDel, RegClass, RegHideShare, RegPassReset,
                  RegPass, RegFakeIP, OpInv, IInv, TypeOK, Accs
    <2>2. CASE \E k \in Classes \ {0} : RegClass(n, k)
      <3>1. PICK k \in Classes \ {0} : RegClass(n, k)
        BY <2>2
      <3>2. /\ regDB' = [regDB EXCEPT ![n] = [regDB[n] EXCEPT !.class = k]]
            /\ d \in Conns => reg' = [reg EXCEPT ![d] = [regDB[n] EXCEPT !.class = k]]
            /\ d \notin Conns => reg' = reg
        BY <3>1 DEF RegClass, Store, OnTarget
      <3>3. /\ [regDB[n] EXCEPT !.class = k].class = k
            /\ ~ [regDB[n] EXCEPT !.class = k].pwdChange
        BY <2>1 DEF Accs
      <3>4. /\ d \in Conns => /\ user' = [user EXCEPT ![d] = [user[d] EXCEPT !.class = k]]
                              /\ opList' = OpsWhenClass(n, k)
            /\ d \notin Conns => UNCHANGED <<user, opList>>
        BY <3>1 DEF RegClass, IInv, TypeOK
      <3>5. /\ d \in Conns => /\ user'[d].nick = n /\ user'[d].class = k
                              /\ user'[d].inList = user[d].inList
            /\ \A e \in Conns : e # d => user'[e] = user[e] /\ reg'[e] = reg[e]
        BY <1>1, <3>2, <3>4 DEF IInv, TypeOK, Users
      <3>6. \A m \in Nicks : regDB'[m] = IF m = n THEN [regDB[n] EXCEPT !.class = k] ELSE regDB[m]
        BY <3>2 DEF IInv, TypeOK
      <3>7. d \in Conns => reg[d].class # 0
        BY <1>1, <2>1 DEF OpInv, KindKnown
      <3>8. /\ d \in Conns => (opList'[n] = d <=> k >= Operator)
            /\ \A m \in Nicks \ {n} : opList'[m] = opList[m]
        BY <3>4, <3>7, ClassOps
      <3>. HIDE DEF d
      <3>9. ASSUME NEW e \in Conns, e = d PROVE KindKnown(e)' /\ OpsRight(e)'
        <4>1. /\ user'[e].nick = n /\ user'[e].class = k
              /\ reg'[e] = [regDB[n] EXCEPT !.class = k]
              /\ regDB'[n] = [regDB[n] EXCEPT !.class = k]
          BY <3>2, <3>5, <3>6, <3>9 DEF IInv, TypeOK
        <4>2. KindKnown(e)'
          BY <3>3, <4>1 DEF KindKnown
        <4>3. OpsRight(e)'
          BY <3>8, <3>9, <4>1 DEF OpsRight
        <4>. QED
          BY <4>2, <4>3
      <3>10. ASSUME NEW e \in Conns, e # d PROVE KindKnown(e)' /\ OpsRight(e)'
        <4>1. KindKnown(e)'
          <5>1. KindKnown(e) /\ user'[e] = user[e] /\ reg'[e] = reg[e]
            BY <3>5, <3>10 DEF OpInv
          <5>2. HasUser(e)' => HasUser(e)
            BY <5>1 DEF HasUser
          <5>3. HasUser(e) => (regDB'[user[e].nick].class = 0 <=> regDB[user[e].nick].class = 0)
            BY <1>3, <2>1, <3>3, <3>6
          <5>. QED
            BY <5>1, <5>2, <5>3 DEF KindKnown
        <4>2. Listed(e)' => user[e].nick \in Nicks \ {n}
          BY <1>2, <1>3, <3>5, <3>10 DEF Listed, HasUser
        <4>. QED
          BY <3>5, <3>8, <3>10, <4>1, <4>2 DEF OpInv, OpsRight, Listed, HasUser
      <3>11. \A m \in Nicks : ~ regDB'[m].pwdChange
        BY <3>3, <3>6 DEF OpInv
      <3>. QED
        BY <3>9, <3>10, <3>11 DEF OpInv
    <2>3. CASE (\E h \in BOOLEAN : RegHideShare(n, h)) \/ \E a \in Addresses, z \in Zones : RegFakeIP(n, a, z)
      <3>1. PICK a \in Accs : /\ a.class = regDB[n].class /\ ~ a.pwdChange
                              /\ Store(n, a)
        <4>1. CASE \E h \in BOOLEAN : RegHideShare(n, h)
          <5>1. PICK h \in BOOLEAN : RegHideShare(n, h)
            BY <4>1
          <5>2. /\ [regDB[n] EXCEPT !.hideShare = h] \in Accs
                /\ [regDB[n] EXCEPT !.hideShare = h].class = regDB[n].class
                /\ ~ [regDB[n] EXCEPT !.hideShare = h].pwdChange
            BY <2>1 DEF Accs
          <5>. QED
            BY <5>1, <5>2 DEF RegHideShare
        <4>2. CASE \E b \in Addresses, z \in Zones : RegFakeIP(n, b, z)
          BY <2>1, <4>2 DEF RegFakeIP
        <4>. QED
          BY <2>3, <4>1, <4>2
      <3>2. /\ regDB' = [regDB EXCEPT ![n] = a]
            /\ d \in Conns => reg' = [reg EXCEPT ![d] = a]
            /\ d \notin Conns => reg' = reg
        BY <3>1 DEF Store, OnTarget
      <3>3. \A e \in Conns : HasUser(e)' => /\ HasUser(e) /\ user'[e].nick = user[e].nick
                                            /\ user'[e].inList = user[e].inList
                                            /\ user'[e].class = user[e].class
        <4>1. CASE UNCHANGED user
          BY <4>1 DEF HasUser
        <4>2. CASE \E h \in BOOLEAN : /\ d \in Conns
                                      /\ user' = [user EXCEPT ![d] = [user[d] EXCEPT !.hide = h]]
          BY <1>1, <4>2 DEF HasUser, IInv, TypeOK, Users
        <4>. QED
          BY <2>3, <4>1, <4>2 DEF RegHideShare, RegFakeIP, IInv, TypeOK
      <3>4. UNCHANGED opList
        BY <2>3 DEF RegHideShare, RegFakeIP
      <3>5. \A m \in Nicks : regDB'[m] = IF m = n THEN a ELSE regDB[m]
        BY <3>2 DEF IInv, TypeOK
      <3>6. \A e \in Conns : reg'[e] = IF e = d THEN a ELSE reg[e]
        BY <3>2 DEF IInv, TypeOK
      <3>7. d \in Conns => reg[d].class # 0
        BY <1>1, <2>1 DEF OpInv, KindKnown
      <3>. HIDE DEF d
      <3>8. ASSUME NEW e \in Conns PROVE KindKnown(e)' /\ OpsRight(e)'
        <4>1. reg'[e].class = 0 <=> reg[e].class = 0
          BY <2>1, <3>1, <3>6, <3>7
        <4>2. ~ reg'[e].pwdChange
          BY <3>1, <3>6 DEF OpInv, KindKnown
        <4>3. HasUser(e) => (regDB'[user[e].nick].class = 0 <=> regDB[user[e].nick].class = 0)
          BY <1>3, <3>1, <3>5
        <4>4. KindKnown(e)'
          <5>1. HasUser(e)' => HasUser(e) /\ user'[e].nick = user[e].nick
            BY <3>3
          <5>. QED
            BY <4>1, <4>2, <4>3, <5>1 DEF OpInv, KindKnown
        <4>5. OpsRight(e)'
          BY <3>3, <3>4, <4>1 DEF OpInv, OpsRight, Listed
        <4>. QED
          BY <4>4, <4>5
      <3>9. \A m \in Nicks : ~ regDB'[m].pwdChange
        BY <3>1, <3>5 DEF OpInv
      <3>. QED
        BY <3>8, <3>9 DEF OpInv
    <2>. QED
      BY <1>5, <2>2, <2>3 DEF AdminStep, AccountsStay, RegNew, RegDel, RegPassReset, RegPass
  <1>. QED
    BY <1>4, <1>5

(* All four lists say the same of everybody, and mOpList names exactly the registered users who
   are operators now, as long as accounts are neither made nor deleted and no password waits to
   be set; classes may change for good and for the time being. *)
THEOREM ListsAreExact ==
  ASSUME AccountsStay
  PROVE  Spec => []ListsExact
  <1>1. RobotNicks \subseteq ReservedNicks
    BY DEF AccountsStay
  <1>2. Spec => [](IInv /\ LoginOrder /\ ListInv)
    BY <1>1, ListsInvariant
  <1>3. Spec => [](ListsConsistent /\ ModePartition /\ NoGhost)
    BY <1>1, ListsAgree
  <1>4. Init => OpInv
    BY StoredTypes DEF Init, OpInv, KindKnown, OpsRight, Listed, HasUser, AccountsStay, NoAccount
  <1>5. IInv /\ LoginOrder /\ ListInv /\ OpInv /\ [Next]_vars => OpInv'
    <2>. SUFFICES ASSUME IInv, LoginOrder, ListInv, OpInv, [Next]_vars PROVE OpInv'
      OBVIOUS
    <2>1. ASSUME NEW c \in Conns, LoginStep(c) \/ MyINFOStep(c) \/ CloseStep(c) PROVE OpInv'
      BY <2>1, LoginOps, MyINFOOps, CloseOps DEF LoginOrder
    <2>2. ASSUME NEW n \in RobotNicks, RobotStep(n) PROVE OpInv'
      BY <2>2, RobotOps
    <2>3. ASSUME NEW n \in Nicks, AdminStep(n) PROVE OpInv'
      BY <2>3, RegOps
    <2>4. CASE UNCHANGED vars
      BY <2>4 DEF vars, connVars, listVars, OpInv, KindKnown, OpsRight, Listed, HasUser
    <2>. QED
      BY <2>1, <2>2, <2>3, <2>4 DEF Next
  <1>6. OpInv => OpListExact
    BY DEF OpInv, OpsRight, OpListExact
  <1>. QED
    BY <1>2, <1>3, <1>4, <1>5, <1>6, PTL DEF Spec, ListsExact


-----------------------------------------------------------------------------
(* Accounts and the rights of who is online *)

(* Accounts may come, and passwords be reset and set, but no account goes, and no class changes. *)
AccountsGrow ==
    /\ RobotNicks \subseteq ReservedNicks
    /\ AdminOps \cap {"class", "del", "tempclass"} = {}

(* What a connection knows of its account is what the table says, or that there was none; and
   the class of its user comes from there, or from $Supports. *)
Follows(c) ==
    HasUser(c) => /\ reg[c].class \in {0, regDB[user[c].nick].class}
                  /\ \/ user[c].class \in {0, reg[c].class}
                     \/ user[c].class = Pinger /\ botInfo[c]

Shown(c) == Listed(c) /\ user[c].class >= Operator => opList[user[c].nick] = c

FollowInv == BotKnown /\ \A c \in Conns : Follows(c) /\ Shown(c)

(* Whose user, account and place in mOpList stay as they are, stays right. *)
LEMMA FollowKept ==
  ASSUME NEW d \in Conns, Follows(d), Shown(d), UNCHANGED <<reg[d], botInfo[d]>>,
         HasUser(d)' => /\ HasUser(d) /\ user'[d].nick = user[d].nick
                        /\ user'[d].class = user[d].class,
         HasUser(d) => reg[d].class = 0 \/ regDB'[user[d].nick].class = regDB[user[d].nick].class,
         Listed(d)' => Listed(d) /\ (opList[user[d].nick] = d => opList'[user[d].nick] = d)
  PROVE  Follows(d)' /\ Shown(d)'
  <1>1. HasUser(d)' => /\ user'[d].nick = user[d].nick /\ user'[d].class = user[d].class
                       /\ HasUser(d)
    OBVIOUS
  <1>2. Follows(d)'
    <2>. SUFFICES ASSUME HasUser(d)' PROVE /\ reg'[d].class \in {0, regDB'[user'[d].nick].class}
                                          /\ \/ user'[d].class \in {0, reg'[d].class}
                                             \/ user'[d].class = Pinger /\ botInfo'[d]
      BY DEF Follows
    <2>1. reg'[d].class \in {0, regDB'[user'[d].nick].class}
      BY <1>1 DEF Follows
    <2>2. user'[d].class \in {0, reg'[d].class} \/ (user'[d].class = Pinger /\ botInfo'[d])
      BY <1>1 DEF Follows
    <2>. QED
      BY <2>1, <2>2
  <1>3. Listed(d)' => HasUser(d)'
    BY DEF Listed
  <1>4. Shown(d)'
    BY <1>1, <1>3 DEF Shown
  <1>. QED
    BY <1>2, <1>4

(* Nobody's rights change in most steps. *)
LEMMA FollowStutters ==
  ASSUME FollowInv, UNCHANGED <<user, reg, regDB, opList, botInfo>>,
         \A d \in Conns : "SUPPORTS" \in flags'[d] <=> "SUPPORTS" \in flags[d]
  PROVE  FollowInv'
  <1>1. BotKnown'
    BY DEF FollowInv, BotKnown
  <1>2. \A d \in Conns : Follows(d)' /\ Shown(d)'
    BY DEF FollowInv, Follows, Shown, Listed, HasUser
  <1>. QED
    BY <1>1, <1>2 DEF FollowInv

(* The class that $ValidateNick gives *)
LEMMA ValidatedClass ==
  ASSUME NEW n \in Nicks, NEW bot \in BOOLEAN, NEW a \in Accs, NEW u,
         u = NewUser(n) \/ u = Validated(NewUser(n), a, bot)
  PROVE  u.class \in {0, a.class} \/ (u.class = Pinger /\ bot)
  <1>1. NewUser(n) \in Users /\ NewUser(n).class = 0
    BY NewUserType DEF NewUser, Accs
  <1>2. /\ Registered(NewUser(n), a).class \in {0, a.class}
        /\ [NewUser(n) EXCEPT !.class = Pinger].class = Pinger
    BY <1>1 DEF Registered, Users, Accs
  <1>. QED
    BY <1>1, <1>2 DEF Validated

LEMMA LoginFollows ==
  ASSUME IInv, ListInv, FollowInv, NEW c \in Conns, InOrder(c), LoginStep(c)
  PROVE  FollowInv'
  <1>1. CASE (\E a \in Addresses, z \in Zones : OnNewConn(c, a, z)) \/ DC_Key(c) \/ DC_Version(c)
    <2>1. /\ UNCHANGED <<user, reg, regDB, opList, botInfo>>
          /\ flags' = flags \/ \E f \in {"KEYOK", "VERSION"} : flags' = [flags EXCEPT ![c] = @ \cup {f}]
      BY <1>1 DEF OnNewConn, DC_Key, DC_Version, listVars
    <2>2. \A d \in Conns : "SUPPORTS" \in flags'[d] <=> "SUPPORTS" \in flags[d]
      BY <2>1 DEF IInv, TypeOK
    <2>. QED
      BY <2>1, <2>2, FollowStutters
  <1>2. ASSUME NEW bot \in BotInfo, DC_Supports(c, bot) PROVE FollowInv'
    <2>1. /\ UNCHANGED <<user, reg, regDB, opList>>
          /\ \A d \in Conns \ {c} : botInfo'[d] = botInfo[d] /\ flags'[d] = flags[d]
          /\ flags'[c] = flags[c] \cup {"SUPPORTS"}
          /\ ~ botInfo[c]
      BY <1>2 DEF DC_Supports, FollowInv, BotKnown, listVars, IInv, TypeOK
    <2>2. BotKnown'
      BY <2>1 DEF FollowInv, BotKnown
    <2>3. Follows(c)' /\ Shown(c)'
      BY <2>1 DEF FollowInv, Follows, Shown, Listed, HasUser
    <2>4. \A d \in Conns \ {c} : Follows(d)' /\ Shown(d)'
      BY <2>1, FollowKept DEF FollowInv, Listed, HasUser
    <2>. QED
      BY <2>2, <2>3, <2>4 DEF FollowInv
  <1>3. ASSUME NEW n \in Nicks, DC_ValidateNickRefused(c, n) \/ DC_ValidateNickCounted(c, n)
        PROVE  FollowInv'
    <2>1. ~ HasUser(c)
      BY <1>3 DEF DC_ValidateNickRefused, DC_ValidateNickCounted, ValidNick, InOrder, ListInv, ConnInv
    <2>2. /\ UNCHANGED <<user, regDB, opList, botInfo>>
          /\ \A d \in Conns \ {c} : reg'[d] = reg[d]
          /\ flags' = flags \/ flags' = [flags EXCEPT ![c] = @ \cup {"ALLOWED"}]
      BY <1>3 DEF DC_ValidateNickRefused, DC_ValidateNickCounted, listVars, IInv, TypeOK
    <2>3. Follows(c)' /\ Shown(c)'
      BY <2>1, <2>2 DEF Follows, Shown, Listed, HasUser
    <2>4. \A d \in Conns \ {c} : Follows(d)' /\ Shown(d)'
      BY <2>2, FollowKept DEF FollowInv, Listed, HasUser
    <2>5. \A d \in Conns : flags[d] \subseteq flags'[d]
      BY <2>2 DEF IInv, TypeOK
    <2>6. BotKnown'
      BY <2>2, <2>5 DEF FollowInv, BotKnown
    <2>. QED
      BY <2>3, <2>4, <2>6 DEF FollowInv
  <1>4. ASSUME NEW n \in Nicks, NEW a \in Addresses, NEW z \in Zones,
               DC_ValidateNick(c, n, a, z) \/ DC_ValidateNickVetoed(c, n, a, z)
        PROVE  FollowInv'
    <2>1. /\ Admit(c, n, a, z)
          /\ \/ user' = [user EXCEPT ![c] = NewUser(n)]
             \/ user' = [user EXCEPT ![c] = Validated(NewUser(n), regDB[n], botInfo[c])]
      BY <1>4 DEF DC_ValidateNick, DC_ValidateNickVetoed
    <2>2. /\ UNCHANGED <<regDB, opList, botInfo>> /\ reg'[c] = regDB[n]
          /\ \A d \in Conns \ {c} : reg'[d] = reg[d] /\ user'[d] = user[d]
      BY <2>1 DEF Admit, listVars, IInv, TypeOK
    <2>3. regDB[n] \in Accs /\ botInfo[c] \in BOOLEAN
      BY DEF IInv, TypeOK, Accs
    <2>4. \/ user'[c] = NewUser(n)
          \/ user'[c] = Validated(NewUser(n), regDB[n], botInfo[c])
      BY <2>1 DEF IInv, TypeOK
    <2>5. /\ user'[c].nick = n /\ ~ user'[c].inList
          /\ user'[c].class \in {0, regDB[n].class} \/ (user'[c].class = Pinger /\ botInfo[c])
      BY <2>3, <2>4, ValidatedUser, ValidatedClass
    <2>6. Follows(c)' /\ Shown(c)'
      BY <2>2, <2>5 DEF Follows, Shown, Listed
    <2>7. \A d \in Conns \ {c} : Follows(d)' /\ Shown(d)'
      BY <2>2, FollowKept DEF FollowInv, Listed, HasUser
    <2>8. \A d \in Conns : flags[d] \subseteq flags'[d]
      BY <1>4 DEF DC_ValidateNick, DC_ValidateNickVetoed, IInv, TypeOK
    <2>9. BotKnown'
      BY <2>2, <2>8 DEF FollowInv, BotKnown
    <2>. QED
      BY <2>6, <2>7, <2>9 DEF FollowInv
  <1>5. CASE DC_MyPass(c) \/ DC_MyPassNotSet(c)
    <2>1. /\ UNCHANGED <<reg, regDB, opList, botInfo>> /\ HasUser(c)
          /\ \A d \in Conns \ {c} : user'[d] = user[d]
          /\ \A d \in Conns : "SUPPORTS" \in flags[d] => "SUPPORTS" \in flags'[d]
      BY <1>5 DEF DC_MyPass, DC_MyPassNotSet, listVars, IInv, TypeOK
    <2>2. \A d \in Conns \ {c} : Follows(d)' /\ Shown(d)'
      BY <2>1, FollowKept DEF FollowInv, Listed, HasUser
    <2>3. \A d \in Conns : Quiet(d)
      BY <1>5, SessionQuiet
    <2>4. Follows(c)' /\ Shown(c)'
      <3>0. user[c] \in Users /\ user'[c].nick = user[c].nick
        BY <2>1, <2>3 DEF Quiet, Alike, HasUser, IInv, TypeOK
      <3>1. CASE DC_MyPass(c)
        <4>1. ~ Listed(c)
          BY <3>1 DEF DC_MyPass, InOrder, LoginDone
        <4>2. ~ Listed(c)'
          BY <2>3, <4>1 DEF Quiet, Alike, Listed
        <4>3. user'[c] = Registered(user[c], reg[c])
          BY <3>1 DEF DC_MyPass, IInv, TypeOK
        <4>4. user'[c].class \in {user[c].class, reg[c].class}
          BY <3>0, <4>3 DEF Registered, Users
        <4>5. Follows(c)'
          BY <2>1, <3>0, <4>4 DEF FollowInv, Follows
        <4>. QED
          BY <4>2, <4>5 DEF Shown
      <3>2. CASE DC_MyPassNotSet(c)
        <4>1. user'[c] = [user[c] EXCEPT !.setPass = FALSE]
          BY <3>2 DEF DC_MyPassNotSet, IInv, TypeOK
        <4>2. user'[c].class = user[c].class /\ user'[c].inList = user[c].inList
          BY <3>0, <4>1 DEF Users
        <4>. QED
          BY <2>1, <3>0, <4>2, FollowKept DEF FollowInv, Listed
      <3>. QED
        BY <1>5, <3>1, <3>2
    <2>5. BotKnown'
      BY <2>1 DEF FollowInv, BotKnown
    <2>. QED
      BY <2>2, <2>4, <2>5 DEF FollowInv
  <1>6. CASE DC_MyPassSet(c) \/ RegMyPasswd(c)
    <2>. DEFINE n == user[c].nick
    <2>1. HasUser(c) /\ user[c] \in Users /\ n \in Nicks
      BY <1>6 DEF DC_MyPassSet, RegMyPasswd, Listed, HasUser, IInv, TypeOK, Users
    <2>2. PICK b \in BOOLEAN : PasswordSet(c, regDB[n].class, b)
      <3>1. CASE DC_MyPassSet(c)
        <4>1. reg[c].class = regDB[n].class
          BY <2>1, <3>1 DEF DC_MyPassSet, FollowInv, Follows
        <4>2. PasswordSet(c, reg[c].class, FALSE)
          BY <3>1 DEF DC_MyPassSet
        <4>3. FALSE \in BOOLEAN
          OBVIOUS
        <4>. QED
          BY <4>1, <4>2, <4>3, Zenon
      <3>2. CASE RegMyPasswd(c)
        BY <2>1, <3>2 DEF RegMyPasswd, Users
      <3>. QED
        BY <1>6, <3>1, <3>2
    <2>3. /\ regDB' = [regDB EXCEPT ![n] = [regDB[n] EXCEPT !.pwdChange = FALSE]]
          /\ user' = [user EXCEPT ![c] = [user[c] EXCEPT !.class = regDB[n].class, !.setPass = b]]
          /\ opList' = OpsWhenSet(c, n, regDB[n].class)
          /\ reg' = [reg EXCEPT ![c] = [regDB[n] EXCEPT !.pwdChange = FALSE]]
          /\ UNCHANGED <<flags, botInfo, userList>>
      BY <2>1, <2>2 DEF PasswordSet, IInv, TypeOK
    <2>4. [regDB[n] EXCEPT !.pwdChange = FALSE].class = regDB[n].class
      BY <2>1 DEF IInv, TypeOK
    <2>5. /\ user'[c] = [user[c] EXCEPT !.class = regDB[n].class, !.setPass = b]
          /\ reg'[c].class = regDB[n].class
          /\ \A d \in Conns \ {c} : user'[d] = user[d] /\ reg'[d] = reg[d]
          /\ \A m \in Nicks : regDB'[m].class = regDB[m].class
      BY <2>1, <2>3, <2>4 DEF IInv, TypeOK
    <2>6. /\ user'[c].nick = n /\ user'[c].class = regDB[n].class
          /\ user'[c].inList = user[c].inList
      BY <2>1, <2>5 DEF Users
    <2>7. \A m \in Nicks : opList[m] # NoOne => opList'[m] = opList[m]
      BY <2>3 DEF OpsWhenSet, AddWithHash, IInv, TypeOK
    <2>8. Follows(c)'
      BY <2>1, <2>5, <2>6 DEF Follows
    <2>9. Shown(c)'
      <3>1. Listed(c)' => opList[n] \in {NoOne, c}
        BY <2>1, <2>6 DEF Listed, ListInv, ConnInv, NickInv
      <3>2. regDB[n].class >= Operator => opList'[n] = IF opList[n] = NoOne THEN c ELSE opList[n]
        BY <2>1, <2>3 DEF OpsWhenSet, AddWithHash, IInv, TypeOK
      <3>. QED
        BY <2>6, <3>1, <3>2 DEF Shown
    <2>10. ASSUME NEW d \in Conns \ {c} PROVE Follows(d)' /\ Shown(d)'
      <3>1. HasUser(d) => user[d].nick \in Nicks
        BY DEF HasUser, IInv, TypeOK, Users
      <3>2. Listed(d) => (opList[user[d].nick] = d => opList'[user[d].nick] = d)
        BY <2>7, <3>1, MarksAreNotConns DEF Listed
      <3>. QED
        BY <2>3, <2>5, <3>1, <3>2, FollowKept DEF FollowInv, Listed, HasUser
    <2>11. BotKnown'
      BY <2>3 DEF FollowInv, BotKnown
    <2>. QED
      BY <2>8, <2>9, <2>10, <2>11 DEF FollowInv
  <1>. QED
    BY <1>1, <1>2, <1>3, <1>4, <1>5, <1>6 DEF LoginStep


LEMMA MyINFOFollows ==
  ASSUME IInv, ListInv, FollowInv, NEW c \in Conns, MyINFOStep(c)
  PROVE  FollowInv'
  <1>1. PICK sh \in Shares, pas \in BOOLEAN :
              \/ DC_MyINFOShareRefused(c, sh, pas) \/ DC_MyINFORefused(c, sh, pas)
              \/ DC_MyINFOVetoed(c, sh, pas) \/ DC_MyINFOUpdate(c, sh, pas)
              \/ DC_MyINFOIncomplete(c, sh, pas)
              \/ \E same \in BOOLEAN : DC_MyINFONickTaken(c, sh, pas, same)
              \/ EnterStep(c)
    BY DEF MyINFOStep, DC_MyINFOEnter, DC_MyINFOEnterVetoed, EnterStep
  <1>2. BotKnown'
    <2>1. /\ UNCHANGED botInfo
          /\ flags' = flags \/ flags' = [flags EXCEPT ![c] = @ \cup {"MYINFO"}]
      BY <1>1 DEF DC_MyINFOShareRefused, DC_MyINFORefused, DC_MyINFOVetoed, DC_MyINFOUpdate,
             DC_MyINFOIncomplete, DC_MyINFONickTaken, EnterStep, Enter, MyINFOListed, FirstMyINFO,
             MyINFO
    <2>2. \A d \in Conns : flags[d] \subseteq flags'[d]
      BY <2>1 DEF IInv, TypeOK
    <2>. QED
      BY <2>1, <2>2 DEF FollowInv, BotKnown
  <1>3. CASE ~ EnterStep(c)
    <2>1. /\ MyINFO(c, sh, pas) /\ user' = [user EXCEPT ![c] = Rated(user[c], sh, pas)]
          /\ UNCHANGED opList
      BY <1>1, <1>3 DEF DC_MyINFOShareRefused, DC_MyINFORefused, DC_MyINFOVetoed,
            DC_MyINFOUpdate, DC_MyINFOIncomplete, DC_MyINFONickTaken, FirstMyINFO, MyINFOListed,
            listVars
    <2>2. /\ HasUser(c) /\ user'[c].nick = user[c].nick /\ user'[c].class = user[c].class
          /\ user'[c].inList = user[c].inList
          /\ \A d \in Conns \ {c} : user'[d] = user[d]
          /\ UNCHANGED <<reg, regDB>>
      BY <2>1, MyINFOUsers
    <2>3. UNCHANGED botInfo
      BY <2>1 DEF MyINFO
    <2>4. Follows(c)' /\ Shown(c)'
      BY <2>1, <2>2, <2>3, FollowKept DEF FollowInv, Listed
    <2>5. \A d \in Conns \ {c} : Follows(d)' /\ Shown(d)'
      BY <2>1, <2>2, <2>3, FollowKept DEF FollowInv, Listed, HasUser
    <2>. QED
      BY <1>2, <2>4, <2>5 DEF FollowInv
  <1>4. CASE EnterStep(c)
    <2>1. PICK shr \in Shares, pass \in BOOLEAN, same \in BOOLEAN,
               outcome \in {"in", "InList", "Login"} : Enter(c, shr, pass, same, outcome)
      BY <1>4 DEF EnterStep
    <2>2. Entered(c, shr, pass, same)
      BY <2>1, EnterUsers
    <2>3. UNCHANGED <<reg, regDB, botInfo>>
      BY <2>1 DEF Enter, FirstMyINFO, MyINFO
    <2>4. \A m \in Nicks : opList'[m] = IF m = user[c].nick
                                        THEN (IF user[c].class >= Operator THEN c ELSE NoOne)
                                        ELSE opList[m]
      <3>1. ASSUME NEW m \in Nicks
            PROVE  IF m = user[c].nick
                   THEN opList'[m] = (IF user[c].class >= Operator THEN c ELSE NoOne)
                   ELSE UNCHANGED opList[m]
        BY <2>1, EnterListed
      <3>. QED
        BY <3>1
    <2>5. Follows(c)' /\ Shown(c)'
      <3>1. /\ user'[c].nick = user[c].nick /\ user[c].nick \in Nicks
            /\ user'[c].class = user[c].class /\ HasUser(c)
        BY <2>2 DEF Entered
      <3>2. Follows(c)'
        BY <2>3, <3>1 DEF FollowInv, Follows
      <3>3. Shown(c)'
        BY <2>4, <3>1 DEF Shown
      <3>. QED
        BY <3>2, <3>3
    <2>6. ASSUME NEW d \in Conns \ {c} PROVE Follows(d)' /\ Shown(d)'
      <3>1. CASE d = Holder(c)
        <4>1. HasUser(d) /\ user[d] \in Users /\ user'[d] = [user[d] EXCEPT !.inList = FALSE]
          BY <2>2, <3>1 DEF Entered, Listed
        <4>2. user'[d].nick = user[d].nick /\ user'[d].class = user[d].class /\ ~ user'[d].inList
          BY <4>1 DEF Users
        <4>. QED
          BY <2>3, <4>1, <4>2, FollowKept DEF FollowInv, Listed
      <3>2. CASE d # Holder(c)
        <4>1. user'[d] = user[d]
          BY <2>2, <3>2 DEF Entered
        <4>2. Listed(d) => user[d].nick \in Nicks \ {user[c].nick}
          BY <3>2 DEF Listed, HasUser, IInv, TypeOK, Users, ListInv, ConnInv, Holder
        <4>3. Listed(d) => UNCHANGED opList[user[d].nick]
          BY <2>4, <4>1, <4>2
        <4>. QED
          BY <2>3, <4>1, <4>3, FollowKept DEF FollowInv, Listed, HasUser
      <3>. QED
        BY <3>1, <3>2
    <2>. QED
      BY <1>2, <2>5, <2>6 DEF FollowInv
  <1>. QED
    BY <1>3, <1>4

LEMMA CloseFollows ==
  ASSUME IInv, ListInv, FollowInv, NEW c \in Conns, CloseStep(c)
  PROVE  FollowInv'
  <1>1. CASE Reject(c) \/ (\E t \in TimeOuts : OnTimer(c, t)) \/ CloseNow(c)
    <2>1. UNCHANGED <<user, reg, regDB, opList, botInfo, flags>>
      BY <1>1 DEF Reject, OnTimer, CloseNow, listVars
    <2>. QED
      BY <2>1, FollowStutters
  <1>2. CASE DeleteConn(c)
    <2>1. /\ user'[c] = NoUser /\ UNCHANGED regDB /\ ~ botInfo'[c]
          /\ \A d \in Conns \ {c} : UNCHANGED <<user[d], reg[d], botInfo[d], flags[d]>>
      BY <1>2 DEF DeleteConn, IInv, TypeOK
    <2>2. Follows(c)' /\ Shown(c)'
      BY <2>1 DEF Follows, Shown, Listed, HasUser
    <2>3. ASSUME NEW d \in Conns \ {c} PROVE Follows(d)' /\ Shown(d)'
      <3>1. Listed(d) => user[d].nick \in Nicks /\ userList[user[d].nick] = d
        BY DEF Listed, HasUser, IInv, TypeOK, Users, ListInv, ConnInv
      <3>2. Listed(d) => opList'[user[d].nick] = opList[user[d].nick]
        <4>1. CASE HasUser(c) /\ ~ EntryOfOther(c)
          <5>1. opList' = [opList EXCEPT ![user[c].nick] = NoOne]
            BY <1>2, <4>1 DEF DeleteConn, RemoveByHash
          <5>2. Listed(d) => user[d].nick # user[c].nick
            BY <3>1, <4>1, MarksAreNotConns DEF EntryOfOther
          <5>. QED
            BY <3>1, <5>1, <5>2 DEF IInv, TypeOK
        <4>2. CASE ~ (HasUser(c) /\ ~ EntryOfOther(c))
          BY <1>2, <4>2 DEF DeleteConn
        <4>. QED
          BY <4>1, <4>2
      <3>. QED
        BY <2>1, <3>2, FollowKept DEF FollowInv, Listed, HasUser
    <2>4. BotKnown'
      BY <2>1 DEF FollowInv, BotKnown
    <2>. QED
      BY <2>2, <2>3, <2>4 DEF FollowInv
  <1>. QED
    BY <1>1, <1>2 DEF CloseStep

LEMMA RobotFollows ==
  ASSUME IInv, ListInv, FollowInv, NEW n \in RobotNicks, RobotStep(n)
  PROVE  FollowInv'
  <1>1. /\ UNCHANGED <<user, reg, regDB, botInfo, flags>> /\ n \in Nicks
        /\ \A m \in Nicks \ {n} : opList'[m] = opList[m]
    BY ConstantsAssumption DEF RobotStep, AddRobot, DelRobot, AddToOps, AddWithHash, RemoveByHash,
                               connVars, IInv, TypeOK
  <1>2. userList[n] \in {NoOne, Robot}
    BY <1>1 DEF RobotStep, AddRobot, DelRobot, ListInv, NickInv
  <1>3. ASSUME NEW d \in Conns PROVE Follows(d)' /\ Shown(d)'
    <2>1. Listed(d) => user[d].nick \in Nicks /\ userList[user[d].nick] = d
      BY DEF Listed, HasUser, IInv, TypeOK, Users, ListInv, ConnInv
    <2>2. Listed(d) => UNCHANGED opList[user[d].nick]
      BY <1>1, <1>2, <2>1, MarksAreNotConns
    <2>. QED
      BY <1>1, <2>2, FollowKept DEF FollowInv, Listed, HasUser
  <1>4. BotKnown'
    BY <1>1 DEF FollowInv, BotKnown
  <1>. QED
    BY <1>3, <1>4 DEF FollowInv

(* The commands that leave the classes alone *)
LEMMA SameClassFollows ==
  ASSUME IInv, ListInv, FollowInv, NEW n \in Nicks, NEW a \in Accs, a.class = regDB[n].class,
         Store(n, a), UNCHANGED opList,
         \A e \in Conns : HasUser(e)' => /\ HasUser(e) /\ user'[e].nick = user[e].nick
                                         /\ user'[e].inList = user[e].inList
                                         /\ user'[e].class = user[e].class
  PROVE  FollowInv'
  <1>1. UNCHANGED <<flags, botInfo>> /\ \A m \in Nicks : regDB'[m].class = regDB[m].class
    BY DEF Store, IInv, TypeOK
  <1>2. ASSUME NEW e \in Conns PROVE Follows(e)' /\ Shown(e)'
    <2>1. Listed(e)' => Listed(e)
      BY DEF Listed
    <2>2. HasUser(e) => user[e].nick \in Nicks
      BY DEF HasUser, IInv, TypeOK, Users
    <2>3. CASE e # Target(n)
      <3>1. reg'[e] = reg[e]
        BY <2>3 DEF Store, OnTarget, IInv, TypeOK
      <3>. QED
        BY <1>1, <2>1, <2>2, <3>1, FollowKept DEF FollowInv
    <2>4. CASE e = Target(n)
      <3>1. reg'[e] = a
        BY <2>4 DEF Store, OnTarget, IInv, TypeOK
      <3>2. HasUser(e) /\ user[e].nick = n
        BY <2>4 DEF ListInv, NickInv, ConnInv, IInv, Holders, Target, Listed
      <3>3. Follows(e)'
        <4>1. HasUser(e)' => user'[e].nick = n /\ user'[e].class = user[e].class
          BY <3>2
        <4>2. reg[e].class \in {0, regDB[n].class}
          BY <3>2 DEF FollowInv, Follows
        <4>3. user[e].class \in {0, regDB[n].class} \/ (user[e].class = Pinger /\ botInfo[e])
          BY <3>2, <4>2 DEF FollowInv, Follows
        <4>. QED
          BY <1>1, <3>1, <4>1, <4>3 DEF Follows
      <3>4. Shown(e)'
        <4>1. Listed(e)' => /\ user'[e].nick = user[e].nick /\ user'[e].class = user[e].class
                            /\ Listed(e)
          BY <2>1 DEF Listed
        <4>. QED
          BY <4>1 DEF FollowInv, Shown
      <3>. QED
        BY <3>3, <3>4
    <2>. QED
      BY <2>3, <2>4
  <1>3. BotKnown'
    BY <1>1 DEF FollowInv, BotKnown
  <1>. QED
    BY <1>2, <1>3 DEF FollowInv

LEMMA RegNewFollows ==
  ASSUME IInv, ListInv, FollowInv, NEW n \in Nicks, NEW a \in Accounts, RegNew(n, a)
  PROVE  FollowInv'
  <1>1. /\ regDB[n].class = 0 /\ UNCHANGED <<flags, botInfo, userList>>
        /\ regDB'[n] = a /\ \A m \in Nicks \ {n} : regDB'[m] = regDB[m]
    BY DEF RegNew, Store, IInv, TypeOK
  <1>2. ASSUME NEW e \in Conns, e # Target(n) PROVE Follows(e)' /\ Shown(e)'
    <2>1. user'[e] = user[e] /\ reg'[e] = reg[e]
      BY <1>2 DEF RegNew, Store, OnTarget, IInv, TypeOK
    <2>2. HasUser(e) => user[e].nick \in Nicks
      BY DEF HasUser, IInv, TypeOK, Users
    <2>3. HasUser(e) => reg[e].class = 0 \/ regDB'[user[e].nick].class = regDB[user[e].nick].class
      BY <1>1, <2>2 DEF FollowInv, Follows
    <2>4. Listed(e) => user[e].nick \in Nicks \ {n}
      BY <1>2, <2>2 DEF Listed, ListInv, ConnInv, Target
    <2>5. \A m \in Nicks \ {n} : opList'[m] = opList[m]
      BY DEF RegNew, OpsWhenNew, AddWithHash, IInv, TypeOK
    <2>. QED
      BY <1>1, <2>1, <2>3, <2>4, <2>5, FollowKept DEF FollowInv, Listed, HasUser
  <1>3. ASSUME NEW e \in Conns, e = Target(n) PROVE Follows(e)' /\ Shown(e)'
    <2>1. HasUser(e) /\ user[e].nick = n /\ user[e] \in Users
      BY <1>3 DEF ListInv, NickInv, ConnInv, IInv, TypeOK, Holders, Target, Listed, HasUser
    <2>2. /\ user' = [user EXCEPT ![e] = [user[e] EXCEPT !.class = a.class]]
          /\ opList' = IF a.class >= Operator THEN AddWithHash(opList, n, e) ELSE opList
          /\ reg'[e] = a
      BY <1>3 DEF RegNew, Store, OnTarget, OpsWhenNew, IInv, TypeOK
    <2>3. user'[e].nick = n /\ user'[e].class = a.class
      BY <2>1, <2>2 DEF IInv, TypeOK, Users
    <2>4. Follows(e)'
      BY <1>1, <2>2, <2>3 DEF Follows
    <2>5. opList[n] \in {NoOne, e}
      BY <1>3 DEF ListInv, NickInv, Target
    <2>6. Shown(e)'
      BY <2>2, <2>3, <2>5 DEF Shown, AddWithHash, IInv, TypeOK
    <2>. QED
      BY <2>4, <2>6
  <1>4. BotKnown'
    BY <1>1 DEF FollowInv, BotKnown
  <1>. QED
    BY <1>2, <1>3, <1>4 DEF FollowInv

LEMMA AdminFollows ==
  ASSUME AccountsGrow, IInv, ListInv, FollowInv, NEW n \in Nicks, AdminStep(n)
  PROVE  FollowInv'
  <1>0. regDB[n] \in Accs
    BY DEF IInv, TypeOK, Accs
  <1>1. CASE \E a \in Accounts : RegNew(n, a)
    BY <1>1, RegNewFollows
  <1>2. CASE \E h \in BOOLEAN : RegHideShare(n, h)
    <2>1. PICK h \in BOOLEAN : RegHideShare(n, h)
      BY <1>2
    <2>2. /\ [regDB[n] EXCEPT !.hideShare = h] \in Accs
          /\ [regDB[n] EXCEPT !.hideShare = h].class = regDB[n].class
      BY <1>0 DEF Accs
    <2>3. \A e \in Conns : HasUser(e)' => /\ HasUser(e) /\ user'[e].nick = user[e].nick
                                          /\ user'[e].inList = user[e].inList
                                          /\ user'[e].class = user[e].class
      <3>1. CASE Target(n) \in Conns
        <4>1. user[Target(n)] \in Users /\ HasUser(Target(n))
          BY <3>1, HolderIsUser, UsersAreUsers DEF HasUser
        <4>2. user' = [user EXCEPT ![Target(n)] = [user[Target(n)] EXCEPT !.hide = h]]
          BY <2>1, <3>1 DEF RegHideShare, IInv, TypeOK
        <4>3. LET u == user[Target(n)]
                  v == [u EXCEPT !.hide = h]
              IN  v.nick = u.nick /\ v.inList = u.inList /\ v.class = u.class
          BY <4>1 DEF Users
        <4>. QED
          BY <4>1, <4>2, <4>3 DEF HasUser, IInv, TypeOK
      <3>2. CASE Target(n) \notin Conns
        BY <2>1, <3>2 DEF RegHideShare, HasUser
      <3>. QED
        BY <3>1, <3>2
    <2>. QED
      BY <2>1, <2>2, <2>3, SameClassFollows DEF RegHideShare
  <1>3. CASE RegPassReset(n)
    <2>1. /\ [regDB[n] EXCEPT !.pwdChange = TRUE] \in Accs
          /\ [regDB[n] EXCEPT !.pwdChange = TRUE].class = regDB[n].class
      BY <1>0 DEF Accs
    <2>. QED
      BY <1>3, <2>1, SameClassFollows DEF RegPassReset, HasUser
  <1>4. CASE \E a \in Addresses, z \in Zones : RegFakeIP(n, a, z)
    BY <1>0, <1>4, SameClassFollows DEF RegFakeIP, HasUser
  <1>5. CASE RegPass(n)
    <2>1. /\ UNCHANGED <<user, reg, opList, botInfo, flags>>
          /\ \A m \in Nicks : regDB'[m].class = regDB[m].class
      BY <1>5 DEF RegPass, connVars, listVars, IInv, TypeOK
    <2>2. \A e \in Conns : HasUser(e) => user[e].nick \in Nicks
      BY DEF HasUser, IInv, TypeOK, Users
    <2>3. \A e \in Conns : Follows(e)' /\ Shown(e)'
      BY <2>1, <2>2, FollowKept DEF FollowInv, Listed, HasUser
    <2>. QED
      BY <2>1, <2>3 DEF FollowInv, BotKnown
  <1>6. ~ RegDel(n) /\ \A k \in Classes : ~ RegClass(n, k) /\ ~ CmdClass(n, k)
    BY DEF RegDel, RegClass, CmdClass, AccountsGrow
  <1>. QED
    BY <1>1, <1>2, <1>3, <1>4, <1>5, <1>6 DEF AdminStep

(* A user has no class but the one of his account, and every operator is in mOpList, while
   accounts are made, passwords are reset and set by command or in answer to the hub's request,
   and nicks are taken over; as long as classes change by none of the commands for that. *)
THEOREM AccountsAreFollowed ==
  ASSUME AccountsGrow
  PROVE  Spec => []AccountFollowed
  <1>1. RobotNicks \subseteq ReservedNicks
    BY DEF AccountsGrow
  <1>2. Spec => [](IInv /\ LoginOrder /\ ListInv)
    BY <1>1, ListsInvariant
  <1>3. Init => FollowInv
    BY DEF Init, FollowInv, BotKnown, Follows, Shown, Listed, HasUser
  <1>4. IInv /\ LoginOrder /\ ListInv /\ FollowInv /\ [Next]_vars => FollowInv'
    <2>. SUFFICES ASSUME IInv, LoginOrder, ListInv, FollowInv, [Next]_vars PROVE FollowInv'
      OBVIOUS
    <2>1. ASSUME NEW c \in Conns, LoginStep(c) \/ MyINFOStep(c) \/ CloseStep(c) PROVE FollowInv'
      BY <2>1, LoginFollows, MyINFOFollows, CloseFollows DEF LoginOrder
    <2>2. ASSUME NEW n \in RobotNicks, RobotStep(n) PROVE FollowInv'
      BY <2>2, RobotFollows
    <2>3. ASSUME NEW n \in Nicks, AdminStep(n) PROVE FollowInv'
      BY <2>3, AdminFollows
    <2>4. CASE UNCHANGED vars
      BY <2>4, FollowStutters DEF vars, connVars, listVars
    <2>. QED
      BY <2>1, <2>2, <2>3, <2>4 DEF Next
  <1>5. FollowInv => AccountFollowed
    <2>. SUFFICES ASSUME FollowInv PROVE AccountFollowed
      OBVIOUS
    <2>1. RightsOfAccount
      BY DEF FollowInv, Follows, RightsOfAccount, Listed
    <2>2. OperatorsShown
      BY DEF FollowInv, Shown, OperatorsShown
    <2>. QED
      BY <2>1, <2>2 DEF AccountFollowed
  <1>. QED
    BY <1>2, <1>3, <1>4, <1>5, PTL DEF Spec
==============================================================================
