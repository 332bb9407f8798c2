------------------------- MODULE Moderation_proofs -------------------------
(***************************************************************************)
(* What operators' orders guarantee, proved for all nicks, fields, ban     *)
(* keys and lengths: a temporary restriction or right is what the user     *)
(* online is held to and stays stored until it is lifted (module Rights);  *)
(* nobody is in the hub against a ban but who was past the check when it   *)
(* was given, and a ban lasts until it is taken back (module Bans); what   *)
(* runs, what is stored and the hub's robots agree (module Settings); the  *)
(* lists in memory are what their tables have (module Tables); no chain of *)
(* orders lifts anybody to the highest class there was (module Console);   *)
(* what the plugins have of their rows is in order, is found and is what   *)
(* they answer by (module PluginLists).  At the end the six together       *)
(* (MCModeration): the copies in memory and the types.                     *)
(***************************************************************************)
EXTENDS MCModeration, Sums_proofs, FiniteSetTheorems, TLAPS

-----------------------------------------------------------------------------
(* Rights: the invariant that is inductive *)

\* a row that the switched-on cache does not know is in the gap, so that a
\* lookup through the cache finds what is stored or is known to have missed
CacheHeld == cacheOn => \A n \in PenNicks : row[n] # NoRow => n \in cached \cup gap

\* not only that the user is held to what is in force now, but that this
\* stays so as the clock goes on: the user's time is the row's, or later
FieldHeld(n, f) ==
    InForce(n, f) => \/ rights[n][f] >= row[n][f]
                     \/ f \in UseFields /\ rights[n][f] = 0
                     \/ <<n, f>> \in shorter
                     \/ n \in missed

RightsInv ==
    /\ RightsTypeOK /\ clock >= 2
    /\ CacheHeld
    /\ \A n \in PenNicks \ Pingers : \A f \in PenFields : Online(n) => FieldHeld(n, f)

LEMMA RightsInvInit == RightsInit => RightsInv
  <1> SUFFICES ASSUME RightsInit PROVE RightsInv
    OBVIOUS
  <1>1. RightsTypeOK
    BY RightsAssumption DEF RightsInit, RightsTypeOK
  <1>2. \A n \in PenNicks : ~Online(n) /\ row[n] = NoRow
    BY DEF RightsInit, Online
  <1> QED
    BY <1>1, <1>2 DEF RightsInit, RightsInv, CacheHeld

\* A stored row that is not in the gap is found.
LEMMA FoundOrGap ==
    ASSUME RightsInv, NEW n \in PenNicks, row[n] # NoRow, n \notin gap
    PROVE  Loaded(n) /\ LoadTo(n) = row[n]
  BY DEF RightsInv, CacheHeld, Loaded, LoadTo, Served

\* What is looked up is a set of times, whether from the table or new.
LEMMA LoadToType ==
    ASSUME RightsInv, NEW n \in PenNicks
    PROVE  LoadTo(n) \in [PenFields -> Nat]
  BY DEF RightsInv, RightsTypeOK, LoadTo, Loaded, Fresh

\* After what changed the table and the cache together, the rows out of the
\* cache are still those of the gap.
LEMMA UnseenHeld ==
    ASSUME RightsInv, gap' = Unseen(row', cached'), UNCHANGED cacheOn,
           \A n \in PenNicks : row'[n] # NoRow => row[n] # NoRow \/ n \in cached' \/ ~cacheOn,
           cached \subseteq cached'
    PROVE  CacheHeld'
  BY DEF RightsInv, CacheHeld, Unseen, Rows

-----------------------------------------------------------------------------
(* Rights: users come and go *)

LEMMA EnterTypes ==
    ASSUME NEW pen \in [PenFields -> Nat], NEW low
    PROVE  LimitShare(pen, low) \in [PenFields -> Nat]
  BY DEF LimitShare

LEMMA RightsInvEnter ==
    ASSUME RightsInv, NEW n \in PenNicks, EnterHub(n)
    PROVE  RightsInv'
  <1> DEFINE Pen(low) ==
        IF n \notin Pingers /\ Loaded(n) THEN LoadTo(n) ELSE LimitShare(NewUser(n), low)
  <1>0. \A low \in BOOLEAN : Pen(low) \in [PenFields -> Nat]
    <2>1. NewUser(n) \in [PenFields -> Nat]
      BY DEF NewUser
    <2> QED
      BY <2>1, LoadToType, EnterTypes
  <1>1. PICK low \in BOOLEAN : /\ rights' = [rights EXCEPT ![n] = Pen(low)]
                               /\ opchat' \in {opchat, opchat \cup {n}}
    BY DEF EnterHub
  <1> DEFINE pen == Pen(low)
  <1>2. /\ pen \in [PenFields -> Nat] /\ rights' = [rights EXCEPT ![n] = pen]
        /\ n \notin Pingers /\ Loaded(n) => pen = LoadTo(n)
    BY <1>0, <1>1
  <1> HIDE DEF pen
  <1>3. /\ UNCHANGED <<clock, row, cached, cacheOn, gap>>
        /\ missed' = IF n \in gap THEN missed \cup {n} ELSE missed
        /\ shorter' = {s \in shorter : s[1] # n}
    BY DEF EnterHub
  <1>4. RightsTypeOK'
    BY <1>1, <1>2, <1>3 DEF RightsInv, RightsTypeOK
  <1>5. CacheHeld'
    BY <1>3 DEF RightsInv, CacheHeld
  <1>6. ASSUME NEW m \in PenNicks \ Pingers, NEW f \in PenFields, Online(m)'
        PROVE  FieldHeld(m, f)'
    <2>1. CASE m = n
      <3>1. row[n] # NoRow => n \in missed' \/ rights'[n] = row[n]
        BY <1>2, <1>3, <2>1, FoundOrGap DEF RightsInv, RightsTypeOK
      <3>2. row[n] # NoRow => row[n][f] \in Nat
        BY DEF RightsInv, RightsTypeOK
      <3> QED
        BY <1>3, <2>1, <3>1, <3>2 DEF FieldHeld, InForce
    <2>2. CASE m # n
      <3>1. rights'[m] = rights[m]
        BY <1>2, <2>2 DEF RightsInv, RightsTypeOK
      <3>2. FieldHeld(m, f)
        BY <1>6, <3>1 DEF RightsInv, Online
      <3> QED
        BY <1>3, <2>2, <3>1, <3>2 DEF FieldHeld, InForce
    <2> QED
      BY <2>1, <2>2
  <1> QED
    BY <1>3, <1>4, <1>5, <1>6 DEF RightsInv

LEMMA RightsInvLeave ==
    ASSUME RightsInv, NEW n \in PenNicks, LeaveHub(n)
    PROVE  RightsInv'
  <1>1. /\ UNCHANGED <<clock, row, cached, cacheOn, gap, shorter>>
        /\ rights' = [rights EXCEPT ![n] = Away] /\ missed' = missed \ {n} /\ opchat' = opchat \ {n}
    BY DEF LeaveHub
  <1>2. RightsTypeOK'
    BY <1>1 DEF RightsInv, RightsTypeOK
  <1>3. ASSUME NEW m \in PenNicks \ Pingers, NEW f \in PenFields, Online(m)'
        PROVE  FieldHeld(m, f)'
    <2>1. m # n /\ rights'[m] = rights[m]
      BY <1>1, <1>3 DEF RightsInv, RightsTypeOK, Online
    <2>2. FieldHeld(m, f)
      BY <1>3, <2>1 DEF RightsInv, Online
    <2> QED
      BY <1>1, <2>1, <2>2 DEF FieldHeld, InForce
  <1> QED
    BY <1>1, <1>2, <1>3 DEF RightsInv, CacheHeld

LEMMA RightsInvShare ==
    ASSUME RightsInv, NEW n \in PenNicks, ShareDrops(n)
    PROVE  RightsInv'
  <1>1. /\ UNCHANGED <<clock, row, cached, cacheOn, gap, shorter, missed, opchat>>
        /\ Online(n)
        /\ rights' = [rights EXCEPT ![n] = LimitShare(rights[n], TRUE)]
    BY DEF ShareDrops
  <1>2. rights[n] \in [PenFields -> Nat]
    BY <1>1 DEF RightsInv, RightsTypeOK, Online
  <1>3. RightsTypeOK'
    BY <1>1, <1>2, EnterTypes DEF RightsInv, RightsTypeOK
  <1>4. ASSUME NEW m \in PenNicks \ Pingers, NEW f \in PenFields, Online(m)'
        PROVE  FieldHeld(m, f)'
    <2>1. Online(m) /\ FieldHeld(m, f)
      BY <1>1, <1>4 DEF RightsInv, RightsTypeOK, Online
    <2>2. rights'[m][f] = rights[m][f] \/ (f \in UseFields /\ rights'[m][f] = 0)
      BY <1>1 DEF LimitShare, RightsInv, RightsTypeOK
    <2> QED
      BY <1>1, <2>1, <2>2 DEF FieldHeld, InForce
  <1> QED
    BY <1>1, <1>3, <1>4 DEF RightsInv, CacheHeld

-----------------------------------------------------------------------------
(* Rights: the operators' orders *)

\* An order that writes the row of n and the fields of n when online, and
\* leaves everybody else's.
LEMMA RightsInvApplied ==
    ASSUME RightsInv, NEW n \in PenNicks, NEW fs, NEW lifts \in BOOLEAN,
           NEW pen \in [PenFields -> Nat], NEW new \in [PenFields -> Nat] \cup {NoRow},
           Apply(n, pen, fs, lifts),
           row' = [row EXCEPT ![n] = new], UNCHANGED <<clock, cacheOn>>,
           cached' \subseteq PenNicks, gap' \subseteq PenNicks,
           shorter' \subseteq PenNicks \X PenFields,
           {s \in shorter : s[1] # n} \subseteq shorter',
           CacheHeld',
           \A f \in PenFields : new # NoRow /\ n \notin gap /\ new[f] > clock =>
               pen[f] >= new[f] \/ <<n, f>> \in shorter'
    PROVE  RightsInv'
  <1>1. /\ rights' = IF Online(n) THEN [rights EXCEPT ![n] = pen] ELSE rights
        /\ opchat' \in {opchat, opchat \cup {n}, opchat \ {n}}
        /\ missed' = IF Online(n) /\ n \in gap THEN missed \cup {n} ELSE missed
    BY DEF Apply
  <1>2. RightsTypeOK'
    BY <1>1 DEF RightsInv, RightsTypeOK
  <1>3. ASSUME NEW m \in PenNicks \ Pingers, NEW f \in PenFields, Online(m)'
        PROVE  FieldHeld(m, f)'
    <2>1. Online(m)
      BY <1>1, <1>3 DEF Online, RightsInv, RightsTypeOK
    <2>2. CASE m = n
      <3>1. rights'[n] = pen /\ row'[n] = new
        BY <1>1, <2>1, <2>2 DEF RightsInv, RightsTypeOK
      <3>2. n \in gap => n \in missed'
        BY <1>1, <2>1, <2>2
      <3> QED
        BY <2>2, <3>1, <3>2 DEF FieldHeld, InForce
    <2>3. CASE m # n
      <3>1. rights'[m] = rights[m] /\ row'[m] = row[m] /\ (m \in missed => m \in missed')
        BY <1>1, <2>3 DEF RightsInv, RightsTypeOK
      <3>2. <<m, f>> \in shorter => <<m, f>> \in shorter'
        BY <2>3
      <3> QED
        BY <2>1, <2>3, <3>1, <3>2 DEF FieldHeld, InForce, RightsInv
    <2> QED
      BY <2>2, <2>3
  <1> QED
    BY <1>2, <1>3 DEF RightsInv

LEMMA RightsInvOrder ==
    ASSUME RightsInv, NEW n \in PenNicks, NEW fs \in Groups, NEW period \in Periods,
           Order(n, fs, period)
    PROVE  /\ RightsInv'
           /\ \A m \in PenNicks, f \in PenFields :
                InForce(m, f) => row'[m] # NoRow /\ row'[m][f] >= row[m][f]
  <1> DEFINE until == clock + period
             pen == [f \in PenFields |-> IF f \in fs THEN until ELSE LoadTo(n)[f]]
             new == Added(n, pen)
  <1>1. /\ row' = [row EXCEPT ![n] = new]
        /\ cached' = Noted(n)
        /\ gap' = Unseen(row', cached')
        /\ shorter' = {s \in shorter : s[1] # n}
                        \cup {<<n, f>> : f \in {g \in fs : new[g] > until}}
        /\ Apply(n, pen, fs, FALSE)
        /\ UNCHANGED <<clock, cacheOn>>
    BY DEF Order
  <1>2. until \in Nat
    BY RightsAssumption DEF RightsInv, RightsTypeOK
  <1>3. pen \in [PenFields -> Nat]
    BY <1>2, LoadToType
  <1>4. fs \subseteq PenFields
    BY DEF Groups
  <1>5. \A f \in PenFields : pen[f] = IF f \in fs THEN until ELSE LoadTo(n)[f]
    OBVIOUS
  <1> HIDE DEF pen, until
  <1>6. new = IF row[n] = NoRow THEN pen ELSE Larger(pen, row[n])
    BY DEF Added
  <1>7. row[n] # NoRow => row[n] \in [PenFields -> Nat]
    BY DEF RightsInv, RightsTypeOK
  <1>8. /\ new \in [PenFields -> Nat]
        /\ \A f \in PenFields : /\ new[f] \in Nat /\ pen[f] \in Nat
                                /\ row[n] = NoRow => new[f] = pen[f]
                                /\ row[n] # NoRow => /\ new[f] = IF pen[f] > row[n][f]
                                                                 THEN pen[f] ELSE row[n][f]
                                                     /\ new[f] >= row[n][f]
    <2>1. CASE row[n] = NoRow
      BY <1>3, <1>6, <2>1
    <2>2. CASE row[n] # NoRow
      <3>1. new = [f \in PenFields |-> IF pen[f] > row[n][f] THEN pen[f] ELSE row[n][f]]
        BY <1>6, <2>2 DEF Larger
      <3> QED
        BY <1>3, <1>7, <2>2, <3>1
    <2> QED
      BY <2>1, <2>2
  <1> HIDE DEF new
  <1>9. CacheHeld'
    <2>1. \A m \in PenNicks : row'[m] # NoRow => row[m] # NoRow \/ m \in cached' \/ ~cacheOn
      BY <1>1 DEF Noted, RightsInv, RightsTypeOK
    <2> QED
      BY <1>1, <2>1, UnseenHeld DEF Noted
  <1>10. \A f \in PenFields : n \notin gap /\ new[f] > clock =>
               pen[f] >= new[f] \/ <<n, f>> \in shorter'
    <2> SUFFICES ASSUME NEW f \in PenFields, n \notin gap, ~(pen[f] >= new[f])
                 PROVE  <<n, f>> \in shorter'
      OBVIOUS
    <2>1. row[n] # NoRow /\ new[f] = row[n][f]
      BY <1>8
    <2>2. LoadTo(n) = row[n]
      BY <2>1, FoundOrGap
    <2>3. f \in fs /\ new[f] > until
      BY <1>5, <1>7, <1>8, <2>1, <2>2
    <2> QED
      BY <1>1, <2>3
  <1>11. /\ cached' \subseteq PenNicks /\ gap' \subseteq PenNicks
         /\ shorter' \subseteq PenNicks \X PenFields
         /\ {s \in shorter : s[1] # n} \subseteq shorter'
    BY <1>1, <1>4 DEF Noted, Unseen, RightsInv, RightsTypeOK
  <1>12. RightsInv'
    BY <1>1, <1>3, <1>8, <1>9, <1>10, <1>11, RightsInvApplied
  <1>13. ASSUME NEW m \in PenNicks, NEW f \in PenFields, InForce(m, f)
         PROVE  row'[m] # NoRow /\ row'[m][f] >= row[m][f]
    <2>1. CASE m = n
      <3>1. row'[n] = new /\ row[n] # NoRow
        BY <1>1, <1>13, <2>1 DEF InForce, RightsInv, RightsTypeOK
      <3>2. new # NoRow
        <4>1. DOMAIN new = PenFields /\ DOMAIN NoRow = {}
          BY <1>8 DEF NoRow
        <4> QED
          BY <4>1
      <3> QED
        BY <1>8, <2>1, <3>1, <3>2
    <2>2. CASE m # n
      <3>1. row'[m] = row[m] /\ row[m] # NoRow /\ row[m][f] \in Nat
        BY <1>1, <1>13, <2>2 DEF InForce, RightsInv, RightsTypeOK
      <3> QED
        BY <3>1
    <2> QED
      BY <2>1, <2>2
  <1> QED
    BY <1>12, <1>13

LEMMA RightsInvLift ==
    ASSUME RightsInv, NEW n \in PenNicks, NEW fs \in Groups, Lift(n, fs)
    PROVE  /\ RightsInv'
           /\ \A m \in PenNicks, f \in PenFields :
                InForce(m, f) /\ (m # n \/ (f \notin fs /\ n \notin gap))
                    => row'[m] # NoRow /\ row'[m][f] >= row[m][f]
  <1> DEFINE pen == [f \in PenFields |-> IF f \in fs THEN 1 ELSE LoadTo(n)[f]]
             keep == KeepsRow(n, pen)
             new == IF keep THEN Reset1(n, pen) ELSE NoRow
  <1>1. /\ row' = [row EXCEPT ![n] = new]
        /\ cached' = IF keep THEN cached ELSE Reloaded(row')
        /\ gap' = Unseen(row', cached')
        /\ shorter' = {s \in shorter : s[1] # n}
        /\ Apply(n, pen, fs, TRUE)
        /\ UNCHANGED <<clock, cacheOn>>
    BY DEF Lift
  <1>2. pen \in [PenFields -> Nat] /\ \A f \in PenFields : pen[f] = IF f \in fs THEN 1 ELSE LoadTo(n)[f]
    BY LoadToType
  <1>3. keep => row[n] # NoRow
    BY DEF KeepsRow
  <1>4. row[n] # NoRow => row[n] \in [PenFields -> Nat]
    BY DEF RightsInv, RightsTypeOK
  <1>5. new # NoRow => keep /\ new = [f \in PenFields |-> IF pen[f] < clock THEN 1 ELSE row[n][f]]
    BY DEF Reset1
  <1>6. keep <=> row[n] # NoRow /\ \E f \in PenFields : pen[f] >= clock
    BY DEF KeepsRow
  <1>7. keep => new = [f \in PenFields |-> IF pen[f] < clock THEN 1 ELSE row[n][f]]
    BY DEF Reset1
  <1> HIDE DEF pen, keep, new
  <1>8. new \in [PenFields -> Nat] \cup {NoRow}
    BY <1>3, <1>4, <1>5
  <1>9. CacheHeld'
    <2>1. CASE keep
      <3>1. \A m \in PenNicks : row'[m] # NoRow => row[m] # NoRow
        BY <1>1, <1>3, <2>1 DEF RightsInv, RightsTypeOK
      <3> QED
        BY <1>1, <2>1, <3>1, UnseenHeld
    <2>2. CASE ~keep
      BY <1>1, <2>2 DEF CacheHeld, Reloaded, Rows
    <2> QED
      BY <2>1, <2>2
  <1>10. clock \in Nat /\ clock >= 2
    BY DEF RightsInv, RightsTypeOK
  <1>11. ASSUME NEW f \in PenFields, new # NoRow, n \notin gap, new[f] > clock
         PROVE  pen[f] >= new[f]
    <2>1. row[n] # NoRow /\ LoadTo(n) = row[n]
      BY <1>3, <1>5, <1>11, FoundOrGap
    <2>2. ~(pen[f] < clock) /\ new[f] = row[n][f]
      BY <1>5, <1>10, <1>11
    <2> QED
      BY <1>2, <1>4, <1>10, <2>1, <2>2
  <1>12. /\ cached' \subseteq PenNicks /\ gap' \subseteq PenNicks
         /\ shorter' \subseteq PenNicks \X PenFields
    BY <1>1 DEF Reloaded, Rows, Unseen, RightsInv, RightsTypeOK
  <1>13. RightsInv'
    BY <1>1, <1>2, <1>8, <1>9, <1>11, <1>12, RightsInvApplied
  <1>14. ASSUME NEW m \in PenNicks, NEW f \in PenFields, InForce(m, f),
                m # n \/ (f \notin fs /\ n \notin gap)
         PROVE  row'[m] # NoRow /\ row'[m][f] >= row[m][f]
    <2>1. CASE m # n
      <3>1. row'[m] = row[m] /\ row[m] # NoRow /\ row[m][f] \in Nat
        BY <1>1, <1>14, <2>1 DEF InForce, RightsInv, RightsTypeOK
      <3> QED
        BY <3>1
    <2>2. CASE m = n
      <3>1. row[n] # NoRow /\ row[n][f] > clock /\ LoadTo(n) = row[n] /\ row[n][f] \in Nat
        BY <1>4, <1>14, <2>2, FoundOrGap DEF InForce
      <3>2. pen[f] = row[n][f] /\ keep
        BY <1>2, <1>6, <1>10, <1>14, <2>2, <3>1
      <3>3. new[f] = row[n][f] /\ DOMAIN new = PenFields
        BY <1>7, <1>10, <3>1, <3>2
      <3>4. new # NoRow
        BY <3>3 DEF NoRow
      <3>5. row'[n] = new
        BY <1>1 DEF RightsInv, RightsTypeOK
      <3> QED
        BY <2>2, <3>1, <3>3, <3>4, <3>5
    <2> QED
      BY <2>1, <2>2
  <1> QED
    BY <1>13, <1>14

-----------------------------------------------------------------------------
(* Rights: cleaning, the cache, the clock, a restart *)

\* What leaves every user's fields and every time in the table alone, or
\* takes rows away, holds nobody to less than the table says.
LEMMA RightsInvRowsGo ==
    ASSUME RightsInv,
           UNCHANGED <<rights, missed, shorter, opchat>>,
           row' \in [PenNicks -> [PenFields -> Nat] \cup {NoRow}],
           \A n \in PenNicks : row'[n] \in {row[n], NoRow},
           clock' \in Nat, clock' >= clock, cacheOn' \in BOOLEAN,
           cached' \subseteq PenNicks, gap' \subseteq PenNicks, CacheHeld'
    PROVE  RightsInv'
  <1>1. RightsTypeOK'
    BY DEF RightsInv, RightsTypeOK
  <1>2. ASSUME NEW m \in PenNicks \ Pingers, NEW f \in PenFields, Online(m)'
        PROVE  FieldHeld(m, f)'
    <2>1. Online(m) /\ FieldHeld(m, f)
      BY <1>2 DEF Online, RightsInv
    <2>2. row[m] # NoRow => row[m][f] \in Nat
      BY DEF RightsInv, RightsTypeOK
    <2> QED
      BY <2>1, <2>2 DEF FieldHeld, InForce, RightsInv, RightsTypeOK
  <1> QED
    BY <1>1, <1>2 DEF RightsInv, RightsTypeOK

LEMMA RightsInvHub ==
    ASSUME RightsInv,
           \/ \E n \in PenNicks : OrderFails(n)
           \/ CleanRights \/ CleanType({"chat"}) \/ CleanType({"pm"})
           \/ UpdateCache \/ SwitchCache \/ Tick
    PROVE  RightsInv'
  <1> USE DEF RightsInv, RightsTypeOK
  <1>1. CASE \E n \in PenNicks : OrderFails(n)
    <2>1. CacheHeld'
      BY <1>1, UnseenHeld DEF OrderFails, Noted
    <2> QED
      BY <1>1, <2>1, RightsInvRowsGo DEF OrderFails, Noted, Unseen
  <1>2. CASE CleanRights
    <2>1. CacheHeld' /\ \A n \in PenNicks : row'[n] = NoRow
      BY <1>2 DEF CleanRights, CacheHeld
    <2> QED
      BY <1>2, <2>1, RightsInvRowsGo DEF CleanRights, Unseen
  <1>3. CASE CleanType({"chat"}) \/ CleanType({"pm"})
    <2>1. PICK types : CleanType(types)
      BY <1>3
    <2>2. \A n \in PenNicks : row'[n] \in {row[n], NoRow}
      BY <2>1 DEF CleanType
    <2>3. CacheHeld'
      BY <2>1, <2>2, UnseenHeld DEF CleanType
    <2>4. row' \in [PenNicks -> [PenFields -> Nat] \cup {NoRow}]
      BY <2>1, <2>2 DEF CleanType
    <2> QED
      BY <2>1, <2>2, <2>3, <2>4, RightsInvRowsGo DEF CleanType, Unseen
  <1>4. CASE UpdateCache
    <2>1. CacheHeld'
      BY <1>4, UnseenHeld DEF UpdateCache
    <2> QED
      BY <1>4, <2>1, RightsInvRowsGo DEF UpdateCache, Unseen, Stored
  <1>5. CASE SwitchCache
    <2>1. CacheHeld'
      BY <1>5 DEF SwitchCache, CacheHeld, Stored
    <2> QED
      BY <1>5, <2>1, RightsInvRowsGo DEF SwitchCache, Stored
  <1>6. CASE Tick
    <2>1. CacheHeld'
      BY <1>6 DEF Tick, CacheHeld
    <2> QED
      BY <1>6, <2>1, RightsInvRowsGo DEF Tick
  <1> QED
    BY <1>1, <1>2, <1>3, <1>4, <1>5, <1>6

LEMMA RightsInvRestart ==
    ASSUME RightsInv, RestartHub
    PROVE  RightsInv'
  <1>1. \A n \in PenNicks : row'[n] \in {row[n], NoRow} /\ ~Online(n)'
    BY DEF RestartHub, CleanedUp, Online
  <1>2. row' \in [PenNicks -> [PenFields -> Nat] \cup {NoRow}]
    BY <1>1 DEF RestartHub, CleanedUp, RightsInv, RightsTypeOK
  <1>3. CacheHeld'
    BY DEF RestartHub, CacheHeld, Rows
  <1> QED
    BY <1>1, <1>2, <1>3 DEF RestartHub, Rows, RightsInv, RightsTypeOK

LEMMA RightsInvNext == RightsInv /\ [RightsNext]_rightsVars => RightsInv'
  <1> SUFFICES ASSUME RightsInv, [RightsNext]_rightsVars PROVE RightsInv'
    OBVIOUS
  <1>1. CASE UNCHANGED rightsVars
    BY <1>1 DEF rightsVars, RightsInv, RightsTypeOK, CacheHeld, FieldHeld, InForce, Online
  <1>2. CASE \E n \in PenNicks, fs \in Groups, p \in Periods : Order(n, fs, p)
    BY <1>2, RightsInvOrder
  <1>3. CASE \E n \in PenNicks, fs \in Groups : Lift(n, fs)
    BY <1>3, RightsInvLift
  <1> QED
    BY <1>1, <1>2, <1>3, RightsInvEnter, RightsInvLeave, RightsInvShare, RightsInvHub,
       RightsInvRestart DEF RightsNext

\* RightsInv holds of every reachable state.
THEOREM RightsInvariant == RightsSpec => []RightsInv
  BY RightsInvInit, RightsInvNext, PTL DEF RightsSpec

\* The user online is held to what the table has in force for the nick,
\* however orders, logins, share changes, cache reloads and restarts follow
\* on one another (cdcconsole.cpp: cfGag; cpenaltylist.cpp; cuser.cpp).
THEOREM PenaltyHoldsAlways == RightsSpec => []PenaltyHolds
  <1>1. RightsInv => PenaltyHolds
    <2> SUFFICES ASSUME RightsInv, NEW n \in PenNicks, NEW f \in PenFields, Online(n),
                        n \notin Pingers, InForce(n, f), ~(rights[n][f] > clock)
                 PROVE  (f \in UseFields /\ rights[n][f] = 0) \/ <<n, f>> \in shorter \/ n \in missed
      BY DEF PenaltyHolds
    <2>1. rights[n][f] \in Nat /\ row[n][f] \in Nat /\ clock \in Nat
      BY DEF RightsInv, RightsTypeOK, Online, InForce
    <2> QED
      BY <2>1 DEF RightsInv, FieldHeld, InForce
  <1> QED
    BY <1>1, RightsInvariant, PTL

-----------------------------------------------------------------------------
\* A restriction or right in force stays in the table, for as long or longer,
\* until it is lifted by name or the list is cleaned (cpenaltylist.cpp:
\* AddPenalty, RemPenalty, Cleanup).
THEOREM InForceKeptAlways == RightsSpec => InForceKept
  <1> DEFINE Kept ==
        \A n \in PenNicks : \A f \in PenFields :
          InForce(n, f) => \/ row'[n] # NoRow /\ row'[n][f] >= row[n][f]
                           \/ Ends(n, f)
  <1>1. RightsInv /\ [RightsNext]_rightsVars => [Kept]_rightsVars
    <2> SUFFICES ASSUME RightsInv, RightsNext, NEW n \in PenNicks, NEW f \in PenFields,
                        InForce(n, f), ~Ends(n, f)
                 PROVE  row'[n] # NoRow /\ row'[n][f] >= row[n][f]
      OBVIOUS
    <2>1. row[n] # NoRow /\ row[n][f] \in Nat /\ row[n][f] > clock /\ clock \in Nat
      BY DEF InForce, RightsInv, RightsTypeOK
    <2>2. CASE UNCHANGED row
      BY <2>1, <2>2
    <2>3. CASE \E m \in PenNicks, fs \in Groups, p \in Periods : Order(m, fs, p)
      BY <2>3, RightsInvOrder
    <2>4. CASE \E m \in PenNicks, fs \in Groups : Lift(m, fs)
      <3>1. PICK m \in PenNicks, fs \in Groups : Lift(m, fs)
        BY <2>4
      <3>2. m # n \/ (f \notin fs /\ n \notin gap)
        BY <3>1 DEF Ends
      <3> QED
        BY <3>1, <3>2, RightsInvLift
    <2>5. CASE RestartHub
      <3>1. ~(row[n][f] < clock)
        BY <2>1
      <3>2. row'[n] = row[n]
        BY <2>5, <3>1 DEF RestartHub, CleanedUp
      <3> QED
        BY <2>1, <3>2
    <2>6. CASE CleanRights \/ CleanType({"chat"}) \/ CleanType({"pm"})
      BY <2>6 DEF Ends
    <2> QED
      BY <2>2, <2>3, <2>4, <2>5, <2>6
      DEF RightsNext, EnterHub, LeaveHub, ShareDrops, OrderFails, UpdateCache, SwitchCache, Tick
  <1> QED
    BY <1>1, RightsInvariant, PTL DEF RightsSpec, InForceKept

-----------------------------------------------------------------------------
(* Bans: the invariant that is inductive *)

\* who has been asked at $ValidateNick and is on the way into the list: as
\* for those who are in, but the share is still to be asked for
AskedHeld ==
    \A n \in Visitors \ Bypass : \A k \in BanKeys :
        place[n] = "asked" /\ k[1] # "share" /\ Concerns(k, n) /\ Running(k) => k \in late[n]

BansInv == BansTypeOK /\ time >= 1 /\ BannedStayOut /\ AskedHeld

LEMMA BansInvInit == BansInit => BansInv
  BY BansAssumption DEF BansInit, BansInv, BansTypeOK, BannedStayOut, AskedHeld, Listed, Places, NoBan

\* A ban that runs now ran before, when no row was written.
LEMMA BansInvQuiet ==
    ASSUME BansInv, UNCHANGED <<place, late>>, time' \in Nat, time' >= time,
           ends' \in [BanKeys -> Nat \cup {NoBan}],
           \A k \in BanKeys : ends'[k] \in {ends[k], NoBan},
           tempNick' \in [Visitors -> Nat \cup {NoBan}],
           tempAddr' \in [Addrs -> Nat \cup {NoBan}]
    PROVE  BansInv'
  <1>1. \A k \in BanKeys : Running(k)' => Running(k)
    BY DEF BansInv, BansTypeOK, Running, NoBan
  <1> QED
    BY <1>1 DEF BansInv, BansTypeOK, BannedStayOut, AskedHeld, Listed

\* A ban is given and the users of `gone` are closed: whom it concerns and
\* who stays is known to have been past the check.
LEMMA BansInvAdd ==
    ASSUME BansInv, NEW k \in BanKeys, NEW end \in Nat, NEW gone \in SUBSET Listed,
           AddBan(k, end, gone), Closed(gone), UNCHANGED <<time, tempNick, tempAddr>>,
           \A n \in Listed \ gone : Concerns(k, n) => Spared(k, n)
    PROVE  BansInv'
  <1>1. ends' = [ends EXCEPT ![k] = AddedEnd(ends[k], end)]
    BY DEF AddBan
  <1>2. AddedEnd(ends[k], end) \in Nat \cup {NoBan}
    BY DEF AddedEnd, BansInv, BansTypeOK
  <1>3. \A n \in Visitors : place'[n] = IF n \in gone THEN "leaving" ELSE place[n]
    BY DEF Closed
  <1>4. late' = [n \in Visitors |->
                  IF n \in Unmoved(k, gone) /\ Spared(k, n) THEN late[n] \cup {k} ELSE late[n]]
    BY DEF AddBan
  <1>5. \A j \in BanKeys \ {k} : ends'[j] = ends[j] /\ (Running(j)' => Running(j))
    BY <1>1 DEF Running, BansInv, BansTypeOK
  <1>6. BansTypeOK'
    <2>1. place' \in [Visitors -> Places]
      BY DEF Closed, BansInv, BansTypeOK, Places
    <2>2. late' \in [Visitors -> SUBSET BanKeys]
      BY <1>4 DEF BansInv, BansTypeOK
    <2> QED
      BY <1>1, <1>2, <2>1, <2>2 DEF BansInv, BansTypeOK
  <1>7. ASSUME NEW n \in Visitors, place'[n] \in {"asked", "in"}, Concerns(k, n)
        PROVE  k \in late'[n]
    <2>1. n \notin gone /\ place[n] \in {"asked", "in"}
      BY <1>3, <1>7
    <2>2. Spared(k, n)
      <3>1. CASE place[n] = "asked"
        BY <3>1 DEF Spared
      <3>2. CASE place[n] = "in"
        BY <1>7, <2>1, <3>2 DEF Listed
      <3> QED
        BY <2>1, <3>1, <3>2
    <2> QED
      BY <1>4, <1>7, <2>1, <2>2 DEF Unmoved
  <1>8. \A n \in Visitors : late[n] \subseteq late'[n]
    BY <1>4
  <1>9. BannedStayOut'
    <2> SUFFICES ASSUME NEW n \in Visitors, place'[n] = "in", NEW j \in BanKeys,
                        Asked(n, j), Concerns(j, n), Running(j)'
                 PROVE  j \in late'[n]
      BY DEF BannedStayOut, Listed
    <2>1. CASE j = k
      BY <1>7, <2>1
    <2>2. CASE j # k
      <3>1. place[n] = "in" /\ Running(j)
        BY <1>3, <1>5, <2>2
      <3> QED
        BY <1>8, <3>1 DEF BansInv, BannedStayOut, Listed
    <2> QED
      BY <2>1, <2>2
  <1>10. AskedHeld'
    <2> SUFFICES ASSUME NEW n \in Visitors \ Bypass, place'[n] = "asked", NEW j \in BanKeys,
                        j[1] # "share", Concerns(j, n), Running(j)'
                 PROVE  j \in late'[n]
      BY DEF AskedHeld
    <2>1. CASE j = k
      BY <1>7, <2>1
    <2>2. CASE j # k
      <3>1. place[n] = "asked" /\ Running(j)
        BY <1>3, <1>5, <2>2
      <3> QED
        BY <1>8, <3>1 DEF BansInv, AskedHeld
    <2> QED
      BY <2>1, <2>2
  <1> QED
    BY <1>6, <1>9, <1>10 DEF BansInv

LEMMA BansInvGiven ==
    ASSUME BansInv,
           \/ \E k \in BanKeys, length \in Lengths : BanCommand(k, length)
           \/ \E n \in Visitors, length \in Lengths : KickBan(n, length) \/ ProtoBan(n, length)
    PROVE  BansInv'
  <1>1. \A length \in Lengths : Until(length) \in Nat /\ time + length \in Nat
    BY BansAssumption DEF Until, BansInv, BansTypeOK
  <1>2. ASSUME NEW k \in BanKeys, NEW length \in Lengths, BanCommand(k, length)
        PROVE  BansInv'
    <2>1. \A n \in Listed \ Drops(k) : Concerns(k, n) => Spared(k, n)
      <3> SUFFICES ASSUME NEW n \in Listed, n \notin Drops(k), Concerns(k, n)
                   PROVE  k[1] \in {"host", "prefix", "share"} \/ (k[1] = "nickip" /\ k[2] # n)
        BY DEF Spared
      <3>1. k[1] \in {"nick", "ip", "nickip", "range", "host", "prefix", "share"}
        BY DEF BanKeys, NickKeys, IpKeys, BothKeys, OtherKeys
      <3>2. k[1] = "nick" => k[2] = n
        BY DEF Concerns
      <3> QED
        BY <3>1, <3>2 DEF Drops
    <2>2. Drops(k) \in SUBSET Listed
      BY DEF Drops
    <2> QED
      BY <1>1, <1>2, <2>1, <2>2, BansInvAdd DEF BanCommand
  <1>3. ASSUME NEW m \in Visitors, NEW length \in Lengths,
               KickBan(m, length) \/ ProtoBan(m, length)
        PROVE  BansInv'
    <2> DEFINE k == <<"nickip", m, AddrOf[m]>>
    <2>1. /\ k \in BanKeys /\ {m} \in SUBSET Listed /\ Closed({m})
          /\ UNCHANGED <<time, tempNick, tempAddr>>
          /\ AddBan(k, Until(length), {m}) \/ AddBan(k, time + length, {m})
      BY <1>3 DEF KickBan, ProtoBan
    <2>2. \A n \in Listed \ {m} : Concerns(k, n) => Spared(k, n)
      BY DEF Spared
    <2> HIDE DEF k
    <2> QED
      BY <1>1, <2>1, <2>2, BansInvAdd
  <1> QED
    BY <1>2, <1>3

LEMMA BansInvMoves ==
    ASSUME BansInv, NEW n \in Visitors,
           Connect(n) \/ ValidateUser(n) \/ Login(n) \/ Depart(n)
    PROVE  BansInv'
  <1> USE DEF BansInv, BansTypeOK
  <1>0. \A j \in BanKeys : j[1] \in AtNick \cup AtShare
    BY DEF BanKeys, NickKeys, IpKeys, BothKeys, OtherKeys, AtNick, AtShare
  <1>2. CASE Connect(n)
    <2>1. place' \in [Visitors -> Places] /\ \A m \in Visitors : place'[m] \in {place[m], "open"}
      BY <1>2 DEF Connect, Places
    <2>2. tempAddr' \in [Addrs -> Nat \cup {NoBan}]
      BY <1>2 DEF Connect
    <2>3. UNCHANGED <<time, ends, tempNick, late>>
      BY <1>2 DEF Connect
    <2>4. \A m \in Visitors : place'[m] \in {"in", "asked"} => place'[m] = place[m]
      BY <2>1
    <2> QED
      BY <2>1, <2>2, <2>3, <2>4 DEF BannedStayOut, AskedHeld, Listed, Running
  <1>3. CASE ValidateUser(n)
    <2>1. /\ UNCHANGED <<time, ends, tempAddr>>
          /\ late' = [late EXCEPT ![n] = {}]
          /\ place' \in [Visitors -> Places]
          /\ tempNick' \in [Visitors -> Nat \cup {NoBan}]
      BY <1>3 DEF ValidateUser, Places
    <2>2. \A m \in Visitors \ {n} : place'[m] = place[m] /\ late'[m] = late[m]
      BY <1>3 DEF ValidateUser
    <2>3. place'[n] \in {"out", "asked"}
      BY <1>3 DEF ValidateUser
    <2>4. n \notin Bypass /\ place'[n] = "asked" => ~TestBan(n, AtNick)
      BY <1>3 DEF ValidateUser
    <2>5. late' \in [Visitors -> SUBSET BanKeys]
      BY <2>1
    <2>6. BannedStayOut'
      BY <2>1, <2>2, <2>3 DEF BannedStayOut, Listed, Running
    <2>7. AskedHeld'
      <3> SUFFICES ASSUME NEW m \in Visitors \ Bypass, NEW k \in BanKeys, place'[m] = "asked",
                          k[1] # "share", Concerns(k, m), Running(k)'
                   PROVE  k \in late'[m]
        BY DEF AskedHeld
      <3>1. Running(k)
        BY <2>1 DEF Running
      <3>2. k[1] \in AtNick
        BY <1>0 DEF AtShare
      <3>3. m # n
        BY <2>4, <3>1, <3>2 DEF TestBan
      <3> QED
        BY <2>2, <3>1, <3>3 DEF AskedHeld
    <2> QED
      BY <2>1, <2>5, <2>6, <2>7
  <1>4. CASE Login(n)
    <2>1. /\ UNCHANGED <<time, ends, tempAddr>> /\ place[n] = "asked"
          /\ late' = [late EXCEPT ![n] = {k \in late[n] : k[1] # "share"}]
          /\ place' \in [Visitors -> Places]
      BY <1>4 DEF Login, Places
    <2>2. \A m \in Visitors \ {n} : place'[m] = place[m] /\ late'[m] = late[m]
      BY <1>4 DEF Login
    <2>3. place'[n] \in {"leaving", "in"} /\ late'[n] = {k \in late[n] : k[1] # "share"}
      BY <1>4 DEF Login
    <2>4. AskedShare(n) /\ place'[n] = "in" => ~TestBan(n, AtShare)
      BY <1>4 DEF Login
    <2>5. late' \in [Visitors -> SUBSET BanKeys]
      BY <2>1
    <2>6. tempNick' \in [Visitors -> Nat \cup {NoBan}]
      <3>1. time + IntLogin \in Nat
        BY BansAssumption
      <3> QED
        BY <1>4, <3>1 DEF Login
    <2>7. AskedHeld'
      BY <2>1, <2>2, <2>3 DEF AskedHeld, Running
    <2>8. BannedStayOut'
      <3> SUFFICES ASSUME NEW m \in Visitors, NEW k \in BanKeys, place'[m] = "in",
                          Asked(m, k), Concerns(k, m), Running(k)'
                   PROVE  k \in late'[m]
        BY DEF BannedStayOut, Listed
      <3>1. Running(k)
        BY <2>1 DEF Running
      <3>2. CASE m # n
        BY <2>2, <3>1, <3>2 DEF BannedStayOut, Listed
      <3>3. CASE m = n /\ k[1] # "share"
        <4>1. n \notin Bypass
          BY <3>3 DEF Asked, AtShare
        <4> QED
          BY <2>1, <2>3, <3>1, <3>3, <4>1 DEF AskedHeld
      <3>4. CASE m = n /\ k[1] = "share"
        <4>1. AskedShare(n)
          BY <3>4 DEF Asked, AtShare
        <4>2. TestBan(n, AtShare)
          BY <3>1, <3>4 DEF TestBan, AtShare
        <4> QED
          BY <2>4, <3>4, <4>1, <4>2
      <3> QED
        BY <3>2, <3>3, <3>4
    <2> QED
      BY <2>1, <2>5, <2>6, <2>7, <2>8
  <1>5. CASE Depart(n)
    <2>1. /\ UNCHANGED <<time, ends, tempNick, tempAddr>>
          /\ place' \in [Visitors -> Places] /\ late' \in [Visitors -> SUBSET BanKeys]
      BY <1>5 DEF Depart, Places
    <2>2. /\ place'[n] = "out"
          /\ \A m \in Visitors \ {n} : place'[m] = place[m] /\ late'[m] = late[m]
      BY <1>5 DEF Depart
    <2> QED
      BY <2>1, <2>2 DEF BannedStayOut, AskedHeld, Listed, Running
  <1> QED
    BY <1>2, <1>3, <1>4, <1>5

\* the steps that take bans back or let the time pass
Lapse ==
    \/ \E n \in Visitors : UnbanNick(n) \/ DelTempNick(n)
    \/ \E a \in Addrs : UnbanAddr(a) \/ DelTempAddr(a)
    \/ \E k \in BanKeys : UnbanOther(k)
    \/ CleanBans \/ CleanTempBans \/ CleanAllBans \/ SlowTimer \/ Second
TempGiven ==
    \/ \E n \in Visitors, length \in TempLengths : TempBanNick(n, length)
    \/ \E a \in Addrs, length \in TempLengths : TempBanAddr(a, length)

LEMMA BansInvLapse ==
    ASSUME BansInv, Lapse \/ TempGiven
    PROVE  BansInv'
  <1>1. time \in Nat /\ ends \in [BanKeys -> Nat \cup {NoBan}]
        /\ tempNick \in [Visitors -> Nat \cup {NoBan}] /\ tempAddr \in [Addrs -> Nat \cup {NoBan}]
    BY DEF BansInv, BansTypeOK
  <1>2. \A ks : Erase(ks) => BansInv'
    BY <1>1, BansInvQuiet DEF Erase
  <1>3. \A before : RemoveOld(before) => BansInv'
    BY <1>1, BansInvQuiet DEF RemoveOld
  <1>4. CASE CleanAllBans
    BY <1>1, <1>4, BansInvQuiet DEF CleanAllBans
  <1>5. CASE Second
    BY <1>1, <1>5, BansInvQuiet DEF Second
  <1>6. CASE TempGiven
    BY <1>1, <1>6, BansAssumption, BansInvQuiet DEF TempGiven, TempBanNick, TempBanAddr
  <1>7. CASE (\E n \in Visitors : DelTempNick(n)) \/ (\E a \in Addrs : DelTempAddr(a))
    BY <1>1, <1>7, BansInvQuiet DEF DelTempNick, DelTempAddr
  <1> QED
    BY <1>2, <1>3, <1>4, <1>5, <1>6, <1>7
    DEF Lapse, UnbanNick, UnbanAddr, UnbanOther, CleanBans, CleanTempBans, SlowTimer

LEMMA BansInvRestart ==
    ASSUME BansInv, RestartBans
    PROVE  BansInv'
  BY DEF RestartBans, BansInv, BansTypeOK, BannedStayOut, AskedHeld, Listed, Places, NoBan

LEMMA BansInvNext == BansInv /\ [BansNext]_bansVars => BansInv'
  <1> SUFFICES ASSUME BansInv, [BansNext]_bansVars PROVE BansInv'
    OBVIOUS
  <1>1. CASE UNCHANGED bansVars
    BY <1>1 DEF bansVars, BansInv, BansTypeOK, BannedStayOut, AskedHeld, Listed, Running
  <1> QED
    BY <1>1, BansInvGiven, BansInvMoves, BansInvLapse, BansInvRestart
    DEF BansNext, Lapse, TempGiven

\* BansInv holds of every reachable state.
THEOREM BansInvariant == BansSpec => []BansInv
  BY BansInvInit, BansInvNext, PTL DEF BansSpec

\* Nobody is in the user list against a running ban, but who was past the
\* check when it was given and whom no command drops (cbanlist.cpp: TestBan;
\* cserverdc.cpp: ValidateUser, OnNewConn; cdcconsole.cpp: CmdBan).
THEOREM BannedStayOutAlways == BansSpec => []BannedStayOut
  BY BansInvariant, PTL DEF BansInv

-----------------------------------------------------------------------------
\* giving a ban again keeps the later end, or makes it permanent
LEMMA GivenKept ==
    ASSUME BansInv, NEW k \in BanKeys, NEW end \in Nat, NEW gone, AddBan(k, end, gone),
           NEW j \in BanKeys, ends[j] # NoBan
    PROVE  ends'[j] >= ends[j] \/ ends'[j] = 0
  <1>1. ends' = [ends EXCEPT ![k] = AddedEnd(ends[k], end)]
    BY DEF AddBan
  <1>2. ends[j] \in Nat /\ ends[k] \in Nat \cup {NoBan}
    BY DEF BansInv, BansTypeOK
  <1>3. CASE j = k
    BY <1>1, <1>2, <1>3 DEF AddedEnd, BansInv, BansTypeOK
  <1>4. CASE j # k
    BY <1>1, <1>2, <1>4 DEF BansInv, BansTypeOK
  <1> QED
    BY <1>3, <1>4

LEMMA RowsKept ==
    ASSUME BansInv, BansNext, NEW k \in BanKeys
    PROVE  RowKept(k)
  <1> SUFFICES ASSUME ends[k] # NoBan, Running(k), ~CleanBans, ~CleanAllBans, ~UnbanOther(k),
                      ~(k[1] \in {"nick", "nickip"} /\ UnbanNick(k[2])),
                      ~(k[1] = "ip" /\ UnbanAddr(k[2])),
                      ~(k[1] = "nickip" /\ UnbanAddr(k[3]))
               PROVE  ends'[k] >= ends[k] \/ ends'[k] = 0
    BY DEF RowKept
  <1>1. ends[k] \in Nat
    BY DEF BansInv, BansTypeOK
  <1>2. CASE UNCHANGED ends
    BY <1>1, <1>2
  <1>3. CASE \/ \E j \in BanKeys, length \in Lengths : BanCommand(j, length)
             \/ \E n \in Visitors, length \in Lengths : KickBan(n, length) \/ ProtoBan(n, length)
    <2>1. PICK j \in BanKeys, end \in Nat : \E gone : AddBan(j, end, gone)
      <3>1. \A length \in Lengths : Until(length) \in Nat /\ time + length \in Nat
        BY BansAssumption DEF Until, BansInv, BansTypeOK
      <3> QED
        BY <1>3, <3>1 DEF BanCommand, KickBan, ProtoBan
    <2> QED
      BY <2>1, GivenKept
  <1>4. \A ks : Erase(ks) /\ k \notin ks => ends'[k] = ends[k]
    BY DEF Erase
  <1>5. CASE \E n \in Visitors : UnbanNick(n)
    <2>1. PICK n \in Visitors : UnbanNick(n)
      BY <1>5
    <2>2. k \notin RowsOfNick(n)
      BY <2>1 DEF RowsOfNick
    <2> QED
      BY <1>1, <1>4, <2>1, <2>2 DEF UnbanNick
  <1>6. CASE \E a \in Addrs : UnbanAddr(a)
    <2>1. PICK a \in Addrs : UnbanAddr(a)
      BY <1>6
    <2>2. k # <<"ip", a>>
      BY <2>1
    <2>3. k \notin RowsOfAddr(a)
      BY <2>1, <2>2 DEF RowsOfAddr
    <2> QED
      BY <1>1, <1>4, <2>1, <2>3 DEF UnbanAddr
  <1>7. CASE \E j \in BanKeys : UnbanOther(j)
    BY <1>1, <1>4, <1>7 DEF UnbanOther
  <1>8. CASE RestartBans
    <2>1. ~(ends[k] > 0 /\ ends[k] < time - KeepRows)
      BY <1>1, BansAssumption DEF Running, BansInv, BansTypeOK
    <2> QED
      BY <1>1, <1>8, <2>1 DEF RestartBans
  <1> QED
    BY <1>2, <1>3, <1>5, <1>6, <1>7, <1>8
    DEF BansNext, Connect, ValidateUser, Login, Depart, DelTempNick, DelTempAddr, TempBanNick,
        TempBanAddr, CleanTempBans, SlowTimer, RemoveOld, Second

LEMMA TempsKept ==
    ASSUME BansInv, BansNext
    PROVE  TempKept
  <1> SUFFICES ASSUME ~AllTempGone
               PROVE  /\ \A n \in Visitors :
                           tempNick[n] > time => tempNick'[n] # NoBan \/ DelTempNick(n)
                      /\ \A a \in Addrs :
                           tempAddr[a] > time => tempAddr'[a] # NoBan \/ DelTempAddr(a)
    BY DEF TempKept
  <1>1. /\ time \in Nat /\ time >= 1
        /\ tempNick \in [Visitors -> Nat \cup {NoBan}] /\ tempAddr \in [Addrs -> Nat \cup {NoBan}]
    BY DEF BansInv, BansTypeOK
  <1>2. \A length \in Lengths \cup TempLengths : time + length \in Nat
    BY <1>1, BansAssumption
  <1>3. time + IntLogin \in Nat
    BY <1>1, BansAssumption
  <1>4. CASE UNCHANGED <<tempNick, tempAddr>>
    BY <1>1, <1>4 DEF NoBan
  <1>5. CASE SlowTimer
    BY <1>1, <1>5 DEF SlowTimer, RemoveOld, Old, NoBan
  <1>6. CASE \E n \in Visitors : Connect(n)
    BY <1>1, <1>6, BansAssumption DEF Connect, NoBan
  <1>7. CASE \E n \in Visitors : ValidateUser(n)
    BY <1>1, <1>7 DEF ValidateUser, NoBan
  <1>8. CASE \E n \in Visitors : Login(n)
    BY <1>1, <1>3, <1>8 DEF Login, NoBan
  <1>9. CASE \E n \in Visitors : DelTempNick(n)
    <2>1. PICK m \in Visitors : DelTempNick(m)
      BY <1>9
    <2>2. tempAddr' = tempAddr /\ \A n \in Visitors \ {m} : tempNick'[n] = tempNick[n]
      BY <1>1, <2>1 DEF DelTempNick
    <2> QED
      BY <1>1, <2>1, <2>2 DEF NoBan
  <1>10. CASE \E a \in Addrs : DelTempAddr(a)
    <2>1. PICK b \in Addrs : DelTempAddr(b)
      BY <1>10
    <2>2. tempNick' = tempNick /\ \A a \in Addrs \ {b} : tempAddr'[a] = tempAddr[a]
      BY <1>1, <2>1 DEF DelTempAddr
    <2> QED
      BY <1>1, <2>1, <2>2 DEF NoBan
  <1>11. CASE TempGiven
    BY <1>1, <1>2, <1>11 DEF TempGiven, TempBanNick, TempBanAddr, NoBan
  <1> QED
    BY <1>4, <1>5, <1>6, <1>7, <1>8, <1>9, <1>10, <1>11
    DEF BansNext, TempGiven, AllTempGone, Depart, UnbanNick, UnbanAddr, UnbanOther, CleanBans,
        Erase, BanCommand, KickBan, ProtoBan, Second

\* A running ban is taken back by an unban or a clean-up only, and neither the
\* lookup of temporary bans nor the timer's sweep removes one whose time is
\* not over (cbanlist.cpp: AddBan, Cleanup, RemoveOldShortTempBans).
THEOREM BansKeptAlways == BansSpec => BansKept
  <1>1. BansInv /\ [BansNext]_bansVars => [TempKept /\ \A k \in BanKeys : RowKept(k)]_bansVars
    BY RowsKept, TempsKept
  <1> QED
    BY <1>1, BansInvariant, PTL DEF BansSpec, BansKept

-----------------------------------------------------------------------------
(* Settings: the invariant that is inductive *)

NickOrNone == Nicks2 \cup {""}
Robots2 == {"hub", "chat"}

\* rows and values of the two nicks are nicks
SettingsTypes ==
    /\ conf = [v \in Items |-> conf[v]]
    /\ stored = [v \in Items \cup Foreign |-> stored[v]]
    /\ robotOf \in [Robots2 -> [nick : NickOrNone, key : NickOrNone]]
    /\ at \in [Nicks2 -> {NoOneAt, "user", "hub", "chat"}]
    /\ conf["hub_security"] \in Nicks2 /\ stored["hub_security"] \in Nicks2 \cup {Absent}
    /\ conf["opchat_name"] \in NickOrNone /\ stored["opchat_name"] \in NickOrNone \cup {Absent}

\* a hub that does not run has its defaults, and nobody in the list
Stopped2 ==
    ~running => /\ conf = [v \in Items |-> DefaultOf[v]]
                /\ robotOf["hub"] = Gone /\ robotOf["chat"] = Gone /\ at = Empty

ValuesKept ==
    running => \A v \in Items \ unsaved2 : conf[v] = stored[v] \/ conf[v] = Read(v, stored[v])

\* what a start would read
InEffect(v) == IF stored[v] = Absent THEN DefaultOf[v] ELSE stored[v]
PortsApart ==
    failed \cap Ports = {} =>
        /\ InEffect("listen_port") \notin InEffect("extra_listen_ports")
        /\ running => \A p \in Ports : conf[p] = InEffect(p)

\* each robot is at its place or nowhere; the hub's only if it was pushed out
PlacesRight ==
    /\ \A who \in Robots2 : \A n \in Nicks2 : at[n] = who => n = robotOf[who].key
    /\ running => /\ robotOf["hub"].key \in Nicks2
                  /\ robotOf["chat"] = Gone \/ robotOf["chat"].key \in Nicks2
                  /\ at[robotOf["hub"].key] = "hub" \/ pushedOut

ClosedSets == {S \in SUBSET NickOrNone : \A m \in S : Clean[m] \in S}
NickFollowed ==
    running /\ "hub_security" \notin failed =>
        \A S \in ClosedSets : robotOf["hub"].nick \in S =>
            /\ conf["hub_security"] \in S
            /\ stored["hub_security"] = Absent \/ Clean[stored["hub_security"]] \in S

SettingsInv == SettingsTypes /\ Stopped2 /\ ValuesKept /\ PortsApart /\ PlacesRight /\ NickFollowed

LEMMA SettingsInvGives == SettingsInv => SettingsRight
  <1> SUFFICES ASSUME SettingsInv PROVE SettingsRight
    OBVIOUS
  <1>1. ASSUME running, NEW v \in Items \ unsaved2 PROVE GetConfig(v) \in {GetVar(v), Read(v, GetVar(v))}
    BY <1>1 DEF SettingsInv, ValuesKept, GetConfig, GetVar
  <1>2. ASSUME running, conf["listen_port"] \in conf["extra_listen_ports"] PROVE failed \cap Ports # {}
    BY <1>2 DEF SettingsInv, PortsApart, Ports
  <1>3. SettingsKept
    BY <1>1, <1>2 DEF SettingsKept
  <1>4. ASSUME running, NEW who \in Robots2 PROVE {n \in Nicks2 : at[n] = who} \subseteq {robotOf[who].key}
    BY <1>4 DEF SettingsInv, PlacesRight
  <1>5. ASSUME running, {n \in Nicks2 : at[n] = "hub"} = {} PROVE pushedOut
    BY <1>5 DEF SettingsInv, PlacesRight
  <1>6. ASSUME running, "hub_security" \notin failed
        PROVE  conf["hub_security"] \in CleanedFrom(robotOf["hub"].nick)
    BY <1>6 DEF SettingsInv, SettingsTypes, NickFollowed, ClosedSets, CleanedFrom, NickOrNone
  <1>7. RobotsOfHub
    BY <1>4, <1>5, <1>6 DEF RobotsOfHub, Robots2
  <1> QED
    BY <1>3, <1>7 DEF SettingsRight

LEMMA SettingsInvInit == SettingsInit => SettingsInv
  <1> SUFFICES ASSUME SettingsInit PROVE SettingsInv
    OBVIOUS
  <1>1. robotOf \in [Robots2 -> [nick : NickOrNone, key : NickOrNone]] /\ robotOf["hub"] = Gone /\ robotOf["chat"] = Gone
    BY DEF SettingsInit, Robots2, NickOrNone, Gone
  <1>2. at \in [Nicks2 -> {NoOneAt, "user", "hub", "chat"}] /\ \A n \in Nicks2 : at[n] = "none"
    BY DEF SettingsInit, Empty, NoOneAt
  <1>3. conf = [v \in Items |-> conf[v]] /\ \A v \in Items : conf[v] = DefaultOf[v]
    BY DEF SettingsInit
  <1>4. stored = [v \in Items \cup Foreign |-> stored[v]] /\ \A v \in Items : stored[v] = Absent
    BY DEF SettingsInit
  <1>5. SettingsTypes
    BY <1>1, <1>2, <1>3, <1>4, SettingsAssumption DEF SettingsTypes, NickOrNone, Special
  <1>6. PortsApart
    BY <1>4, SettingsAssumption DEF SettingsInit, PortsApart, InEffect, Ports
  <1>7. PlacesRight
    BY <1>2 DEF SettingsInit, PlacesRight, Robots2
  <1> QED
    BY <1>1, <1>2, <1>5, <1>6, <1>7 DEF SettingsInit, SettingsInv, Stopped2, ValuesKept, NickFollowed

-----------------------------------------------------------------------------
\* What a value becomes.
LEMMA ValuesRead ==
    /\ \A v \in Special : \A x : Kept2(v, x) = Clean[x] /\ Read(v, x) = Clean[x]
    /\ \A p \in Ports : \A x : Kept2(p, x) = x /\ Read(p, x) = x
    /\ Special \subseteq Items /\ Ports \subseteq Items /\ Special \cap Ports = {}
  BY SettingsAssumption DEF Kept2, Read, Special, Ports

\* A nick that is cleaned is a nick.
LEMMA CleanedNicks ==
    /\ \A n \in Nicks2 : Clean[n] \in Nicks2
    /\ \A n \in NickOrNone : Clean[n] \in NickOrNone
    /\ \A v \in Special : \A n \in Offered[v] : Clean[n] \in NickOrNone
  BY SettingsAssumption DEF NickOrNone, Special

\* A write leaves the value, no row, or the old row, and no other row changes.
LEMMA WrittenIs ==
    ASSUME NEW v \in Items \cup Foreign, NEW value, NEW outcome \in Outcomes,
           stored = [w \in Items \cup Foreign |-> stored[w]],
           stored' = Written(stored, v, value, outcome)
    PROVE  /\ stored' = [w \in Items \cup Foreign |-> stored'[w]]
           /\ \A w \in (Items \cup Foreign) \ {v} : stored'[w] = stored[w]
           /\ stored'[v] \in {value, Absent, stored[v]}
           /\ outcome = "written" => stored'[v] = value
  <1>1. CASE outcome = "written"
    <2>1. stored' = [stored EXCEPT ![v] = value]
      BY <1>1 DEF Written
    <2> QED
      BY <1>1, <2>1
  <1>2. CASE outcome = "deleted only"
    <2>1. stored' = [stored EXCEPT ![v] = Absent]
      BY <1>2 DEF Written
    <2> QED
      BY <1>2, <2>1
  <1>3. CASE outcome = "refused"
    <2>1. stored' = stored
      BY <1>3 DEF Written
    <2> QED
      BY <1>3, <2>1
  <1> QED
    BY <1>1, <1>2, <1>3 DEF Outcomes

RobotTypes ==
    /\ robotOf \in [Robots2 -> [nick : NickOrNone, key : NickOrNone]]
    /\ at \in [Nicks2 -> {NoOneAt, "user", "hub", "chat"}]

\* A robot that is renamed keeps its place or takes it back.
LEMMA RenamedKeeps ==
    ASSUME SettingsInv, running, running', NEW who \in Robots2, robotOf[who].key \in Nicks2,
           NEW new \in NickOrNone, Renamed(who, new)
    PROVE  /\ RobotTypes' /\ PlacesRight'
           /\ robotOf'[who].nick = new
           /\ \A o \in Robots2 \ {who} : robotOf'[o] = robotOf[o]
  <1> DEFINE key == robotOf[who].key
  <1>1. RobotTypes
    BY DEF SettingsInv, SettingsTypes, RobotTypes
  <1>2. robotOf' = [robotOf EXCEPT ![who].nick = new]
    BY DEF Renamed
  <1>a. robotOf[who] = [nick |-> robotOf[who].nick, key |-> key]
    <2>1. robotOf[who] \in [nick : NickOrNone, key : NickOrNone]
      BY <1>1 DEF RobotTypes
    <2> QED
      BY <2>1
  <1>b. [robotOf[who] EXCEPT !.nick = new] = [nick |-> new, key |-> key]
    BY <1>a
  <1>3. robotOf' = [robotOf EXCEPT ![who] = [nick |-> new, key |-> key]]
    BY <1>2, <1>b
  <1>4. key \in Nicks2
    OBVIOUS
  <1>5. at' = AddedAt(RemovedAt(at, key), who, key) /\ pushedOut' = (pushedOut \/ PushesHub(who))
    BY DEF Renamed
  <1>k. key = robotOf[who].key
    OBVIOUS
  <1> HIDE DEF key
  <1>6. at' = [at EXCEPT ![key] = who]
    <2>1. RemovedAt(at, key) = [at EXCEPT ![key] = NoOneAt]
      BY DEF RemovedAt
    <2>2. RemovedAt(at, key)[key] = NoOneAt
      BY <1>1, <1>4, <2>1 DEF RobotTypes
    <2>3. AddedAt(RemovedAt(at, key), who, key) = [RemovedAt(at, key) EXCEPT ![key] = who]
      BY <2>2 DEF AddedAt
    <2> QED
      BY <1>1, <1>4, <1>5, <2>1, <2>3 DEF RobotTypes
  <1>7. [nick |-> new, key |-> key] \in [nick : NickOrNone, key : NickOrNone]
    BY <1>4 DEF NickOrNone
  <1>8. RobotTypes'
    BY <1>1, <1>3, <1>4, <1>6, <1>7 DEF RobotTypes, Robots2
  <1>9. robotOf'[who].key = key /\ robotOf'[who].nick = new /\ \A o \in Robots2 \ {who} : robotOf'[o] = robotOf[o]
    BY <1>1, <1>3 DEF RobotTypes
  <1>10. \A o \in Robots2 : robotOf'[o].key = robotOf[o].key
    BY <1>9, <1>k
  <1>11. at'[key] = who /\ \A n \in Nicks2 \ {key} : at'[n] = at[n]
    BY <1>1, <1>4, <1>6 DEF RobotTypes
  <1>12. \A o \in Robots2 : \A n \in Nicks2 : at'[n] = o => n = robotOf'[o].key
    <2> SUFFICES ASSUME NEW o \in Robots2, NEW n \in Nicks2, at'[n] = o PROVE n = robotOf[o].key
      BY <1>10
    <2>1. CASE n = key
      BY <1>11, <1>k, <2>1
    <2>2. CASE n # key
      BY <1>11, <2>2 DEF SettingsInv, PlacesRight
    <2> QED
      BY <2>1, <2>2
  <1>13. robotOf'["hub"].key \in Nicks2 /\ (robotOf'["chat"] = Gone \/ robotOf'["chat"].key \in Nicks2)
    <2>1. "hub" \in Robots2 /\ "chat" \in Robots2
      BY DEF Robots2
    <2>2. CASE who = "hub"
      BY <1>4, <1>9, <2>1, <2>2 DEF SettingsInv, PlacesRight
    <2>3. CASE who = "chat"
      BY <1>4, <1>9, <2>1, <2>3 DEF SettingsInv, PlacesRight
    <2> QED
      BY <2>2, <2>3 DEF Robots2
  <1>14. at'[robotOf'["hub"].key] = "hub" \/ pushedOut'
    <2>1. CASE who = "hub"
      BY <1>9, <1>11, <2>1
    <2>2. CASE who # "hub"
      <3>1. robotOf'["hub"].key = robotOf["hub"].key /\ robotOf["hub"].key \in Nicks2
        BY <1>10 DEF Robots2, SettingsInv, PlacesRight
      <3>2. CASE at[key] = "hub"
        BY <1>5, <1>k, <2>2, <3>2 DEF PushesHub
      <3>3. CASE at[key] # "hub" /\ at[robotOf["hub"].key] = "hub"
        BY <1>11, <3>1, <3>3
      <3>4. CASE pushedOut
        BY <1>5, <3>4
      <3> QED
        BY <3>2, <3>3, <3>4 DEF SettingsInv, PlacesRight
    <2> QED
      BY <2>1, <2>2
  <1> QED
    BY <1>8, <1>9, <1>12, <1>13, <1>14 DEF PlacesRight

LEMMA CloseRoomKeeps ==
    ASSUME SettingsInv, running, running', CloseRoom
    PROVE  RobotTypes' /\ PlacesRight' /\ robotOf'["hub"] = robotOf["hub"]
  <1> DEFINE key == robotOf["chat"].key
  <1>1. RobotTypes
    BY DEF SettingsInv, SettingsTypes, RobotTypes
  <1>2. robotOf' = [robotOf EXCEPT !["chat"] = Gone]
    BY DEF CloseRoom
  <1>3. Gone \in [nick : NickOrNone, key : NickOrNone]
    BY DEF Gone, NickOrNone
  <1>4. robotOf' \in [Robots2 -> [nick : NickOrNone, key : NickOrNone]] /\ robotOf'["chat"] = Gone /\ robotOf'["hub"] = robotOf["hub"]
    BY <1>1, <1>2, <1>3 DEF RobotTypes, Robots2
  <1>5. CASE robotOf["chat"] = Gone
    <2>1. UNCHANGED <<at, pushedOut>>
      BY <1>5 DEF CloseRoom
    <2>2. \A o \in Robots2 : robotOf'[o] = robotOf[o]
      BY <1>4, <1>5 DEF Robots2
    <2>3. \A o \in Robots2 : \A n \in Nicks2 : at'[n] = o => n = robotOf'[o].key
      BY <2>1, <2>2 DEF SettingsInv, PlacesRight
    <2> QED
      BY <1>1, <1>4, <2>1, <2>3 DEF SettingsInv, PlacesRight, RobotTypes
  <1>6. CASE robotOf["chat"] # Gone
    <2>1. at' = [at EXCEPT ![key] = NoOneAt] /\ pushedOut' = (pushedOut \/ PushesHub("chat"))
      BY <1>6 DEF CloseRoom, RemovedAt
    <2>2. key \in Nicks2
      BY <1>6 DEF SettingsInv, PlacesRight
    <2>k. key = robotOf["chat"].key
      OBVIOUS
    <2> HIDE DEF key
    <2>3. at'[key] = "none" /\ \A n \in Nicks2 \ {key} : at'[n] = at[n]
      BY <1>1, <2>1, <2>2 DEF RobotTypes, NoOneAt
    <2>4. at' \in [Nicks2 -> {NoOneAt, "user", "hub", "chat"}]
      BY <1>1, <2>1, <2>2 DEF RobotTypes
    <2>5. ASSUME NEW n \in Nicks2 PROVE at'[n] # "chat" /\ (at'[n] = "hub" => n = robotOf'["hub"].key)
      <3>1. CASE n = key
        BY <2>3, <3>1
      <3>2. CASE n # key
        BY <1>4, <2>3, <2>k, <3>2 DEF SettingsInv, PlacesRight, Robots2
      <3> QED
        BY <3>1, <3>2
    <2>6. at'[robotOf'["hub"].key] = "hub" \/ pushedOut'
      BY <1>4, <2>1, <2>2, <2>3, <2>k DEF SettingsInv, PlacesRight, PushesHub
    <2> QED
      BY <1>4, <2>4, <2>5, <2>6 DEF SettingsInv, PlacesRight, RobotTypes, Robots2
  <1> QED
    BY <1>5, <1>6, <1>4

LEMMA OpenRoomKeeps ==
    ASSUME SettingsInv, running, running', robotOf["chat"] = Gone, NEW new \in Nicks2, OpenRoom(new)
    PROVE  RobotTypes' /\ PlacesRight' /\ robotOf'["hub"] = robotOf["hub"]
  <1>1. RobotTypes
    BY DEF SettingsInv, SettingsTypes, RobotTypes
  <1>2. robotOf' = [robotOf EXCEPT !["chat"] = [nick |-> new, key |-> new]] /\ at' = AddedAt(at, "chat", new) /\ UNCHANGED pushedOut
    BY DEF OpenRoom
  <1>3. [nick |-> new, key |-> new] \in [nick : NickOrNone, key : NickOrNone]
    BY DEF NickOrNone
  <1>4. /\ robotOf' \in [Robots2 -> [nick : NickOrNone, key : NickOrNone]]
        /\ robotOf'["chat"].key = new /\ robotOf'["hub"] = robotOf["hub"]
    BY <1>1, <1>2, <1>3 DEF RobotTypes, Robots2
  <1>5. ASSUME NEW n \in Nicks2
        PROVE  at'[n] = at[n] \/ (n = new /\ at[n] = NoOneAt /\ at'[n] = "chat")
    BY <1>1, <1>2 DEF RobotTypes, AddedAt
  <1>6. at' \in [Nicks2 -> {NoOneAt, "user", "hub", "chat"}]
    BY <1>1, <1>2 DEF RobotTypes, AddedAt
  <1>7. \A n \in Nicks2 : at[n] # "chat"
    <2> SUFFICES ASSUME NEW n \in Nicks2, at[n] = "chat" PROVE FALSE
      OBVIOUS
    <2>1. n = robotOf["chat"].key
      BY DEF SettingsInv, PlacesRight, Robots2
    <2>2. Gone.key = ""
      BY DEF Gone
    <2>3. n = ""
      BY <2>1, <2>2
    <2> QED
      BY <2>3, SettingsAssumption
  <1>8. \A n \in Nicks2 : (at'[n] = "hub" => n = robotOf'["hub"].key) /\ (at'[n] = "chat" => n = robotOf'["chat"].key)
    BY <1>4, <1>5, <1>7 DEF SettingsInv, PlacesRight, Robots2
  <1>9. at'[robotOf'["hub"].key] = "hub" \/ pushedOut'
    BY <1>2, <1>4, <1>5 DEF SettingsInv, PlacesRight, NoOneAt
  <1> QED
    BY <1>4, <1>6, <1>8, <1>9 DEF SettingsInv, PlacesRight, RobotTypes, Robots2

\* What follows a change in the list.
LEMMA FollowedKeeps ==
    ASSUME SettingsInv, running, running', NEW v \in Items, NEW given \in Offered[v],
           NEW new, new = Kept2(v, given), NEW b, ~Refused(v, new, b), Followed(v, new)
    PROVE  /\ RobotTypes' /\ PlacesRight'
           /\ IF v = "hub_security" /\ new # conf[v] THEN robotOf'["hub"].nick = new
              ELSE robotOf'["hub"] = robotOf["hub"]
  <1>1. CASE v \notin Special \/ new = conf[v]
    <2>1. UNCHANGED <<robotOf, at, pushedOut>>
      BY <1>1 DEF Followed, robots
    <2>2. RobotTypes' /\ PlacesRight'
      BY <2>1 DEF SettingsInv, SettingsTypes, RobotTypes, PlacesRight
    <2>3. ~(v = "hub_security" /\ new # conf[v])
      BY <1>1 DEF Special
    <2> QED
      BY <2>1, <2>2, <2>3
  <1>2. CASE v = "hub_security" /\ new # conf[v]
    <2>1. Renamed("hub", new)
      BY <1>2 DEF Followed, Special
    <2>2. new \in NickOrNone
      BY <1>2, ValuesRead, CleanedNicks DEF Special
    <2>3. robotOf["hub"].key \in Nicks2 /\ "hub" \in Robots2
      BY DEF SettingsInv, PlacesRight, Robots2
    <2> QED
      BY <1>2, <2>1, <2>2, <2>3, RenamedKeeps
  <1>3. CASE v = "opchat_name" /\ new # conf[v]
    <2>1. new \in NickOrNone
      BY <1>3, ValuesRead, CleanedNicks DEF Special
    <2>2. CASE new = ""
      <3>1. CloseRoom
        BY <1>3, <2>2 DEF Followed, Special
      <3> QED
        BY <1>3, <3>1, CloseRoomKeeps
    <2>3. CASE new # "" /\ robotOf["chat"] = Gone
      <3>1. OpenRoom(new) /\ new \in Nicks2
        BY <1>3, <2>1, <2>3 DEF Followed, Special, NickOrNone
      <3> QED
        BY <1>3, <2>3, <3>1, OpenRoomKeeps
    <2>4. CASE new # "" /\ robotOf["chat"] # Gone
      <3>1. Renamed("chat", new)
        BY <1>3, <2>4 DEF Followed, Special
      <3>2. robotOf["chat"].key \in Nicks2 /\ "chat" \in Robots2 /\ "hub" \in Robots2 \ {"chat"}
        BY <2>4 DEF SettingsInv, PlacesRight, Robots2
      <3> QED
        BY <1>3, <2>1, <3>1, <3>2, RenamedKeeps
    <2> QED
      BY <2>2, <2>3, <2>4
  <1> QED
    BY <1>1, <1>2, <1>3 DEF Special

LEMMA AcceptedKeeps ==
    ASSUME SettingsInv, running, running', NEW v \in Items, NEW given \in Offered[v],
           NEW new, new = Kept2(v, given), NEW b, ~Refused(v, new, b), NEW outcome \in Outcomes,
           conf' = [conf EXCEPT ![v] = new], Followed(v, new),
           stored' = Written(stored, v, new, outcome), unsaved2' = NotedFor(v, outcome),
           failed' = IF outcome = "written" THEN failed ELSE failed \cup Doubted(v)
    PROVE  SettingsInv'
  <1>1. RobotTypes' /\ PlacesRight'
    BY FollowedKeeps
  <1>2. /\ conf' = [w \in Items |-> conf'[w]] /\ conf'[v] = new
        /\ \A w \in Items \ {v} : conf'[w] = conf[w]
    <2>1. conf = [w \in Items |-> conf[w]]
      BY DEF SettingsInv, SettingsTypes
    <2> QED
      BY <2>1
  <1>3. /\ stored' = [w \in Items \cup Foreign |-> stored'[w]]
        /\ \A w \in Items \ {v} : stored'[w] = stored[w]
        /\ stored'[v] \in {new, Absent, stored[v]}
        /\ outcome = "written" => stored'[v] = new
    <2>1. stored = [w \in Items \cup Foreign |-> stored[w]]
      BY DEF SettingsInv, SettingsTypes
    <2>2. v \in Items \cup Foreign
      OBVIOUS
    <2> QED
      BY <2>1, <2>2, WrittenIs
  <1>4. {"hub_security", "opchat_name"} \subseteq Items /\ Ports \subseteq Items
    BY SettingsAssumption DEF Special
  <1>5. SettingsTypes'
    <2>1. v = "opchat_name" => new \in NickOrNone
      BY ValuesRead, CleanedNicks DEF Special
    <2>2. v = "hub_security" => new \in Nicks2
      <3> SUFFICES ASSUME v = "hub_security" PROVE new \in Nicks2
        OBVIOUS
      <3>1. new \in NickOrNone
        BY ValuesRead, CleanedNicks DEF Special
      <3>2. new = conf[v] \/ new # ""
        BY DEF Refused
      <3> QED
        BY <3>1, <3>2 DEF NickOrNone, SettingsInv, SettingsTypes
    <2>3. conf'["hub_security"] \in Nicks2 /\ stored'["hub_security"] \in Nicks2 \cup {Absent}
      BY <1>2, <1>3, <1>4, <2>2 DEF SettingsInv, SettingsTypes
    <2>4. conf'["opchat_name"] \in NickOrNone /\ stored'["opchat_name"] \in NickOrNone \cup {Absent}
      BY <1>2, <1>3, <1>4, <2>1 DEF SettingsInv, SettingsTypes
    <2> QED
      BY <1>1, <1>2, <1>3, <2>3, <2>4 DEF SettingsTypes, RobotTypes
  <1>6. ValuesKept'
    <2> SUFFICES ASSUME NEW w \in Items \ unsaved2'
                 PROVE  conf'[w] = stored'[w] \/ conf'[w] = Read(w, stored'[w])
      BY DEF ValuesKept, Read, Kept2
    <2>1. CASE w = v
      BY <1>2, <1>3, <2>1 DEF NotedFor
    <2>2. CASE w # v
      <3>1. w \notin unsaved2
        BY <2>2 DEF NotedFor
      <3> QED
        BY <1>2, <1>3, <2>2, <3>1 DEF SettingsInv, ValuesKept
    <2> QED
      BY <2>1, <2>2
  <1>7. PortsApart'
    <2> SUFFICES ASSUME failed' \cap Ports = {}
                 PROVE  /\ InEffect("listen_port")' \notin InEffect("extra_listen_ports")'
                        /\ \A p \in Ports : conf'[p] = InEffect(p)'
      BY DEF PortsApart, InEffect
    <2>1. failed \cap Ports = {} /\ (v \in Ports => outcome = "written")
      BY DEF Doubted
    <2>2. /\ InEffect("listen_port") \notin InEffect("extra_listen_ports")
          /\ \A p \in Ports : conf[p] = InEffect(p)
      BY <2>1 DEF SettingsInv, PortsApart
    <2>3. ASSUME v \in Ports PROVE new # Absent
      <3>1. new = given
        BY <2>3, ValuesRead
      <3> QED
        BY <2>3, <3>1, SettingsAssumption
    <2>4. \A p \in Ports : IF p = v THEN InEffect(p)' = new ELSE InEffect(p)' = InEffect(p)
      BY <1>3, <1>4, <2>1, <2>3 DEF InEffect
    <2>5. \A p \in Ports : conf'[p] = InEffect(p)'
      BY <1>2, <1>4, <2>2, <2>4
    <2>6. "listen_port" \in Ports /\ "extra_listen_ports" \in Ports
      BY DEF Ports
    <2>7. InEffect("listen_port")' \notin InEffect("extra_listen_ports")'
      <3>1. CASE v = "listen_port"
        <4>1. new = conf["listen_port"] \/ new \notin conf["extra_listen_ports"]
          BY <3>1 DEF Refused, BadPort
        <4> QED
          BY <2>2, <2>4, <2>6, <3>1, <4>1
      <3>2. CASE v = "extra_listen_ports"
        <4>1. new = conf["extra_listen_ports"] \/ conf["listen_port"] \notin new
          BY <3>2 DEF Refused
        <4> QED
          BY <2>2, <2>4, <2>6, <3>2, <4>1
      <3>3. CASE v \notin Ports
        BY <2>2, <2>4, <2>6, <3>3
      <3> QED
        BY <3>1, <3>2, <3>3 DEF Ports
    <2> QED
      BY <2>5, <2>7
  <1>8. NickFollowed'
    <2> SUFFICES ASSUME "hub_security" \notin failed', NEW S \in ClosedSets, robotOf'["hub"].nick \in S
                 PROVE  /\ conf'["hub_security"] \in S
                        /\ stored'["hub_security"] = Absent \/ Clean[stored'["hub_security"]] \in S
      BY DEF NickFollowed
    <2>1. "hub_security" \notin failed /\ (v = "hub_security" => outcome = "written")
      BY DEF Doubted
    <2>2. \A m \in S : Clean[m] \in S
      BY DEF ClosedSets
    <2>3. CASE v = "hub_security"
      <3>1. CASE new # conf[v]
        BY <1>2, <1>3, <2>1, <2>2, <2>3, <3>1, FollowedKeeps
      <3>2. CASE new = conf[v]
        <4>1. robotOf'["hub"] = robotOf["hub"]
          BY <3>2, FollowedKeeps
        <4>2. conf["hub_security"] \in S
          BY <2>1, <4>1 DEF SettingsInv, NickFollowed
        <4> QED
          BY <1>2, <1>3, <2>1, <2>2, <2>3, <3>2, <4>2
      <3> QED
        BY <3>1, <3>2
    <2>4. CASE v # "hub_security"
      <3>1. robotOf'["hub"] = robotOf["hub"]
        BY <2>4, FollowedKeeps
      <3> QED
        BY <1>2, <1>3, <1>4, <2>1, <2>4, <3>1 DEF SettingsInv, NickFollowed
    <2> QED
      BY <2>3, <2>4
  <1> QED
    BY <1>1, <1>5, <1>6, <1>7, <1>8 DEF SettingsInv, Stopped2

LEMMA SetConfigKeeps ==
    ASSUME SettingsInv, NEW v \in Items, NEW given \in Offered[v], NEW byUser \in BOOLEAN,
           NEW vetoed \in BOOLEAN, NEW outcome \in Outcomes,
           SetConfig(v, given, byUser, vetoed, outcome)
    PROVE  SettingsInv' \/ UNCHANGED settingsVars
  <1> DEFINE new == Kept2(v, given)
  <1>1. running /\ UNCHANGED running
    BY DEF SetConfig
  <1>2. CASE vetoed \/ Refused(v, new, byUser)
    BY <1>1, <1>2 DEF SetConfig, TakenBack, settingsVars
  <1>3. CASE ~(vetoed \/ Refused(v, new, byUser))
    <2>1. /\ conf' = [conf EXCEPT ![v] = new]
          /\ Followed(v, new)
          /\ stored' = Written(stored, v, new, outcome)
          /\ unsaved2' = NotedFor(v, outcome)
          /\ failed' = IF outcome = "written" THEN failed ELSE failed \cup Doubted(v)
      BY <1>3 DEF SetConfig
    <2>2. new = Kept2(v, given)
      OBVIOUS
    <2> HIDE DEF new
    <2> QED
      BY <1>1, <1>3, <2>1, <2>2, AcceptedKeeps
  <1> QED
    BY <1>2, <1>3

LEMMA SetForeignKeeps ==
    ASSUME SettingsInv, NEW v \in Foreign, NEW value, NEW vetoed \in BOOLEAN, NEW outcome \in Outcomes,
           SetForeign(v, value, vetoed, outcome)
    PROVE  SettingsInv'
  <1>1. UNCHANGED <<running, conf, robotOf, at, pushedOut, unsaved2, failed>>
    BY DEF SetForeign, robots
  <1>2. stored' = [w \in Items \cup Foreign |-> stored'[w]] /\ \A w \in Items : stored'[w] = stored[w]
    <2>1. stored = [w \in Items \cup Foreign |-> stored[w]]
      BY DEF SettingsInv, SettingsTypes
    <2>2. stored' = stored \/ stored' = Written(stored, v, value, outcome)
      BY DEF SetForeign
    <2>3. v \in Items \cup Foreign /\ v \notin Items
      BY SettingsAssumption
    <2>4. CASE stored' = Written(stored, v, value, outcome)
      BY <2>1, <2>3, <2>4, WrittenIs
    <2> QED
      BY <2>1, <2>2, <2>4
  <1>3. "hub_security" \in Items /\ "opchat_name" \in Items /\ "listen_port" \in Items
        /\ "extra_listen_ports" \in Items
    BY SettingsAssumption DEF Special, Ports
  <1>4. SettingsTypes'
    BY <1>1, <1>2, <1>3 DEF SettingsInv, SettingsTypes
  <1>5. ValuesKept'
    BY <1>1, <1>2 DEF SettingsInv, ValuesKept, Read, Kept2
  <1>6. PortsApart'
    BY <1>1, <1>2, <1>3 DEF SettingsInv, PortsApart, InEffect, Ports
  <1>7. NickFollowed'
    BY <1>1, <1>2, <1>3 DEF SettingsInv, NickFollowed
  <1> QED
    BY <1>1, <1>4, <1>5, <1>6, <1>7 DEF SettingsInv, Stopped2, PlacesRight

LEMMA ReloadKeeps ==
    ASSUME SettingsInv, ReloadConfig(TRUE)
    PROVE  SettingsInv'
  <1>1. running /\ UNCHANGED <<running, stored, robotOf, at, pushedOut, unsaved2, failed>>
    BY DEF ReloadConfig, robots
  <1>2. /\ conf' = [v \in Items |-> conf'[v]]
        /\ \A v \in Items : conf'[v] = IF stored[v] = Absent THEN conf[v] ELSE Read(v, stored[v])
    BY DEF ReloadConfig, AsLoaded
  <1>3. {"hub_security", "opchat_name"} \subseteq Items /\ Ports \subseteq Items
    BY SettingsAssumption DEF Special
  <1>4. SettingsTypes'
    <2>1. Read("hub_security", stored["hub_security"]) = Clean[stored["hub_security"]]
      BY ValuesRead DEF Special
    <2>2. Read("opchat_name", stored["opchat_name"]) = Clean[stored["opchat_name"]]
      BY ValuesRead DEF Special
    <2>3. conf'["hub_security"] \in Nicks2
      BY <1>2, <1>3, <2>1, CleanedNicks DEF SettingsInv, SettingsTypes
    <2>4. conf'["opchat_name"] \in NickOrNone
      BY <1>2, <1>3, <2>2, CleanedNicks DEF SettingsInv, SettingsTypes
    <2> QED
      BY <1>1, <1>2, <2>3, <2>4 DEF SettingsInv, SettingsTypes
  <1>5. ValuesKept'
    <2> SUFFICES ASSUME NEW v \in Items \ unsaved2
                 PROVE  conf'[v] = stored[v] \/ conf'[v] = Read(v, stored[v])
      BY <1>1 DEF ValuesKept, Read, Kept2
    <2> QED
      BY <1>1, <1>2 DEF SettingsInv, ValuesKept
  <1>6. PortsApart'
    <2>1. \A p \in Ports : InEffect(p)' = InEffect(p)
      BY <1>1 DEF InEffect
    <2>2. ASSUME failed \cap Ports = {}, NEW p \in Ports PROVE conf'[p] = InEffect(p)
      <3>1. Read(p, stored[p]) = stored[p]
        BY ValuesRead
      <3> QED
        BY <1>1, <1>2, <1>3, <2>2, <3>1 DEF SettingsInv, PortsApart, InEffect
    <2>3. "listen_port" \in Ports /\ "extra_listen_ports" \in Ports
      BY DEF Ports
    <2> QED
      BY <1>1, <2>1, <2>2, <2>3 DEF SettingsInv, PortsApart
  <1>7. NickFollowed'
    <2>1. conf'["hub_security"] \in {conf["hub_security"], Clean[stored["hub_security"]]}
          /\ (stored["hub_security"] = Absent => conf'["hub_security"] = conf["hub_security"])
      BY <1>2, <1>3, ValuesRead DEF Special
    <2> QED
      BY <1>1, <2>1 DEF SettingsInv, NickFollowed
  <1> QED
    BY <1>1, <1>4, <1>5, <1>6, <1>7 DEF SettingsInv, Stopped2, PlacesRight

\* The hub ends, and a write may have got as far as the deletion.
LEMMA HubEndsKeeps ==
    ASSUME SettingsInv, HubEnds, UNCHANGED unsaved2,
           \/ UNCHANGED <<stored, failed>>
           \/ \E v \in Items : stored' = [stored EXCEPT ![v] = Absent] /\ failed' = failed \cup Doubted(v)
    PROVE  SettingsInv'
  <1>1. /\ running /\ ~running' /\ conf' = [v \in Items |-> DefaultOf[v]]
        /\ robotOf' = [who \in {"hub", "chat"} |-> Gone] /\ at' = Empty /\ pushedOut' = FALSE
    BY DEF HubEnds
  <1>2. {"hub_security", "opchat_name"} \subseteq Items /\ Ports \subseteq Items
    BY SettingsAssumption DEF Special
  <1>3. /\ stored' = [w \in Items \cup Foreign |-> stored'[w]]
        /\ \A w \in Items : stored'[w] = stored[w] \/ (stored'[w] = Absent /\ Doubted(w) \subseteq failed')
    <2>1. stored = [w \in Items \cup Foreign |-> stored[w]]
      BY DEF SettingsInv, SettingsTypes
    <2>2. CASE UNCHANGED <<stored, failed>>
      BY <2>1, <2>2
    <2>3. ASSUME NEW v \in Items, stored' = [stored EXCEPT ![v] = Absent], failed' = failed \cup Doubted(v)
          PROVE  /\ stored' = [w \in Items \cup Foreign |-> stored'[w]]
                 /\ \A w \in Items : stored'[w] = stored[w] \/ (stored'[w] = Absent /\ Doubted(w) \subseteq failed')
      BY <2>1, <2>3
    <2> QED
      BY <2>2, <2>3
  <1>4. /\ robotOf'["hub"] = Gone /\ robotOf'["chat"] = Gone
        /\ robotOf' \in [Robots2 -> [nick : NickOrNone, key : NickOrNone]]
    <2>1. Gone \in [nick : NickOrNone, key : NickOrNone]
      BY DEF Gone, NickOrNone
    <2> QED
      BY <1>1, <2>1 DEF Robots2
  <1>5. at' \in [Nicks2 -> {NoOneAt, "user", "hub", "chat"}] /\ \A n \in Nicks2 : at'[n] = "none"
    BY <1>1 DEF Empty, NoOneAt
  <1>6. conf'["hub_security"] \in Nicks2 /\ conf'["opchat_name"] \in NickOrNone
        /\ conf' = [w \in Items |-> conf'[w]]
    BY <1>1, <1>2, SettingsAssumption DEF NickOrNone
  <1>7. SettingsTypes'
    BY <1>2, <1>3, <1>4, <1>5, <1>6 DEF SettingsInv, SettingsTypes
  <1>8. PortsApart'
    <2> SUFFICES ASSUME failed' \cap Ports = {}
                 PROVE  InEffect("listen_port")' \notin InEffect("extra_listen_ports")'
      BY <1>1 DEF PortsApart
    <2>1. failed \cap Ports = {}
      BY DEF Doubted
    <2>2. \A p \in Ports : p \in Doubted(p)
      BY DEF Doubted
    <2>3. \A p \in Ports : stored'[p] = stored[p]
      BY <1>2, <1>3, <2>2
    <2> QED
      BY <2>1, <2>3 DEF SettingsInv, PortsApart, InEffect, Ports
  <1>9. PlacesRight'
    BY <1>1, <1>5 DEF PlacesRight, Robots2
  <1>10. Stopped2'
    BY <1>1, <1>4 DEF Stopped2, Empty
  <1> QED
    BY <1>1, <1>7, <1>8, <1>9, <1>10 DEF SettingsInv, ValuesKept, NickFollowed

LEMMA StartKeeps ==
    ASSUME SettingsInv, NEW insertsWork \in BOOLEAN, Start(insertsWork)
    PROVE  SettingsInv'
  <1> DEFINE table == IF insertsWork THEN Filled ELSE stored
             read == AsLoaded(conf, table)
             hub == read["hub_security"]
             twice == hub = read["opchat_name"]
             chat == IF twice THEN "" ELSE read["opchat_name"]
  <1>1. /\ ~running /\ running' = TRUE
        /\ conf' = [read EXCEPT !["opchat_name"] = chat]
        /\ stored' = IF twice THEN [table EXCEPT !["opchat_name"] = IF insertsWork THEN "" ELSE Absent]
                  ELSE table
        /\ robotOf' = [hub |-> [nick |-> hub, key |-> hub], chat |-> [nick |-> chat, key |-> chat]]
        /\ at' = [n \in Nicks2 |-> CASE n = hub -> "hub" [] n = chat -> "chat"
                                     [] OTHER -> NoOneAt]
        /\ unsaved2' = {v \in Items : stored'[v] = Absent}
        /\ failed' = failed \ Special
        /\ UNCHANGED pushedOut
    BY DEF Start
  <1>2. {"hub_security", "opchat_name"} \subseteq Items /\ Ports \subseteq Items
    BY SettingsAssumption DEF Special
  <1>3. stored = [w \in Items \cup Foreign |-> stored[w]] /\ \A v \in Items : conf[v] = DefaultOf[v]
    BY <1>1 DEF SettingsInv, SettingsTypes, Stopped2
  <1>4. /\ table = [w \in Items \cup Foreign |-> table[w]]
        /\ \A w \in Items : table[w] = stored[w] \/ (stored[w] = Absent /\ table[w] = DefaultOf[w])
    <2>1. DOMAIN stored = Items \cup Foreign
      BY <1>3
    <2>2. Filled = [v \in Items \cup Foreign |-> IF v \in Items /\ stored[v] = Absent THEN DefaultOf[v] ELSE stored[v]]
      BY <2>1 DEF Filled
    <2>3. CASE insertsWork
      BY <2>2, <2>3
    <2>4. CASE ~insertsWork
      BY <1>3, <2>4
    <2> QED
      BY <2>3, <2>4
  <1>5. /\ read = [v \in Items |-> read[v]]
        /\ \A v \in Items : read[v] = IF table[v] = Absent THEN DefaultOf[v] ELSE Read(v, table[v])
    BY <1>3 DEF AsLoaded
  <1> HIDE DEF table, read
  <1>6. table["hub_security"] \in Nicks2 \cup {Absent} /\ table["opchat_name"] \in NickOrNone \cup {Absent}
    BY <1>2, <1>4, SettingsAssumption DEF SettingsInv, SettingsTypes, NickOrNone
  <1>7. hub \in Nicks2 /\ hub = read["hub_security"]
    <2>1. Read("hub_security", table["hub_security"]) = Clean[table["hub_security"]]
      BY ValuesRead DEF Special
    <2>2. "hub_security" \in Items
      BY <1>2
    <2> QED
      BY <1>5, <1>6, <2>1, <2>2, CleanedNicks, SettingsAssumption
  <1>8. chat \in NickOrNone /\ chat # hub /\ (twice \/ chat = read["opchat_name"])
    <2>1. Read("opchat_name", table["opchat_name"]) = Clean[table["opchat_name"]]
      BY ValuesRead DEF Special
    <2>2. read["opchat_name"] \in NickOrNone
      BY <1>2, <1>5, <1>6, <2>1, CleanedNicks, SettingsAssumption DEF NickOrNone
    <2>3. hub # ""
      BY <1>7, SettingsAssumption
    <2> QED
      BY <2>2, <2>3 DEF NickOrNone
  <1>9. /\ stored' = [w \in Items \cup Foreign |-> stored'[w]]
        /\ \A w \in Items \ {"opchat_name"} : stored'[w] = table[w]
        /\ IF twice THEN stored'["opchat_name"] \in {"", Absent} ELSE stored'["opchat_name"] = table["opchat_name"]
    <2>1. CASE twice
      <3> DEFINE x == IF insertsWork THEN "" ELSE Absent
      <3>1. stored' = [table EXCEPT !["opchat_name"] = x]
        BY <1>1, <2>1
      <3>2. x \in {"", Absent}
        OBVIOUS
      <3> HIDE DEF x
      <3>3. stored'["opchat_name"] = x
        BY <1>2, <1>4, <3>1
      <3> QED
        BY <1>2, <1>4, <2>1, <3>1, <3>2, <3>3
    <2>2. CASE ~twice
      BY <1>1, <1>4, <2>2
    <2> QED
      BY <2>1, <2>2
  <1>t. twice => chat = ""
    OBVIOUS
  <1> HIDE DEF twice, chat, hub
  <1>10. /\ conf' = [v \in Items |-> conf'[v]] /\ conf'["opchat_name"] = chat
         /\ \A v \in Items \ {"opchat_name"} : conf'[v] = read[v]
    BY <1>1, <1>2, <1>5
  <1>11. robotOf'["hub"] = [nick |-> hub, key |-> hub] /\ robotOf'["chat"] = [nick |-> chat, key |-> chat]
         /\ robotOf' \in [Robots2 -> [nick : NickOrNone, key : NickOrNone]]
    <2>1. [nick |-> hub, key |-> hub] \in [nick : NickOrNone, key : NickOrNone]
      BY <1>7 DEF NickOrNone
    <2>2. [nick |-> chat, key |-> chat] \in [nick : NickOrNone, key : NickOrNone]
      BY <1>8
    <2> DEFINE h == [nick |-> hub, key |-> hub]
               c == [nick |-> chat, key |-> chat]
               N == [nick : NickOrNone, key : NickOrNone]
    <2>3. robotOf' = [hub |-> h, chat |-> c] /\ h \in N /\ c \in N
      BY <1>1, <2>1, <2>2
    <2> HIDE DEF h, c, N
    <2>4. robotOf' \in [{"hub", "chat"} -> N]
      BY <2>3
    <2>5. robotOf'["hub"] = h /\ robotOf'["chat"] = c
      BY <2>3
    <2> QED
      BY <2>4, <2>5 DEF Robots2, h, c, N
  <1>12. /\ at' \in [Nicks2 -> {NoOneAt, "user", "hub", "chat"}]
         /\ at'[hub] = "hub"
         /\ \A n \in Nicks2 : (at'[n] = "hub" => n = hub) /\ (at'[n] = "chat" => n = chat)
    <2> DEFINE putAt(n) == CASE n = hub -> "hub" [] n = chat -> "chat" [] OTHER -> NoOneAt
    <2>a. at' = [n \in Nicks2 |-> putAt(n)]
      BY <1>1
    <2>b. \A n \in Nicks2 : putAt(n) = CASE n = hub -> "hub" [] n = chat -> "chat" [] OTHER -> NoOneAt
      OBVIOUS
    <2> HIDE DEF putAt
    <2>4. at' = [n \in Nicks2 |-> at'[n]]
      BY <2>a
    <2>1. \A n \in Nicks2 : at'[n] = CASE n = hub -> "hub" [] n = chat -> "chat" [] OTHER -> NoOneAt
      BY <2>a, <2>b
    <2>2. ASSUME NEW n \in Nicks2
          PROVE  /\ n = hub => at'[n] = "hub"
                 /\ n # hub /\ n = chat => at'[n] = "chat"
                 /\ n # hub /\ n # chat => at'[n] = "none"
      <3>1. CASE n = hub
        BY <1>8, <2>1, <3>1
      <3>2. CASE n # hub /\ n = chat
        BY <2>1, <3>2
      <3>3. CASE n # hub /\ n # chat
        BY <2>1, <3>3 DEF NoOneAt
      <3> QED
        BY <3>1, <3>2, <3>3
    <2>3. \A n \in Nicks2 : at'[n] \in {NoOneAt, "user", "hub", "chat"}
      BY <2>2 DEF NoOneAt
    <2>5. at' \in [Nicks2 -> {NoOneAt, "user", "hub", "chat"}]
      BY <2>3, <2>4
    <2>6. at'[hub] = "hub"
      BY <1>7, <2>2
    <2>7. \A n \in Nicks2 : at'[n] = "hub" => n = hub
      BY <2>2
    <2>8. \A n \in Nicks2 : at'[n] = "chat" => n = chat
      BY <2>2
    <2> QED
      BY <2>5, <2>6, <2>7, <2>8
  <1>13. SettingsTypes'
    <2>1. stored'["hub_security"] \in Nicks2 \cup {Absent}
      BY <1>2, <1>6, <1>9
    <2>2. stored'["opchat_name"] \in NickOrNone \cup {Absent}
      BY <1>6, <1>9 DEF NickOrNone
    <2>3. conf'["hub_security"] \in Nicks2
      BY <1>2, <1>7, <1>10
    <2> QED
      BY <1>8, <1>9, <1>10, <1>11, <1>12, <2>1, <2>2, <2>3 DEF SettingsTypes
  <1>14. ValuesKept'
    <2> SUFFICES ASSUME NEW v \in Items, stored'[v] # Absent
                 PROVE  conf'[v] = stored'[v] \/ conf'[v] = Read(v, stored'[v])
      BY <1>1 DEF ValuesKept, Read, Kept2
    <2>1. CASE v # "opchat_name" \/ ~twice
      <3>1. stored'[v] = table[v] /\ conf'[v] = read[v]
        BY <1>8, <1>9, <1>10, <2>1
      <3> QED
        BY <1>5, <3>1
    <2>2. CASE v = "opchat_name" /\ twice
      BY <1>9, <1>10, <1>t, <2>2
    <2> QED
      BY <2>1, <2>2
  <1>15. PortsApart'
    <2> SUFFICES ASSUME failed' \cap Ports = {}
                 PROVE  /\ InEffect("listen_port")' \notin InEffect("extra_listen_ports")'
                        /\ \A p \in Ports : conf'[p] = InEffect(p)'
      BY DEF PortsApart, InEffect
    <2>1. failed \cap Ports = {}
      BY <1>1, ValuesRead
    <2>2. \A p \in Ports : p \in Items \ {"opchat_name"}
      BY <1>2 DEF Ports
    <2>3. ASSUME NEW p \in Ports PROVE InEffect(p)' = InEffect(p) /\ conf'[p] = InEffect(p)
      <3>1. stored'[p] = table[p] /\ conf'[p] = read[p] /\ Read(p, table[p]) = table[p]
        BY <1>9, <1>10, <2>2, ValuesRead
      <3>2. read[p] = IF table[p] = Absent THEN DefaultOf[p] ELSE table[p]
        BY <1>5, <2>2, <3>1
      <3>3. table[p] = stored[p] \/ (stored[p] = Absent /\ table[p] = DefaultOf[p])
        BY <1>4, <2>2
      <3> QED
        BY <3>1, <3>2, <3>3 DEF InEffect
    <2> QED
      BY <2>1, <2>3 DEF SettingsInv, PortsApart, Ports
  <1>16. PlacesRight'
    <2>1. robotOf'["hub"].key = hub /\ robotOf'["chat"].key = chat
      BY <1>11
    <2>2. robotOf'["chat"] = Gone \/ robotOf'["chat"].key \in Nicks2
      BY <1>8, <1>11, <2>1 DEF Gone, NickOrNone
    <2>3. \A who \in Robots2 : \A n \in Nicks2 : at'[n] = who => n = robotOf'[who].key
      BY <1>12, <2>1 DEF Robots2
    <2> QED
      BY <1>7, <1>12, <2>1, <2>2, <2>3 DEF PlacesRight
  <1>17. NickFollowed'
    <2> SUFFICES ASSUME NEW S \in ClosedSets, robotOf'["hub"].nick \in S
                 PROVE  /\ conf'["hub_security"] \in S
                        /\ stored'["hub_security"] = Absent \/ Clean[stored'["hub_security"]] \in S
      BY DEF NickFollowed
    <2>1. hub \in S
      BY <1>11
    <2>2. conf'["hub_security"] = hub /\ stored'["hub_security"] = table["hub_security"]
      BY <1>2, <1>7, <1>9, <1>10
    <2>3. table["hub_security"] = Absent \/ hub = Clean[table["hub_security"]]
      BY <1>2, <1>5, <1>7, ValuesRead DEF Special
    <2> QED
      BY <2>1, <2>2, <2>3
  <1> QED
    BY <1>1, <1>13, <1>14, <1>15, <1>16, <1>17 DEF SettingsInv, Stopped2

LEMMA UserMovesKeep ==
    ASSUME SettingsInv, NEW n \in Nicks2, UserComes(n) \/ UserGoes(n)
    PROVE  SettingsInv'
  <1>1. UNCHANGED <<running, conf, stored, robotOf, pushedOut, unsaved2, failed>>
    BY DEF UserComes, UserGoes
  <1>2. /\ at' \in [Nicks2 -> {NoOneAt, "user", "hub", "chat"}]
        /\ \A m \in Nicks2 : at'[m] = at[m] \/ (at[m] \in {"none", "user"} /\ at'[m] \in {"none", "user"})
    BY DEF UserComes, UserGoes, SettingsInv, SettingsTypes, NoOneAt
  <1>3. SettingsTypes'
    BY <1>1, <1>2 DEF SettingsInv, SettingsTypes
  <1>4. PlacesRight'
    <2>1. \A who \in Robots2 : \A m \in Nicks2 : at'[m] = who <=> at[m] = who
      BY <1>2 DEF Robots2
    <2>2. running => at'[robotOf["hub"].key] = "hub" \/ pushedOut
      BY <1>2 DEF SettingsInv, PlacesRight
    <2> QED
      BY <1>1, <2>1, <2>2 DEF SettingsInv, PlacesRight
  <1>5. Stopped2'
    <2> SUFFICES ASSUME ~running PROVE FALSE
      BY <1>1 DEF Stopped2
    <2>1. at = Empty
      BY DEF SettingsInv, Stopped2
    <2>2. at[n] = "none"
      BY <2>1 DEF Empty, NoOneAt
    <2> QED
      BY <2>2 DEF UserComes, UserGoes
  <1> QED
    BY <1>1, <1>3, <1>4, <1>5
    DEF SettingsInv, ValuesKept, Read, Kept2, PortsApart, InEffect, NickFollowed

LEMMA SettingsInvNext == SettingsInv /\ [SettingsNext]_settingsVars => SettingsInv'
  <1> SUFFICES ASSUME SettingsInv, [SettingsNext]_settingsVars PROVE SettingsInv'
    OBVIOUS
  <1>1. CASE UNCHANGED settingsVars
    BY <1>1 DEF settingsVars, robots, SettingsInv, SettingsTypes, Stopped2, ValuesKept, Read, Kept2,
       PortsApart, InEffect, PlacesRight, NickFollowed
  <1>2. CASE Changes(Items \cup Foreign)
    <2>1. CASE \E v \in Items \cup Foreign : \E given \in Offered[v] :
                 \E class \in {3, 5}, vetoed \in BOOLEAN, outcome \in Outcomes :
                    cfSetVar(class, v, given, vetoed, outcome)
      BY <1>1, <2>1, SetConfigKeeps, SetForeignKeeps DEF cfSetVar
    <2>2. CASE \E v \in Items \cup Foreign : \E given \in Offered[v] :
                 \E class \in {3, 5}, vetoed \in BOOLEAN, outcome \in Outcomes :
                    v = "hub_topic" /\ CmdTopic(class, 3, given, vetoed, outcome)
      <3>1. "hub_topic" \in Items
        BY SettingsAssumption
      <3> QED
        BY <1>1, <2>2, <3>1, SetConfigKeeps DEF CmdTopic
    <2>3. CASE \E v \in (Items \cup Foreign) \cap Items : CrashInWrite(v)
      BY <2>3, HubEndsKeeps DEF CrashInWrite
    <2> QED
      BY <1>2, <2>1, <2>2, <2>3 DEF Changes
  <1>3. CASE OtherChanges
    <2>1. ASSUME NEW queryWorks \in BOOLEAN, ReloadConfig(queryWorks) PROVE SettingsInv'
      <3>1. queryWorks = TRUE
        BY <2>1 DEF ReloadConfig
      <3> QED
        BY <2>1, <3>1, ReloadKeeps
    <2>2. CASE Crash
      BY <2>2, HubEndsKeeps DEF Crash
    <2> QED
      BY <1>3, <2>1, <2>2, StartKeeps DEF OtherChanges
  <1>4. CASE UserMoves
    BY <1>4, UserMovesKeep DEF UserMoves
  <1> QED
    BY <1>1, <1>2, <1>3, <1>4 DEF SettingsNext

\* What runs, what is stored and the robots that are made of it agree, whatever
\* a plugin, a check, the database or the end of the hub cuts short
\* (cserverdc.cpp: SetConfig).
THEOREM SettingsRightAlways == SettingsSpec => []SettingsRight
  BY SettingsInvInit, SettingsInvNext, SettingsInvGives, PTL DEF SettingsSpec

-----------------------------------------------------------------------------
(* Tables: the least of a set of places *)

\* Where something is found there is a first place of it.
LEMMA FirstIs ==
    ASSUME NEW s \in SUBSET Nat, s # {}
    PROVE  First(s) \in s /\ \A j \in s : First(s) <= j
  <1> DEFINE less == {p \in Nat \X Nat : p[1] < p[2]}
  <1>0. IsWellFoundedOn(less, Nat)
    BY NatLessThanWellFounded DEF OpToRel
  <1> HIDE DEF less
  <1>1. PICK x \in s : \A y \in s : ~ (<<y, x>> \in less)
    BY <1>0, WFMin
  <1>2. ASSUME NEW y \in s, ~ (x <= y)
        PROVE  FALSE
    <2>1. y \in Nat /\ x \in Nat /\ y < x
      BY <1>2
    <2>2. <<y, x>> \in less
      BY <2>1 DEF less
    <2> QED
      BY <1>1, <2>2
  <1> QED
    BY <1>2 DEF First

\* The time of a trigger that was never started is a number.
LEMMA LongAgoType == LongAgo \in Nat /\ LongAgo > 0
  <1>1. \E p \in Periods2 : \A q \in Periods2 : q <= p
    BY TablesAssumption
  <1> DEFINE longest == CHOOSE p \in Periods2 : \A q \in Periods2 : q <= p
  <1>2. longest \in Periods2
    BY <1>1
  <1>3. LongAgo = 1 + longest
    BY DEF LongAgo
  <1> HIDE DEF longest
  <1> QED
    BY <1>2, <1>3, TablesAssumption

-----------------------------------------------------------------------------
(* Tables: the invariant that is inductive *)

KeptItems == [key : Keys, val : Values, on : BOOLEAN, low : Lows, every : Periods2, only : Terms,
              since : 0 .. LongAgo]

TableTypes ==
    /\ mem \in Seq(KeptItems) /\ rows \in [Keys -> SUBSET KeptItems]
    /\ doubt \subseteq Keys /\ unread \in BOOLEAN /\ list \in Lists

\* a row is found by its key, which is primary, and no key is twice in memory
KeysPrimary ==
    /\ \A k \in Keys : \A r \in rows[k] : r.key = k /\ r.since = LongAgo
    /\ \A k \in Keys : \A r, s \in rows[k] : r = s
    /\ \A i, j \in DOMAIN mem : mem[i].key = mem[j].key => i = j

\* what is in memory under a key is what is stored under it
MemoryIs(k) == rows[k] = {Row(mem[i]) : i \in At(k)}
MemoryFollows == \A k \in Keys : SureOf(k) => MemoryIs(k)

StoreInv == TableTypes /\ KeysPrimary /\ MemoryFollows

\* who has a type of connection has one that is there; only connection types
\* are given, and only what was deleted leaves somebody with one that is not
KindTypes ==
    /\ kind \in [Sessions -> Keys \cup {"mModel", Nothing2}]
    /\ freed \in [Sessions -> BOOLEAN] /\ deleted \in 0 .. MaxDeleted /\ wild \in BOOLEAN
KindsHeld ==
    /\ \A c \in Sessions : list # "conntypes" => kind[c] = Nothing2
    /\ \A c \in Sessions : freed[c] => deleted > 0
    /\ \A c \in Sessions : kind[c] \in Keys /\ ~freed[c] => InMemory(kind[c])
    /\ wild => deleted > 0

\* the answer is that of the table
NamedKeys == {k \in Keys : \E r \in rows[k] : r.on /\ r.val = asked.of}
FittingKeys == {k \in Keys : \E r \in rows[k] : Fits(r, asked.reason, asked.who)}
FoundRight ==
    IF NamedKeys = {} THEN asked.answer = Nothing2 ELSE asked.answer \in NamedKeys
SentRight ==
    IF FittingKeys = {} \/ asked.reason \in NoRedir THEN asked.answer = Nothing2
    ELSE \E k \in FittingKeys : asked.answer = Goal(k)
AnswerRight ==
    ~unread /\ doubt = {} =>
        (asked.of \in Values => FoundRight) /\ (asked.of = "redirect" => SentRight)

TablesInv == StoreInv /\ KindTypes /\ KindsHeld /\ AnswerRight

LEMMA RowIs ==
    ASSUME NEW x \in KeptItems
    PROVE  /\ Row(x) \in KeptItems /\ Row(x).key = x.key /\ Row(x).on = x.on /\ Row(x).val = x.val
           /\ Row(x).only = x.only
           /\ Row(x).since = LongAgo
           /\ x.since = LongAgo => Row(x) = x
  <1>1. Row(x) = [key |-> x.key, val |-> x.val, on |-> x.on, low |-> x.low,
                  every |-> x.every, only |-> x.only, since |-> LongAgo]
    BY DEF Row, KeptItems
  <1>2. x = [key |-> x.key, val |-> x.val, on |-> x.on, low |-> x.low,
                  every |-> x.every, only |-> x.only, since |-> x.since]
    BY DEF KeptItems
  <1> QED
    BY <1>1, <1>2, LongAgoType DEF KeptItems

LEMMA OfferedIs ==
    ASSUME list \in Lists, NEW item \in Offered2
    PROVE  item \in KeptItems /\ item.since = LongAgo /\ item.key \in Keys /\ Row(item) = item
  <1>1. item \in Items2
    <2>1. CASE list = "triggers"   BY <2>1 DEF Offered2, Unlimited
    <2>2. CASE list = "redirects"  BY <2>2 DEF Offered2
    <2>3. CASE list = "clients"    BY <2>3 DEF Offered2, Unlimited
    <2>4. CASE list = "conntypes"  BY <2>4 DEF Offered2, Unlimited
    <2> QED
      BY <2>1, <2>2, <2>3, <2>4 DEF Lists
  <1>2. PICK k \in Keys, v \in Values, on \in BOOLEAN, low \in Lows, every \in Periods2,
             only \in Terms :
            item = [key |-> k, val |-> v, on |-> on, low |-> low, every |-> every, only |-> only,
                    since |-> LongAgo]
    BY <1>1 DEF Items2, Item
  <1>3. item \in KeptItems /\ item.since = LongAgo
    BY <1>2, LongAgoType DEF KeptItems
  <1> QED
    BY <1>3, RowIs DEF KeptItems

LEMMA TablesInvInit == TablesInit => TablesInv
  <1> SUFFICES ASSUME TablesInit PROVE TablesInv
    OBVIOUS
  <1>1. TableTypes
    <2>1. mem \in Seq(KeptItems) /\ doubt \subseteq Keys /\ unread \in BOOLEAN /\ list \in Lists
      <3>1. <<>> \in Seq(KeptItems)
        OBVIOUS
      <3> QED
        BY <3>1 DEF TablesInit
    <2>2. rows \in [Keys -> SUBSET KeptItems]
      BY DEF TablesInit
    <2> QED
      BY <2>1, <2>2 DEF TableTypes
  <1>2. KeysPrimary /\ MemoryFollows
    BY DEF TablesInit, KeysPrimary, MemoryFollows, MemoryIs, At
  <1>3. KindTypes
    <2>1. MaxDeleted \in Nat
      BY TablesAssumption
    <2>2. deleted \in 0 .. MaxDeleted
      BY <2>1 DEF TablesInit
    <2> QED
      BY <2>2 DEF TablesInit, KindTypes
  <1>4. KindsHeld
    BY TablesAssumption DEF TablesInit, KindsHeld
  <1>5. AnswerRight
    BY TablesAssumption DEF TablesInit, AnswerRight, NoQuestion
  <1> QED
    BY <1>1, <1>2, <1>3, <1>4, <1>5 DEF TablesInv, StoreInv

-----------------------------------------------------------------------------
(* Tables: what changes the list and the table *)

LEMMA cfAddStore ==
    ASSUME StoreInv, NEW item \in Offered2, NEW ok \in BOOLEAN, cfAdd(item, ok)
    PROVE  StoreInv'
  <1>1. item \in KeptItems /\ item.since = LongAgo /\ item.key \in Keys /\ Row(item) = item
    BY OfferedIs DEF StoreInv, TableTypes
  <1>2. mem \in Seq(KeptItems) /\ mem' = Append(mem, item) /\ At(item.key) = {}
    BY DEF StoreInv, TableTypes, cfAdd, Addable, InMemory
  <1>3. /\ mem' \in Seq(KeptItems) /\ Len(mem') = Len(mem) + 1 /\ Len(mem) \in Nat
        /\ DOMAIN mem = 1 .. Len(mem) /\ DOMAIN mem' = 1 .. Len(mem) + 1
        /\ \A i \in 1 .. Len(mem) : mem'[i] = mem[i]
        /\ mem'[Len(mem) + 1] = item
    BY <1>1, <1>2
  <1>4. rows \in [Keys -> SUBSET KeptItems] /\ rows' \in [Keys -> SUBSET KeptItems]
    <2>1. rows \in [Keys -> SUBSET KeptItems]
      BY DEF StoreInv, TableTypes
    <2>2. rows' = rows \/ rows' = [rows EXCEPT ![item.key] = {Row(item)}]
      BY DEF cfAdd, Inserted
    <2>3. {Row(item)} \in SUBSET KeptItems
      BY <1>1
    <2> QED
      BY <2>1, <2>2, <2>3
  <1>5. TableTypes'
    <2>1. doubt' \subseteq Keys
      BY <1>1 DEF StoreInv, TableTypes, cfAdd, Doubted2
    <2>2. unread' \in BOOLEAN /\ list' \in Lists
      BY DEF StoreInv, TableTypes, cfAdd
    <2> QED
      BY <1>3, <1>4, <2>1, <2>2 DEF TableTypes
  <1>6. /\ \A k \in Keys : k # item.key => rows'[k] = rows[k]
        /\ rows'[item.key] = rows[item.key] \/ rows'[item.key] = {item}
    BY <1>1, <1>4 DEF cfAdd, Inserted
  <1>7. KeysPrimary'
    <2>1. \A k \in Keys : \A r \in rows'[k] : r.key = k /\ r.since = LongAgo
      BY <1>1, <1>6 DEF StoreInv, KeysPrimary
    <2>2. \A k \in Keys : \A r, s \in rows'[k] : r = s
      BY <1>1, <1>6 DEF StoreInv, KeysPrimary
    <2>3. \A i \in 1 .. Len(mem) : mem[i].key # item.key
      BY <1>2, <1>3 DEF At
    <2>4. \A i, j \in DOMAIN mem' : mem'[i].key = mem'[j].key => i = j
      BY <1>3, <2>3 DEF StoreInv, KeysPrimary
    <2> QED
      BY <2>1, <2>2, <2>4 DEF KeysPrimary
  <1>8. ASSUME NEW k \in Keys, SureOf(k)'
        PROVE  MemoryIs(k)'
    <2>1. CASE k = item.key
      <3>1. ok /\ rows[k] = {}
        BY <1>8, <2>1 DEF SureOf, cfAdd, Doubted2
      <3>2. rows'[k] = {Row(item)}
        BY <1>1, <1>4, <2>1, <3>1 DEF cfAdd, Inserted
      <3>3. At(k)' = {Len(mem) + 1}
        BY <1>2, <1>3, <2>1 DEF At
      <3> QED
        BY <1>3, <3>2, <3>3 DEF MemoryIs
    <2>2. CASE k # item.key
      <3>1. SureOf(k) /\ rows'[k] = rows[k]
        BY <1>6, <1>8, <2>2 DEF SureOf, cfAdd, Doubted2
      <3>2. At(k)' = At(k)
        BY <1>3, <2>2 DEF At
      <3>3. \A i \in At(k) : Row(mem'[i]) = Row(mem[i])
        BY <1>3 DEF At
      <3>4. MemoryIs(k)
        BY <3>1 DEF StoreInv, MemoryFollows
      <3> QED
        BY <3>1, <3>2, <3>3, <3>4 DEF MemoryIs
    <2> QED
      BY <2>1, <2>2
  <1> QED
    BY <1>5, <1>7, <1>8 DEF StoreInv, MemoryFollows

LEMMA cfModStore ==
    ASSUME StoreInv, NEW item \in Offered2, NEW ok \in BOOLEAN, cfMod(item, ok)
    PROVE  StoreInv'
  <1> DEFINE p == First(At(item.key))
             new == Modified(mem[p], item)
  <1>1. item \in KeptItems /\ item.since = LongAgo /\ item.key \in Keys /\ Row(item) = item
    BY OfferedIs DEF StoreInv, TableTypes
  <1>2. /\ mem \in Seq(KeptItems) /\ Len(mem) \in Nat /\ DOMAIN mem = 1 .. Len(mem)
        /\ \A i \in 1 .. Len(mem) : mem[i] \in KeptItems
    <2>1. mem \in Seq(KeptItems)
      BY DEF StoreInv, TableTypes
    <2> QED
      BY <2>1
  <1>3. p \in 1 .. Len(mem) /\ mem[p].key = item.key
    <2>1. At(item.key) \in SUBSET Nat /\ At(item.key) # {}
      BY <1>2 DEF cfMod, InMemory, At
    <2>2. p \in At(item.key)
      BY <2>1, FirstIs
    <2> QED
      BY <1>2, <2>2 DEF At
  <1>4. new \in KeptItems /\ new.key = item.key /\ Row(new) = item
    <2>1. new = [key |-> item.key, val |-> item.val, on |-> item.on, low |-> item.low,
                 every |-> item.every, only |-> item.only, since |-> mem[p].since]
      BY <1>1 DEF Modified, KeptItems
    <2>2. mem[p].since \in 0 .. LongAgo
      BY <1>2, <1>3 DEF KeptItems
    <2>3. new \in KeptItems /\ new.key = item.key
      BY <1>1, <2>1, <2>2 DEF KeptItems
    <2>4. Row(new) = [key |-> item.key, val |-> item.val, on |-> item.on, low |-> item.low,
                      every |-> item.every, only |-> item.only, since |-> LongAgo]
      BY <2>1 DEF Row
    <2>5. item = [key |-> item.key, val |-> item.val, on |-> item.on, low |-> item.low,
                  every |-> item.every, only |-> item.only, since |-> item.since]
      BY <1>1 DEF KeptItems
    <2> QED
      BY <1>1, <2>3, <2>4, <2>5
  <1>5. mem' = [mem EXCEPT ![p] = new]
    BY DEF cfMod
  <1> HIDE DEF p, new
  <1>6. /\ mem' \in Seq(KeptItems) /\ DOMAIN mem' = 1 .. Len(mem) /\ mem'[p] = new
        /\ \A i \in 1 .. Len(mem) : i # p => mem'[i] = mem[i]
        /\ \A i \in 1 .. Len(mem) : mem'[i].key = mem[i].key
    <2>1. mem' \in Seq(KeptItems)
      BY <1>2, <1>3, <1>4, <1>5
    <2>2. DOMAIN mem' = 1 .. Len(mem) /\ mem'[p] = new
          /\ \A i \in 1 .. Len(mem) : i # p => mem'[i] = mem[i]
      BY <1>2, <1>3, <1>5
    <2> QED
      BY <1>3, <1>4, <2>1, <2>2
  <1>7. rows \in [Keys -> SUBSET KeptItems] /\ rows' \in [Keys -> SUBSET KeptItems]
    <2>1. rows \in [Keys -> SUBSET KeptItems]
      BY DEF StoreInv, TableTypes
    <2>2. rows' = rows \/ rows' = [rows EXCEPT ![item.key] = {Row(item)}]
      BY DEF cfMod
    <2>3. {Row(item)} \in SUBSET KeptItems
      BY <1>1
    <2> QED
      BY <2>1, <2>2, <2>3
  <1>8. /\ \A k \in Keys : k # item.key => rows'[k] = rows[k]
        /\ rows'[item.key] = rows[item.key] \/ rows'[item.key] = {item}
    BY <1>1, <1>7 DEF cfMod
  <1>9. TableTypes'
    <2>1. doubt' \subseteq Keys
      BY <1>1 DEF StoreInv, TableTypes, cfMod, Doubted2
    <2>2. unread' \in BOOLEAN /\ list' \in Lists
      BY DEF StoreInv, TableTypes, cfMod
    <2> QED
      BY <1>6, <1>7, <2>1, <2>2 DEF TableTypes
  <1>10. KeysPrimary'
    <2>1. \A k \in Keys : \A r \in rows'[k] : r.key = k /\ r.since = LongAgo
      BY <1>1, <1>8 DEF StoreInv, KeysPrimary
    <2>2. \A k \in Keys : \A r, s \in rows'[k] : r = s
      BY <1>1, <1>8 DEF StoreInv, KeysPrimary
    <2>4. \A i, j \in DOMAIN mem' : mem'[i].key = mem'[j].key => i = j
      BY <1>2, <1>6 DEF StoreInv, KeysPrimary
    <2> QED
      BY <2>1, <2>2, <2>4 DEF KeysPrimary
  <1>11. ASSUME NEW k \in Keys, SureOf(k)'
         PROVE  MemoryIs(k)'
    <2>0. At(k)' = At(k)
      BY <1>2, <1>6 DEF At
    <2>1. CASE k = item.key
      <3>1. ok /\ rows[k] # {}
        BY <1>11, <2>1 DEF SureOf, cfMod, Doubted2
      <3>2. rows'[k] = {item}
        BY <1>1, <1>7, <2>1, <3>1 DEF cfMod
      <3>3. At(k) = {p}
        BY <1>2, <1>3, <2>1 DEF At, StoreInv, KeysPrimary
      <3> QED
        BY <1>4, <1>6, <2>0, <3>2, <3>3 DEF MemoryIs
    <2>2. CASE k # item.key
      <3>1. SureOf(k) /\ rows'[k] = rows[k]
        BY <1>8, <1>11, <2>2 DEF SureOf, cfMod, Doubted2
      <3>2. \A i \in At(k) : Row(mem'[i]) = Row(mem[i])
        BY <1>2, <1>3, <1>6, <2>2 DEF At
      <3>3. MemoryIs(k)
        BY <3>1 DEF StoreInv, MemoryFollows
      <3> QED
        BY <2>0, <3>1, <3>2, <3>3 DEF MemoryIs
    <2> QED
      BY <2>1, <2>2
  <1> QED
    BY <1>9, <1>10, <1>11 DEF StoreInv, MemoryFollows

LEMMA cfDelStore ==
    ASSUME StoreInv, NEW k \in Keys, NEW ok \in BOOLEAN, cfDel(k, ok)
    PROVE  StoreInv'
  <1> DEFINE p == First(At(k))
             moved(j) == IF j < p THEN j ELSE j + 1
  <1>1. mem \in Seq(KeptItems) /\ Len(mem) \in Nat /\ DOMAIN mem = 1 .. Len(mem)
    <2>1. mem \in Seq(KeptItems)
      BY DEF StoreInv, TableTypes
    <2> QED
      BY <2>1
  <1>2. p \in 1 .. Len(mem) /\ mem[p].key = k
    <2>1. At(k) \in SUBSET Nat /\ At(k) # {}
      BY <1>1 DEF cfDel, InMemory, At
    <2>2. p \in At(k)
      BY <2>1, FirstIs
    <2> QED
      BY <1>1, <2>2 DEF At
  <1>3. mem' = RemoveAt(mem, p)
    BY DEF cfDel
  <1> HIDE DEF p
  <1>4. /\ mem' \in Seq(KeptItems) /\ Len(mem') = Len(mem) - 1
        /\ \A j \in 1 .. Len(mem) - 1 : mem'[j] = IF j < p THEN mem[j] ELSE mem[j + 1]
    BY <1>1, <1>2, <1>3, TakenOut
  <1>5. /\ DOMAIN mem' = 1 .. Len(mem) - 1
        /\ \A j \in 1 .. Len(mem) - 1 : mem'[j] = mem[moved(j)]
        /\ \A j \in 1 .. Len(mem) - 1 : moved(j) \in 1 .. Len(mem) /\ moved(j) # p
        /\ \A i, j \in 1 .. Len(mem) - 1 : moved(i) = moved(j) => i = j
        /\ \A i \in 1 .. Len(mem) : i # p => \E j \in 1 .. Len(mem) - 1 : moved(j) = i
    <2>1. DOMAIN mem' = 1 .. Len(mem) - 1
      BY <1>1, <1>2, <1>4
    <2>2. \A j \in 1 .. Len(mem) - 1 : mem'[j] = mem[moved(j)]
      BY <1>4
    <2>3. \A j \in 1 .. Len(mem) - 1 : moved(j) \in 1 .. Len(mem) /\ moved(j) # p
      BY <1>1, <1>2
    <2>4. \A i, j \in 1 .. Len(mem) - 1 : moved(i) = moved(j) => i = j
      BY <1>1, <1>2
    <2>5. ASSUME NEW i \in 1 .. Len(mem), i # p
          PROVE  \E j \in 1 .. Len(mem) - 1 : moved(j) = i
      <3>1. CASE i < p
        BY <1>1, <1>2, <3>1
      <3>2. CASE ~(i < p)
        <4>1. i - 1 \in 1 .. Len(mem) - 1 /\ moved(i - 1) = i
          BY <1>1, <1>2, <2>5, <3>2
        <4> QED
          BY <4>1
      <3> QED
        BY <3>1, <3>2
    <2> QED
      BY <2>1, <2>2, <2>3, <2>4, <2>5
  <1> HIDE DEF moved
  <1>6. \A i \in 1 .. Len(mem) : i # p => mem[i].key # k
    BY <1>1, <1>2 DEF StoreInv, KeysPrimary
  <1>7. /\ rows \in [Keys -> SUBSET KeptItems] /\ rows' \in [Keys -> SUBSET KeptItems]
        /\ \A j \in Keys : j # k => rows'[j] = rows[j]
        /\ rows'[k] = rows[k] \/ rows'[k] = {}
    BY DEF StoreInv, TableTypes, cfDel
  <1>8. TableTypes'
    <2>1. doubt' \subseteq Keys
      BY DEF StoreInv, TableTypes, cfDel, Doubted2
    <2>2. unread' \in BOOLEAN /\ list' \in Lists
      BY DEF StoreInv, TableTypes, cfDel
    <2> QED
      BY <1>4, <1>7, <2>1, <2>2 DEF TableTypes
  <1>9. KeysPrimary'
    <2>1. \A j \in Keys : \A r \in rows'[j] : r.key = j /\ r.since = LongAgo
      BY <1>7 DEF StoreInv, KeysPrimary
    <2>2. \A j \in Keys : \A r, s \in rows'[j] : r = s
      BY <1>7 DEF StoreInv, KeysPrimary
    <2>3. ASSUME NEW i \in DOMAIN mem', NEW j \in DOMAIN mem', mem'[i].key = mem'[j].key
          PROVE  i = j
      <3>1. mem[moved(i)].key = mem[moved(j)].key
        BY <1>5, <2>3
      <3>2. moved(i) = moved(j)
        BY <1>1, <1>5, <3>1 DEF StoreInv, KeysPrimary
      <3> QED
        BY <1>5, <3>2
    <2> QED
      BY <2>1, <2>2, <2>3 DEF KeysPrimary
  <1>10. ASSUME NEW j \in Keys, SureOf(j)'
         PROVE  MemoryIs(j)'
    <2>1. CASE j = k
      <3>1. ok
        BY <1>10, <2>1 DEF SureOf, cfDel, Doubted2
      <3>2. rows'[j] = {}
        BY <1>7, <2>1, <3>1 DEF cfDel
      <3>3. At(j)' = {}
        BY <1>5, <1>6, <2>1 DEF At
      <3> QED
        BY <3>2, <3>3 DEF MemoryIs
    <2>2. CASE j # k
      <3>1. SureOf(j) /\ rows'[j] = rows[j]
        BY <1>7, <1>10, <2>2 DEF SureOf, cfDel, Doubted2
      <3>2. \A i \in At(j)' : moved(i) \in At(j) /\ mem'[i] = mem[moved(i)]
        BY <1>1, <1>5 DEF At
      <3>3. \A i \in At(j) : \E n \in At(j)' : moved(n) = i /\ mem'[n] = mem[i]
        <4> SUFFICES ASSUME NEW i \in At(j)
                     PROVE  \E n \in At(j)' : moved(n) = i /\ mem'[n] = mem[i]
          OBVIOUS
        <4>1. i \in 1 .. Len(mem) /\ i # p /\ mem[i].key = j
          BY <1>1, <1>2, <2>2 DEF At
        <4>2. PICK n \in 1 .. Len(mem) - 1 : moved(n) = i
          BY <1>5, <4>1
        <4>3. mem'[n] = mem[i]
          BY <1>5, <4>2
        <4>4. n \in At(j)'
          BY <1>5, <4>1, <4>3 DEF At
        <4> QED
          BY <4>2, <4>3, <4>4
      <3>4. {Row(mem'[i]) : i \in At(j)'} = {Row(mem[i]) : i \in At(j)}
        BY <3>2, <3>3
      <3>5. MemoryIs(j)
        BY <3>1 DEF StoreInv, MemoryFollows
      <3> QED
        BY <3>1, <3>4, <3>5 DEF MemoryIs
    <2> QED
      BY <2>1, <2>2
  <1> QED
    BY <1>8, <1>9, <1>10 DEF StoreInv, MemoryFollows

LEMMA TriggersStore ==
    ASSUME StoreInv, TriggersOnTimer
    PROVE  StoreInv'
  <1>1. mem \in Seq(KeptItems) /\ Len(mem) \in Nat /\ DOMAIN mem = 1 .. Len(mem)
    <2>1. mem \in Seq(KeptItems)
      BY DEF StoreInv, TableTypes
    <2> QED
      BY <2>1
  <1> DEFINE later(m) == IF Overdue(m) THEN 0 ELSE IF m.since < LongAgo THEN m.since + 1 ELSE m.since
             new(m) == [m EXCEPT !.since = later(m)]
  <1>2. mem' = [i \in 1 .. Len(mem) |-> new(mem[i])]
    BY <1>1 DEF TriggersOnTimer
  <1>3. ASSUME NEW m \in KeptItems
        PROVE  new(m) \in KeptItems /\ new(m).key = m.key /\ Row(new(m)) = Row(m)
    <2>1. later(m) \in 0 .. LongAgo
      BY <1>3, LongAgoType DEF KeptItems
    <2>2. new(m) = [key |-> m.key, val |-> m.val, on |-> m.on, low |-> m.low,
                    every |-> m.every, only |-> m.only, since |-> later(m)]
      BY <1>3 DEF KeptItems
    <2> HIDE DEF later, new
    <2>3. new(m) \in KeptItems /\ new(m).key = m.key
      BY <1>3, <2>1, <2>2 DEF KeptItems
    <2>4. Row(new(m)) = [key |-> m.key, val |-> m.val, on |-> m.on, low |-> m.low,
                         every |-> m.every, only |-> m.only, since |-> LongAgo]
      BY <2>2 DEF Row
    <2>5. Row(m) = [key |-> m.key, val |-> m.val, on |-> m.on, low |-> m.low,
                    every |-> m.every, only |-> m.only, since |-> LongAgo]
      BY <1>3 DEF Row, KeptItems
    <2> QED
      BY <2>3, <2>4, <2>5
  <1> HIDE DEF new
  <1>4. \A i \in 1 .. Len(mem) : mem[i] \in KeptItems
    BY <1>1
  <1>5. /\ DOMAIN mem' = 1 .. Len(mem) /\ mem' \in Seq(KeptItems)
        /\ \A i \in 1 .. Len(mem) : mem'[i].key = mem[i].key /\ Row(mem'[i]) = Row(mem[i])
    <2>1. \A i \in 1 .. Len(mem) : mem'[i] = new(mem[i])
      BY <1>2
    <2>2. mem' \in [1 .. Len(mem) -> KeptItems]
      BY <1>2, <1>3, <1>4
    <2>3. mem' \in Seq(KeptItems)
      BY <1>1, <2>2
    <2> QED
      BY <1>2, <1>3, <1>4, <2>1, <2>3
  <1>6. UNCHANGED <<list, rows, doubt, unread>>
    BY DEF TriggersOnTimer
  <1>7. TableTypes'
    BY <1>5, <1>6 DEF StoreInv, TableTypes
  <1>8. KeysPrimary'
    BY <1>1, <1>5, <1>6 DEF StoreInv, KeysPrimary
  <1>9. \A k \in Keys : At(k)' = At(k)
    BY <1>1, <1>5 DEF At
  <1>10. ASSUME NEW k \in Keys, SureOf(k)'
         PROVE  MemoryIs(k)'
    <2>1. MemoryIs(k)
      BY <1>6, <1>10 DEF SureOf, StoreInv, MemoryFollows
    <2>2. \A i \in At(k) : Row(mem'[i]) = Row(mem[i])
      BY <1>1, <1>5 DEF At
    <2> QED
      BY <1>6, <1>9, <2>1, <2>2 DEF MemoryIs
  <1> QED
    BY <1>7, <1>8, <1>10 DEF StoreInv, MemoryFollows

\* The rows are finitely many, one for a key.
LEMMA StoredFinite ==
    ASSUME StoreInv
    PROVE  /\ IsFiniteSet(Stored2) /\ Stored2 \subseteq KeptItems
           /\ \A r \in Stored2 : r.key \in Keys /\ r \in rows[r.key] /\ r.since = LongAgo
           /\ \A k \in Keys : rows[k] \subseteq Stored2
  <1>1. \A k \in Keys : rows[k] \subseteq Stored2 /\ rows[k] \subseteq KeptItems
    BY DEF StoreInv, TableTypes, Stored2
  <1>2. \A r \in Stored2 : \E k \in Keys : r \in rows[k]
    BY DEF Stored2
  <1>3. \A r \in Stored2 : r.key \in Keys /\ r \in rows[r.key] /\ r.since = LongAgo
    BY <1>2 DEF StoreInv, KeysPrimary
  <1>4. \A r, s \in Stored2 : r.key = s.key => r = s
    BY <1>3 DEF StoreInv, KeysPrimary
  <1> DEFINE keyOf == [r \in Stored2 |-> r.key]
  <1>5. keyOf \in [Stored2 -> Keys]
    BY <1>3
  <1>6. keyOf \in Injection(Stored2, Keys)
    BY <1>4, <1>5 DEF Injection, IsInjective
  <1> HIDE DEF keyOf
  <1>7. IsFiniteSet(Stored2)
    BY <1>6, FS_Injection, TablesAssumption
  <1> QED
    BY <1>1, <1>2, <1>3, <1>7

LEMMA ReloadStore ==
    ASSUME StoreInv, NEW ok \in BOOLEAN, ReloadAll(ok)
    PROVE  StoreInv'
  <1>1. UNCHANGED <<list, rows>> /\ unread' = ~ok /\ doubt' \subseteq Keys
    BY DEF ReloadAll, StoreInv, TableTypes
  <1>2. CASE ~ok
    <2>1. mem' = <<>> /\ unread'
      BY <1>1, <1>2 DEF ReloadAll
    <2>2. mem' \in Seq(KeptItems) /\ DOMAIN mem' = {}
      BY <2>1
    <2>3. TableTypes'
      BY <1>1, <2>2 DEF StoreInv, TableTypes
    <2>4. KeysPrimary'
      BY <1>1, <2>2 DEF StoreInv, KeysPrimary
    <2>5. MemoryFollows'
      BY <2>1 DEF MemoryFollows, SureOf
    <2> QED
      BY <2>3, <2>4, <2>5 DEF StoreInv
  <1>3. CASE ok
    <2> DEFINE n == Cardinality(Stored2)
    <2>1. mem' \in [1 .. n -> Stored2] /\ IsInjective(mem') /\ n \in Nat
      BY <1>3, StoredFinite, FS_CardinalityType DEF ReloadAll, Orders
    <2>2. mem' \in Injection(1 .. n, Stored2)
      BY <2>1 DEF Injection
    <2>3. Cardinality(1 .. n) = n
      BY <2>1, FS_Interval
    <2>4. mem' \in Surjection(1 .. n, Stored2)
      BY <2>2, <2>3, StoredFinite, FS_Injection
    <2>5. \A r \in Stored2 : \E i \in 1 .. n : mem'[i] = r
      BY <2>4 DEF Surjection
    <2> HIDE DEF n
    <2>6. mem' \in Seq(KeptItems) /\ DOMAIN mem' = 1 .. n
      <3>1. mem' \in [1 .. n -> KeptItems]
        BY <2>1, StoredFinite
      <3> QED
        BY <2>1, <3>1
    <2>7. TableTypes'
      BY <1>1, <2>6 DEF StoreInv, TableTypes
    <2>8. KeysPrimary'
      <3>1. ASSUME NEW i \in 1 .. n, NEW j \in 1 .. n, mem'[i].key = mem'[j].key
            PROVE  i = j
        <4>1. mem'[i] \in Stored2 /\ mem'[j] \in Stored2
          BY <2>1
        <4>2. mem'[i] = mem'[j]
          BY <3>1, <4>1, StoredFinite DEF StoreInv, KeysPrimary
        <4> QED
          BY <2>1, <2>6, <4>2 DEF IsInjective
      <3> QED
        BY <1>1, <2>6, <3>1 DEF StoreInv, KeysPrimary
    <2>9. ASSUME NEW k \in Keys
          PROVE  MemoryIs(k)'
      <3>1. \A i \in At(k)' : Row(mem'[i]) \in rows[k]
        <4> SUFFICES ASSUME NEW i \in At(k)'
                     PROVE  Row(mem'[i]) \in rows[k]
          OBVIOUS
        <4>1. i \in 1 .. n /\ mem'[i].key = k
          BY <2>6 DEF At
        <4>2. mem'[i] \in Stored2
          BY <2>1, <4>1
        <4>3. Row(mem'[i]) = mem'[i]
          BY <4>2, StoredFinite, RowIs
        <4> QED
          BY <4>1, <4>2, <4>3, StoredFinite
      <3>2. \A r \in rows[k] : \E i \in At(k)' : r = Row(mem'[i])
        <4> SUFFICES ASSUME NEW r \in rows[k]
                     PROVE  \E i \in At(k)' : r = Row(mem'[i])
          OBVIOUS
        <4>1. r \in Stored2 /\ r.key = k
          BY StoredFinite DEF StoreInv, KeysPrimary
        <4>2. PICK i \in 1 .. n : mem'[i] = r
          BY <2>5, <4>1
        <4>3. i \in At(k)'
          BY <2>6, <4>1, <4>2 DEF At
        <4>4. Row(r) = r
          BY <4>1, StoredFinite, RowIs
        <4> QED
          BY <4>2, <4>3, <4>4
      <3> QED
        BY <1>1, <3>1, <3>2 DEF MemoryIs
    <2> QED
      BY <2>7, <2>8, <2>9 DEF StoreInv, MemoryFollows
  <1> QED
    BY <1>2, <1>3

\* Commands and the clock keep what the hub works with and what it stored together.
LEMMA StoreStep == StoreInv /\ TablesNext => StoreInv'
  <1> SUFFICES ASSUME StoreInv, TablesNext PROVE StoreInv'
    OBVIOUS
  <1>u. UNCHANGED <<list, storeVars>> => StoreInv'
    BY DEF StoreInv, TableTypes, KeysPrimary, MemoryFollows, MemoryIs, SureOf, At, storeVars
  <1>1. ASSUME NEW item \in Offered2, NEW ok \in BOOLEAN, cfAdd(item, ok) \/ cfMod(item, ok)
        PROVE  StoreInv'
    BY <1>1, cfAddStore, cfModStore
  <1>2. ASSUME NEW k \in Keys, NEW ok \in BOOLEAN, cfDel(k, ok)
        PROVE  StoreInv'
    BY <1>2, cfDelStore
  <1>3. ASSUME NEW ok \in BOOLEAN, ReloadAll(ok)
        PROVE  StoreInv'
    BY <1>3, ReloadStore
  <1>4. ASSUME NEW k \in Keys, NEW class \in Lows, NEW operator \in BOOLEAN,
               DoCommand(k, class, operator)
        PROVE  StoreInv'
    BY <1>4, <1>u DEF DoCommand
  <1>5. CASE TriggersOnTimer
    BY <1>5, TriggersStore
  <1>6. ASSUME NEW reason \in Reasons, NEW who \in TurnedAway, MatchByType(reason, who)
        PROVE  StoreInv'
    BY <1>6, <1>u DEF MatchByType
  <1>7. ASSUME NEW id \in Values, FindTag(id)
        PROVE  StoreInv'
    BY <1>7, <1>u DEF FindTag
  <1>8. ASSUME NEW c \in Sessions, NEW k \in Keys, ParseSpeed(c, k)
        PROVE  StoreInv'
    BY <1>8, <1>u DEF ParseSpeed
  <1>9. ASSUME NEW c \in Sessions, NEW tag \in Tags, ValidateTag(c, tag)
        PROVE  StoreInv'
    BY <1>9, <1>u DEF ValidateTag
  <1>10. ASSUME NEW c \in Sessions, Disconnects(c)
         PROVE  StoreInv'
    BY <1>10, <1>u DEF Disconnects
  <1> QED
    BY <1>1, <1>2, <1>3, <1>4, <1>5, <1>6, <1>7, <1>8, <1>9, <1>10 DEF TablesNext

-----------------------------------------------------------------------------
(* Tables: the types of connections *)

\* Which keys are in memory after each of the commands.
LEMMA cfAddKeys ==
    ASSUME StoreInv, NEW item \in Offered2, NEW ok \in BOOLEAN,
           cfAdd(item, ok) \/ cfMod(item, ok), NEW k \in Keys, InMemory(k)
    PROVE  InMemory(k)'
  <1>1. mem \in Seq(KeptItems)
    BY DEF StoreInv, TableTypes
  <1>2. PICK i \in 1 .. Len(mem) : mem[i].key = k
    BY <1>1 DEF InMemory, At
  <1>3. item \in KeptItems
    BY OfferedIs DEF StoreInv, TableTypes
  <1>4. CASE cfAdd(item, ok)
    <2>1. mem' = Append(mem, item)
      BY <1>4 DEF cfAdd
    <2>2. i \in DOMAIN mem' /\ mem'[i] = mem[i]
      BY <1>1, <1>3, <2>1
    <2> QED
      BY <1>2, <2>2 DEF InMemory, At
  <1>5. CASE cfMod(item, ok)
    <2> DEFINE p == First(At(item.key))
    <2>1. mem' = [mem EXCEPT ![p] = Modified(mem[p], item)]
      BY <1>5 DEF cfMod
    <2>2. p \in At(item.key)
      <3>1. At(item.key) \in SUBSET Nat /\ At(item.key) # {}
        BY <1>1, <1>5 DEF cfMod, InMemory, At
      <3> QED
        BY <3>1, FirstIs
    <2>3. mem[p].key = item.key /\ Modified(mem[p], item).key = item.key
      BY <1>3, <2>2 DEF At, Modified, KeptItems
    <2> HIDE DEF p
    <2>4. i \in DOMAIN mem' /\ mem'[i].key = k
      BY <1>1, <1>2, <2>1, <2>3
    <2> QED
      BY <2>4 DEF InMemory, At
  <1> QED
    BY <1>4, <1>5

LEMMA cfDelKeys ==
    ASSUME StoreInv, NEW k \in Keys, NEW ok \in BOOLEAN, cfDel(k, ok),
           NEW j \in Keys, j # k, InMemory(j)
    PROVE  InMemory(j)'
  <1> DEFINE p == First(At(k))
  <1>1. mem \in Seq(KeptItems)
    BY DEF StoreInv, TableTypes
  <1>2. PICK i \in 1 .. Len(mem) : mem[i].key = j
    BY <1>1 DEF InMemory, At
  <1>3. p \in 1 .. Len(mem) /\ mem[p].key = k
    <2>1. At(k) \in SUBSET Nat /\ At(k) # {}
      BY <1>1 DEF cfDel, InMemory, At
    <2>2. p \in At(k)
      BY <2>1, FirstIs
    <2> QED
      BY <1>1, <2>2 DEF At
  <1>4. mem' = RemoveAt(mem, p)
    BY DEF cfDel
  <1> HIDE DEF p
  <1>5. /\ mem' \in Seq(KeptItems) /\ Len(mem') = Len(mem) - 1 /\ Len(mem) \in Nat
        /\ \A n \in 1 .. Len(mem) - 1 : mem'[n] = IF n < p THEN mem[n] ELSE mem[n + 1]
    <2>1. Len(mem) \in Nat
      BY <1>1
    <2> QED
      BY <1>1, <1>3, <1>4, <2>1, TakenOut
  <1>6. \E n \in 1 .. Len(mem) - 1 : mem'[n] = mem[i]
    <2>1. CASE i < p
      BY <1>2, <1>3, <1>5, <2>1
    <2>2. CASE ~(i < p)
      <3>1. i # p
        BY <1>2, <1>3
      <3>2. i - 1 \in 1 .. Len(mem) - 1 /\ ~(i - 1 < p) /\ (i - 1) + 1 = i
        BY <1>3, <1>5, <2>2, <3>1
      <3>3. mem'[i - 1] = mem[i]
        BY <1>5, <3>2
      <3> QED
        BY <3>2, <3>3
    <2> QED
      BY <2>1, <2>2
  <1>7. PICK n \in 1 .. Len(mem) - 1 : mem'[n] = mem[i]
    BY <1>6
  <1>8. n \in DOMAIN mem' /\ mem'[n].key = j
    BY <1>2, <1>5, <1>7
  <1> QED
    BY <1>8 DEF InMemory, At

\* Who has a type has one that is there, or that was deleted under him.
LEMMA KindsStep ==
    ASSUME StoreInv, KindTypes, KindsHeld, TablesNext
    PROVE  KindTypes' /\ KindsHeld'
  <1>l. list \in Lists /\ list' = list
    BY DEF StoreInv, TableTypes, TablesNext, cfAdd, cfMod, cfDel, ReloadAll, DoCommand,
           TriggersOnTimer, MatchByType, FindTag, ParseSpeed, ValidateTag, Disconnects
  <1>u. ASSUME UNCHANGED typeVars, \A k \in Keys : list = "conntypes" /\ InMemory(k) => InMemory(k)'
        PROVE  KindTypes' /\ KindsHeld'
    <2>1. UNCHANGED <<kind, freed, deleted, wild>>
      BY <1>u DEF typeVars
    <2>2. KindTypes'
      BY <2>1 DEF KindTypes
    <2>3. ASSUME NEW c \in Sessions, kind[c] \in Keys, ~freed[c]
          PROVE  InMemory(kind[c])'
      <3>1. list = "conntypes"
        BY <2>3, TablesAssumption DEF KindsHeld
      <3>2. InMemory(kind[c])
        BY <2>3 DEF KindsHeld
      <3>3. \A k \in Keys : kind[c] = k => InMemory(k)'
        BY <1>u, <3>1, <3>2 DEF InMemory, At
      <3> QED
        BY <2>1, <2>3, <3>3 DEF InMemory, At
    <2>4. \A c \in Sessions : kind'[c] \in Keys /\ ~freed'[c] => InMemory(kind[c])'
      BY <2>1, <2>3
    <2> QED
      BY <1>l, <2>1, <2>2, <2>4 DEF KindsHeld
  <1>m. mem' = mem => \A k \in Keys : InMemory(k) => InMemory(k)'
    BY DEF InMemory, At
  <1>1. ASSUME NEW item \in Offered2, NEW ok \in BOOLEAN, cfAdd(item, ok) \/ cfMod(item, ok)
        PROVE  KindTypes' /\ KindsHeld'
    <2>1. UNCHANGED typeVars
      BY <1>1 DEF cfAdd, cfMod
    <2>2. \A k \in Keys : InMemory(k) => InMemory(k)'
      BY <1>1, cfAddKeys
    <2> QED
      BY <1>u, <2>1, <2>2
  <1>2. ASSUME NEW k \in Keys, NEW ok \in BOOLEAN, cfDel(k, ok)
        PROVE  KindTypes' /\ KindsHeld'
    <2>1. /\ UNCHANGED <<kind, wild>> /\ freed' = [c \in Sessions |-> freed[c] \/ kind[c] = k]
          /\ deleted' = IF list = "conntypes" THEN deleted + 1 ELSE deleted
          /\ list = "conntypes" => deleted < MaxDeleted
      BY <1>2 DEF cfDel
    <2>2. ASSUME NEW c \in Sessions
          PROVE  freed'[c] \in BOOLEAN /\ (freed'[c] <=> freed[c] \/ kind[c] = k)
      BY <2>1, <2>2 DEF KindTypes
    <2>3. freed' \in [Sessions -> BOOLEAN]
      BY <2>1 DEF KindTypes
    <2>4. KindTypes'
      BY <2>1, <2>3, TablesAssumption DEF KindTypes
    <2>5. \A c \in Sessions : freed'[c] => deleted' > 0
      <3> SUFFICES ASSUME NEW c \in Sessions, freed'[c]
                   PROVE  deleted' > 0
        OBVIOUS
      <3>1. CASE freed[c]
        BY <2>1, <3>1 DEF KindTypes, KindsHeld
      <3>2. CASE kind[c] = k
        BY <2>1, <3>2, TablesAssumption DEF KindTypes, KindsHeld
      <3> QED
        BY <2>2, <3>1, <3>2
    <2>6. ASSUME NEW c \in Sessions, kind[c] \in Keys, ~freed'[c]
          PROVE  InMemory(kind[c])'
      <3>1. ~freed[c] /\ kind[c] # k
        BY <2>2, <2>6
      <3>2. InMemory(kind[c])
        BY <2>6, <3>1 DEF KindsHeld
      <3>3. \A j \in Keys : kind[c] = j => InMemory(j)'
        BY <1>2, <3>1, <3>2, cfDelKeys DEF InMemory, At
      <3> QED
        BY <2>1, <2>6, <3>3 DEF InMemory, At
    <2>7. wild' => deleted' > 0
      BY <2>1 DEF KindTypes, KindsHeld
    <2> QED
      BY <1>l, <2>1, <2>4, <2>5, <2>6, <2>7 DEF KindsHeld
  <1>3. ASSUME NEW ok \in BOOLEAN, ReloadAll(ok)
        PROVE  KindTypes' /\ KindsHeld'
    BY <1>3, <1>u DEF ReloadAll
  <1>4. ASSUME NEW k \in Keys, NEW class \in Lows, NEW operator \in BOOLEAN,
               DoCommand(k, class, operator)
        PROVE  KindTypes' /\ KindsHeld'
    BY <1>4, <1>u, <1>m DEF DoCommand, storeVars
  <1>5. CASE TriggersOnTimer
    BY <1>5, <1>u DEF TriggersOnTimer
  <1>6. ASSUME NEW reason \in Reasons, NEW who \in TurnedAway, MatchByType(reason, who)
        PROVE  KindTypes' /\ KindsHeld'
    BY <1>6, <1>u, <1>m DEF MatchByType, storeVars
  <1>7. ASSUME NEW id \in Values, FindTag(id)
        PROVE  KindTypes' /\ KindsHeld'
    BY <1>7, <1>u, <1>m DEF FindTag, storeVars
  <1>8. ASSUME NEW c \in Sessions, NEW k \in Keys, ParseSpeed(c, k)
        PROVE  KindTypes' /\ KindsHeld'
    <2>1. /\ list = "conntypes" /\ mem' = mem /\ UNCHANGED <<freed, deleted, wild>>
          /\ kind' = [kind EXCEPT ![c] = FindConnType(k)]
      BY <1>8 DEF ParseSpeed, storeVars
    <2>2. PICK t : t = FindConnType(k)
      OBVIOUS
    <2>3. t \in Keys \cup {"mModel"} /\ (t \in Keys => InMemory(t))
      <3>1. CASE InMemory(k)
        BY <2>2, <3>1 DEF FindConnType
      <3>2. CASE ~InMemory(k) /\ InMemory(Default)
        <4>1. t = Default
          BY <2>2, <3>2 DEF FindConnType
        <4>2. Default \in Keys
          <5>1. mem \in Seq(KeptItems)
            BY DEF StoreInv, TableTypes
          <5>2. PICK i \in DOMAIN mem : mem[i].key = Default
            BY <3>2 DEF InMemory, At
          <5>3. mem[i] \in KeptItems
            BY <5>1
          <5> QED
            BY <5>2, <5>3 DEF KeptItems
        <4> QED
          BY <3>2, <4>1, <4>2 DEF Default
      <3>3. CASE ~InMemory(k) /\ ~InMemory(Default)
        BY <2>2, <3>3, TablesAssumption DEF FindConnType
      <3> QED
        BY <3>1, <3>2, <3>3
    <2>4. KindTypes'
      BY <2>1, <2>2, <2>3 DEF KindTypes
    <2>5. ASSUME NEW d \in Sessions, kind'[d] \in Keys, ~freed'[d]
          PROVE  InMemory(kind[d])'
      <3>1. CASE d = c
        BY <2>1, <2>2, <2>3, <2>5, <3>1 DEF KindTypes, InMemory, At
      <3>2. CASE d # c
        BY <2>1, <2>5, <3>2 DEF KindTypes, KindsHeld, InMemory, At
      <3> QED
        BY <3>1, <3>2
    <2> QED
      BY <1>l, <2>1, <2>4, <2>5 DEF KindsHeld
  <1>9. ASSUME NEW c \in Sessions, NEW tag \in Tags, ValidateTag(c, tag)
        PROVE  KindTypes' /\ KindsHeld'
    <2>1. mem' = mem /\ UNCHANGED <<kind, freed, deleted>> /\ wild' = (wild \/ freed[c])
      BY <1>9 DEF ValidateTag, storeVars
    <2>2. KindTypes'
      BY <2>1 DEF KindTypes
    <2>3. wild' => deleted' > 0
      BY <2>1 DEF KindTypes, KindsHeld
    <2>4. \A d \in Sessions : kind'[d] \in Keys /\ ~freed'[d] => InMemory(kind[d])'
      BY <2>1 DEF KindsHeld, InMemory, At
    <2> QED
      BY <1>l, <2>1, <2>2, <2>3, <2>4 DEF KindsHeld
  <1>10. ASSUME NEW c \in Sessions, Disconnects(c)
         PROVE  KindTypes' /\ KindsHeld'
    <2>1. /\ list = "conntypes" /\ mem' = mem /\ UNCHANGED <<deleted, wild>>
          /\ kind' = [kind EXCEPT ![c] = Nothing2] /\ freed' = [freed EXCEPT ![c] = FALSE]
      BY <1>10 DEF Disconnects, storeVars
    <2>2. KindTypes'
      BY <2>1 DEF KindTypes
    <2>3. \A d \in Sessions : freed'[d] => deleted' > 0
      BY <2>1 DEF KindTypes, KindsHeld
    <2>4. ASSUME NEW d \in Sessions, kind'[d] \in Keys, ~freed'[d]
          PROVE  InMemory(kind[d])'
      <3>1. d # c
        BY <2>1, <2>4, TablesAssumption DEF KindTypes
      <3> QED
        BY <2>1, <2>4, <3>1 DEF KindTypes, KindsHeld, InMemory, At
    <2> QED
      BY <1>l, <2>1, <2>2, <2>3, <2>4 DEF KindsHeld, KindTypes
  <1> QED
    BY <1>1, <1>2, <1>3, <1>4, <1>5, <1>6, <1>7, <1>8, <1>9, <1>10 DEF TablesNext

-----------------------------------------------------------------------------
(* Tables: what is answered *)

\* When everything is as stored, an item in memory is enabled, for a value or
\* fits a user as its row does.
LEMMA StoredIs ==
    ASSUME StoreInv, ~unread, doubt = {}
    PROVE  /\ \A i \in DOMAIN mem : mem[i] \in KeptItems /\ mem[i].key \in Keys
                                   /\ Row(mem[i]) \in rows[mem[i].key]
           /\ \A k \in Keys : \A r \in rows[k] : \E i \in DOMAIN mem : mem[i].key = k /\ r = Row(mem[i])
  <1>1. \A k \in Keys : rows[k] = {Row(mem[i]) : i \in At(k)}
    BY DEF StoreInv, MemoryFollows, SureOf, MemoryIs
  <1>2. \A i \in DOMAIN mem : mem[i] \in KeptItems
    <2>1. mem \in Seq(KeptItems)
      BY DEF StoreInv, TableTypes
    <2> QED
      BY <2>1
  <1>3. ASSUME NEW i \in DOMAIN mem
        PROVE  mem[i].key \in Keys /\ Row(mem[i]) \in rows[mem[i].key]
    <2>1. mem[i].key \in Keys /\ i \in At(mem[i].key)
      BY <1>2 DEF KeptItems, At
    <2> QED
      BY <1>1, <2>1
  <1>4. ASSUME NEW k \in Keys, NEW r \in rows[k]
        PROVE  \E i \in DOMAIN mem : mem[i].key = k /\ r = Row(mem[i])
    <2>1. PICK i \in At(k) : r = Row(mem[i])
      BY <1>1
    <2> QED
      BY <2>1 DEF At
  <1> QED
    BY <1>2, <1>3, <1>4

LEMMA RowFits ==
    ASSUME NEW x \in KeptItems, NEW reason, NEW who
    PROVE  Fits(Row(x), reason, who) <=> Fits(x, reason, who)
  BY RowIs DEF Fits

\* A user is sent to where a row that fits him leads, unless none does.
LEMMA MatchAnswer ==
    ASSUME StoreInv, NEW reason \in Reasons, NEW who \in TurnedAway, MatchByType(reason, who)
    PROVE  AnswerRight'
  <1> DEFINE fitting == {k \in Keys : \E r \in rows[k] : Fits(r, reason, who)}
             fits == {i \in DOMAIN mem : Fits(mem[i], reason, who)}
  <1>0. mem \in Seq(KeptItems) /\ DOMAIN mem \subseteq Nat
    <2>1. mem \in Seq(KeptItems)
      BY DEF StoreInv, TableTypes
    <2> QED
      BY <2>1
  <1>1. PICK i \in Considered(reason, who) \cup {0} :
            /\ i = 0 => Considered(reason, who) = {}
            /\ asked' = [of |-> "redirect", reason |-> reason, who |-> who,
                         answer |-> IF i = 0 \/ reason \in NoRedir THEN Nothing2
                                    ELSE Goal(mem[i].key)]
    BY DEF MatchByType
  <1>2. /\ asked'.of = "redirect" /\ asked'.reason = reason /\ asked'.who = who
        /\ asked'.answer = IF i = 0 \/ reason \in NoRedir THEN Nothing2 ELSE Goal(mem[i].key)
    BY <1>1
  <1>3. FittingKeys' = fitting /\ UNCHANGED <<rows, doubt, unread>>
    BY <1>2 DEF FittingKeys, MatchByType, storeVars, Fits, Applies
  <1> SUFFICES ASSUME ~unread, doubt = {}
               PROVE  IF fitting = {} \/ reason \in NoRedir THEN asked'.answer = Nothing2
                      ELSE \E k \in fitting : asked'.answer = Goal(k)
    BY <1>2, <1>3, TablesAssumption DEF AnswerRight, SentRight, Goal
  <1>4. \A j \in fits : mem[j].key \in fitting
    <2> SUFFICES ASSUME NEW j \in fits
                 PROVE  mem[j].key \in fitting
      OBVIOUS
    <2>1. mem[j] \in KeptItems /\ mem[j].key \in Keys /\ Row(mem[j]) \in rows[mem[j].key]
      BY StoredIs
    <2>2. Fits(Row(mem[j]), reason, who)
      BY <2>1, RowFits
    <2> QED
      BY <2>1, <2>2
  <1>5. \A k \in fitting : fits # {}
    <2> SUFFICES ASSUME NEW k \in Keys, NEW r \in rows[k], Fits(r, reason, who)
                 PROVE  fits # {}
      OBVIOUS
    <2>1. PICK j \in DOMAIN mem : mem[j] \in KeptItems /\ r = Row(mem[j])
      BY StoredIs
    <2>2. Fits(mem[j], reason, who)
      BY <2>1, RowFits
    <2> QED
      BY <2>2
  <1>6. CASE i = 0
    <2>1. fits = {}
      <3> SUFFICES ASSUME fits # {} PROVE FALSE
        OBVIOUS
      <3>1. fits \in SUBSET Nat
        BY <1>0
      <3>2. First(fits) \in fits /\ \A j \in fits : First(fits) <= j
        BY <3>1, FirstIs
      <3> HIDE DEF fits
      <3>3. {j \in fits : j < First(fits)} = {}
        <4> SUFFICES ASSUME NEW j \in fits, j < First(fits) PROVE FALSE
          OBVIOUS
        <4>1. j \in Nat /\ First(fits) \in Nat /\ First(fits) <= j
          BY <3>1, <3>2
        <4> QED
          BY <4>1
      <3>4. Cardinality({j \in fits : j < First(fits)}) = 0
        BY <3>3, FS_EmptySet
      <3>5. First(fits) \in Considered(reason, who)
        BY <3>2, <3>4, TablesAssumption DEF Considered, fits
      <3> QED
        BY <1>1, <1>6, <3>5
    <2> QED
      BY <1>2, <1>5, <1>6, <2>1
  <1>7. CASE i # 0
    <2>1. i \in fits
      BY <1>1, <1>7 DEF Considered
    <2> QED
      BY <1>2, <1>4, <1>7, <2>1
  <1> QED
    BY <1>6, <1>7

\* A client is found unless none fits.
LEMMA FindAnswer ==
    ASSUME StoreInv, NEW id \in Values, FindTag(id)
    PROVE  AnswerRight'
  <1> DEFINE named == {k \in Keys : \E r \in rows[k] : r.on /\ r.val = id}
  <1>0. mem \in Seq(KeptItems) /\ DOMAIN mem \subseteq Nat
    <2>1. mem \in Seq(KeptItems)
      BY DEF StoreInv, TableTypes
    <2> QED
      BY <2>1
  <1>1. /\ asked'.of = id /\ UNCHANGED <<rows, doubt, unread>>
        /\ asked'.answer = IF Named(id) = {} THEN Nothing2 ELSE mem[First(Named(id))].key
    BY DEF FindTag, Answered2, storeVars
  <1>2. NamedKeys' = named /\ id # "redirect"
    BY <1>1, TablesAssumption DEF NamedKeys
  <1> SUFFICES ASSUME ~unread, doubt = {}
               PROVE  IF named = {} THEN asked'.answer = Nothing2 ELSE asked'.answer \in named
    BY <1>1, <1>2 DEF AnswerRight, FoundRight
  <1>3. \A j \in Named(id) : mem[j].key \in named
    <2> SUFFICES ASSUME NEW j \in DOMAIN mem, mem[j].on, mem[j].val = id
                 PROVE  mem[j].key \in named
      BY DEF Named
    <2>1. mem[j] \in KeptItems /\ mem[j].key \in Keys /\ Row(mem[j]) \in rows[mem[j].key]
      BY StoredIs
    <2> QED
      BY <2>1, RowIs
  <1>4. \A k \in named : Named(id) # {}
    <2> SUFFICES ASSUME NEW k \in Keys, NEW r \in rows[k], r.on, r.val = id
                 PROVE  Named(id) # {}
      OBVIOUS
    <2>1. PICK j \in DOMAIN mem : mem[j] \in KeptItems /\ r = Row(mem[j])
      BY StoredIs
    <2> QED
      BY <2>1, RowIs DEF Named
  <1>5. CASE Named(id) = {}
    BY <1>1, <1>4, <1>5
  <1>6. CASE Named(id) # {}
    <2>1. Named(id) \in SUBSET Nat
      BY <1>0 DEF Named
    <2>2. First(Named(id)) \in Named(id)
      BY <1>6, <2>1, FirstIs
    <2> QED
      BY <1>1, <1>3, <1>6, <2>2
  <1> QED
    BY <1>5, <1>6

\* Whatever changes the table or the list asks nothing, and no other question
\* is about a value.
LEMMA AnswerStep ==
    ASSUME StoreInv, TablesNext
    PROVE  AnswerRight'
  <1>0. ASSUME asked'.of \in {"nobody", "command", "timer", "tag"}
        PROVE  AnswerRight'
    BY <1>0, TablesAssumption DEF AnswerRight
  <1>1. ASSUME NEW item \in Offered2, NEW ok \in BOOLEAN, cfAdd(item, ok) \/ cfMod(item, ok)
        PROVE  AnswerRight'
    BY <1>0, <1>1 DEF cfAdd, cfMod, NoQuestion
  <1>2. ASSUME NEW k \in Keys, NEW ok \in BOOLEAN, cfDel(k, ok)
        PROVE  AnswerRight'
    BY <1>0, <1>2 DEF cfDel, NoQuestion
  <1>3. ASSUME NEW ok \in BOOLEAN, ReloadAll(ok)
        PROVE  AnswerRight'
    BY <1>0, <1>3 DEF ReloadAll, NoQuestion
  <1>4. ASSUME NEW k \in Keys, NEW class \in Lows, NEW operator \in BOOLEAN,
               DoCommand(k, class, operator)
        PROVE  AnswerRight'
    <2>1. \E a : asked' = [of |-> "command", answer |-> a]
      BY <1>4 DEF DoCommand
    <2> QED
      BY <1>0, <2>1
  <1>5. CASE TriggersOnTimer
    <2>1. \E a : asked' = [of |-> "timer", answer |-> a]
      BY <1>5 DEF TriggersOnTimer
    <2> QED
      BY <1>0, <2>1
  <1>6. ASSUME NEW reason \in Reasons, NEW who \in TurnedAway, MatchByType(reason, who)
        PROVE  AnswerRight'
    BY <1>6, MatchAnswer
  <1>7. ASSUME NEW id \in Values, FindTag(id)
        PROVE  AnswerRight'
    BY <1>7, FindAnswer
  <1>8. ASSUME NEW c \in Sessions, NEW k \in Keys, ParseSpeed(c, k)
        PROVE  AnswerRight'
    BY <1>0, <1>8 DEF ParseSpeed, NoQuestion
  <1>9. ASSUME NEW c \in Sessions, NEW tag \in Tags, ValidateTag(c, tag)
        PROVE  AnswerRight'
    <2>1. \E a : asked' = [of |-> "tag", answer |-> a]
      BY <1>9 DEF ValidateTag
    <2> QED
      BY <1>0, <2>1
  <1>10. ASSUME NEW c \in Sessions, Disconnects(c)
         PROVE  AnswerRight'
    BY <1>0, <1>10 DEF Disconnects, NoQuestion
  <1> QED
    BY <1>1, <1>2, <1>3, <1>4, <1>5, <1>6, <1>7, <1>8, <1>9, <1>10 DEF TablesNext

LEMMA TablesInvStep == TablesInv /\ [TablesNext]_tablesVars => TablesInv'
  <1> SUFFICES ASSUME TablesInv, [TablesNext]_tablesVars PROVE TablesInv'
    OBVIOUS
  <1>1. CASE TablesNext
    BY <1>1, StoreStep, KindsStep, AnswerStep DEF TablesInv
  <1>2. CASE UNCHANGED tablesVars
    BY <1>2 DEF tablesVars, TablesInv, StoreInv, TableTypes, KeysPrimary, MemoryFollows, MemoryIs,
                SureOf, At, KindTypes, KindsHeld, InMemory, AnswerRight, FoundRight, SentRight,
                NamedKeys, FittingKeys, Fits, Applies, Goal
  <1> QED
    BY <1>1, <1>2

\* No key is twice in memory, in the words of the property.
LEMMA OncePerKey ==
    ASSUME StoreInv, NEW k \in Keys
    PROVE  Cardinality(At(k)) <= 1
  <1>1. \A i, j \in At(k) : i = j
    BY DEF StoreInv, KeysPrimary, At
  <1>2. CASE At(k) = {}
    BY <1>2, FS_EmptySet
  <1>3. CASE At(k) # {}
    <2>1. PICK i : At(k) = {i}
      BY <1>1, <1>3
    <2>2. Cardinality({i}) = 1
      BY FS_Singleton
    <2> QED
      BY <2>1, <2>2
  <1> QED
    BY <1>2, <1>3

LEMMA TablesInvRight == TablesInv => TablesRight
  <1> SUFFICES ASSUME TablesInv PROVE TablesRight
    OBVIOUS
  <1>1. \A k \in Keys : Cardinality(At(k)) <= 1
    BY OncePerKey DEF TablesInv
  <1>2. \A k \in Keys : SureOf(k) => {Row(mem[i]) : i \in At(k)} = rows[k]
    BY DEF TablesInv, StoreInv, MemoryFollows, MemoryIs
  <1>3. ~unread /\ doubt = {} =>
            (asked.of \in Values => FoundRight) /\ (asked.of = "redirect" => SentRight)
    BY DEF TablesInv, AnswerRight
  <1>4. /\ \A c \in Sessions : kind[c] \in Keys /\ ~freed[c] => InMemory(kind[c])
        /\ wild => deleted > 0
    BY DEF TablesInv, KindsHeld
  <1> QED
    BY <1>1, <1>2, <1>3, <1>4 DEF TablesRight, FoundRight, SentRight, NamedKeys, FittingKeys

\* The lists of triggers, redirects, clients and connection types: what the
\* hub works with is what it stored, but for queries that failed unnoticed;
\* it answers from it as the table would; and a type of connection goes away
\* under a connection only by !delconntype (tmysqlmemorylist.h, tlistconsole.h).
THEOREM TablesRightAlways == TablesSpec => []TablesRight
  <1>1. TablesInit => TablesInv
    BY TablesInvInit
  <1>2. TablesInv /\ [TablesNext]_tablesVars => TablesInv'
    BY TablesInvStep
  <1>3. TablesInv => TablesRight
    BY TablesInvRight
  <1> QED
    BY <1>1, <1>2, <1>3, PTL DEF TablesSpec

-----------------------------------------------------------------------------
(* Console: the invariant of the classes that is inductive *)

\* accounts and sessions have classes, which are numbers
RankTypes ==
    /\ rank \in [Folk -> Int]
    /\ regRow \in [Folk -> SUBSET [class : Nat, protect : Int, repass : BOOLEAN]]
    /\ \A n \in Folk : \A a, b \in regRow[n] : a = b
    /\ first.top \in Int

\* how high somebody may be: over the highest at first is nobody, and as
\* high only who was
Within(n, k) == k <= first.top /\ (k = first.top => n \in first.who)
Bounded2 == first.top < Master /\ classdif_reg > 0 /\ autoreg_class < first.top
RanksInv ==
    /\ RankTypes
    /\ Bounded2 => \A n \in Folk : Within(n, rank[n]) /\ Within(n, StoredRank(n))

\* An account that is there is the only one of its nick.
LEMMA AccountIs ==
    ASSUME RankTypes, NEW n \in Folk
    PROVE  /\ regRow[n] # {} => /\ AccountOf(n) \in [class : Nat, protect : Int, repass : BOOLEAN]
                                /\ regRow[n] = {AccountOf(n)}
                                /\ StoredRank(n) = AccountOf(n).class
           /\ regRow[n] = {} => StoredRank(n) = Guest
           /\ StoredRank(n) \in Int
  <1>1. regRow[n] \subseteq [class : Nat, protect : Int, repass : BOOLEAN]
    BY DEF RankTypes
  <1>2. CASE regRow[n] = {}
    BY <1>2 DEF StoredRank, Guest
  <1>3. CASE regRow[n] # {}
    <2>1. AccountOf(n) \in regRow[n]
      BY <1>3 DEF AccountOf
    <2>2. regRow[n] = {AccountOf(n)}
      BY <2>1 DEF RankTypes
    <2>3. AccountOf(n) \in [class : Nat, protect : Int, repass : BOOLEAN]
      BY <1>1, <2>1
    <2>4. AccountOf(n).class \in Nat
      BY <2>3
    <2> QED
      BY <1>3, <2>2, <2>3, <2>4 DEF StoredRank
  <1> QED
    BY <1>2, <1>3

LEMMA RanksInvInit == ConsoleInit => RanksInv
  <1> SUFFICES ASSUME ConsoleInit PROVE RanksInv
    OBVIOUS
  <1>1. Accounts \subseteq [class : Nat, protect : Int, repass : BOOLEAN]
    <2>1. Ranks \subseteq Nat /\ {0} \subseteq Int /\ {FALSE} \subseteq BOOLEAN
      BY ConsoleAssumption
    <2> QED
      BY <2>1 DEF Accounts
  <1>2. regRow \in [Folk -> {{}} \cup {{a} : a \in Accounts}] /\ rank = [n \in Folk |-> Outside]
    BY DEF ConsoleInit
  <1>3. \A n \in Folk : regRow[n] = {} \/ \E a \in Accounts : regRow[n] = {a}
    BY <1>2
  <1>4. \A n \in Folk : regRow[n] \in SUBSET [class : Nat, protect : Int, repass : BOOLEAN]
    BY <1>1, <1>3
  <1>5. regRow \in [Folk -> SUBSET [class : Nat, protect : Int, repass : BOOLEAN]]
    BY <1>2, <1>4
  <1>6. \A n \in Folk : \A a, b \in regRow[n] : a = b
    BY <1>3
  <1>7. PICK top \in {StoredRank(n) : n \in Folk} :
            /\ \A n \in Folk : StoredRank(n) <= top
            /\ first = [top |-> top, who |-> {n \in Folk : StoredRank(n) = top}]
    BY DEF ConsoleInit
  <1>8. \A n \in Folk : StoredRank(n) \in Int
    <2> SUFFICES ASSUME NEW n \in Folk PROVE StoredRank(n) \in Int
      OBVIOUS
    <2>1. CASE regRow[n] = {}
      BY <2>1 DEF StoredRank, Guest
    <2>2. CASE regRow[n] # {}
      <3>1. AccountOf(n) \in regRow[n]
        BY <2>2 DEF AccountOf
      <3>2. AccountOf(n).class \in Nat
        BY <1>4, <3>1
      <3> QED
        BY <2>2, <3>2 DEF StoredRank
    <2> QED
      BY <2>1, <2>2
  <1>9. first.top = top /\ first.who = {n \in Folk : StoredRank(n) = top} /\ top \in Int
    BY <1>7, <1>8
  <1>10. RankTypes
    <2>1. rank \in [Folk -> Int]
      BY <1>2 DEF Outside
    <2> QED
      BY <1>5, <1>6, <1>9, <2>1 DEF RankTypes
  <1>11. ASSUME Bounded2, NEW n \in Folk
         PROVE  Within(n, rank[n]) /\ Within(n, StoredRank(n))
    <2>1. Within(n, StoredRank(n))
      BY <1>7, <1>9 DEF Within
    <2>2. first.top > 0
      BY <1>9, <1>11, ConsoleAssumption DEF Bounded2
    <2>3. Within(n, rank[n])
      BY <1>2, <1>9, <2>2 DEF Within, Outside
    <2> QED
      BY <2>1, <2>3
  <1> QED
    BY <1>10, <1>11 DEF RanksInv

\* Who is not registered, and who is away, is below the highest at first.
LEMMA LowIsWithin ==
    ASSUME RanksInv, Bounded2, NEW n
    PROVE  Within(n, Guest) /\ Within(n, Outside) /\ Within(n, autoreg_class)
  BY ConsoleAssumption DEF RanksInv, RankTypes, Bounded2, Within, Guest, Outside

\* What the new sessions and accounts are, each within its bounds, is within
\* them all: what a step has to keep.
LEMMA RanksFrom ==
    ASSUME RanksInv, first' = first, RankTypes',
           ASSUME Bounded2, NEW n \in Folk
           PROVE  Within(n, rank'[n]) /\ Within(n, StoredRank(n)')
    PROVE  RanksInv'
  BY DEF RanksInv, Bounded2, Within

OneAccount(n, a) ==
    a \in [class : Nat, protect : Int, repass : BOOLEAN] /\ (Bounded2 => Within(n, a.class))

\* Only the classes of sessions change, to what is within the bounds.
LEMMA SessionsFrom ==
    ASSUME RanksInv, UNCHANGED <<first, regRow>>, NEW n \in Folk, NEW k \in Int,
           rank' = [rank EXCEPT ![n] = k], Bounded2 => Within(n, k)
    PROVE  RanksInv'
  <1>1. RankTypes'
    BY DEF RanksInv, RankTypes
  <1>2. ASSUME Bounded2, NEW m \in Folk
        PROVE  Within(m, rank'[m]) /\ Within(m, StoredRank(m)')
    <2>1. StoredRank(m)' = StoredRank(m)
      BY DEF StoredRank, AccountOf
    <2>2. Within(m, StoredRank(m)) /\ Within(m, rank[m])
      BY <1>2 DEF RanksInv
    <2>3. rank'[m] = IF m = n THEN k ELSE rank[m]
      BY DEF RanksInv, RankTypes
    <2> QED
      BY <1>2, <2>1, <2>2, <2>3
  <1> QED
    BY <1>1, <1>2, RanksFrom

AccountsWithin(n, accounts) ==
    /\ accounts \in SUBSET [class : Nat, protect : Int, repass : BOOLEAN]
    /\ \A a, b \in accounts : a = b
    /\ Bounded2 => \A a \in accounts : Within(n, a.class)
SessionWithin(n) ==
    \E k \in Int : /\ rank' = rank \/ rank' = [rank EXCEPT ![n] = k]
                   /\ Bounded2 => Within(n, k)

\* An account is made, changed or deleted, and the session may follow it.
LEMMA AccountsFrom ==
    ASSUME RanksInv, first' = first, NEW n \in Folk, NEW accounts,
           regRow' = [regRow EXCEPT ![n] = accounts],
           AccountsWithin(n, accounts), SessionWithin(n)
    PROVE  RanksInv'
  <1>0. PICK k \in Int : /\ rank' = rank \/ rank' = [rank EXCEPT ![n] = k]
                         /\ Bounded2 => Within(n, k)
    BY DEF SessionWithin
  <1>a. /\ accounts \in SUBSET [class : Nat, protect : Int, repass : BOOLEAN]
        /\ \A a, b \in accounts : a = b
        /\ Bounded2 => \A a \in accounts : Within(n, a.class)
        /\ Bounded2 => Within(n, Guest)
    BY LowIsWithin DEF AccountsWithin
  <1>1. /\ rank \in [Folk -> Int] /\ first.top \in Int
        /\ regRow \in [Folk -> SUBSET [class : Nat, protect : Int, repass : BOOLEAN]]
        /\ \A m \in Folk : \A a, b \in regRow[m] : a = b
    BY DEF RanksInv, RankTypes
  <1>2. /\ rank' \in [Folk -> Int]
        /\ \A m \in Folk : rank'[m] = rank[m] \/ (m = n /\ rank'[m] = k)
    <2>1. CASE rank' = rank
      BY <1>1, <2>1
    <2>2. CASE rank' = [rank EXCEPT ![n] = k]
      BY <1>0, <1>1, <2>2
    <2> QED
      BY <1>0, <2>1, <2>2
  <1>3. /\ regRow' \in [Folk -> SUBSET [class : Nat, protect : Int, repass : BOOLEAN]]
        /\ regRow'[n] = accounts /\ \A m \in Folk \ {n} : regRow'[m] = regRow[m]
    BY <1>1, <1>a
  <1>4. RankTypes'
    BY <1>1, <1>2, <1>3, <1>a DEF RankTypes
  <1>5. ASSUME Bounded2, NEW m \in Folk
        PROVE  Within(m, rank'[m]) /\ Within(m, StoredRank(m)')
    <2>1. Within(m, StoredRank(m)) /\ Within(m, rank[m])
      BY <1>5 DEF RanksInv
    <2>2. Within(m, rank'[m])
      <3>1. CASE rank'[m] = rank[m]
        BY <2>1, <3>1
      <3>2. CASE m = n /\ rank'[m] = k
        BY <1>0, <1>5, <3>2 DEF Within
      <3> QED
        BY <1>2, <3>1, <3>2
    <2>3. CASE m # n
      <3>1. StoredRank(m)' = StoredRank(m)
        BY <1>3, <2>3 DEF StoredRank, AccountOf
      <3> QED
        BY <2>1, <2>2, <3>1
    <2>4. CASE m = n
      <3>1. CASE accounts = {}
        <4>1. StoredRank(m)' = Guest
          BY <1>3, <2>4, <3>1 DEF StoredRank
        <4> QED
          BY <1>5, <1>a, <2>2, <2>4, <4>1
      <3>2. CASE accounts # {}
        <4>1. AccountOf(m)' \in accounts
          BY <1>3, <2>4, <3>2 DEF AccountOf
        <4>2. StoredRank(m)' = AccountOf(m)'.class
          BY <1>3, <2>4, <3>2 DEF StoredRank
        <4> QED
          BY <1>5, <1>a, <2>2, <2>4, <4>1, <4>2
      <3> QED
        BY <3>1, <3>2
    <2> QED
      BY <2>3, <2>4
  <1> QED
    BY <1>4, <1>5, RanksFrom

LEMMA OneWithin ==
    ASSUME NEW n, NEW a, OneAccount(n, a)
    PROVE  AccountsWithin(n, {a})
  BY DEF OneAccount, AccountsWithin

LEMMA NoneWithin == \A n : AccountsWithin(n, {})
  BY DEF AccountsWithin

LEMMA SameSession ==
    ASSUME RanksInv, NEW n, rank' = rank
    PROVE  SessionWithin(n)
  BY LowIsWithin DEF SessionWithin, Guest

LEMMA NewSession ==
    ASSUME NEW n, NEW k \in Int, rank' = rank \/ rank' = [rank EXCEPT ![n] = k], Bounded2 => Within(n, k)
    PROVE  SessionWithin(n)
  BY DEF SessionWithin

-----------------------------------------------------------------------------
(* Console: the commands that change classes *)

\* Nobody gives a class that is not below his own, unless he is a master.
LEMMA GivesBelow ==
    ASSUME RanksInv, Bounded2, NEW c \in Folk, NEW k \in Ranks, Gives(c, k), NEW n
    PROVE  Within(n, k)
  <1>1. rank[c] \in Int /\ rank[c] <= first.top /\ first.top \in Int /\ k \in Int
    BY ConsoleAssumption DEF RanksInv, RankTypes, Within
  <1>2. rank[c] # Master
    BY <1>1 DEF Bounded2, Master
  <1>3. k + classdif_reg <= rank[c] /\ classdif_reg \in Nat /\ classdif_reg > 0
    BY <1>2, ConsoleAssumption DEF Gives, Above, Bounded2
  <1> QED
    BY <1>1, <1>3 DEF Within

\* A lent class is below that of who lends it.
LEMMA LentBelow ==
    ASSUME RanksInv, Bounded2, NEW c \in Folk, NEW k \in Ranks, k <= MaxAllowed(rank[c]), NEW n
    PROVE  Within(n, k)
  <1>1. rank[c] \in Int /\ rank[c] <= first.top /\ first.top \in Int /\ k \in Int
    BY ConsoleAssumption DEF RanksInv, RankTypes, Within
  <1>2. k < rank[c]
    BY <1>1 DEF MaxAllowed, Admin
  <1> QED
    BY <1>1, <1>2 DEF Within

\* The account after a field of it was set, if it was.
LEMMA SetVarIs ==
    ASSUME RanksInv, first' = first, NEW n \in Folk, regRow[n] # {},
           NEW field \in {"class", "protect", "repass"}, NEW value,
           field = "repass" => value \in BOOLEAN, field # "repass" => value \in Nat,
           field = "class" /\ Bounded2 => Within(n, value),
           SetVar(n, field, value), SessionWithin(n)
    PROVE  RanksInv'
  <1> DEFINE new == [AccountOf(n) EXCEPT ![field] = value]
             old == AccountOf(n)
  <1>1. old \in [class : Nat, protect : Int, repass : BOOLEAN] /\ regRow[n] = {old} /\ StoredRank(n) = old.class
    BY AccountIs DEF RanksInv
  <1>2. Bounded2 => Within(n, old.class)
    BY <1>1 DEF RanksInv
  <1>3. new \in [class : Nat, protect : Int, repass : BOOLEAN] /\ (new.class = old.class \/ (field = "class" /\ new.class = value))
    <2> HIDE DEF old
    <2>a. new = [old EXCEPT ![field] = value]
      BY DEF old
    <2>1. CASE field = "class"     BY <1>1, <2>a, <2>1
    <2>2. CASE field = "protect"
      <3>1. value \in Int /\ new = [old EXCEPT !.protect = value]
        BY <2>a, <2>2
      <3> QED
        BY <1>1, <3>1
    <2>3. CASE field = "repass"    BY <1>1, <2>a, <2>3
    <2> QED
      BY <2>1, <2>2, <2>3
  <1>4. Bounded2 => Within(n, new.class)
    BY <1>2, <1>3
  <1>5. regRow' = regRow \/ regRow' = [regRow EXCEPT ![n] = {new}]
    BY DEF SetVar
  <1> HIDE DEF new, old
  <1>6. AccountsWithin(n, {old}) /\ AccountsWithin(n, {new})
    <2>1. OneAccount(n, old) /\ OneAccount(n, new)
      BY <1>1, <1>2, <1>3, <1>4 DEF OneAccount
    <2> QED
      BY <2>1, OneWithin
  <1>7. CASE regRow' = regRow
    <2>1. regRow' = [regRow EXCEPT ![n] = {old}]
      BY <1>1, <1>7 DEF RanksInv, RankTypes
    <2> QED
      BY <1>6, <2>1, AccountsFrom
  <1>8. CASE regRow' = [regRow EXCEPT ![n] = {new}]
    BY <1>6, <1>8, AccountsFrom
  <1> QED
    BY <1>5, <1>7, <1>8

LEMMA EnterRanks ==
    ASSUME RanksInv, first' = first, NEW n \in Folk, Enter(n)
    PROVE  RanksInv'
  <1> DEFINE k == IF Recognised(n) THEN AccountOf(n).class ELSE Guest
  <1>1. k \in Int /\ (Bounded2 => Within(n, k))
    <2>1. CASE Recognised(n)
      <3>1. k = StoredRank(n) /\ StoredRank(n) \in Int
        BY <2>1, AccountIs DEF Recognised, RanksInv
      <3> QED
        BY <3>1 DEF RanksInv
    <2>2. CASE ~Recognised(n)
      BY <2>2, LowIsWithin DEF Guest
    <2> QED
      BY <2>1, <2>2
  <1>2. rank' = [rank EXCEPT ![n] = k] /\ UNCHANGED regRow
    BY DEF Enter
  <1> HIDE DEF k
  <1> QED
    BY <1>1, <1>2, SessionsFrom

LEMMA DroppedRanks ==
    ASSUME RanksInv, UNCHANGED <<first, regRow>>, NEW n \in Folk, Dropped(n)
    PROVE  RanksInv'
  <1>1. rank' = [rank EXCEPT ![n] = Outside] /\ Outside \in Int
    BY DEF Dropped, Outside
  <1> QED
    BY <1>1, LowIsWithin, SessionsFrom

LEMMA SameRanks ==
    ASSUME RanksInv, UNCHANGED <<first, regRow, rank>>
    PROVE  RanksInv'
  BY DEF RanksInv, RankTypes, Bounded2, Within, StoredRank, AccountOf

\* No order in the console lifts anybody to the highest class there was.
LEMMA RankStepsKeep == RanksInv /\ RankSteps => RanksInv'
  <1> SUFFICES ASSUME RanksInv, RankSteps PROVE RanksInv'
    OBVIOUS
  <1>f. first' = first
    BY DEF RankSteps
  <1>w. ASSUME NEW n \in Folk, NEW k, rank' = WhenIn(n, rank, k)
        PROVE  rank' = rank \/ rank' = [rank EXCEPT ![n] = k]
    BY <1>w DEF WhenIn
  <1>g. /\ Guest \in Int /\ autoreg_class \in Int /\ autoreg_class \in Nat
        /\ Ranks \subseteq Int /\ Ranks \subseteq Nat /\ Shields \subseteq Int /\ Shields \subseteq Nat
    BY ConsoleAssumption DEF Guest
  <1>1. ASSUME NEW c \in Folk, Enter(c)
        PROVE  RanksInv'
    BY <1>1, <1>f, EnterRanks
  <1>2. ASSUME NEW c \in Folk, LeavesInside(c)
        PROVE  RanksInv'
    BY <1>2, <1>f, DroppedRanks DEF LeavesInside
  <1>3. ASSUME NEW c \in Folk, CmdRegMe(c)
        PROVE  RanksInv'
    <2> DEFINE new == [class |-> autoreg_class, protect |-> 0, repass |-> FALSE]
    <2>1. /\ regRow' = [regRow EXCEPT ![c] = {new}] /\ rank' = [rank EXCEPT ![c] = autoreg_class]
      BY <1>3 DEF CmdRegMe
    <2>2. new \in [class : Nat, protect : Int, repass : BOOLEAN] /\ new.class = autoreg_class
      BY <1>g
    <2> HIDE DEF new
    <2>3. Bounded2 => Within(c, autoreg_class)
      BY LowIsWithin
    <2>4. AccountsWithin(c, {new})
      BY <2>2, <2>3, OneWithin DEF OneAccount
    <2>5. SessionWithin(c)
      BY <1>g, <2>1, <2>3, NewSession
    <2> QED
      BY <1>f, <2>1, <2>4, <2>5, AccountsFrom
  <1>4. ASSUME NEW c \in Folk, CmdUnRegMe(c)
        PROVE  RanksInv'
    <2>1. /\ regRow' = [regRow EXCEPT ![c] = {}] /\ rank' = [rank EXCEPT ![c] = Guest]
      BY <1>4 DEF CmdUnRegMe
    <2>2. Bounded2 => Within(c, Guest)
      BY LowIsWithin
    <2>3. SessionWithin(c)
      BY <1>g, <2>1, <2>2, NewSession
    <2> QED
      BY <1>f, <2>1, <2>3, NoneWithin, AccountsFrom
  <1>5. ASSUME NEW c \in Folk, CmdRegMyPasswd(c)
        PROVE  RanksInv'
    <2>1. /\ regRow[c] # {} /\ SetVar(c, "repass", FALSE)
          /\ rank' = [rank EXCEPT ![c] = AccountOf(c).class]
      BY <1>5 DEF CmdRegMyPasswd, SetVar
    <2>2. AccountOf(c).class \in Int /\ AccountOf(c).class = StoredRank(c)
      BY <2>1, AccountIs DEF RanksInv
    <2>3. Bounded2 => Within(c, AccountOf(c).class)
      BY <2>2 DEF RanksInv
    <2>4. SessionWithin(c)
      BY <2>1, <2>2, <2>3, NewSession
    <2> QED
      BY <1>f, <2>1, <2>4, SetVarIs
  <1>6. ASSUME NEW c \in Folk, NEW n \in Folk, NEW k \in Ranks, CmdClass(c, n, k)
        PROVE  RanksInv'
    <2>1. rank' = [rank EXCEPT ![n] = k] /\ UNCHANGED regRow /\ k <= MaxAllowed(rank[c])
      BY <1>6 DEF CmdClass
    <2>2. Bounded2 => Within(n, k)
      BY <2>1, LentBelow
    <2> QED
      BY <1>f, <1>g, <2>1, <2>2, SessionsFrom
  <1>7. ASSUME NEW c \in Folk, NEW n \in Folk, NEW k \in Ranks, RegNew(c, n, k)
        PROVE  RanksInv'
    <2>1. PICK withPass \in BOOLEAN :
            regRow' = [regRow EXCEPT ![n] = {[class |-> k, protect |-> 0, repass |-> ~withPass]}]
      BY <1>7 DEF RegNew
    <2> DEFINE new == [class |-> k, protect |-> 0, repass |-> ~withPass]
    <2>2. new \in [class : Nat, protect : Int, repass : BOOLEAN] /\ new.class = k
      BY <1>g
    <2>3. regRow' = [regRow EXCEPT ![n] = {new}]
      BY <2>1
    <2> HIDE DEF new
    <2>4. Bounded2 => Within(n, k) /\ Within(n, Guest)
      BY <1>7, GivesBelow, LowIsWithin DEF RegNew
    <2>5. AccountsWithin(n, {new})
      BY <2>2, <2>4, OneWithin DEF OneAccount
    <2>7. rank' = rank \/ rank' = [rank EXCEPT ![n] = k]
      BY <1>7, <1>w DEF RegNew
    <2>8. SessionWithin(n)
      BY <1>g, <2>4, <2>7, NewSession
    <2> QED
      BY <1>f, <2>3, <2>5, <2>8, AccountsFrom
  <1>8. ASSUME NEW c \in Folk, NEW n \in Folk, NEW k \in Ranks, RegClass(c, n, k)
        PROVE  RanksInv'
    <2>1. regRow[n] # {} /\ SetVar(n, "class", k) /\ rank' = WhenIn(n, rank, k) /\ Gives(c, k)
      BY <1>8 DEF RegClass, Manages
    <2>2. Bounded2 => Within(n, k)
      BY <2>1, GivesBelow
    <2>3. k \in Int /\ k \in Nat
      BY <1>g
    <2>4. SessionWithin(n)
      BY <1>w, <2>1, <2>2, <2>3, NewSession
    <2> QED
      BY <1>f, <2>1, <2>2, <2>3, <2>4, SetVarIs
  <1>9. ASSUME NEW c \in Folk, NEW n \in Folk, NEW k \in Shields,
               CmdProtect(c, n, k) \/ RegProtect(c, n, k) \/ RegSet(c, n, k)
        PROVE  RanksInv'
    <2>1. CASE CmdProtect(c, n, k)
      BY <1>f, <2>1, SameRanks DEF CmdProtect
    <2>2. CASE RegProtect(c, n, k) \/ RegSet(c, n, k)
      <3>1. regRow[n] # {} /\ SetVar(n, "protect", k) /\ rank' = rank
        BY <2>2 DEF RegProtect, RegSet, Manages
      <3>2. SessionWithin(n)
        BY <3>1, SameSession
      <3> QED
        BY <1>f, <1>g, <3>1, <3>2, SetVarIs
    <2> QED
      BY <1>9, <2>1, <2>2
  <1>10. ASSUME NEW c \in Folk, NEW n \in Folk, RegDel(c, n)
         PROVE  RanksInv'
    <2>1. regRow' = [regRow EXCEPT ![n] = {}] /\ rank' = WhenIn(n, rank, Guest)
      BY <1>10 DEF RegDel
    <2>2. Bounded2 => Within(n, Guest)
      BY LowIsWithin
    <2>3. rank' = rank \/ rank' = [rank EXCEPT ![n] = Guest]
      BY <1>w, <2>1
    <2>4. SessionWithin(n)
      BY <1>g, <2>2, <2>3, NewSession
    <2> QED
      BY <1>f, <2>1, <2>4, NoneWithin, AccountsFrom
  <1>11. ASSUME NEW c \in Folk, NEW n \in Folk, RegPass(c, n)
         PROVE  RanksInv'
    <2>1. regRow[n] # {} /\ SetVar(n, "repass", TRUE) /\ rank' = rank
      BY <1>11 DEF RegPass, Manages
    <2>2. SessionWithin(n)
      BY <2>1, SameSession
    <2> QED
      BY <1>f, <2>1, <2>2, SetVarIs
  <1>12. ASSUME NEW c \in Folk, NEW n \in Folk, DCKickNick(c, n) \/ cfBan(c, n, "ban")
         PROVE  RanksInv'
    BY <1>f, <1>12, DroppedRanks DEF DCKickNick, cfBan
  <1> QED
    BY <1>1, <1>2, <1>3, <1>4, <1>5, <1>6, <1>7, <1>8, <1>9, <1>10, <1>11, <1>12 DEF RankSteps

-----------------------------------------------------------------------------
(* Console: who hears the chat, and who is listed *)

\* who chats is in the hub, so that a new session begins without the chat
TalkInv == RanksInv /\ chatters \subseteq Inside /\ ChatKeptHidden /\ askedBlock = {}

\* What leaves the sessions alone and puts nobody in the chat who has it hidden.
LEMMA TalkKept ==
    ASSUME TalkInv, UNCHANGED <<rank, regRow, first, askedBlock>>,
           chatters' \subseteq Inside,
           \A n \in chatters' \cap hideChat' : n \in opened' \/ (n \in chatters \cap hideChat /\ n \notin opened)
    PROVE  TalkInv'
  <1>1. RanksInv'
    BY SameRanks DEF TalkInv
  <1>2. \A n : Recognised(n)' <=> Recognised(n)
    BY DEF Recognised, AccountOf
  <1>3. Inside' = Inside
    BY DEF Inside
  <1> QED
    BY <1>1, <1>2, <1>3 DEF TalkInv, ChatKeptHidden

\* Somebody went.
LEMMA TalkLeft ==
    ASSUME TalkInv, UNCHANGED <<regRow, first, askedBlock, hideChat>>, NEW n \in Folk, Dropped(n),
           chatters' = chatters \ {n}, opened' = opened \ {n}
    PROVE  TalkInv'
  <1>1. RanksInv'
    BY DroppedRanks DEF TalkInv
  <1>2. \A m : Recognised(m)' <=> Recognised(m)
    BY DEF Recognised, AccountOf
  <1>3. chatters' \subseteq Inside'
    BY DEF TalkInv, RanksInv, RankTypes, Inside, Dropped
  <1> QED
    BY <1>1, <1>2, <1>3 DEF TalkInv, ChatKeptHidden

LEMMA TalkStepsKeep == TalkInv /\ TalkSteps => TalkInv'
  <1> SUFFICES ASSUME TalkInv, NEW c \in Folk,
                      \/ EnterTalk(c) \/ QuitTalk(c)
                      \/ CmdChat(c) \/ CmdNoChat(c) \/ CmdMe(c) \/ Chatted(c) \/ UnknownCommand(c)
                      \/ CmdReport(c) \/ CmdCCBroadcast(c)
                      \/ CmdMyInfo(c) \/ CmdUInfo(c) \/ cfInfo(c) \/ cfTrigger(c) \/ cfGetConfig(c)
                      \/ \E t \in Texts : ChangeTopic(c, t)
                      \/ \E n \in Folk :
                           \/ SetHideChat(c, n) \/ CmdRaw(c, n) \/ KickSeen(c, n)
                           \/ GagSeen(c, n, TRUE) \/ GagSeen(c, n, FALSE)
                           \/ CmdHideKick(c, n, TRUE) \/ CmdHideKick(c, n, FALSE)
               PROVE  TalkInv'
    BY DEF TalkSteps
  <1>i. chatters \subseteq Inside
    BY DEF TalkInv
  <1>k. ASSUME UNCHANGED <<rank, regRow, first, askedBlock, chatters, hideChat, opened>>
        PROVE  TalkInv'
    BY <1>i, <1>k, TalkKept DEF TalkInv
  <1>1. CASE EnterTalk(c)
    <2>1. /\ Enter(c) /\ UNCHANGED <<hideChat, lookVars, first>>
          /\ chatters' = IF c \in hideChat /\ Recognised(c) THEN chatters ELSE chatters \cup {c}
          /\ opened' = opened \ {c}
      BY <1>1 DEF EnterTalk
    <2>2. RanksInv'
      BY <2>1, EnterRanks DEF TalkInv
    <2>3. \A m : Recognised(m)' <=> Recognised(m)
      BY <2>1 DEF Enter, Recognised, AccountOf
    <2>4. c \notin chatters
      BY <2>1 DEF TalkInv, Enter, Inside
    <2>5. c \in Inside' /\ \A m \in Inside : m \in Inside'
      <3> DEFINE k == IF Recognised(c) THEN AccountOf(c).class ELSE Guest
      <3>1. rank' = [rank EXCEPT ![c] = k] /\ rank[c] = Outside /\ rank \in [Folk -> Int]
        BY <2>1 DEF Enter, TalkInv, RanksInv, RankTypes
      <3>2. k # Outside
        BY AccountIs DEF TalkInv, RanksInv, Recognised, Guest, Outside
      <3> HIDE DEF k
      <3> QED
        BY <3>1, <3>2 DEF Inside
    <2>6. chatters' \subseteq Inside'
      BY <1>i, <2>1, <2>5
    <2>7. ChatKeptHidden'
      BY <2>1, <2>3, <2>4 DEF TalkInv, ChatKeptHidden
    <2> QED
      BY <2>1, <2>2, <2>6, <2>7 DEF TalkInv, lookVars
  <1>2. CASE QuitTalk(c)
    BY <1>2, TalkLeft DEF QuitTalk, LeavesInside, lookVars
  <1>3. CASE CmdChat(c)
    <2>1. /\ UNCHANGED <<rank, regRow, first, askedBlock, hideChat>> /\ c \in Inside
          /\ chatters' = chatters \cup {c} /\ opened' = opened \cup {c}
      BY <1>3 DEF CmdChat, Says, Silent, ParseForCommands, lookVars
    <2> QED
      BY <1>i, <2>1, TalkKept
  <1>4. CASE CmdNoChat(c)
    <2>1. /\ UNCHANGED <<rank, regRow, first, askedBlock, hideChat>>
          /\ chatters' = chatters \ {c} /\ opened' = opened \ {c}
      BY <1>4 DEF CmdNoChat, Says, Silent, lookVars
    <2>2. \A n \in chatters' \cap hideChat' : n \in opened' \/ (n \in chatters \cap hideChat /\ n \notin opened)
      BY <2>1
    <2> QED
      BY <1>i, <2>1, <2>2, TalkKept
  <1>5. CASE CmdMe(c) \/ Chatted(c) \/ UnknownCommand(c) \/ CmdReport(c) \/ CmdCCBroadcast(c)
    BY <1>k, <1>5 DEF CmdMe, Chatted, UnknownCommand, CmdReport, CmdCCBroadcast, Says, Silent, lookVars
  <1>6. CASE CmdMyInfo(c) \/ CmdUInfo(c) \/ cfInfo(c) \/ cfTrigger(c) \/ cfGetConfig(c)
    BY <1>k, <1>6 DEF CmdMyInfo, CmdUInfo, cfInfo, cfTrigger, cfGetConfig, Answered, Says, Silent, lookVars
  <1>7. ASSUME NEW t \in Texts, ChangeTopic(c, t)
        PROVE  TalkInv'
    BY <1>k, <1>7 DEF ChangeTopic, Says, Silent, lookVars
  <1>8. ASSUME NEW n \in Folk, SetHideChat(c, n)
        PROVE  TalkInv'
    <2>1. UNCHANGED <<rank, regRow, first, askedBlock>>
      BY <1>8 DEF SetHideChat, Says, Silent, lookVars
    <2>2. CASE n \notin hideChat /\ Hidden(n)
      <3>1. /\ hideChat' = hideChat \cup {n} /\ opened' = opened \ {n} /\ chatters' = chatters \ {n}
        BY <2>2 DEF Hidden
      <3>2. \A m \in chatters' \cap hideChat' : m \in opened' \/ (m \in chatters \cap hideChat /\ m \notin opened)
        BY <3>1
      <3> QED
        BY <1>i, <2>1, <3>1, <3>2, TalkKept
    <2>3. CASE n \in hideChat
      <3>1. /\ hideChat' = hideChat \ {n} /\ chatters' = chatters \cup ({n} \cap Inside)
            /\ opened' = opened
        BY <1>8, <2>3 DEF SetHideChat
      <3>2. \A m \in chatters' \cap hideChat' : m \in opened' \/ (m \in chatters \cap hideChat /\ m \notin opened)
        BY <3>1
      <3> QED
        BY <1>i, <2>1, <3>1, <3>2, TalkKept
    <2> QED
      BY <1>8, <2>2, <2>3 DEF SetHideChat
  <1>9. ASSUME NEW n \in Folk, KickSeen(c, n)
        PROVE  TalkInv'
    BY <1>9, TalkLeft DEF KickSeen, DCKickNick, lookVars
  <1>10. ASSUME NEW n \in Folk,
                CmdRaw(c, n) \/ GagSeen(c, n, TRUE) \/ GagSeen(c, n, FALSE)
                  \/ CmdHideKick(c, n, TRUE) \/ CmdHideKick(c, n, FALSE)
         PROVE  TalkInv'
    BY <1>k, <1>10 DEF CmdRaw, GagSeen, KickGag, CmdHideKick, Says, Silent, lookVars
  <1> QED
    BY <1>1, <1>2, <1>3, <1>4, <1>5, <1>6, <1>7, <1>8, <1>9, <1>10

\* Numbers that a positive one divides equally often are those of one block.
LEMMA SameBlock ==
    ASSUME NEW a \in Nat, NEW x \in Nat, NEW s \in Nat, s > 0
    PROVE  (a - (a % s) <= x /\ x <= a - (a % s) + s - 1) <=> x \div s = a \div s
  <1> DEFINE p == a \div s
             q == x \div s
             r == a % s
             t == x % s
  <1>1. a = (s * p) + r /\ p \in Nat /\ r \in Nat /\ r < s
    OBVIOUS
  <1>2. x = (s * q) + t /\ q \in Nat /\ t \in Nat /\ t < s
    OBVIOUS
  <1> HIDE DEF p, q, r, t
  <1>a. s * p \in Nat /\ s * q \in Nat
    BY <1>1, <1>2
  <1>3. p < q => (s * p) + s <= s * q
    BY <1>1, <1>2
  <1>4. q < p => (s * q) + s <= s * p
    BY <1>1, <1>2
  <1>5. (a - r <= x /\ x <= a - r + s - 1) <=> q = p
    <2>1. CASE p < q
      BY <1>1, <1>2, <1>3, <1>a, <2>1
    <2>2. CASE q < p
      BY <1>1, <1>2, <1>4, <1>a, <2>2
    <2>3. CASE q = p
      BY <1>1, <1>2, <1>a, <2>3
    <2> QED
      BY <1>1, <1>2, <2>1, <2>2, <2>3
  <1> QED
    BY <1>5 DEF p, q, r, t

\* The interval that is looked through is the block that was asked for.
LEMMA RangeIsBlock ==
    ASSUME NEW a \in AddressSpace, NEW p \in 0 .. Bits, p > 0, NEW b \in GetIPRange(a, p)
    PROVE  WhoIP(b.from, b.to) =
             {n \in Inside : SourceOf[n] \div 2 ^ (Bits - p) = a \div 2 ^ (Bits - p)}
  <1> DEFINE s == 2 ^ (Bits - p)
  <1>1. Bits - p \in 0 .. Bits
    BY ConsoleAssumption
  <1>2. s \in Int /\ s > 0
    <2>1. s > 0
      BY <1>1, ConsoleAssumption
    <2>2. s \in Int
      BY <1>1
    <2> QED
      BY <2>1, <2>2
  <1>3. b = [from |-> a - (a % s), to |-> a - (a % s) + s - 1]
    BY DEF GetIPRange, Size
  <1>p. 2 ^ Bits \in Int
    BY ConsoleAssumption
  <1>4. a \in Nat /\ \A n \in Inside : SourceOf[n] \in Nat
    BY <1>p, ConsoleAssumption DEF AddressSpace, Inside
  <1> HIDE DEF s
  <1>5. \A n \in Inside : (b.from <= SourceOf[n] /\ SourceOf[n] <= b.to) <=> SourceOf[n] \div s = a \div s
    <2> SUFFICES ASSUME NEW n \in Inside
                 PROVE  (b.from <= SourceOf[n] /\ SourceOf[n] <= b.to) <=> SourceOf[n] \div s = a \div s
      OBVIOUS
    <2>1. b.from = a - (a % s) /\ b.to = a - (a % s) + s - 1
      BY <1>3
    <2>2. s \in Nat /\ SourceOf[n] \in Nat
      BY <1>2, <1>4
    <2> QED
      BY <1>2, <1>4, <2>1, <2>2, SameBlock
  <1>6. WhoIP(b.from, b.to) = {n \in Inside : SourceOf[n] \div s = a \div s}
    BY <1>5 DEF WhoIP
  <1> QED
    BY <1>6 DEF s

LookInv == RanksInv /\ chatters = {} /\ BlocksRight

LEMMA LookStepsKeep == LookInv /\ LookSteps => LookInv'
  <1> SUFFICES ASSUME LookInv, LookSteps PROVE LookInv'
    OBVIOUS
  <1>e. askedBlock' = {} => BlocksRight'
    BY DEF BlocksRight
  <1>s. ASSUME UNCHANGED <<ranksVars, talkVars, first>>
        PROVE  RanksInv' /\ chatters' = {} /\ Inside' = Inside
    BY <1>s, SameRanks DEF LookInv, ranksVars, talkVars, Inside
  <1>1. ASSUME NEW n \in Folk, LookAgain(n)
        PROVE  LookInv'
    <2>1. chatters' = {} /\ first' = first /\ askedBlock' = {}
      BY <1>1 DEF LookAgain, talkVars, LookInv
    <2>2. RanksInv'
      BY <1>1, <2>1, EnterRanks, DroppedRanks DEF LookInv, LookAgain, LeavesInside
    <2> QED
      BY <1>e, <2>1, <2>2 DEF LookInv
  <1>2. ASSUME NEW c \in Folk, Whosaid(c)
        PROVE  LookInv'
    BY <1>2, <1>e, <1>s DEF Whosaid, AsksWho, LookInv
  <1>3. ASSUME NEW c \in Folk, NEW nicks \in SUBSET Folk, CmdGetip(c, nicks)
        PROVE  LookInv'
    BY <1>3, <1>e, <1>s DEF CmdGetip, LookInv
  <1>4. ASSUME NEW c \in Folk, NEW a \in AddressSpace, NEW b \in AddressSpace, Whointerval(c, a, b)
        PROVE  LookInv'
    BY <1>4, <1>e, <1>s DEF Whointerval, AsksWho, LookInv
  <1>5. ASSUME NEW c \in Folk, NEW a \in AddressSpace, NEW p \in 0 .. Bits, Whorange(c, a, p)
        PROVE  LookInv'
    <2>1. RanksInv' /\ chatters' = {} /\ Inside' = Inside
      BY <1>5, <1>s DEF Whorange, AsksWho
    <2>2. PICK b \in GetIPRange(a, p) : listed' = WhoIP(b.from, b.to)
      BY <1>5 DEF Whorange
    <2>3. askedBlock' = {<<a, p>>}
      BY <1>5 DEF Whorange
    <2>4. ASSUME p > 0
          PROVE  listed' = {n \in Inside : SourceOf[n] \div 2 ^ (Bits - p) = a \div 2 ^ (Bits - p)}
      BY <2>2, <2>4, RangeIsBlock
    <2>5. \A q \in askedBlock' : q[1] = a /\ q[2] = p
      BY <2>3
    <2>6. BlocksRight'
      BY <2>1, <2>4, <2>5 DEF BlocksRight
    <2> QED
      BY <2>1, <2>6 DEF LookInv
  <1> QED
    BY <1>1, <1>2, <1>3, <1>4, <1>5 DEF LookSteps

LEMMA RanksInvRight == RanksInv => RanksHold
  <1> SUFFICES ASSUME RanksInv, Bounded2, NEW n \in Folk
               PROVE  High(n) <= first.top /\ (High(n) = first.top => n \in first.who)
    BY DEF RanksHold, Bounded2
  <1>1. Within(n, rank[n]) /\ Within(n, StoredRank(n))
    BY DEF RanksInv
  <1>2. High(n) = rank[n] \/ High(n) = StoredRank(n)
    BY DEF High
  <1> QED
    BY <1>1, <1>2 DEF Within

\* Orders about accounts and classes: no chain of them lifts anybody to the
\* highest class there was (cdcconsole.cpp, CmdClass and the !reg commands).
THEOREM RanksRightAlways == RanksSpec => []ConsoleRight
  <1> DEFINE Inv == RanksInv /\ chatters = {} /\ askedBlock = {}
  <1>1. ConsoleInit => Inv
    BY RanksInvInit DEF ConsoleInit
  <1>2. Inv /\ [RankSteps]_consoleVars => Inv'
    <2>1. Inv /\ RankSteps => Inv'
      BY RankStepsKeep DEF RankSteps, talkVars, lookVars
    <2>2. Inv /\ UNCHANGED consoleVars => Inv'
      BY SameRanks DEF consoleVars, ranksVars, talkVars, lookVars
    <2> QED
      BY <2>1, <2>2
  <1>3. Inv => ConsoleRight
    BY RanksInvRight DEF ConsoleRight, ChatKeptHidden, BlocksRight
  <1> QED
    BY <1>1, <1>2, <1>3, PTL DEF RanksSpec

\* Talk: who has the chat hidden by an account hears it only after +chat,
\* through all that is said, hidden and kicked (cdcconsole.cpp, CmdChat).
THEOREM TalkRightAlways == TalkSpec => []ConsoleRight
  <1>1. ConsoleInit => TalkInv
    BY RanksInvInit DEF ConsoleInit, TalkInv, ChatKeptHidden
  <1>2. TalkInv /\ [TalkSteps]_consoleVars => TalkInv'
    <2>1. TalkInv /\ UNCHANGED consoleVars => TalkInv'
      BY SameRanks DEF consoleVars, ranksVars, talkVars, lookVars, TalkInv, ChatKeptHidden,
                       Inside, Recognised, AccountOf
    <2> QED
      BY <2>1, TalkStepsKeep
  <1>3. TalkInv => ConsoleRight
    BY RanksInvRight DEF TalkInv, ConsoleRight, BlocksRight
  <1> QED
    BY <1>1, <1>2, <1>3, PTL DEF TalkSpec

\* Queries: those listed for a block of addresses are all those in the hub
\* whose addresses begin alike (cdcconsole.cpp, GetIPRange and WhoIP).
THEOREM LookRightAlways == LookSpec => []ConsoleRight
  <1>1. ConsoleInit => LookInv
    BY RanksInvInit DEF ConsoleInit, LookInv, BlocksRight
  <1>2. LookInv /\ [LookSteps]_consoleVars => LookInv'
    <2>1. LookInv /\ UNCHANGED consoleVars => LookInv'
      BY SameRanks DEF consoleVars, ranksVars, talkVars, lookVars, LookInv, BlocksRight, Inside
    <2> QED
      BY <2>1, LookStepsKeep
  <1>3. LookInv => ConsoleRight
    BY RanksInvRight DEF LookInv, ConsoleRight, ChatKeptHidden
  <1> QED
    BY <1>1, <1>2, <1>3, PTL DEF LookSpec
-----------------------------------------------------------------------------
(* PluginLists: halving *)

Isps == [lo : IPs, hi : IPs, cc : Countries \cup {NoCountry}, id : Nat \ {0}]

\* the list of ranges is in order, and no two begin at one address
Ordered(seq) == \A i, j \in 1 .. Len(seq) : i < j => seq[i].lo < seq[j].lo
IspsSorted == isps \in Seq(Isps) /\ Ordered(isps)

LEMMA AddressesAreNumbers == IPs \subseteq Nat
  <1>1. Cardinality(IPs) \in Nat /\ IPs = 0 .. Cardinality(IPs) - 1
    BY PluginListsAssumption, FS_CardinalityType
  <1> QED
    BY <1>1

LEMMA IspsFacts ==
    ASSUME isps \in Seq(Isps)
    PROVE  /\ IPs \subseteq Nat /\ Len(isps) \in Nat /\ DOMAIN isps = 1 .. Len(isps)
           /\ \A i \in 1 .. Len(isps) : isps[i] \in Isps /\ isps[i].lo \in Nat
  <1>1. \A o \in Isps : o.lo \in Nat
    BY AddressesAreNumbers DEF Isps
  <1>2. Len(isps) \in Nat /\ DOMAIN isps = 1 .. Len(isps)
    OBVIOUS
  <1>3. \A i \in 1 .. Len(isps) : isps[i] \in Isps
    OBVIOUS
  <1> QED
    BY <1>1, <1>2, <1>3, AddressesAreNumbers

\* The ranges that begin before an address are the first ones of the list.
LEMMA SmallerIsPrefix ==
    ASSUME IspsSorted, NEW key \in IPs
    PROVE  /\ Smaller(key) \in 0 .. Len(isps)
           /\ \A i \in 1 .. Len(isps) : isps[i].lo < key <=> i <= Smaller(key)
  <1>0. /\ IPs \subseteq Nat /\ Len(isps) \in Nat /\ DOMAIN isps = 1 .. Len(isps)
        /\ \A i \in 1 .. Len(isps) : isps[i] \in Isps /\ isps[i].lo \in Nat
    BY IspsFacts DEF IspsSorted
  <1>1. \E n \in 0 .. Len(isps) : \A i \in 1 .. Len(isps) : isps[i].lo < key <=> i <= n
    <2> DEFINE T == {i \in 1 .. Len(isps) : ~(isps[i].lo < key)}
    <2>1. CASE T = {}
      <3>1. \A i \in 1 .. Len(isps) : isps[i].lo < key <=> i <= Len(isps)
        BY <1>0, <2>1
      <3>2. Len(isps) \in 0 .. Len(isps)
        BY <1>0
      <3> QED
        BY <3>1, <3>2
    <2>2. CASE T # {}
      <3>1. T \in SUBSET Nat
        BY <1>0
      <3>2. PICK m \in T : \A k \in T : m <= k
        <4> HIDE DEF T
        <4> QED
          BY <2>2, <3>1, SmallestNumber
      <3>3. m \in 1 .. Len(isps) /\ ~(isps[m].lo < key)
        BY <3>2
      <3>4. ASSUME NEW i \in 1 .. Len(isps)
            PROVE  isps[i].lo < key <=> i <= m - 1
        <4>1. CASE i <= m - 1
          BY <1>0, <3>2, <3>3, <4>1
        <4>2. CASE i = m
          BY <1>0, <3>3, <4>2
        <4>3. CASE i > m
          <5>1. isps[m].lo < isps[i].lo
            BY <3>3, <4>3 DEF IspsSorted, Ordered
          <5> QED
            BY <1>0, <3>3, <4>3, <5>1
        <4> QED
          BY <1>0, <3>3, <4>1, <4>2, <4>3
      <3>5. m - 1 \in 0 .. Len(isps)
        BY <1>0, <3>3
      <3> QED
        BY <3>4, <3>5
    <2> QED
      BY <2>1, <2>2
  <1>2. PICK n \in 0 .. Len(isps) : \A i \in 1 .. Len(isps) : isps[i].lo < key <=> i <= n
    BY <1>1
  <1>3. {i \in DOMAIN isps : isps[i].lo < key} = 1 .. n
    BY <1>0, <1>2
  <1>4. Cardinality(1 .. n) = n
    BY <1>0, <1>2, FS_Interval
  <1>5. Smaller(key) = n
    BY <1>3, <1>4 DEF Smaller
  <1> QED
    BY <1>2, <1>5

\* Whether a range begins at the address; it is the next one then.
Hits(key) == \E i \in DOMAIN isps : isps[i].lo = key

LEMMA ComparedIs ==
    ASSUME IspsSorted, NEW key \in IPs, NEW i \in 1 .. Len(isps)
    PROVE  /\ Compared(key, i) = 1 <=> i <= Smaller(key)
           /\ Compared(key, i) = 0 <=> i = Smaller(key) + 1 /\ Hits(key)
           /\ Compared(key, i) \in {-1, 0, 1}
  <1>0. /\ IPs \subseteq Nat /\ Len(isps) \in Nat /\ DOMAIN isps = 1 .. Len(isps)
        /\ \A k \in 1 .. Len(isps) : isps[k] \in Isps /\ isps[k].lo \in Nat
    BY IspsFacts DEF IspsSorted
  <1> DEFINE n == Smaller(key)
  <1>1. n \in 0 .. Len(isps) /\ \A k \in 1 .. Len(isps) : isps[k].lo < key <=> k <= n
    BY SmallerIsPrefix
  <1>2. Compared(key, i) = IF key < isps[i].lo THEN -1 ELSE IF key > isps[i].lo THEN 1 ELSE 0
    BY DEF Compared
  <1> HIDE DEF n
  <1>3. Compared(key, i) = 1 <=> i <= n
    BY <1>0, <1>1, <1>2
  <1>4. Compared(key, i) = 0 <=> isps[i].lo = key
    BY <1>0, <1>2
  <1>5. ASSUME isps[i].lo = key PROVE i = n + 1 /\ Hits(key)
    <2>1. i > n
      BY <1>0, <1>1, <1>5
    <2>2. ASSUME n + 1 < i PROVE FALSE
      <3>1. n + 1 \in 1 .. Len(isps) /\ ~(n + 1 <= n)
        BY <1>1, <2>2
      <3>2. isps[n + 1].lo < isps[i].lo
        BY <2>2, <3>1 DEF IspsSorted, Ordered
      <3> QED
        BY <1>1, <1>5, <3>1, <3>2
    <2>3. Hits(key)
      BY <1>0, <1>5 DEF Hits
    <2> QED
      BY <1>1, <2>1, <2>2, <2>3
  <1>6. ASSUME i = n + 1, Hits(key) PROVE isps[i].lo = key
    <2>1. PICK k \in 1 .. Len(isps) : isps[k].lo = key
      BY <1>0, <1>6 DEF Hits
    <2>2. ~(k <= n) /\ ~(isps[i].lo < key)
      BY <1>0, <1>1, <1>6, <2>1
    <2>3. CASE k = i
      BY <2>1, <2>3
    <2>4. CASE i < k
      <3>1. isps[i].lo < isps[k].lo
        BY <2>4 DEF IspsSorted, Ordered
      <3> QED
        BY <2>1, <2>2, <3>1
    <2> QED
      BY <1>0, <1>1, <1>6, <2>2, <2>3, <2>4
  <1>7. Compared(key, i) \in {-1, 0, 1}
    BY <1>2
  <1> QED
    BY <1>3, <1>4, <1>5, <1>6, <1>7 DEF n

\* What FindDataPositionLimited does at an interval of places, with what it
\* gives for smaller ones.
Halves(f, key, low, high) ==
    LET mid == (low + high + 1) \div 2
    IN  IF high <= low THEN Before(low)
        ELSE CASE Compared(key, mid) = 0 -> Found(mid)
               [] Compared(key, mid) = 1 ->
                    IF mid < high THEN f[<<mid, high>>] ELSE Before(mid + 1)
               [] OTHER -> IF mid > low + 1 THEN f[<<low, mid - 1>>] ELSE Before(mid)
Pairs == (1 .. Len(isps)) \X (1 .. Len(isps))

\* n, or the end of the interval next to it
Clamped(n, low, high) == IF n < low THEN low ELSE IF n > high THEN high ELSE n
\* the answer: what is smaller than the key is before it, as far as it is within
Answer(key, low, high) ==
    IF high <= low THEN [found |-> FALSE, pos |-> low]
    ELSE [found |-> Hits(key) /\ low <= Smaller(key) /\ Smaller(key) < high,
          pos |-> Clamped(Smaller(key), low, high) + 1]

LEMMA AnswersAre ==
    ASSUME NEW key, NEW low, NEW high, high > low, low \in Int, high \in Int, NEW n, n = Smaller(key)
    PROVE  Answer(key, low, high) = [found |-> Hits(key) /\ low <= n /\ n < high,
                                     pos |-> Clamped(n, low, high) + 1]
  BY DEF Answer

\* The answer is what the recursion asks for.
LEMMA AnswerHalves ==
    ASSUME IspsSorted, NEW key \in IPs,
           NEW low \in 1 .. Len(isps), NEW high \in 1 .. Len(isps), NEW f,
           \A a, b \in 1 .. Len(isps) : b - a < high - low => f[<<a, b>>] = Answer(key, a, b)
    PROVE  Halves(f, key, low, high) = Answer(key, low, high)
  <1> DEFINE mid == (low + high + 1) \div 2
             n == Smaller(key)
  <1>0. Len(isps) \in Nat /\ n \in 0 .. Len(isps)
    BY IspsFacts, SmallerIsPrefix DEF IspsSorted
  <1>1. CASE high <= low
    BY <1>1 DEF Halves, Answer, Before
  <1>2. CASE low < high
    <2>1. mid \in 1 .. Len(isps) /\ low < mid /\ mid <= high
      BY <1>0, <1>2
    <2>2. /\ Compared(key, mid) = 1 <=> mid <= n
          /\ Compared(key, mid) = 0 <=> mid = n + 1 /\ Hits(key)
          /\ Compared(key, mid) \in {-1, 0, 1}
      BY <2>1, ComparedIs
    <2>3. Halves(f, key, low, high) =
            CASE Compared(key, mid) = 0 -> Found(mid)
              [] Compared(key, mid) = 1 ->
                    IF mid < high THEN f[<<mid, high>>] ELSE Before(mid + 1)
              [] OTHER -> IF mid > low + 1 THEN f[<<low, mid - 1>>] ELSE Before(mid)
      BY <1>2 DEF Halves
    <2>4. Answer(key, low, high) = [found |-> Hits(key) /\ low <= n /\ n < high,
                                    pos |-> Clamped(n, low, high) + 1]
      BY <1>2, AnswersAre
    <2> HIDE DEF mid, n
    <2>5. CASE Compared(key, mid) = 0
      <3>1. mid = n + 1 /\ Hits(key) /\ Halves(f, key, low, high) = Found(mid)
        BY <2>2, <2>3, <2>5
      <3>2. low <= n /\ n < high /\ Clamped(n, low, high) + 1 = mid
        BY <1>0, <1>2, <2>1, <3>1 DEF Clamped
      <3> QED
        BY <2>4, <3>1, <3>2 DEF Found
    <2>6. CASE Compared(key, mid) = 1 /\ mid < high
      <3>1. Halves(f, key, low, high) = f[<<mid, high>>] /\ mid <= n
        BY <2>2, <2>3, <2>6
      <3>2. f[<<mid, high>>] = Answer(key, mid, high)
        BY <2>1
      <3>3. n = Smaller(key)
        BY DEF n
      <3>4. Answer(key, mid, high) = [found |-> Hits(key) /\ mid <= n /\ n < high,
                                      pos |-> Clamped(n, mid, high) + 1]
        BY <2>1, <2>6, <3>3, AnswersAre
      <3>5. Clamped(n, mid, high) = Clamped(n, low, high) /\ mid <= n /\ low <= n
        BY <1>0, <2>1, <3>1 DEF Clamped
      <3> QED
        BY <2>4, <3>1, <3>2, <3>4, <3>5
    <2>7. CASE Compared(key, mid) = 1 /\ ~(mid < high)
      <3>1. Halves(f, key, low, high) = Before(mid + 1) /\ mid <= n
        BY <2>2, <2>3, <2>7
      <3>2. mid = high /\ ~(n < high) /\ Clamped(n, low, high) = mid
        BY <1>0, <1>2, <2>1, <2>7, <3>1 DEF Clamped
      <3> QED
        BY <2>4, <3>1, <3>2 DEF Before
    <2>8. CASE Compared(key, mid) = -1 /\ mid > low + 1
      <3>1. Halves(f, key, low, high) = f[<<low, mid - 1>>]
        BY <2>3, <2>8
      <3>2. mid - 1 \in 1 .. Len(isps) /\ (mid - 1) - low < high - low
        BY <2>1, <2>8
      <3>3. f[<<low, mid - 1>>] = Answer(key, low, mid - 1)
        BY <3>2
      <3>4. n = Smaller(key)
        BY DEF n
      <3>5. Answer(key, low, mid - 1) = [found |-> Hits(key) /\ low <= n /\ n < mid - 1,
                                         pos |-> Clamped(n, low, mid - 1) + 1]
        BY <2>1, <2>8, <3>2, <3>4, AnswersAre
      <3>6. ~(mid <= n) /\ ~(mid = n + 1 /\ Hits(key))
        BY <2>2, <2>8
      <3>7. /\ Clamped(n, low, mid - 1) = Clamped(n, low, high)
            /\ (Hits(key) /\ low <= n /\ n < mid - 1) = (Hits(key) /\ low <= n /\ n < high)
        <4>0. n \in Int /\ low \in Int /\ high \in Int /\ mid \in Int /\ n < mid /\ mid <= high /\ low < mid - 1
          BY <1>0, <2>1, <2>8, <3>6
        <4>1. Clamped(n, low, mid - 1) = Clamped(n, low, high)
          BY ONLY <4>0 DEF Clamped
        <4>2. (Hits(key) /\ low <= n /\ n < mid - 1) <=> (Hits(key) /\ low <= n /\ n < high)
          BY <1>0, <2>1, <2>8, <3>6
        <4> QED
          BY <4>1, <4>2
      <3> QED
        BY <2>4, <3>1, <3>3, <3>5, <3>7
    <2>9. CASE Compared(key, mid) = -1 /\ ~(mid > low + 1)
      <3>1. Halves(f, key, low, high) = Before(mid)
        BY <2>3, <2>9
      <3>2. ~(mid <= n) /\ ~(mid = n + 1 /\ Hits(key)) /\ mid = low + 1
        BY <2>1, <2>2, <2>9
      <3>3. Clamped(n, low, high) + 1 = mid
        BY <1>0, <1>2, <2>1, <3>2 DEF Clamped
      <3>4. (Hits(key) /\ low <= n /\ n < high) = FALSE
        BY <1>0, <2>1, <3>2
      <3> QED
        BY <2>4, <3>1, <3>3, <3>4 DEF Before
    <2> QED
      BY <2>2, <2>5, <2>6, <2>7, <2>8, <2>9
  <1> QED
    BY <1>1, <1>2

\* The recursion has a solution, and every solution gives the answer.
LEMMA LimitedIs ==
    ASSUME IspsSorted, NEW key \in IPs, NEW low \in 1 .. Len(isps), NEW high \in 1 .. Len(isps)
    PROVE  Limited(key)[<<low, high>>] = Answer(key, low, high)
  <1> DEFINE g == [r \in Pairs |-> Answer(key, r[1], r[2])]
             solves(f) == f = [r \in Pairs |-> Halves(f, key, r[1], r[2])]
             f0 == CHOOSE f : solves(f)
  <1>0. Len(isps) \in Nat
    BY IspsFacts DEF IspsSorted
  <1>1. Limited(key) = f0
    BY DEF Limited, Halves, Pairs
  <1>2. \A a, b \in 1 .. Len(isps) : g[<<a, b>>] = Answer(key, a, b)
    BY DEF Pairs
  <1>3. solves(g)
    <2>1. \A r \in Pairs : /\ r[1] \in 1 .. Len(isps) /\ r[2] \in 1 .. Len(isps)
      BY DEF Pairs
    <2> HIDE DEF g
    <2>2. \A r \in Pairs : Halves(g, key, r[1], r[2]) = Answer(key, r[1], r[2])
      <3> SUFFICES ASSUME NEW r \in Pairs
                   PROVE  Halves(g, key, r[1], r[2]) = Answer(key, r[1], r[2])
        OBVIOUS
      <3> DEFINE x == r[1]
                 y == r[2]
      <3>1. x \in 1 .. Len(isps) /\ y \in 1 .. Len(isps)
        BY <2>1
      <3> HIDE DEF x, y
      <3>2. Halves(g, key, x, y) = Answer(key, x, y)
        BY <1>2, <3>1, AnswerHalves
      <3> QED
        BY <3>2 DEF x, y
    <2>3. g = [r \in Pairs |-> Answer(key, r[1], r[2])]
      BY DEF g
    <2> QED
      BY <2>2, <2>3
  <1> HIDE DEF g
  <1>4. solves(f0)
    BY <1>3
  <1> HIDE DEF f0
  <1>5. ASSUME NEW a \in 1 .. Len(isps), NEW b \in 1 .. Len(isps)
        PROVE  f0[<<a, b>>] = Halves(f0, key, a, b)
    <2>1. <<a, b>> \in Pairs
      BY DEF Pairs
    <2>2. f0 = [r \in Pairs |-> Halves(f0, key, r[1], r[2])]
      BY <1>4
    <2> QED
      BY <2>1, <2>2
  <1> HIDE DEF solves
  <1>6. ASSUME NEW a \in 1 .. Len(isps), NEW b \in 1 .. Len(isps), f0[<<a, b>>] # Answer(key, a, b)
        PROVE  FALSE
    <2> DEFINE T == {d \in Nat : \E c, e \in 1 .. Len(isps) : /\ d = (e - c) + Len(isps)
                                                              /\ f0[<<c, e>>] # Answer(key, c, e)}
    <2>1. (b - a) + Len(isps) \in T
      <3>1. (b - a) + Len(isps) \in Nat
        BY <1>0
      <3> QED
        BY <1>6, <3>1
    <2>2. PICK d \in T : \A k \in T : d <= k
      <3>1. T \in SUBSET Nat
        OBVIOUS
      <3> HIDE DEF T
      <3> QED
        BY <2>1, <3>1, SmallestNumber
    <2>3. PICK c, e \in 1 .. Len(isps) : d = (e - c) + Len(isps) /\ f0[<<c, e>>] # Answer(key, c, e)
      BY <2>2
    <2>4. ASSUME NEW x \in 1 .. Len(isps), NEW y \in 1 .. Len(isps), y - x < e - c
          PROVE  f0[<<x, y>>] = Answer(key, x, y)
      <3>1. (y - x) + Len(isps) < d /\ d \in Nat
        BY <1>0, <2>2, <2>3, <2>4
      <3>2. (y - x) + Len(isps) \in Nat
        BY <1>0
      <3>3. (y - x) + Len(isps) \notin T
        <4> HIDE DEF T
        <4> QED
          BY <2>2, <3>1, <3>2
      <3> QED
        BY <3>2, <3>3
    <2>5. Halves(f0, key, c, e) = Answer(key, c, e)
      BY <2>4, AnswerHalves
    <2> QED
      BY <1>5, <2>3, <2>5
  <1> QED
    BY <1>1, <1>6

\* Halving finds the place, from wherever it starts.
LEMMA PositionIs ==
    ASSUME IspsSorted, NEW key \in IPs, NEW from \in 1 .. Len(isps) + 1
    PROVE  FindDataPosition(key, from) = [found |-> Hits(key), pos |-> Smaller(key) + 1]
  <1> DEFINE last == Len(isps)
             cur == IF from > last THEN last ELSE from
             n == Smaller(key)
  <1>0. last \in Nat /\ n \in 0 .. last /\ DOMAIN isps = 1 .. last
    BY IspsFacts, SmallerIsPrefix DEF IspsSorted
  <1> DEFINE it == [found |-> Hits(key), pos |-> n + 1]
  <1>a. (Hits(key) => it = Found(n + 1)) /\ (~Hits(key) => it = Before(n + 1))
    <2>1. Hits(key) = TRUE \/ Hits(key) = FALSE
      BY DEF Hits
    <2> QED
      BY <2>1 DEF Found, Before
  <1>1. CASE last = 0
    <2>1. FindDataPosition(key, from) = Before(1)
      BY <1>1 DEF FindDataPosition
    <2>2. n + 1 = 1 /\ ~Hits(key)
      BY <1>0, <1>1 DEF Hits
    <2>3. it = Before(1)
      <3> HIDE DEF it, n
      <3> QED
        BY <1>a, <2>2
    <2> QED
      BY <2>1, <2>3
  <1>2. CASE last # 0
    <2> DEFINE P == FindDataPosition(key, from)
    <2>1. cur \in 1 .. last /\ last \in 1 .. last /\ 1 \in 1 .. last
      BY <1>0, <1>2
    <2>2. P = IF Compared(key, cur) = 0 THEN Found(cur)
              ELSE IF Compared(key, last) = 0 THEN Found(last)
              ELSE IF Compared(key, last) = 1 THEN Before(last + 1)
              ELSE IF Compared(key, 1) = 0 THEN Found(1)
              ELSE IF Compared(key, 1) = -1 THEN Before(1)
              ELSE IF Compared(key, cur) = 1 THEN Limited(key)[<<cur, last>>]
              ELSE Limited(key)[<<1, cur>>]
      BY <1>2 DEF FindDataPosition
    <2>3. \A i \in 1 .. last : /\ Compared(key, i) = 1 <=> i <= n
                               /\ Compared(key, i) = 0 <=> i = n + 1 /\ Hits(key)
                               /\ Compared(key, i) \in {-1, 0, 1}
      BY ComparedIs
    <2>4. ASSUME NEW a \in 1 .. last, NEW b \in 1 .. last, a < b, a <= n, n < b
          PROVE  Limited(key)[<<a, b>>] = it
      <3>1. Limited(key)[<<a, b>>] = Answer(key, a, b)
        BY LimitedIs
      <3>2. Answer(key, a, b) = [found |-> Hits(key) /\ a <= n /\ n < b,
                                 pos |-> Clamped(n, a, b) + 1]
        BY <2>4, AnswersAre
      <3>3. Clamped(n, a, b) = n
        BY <1>0, <2>4 DEF Clamped
      <3>4. (Hits(key) /\ a <= n /\ n < b) = Hits(key)
        <4>1. Hits(key) \in BOOLEAN
          BY DEF Hits
        <4> QED
          BY <2>4, <4>1
      <3> QED
        BY <3>1, <3>2, <3>3, <3>4
    <2>5. ~(\E i \in 1 .. last : i = n + 1) => ~Hits(key)
      <3> SUFFICES ASSUME Hits(key) PROVE \E i \in 1 .. last : i = n + 1
        OBVIOUS
      <3>1. PICK i \in 1 .. last : isps[i].lo = key
        BY <1>0 DEF Hits
      <3>2. isps[i].lo \in Nat
        BY IspsFacts DEF IspsSorted
      <3>3. Compared(key, i) = 0
        BY <3>1, <3>2 DEF Compared
      <3> HIDE DEF n
      <3> QED
        BY <2>3, <3>3
    <2> SUFFICES P = it
      OBVIOUS
    <2> HIDE DEF last, cur, n, it, P
    <2>6. CASE Compared(key, cur) = 0
      BY <1>a, <2>1, <2>2, <2>3, <2>6
    <2>7. CASE Compared(key, cur) # 0 /\ Compared(key, last) = 0
      BY <1>a, <2>1, <2>2, <2>3, <2>7
    <2>8. CASE Compared(key, cur) # 0 /\ Compared(key, last) = 1
      <3>1. n = last
        BY <1>0, <2>1, <2>3, <2>8
      <3>2. ~Hits(key)
        BY <1>0, <2>5, <3>1
      <3> QED
        BY <1>a, <2>2, <2>8, <3>1, <3>2
    <2>9. CASE Compared(key, cur) # 0 /\ Compared(key, last) = -1
      <3>1. ~(last <= n)
        BY <2>1, <2>3, <2>9
      <3>2. CASE Compared(key, 1) = 0
        BY <1>a, <2>1, <2>2, <2>3, <2>9, <3>2
      <3>3. CASE Compared(key, 1) = -1
        <4>1. ~(1 <= n) /\ ~(1 = n + 1 /\ Hits(key))
          BY <2>1, <2>3, <3>3
        <4>2. n + 1 = 1 /\ ~Hits(key)
          BY <1>0, <4>1
        <4> QED
          BY <1>a, <2>2, <2>9, <3>3, <4>2
      <3>4. CASE Compared(key, 1) = 1 /\ Compared(key, cur) = 1
        <4>1. cur <= n /\ n < last /\ cur < last
          BY <1>0, <2>1, <2>3, <3>1, <3>4
        <4>2. P = Limited(key)[<<cur, last>>]
          BY <2>2, <2>9, <3>4
        <4> QED
          BY <2>1, <2>4, <4>1, <4>2
      <3>5. CASE Compared(key, 1) = 1 /\ Compared(key, cur) = -1
        <4>1. 1 <= n /\ n < cur /\ 1 < cur
          BY <1>0, <2>1, <2>3, <3>5
        <4>2. P = Limited(key)[<<1, cur>>]
          BY <2>2, <2>9, <3>5
        <4> QED
          BY <2>1, <2>4, <4>1, <4>2
      <3> QED
        BY <2>1, <2>3, <2>9, <3>2, <3>3, <3>4, <3>5
    <2> QED
      BY <2>1, <2>3, <2>6, <2>7, <2>8, <2>9
  <1> QED
    BY <1>1, <1>2

LEMMA SortedIsFound == IspsSorted => HalvingRight
  BY PositionIs DEF HalvingRight, Hits

-----------------------------------------------------------------------------
(* PluginLists: the ranges and the list of countries *)

\* who is in the list of countries has one, and is a range in the list or was
\* deleted without being looked for
CountriesKnown ==
    \A j \in 1 .. Len(ccList) :
        /\ ccList[j].id <= made
        /\ \A i \in 1 .. Len(isps) : isps[i].id = ccList[j].id => isps[i].cc # NoCountry
        /\ ccList[j].id \in stale \/ \E i \in 1 .. Len(isps) : isps[i].id = ccList[j].id
RangesKept ==
    /\ ispRows = {isps[i] : i \in 1 .. Len(isps)}
    /\ \A i \in 1 .. Len(isps) : isps[i].id <= made
IspInv == made \in Nat /\ IspsSorted /\ ccList \in Seq(Isps) /\ RangesKept /\ CountriesKnown

LEMMA AtIs ==
    ASSUME IspsSorted, NEW key \in IPs
    PROVE  \A i \in 1 .. Len(isps) : isps[i].lo <= key <=>
               i <= (IF Hits(key) THEN Smaller(key) + 1 ELSE Smaller(key))
  <1> SUFFICES ASSUME NEW i \in 1 .. Len(isps)
               PROVE  isps[i].lo <= key <=>
                        i <= (IF Hits(key) THEN Smaller(key) + 1 ELSE Smaller(key))
    OBVIOUS
  <1>1. /\ Compared(key, i) = 1 <=> i <= Smaller(key)
        /\ Compared(key, i) = 0 <=> i = Smaller(key) + 1 /\ Hits(key)
    BY ComparedIs
  <1>2. isps[i].lo \in Nat /\ key \in Nat /\ Len(isps) \in Nat /\ Smaller(key) \in 0 .. Len(isps)
    BY IspsFacts, SmallerIsPrefix DEF IspsSorted
  <1>3. isps[i].lo <= key <=> Compared(key, i) \in {0, 1}
    BY <1>2 DEF Compared
  <1> QED
    BY <1>1, <1>2, <1>3

LEMMA SortedAnswersRight ==
    ASSUME IspInv
    PROVE  IspRight
  <1> SUFFICES ASSUME NEW ip \in IPs, NEW cc \in Countries
               PROVE  /\ "no isp" \in IspAnswers(1, 2, ip, cc, 0, FALSE, NoShare, NoShare) =>
                            \A i \in DOMAIN isps : ~(Nearest(ip, isps[i]) /\ ip <= isps[i].hi)
                      /\ \A o \in FindISP(ip, cc) :
                            ip \in o.lo .. o.hi \/ o.cc = cc \/ o.lo = 0 \/ o.id \in stale
    BY DEF IspRight
  <1> DEFINE p == FindDataPosition(ip, 1)
             k == IF p.found THEN p.pos ELSE p.pos - 1
  <1>0. /\ IspsSorted /\ isps \in Seq(Isps) /\ Len(isps) \in Nat /\ DOMAIN isps = 1 .. Len(isps)
        /\ \A i \in 1 .. Len(isps) : isps[i] \in Isps /\ isps[i].lo \in Nat
        /\ ip \in Nat /\ IPs \subseteq Nat
    BY IspsFacts DEF IspInv, IspsSorted
  <1>1. \A i \in 1 .. Len(isps) : isps[i].hi \in Nat
    BY <1>0 DEF Isps
  <1>2. Smaller(ip) \in 0 .. Len(isps) /\ p = [found |-> Hits(ip), pos |-> Smaller(ip) + 1]
    <2>1. 1 \in 1 .. Len(isps) + 1
      BY <1>0
    <2> QED
      BY <1>0, <2>1, PositionIs, SmallerIsPrefix
  <1>3. k = IF Hits(ip) THEN Smaller(ip) + 1 ELSE Smaller(ip)
    <2>1. p.found = Hits(ip) /\ p.pos = Smaller(ip) + 1
      BY <1>2
    <2> HIDE DEF p
    <2> QED
      BY <1>2, <2>1
  <1>4. \A i \in 1 .. Len(isps) : isps[i].lo <= ip <=> i <= k
    BY <1>0, <1>3, AtIs
  <1>5. k \in 0 .. Len(isps)
    <2>1. CASE ~Hits(ip)
      BY <1>2, <1>3, <2>1
    <2>2. CASE Hits(ip)
      <3>1. PICK i \in 1 .. Len(isps) : isps[i].lo = ip
        BY <1>0, <2>2 DEF Hits
      <3>2. Compared(ip, i) = 0
        BY <1>0, <3>1 DEF Compared
      <3>3. i = Smaller(ip) + 1
        BY <1>0, <3>2, ComparedIs
      <3> QED
        BY <1>0, <1>3, <2>2, <3>3
    <2> QED
      BY <2>1, <2>2
  <1>6. RangeOf(ip) = IF k > 0 /\ isps[k].hi >= ip THEN {isps[k]} ELSE {}
    BY DEF RangeOf
  <1> HIDE DEF k, p
  <1>7. ASSUME "no isp" \in IspAnswers(1, 2, ip, cc, 0, FALSE, NoShare, NoShare),
               NEW i \in 1 .. Len(isps), Nearest(ip, isps[i]), ip <= isps[i].hi
        PROVE  FALSE
    <2>1. FindISP(ip, cc) = {}
      BY <1>7 DEF IspAnswers
    <2>2. RangeOf(ip) = {}
      BY <2>1 DEF FindISP
    <2>3. isps[i].lo <= ip /\ \A j \in 1 .. Len(isps) : isps[j].lo > ip \/ isps[j].lo <= isps[i].lo
      BY <1>0, <1>7 DEF Nearest
    <2>4. i <= k /\ k \in 1 .. Len(isps)
      BY <1>4, <1>5, <2>3
    <2>5. isps[k].lo <= ip
      BY <1>4, <2>4
    <2>6. isps[k].lo <= isps[i].lo
      BY <1>0, <2>3, <2>4, <2>5
    <2>7. ~(i < k)
      <3>1. i < k => isps[i].lo < isps[k].lo
        BY <2>4 DEF IspsSorted, Ordered, IspInv
      <3> QED
        BY <1>0, <2>4, <2>6, <3>1
    <2>8. i = k
      BY <2>4, <2>7
    <2>9. k > 0
      BY <1>0, <2>4
    <2>10. isps[i].hi \in Nat /\ isps[i].hi >= ip
      BY <1>0, <1>1, <1>7
    <2>11. isps[k].hi >= ip
      BY <2>8, <2>10
    <2> QED
      BY <1>6, <2>2, <2>9, <2>11
  <1>8. ASSUME NEW o \in FindISP(ip, cc)
        PROVE  ip \in o.lo .. o.hi \/ o.cc = cc \/ o.lo = 0 \/ o.id \in stale
    <2>1. CASE o \in RangeOf(ip)
      <3>1. k \in 1 .. Len(isps) /\ o = isps[k] /\ isps[k].hi >= ip
        BY <1>5, <1>6, <2>1
      <3>2. isps[k].lo <= ip
        BY <1>4, <3>1
      <3> QED
        BY <1>0, <1>1, <3>1, <3>2
    <2>2. CASE o \in FindISPByCC(cc)
      <3>1. PICK j \in DOMAIN ccList : o = ccList[j] /\ (ccList[j].cc = cc \/ Freed(ccList[j]))
        BY <2>2 DEF FindISPByCC
      <3>2. j \in 1 .. Len(ccList)
        BY <3>1 DEF IspInv
      <3>3. Freed(ccList[j]) => ccList[j].id \in stale
        BY <1>0, <3>2 DEF IspInv, CountriesKnown, Freed
      <3> QED
        BY <3>1, <3>3
    <2>3. CASE o \in ForAll
      BY <2>3 DEF ForAll
    <2> QED
      BY <2>1, <2>2, <2>3 DEF FindISP
  <1> QED
    BY <1>0, <1>7, <1>8

LEMMA AddIspKeeps ==
    ASSUME IspInv, NEW lo \in IPs, NEW hi \in IPs, NEW cc \in Countries \cup {NoCountry},
           AddIsp(lo, hi, cc)
    PROVE  IspInv'
  <1> DEFINE o == [lo |-> lo, hi |-> hi, cc |-> cc, id |-> made + 1]
             n == Smaller(lo)
             new == InsertAt(isps, n + 1, o)
  <1>0. /\ IspsSorted /\ isps \in Seq(Isps) /\ Len(isps) \in Nat /\ DOMAIN isps = 1 .. Len(isps)
        /\ \A i \in 1 .. Len(isps) : isps[i] \in Isps /\ isps[i].lo \in Nat
        /\ lo \in Nat /\ made \in Nat
    BY IspsFacts DEF IspInv, IspsSorted
  <1>1. n \in 0 .. Len(isps) /\ \A i \in 1 .. Len(isps) : isps[i].lo < lo <=> i <= n
    BY <1>0, SmallerIsPrefix
  <1>2. o \in Isps /\ o.lo = lo /\ o.id = made + 1 /\ o.cc = cc
    BY <1>0 DEF Isps
  <1>3. FindDataPosition(lo, Len(isps) + 1).pos = n + 1
    <2>1. Len(isps) + 1 \in 1 .. Len(isps) + 1
      BY <1>0
    <2>2. FindDataPosition(lo, Len(isps) + 1) = [found |-> Hits(lo), pos |-> n + 1]
      BY <1>0, <2>1, PositionIs
    <2> QED
      BY <2>2
  <1>4. /\ isps' = new /\ made' = made + 1 /\ stale' = stale
        /\ ispRows' = ispRows \cup {o}
        /\ ccList' = IF cc # NoCountry THEN Append(ccList, o) ELSE ccList
        /\ \A i \in 1 .. Len(isps) : isps[i].lo # lo
    BY <1>0, <1>3 DEF AddIsp
  <1> HIDE DEF o, n
  <1>5. /\ new \in Seq(Isps) /\ Len(new) = Len(isps) + 1
        /\ \A i \in 1 .. Len(isps) + 1 :
              new[i] = IF i < n + 1 THEN isps[i] ELSE IF i = n + 1 THEN o ELSE isps[i - 1]
    <2> DEFINE p == n + 1
    <2>1. p \in 1 .. Len(isps) + 1
      BY <1>0, <1>1
    <2> SUFFICES /\ InsertAt(isps, p, o) \in Seq(Isps)
                 /\ Len(InsertAt(isps, p, o)) = Len(isps) + 1
                 /\ \A i \in 1 .. Len(isps) + 1 : InsertAt(isps, p, o)[i] =
                        IF i < p THEN isps[i] ELSE IF i = p THEN o ELSE isps[i - 1]
      OBVIOUS
    <2> HIDE DEF p
    <2> QED
      BY <1>0, <1>2, <2>1, PutIn
  <1> HIDE DEF new
  <1>6. Ordered(new)
    <2> SUFFICES ASSUME NEW i \in 1 .. Len(new), NEW j \in 1 .. Len(new), i < j
                 PROVE  new[i].lo < new[j].lo
      BY DEF Ordered
    <2>1. /\ new[i] = IF i < n + 1 THEN isps[i] ELSE IF i = n + 1 THEN o ELSE isps[i - 1]
          /\ new[j] = IF j < n + 1 THEN isps[j] ELSE IF j = n + 1 THEN o ELSE isps[j - 1]
      BY <1>5
    <2>2. \A x, y \in 1 .. Len(isps) : x < y => isps[x].lo < isps[y].lo
      BY <1>0 DEF IspsSorted, Ordered
    <2>3. \A x \in 1 .. Len(isps) : x > n => lo < isps[x].lo
      BY <1>0, <1>1, <1>4
    <2>4. i \in 1 .. Len(isps) + 1 /\ j \in 1 .. Len(isps) + 1
      BY <1>5
    <2>5. CASE j < n + 1
      BY <1>0, <1>1, <2>1, <2>2, <2>4, <2>5
    <2>6. CASE j = n + 1
      <3>1. i \in 1 .. Len(isps) /\ i <= n
        BY <1>0, <1>1, <2>4, <2>6
      <3>2. new[i] = isps[i] /\ new[j] = o
        BY <1>1, <2>1, <2>6, <3>1
      <3> QED
        BY <1>1, <1>2, <3>1, <3>2
    <2>7. CASE j > n + 1
      <3>1. new[j] = isps[j - 1] /\ j - 1 \in 1 .. Len(isps) /\ j - 1 > n
        BY <1>0, <1>1, <2>1, <2>4, <2>7
      <3>2. CASE i < n + 1
        <4>1. new[i] = isps[i] /\ i \in 1 .. Len(isps) /\ i < j - 1
          BY <1>0, <1>1, <2>1, <2>4, <2>7, <3>2
        <4> QED
          BY <2>2, <3>1, <4>1
      <3>3. CASE i = n + 1
        <4>1. new[i] = o
          BY <1>1, <2>1, <3>3
        <4> QED
          BY <1>2, <2>3, <3>1, <4>1
      <3>4. CASE i > n + 1
        <4>1. new[i] = isps[i - 1] /\ i - 1 \in 1 .. Len(isps) /\ i - 1 < j - 1
          BY <1>0, <1>1, <2>1, <2>4, <3>4
        <4> QED
          BY <2>2, <3>1, <4>1
      <3> QED
        BY <1>1, <2>4, <3>2, <3>3, <3>4
    <2> QED
      BY <1>1, <2>4, <2>5, <2>6, <2>7
  <1>7. {new[i] : i \in 1 .. Len(new)} = {isps[i] : i \in 1 .. Len(isps)} \cup {o}
    <2>1. ASSUME NEW i \in 1 .. Len(new) PROVE new[i] = o \/ \E k \in 1 .. Len(isps) : new[i] = isps[k]
      <3>1. i \in 1 .. Len(isps) + 1
        BY <1>5
      <3>2. CASE i < n + 1
        <4>1. i \in 1 .. Len(isps) /\ new[i] = isps[i]
          BY <1>0, <1>1, <1>5, <3>1, <3>2
        <4> QED
          BY <4>1
      <3>3. CASE i = n + 1
        BY <1>1, <1>5, <3>1, <3>3
      <3>4. CASE i > n + 1
        <4>1. i - 1 \in 1 .. Len(isps) /\ new[i] = isps[i - 1]
          BY <1>0, <1>1, <1>5, <3>1, <3>4
        <4> QED
          BY <4>1
      <3> QED
        BY <1>1, <3>1, <3>2, <3>3, <3>4
    <2>2. n + 1 \in 1 .. Len(new) /\ new[n + 1] = o
      BY <1>0, <1>1, <1>5
    <2>3. ASSUME NEW k \in 1 .. Len(isps) PROVE \E i \in 1 .. Len(new) : new[i] = isps[k]
      <3>1. CASE k <= n
        <4>1. k \in 1 .. Len(new) /\ new[k] = isps[k]
          BY <1>0, <1>1, <1>5, <3>1
        <4> QED
          BY <4>1
      <3>2. CASE k > n
        <4>1. k + 1 \in 1 .. Len(new) /\ new[k + 1] = isps[k]
          BY <1>0, <1>1, <1>5, <3>2
        <4> QED
          BY <4>1
      <3> QED
        BY <1>1, <3>1, <3>2
    <2> DEFINE A == {new[i] : i \in 1 .. Len(new)}
               B == {isps[i] : i \in 1 .. Len(isps)}
    <2>4. A \subseteq B \cup {o}
      BY <2>1
    <2>5. B \subseteq A
      BY <2>3
    <2>6. o \in A
      BY <2>2
    <2> QED
      <3> HIDE DEF A, B
      <3>1. A = B \cup {o}
        BY <2>4, <2>5, <2>6
      <3> QED
        BY <3>1 DEF A, B
  <1>8. RangesKept'
    <2>1. ispRows' = {new[i] : i \in 1 .. Len(new)}
      BY <1>4, <1>7 DEF IspInv, RangesKept
    <2>2. ASSUME NEW i \in 1 .. Len(new) PROVE new[i].id <= made + 1
      <3>1. new[i] = o \/ \E k \in 1 .. Len(isps) : new[i] = isps[k]
        BY <1>7
      <3>2. \A k \in 1 .. Len(isps) : isps[k].id <= made /\ isps[k].id \in Nat
        BY <1>0 DEF IspInv, RangesKept, Isps
      <3> QED
        BY <1>0, <1>2, <3>1, <3>2
    <2> QED
      BY <1>4, <2>1, <2>2 DEF RangesKept
  <1>9. ccList' \in Seq(Isps) /\ CountriesKnown'
    <2>1. ccList \in Seq(Isps) /\ ccList' \in Seq(Isps)
      BY <1>2, <1>4 DEF IspInv
    <2>2. \A k \in 1 .. Len(isps) : \E i \in 1 .. Len(new) : new[i] = isps[k]
      BY <1>7
    <2>3. \E i \in 1 .. Len(new) : new[i] = o
      BY <1>7
    <2>4. \A j \in 1 .. Len(ccList) : ccList[j].id <= made /\ ccList[j].id \in Nat
      <3>1. \A j \in 1 .. Len(ccList) : ccList[j] \in Isps
        BY <2>1
      <3>2. \A r \in Isps : r.id \in Nat
        BY DEF Isps
      <3>3. \A j \in 1 .. Len(ccList) : ccList[j].id <= made
        BY DEF IspInv, CountriesKnown
      <3> QED
        BY <3>1, <3>2, <3>3
    <2>5. \A i \in 1 .. Len(new) : new[i] = o \/ \E k \in 1 .. Len(isps) : new[i] = isps[k]
      BY <1>7
    <2>6. \A k \in 1 .. Len(isps) : isps[k].id <= made /\ isps[k].id \in Nat
      BY <1>0 DEF IspInv, RangesKept, Isps
    <2>7. ASSUME NEW j \in 1 .. Len(ccList)
          PROVE  /\ ccList[j].id <= made + 1
                 /\ \A i \in 1 .. Len(new) : new[i].id = ccList[j].id => new[i].cc # NoCountry
                 /\ ccList[j].id \in stale \/ \E i \in 1 .. Len(new) : new[i].id = ccList[j].id
      <3>1. ccList[j].id <= made + 1 /\ ccList[j].id # o.id
        BY <1>0, <1>2, <2>4
      <3>2. \A i \in 1 .. Len(new) : new[i].id = ccList[j].id => new[i].cc # NoCountry
        BY <2>5, <3>1 DEF IspInv, CountriesKnown
      <3>3. ccList[j].id \in stale \/ \E i \in 1 .. Len(new) : new[i].id = ccList[j].id
        BY <2>2 DEF IspInv, CountriesKnown
      <3> QED
        BY <3>1, <3>2, <3>3
    <2>8. cc # NoCountry =>
            /\ o.id <= made + 1
            /\ \A i \in 1 .. Len(new) : new[i].id = o.id => new[i].cc # NoCountry
            /\ \E i \in 1 .. Len(new) : new[i].id = o.id
      <3> SUFFICES ASSUME cc # NoCountry
                   PROVE  /\ o.id <= made + 1
                          /\ \A i \in 1 .. Len(new) : new[i].id = o.id => new[i].cc # NoCountry
                          /\ \E i \in 1 .. Len(new) : new[i].id = o.id
        OBVIOUS
      <3>1. \A k \in 1 .. Len(isps) : isps[k].id # o.id
        BY <1>0, <1>2, <2>6
      <3>2. \A i \in 1 .. Len(new) : new[i].id = o.id => new[i].cc # NoCountry
        BY <1>2, <2>5, <3>1
      <3> QED
        BY <1>0, <1>2, <2>3, <3>2
    <2>9. \A j \in 1 .. Len(ccList') : \/ j \in 1 .. Len(ccList) /\ ccList'[j] = ccList[j]
                                       \/ cc # NoCountry /\ ccList'[j] = o
      BY <1>2, <1>4, <2>1
    <2>10. CountriesKnown'
      BY <1>4, <2>7, <2>8, <2>9 DEF CountriesKnown
    <2> QED
      BY <2>1, <2>10
  <1>10. made' \in Nat /\ IspsSorted'
    BY <1>0, <1>4, <1>5, <1>6 DEF IspsSorted
  <1> QED
    BY <1>8, <1>9, <1>10 DEF IspInv

\* What goes is the row asked for.
\* The row that is asked for is found.
LEMMA PlaceOfRow ==
    ASSUME IspsSorted, NEW lo \in IPs, \E i \in DOMAIN isps : isps[i].lo = lo
    PROVE  LET n == Smaller(lo) + 1 IN
           n \in 1 .. Len(isps) /\ isps[n].lo = lo /\ FindDataPosition(lo, 1).pos = n
  <1> DEFINE n == Smaller(lo) + 1
  <1>0. /\ isps \in Seq(Isps) /\ Len(isps) \in Nat /\ DOMAIN isps = 1 .. Len(isps)
        /\ \A i \in 1 .. Len(isps) : isps[i].lo \in Nat
        /\ lo \in Nat
    BY IspsFacts DEF IspsSorted
  <1>1. n \in 1 .. Len(isps) /\ isps[n].lo = lo
    <2>1. PICK i \in 1 .. Len(isps) : isps[i].lo = lo
      BY <1>0
    <2>2. Compared(lo, i) = 0
      BY <1>0, <2>1 DEF Compared
    <2>3. i = n
      BY <1>0, <2>2, ComparedIs
    <2> HIDE DEF n
    <2> QED
      BY <2>1, <2>3
  <1>2. FindDataPosition(lo, 1).pos = n
    <2>1. 1 \in 1 .. Len(isps) + 1
      BY <1>0
    <2>2. FindDataPosition(lo, 1) = [found |-> Hits(lo), pos |-> Smaller(lo) + 1]
      BY <1>0, <2>1, PositionIs
    <2> QED
      BY <2>2
  <1> QED
    BY <1>1, <1>2

LEMMA DelIspKeeps ==
    ASSUME IspInv, NEW lo \in IPs, DelIsp(lo)
    PROVE  IspInv'
  <1> DEFINE n == Smaller(lo) + 1
             new == RemoveAt(isps, n)
  <1>0. /\ IspsSorted /\ isps \in Seq(Isps) /\ Len(isps) \in Nat /\ DOMAIN isps = 1 .. Len(isps)
        /\ \A i \in 1 .. Len(isps) : isps[i] \in Isps /\ isps[i].lo \in Nat
        /\ lo \in Nat /\ made \in Nat
    BY IspsFacts DEF IspInv, IspsSorted
  <1>1. n \in 1 .. Len(isps) /\ isps[n].lo = lo
    BY <1>0, PlaceOfRow DEF DelIsp
  <1>2. FindDataPosition(lo, 1).pos = n
    BY <1>0, PlaceOfRow DEF DelIsp
  <1>3. /\ isps' = new /\ made' = made /\ ccList' = ccList
        /\ ispRows' = {o \in ispRows : o.lo # lo}
        /\ stale' = IF isps[n].cc # NoCountry THEN stale \cup {isps[n].id} ELSE stale
    BY <1>2 DEF DelIsp
  <1> HIDE DEF n
  <1>4. /\ new \in Seq(Isps) /\ Len(new) = Len(isps) - 1
        /\ \A i \in 1 .. Len(isps) - 1 : new[i] = IF i < n THEN isps[i] ELSE isps[i + 1]
    BY <1>0, <1>1, TakenOut
  <1> HIDE DEF new
  <1>5. \A x, y \in 1 .. Len(isps) : x < y => isps[x].lo < isps[y].lo
    BY <1>0 DEF IspsSorted, Ordered
  <1>6. \A k \in 1 .. Len(isps) : isps[k].lo = lo => k = n
    BY <1>0, <1>1, <1>5
  <1>7. \A i \in 1 .. Len(new) :
            \E k \in 1 .. Len(isps) : k # n /\ new[i] = isps[k]
    <2> SUFFICES ASSUME NEW i \in 1 .. Len(new)
                 PROVE  \E k \in 1 .. Len(isps) : k # n /\ new[i] = isps[k]
      OBVIOUS
    <2>1. CASE i < n
      <3>1. i \in 1 .. Len(isps) /\ new[i] = isps[i] /\ i # n
        BY <1>0, <1>1, <1>4, <2>1
      <3> QED
        BY <3>1
    <2>2. CASE ~(i < n)
      <3>1. i + 1 \in 1 .. Len(isps) /\ new[i] = isps[i + 1] /\ i + 1 # n
        BY <1>0, <1>1, <1>4, <2>2
      <3> QED
        BY <3>1
    <2> QED
      BY <2>1, <2>2
  <1>8. \A k \in 1 .. Len(isps) : k # n => \E i \in 1 .. Len(new) : new[i] = isps[k]
    <2> SUFFICES ASSUME NEW k \in 1 .. Len(isps), k # n
                 PROVE  \E i \in 1 .. Len(new) : new[i] = isps[k]
      OBVIOUS
    <2>1. CASE k < n
      <3>1. k \in 1 .. Len(new) /\ new[k] = isps[k]
        BY <1>0, <1>1, <1>4, <2>1
      <3> QED
        BY <3>1
    <2>2. CASE n < k
      <3>1. k - 1 \in 1 .. Len(new) /\ new[k - 1] = isps[k]
        BY <1>0, <1>1, <1>4, <2>2
      <3> QED
        BY <3>1
    <2> QED
      BY <1>0, <1>1, <2>1, <2>2
  <1>9. Ordered(new)
    <2> SUFFICES ASSUME NEW i \in 1 .. Len(new), NEW j \in 1 .. Len(new), i < j
                 PROVE  new[i].lo < new[j].lo
      BY DEF Ordered
    <2> DEFINE x == IF i < n THEN i ELSE i + 1
               y == IF j < n THEN j ELSE j + 1
    <2>1. new[i] = isps[x] /\ new[j] = isps[y]
      BY <1>0, <1>4
    <2>2. x \in 1 .. Len(isps) /\ y \in 1 .. Len(isps) /\ x < y
      BY <1>0, <1>1, <1>4
    <2> HIDE DEF x, y
    <2> QED
      BY <1>5, <2>1, <2>2
  <1>10. RangesKept'
    <2>1. ispRows = {isps[k] : k \in 1 .. Len(isps)}
      BY DEF IspInv, RangesKept
    <2> DEFINE A == {new[i] : i \in 1 .. Len(new)}
    <2>2. A \subseteq ispRows'
      <3> SUFFICES ASSUME NEW i \in 1 .. Len(new) PROVE new[i] \in ispRows'
        OBVIOUS
      <3>1. PICK k \in 1 .. Len(isps) : k # n /\ new[i] = isps[k]
        BY <1>7
      <3>2. isps[k].lo # lo
        BY <1>6, <3>1
      <3> QED
        BY <1>3, <2>1, <3>1, <3>2
    <2>3. ispRows' \subseteq A
      <3> SUFFICES ASSUME NEW o \in ispRows' PROVE o \in A
        OBVIOUS
      <3>1. o \in ispRows /\ o.lo # lo
        BY <1>3
      <3>2. PICK k \in 1 .. Len(isps) : o = isps[k]
        BY <2>1, <3>1
      <3>3. k # n
        BY <1>1, <3>1, <3>2
      <3> QED
        BY <1>8, <3>2, <3>3
    <2>4. ispRows' = A
      <3> HIDE DEF A
      <3> QED
        BY <2>2, <2>3
    <2>5. \A i \in 1 .. Len(new) : new[i].id <= made
      <3>1. \A k \in 1 .. Len(isps) : isps[k].id <= made
        BY DEF IspInv, RangesKept
      <3> QED
        BY <1>7, <3>1
    <2> QED
      BY <1>3, <2>4, <2>5 DEF RangesKept
  <1>11. CountriesKnown'
    <2> SUFFICES ASSUME NEW j \in 1 .. Len(ccList)
                 PROVE  /\ ccList[j].id <= made
                        /\ \A i \in 1 .. Len(new) : new[i].id = ccList[j].id => new[i].cc # NoCountry
                        /\ ccList[j].id \in stale' \/ \E i \in 1 .. Len(new) : new[i].id = ccList[j].id
      BY <1>3 DEF CountriesKnown
    <2>1. /\ ccList[j].id <= made
          /\ \A i \in 1 .. Len(isps) : isps[i].id = ccList[j].id => isps[i].cc # NoCountry
          /\ ccList[j].id \in stale \/ \E i \in 1 .. Len(isps) : isps[i].id = ccList[j].id
      BY DEF IspInv, CountriesKnown
    <2>2. \A i \in 1 .. Len(new) : new[i].id = ccList[j].id => new[i].cc # NoCountry
      BY <1>7, <2>1
    <2>3. ccList[j].id \in stale' \/ \E i \in 1 .. Len(new) : new[i].id = ccList[j].id
      <3>1. CASE ccList[j].id \in stale
        BY <1>3, <3>1
      <3>2. CASE \E i \in 1 .. Len(isps) : isps[i].id = ccList[j].id
        <4>1. PICK k \in 1 .. Len(isps) : isps[k].id = ccList[j].id
          BY <3>2
        <4>2. isps[k].cc # NoCountry
          BY <2>1, <4>1
        <4>3. CASE k = n
          BY <1>3, <4>1, <4>2, <4>3
        <4>4. CASE k # n
          BY <1>8, <4>1, <4>4
        <4> QED
          BY <4>3, <4>4
      <3> QED
        BY <2>1, <3>1, <3>2
    <2> QED
      BY <2>1, <2>2, <2>3
  <1>12. made' \in Nat /\ IspsSorted' /\ ccList' \in Seq(Isps)
    BY <1>0, <1>3, <1>4, <1>9 DEF IspsSorted, IspInv
  <1> QED
    BY <1>10, <1>11, <1>12 DEF IspInv

\* The end of a range is the only thing that !modisp changes.
LEMMA ModIspKeeps ==
    ASSUME IspInv, NEW lo \in IPs, NEW hi \in IPs, ModIsp(lo, hi)
    PROVE  IspInv'
  <1> DEFINE Mod(o) == IF o.lo = lo THEN [o EXCEPT !.hi = hi] ELSE o
  <1>0. /\ IspsSorted /\ isps \in Seq(Isps) /\ Len(isps) \in Nat /\ DOMAIN isps = 1 .. Len(isps)
        /\ \A i \in 1 .. Len(isps) : isps[i] \in Isps
        /\ made \in Nat
    BY IspsFacts DEF IspInv, IspsSorted
  <1>1. \A o \in Isps : /\ Mod(o) \in Isps /\ Mod(o).lo = o.lo
                        /\ Mod(o).cc = o.cc /\ Mod(o).id = o.id
    BY DEF Isps
  <1>2. /\ isps' = [i \in 1 .. Len(isps) |-> Mod(isps[i])]
        /\ ispRows' = {Mod(o) : o \in ispRows}
        /\ ccList' = ccList /\ made' = made /\ stale' = stale
    BY <1>0 DEF ModIsp
  <1> HIDE DEF Mod
  <1>3. /\ isps' \in Seq(Isps) /\ Len(isps') = Len(isps)
        /\ \A i \in 1 .. Len(isps) : isps'[i] = Mod(isps[i])
    BY <1>0, <1>1, <1>2
  <1>4. \A i \in 1 .. Len(isps) : /\ isps'[i].lo = isps[i].lo /\ isps'[i].cc = isps[i].cc
                                  /\ isps'[i].id = isps[i].id
    BY <1>0, <1>1, <1>3
  <1>5. IspsSorted'
    BY <1>0, <1>3, <1>4 DEF IspsSorted, Ordered
  <1>6. RangesKept'
    <2>1. ispRows = {isps[i] : i \in 1 .. Len(isps)}
      BY DEF IspInv, RangesKept
    <2>2. ispRows' = {isps'[i] : i \in 1 .. Len(isps)}
      BY <1>2, <1>3, <2>1
    <2> QED
      BY <1>2, <1>3, <1>4, <2>2 DEF IspInv, RangesKept
  <1>7. CountriesKnown'
    BY <1>2, <1>3, <1>4 DEF IspInv, CountriesKnown
  <1>8. ccList' \in Seq(Isps) /\ made' \in Nat
    BY <1>0, <1>2 DEF IspInv
  <1> QED
    BY <1>5, <1>6, <1>7, <1>8 DEF IspInv

\* Rows read in order of their addresses are all the rows, each once.
LEMMA StartIspKeeps ==
    ASSUME IspInv, StartIsp
    PROVE  IspInv'
  <1>0. isps \in Seq(Isps) /\ Len(isps) \in Nat /\ \A i \in 1 .. Len(isps) : isps[i] \in Isps
    BY IspsFacts DEF IspInv, IspsSorted
  <1>1. /\ ispRows = {isps[i] : i \in 1 .. Len(isps)}
        /\ \A i \in 1 .. Len(isps) : isps[i].id <= made
    BY DEF IspInv, RangesKept
  <1>2. IsFiniteSet(ispRows) /\ Cardinality(ispRows) \in Nat
    <2> DEFINE D == 1 .. Len(isps)
               f == [i \in D |-> isps[i]]
    <2>1. IsFiniteSet(D)
      BY <1>0, FS_Interval
    <2>2. f \in Surjection(D, ispRows)
      BY <1>1 DEF Surjection
    <2> HIDE DEF D, f
    <2>3. IsFiniteSet(ispRows)
      BY <2>1, <2>2, FS_Surjection
    <2> QED
      BY <2>3, FS_CardinalityType
  <1> DEFINE n == Cardinality(ispRows)
             D == 1 .. n
  <1>3. /\ isps' \in [D -> ispRows] /\ \A i, j \in D : i < j => isps'[i].lo < isps'[j].lo
        /\ ispRows' = ispRows /\ made' = made /\ ccList' = <<>> /\ stale' = {}
    BY DEF StartIsp, RowsByAddress
  <1>4. \A o \in ispRows : o \in Isps /\ o.lo \in Nat /\ o.id <= made
    <2>1. \A o \in ispRows : o \in Isps /\ o.id <= made
      BY <1>0, <1>1
    <2>2. \A o \in Isps : o.lo \in Nat
      BY AddressesAreNumbers DEF Isps
    <2> QED
      BY <2>1, <2>2
  <1>5. \A i \in D : isps'[i] \in ispRows
    BY <1>3
  <1>6. isps' \in Seq(Isps) /\ Len(isps') = n
    <2>1. n \in Nat
      BY <1>2
    <2> HIDE DEF n
    <2>2. isps' \in [1 .. n -> Isps]
      BY <1>3, <1>4
    <2> QED
      BY <2>1, <2>2
  <1>7. IsFiniteSet(D) /\ Cardinality(D) = n
    BY <1>2, FS_Interval
  <1>8. isps' \in Injection(D, ispRows)
    <2>1. ASSUME NEW i \in D, NEW j \in D, isps'[i] = isps'[j] PROVE i = j
      <3>1. isps'[i].lo \in Nat /\ isps'[j].lo \in Nat /\ isps'[i].lo = isps'[j].lo
        BY <1>4, <1>5, <2>1
      <3>2. ~(i < j) /\ ~(j < i)
        BY <1>3, <3>1
      <3>3. i \in Int /\ j \in Int
        BY <1>2
      <3> QED
        BY <3>2, <3>3
    <2> QED
      BY <1>3, <2>1 DEF Injection, IsInjective
  <1>9. isps' \in Surjection(D, ispRows)
    <2> HIDE DEF D
    <2> QED
      BY <1>2, <1>7, <1>8, FS_Injection
  <1>10. RangesKept'
    <2>1. \A o \in ispRows : \E i \in D : isps'[i] = o
      BY <1>9 DEF Surjection
    <2>2. ispRows = {isps'[i] : i \in D}
      BY <1>5, <2>1
    <2>3. \A i \in D : isps'[i].id <= made
      BY <1>4, <1>5
    <2> QED
      BY <1>3, <1>6, <2>2, <2>3 DEF RangesKept
  <1>11. IspsSorted'
    BY <1>3, <1>6 DEF IspsSorted, Ordered
  <1>12. CountriesKnown' /\ ccList' \in Seq(Isps) /\ made' \in Nat
    BY <1>3 DEF CountriesKnown, IspInv
  <1> QED
    BY <1>10, <1>11, <1>12 DEF IspInv

LEMMA StillIspInv ==
    ASSUME IspInv, UNCHANGED ispVars
    PROVE  IspInv'
  BY DEF IspInv, ispVars, IspsSorted, Ordered, RangesKept, CountriesKnown

LEMMA RangeEndsIn == ASSUME NEW lo \in IPs PROVE RangeEnds(lo) \subseteq IPs
  <1>1. Cardinality(IPs) \in Nat /\ IPs = 0 .. Cardinality(IPs) - 1
    BY PluginListsAssumption, FS_CardinalityType
  <1>2. Cardinality(IPs) - 1 \in IPs
    BY <1>1
  <1> QED
    BY <1>2 DEF RangeEnds

LEMMA IspStepKeeps ==
    ASSUME IspInv, IspSteps
    PROVE  IspInv'
  <1>1. CASE StartIsp
    BY <1>1, StartIspKeeps
  <1>2. CASE \E lo \in IPs : \E hi \in RangeEnds(lo) :
                ModIsp(lo, hi) \/ \E cc \in Countries \cup {NoCountry} : AddIsp(lo, hi, cc)
    <2>0. PICK lo \in IPs : \E hi \in RangeEnds(lo) :
                ModIsp(lo, hi) \/ \E cc \in Countries \cup {NoCountry} : AddIsp(lo, hi, cc)
      BY <1>2
    <2>1. PICK hi \in RangeEnds(lo) :
                ModIsp(lo, hi) \/ \E cc \in Countries \cup {NoCountry} : AddIsp(lo, hi, cc)
      BY <2>0
    <2>2. hi \in IPs
      BY <2>1, RangeEndsIn
    <2>3. CASE ModIsp(lo, hi)
      BY <2>2, <2>3, ModIspKeeps
    <2>4. CASE \E cc \in Countries \cup {NoCountry} : AddIsp(lo, hi, cc)
      BY <2>2, <2>4, AddIspKeeps
    <2> QED
      BY <2>1, <2>3, <2>4
  <1>3. CASE \E lo \in IPs : DelIsp(lo)
    BY <1>3, DelIspKeeps
  <1> QED
    BY <1>1, <1>2, <1>3 DEF IspSteps

LEMMA OtherListsKeep ==
    ASSUME WordSteps \/ PlugSteps
    PROVE  UNCHANGED ispVars
  <1>1. CASE WordSteps
    BY <1>1 DEF WordSteps, AddForbid, DelForbid, AddReplacer, StartReplacer, DelReplacer
  <1>2. CASE PlugSteps
    BY <1>2 DEF PlugSteps, DelPlug, cfOff, StartPlugman, cfOn, cfRe, AddPlug
  <1> QED
    BY <1>1, <1>2

-----------------------------------------------------------------------------
(* PluginLists: forbid and replacer *)

LEMMA FrontOfMore ==
    ASSUME NEW S, NEW s \in Seq(S), NEW e \in S
    PROVE  Front(Append(s, e)) = s
  <1> DEFINE m == Append(s, e)
  <1>1. /\ m \in Seq(S) /\ Len(m) = Len(s) + 1 /\ Len(m) # 0 /\ Len(s) \in Nat
        /\ \A j \in 1 .. Len(s) : m[j] = s[j]
    OBVIOUS
  <1> HIDE DEF m
  <1>2. /\ Front(m) \in Seq(S) /\ Len(Front(m)) = Len(m) - 1
        /\ \A j \in 1 .. Len(m) - 1 : Front(m)[j] = m[j]
    BY <1>1, FrontIs
  <1>3. Len(Front(m)) = Len(s) /\ \A j \in 1 .. Len(s) : Front(m)[j] = s[j]
    BY <1>1, <1>2
  <1>4. Front(m) = s
    BY <1>2, <1>3
  <1> QED
    BY <1>4 DEF m

WordList(ws) == ws \in Seq(Words)
AfterRow(w, s) == IF w \in BadWords THEN Append(Front(s), w)
                  ELSE Append(Append(Front(s), w), "new")

\* What replacer has read so far grows by every row that compiles: the object
\* that waits for the next row is the one that goes.
LEMMA LoadedIs ==
    ASSUME NEW ws, WordList(ws)
    PROVE  \E g : /\ \A i \in 0 .. Len(ws) : g[i] \in Seq(Words)
                  /\ g[0] = <<>> /\ LoadAll(ws) = g[Len(ws)]
                  /\ \A i \in 1 .. Len(ws) :
                        g[i] = IF ws[i] \in BadWords THEN g[i - 1] ELSE Append(g[i - 1], ws[i])
  <1> DEFINE n == Len(ws)
             V == Words \cup {"new"}
             Waiting == {s \in Seq(V) : Len(s) # 0}
             solves(f) == f = [i \in 0 .. n |->
                                 IF i = 0 THEN <<"new">>
                                 ELSE IF ws[i] \in BadWords THEN Append(Front(f[i - 1]), ws[i])
                                 ELSE Append(Append(Front(f[i - 1]), ws[i]), "new")]
             read == CHOOSE f : solves(f)
             step == [i \in 1 .. n |-> [s \in Waiting |-> AfterRow(ws[i], s)]]
             start == <<"new">>
  <1>1. n \in Nat /\ start \in Waiting /\ \A i \in 1 .. n : ws[i] \in Words /\ ws[i] \in V
    BY DEF WordList
  <1> HIDE DEF n, V
  <1>2. ASSUME NEW i \in 1 .. n, NEW s \in Waiting PROVE AfterRow(ws[i], s) \in Waiting
    <2>1. Front(s) \in Seq(V)
      BY FrontIs
    <2>2. ws[i] \in V /\ "new" \in V
      BY <1>1 DEF V
    <2>3. \A t \in Seq(V), e \in V : Append(t, e) \in Seq(V) /\ Len(Append(t, e)) # 0
      OBVIOUS
    <2>4. Append(Front(s), ws[i]) \in Waiting
      BY <2>1, <2>2, <2>3
    <2>5. Append(Append(Front(s), ws[i]), "new") \in Waiting
      BY <2>1, <2>2, <2>3
    <2> QED
      BY <2>4, <2>5 DEF AfterRow
  <1> HIDE DEF Waiting
  <1>3. step \in [1 .. n -> [Waiting -> Waiting]]
    BY <1>2
  <1>4. ASSUME NEW i \in 1 .. n, NEW s \in Waiting PROVE step[i][s] = AfterRow(ws[i], s)
    OBVIOUS
  <1> HIDE DEF step, start
  <1>5. PICK f \in [0 .. n -> Waiting] :
           f[0] = start /\ \A i \in 1 .. n : f[i] = step[i][f[i - 1]]
    <2>1. n \in Nat
      BY <1>1
    <2>3. start \in Waiting
      BY <1>1
    <2>2. step \in [1 .. n -> [Waiting -> Waiting]]
      BY <1>3
    <2> HIDE DEF solves, read
    <2> QED
      BY <2>1, <2>2, <2>3, Repeated
  <1>6. solves(f)
    <2>1. ASSUME NEW i \in 0 .. n
          PROVE  f[i] = IF i = 0 THEN <<"new">>
                        ELSE IF ws[i] \in BadWords THEN Append(Front(f[i - 1]), ws[i])
                        ELSE Append(Append(Front(f[i - 1]), ws[i]), "new")
      <3>1. CASE i = 0
        BY <1>5, <3>1 DEF start
      <3>2. CASE i # 0
        <4>1. i \in 1 .. n /\ i - 1 \in 0 .. n
          BY <1>1, <3>2
        <4>2. f[i - 1] \in Waiting
          BY <1>5, <4>1
        <4>3. f[i] = AfterRow(ws[i], f[i - 1])
          BY <1>4, <1>5, <4>1, <4>2
        <4> QED
          BY <3>2, <4>3 DEF AfterRow
      <3> QED
        BY <3>1, <3>2
    <2> QED
      BY <1>5, <2>1
  <1>7. solves(read)
    <2> HIDE DEF solves
    <2> QED
      BY <1>6
  <1>8. LoadAll(ws) = Front(read[n])
    BY DEF LoadAll, n
  <1> HIDE DEF read
  <1>9. /\ read[0] = start
        /\ \A i \in 1 .. n : read[i] = AfterRow(ws[i], read[i - 1])
    <2>1. 0 \in 0 .. n /\ \A i \in 1 .. n : i \in 0 .. n /\ i # 0
      BY <1>1
    <2>2. read[0] = start
      BY <1>7, <2>1 DEF start
    <2>3. \A i \in 1 .. n : read[i] = AfterRow(ws[i], read[i - 1])
      BY <1>7, <2>1 DEF AfterRow
    <2> QED
      BY <2>2, <2>3
  <1> HIDE DEF solves
  <1> DEFINE g == [i \in 0 .. n |-> Front(read[i])]
             H == {i \in 0 .. n : read[i] \in Waiting /\ g[i] \in Seq(Words)}
  <1>10. g[0] = <<>>
    <2>1. <<>> \in Seq(V) /\ "new" \in V /\ start = Append(<<>>, "new")
      BY DEF V, start
    <2>2. Front(start) = <<>>
      BY <2>1, FrontOfMore
    <2> QED
      BY <1>1, <1>9, <2>2
  <1>11. ASSUME NEW i \in 1 .. n, i - 1 \in H
         PROVE  /\ i \in H
                /\ g[i] = IF ws[i] \in BadWords THEN g[i - 1] ELSE Append(g[i - 1], ws[i])
    <2>1. i \in 0 .. n /\ i - 1 \in 0 .. n /\ read[i - 1] \in Waiting /\ g[i - 1] \in Seq(Words)
      BY <1>1, <1>11
    <2>2. read[i] = AfterRow(ws[i], read[i - 1]) /\ read[i] \in Waiting
      <3> HIDE DEF g, H
      <3> QED
        BY <1>2, <1>9, <2>1
    <2>3. g[i] = Front(read[i]) /\ g[i - 1] = Front(read[i - 1])
      BY <2>1
    <2> HIDE DEF g
    <2>4. ws[i] \in Words /\ ws[i] \in V /\ "new" \in V
      BY <1>1 DEF V
    <2>5. g[i - 1] \in Seq(V) /\ Append(g[i - 1], ws[i]) \in Seq(Words)
      BY <2>1, <2>4 DEF V
    <2>6. Append(g[i - 1], ws[i]) \in Seq(V)
      BY <2>4, <2>5
    <2>7. CASE ws[i] \in BadWords
      <3>1. read[i] = Append(g[i - 1], ws[i])
        BY <2>2, <2>3, <2>7 DEF AfterRow
      <3>2. g[i] = g[i - 1]
        BY <2>3, <2>4, <2>5, <3>1, FrontOfMore
      <3> QED
        BY <2>1, <2>2, <2>7, <3>2
    <2>8. CASE ws[i] \notin BadWords
      <3>1. read[i] = Append(Append(g[i - 1], ws[i]), "new")
        BY <2>2, <2>3, <2>8 DEF AfterRow
      <3>2. g[i] = Append(g[i - 1], ws[i])
        <4> DEFINE longer == Append(g[i - 1], ws[i])
        <4>1. longer \in Seq(V)
          BY <2>6
        <4>2. g[i] = Front(Append(longer, "new"))
          BY <2>3, <3>1
        <4> HIDE DEF longer
        <4>3. g[i] = longer
          BY <2>4, <4>1, <4>2, FrontOfMore
        <4> QED
          BY <4>3 DEF longer
      <3> QED
        BY <2>1, <2>2, <2>5, <2>8, <3>2
    <2> QED
      BY <2>7, <2>8
  <1>12. 0 \in H
    <2>1. <<>> \in Seq(Words) /\ 0 \in 0 .. n
      BY <1>1
    <2> QED
      BY <1>1, <1>9, <1>10, <2>1
  <1>13. \A i \in 0 .. n : i \in H
    <2> HIDE DEF H
    <2> QED
      BY <1>1, <1>11, <1>12, UpTo
  <1>14. \A i \in 1 .. n : g[i] = IF ws[i] \in BadWords THEN g[i - 1] ELSE Append(g[i - 1], ws[i])
    <2> SUFFICES ASSUME NEW i \in 1 .. n
                 PROVE g[i] = IF ws[i] \in BadWords THEN g[i - 1] ELSE Append(g[i - 1], ws[i])
      OBVIOUS
    <2>1. i - 1 \in 0 .. n
      BY <1>1
    <2> HIDE DEF H, g
    <2> QED
      BY <1>11, <1>13, <2>1
  <1>15. LoadAll(ws) = g[n] /\ \A i \in 0 .. n : g[i] \in Seq(Words)
    BY <1>1, <1>8, <1>13
  <1> HIDE DEF g
  <1> QED
    BY <1>10, <1>14, <1>15 DEF n

\* So replacer has the words that compile, each once, in the table's order.
LEMMA LoadedRight ==
    ASSUME NEW ws \in Seq(Words), IsInjective(ws)
    PROVE  /\ LoadAll(ws) \in Seq(Words)
           /\ ToSet(LoadAll(ws)) = ToSet(ws) \ BadWords /\ IsInjective(LoadAll(ws))
           /\ \A i, j \in DOMAIN LoadAll(ws) :
                  i < j => Precedes(ws, LoadAll(ws)[i], LoadAll(ws)[j])
  <1> DEFINE n == Len(ws)
             UpToRow(i) == {ws[k] : k \in 1 .. i}
             InOrderTo(s, i) == \A a, b \in 1 .. Len(s) :
                 a < b => \E k, l \in 1 .. i : k < l /\ ws[k] = s[a] /\ ws[l] = s[b]
  <1>1. PICK g : /\ \A i \in 0 .. n : g[i] \in Seq(Words)
                 /\ g[0] = <<>> /\ LoadAll(ws) = g[n]
                 /\ \A i \in 1 .. n :
                       g[i] = IF ws[i] \in BadWords THEN g[i - 1] ELSE Append(g[i - 1], ws[i])
    <2>1. WordList(ws)
      BY DEF WordList
    <2> QED
      BY <2>1, LoadedIs
  <1>2. n \in Nat /\ DOMAIN ws = 1 .. n /\ \A i \in 1 .. n : ws[i] \in Words
    OBVIOUS
  <1> HIDE DEF n
  <1> DEFINE K == {i \in 0 .. n : ToSet(g[i]) = UpToRow(i) \ BadWords /\ InOrderTo(g[i], i)}
  <1>3. 0 \in K
    <2>1. ToSet(g[0]) = {} /\ UpToRow(0) = {}
      BY <1>1 DEF ToSet
    <2>2. InOrderTo(g[0], 0)
      BY <1>1
    <2>3. 0 \in 0 .. n
      BY <1>2
    <2> HIDE DEF UpToRow, InOrderTo
    <2> QED
      BY <2>1, <2>2, <2>3
  <1>4. ASSUME NEW i \in 1 .. n, i - 1 \in K PROVE i \in K
    <2>1. i \in 0 .. n /\ i - 1 \in 0 .. n /\ g[i - 1] \in Seq(Words) /\ ws[i] \in Words
      BY <1>1, <1>2
    <2>2. ToSet(g[i - 1]) = UpToRow(i - 1) \ BadWords /\ InOrderTo(g[i - 1], i - 1)
      BY <1>4
    <2>3. UpToRow(i) = UpToRow(i - 1) \cup {ws[i]}
      <3>1. \A k \in 1 .. i : k \in 1 .. i - 1 \/ k = i
        BY <1>2
      <3>2. \A k \in 1 .. i - 1 : k \in 1 .. i
        BY <1>2
      <3>3. i \in 1 .. i
        BY <1>2
      <3> QED
        BY <3>1, <3>2, <3>3
    <2>4. InOrderTo(g[i - 1], i)
      <3>1. \A k \in 1 .. i - 1 : k \in 1 .. i
        BY <1>2
      <3> QED
        BY <2>2, <3>1
    <2>5. CASE ws[i] \in BadWords
      <3>1. g[i] = g[i - 1]
        BY <1>1, <2>5
      <3>2. ToSet(g[i]) = UpToRow(i) \ BadWords
        <4> HIDE DEF UpToRow, K, InOrderTo
        <4> QED
          BY <2>2, <2>3, <2>5, <3>1
      <3> HIDE DEF UpToRow, InOrderTo
      <3> QED
        BY <2>1, <2>4, <3>1, <3>2
    <2>6. CASE ws[i] \notin BadWords
      <3> DEFINE old == g[i - 1]
                 new == Append(old, ws[i])
      <3>1. g[i] = new
        BY <1>1, <2>6
      <3>2. /\ new \in Seq(Words) /\ Len(new) = Len(old) + 1 /\ Len(old) \in Nat
            /\ new[Len(old) + 1] = ws[i] /\ \A a \in 1 .. Len(old) : new[a] = old[a]
        BY <2>1
      <3>3. \A a \in 1 .. Len(new) : a \in 1 .. Len(old) \/ a = Len(old) + 1
        BY <3>2
      <3>4. DOMAIN new = 1 .. Len(new) /\ DOMAIN old = 1 .. Len(old)
        BY <2>1, <3>2
      <3>5. ToSet(old) = UpToRow(i - 1) \ BadWords /\ InOrderTo(old, i)
        BY <2>2, <2>4
      <3> HIDE DEF old, new
      <3>6. ToSet(new) = ToSet(old) \cup {ws[i]}
        BY <3>2, <3>3, <3>4 DEF ToSet
      <3>7. ToSet(new) = UpToRow(i) \ BadWords
        <4> HIDE DEF UpToRow, K, InOrderTo
        <4> QED
          BY <2>3, <2>6, <3>5, <3>6
      <3>8. InOrderTo(new, i)
        <4> SUFFICES ASSUME NEW a \in 1 .. Len(new), NEW b \in 1 .. Len(new), a < b
                     PROVE  \E k, l \in 1 .. i : k < l /\ ws[k] = new[a] /\ ws[l] = new[b]
          OBVIOUS
        <4>1. a \in 1 .. Len(old) /\ new[a] = old[a]
          BY <3>2, <3>3
        <4>2. CASE b \in 1 .. Len(old)
          BY <3>2, <3>5, <4>1, <4>2
        <4>3. CASE b = Len(old) + 1
          <5>1. new[b] = ws[i]
            BY <3>2, <4>3
          <5>2. new[a] \in UpToRow(i - 1)
            <6>1. old[a] \in ToSet(old)
              BY <3>4, <4>1 DEF ToSet
            <6> HIDE DEF UpToRow
            <6> QED
              BY <3>5, <4>1, <6>1
          <5>3. PICK k \in 1 .. i - 1 : ws[k] = new[a]
            BY <5>2
          <5>4. k \in 1 .. i /\ i \in 1 .. i /\ k < i
            BY <1>2
          <5> QED
            BY <5>1, <5>3, <5>4
        <4> QED
          BY <3>3, <4>2, <4>3
      <3> HIDE DEF UpToRow, InOrderTo
      <3> QED
        BY <2>1, <3>1, <3>7, <3>8
    <2> QED
      BY <2>5, <2>6
  <1>5. n \in K
    <2>1. \A i \in 0 .. n : i \in K
      <3> HIDE DEF K
      <3> QED
        BY <1>2, <1>3, <1>4, UpTo
    <2> QED
      BY <1>2, <2>1
  <1> DEFINE got == g[n]
  <1>6. got \in Seq(Words) /\ LoadAll(ws) = got /\ ToSet(got) = UpToRow(n) \ BadWords
        /\ InOrderTo(got, n)
    BY <1>1, <1>2, <1>5
  <1>7. DOMAIN got = 1 .. Len(got)
    BY <1>6
  <1> HIDE DEF got
  <1>8. \A i, j \in 1 .. Len(got) : i < j => Precedes(ws, got[i], got[j])
    BY <1>2, <1>6 DEF Precedes
  <1>9. ToSet(ws) = UpToRow(n)
    BY <1>2 DEF ToSet
  <1>10. IsInjective(got)
    <2> SUFFICES ASSUME NEW i \in 1 .. Len(got), NEW j \in 1 .. Len(got), got[i] = got[j]
                 PROVE  i = j
      BY <1>7 DEF IsInjective
    <2>1. \A a, b \in 1 .. Len(got) : a < b => got[a] # got[b]
      <3> SUFFICES ASSUME NEW a \in 1 .. Len(got), NEW b \in 1 .. Len(got), a < b, got[a] = got[b]
                   PROVE  FALSE
        OBVIOUS
      <3>1. PICK k \in 1 .. n, l \in 1 .. n : k < l /\ ws[k] = got[a] /\ ws[l] = got[b]
        BY <1>6
      <3>2. k = l
        BY <1>2, <3>1 DEF IsInjective
      <3> QED
        BY <1>2, <3>1, <3>2
    <2>2. ~(i < j) /\ ~(j < i)
      BY <2>1
    <2> QED
      BY <1>6, <2>2
  <1> HIDE DEF UpToRow, InOrderTo
  <1> QED
    BY <1>6, <1>7, <1>8, <1>9, <1>10

\* Every replacement takes one of the words away, unless it puts it back.
LEMMA LeftOverIs ==
    ASSUME NEW n \in 0 .. 3, NEW length \in 0 .. 3
    PROVE  LeftOver(n, length, 0) = IF n > length + 1 THEN n - length - 1 ELSE 0
  <1> DEFINE m == length + 1
             solves(f) == f = [k \in 0 .. m |->
                                 IF k = 0 THEN n ELSE IF f[k - 1] = 0 THEN 0 ELSE f[k - 1] - 1 + 0]
             left == CHOOSE f : solves(f)
             Left(k) == IF n > k THEN n - k ELSE 0
  <1>1. m \in Nat /\ n \in Nat
    OBVIOUS
  <1> HIDE DEF m
  <1>2. solves([k \in 0 .. m |-> Left(k)])
    <2> DEFINE f == [k \in 0 .. m |-> Left(k)]
    <2>1. ASSUME NEW k \in 0 .. m
          PROVE  f[k] = IF k = 0 THEN n ELSE IF f[k - 1] = 0 THEN 0 ELSE f[k - 1] - 1 + 0
      <3>1. CASE k = 0
        BY <1>1, <3>1
      <3>2. CASE k # 0
        <4>1. k - 1 \in 0 .. m
          BY <1>1, <3>2
        <4>2. f[k] = Left(k) /\ f[k - 1] = Left(k - 1)
          BY <4>1
        <4> HIDE DEF f
        <4> QED
          BY <1>1, <3>2, <4>2
      <3> QED
        BY <3>1, <3>2
    <2>2. f = [k \in 0 .. m |-> f[k]]
      OBVIOUS
    <2> HIDE DEF Left
    <2> QED
      BY <2>1
  <1>3. solves(left)
    <2> HIDE DEF solves
    <2> QED
      BY <1>2
  <1>4. LeftOver(n, length, 0) = left[m]
    BY DEF LeftOver, m
  <1> HIDE DEF left
  <1>5. left[0] = n /\ \A k \in 1 .. m : left[k] = IF left[k - 1] = 0 THEN 0 ELSE left[k - 1] - 1 + 0
    BY <1>1, <1>3
  <1> DEFINE H == {k \in 0 .. m : left[k] = Left(k)}
  <1>6. 0 \in H
    BY <1>1, <1>5
  <1>7. ASSUME NEW k \in 1 .. m, k - 1 \in H PROVE k \in H
    BY <1>1, <1>5, <1>7
  <1>8. \A k \in 0 .. m : k \in H
    <2> HIDE DEF H
    <2> QED
      BY <1>1, <1>6, <1>7, UpTo
  <1>9. left[m] = Left(m)
    BY <1>1, <1>8
  <1> QED
    BY <1>4, <1>9 DEF m

\* The first place of something that is in a list.
LEMMA PlaceIs ==
    ASSUME NEW S, NEW s \in Seq(S), NEW x, \E i \in DOMAIN s : s[i] = x
    PROVE  PlaceOf(s, x) \in 1 .. Len(s) /\ s[PlaceOf(s, x)] = x
  <1> DEFINE T == {i \in 1 .. Len(s) : s[i] = x}
             Earliest(i) == s[i] = x /\ \A j \in 1 .. i - 1 : s[j] # x
             place2 == CHOOSE i \in DOMAIN s : Earliest(i)
  <1>1. DOMAIN s = 1 .. Len(s) /\ Len(s) \in Nat
    OBVIOUS
  <1>2. T \in SUBSET Nat /\ T # {}
    BY <1>1
  <1>3. PICK i \in T : \A k \in T : i <= k
    <2> HIDE DEF T
    <2> QED
      BY <1>2, SmallestNumber
  <1>4. i \in DOMAIN s /\ Earliest(i)
    <2> SUFFICES ASSUME NEW j \in 1 .. i - 1, s[j] = x PROVE FALSE
      BY <1>1, <1>3
    <2>1. j \in T /\ ~(i <= j)
      BY <1>1, <1>3
    <2> QED
      BY <1>3, <2>1
  <1>5. place2 \in DOMAIN s /\ Earliest(place2)
    <2> HIDE DEF Earliest
    <2> QED
      BY <1>4
  <1>6. PlaceOf(s, x) = place2
    BY DEF PlaceOf
  <1> HIDE DEF place2
  <1> QED
    BY <1>1, <1>5, <1>6

\* The rows of both are of words, those of replacer each of another, and what
\* it uses is what it read of the table that is there now.
WordRows == [word : Words, mask : SUBSET {InChat, InPM}, upto : Levels]
WordInv ==
    /\ words \in Seq(WordRows) /\ swaps \in Seq(Words)
    /\ IsInjective(swaps) /\ swapList = LoadAll(swaps)

LEMMA WordInvRight == WordInv => WordsRight
  <1> SUFFICES ASSUME WordInv PROVE WordsRight
    OBVIOUS
  <1>1. ASSUME NEW msg \in SUBSET Words, NEW where \in {InChat, InPM}, NEW class \in Levels
        PROVE  WordRefused(msg, where, class, 0, 0) <=>
                 \E i \in DOMAIN words : /\ words[i].word \in msg /\ where \in words[i].mask
                                         /\ class <= words[i].upto
    <2>1. words \in Seq(WordRows) /\ \A i \in DOMAIN words : words[i] \in WordRows
      BY DEF WordInv
    <2>2. ASSUME NEW i \in DOMAIN words
          PROVE  Hit(words[i], msg, where, class) <=>
                   /\ words[i].word \in msg /\ where \in words[i].mask
                   /\ class <= words[i].upto
      <3>1. words[i].upto \in Int /\ class \in Int
        BY <2>1, PluginListsAssumption DEF WordRows
      <3> QED
        BY <3>1 DEF Hit
    <2>3. WordRefused(msg, where, class, 0, 0) <=> \E i \in DOMAIN words : Hit(words[i], msg, where, class)
      <3> DEFINE hits == {i \in DOMAIN words : Hit(words[i], msg, where, class)}
                 pick3 == CHOOSE i \in hits : \A j \in hits : i <= j
      <3>1. ForbiddenParser(msg, where, class) = IF hits = {} THEN {} ELSE {words[pick3]}
        BY DEF ForbiddenParser
      <3>2. ~(0 > 0)
        OBVIOUS
      <3>3. WordRefused(msg, where, class, 0, 0) <=> ForbiddenParser(msg, where, class) # {}
        BY <3>2 DEF WordRefused
      <3> HIDE DEF pick3
      <3> QED
        BY <3>1, <3>3
    <2> QED
      BY <2>2, <2>3
  <1>2. swaps \in Seq(Words) /\ IsInjective(swaps) /\ swapList = LoadAll(swaps)
    BY DEF WordInv
  <1>3. /\ ToSet(swapList) = ToSet(swaps) \ BadWords /\ IsInjective(swapList)
        /\ \A i, j \in DOMAIN swapList : i < j => Precedes(swaps, swapList[i], swapList[j])
    BY <1>2, LoadedRight
  <1>4. \A n, length \in 0 .. 3 :
            LeftOver(n, length, 0) = IF n > length + 1 THEN n - length - 1 ELSE 0
    BY LeftOverIs
  <1> QED
    BY <1>1, <1>3, <1>4 DEF WordsRight

LEMMA StillWords == ASSUME WordInv, UNCHANGED wordVars PROVE WordInv'
  <1>1. words' = words /\ swaps' = swaps /\ swapList' = swapList
    BY DEF wordVars
  <1>2. LoadAll(swaps)' = LoadAll(swaps')
    BY DEF LoadAll
  <1> QED
    BY <1>1 DEF WordInv, LoadAll

\* A word that was not in the table.
LEMMA NewSwapKeeps ==
    ASSUME WordInv, NEW w \in Words, NewSwap(w)
    PROVE  Append(swaps, w) \in Seq(Words) /\ IsInjective(Append(swaps, w))
  <1>1. swaps \in Seq(Words) /\ IsInjective(swaps)
    BY DEF WordInv
  <1>2. w \notin ToSet(swaps)
    BY DEF NewSwap, ToSet
  <1> QED
    BY <1>1, <1>2, AppendOnce

LEMMA WordStepsKeep == ASSUME WordInv, WordSteps PROVE WordInv'
  <1>0. words \in Seq(WordRows) /\ swaps \in Seq(Words) /\ IsInjective(swaps) /\ swapList = LoadAll(swaps)
    BY DEF WordInv
  <1>1. ASSUME NEW w \in Words, DelForbid(w) PROVE WordInv'
    <2> DEFINE named == [i \in DOMAIN words |-> words[i].word]
    <2>1. named \in Seq(Words) /\ DOMAIN named = DOMAIN words /\ Len(named) = Len(words)
      <3>1. Len(words) \in Nat /\ DOMAIN words = 1 .. Len(words) /\ \A i \in DOMAIN words : words[i] \in WordRows
        BY <1>0
      <3>2. named \in [1 .. Len(words) -> Words]
        BY <3>1 DEF WordRows
      <3>3. \A t \in [1 .. Len(words) -> Words] : t \in Seq(Words) /\ Len(t) = Len(words) /\ DOMAIN t = 1 .. Len(words)
        BY <3>1
      <3> HIDE DEF named
      <3> QED
        BY <3>1, <3>2, <3>3
    <2>2. \E i \in DOMAIN named : named[i] = w
      BY <1>1 DEF DelForbid
    <2>3. words' = RemoveAt(words, PlaceOf(named, w)) /\ UNCHANGED <<swaps, swapList>>
      BY <1>1 DEF DelForbid
    <2> HIDE DEF named
    <2>4. PlaceOf(named, w) \in 1 .. Len(words)
      BY <2>1, <2>2, PlaceIs
    <2>5. words' \in Seq(WordRows)
      BY <1>0, <2>3, <2>4, TakenOut
    <2> QED
      BY <1>0, <2>3, <2>5 DEF WordInv, LoadAll
  <1>2. ASSUME NEW w \in Words, AddReplacer(w) \/ StartReplacer(w) PROVE WordInv'
    <2>1. NewSwap(w) /\ swaps' = Append(swaps, w) /\ swapList' = LoadAll(swaps') /\ words' = words
      BY <1>2 DEF AddReplacer, StartReplacer
    <2> QED
      BY <1>0, <2>1, NewSwapKeeps DEF WordInv, LoadAll
  <1>3. ASSUME NEW w \in Words, DelReplacer(w) PROVE WordInv'
    <2>1. /\ \E i \in DOMAIN swapList : swapList[i] = w
          /\ swaps' = RemoveAt(swaps, PlaceOf(swaps, w)) /\ swapList' = LoadAll(swaps') /\ words' = words
      BY <1>3 DEF DelReplacer
    <2>2. \E i \in DOMAIN swaps : swaps[i] = w
      <3>1. ToSet(swapList) = ToSet(swaps) \ BadWords
        BY <1>0, LoadedRight
      <3>2. w \in ToSet(swapList)
        BY <2>1 DEF ToSet
      <3> QED
        BY <3>1, <3>2 DEF ToSet
    <2>3. PlaceOf(swaps, w) \in 1 .. Len(swaps)
      BY <1>0, <2>2, PlaceIs
    <2>4. swaps' \in Seq(Words) /\ IsInjective(swaps')
      BY <1>0, <2>1, <2>3, TakenOut, RemoveAtOnce
    <2> QED
      BY <1>0, <2>1, <2>4 DEF WordInv, LoadAll
  <1>4. ASSUME NEW w \in Words, NEW mask \in {{InChat}, {InPM}}, NEW upto \in Levels, AddForbid(w, mask, upto)
        PROVE  WordInv'
    <2>1. words' = Append(words, [word |-> w, mask |-> mask, upto |-> upto]) /\ UNCHANGED <<swaps, swapList>>
      BY <1>4 DEF AddForbid
    <2>2. [word |-> w, mask |-> mask, upto |-> upto] \in WordRows
      BY DEF WordRows
    <2>3. words' \in Seq(WordRows)
      BY <1>0, <2>1, <2>2
    <2> QED
      BY <1>0, <2>1, <2>3 DEF WordInv, LoadAll
  <1> QED
    BY <1>1, <1>2, <1>3, <1>4 DEF WordSteps

-----------------------------------------------------------------------------
(* PluginLists: plugman *)

PlugNicks == Libs \cup Hosted

LEMMA NicksOrdered ==
    /\ NickOrder \in Seq(PlugNicks) /\ ToSet(NickOrder) = PlugNicks /\ IsFiniteSet(PlugNicks)
    /\ \A x, y : Precedes(NickOrder, x, y) => ~Precedes(NickOrder, y, x)
  <1>1. NickOrder \in Seq(PlugNicks) /\ ToSet(NickOrder) = PlugNicks /\ IsInjective(NickOrder)
    BY PluginListsAssumption DEF PlugNicks
  <1>2. Len(NickOrder) \in Nat /\ DOMAIN NickOrder = 1 .. Len(NickOrder)
    BY <1>1
  <1>3. IsFiniteSet(PlugNicks)
    <2> DEFINE D == 1 .. Len(NickOrder)
               f == [i \in D |-> NickOrder[i]]
    <2>1. IsFiniteSet(D)
      BY <1>2, FS_Interval
    <2>2. f \in Surjection(D, PlugNicks)
      BY <1>1, <1>2 DEF Surjection, ToSet
    <2> HIDE DEF D, f
    <2> QED
      BY <2>1, <2>2, FS_Surjection
  <1>4. ASSUME NEW x, NEW y, Precedes(NickOrder, x, y), Precedes(NickOrder, y, x) PROVE FALSE
    <2>1. PICK i \in 1 .. Len(NickOrder), j \in 1 .. Len(NickOrder) :
               i < j /\ NickOrder[i] = x /\ NickOrder[j] = y
      BY <1>2, <1>4 DEF Precedes
    <2>2. PICK k \in 1 .. Len(NickOrder), l \in 1 .. Len(NickOrder) :
               k < l /\ NickOrder[k] = y /\ NickOrder[l] = x
      BY <1>2, <1>4 DEF Precedes
    <2>3. i = l /\ j = k
      BY <1>1, <1>2, <2>1, <2>2 DEF IsInjective
    <2> QED
      BY <1>2, <2>1, <2>2, <2>3
  <1> QED
    BY <1>1, <1>3, <1>4

\* Rows in their order are all the rows, each once.
LEMMA InOrderAll ==
    ASSUME NEW ns \in SUBSET PlugNicks, NEW s \in RowsInOrder(ns)
    PROVE  /\ s \in Seq(ns) /\ IsInjective(s) /\ ToSet(s) = ns
           /\ \A i, j \in 1 .. Len(s) : i < j => Precedes(NickOrder, s[i], s[j])
  <1> DEFINE n == Cardinality(ns)
             D == 1 .. n
  <1>1. IsFiniteSet(ns) /\ n \in Nat
    BY NicksOrdered, FS_Subset, FS_CardinalityType
  <1>2. s \in [D -> ns] /\ \A i, j \in D : i < j => Precedes(NickOrder, s[i], s[j])
    BY DEF RowsInOrder
  <1> HIDE DEF n
  <1>3. s \in Seq(ns) /\ Len(s) = n /\ DOMAIN s = D
    BY <1>1, <1>2
  <1>4. IsFiniteSet(D) /\ Cardinality(D) = n
    BY <1>1, FS_Interval
  <1>5. \A i, j \in D : s[i] = s[j] => i = j
    <2> SUFFICES ASSUME NEW i \in D, NEW j \in D, s[i] = s[j] PROVE i = j
      OBVIOUS
    <2>1. \A a, b \in D : a < b => s[a] # s[b]
      BY <1>2, NicksOrdered
    <2>2. ~(i < j) /\ ~(j < i) /\ i \in Int /\ j \in Int
      BY <1>1, <2>1
    <2> QED
      BY <2>2
  <1>6. s \in Injection(D, ns)
    BY <1>2, <1>5 DEF Injection, IsInjective
  <1>7. s \in Surjection(D, ns)
    <2> HIDE DEF D
    <2> QED
      BY <1>1, <1>4, <1>6, FS_Injection DEF n
  <1>8. ToSet(s) = ns
    BY <1>2, <1>3, <1>7 DEF Surjection, ToSet
  <1>9. IsInjective(s)
    BY <1>3, <1>5 DEF IsInjective
  <1> QED
    BY <1>2, <1>3, <1>8, <1>9

AfterPlug(p, x) ==
    LET cur == IF p.base = 0 THEN x ELSE p.cur
        old == IF p.base = 0 THEN p.list ELSE [p.list EXCEPT ![p.base] = x]
        all == Append(old, cur)
    IN  [list |-> all, cur |-> cur, base |-> IF Saves(all, cur) THEN Len(all) ELSE p.base]

\* When no row comes before its plugin, what is read is what is in the table.
LEMMA ReadPlain ==
    ASSUME NEW ns \in SUBSET PlugNicks, PluginFirst(ns), NEW s \in RowsInOrder(ns)
    PROVE  ReloadAllPlugs(s) = s
  <1> DEFINE n == Len(s)
             begun == [list |-> <<>>, base |-> 0, cur |-> ""]
             solves(f) == f = [i \in 0 .. n |-> IF i = 0 THEN begun ELSE AfterPlug(f[i - 1], s[i])]
             read == CHOOSE f : solves(f)
             Plain(i) == [list |-> SubSeq(s, 1, i), base |-> 0, cur |-> IF i = 0 THEN "" ELSE s[i]]
  <1>1. /\ s \in Seq(ns) /\ IsInjective(s) /\ ToSet(s) = ns
        /\ \A i, j \in 1 .. Len(s) : i < j => Precedes(NickOrder, s[i], s[j])
    BY InOrderAll
  <1>2. n \in Nat /\ DOMAIN s = 1 .. n /\ \A i \in 1 .. n : s[i] \in ns
    BY <1>1
  <1>3. ASSUME NEW i \in 1 .. n PROVE AfterPlug(Plain(i - 1), s[i]) = Plain(i)
    <2> DEFINE l == SubSeq(s, 1, i - 1)
               a == SubSeq(s, 1, i)
    <2>1. a = Append(l, s[i])
      <3>1. /\ a \in Seq(ns) /\ l \in Seq(ns) /\ Len(a) = i /\ Len(l) = i - 1
            /\ \A k \in 1 .. i : a[k] = s[k]
            /\ \A k \in 1 .. i - 1 : l[k] = s[k]
        BY <1>1, <1>2
      <3>2. Append(l, s[i]) \in Seq(ns) /\ Len(Append(l, s[i])) = i
        BY <1>2, <3>1
      <3>3. \A k \in 1 .. i : Append(l, s[i])[k] = s[k]
        BY <1>2, <3>1
      <3> HIDE DEF a, l
      <3> QED
        BY <3>1, <3>2, <3>3
    <2>2. ~Saves(a, s[i])
      <3> SUFFICES ASSUME s[i] \in Hosted PROVE HostOf[s[i]] \in ToSet(a)
        BY DEF Saves
      <3>1. HostOf[s[i]] \in ns /\ Precedes(NickOrder, HostOf[s[i]], s[i])
        BY <1>2 DEF PluginFirst
      <3>2. PICK k \in 1 .. n : s[k] = HostOf[s[i]]
        BY <1>1, <1>2, <3>1 DEF ToSet
      <3>3. ~(i < k)
        BY <1>1, <3>1, <3>2, NicksOrdered
      <3>4. k \in 1 .. i
        BY <1>2, <3>3
      <3>5. DOMAIN a = 1 .. i /\ a[k] = s[k]
        BY <1>1, <1>2, <3>4
      <3> HIDE DEF a
      <3> QED
        BY <3>2, <3>4, <3>5 DEF ToSet
    <2>3. Plain(i - 1).base = 0 /\ Plain(i - 1).list = l
      OBVIOUS
    <2>4. i # 0
      BY <1>2
    <2> DEFINE p == Plain(i - 1)
    <2>5. p.base = 0 /\ p.list = l
      BY <2>3
    <2>6. Plain(i) = [list |-> a, base |-> 0, cur |-> s[i]]
      BY <2>4
    <2> HIDE DEF p, a, l, Plain
    <2>7. AfterPlug(p, s[i]) = [list |-> Append(l, s[i]), cur |-> s[i],
                                base |-> IF Saves(Append(l, s[i]), s[i]) THEN Len(Append(l, s[i])) ELSE 0]
      BY <2>5 DEF AfterPlug
    <2>8. AfterPlug(p, s[i]) = [list |-> a, cur |-> s[i], base |-> 0]
      BY <2>1, <2>2, <2>7
    <2> QED
      BY <2>6, <2>8 DEF p
  <1>4. Plain(0) = begun
    <2>1. SubSeq(s, 1, 0) = <<>>
      BY <1>1
    <2> QED
      BY <2>1
  <1> HIDE DEF n, Plain, begun
  <1>5. solves([i \in 0 .. n |-> Plain(i)])
    <2> DEFINE f == [i \in 0 .. n |-> Plain(i)]
    <2>1. ASSUME NEW i \in 0 .. n
          PROVE  f[i] = IF i = 0 THEN begun ELSE AfterPlug(f[i - 1], s[i])
      <3>1. CASE i = 0
        BY <1>4, <3>1
      <3>2. CASE i # 0
        <4>1. i \in 1 .. n /\ i - 1 \in 0 .. n
          BY <1>2, <3>2
        <4>2. f[i] = Plain(i) /\ f[i - 1] = Plain(i - 1)
          BY <4>1
        <4> HIDE DEF f
        <4> QED
          BY <1>3, <3>2, <4>1, <4>2
      <3> QED
        BY <3>1, <3>2
    <2>2. f = [i \in 0 .. n |-> f[i]]
      OBVIOUS
    <2> QED
      BY <2>1
  <1>6. solves(read)
    <2> HIDE DEF solves
    <2> QED
      BY <1>5
  <1>7. ReloadAllPlugs(s) = read[n].list
    BY DEF ReloadAllPlugs, AfterPlug, n, begun
  <1> HIDE DEF read
  <1>8. read[0] = begun /\ \A i \in 1 .. n : read[i] = AfterPlug(read[i - 1], s[i])
    <2>1. 0 \in 0 .. n /\ \A i \in 1 .. n : i \in 0 .. n /\ i # 0
      BY <1>2
    <2> QED
      BY <1>6, <2>1
  <1> DEFINE H == {i \in 0 .. n : read[i] = Plain(i)}
  <1>9. 0 \in H
    BY <1>2, <1>4, <1>8
  <1>10. ASSUME NEW i \in 1 .. n, i - 1 \in H PROVE i \in H
    <2>1. i \in 0 .. n
      BY <1>2
    <2>2. read[i] = Plain(i)
      BY <1>3, <1>8, <1>10
    <2> QED
      BY <2>1, <2>2
  <1>11. \A i \in 0 .. n : i \in H
    <2> HIDE DEF H
    <2> QED
      BY <1>2, <1>9, <1>10, UpTo
  <1>12. read[n] = Plain(n)
    BY <1>2, <1>11
  <1>13. SubSeq(s, 1, n) = s
    BY <1>1 DEF n
  <1>14. Plain(n).list = SubSeq(s, 1, n)
    BY DEF Plain
  <1> HIDE DEF H, solves
  <1> QED
    BY <1>7, <1>12, <1>13, <1>14

\* What plugman has in memory is its table, unless a row came too early.
PlugInv ==
    /\ plugRows \in [nicks : SUBSET PlugNicks, auto : SUBSET PlugNicks, mixed : BOOLEAN]
    /\ plugRows.auto \subseteq plugRows.nicks /\ libs \subseteq Libs
    /\ ~plugRows.mixed => /\ plugList \in Seq(PlugNicks)
                          /\ ToSet(plugList) = plugRows.nicks /\ IsInjective(plugList)

LEMMA PluginIs ==
    ASSUME NEW n, NEW working \in SUBSET Libs
    PROVE  Plugin(n, working) \subseteq Libs
  BY DEF Plugin, LoadPlugin

LEMMA StartPlugmanKeeps ==
    ASSUME PlugInv, NEW working \in SUBSET Libs, NEW foreign \in SUBSET Hosted,
           StartPlugman(working, foreign)
    PROVE  PlugInv'
  <1> DEFINE nicks == plugRows.nicks \cup foreign
             auto == plugRows.auto
  <1>1. /\ plugRows' = [nicks |-> nicks, auto |-> auto, mixed |-> ~PluginFirst(nicks)]
        /\ plugList' \in {ReloadAllPlugs(s) : s \in RowsInOrder(nicks)}
        /\ libs' = UNION {Plugin(n, working) : n \in ToSet(plugList') \cap auto}
    BY DEF StartPlugman
  <1>2. nicks \in SUBSET PlugNicks /\ auto \in SUBSET PlugNicks /\ auto \subseteq nicks
    BY DEF PlugInv, PlugNicks
  <1> HIDE DEF nicks, auto
  <1>3. /\ plugRows' \in [nicks : SUBSET PlugNicks, auto : SUBSET PlugNicks, mixed : BOOLEAN]
        /\ plugRows'.auto = auto /\ plugRows'.nicks = nicks
    <2>1. (~PluginFirst(nicks)) \in BOOLEAN
      OBVIOUS
    <2> QED
      BY <1>1, <1>2, <2>1
  <1>4. libs' \subseteq Libs
    BY <1>1, PluginIs
  <1>5. ASSUME ~plugRows'.mixed
        PROVE  /\ plugList' \in Seq(PlugNicks)
               /\ ToSet(plugList') = plugRows'.nicks /\ IsInjective(plugList')
    <2>1. PluginFirst(nicks)
      BY <1>1, <1>5
    <2>2. PICK s \in RowsInOrder(nicks) : plugList' = ReloadAllPlugs(s)
      BY <1>1
    <2>3. plugList' = s
      BY <1>2, <2>1, <2>2, ReadPlain
    <2>4. s \in Seq(nicks) /\ IsInjective(s) /\ ToSet(s) = nicks
      BY <1>2, InOrderAll
    <2>5. s \in Seq(PlugNicks)
      BY <1>2, <2>4
    <2> QED
      BY <1>3, <2>3, <2>4, <2>5
  <1> QED
    BY <1>2, <1>3, <1>4, <1>5 DEF PlugInv

LEMMA AddPlugKeeps ==
    ASSUME PlugInv, NEW n \in Libs, NEW auto \in BOOLEAN, NEW working \in SUBSET Libs,
           AddPlug(n, auto, working)
    PROVE  PlugInv'
  <1> DEFINE nicks == plugRows.nicks \cup {n}
             autos == IF auto THEN plugRows.auto \cup {n} ELSE plugRows.auto \ {n}
  <1>1. /\ n \notin ToSet(plugList) /\ plugList' = Append(plugList, n)
        /\ libs' = IF auto THEN libs \cup Plugin(n, working) ELSE libs
    BY DEF AddPlug, InPlugList
  <1>2. plugRows' = [nicks |-> nicks, auto |-> autos, mixed |-> plugRows.mixed]
    <2>1. plugRows' = [plugRows EXCEPT !.nicks = nicks, !.auto = autos]
      BY DEF AddPlug
    <2> HIDE DEF nicks, autos
    <2> QED
      BY <2>1 DEF PlugInv
  <1>3. /\ nicks \in SUBSET PlugNicks /\ autos \in SUBSET PlugNicks /\ autos \subseteq nicks
        /\ plugRows.mixed \in BOOLEAN /\ n \in PlugNicks
    BY DEF PlugInv, PlugNicks
  <1>4. libs' \subseteq Libs
    BY <1>1, PluginIs DEF PlugInv
  <1> HIDE DEF autos
  <1>5. ASSUME ~plugRows.mixed
        PROVE  plugList' \in Seq(PlugNicks) /\ ToSet(plugList') = nicks /\ IsInjective(plugList')
    <2>1. plugList \in Seq(PlugNicks) /\ ToSet(plugList) = plugRows.nicks /\ IsInjective(plugList)
      BY <1>5 DEF PlugInv
    <2> QED
      BY <1>1, <1>3, <2>1, AppendOnce
  <1> HIDE DEF nicks
  <1>6. /\ plugRows'.nicks = nicks /\ plugRows'.auto = autos /\ plugRows'.mixed = plugRows.mixed
        /\ plugRows' \in [nicks : SUBSET PlugNicks, auto : SUBSET PlugNicks, mixed : BOOLEAN]
    BY <1>2, <1>3
  <1> QED
    BY <1>3, <1>4, <1>5, <1>6 DEF PlugInv

LEMMA DelPlugKeeps ==
    ASSUME PlugInv, NEW n, DelPlug(n)
    PROVE  PlugInv'
  <1> DEFINE nicks == plugRows.nicks \ {n}
             autos == plugRows.auto \ {n}
  <1>1. /\ n \in ToSet(plugList) /\ plugList' = RemoveAt(plugList, PlaceOf(plugList, n))
        /\ libs' = libs
    BY DEF DelPlug, InPlugList
  <1>2. plugRows' = [nicks |-> nicks, auto |-> autos, mixed |-> plugRows.mixed]
    <2>1. plugRows' = [plugRows EXCEPT !.nicks = nicks, !.auto = autos]
      BY DEF DelPlug
    <2> HIDE DEF nicks, autos
    <2> QED
      BY <2>1 DEF PlugInv
  <1>3. /\ nicks \in SUBSET PlugNicks /\ autos \in SUBSET PlugNicks /\ autos \subseteq nicks
        /\ plugRows.mixed \in BOOLEAN
    BY DEF PlugInv
  <1> HIDE DEF autos
  <1>5. ASSUME ~plugRows.mixed
        PROVE  plugList' \in Seq(PlugNicks) /\ ToSet(plugList') = nicks /\ IsInjective(plugList')
    <2>1. plugList \in Seq(PlugNicks) /\ ToSet(plugList) = plugRows.nicks /\ IsInjective(plugList)
      BY <1>5 DEF PlugInv
    <2>2. \E i \in DOMAIN plugList : plugList[i] = n
      BY <1>1 DEF ToSet
    <2>3. PlaceOf(plugList, n) \in 1 .. Len(plugList) /\ plugList[PlaceOf(plugList, n)] = n
      BY <2>1, <2>2, PlaceIs
    <2>4. IsInjective(plugList') /\ ToSet(plugList') = ToSet(plugList) \ {n}
      BY <1>1, <2>1, <2>3, RemoveAtOnce
    <2>5. plugList' \in Seq(PlugNicks)
      BY <1>1, <2>1, <2>3, TakenOut
    <2> QED
      BY <2>1, <2>4, <2>5
  <1> HIDE DEF nicks
  <1>6. /\ plugRows'.nicks = nicks /\ plugRows'.auto = autos /\ plugRows'.mixed = plugRows.mixed
        /\ plugRows' \in [nicks : SUBSET PlugNicks, auto : SUBSET PlugNicks, mixed : BOOLEAN]
    BY <1>2, <1>3
  <1> QED
    BY <1>1, <1>3, <1>5, <1>6 DEF PlugInv

LEMMA PlugStepsKeep ==
    ASSUME PlugInv, PlugSteps
    PROVE  PlugInv'
  <1>1. ASSUME NEW n \in Libs \cup Hosted, DelPlug(n) \/ cfOff(n) PROVE PlugInv'
    <2>1. CASE DelPlug(n)
      BY <2>1, DelPlugKeeps
    <2>2. CASE cfOff(n)
      BY <2>2 DEF cfOff, UnloadPlugin, PlugInv
    <2> QED
      BY <1>1, <2>1, <2>2
  <1>2. ASSUME NEW foreign \in SUBSET Hosted, NEW working \in SUBSET Libs,
               StartPlugman(working, foreign)
        PROVE  PlugInv'
    BY <1>2, StartPlugmanKeeps
  <1>3. ASSUME NEW n \in Libs, NEW working \in {{}, Libs},
               cfOn(n, working) \/ cfRe(n, working) \/ \E auto \in BOOLEAN : AddPlug(n, auto, working)
        PROVE  PlugInv'
    <2>0. working \in SUBSET Libs
      OBVIOUS
    <2>1. CASE cfOn(n, working)
      BY <2>0, <2>1, PluginIs DEF cfOn, PlugInv
    <2>2. CASE cfRe(n, working)
      BY <2>0, <2>2 DEF cfRe, ReloadPlugin, UnloadPlugin, LoadPlugin, PlugInv
    <2>3. CASE \E auto \in BOOLEAN : AddPlug(n, auto, working)
      BY <2>0, <2>3, AddPlugKeeps
    <2> QED
      BY <1>3, <2>1, <2>2, <2>3
  <1> QED
    BY <1>1, <1>2, <1>3 DEF PlugSteps

LEMMA StillPlugs == ASSUME PlugInv, UNCHANGED plugVars PROVE PlugInv'
  BY DEF plugVars, PlugInv

LEMMA PlugInvRight == PlugInv => PlugsRight
  BY DEF PlugInv, PlugsRight

-----------------------------------------------------------------------------
(* PluginLists: what the three have in memory *)

IspBounds == made <= MaxMade /\ Cardinality(ispRows) <= MaxIsps /\ stale \subseteq 1 .. MaxMade
ListsInv == IspInv /\ IspBounds /\ WordInv /\ PlugInv

\* Of rows in order there are as many as there are in the table.
LEMMA AsManyRows == ASSUME IspInv PROVE IsFiniteSet(ispRows) /\ Cardinality(ispRows) = Len(isps)
  <1> DEFINE n == Len(isps)
             D == 1 .. n
             f == [i \in D |-> isps[i]]
  <1>1. /\ n \in Nat /\ \A i \in D : isps[i].lo \in Nat
        /\ \A i, j \in D : i < j => isps[i].lo < isps[j].lo
        /\ ispRows = {isps[i] : i \in D}
    BY IspsFacts DEF IspInv, IspsSorted, Ordered, RangesKept
  <1> HIDE DEF n
  <1>2. IsFiniteSet(D) /\ Cardinality(D) = n
    BY <1>1, FS_Interval
  <1>3. f \in Injection(D, ispRows)
    <2>1. ASSUME NEW i \in D, NEW j \in D, f[i] = f[j] PROVE i = j
      <3>1. isps[i].lo = isps[j].lo /\ isps[i].lo \in Nat
        BY <1>1, <2>1
      <3>2. ~(i < j) /\ ~(j < i) /\ i \in Int /\ j \in Int
        BY <1>1, <3>1
      <3> QED
        BY <3>2
    <2>2. f \in [D -> ispRows]
      BY <1>1
    <2> QED
      BY <2>1, <2>2 DEF Injection, IsInjective
  <1>4. f \in Surjection(D, ispRows)
    BY <1>1 DEF Surjection
  <1> HIDE DEF D, f
  <1>5. f \in Bijection(D, ispRows)
    BY <1>3, <1>4 DEF Bijection
  <1>7. ExistsBijection(D, ispRows)
    BY <1>5 DEF ExistsBijection
  <1>6. IsFiniteSet(ispRows) /\ Cardinality(ispRows) = Cardinality(D)
    BY <1>2, <1>7, FS_Bijection
  <1> QED
    BY <1>2, <1>6 DEF n

LEMMA IspBoundsKept ==
    ASSUME IspInv, IspBounds, IspSteps
    PROVE  IspBounds'
  <1>0. /\ made \in Nat /\ MaxMade \in Nat /\ MaxIsps \in Nat
        /\ IsFiniteSet(ispRows) /\ Cardinality(ispRows) = Len(isps) /\ Len(isps) \in Nat
        /\ \A i \in 1 .. Len(isps) : isps[i] \in Isps /\ isps[i].id <= made
        /\ isps \in Seq(Isps) /\ DOMAIN isps = 1 .. Len(isps)
    BY AsManyRows, IspsFacts, PluginListsAssumption DEF IspInv, IspsSorted, RangesKept
  <1>5. made <= MaxMade /\ Len(isps) <= MaxIsps /\ stale \subseteq 1 .. MaxMade
    BY <1>0 DEF IspBounds
  <1>1. ASSUME NEW lo, NEW hi, NEW cc, AddIsp(lo, hi, cc) PROVE IspBounds'
    <2> DEFINE o == [lo |-> lo, hi |-> hi, cc |-> cc, id |-> made + 1]
    <2>1. /\ ispRows' = ispRows \cup {o} /\ made' = made + 1 /\ stale' = stale
          /\ Len(isps) < MaxIsps /\ made < MaxMade
      BY <1>1 DEF AddIsp
    <2> HIDE DEF o
    <2>2. Cardinality(ispRows') \in {Len(isps), Len(isps) + 1}
      <3>1. Cardinality(ispRows \cup {o}) = IF o \in ispRows THEN Cardinality(ispRows)
                                            ELSE Cardinality(ispRows) + 1
        BY <1>0, FS_AddElement
      <3> QED
        BY <1>0, <2>1, <3>1
    <2>3. made' <= MaxMade /\ Cardinality(ispRows') <= MaxIsps
      BY <1>0, <2>1, <2>2
    <2> QED
      BY <1>5, <2>1, <2>3 DEF IspBounds
  <1>2. ASSUME NEW lo \in IPs, DelIsp(lo) PROVE IspBounds'
    <2> DEFINE q == FindDataPosition(lo, 1).pos
    <2>1. /\ ispRows' = {o \in ispRows : o.lo # lo} /\ made' = made
          /\ stale' = IF isps[q].cc # NoCountry THEN stale \cup {isps[q].id} ELSE stale
          /\ \E i \in DOMAIN isps : isps[i].lo = lo
      BY <1>2 DEF DelIsp
    <2>2. q \in 1 .. Len(isps)
      <3>1. IspsSorted
        BY DEF IspInv
      <3>2. LET n == Smaller(lo) + 1 IN
               n \in 1 .. Len(isps) /\ isps[n].lo = lo /\ FindDataPosition(lo, 1).pos = n
        BY <2>1, <3>1, PlaceOfRow
      <3> QED
        BY <3>2
    <2> HIDE DEF q
    <2>3. ispRows' \subseteq ispRows
      BY <2>1
    <2>4. Cardinality(ispRows') <= Cardinality(ispRows) /\ Cardinality(ispRows') \in Nat
      BY <1>0, <2>3, FS_Subset, FS_CardinalityType
    <2>5. isps[q].id \in 1 .. MaxMade
      <3>1. isps[q].id \in Nat \ {0} /\ isps[q].id <= made
        BY <1>0, <2>2 DEF Isps
      <3> QED
        BY <1>0, <1>5, <3>1
    <2>6. Cardinality(ispRows') <= MaxIsps
      BY <1>0, <1>5, <2>4
    <2> QED
      BY <1>5, <2>1, <2>5, <2>6 DEF IspBounds
  <1>3. ASSUME NEW lo \in IPs, NEW hi \in IPs, ModIsp(lo, hi) PROVE IspBounds'
    <2> DEFINE Mod(o) == IF o.lo = lo THEN [o EXCEPT !.hi = hi] ELSE o
    <2>1. ispRows' = {Mod(o) : o \in ispRows} /\ made' = made /\ stale' = stale
      BY <1>3 DEF ModIsp
    <2>2. IsFiniteSet(ispRows') /\ Cardinality(ispRows') <= Cardinality(ispRows)
      <3> DEFINE f == [o \in ispRows |-> Mod(o)]
      <3>1. f \in Surjection(ispRows, ispRows')
        BY <2>1 DEF Surjection
      <3> HIDE DEF f
      <3> QED
        BY <1>0, <3>1, FS_Surjection
    <2>3. Cardinality(ispRows') <= MaxIsps
      BY <1>0, <1>5, <2>2, FS_CardinalityType
    <2> QED
      BY <1>5, <2>1, <2>3 DEF IspBounds
  <1>4. CASE StartIsp
    BY <1>4, <1>5, <1>0 DEF StartIsp, IspBounds
  <1> QED
    BY <1>1, <1>2, <1>3, <1>4, RangeEndsIn DEF IspSteps

LEMMA ListsInvInit == ListsInit => ListsInv
  <1> SUFFICES ASSUME ListsInit PROVE ListsInv
    OBVIOUS
  <1>1. isps = <<>> /\ ccList = <<>> /\ made = 0 /\ ispRows = {} /\ stale = {}
        /\ words = <<>> /\ swaps = <<>> /\ swapList = <<>>
        /\ plugRows = [nicks |-> {}, auto |-> {}, mixed |-> FALSE] /\ plugList = <<>> /\ libs = {}
    BY DEF ListsInit
  <1>2. IspInv
    <2>1. isps \in Seq(Isps) /\ ccList \in Seq(Isps) /\ Len(isps) = 0 /\ Len(ccList) = 0
      BY <1>1
    <2> QED
      BY <1>1, <2>1 DEF IspInv, IspsSorted, Ordered, RangesKept, CountriesKnown
  <1>3. IspBounds
    <2>1. Cardinality(ispRows) = 0
      BY <1>1, FS_EmptySet
    <2> QED
      BY <1>1, <2>1, PluginListsAssumption DEF IspBounds
  <1>4. WordInv
    <2> DEFINE none == <<>>
    <2>1. none \in Seq(Words) /\ IsInjective(none) /\ ToSet(none) = {} /\ none \in Seq(WordRows)
      BY DEF IsInjective, ToSet
    <2>2. LoadAll(none) \in Seq(Words) /\ ToSet(LoadAll(none)) = ToSet(none) \ BadWords
      <3> HIDE DEF none
      <3> QED
        BY <2>1, LoadedRight
    <2> DEFINE got == LoadAll(none)
    <2>3. got \in Seq(Words) /\ ToSet(got) = {}
      BY <2>1, <2>2
    <2> HIDE DEF got
    <2>4. DOMAIN got = 1 .. Len(got) /\ Len(got) \in Nat
      BY <2>3
    <2>5. Len(got) = 0
      <3> SUFFICES ASSUME Len(got) # 0 PROVE FALSE
        OBVIOUS
      <3>1. 1 \in DOMAIN got
        BY <2>4
      <3> QED
        BY <2>3, <3>1 DEF ToSet
    <2>6. got = <<>>
      BY <2>3, <2>5
    <2> QED
      BY <1>1, <2>1, <2>6 DEF WordInv, got
  <1>5. PlugInv
    <2>1. plugList \in Seq(PlugNicks) /\ ToSet(plugList) = {} /\ IsInjective(plugList)
      BY <1>1 DEF IsInjective, ToSet
    <2>2. plugRows.nicks = {} /\ plugRows.auto = {} /\ FALSE \in BOOLEAN
      BY <1>1
    <2>3. plugRows \in [nicks : SUBSET PlugNicks, auto : SUBSET PlugNicks, mixed : BOOLEAN]
      BY <1>1
    <2> QED
      BY <1>1, <2>1, <2>2, <2>3 DEF PlugInv
  <1> QED
    BY <1>2, <1>3, <1>4, <1>5 DEF ListsInv

LEMMA StillLists == ASSUME ListsInv, UNCHANGED listsVars PROVE ListsInv'
  <1>1. UNCHANGED ispVars /\ UNCHANGED wordVars /\ UNCHANGED plugVars
    BY DEF listsVars
  <1>2. IspInv' /\ WordInv' /\ PlugInv'
    BY <1>1, StillIspInv, StillWords, StillPlugs DEF ListsInv
  <1>3. IspBounds'
    BY <1>1 DEF ListsInv, IspBounds, ispVars
  <1> QED
    BY <1>2, <1>3 DEF ListsInv

LEMMA ListsInvNext == ListsInv /\ [ListsNext]_listsVars => ListsInv'
  <1> SUFFICES ASSUME ListsInv, [ListsNext]_listsVars PROVE ListsInv'
    OBVIOUS
  <1>0. IspInv /\ IspBounds /\ WordInv /\ PlugInv
    BY DEF ListsInv
  <1>1. CASE IspSteps
    <2>1. UNCHANGED wordVars /\ UNCHANGED plugVars
      BY <1>1 DEF IspSteps, StartIsp, ModIsp, AddIsp, DelIsp
    <2>2. IspInv' /\ IspBounds'
      BY <1>0, <1>1, IspStepKeeps, IspBoundsKept
    <2> QED
      BY <1>0, <2>1, <2>2, StillWords, StillPlugs DEF ListsInv
  <1>2. CASE WordSteps
    <2>1. UNCHANGED plugVars
      BY <1>2 DEF WordSteps, AddForbid, DelForbid, AddReplacer, StartReplacer, DelReplacer
    <2>2. UNCHANGED ispVars
      BY <1>2, OtherListsKeep
    <2>3. IspBounds'
      BY <1>0, <2>2 DEF IspBounds, ispVars
    <2> QED
      BY <1>0, <1>2, <2>1, <2>2, <2>3, StillIspInv, StillPlugs, WordStepsKeep DEF ListsInv
  <1>3. CASE PlugSteps
    <2>1. UNCHANGED wordVars
      BY <1>3 DEF PlugSteps, DelPlug, cfOff, StartPlugman, cfOn, cfRe, AddPlug
    <2>2. UNCHANGED ispVars
      BY <1>3, OtherListsKeep
    <2>3. IspBounds'
      BY <1>0, <2>2 DEF IspBounds, ispVars
    <2> QED
      BY <1>0, <1>3, <2>1, <2>2, <2>3, StillIspInv, StillWords, PlugStepsKeep DEF ListsInv
  <1>4. CASE UNCHANGED listsVars
    BY <1>4, StillLists
  <1> QED
    BY <1>1, <1>2, <1>3, <1>4 DEF ListsNext

LEMMA ListsInvRight == ListsInv => ListsTypeOK /\ ListsRight
  <1> SUFFICES ASSUME ListsInv PROVE ListsTypeOK /\ ListsRight
    OBVIOUS
  <1>1. HalvingRight /\ IspRight /\ WordsRight /\ PlugsRight
    BY SortedIsFound, SortedAnswersRight, WordInvRight, PlugInvRight DEF ListsInv, IspInv
  <1>2. Len(isps) <= MaxIsps /\ made \in 0 .. MaxMade /\ stale \subseteq 1 .. MaxMade
    BY AsManyRows, PluginListsAssumption DEF ListsInv, IspInv, IspBounds
  <1>3. \A i \in DOMAIN words : words[i].word \in Words
    <2>1. words \in Seq(WordRows)
      BY DEF ListsInv, WordInv
    <2>2. \A i \in DOMAIN words : words[i] \in WordRows
      BY <2>1
    <2> QED
      BY <2>2 DEF WordRows
  <1> QED
    BY <1>1, <1>2, <1>3 DEF ListsTypeOK, ListsRight, ListsInv, PlugInv

\* What the plugins have in memory, for any addresses, words, libraries and rows.
\* isp: halving finds the row or its place from wherever it starts; nobody is
\* turned away for want of a row while the row that begins next below the address
\* reaches up to it; and what is answered has the address or the country or is
\* for everybody, unless a row with a country was deleted. forbid and replacer:
\* the list is in the order of the rows and has those that compile. plugman:
\* every library is there once, as it was registered and autoloads
\* (tmysqlmemoryordlist.h: FindDataPosition, cisps.cpp: FindISP, cforbid.cpp,
\* creplacer.cpp, cplugs.cpp).
THEOREM ListsRightAlways == ListsSpec => [](ListsTypeOK /\ ListsRight)
  <1> QED
    BY ListsInvInit, ListsInvNext, ListsInvRight, PTL DEF ListsSpec

-----------------------------------------------------------------------------
(* Console: types *)

Classes == {Outside, Guest} \cup Ranks
Guards == {0} \cup Shields
AccountForms == [class : Ranks, protect : Guards, repass : BOOLEAN]
SessionTypes ==
    /\ rank \in [Folk -> Classes] /\ guard \in [Folk -> Guards]
    /\ regRow \in [Folk -> SUBSET AccountForms]
    /\ \A n \in Folk : regRow[n] = {} \/ \E a \in AccountForms : regRow[n] = {a}
ShownTypes ==
    /\ {gagged, chatters, hideChat, opened, hideKick, lastMe, heard, listed} \subseteq SUBSET Folk
    /\ askedBlock \subseteq AddressSpace \X (0 .. Bits)
    /\ topic \in Texts
ConsoleTypes == SessionTypes /\ ShownTypes

LEMMA ConsoleTypesGive == ConsoleTypes => ConsoleTypeOK
  BY DEF ConsoleTypes, SessionTypes, ShownTypes, Classes, Guards, AccountForms, ConsoleTypeOK

LEMMA ConsoleTypesInit == ConsoleInit => ConsoleTypes
  <1> SUFFICES ASSUME ConsoleInit PROVE ConsoleTypes
    OBVIOUS
  <1>1. Accounts \subseteq AccountForms
    <2>1. {0} \subseteq Guards /\ {FALSE} \subseteq BOOLEAN
      BY DEF Guards
    <2> QED
      BY <2>1 DEF Accounts, AccountForms
  <1>2. regRow \in [Folk -> {{}} \cup {{a} : a \in Accounts}]
    BY DEF ConsoleInit
  <1>3. \A n \in Folk : regRow[n] = {} \/ \E a \in AccountForms : regRow[n] = {a}
    BY <1>1, <1>2
  <1>4. \A n \in Folk : regRow[n] \in SUBSET AccountForms
    BY <1>3
  <1>5. regRow \in [Folk -> SUBSET AccountForms]
    BY <1>2, <1>4
  <1>6. rank \in [Folk -> Classes] /\ guard \in [Folk -> Guards]
    BY DEF ConsoleInit, Classes, Guards
  <1>7. ShownTypes
    BY DEF ConsoleInit, ShownTypes, Texts
  <1> QED
    BY <1>3, <1>5, <1>6, <1>7 DEF ConsoleTypes, SessionTypes

LEMMA OnlyAccount ==
    ASSUME SessionTypes, NEW n \in Folk, regRow[n] # {}
    PROVE  AccountOf(n) \in AccountForms
  BY DEF SessionTypes, AccountOf

LEMMA SetRank ==
    ASSUME SessionTypes, NEW n \in Folk, NEW k \in Classes,
           rank' = rank \/ rank' = [rank EXCEPT ![n] = k]
    PROVE  rank' \in [Folk -> Classes]
  BY DEF SessionTypes

LEMMA SetGuard ==
    ASSUME SessionTypes, NEW n \in Folk, NEW k \in Guards,
           guard' = guard \/ guard' = [guard EXCEPT ![n] = k]
    PROVE  guard' \in [Folk -> Guards]
  BY DEF SessionTypes

AccountsTyped(r) ==
    /\ r \in [Folk -> SUBSET AccountForms]
    /\ \A n \in Folk : r[n] = {} \/ \E a \in AccountForms : r[n] = {a}

LEMMA SetAccount ==
    ASSUME SessionTypes, NEW n \in Folk, NEW a \in AccountForms,
           \/ regRow' = regRow
           \/ regRow' = [regRow EXCEPT ![n] = {a}]
           \/ regRow' = [regRow EXCEPT ![n] = {}]
    PROVE  AccountsTyped(regRow')
  BY DEF SessionTypes, AccountsTyped

\* One field of an account changes.
LEMMA FieldTyped ==
    ASSUME SessionTypes, NEW n \in Folk, regRow[n] # {}, NEW field, NEW value, SetVar(n, field, value),
           \/ field = "class" /\ value \in Ranks
           \/ field = "protect" /\ value \in Guards
           \/ field = "repass" /\ value \in BOOLEAN
    PROVE  AccountsTyped(regRow')
  <1> DEFINE a == [AccountOf(n) EXCEPT ![field] = value]
  <1>1. AccountOf(n) \in AccountForms
    BY OnlyAccount
  <1>2. a \in AccountForms
    BY <1>1 DEF AccountForms
  <1>3. regRow' = regRow \/ regRow' = [regRow EXCEPT ![n] = {a}]
    BY DEF SetVar
  <1> HIDE DEF a
  <1> QED
    BY <1>2, <1>3, SetAccount

LEMMA TypedFrom ==
    ASSUME rank' \in [Folk -> Classes], guard' \in [Folk -> Guards], AccountsTyped(regRow')
    PROVE  SessionTypes'
  BY DEF SessionTypes, AccountsTyped

LEMMA SameTyped ==
    ASSUME SessionTypes
    PROVE  /\ rank' = rank => rank' \in [Folk -> Classes]
           /\ guard' = guard => guard' \in [Folk -> Guards]
           /\ regRow' = regRow => AccountsTyped(regRow')
  BY DEF SessionTypes, AccountsTyped

LEMMA EnterTyped ==
    ASSUME SessionTypes, NEW n \in Folk, Enter(n)
    PROVE  SessionTypes'
  <1> DEFINE k == IF Recognised(n) THEN AccountOf(n).class ELSE Guest
             g == IF Recognised(n) THEN AccountOf(n).protect ELSE 0
  <1>1. k \in Classes /\ g \in Guards
    BY OnlyAccount DEF Recognised, AccountForms, Classes, Guards
  <1>2. rank' = [rank EXCEPT ![n] = k] /\ guard' = [guard EXCEPT ![n] = g] /\ regRow' = regRow
    BY DEF Enter
  <1> HIDE DEF k, g
  <1> QED
    BY <1>1, <1>2, SetRank, SetGuard, SameTyped, TypedFrom

LEMMA DroppedTyped ==
    ASSUME SessionTypes, NEW n \in Folk, Dropped(n), regRow' = regRow
    PROVE  SessionTypes'
  <1>1. Outside \in Classes /\ 0 \in Guards
    BY DEF Classes, Guards
  <1> QED
    BY <1>1, SetRank, SetGuard, SameTyped, TypedFrom DEF Dropped

LEMMA RankStepsTyped ==
    ASSUME SessionTypes, RankSteps
    PROVE  SessionTypes'
  <1>f. 0 \in Guards /\ Guest \in Classes /\ Ranks \subseteq Classes /\ Shields \subseteq Guards
    BY DEF Guards, Classes
  <1>w. ASSUME NEW n \in Folk, NEW k \in Classes, rank' = WhenIn(n, rank, k)
        PROVE  rank' \in [Folk -> Classes]
    BY <1>w, SetRank DEF WhenIn
  <1>v. ASSUME NEW n \in Folk, NEW k \in Guards, guard' = WhenIn(n, guard, k)
        PROVE  guard' \in [Folk -> Guards]
    BY <1>v, SetGuard DEF WhenIn
  <1>1. ASSUME NEW c \in Folk, Enter(c) \/ LeavesInside(c) PROVE SessionTypes'
    BY <1>1, EnterTyped, DroppedTyped DEF LeavesInside
  <1>3. ASSUME NEW c \in Folk, CmdRegMe(c) PROVE SessionTypes'
    <2> DEFINE new == [class |-> autoreg_class, protect |-> 0, repass |-> FALSE]
    <2>1. /\ regRow' = [regRow EXCEPT ![c] = {new}] /\ rank' = [rank EXCEPT ![c] = autoreg_class]
          /\ guard' = guard /\ autoreg_class \in Ranks
      BY <1>3, ConsoleAssumption DEF CmdRegMe, OperRank
    <2>2. new \in AccountForms
      BY <1>f, <2>1 DEF AccountForms
    <2> HIDE DEF new
    <2>3. AccountsTyped(regRow')
      BY <2>1, <2>2, SetAccount
    <2>4. rank' \in [Folk -> Classes]
      BY <1>f, <2>1, SetRank
    <2> QED
      BY <2>1, <2>3, <2>4, SameTyped, TypedFrom
  <1>4. ASSUME NEW c \in Folk, CmdUnRegMe(c) PROVE SessionTypes'
    <2>1. /\ regRow' = [regRow EXCEPT ![c] = {}] /\ rank' = [rank EXCEPT ![c] = Guest]
          /\ guard' = guard /\ regRow[c] # {}
      BY <1>4 DEF CmdUnRegMe
    <2>2. AccountsTyped(regRow')
      BY <2>1, OnlyAccount, SetAccount
    <2>3. rank' \in [Folk -> Classes]
      BY <1>f, <2>1, SetRank
    <2> QED
      BY <2>1, <2>2, <2>3, SameTyped, TypedFrom
  <1>5. ASSUME NEW c \in Folk, CmdRegMyPasswd(c) PROVE SessionTypes'
    <2>1. /\ regRow[c] # {} /\ SetVar(c, "repass", FALSE)
          /\ rank' = [rank EXCEPT ![c] = AccountOf(c).class] /\ guard' = guard
      BY <1>5 DEF CmdRegMyPasswd, SetVar
    <2>2. AccountOf(c).class \in Classes
      BY <1>f, <2>1, OnlyAccount DEF AccountForms
    <2>3. AccountsTyped(regRow')
      BY <2>1, FieldTyped
    <2>4. rank' \in [Folk -> Classes]
      BY <2>1, <2>2, SetRank
    <2> QED
      BY <2>1, <2>3, <2>4, SameTyped, TypedFrom
  <1>6. ASSUME NEW c \in Folk, NEW n \in Folk, NEW k \in Ranks, CmdClass(c, n, k) PROVE SessionTypes'
    <2>1. rank' = [rank EXCEPT ![n] = k] /\ regRow' = regRow /\ guard' = guard
      BY <1>6 DEF CmdClass
    <2>2. rank' \in [Folk -> Classes]
      BY <1>f, <2>1, SetRank
    <2> QED
      BY <2>1, <2>2, SameTyped, TypedFrom
  <1>7. ASSUME NEW c \in Folk, NEW n \in Folk, NEW k \in Ranks, RegNew(c, n, k) PROVE SessionTypes'
    <2>1. PICK withPass \in BOOLEAN :
            regRow' = [regRow EXCEPT ![n] = {[class |-> k, protect |-> 0, repass |-> ~withPass]}]
      BY <1>7 DEF RegNew
    <2> DEFINE new == [class |-> k, protect |-> 0, repass |-> ~withPass]
    <2>3. new \in AccountForms
      BY <1>f DEF AccountForms
    <2>4. regRow' = [regRow EXCEPT ![n] = {new}]
      BY <2>1
    <2> HIDE DEF new
    <2>5. AccountsTyped(regRow')
      BY <2>3, <2>4, SetAccount
    <2>6. rank' = WhenIn(n, rank, k) /\ guard' = guard
      BY <1>7 DEF RegNew
    <2> QED
      BY <1>f, <1>w, <2>5, <2>6, SameTyped, TypedFrom
  <1>8. ASSUME NEW c \in Folk, NEW n \in Folk, NEW k \in Ranks, RegClass(c, n, k) PROVE SessionTypes'
    <2>1. regRow[n] # {} /\ SetVar(n, "class", k) /\ rank' = WhenIn(n, rank, k) /\ guard' = guard
      BY <1>8 DEF RegClass, Manages
    <2>2. AccountsTyped(regRow')
      BY <2>1, FieldTyped
    <2> QED
      BY <1>f, <1>w, <2>1, <2>2, SameTyped, TypedFrom
  <1>9. ASSUME NEW c \in Folk, NEW n \in Folk, NEW k \in Shields,
               CmdProtect(c, n, k) \/ RegProtect(c, n, k) \/ RegSet(c, n, k)
        PROVE  SessionTypes'
    <2>1. CASE CmdProtect(c, n, k)
      <3>1. guard' = [guard EXCEPT ![n] = k] /\ UNCHANGED <<rank, regRow>>
        BY <2>1 DEF CmdProtect
      <3>2. guard' \in [Folk -> Guards]
        BY <1>f, <3>1, SetGuard
      <3> QED
        BY <3>1, <3>2, SameTyped, TypedFrom
    <2>2. CASE RegProtect(c, n, k) \/ RegSet(c, n, k)
      <3>1. /\ regRow[n] # {} /\ SetVar(n, "protect", k) /\ rank' = rank
            /\ guard' = guard \/ guard' = WhenIn(n, guard, k)
        BY <2>2 DEF RegProtect, RegSet, Manages
      <3>2. AccountsTyped(regRow')
        BY <1>f, <3>1, FieldTyped
      <3> QED
        BY <1>f, <1>v, <3>1, <3>2, SameTyped, TypedFrom
    <2> QED
      BY <1>9, <2>1, <2>2
  <1>10. ASSUME NEW c \in Folk, NEW n \in Folk, RegDel(c, n) PROVE SessionTypes'
    <2>1. /\ regRow[n] # {} /\ regRow' = [regRow EXCEPT ![n] = {}] /\ rank' = WhenIn(n, rank, Guest)
          /\ guard' = guard
      BY <1>10 DEF RegDel, Manages
    <2>2. AccountsTyped(regRow')
      BY <2>1, OnlyAccount, SetAccount
    <2> QED
      BY <1>f, <1>w, <2>1, <2>2, SameTyped, TypedFrom
  <1>11. ASSUME NEW c \in Folk, NEW n \in Folk, RegPass(c, n) PROVE SessionTypes'
    <2>1. regRow[n] # {} /\ SetVar(n, "repass", TRUE) /\ UNCHANGED <<rank, guard>>
      BY <1>11 DEF RegPass, Manages
    <2>2. AccountsTyped(regRow')
      BY <2>1, FieldTyped
    <2> QED
      BY <2>1, <2>2, SameTyped, TypedFrom
  <1>12. ASSUME NEW c \in Folk, NEW n \in Folk, DCKickNick(c, n) \/ cfBan(c, n, "ban")
         PROVE  SessionTypes'
    BY <1>12, DroppedTyped DEF DCKickNick, cfBan
  <1> QED
    BY <1>1, <1>3, <1>4, <1>5, <1>6, <1>7, <1>8, <1>9, <1>10, <1>11, <1>12 DEF RankSteps

LEMMA RankStepsShow == ASSUME ShownTypes, RankSteps PROVE ShownTypes'
  <1>1. UNCHANGED <<chatters, opened, hideChat, hideKick, lastMe, heard, topic, listed, askedBlock>>
    BY DEF RankSteps, talkVars, lookVars
  <1>2. gagged' = gagged
    BY DEF RankSteps, Enter, LeavesInside, CmdRegMe, CmdUnRegMe, CmdRegMyPasswd, CmdClass, RegNew,
           RegClass, CmdProtect, RegProtect, RegSet, RegDel, RegPass, DCKickNick, cfBan
  <1> QED
    BY <1>1, <1>2 DEF ShownTypes

LEMMA SameSessions ==
    ASSUME SessionTypes, UNCHANGED <<rank, guard, regRow>>
    PROVE  SessionTypes'
  BY DEF SessionTypes

\* Who is told something, hidden or shown is a nick.
LEMMA TalkStepsTyped ==
    ASSUME ConsoleTypes, TalkSteps
    PROVE  ConsoleTypes'
  <1>0. SessionTypes /\ ShownTypes /\ Inside \subseteq Folk
    BY DEF ConsoleTypes, Inside
  <1> SUFFICES ASSUME NEW c \in Folk,
                      \/ EnterTalk(c) \/ QuitTalk(c)
                      \/ CmdChat(c) \/ CmdNoChat(c) \/ CmdMe(c) \/ Chatted(c) \/ UnknownCommand(c)
                      \/ CmdReport(c) \/ CmdCCBroadcast(c)
                      \/ CmdMyInfo(c) \/ CmdUInfo(c) \/ cfInfo(c) \/ cfTrigger(c) \/ cfGetConfig(c)
                      \/ \E t \in Texts : ChangeTopic(c, t)
                      \/ \E n \in Folk :
                           \/ SetHideChat(c, n) \/ CmdRaw(c, n) \/ KickSeen(c, n)
                           \/ GagSeen(c, n, TRUE) \/ GagSeen(c, n, FALSE)
                           \/ CmdHideKick(c, n, TRUE) \/ CmdHideKick(c, n, FALSE)
               PROVE  SessionTypes' /\ ShownTypes'
    BY DEF TalkSteps, ConsoleTypes
  <1>1. CASE EnterTalk(c)
    <2>1. SessionTypes'
      BY <1>0, <1>1, EnterTyped DEF EnterTalk
    <2>2. ShownTypes'
      BY <1>0, <1>1 DEF EnterTalk, Enter, ShownTypes, lookVars
    <2> QED
      BY <2>1, <2>2
  <1>2. CASE QuitTalk(c)
    <2>1. SessionTypes'
      BY <1>0, <1>2, DroppedTyped DEF QuitTalk, LeavesInside
    <2>2. ShownTypes'
      BY <1>0, <1>2 DEF QuitTalk, LeavesInside, ShownTypes, lookVars
    <2> QED
      BY <2>1, <2>2
  <1>3. CASE CmdChat(c) \/ CmdNoChat(c) \/ CmdMe(c) \/ Chatted(c) \/ UnknownCommand(c)
    <2>1. UNCHANGED <<rank, guard, regRow>>
      BY <1>3 DEF CmdChat, CmdNoChat, CmdMe, Chatted, UnknownCommand, Says, Silent
    <2>2. ShownTypes'
      BY <1>0, <1>3 DEF CmdChat, CmdNoChat, CmdMe, Chatted, UnknownCommand, Says, Silent,
                        ShownTypes, lookVars
    <2> QED
      BY <1>0, <2>1, <2>2, SameSessions
  <1>4. CASE \/ CmdReport(c) \/ CmdCCBroadcast(c)
             \/ CmdMyInfo(c) \/ CmdUInfo(c) \/ cfInfo(c) \/ cfTrigger(c) \/ cfGetConfig(c)
    <2>1. UNCHANGED <<rank, guard, regRow>>
      BY <1>4 DEF CmdReport, CmdCCBroadcast, CmdMyInfo, CmdUInfo, cfInfo, cfTrigger, cfGetConfig,
                  Answered, Says, Silent
    <2>2. heard' \subseteq Folk
      BY <1>0, <1>4 DEF CmdReport, CmdCCBroadcast, CmdMyInfo, CmdUInfo, cfInfo, cfTrigger, cfGetConfig,
                        Answered
    <2>3. UNCHANGED <<gagged, chatters, hideChat, opened, hideKick, lastMe, topic, listed, askedBlock>>
      BY <1>4 DEF CmdReport, CmdCCBroadcast, CmdMyInfo, CmdUInfo, cfInfo, cfTrigger, cfGetConfig,
                  Answered, Says, lookVars
    <2>4. ShownTypes'
      BY <1>0, <2>2, <2>3 DEF ShownTypes
    <2> QED
      BY <1>0, <2>1, <2>4, SameSessions
  <1>5. ASSUME NEW t \in Texts, ChangeTopic(c, t) PROVE SessionTypes' /\ ShownTypes'
    <2>1. UNCHANGED <<rank, guard, regRow>>
      BY <1>5 DEF ChangeTopic, Says, Silent
    <2>2. ShownTypes'
      BY <1>0, <1>5 DEF ChangeTopic, Says, ShownTypes, lookVars
    <2> QED
      BY <1>0, <2>1, <2>2, SameSessions
  <1>6. ASSUME NEW n \in Folk, SetHideChat(c, n) PROVE SessionTypes' /\ ShownTypes'
    <2>1. UNCHANGED <<rank, guard, regRow>>
      BY <1>6 DEF SetHideChat, Says, Silent
    <2>2. ShownTypes'
      BY <1>0, <1>6 DEF SetHideChat, Hidden, Says, ShownTypes, lookVars
    <2> QED
      BY <1>0, <2>1, <2>2, SameSessions
  <1>7. ASSUME NEW n \in Folk, CmdRaw(c, n) \/ CmdHideKick(c, n, TRUE) \/ CmdHideKick(c, n, FALSE)
        PROVE  SessionTypes' /\ ShownTypes'
    <2>1. UNCHANGED <<rank, guard, regRow>>
      BY <1>7 DEF CmdRaw, CmdHideKick, Says, Silent
    <2>2. ShownTypes'
      BY <1>0, <1>7 DEF CmdRaw, CmdHideKick, Says, ShownTypes, lookVars
    <2> QED
      BY <1>0, <2>1, <2>2, SameSessions
  <1>8. ASSUME NEW n \in Folk, KickSeen(c, n) PROVE SessionTypes' /\ ShownTypes'
    <2>1. SessionTypes'
      BY <1>0, <1>8, DroppedTyped DEF KickSeen, DCKickNick
    <2>2. ShownTypes'
      BY <1>0, <1>8 DEF KickSeen, DCKickNick, ShownTypes, lookVars
    <2> QED
      BY <2>1, <2>2
  <1>9. ASSUME NEW n \in Folk, GagSeen(c, n, TRUE) \/ GagSeen(c, n, FALSE)
        PROVE  SessionTypes' /\ ShownTypes'
    <2>1. UNCHANGED <<rank, guard, regRow>>
      BY <1>9 DEF GagSeen, KickGag
    <2>2. ShownTypes'
      BY <1>0, <1>9 DEF GagSeen, KickGag, ShownTypes, lookVars
    <2> QED
      BY <1>0, <2>1, <2>2, SameSessions
  <1> QED
    BY <1>1, <1>2, <1>3, <1>4, <1>5, <1>6, <1>7, <1>8, <1>9

LEMMA LookStepsTyped ==
    ASSUME ConsoleTypes, LookSteps
    PROVE  ConsoleTypes'
  <1>0. SessionTypes /\ ShownTypes /\ Inside \subseteq Folk
    BY DEF ConsoleTypes, Inside
  <1>f. ASSUME UNCHANGED <<gagged, talkVars>>, listed' \subseteq Folk,
               askedBlock' \subseteq AddressSpace \X (0 .. Bits)
        PROVE  ShownTypes'
    BY <1>0, <1>f DEF ShownTypes, talkVars
  <1>1. ASSUME NEW n \in Folk, LookAgain(n) PROVE ConsoleTypes'
    <2>1. SessionTypes' /\ gagged' = gagged
      BY <1>0, <1>1, EnterTyped, DroppedTyped DEF LookAgain, LeavesInside, Enter
    <2>2. UNCHANGED talkVars /\ listed' = {} /\ askedBlock' = {}
      BY <1>1 DEF LookAgain
    <2>3. ShownTypes'
      BY <1>f, <2>1, <2>2
    <2> QED
      BY <2>1, <2>3 DEF ConsoleTypes
  <1>2. ASSUME NEW c \in Folk,
               \/ Whosaid(c)
               \/ \E nicks \in SUBSET Folk : CmdGetip(c, nicks)
               \/ \E a \in AddressSpace :
                    \/ \E p \in 0 .. Bits : Whorange(c, a, p)
                    \/ \E b \in AddressSpace : Whointerval(c, a, b)
        PROVE  ConsoleTypes'
    <2>1. UNCHANGED ranksVars /\ UNCHANGED talkVars
      BY <1>2 DEF Whosaid, CmdGetip, Whorange, Whointerval, AsksWho
    <2>2. SessionTypes' /\ gagged' = gagged
      BY <1>0, <2>1, SameSessions DEF ranksVars
    <2>3. CASE \/ Whosaid(c) \/ \E nicks \in SUBSET Folk : CmdGetip(c, nicks)
               \/ \E a, b \in AddressSpace : Whointerval(c, a, b)
      <3>1. listed' \subseteq Folk /\ (askedBlock' = {} \/ askedBlock' = askedBlock)
        BY <1>0, <2>3 DEF Whosaid, CmdGetip, Whointerval, WhoIP
      <3>2. askedBlock' \subseteq AddressSpace \X (0 .. Bits)
        BY <1>0, <3>1 DEF ShownTypes
      <3> QED
        BY <1>f, <2>1, <2>2, <3>1, <3>2 DEF ConsoleTypes
    <2>4. ASSUME NEW a \in AddressSpace, NEW p \in 0 .. Bits, Whorange(c, a, p) PROVE ConsoleTypes'
      <3>1. listed' \subseteq Folk /\ askedBlock' = {<<a, p>>}
        BY <1>0, <2>4 DEF Whorange, WhoIP
      <3>2. askedBlock' \subseteq AddressSpace \X (0 .. Bits)
        BY <3>1
      <3> QED
        BY <1>f, <2>1, <2>2, <3>1, <3>2 DEF ConsoleTypes
    <2> QED
      BY <1>2, <2>3, <2>4
  <1> QED
    BY <1>1, <1>2 DEF LookSteps

LEMMA StillConsole == ASSUME ConsoleTypes, UNCHANGED consoleVars PROVE ConsoleTypes'
  BY DEF consoleVars, ranksVars, talkVars, lookVars, ConsoleTypes, SessionTypes, ShownTypes

-----------------------------------------------------------------------------
(* Settings and Tables: types *)

FlagTypes == {running, pushedOut} \subseteq BOOLEAN /\ failed \subseteq Items /\ unsaved2 \subseteq Items
LimitTypes ==
    conf["max_users"] \in 0 .. 2 ^ Width - 1 /\ stored["max_users"] \in Int \cup {Absent}

LEMMA SettingsTypesGive == ASSUME SettingsInv, FlagTypes, LimitTypes PROVE SettingsTypeOK
  <1>1. DOMAIN conf = Items /\ DOMAIN stored = Items \cup Foreign
    <2>1. conf = [v \in Items |-> conf[v]] /\ stored = [v \in Items \cup Foreign |-> stored[v]]
      BY DEF SettingsInv, SettingsTypes
    <2> DEFINE c == conf
               s == stored
    <2>2. DOMAIN [v \in Items |-> c[v]] = Items /\ DOMAIN [v \in Items \cup Foreign |-> s[v]] = Items \cup Foreign
      OBVIOUS
    <2> QED
      BY <2>1, <2>2
  <1>2. /\ robotOf \in [{"hub", "chat"} -> [nick : Nicks2 \cup {""}, key : Nicks2 \cup {""}]]
        /\ at \in [Nicks2 -> {NoOneAt, "user", "hub", "chat"}]
    BY DEF SettingsInv, SettingsTypes, Robots2, NickOrNone
  <1> QED
    BY <1>1, <1>2 DEF SettingsTypeOK, FlagTypes, LimitTypes

LEMMA SettingsTypesInit == SettingsInit => FlagTypes /\ LimitTypes
  <1> SUFFICES ASSUME SettingsInit PROVE FlagTypes /\ LimitTypes
    OBVIOUS
  <1>1. FlagTypes
    BY DEF SettingsInit, FlagTypes
  <1>2. conf["max_users"] = DefaultOf["max_users"] /\ stored["max_users"] = Absent
    BY SettingsAssumption DEF SettingsInit
  <1> QED
    BY <1>1, <1>2, SettingsAssumption DEF LimitTypes

LEMMA UnsignedIs == ASSUME NEW x \in Int PROVE Unsigned(x) \in 0 .. 2 ^ Width - 1
  <1> DEFINE n == 2 ^ Width
  <1>1. n \in Nat \ {0}
    BY SettingsAssumption
  <1> HIDE DEF n
  <1>2. x % n \in 0 .. n - 1
    BY <1>1
  <1> QED
    BY <1>2 DEF Unsigned, n

LEMMA LimitRange == 0 .. 2 ^ Width - 1 \subseteq Int
  <1> DEFINE n == 2 ^ Width
  <1> HIDE DEF n
  <1>1. 0 .. n - 1 \subseteq Int
    OBVIOUS
  <1> QED
    BY <1>1 DEF n

LEMMA DoubtedIn == ASSUME NEW v PROVE Doubted(v) \subseteq Items
  BY SettingsAssumption DEF Doubted, Ports, Special

LEMMA SettingsStepsTyped ==
    ASSUME SettingsInv, FlagTypes, LimitTypes, [SettingsNext]_settingsVars
    PROVE  FlagTypes' /\ LimitTypes'
  <1>0. /\ conf = [v \in Items |-> conf[v]] /\ stored = [v \in Items \cup Foreign |-> stored[v]]
        /\ "max_users" \in Items /\ Items \cap Foreign = {}
    BY SettingsAssumption DEF SettingsInv, SettingsTypes
  <1>1. CASE UNCHANGED settingsVars
    BY <1>1 DEF settingsVars, robots, FlagTypes, LimitTypes
  <1>2. ASSUME NEW v \in Items, NEW given \in Offered[v], NEW byUser \in BOOLEAN, NEW vetoed \in BOOLEAN,
               NEW outcome \in Outcomes, SetConfig(v, given, byUser, vetoed, outcome)
        PROVE  FlagTypes' /\ LimitTypes'
    <2> DEFINE new == Kept2(v, given)
    <2>1. CASE vetoed \/ Refused(v, new, byUser)
      BY <1>2, <2>1 DEF SetConfig, TakenBack, robots, FlagTypes, LimitTypes
    <2>2. CASE ~(vetoed \/ Refused(v, new, byUser))
      <3>1. /\ conf' = [conf EXCEPT ![v] = new] /\ Followed(v, new)
            /\ stored' = Written(stored, v, new, outcome)
            /\ unsaved2' = NotedFor(v, outcome)
            /\ failed' = IF outcome = "written" THEN failed ELSE failed \cup Doubted(v)
            /\ running' = running
        BY <1>2, <2>2 DEF SetConfig
      <3>2. pushedOut' \in BOOLEAN
        BY <3>1 DEF Followed, Renamed, CloseRoom, OpenRoom, robots, FlagTypes
      <3>3. FlagTypes'
        BY <3>1, <3>2, DoubtedIn DEF FlagTypes, NotedFor
      <3>4. \A w \in (Items \cup Foreign) \ {v} : stored'[w] = stored[w]
        BY <1>0, <3>1, WrittenIs
      <3>5. stored'[v] \in {new, Absent, stored[v]}
        BY <1>0, <3>1, WrittenIs
      <3>6. CASE v = "max_users"
        <4>1. given \in Int
          BY <3>6, SettingsAssumption
        <4>2. new = Unsigned(given)
          BY <3>6 DEF Kept2, Special
        <4>3. new \in 0 .. 2 ^ Width - 1 /\ new \in Int
          BY <4>1, <4>2, UnsignedIs, LimitRange
        <4>4. conf'["max_users"] = new
          BY <1>0, <3>1, <3>6
        <4>5. stored'["max_users"] \in Int \cup {Absent}
          BY <3>5, <3>6, <4>3 DEF LimitTypes
        <4> QED
          BY <3>3, <4>3, <4>4, <4>5 DEF LimitTypes
      <3>7. CASE v # "max_users"
        <4>1. conf'["max_users"] = conf["max_users"] /\ stored'["max_users"] = stored["max_users"]
          BY <1>0, <3>1, <3>4, <3>7
        <4> QED
          BY <3>3, <4>1 DEF LimitTypes
      <3> QED
        BY <3>6, <3>7
    <2> QED
      BY <2>1, <2>2
  <1>3. ASSUME NEW v \in Foreign, NEW given, NEW vetoed \in BOOLEAN, NEW outcome \in Outcomes,
               SetForeign(v, given, vetoed, outcome)
        PROVE  FlagTypes' /\ LimitTypes'
    <2>1. FlagTypes' /\ conf' = conf
      BY <1>3 DEF SetForeign, robots, FlagTypes
    <2>2. stored' = stored \/ stored' = Written(stored, v, given, outcome)
      BY <1>3 DEF SetForeign
    <2>3. stored'["max_users"] = stored["max_users"]
      BY <1>0, <2>2, WrittenIs
    <2> QED
      BY <2>1, <2>3 DEF LimitTypes
  <1>4. ASSUME HubEnds, failed' \subseteq Items, unsaved2' = unsaved2,
               stored' = stored \/ \E v \in Items : stored' = [stored EXCEPT ![v] = Absent]
        PROVE  FlagTypes' /\ LimitTypes'
    <2>1. FlagTypes'
      BY <1>4 DEF HubEnds, FlagTypes
    <2>2. conf'["max_users"] = DefaultOf["max_users"]
      BY <1>0, <1>4 DEF HubEnds
    <2>3. stored'["max_users"] \in {stored["max_users"], Absent}
      BY <1>0, <1>4
    <2> QED
      BY <2>1, <2>2, <2>3, SettingsAssumption DEF LimitTypes
  <1>5. ASSUME NEW v \in Items, CrashInWrite(v) PROVE FlagTypes' /\ LimitTypes'
    <2>1. failed' \subseteq Items
      BY <1>5, DoubtedIn DEF CrashInWrite, FlagTypes
    <2> QED
      BY <1>4, <1>5, <2>1 DEF CrashInWrite
  <1>6. CASE Changes(Items \cup Foreign)
    <2>1. CASE \E v \in Items \cup Foreign : \E given \in Offered[v] :
                 \E class \in {3, 5}, vetoed \in BOOLEAN, outcome \in Outcomes :
                    cfSetVar(class, v, given, vetoed, outcome)
      BY <1>2, <1>3, <2>1 DEF cfSetVar
    <2>2. CASE \E given \in Offered["hub_topic"] :
                 \E class \in {3, 5}, vetoed \in BOOLEAN, outcome \in Outcomes :
                    CmdTopic(class, 3, given, vetoed, outcome)
      <3>1. "hub_topic" \in Items
        BY SettingsAssumption
      <3> QED
        BY <1>2, <2>2, <3>1 DEF CmdTopic
    <2>3. CASE \E v \in Items : CrashInWrite(v)
      BY <1>5, <2>3
    <2> QED
      BY <1>6, <2>1, <2>2, <2>3 DEF Changes
  <1>7. ASSUME ReloadConfig(TRUE) PROVE FlagTypes' /\ LimitTypes'
    <2>1. FlagTypes' /\ stored' = stored
      BY <1>7 DEF ReloadConfig, robots, FlagTypes
    <2>2. conf'["max_users"] \in {conf["max_users"], Read("max_users", stored["max_users"])}
          /\ (stored["max_users"] = Absent => conf'["max_users"] = conf["max_users"])
      BY <1>0, <1>7 DEF ReloadConfig, AsLoaded
    <2>3. stored["max_users"] # Absent => Read("max_users", stored["max_users"]) \in 0 .. 2 ^ Width - 1
      BY UnsignedIs DEF LimitTypes, Read, Kept2, Special
    <2> QED
      BY <2>1, <2>2, <2>3 DEF LimitTypes
  <1>8. CASE Crash
    <2>1. HubEnds /\ stored' = stored /\ unsaved2' = unsaved2 /\ failed' = failed
      BY <1>8 DEF Crash
    <2>2. failed' \subseteq Items
      BY <2>1 DEF FlagTypes
    <2> QED
      BY <1>4, <2>1, <2>2
  <1>9. ASSUME NEW insertsWork \in BOOLEAN, Start(insertsWork) PROVE FlagTypes' /\ LimitTypes'
    <2> DEFINE table == IF insertsWork THEN Filled ELSE stored
               read == AsLoaded(conf, table)
    <2>1. /\ running' = TRUE /\ pushedOut' = pushedOut /\ failed' = failed \ Special
          /\ unsaved2' = {v \in Items : stored'[v] = Absent}
          /\ \E x : conf' = [read EXCEPT !["opchat_name"] = x]
          /\ stored' = table \/ \E x : stored' = [table EXCEPT !["opchat_name"] = x]
      BY <1>9 DEF Start
    <2>2. FlagTypes'
      BY <2>1 DEF FlagTypes
    <2>3. /\ DOMAIN table = Items \cup Foreign /\ table["max_users"] \in {stored["max_users"], DefaultOf["max_users"]}
          /\ DefaultOf["max_users"] \in 0 .. 2 ^ Width - 1
      BY <1>0, SettingsAssumption DEF Filled
    <2>4. table["max_users"] \in Int \cup {Absent}
      BY <2>3, LimitRange DEF LimitTypes
    <2> HIDE DEF table
    <2>5. stored'["max_users"] = table["max_users"]
      BY <1>0, <2>1, <2>3
    <2>6. DOMAIN read = Items /\ read["max_users"] = IF table["max_users"] = Absent THEN conf["max_users"]
                                                     ELSE Read("max_users", table["max_users"])
      BY <1>0 DEF AsLoaded
    <2>7. table["max_users"] # Absent => Read("max_users", table["max_users"]) \in 0 .. 2 ^ Width - 1
      BY <2>4, UnsignedIs DEF Read, Kept2, Special
    <2>8. read["max_users"] \in 0 .. 2 ^ Width - 1
      BY <2>6, <2>7 DEF LimitTypes
    <2> HIDE DEF read
    <2>9. conf'["max_users"] = read["max_users"]
      BY <2>1, <2>6
    <2> QED
      BY <2>2, <2>4, <2>5, <2>8, <2>9 DEF LimitTypes
  <1>10. ASSUME NEW n \in Nicks2, UserComes(n) \/ UserGoes(n) PROVE FlagTypes' /\ LimitTypes'
    BY <1>10 DEF UserComes, UserGoes, FlagTypes, LimitTypes
  <1>11. CASE OtherChanges
    <2>1. \A queryWorks \in BOOLEAN : ReloadConfig(queryWorks) => ReloadConfig(TRUE)
      BY DEF ReloadConfig
    <2> QED
      BY <1>7, <1>8, <1>9, <1>11, <2>1 DEF OtherChanges
  <1> QED
    BY <1>1, <1>6, <1>10, <1>11 DEF SettingsNext, UserMoves

LEMMA TablesTypesGive == TablesInv => TablesTypeOK
  <1> SUFFICES ASSUME TablesInv PROVE TablesTypeOK
    OBVIOUS
  <1>0. TableTypes /\ KeysPrimary /\ KindTypes
    BY DEF TablesInv, StoreInv
  <1>1. ASSUME NEW x \in KeptItems PROVE Row(x) \in Items2 /\ x.since \in 0 .. LongAgo
    <2>1. Row(x) = Item(x.key, x.val, x.on, x.low, x.every, x.only)
      BY DEF Row, Item, KeptItems
    <2>2. /\ x.key \in Keys /\ x.val \in Values /\ x.on \in BOOLEAN /\ x.low \in Lows
          /\ x.every \in Periods2 /\ x.only \in Terms /\ x.since \in 0 .. LongAgo
      BY DEF KeptItems
    <2>3. Item(x.key, x.val, x.on, x.low, x.every, x.only) \in Items2
      BY <2>2 DEF Items2
    <2> QED
      BY <2>1, <2>2, <2>3
  <1>2. \A i \in DOMAIN mem : mem[i] \in KeptItems
    BY <1>0 DEF TableTypes
  <1>3. \A i \in DOMAIN mem : [mem[i] EXCEPT !.since = LongAgo] \in Items2 /\ mem[i].since \in 0 .. LongAgo
    BY <1>1, <1>2 DEF Row
  <1>4. ASSUME NEW k \in Keys, rows[k] # {}
        PROVE  \E item \in Items2 : item.key = k /\ rows[k] = {item}
    <2>1. PICK r \in rows[k] : r.key = k /\ r.since = LongAgo
      BY <1>0, <1>4 DEF KeysPrimary
    <2>2. r \in KeptItems /\ rows[k] = {r}
      BY <1>0, <2>1 DEF TableTypes, KeysPrimary
    <2>3. r = Row(r)
      BY <2>1, <2>2, RowIs
    <2>4. r \in Items2
      BY <1>1, <2>2, <2>3
    <2> QED
      BY <2>1, <2>2, <2>4
  <1> QED
    BY <1>0, <1>3, <1>4 DEF TablesTypeOK, TableTypes, KindTypes

-----------------------------------------------------------------------------
(* The components together *)

\* What moves is one component, and the others are as they were.
LEMMA OneMoves ==
    ASSUME [ModerationNext]_moderationVars
    PROVE  /\ [TablesNext]_tablesVars /\ [ListsNext]_listsVars
  <1>1. CASE UNCHANGED moderationVars
    BY <1>1 DEF moderationVars
  <1>2. CASE RunsTables /\ TablesNext
    BY <1>2 DEF RunsTables, OtherVars
  <1>3. CASE \/ RunsPlugin("isp") /\ IspSteps
             \/ RunsPlugin("words") /\ WordSteps
             \/ RunsPlugin("plugs") /\ PlugSteps
    <2>1. ListsNext /\ UNCHANGED tablesVars
      BY <1>3 DEF RunsPlugin, HubVars, ListsNext
    <2> QED
      BY <2>1
  <1>4. CASE \/ RunsConsole("ranks") /\ RankSteps
             \/ RunsConsole("talk") /\ TalkSteps
             \/ RunsConsole("look") /\ LookSteps
    <2>1. UNCHANGED <<tablesVars, listsVars>>
      BY <1>4 DEF RunsConsole, HubVars
    <2> QED
      BY <2>1
  <1>5. CASE RunsRights /\ RightsNext
    BY <1>5 DEF RunsRights, OtherVars
  <1>6. CASE RunsBans /\ BansNext
    BY <1>6 DEF RunsBans, OtherVars
  <1>7. CASE RunsSettings /\ (Changes(runs) \/ OtherChanges \/ UserMoves)
    <2>1. UNCHANGED <<tablesVars, listsVars>>
      BY <1>7 DEF RunsSettings, OtherVars
    <2> QED
      BY <2>1
  <1> QED
    BY <1>1, <1>2, <1>3, <1>4, <1>5, <1>6, <1>7 DEF ModerationNext

\* What the hub and the bundled plugins have of their tables in memory is what
\* the tables have, whatever moves, for any keys, rows, words and addresses
\* (tmysqlmemorylist.h, cisps.cpp, cplugs.cpp).
THEOREM CopiesRightAlways == ModerationSpec => []CopiesRight
  <1>1. ModerationInit => TablesInv /\ ListsInv
    BY TablesInvInit, ListsInvInit DEF ModerationInit
  <1>2. TablesInv /\ ListsInv /\ [ModerationNext]_moderationVars => (TablesInv /\ ListsInv)'
    BY OneMoves, TablesInvStep, ListsInvNext
  <1>3. TablesInv /\ ListsInv => CopiesRight
    BY TablesInvRight, ListsInvRight DEF CopiesRight
  <1> QED
    BY <1>1, <1>2, <1>3, PTL DEF ModerationSpec

-----------------------------------------------------------------------------
(* The components together: their types *)

ModerationInv ==
    /\ RightsInv /\ BansInv /\ TablesInv /\ ListsInv
    /\ SettingsInv /\ FlagTypes /\ LimitTypes /\ ConsoleTypes

\* What is done to the variables that are set together is done to variables.
LEMMA ChangesAny == ASSUME NEW vs, Changes(vs) PROVE Changes(Items \cup Foreign)
  <1>1. CASE \E v \in vs : \E given \in Offered[v] :
               \E class \in {3, 5}, vetoed \in BOOLEAN, outcome \in Outcomes :
                  cfSetVar(class, v, given, vetoed, outcome)
    <2>1. PICK v \in vs : \E given \in Offered[v] :
               \E class \in {3, 5}, vetoed \in BOOLEAN, outcome \in Outcomes :
                  cfSetVar(class, v, given, vetoed, outcome)
      BY <1>1
    <2>2. v \in Items \cup Foreign
      BY <2>1 DEF cfSetVar
    <2> QED
      BY <2>1, <2>2 DEF Changes
  <1>2. CASE \E v \in vs : \E given \in Offered[v] :
               \E class \in {3, 5}, vetoed \in BOOLEAN, outcome \in Outcomes :
                  v = "hub_topic" /\ CmdTopic(class, 3, given, vetoed, outcome)
    <2>1. "hub_topic" \in Items \cup Foreign
      BY SettingsAssumption
    <2> QED
      BY <1>2, <2>1 DEF Changes
  <1>3. CASE \E v \in vs \cap Items : CrashInWrite(v)
    BY <1>3 DEF Changes
  <1> QED
    BY <1>1, <1>2, <1>3 DEF Changes

\* What moves is one component, and the others are as they were.
LEMMA EachMoves ==
    ASSUME [ModerationNext]_moderationVars
    PROVE  /\ [RightsNext]_rightsVars /\ [BansNext]_bansVars /\ [SettingsNext]_settingsVars
           /\ [RankSteps \/ TalkSteps \/ LookSteps]_consoleVars
  <1>1. CASE UNCHANGED moderationVars
    BY <1>1 DEF moderationVars
  <1>2. CASE RunsTables /\ TablesNext
    BY <1>2 DEF RunsTables, OtherVars
  <1>3. CASE \/ RunsPlugin("isp") /\ IspSteps
             \/ RunsPlugin("words") /\ WordSteps
             \/ RunsPlugin("plugs") /\ PlugSteps
    <2>1. UNCHANGED <<rightsVars, bansVars, settingsVars, consoleVars>>
      BY <1>3 DEF RunsPlugin, HubVars
    <2> QED
      BY <2>1
  <1>4. CASE \/ RunsConsole("ranks") /\ RankSteps
             \/ RunsConsole("talk") /\ TalkSteps
             \/ RunsConsole("look") /\ LookSteps
    <2>1. UNCHANGED <<rightsVars, bansVars, settingsVars>> /\ (RankSteps \/ TalkSteps \/ LookSteps)
      BY <1>4 DEF RunsConsole, HubVars
    <2> QED
      BY <2>1
  <1>5. CASE RunsRights /\ RightsNext
    BY <1>5 DEF RunsRights, OtherVars
  <1>6. CASE RunsBans /\ BansNext
    BY <1>6 DEF RunsBans, OtherVars
  <1>7. CASE RunsSettings /\ (Changes(runs) \/ OtherChanges \/ UserMoves)
    <2>1. UNCHANGED <<rightsVars, bansVars, consoleVars>>
      BY <1>7 DEF RunsSettings, OtherVars
    <2>2. SettingsNext
      BY <1>7, ChangesAny DEF SettingsNext
    <2> QED
      BY <2>1, <2>2
  <1> QED
    BY <1>1, <1>2, <1>3, <1>4, <1>5, <1>6, <1>7 DEF ModerationNext

LEMMA ConsoleStepsTyped ==
    ASSUME ConsoleTypes, [RankSteps \/ TalkSteps \/ LookSteps]_consoleVars
    PROVE  ConsoleTypes'
  <1>1. CASE RankSteps
    BY <1>1, RankStepsTyped, RankStepsShow DEF ConsoleTypes
  <1> QED
    BY <1>1, TalkStepsTyped, LookStepsTyped, StillConsole

\* Rights, bans, the configuration, the tables in memory and the console keep
\* to their types, whichever of them moves.
THEOREM ModerationTypesAlways == ModerationSpec => []ModerationTypeOK
  <1>1. ModerationInit => ModerationInv
    BY RightsInvInit, BansInvInit, TablesInvInit, ListsInvInit, SettingsInvInit, SettingsTypesInit,
       ConsoleTypesInit DEF ModerationInit, ModerationInv
  <1>2. ModerationInv /\ [ModerationNext]_moderationVars => ModerationInv'
    <2> SUFFICES ASSUME ModerationInv, [ModerationNext]_moderationVars PROVE ModerationInv'
      OBVIOUS
    <2>1. RightsInv' /\ BansInv'
      BY EachMoves, RightsInvNext, BansInvNext DEF ModerationInv
    <2>2. TablesInv' /\ ListsInv'
      BY OneMoves, TablesInvStep, ListsInvNext DEF ModerationInv
    <2>3. SettingsInv' /\ FlagTypes' /\ LimitTypes'
      BY EachMoves, SettingsInvNext, SettingsStepsTyped DEF ModerationInv
    <2>4. ConsoleTypes'
      BY EachMoves, ConsoleStepsTyped DEF ModerationInv
    <2> QED
      BY <2>1, <2>2, <2>3, <2>4 DEF ModerationInv
  <1>3. ModerationInv => ModerationTypeOK
    BY SettingsTypesGive, TablesTypesGive, ListsInvRight, ConsoleTypesGive
    DEF ModerationInv, ModerationTypeOK, RightsInv, BansInv
  <1> QED
    BY <1>1, <1>2, <1>3, PTL DEF ModerationSpec
=============================================================================
