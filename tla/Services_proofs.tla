-------------------------- MODULE Services_proofs --------------------------
(***************************************************************************)
(* What is proved of the hub's services, for every value of their          *)
(* constants.  Of cWorkerThread (module WorkerThread): the order of its    *)
(* reads and writes keeps the worker and the hub thread from using or      *)
(* freeing each other's memory, and the pointer mWork with its flags is a  *)
(* place for one piece of work (module OneSlot).  Of what is done by the   *)
(* clock (Upkeep): what operators are told is true.  Of the scripts        *)
(* (Scripts): the robots of the hub and of the plugins agree.  Of plugins  *)
(* that follow users (PluginUsers): what they keep of them is true.  Of    *)
(* the user list (Roster): the hash table and what is made of it.  At the  *)
(* end the services together (MCServices): the composition implements each *)
(* of them, so that all of this holds of it, and the types do.             *)
(***************************************************************************)
EXTENDS MCServices, Sums_proofs, FiniteSetTheorems, TLAPS

\* the object has not begun to be stopped
Whole  == {"idle", "look", "put", "start", "refuse", "stop"}
InLoop == {"test", "ask", "do", "free", "clear"}

-----------------------------------------------------------------------------
(* The invariant that is inductive *)

\* what has been accepted and not yet deleted is what the slot points to,
\* and how far it has come goes with the place the worker is at
SlotHeld ==
    /\ \A w \in Works : work[w] \in {"taken", "done"} => mWork = w
    /\ mWork # NoWork => /\ work[mWork] \in {"taken", "done", "gone"}
                         /\ work[mWork] = "done" <=> thread = "free"
                         /\ work[mWork] = "gone" <=> thread = "clear"

\* what AddWork is offering is still its own, and what it has seen of the
\* slot stays so until it writes: the worker only ever empties it
OfferHeld ==
    /\ hub \in {"look", "put"} => cur \in Works /\ work[cur] = "new"
    /\ hub = "refuse" => cur \in Works /\ work[cur] = "refused"
    /\ hub = "put" => mWork = NoWork

\* mRun says that the thread is in its loop, mStop = 0 that it is wanted,
\* until the destructor begins; from then on nothing is left running, but
\* for the thread that was born and had not yet set mRun
ThreadHeld ==
    /\ hub \in Whole => /\ thread \in {"none", "born"} \cup InLoop
                        /\ mRun <=> thread \in InLoop
                        /\ thread # "none" => ~mStop
                        /\ thread \in {"free", "clear"} => mWork # NoWork
                        /\ ~early
    /\ hub \in {"clean", "last", "rejoin", "gone"} /\ ~early
           => thread \in {"none", "ended"}
    /\ hub \in {"last", "rejoin", "gone"} => mWork = NoWork

WorkerInv == WorkerTypeOK /\ SlotHeld /\ OfferHeld /\ ThreadHeld /\ NoWildUse

-----------------------------------------------------------------------------
\* Every field of the state the constructor leaves is within WorkerInv.
LEMMA WorkerInvInit == WorkerInit => WorkerInv
  BY WorkerAssumption
  DEF WorkerInit, WorkerInv, WorkerTypeOK, SlotHeld, OfferHeld, ThreadHeld, NoWildUse,
      HubPlaces, ThreadPlaces, Whole, InLoop

\* A step of the hub thread, in AddWork or in a destructor, keeps WorkerInv.
LEMMA WorkerInvHub ==
    ASSUME WorkerInv, (\E w \in Works : Offer(w)) \/ Destroy \/ HubStep
    PROVE  WorkerInv'
  <1> USE WorkerAssumption
      DEF WorkerInv, WorkerTypeOK, SlotHeld, OfferHeld, ThreadHeld, NoWildUse,
          HubPlaces, ThreadPlaces, Whole, InLoop
  <1>1. CASE \E w \in Works : Offer(w)
    BY <1>1 DEF Offer
  <1>2. CASE Destroy      BY <1>2 DEF Destroy
  <1>3. CASE Look         BY <1>3 DEF Look
  <1>4. CASE Put          BY <1>4 DEF Put
  <1>5. CASE StartThread  BY <1>5 DEF StartThread
  <1>6. CASE GiveBack     BY <1>6 DEF GiveBack
  <1>7. CASE Stop         BY <1>7 DEF Stop
  <1>8. CASE Join         BY <1>8 DEF Join
  <1>9. CASE Clean        BY <1>9 DEF Clean
  <1>10. CASE LastStop    BY <1>10 DEF LastStop
  <1>11. CASE Rejoin      BY <1>11 DEF Rejoin
  <1> QED
    BY <1>1, <1>2, <1>3, <1>4, <1>5, <1>6, <1>7, <1>8, <1>9, <1>10, <1>11 DEF HubStep

\* A step of the worker keeps WorkerInv, wherever the hub thread is.
LEMMA WorkerInvThread ==
    ASSUME WorkerInv, ThreadStep
    PROVE  WorkerInv'
  <1> USE WorkerAssumption
      DEF WorkerInv, WorkerTypeOK, SlotHeld, OfferHeld, ThreadHeld, NoWildUse,
          HubPlaces, ThreadPlaces, Whole, InLoop, Moves, Astray, hubSide
  <1>1. CASE EnterLoop  BY <1>1 DEF EnterLoop
  <1>2. CASE TestStop   BY <1>2 DEF TestStop
  <1>3. CASE Ask        BY <1>3 DEF Ask
  <1>4. CASE Do         BY <1>4 DEF Do
  <1>5. CASE FreeWork   BY <1>5 DEF FreeWork
  <1>6. CASE Clear      BY <1>6 DEF Clear
  <1>7. CASE End        BY <1>7 DEF End
  <1>8. CASE \E p \in ThreadPlaces \ {"none", "ended"} : Lost(p)
    BY <1>8 DEF Lost
  <1> QED
    BY <1>1, <1>2, <1>3, <1>4, <1>5, <1>6, <1>7, <1>8 DEF ThreadStep

LEMMA WorkerInvNext == WorkerInv /\ [WorkerNext]_workerVars => WorkerInv'
  <1> SUFFICES ASSUME WorkerInv, [WorkerNext]_workerVars PROVE WorkerInv'
    OBVIOUS
  <1>1. CASE UNCHANGED workerVars
    BY <1>1 DEF workerVars, WorkerInv, WorkerTypeOK, SlotHeld, OfferHeld, ThreadHeld, NoWildUse
  <1> QED
    BY <1>1, WorkerInvHub, WorkerInvThread DEF WorkerNext

\* WorkerInv holds of every reachable state.
THEOREM WorkerInvariant == WorkerSpec => []WorkerInv
  BY WorkerInvInit, WorkerInvNext, PTL DEF WorkerSpec

\* The fields of the worker thread and of its works stay within their types.
THEOREM WorkerTypes == WorkerSpec => []WorkerTypeOK
  BY WorkerInvariant, PTL DEF WorkerInv

\* No work is used or deleted once it is deleted and none done twice, and the
\* thread does not outlive its object, unless the destructor came between
\* pthread_create and the thread's setting mRun (cworkerthread.cpp, cthread.cpp).
THEOREM NoWildUseHolds == WorkerSpec => []NoWildUse
  BY WorkerInvariant, PTL DEF WorkerInv

-----------------------------------------------------------------------------
(* The slot is OneSlot: what each step of the code is, seen from there *)

\* Offer, Start and the steps that only move one of the threads leave
\* every work where it was.
LEMMA SlotUnmoved ==
    ASSUME WorkerInv, UNCHANGED <<work, mWork>>
    PROVE  UNCHANGED SlotStatus
  BY DEF SlotStatus

LEMMA SlotMoves ==
    ASSUME WorkerInv, WorkerNext
    PROVE  Slot!SlotNext \/ UNCHANGED SlotStatus
  <1> USE WorkerAssumption
      DEF WorkerInv, WorkerTypeOK, SlotHeld, OfferHeld, ThreadHeld, Whole, InLoop,
          SlotStatus, Slot!SlotNext, Slot!Busy, Slot!Move, Moves, hubSide
  \* AddWork finds the slot taken
  <1>1. CASE Look
    <2>1. CASE mWork = NoWork
      BY <1>1, <2>1 DEF Look
    <2>2. CASE mWork # NoWork
      <3>1. cur \in Works /\ work[cur] = "new" /\ work' = [work EXCEPT ![cur] = "refused"]
            /\ mWork' = mWork
        BY <1>1, <2>2 DEF Look
      <3>2. Slot!Busy
        BY <2>2 
      <3>3. SlotStatus[cur] = "new" /\ SlotStatus' = [SlotStatus EXCEPT ![cur] = "refused"]
        BY <3>1
      <3> QED
        BY <3>1, <3>2, <3>3 DEF Slot!TurnAway
    <2> QED
      BY <2>1, <2>2
  \* it writes the pointer
  <1>2. CASE Put
    BY <1>2 DEF Put, Slot!TakeOver
  \* its caller deletes what was not accepted
  <1>3. CASE GiveBack
    BY <1>3 DEF GiveBack, Slot!Discard
  \* the destructor deletes what is in the slot, done or not
  <1>4. CASE Clean
    BY <1>4 DEF Clean, Slot!Release, Slot!Abandon
  <1>5. CASE Do
    BY <1>5 DEF Do, Slot!Perform
  \* deleted, and still pointed to
  <1>6. CASE FreeWork
    BY <1>6 DEF FreeWork
  <1>7. CASE Clear
    BY <1>7 DEF Clear, Slot!Release
  <1>8. CASE UNCHANGED <<work, mWork>>
    BY <1>8, SlotUnmoved
  <1> QED
    BY <1>1, <1>2, <1>3, <1>4, <1>5, <1>6, <1>7, <1>8
    DEF WorkerNext, HubStep, ThreadStep, Offer, Destroy, StartThread, Stop, Join,
        LastStop, Rejoin, EnterLoop, TestStop, Ask, End, Lost

\* The pointer mWork with its flags is a place for one piece of work: what is
\* accepted is done once and only then is the place free, what is refused
\* stays with the one who offered it (cworkerthread.cpp).
THEOREM SlotRefined == WorkerSpec => IsOneSlot
  <1>1. WorkerInit => Slot!SlotInit
    BY WorkerAssumption DEF WorkerInit, Slot!SlotInit, SlotStatus
  <1>2. WorkerInv /\ [WorkerNext]_workerVars => [Slot!SlotNext]_SlotStatus
    <2>1. CASE UNCHANGED workerVars
      BY <2>1 DEF workerVars, SlotStatus
    <2> QED
      BY <2>1, SlotMoves
  <1> QED
    BY <1>1, <1>2, WorkerInvariant, PTL DEF WorkerSpec, IsOneSlot, Slot!SlotSpec


-----------------------------------------------------------------------------
(* Upkeep *)

WatchTypes ==
    /\ fresh \in Nat /\ total \in Nat /\ fresh <= total
    /\ attack \in BOOLEAN
    /\ found \in [Referers -> {"no", "new", "told"}]
ReloadTypes ==
    /\ hup \in BOOLEAN /\ reading \in BOOLEAN /\ edited \in BOOLEAN
    /\ wanted \in BOOLEAN /\ missed \in BOOLEAN
OwedTypes ==
    /\ errand \in [Kinds2 -> Askers \cup {NoAsker, None}]
    /\ sought \in [Kinds2 -> {Unseen} \cup Nat]
    /\ session \in [Askers -> Nat] /\ came \in [Askers -> Nat]
    /\ owed \in SUBSET (Askers \X (Nat \ {0}) \X Kinds2)

\* A signal that comes while the lists are read is not served by that
\* reading: the flag it sets is reset at the end.
ReadMisses == reading /\ wanted => missed

\* the two parts of the state no step of the other touches
AttackRight ==
    /\ attack => total > Storm
    /\ attack /\ fresh = 0 => \A r \in Referers : found[r] # "new"
ReloadRight == (wanted => hup \/ missed) /\ ReadMisses
OwedRight ==
    \A o \in owed : /\ errand[o[3]] = o[1] /\ session[o[1]] = o[2]
                    /\ sought[o[3]] \in {Unseen, o[2]}

\* The thread looks for nobody before it has work.
Unsought == \A k \in Kinds2 : errand[k] = None => sought[k] = Unseen

WatchInv == WatchTypes /\ AttackRight
ReloadInv == ReloadTypes /\ ReloadRight
OwedInv == OwedTypes /\ OwedRight /\ Unsought
UpkeepInv == WatchInv /\ ReloadInv /\ OwedInv

LEMMA UpkeepInvInit == UpkeepInit => UpkeepInv
  <1> SUFFICES ASSUME UpkeepInit PROVE UpkeepInv
    OBVIOUS
  <1>1. fresh \in Nat /\ total \in Nat /\ fresh <= total /\ attack = FALSE
    BY DEF UpkeepInit
  <1>c. attack \in BOOLEAN
    BY <1>1, Zenon
  <1>a. found \in [Referers -> {"no", "new", "told"}]
    BY DEF UpkeepInit
  <1>b. AttackRight
    BY <1>1 DEF AttackRight
  <1>2. /\ hup \in BOOLEAN /\ reading \in BOOLEAN /\ edited \in BOOLEAN
        /\ wanted \in BOOLEAN /\ missed \in BOOLEAN /\ ReloadRight
    BY DEF UpkeepInit, ReloadRight, ReadMisses
  <1>3. errand \in [Kinds2 -> Askers \cup {NoAsker, None}]
    BY DEF UpkeepInit
  <1>4. session \in [Askers -> Nat] /\ came \in [Askers -> Nat]
    BY DEF UpkeepInit
  <1>5. owed \in SUBSET (Askers \X (Nat \ {0}) \X Kinds2) /\ OwedRight
    BY DEF UpkeepInit, OwedRight
  <1>6. sought \in [Kinds2 -> {Unseen} \cup Nat] /\ Unsought
    BY DEF UpkeepInit, Unsought
  <1> QED
    BY <1>1, <1>a, <1>b, <1>c, <1>2, <1>3, <1>4, <1>5, <1>6
    DEF UpkeepInv, WatchInv, WatchTypes, ReloadInv, ReloadTypes, OwedInv, OwedTypes

\* A connection from another hub, and the minute's report.
LEMMA WatchKept ==
    ASSUME WatchInv,
           (\E ref \in Referers \cup {NoRef} : CtmToHubAddItem(ref)) \/ WatchCtm
    PROVE  WatchInv'
  <1>0. Storm \in Nat
    BY UpkeepAssumption
  <1> USE DEF WatchInv
  <1>1. ASSUME NEW ref \in Referers \cup {NoRef}, CtmToHubAddItem(ref)
        PROVE  WatchInv'
    <2>1. /\ total' = total + 1 /\ fresh' = fresh + 1
          /\ attack' = (attack \/ fresh' > Storm)
      BY <1>1 DEF CtmToHubAddItem
    <2>2. found' \in [Referers -> {"no", "new", "told"}]
      BY <1>1 DEF CtmToHubAddItem, WatchTypes
    <2>3. attack' \in BOOLEAN /\ fresh' # 0
      BY <2>1 DEF WatchTypes
    <2>4. attack' => total' > Storm
      BY <1>0, <2>1 DEF WatchTypes, AttackRight
    <2>5. WatchTypes'
      BY <2>1, <2>2, <2>3 DEF WatchTypes
    <2> QED
      BY <2>3, <2>4, <2>5 DEF AttackRight
  <1>2. CASE WatchCtm
    <2>1. CASE Gathered /\ Alert
      BY <1>0, <2>1 DEF Gathered, ToldAll, WatchTypes, AttackRight
    <2>2. CASE Cleared /\ ~Alert
      <3>1. /\ attack' = FALSE /\ found' = [r \in Referers |-> "no"] /\ total' = 0
            /\ fresh' = fresh
        BY <2>2 DEF Cleared, AttackOver
      <3>2. fresh = 0
        BY <2>2 DEF Alert, WatchTypes
      <3>3. found' \in [Referers -> {"no", "new", "told"}]
        BY <3>1
      <3>4. AttackRight'
        BY <3>1 DEF AttackRight
      <3>5. attack' \in BOOLEAN
        BY <3>1, Zenon
      <3>6. fresh' \in Nat /\ total' \in Nat /\ fresh' <= total'
        BY <3>1, <3>2
      <3>7. WatchTypes'
        BY <3>3, <3>5, <3>6 DEF WatchTypes
      <3> QED
        BY <3>4, <3>7
    <2>3. CASE UNCHANGED <<fresh, total, found, attack>>
      BY <2>3 DEF WatchTypes, AttackRight
    <2> QED
      BY <1>2, <2>1, <2>2, <2>3 DEF WatchCtm
  <1> QED
    BY <1>1, <1>2

\* A signal, and ReloadNow: what is wanted is asked for, or was missed.
LEMMA ReloadKept ==
    ASSUME ReloadInv, EditFiles \/ SyncReload \/ (hup /\ ReadLists) \/ EndReload
                      \/ UNCHANGED reloadVars
    PROVE  ReloadInv'
  <1> USE DEF ReloadInv, ReloadTypes, ReloadRight, ReadMisses
  <1>1. CASE EditFiles             BY <1>1 DEF EditFiles
  <1>2. CASE SyncReload            BY <1>2 DEF SyncReload
  <1>3. CASE hup /\ ReadLists      BY <1>3 DEF ReadLists
  <1>4. CASE EndReload             BY <1>4 DEF EndReload
  <1>5. CASE UNCHANGED reloadVars  BY <1>5 DEF reloadVars
  <1> QED
    BY <1>1, <1>2, <1>3, <1>4, <1>5

\* Who is owed an answer still has the nick and the session he asked from.
LEMMA OwedKept ==
    ASSUME OwedInv, ErrandSteps
    PROVE  OwedInv'
  <1>0. /\ errand \in [Kinds2 -> Askers \cup {NoAsker, None}]
        /\ session \in [Askers -> Nat] /\ came \in [Askers -> Nat]
        /\ owed \in SUBSET (Askers \X (Nat \ {0}) \X Kinds2)
        /\ sought \in [Kinds2 -> {Unseen} \cup Nat]
        /\ None \notin Askers /\ NoAsker \notin Askers
        /\ \A k \in Kinds2 : errand[k] = None => sought[k] = Unseen
    BY UpkeepAssumption DEF OwedInv, OwedTypes, Unsought
  <1>a. \A o \in owed : /\ o[1] \in Askers /\ o[2] \in Nat \ {0} /\ o[3] \in Kinds2
                        /\ errand[o[3]] = o[1] /\ session[o[1]] = o[2]
                        /\ sought[o[3]] \in {Unseen, o[2]}
    BY <1>0 DEF OwedInv, OwedRight
  <1>1. ASSUME NEW n \in Askers, Enters(n)
        PROVE  OwedInv'
    <2>1. /\ session' = [session EXCEPT ![n] = came[n] + 1] /\ came' = [came EXCEPT ![n] = @ + 1]
          /\ UNCHANGED <<errand, sought, owed>> /\ session[n] = 0
      BY <1>1 DEF Enters
    <2>2. \A o \in owed : o[1] # n
      BY <1>a, <2>1
    <2>3. OwedRight'
      BY <1>0, <1>a, <2>1, <2>2 DEF OwedRight
    <2>a. came[n] + 1 \in Nat
      <3>1. came[n] \in Nat
        BY <1>0, Zenon
      <3> QED
        BY <3>1
    <2>b. session' \in [Askers -> Nat]
      BY <1>0, <2>1, <2>a
    <2>c. came' \in [Askers -> Nat]
      BY <1>0, <2>1, <2>a
    <2>4. session' \in [Askers -> Nat] /\ came' \in [Askers -> Nat]
      BY <2>b, <2>c
    <2> QED
      BY <1>0, <2>1, <2>3, <2>4 DEF OwedInv, OwedTypes, Unsought
  <1>2. ASSUME NEW n \in Askers, Leaves(n)
        PROVE  OwedInv'
    <2>1. /\ session' = [session EXCEPT ![n] = 0] /\ UNCHANGED <<errand, sought, came>>
          /\ owed' = owed \ {o \in owed : o[1] = n}
      BY <1>2 DEF Leaves
    <2>2. \A o \in owed' : o \in owed /\ o[1] # n
      BY <2>1
    <2>3. OwedRight'
      BY <1>0, <1>a, <2>1, <2>2 DEF OwedRight
    <2>4. session' \in [Askers -> Nat]
      BY <1>0, <2>1
    <2>5. owed' \in SUBSET (Askers \X (Nat \ {0}) \X Kinds2)
      BY <1>0, <2>2
    <2> QED
      BY <1>0, <2>1, <2>3, <2>4, <2>5 DEF OwedInv, OwedTypes, Unsought
  <1>3. ASSUME NEW n \in Askers, NEW k \in Kinds2, Asked(k, n)
        PROVE  OwedInv'
    <2>1. /\ errand' = [errand EXCEPT ![k] = n] /\ session' = session /\ came' = came /\ sought' = sought
          /\ owed' = owed \cup {<<n, session[n], k>>} /\ errand[k] = None
          /\ session[n] \in Nat \ {0}
      BY <1>0, <1>3 DEF Asked, Accepts
    <2>2. \A o \in owed : o[3] # k
      BY <1>0, <1>a, <2>1
    <2>3. \A o \in owed : /\ errand'[o[3]] = o[1] /\ session'[o[1]] = o[2]
                          /\ sought'[o[3]] \in {Unseen, o[2]}
      BY <1>0, <1>a, <2>1, <2>2
    <2>4. errand'[k] = n /\ session'[n] = session[n] /\ sought'[k] = Unseen
      BY <1>0, <2>1
    <2>5. OwedRight'
      <3> DEFINE t == <<n, session[n], k>>
      <3>1. t[1] = n /\ t[2] = session[n] /\ t[3] = k
        OBVIOUS
      <3>2. owed' = owed \cup {t}
        BY <2>1
      <3> HIDE DEF t
      <3>3. errand'[t[3]] = t[1] /\ session'[t[1]] = t[2] /\ sought'[t[3]] = Unseen
        BY <2>4, <3>1
      <3> QED
        BY <2>3, <3>2, <3>3 DEF OwedRight
    <2>a. <<n, session[n], k>> \in Askers \X (Nat \ {0}) \X Kinds2
      BY <2>1
    <2>6. owed' \in SUBSET (Askers \X (Nat \ {0}) \X Kinds2)
      BY <1>0, <2>1, <2>a, Zenon
    <2>7. errand' \in [Kinds2 -> Askers \cup {NoAsker, None}]
      BY <1>0, <2>1
    <2> QED
      BY <1>0, <2>1, <2>5, <2>6, <2>7 DEF OwedInv, OwedTypes, Unsought
  <1>4. ASSUME NEW k \in Kinds2, ByTimer(k)
        PROVE  OwedInv'
    <2>1. errand' = [errand EXCEPT ![k] = NoAsker] /\ errand[k] = None
          /\ UNCHANGED <<sought, session, came, owed>>
      BY <1>4 DEF ByTimer, Accepts
    <2>2. \A o \in owed : o[3] # k
      BY <1>0, <1>a, <2>1
    <2>3. OwedRight'
      BY <1>0, <1>a, <2>1, <2>2 DEF OwedRight
    <2>4. errand' \in [Kinds2 -> Askers \cup {NoAsker, None}]
      BY <1>0, <2>1
    <2> QED
      BY <1>0, <2>1, <2>3, <2>4 DEF OwedInv, OwedTypes, Unsought
  <1>5. ASSUME NEW k \in Kinds2, SeekAsker(k)
        PROVE  OwedInv'
    <2> DEFINE seen == IF errand[k] = NoAsker THEN 0 ELSE session[errand[k]]
    <2>1. /\ sought' = [sought EXCEPT ![k] = seen] /\ errand[k] # None
          /\ UNCHANGED <<errand, session, came, owed>>
      BY <1>5 DEF SeekAsker
    <2>2. seen \in Nat
      BY <1>0, <2>1
    <2>3. \A o \in owed : o[3] = k => seen = o[2]
      BY <1>0, <1>a
    <2> HIDE DEF seen
    <2>4. OwedRight'
      BY <1>0, <1>a, <2>1, <2>3 DEF OwedRight
    <2>5. sought' \in [Kinds2 -> {Unseen} \cup Nat]
      BY <1>0, <2>1, <2>2
    <2> QED
      BY <1>0, <2>1, <2>4, <2>5 DEF OwedInv, OwedTypes, Unsought
  <1>6. ASSUME NEW k \in Kinds2, DoErrand(k)
        PROVE  OwedInv'
    <2> DEFINE t == <<errand[k], sought[k], k>>
    <2>1. /\ errand' = [errand EXCEPT ![k] = None] /\ UNCHANGED <<session, came>>
          /\ sought' = [sought EXCEPT ![k] = Unseen] /\ sought[k] # Unseen
          /\ owed' = owed \ {t}
      BY <1>6 DEF DoErrand
    <2>2. \A o \in owed : o[3] = k => o = t
      <3>1. \A o \in owed : o = <<o[1], o[2], o[3]>>
        BY <1>0
      <3> QED
        BY <1>a, <2>1, <3>1
    <2> HIDE DEF t
    <2>3. \A o \in owed' : o \in owed /\ o[3] # k
      BY <2>1, <2>2
    <2>4. OwedRight'
      BY <1>0, <1>a, <2>1, <2>3 DEF OwedRight
    <2>5. errand' \in [Kinds2 -> Askers \cup {NoAsker, None}]
      BY <1>0, <2>1
    <2>6. sought' \in [Kinds2 -> {Unseen} \cup Nat]
      BY <1>0, <2>1
    <2>7. owed' \in SUBSET (Askers \X (Nat \ {0}) \X Kinds2)
      BY <1>0, <2>3
    <2> QED
      BY <1>0, <2>1, <2>4, <2>5, <2>6, <2>7 DEF OwedInv, OwedTypes, Unsought
  <1> QED
    BY <1>1, <1>2, <1>3, <1>4, <1>5, <1>6 DEF ErrandSteps

\* What a step leaves alone keeps its part of the invariant.
LEMMA UpkeepUnmoved ==
    /\ WatchInv /\ UNCHANGED attackVars => WatchInv'
    /\ OwedInv /\ UNCHANGED errandVars => OwedInv'
  <1>1. WatchInv /\ UNCHANGED attackVars => WatchInv'
    BY DEF WatchInv, WatchTypes, AttackRight, attackVars
  <1>2. OwedInv /\ UNCHANGED errandVars => OwedInv'
    BY DEF OwedInv, OwedTypes, OwedRight, Unsought, errandVars
  <1> QED
    BY <1>1, <1>2

LEMMA UpkeepInvNext == UpkeepInv /\ [UpkeepNext]_upkeepVars => UpkeepInv'
  <1> SUFFICES ASSUME UpkeepInv, [UpkeepNext]_upkeepVars PROVE UpkeepInv'
    OBVIOUS
  <1> USE UpkeepUnmoved, ReloadKept DEF UpkeepInv
  <1>1. CASE UNCHANGED upkeepVars
    BY <1>1 DEF upkeepVars
  <1>2. CASE OrderSteps
    <2>1. UNCHANGED <<attackVars, errandVars>>
      BY <1>2 DEF OrderSteps, CmdQuit, Signalled, EditFiles, SyncReload
    <2>2. EditFiles \/ SyncReload \/ UNCHANGED reloadVars
      BY <1>2 DEF OrderSteps, CmdQuit, Signalled
    <2> QED
      BY <2>1, <2>2
  <1>3. CASE WatchSteps
    <2>1. UNCHANGED <<reloadVars, errandVars>>
      BY <1>3 DEF WatchSteps, CtmToHubAddItem, CmdUserLimit
    <2>2. CASE \E ref \in Referers \cup {NoRef} : CtmToHubAddItem(ref)
      BY <2>1, <2>2, WatchKept
    <2>3. CASE \E target \in Targets : CmdUserLimit(target)
      BY <2>1, <2>3 DEF CmdUserLimit
    <2> QED
      BY <1>3, <2>2, <2>3 DEF WatchSteps
  <1>4. CASE ErrandSteps
    <2>1. UNCHANGED <<attackVars, reloadVars>>
      BY <1>4 DEF ErrandSteps, Enters, Leaves, Asked, ByTimer, SeekAsker, DoErrand
    <2> QED
      BY <1>4, <2>1, OwedKept
  <1>5. CASE OnTimer
    <2>1. WatchCtm /\ UNCHANGED errandVars /\ ((hup /\ ReadLists) \/ UNCHANGED reloadVars)
      BY <1>5 DEF OnTimer
    <2> QED
      BY <2>1, WatchKept
  <1>6. CASE EndReload
    BY <1>6 DEF EndReload
  <1> QED
    BY <1>1, <1>2, <1>3, <1>4, <1>5, <1>6 DEF UpkeepNext, LoopStep

\* An attack said to go on has connections behind it and leaves no hub
\* unreported after its report; whoever was told to wait for the hublists or
\* the update gets the answer; and what a signal asked to be read is read,
\* unless it came while the lists were read (cserverdc.cpp: OnTimer,
\* CtmToHubAddItem, ReloadNow, RegisterInHublist).
THEOREM UpkeepStaysRight == UpkeepSpec => []UpkeepRight
  <1>1. UpkeepInv => UpkeepRight
    BY DEF UpkeepInv, WatchInv, ReloadInv, OwedInv, AttackRight, ReloadRight, OwedRight,
           UpkeepRight
  <1> QED
    BY <1>1, UpkeepInvInit, UpkeepInvNext, PTL DEF UpkeepSpec


-----------------------------------------------------------------------------
(* Scripts *)

\* The plugins are registered once each.
OrderInv == order \in Seq(Plugins) /\ IsInjective(order)

\* A pass that is under way is within the list of plugins, and in a script
\* only of a plugin it has come to; the list does not change meanwhile.
Passes == [hook : {"timer", "command"}, plug : Nat, next : Nat, left : Int, got : Nat]
PassInv ==
    /\ stack \in Seq(Passes) /\ mData \in Nat
    /\ \A i \in 1 .. Len(stack) : /\ stack[i].plug <= Len(order)
                                  /\ stack[i].next > 0 => stack[i].plug > 0
    /\ phase = "idle" => stack = <<>>

RobotTypes ==
    /\ robot \in [BotNicks -> Plugins \cup {Nobody, TheHub}]
    /\ held \in [Plugins -> [BotNicks -> {"no", "live", "gone"}]]
    /\ crossed \in BOOLEAN /\ dangling \in BOOLEAN

\* What RobotsHeld says, and that only a script which deletes robots that
\* are not its own takes the hub's robots from the hub.
HeldRight ==
    /\ \A n \in BotNicks, p \in Plugins :
           /\ (robot[n] = p) <=> (held[p][n] = "live")
           /\ p \notin ToSet(order) => held[p][n] = "no"
           /\ held[p][n] = "gone" => crossed
    /\ dangling => crossed
    /\ \A n \in ReservedNicks2 : robot[n] = TheHub \/ crossed

RobotInv == RobotTypes /\ HeldRight
ScriptsInv == OrderInv /\ PassInv /\ RobotInv

LEMMA ScriptsInvInit == ScriptsInit => ScriptsInv
  <1> SUFFICES ASSUME ScriptsInit PROVE ScriptsInv
    OBVIOUS
  <1>1. OrderInv
    BY DEF ScriptsInit, OrderInv, IsInjective
  <1>2. PassInv
    BY DEF ScriptsInit, PassInv
  <1>3. /\ robot = [n \in BotNicks |-> IF n \in ReservedNicks2 THEN TheHub ELSE Nobody]
        /\ held = [p \in Plugins |-> [n \in BotNicks |-> "no"]]
        /\ crossed = FALSE /\ dangling = FALSE
    BY DEF ScriptsInit
  <1>4. /\ robot \in [BotNicks -> Plugins \cup {Nobody, TheHub}]
        /\ held \in [Plugins -> [BotNicks -> {"no", "live", "gone"}]]
    BY <1>3
  <1>5. \A n \in BotNicks, p \in Plugins : held[p][n] = "no" /\ robot[n] # p
    BY <1>3, ScriptsAssumption
  <1>6. \A n \in ReservedNicks2 : robot[n] = TheHub
    BY <1>3 DEF BotNicks
  <1>7. crossed \in BOOLEAN /\ dangling \in BOOLEAN
    BY <1>3, Zenon
  <1>8. HeldRight
    BY <1>3, <1>5, <1>6 DEF HeldRight
  <1> QED
    BY <1>1, <1>2, <1>4, <1>7, <1>8 DEF ScriptsInv, RobotInv, RobotTypes

\* The plugin whose script runs is a registered one.
LEMMA CallerRegistered ==
    ASSUME OrderInv, PassInv, InScript
    PROVE  Caller \in Plugins /\ Caller \in ToSet(order)
  <1>1. stack # <<>> /\ Top.next > 0
    BY DEF InScript
  <1>2. Len(stack) \in 1 .. Len(stack) /\ Top = stack[Len(stack)] /\ Top \in Passes
    BY <1>1 DEF PassInv, Top, Last
  <1>3. Top.plug \in 1 .. Len(order)
    BY <1>1, <1>2 DEF PassInv, Passes
  <1> QED
    BY <1>3 DEF Caller, OrderInv, ToSet

\* A pass that goes on to the next script, or to the next plugin.
LEMMA PassGoesOn ==
    ASSUME NEW t \in Passes, NEW m \in Nat
    PROVE  /\ [t EXCEPT !.next = @ + 1, !.left = m] \in Passes
           /\ [t EXCEPT !.next = @ + 1, !.left = m].plug = t.plug
  <1> DEFINE u == [t EXCEPT !.next = t.next + 1]
  <1>1. t.next + 1 \in Nat
    BY DEF Passes
  <1>2. u \in Passes /\ u.plug = t.plug
    BY <1>1 DEF Passes
  <1>3. [t EXCEPT !.next = @ + 1, !.left = m] = [u EXCEPT !.left = m]
    OBVIOUS
  <1> HIDE DEF u
  <1>4. [u EXCEPT !.left = m] \in Passes /\ [u EXCEPT !.left = m].plug = u.plug
    BY <1>2 DEF Passes
  <1> QED
    BY <1>2, <1>3, <1>4

LEMMA PassComesTo ==
    ASSUME NEW t \in Passes, NEW m \in Nat
    PROVE  LET e == [t EXCEPT !.plug = @ + 1, !.next = 0, !.left = 0,
                              !.got = IF t.hook = "command" THEN m ELSE 0]
           IN e \in Passes /\ e.plug = t.plug + 1 /\ e.next = 0
  <1> DEFINE g == IF t.hook = "command" THEN m ELSE 0
  <1>1. t.plug + 1 \in Nat /\ g \in Nat
    BY DEF Passes
  <1> HIDE DEF g
  <1> DEFINE a == [t EXCEPT !.plug = t.plug + 1]
             b == [a EXCEPT !.next = 0]
             c == [b EXCEPT !.left = 0]
  <1>2. [t EXCEPT !.plug = @ + 1, !.next = 0, !.left = 0, !.got = g] = [c EXCEPT !.got = g]
    OBVIOUS
  <1>3. a \in Passes /\ a.plug = t.plug + 1
    BY <1>1 DEF Passes
  <1> HIDE DEF a
  <1>4. b \in Passes /\ b.plug = a.plug /\ b.next = 0
    BY <1>3 DEF Passes
  <1> HIDE DEF b
  <1>5. c \in Passes /\ c.plug = b.plug /\ c.next = 0
    BY <1>4 DEF Passes
  <1> HIDE DEF c
  <1>6. /\ [c EXCEPT !.got = g] \in Passes /\ [c EXCEPT !.got = g].plug = c.plug
        /\ [c EXCEPT !.got = g].next = 0
    BY <1>1, <1>5 DEF Passes
  <1> QED
    BY <1>2, <1>3, <1>4, <1>5, <1>6 DEF g

\* A call counts, and the pass stays where it is.
LEMMA CalledKept ==
    ASSUME PassInv, stack # <<>>
    PROVE  /\ Called \in Seq(Passes) /\ Len(Called) = Len(stack)
           /\ \A i \in 1 .. Len(stack) : /\ Called[i].plug = stack[i].plug
                                         /\ Called[i].next = stack[i].next
  <1>1. Len(stack) \in 1 .. Len(stack) /\ stack[Len(stack)] \in Passes
    BY DEF PassInv
  <1> DEFINE e == [Top EXCEPT !.left = @ - 1]
  <1>2. /\ e \in Passes
        /\ e.plug = stack[Len(stack)].plug /\ e.next = stack[Len(stack)].next
    BY <1>1 DEF Passes, Top, Last
  <1>3. Called = [stack EXCEPT ![Len(stack)] = e]
    BY DEF Called, OnTop
  <1> HIDE DEF e
  <1>4. stack \in Seq(Passes)
    BY DEF PassInv
  <1>5. Called \in Seq(Passes) /\ Len(Called) = Len(stack)
        /\ \A i \in 1 .. Len(stack) : Called[i] = IF i = Len(stack) THEN e ELSE stack[i]
    BY <1>1, <1>2, <1>3, <1>4
  <1> QED
    BY <1>2, <1>5

\* A pass ends or goes on, a command is given: PassInv.
LEMMA PassKept ==
    ASSUME OrderInv, PassInv, UNCHANGED order, StartTimer \/ PassStep \/ ScriptCall
    PROVE  PassInv'
  <1>0. /\ stack \in Seq(Passes) /\ mData \in Nat /\ order \in Seq(Plugins)
        /\ \A i \in 1 .. Len(stack) : /\ stack[i].plug <= Len(order)
                                      /\ stack[i].next > 0 => stack[i].plug > 0
        /\ order' = order /\ MaxCalls \in Nat
    BY ScriptsAssumption DEF PassInv, OrderInv
  <1>a. \A h \in {"timer", "command"} :
            /\ Pass(h) \in Passes /\ Pass(h).plug = 0 /\ Pass(h).next = 0
    BY DEF Pass, Passes
  <1>c. Pass("command") \in Passes /\ Pass("command").plug = 0 /\ Pass("command").next = 0
    BY <1>a
  <1>1. CASE stack' = stack /\ mData' = mData /\ phase' # "idle"
    BY <1>0, <1>1 DEF PassInv
  <1>2. ASSUME NEW h \in {"timer", "command"}, stack' = <<Pass(h)>>,
               mData' \in Nat, phase' # "idle"
        PROVE  PassInv'
    <2> DEFINE e == Pass(h)
    <2>1. e \in Passes /\ e.plug = 0 /\ e.next = 0 /\ stack' = <<e>>
      BY <1>a, <1>2
    <2> HIDE DEF e
    <2>2. stack' \in Seq(Passes) /\ Len(stack') = 1 /\ stack'[1] = e
      BY <2>1
    <2> QED
      BY <1>0, <1>2, <2>1, <2>2 DEF PassInv
  <1>3. ASSUME stack # <<>>, NEW e \in Passes, stack' = [stack EXCEPT ![Len(stack)] = e],
               e.plug <= Len(order), e.next > 0 => e.plug > 0,
               mData' = mData, phase' = phase
        PROVE  PassInv'
    <2>1. /\ stack' \in Seq(Passes) /\ Len(stack') = Len(stack)
          /\ \A i \in 1 .. Len(stack) : stack'[i] = IF i = Len(stack) THEN e ELSE stack[i]
      BY <1>0, <1>3
    <2>2. phase' # "idle"
      BY <1>3 DEF PassInv
    <2> QED
      BY <1>0, <1>3, <2>1, <2>2 DEF PassInv
  <1>d. stack # <<>> => Len(stack) \in 1 .. Len(stack) /\ stack[Len(stack)] \in Passes
                        /\ Top = stack[Len(stack)] /\ phase # "idle"
    BY <1>0 DEF Top, Last, PassInv
  <1>4. CASE StartTimer
    <2>1. CASE queue = 0
      BY <1>0, <1>2, <1>4, <2>1 DEF StartTimer
    <2>2. CASE queue # 0
      BY <1>1, <1>4, <2>2 DEF StartTimer
    <2> QED
      BY <2>1, <2>2
  <1>5. CASE NextItem
    BY <1>2, <1>5 DEF NextItem
  <1>6. CASE EndDrain
    BY <1>2, <1>6, <1>0 DEF EndDrain
  <1>7. CASE EndTimer
    BY <1>7, <1>0 DEF EndTimer, PassInv
  <1>8. CASE NextScript
    <2> DEFINE e == InNextScript
    <2>1. stack # <<>> /\ Top.plug > 0 /\ mData' = mData /\ phase' = phase
          /\ stack' = [stack EXCEPT ![Len(stack)] = e]
      BY <1>8 DEF NextScript, OnTop
    <2>3. e \in Passes /\ e.plug = stack[Len(stack)].plug
      BY <1>0, <1>d, <2>1, PassGoesOn DEF InNextScript
    <2> HIDE DEF e
    <2> QED
      BY <1>0, <1>3, <1>d, <2>1, <2>3
  <1>9. CASE NextPlugin
    <2> DEFINE e == InNextPlugin
    <2>1. stack # <<>> /\ Top.plug < Len(order) /\ mData' = mData /\ phase' = phase
          /\ stack' = [stack EXCEPT ![Len(stack)] = e]
      BY <1>9 DEF NextPlugin, OnTop
    <2>3. e \in Passes /\ e.plug = stack[Len(stack)].plug + 1 /\ e.next = 0
      BY <1>0, <1>d, <2>1, PassComesTo DEF InNextPlugin
    <2>4. e.plug <= Len(order)
      BY <1>0, <1>d, <2>1, <2>3 DEF Passes
    <2> HIDE DEF e
    <2>5. e.next > 0 => e.plug > 0
      BY <2>3
    <2> QED
      BY <1>3, <2>1, <2>3, <2>4, <2>5
  <1>10. CASE EndPass
    <2>1. stack # <<>> /\ stack' = Front(stack) /\ mData' = mData /\ phase' = phase
      BY <1>10 DEF EndPass
    <2>2. /\ stack' \in Seq(Passes) /\ Len(stack') = Len(stack) - 1
          /\ \A i \in 1 .. Len(stack) - 1 : stack'[i] = stack[i]
      <3>1. stack \in Seq(Passes) /\ Len(stack) # 0
        BY <1>0, <1>d, <2>1
      <3> QED
        BY <2>1, <3>1, FrontIs
    <2> QED
      BY <1>0, <1>d, <2>1, <2>2 DEF PassInv
  <1>e. ASSUME InScript, stack' = Called, mData' = mData, phase' = phase
        PROVE  PassInv'
    <2>1. stack # <<>>
      BY <1>e DEF InScript
    <2>2. /\ Called \in Seq(Passes) /\ Len(Called) = Len(stack)
          /\ \A i \in 1 .. Len(stack) : /\ Called[i].plug = stack[i].plug
                                        /\ Called[i].next = stack[i].next
      BY <2>1, CalledKept
    <2> QED
      BY <1>0, <1>d, <1>e, <2>1, <2>2 DEF PassInv
  <1>11. CASE QueueCommand
    BY <1>11, <1>e DEF QueueCommand
  <1>12. CASE ScriptCommandLua \/ ScriptCommandPy
    <2>1. /\ stack # <<>> /\ stack' = Append(Called, Pass("command"))
          /\ mData' = Len(stack) + 1 /\ phase' = phase
      BY <1>12 DEF ScriptCommandLua, ScriptCommandPy, InstantCommand, InScript
    <2>2. /\ Called \in Seq(Passes) /\ Len(Called) = Len(stack)
          /\ \A i \in 1 .. Len(stack) : /\ Called[i].plug = stack[i].plug
                                        /\ Called[i].next = stack[i].next
      BY <2>1, CalledKept
    <2>3. /\ stack' \in Seq(Passes) /\ Len(stack') = Len(stack) + 1
          /\ stack'[Len(stack) + 1] = Pass("command")
          /\ \A i \in 1 .. Len(stack) : stack'[i] = Called[i]
      BY <1>c, <2>1, <2>2
    <2> QED
      BY <1>0, <1>c, <1>d, <2>1, <2>2, <2>3 DEF PassInv
  <1>13. CASE \E n \in BotNicks : RegBot(n) \/ UnRegBot(n) \/ AddRobotPy(n) \/ DelRobotPy(n)
    BY <1>13, <1>e DEF RegBot, UnRegBot, AddRobotPy, DelRobotPy, NewRobot, DelRobot
  <1> QED
    BY <1>4, <1>5, <1>6, <1>7, <1>8, <1>9, <1>10, <1>11, <1>12, <1>13
    DEF PassStep, ScriptCall


\* A script adds a robot or removes one.
LEMMA RobotKept ==
    ASSUME OrderInv, PassInv, RobotInv, InScript, NEW n \in BotNicks, UNCHANGED order,
           (n \in PlainNicks /\ NewRobot(n)) \/ DelRobot(n)
    PROVE  RobotInv'
  <1> DEFINE c == Caller
  <1>0. /\ robot \in [BotNicks -> Plugins \cup {Nobody, TheHub}]
        /\ held \in [Plugins -> [BotNicks -> {"no", "live", "gone"}]]
        /\ crossed \in BOOLEAN /\ dangling \in BOOLEAN
    BY DEF RobotInv, RobotTypes
  <1>a. /\ \A m \in BotNicks, p \in Plugins :
               /\ (robot[m] = p) <=> (held[p][m] = "live")
               /\ p \notin ToSet(order) => held[p][m] = "no"
               /\ held[p][m] = "gone" => crossed
        /\ dangling => crossed
        /\ \A m \in ReservedNicks2 : robot[m] = TheHub \/ crossed
    BY DEF RobotInv, HeldRight
  <1>b. c \in Plugins /\ c \in ToSet(order)
    BY CallerRegistered
  <1>c. Nobody \notin Plugins /\ TheHub \notin Plugins /\ Nobody # TheHub
        /\ PlainNicks \cap ReservedNicks2 = {} /\ ReservedNicks2 \subseteq BotNicks
    BY ScriptsAssumption DEF Nobody, TheHub, BotNicks
  <1>1. CASE n \in PlainNicks /\ NewRobot(n)
    <2>1. /\ robot[n] = Nobody /\ crossed' = crossed /\ dangling' = dangling
          /\ robot' = IF held[c][n] = "no" THEN [robot EXCEPT ![n] = c] ELSE robot
          /\ held' = [held EXCEPT ![c][n] = IF @ = "no" THEN "live" ELSE @]
      BY <1>1 DEF NewRobot, Kept
    <2> HIDE DEF c
    <2>2. CASE held[c][n] = "no"
      <3>1. robot' = [robot EXCEPT ![n] = c] /\ held' = [held EXCEPT ![c][n] = "live"]
        BY <2>1, <2>2
      <3>2. /\ robot' \in [BotNicks -> Plugins \cup {Nobody, TheHub}]
            /\ held' \in [Plugins -> [BotNicks -> {"no", "live", "gone"}]]
        BY <1>0, <1>b, <3>1
      <3>3. /\ \A m \in BotNicks : robot'[m] = IF m = n THEN c ELSE robot[m]
            /\ \A m \in BotNicks, p \in Plugins :
                   held'[p][m] = IF p = c /\ m = n THEN "live" ELSE held[p][m]
        BY <1>0, <1>b, <3>1
      <3>4. ASSUME NEW m \in BotNicks, NEW p \in Plugins
            PROVE  /\ (robot'[m] = p) <=> (held'[p][m] = "live")
                   /\ p \notin ToSet(order) => held'[p][m] = "no"
                   /\ held'[p][m] = "gone" => crossed
        <4>1. CASE m = n
          BY <1>a, <1>b, <1>c, <2>1, <3>3, <4>1
        <4>2. CASE m # n
          BY <1>a, <3>3, <4>2
        <4> QED
          BY <4>1, <4>2
      <3>5. \A m \in ReservedNicks2 : robot'[m] = TheHub \/ crossed
        BY <1>1, <1>a, <1>c, <3>3
      <3>6. HeldRight'
        BY <1>a, <2>1, <3>4, <3>5 DEF HeldRight
      <3> QED
        BY <1>0, <2>1, <3>2, <3>6 DEF RobotInv, RobotTypes
    <2>3. CASE held[c][n] # "no"
      <3>1. robot' = robot /\ held' = [held EXCEPT ![c][n] = held[c][n]]
        BY <2>1, <2>3
      <3>2. held' = held
        BY <1>0, <1>b, <3>1
      <3>3. UNCHANGED <<robot, held, crossed, dangling>>
        BY <2>1, <3>1, <3>2
      <3> QED
        BY <3>3 DEF RobotInv, RobotTypes, HeldRight
    <2> QED
      BY <2>2, <2>3
  <1>2. CASE DelRobot(n)
    <2>1. /\ robot' = [robot EXCEPT ![n] = Nobody] /\ dangling' = dangling
          /\ held' = [q \in Plugins |->
                       [Forgotten(c, n)[q] EXCEPT ![n] = IF @ = "live" THEN "gone" ELSE @]]
          /\ crossed' = (crossed \/ robot[n] # c)
      BY <1>2 DEF DelRobot
    <2> HIDE DEF c
    <2>2. /\ Forgotten(c, n) \in [Plugins -> [BotNicks -> {"no", "live", "gone"}]]
          /\ \A q \in Plugins, m \in BotNicks :
                 Forgotten(c, n)[q][m] = IF q = c /\ m = n THEN "no" ELSE held[q][m]
      BY <1>0, <1>b DEF Forgotten
    <2>3. /\ held' \in [Plugins -> [BotNicks -> {"no", "live", "gone"}]]
          /\ \A q \in Plugins, m \in BotNicks :
                 held'[q][m] = IF m # n THEN held[q][m]
                               ELSE IF q = c THEN "no"
                               ELSE IF held[q][m] = "live" THEN "gone" ELSE held[q][m]
      BY <2>1, <2>2
    <2>4. /\ robot' \in [BotNicks -> Plugins \cup {Nobody, TheHub}]
          /\ \A m \in BotNicks : robot'[m] = IF m = n THEN Nobody ELSE robot[m]
      BY <1>0, <2>1
    <2>5. crossed' \in BOOLEAN /\ (crossed => crossed') /\ (robot[n] # c => crossed')
      BY <1>0, <2>1
    <2>6. ASSUME NEW m \in BotNicks, NEW p \in Plugins
          PROVE  /\ (robot'[m] = p) <=> (held'[p][m] = "live")
                 /\ p \notin ToSet(order) => held'[p][m] = "no"
                 /\ held'[p][m] = "gone" => crossed'
      <3>1. CASE m # n
        BY <1>a, <2>3, <2>4, <2>5, <3>1
      <3>2. CASE m = n /\ p = c
        BY <1>c, <2>3, <2>4, <3>2
      <3>3. CASE m = n /\ p # c
        BY <1>a, <1>c, <2>3, <2>4, <2>5, <3>3
      <3> QED
        BY <3>1, <3>2, <3>3
    <2>7. \A m \in ReservedNicks2 : robot'[m] = TheHub \/ crossed'
      BY <1>a, <1>b, <1>c, <2>4, <2>5
    <2>8. HeldRight'
      BY <1>a, <2>1, <2>5, <2>6, <2>7 DEF HeldRight
    <2> QED
      BY <1>0, <2>1, <2>3, <2>4, <2>5, <2>8 DEF RobotInv, RobotTypes
  <1> QED
    BY <1>1, <1>2

\* A plugin is unloaded or loaded anew: its robots go, and so does its list.
LEMMA DisposedKept ==
    ASSUME RobotInv, NEW p \in Plugins, Disposed(p), ToSet(order) \ {p} \subseteq ToSet(order')
    PROVE  RobotInv'
  <1>0. /\ robot \in [BotNicks -> Plugins \cup {Nobody, TheHub}]
        /\ held \in [Plugins -> [BotNicks -> {"no", "live", "gone"}]]
        /\ crossed \in BOOLEAN /\ dangling \in BOOLEAN
    BY DEF RobotInv, RobotTypes
  <1>a. /\ \A m \in BotNicks, q \in Plugins :
               /\ (robot[m] = q) <=> (held[q][m] = "live")
               /\ q \notin ToSet(order) => held[q][m] = "no"
               /\ held[q][m] = "gone" => crossed
        /\ dangling => crossed
        /\ \A m \in ReservedNicks2 : robot[m] = TheHub \/ crossed
    BY DEF RobotInv, HeldRight
  <1>c. Nobody \notin Plugins /\ TheHub \notin Plugins /\ ReservedNicks2 \subseteq BotNicks
    BY ScriptsAssumption DEF BotNicks
  <1>1. /\ robot' = [n \in BotNicks |-> IF held[p][n] # "no" THEN Nobody ELSE robot[n]]
        /\ held' = [q \in Plugins |-> [n \in BotNicks |->
                      IF q = p THEN "no"
                      ELSE IF held[q][n] = "live" /\ held[p][n] # "no" THEN "gone"
                      ELSE held[q][n]]]
        /\ dangling' = (dangling \/ \E n \in BotNicks : held[p][n] = "gone")
        /\ crossed' = crossed
    BY DEF Disposed
  <1>2. /\ robot' \in [BotNicks -> Plugins \cup {Nobody, TheHub}]
        /\ held' \in [Plugins -> [BotNicks -> {"no", "live", "gone"}]]
    BY <1>0, <1>1
  <1>3. ASSUME NEW m \in BotNicks, NEW q \in Plugins
        PROVE  /\ (robot'[m] = q) <=> (held'[q][m] = "live")
               /\ q \notin ToSet(order') => held'[q][m] = "no"
               /\ held'[q][m] = "gone" => crossed
    <2>1. /\ robot'[m] = IF held[p][m] # "no" THEN Nobody ELSE robot[m]
          /\ held'[q][m] = IF q = p THEN "no"
                           ELSE IF held[q][m] = "live" /\ held[p][m] # "no" THEN "gone"
                           ELSE held[q][m]
      BY <1>1
    <2>2. held[p][m] \in {"no", "live", "gone"} /\ held[q][m] \in {"no", "live", "gone"}
      BY <1>0
    <2>3. /\ (robot[m] = q) <=> (held[q][m] = "live")
          /\ (robot[m] = p) <=> (held[p][m] = "live")
          /\ q \notin ToSet(order) => held[q][m] = "no"
          /\ held[q][m] = "gone" \/ held[p][m] = "gone" => crossed
      BY <1>a
    <2>4. q # p /\ q \notin ToSet(order') => q \notin ToSet(order)
      OBVIOUS
    <2> QED
      BY <1>c, <2>1, <2>2, <2>3, <2>4
  <1>4. \A m \in ReservedNicks2 : robot'[m] = TheHub \/ crossed
    <2> SUFFICES ASSUME NEW m \in ReservedNicks2, ~crossed PROVE robot'[m] = TheHub
      OBVIOUS
    <2>1. m \in BotNicks /\ robot[m] = TheHub /\ held[p][m] # "gone" /\ held[p][m] # "live"
      BY <1>a, <1>c
    <2>2. held[p][m] = "no"
      BY <1>0, <2>1
    <2> QED
      BY <1>1, <2>1, <2>2
  <1>5. dangling' \in BOOLEAN /\ (dangling' => crossed)
    BY <1>0, <1>1, <1>a
  <1>6. HeldRight'
    BY <1>1, <1>3, <1>4, <1>5 DEF HeldRight
  <1> QED
    BY <1>0, <1>1, <1>2, <1>5, <1>6 DEF RobotInv, RobotTypes

\* The same with the list of plugins.
LEMMA UnregisteredIs ==
    ASSUME OrderInv, NEW p \in Plugins, p \in Registered2
    PROVE  /\ Unregistered(p) \in Seq(Plugins) /\ IsInjective(Unregistered(p))
           /\ ToSet(Unregistered(p)) = ToSet(order) \ {p}
  <1> DEFINE i == CHOOSE i \in 1 .. Len(order) : order[i] = p
  <1>1. order \in Seq(Plugins) /\ IsInjective(order)
    BY DEF OrderInv
  <1>2. \E j \in 1 .. Len(order) : order[j] = p
    BY <1>1 DEF Registered2, ToSet
  <1>3. i \in 1 .. Len(order) /\ order[i] = p
    BY <1>2
  <1>4. Unregistered(p) = RemoveAt(order, i)
    BY DEF Unregistered
  <1> HIDE DEF i
  <1> QED
    BY <1>1, <1>3, <1>4, TakenOut, RemoveAtOnce

LEMMA ManageKept ==
    ASSUME ScriptsInv, Manage
    PROVE  ScriptsInv'
  <1>0. OrderInv /\ PassInv /\ RobotInv
    BY DEF ScriptsInv
  <1>1. CASE UNCHANGED <<order, stack, mData, phase, robotVars>>
    BY <1>0, <1>1 DEF ScriptsInv, OrderInv, PassInv, RobotInv, RobotTypes, HeldRight, robotVars
  <1>a. ASSUME stack = <<>>, UNCHANGED <<stack, mData>>
        PROVE  PassInv'
    BY <1>0, <1>a DEF PassInv
  <1>2. ASSUME NEW p \in Plugins, NEW good, LoadPlugin(p, good)
        PROVE  ScriptsInv'
    <2>1. /\ p \notin ToSet(order) /\ order' = Append(order, p) /\ stack = <<>>
          /\ UNCHANGED <<stack, mData, robotVars>>
      BY <1>0, <1>2 DEF LoadPlugin, Idle, passVars, Registered2, PassInv
    <2>2. OrderInv' /\ ToSet(order') = ToSet(order) \cup {p}
      BY <1>0, <2>1, AppendOnce DEF OrderInv
    <2>3. RobotInv'
      BY <1>0, <2>1, <2>2 DEF RobotInv, RobotTypes, HeldRight, robotVars
    <2> QED
      BY <1>a, <2>1, <2>2, <2>3 DEF ScriptsInv
  <1>3. ASSUME NEW p \in Plugins, UnloadPlugin(p)
        PROVE  ScriptsInv'
    <2>1. /\ Disposed(p) /\ p \in Registered2 /\ order' = Unregistered(p) /\ stack = <<>>
          /\ UNCHANGED <<stack, mData>>
      BY <1>0, <1>3 DEF UnloadPlugin, Disposed, Idle, passVars, PassInv
    <2>2. OrderInv' /\ ToSet(order') = ToSet(order) \ {p}
      BY <1>0, <2>1, UnregisteredIs DEF OrderInv
    <2>3. RobotInv'
      BY <1>0, <2>1, <2>2, DisposedKept
    <2> QED
      BY <1>a, <2>1, <2>2, <2>3 DEF ScriptsInv
  <1>4. ASSUME NEW p \in Plugins, NEW good, ReloadPlugin(p, good)
        PROVE  ScriptsInv'
    <2>1. /\ Disposed(p) /\ p \in Registered2 /\ order' = Append(Unregistered(p), p)
          /\ stack = <<>> /\ UNCHANGED <<stack, mData>>
      BY <1>0, <1>4 DEF ReloadPlugin, Disposed, Idle, passVars, PassInv
    <2>2. /\ Unregistered(p) \in Seq(Plugins) /\ IsInjective(Unregistered(p))
          /\ ToSet(Unregistered(p)) = ToSet(order) \ {p}
      BY <1>0, <2>1, UnregisteredIs
    <2>3. OrderInv' /\ ToSet(order') = (ToSet(order) \ {p}) \cup {p}
      BY <2>1, <2>2, AppendOnce DEF OrderInv
    <2>4. RobotInv'
      BY <1>0, <2>1, <2>3, DisposedKept
    <2> QED
      BY <1>a, <2>1, <2>3, <2>4 DEF ScriptsInv
  <1>5. ASSUME NEW p, NEW list, SetLoaded(p, list)
        PROVE  ScriptsInv'
    BY <1>1, <1>5 DEF SetLoaded, passVars
  <1>6. CASE TellScripts
    BY <1>1, <1>6 DEF TellScripts
  <1>7. ASSUME NEW p \in Plugins,
               \/ \E s \in ToSet(Files[p]) : AddScriptPy(p, s) \/ DelScriptPy(p, s)
               \/ \E s \in ToSet(Files[p]), parsed \in BOOLEAN : ReloadPy(p, s, parsed)
        PROVE  ScriptsInv'
    BY <1>5, <1>7 DEF AddScriptPy, AddScript, DelScriptPy, DelScript, ReloadPy
  <1>8. CASE \E s \in ToSet(Files[Lua]) : \/ AddScriptLua(s)
                                          \/ DelScriptLua(s)
                                          \/ \E parsed \in BOOLEAN : ReloadLua(s, parsed)
    BY <1>5, <1>8 DEF AddScriptLua, AddScript, DelScriptLua, DelScript, ReloadLua
  <1> QED
    BY <1>2, <1>3, <1>4, <1>6, <1>7, <1>8 DEF Manage

LEMMA ScriptsInvNext == ScriptsInv /\ [ScriptsNext]_scriptsVars => ScriptsInv'
  <1> SUFFICES ASSUME ScriptsInv, [ScriptsNext]_scriptsVars PROVE ScriptsInv'
    OBVIOUS
  <1>0. OrderInv /\ PassInv /\ RobotInv
    BY DEF ScriptsInv
  <1>1. CASE UNCHANGED scriptsVars
    BY <1>0, <1>1 DEF scriptsVars, ScriptsInv, OrderInv, PassInv, RobotInv, RobotTypes, HeldRight
  <1>a. ASSUME UNCHANGED <<order, robotVars>>
        PROVE  OrderInv' /\ RobotInv'
    BY <1>0, <1>a DEF OrderInv, RobotInv, RobotTypes, HeldRight, robotVars
  <1>2. CASE StartTimer \/ PassStep
    <2>1. UNCHANGED <<order, robotVars>>
      BY <1>2 DEF StartTimer, PassStep, NextItem, EndDrain, EndTimer, NextScript, NextPlugin,
                  EndPass
    <2> QED
      BY <1>0, <1>2, <1>a, <2>1, PassKept DEF ScriptsInv
  <1>3. CASE QueueCommand \/ ScriptCommandLua \/ ScriptCommandPy
    <2>1. UNCHANGED <<order, robotVars>>
      BY <1>3 DEF QueueCommand, ScriptCommandLua, ScriptCommandPy, InstantCommand
    <2> QED
      BY <1>0, <1>3, <1>a, <2>1, PassKept DEF ScriptsInv, ScriptCall
  <1>4. ASSUME NEW n \in BotNicks, RegBot(n) \/ UnRegBot(n) \/ AddRobotPy(n) \/ DelRobotPy(n)
        PROVE  ScriptsInv'
    <2>1. /\ InScript /\ UNCHANGED order
          /\ (n \in PlainNicks /\ NewRobot(n)) \/ DelRobot(n)
      BY <1>4 DEF RegBot, UnRegBot, AddRobotPy, DelRobotPy, NewRobot, DelRobot
    <2>2. RobotInv'
      BY <1>0, <2>1, RobotKept
    <2>3. PassInv'
      BY <1>0, <1>4, <2>1, PassKept DEF ScriptCall
    <2> QED
      BY <1>0, <2>1, <2>2, <2>3 DEF ScriptsInv, OrderInv
  <1>5. CASE Manage
    BY <1>5, ManageKept
  <1>6. CASE UseHubRobot
    <2>1. /\ \E n \in ReservedNicks2 : robot[n] = Nobody
          /\ dangling' = TRUE
          /\ UNCHANGED <<order, robot, held, crossed, stack, mData, phase>>
      BY <1>6 DEF UseHubRobot, passVars
    <2>2. crossed
      BY <1>0, <2>1 DEF RobotInv, HeldRight, Nobody, TheHub
    <2>3. dangling' \in BOOLEAN
      BY <2>1, Zenon
    <2>4. RobotInv'
      BY <1>0, <2>1, <2>2, <2>3 DEF RobotInv, RobotTypes, HeldRight
    <2> QED
      BY <1>0, <2>1, <2>4 DEF ScriptsInv, OrderInv, PassInv
  <1> QED
    BY <1>1, <1>2, <1>3, <1>4, <1>5, <1>6 DEF ScriptsNext, ScriptCall

\* The hub's list of robots and the lists of the plugins agree, and a robot
\* that was deleted is used only after a script deleted one that was not its
\* own, whatever plugins, scripts and calls inside each other there are
\* (cvhplugin.cpp: NewRobot, DelRobot; cpluginmanager.cpp: UnloadPlugin).
THEOREM RobotsStayHeld == ScriptsSpec => []RobotsHeld
  <1>1. ScriptsInv => RobotsHeld
    BY DEF ScriptsInv, RobotInv, HeldRight, RobotsHeld, Registered2
  <1> QED
    BY <1>1, ScriptsInvInit, ScriptsInvNext, PTL DEF ScriptsSpec
-----------------------------------------------------------------------------
(* PluginUsers: what floodprot counts *)

States == {"away", "open", "listed", "in"}
Here(a)   == {g \in Guests : AddressOf[g] = a /\ place[g] # "away"}
Inside(a) == {g \in Guests : AddressOf[g] = a /\ place[g] = "in"}

\* who is going to be deleted has a connection
HereInv == place \in [Guests -> States] /\ ending \subseteq {g \in Guests : place[g] # "away"}

\* no points without the plugin; with it, never more than there is to count
PointsInv ==
    /\ place \in [Guests -> States]
    /\ points \in [Addresses -> Nat]
    /\ "floodprot" \notin plugs => \A a \in Addresses : points[a] = 0
    /\ PointsRight

FloodInfos == [count : Nat, elapsed : Nat, idle : Nat, off : BOOLEAN]

\* What got through in this second is in the counter of the address, or the
\* counter began anew in it and is about to find the next burst a flood.
InCounter(n, i) ==
    \/ n <= i.count
    \/ i.elapsed = 0 /\ i.idle = 0 /\ n <= Burst + i.count
    \/ i.off /\ n <= 2 * Burst
BurstOf(n, is) ==
    /\ n \in Nat
    /\ \/ is = {} /\ n = 0
       \/ \E i \in FloodInfos : is = {i} /\ i.count < Burst /\ InCounter(n, i)
BurstInv ==
    /\ acts \in [Addresses -> SUBSET FloodInfos] /\ burst \in [Addresses -> Nat]
    /\ \A a \in Addresses : BurstOf(burst[a], acts[a])

LEMMA OwedIs ==
    ASSUME NEW a, place \in [Guests -> States]
    PROVE  /\ Owed(a) = Cardinality(Here(a)) + Cardinality(Inside(a))
           /\ IsFiniteSet(Here(a)) /\ IsFiniteSet(Inside(a))
           /\ Cardinality(Here(a)) \in Nat /\ Cardinality(Inside(a)) \in Nat /\ Owed(a) \in Nat
  <1>1. {g \in Of(a) : place[g] # "away"} = Here(a) /\ {g \in Of(a) : place[g] = "in"} = Inside(a)
    BY DEF Of, Here, Inside
  <1>2. IsFiniteSet(Here(a)) /\ IsFiniteSet(Inside(a))
    BY PluginUsersAssumption, FS_Subset DEF Here, Inside
  <1>3. Cardinality(Here(a)) \in Nat /\ Cardinality(Inside(a)) \in Nat
    BY <1>2, FS_CardinalityType
  <1>4. Owed(a) = Cardinality(Here(a)) + Cardinality(Inside(a))
    BY <1>1 DEF Owed
  <1> QED
    BY <1>2, <1>3, <1>4

LEMMA OwedIsThen ==
    ASSUME NEW a, place' \in [Guests -> States]
    PROVE  /\ Owed(a)' = Cardinality(Here(a)') + Cardinality(Inside(a)')
           /\ IsFiniteSet(Here(a)') /\ IsFiniteSet(Inside(a)')
           /\ Cardinality(Here(a)') \in Nat /\ Cardinality(Inside(a)') \in Nat /\ Owed(a)' \in Nat
  <1>1. {g \in Of(a) : place'[g] # "away"} = Here(a)' /\ {g \in Of(a) : place'[g] = "in"} = Inside(a)'
    BY DEF Of, Here, Inside
  <1>2. IsFiniteSet(Here(a)') /\ IsFiniteSet(Inside(a)')
    BY PluginUsersAssumption, FS_Subset DEF Here, Inside
  <1>3. Cardinality(Here(a)') \in Nat /\ Cardinality(Inside(a)') \in Nat
    BY <1>2, FS_CardinalityType
  <1>4. Owed(a)' = Cardinality(Here(a)') + Cardinality(Inside(a)')
    BY <1>1 DEF Owed, Of
  <1> QED
    BY <1>2, <1>3, <1>4

\* A user comes, is let in or leaves: what his address owes.
LEMMA OwedMoves ==
    ASSUME place \in [Guests -> States], NEW g \in Guests, NEW s \in States,
           place' = [place EXCEPT ![g] = s]
    PROVE  /\ place' \in [Guests -> States]
           /\ \A a \in Addresses \ {AddressOf[g]} : Owed(a)' = Owed(a)
           /\ LET a == AddressOf[g] IN
              /\ a \in Addresses
              /\ place[g] = "away" /\ s = "open" => Owed(a)' = Owed(a) + 1
              /\ place[g] = "open" /\ s = "listed" => Owed(a)' = Owed(a)
              /\ place[g] = "listed" /\ s = "in" => Owed(a)' = Owed(a) + 1
              /\ place[g] \in {"open", "listed"} /\ s = "away" => Owed(a) = Owed(a)' + 1
              /\ place[g] = "in" /\ s = "away" => Owed(a) = Owed(a)' + 2
  <1> DEFINE b == AddressOf[g]
  <1>0. place' \in [Guests -> States] /\ b \in Addresses
    BY PluginUsersAssumption
  <1>1. place'[g] = s /\ \A h \in Guests \ {g} : place'[h] = place[h]
    OBVIOUS
  <1>2. ASSUME NEW a \in Addresses \ {b} PROVE Owed(a)' = Owed(a)
    <2>1. Here(a)' = Here(a) /\ Inside(a)' = Inside(a)
      BY <1>1 DEF Here, Inside
    <2> QED
      BY <1>0, <2>1, OwedIs, OwedIsThen
  <1>3. ASSUME place[g] = "away", s # "away" PROVE Cardinality(Here(b)') = Cardinality(Here(b)) + 1
    <2>1. Here(b)' = Here(b) \cup {g} /\ g \notin Here(b)
      BY <1>1, <1>3 DEF Here
    <2> QED
      BY <2>1, OwedIs, FS_AddElement
  <1>4. ASSUME place[g] # "away", s = "away" PROVE Cardinality(Here(b)) = Cardinality(Here(b)') + 1
    <2>1. Here(b) = Here(b)' \cup {g} /\ g \notin Here(b)'
      BY <1>1, <1>4 DEF Here
    <2> QED
      BY <1>0, <2>1, OwedIsThen, FS_AddElement
  <1>5. ASSUME place[g] # "away", s # "away" PROVE Here(b)' = Here(b)
    BY <1>1, <1>5 DEF Here
  <1>6. ASSUME place[g] # "in", s = "in" PROVE Cardinality(Inside(b)') = Cardinality(Inside(b)) + 1
    <2>1. Inside(b)' = Inside(b) \cup {g} /\ g \notin Inside(b)
      BY <1>1, <1>6 DEF Inside
    <2> QED
      BY <2>1, OwedIs, FS_AddElement
  <1>7. ASSUME place[g] = "in", s # "in" PROVE Cardinality(Inside(b)) = Cardinality(Inside(b)') + 1
    <2>1. Inside(b) = Inside(b)' \cup {g} /\ g \notin Inside(b)'
      BY <1>1, <1>7 DEF Inside
    <2> QED
      BY <1>0, <2>1, OwedIsThen, FS_AddElement
  <1>8. ASSUME place[g] # "in", s # "in" PROVE Inside(b)' = Inside(b)
    BY <1>1, <1>8 DEF Inside
  <1>9. /\ Owed(b) = Cardinality(Here(b)) + Cardinality(Inside(b))
        /\ Owed(b)' = Cardinality(Here(b)') + Cardinality(Inside(b)')
        /\ Cardinality(Here(b)) \in Nat /\ Cardinality(Inside(b)) \in Nat
        /\ Cardinality(Here(b)') \in Nat /\ Cardinality(Inside(b)') \in Nat
    BY <1>0, OwedIs, OwedIsThen
  <1>10. place[g] = "away" /\ s = "open" => Owed(b)' = Owed(b) + 1
    BY <1>3, <1>8, <1>9
  <1>11. place[g] = "open" /\ s = "listed" => Owed(b)' = Owed(b)
    BY <1>5, <1>8, <1>9
  <1>12. place[g] = "listed" /\ s = "in" => Owed(b)' = Owed(b) + 1
    BY <1>5, <1>6, <1>9
  <1>13. place[g] \in {"open", "listed"} /\ s = "away" => Owed(b) = Owed(b)' + 1
    BY <1>4, <1>8, <1>9
  <1>14. place[g] = "in" /\ s = "away" => Owed(b) = Owed(b)' + 2
    BY <1>4, <1>7, <1>9
  <1> QED
    BY <1>0, <1>2, <1>10, <1>11, <1>12, <1>13, <1>14

LEMMA PointsQuiet ==
    ASSUME PointsInv, UNCHANGED <<place, points, plugs, unseen>>
    PROVE  PointsInv'
  BY DEF PointsInv, PointsRight, Owed, Of

\* Points are put down or taken for one address.
LEMMA PointsMove ==
    ASSUME PointsInv, NEW g \in Guests, NEW s \in States, NEW d \in Int, NEW n \in Int,
           place' = [place EXCEPT ![g] = s], AddConn(g, d), plugs' = plugs,
           unseen \subseteq unseen', Owed(AddressOf[g])' = Owed(AddressOf[g]) + n,
           d <= n, d < n => AddressOf[g] \in unseen'
    PROVE  PointsInv'
  <1> DEFINE b == AddressOf[g]
  <1>1. /\ place' \in [Guests -> States] /\ b \in Addresses
        /\ \A a \in Addresses \ {b} : Owed(a)' = Owed(a)
    BY OwedMoves DEF PointsInv
  <1>2. /\ points \in [Addresses -> Nat] /\ place \in [Guests -> States]
        /\ "floodprot" \notin plugs => \A a \in Addresses : points[a] = 0
        /\ \A a \in Addresses : /\ points[a] <= Owed(a)
                                /\ "floodprot" \in plugs /\ a \notin unseen => points[a] = Owed(a)
    BY DEF PointsInv, PointsRight
  <1>3. Owed(b) \in Nat /\ Owed(b)' \in Nat
    BY <1>1, <1>2, OwedIs, OwedIsThen
  <1>4. CASE "floodprot" \notin plugs
    <2>1. points' = points
      BY <1>4 DEF AddConn
    <2>2. \A a \in Addresses : Owed(a)' \in Nat
      BY <1>1, OwedIsThen
    <2>3. \A a \in Addresses : points'[a] <= Owed(a)'
      BY <1>2, <1>4, <2>1, <2>2
    <2> QED
      BY <1>1, <1>2, <1>4, <2>1, <2>3 DEF PointsInv, PointsRight
  <1>5. CASE "floodprot" \in plugs
    <2>1. points' = [points EXCEPT ![b] = Points(b, d)]
      BY <1>5 DEF AddConn
    <2>2. Points(b, d) \in Nat /\ Points(b, d) <= Owed(b)'
      BY <1>1, <1>2, <1>3 DEF Points
    <2>3. b \notin unseen' => Points(b, d) = Owed(b)'
      BY <1>1, <1>2, <1>3, <1>5 DEF Points
    <2>4. points' \in [Addresses -> Nat]
      BY <1>1, <1>2, <2>1, <2>2
    <2>5. points'[b] = Points(b, d) /\ \A a \in Addresses \ {b} : points'[a] = points[a]
      BY <1>1, <1>2, <2>1
    <2>6. \A a \in Addresses : /\ points'[a] <= Owed(a)'
                               /\ a \notin unseen' => points'[a] = Owed(a)'
      BY <1>1, <1>2, <1>5, <2>2, <2>3, <2>5
    <2> QED
      BY <1>1, <1>5, <2>4, <2>6 DEF PointsInv, PointsRight
  <1> QED
    BY <1>4, <1>5

LEMMA ComesAndGoesPoints ==
    ASSUME PointsInv, HereInv, NEW g \in Guests, ComesAndGoes(g)
    PROVE  PointsInv'
  <1>0. place \in [Guests -> States] /\ place[g] \in States /\ AddressOf[g] \in Addresses
    BY PluginUsersAssumption DEF PointsInv
  <1>a. Owed(AddressOf[g]) \in Nat
    BY <1>0, OwedIs
  <1>1. CASE Connects(g)
    <2>1. /\ place' = [place EXCEPT ![g] = "open"] /\ place[g] = "away"
          /\ AddConn(g, 1) /\ plugs' = plugs /\ unseen' = unseen
      BY <1>1 DEF Connects
    <2>2. Owed(AddressOf[g])' = Owed(AddressOf[g]) + 1
      BY <1>0, <2>1, OwedMoves DEF States
    <2>3. "open" \in States /\ 1 \in Int /\ 1 <= 1 /\ ~(1 < 1)
      BY DEF States
    <2> QED
      BY <2>1, <2>2, <2>3, PointsMove
  <1>2. CASE EntersList(g)
    <2>1. /\ place' = [place EXCEPT ![g] = "listed"] /\ place[g] = "open"
          /\ UNCHANGED <<points, plugs, unseen>>
      BY <1>2 DEF EntersList, floodVars
    <2>2. /\ Owed(AddressOf[g])' = Owed(AddressOf[g]) /\ place' \in [Guests -> States]
          /\ \A a \in Addresses \ {AddressOf[g]} : Owed(a)' = Owed(a)
      BY <1>0, <2>1, OwedMoves DEF States
    <2> QED
      BY <2>1, <2>2 DEF PointsInv, PointsRight
  <1>3. CASE LogsIn(g)
    <2>1. /\ place' = [place EXCEPT ![g] = "in"] /\ place[g] = "listed"
          /\ AddConn(g, 1) /\ plugs' = plugs /\ unseen' = unseen
      BY <1>3 DEF LogsIn
    <2>2. Owed(AddressOf[g])' = Owed(AddressOf[g]) + 1
      BY <1>0, <2>1, OwedMoves DEF States
    <2>3. "in" \in States /\ 1 \in Int /\ 1 <= 1 /\ ~(1 < 1)
      BY DEF States
    <2> QED
      BY <2>1, <2>2, <2>3, PointsMove
  <1>4. CASE Ends(g)
    BY <1>4, PointsQuiet DEF Ends, floodVars
  <1>5. CASE DeleteConn(g)
    <2> DEFINE d == Taken(g)
               n == IF place[g] = "in" THEN -2 ELSE -1
    <2>1. /\ place' = [place EXCEPT ![g] = "away"] /\ AddConn(g, d) /\ plugs' = plugs
          /\ unseen' = IF place[g] = "listed" THEN unseen \cup {AddressOf[g]} ELSE unseen
          /\ g \in ending
      BY <1>5 DEF DeleteConn
    <2>2. place[g] \in {"open", "listed", "in"}
      BY <1>0, <2>1 DEF HereInv, States
    <2>3. "away" \in States
      BY DEF States
    <2>4. Owed(AddressOf[g])' \in Nat
      BY <1>0, <2>1, <2>3, OwedIsThen
    <2>5. Owed(AddressOf[g])' = Owed(AddressOf[g]) + n
      <3>1. place[g] \in {"open", "listed"} => Owed(AddressOf[g]) = Owed(AddressOf[g])' + 1
        BY <1>0, <2>1, <2>3, OwedMoves
      <3>2. place[g] = "in" => Owed(AddressOf[g]) = Owed(AddressOf[g])' + 2
        BY <1>0, <2>1, <2>3, OwedMoves
      <3> QED
        BY <1>a, <2>2, <2>4, <3>1, <3>2
    <2>6. /\ d \in Int /\ n \in Int /\ d <= n
          /\ d < n => place[g] = "listed"
      BY <2>2 DEF Taken, In
    <2>7. unseen \subseteq unseen' /\ (d < n => AddressOf[g] \in unseen')
      BY <2>1, <2>6
    <2> HIDE DEF d, n
    <2> QED
      BY <2>1, <2>3, <2>5, <2>6, <2>7, PointsMove
  <1> QED
    BY <1>1, <1>2, <1>3, <1>4, <1>5 DEF ComesAndGoes

LEMMA SwitchesPoints ==
    ASSUME PointsInv, NEW p \in Followers, Switches(p)
    PROVE  PointsInv'
  <1>0. /\ place' = place /\ place \in [Guests -> States] /\ points \in [Addresses -> Nat]
        /\ \A a \in Addresses : Owed(a)' = Owed(a) /\ Owed(a) \in Nat
    <2>1. place' = place
      BY DEF Switches, Loads, Unloads, connVars
    <2>2. \A a \in Addresses : Owed(a)' = Owed(a)
      BY <2>1 DEF Owed, Of
    <2> QED
      BY <2>1, <2>2, OwedIs DEF PointsInv
  <1>1. CASE Loads(p)
    <2>1. points' = points /\ plugs' = plugs \cup {p} /\ p \notin plugs
      BY <1>1 DEF Loads
    <2>2. unseen' = IF p = "floodprot" THEN {a \in Addresses : Owed(a) > 0} ELSE unseen
      BY <1>1 DEF Loads
    <2>3. \A a \in Addresses : points[a] <= Owed(a)
      BY DEF PointsInv, PointsRight
    <2>4. CASE p = "floodprot"
      <3>1. \A a \in Addresses : points[a] = 0
        BY <2>1, <2>4 DEF PointsInv
      <3>2. \A a \in Addresses : a \notin unseen' => points[a] = Owed(a)
        BY <1>0, <2>2, <2>4, <3>1
      <3> QED
        BY <1>0, <2>1, <2>3, <2>4, <3>2 DEF PointsInv, PointsRight
    <2>5. CASE p # "floodprot"
      <3>1. unseen' = unseen /\ ("floodprot" \in plugs' <=> "floodprot" \in plugs)
        BY <2>1, <2>2, <2>5
      <3> QED
        BY <1>0, <2>1, <3>1 DEF PointsInv, PointsRight
    <2> QED
      BY <2>4, <2>5
  <1>2. CASE Unloads(p)
    <2>1. plugs' = plugs \ {p} /\ unseen' = unseen
      BY <1>2 DEF Unloads
    <2>2. CASE p = "floodprot"
      <3>1. points' = [a \in Addresses |-> 0]
        BY <1>2, <2>2 DEF Unloads
      <3> QED
        BY <1>0, <2>1, <2>2, <3>1 DEF PointsInv, PointsRight
    <2>3. CASE p # "floodprot"
      <3>1. points' = points /\ ("floodprot" \in plugs' <=> "floodprot" \in plugs)
        BY <1>2, <2>1, <2>3 DEF Unloads
      <3> QED
        BY <1>0, <2>1, <3>1 DEF PointsInv, PointsRight
    <2> QED
      BY <2>2, <2>3
  <1> QED
    BY <1>1, <1>2 DEF Switches
LEMMA BurstQuiet ==
    ASSUME BurstInv, UNCHANGED <<acts, burst>>
    PROVE  BurstInv'
  BY DEF BurstInv

\* An action of one that has a counter: what became of it, and what is noted.
LEMMA ActionNoted ==
    ASSUME NEW g \in Guests, ~(ClassIn[g] >= Operator), NEW i \in FloodInfos,
           acts[AddressOf[g]] = {i}, i.count < Burst, NEW n \in Nat, InCounter(n, i)
    PROVE  BurstOf(n + (IF Outcome(g) \in {"passes", "slow"} THEN 1 ELSE 0), Noted(g))
  <1> DEFINE c == Counted(i)
             b == [Began(i) EXCEPT !.off = FALSE]
             f == [Began(i) EXCEPT !.off = TRUE]
  <1>0. /\ i.count \in Nat /\ i.elapsed \in Nat /\ i.idle \in Nat /\ i.off \in BOOLEAN
        /\ Burst \in Nat \ {0} /\ Fast \in Nat \ {0} /\ Slow \in Nat
    BY PluginUsersAssumption DEF FloodInfos
  <1>1. c \in FloodInfos /\ c.count = i.count + 1 /\ c.elapsed = i.elapsed + i.idle /\ c.idle = 0
    <2> DEFINE one == [i EXCEPT !.count = @ + 1]
               two == [one EXCEPT !.elapsed = @ + i.idle]
    <2>1. /\ one \in FloodInfos /\ one.count = i.count + 1
          /\ one.elapsed = i.elapsed /\ one.idle = i.idle
      BY <1>0 DEF FloodInfos
    <2>2. /\ two \in FloodInfos /\ two.count = i.count + 1
          /\ two.elapsed = i.elapsed + i.idle
      <3> HIDE DEF one
      <3> QED
        BY <1>0, <2>1 DEF FloodInfos
    <2>3. c = [two EXCEPT !.idle = 0]
      BY DEF Counted, FloodInfos
    <2> HIDE DEF one, two, c
    <2> QED
      BY <2>2, <2>3 DEF FloodInfos
  <1>2. /\ b \in FloodInfos /\ b.count = 0 /\ b.elapsed = 0 /\ b.idle = 0
        /\ f \in FloodInfos /\ f.count = 0 /\ f.off
    <2>1. Began(i) = [count |-> 0, elapsed |-> 0, idle |-> 0, off |-> i.off]
      BY DEF Began
    <2>2. /\ Began(i) \in FloodInfos
          /\ Began(i).count = 0 /\ Began(i).elapsed = 0 /\ Began(i).idle = 0
      BY <1>0, <2>1 DEF FloodInfos
    <2>3. b \in FloodInfos /\ b.count = 0 /\ b.elapsed = 0 /\ b.idle = 0
      BY <2>2 DEF FloodInfos
    <2>4. f \in FloodInfos /\ f.count = 0 /\ f.off
      BY <2>2 DEF FloodInfos
    <2> QED
      BY <2>3, <2>4
  <1>3. (CHOOSE x \in acts[AddressOf[g]] : TRUE) = i /\ acts[AddressOf[g]] # {}
    OBVIOUS
  <1>4. CASE i.off
    <2>1. Outcome(g) = "dropped"
      BY <1>3, <1>4 DEF Outcome
    <2>2. Noted(g) = {i}
      BY <2>1 DEF Noted
    <2> QED
      BY <2>1, <2>2 DEF BurstOf
  <1>5. CASE ~i.off /\ ~Judged(i)
    <2>1. Outcome(g) = "passes"
      BY <1>3, <1>5 DEF Outcome
    <2>2. Noted(g) = {c}
      BY <1>3, <2>1 DEF Noted
    <2>3. c.count < Burst
      BY <1>0, <1>1, <1>5 DEF Judged
    <2>4. InCounter(n + 1, c)
      BY <1>0, <1>1, <1>5 DEF InCounter
    <2> HIDE DEF c
    <2> QED
      BY <1>1, <2>1, <2>2, <2>3, <2>4 DEF BurstOf
  <1>6. CASE ~i.off /\ Judged(i)
    <2>1. i.count + 1 = Burst
      BY <1>1, <1>6 DEF Judged
    <2>2. n <= i.count \/ (i.elapsed = 0 /\ i.idle = 0 /\ n <= Burst + i.count)
      BY <1>6 DEF InCounter
    <2>3. Outcome(g) = IF c.elapsed < Fast THEN "flood" ELSE IF c.elapsed < Slow THEN "closed" ELSE "slow"
      BY <1>3, <1>6 DEF Outcome
    <2>4. CASE c.elapsed < Fast
      <3>1. Outcome(g) = "flood"
        BY <2>3, <2>4
      <3>2. Noted(g) = {f}
        BY <1>3, <3>1 DEF Noted
      <3>3. f.count < Burst /\ n <= 2 * Burst
        BY <1>0, <1>2, <2>1, <2>2
      <3>4. InCounter(n, f)
        BY <1>2, <3>3 DEF InCounter
      <3>5. BurstOf(n, {f})
        BY <1>2, <3>3, <3>4 DEF BurstOf
      <3> QED
        BY <3>1, <3>2, <3>5
    <2>5. CASE ~(c.elapsed < Fast)
      <3>1. Outcome(g) \in {"closed", "slow"}
        BY <2>3, <2>5
      <3>2. Noted(g) = {b}
        BY <1>3, <3>1 DEF Noted
      <3>3. n <= i.count
        BY <1>0, <1>1, <2>2, <2>5
      <3>4. n <= Burst + b.count /\ n + 1 <= Burst + b.count /\ b.count < Burst
        BY <1>0, <1>2, <2>1, <3>3
      <3>5. b.count < Burst /\ InCounter(n, b) /\ InCounter(n + 1, b)
        BY <1>2, <3>4 DEF InCounter
      <3>6. BurstOf(n, {b}) /\ BurstOf(n + 1, {b})
        <4> HIDE DEF b
        <4> QED
          BY <1>2, <3>5 DEF BurstOf
      <3> QED
        BY <3>1, <3>2, <3>6
    <2> QED
      BY <2>4, <2>5
  <1> QED
    BY <1>4, <1>5, <1>6

LEMMA CheckFloodKeeps ==
    ASSUME BurstInv, NEW g \in Guests, CheckFlood(g)
    PROVE  BurstInv'
  <1> DEFINE a == AddressOf[g]
             k == IF ClassIn[g] < Operator /\ Outcome(g) \in {"passes", "slow"} THEN 1 ELSE 0
  <1>0. /\ a \in Addresses /\ ClassIn[g] \in Nat /\ BurstOf(burst[a], acts[a])
        /\ acts \in [Addresses -> SUBSET FloodInfos] /\ burst \in [Addresses -> Nat]
    BY PluginUsersAssumption DEF BurstInv
  <1>1. acts' = [acts EXCEPT ![a] = Noted(g)]
    BY DEF CheckFlood
  <1>2. burst' = [burst EXCEPT ![a] = @ + k]
    <2>1. burst' = IF ClassIn[g] < Operator /\ Outcome(g) \in {"passes", "slow"}
                   THEN [burst EXCEPT ![a] = @ + 1] ELSE burst
      BY DEF CheckFlood
    <2>2. k = 0 \/ k = 1
      OBVIOUS
    <2>3. k = 1 => burst' = [burst EXCEPT ![a] = @ + 1]
      BY <2>1
    <2>4. k = 0 => burst' = burst
      BY <2>1
    <2>5. burst = [burst EXCEPT ![a] = @ + 0]
      BY <1>0
    <2> HIDE DEF k
    <2> QED
      BY <2>2, <2>3, <2>4, <2>5
  <1>3. BurstOf(burst[a] + k, Noted(g))
    <2>1. CASE ClassIn[g] >= Operator
      <3>1. Noted(g) = acts[a] /\ k = 0
        BY <1>0, <2>1 DEF Noted, Operator
      <3> QED
        BY <1>0, <3>1
    <2>2. CASE ~(ClassIn[g] >= Operator) /\ acts[a] = {}
      <3>1. Outcome(g) = "passes" /\ k = 1
        BY <1>0, <2>2 DEF Outcome, Operator
      <3>2. Noted(g) = {New}
        BY <2>2, <3>1 DEF Noted
      <3>3. New \in FloodInfos /\ New.count = 0 /\ New.elapsed = 0 /\ New.idle = 0
        BY DEF New, FloodInfos
      <3>4. burst[a] = 0 /\ Burst \in Nat \ {0}
        BY <1>0, <2>2, PluginUsersAssumption DEF BurstOf
      <3>5. New.count < Burst /\ InCounter(1, New)
        BY <3>3, <3>4 DEF InCounter
      <3>6. BurstOf(1, {New})
        BY <3>3, <3>5 DEF BurstOf
      <3> QED
        BY <3>1, <3>2, <3>4, <3>6
    <2>3. CASE ~(ClassIn[g] >= Operator) /\ acts[a] # {}
      <3>1. PICK i \in FloodInfos : acts[a] = {i} /\ i.count < Burst /\ InCounter(burst[a], i)
        BY <1>0, <2>3 DEF BurstOf
      <3>2. burst[a] \in Nat
        BY <1>0
      <3>3. BurstOf(burst[a] + (IF Outcome(g) \in {"passes", "slow"} THEN 1 ELSE 0), Noted(g))
        BY <2>3, <3>1, <3>2, ActionNoted
      <3>4. k = IF Outcome(g) \in {"passes", "slow"} THEN 1 ELSE 0
        BY <1>0, <2>3 DEF Operator
      <3> QED
        BY <3>3, <3>4
    <2> QED
      BY <2>1, <2>2, <2>3
  <1>4. Noted(g) \in SUBSET FloodInfos /\ burst[a] + k \in Nat
    <2>1. burst[a] + k \in Nat
      BY <1>3 DEF BurstOf
    <2>2. Noted(g) \in SUBSET FloodInfos
      BY <1>3 DEF BurstOf
    <2> QED
      BY <2>1, <2>2
  <1> HIDE DEF k
  <1>5. /\ acts' \in [Addresses -> SUBSET FloodInfos] /\ burst' \in [Addresses -> Nat]
        /\ \A x \in Addresses : \/ x = a /\ acts'[x] = Noted(g) /\ burst'[x] = burst[a] + k
                                \/ acts'[x] = acts[x] /\ burst'[x] = burst[x]
    BY <1>0, <1>1, <1>2, <1>4
  <1>6. ASSUME NEW x \in Addresses PROVE BurstOf(burst'[x], acts'[x])
    BY <1>3, <1>5 DEF BurstInv
  <1> QED
    BY <1>5, <1>6 DEF BurstInv

LEMMA FloodSecondKeeps ==
    ASSUME BurstInv, FloodSecond
    PROVE  BurstInv'
  <1>1. /\ burst' = [a \in Addresses |-> 0]
        /\ acts' = [a \in Addresses |-> IF "floodprot" \in plugs
                        THEN CleanUp({Idler(i) : i \in acts[a]}) ELSE acts[a]]
    BY DEF FloodSecond
  <1>2. ASSUME NEW i \in FloodInfos
        PROVE  Idler(i) \in FloodInfos /\ Idler(i).count = i.count
    BY PluginUsersAssumption, <1>2 DEF Idler, FloodInfos
  <1>3. ASSUME NEW a \in Addresses
        PROVE  acts'[a] \in SUBSET FloodInfos /\ BurstOf(0, acts'[a])
    <2>0. acts[a] \in SUBSET FloodInfos /\ BurstOf(burst[a], acts[a])
      BY DEF BurstInv
    <2>1. CASE acts'[a] = {}
      BY <2>1 DEF BurstOf
    <2>2. CASE acts'[a] # {}
      <3>1. acts[a] # {}
        BY <1>1, <2>2 DEF CleanUp
      <3>2. PICK i \in FloodInfos : acts[a] = {i} /\ i.count < Burst
        BY <2>0, <3>1 DEF BurstOf
      <3>3. acts'[a] = {Idler(i)} \/ acts'[a] = {i}
        BY <1>1, <2>2, <3>2 DEF CleanUp
      <3>4. PICK j \in FloodInfos : acts'[a] = {j} /\ j.count < Burst
        BY <1>2, <3>2, <3>3
      <3>5. j.count \in Nat
        BY DEF FloodInfos
      <3>6. InCounter(0, j)
        BY <3>5 DEF InCounter
      <3> QED
        BY <3>4, <3>6 DEF BurstOf
    <2> QED
      BY <2>1, <2>2
  <1>4. burst' \in [Addresses -> Nat] /\ \A a \in Addresses : burst'[a] = 0
    BY <1>1
  <1>5. acts' \in [Addresses -> SUBSET FloodInfos]
    <2>1. acts' = [a \in Addresses |-> acts'[a]]
      BY <1>1
    <2> QED
      BY <1>3, <2>1
  <1> QED
    BY <1>3, <1>4, <1>5 DEF BurstInv

LEMMA SwitchesBurst ==
    ASSUME BurstInv, NEW p \in Followers, Switches(p)
    PROVE  BurstInv'
  <1>1. UNCHANGED <<acts, burst>> \/ (acts' = [a \in Addresses |-> {}] /\ burst' = [a \in Addresses |-> 0])
    <2>1. CASE Loads(p)
      BY <2>1 DEF Loads
    <2>2. CASE Unloads(p)
      BY <2>2 DEF Unloads
    <2> QED
      BY <2>1, <2>2 DEF Switches
  <1>2. CASE UNCHANGED <<acts, burst>>
    BY <1>2, BurstQuiet
  <1>3. CASE acts' = [a \in Addresses |-> {}] /\ burst' = [a \in Addresses |-> 0]
    BY <1>3 DEF BurstInv, BurstOf
  <1> QED
    BY <1>1, <1>2, <1>3

LEMMA BurstInvStops ==
    ASSUME BurstInv
    PROVE  BurstStopped
  <1> SUFFICES ASSUME NEW a \in Addresses PROVE burst[a] <= 2 * Burst
    BY DEF BurstStopped
  <1>1. BurstOf(burst[a], acts[a]) /\ Burst \in Nat /\ burst[a] \in Nat
    BY PluginUsersAssumption DEF BurstInv
  <1>2. CASE burst[a] = 0
    BY <1>1, <1>2
  <1>3. CASE \E i \in FloodInfos : i.count < Burst /\ InCounter(burst[a], i)
    <2>1. PICK i \in FloodInfos : i.count < Burst /\ InCounter(burst[a], i)
      BY <1>3
    <2>2. i.count \in Nat
      BY DEF FloodInfos
    <2> QED
      BY <1>1, <2>1, <2>2 DEF InCounter
  <1> QED
    BY <1>1, <1>2, <1>3 DEF BurstOf
-----------------------------------------------------------------------------
(* PluginUsers: who is in the rooms, and the mail *)

Rooms == [from : Nat, upto : Nat, min : Nat, members : SUBSET Guests]
RoomInv == place \in [Guests -> States] /\ room \subseteq Rooms /\ RoomsRight

Mail == [id : Nat, by : Guests, to : Guests, at : Nat \ {0}]

\* What the cache does not know of is newer than its last update, and an
\* empty cache knows of nothing.
MailInv ==
    /\ clock \in Nat \ {0} /\ sent \in Nat /\ lastUpdate \in Nat /\ lastUpdate <= clock
    /\ box \subseteq mailed /\ mailed \subseteq Mail
    /\ \A m \in mailed : m.id < sent /\ m.at <= clock
    /\ "messenger" \notin plugs => cache = {} /\ lastUpdate = 0
    /\ \A m \in box : m.at > lastUpdate \/ m.to \in cache \/ m \in overlooked
    /\ MailKept /\ MailFound

LEMMA HereMoves ==
    ASSUME HereInv, NEW g \in Guests, ComesAndGoes(g)
    PROVE  HereInv'
  <1>0. place \in [Guests -> States] /\ ending \subseteq {h \in Guests : place[h] # "away"}
    BY DEF HereInv
  <1>1. CASE Connects(g) \/ EntersList(g) \/ LogsIn(g)
    <2>1. PICK s \in {"open", "listed", "in"} : place' = [place EXCEPT ![g] = s]
      BY <1>1 DEF Connects, EntersList, LogsIn
    <2>2. ending' \subseteq ending \cup {g}
      BY <1>1 DEF Connects, EntersList, LogsIn
    <2> QED
      BY <1>0, <2>1, <2>2 DEF HereInv, States
  <1>2. CASE Ends(g)
    BY <1>0, <1>2 DEF Ends, HereInv
  <1>3. CASE DeleteConn(g)
    BY <1>0, <1>3 DEF DeleteConn, HereInv, States
  <1> QED
    BY <1>1, <1>2, <1>3 DEF ComesAndGoes

LEMMA RoomQuiet ==
    ASSUME RoomInv, UNCHANGED <<place, room>>
    PROVE  RoomInv'
  BY DEF RoomInv, RoomsRight, In

\* A record of a room with other members.
LEMMA OtherMembers ==
    ASSUME NEW r \in Rooms, NEW ms \in SUBSET Guests
    PROVE  [r EXCEPT !.members = ms] \in Rooms /\ [r EXCEPT !.members = ms].members = ms
  BY DEF Rooms

LEMMA ComesAndGoesRooms ==
    ASSUME RoomInv, NEW g \in Guests, ComesAndGoes(g)
    PROVE  RoomInv'
  <1>0. /\ place \in [Guests -> States] /\ room \subseteq Rooms
        /\ \A r \in room : r.members \subseteq In /\ r.members \in SUBSET Guests
    BY DEF RoomInv, RoomsRight, Rooms
  <1>1. CASE Connects(g) \/ EntersList(g)
    <2>1. PICK s \in {"open", "listed"} : place' = [place EXCEPT ![g] = s]
      BY <1>1 DEF Connects, EntersList
    <2>2. room' = room
      BY <1>1 DEF Connects, EntersList
    <2>3. (Connects(g) => place[g] = "away") /\ (EntersList(g) => place[g] = "open")
      BY DEF Connects, EntersList
    <2>4. In \subseteq In'
      BY <1>0, <1>1, <2>1, <2>3 DEF In
    <2>5. place' \in [Guests -> States]
      BY <1>0, <2>1 DEF States
    <2> QED
      BY <1>0, <2>2, <2>4, <2>5 DEF RoomInv, RoomsRight
  <1>2. CASE LogsIn(g)
    <2>1. place' = [place EXCEPT ![g] = "in"] /\ place' \in [Guests -> States]
      BY <1>0, <1>2 DEF LogsIn, States
    <2>2. In \subseteq In' /\ g \in In'
      BY <1>0, <2>1 DEF In
    <2>3. CASE room' = room
      BY <1>0, <2>1, <2>2, <2>3 DEF RoomInv, RoomsRight
    <2>4. CASE room' = Joined(g)
      <3>1. ASSUME NEW q \in room' PROVE q \in Rooms /\ q.members \subseteq In'
        <4>1. PICK r \in room : q = IF IsUserAutoJoin(r, g)
                                    THEN [r EXCEPT !.members = @ \cup {g}] ELSE r
          BY <2>4 DEF Joined
        <4>2. r \in Rooms /\ r.members \subseteq In' /\ r.members \cup {g} \in SUBSET Guests
          BY <1>0, <2>2
        <4>3. [r EXCEPT !.members = r.members \cup {g}] \in Rooms
              /\ [r EXCEPT !.members = r.members \cup {g}].members = r.members \cup {g}
          BY <4>2, OtherMembers
        <4> QED
          BY <2>2, <4>1, <4>2, <4>3
      <3> QED
        BY <2>1, <3>1 DEF RoomInv, RoomsRight
    <2> QED
      BY <1>2, <2>3, <2>4 DEF LogsIn, AutoJoin
  <1>3. CASE Ends(g)
    BY <1>3, RoomQuiet DEF Ends
  <1>4. CASE DeleteConn(g)
    <2>1. place' = [place EXCEPT ![g] = "away"] /\ place' \in [Guests -> States]
      BY <1>0, <1>4 DEF DeleteConn, States
    <2>2. In' = In \ {g}
      BY <1>0, <2>1 DEF In
    <2>3. CASE g \notin In
      <3>1. room' = room
        BY <1>4, <2>3 DEF DeleteConn
      <3> QED
        BY <1>0, <2>1, <2>2, <2>3, <3>1 DEF RoomInv, RoomsRight
    <2>4. CASE g \in In
      <3>1. room' = {[r EXCEPT !.members = @ \ {g}] : r \in room}
        BY <1>4, <2>4 DEF DeleteConn, Left
      <3>2. ASSUME NEW q \in room' PROVE q \in Rooms /\ q.members \subseteq In'
        <4>1. PICK r \in room : q = [r EXCEPT !.members = r.members \ {g}]
          BY <3>1
        <4>2. r \in Rooms /\ r.members \subseteq In /\ r.members \ {g} \in SUBSET Guests
          BY <1>0
        <4>3. q \in Rooms /\ q.members = r.members \ {g}
          BY <4>1, <4>2, OtherMembers
        <4> QED
          BY <2>2, <4>2, <4>3
      <3> QED
        BY <2>1, <3>2 DEF RoomInv, RoomsRight
    <2> QED
      BY <2>3, <2>4
  <1> QED
    BY <1>1, <1>2, <1>3, <1>4 DEF ComesAndGoes

LEMMA NewRoom ==
    ASSUME NEW ms \in SUBSET Guests
    PROVE  /\ [from |-> 1, upto |-> 2, min |-> 1, members |-> ms] \in Rooms
           /\ [from |-> 1, upto |-> 2, min |-> 1, members |-> ms].members = ms
  BY DEF Rooms

LEMMA SwitchesRooms ==
    ASSUME RoomInv, NEW p \in Followers, Switches(p)
    PROVE  RoomInv'
  <1>0. place' = place /\ In' = In /\ place \in [Guests -> States]
    BY DEF Switches, Loads, Unloads, connVars, In, RoomInv
  <1>1. CASE room' = room \/ room' = {}
    BY <1>0, <1>1 DEF RoomInv, RoomsRight
  <1>2. CASE Loads(p) /\ p = "chatroom"
    <2> DEFINE ms == {g \in In : 1 <= ClassIn[g] /\ ClassIn[g] <= 2}
    <2>1. room' = {[from |-> 1, upto |-> 2, min |-> 1, members |-> ms]}
      BY <1>2 DEF Loads
    <2>2. ms \in SUBSET Guests /\ ms \subseteq In
      BY DEF In
    <2> HIDE DEF ms
    <2> QED
      BY <1>0, <2>1, <2>2, NewRoom DEF RoomInv, RoomsRight
  <1> QED
    BY <1>1, <1>2 DEF Switches, Loads, Unloads

LEMMA RoomStepsKeep ==
    ASSUME RoomInv, RoomSteps
    PROVE  RoomInv' /\ UNCHANGED <<place, ending, plugs, floodVars, mailVars>>
  <1>0. /\ place \in [Guests -> States] /\ room \subseteq Rooms /\ In \in SUBSET Guests
        /\ \A r \in room : r.members \subseteq In /\ r.members \in SUBSET Guests
    BY DEF RoomInv, RoomsRight, Rooms, In
  <1>1. ASSUME UNCHANGED <<connVars, plugs, floodVars, mailVars>>,
               \A q \in room' : q \in Rooms /\ q.members \subseteq In
        PROVE  RoomInv' /\ UNCHANGED <<place, ending, plugs, floodVars, mailVars>>
    <2>1. place' = place /\ ending' = ending /\ plugs' = plugs
      BY <1>1 DEF connVars
    <2>2. In' = In
      BY <2>1 DEF In
    <2>3. UNCHANGED <<floodVars, mailVars>>
      BY <1>1
    <2> QED
      BY <1>0, <1>1, <2>1, <2>2, <2>3 DEF RoomInv, RoomsRight
  <1>2. CASE AddsRoom
    <2>1. room' = {[from |-> 1, upto |-> 2, min |-> 1, members |-> {}]}
          /\ UNCHANGED <<connVars, plugs, floodVars, mailVars>>
      BY <1>2 DEF AddsRoom
    <2>2. \A q \in room' : q \in Rooms /\ q.members = {}
      BY <2>1, NewRoom
    <2> QED
      BY <1>1, <2>1, <2>2
  <1>3. CASE DelsRoom
    <2>1. room' = {} /\ UNCHANGED <<connVars, plugs, floodVars, mailVars>>
      BY <1>3 DEF DelsRoom
    <2> QED
      BY <1>1, <2>1
  <1>4. ASSUME NEW c \in 1 .. Operator, ModsRoom(c)
        PROVE  RoomInv' /\ UNCHANGED <<place, ending, plugs, floodVars, mailVars>>
    <2>1. room' = {[r EXCEPT !.from = c, !.upto = c] : r \in room}
          /\ UNCHANGED <<connVars, plugs, floodVars, mailVars>>
      BY <1>4 DEF ModsRoom
    <2>2. c \in Nat
      BY DEF Operator
    <2>3. ASSUME NEW q \in room' PROVE q \in Rooms /\ q.members \subseteq In
      <3>1. PICK r \in room : q = [r EXCEPT !.from = c, !.upto = c]
        BY <2>1
      <3>2. r \in Rooms /\ r.members \subseteq In
        BY <1>0
      <3>3. q \in Rooms /\ q.members = r.members
        BY <2>2, <3>1, <3>2 DEF Rooms
      <3> QED
        BY <3>2, <3>3
    <2> QED
      BY <1>1, <2>1, <2>3
  <1>5. ASSUME NEW g \in Guests, NEW ms,
               \E r \in room : /\ g \in In \ ending /\ room' = {[r EXCEPT !.members = ms]}
                               /\ ms \subseteq r.members \cup In,
               UNCHANGED <<connVars, plugs, floodVars, mailVars>>
        PROVE  RoomInv' /\ UNCHANGED <<place, ending, plugs, floodVars, mailVars>>
    <2>1. PICK r \in room : room' = {[r EXCEPT !.members = ms]} /\ ms \subseteq r.members \cup In
      BY <1>5
    <2>2. r \in Rooms /\ ms \subseteq In /\ ms \in SUBSET Guests
      BY <1>0, <2>1
    <2>3. \A q \in room' : q \in Rooms /\ q.members \subseteq In
      BY <2>1, <2>2, OtherMembers
    <2> QED
      BY <1>1, <1>5, <2>3
  <1>6. ASSUME NEW g \in Guests, ReceiveMsg(g)
        PROVE  RoomInv' /\ UNCHANGED <<place, ending, plugs, floodVars, mailVars>>
    <2>1. PICK r \in room : g \in In \ ending /\ room' = {[r EXCEPT !.members = @ \cup {g}]}
      BY <1>6 DEF ReceiveMsg, MemberSays
    <2>2. UNCHANGED <<connVars, plugs, floodVars, mailVars>>
      BY <1>6 DEF ReceiveMsg, MemberSays
    <2>3. r.members \cup {g} \subseteq r.members \cup In
      BY <2>1
    <2> QED
      BY <1>5, <2>1, <2>2, <2>3
  <1>7. ASSUME NEW g \in Guests, cfLeave(g)
        PROVE  RoomInv' /\ UNCHANGED <<place, ending, plugs, floodVars, mailVars>>
    <2>1. PICK r \in room : /\ g \in In \ ending
                            /\ room' = {[[r EXCEPT !.members = @ \cup {g}] EXCEPT !.members = @ \ {g}]}
      BY <1>7 DEF cfLeave, MemberSays
    <2>2. UNCHANGED <<connVars, plugs, floodVars, mailVars>>
      BY <1>7 DEF cfLeave, MemberSays
    <2>3. /\ r \in Rooms /\ (r.members \cup {g}) \ {g} \subseteq r.members \cup In
          /\ r.members \cup {g} \in SUBSET Guests
      BY <1>0
    <2>4. [[r EXCEPT !.members = @ \cup {g}] EXCEPT !.members = @ \ {g}]
            = [r EXCEPT !.members = (r.members \cup {g}) \ {g}]
      BY <2>3 DEF Rooms
    <2> QED
      BY <1>5, <2>1, <2>2, <2>3, <2>4
  <1>8. ASSUME NEW g \in Guests, NEW h \in Guests, cfInvite(g, h)
        PROVE  RoomInv' /\ UNCHANGED <<place, ending, plugs, floodVars, mailVars>>
    <2>1. PICK r \in room : /\ g \in In \ ending
                            /\ room' = {[[r EXCEPT !.members = @ \cup {g}] EXCEPT !.members = @ \cup {h}]}
      BY <1>8 DEF cfInvite, MemberSays
    <2>2. UNCHANGED <<connVars, plugs, floodVars, mailVars>> /\ h \in In
      BY <1>8 DEF cfInvite, MemberSays
    <2>3. r \in Rooms /\ (r.members \cup {g}) \cup {h} \subseteq r.members \cup In
      BY <1>0, <2>1, <2>2
    <2>4. [[r EXCEPT !.members = @ \cup {g}] EXCEPT !.members = @ \cup {h}]
            = [r EXCEPT !.members = (r.members \cup {g}) \cup {h}]
      BY <2>3 DEF Rooms
    <2> QED
      BY <1>5, <2>1, <2>2, <2>3, <2>4
  <1>9. ASSUME NEW g \in Guests, NEW h \in Guests, cfOut(g, h)
        PROVE  RoomInv' /\ UNCHANGED <<place, ending, plugs, floodVars, mailVars>>
    <2>1. PICK r \in room : /\ g \in In \ ending
                            /\ room' = {[[r EXCEPT !.members = @ \cup {g}] EXCEPT !.members = @ \ {h}]}
      BY <1>9 DEF cfOut, MemberSays
    <2>2. UNCHANGED <<connVars, plugs, floodVars, mailVars>>
      BY <1>9 DEF cfOut, MemberSays
    <2>3. r \in Rooms /\ (r.members \cup {g}) \ {h} \subseteq r.members \cup In
      BY <1>0, <2>1
    <2>4. [[r EXCEPT !.members = @ \cup {g}] EXCEPT !.members = @ \ {h}]
            = [r EXCEPT !.members = (r.members \cup {g}) \ {h}]
      BY <2>3 DEF Rooms
    <2> QED
      BY <1>5, <2>1, <2>2, <2>3, <2>4
  <1> QED
    BY <1>2, <1>3, <1>4, <1>6, <1>7, <1>8, <1>9 DEF RoomSteps
-----------------------------------------------------------------------------
(* PluginUsers: the mail, and all the steps *)

LEMMA MailQuiet ==
    ASSUME MailInv, UNCHANGED mailVars, UNCHANGED plugs
    PROVE  MailInv'
  BY DEF MailInv, MailKept, MailFound, IsLoaded, mailVars

LEMMA MailFacts ==
    ASSUME MailInv
    PROVE  /\ clock \in Nat \ {0} /\ sent \in Nat /\ lastUpdate \in Nat /\ MailLife \in Nat
           /\ lastUpdate <= clock /\ box \subseteq mailed /\ mailed \subseteq Mail
           /\ \A m \in mailed : /\ m.at \in Nat \ {0} /\ m.id \in Nat /\ m.at <= clock
                                /\ m.id < sent
  BY PluginUsersAssumption DEF MailInv, Mail

\* Mail leaves the table: what goes has been shown, or has run out.
LEMMA MailLeaves ==
    ASSUME MailInv, NEW gone, box' = box \ gone, got \subseteq got',
           \A m \in gone \cap box : m \in got' \/ m.at + MailLife < clock,
           UNCHANGED <<plugs, cache, lastUpdate, clock, sent, mailed, overlooked>>
    PROVE  MailInv'
  <1>1. box' \subseteq box
    OBVIOUS
  <1>2. MailKept'
    BY DEF MailInv, MailKept
  <1>3. MailFound'
    BY <1>1 DEF MailInv, MailFound, IsLoaded
  <1> QED
    BY <1>1, <1>2, <1>3 DEF MailInv

LEMMA ComesAndGoesMail ==
    ASSUME MailInv, NEW g \in Guests, ComesAndGoes(g)
    PROVE  MailInv'
  <1>1. CASE LogsIn(g)
    <2>1. UNCHANGED <<plugs, cache, lastUpdate, clock, sent, mailed, overlooked>>
      BY <1>1 DEF LogsIn
    <2>2. \/ UNCHANGED <<box, got>>
          \/ DeliverMessagesForUser(g)
      BY <1>1 DEF LogsIn, MailOnLogin
    <2>3. CASE UNCHANGED <<box, got>>
      BY <2>1, <2>3 DEF MailInv, MailKept, MailFound, IsLoaded
    <2>4. CASE DeliverMessagesForUser(g)
      <3> DEFINE gone == DeletedFor(g, {m \in box : m.at <= Max({x.at : x \in For(g)})})
      <3>1. box' = box \ gone /\ got' = got \cup For(g)
        BY <2>4 DEF DeliverMessagesForUser
      <3>2. gone \subseteq For(g)
        BY DEF DeletedFor, For
      <3> HIDE DEF gone
      <3> QED
        BY <2>1, <3>1, <3>2, MailLeaves
    <2> QED
      BY <2>2, <2>3, <2>4
  <1>2. CASE Connects(g) \/ EntersList(g) \/ Ends(g) \/ DeleteConn(g)
    <2>1. UNCHANGED mailVars /\ plugs' = plugs
      BY <1>2 DEF Connects, EntersList, Ends, DeleteConn
    <2> QED
      BY <2>1, MailQuiet
  <1> QED
    BY <1>1, <1>2 DEF ComesAndGoes

LEMMA SwitchesMail ==
    ASSUME MailInv, NEW p \in Followers, Switches(p)
    PROVE  MailInv'
  <1>1. CASE Loads(p) /\ p = "messenger"
    <2>1. /\ plugs' = plugs \cup {p} /\ "messenger" \notin plugs
          /\ box' = {m \in box : m.at + MailLife >= clock} /\ overlooked' = box'
          /\ lastUpdate' = clock
          /\ UNCHANGED <<cache, clock, sent, mailed, got>>
      BY <1>1 DEF Loads, OpensBox
    <2>2. /\ box' \subseteq box
          /\ \A m \in box \ box' : m.at + MailLife < clock
      BY <2>1, MailFacts
    <2>3. MailKept'
      BY <2>1, <2>2 DEF MailInv, MailKept
    <2>4. MailFound'
      BY <2>1 DEF MailFound
    <2>5. clock \in Nat /\ clock <= clock /\ "messenger" \in plugs'
      BY <1>1, <2>1, MailFacts
    <2> QED
      BY <2>1, <2>2, <2>3, <2>4, <2>5 DEF MailInv
  <1>4. CASE Loads(p) /\ p # "messenger"
    <2>1. /\ "messenger" \in plugs' <=> "messenger" \in plugs
          /\ UNCHANGED <<box, cache, lastUpdate, clock, sent, mailed, got, overlooked>>
      BY <1>4 DEF Loads
    <2> QED
      BY <2>1 DEF MailInv, MailKept, MailFound, IsLoaded
  <1>2. CASE Unloads(p) /\ p = "messenger"
    <2>1. /\ plugs' = plugs \ {p} /\ cache' = {} /\ lastUpdate' = 0 /\ overlooked' = {}
          /\ UNCHANGED <<clock, sent, mailed, got, box>>
      BY <1>2 DEF Unloads
    <2>2. \A m \in box : m.at > 0
      BY MailFacts
    <2>3. 0 \in Nat /\ 0 <= clock
      BY MailFacts
    <2>4. MailKept' /\ MailFound'
      BY <1>2, <2>1 DEF MailInv, MailKept, MailFound
    <2> QED
      BY <2>1, <2>2, <2>3, <2>4 DEF MailInv
  <1>3. CASE Unloads(p) /\ p # "messenger"
    <2>1. /\ UNCHANGED <<box, cache, lastUpdate, clock, sent, mailed, got, overlooked>>
          /\ "messenger" \in plugs' <=> "messenger" \in plugs
      BY <1>3 DEF Unloads
    <2> QED
      BY <2>1 DEF MailInv, MailKept, MailFound, IsLoaded
  <1> QED
    BY <1>1, <1>2, <1>3, <1>4 DEF Switches

LEMMA SendsMailKeeps ==
    ASSUME MailInv, NEW g \in Guests, NEW to \in Guests, SendsMail(g, to)
    PROVE  MailInv'
  <1> DEFINE m == [id |-> sent, by |-> g, to |-> to, at |-> clock]
  <1>1. /\ "messenger" \in plugs /\ sent' = sent + 1
        /\ box' = Saved(m) /\ mailed' = mailed \cup {m}
        /\ cache' = IF IsLoaded THEN cache \cup {to} ELSE cache
        /\ overlooked' = IF ~IsLoaded /\ lastUpdate = clock
                         THEN overlooked \cup {m} ELSE overlooked
        /\ UNCHANGED <<plugs, lastUpdate, clock, got>>
    BY DEF SendsMail
  <1>2. m \in Mail /\ m.id = sent /\ m.to = to /\ m.at = clock
    BY MailFacts DEF Mail
  <1> HIDE DEF m
  <1>3. m \notin mailed
    BY <1>2, MailFacts
  <1>4. /\ box \subseteq box' /\ box' \subseteq box \cup {m}
        /\ m \in box' \/ \E x \in box : x.by = m.by /\ x.at = m.at
    BY <1>1 DEF Saved
  <1>5. MailKept'
    <2> SUFFICES ASSUME NEW y \in mailed'
                 PROVE  \/ y \in box' \cup got \/ y.at + MailLife < clock
                        \/ \E x \in mailed' \ {y} : x.by = y.by /\ x.at = y.at
      BY <1>1 DEF MailKept
    <2>1. CASE y = m
      BY <1>1, <1>3, <1>4, <2>1, MailFacts
    <2>2. CASE y \in mailed
      BY <1>1, <1>4, <2>2 DEF MailInv, MailKept
    <2> QED
      BY <1>1, <2>1, <2>2
  <1>6. \A y \in box' : y.at > lastUpdate \/ y.to \in cache' \/ y \in overlooked'
    <2>1. cache \subseteq cache' /\ overlooked \subseteq overlooked'
      BY <1>1
    <2>2. m.at > lastUpdate \/ m.to \in cache' \/ m \in overlooked'
      BY <1>1, <1>2, MailFacts
    <2> QED
      BY <1>4, <2>1, <2>2 DEF MailInv
  <1>7. MailFound'
    <2> SUFFICES ASSUME cache' # {}, NEW y \in box'
                 PROVE  y.to \in cache' \/ y \in overlooked'
      BY DEF MailFound, IsLoaded
    <2>1. IsLoaded /\ cache' = cache \cup {to}
      BY <1>1 DEF IsLoaded
    <2>2. overlooked' = overlooked
      BY <1>1, <2>1
    <2> QED
      BY <1>1, <1>2, <1>4, <2>1, <2>2 DEF MailInv, MailFound
  <1>8. /\ sent' \in Nat /\ box' \subseteq mailed' /\ mailed' \subseteq Mail
        /\ \A y \in mailed' : y.id < sent' /\ y.at <= clock
    BY <1>1, <1>2, <1>4, MailFacts
  <1> QED
    BY <1>1, <1>5, <1>6, <1>7, <1>8 DEF MailInv

LEMMA SyncsKeeps ==
    ASSUME MailInv, Syncs
    PROVE  MailInv'
  <1>1. /\ "messenger" \in plugs
        /\ cache' = cache \cup {m.to : m \in NewRows} /\ lastUpdate' = clock
        /\ box' = box \ SinceSync /\ got' = got \cup SinceSync
        /\ UNCHANGED <<plugs, clock, sent, mailed, overlooked>>
    BY DEF Syncs, UpdateCache
  <1>2. \A m \in box : m.to \in cache' \/ m \in overlooked
    BY <1>1 DEF MailInv, NewRows
  <1>3. box' \subseteq box
    BY <1>1
  <1>4. MailKept'
    BY <1>1 DEF MailInv, MailKept
  <1>5. MailFound'
    BY <1>1, <1>2, <1>3 DEF MailFound
  <1>6. clock \in Nat /\ clock <= clock
    BY MailFacts
  <1> QED
    BY <1>1, <1>2, <1>3, <1>4, <1>5, <1>6 DEF MailInv

LEMMA MailSecondKeeps ==
    ASSUME MailInv, MailSecond
    PROVE  MailInv'
  <1>1. /\ clock' = clock + 1
        /\ UNCHANGED <<plugs, box, cache, lastUpdate, sent, mailed, got, overlooked>>
    BY DEF MailSecond
  <1>2. MailKept'
    BY <1>1, MailFacts DEF MailInv, MailKept
  <1>3. MailFound'
    BY <1>1 DEF MailInv, MailFound, IsLoaded
  <1>4. /\ clock' \in Nat \ {0} /\ lastUpdate <= clock' /\ \A m \in mailed : m.at <= clock'
    BY <1>1, MailFacts
  <1> QED
    BY <1>1, <1>2, <1>3, <1>4 DEF MailInv

GuestsInv == HereInv /\ PointsInv /\ BurstInv /\ RoomInv /\ MailInv

LEMMA GuestsInvInit == GuestsInit => GuestsInv
  <1> SUFFICES ASSUME GuestsInit PROVE GuestsInv
    OBVIOUS
  <1>1. /\ place = [g \in Guests |-> "away"] /\ place \in [Guests -> States] /\ ending = {}
        /\ points = [a \in Addresses |-> 0] /\ points \in [Addresses -> Nat]
        /\ room = {} /\ plugs \in {{}, {"floodprot"}}
    BY DEF GuestsInit, States
  <1>2. ASSUME NEW a \in Addresses PROVE Owed(a) = 0
    <2>1. Here(a) = {} /\ Inside(a) = {}
      BY <1>1 DEF Here, Inside
    <2>2. Cardinality({}) = 0
      BY FS_EmptySet
    <2> QED
      BY <1>1, <2>1, <2>2, OwedIs
  <1>3. HereInv /\ RoomInv
    BY <1>1 DEF HereInv, RoomInv, RoomsRight
  <1>4. PointsInv
    BY <1>1, <1>2 DEF PointsInv, PointsRight
  <1>5. BurstInv
    <2>1. acts = [a \in Addresses |-> {}] /\ burst = [a \in Addresses |-> 0]
      BY DEF GuestsInit
    <2> QED
      BY <2>1 DEF BurstInv, BurstOf
  <1>6. MailInv
    <2>1. /\ box = {} /\ cache = {} /\ lastUpdate = 0 /\ clock = 1 /\ sent = 1 /\ mailed = {}
      BY DEF GuestsInit
    <2> QED
      BY <2>1 DEF MailInv, MailKept, MailFound
  <1> QED
    BY <1>3, <1>4, <1>5, <1>6 DEF GuestsInv

\* Steps that leave the connections and the points alone.
LEMMA ConnectionsQuiet ==
    ASSUME HereInv, PointsInv, RoomInv, UNCHANGED <<place, points, plugs, unseen, room>>,
           ending' \subseteq ending \cup In
    PROVE  HereInv' /\ PointsInv' /\ RoomInv'
  <1>1. HereInv'
    BY DEF HereInv, In
  <1> QED
    BY <1>1, PointsQuiet, RoomQuiet

LEMMA GuestsInvNext == GuestsInv /\ [GuestsNext]_guestsVars => GuestsInv'
  <1> SUFFICES ASSUME GuestsInv, [GuestsNext]_guestsVars PROVE GuestsInv'
    OBVIOUS
  <1>0. HereInv /\ PointsInv /\ BurstInv /\ RoomInv /\ MailInv
    BY DEF GuestsInv
  <1>1. ASSUME NEW p \in Followers, Switches(p) PROVE GuestsInv'
    <2>1. UNCHANGED <<place, ending>>
      BY <1>1 DEF Switches, Loads, Unloads, connVars
    <2>2. HereInv'
      BY <1>0, <2>1 DEF HereInv
    <2> QED
      BY <1>0, <1>1, <2>2, SwitchesPoints, SwitchesBurst, SwitchesRooms, SwitchesMail DEF GuestsInv
  <1>2. ASSUME NEW g \in Guests, ComesAndGoes(g) PROVE GuestsInv'
    <2>1. UNCHANGED <<acts, burst>>
      BY <1>2 DEF ComesAndGoes, Connects, EntersList, LogsIn, Ends, DeleteConn, floodVars
    <2>2. BurstInv'
      BY <1>0, <2>1, BurstQuiet
    <2> QED
      BY <1>0, <1>2, <2>2, HereMoves, ComesAndGoesPoints, ComesAndGoesRooms, ComesAndGoesMail
         DEF GuestsInv
  <1>3. CASE FloodSecond
    <2>1. UNCHANGED <<place, ending, plugs, points, unseen, room>> /\ UNCHANGED mailVars
      BY <1>3 DEF FloodSecond, connVars
    <2> QED
      BY <1>0, <1>3, <2>1, ConnectionsQuiet, FloodSecondKeeps, MailQuiet DEF GuestsInv
  <1>4. ASSUME NEW g \in Guests, CheckFlood(g) PROVE GuestsInv'
    <2>1. UNCHANGED <<place, plugs, points, unseen, room>> /\ UNCHANGED mailVars
      BY <1>4 DEF CheckFlood
    <2>2. g \in In /\ ending' \subseteq ending \cup In
      <3>1. g \in In
        BY <1>4 DEF CheckFlood, In
      <3>2. KickAll(AddressOf[g]) \subseteq In
        BY DEF KickAll
      <3>3. \/ ending' = ending \cup KickAll(AddressOf[g])
            \/ ending' = ending \cup {g}
            \/ ending' = ending \cup {}
        BY <1>4 DEF CheckFlood
      <3> QED
        BY <3>1, <3>2, <3>3
    <2> QED
      BY <1>0, <1>4, <2>1, <2>2, ConnectionsQuiet, CheckFloodKeeps, MailQuiet DEF GuestsInv
  <1>5. CASE RoomSteps
    <2>1. RoomInv' /\ UNCHANGED <<place, ending, plugs, floodVars, mailVars>>
      BY <1>0, <1>5, RoomStepsKeep
    <2>2. UNCHANGED <<points, unseen, acts, burst>>
      BY <2>1 DEF floodVars
    <2>3. HereInv'
      BY <1>0, <2>1 DEF HereInv
    <2> QED
      BY <1>0, <2>1, <2>2, <2>3, PointsQuiet, BurstQuiet, MailQuiet DEF GuestsInv
  <1>6. CASE MailSteps(Guests)
    <2>1. UNCHANGED <<place, ending, plugs, points, unseen, acts, burst, room>>
      BY <1>6 DEF MailSteps, MailSecond, Syncs, SendsMail, connVars, floodVars
    <2>2. ending' \subseteq ending \cup In
      BY <2>1
    <2>3. MailInv'
      BY <1>0, <1>6, SendsMailKeeps, SyncsKeeps, MailSecondKeeps DEF MailSteps
    <2> QED
      BY <1>0, <2>1, <2>2, <2>3, ConnectionsQuiet, BurstQuiet DEF GuestsInv
  <1>7. CASE UNCHANGED guestsVars
    <2>1. UNCHANGED <<place, ending, plugs, points, unseen, acts, burst, room>> /\ UNCHANGED mailVars
      BY <1>7 DEF guestsVars, connVars, floodVars
    <2>2. ending' \subseteq ending \cup In
      BY <2>1
    <2> QED
      BY <1>0, <2>1, <2>2, ConnectionsQuiet, BurstQuiet, MailQuiet DEF GuestsInv
  <1> QED
    BY <1>1, <1>2, <1>3, <1>4, <1>5, <1>6, <1>7 DEF GuestsNext, FloodSteps

\* What floodprot, chatroom and messenger keep about users is true of the users
\* in the hub, for any users, addresses, limits and times, with the plugins
\* loaded and unloaded at any moment (pi_floodprot, pi_chatroom, pi_messenger).
THEOREM GuestsServedAlways == GuestsSpec => []GuestsServed
  <1>1. GuestsInv => GuestsServed
    BY BurstInvStops DEF GuestsInv, GuestsServed, PointsInv, RoomInv, MailInv
  <1> QED
    BY <1>1, GuestsInvInit, GuestsInvNext, PTL DEF GuestsSpec

-----------------------------------------------------------------------------
(* The user list as the clients see it *)

Chains == Seq(RosterUsers)

\* The entries in order are put together chain by chain.
LEMMA InOrderJoins ==
    ASSUME NEW bs \in Seq(Chains)
    PROVE  \E j \in [0 .. Len(bs) -> Chains] :
              /\ InOrder(bs) = j[Len(bs)] /\ j[0] = <<>>
              /\ \A i \in 1 .. Len(bs) : j[i] = j[i - 1] \o bs[i]
  <1> DEFINE n == Len(bs)
             solves(f) == f = [i \in 0 .. n |-> IF i = 0 THEN <<>> ELSE f[i - 1] \o bs[i]]
             joined == CHOOSE f : solves(f)
             step == [i \in 1 .. n |-> [c \in Chains |-> c \o bs[i]]]
  <1>1. n \in Nat /\ <<>> \in Chains /\ \A i \in 1 .. n : bs[i] \in Chains
    BY DEF Chains
  <1>2. ASSUME NEW i \in 1 .. n, NEW c \in Chains PROVE c \o bs[i] \in Chains
    BY <1>1 DEF Chains
  <1> HIDE DEF n
  <1>3. step \in [1 .. n -> [Chains -> Chains]]
    BY <1>2
  <1>12. ASSUME NEW i \in 1 .. n, NEW c \in Chains PROVE step[i][c] = c \o bs[i]
    OBVIOUS
  <1> HIDE DEF step
  <1>4. PICK f \in [0 .. n -> Chains] :
           f[0] = <<>> /\ \A i \in 1 .. n : f[i] = step[i][f[i - 1]]
    <2> DEFINE empty == <<>>
    <2>1. n \in Nat /\ empty \in Chains
      BY <1>1
    <2> HIDE DEF solves, empty
    <2>2. \E f \in [0 .. n -> Chains] :
           f[0] = empty /\ \A i \in 1 .. n : f[i] = step[i][f[i - 1]]
      BY <2>1, <1>3, Repeated
    <2> QED
      BY <2>2 DEF empty
  <1>5. solves(f)
    <2>1. ASSUME NEW i \in 0 .. n PROVE f[i] = IF i = 0 THEN <<>> ELSE f[i - 1] \o bs[i]
      <3>1. CASE i = 0
        BY <1>4, <3>1
      <3>2. CASE i # 0
        <4>1. i \in 1 .. n /\ i - 1 \in 0 .. n
          BY <1>1, <3>2
        <4>2. f[i - 1] \in Chains
          BY <1>4, <4>1
        <4>3. f[i] = f[i - 1] \o bs[i]
          BY <1>12, <1>4, <4>1, <4>2
        <4> QED
          BY <3>2, <4>3
      <3> QED
        BY <3>1, <3>2
    <2> QED
      BY <1>4, <2>1
  <1>6. solves(joined)
    <2> HIDE DEF solves
    <2> QED
      BY <1>5
  <1>7. InOrder(bs) = joined[n]
    BY DEF InOrder, n
  <1> HIDE DEF joined
  <1>8. joined[0] = <<>> /\ \A i \in 1 .. n : joined[i] = joined[i - 1] \o bs[i]
    BY <1>1, <1>6
  <1>9. \A i \in 0 .. n : joined[i] \in Chains
    <2> DEFINE H == {i \in 0 .. n : joined[i] \in Chains}
    <2>1. 0 \in H
      BY <1>1, <1>8
    <2>2. ASSUME NEW i \in 1 .. n, i - 1 \in H PROVE i \in H
      <3>1. i \in 0 .. n /\ joined[i - 1] \in Chains
        BY <1>1, <2>2
      <3>2. joined[i] \in Chains
        BY <1>2, <1>8, <3>1
      <3> QED
        BY <3>1, <3>2
    <2>3. \A i \in 0 .. n : i \in H
      <3> HIDE DEF H
      <3> QED
        BY <1>1, <2>1, <2>2, UpTo
    <2> QED
      BY <2>3
  <1>10. joined \in [0 .. n -> Chains]
    BY <1>6, <1>9
  <1> QED
    BY <1>7, <1>8, <1>10 DEF n

\* Each entry in its slot, and no two of a chain with one hash.
Sound(bs) ==
    /\ bs \in Seq(Chains) /\ Len(bs) > 0
    /\ \A i \in 1 .. Len(bs) : \A p \in 1 .. Len(bs[i]) : SlotOf(bs[i][p], bs) = i
    /\ \A i \in 1 .. Len(bs) : \A p, q \in 1 .. Len(bs[i]) :
           NickHash[bs[i][p]] = NickHash[bs[i][q]] => p = q

LEMMA TableFacts ==
    ASSUME NEW bs \in Seq(Chains), Len(bs) > 0
    PROVE  /\ Len(bs) \in Nat \ {0} /\ DOMAIN bs = 1 .. Len(bs)
           /\ \A i \in 1 .. Len(bs) : bs[i] \in Chains
           /\ \A i \in 1 .. Len(bs) : ToSet(bs[i]) \subseteq RosterUsers
           /\ Everyone(bs) \subseteq RosterUsers
           /\ \A u \in RosterUsers : SlotOf(u, bs) \in 1 .. Len(bs) /\ NickHash[u] \in Nat
  <1>1. Len(bs) \in Nat \ {0} /\ DOMAIN bs = 1 .. Len(bs)
    OBVIOUS
  <1>2. ASSUME NEW i \in 1 .. Len(bs) PROVE bs[i] \in Chains /\ ToSet(bs[i]) \subseteq RosterUsers
    <2>1. bs[i] \in Seq(RosterUsers)
      BY DEF Chains
    <2> QED
      BY <2>1 DEF ToSet, Chains
  <1>3. Everyone(bs) \subseteq RosterUsers
    BY <1>1, <1>2 DEF Everyone
  <1>4. ASSUME NEW u \in RosterUsers
        PROVE  SlotOf(u, bs) \in 1 .. Len(bs) /\ NickHash[u] \in Nat
    <2>1. NickHash[u] \in Nat
      BY RosterAssumption
    <2> QED
      BY <1>1, <2>1 DEF SlotOf
  <1> QED
    BY <1>1, <1>2, <1>3, <1>4

\* Where somebody is; a hash stands for one user.
LEMMA HashOnce ==
    ASSUME NEW bs, Sound(bs), NEW u \in Everyone(bs), NEW w \in Everyone(bs)
    PROVE  /\ u \in ToSet(bs[SlotOf(u, bs)])
           /\ NickHash[u] = NickHash[w] => u = w
  <1>1. bs \in Seq(Chains) /\ Len(bs) > 0
    BY DEF Sound
  <1>2. ASSUME NEW v \in Everyone(bs)
        PROVE  \E p \in 1 .. Len(bs[SlotOf(v, bs)]) : bs[SlotOf(v, bs)][p] = v
    <2>1. PICK i \in 1 .. Len(bs) : v \in ToSet(bs[i])
      BY <1>1, TableFacts DEF Everyone
    <2>2. bs[i] \in Seq(RosterUsers)
      BY <1>1, <2>1, TableFacts DEF Chains
    <2>3. PICK p \in 1 .. Len(bs[i]) : bs[i][p] = v
      BY <2>1, <2>2 DEF ToSet
    <2>4. SlotOf(v, bs) = i
      BY <2>1, <2>3 DEF Sound
    <2> QED
      BY <2>3, <2>4
  <1>3. SlotOf(u, bs) \in 1 .. Len(bs) /\ bs[SlotOf(u, bs)] \in Seq(RosterUsers)
    BY <1>1, TableFacts DEF Chains
  <1>4. u \in ToSet(bs[SlotOf(u, bs)])
    BY <1>2, <1>3 DEF ToSet
  <1>5. ASSUME NickHash[u] = NickHash[w] PROVE u = w
    <2>1. SlotOf(u, bs) = SlotOf(w, bs)
      BY <1>5 DEF SlotOf
    <2> DEFINE i == SlotOf(u, bs)
    <2>2. PICK p \in 1 .. Len(bs[i]) : bs[i][p] = u
      BY <1>2
    <2>3. PICK q \in 1 .. Len(bs[i]) : bs[i][q] = w
      BY <1>2, <2>1
    <2>4. p = q
      BY <1>3, <1>5, <2>2, <2>3 DEF Sound
    <2> QED
      BY <2>2, <2>3, <2>4
  <1> QED
    BY <1>4, <1>5

\* In order, everybody is there, once.
LEMMA InOrderIs ==
    ASSUME NEW bs, Sound(bs)
    PROVE  /\ InOrder(bs) \in Chains /\ ToSet(InOrder(bs)) = Everyone(bs)
           /\ IsInjective(InOrder(bs))
  <1> DEFINE n == Len(bs)
             upTo(k) == UNION {ToSet(bs[i]) : i \in 1 .. k}
  <1>1. bs \in Seq(Chains) /\ Len(bs) > 0
    BY DEF Sound
  <1>2. n \in Nat /\ DOMAIN bs = 1 .. n /\ \A i \in 1 .. n : bs[i] \in Chains
    BY <1>1, TableFacts
  <1>3. PICK j \in [0 .. n -> Chains] :
           InOrder(bs) = j[n] /\ j[0] = <<>> /\ \A i \in 1 .. n : j[i] = j[i - 1] \o bs[i]
    BY <1>1, InOrderJoins
  <1>4. Everyone(bs) = upTo(n)
    BY <1>2 DEF Everyone
  <1>5. ASSUME NEW i \in 1 .. n PROVE IsInjective(bs[i])
    <2>1. DOMAIN bs[i] = 1 .. Len(bs[i])
      BY <1>2, <1>5 DEF Chains
    <2> QED
      BY <1>5, <2>1 DEF IsInjective, Sound
  <1>6. ASSUME NEW i \in 1 .. n, NEW k \in 1 .. n, i # k PROVE ToSet(bs[i]) \cap ToSet(bs[k]) = {}
    <2>1. ASSUME NEW u \in ToSet(bs[i]), u \in ToSet(bs[k]) PROVE FALSE
      <3>1. bs[i] \in Seq(RosterUsers) /\ bs[k] \in Seq(RosterUsers)
        BY <1>2 DEF Chains
      <3>2. PICK p \in 1 .. Len(bs[i]) : bs[i][p] = u
        BY <2>1, <3>1 DEF ToSet
      <3>3. PICK q \in 1 .. Len(bs[k]) : bs[k][q] = u
        BY <2>1, <3>1 DEF ToSet
      <3>4. SlotOf(u, bs) = i /\ SlotOf(u, bs) = k
        BY <3>2, <3>3 DEF Sound
      <3> QED
        BY <1>6, <3>4
    <2> QED
      BY <2>1
  <1> DEFINE H == {k \in 0 .. n : ToSet(j[k]) = upTo(k) /\ IsInjective(j[k])}
  <1>7. 0 \in H
    <2>1. ToSet(<<>>) = {} /\ IsInjective(<<>>)
      BY DEF ToSet, IsInjective
    <2>2. upTo(0) = {} /\ 0 \in 0 .. n
      BY <1>2
    <2> QED
      BY <1>3, <2>1, <2>2
  <1>8. ASSUME NEW k \in 1 .. n, k - 1 \in H PROVE k \in H
    <2>1. /\ k \in 0 .. n /\ k - 1 \in 0 .. n /\ k \notin 1 .. k - 1
          /\ 1 .. k = (1 .. k - 1) \cup {k} /\ \A i \in 1 .. k - 1 : i \in 1 .. n
      BY <1>2
    <2>2. ToSet(j[k - 1]) = upTo(k - 1) /\ IsInjective(j[k - 1])
      BY <1>8
    <2>3. j[k] = j[k - 1] \o bs[k] /\ j[k - 1] \in Seq(RosterUsers) /\ bs[k] \in Seq(RosterUsers)
      BY <1>2, <1>3, <2>1 DEF Chains
    <2>4. upTo(k) = upTo(k - 1) \cup ToSet(bs[k])
      BY <2>1
    <2>5. upTo(k - 1) \cap ToSet(bs[k]) = {}
      <3>1. ASSUME NEW u \in upTo(k - 1), u \in ToSet(bs[k]) PROVE FALSE
        <4>1. PICK i \in 1 .. k - 1 : u \in ToSet(bs[i])
          OBVIOUS
        <4>2. i \in 1 .. n /\ i # k
          BY <2>1
        <4>3. ToSet(bs[i]) \cap ToSet(bs[k]) = {}
          BY <1>6, <4>2
        <4> QED
          BY <3>1, <4>1, <4>3
      <3> QED
        BY <3>1
    <2>6. IsInjective(bs[k])
      BY <1>5
    <2> HIDE DEF upTo
    <2>7. ToSet(j[k]) = ToSet(j[k - 1]) \cup ToSet(bs[k]) /\ IsInjective(j[k])
      BY <2>2, <2>3, <2>5, <2>6, JoinedSet
    <2> QED
      BY <2>1, <2>2, <2>4, <2>7
  <1>9. n \in H
    <2> HIDE DEF H
    <2>1. \A k \in 0 .. n : k \in H
      BY <1>2, <1>7, <1>8, UpTo
    <2> QED
      BY <1>2, <2>1
  <1> QED
    BY <1>2, <1>3, <1>4, <1>9

\* Somebody is put in.
LEMMA AddedSound ==
    ASSUME NEW bs, Sound(bs), NEW u \in RosterUsers, SameHash(u, bs) = {}
    PROVE  /\ Sound(AddWithHash(u, bs)) /\ Len(AddWithHash(u, bs)) = Len(bs)
           /\ Everyone(AddWithHash(u, bs)) = Everyone(bs) \cup {u}
  <1> DEFINE n == Len(bs)
             s == SlotOf(u, bs)
             c == Append(bs[s], u)
             new == AddWithHash(u, bs)
  <1>1. /\ bs \in Seq(Chains) /\ Len(bs) > 0 /\ n \in Nat \ {0} /\ DOMAIN bs = 1 .. n
        /\ s \in 1 .. n /\ \A i \in 1 .. n : bs[i] \in Seq(RosterUsers)
    BY TableFacts DEF Sound, Chains
  <1>2. new = [bs EXCEPT ![s] = c]
    BY DEF AddWithHash
  <1>3. bs[s] \in Seq(RosterUsers) /\ Len(bs[s]) \in Nat
    BY <1>1
  <1>4. /\ c \in Seq(RosterUsers) /\ Len(c) = Len(bs[s]) + 1 /\ c[Len(c)] = u
        /\ \A p \in 1 .. Len(bs[s]) : c[p] = bs[s][p]
    BY <1>3
  <1> HIDE DEF new, c
  <1>5. new \in Seq(Chains) /\ Len(new) = n
    BY <1>1, <1>2, <1>4 DEF Chains
  <1>6. new[s] = c /\ \A i \in 1 .. n : i # s => new[i] = bs[i]
    BY <1>1, <1>2
  <1>7. ASSUME NEW w PROVE SlotOf(w, new) = SlotOf(w, bs)
    BY <1>5 DEF SlotOf
  <1> HIDE DEF s
  <1>8. ASSUME NEW p \in 1 .. Len(c)
        PROVE  \/ p \in 1 .. Len(bs[s]) /\ c[p] = bs[s][p]
               \/ p = Len(c) /\ c[p] = u
    <2>1. p \in 1 .. Len(bs[s]) \/ p = Len(c)
      BY <1>3, <1>4
    <2> QED
      BY <1>4, <2>1
  <1>9. ASSUME NEW p \in 1 .. Len(bs[s]) PROVE NickHash[bs[s][p]] # NickHash[u]
    <2>1. bs[s][p] \in ToSet(bs[s])
      BY <1>3 DEF ToSet
    <2> QED
      BY <2>1 DEF SameHash, s
  <1>10. ASSUME NEW i \in 1 .. n, NEW p \in 1 .. Len(new[i]) PROVE SlotOf(new[i][p], new) = i
    <2>1. CASE i # s
      BY <1>6, <1>7, <2>1 DEF Sound
    <2>2. CASE i = s
      <3>1. p \in 1 .. Len(c) /\ new[i] = c
        BY <1>6, <2>2
      <3>2. CASE p \in 1 .. Len(bs[s]) /\ c[p] = bs[s][p]
        BY <1>1, <1>7, <2>2, <3>1, <3>2 DEF Sound
      <3>3. CASE c[p] = u
        BY <1>7, <2>2, <3>1, <3>3 DEF s
      <3> QED
        BY <1>8, <3>1, <3>2, <3>3
    <2> QED
      BY <2>1, <2>2
  <1>11. ASSUME NEW i \in 1 .. n, NEW p \in 1 .. Len(new[i]), NEW q \in 1 .. Len(new[i]),
                NickHash[new[i][p]] = NickHash[new[i][q]]
         PROVE  p = q
    <2>1. CASE i # s
      BY <1>6, <1>11, <2>1 DEF Sound
    <2>2. CASE i = s
      <3>1. p \in 1 .. Len(c) /\ q \in 1 .. Len(c) /\ NickHash[c[p]] = NickHash[c[q]]
        BY <1>6, <1>11, <2>2
      <3>2. CASE p \in 1 .. Len(bs[s]) /\ q \in 1 .. Len(bs[s])
        BY <1>1, <1>4, <3>1, <3>2 DEF Sound
      <3>3. CASE ~(p \in 1 .. Len(bs[s]) /\ q \in 1 .. Len(bs[s]))
        BY <1>8, <1>9, <3>1, <3>3
      <3> QED
        BY <3>2, <3>3
    <2> QED
      BY <2>1, <2>2
  <1>12. ToSet(c) = ToSet(bs[s]) \cup {u}
    <2>1. ASSUME NEW w \in ToSet(c) PROVE w \in ToSet(bs[s]) \cup {u}
      <3>1. PICK p \in 1 .. Len(c) : c[p] = w
        BY <1>4, <2>1 DEF ToSet
      <3> QED
        BY <1>3, <1>8, <3>1 DEF ToSet
    <2>2. ASSUME NEW w \in ToSet(bs[s]) PROVE w \in ToSet(c)
      <3>1. PICK p \in 1 .. Len(bs[s]) : bs[s][p] = w
        BY <1>3, <2>2 DEF ToSet
      <3>2. p \in 1 .. Len(c) /\ c[p] = w
        BY <1>3, <1>4, <3>1
      <3> QED
        BY <1>4, <3>2 DEF ToSet
    <2>3. u \in ToSet(c)
      <3>1. Len(c) \in 1 .. Len(c)
        BY <1>3, <1>4
      <3> QED
        BY <1>4, <3>1 DEF ToSet
    <2> QED
      BY <2>1, <2>2, <2>3
  <1>13. Everyone(new) = Everyone(bs) \cup {u}
    <2>1. DOMAIN new = 1 .. n
      BY <1>5
    <2>2. s \in 1 .. n
      BY <1>1 DEF s
    <2>3. ASSUME NEW w PROVE w \in Everyone(new) <=> \E i \in 1 .. n : w \in ToSet(new[i])
      BY <2>1 DEF Everyone
    <2>4. ASSUME NEW w PROVE w \in Everyone(bs) <=> \E i \in 1 .. n : w \in ToSet(bs[i])
      BY <1>1 DEF Everyone
    <2>5. ASSUME NEW w PROVE w \in Everyone(new) <=> w \in Everyone(bs) \/ w = u
      BY <1>6, <1>12, <2>2, <2>3, <2>4
    <2> QED
      BY <2>5
  <1> QED
    BY <1>1, <1>5, <1>10, <1>11, <1>13 DEF Sound, new

\* Somebody is taken out.
LEMMA RemovedSound ==
    ASSUME NEW bs, Sound(bs), NEW u \in Everyone(bs)
    PROVE  /\ Sound(RemoveByHash(u, bs)) /\ Len(RemoveByHash(u, bs)) = Len(bs)
           /\ Everyone(RemoveByHash(u, bs)) = Everyone(bs) \ {u}
  <1> DEFINE n == Len(bs)
             s == SlotOf(u, bs)
             ch == bs[s]
             Fits(p) == NickHash[ch[p]] = NickHash[u]
                        /\ \A q \in 1 .. p - 1 : NickHash[ch[q]] # NickHash[u]
             spot == CHOOSE p \in DOMAIN ch : Fits(p)
             c == RemoveAt(ch, spot)
             new == RemoveByHash(u, bs)
  <1>0. u \in RosterUsers
    BY TableFacts DEF Sound
  <1>1. /\ bs \in Seq(Chains) /\ Len(bs) > 0 /\ n \in Nat \ {0} /\ DOMAIN bs = 1 .. n
        /\ s \in 1 .. n /\ \A i \in 1 .. n : bs[i] \in Seq(RosterUsers)
    BY <1>0, TableFacts DEF Sound, Chains
  <1>2. ch \in Seq(RosterUsers) /\ Len(ch) \in Nat /\ DOMAIN ch = 1 .. Len(ch)
    BY <1>1
  <1>3. new = [bs EXCEPT ![s] = c]
    BY DEF RemoveByHash
  <1>4. \A p, q \in 1 .. Len(ch) : NickHash[ch[p]] = NickHash[ch[q]] => p = q
    BY <1>1 DEF Sound
  <1>5. PICK at \in 1 .. Len(ch) : ch[at] = u
    BY <1>2, HashOnce DEF ToSet
  <1> HIDE DEF ch, s
  <1>6. Fits(at)
    <2>1. ASSUME NEW q \in 1 .. at - 1, NickHash[ch[q]] = NickHash[u] PROVE FALSE
      <3>1. q \in 1 .. Len(ch) /\ q # at
        BY <1>2, <1>5
      <3> QED
        BY <1>4, <1>5, <2>1, <3>1
    <2> QED
      BY <1>5, <2>1
  <1>7. spot \in 1 .. Len(ch) /\ Fits(spot)
    <2> HIDE DEF Fits
    <2> QED
      BY <1>2, <1>5, <1>6
  <1>8. spot = at
    BY <1>4, <1>5, <1>7
  <1> HIDE DEF spot
  <1>9. /\ c \in Seq(RosterUsers) /\ Len(c) = Len(ch) - 1
        /\ \A p \in 1 .. Len(ch) - 1 : c[p] = IF p < at THEN ch[p] ELSE ch[p + 1]
    BY <1>2, <1>5, <1>8, TakenOut
  <1> HIDE DEF new, c
  <1> DEFINE was(p) == IF p < at THEN p ELSE p + 1
  <1>10. ASSUME NEW p \in 1 .. Len(c)
         PROVE  was(p) \in 1 .. Len(ch) /\ was(p) # at /\ c[p] = ch[was(p)]
    <2>1. CASE p < at
      BY <1>2, <1>5, <1>9, <2>1
    <2>2. CASE ~(p < at)
      BY <1>2, <1>5, <1>9, <2>2
    <2> QED
      BY <2>1, <2>2
  <1>11. ASSUME NEW p \in 1 .. Len(c), NEW q \in 1 .. Len(c), was(p) = was(q) PROVE p = q
    BY <1>2, <1>5, <1>9, <1>11
  <1>12. ASSUME NEW q \in 1 .. Len(ch), q # at PROVE \E p \in 1 .. Len(c) : was(p) = q
    <2>1. CASE q < at
      <3>1. q \in 1 .. Len(c) /\ was(q) = q
        BY <1>2, <1>5, <1>9, <2>1
      <3> QED
        BY <3>1
    <2>2. CASE q > at
      <3>1. q - 1 \in 1 .. Len(c) /\ was(q - 1) = q
        BY <1>2, <1>5, <1>9, <2>2
      <3> QED
        BY <3>1
    <2> QED
      BY <1>2, <1>5, <1>12, <2>1, <2>2
  <1> HIDE DEF was
  <1>13. new \in Seq(Chains) /\ Len(new) = n
    BY <1>1, <1>3, <1>9 DEF Chains
  <1>14. s \in 1 .. n /\ new[s] = c /\ bs[s] = ch /\ \A i \in 1 .. n : i # s => new[i] = bs[i]
    BY <1>1, <1>3 DEF s, ch
  <1>15. ASSUME NEW w PROVE SlotOf(w, new) = SlotOf(w, bs)
    BY <1>13 DEF SlotOf
  <1>16. ASSUME NEW i \in 1 .. n, NEW p \in 1 .. Len(new[i]) PROVE SlotOf(new[i][p], new) = i
    <2>1. CASE i # s
      BY <1>14, <1>15, <2>1 DEF Sound
    <2>2. CASE i = s
      <3>1. new[i][p] = bs[i][was(p)] /\ was(p) \in 1 .. Len(bs[i])
        BY <1>10, <1>14, <2>2
      <3> QED
        BY <1>15, <3>1 DEF Sound
    <2> QED
      BY <2>1, <2>2
  <1>17. ASSUME NEW i \in 1 .. n, NEW p \in 1 .. Len(new[i]), NEW q \in 1 .. Len(new[i]),
                NickHash[new[i][p]] = NickHash[new[i][q]]
         PROVE  p = q
    <2>1. CASE i # s
      BY <1>14, <1>17, <2>1 DEF Sound
    <2>2. CASE i = s
      <3>1. p \in 1 .. Len(c) /\ q \in 1 .. Len(c) /\ NickHash[c[p]] = NickHash[c[q]]
        BY <1>14, <1>17, <2>2
      <3>2. was(p) \in 1 .. Len(ch) /\ c[p] = ch[was(p)]
        BY <1>10, <3>1
      <3>3. was(q) \in 1 .. Len(ch) /\ c[q] = ch[was(q)]
        BY <1>10, <3>1
      <3>4. NickHash[ch[was(p)]] = NickHash[ch[was(q)]]
        BY <3>1, <3>2, <3>3
      <3>5. was(p) = was(q)
        <4> DEFINE a == was(p)
                   b == was(q)
        <4>1. a \in 1 .. Len(ch) /\ b \in 1 .. Len(ch) /\ NickHash[ch[a]] = NickHash[ch[b]]
          BY <3>2, <3>3, <3>4
        <4> HIDE DEF a, b
        <4>2. a = b
          BY ONLY <1>4, <4>1
        <4> QED
          BY <4>2 DEF a, b
      <3> QED
        BY <1>11, <3>1, <3>5
    <2> QED
      BY <2>1, <2>2
  <1>18. ToSet(c) = ToSet(ch) \ {u}
    <2>1. ASSUME NEW w \in ToSet(c) PROVE w \in ToSet(ch) /\ w # u
      <3>1. PICK p \in 1 .. Len(c) : c[p] = w
        BY <1>9, <2>1 DEF ToSet
      <3>2. was(p) \in 1 .. Len(ch) /\ was(p) # at /\ ch[was(p)] = w
        BY <1>10, <3>1
      <3> QED
        BY <1>2, <1>4, <1>5, <3>2 DEF ToSet
    <2>2. ASSUME NEW w \in ToSet(ch), w # u PROVE w \in ToSet(c)
      <3>1. PICK q \in 1 .. Len(ch) : ch[q] = w
        BY <1>2, <2>2 DEF ToSet
      <3>2. PICK p \in 1 .. Len(c) : was(p) = q
        BY <1>5, <1>12, <2>2, <3>1
      <3>3. c[p] = w
        BY <1>10, <3>1, <3>2
      <3> QED
        BY <1>9, <3>3 DEF ToSet
    <2> QED
      BY <2>1, <2>2
  <1>19. Everyone(new) = Everyone(bs) \ {u}
    <2>1. DOMAIN new = 1 .. n
      BY <1>13
    <2>2. ASSUME NEW w PROVE w \in Everyone(new) <=> \E i \in 1 .. n : w \in ToSet(new[i])
      BY <2>1 DEF Everyone
    <2>3. ASSUME NEW w PROVE w \in Everyone(bs) <=> \E i \in 1 .. n : w \in ToSet(bs[i])
      BY <1>1 DEF Everyone
    <2>4. ASSUME NEW i \in 1 .. n, u \in ToSet(bs[i]) PROVE i = s
      <3>1. PICK p \in 1 .. Len(bs[i]) : bs[i][p] = u
        BY <1>1, <2>4 DEF ToSet
      <3> QED
        BY <3>1 DEF Sound, s
    <2>5. ASSUME NEW w PROVE w \in Everyone(new) <=> w \in Everyone(bs) /\ w # u
      BY <1>14, <1>18, <2>2, <2>3, <2>4
    <2> QED
      BY <2>5
  <1> QED
    BY <1>1, <1>13, <1>16, <1>17, <1>19 DEF Sound, new

\* A table with nobody in it
LEMMA EmptySound ==
    ASSUME NEW cap \in Nat \ {0}
    PROVE  LET new == [i \in 1 .. cap |-> <<>>]
           IN  Sound(new) /\ Len(new) = cap /\ Everyone(new) = {} /\ new \in [1 .. cap -> Chains]
  <1> DEFINE new == [i \in 1 .. cap |-> <<>>]
  <1>1. <<>> \in Chains /\ Len(<<>>) = 0
    BY DEF Chains
  <1>2. new \in Seq(Chains) /\ Len(new) = cap /\ DOMAIN new = 1 .. cap
    BY <1>1
  <1>3. new \in [1 .. cap -> Chains]
    BY <1>1
  <1>4. \A i \in 1 .. cap : new[i] = <<>> /\ Len(new[i]) = 0 /\ ToSet(new[i]) = {}
    BY <1>1 DEF ToSet
  <1> HIDE DEF new
  <1>5. Everyone(new) = {}
    BY <1>2, <1>4 DEF Everyone
  <1>6. \A i \in 1 .. cap : 1 .. Len(new[i]) = {}
    BY <1>4
  <1>7. Sound(new)
    BY <1>2, <1>6 DEF Sound
  <1> QED
    BY <1>2, <1>3, <1>5, <1>7 DEF new

\* Resizing is adding them one by one to an empty table.
LEMMA ResizedAdds ==
    ASSUME NEW bs, InOrder(bs) \in Chains, NEW cap \in Nat \ {0}
    PROVE  \E m \in [0 .. Len(InOrder(bs)) -> [1 .. cap -> Chains]] :
              /\ Resized(bs, cap) = m[Len(InOrder(bs))] /\ m[0] = [i \in 1 .. cap |-> <<>>]
              /\ \A k \in 1 .. Len(InOrder(bs)) : m[k] = AddWithHash(InOrder(bs)[k], m[k - 1])
  <1> DEFINE old == InOrder(bs)
             n == Len(old)
             none == [i \in 1 .. cap |-> <<>>]
             Tabs == [1 .. cap -> Chains]
             solves(f) == f = [k \in 0 .. n |-> IF k = 0 THEN none ELSE AddWithHash(old[k], f[k - 1])]
             moved == CHOOSE f : solves(f)
             step == [k \in 1 .. n |-> [t \in Tabs |-> AddWithHash(old[k], t)]]
  <1>1. n \in Nat /\ \A k \in 1 .. n : old[k] \in RosterUsers
    BY DEF Chains
  <1>2. none \in Tabs
    BY EmptySound
  <1>3. ASSUME NEW u \in RosterUsers, NEW t \in Tabs PROVE AddWithHash(u, t) \in Tabs
    <2>1. t \in Seq(Chains) /\ Len(t) = cap
      OBVIOUS
    <2>2. SlotOf(u, t) \in 1 .. cap
      BY <2>1, TableFacts
    <2>3. Append(t[SlotOf(u, t)], u) \in Chains
      <3>1. t[SlotOf(u, t)] \in Seq(RosterUsers)
        BY <2>2 DEF Chains
      <3> QED
        BY <3>1 DEF Chains
    <2> QED
      BY <2>2, <2>3 DEF AddWithHash
  <1>7. Resized(bs, cap) = moved[n]
    BY DEF Resized
  <1> HIDE DEF old, n, none, Tabs
  <1>4. step \in [1 .. n -> [Tabs -> Tabs]]
    BY <1>1, <1>3
  <1>5. ASSUME NEW k \in 1 .. n, NEW t \in Tabs PROVE step[k][t] = AddWithHash(old[k], t)
    OBVIOUS
  <1> HIDE DEF step
  <1>6. PICK f \in [0 .. n -> Tabs] : f[0] = none /\ \A k \in 1 .. n : f[k] = step[k][f[k - 1]]
    <2> HIDE DEF solves
    <2> QED
      BY <1>1, <1>2, <1>4, Repeated
  <1>8. solves(f)
    <2>1. ASSUME NEW k \in 0 .. n
          PROVE  f[k] = IF k = 0 THEN none ELSE AddWithHash(old[k], f[k - 1])
      <3>1. CASE k = 0
        BY <1>6, <3>1
      <3>2. CASE k # 0
        <4>1. k \in 1 .. n /\ k - 1 \in 0 .. n
          BY <1>1, <3>2
        <4>2. f[k - 1] \in Tabs
          BY <1>6, <4>1
        <4>3. f[k] = AddWithHash(old[k], f[k - 1])
          BY <1>5, <1>6, <4>1, <4>2
        <4> QED
          BY <3>2, <4>3
      <3> QED
        BY <3>1, <3>2
    <2> QED
      BY <1>6, <2>1
  <1>9. solves(moved)
    <2> HIDE DEF solves
    <2> QED
      BY <1>8
  <1> HIDE DEF moved
  <1>10. moved[0] = none /\ \A k \in 1 .. n : moved[k] = AddWithHash(old[k], moved[k - 1])
    BY <1>1, <1>9
  <1>11. \A k \in 0 .. n : moved[k] \in Tabs
    <2> DEFINE H == {k \in 0 .. n : moved[k] \in Tabs}
    <2>1. 0 \in H
      BY <1>1, <1>2, <1>10
    <2>2. ASSUME NEW k \in 1 .. n, k - 1 \in H PROVE k \in H
      <3>1. k \in 0 .. n /\ moved[k - 1] \in Tabs
        BY <1>1, <2>2
      <3>2. moved[k] \in Tabs
        BY <1>1, <1>3, <1>10, <3>1
      <3> QED
        BY <3>1, <3>2
    <2>3. \A k \in 0 .. n : k \in H
      <3> HIDE DEF H
      <3> QED
        BY <1>1, <2>1, <2>2, UpTo
    <2> QED
      BY <2>3
  <1>12. moved \in [0 .. n -> Tabs]
    BY <1>9, <1>11
  <1> QED
    BY <1>7, <1>10, <1>12 DEF n, old, none, Tabs

\* Nobody is lost or doubled by a resizing.
LEMMA ResizedSound ==
    ASSUME NEW bs, Sound(bs), NEW cap \in Nat \ {0}
    PROVE  /\ Sound(Resized(bs, cap)) /\ Len(Resized(bs, cap)) = cap
           /\ Everyone(Resized(bs, cap)) = Everyone(bs)
  <1> DEFINE old == InOrder(bs)
             n == Len(old)
             upTo(k) == {old[i] : i \in 1 .. k}
  <1>1. old \in Seq(RosterUsers) /\ ToSet(old) = Everyone(bs) /\ IsInjective(old)
    BY InOrderIs DEF Chains
  <1>2. PICK m \in [0 .. n -> [1 .. cap -> Chains]] :
           /\ Resized(bs, cap) = m[n] /\ m[0] = [i \in 1 .. cap |-> <<>>]
           /\ \A k \in 1 .. n : m[k] = AddWithHash(old[k], m[k - 1])
    BY <1>1, ResizedAdds DEF Chains
  <1> HIDE DEF old
  <1>3. n \in Nat /\ DOMAIN old = 1 .. n /\ \A k \in 1 .. n : old[k] \in RosterUsers
    BY <1>1
  <1>4. \A k \in 1 .. n : old[k] \in Everyone(bs)
    BY <1>1, <1>3 DEF ToSet
  <1>5. \A i, k \in 1 .. n : old[i] = old[k] => i = k
    BY <1>1, <1>3 DEF IsInjective
  <1> DEFINE H == {k \in 0 .. n : Sound(m[k]) /\ Len(m[k]) = cap /\ Everyone(m[k]) = upTo(k)}
  <1>6. 0 \in H
    <2>1. Sound(m[0]) /\ Len(m[0]) = cap /\ Everyone(m[0]) = {}
      BY <1>2, EmptySound
    <2>2. upTo(0) = {} /\ 0 \in 0 .. n
      BY <1>3
    <2> QED
      BY <2>1, <2>2
  <1>7. ASSUME NEW k \in 1 .. n, k - 1 \in H PROVE k \in H
    <2> DEFINE u == old[k]
               bt == m[k - 1]
    <2>1. Sound(bt) /\ Len(bt) = cap /\ Everyone(bt) = upTo(k - 1) /\ u \in RosterUsers
      BY <1>3, <1>7
    <2>2. ASSUME NEW w \in SameHash(u, bt) PROVE FALSE
      <3>1. w \in ToSet(bt[SlotOf(u, bt)]) /\ NickHash[w] = NickHash[u]
        BY DEF SameHash
      <3>2. SlotOf(u, bt) \in DOMAIN bt
        BY <2>1, TableFacts DEF Sound
      <3>3. w \in Everyone(bt)
        BY <3>1, <3>2 DEF Everyone
      <3>4. PICK i \in 1 .. k - 1 : w = old[i]
        BY <2>1, <3>3
      <3>5. i \in 1 .. n /\ i # k
        BY <1>3, <3>4
      <3>6. w \in Everyone(bs) /\ u \in Everyone(bs)
        BY <1>4, <3>4, <3>5
      <3>7. w = u
        BY <3>1, <3>6, HashOnce
      <3> QED
        BY <1>5, <3>4, <3>5, <3>7
    <2>3. SameHash(u, bt) = {}
      BY <2>2
    <2>4. m[k] = AddWithHash(u, bt)
      BY <1>2
    <2> HIDE DEF u, bt
    <2>5. Sound(m[k]) /\ Len(m[k]) = cap /\ Everyone(m[k]) = upTo(k - 1) \cup {u}
      BY <2>1, <2>3, <2>4, AddedSound
    <2>6. upTo(k) = upTo(k - 1) \cup {u}
      <3>1. 1 .. k = (1 .. k - 1) \cup {k}
        BY <1>3
      <3> QED
        BY <3>1 DEF u
    <2>7. k \in 0 .. n
      BY <1>3
    <2> QED
      BY <2>5, <2>6, <2>7
  <1>8. n \in H
    <2> HIDE DEF H
    <2>1. \A k \in 0 .. n : k \in H
      BY <1>3, <1>6, <1>7, UpTo
    <2> QED
      BY <1>3, <2>1
  <1>9. upTo(n) = Everyone(bs)
    BY <1>1, <1>3 DEF ToSet
  <1> QED
    BY <1>2, <1>8, <1>9

\* As many entries in order as there are users.
LEMMA CountedLen ==
    ASSUME NEW bs, Sound(bs)
    PROVE  IsFiniteSet(Everyone(bs)) /\ Cardinality(Everyone(bs)) = Len(InOrder(bs))
  <1> DEFINE s == InOrder(bs)
             n == Len(s)
             E == Everyone(bs)
  <1>1. s \in Seq(RosterUsers) /\ ToSet(s) = E /\ IsInjective(s)
    BY InOrderIs DEF Chains
  <1>2. n \in Nat /\ DOMAIN s = 1 .. n /\ s = [i \in 1 .. n |-> s[i]]
    BY <1>1
  <1>3. \A e : e \in E <=> \E i \in 1 .. n : s[i] = e
    BY <1>1, <1>2 DEF ToSet
  <1> HIDE DEF s, n, E
  <1>4. s \in [1 .. n -> E]
    BY <1>2, <1>3
  <1>5. s \in Bijection(1 .. n, E)
    BY <1>1, <1>3, <1>4 DEF Bijection, Injection, Surjection
  <1>6. ExistsBijection(1 .. n, E)
    BY <1>5 DEF ExistsBijection
  <1>7. IsFiniteSet(E) /\ Cardinality(E) = n
    BY <1>2, <1>6, FS_NatBijection, FS_CountingElements
  <1> QED
    BY <1>7 DEF E, n, s

-----------------------------------------------------------------------------
Whats == Infos \cup {NickOnly, Unknown}
Entries == [who : RosterUsers, what : Infos \cup {NickOnly}]
NamedIn(list) == {e.who : e \in ToSet(list)}

\* The ready-made lists that stand name everybody in the table, once.
Exactly(lists, mk, bs) ==
    \A k \in Kinds : ~mk[k] => /\ NamedIn(lists[k]) = Everyone(bs)
                               /\ Len(lists[k]) = Cardinality(Everyone(bs))

\* What clients know (v, out of date in b) of those who are listed (L): C are the clients that
\* can be sent to, and have are those of them that the list has gone out to.
Knows(v, b, is, L, C, have) ==
    /\ v \in [RosterUsers -> [RosterUsers -> Whats]]
    /\ b \in [RosterUsers -> SUBSET RosterUsers]
    /\ \A w, x \in RosterUsers : v[w][x] # Unknown => w \in C /\ x \in L
    /\ \A w \in have, x \in L : v[w][x] # Unknown
    /\ \A w \in C, x \in L : v[w][x] \in {is[x], NickOnly, Unknown} \/ x \in b[w]

\* A list that is made anew.
LEMMA MadeIs ==
    ASSUME NEW bs, Sound(bs), NEW is \in [RosterUsers -> Infos], NEW k
    PROVE  /\ Made(k, bs, is) \in Seq(Entries) /\ NamedIn(Made(k, bs, is)) = Everyone(bs)
           /\ Len(Made(k, bs, is)) = Cardinality(Everyone(bs))
  <1> DEFINE s == InOrder(bs)
             n == Len(s)
             made == Made(k, bs, is)
  <1>1. s \in Seq(RosterUsers) /\ ToSet(s) = Everyone(bs)
    BY InOrderIs DEF Chains
  <1>2. n \in Nat /\ DOMAIN s = 1 .. n /\ \A i \in 1 .. n : s[i] \in RosterUsers
    BY <1>1
  <1>3. ASSUME NEW u \in RosterUsers PROVE Entry(k, u, is) \in Entries /\ Entry(k, u, is).who = u
    BY DEF Entry, Entries
  <1>4. made = [i \in 1 .. n |-> Entry(k, s[i], is)]
    BY DEF Made
  <1>5. n = Cardinality(Everyone(bs))
    BY CountedLen
  <1>6. ToSet(s) = {s[i] : i \in 1 .. n}
    BY <1>2 DEF ToSet
  <1> HIDE DEF s, n, made
  <1>7. made \in Seq(Entries) /\ Len(made) = n /\ DOMAIN made = 1 .. n
    BY <1>2, <1>3, <1>4
  <1>8. \A i \in 1 .. n : made[i].who = s[i]
    BY <1>2, <1>3, <1>4
  <1>9. NamedIn(made) = {made[i].who : i \in 1 .. n}
    BY <1>7 DEF NamedIn, ToSet
  <1>10. NamedIn(made) = ToSet(s)
    BY <1>6, <1>8, <1>9
  <1> QED
    BY <1>1, <1>5, <1>7, <1>10 DEF made

\* The list a caller gets, made before or now
LEMMA GotIs ==
    ASSUME NEW bs, Sound(bs), NEW is \in [RosterUsers -> Infos],
           NEW lists \in [Kinds -> Seq(Entries)], Exactly(lists, remake, bs), NEW k \in Kinds
    PROVE  /\ Got(k, bs, is, lists) \in Seq(Entries)
           /\ NamedIn(Got(k, bs, is, lists)) = Everyone(bs)
           /\ Len(Got(k, bs, is, lists)) = Cardinality(Everyone(bs))
  <1>1. CASE remake[k]
    BY <1>1, MadeIs DEF Got
  <1>2. CASE ~remake[k]
    <2>1. Got(k, bs, is, lists) = lists[k] /\ lists[k] \in Seq(Entries)
      BY <1>2 DEF Got
    <2> QED
      BY <1>2, <2>1 DEF Exactly
  <1> QED
    BY <1>1, <1>2

\* A newcomer in the ready-made lists
LEMMA NotedIs ==
    ASSUME NEW bs, Sound(bs), NEW u \in RosterUsers, u \notin Everyone(bs),
           NEW is \in [RosterUsers -> Infos], NEW bn, Everyone(bn) = Everyone(bs) \cup {u},
           ready \in [Kinds -> Seq(Entries)], Exactly(ready, remake, bs)
    PROVE  /\ NotedIn(u, is) \in [Kinds -> Seq(Entries)]
           /\ Exactly(NotedIn(u, is), remake, bn)
  <1>1. ASSUME NEW k \in Kinds
        PROVE  /\ NotedIn(u, is)[k] \in Seq(Entries)
               /\ ~remake[k] => /\ NamedIn(NotedIn(u, is)[k]) = Everyone(bn)
                                /\ Len(NotedIn(u, is)[k]) = Cardinality(Everyone(bn))
    <2> DEFINE e == Entry(k, u, is)
               l == ready[k]
               a == Append(l, e)
    <2>1. e \in Entries /\ e.who = u /\ l \in Seq(Entries)
      BY DEF Entry, Entries
    <2>2. NotedIn(u, is)[k] = IF remake[k] THEN l ELSE a
      BY DEF NotedIn
    <2> HIDE DEF e, l
    <2>3. /\ a \in Seq(Entries) /\ Len(a) = Len(l) + 1 /\ a[Len(l) + 1] = e /\ Len(l) \in Nat
          /\ DOMAIN a = 1 .. Len(l) + 1 /\ DOMAIN l = 1 .. Len(l)
          /\ \A i \in 1 .. Len(l) : a[i] = l[i]
      BY <2>1
    <2> HIDE DEF a
    <2>4. ToSet(a) = ToSet(l) \cup {e}
      <3>1. ASSUME NEW x PROVE x \in ToSet(a) <=> \E i \in 1 .. Len(l) + 1 : a[i] = x
        BY <2>3 DEF ToSet
      <3>2. ASSUME NEW x PROVE x \in ToSet(l) <=> \E i \in 1 .. Len(l) : l[i] = x
        BY <2>3 DEF ToSet
      <3>3. \A i : i \in 1 .. Len(l) + 1 <=> i \in 1 .. Len(l) \/ i = Len(l) + 1
        BY <2>3
      <3>4. ASSUME NEW x PROVE x \in ToSet(a) <=> x \in ToSet(l) \/ x = e
        BY <2>3, <3>1, <3>2, <3>3
      <3> QED
        BY <3>4
    <2>5. NamedIn(a) = NamedIn(l) \cup {u}
      BY <2>1, <2>4 DEF NamedIn
    <2>6. Cardinality(Everyone(bn)) = Cardinality(Everyone(bs)) + 1
      BY CountedLen, FS_AddElement
    <2>7. ~remake[k] => NamedIn(l) = Everyone(bs) /\ Len(l) = Cardinality(Everyone(bs))
      BY DEF Exactly, l
    <2> QED
      BY <2>1, <2>2, <2>3, <2>5, <2>6, <2>7
  <1> QED
    BY <1>1 DEF NotedIn, Exactly

\* Everybody who can be sent to is told of somebody.
LEMMA ToldKnows ==
    ASSUME NEW v, NEW b, NEW is \in [RosterUsers -> Infos], NEW L \in SUBSET RosterUsers,
           NEW C \in SUBSET RosterUsers, NEW have \in SUBSET C, Knows(v, b, is, L, C, have),
           NEW u \in RosterUsers, NEW i \in Infos, NEW D \in SUBSET RosterUsers, C \subseteq D,
           NEW b2 \in [RosterUsers -> SUBSET RosterUsers],
           \A w \in RosterUsers : b[w] \ {u} \subseteq b2[w]
    PROVE  Knows(Told(v, u, i, D), b2, [is EXCEPT ![u] = i], L \cup {u}, D, have)
  <1> DEFINE t == Told(v, u, i, D)
             js == [is EXCEPT ![u] = i]
  <1>1. v \in [RosterUsers -> [RosterUsers -> Whats]] /\ i \in Whats /\ i # Unknown
    BY DEF Knows, Whats, Infos, Unknown
  <1>2. ASSUME NEW w \in RosterUsers
        PROVE  /\ t[w] \in [RosterUsers -> Whats]
               /\ w \in D => t[w][u] = i /\ \A x \in RosterUsers : x # u => t[w][x] = v[w][x]
               /\ w \notin D => t[w] = v[w]
    BY <1>1 DEF Told
  <1>3. t \in [RosterUsers -> [RosterUsers -> Whats]]
    <2>1. t = [w \in RosterUsers |-> t[w]]
      BY DEF Told
    <2> QED
      BY <1>2, <2>1
  <1>4. js[u] = i /\ \A x \in RosterUsers : x # u => js[x] = is[x]
    OBVIOUS
  <1> HIDE DEF t, js
  <1>5. ASSUME NEW w \in RosterUsers, NEW x \in RosterUsers, t[w][x] # Unknown
        PROVE  w \in D /\ x \in L \cup {u}
    BY <1>2, <1>5 DEF Knows
  <1>6. ASSUME NEW w \in have, NEW x \in L \cup {u} PROVE t[w][x] # Unknown
    BY <1>1, <1>2, <1>6 DEF Knows
  <1>7. ASSUME NEW w \in D, NEW x \in L \cup {u}
        PROVE  t[w][x] \in {js[x], NickOnly, Unknown} \/ x \in b2[w]
    <2>1. CASE x = u
      BY <1>2, <1>4, <2>1
    <2>2. CASE x # u
      <3>1. t[w][x] = v[w][x] /\ js[x] = is[x] /\ x \in L
        BY <1>2, <1>4, <2>2
      <3>2. CASE w \in C
        <4>1. v[w][x] \in {is[x], NickOnly, Unknown} \/ x \in b[w]
          BY <3>1, <3>2 DEF Knows
        <4> QED
          BY <2>2, <3>1, <4>1
      <3>3. CASE w \notin C
        BY <3>1, <3>3 DEF Knows
      <3> QED
        BY <3>2, <3>3
    <2> QED
      BY <2>1, <2>2
  <1> QED
    BY <1>3, <1>5, <1>6, <1>7 DEF Knows, t, js

\* A client takes in the lists.
LEMMA TakenKnows ==
    ASSUME NEW v, NEW b, NEW is \in [RosterUsers -> Infos], NEW L \in SUBSET RosterUsers,
           NEW C \in SUBSET RosterUsers, NEW have \in SUBSET C, Knows(v, b, is, L, C, have),
           NEW w \in C, NEW infos \in SUBSET Entries, {e.who : e \in infos} = L,
           NEW c, c = IF w \in OldClients THEN b[w]
                      ELSE {u \in L : \E e \in infos : e.who = u /\ e.what # is[u]}
    PROVE  Knows([v EXCEPT ![w] = TakesIn(v[w], w, infos, L)], [b EXCEPT ![w] = c],
                 is, L, C, have \cup {w})
  <1> DEFINE Those(u) == {e \in infos : e.who = u}
             new == TakesIn(v[w], w, infos, L)
             t == [v EXCEPT ![w] = new]
             d == [b EXCEPT ![w] = c]
  <1>1. /\ w \in RosterUsers /\ v[w] \in [RosterUsers -> Whats]
        /\ v \in [RosterUsers -> [RosterUsers -> Whats]] /\ b \in [RosterUsers -> SUBSET RosterUsers]
    BY DEF Knows
  <1>2. ASSUME NEW u \in RosterUsers, w \notin OldClients, Those(u) # {}
        PROVE  /\ new[u] \in Infos \cup {NickOnly} /\ u \in L
               /\ new[u] \in {is[u], NickOnly} \/ u \in c
    <2> DEFINE e == CHOOSE e \in Those(u) : TRUE
    <2>1. e \in infos /\ e.who = u
      BY <1>2
    <2>2. new[u] = e.what
      BY <1>2 DEF TakesIn
    <2>3. e.what \in Infos \cup {NickOnly}
      BY <2>1 DEF Entries
    <2>4. u \in L
      BY <2>1
    <2> HIDE DEF e, Those, new
    <2>5. e.what = is[u] \/ u \in c
      BY <1>2, <2>1, <2>4
    <2> QED
      BY <2>2, <2>3, <2>4, <2>5
  <1>3. ASSUME NEW u \in RosterUsers, ~(w \notin OldClients /\ Those(u) # {})
        PROVE  new[u] = IF v[w][u] = Unknown /\ u \in L THEN NickOnly ELSE v[w][u]
    BY <1>3 DEF TakesIn
  <1>4. ASSUME NEW u \in L PROVE Those(u) # {}
    BY <1>4
  <1>5. new = [u \in RosterUsers |-> new[u]]
    BY DEF TakesIn
  <1>6. NickOnly # Unknown /\ NickOnly \in Whats /\ \A i \in Infos : i # Unknown /\ i \in Whats
    BY DEF NickOnly, Unknown, Whats, Infos
  <1> HIDE DEF new, Those
  <1>7. ASSUME NEW u \in RosterUsers PROVE new[u] \in Whats
    BY <1>1, <1>2, <1>3, <1>6, <1>7
  <1>8. ASSUME NEW u \in RosterUsers, new[u] # Unknown PROVE u \in L
    BY <1>1, <1>2, <1>3, <1>8 DEF Knows
  <1>9. ASSUME NEW u \in L PROVE new[u] # Unknown
    BY <1>2, <1>3, <1>6, <1>9
  <1>10. ASSUME NEW u \in L PROVE new[u] \in {is[u], NickOnly, Unknown} \/ u \in c
    <2>1. CASE w \notin OldClients
      BY <1>2, <1>4, <2>1
    <2>2. CASE w \in OldClients
      <3>1. v[w][u] \in {is[u], NickOnly, Unknown} \/ u \in b[w]
        BY DEF Knows
      <3> QED
        BY <1>3, <2>2, <3>1
    <2> QED
      BY <2>1, <2>2
  <1>11. new \in [RosterUsers -> Whats]
    BY <1>5, <1>7
  <1>12. c \in SUBSET RosterUsers
    BY <1>1
  <1>13. /\ t \in [RosterUsers -> [RosterUsers -> Whats]] /\ d \in [RosterUsers -> SUBSET RosterUsers]
         /\ t[w] = new /\ d[w] = c
         /\ \A x \in RosterUsers : x # w => t[x] = v[x] /\ d[x] = b[x]
    BY <1>1, <1>11, <1>12
  <1> HIDE DEF t, d
  <1>14. ASSUME NEW y \in RosterUsers, NEW x \in RosterUsers, t[y][x] # Unknown
         PROVE  y \in C /\ x \in L
    BY <1>8, <1>13, <1>14 DEF Knows
  <1>15. ASSUME NEW y \in have \cup {w}, NEW x \in L PROVE t[y][x] # Unknown
    BY <1>9, <1>13, <1>15 DEF Knows
  <1>16. ASSUME NEW y \in C, NEW x \in L PROVE t[y][x] \in {is[x], NickOnly, Unknown} \/ x \in d[y]
    <2>1. CASE y = w
      BY <1>10, <1>13, <2>1
    <2>2. CASE y # w
      <3>1. v[y][x] \in {is[x], NickOnly, Unknown} \/ x \in b[y]
        BY DEF Knows
      <3> QED
        BY <1>13, <2>2, <3>1
    <2> QED
      BY <2>1, <2>2
  <1> QED
    BY <1>13, <1>14, <1>15, <1>16 DEF Knows, t, d, new

\* Who is cut off is not told anything any more.
LEMMA ForgotKnows ==
    ASSUME NEW v, NEW b, NEW is, NEW L \in SUBSET RosterUsers,
           NEW C \in SUBSET RosterUsers, NEW have \in SUBSET C, Knows(v, b, is, L, C, have),
           NEW u \in RosterUsers
    PROVE  Knows([v EXCEPT ![u] = Nothing], [b EXCEPT ![u] = {}], is, L, C \ {u}, have \ {u})
  <1> DEFINE t == [v EXCEPT ![u] = Nothing]
             d == [b EXCEPT ![u] = {}]
  <1>1. /\ v \in [RosterUsers -> [RosterUsers -> Whats]]
        /\ b \in [RosterUsers -> SUBSET RosterUsers]
    BY DEF Knows
  <1>2. Nothing \in [RosterUsers -> Whats] /\ \A x \in RosterUsers : Nothing[x] = Unknown
    BY DEF Nothing, Whats
  <1>3. /\ t \in [RosterUsers -> [RosterUsers -> Whats]] /\ d \in [RosterUsers -> SUBSET RosterUsers]
        /\ t[u] = Nothing /\ \A x \in RosterUsers : x # u => t[x] = v[x] /\ d[x] = b[x]
    BY <1>1, <1>2
  <1> HIDE DEF t, d
  <1>4. ASSUME NEW w \in RosterUsers, NEW x \in RosterUsers, t[w][x] # Unknown
        PROVE  w \in C \ {u} /\ x \in L
    BY <1>2, <1>3, <1>4 DEF Knows
  <1>5. ASSUME NEW w \in have \ {u}, NEW x \in L PROVE t[w][x] # Unknown
    BY <1>3, <1>5 DEF Knows
  <1>6. ASSUME NEW w \in C \ {u}, NEW x \in L
        PROVE  t[w][x] \in {is[x], NickOnly, Unknown} \/ x \in d[w]
    <2>1. v[w][x] \in {is[x], NickOnly, Unknown} \/ x \in b[w]
      BY DEF Knows
    <2> QED
      BY <1>3, <2>1
  <1> QED
    BY <1>3, <1>4, <1>5, <1>6 DEF Knows, t, d

\* Those who can be sent to hear that somebody has left.
LEMMA LeftKnows ==
    ASSUME NEW v, NEW b, NEW is \in [RosterUsers -> Infos], NEW L \in SUBSET RosterUsers,
           NEW C \in SUBSET RosterUsers, NEW have \in SUBSET C, Knows(v, b, is, L, C, have),
           NEW u \in RosterUsers, NEW i
    PROVE  Knows(Told(v, u, Unknown, C), [w \in RosterUsers |-> b[w] \ {u}],
                 [is EXCEPT ![u] = i], L \ {u}, C, have)
  <1> DEFINE t == Told(v, u, Unknown, C)
             d == [w \in RosterUsers |-> b[w] \ {u}]
             js == [is EXCEPT ![u] = i]
  <1>1. /\ v \in [RosterUsers -> [RosterUsers -> Whats]] /\ Unknown \in Whats
        /\ b \in [RosterUsers -> SUBSET RosterUsers]
    BY DEF Knows, Whats
  <1>2. ASSUME NEW w \in RosterUsers
        PROVE  /\ t[w] \in [RosterUsers -> Whats]
               /\ w \in C => t[w][u] = Unknown /\ \A x \in RosterUsers : x # u => t[w][x] = v[w][x]
               /\ w \notin C => t[w] = v[w]
    BY <1>1 DEF Told
  <1>3. t \in [RosterUsers -> [RosterUsers -> Whats]]
    <2>1. t = [w \in RosterUsers |-> t[w]]
      BY DEF Told
    <2> QED
      BY <1>2, <2>1
  <1>4. /\ d \in [RosterUsers -> SUBSET RosterUsers]
        /\ \A w \in RosterUsers : d[w] = b[w] \ {u}
        /\ \A x \in RosterUsers : x # u => js[x] = is[x]
    BY <1>1
  <1> HIDE DEF t, d, js
  <1>5. ASSUME NEW w \in RosterUsers, NEW x \in RosterUsers, t[w][x] # Unknown
        PROVE  w \in C /\ x \in L \ {u}
    BY <1>2, <1>5 DEF Knows
  <1>6. ASSUME NEW w \in have, NEW x \in L \ {u} PROVE t[w][x] # Unknown
    BY <1>2, <1>6 DEF Knows
  <1>7. ASSUME NEW w \in C, NEW x \in L \ {u}
        PROVE  t[w][x] \in {js[x], NickOnly, Unknown} \/ x \in d[w]
    <2>1. v[w][x] \in {is[x], NickOnly, Unknown} \/ x \in b[w]
      BY DEF Knows
    <2>2. t[w][x] = v[w][x] /\ js[x] = is[x] /\ d[w] = b[w] \ {u}
      BY <1>2, <1>4
    <2> QED
      BY <2>1, <2>2
  <1> QED
    BY <1>3, <1>4, <1>5, <1>6, <1>7 DEF Knows, t, d, js

(* The inductive invariant *)
RosterInv ==
    /\ Sound(buckets) /\ mSize = Cardinality(Listed)
    /\ ready \in [Kinds -> Seq(Entries)] /\ remake \in [Kinds -> BOOLEAN]
    /\ info \in [RosterUsers -> Infos]
    /\ cutOff \subseteq Listed /\ gotList \subseteq CanSend
    /\ Exactly(ready, remake, buckets)
    /\ Knows(view, behind, info, Listed, CanSend, gotList)

LEMMA InvFacts ==
    ASSUME RosterInv
    PROVE  /\ Listed \in SUBSET RosterUsers /\ CanSend \in SUBSET RosterUsers
           /\ IsFiniteSet(Listed) /\ mSize \in Nat /\ CanSend \subseteq Listed
           /\ gotList \in SUBSET CanSend
  <1>1. Listed \in SUBSET RosterUsers
    BY TableFacts DEF RosterInv, Sound, Listed
  <1>2. IsFiniteSet(Listed)
    BY CountedLen DEF RosterInv, Listed
  <1>3. mSize \in Nat
    BY <1>2, FS_CardinalityType DEF RosterInv
  <1> QED
    BY <1>1, <1>2, <1>3 DEF CanSend, RosterInv

\* What is sent when a client asks for the list.
LEMMA SentIs ==
    ASSUME NEW bs, Sound(bs), NEW is \in [RosterUsers -> Infos],
           NEW lists \in [Kinds -> Seq(Entries)], Exactly(lists, remake, bs),
           remake \in [Kinds -> BOOLEAN],
           NEW v, NEW C \in SUBSET RosterUsers, gotList \in SUBSET C,
           Knows(v, behind, is, Everyone(bs), C, gotList),
           NEW w \in C, SendLists(w, bs, is, lists, v)
    PROVE  /\ ready' \in [Kinds -> Seq(Entries)] /\ remake' \in [Kinds -> BOOLEAN]
           /\ Exactly(ready', remake', bs)
           /\ gotList' = gotList \cup {w}
           /\ Knows(view', behind', is, Everyone(bs), C, gotList')
  <1> DEFINE infos == ToSet(Got("info", bs, is, lists))
             nicks == {e.who : e \in ToSet(Got("nick", bs, is, lists))}
             used  == IF w \in OldClients THEN {"nick"} ELSE {"nick", "info"}
             c == IF w \in OldClients THEN behind[w]
                  ELSE {u \in Everyone(bs) : \E e \in infos : e.who = u /\ e.what # is[u]}
  <1>1. /\ view' = [v EXCEPT ![w] = TakesIn(v[w], w, infos, nicks)]
        /\ ready' = [k \in Kinds |-> IF k \in used THEN Got(k, bs, is, lists) ELSE lists[k]]
        /\ remake' = [k \in Kinds |-> remake[k] /\ k \notin used]
        /\ gotList' = gotList \cup {w}
        /\ behind' = [behind EXCEPT ![w] = c]
    BY DEF SendLists
  <1>2. "info" \in Kinds /\ "nick" \in Kinds
    BY RosterAssumption
  <1>3. nicks = Everyone(bs)
    BY <1>2, GotIs DEF NamedIn
  <1>4. {e.who : e \in infos} = Everyone(bs)
    BY <1>2, GotIs DEF NamedIn
  <1>5. infos \in SUBSET Entries
    <2>1. Got("info", bs, is, lists) \in Seq(Entries)
      BY <1>2, GotIs
    <2> QED
      BY <2>1 DEF ToSet
  <1>6. Everyone(bs) \in SUBSET RosterUsers
    BY TableFacts DEF Sound
  <1> HIDE DEF infos, nicks
  <1>7. c = IF w \in OldClients THEN behind[w]
            ELSE {u \in Everyone(bs) : \E e \in infos : e.who = u /\ e.what # is[u]}
    OBVIOUS
  <1> HIDE DEF c
  <1>8. Knows(view', behind', is, Everyone(bs), C, gotList')
    BY <1>1, <1>3, <1>4, <1>5, <1>6, <1>7, TakenKnows
  <1>9. ASSUME NEW k \in Kinds
        PROVE  /\ Got(k, bs, is, lists) \in Seq(Entries)
               /\ NamedIn(Got(k, bs, is, lists)) = Everyone(bs)
               /\ Len(Got(k, bs, is, lists)) = Cardinality(Everyone(bs))
    BY GotIs
  <1> HIDE DEF used
  <1>10. ready' \in [Kinds -> Seq(Entries)]
    BY <1>1, <1>9
  <1>11. remake' \in [Kinds -> BOOLEAN]
    BY <1>1
  <1>12. ASSUME NEW k \in Kinds, ~remake'[k]
         PROVE  NamedIn(ready'[k]) = Everyone(bs) /\ Len(ready'[k]) = Cardinality(Everyone(bs))
    <2>1. CASE k \in used
      <3>1. ready'[k] = Got(k, bs, is, lists)
        BY <1>1, <2>1
      <3> QED
        BY <1>9, <3>1
    <2>2. CASE k \notin used
      <3>1. ready'[k] = lists[k] /\ ~remake[k]
        BY <1>1, <1>12, <2>2
      <3> QED
        BY <3>1 DEF Exactly
    <2> QED
      BY <2>1, <2>2
  <1> QED
    BY <1>1, <1>8, <1>10, <1>11, <1>12 DEF Exactly

LEMMA RosterArrive ==
    ASSUME RosterInv, NEW u \in RosterUsers, NEW i \in Infos, NEW asks \in BOOLEAN,
           Arrive(u, i, asks)
    PROVE  RosterInv'
  <1> DEFINE is    == [info EXCEPT ![u] = i]
             bs    == AddWithHash(u, buckets)
             lists == NotedIn(u, is)
             D == CanSend \cup ({u} \ Bots)
             seen  == Told(view, u, i, D)
             less == [w \in RosterUsers |-> behind[w] \ {u}]
  <1>1. /\ u \notin Listed /\ SameHash(u, buckets) = {}
        /\ buckets' = bs /\ mSize' = mSize + 1 /\ info' = is /\ cutOff' = cutOff
    BY DEF Arrive
  <1>2. \/ asks /\ u \notin Bots /\ SendLists(u, bs, is, lists, seen)
        \/ ready' = lists /\ view' = seen /\ behind' = less /\ remake' = remake /\ gotList' = gotList
    BY DEF Arrive
  <1>3. /\ Listed \in SUBSET RosterUsers /\ CanSend \in SUBSET RosterUsers /\ IsFiniteSet(Listed)
        /\ mSize \in Nat /\ gotList \in SUBSET CanSend /\ CanSend \subseteq Listed
    BY InvFacts
  <1>4. Sound(bs) /\ Everyone(bs) = Listed \cup {u}
    BY <1>1, AddedSound DEF RosterInv, Listed
  <1>5. is \in [RosterUsers -> Infos]
    BY DEF RosterInv
  <1>6. Listed' = Listed \cup {u} /\ Everyone(bs) = Listed'
    BY <1>1, <1>4 DEF Listed
  <1>7. D \in SUBSET RosterUsers /\ CanSend' = D
    <2>1. u \notin cutOff
      BY <1>1 DEF RosterInv
    <2>2. CanSend' = (Listed \cup {u}) \ (Bots \cup cutOff)
      BY <1>1, <1>6 DEF CanSend
    <2>3. CanSend = Listed \ (Bots \cup cutOff)
      BY DEF CanSend
    <2> QED
      BY <1>3, <2>1, <2>2, <2>3
  <1>8. mSize' = Cardinality(Listed')
    <2>1. Cardinality(Listed \cup {u}) = Cardinality(Listed) + 1
      BY <1>1, <1>3, FS_AddElement
    <2>2. mSize = Cardinality(Listed)
      BY DEF RosterInv
    <2> QED
      BY <1>1, <1>6, <2>1, <2>2
  <1>9. cutOff' \subseteq Listed'
    BY <1>1, <1>6 DEF RosterInv
  <1>10. lists \in [Kinds -> Seq(Entries)] /\ Exactly(lists, remake, bs)
    <2>1. Everyone(bs) = Everyone(buckets) \cup {u} /\ u \notin Everyone(buckets)
      BY <1>1, <1>4 DEF Listed
    <2>2. /\ Sound(buckets) /\ ready \in [Kinds -> Seq(Entries)]
          /\ Exactly(ready, remake, buckets)
      BY DEF RosterInv
    <2> HIDE DEF is, bs
    <2> QED
      BY <1>5, <2>1, <2>2, NotedIs
  <1>11. behind \in [RosterUsers -> SUBSET RosterUsers] /\ less \in [RosterUsers -> SUBSET RosterUsers]
    BY DEF RosterInv, Knows
  <1>12. /\ Knows(seen, behind, is, Listed \cup {u}, D, gotList)
         /\ Knows(seen, less, is, Listed \cup {u}, D, gotList)
    <2>1. Knows(view, behind, info, Listed, CanSend, gotList) /\ info \in [RosterUsers -> Infos]
      BY DEF RosterInv
    <2>2. \A w \in RosterUsers : less[w] = behind[w] \ {u}
      OBVIOUS
    <2>3. CanSend \subseteq D
      OBVIOUS
    <2>4. \A w \in RosterUsers : behind[w] \ {u} \subseteq behind[w]
      OBVIOUS
    <2>5. \A w \in RosterUsers : behind[w] \ {u} \subseteq less[w]
      BY <2>2
    <2> HIDE DEF less, D
    <2>6. Knows(seen, behind, is, Listed \cup {u}, D, gotList)
      BY <1>3, <1>7, <1>11, <2>1, <2>3, <2>4, ToldKnows
    <2>7. Knows(seen, less, is, Listed \cup {u}, D, gotList)
      BY <1>3, <1>7, <1>11, <2>1, <2>3, <2>5, ToldKnows
    <2> QED
      BY <2>6, <2>7
  <1> HIDE DEF is, bs, lists, seen, less
  <1>13. CASE asks /\ u \notin Bots /\ SendLists(u, bs, is, lists, seen)
    <2>1. u \in D /\ gotList \in SUBSET D
      BY <1>3, <1>13
    <2>2. Knows(seen, behind, is, Everyone(bs), D, gotList)
      BY <1>4, <1>12
    <2>3. remake \in [Kinds -> BOOLEAN]
      BY DEF RosterInv
    <2> HIDE DEF D
    <2>4. /\ ready' \in [Kinds -> Seq(Entries)] /\ remake' \in [Kinds -> BOOLEAN]
          /\ Exactly(ready', remake', bs)
          /\ gotList' = gotList \cup {u}
          /\ Knows(view', behind', is, Everyone(bs), D, gotList')
      BY <1>4, <1>5, <1>7, <1>10, <1>13, <2>1, <2>2, <2>3, SentIs
    <2>5. gotList' \subseteq CanSend'
      BY <1>7, <2>1, <2>4
    <2>6. Knows(view', behind', info', Listed', CanSend', gotList')
      BY <1>1, <1>6, <1>7, <2>4
    <2> QED
      BY <1>1, <1>4, <1>5, <1>8, <1>9, <2>4, <2>5, <2>6 DEF RosterInv
  <1>14. CASE ready' = lists /\ view' = seen /\ behind' = less /\ remake' = remake /\ gotList' = gotList
    <2>1. gotList' \subseteq CanSend'
      BY <1>3, <1>7, <1>14
    <2>2. Knows(view', behind', info', Listed', CanSend', gotList')
      BY <1>1, <1>6, <1>7, <1>12, <1>14
    <2>3. Exactly(ready', remake', buckets')
      BY <1>1, <1>10, <1>14
    <2>4. ready' \in [Kinds -> Seq(Entries)] /\ remake' \in [Kinds -> BOOLEAN]
      BY <1>10, <1>14 DEF RosterInv
    <2> QED
      BY <1>1, <1>4, <1>5, <1>8, <1>9, <2>1, <2>2, <2>3, <2>4 DEF RosterInv
  <1> QED
    BY <1>2, <1>13, <1>14

LEMMA RosterGets ==
    ASSUME RosterInv, NEW w \in RosterUsers, GetNickList(w)
    PROVE  RosterInv'
  <1>1. /\ w \in CanSend /\ SendLists(w, buckets, info, ready, view)
        /\ buckets' = buckets /\ mSize' = mSize /\ info' = info /\ cutOff' = cutOff
    BY DEF GetNickList
  <1>2. Listed' = Listed /\ CanSend' = CanSend /\ Listed = Everyone(buckets)
    BY <1>1 DEF Listed, CanSend
  <1>3. /\ ready' \in [Kinds -> Seq(Entries)] /\ remake' \in [Kinds -> BOOLEAN]
        /\ Exactly(ready', remake', buckets)
        /\ gotList' = gotList \cup {w}
        /\ Knows(view', behind', info, Listed, CanSend, gotList')
    BY <1>1, <1>2, InvFacts, SentIs DEF RosterInv
  <1>4. gotList' \subseteq CanSend
    BY <1>1, <1>3 DEF RosterInv
  <1> QED
    BY <1>1, <1>2, <1>3, <1>4 DEF RosterInv

LEMMA RosterUses ==
    ASSUME RosterInv, NEW k \in Kinds, UseList(k)
    PROVE  RosterInv'
  <1>1. /\ ready' = [ready EXCEPT ![k] = Got(k, buckets, info, ready)]
        /\ remake' = [remake EXCEPT ![k] = FALSE]
        /\ buckets' = buckets /\ mSize' = mSize /\ info' = info /\ cutOff' = cutOff
        /\ view' = view /\ gotList' = gotList /\ behind' = behind
    BY DEF UseList
  <1>2. Listed' = Listed /\ CanSend' = CanSend
    BY <1>1 DEF Listed, CanSend
  <1> DEFINE g == Got(k, buckets, info, ready)
  <1>3. g \in Seq(Entries) /\ NamedIn(g) = Everyone(buckets) /\ Len(g) = Cardinality(Everyone(buckets))
    BY GotIs DEF RosterInv
  <1> HIDE DEF g
  <1>4. ready \in [Kinds -> Seq(Entries)] /\ remake \in [Kinds -> BOOLEAN]
    BY DEF RosterInv
  <1>5. ready' = [ready EXCEPT ![k] = g]
    BY <1>1 DEF g
  <1>6. ready' \in [Kinds -> Seq(Entries)] /\ remake' \in [Kinds -> BOOLEAN]
    BY <1>1, <1>3, <1>4, <1>5
  <1>7. ready'[k] = g /\ \A l \in Kinds : l # k => ready'[l] = ready[l] /\ remake'[l] = remake[l]
    BY <1>1, <1>4, <1>5
  <1>8. Exactly(ready', remake', buckets)
    BY <1>3, <1>7 DEF Exactly, RosterInv
  <1> QED
    BY <1>1, <1>2, <1>6, <1>8 DEF RosterInv

LEMMA RosterAsksInfo ==
    ASSUME RosterInv, NEW w \in RosterUsers, NEW u \in RosterUsers, GetINFO(w, u)
    PROVE  RosterInv'
  <1>1. /\ w \in CanSend /\ u \in Listed /\ view' = [view EXCEPT ![w][u] = info[u]]
        /\ buckets' = buckets /\ mSize' = mSize /\ info' = info /\ cutOff' = cutOff
        /\ ready' = ready /\ remake' = remake /\ gotList' = gotList /\ behind' = behind
    BY DEF GetINFO
  <1>2. Listed' = Listed /\ CanSend' = CanSend
    BY <1>1 DEF Listed, CanSend
  <1>3. /\ view \in [RosterUsers -> [RosterUsers -> Whats]] /\ info[u] \in Whats
        /\ info[u] # Unknown
    BY DEF RosterInv, Knows, Whats, Infos, Unknown
  <1>4. /\ view' \in [RosterUsers -> [RosterUsers -> Whats]]
        /\ view'[w][u] = info[u]
        /\ \A y, x \in RosterUsers : y # w \/ x # u => view'[y][x] = view[y][x]
    <2>1. view' = [view EXCEPT ![w] = [view[w] EXCEPT ![u] = info[u]]]
      BY <1>1
    <2>2. view[w] \in [RosterUsers -> Whats]
      BY <1>3
    <2> DEFINE row == [view[w] EXCEPT ![u] = info[u]]
    <2>3. row \in [RosterUsers -> Whats] /\ row[u] = info[u]
          /\ \A x \in RosterUsers : x # u => row[x] = view[w][x]
      BY <1>3, <2>2
    <2> HIDE DEF row
    <2>4. view' \in [RosterUsers -> [RosterUsers -> Whats]] /\ view'[w] = row
          /\ \A y \in RosterUsers : y # w => view'[y] = view[y]
      BY <1>3, <2>1, <2>3 DEF row
    <2> QED
      BY <2>3, <2>4
  <1>5. Knows(view', behind, info, Listed, CanSend, gotList)
    <2>0. Knows(view, behind, info, Listed, CanSend, gotList) /\ gotList \subseteq RosterUsers
          /\ Listed \subseteq RosterUsers /\ CanSend \subseteq RosterUsers
      BY InvFacts DEF RosterInv
    <2>1. ASSUME NEW y \in RosterUsers, NEW x \in RosterUsers, view'[y][x] # Unknown
          PROVE  y \in CanSend /\ x \in Listed
      BY <1>1, <1>4, <2>0, <2>1 DEF Knows
    <2>2. ASSUME NEW y \in gotList, NEW x \in Listed PROVE view'[y][x] # Unknown
      BY <1>3, <1>4, <2>0, <2>2 DEF Knows
    <2>3. ASSUME NEW y \in CanSend, NEW x \in Listed
          PROVE  view'[y][x] \in {info[x], NickOnly, Unknown} \/ x \in behind[y]
      <3>1. view[y][x] \in {info[x], NickOnly, Unknown} \/ x \in behind[y]
        BY <2>0 DEF Knows
      <3>2. y \in RosterUsers /\ x \in RosterUsers
        BY <2>0
      <3>3. CASE y = w /\ x = u
        BY <1>4, <3>3
      <3>4. CASE ~(y = w /\ x = u)
        <4>1. view'[y][x] = view[y][x]
          BY <1>4, <3>2, <3>4
        <4> QED
          BY <3>1, <4>1
      <3> QED
        BY <3>3, <3>4
    <2> QED
      BY <1>4, <2>0, <2>1, <2>2, <2>3 DEF Knows
  <1> QED
    BY <1>1, <1>2, <1>5 DEF RosterInv

LEMMA RosterChanges ==
    ASSUME RosterInv, NEW u \in RosterUsers, NEW i \in Infos, ChangeInfo(u, i)
    PROVE  RosterInv'
  <1> DEFINE less == [w \in RosterUsers |-> behind[w] \ {u}]
  <1>1. /\ u \in Listed /\ info' = [info EXCEPT ![u] = i] /\ view' = Told(view, u, i, CanSend)
        /\ behind' = less
        /\ buckets' = buckets /\ mSize' = mSize /\ cutOff' = cutOff
        /\ ready' = ready /\ remake' = remake /\ gotList' = gotList
    BY DEF ChangeInfo
  <1>2. Listed' = Listed /\ CanSend' = CanSend /\ Listed \cup {u} = Listed
    BY <1>1 DEF Listed, CanSend
  <1>3. info' \in [RosterUsers -> Infos]
    BY <1>1 DEF RosterInv
  <1>4. /\ less \in [RosterUsers -> SUBSET RosterUsers]
        /\ \A w \in RosterUsers : behind[w] \ {u} \subseteq less[w]
    BY DEF RosterInv, Knows
  <1> HIDE DEF less
  <1>5. Knows(view', less, info', Listed \cup {u}, CanSend, gotList)
    <2>1. /\ Knows(view, behind, info, Listed, CanSend, gotList) /\ info \in [RosterUsers -> Infos]
          /\ CanSend \subseteq CanSend
      BY DEF RosterInv
    <2> QED
      BY <1>1, <1>4, <2>1, InvFacts, ToldKnows
  <1> QED
    BY <1>1, <1>2, <1>3, <1>5 DEF RosterInv

LEMMA RosterBreaks ==
    ASSUME RosterInv, NEW u \in RosterUsers, Break(u)
    PROVE  RosterInv'
  <1>1. /\ u \in CanSend /\ cutOff' = cutOff \cup {u}
        /\ view' = [view EXCEPT ![u] = Nothing] /\ gotList' = gotList \ {u}
        /\ behind' = [behind EXCEPT ![u] = {}]
        /\ buckets' = buckets /\ mSize' = mSize /\ info' = info
        /\ ready' = ready /\ remake' = remake
    BY DEF Break, Forgets
  <1>2. Listed' = Listed
    BY <1>1 DEF Listed
  <1>3. CanSend' = CanSend \ {u}
    BY <1>1, <1>2 DEF CanSend
  <1>4. Knows(view', behind', info, Listed, CanSend \ {u}, gotList')
    <2>1. Knows(view, behind, info, Listed, CanSend, gotList)
      BY DEF RosterInv
    <2> QED
      BY <1>1, <2>1, InvFacts, ForgotKnows
  <1>5. cutOff' \subseteq Listed /\ gotList' \subseteq CanSend \ {u}
    BY <1>1, InvFacts DEF RosterInv
  <1> QED
    BY <1>1, <1>2, <1>3, <1>4, <1>5 DEF RosterInv

LEMMA RosterQuits ==
    ASSUME RosterInv, NEW u \in RosterUsers, Quit(u)
    PROVE  RosterInv'
  <1> DEFINE told == Told(view, u, Unknown, CanSend)
             less == [w \in RosterUsers |-> behind[w] \ {u}]
  <1>1. /\ u \in Listed /\ buckets' = RemoveByHash(u, buckets) /\ mSize' = mSize - 1
        /\ remake' = [k \in Kinds |-> TRUE] /\ ready' = [k \in Kinds |-> <<>>]
        /\ cutOff' = cutOff \ {u} /\ info' = [info EXCEPT ![u] = 1]
        /\ view' = [told EXCEPT ![u] = Nothing] /\ gotList' = gotList \ {u}
        /\ behind' = [less EXCEPT ![u] = {}]
    BY DEF Quit, Forgets, AllRemade
  <1>2. /\ Sound(buckets') /\ Listed' = Listed \ {u}
    BY <1>1, RemovedSound DEF RosterInv, Listed
  <1>3. CanSend' = CanSend \ {u}
    BY <1>1, <1>2 DEF CanSend
  <1>4. mSize' = Cardinality(Listed')
    BY <1>1, <1>2, InvFacts, FS_RemoveElement DEF RosterInv
  <1>5. info' \in [RosterUsers -> Infos]
    <2>1. 1 \in Infos
      BY RosterAssumption DEF Infos
    <2> QED
      BY <1>1, <2>1 DEF RosterInv
  <1>6. ready' \in [Kinds -> Seq(Entries)] /\ remake' \in [Kinds -> BOOLEAN]
    BY <1>1
  <1>7. Exactly(ready', remake', buckets')
    BY <1>1 DEF Exactly
  <1>8. cutOff' \subseteq Listed' /\ gotList' \subseteq CanSend'
    BY <1>1, <1>2, <1>3 DEF RosterInv
  <1>9. Knows(told, less, info', Listed \ {u}, CanSend, gotList)
    <2>1. Knows(view, behind, info, Listed, CanSend, gotList) /\ info \in [RosterUsers -> Infos]
      BY DEF RosterInv
    <2> QED
      BY <1>1, <2>1, InvFacts, LeftKnows
  <1> HIDE DEF told, less
  <1>10. Knows(view', behind', info', Listed \ {u}, CanSend \ {u}, gotList')
    <2>1. Listed \ {u} \in SUBSET RosterUsers
      BY InvFacts
    <2> QED
      BY <1>1, <1>9, <2>1, InvFacts, ForgotKnows
  <1> QED
    BY <1>2, <1>3, <1>4, <1>5, <1>6, <1>7, <1>8, <1>10 DEF RosterInv

LEMMA RosterResizes ==
    ASSUME RosterInv, AutoResize
    PROVE  RosterInv'
  <1>1. /\ buckets' = Resized(buckets, Fitting(mSize))
        /\ mSize' = mSize /\ info' = info /\ cutOff' = cutOff /\ view' = view
        /\ ready' = ready /\ remake' = remake /\ gotList' = gotList /\ behind' = behind
    BY DEF AutoResize
  <1>2. Fitting(mSize) \in Nat \ {0}
    BY InvFacts DEF Fitting
  <1>3. Sound(buckets') /\ Everyone(buckets') = Everyone(buckets)
    BY <1>1, <1>2, ResizedSound DEF RosterInv
  <1>4. Listed' = Listed /\ CanSend' = CanSend
    BY <1>1, <1>3 DEF Listed, CanSend
  <1>5. Exactly(ready', remake', buckets')
    BY <1>1, <1>3 DEF Exactly, RosterInv
  <1> QED
    BY <1>1, <1>3, <1>4, <1>5 DEF RosterInv

LEMMA RosterStarts == ASSUME RosterInit PROVE RosterInv
  <1>1. /\ buckets = [i \in 1 .. InitialCapacity |-> <<>>] /\ mSize = 0
        /\ ready = [k \in Kinds |-> <<>>] /\ remake = [k \in Kinds |-> TRUE]
        /\ info = [u \in RosterUsers |-> 1] /\ cutOff = {}
        /\ view = [u \in RosterUsers |-> Nothing] /\ gotList = {}
        /\ behind = [u \in RosterUsers |-> {}]
    BY DEF RosterInit, AllRemade
  <1>2. InitialCapacity \in Nat \ {0} /\ 1 \in Infos
    BY RosterAssumption DEF Infos
  <1>3. Sound(buckets) /\ Everyone(buckets) = {}
    BY <1>1, <1>2, EmptySound
  <1>4. Listed = {} /\ CanSend = {}
    BY <1>1, <1>3 DEF Listed, CanSend
  <1>5. mSize = Cardinality(Listed)
    BY <1>1, <1>4, FS_EmptySet
  <1>6. ready \in [Kinds -> Seq(Entries)] /\ remake \in [Kinds -> BOOLEAN]
    BY <1>1
  <1>7. info \in [RosterUsers -> Infos]
    BY <1>1, <1>2
  <1>8. Exactly(ready, remake, buckets)
    BY <1>1 DEF Exactly
  <1>9. Knows(view, behind, info, Listed, CanSend, gotList)
    <2>1. Nothing \in [RosterUsers -> Whats] /\ \A x \in RosterUsers : Nothing[x] = Unknown
      BY DEF Nothing, Whats
    <2>2. view \in [RosterUsers -> [RosterUsers -> Whats]]
          /\ \A w \in RosterUsers : view[w] = Nothing
      BY <1>1, <2>1
    <2>3. behind \in [RosterUsers -> SUBSET RosterUsers]
      BY <1>1
    <2> QED
      BY <1>1, <1>4, <2>1, <2>2, <2>3 DEF Knows
  <1> QED
    BY <1>1, <1>3, <1>4, <1>5, <1>6, <1>7, <1>8, <1>9 DEF RosterInv

LEMMA RosterStep == ASSUME RosterInv, [RosterNext]_rosterVars PROVE RosterInv'
  <1>1. CASE RosterNext
    <2>1. CASE \E u \in RosterUsers, i \in Infos, asks \in BOOLEAN : Arrive(u, i, asks)
      BY <2>1, RosterArrive
    <2>2. CASE \E u \in RosterUsers, i \in Infos : ChangeInfo(u, i)
      BY <2>2, RosterChanges
    <2>3. CASE \E u \in RosterUsers : GetNickList(u)
      BY <2>3, RosterGets
    <2>4. CASE \E u \in RosterUsers : Break(u)
      BY <2>4, RosterBreaks
    <2>5. CASE \E u \in RosterUsers : Quit(u)
      BY <2>5, RosterQuits
    <2>6. CASE \E w, u \in RosterUsers : GetINFO(w, u)
      BY <2>6, RosterAsksInfo
    <2>7. CASE \E k \in Kinds : UseList(k)
      BY <2>7, RosterUses
    <2>8. CASE AutoResize
      BY <2>8, RosterResizes
    <2> QED
      BY <1>1, <2>1, <2>2, <2>3, <2>4, <2>5, <2>6, <2>7, <2>8 DEF RosterNext
  <1>2. CASE UNCHANGED rosterVars
    <2>1. /\ buckets' = buckets /\ mSize' = mSize /\ info' = info /\ cutOff' = cutOff
          /\ view' = view /\ ready' = ready /\ remake' = remake /\ gotList' = gotList
          /\ behind' = behind
      BY <1>2 DEF rosterVars
    <2>2. Listed' = Listed /\ CanSend' = CanSend
      BY <2>1 DEF Listed, CanSend
    <2> QED
      BY <2>1, <2>2 DEF RosterInv
  <1> QED
    BY <1>1, <1>2

\* The invariant says what the collection is to be.
LEMMA RosterInvExact == ASSUME RosterInv PROVE CollectionsExact
  <1>1. Sound(buckets) /\ mSize = Cardinality(Everyone(buckets)) /\ Listed = Everyone(buckets)
    BY DEF RosterInv, Listed
  <1>2. ASSUME NEW i \in DOMAIN buckets, NEW u \in ToSet(buckets[i]) PROVE SlotOf(u, buckets) = i
    <2>1. i \in 1 .. Len(buckets) /\ buckets[i] \in Seq(RosterUsers)
      BY <1>1, TableFacts DEF Sound, Chains
    <2>2. PICK p \in 1 .. Len(buckets[i]) : buckets[i][p] = u
      BY <2>1 DEF ToSet
    <2> QED
      BY <1>1, <2>1, <2>2 DEF Sound
  <1>3. IsInjective(InOrder(buckets)) /\ mSize = Len(InOrder(buckets))
    BY <1>1, InOrderIs, CountedLen
  <1>4. TableExact
    BY <1>2, <1>3 DEF TableExact
  <1>5. ReadyExact
    <2>1. Exactly(ready, remake, buckets)
      BY DEF RosterInv
    <2> QED
      BY <1>1, <2>1 DEF ReadyExact, Exactly, NamedIn
  <1>6. ViewExact
    <2>1. /\ Knows(view, behind, info, Listed, CanSend, gotList)
          /\ CanSend \subseteq RosterUsers /\ Listed \subseteq RosterUsers
      BY InvFacts DEF RosterInv
    <2>2. ASSUME NEW w \in CanSend, NEW u \in RosterUsers
          PROVE  /\ w \in gotList => (view[w][u] # Unknown <=> u \in Listed)
                 /\ u \in Listed => view[w][u] \in {info[u], NickOnly, Unknown} \/ u \in behind[w]
      BY <2>1 DEF Knows
    <2> QED
      BY <1>5, <2>2 DEF ViewExact
  <1> QED
    BY <1>4, <1>6 DEF CollectionsExact

\* The user list, in every state: the hash table finds everybody it holds, once, and counts them;
\* and what was made of it and what the clients have been told is who is there.
THEOREM CollectionsExactAlways == RosterSpec => []CollectionsExact
  <1>1. RosterInit => RosterInv
    BY RosterStarts
  <1>2. RosterInv /\ [RosterNext]_rosterVars => RosterInv'
    BY RosterStep
  <1>3. RosterInv => CollectionsExact
    BY RosterInvExact
  <1> QED
    BY <1>1, <1>2, <1>3, PTL DEF RosterSpec

-----------------------------------------------------------------------------
(* The types: what UpkeepInv, ScriptsInv and GuestsInv leave open of them *)

\* The order to stop; the times and the length of the list; the functions
\* that change a setting; the sessions.
StopTypes ==
    /\ up \in {"run", "ended", "killed"} /\ stopIn \in Nat \cup {Never}
    /\ result \in {0, 1} /\ orders \in 0 .. MaxOrders
TimeTypes ==
    /\ total \in Nat /\ total <= MaxTotal
    /\ minute \in 0 .. Minute - 1 /\ quiet \in 0 .. Quiet
RampTypes ==
    /\ usersMax \in Int
    /\ ramps \subseteq [left : Int, done : Int, skip : Int, by : Int, target : Int, from : Int]
Seen == {Unseen} \cup (0 .. MaxSessions)
SessionTypes ==
    /\ session \in [Askers -> 0 .. MaxSessions] /\ came \in [Askers -> 0 .. MaxSessions]
    /\ errand \in [Kinds2 -> Askers \cup {NoAsker, None}] /\ sought \in [Kinds2 -> Seen]
UpkeepKeeps == StopTypes /\ TimeTypes /\ RampTypes /\ SessionTypes

LEMMA UpkeepKeepsInit == UpkeepInit => UpkeepKeeps
  <1> SUFFICES ASSUME UpkeepInit PROVE UpkeepKeeps
    OBVIOUS
  <1>0. /\ MaxOrders \in Nat /\ MaxTotal \in Nat /\ Minute \in Nat \ {0} /\ MaxSessions \in Nat
    BY UpkeepAssumption
  <1>1. StopTypes
    BY <1>0 DEF UpkeepInit, StopTypes
  <1>2. TimeTypes
    BY <1>0 DEF UpkeepInit, TimeTypes, Quiet
  <1>3. RampTypes
    BY DEF UpkeepInit, RampTypes
  <1>4. SessionTypes
    BY <1>0 DEF UpkeepInit, SessionTypes, Seen
  <1> QED
    BY <1>1, <1>2, <1>3, <1>4 DEF UpkeepKeeps

\* An order to stop, a signal, and the test of mT.stop.
LEMMA StopKept ==
    ASSUME StopTypes,
           OrderSteps \/ Elapsed \/ UNCHANGED stopVars \/ (\E k \in Kinds2 : DoErrand(k))
    PROVE  StopTypes'
  <1>0. /\ up \in {"run", "ended", "killed"} /\ stopIn \in Nat \cup {Never}
        /\ result \in {0, 1} /\ orders \in 0 .. MaxOrders
        /\ Delays \subseteq Nat /\ MaxOrders \in Nat
    BY UpkeepAssumption DEF StopTypes
  <1>1. ASSUME NEW code \in {-1, 0, 1}, NEW text \in Delays \cup {Never, NoPeriod},
               CmdQuit(code, text)
        PROVE  StopTypes'
    <2> DEFINE delay == DelayOf(text)
               c == IF delay = Never THEN 0 ELSE code
    <2>1. delay \in Nat \cup {Never}
      BY <1>0 DEF DelayOf, Never, NoPeriod
    <2>2. c \in {-1, 0, 1}
      OBVIOUS
    <2>3. orders' = orders + 1 /\ orders < MaxOrders
      BY <1>1 DEF CmdQuit
    <2>4. IF c >= 0 THEN stopIn' = delay /\ result' = c /\ up' = up
          ELSE up' = "killed" /\ stopIn' = stopIn /\ result' = result
      BY <1>1 DEF CmdQuit, Stops
    <2> HIDE DEF delay, c
    <2> QED
      BY <1>0, <2>1, <2>2, <2>3, <2>4 DEF StopTypes
  <1>2. CASE Signalled
    BY <1>0, <1>2 DEF Signalled, Stops, StopTypes
  <1>3. CASE Elapsed
    BY <1>0, <1>3 DEF Elapsed, StopTypes, Never
  <1>4. CASE UNCHANGED stopVars
    BY <1>0, <1>4 DEF stopVars, StopTypes
  <1>5. CASE EditFiles \/ SyncReload
    <2>1. UNCHANGED stopVars
      BY <1>5 DEF EditFiles, SyncReload
    <2> QED
      BY <1>4, <2>1
  <1>6. CASE \E k \in Kinds2 : DoErrand(k)
    BY <1>0, <1>6 DEF DoErrand, StopTypes
  <1> QED
    BY <1>1, <1>2, <1>3, <1>4, <1>5, <1>6 DEF OrderSteps

\* A connection from another hub, and the minute's report.
LEMMA TimeKept ==
    ASSUME TimeTypes,
           \/ \E ref \in Referers \cup {NoRef} : CtmToHubAddItem(ref)
           \/ WatchCtm \/ UNCHANGED attackVars
    PROVE  TimeTypes'
  <1>0. /\ total \in Nat /\ total <= MaxTotal
        /\ minute \in 0 .. Minute - 1 /\ quiet \in 0 .. Quiet
        /\ MaxTotal \in Nat /\ Minute \in Nat /\ Minute > 0 /\ Quiet \in Nat
    BY UpkeepAssumption DEF TimeTypes, Quiet
  <1>1. ASSUME NEW ref, CtmToHubAddItem(ref) PROVE TimeTypes'
    BY <1>0, <1>1 DEF CtmToHubAddItem, TimeTypes, Quiet
  <1>2. CASE WatchCtm
    <2>1. CASE minute + 1 < Minute
      <3>1. /\ minute' = minute + 1 /\ total' = total
            /\ quiet' = IF quiet < Quiet THEN quiet + 1 ELSE quiet
        BY <1>2, <2>1 DEF WatchCtm
      <3>2. minute' \in 0 .. Minute - 1
        BY <1>0, <2>1, <3>1
      <3>3. quiet' \in 0 .. Quiet
        BY <1>0, <3>1
      <3>4. total' \in Nat /\ total' <= MaxTotal
        BY <1>0, <3>1
      <3>5. Quiet' = Quiet
        BY DEF Quiet
      <3> QED
        BY <3>2, <3>3, <3>4, <3>5 DEF TimeTypes
    <2>2. CASE ~(minute + 1 < Minute)
      <3>1. minute' = 0
        BY <1>2, <2>2 DEF WatchCtm
      <3>2. minute' \in 0 .. Minute - 1
        BY <1>0, <3>1
      <3>3. \/ total' = total /\ quiet' = (IF quiet < Quiet THEN quiet + 1 ELSE quiet)
            \/ total' = total /\ quiet' = 0
            \/ total' = 0 /\ quiet' = 0
            \/ total' = total /\ quiet' = quiet + 1 /\ ~(quiet + 1 >= Quiet)
        BY <1>2, <2>2 DEF WatchCtm, Gathered, Cleared
      <3>4. quiet' \in 0 .. Quiet
        BY <1>0, <3>3
      <3>5. total' \in Nat /\ total' <= MaxTotal
        BY <1>0, <3>3
      <3>6. Quiet' = Quiet
        BY DEF Quiet
      <3> QED
        BY <3>2, <3>4, <3>5, <3>6 DEF TimeTypes
    <2> QED
      BY <2>1, <2>2
  <1>3. CASE UNCHANGED attackVars
    BY <1>0, <1>3 DEF attackVars, TimeTypes, Quiet
  <1> QED
    BY <1>1, <1>2, <1>3

\* !userlimit, and a step of the functions.
LEMMA RampKept ==
    ASSUME RampTypes,
           (\E target \in Targets : CmdUserLimit(target)) \/ StepRamps \/ UNCHANGED rampVars
    PROVE  RampTypes'
  <1> DEFINE R == [left : Int, done : Int, skip : Int, by : Int, target : Int, from : Int]
  <1>0. usersMax \in Int /\ ramps \subseteq R /\ Targets \subseteq Nat /\ Minute \in Nat
    BY UpkeepAssumption DEF RampTypes
  <1>1. ASSUME NEW target \in Targets, CmdUserLimit(target) PROVE RampTypes'
    <2>1. ramps' = {Ramp(target, Minute)} /\ usersMax' = usersMax
      BY <1>1 DEF CmdUserLimit
    <2>2. (target - usersMax) \div 2 \in Int
      BY <1>0
    <2>3. Ramp(target, Minute) \in R
      BY <1>0, <2>2 DEF Ramp
    <2> QED
      BY <1>0, <2>1, <2>3 DEF RampTypes
  <1>2. CASE StepRamps
    <2> DEFINE going == {r \in ramps : r.left > 0}
    <2>1. /\ ramps' = {Stepped(r) : r \in going}
          /\ usersMax' = IF \E r \in going : Due(r)
                         THEN usersMax + (CHOOSE r \in going : Due(r)).by ELSE usersMax
      BY <1>2 DEF StepRamps
    <2>2. ASSUME NEW r \in going PROVE Stepped(r) \in R
      <3>1. r \in R
        BY <1>0
      <3>2. /\ r.left - 1 \in Int /\ r.done + 1 \in Int
        BY <3>1
      <3>3. r.by \div 2 \in Int
        BY <3>1
      <3> DEFINE a == [r EXCEPT !.left = r.left - 1]
                 b == [a EXCEPT !.done = 0]
      <3>4. a \in R /\ a.by = r.by /\ a.done = r.done
        BY <3>1, <3>2
      <3>5. Stepped(r) = IF Due(r) THEN [b EXCEPT !.by = r.by \div 2]
                                   ELSE [a EXCEPT !.done = r.done + 1]
        BY <3>1 DEF Stepped
      <3> HIDE DEF a
      <3>6. b \in R /\ b.by = r.by
        BY <3>4
      <3> HIDE DEF b
      <3>7. [b EXCEPT !.by = r.by \div 2] \in R
        BY <3>3, <3>6
      <3>8. [a EXCEPT !.done = r.done + 1] \in R
        BY <3>2, <3>4
      <3> QED
        BY <3>5, <3>7, <3>8
    <2>3. ramps' \subseteq R
      BY <2>1, <2>2
    <2>4. usersMax' \in Int
      <3>1. CASE \E r \in going : Due(r)
        <4> DEFINE r == CHOOSE r \in going : Due(r)
        <4>1. r \in going
          BY <3>1
        <4>2. r \in R
          BY <1>0, <4>1
        <4>3. r.by \in Int
          BY <4>2
        <4>4. usersMax' = usersMax + r.by
          BY <2>1, <3>1
        <4> HIDE DEF r
        <4> QED
          BY <1>0, <4>3, <4>4
      <3>2. CASE ~ \E r \in going : Due(r)
        BY <1>0, <2>1, <3>2
      <3> QED
        BY <3>1, <3>2
    <2> QED
      BY <2>3, <2>4 DEF RampTypes
  <1>3. CASE UNCHANGED rampVars
    BY <1>0, <1>3 DEF rampVars, RampTypes
  <1> QED
    BY <1>1, <1>2, <1>3

\* Operators come and go.
LEMMA SessionsKept ==
    ASSUME SessionTypes, ErrandSteps \/ UNCHANGED errandVars
    PROVE  SessionTypes'
  <1>0. /\ session \in [Askers -> 0 .. MaxSessions] /\ came \in [Askers -> 0 .. MaxSessions]
        /\ errand \in [Kinds2 -> Askers \cup {NoAsker, None}] /\ sought \in [Kinds2 -> Seen]
        /\ MaxSessions \in Nat /\ Unseen \in Seen /\ 0 \in 0 .. MaxSessions
        /\ 0 .. MaxSessions \subseteq Seen
    BY UpkeepAssumption DEF SessionTypes, Seen
  <1>1. ASSUME NEW n \in Askers, Enters(n) PROVE SessionTypes'
    <2>1. /\ came' = [came EXCEPT ![n] = came[n] + 1] /\ came[n] < MaxSessions
          /\ session' = [session EXCEPT ![n] = came[n] + 1] /\ UNCHANGED <<errand, sought>>
      BY <1>1 DEF Enters
    <2>2. came[n] \in 0 .. MaxSessions
      BY <1>0
    <2>3. came[n] + 1 \in 0 .. MaxSessions
      BY <1>0, <2>1, <2>2
    <2>4. came' \in [Askers -> 0 .. MaxSessions]
      BY <1>0, <2>1, <2>3
    <2>5. session' \in [Askers -> 0 .. MaxSessions]
      BY <1>0, <2>1, <2>3
    <2> QED
      BY <1>0, <2>1, <2>4, <2>5 DEF SessionTypes
  <1>2. ASSUME NEW n \in Askers, Leaves(n) PROVE SessionTypes'
    <2>1. session' = [session EXCEPT ![n] = 0] /\ UNCHANGED <<came, errand, sought>>
      BY <1>2 DEF Leaves
    <2>2. session' \in [Askers -> 0 .. MaxSessions]
      BY <1>0, <2>1
    <2> QED
      BY <1>0, <2>1, <2>2 DEF SessionTypes
  <1>3. ASSUME NEW n \in Askers, NEW k \in Kinds2, Asked(k, n) PROVE SessionTypes'
    <2>1. errand' = [errand EXCEPT ![k] = n] /\ UNCHANGED <<sought, session, came>>
      BY <1>3 DEF Asked
    <2>2. errand' \in [Kinds2 -> Askers \cup {NoAsker, None}]
      BY <1>0, <2>1
    <2> QED
      BY <1>0, <2>1, <2>2 DEF SessionTypes
  <1>4. ASSUME NEW k \in Kinds2, ByTimer(k) PROVE SessionTypes'
    <2>1. errand' = [errand EXCEPT ![k] = NoAsker] /\ UNCHANGED <<sought, session, came>>
      BY <1>4 DEF ByTimer
    <2>2. errand' \in [Kinds2 -> Askers \cup {NoAsker, None}]
      BY <1>0, <2>1
    <2> QED
      BY <1>0, <2>1, <2>2 DEF SessionTypes
  <1>5. ASSUME NEW k \in Kinds2, SeekAsker(k) PROVE SessionTypes'
    <2> DEFINE seen == IF errand[k] = NoAsker THEN 0 ELSE session[errand[k]]
    <2>1. /\ sought' = [sought EXCEPT ![k] = seen] /\ errand[k] # None
          /\ UNCHANGED <<errand, session, came>>
      BY <1>5 DEF SeekAsker
    <2>2. seen \in 0 .. MaxSessions
      BY <1>0, <2>1
    <2> HIDE DEF seen
    <2>3. sought' \in [Kinds2 -> Seen]
      BY <1>0, <2>1, <2>2
    <2> QED
      BY <1>0, <2>1, <2>3 DEF SessionTypes, Seen
  <1>6. ASSUME NEW k \in Kinds2, DoErrand(k) PROVE SessionTypes'
    <2>1. /\ errand' = [errand EXCEPT ![k] = None] /\ sought' = [sought EXCEPT ![k] = Unseen]
          /\ UNCHANGED <<session, came>>
      BY <1>6 DEF DoErrand
    <2>2. errand' \in [Kinds2 -> Askers \cup {NoAsker, None}]
      BY <1>0, <2>1
    <2>3. sought' \in [Kinds2 -> Seen]
      BY <1>0, <2>1
    <2> QED
      BY <1>0, <2>1, <2>2, <2>3 DEF SessionTypes, Seen
  <1>7. CASE UNCHANGED errandVars
    BY <1>0, <1>7 DEF errandVars, SessionTypes, Seen
  <1> QED
    BY <1>1, <1>2, <1>3, <1>4, <1>5, <1>6, <1>7 DEF ErrandSteps

LEMMA UpkeepKeepsNext == UpkeepKeeps /\ [UpkeepNext]_upkeepVars => UpkeepKeeps'
  <1> SUFFICES ASSUME UpkeepKeeps, [UpkeepNext]_upkeepVars PROVE UpkeepKeeps'
    OBVIOUS
  <1>0. StopTypes /\ TimeTypes /\ RampTypes /\ SessionTypes
    BY DEF UpkeepKeeps
  <1>1. CASE UNCHANGED upkeepVars
    <2>1. UNCHANGED <<stopVars, attackVars, rampVars, errandVars>>
      BY <1>1 DEF upkeepVars
    <2> QED
      BY <1>0, <2>1, StopKept, TimeKept, RampKept, SessionsKept DEF UpkeepKeeps
  <1>2. CASE OrderSteps
    <2>1. UNCHANGED <<attackVars, rampVars, errandVars>>
      BY <1>2 DEF OrderSteps, CmdQuit, Signalled, EditFiles, SyncReload
    <2> QED
      BY <1>0, <1>2, <2>1, StopKept, TimeKept, RampKept, SessionsKept DEF UpkeepKeeps
  <1>3. CASE \E ref \in Referers \cup {NoRef} : CtmToHubAddItem(ref)
    <2>1. UNCHANGED <<stopVars, rampVars, errandVars>>
      BY <1>3 DEF CtmToHubAddItem
    <2> QED
      BY <1>0, <1>3, <2>1, StopKept, TimeKept, RampKept, SessionsKept DEF UpkeepKeeps
  <1>4. CASE \E target \in Targets : CmdUserLimit(target)
    <2>1. UNCHANGED <<stopVars, attackVars, errandVars>>
      BY <1>4 DEF CmdUserLimit
    <2> QED
      BY <1>0, <1>4, <2>1, StopKept, TimeKept, RampKept, SessionsKept DEF UpkeepKeeps
  <1>5. CASE ErrandSteps
    <2>1. /\ UNCHANGED <<attackVars, rampVars>>
          /\ UNCHANGED stopVars \/ \E k \in Kinds2 : DoErrand(k)
      BY <1>5 DEF ErrandSteps, Enters, Leaves, Asked, ByTimer, SeekAsker, DoErrand
    <2> QED
      BY <1>0, <1>5, <2>1, StopKept, TimeKept, RampKept, SessionsKept DEF UpkeepKeeps
  <1>6. CASE OnTimer
    <2>1. StepRamps /\ WatchCtm /\ Elapsed /\ UNCHANGED errandVars
      BY <1>6 DEF OnTimer
    <2> QED
      BY <1>0, <2>1, StopKept, TimeKept, RampKept, SessionsKept DEF UpkeepKeeps
  <1>7. CASE EndReload
    <2>1. UNCHANGED <<stopVars, attackVars, rampVars, errandVars>>
      BY <1>7 DEF EndReload
    <2> QED
      BY <1>0, <2>1, StopKept, TimeKept, RampKept, SessionsKept DEF UpkeepKeeps
  <1> QED
    BY <1>1, <1>2, <1>3, <1>4, <1>5, <1>6, <1>7 DEF UpkeepNext, WatchSteps, LoopStep

\* The fields of Upkeep have their types.
LEMMA UpkeepTyped ==
    ASSUME UpkeepInv, UpkeepKeeps
    PROVE  UpkeepTypeOK
  <1>1. /\ up \in {"run", "ended", "killed"} /\ stopIn \in Delays \cup Nat \cup {Never}
        /\ result \in {0, 1} /\ orders \in 0 .. MaxOrders
    BY DEF UpkeepKeeps, StopTypes
  <1>2. /\ fresh \in Nat /\ total \in Nat /\ fresh <= total /\ attack \in BOOLEAN
        /\ found \in [Referers -> {"no", "new", "told"}]
    BY DEF UpkeepInv, WatchInv, WatchTypes
  <1>a. MaxTotal \in Nat
    BY UpkeepAssumption
  <1>3. /\ total <= MaxTotal /\ minute \in 0 .. Minute - 1 /\ quiet \in 0 .. Quiet
        /\ usersMax \in Int
    BY DEF UpkeepKeeps, TimeTypes, RampTypes
  <1>4. fresh \in 0 .. total /\ total \in 0 .. MaxTotal
    <2>1. fresh \in Nat /\ total \in Nat /\ fresh <= total /\ total <= MaxTotal
      BY <1>2, <1>3
    <2> QED
      BY <1>a, <2>1
  <1>b. /\ hup \in BOOLEAN /\ reading \in BOOLEAN /\ edited \in BOOLEAN
        /\ wanted \in BOOLEAN /\ missed \in BOOLEAN
    BY Zenon DEF UpkeepInv, ReloadInv, ReloadTypes
  <1>5. \A b \in {hup, reading, edited, wanted, missed} : b \in BOOLEAN
    BY <1>b, Zenon
  <1>6. errand \in [Kinds2 -> Askers \cup {NoAsker, None}]
    BY DEF UpkeepInv, OwedInv, OwedTypes
  <1>7. /\ session \in [Askers -> 0 .. MaxSessions] /\ came \in [Askers -> 0 .. MaxSessions]
        /\ sought \in [Kinds2 -> {Unseen} \cup (0 .. MaxSessions)]
    BY DEF UpkeepKeeps, SessionTypes, Seen
  <1>c. attack \in BOOLEAN /\ found \in [Referers -> {"no", "new", "told"}]
    BY <1>2, Zenon
  <1>d. minute \in 0 .. Minute - 1 /\ quiet \in 0 .. Quiet /\ usersMax \in Int
    BY <1>3, Zenon
  <1> QED
    BY <1>1, <1>4, <1>5, <1>6, <1>7, <1>c, <1>d, Zenon DEF UpkeepTypeOK

\* The scripts of a plugin are files of its directory, once each; the queue
\* of commands and the passes are within their limits.
ScriptNames == UNION {ToSet(Files[p]) : p \in Plugins}
ScriptList(p, list) ==
    list \in Seq(ScriptNames) /\ IsInjective(list) /\ ToSet(list) \subseteq ToSet(Files[p])
LoadedKeeps == loaded \in [Plugins -> Seq(ScriptNames)] /\ \A p \in Plugins : ScriptList(p, loaded[p])
QueueKeeps ==
    /\ queue \in 0 .. Limit /\ pos \in Nat /\ pos <= queue
    /\ phase \in {"idle", "drain", "timer"}
    /\ mData \in 0 .. MaxDepth
DepthKeeps == Len(stack) <= MaxDepth
ScriptsKeep == LoadedKeeps /\ QueueKeeps /\ DepthKeeps

LEMMA ScriptsKeepInit == ScriptsInit => ScriptsKeep
  <1> SUFFICES ASSUME ScriptsInit PROVE ScriptsKeep
    OBVIOUS
  <1>0. Limit \in Nat \ {0} /\ MaxDepth \in Nat \ {0}
    BY ScriptsAssumption
  <1>1. loaded = [p \in Plugins |-> <<>>] /\ stack = <<>>
    BY DEF ScriptsInit
  <1>2. \A p \in Plugins : ScriptList(p, <<>>)
    BY DEF ScriptList, IsInjective, ToSet
  <1>3. LoadedKeeps
    BY <1>1, <1>2 DEF LoadedKeeps, ScriptList
  <1>4. QueueKeeps
    BY <1>0 DEF ScriptsInit, QueueKeeps
  <1>5. DepthKeeps
    BY <1>0, <1>1 DEF DepthKeeps
  <1> QED
    BY <1>3, <1>4, <1>5 DEF ScriptsKeep

\* A list without a script that is in it.
LEMMA WithoutIs ==
    ASSUME NEW p \in Plugins, NEW s, ScriptList(p, loaded[p])
    PROVE  ScriptList(p, Without(p, s)) /\ s \notin ToSet(Without(p, s))
  <1> DEFINE i == CHOOSE i \in 1 .. Len(loaded[p]) : loaded[p][i] = s
  <1>0. loaded[p] \in Seq(ScriptNames) /\ IsInjective(loaded[p])
        /\ ToSet(loaded[p]) \subseteq ToSet(Files[p])
    BY DEF ScriptList
  <1>1. CASE IsIn(s, p)
    <2>1. i \in 1 .. Len(loaded[p]) /\ loaded[p][i] = s
      BY <1>1 DEF IsIn
    <2>2. Without(p, s) = RemoveAt(loaded[p], i)
      BY <1>1 DEF Without
    <2> HIDE DEF i
    <2>3. RemoveAt(loaded[p], i) \in Seq(ScriptNames)
      BY <1>0, <2>1, TakenOut
    <2>4. /\ IsInjective(RemoveAt(loaded[p], i))
          /\ ToSet(RemoveAt(loaded[p], i)) = ToSet(loaded[p]) \ {s}
      BY <1>0, <2>1, RemoveAtOnce
    <2> QED
      BY <1>0, <2>2, <2>3, <2>4 DEF ScriptList
  <1>2. CASE ~IsIn(s, p)
    <2>1. Without(p, s) = loaded[p]
      BY <1>2 DEF Without
    <2>2. DOMAIN loaded[p] = 1 .. Len(loaded[p])
      BY <1>0
    <2>3. s \notin ToSet(loaded[p])
      BY <1>2, <2>2 DEF IsIn, ToSet
    <2> QED
      BY <2>1, <2>3
  <1> QED
    BY <1>1, <1>2

LEMMA WithAlso ==
    ASSUME NEW p \in Plugins, NEW list, ScriptList(p, list), NEW s \in ToSet(Files[p]),
           s \notin ToSet(list)
    PROVE  ScriptList(p, Append(list, s))
  <1>1. s \in ScriptNames
    BY DEF ScriptNames
  <1> QED
    BY <1>1, AppendOnce DEF ScriptList

\* What AutoLoad makes is the scripts that can be parsed, once each.
LEMMA AutoLoadedIs ==
    ASSUME NEW p \in Plugins, NEW good \in SUBSET ToSet(Files[p]), NEW list \in AutoLoaded(p, good)
    PROVE  ScriptList(p, list)
  <1> DEFINE n == Cardinality(good)
  <1>0. Files[p] \in Seq(ToSet(Files[p])) /\ IsInjective(Files[p])
    BY ScriptsAssumption
  <1>1. IsFiniteSet(ToSet(Files[p]))
    <2> DEFINE f == Files[p]
               S == ToSet(Files[p])
    <2>1. f \in Seq(S) /\ S = {f[i] : i \in DOMAIN f}
      BY <1>0 DEF ToSet
    <2> HIDE DEF f, S
    <2>2. DOMAIN f = 1 .. Len(f) /\ Len(f) \in Nat /\ f \in [1 .. Len(f) -> S]
      BY <2>1
    <2>3. S = {f[i] : i \in 1 .. Len(f)}
      BY <2>1, <2>2
    <2>4. IsFiniteSet(1 .. Len(f))
      BY <2>2, FS_Interval
    <2>5. f \in Surjection(1 .. Len(f), S)
      BY <2>2, <2>3 DEF Surjection
    <2>6. IsFiniteSet(S)
      BY <2>4, <2>5, FS_Surjection
    <2> QED
      BY <2>6 DEF S
  <1>2. n \in Nat
    BY <1>1, FS_Subset, FS_CardinalityType
  <1>3. /\ list \in [1 .. n -> good]
        /\ \A i, j \in 1 .. n : i < j => ComesFirst(p, list[i], list[j])
    BY DEF AutoLoaded
  <1> HIDE DEF n
  <1>4. \A s : ~ComesFirst(p, s, s)
    <2>1. DOMAIN Files[p] = 1 .. Len(Files[p])
      BY <1>0
    <2>2. \A i, j \in DOMAIN Files[p] : i < j => Files[p][i] # Files[p][j]
      BY <1>0, <2>1 DEF IsInjective
    <2> QED
      BY <2>2 DEF ComesFirst
  <1>5. \A i, j \in 1 .. n : list[i] = list[j] => i = j
    <2> SUFFICES ASSUME NEW i \in 1 .. n, NEW j \in 1 .. n, list[i] = list[j], i # j PROVE FALSE
      OBVIOUS
    <2>1. i < j \/ j < i
      BY <1>2
    <2>2. ComesFirst(p, list[i], list[i])
      BY <1>3, <2>1
    <2> QED
      BY <1>4, <2>2
  <1>6. good \subseteq ScriptNames
    BY DEF ScriptNames
  <1>7. list \in Seq(ScriptNames) /\ DOMAIN list = 1 .. n
    BY <1>2, <1>3, <1>6
  <1>8. IsInjective(list)
    BY <1>5, <1>7 DEF IsInjective
  <1>9. ToSet(list) \subseteq good
    BY <1>3, <1>7 DEF ToSet
  <1> QED
    BY <1>7, <1>8, <1>9 DEF ScriptList

\* Whatever list of its scripts a plugin gets.
LEMMA LoadedKept ==
    ASSUME LoadedKeeps, NEW p \in Plugins, NEW list, ScriptList(p, list),
           loaded' = [loaded EXCEPT ![p] = list]
    PROVE  LoadedKeeps'
  <1>1. /\ loaded \in [Plugins -> Seq(ScriptNames)]
        /\ \A q \in Plugins : ScriptList(q, loaded[q])
    BY DEF LoadedKeeps
  <1>2. list \in Seq(ScriptNames)
    BY DEF ScriptList
  <1>3. loaded' \in [Plugins -> Seq(ScriptNames)]
    BY <1>1, <1>2
  <1>4. \A q \in Plugins : loaded'[q] = IF q = p THEN list ELSE loaded[q]
    BY <1>1
  <1>5. \A q \in Plugins : ScriptList(q, loaded'[q])
    BY <1>1, <1>4
  <1> QED
    BY <1>3, <1>5 DEF LoadedKeeps, ScriptList, ScriptNames

LEMMA ManageLoads ==
    ASSUME LoadedKeeps, Manage
    PROVE  LoadedKeeps'
  <1>0. \A p \in Plugins : ScriptList(p, loaded[p])
    BY DEF LoadedKeeps
  <1>a. Lua \in Plugins
    BY ScriptsAssumption
  <1>1. ASSUME NEW p \in Plugins, NEW s \in ToSet(Files[p]), AddScript(p, s)
        PROVE  LoadedKeeps'
    <2>1. ~IsIn(s, p) /\ loaded' = [loaded EXCEPT ![p] = Append(loaded[p], s)]
      BY <1>1 DEF AddScript, SetLoaded
    <2>2. loaded[p] \in Seq(ScriptNames)
      BY <1>0 DEF ScriptList
    <2>3. s \notin ToSet(loaded[p])
      <3>1. DOMAIN loaded[p] = 1 .. Len(loaded[p])
        BY <2>2
      <3> QED
        BY <2>1, <3>1 DEF IsIn, ToSet
    <2>4. ScriptList(p, Append(loaded[p], s))
      BY <1>0, <2>3, WithAlso
    <2> QED
      BY <2>1, <2>4, LoadedKept
  <1>2. ASSUME NEW p \in Plugins, NEW s, SetLoaded(p, Without(p, s))
        PROVE  LoadedKeeps'
    <2>1. loaded' = [loaded EXCEPT ![p] = Without(p, s)]
      BY <1>2 DEF SetLoaded
    <2>2. ScriptList(p, Without(p, s))
      BY <1>0, WithoutIs
    <2> QED
      BY <2>1, <2>2, LoadedKept
  <1>3. ASSUME NEW s \in ToSet(Files[Lua]), NEW parsed \in BOOLEAN, ReloadLua(s, parsed)
        PROVE  LoadedKeeps'
    <2>1. loaded' = [loaded EXCEPT ![Lua] = IF parsed THEN Append(Without(Lua, s), s)
                                            ELSE Without(Lua, s)]
      BY <1>3 DEF ReloadLua, SetLoaded
    <2>2. ScriptList(Lua, Without(Lua, s)) /\ s \notin ToSet(Without(Lua, s))
      BY <1>0, <1>a, WithoutIs
    <2>3. ScriptList(Lua, Append(Without(Lua, s), s))
      BY <1>a, <2>2, WithAlso
    <2>4. CASE parsed
      <3>1. loaded' = [loaded EXCEPT ![Lua] = Append(Without(Lua, s), s)]
        BY <2>1, <2>4
      <3> QED
        BY <1>a, <2>3, <3>1, LoadedKept
    <2>5. CASE ~parsed
      <3>1. loaded' = [loaded EXCEPT ![Lua] = Without(Lua, s)]
        BY <2>1, <2>5
      <3> QED
        BY <1>a, <2>2, <3>1, LoadedKept
    <2> QED
      BY <2>4, <2>5
  <1>4. ASSUME NEW p \in Plugins, NEW s \in ToSet(Files[p]), NEW parsed \in BOOLEAN,
               ReloadPy(p, s, parsed)
        PROVE  LoadedKeeps'
    <2>1. CASE ~parsed
      <3>1. SetLoaded(p, Without(p, s))
        BY <1>4, <2>1 DEF ReloadPy
      <3> QED
        BY <1>2, <3>1
    <2>2. CASE parsed /\ IsIn(s, p)
      <3>1. loaded' = [loaded EXCEPT ![p] = loaded[p]]
        BY <1>4, <2>2 DEF ReloadPy, SetLoaded
      <3> QED
        BY <1>0, <3>1, LoadedKept
    <2>3. CASE parsed /\ ~IsIn(s, p)
      <3>1. SetLoaded(p, Append(loaded[p], s))
        BY <1>4, <2>3 DEF ReloadPy
      <3>2. AddScript(p, s)
        BY <2>3, <3>1 DEF AddScript
      <3> QED
        BY <1>1, <3>2
    <2> QED
      BY <2>1, <2>2, <2>3
  <1>5. ASSUME NEW p \in Plugins, NEW good \in SUBSET ToSet(Files[p]),
               LoadPlugin(p, good) \/ ReloadPlugin(p, good)
        PROVE  LoadedKeeps'
    <2>1. PICK list \in AutoLoaded(p, good) : loaded' = [loaded EXCEPT ![p] = list]
      BY <1>5 DEF LoadPlugin, ReloadPlugin, AutoLoads
    <2>2. ScriptList(p, list)
      BY AutoLoadedIs
    <2> QED
      BY <2>1, <2>2, LoadedKept
  <1>6. ASSUME NEW p \in Plugins, UnloadPlugin(p)
        PROVE  LoadedKeeps'
    <2>1. loaded' = [loaded EXCEPT ![p] = <<>>]
      BY <1>6 DEF UnloadPlugin
    <2>2. ScriptList(p, <<>>)
      BY DEF ScriptList, IsInjective, ToSet
    <2> QED
      BY <2>1, <2>2, LoadedKept
  <1>7. CASE TellScripts
    <2>1. loaded' = loaded
      BY <1>7 DEF TellScripts
    <2> QED
      BY <2>1 DEF LoadedKeeps
  <1>8. ASSUME NEW p \in Plugins, NEW s \in ToSet(Files[p]),
               AddScriptPy(p, s) \/ DelScriptPy(p, s) \/ (p = Lua /\ AddScriptLua(s))
               \/ (p = Lua /\ DelScriptLua(s))
        PROVE  LoadedKeeps'
    <2>1. AddScript(p, s) \/ SetLoaded(p, Without(p, s))
      BY <1>8 DEF AddScriptPy, DelScriptPy, AddScriptLua, DelScriptLua, DelScript
    <2> QED
      BY <1>1, <1>2, <2>1
  <1>9. CASE \E s \in ToSet(Files[Lua]) : \/ AddScriptLua(s) \/ DelScriptLua(s)
                                          \/ \E parsed \in BOOLEAN : ReloadLua(s, parsed)
    BY <1>3, <1>8, <1>9, <1>a
  <1> QED
    BY <1>4, <1>5, <1>6, <1>7, <1>8, <1>9 DEF Manage

\* The queue and the passes, in every step.
LEMMA QueueKept ==
    ASSUME QueueKeeps, DepthKeeps, PassInv, [ScriptsNext]_scriptsVars
    PROVE  QueueKeeps' /\ DepthKeeps'
  <1>0. /\ queue \in 0 .. Limit /\ pos \in Nat /\ pos <= queue
        /\ phase \in {"idle", "drain", "timer"} /\ mData \in 0 .. MaxDepth
        /\ Len(stack) <= MaxDepth /\ stack \in Seq(Passes) /\ Len(stack) \in Nat
        /\ Limit \in Nat /\ MaxDepth \in Nat /\ MaxDepth >= 1
    BY ScriptsAssumption DEF QueueKeeps, DepthKeeps, PassInv
  <1>1. CASE UNCHANGED passVars
    BY <1>0, <1>1 DEF passVars, QueueKeeps, DepthKeeps
  <1>2. ASSUME NEW e, stack' = <<e>>
        PROVE  DepthKeeps'
    <2>1. Len(stack') = 1
      BY <1>2
    <2> QED
      BY <1>0, <2>1 DEF DepthKeeps
  <1>3. ASSUME NEW e, stack' = OnTop(e)
        PROVE  DepthKeeps'
    <2>1. Len(stack') = Len(stack)
      BY <1>0, <1>3 DEF OnTop
    <2> QED
      BY <1>0, <2>1 DEF DepthKeeps
  <1>4. CASE StartTimer
    <2>1. /\ UNCHANGED <<queue, pos, mData>> /\ phase' \in {"timer", "drain"}
          /\ stack' = <<Pass("timer")>> \/ stack' = stack
      BY <1>4 DEF StartTimer
    <2>2. QueueKeeps'
      BY <1>0, <2>1 DEF QueueKeeps
    <2>3. DepthKeeps'
      BY <1>0, <1>2, <2>1 DEF DepthKeeps
    <2> QED
      BY <2>2, <2>3
  <1>5. CASE NextItem
    <2>1. /\ pos' = pos + 1 /\ queue' = queue /\ pos < queue /\ phase' = phase /\ mData' = 1
          /\ stack' = <<Pass("command")>>
      BY <1>5 DEF NextItem, Delivered
    <2>2. QueueKeeps'
      BY <1>0, <2>1 DEF QueueKeeps
    <2> QED
      BY <1>2, <2>1, <2>2
  <1>6. CASE EndDrain
    <2>1. /\ pos' = 0 /\ queue' = 0 /\ phase' = "timer" /\ mData' = mData
          /\ stack' = <<Pass("timer")>>
      BY <1>6 DEF EndDrain
    <2>2. QueueKeeps'
      BY <1>0, <2>1 DEF QueueKeeps
    <2> QED
      BY <1>2, <2>1, <2>2
  <1>7. CASE EndTimer
    BY <1>0, <1>7 DEF EndTimer, QueueKeeps, DepthKeeps
  <1>8. CASE NextScript \/ NextPlugin
    <2>1. /\ UNCHANGED <<queue, pos, phase, mData>> /\ \E e : stack' = OnTop(e)
      BY <1>8 DEF NextScript, NextPlugin
    <2>2. QueueKeeps'
      BY <1>0, <2>1 DEF QueueKeeps
    <2> QED
      BY <1>3, <2>1, <2>2
  <1>9. CASE EndPass
    <2>1. /\ UNCHANGED <<queue, pos, phase, mData>> /\ stack # <<>> /\ stack' = Front(stack)
      BY <1>9 DEF EndPass
    <2>2. QueueKeeps'
      BY <1>0, <2>1 DEF QueueKeeps
    <2>3. Len(stack) # 0
      BY <1>0, <2>1
    <2>4. Len(Front(stack)) = Len(stack) - 1
      BY <1>0, <2>3, FrontIs
    <2>5. DepthKeeps'
      BY <1>0, <2>1, <2>4 DEF DepthKeeps
    <2> QED
      BY <2>2, <2>5
  <1>10. CASE QueueCommand
    <2>1. /\ stack' = Called /\ queue' = (IF queue < Limit THEN queue + 1 ELSE queue)
          /\ UNCHANGED <<pos, phase, mData>>
      BY <1>10 DEF QueueCommand, Room
    <2>2. QueueKeeps'
      BY <1>0, <2>1 DEF QueueKeeps
    <2> QED
      BY <1>3, <2>1, <2>2 DEF Called
  <1>11. CASE ScriptCommandLua \/ ScriptCommandPy
    <2>1. /\ stack # <<>> /\ Len(stack) < MaxDepth /\ stack' = Append(Called, Pass("command"))
          /\ mData' = Len(stack) + 1 /\ UNCHANGED <<queue, pos, phase>>
      BY <1>11 DEF ScriptCommandLua, ScriptCommandPy, InstantCommand, InScript
    <2>2. Called \in Seq(Passes) /\ Len(Called) = Len(stack)
      BY <2>1, CalledKept
    <2>3. Len(stack') = Len(stack) + 1
      BY <2>1, <2>2
    <2>4. DepthKeeps'
      BY <1>0, <2>1, <2>3 DEF DepthKeeps
    <2>5. QueueKeeps'
      BY <1>0, <2>1 DEF QueueKeeps
    <2> QED
      BY <2>4, <2>5
  <1>12. ASSUME NEW n, RegBot(n) \/ UnRegBot(n) \/ AddRobotPy(n) \/ DelRobotPy(n)
         PROVE  QueueKeeps' /\ DepthKeeps'
    <2>1. stack' = Called /\ UNCHANGED <<queue, pos, phase, mData>>
      BY <1>12 DEF RegBot, UnRegBot, AddRobotPy, DelRobotPy, NewRobot, DelRobot
    <2>2. QueueKeeps'
      BY <1>0, <2>1 DEF QueueKeeps
    <2> QED
      BY <1>3, <2>1, <2>2 DEF Called
  <1>13. CASE TellScripts
    <2>1. /\ queue' = (IF queue < Limit THEN queue + 1 ELSE queue)
          /\ UNCHANGED <<pos, phase, mData, stack>>
      BY <1>13 DEF TellScripts, Room
    <2>2. QueueKeeps'
      BY <1>0, <2>1 DEF QueueKeeps
    <2> QED
      BY <1>0, <2>1, <2>2 DEF DepthKeeps
  <1>14. ASSUME NEW p, (\E list : SetLoaded(p, list)) \/ Disposed(p)
                       \/ (\E good : LoadPlugin(p, good))
         PROVE  UNCHANGED passVars
    BY <1>14 DEF SetLoaded, Disposed, LoadPlugin
  <1>15. CASE Manage /\ ~TellScripts
    <2>1. ASSUME NEW p, NEW s, AddScriptPy(p, s) \/ DelScriptPy(p, s)
          PROVE  \E list : SetLoaded(p, list)
      BY <2>1 DEF AddScriptPy, AddScript, DelScriptPy, DelScript
    <2>2. ASSUME NEW p, NEW s, NEW parsed, ReloadPy(p, s, parsed)
          PROVE  \E list : SetLoaded(p, list)
      BY <2>2 DEF ReloadPy
    <2>3. ASSUME NEW s, AddScriptLua(s) \/ DelScriptLua(s) \/ (\E parsed : ReloadLua(s, parsed))
          PROVE  \E list : SetLoaded(Lua, list)
      BY <2>3 DEF AddScriptLua, AddScript, DelScriptLua, DelScript, ReloadLua
    <2>4. ASSUME NEW p, UnloadPlugin(p) \/ (\E good : ReloadPlugin(p, good))
          PROVE  Disposed(p)
      BY <2>4 DEF UnloadPlugin, ReloadPlugin
    <2>5. UNCHANGED passVars
      BY <1>14, <1>15, <2>1, <2>2, <2>3, <2>4 DEF Manage
    <2> QED
      BY <1>1, <2>5
  <1>16. CASE UseHubRobot
    BY <1>1, <1>16 DEF UseHubRobot
  <1>17. CASE UNCHANGED scriptsVars
    BY <1>1, <1>17 DEF scriptsVars, passVars
  <1> QED
    BY <1>4, <1>5, <1>6, <1>7, <1>8, <1>9, <1>10, <1>11, <1>12, <1>13, <1>15, <1>16, <1>17
    DEF ScriptsNext, PassStep, ScriptCall

LEMMA ScriptsKeepNext ==
    ScriptsInv /\ ScriptsKeep /\ [ScriptsNext]_scriptsVars => ScriptsKeep'
  <1> SUFFICES ASSUME ScriptsInv, ScriptsKeep, [ScriptsNext]_scriptsVars PROVE ScriptsKeep'
    OBVIOUS
  <1>0. LoadedKeeps /\ QueueKeeps /\ DepthKeeps /\ PassInv
    BY DEF ScriptsKeep, ScriptsInv
  <1>1. QueueKeeps' /\ DepthKeeps'
    BY <1>0, QueueKept
  <1>2. LoadedKeeps'
    <2>1. CASE Manage
      BY <1>0, <2>1, ManageLoads
    <2>2. CASE StartTimer \/ PassStep
      <3>1. loaded' = loaded
        BY <2>2 DEF StartTimer, PassStep, NextItem, EndDrain, EndTimer, NextScript, NextPlugin,
                    EndPass
      <3> QED
        BY <1>0, <3>1 DEF LoadedKeeps
    <2>3. CASE ScriptCall
      <3>1. loaded' = loaded
        BY <2>3 DEF ScriptCall, QueueCommand, ScriptCommandLua, ScriptCommandPy, InstantCommand,
                    RegBot, UnRegBot, AddRobotPy, DelRobotPy, NewRobot, DelRobot
      <3> QED
        BY <1>0, <3>1 DEF LoadedKeeps
    <2>4. CASE UseHubRobot \/ UNCHANGED scriptsVars
      <3>1. loaded' = loaded
        BY <2>4 DEF UseHubRobot, scriptsVars
      <3> QED
        BY <1>0, <3>1 DEF LoadedKeeps
    <2> QED
      BY <2>1, <2>2, <2>3, <2>4 DEF ScriptsNext
  <1> QED
    BY <1>1, <1>2 DEF ScriptsKeep

\* The fields of Scripts have their types.
LEMMA ScriptsTyped ==
    ASSUME ScriptsInv, ScriptsKeep
    PROVE  ScriptsTypeOK
  <1>1. IsInjective(order) /\ Registered2 \subseteq Plugins
    <2>1. order \in Seq(Plugins) /\ IsInjective(order)
      BY DEF ScriptsInv, OrderInv
    <2> QED
      BY <2>1 DEF Registered2, ToSet
  <1>2. \A p \in Plugins : IsInjective(loaded[p]) /\ ToSet(loaded[p]) \subseteq ToSet(Files[p])
    BY DEF ScriptsKeep, LoadedKeeps, ScriptList
  <1>3. /\ robot \in [BotNicks -> Plugins \cup {Nobody, TheHub}]
        /\ held \in [Plugins -> [BotNicks -> {"no", "live", "gone"}]]
        /\ crossed \in BOOLEAN /\ dangling \in BOOLEAN
    BY Zenon DEF ScriptsInv, RobotInv, RobotTypes
  <1>4. /\ queue \in 0 .. Limit /\ pos \in Nat /\ pos <= queue
        /\ phase \in {"idle", "drain", "timer"} /\ mData \in 0 .. MaxDepth
        /\ Len(stack) <= MaxDepth
    BY DEF ScriptsKeep, QueueKeeps, DepthKeeps
  <1>5. pos \in 0 .. queue
    <2>1. Limit \in Nat
      BY ScriptsAssumption
    <2> QED
      BY <1>4, <2>1
  <1> QED
    BY <1>1, <1>2, <1>3, <1>4, <1>5, Zenon DEF ScriptsTypeOK

\* There is one room at most; the plugins are those that follow users; time
\* and messages are within their bounds; and mail was written by a guest.
RoomKeeps == \A r, q \in room : r = q
MailKeeps ==
    /\ clock \in 1 .. MaxClock /\ sent \in 1 .. MaxMail
    /\ \A m \in box \cup mailed \cup got : m.by \in Guests
GuestsKeep == RoomKeeps /\ MailKeeps /\ plugs \subseteq Followers

LEMMA GuestsKeepInit == GuestsInit => GuestsKeep
  <1> SUFFICES ASSUME GuestsInit PROVE GuestsKeep
    OBVIOUS
  <1>0. MaxClock \in Nat \ {0} /\ MaxMail \in Nat \ {0}
    BY PluginUsersAssumption
  <1>1. MailKeeps
    BY <1>0 DEF GuestsInit, MailKeeps
  <1>2. RoomKeeps /\ plugs \subseteq Followers
    BY DEF GuestsInit, RoomKeeps, Followers
  <1> QED
    BY <1>1, <1>2 DEF GuestsKeep

\* The rooms, in every step.
LEMMA RoomKept ==
    ASSUME RoomKeeps, [GuestsNext]_guestsVars
    PROVE  RoomKeeps'
  <1>1. CASE room' = room \/ room' = {}
    BY <1>1 DEF RoomKeeps
  <1>2. ASSUME NEW q, room' = {q} PROVE RoomKeeps'
    BY <1>2 DEF RoomKeeps
  <1>3. CASE RoomSteps
    <2>1. CASE AddsRoom \/ DelsRoom
      BY <1>1, <1>2, <2>1 DEF AddsRoom, DelsRoom
    <2>2. ASSUME NEW c, ModsRoom(c) PROVE RoomKeeps'
      <3>1. room' = {[r EXCEPT !.from = c, !.upto = c] : r \in room}
        BY <2>2 DEF ModsRoom
      <3> QED
        BY <3>1 DEF RoomKeeps
    <2>3. ASSUME NEW g, NEW h, ReceiveMsg(g) \/ cfLeave(g) \/ cfInvite(g, h) \/ cfOut(g, h)
          PROVE  RoomKeeps'
      <3>1. \E q : room' = {q}
        <4>1. CASE ReceiveMsg(g)   BY <4>1 DEF ReceiveMsg, MemberSays
        <4>2. CASE cfLeave(g)      BY <4>2 DEF cfLeave, MemberSays
        <4>3. CASE cfInvite(g, h)  BY <4>3 DEF cfInvite, MemberSays
        <4>4. CASE cfOut(g, h)     BY <4>4 DEF cfOut, MemberSays
        <4> QED
          BY <2>3, <4>1, <4>2, <4>3, <4>4
      <3> QED
        BY <1>2, <3>1
    <2> QED
      BY <1>3, <2>1, <2>2, <2>3 DEF RoomSteps
  <1>4. ASSUME NEW g, ComesAndGoes(g) PROVE RoomKeeps'
    <2>1. room' = room \/ room' = Joined(g) \/ room' = Left(g)
      BY <1>4 DEF ComesAndGoes, Connects, EntersList, LogsIn, Ends, DeleteConn, AutoJoin
    <2>2. CASE room' = Joined(g)
      <3> DEFINE With(r) == IF IsUserAutoJoin(r, g) THEN [r EXCEPT !.members = @ \cup {g}] ELSE r
      <3>1. room' = {With(r) : r \in room}
        BY <2>2 DEF Joined
      <3> HIDE DEF With
      <3> QED
        BY <3>1 DEF RoomKeeps
    <2>3. CASE room' = Left(g)
      BY <2>3 DEF Left, RoomKeeps
    <2> QED
      BY <1>1, <2>1, <2>2, <2>3
  <1>5. ASSUME NEW p, Switches(p) PROVE RoomKeeps'
    <2>1. room' = room \/ room' = {} \/ \E q : room' = {q}
      BY <1>5 DEF Switches, Loads, Unloads
    <2> QED
      BY <1>1, <1>2, <2>1
  <1>6. CASE FloodSteps
    BY <1>1, <1>6 DEF FloodSteps, FloodSecond, CheckFlood
  <1>7. CASE MailSteps(Guests)
    BY <1>1, <1>7 DEF MailSteps, MailSecond, Syncs, SendsMail
  <1>8. CASE UNCHANGED guestsVars
    BY <1>1, <1>8 DEF guestsVars
  <1> QED
    BY <1>3, <1>4, <1>5, <1>6, <1>7, <1>8 DEF GuestsNext

\* The mail, in every step.
LEMMA MailTypesKept ==
    ASSUME MailKeeps, [GuestsNext]_guestsVars
    PROVE  MailKeeps'
  <1>0. /\ clock \in 1 .. MaxClock /\ sent \in 1 .. MaxMail
        /\ \A m \in box \cup mailed \cup got : m.by \in Guests
        /\ MaxClock \in Nat /\ MaxMail \in Nat
    BY PluginUsersAssumption DEF MailKeeps
  <1>1. ASSUME UNCHANGED <<clock, sent>>,
               box' \cup mailed' \cup got' \subseteq box \cup mailed \cup got
        PROVE  MailKeeps'
    BY <1>0, <1>1 DEF MailKeeps
  <1>2. CASE UNCHANGED mailVars
    BY <1>1, <1>2 DEF mailVars
  <1>3. ASSUME NEW g, ComesAndGoes(g) PROVE MailKeeps'
    <2>1. CASE LogsIn(g)
      <3>1. UNCHANGED <<clock, sent, mailed>> /\ box' \subseteq box /\ got' \subseteq got \cup box
        BY <2>1 DEF LogsIn, MailOnLogin, DeliverMessagesForUser, For
      <3> QED
        BY <1>1, <3>1
    <2>2. CASE ~LogsIn(g)
      BY <1>2, <1>3, <2>2 DEF ComesAndGoes, Connects, EntersList, Ends, DeleteConn
    <2> QED
      BY <2>1, <2>2
  <1>4. ASSUME NEW p, Switches(p) PROVE MailKeeps'
    <2>1. ASSUME Loads(p) PROVE UNCHANGED <<clock, sent, mailed, got>> /\ box' \subseteq box
      <3>1. UNCHANGED <<clock, sent, mailed, got>>
        BY <2>1 DEF Loads
      <3>2. p = "messenger" => OpensBox
        BY <2>1 DEF Loads
      <3>3. p # "messenger" => box' = box
        BY <2>1 DEF Loads
      <3>4. OpensBox => box' \subseteq box
        BY DEF OpensBox
      <3> QED
        BY <3>1, <3>2, <3>3, <3>4
    <2>2. ASSUME Unloads(p) PROVE UNCHANGED <<clock, sent, mailed, got>> /\ box' \subseteq box
      BY <2>2 DEF Unloads
    <2> QED
      BY <1>1, <1>4, <2>1, <2>2 DEF Switches
  <1>5. CASE RoomSteps
    <2>1. UNCHANGED mailVars
      BY <1>5 DEF RoomSteps, AddsRoom, DelsRoom, ModsRoom, ReceiveMsg, cfLeave, cfInvite, cfOut,
                  MemberSays
    <2> QED
      BY <1>2, <2>1
  <1>6. CASE FloodSteps
    BY <1>2, <1>6 DEF FloodSteps, FloodSecond, CheckFlood
  <1>7. CASE MailSecond
    <2>1. /\ clock' = clock + 1 /\ clock < MaxClock /\ UNCHANGED <<sent, box, mailed, got>>
      BY <1>7 DEF MailSecond
    <2> QED
      BY <1>0, <2>1 DEF MailKeeps
  <1>8. CASE Syncs
    <2>1. /\ UNCHANGED <<clock, sent, mailed>> /\ box' \subseteq box /\ got' \subseteq got \cup box
      BY <1>8 DEF Syncs, UpdateCache, SinceSync
    <2> QED
      BY <1>1, <2>1
  <1>9. ASSUME NEW g \in Guests, NEW to, SendsMail(g, to) PROVE MailKeeps'
    <2> DEFINE m == [id |-> sent, by |-> g, to |-> to, at |-> clock]
    <2>1. /\ sent < MaxMail /\ sent' = sent + 1 /\ clock' = clock /\ got' = got
          /\ box' = Saved(m) /\ mailed' = mailed \cup {m}
      BY <1>9 DEF SendsMail
    <2>2. m.by = g
      OBVIOUS
    <2> HIDE DEF m
    <2>3. box' \subseteq box \cup {m}
      BY <2>1 DEF Saved
    <2>4. \A x \in box' \cup mailed' \cup got' : x.by \in Guests
      BY <1>0, <2>1, <2>2, <2>3
    <2> QED
      BY <1>0, <2>1, <2>4 DEF MailKeeps
  <1>10. CASE UNCHANGED guestsVars
    BY <1>2, <1>10 DEF guestsVars
  <1> QED
    BY <1>3, <1>4, <1>5, <1>6, <1>7, <1>8, <1>9, <1>10 DEF GuestsNext, MailSteps

LEMMA GuestsKeepNext == GuestsKeep /\ [GuestsNext]_guestsVars => GuestsKeep'
  <1> SUFFICES ASSUME GuestsKeep, [GuestsNext]_guestsVars PROVE GuestsKeep'
    OBVIOUS
  <1>0. RoomKeeps /\ MailKeeps /\ plugs \subseteq Followers
    BY DEF GuestsKeep
  <1>1. plugs' \subseteq Followers
    <2>1. ASSUME NEW p \in Followers, Switches(p) PROVE plugs' \subseteq Followers
      BY <1>0, <2>1 DEF Switches, Loads, Unloads
    <2>2. ASSUME NEW g, ComesAndGoes(g) PROVE plugs' = plugs
      BY <2>2 DEF ComesAndGoes, Connects, EntersList, LogsIn, Ends, DeleteConn
    <2>3. CASE FloodSteps \/ MailSteps(Guests) \/ UNCHANGED guestsVars
      BY <1>0, <2>3 DEF FloodSteps, FloodSecond, CheckFlood, MailSteps, MailSecond, Syncs,
                        SendsMail, guestsVars
    <2>4. CASE RoomSteps
      BY <1>0, <2>4 DEF RoomSteps, AddsRoom, DelsRoom, ModsRoom, ReceiveMsg, cfLeave, cfInvite,
                        cfOut, MemberSays
    <2> QED
      BY <1>0, <2>1, <2>2, <2>3, <2>4 DEF GuestsNext
  <1> QED
    BY <1>0, <1>1, RoomKept, MailTypesKept DEF GuestsKeep

\* The fields of PluginUsers have their types: no address has more points
\* than there are connections and users.
LEMMA GuestsTyped ==
    ASSUME GuestsInv, GuestsKeep
    PROVE  GuestsTypeOK
  <1>1. place \in [Guests -> {"away", "open", "listed", "in"}] /\ ending \subseteq Guests
    BY DEF GuestsInv, HereInv, States
  <1>2. points \in [Addresses -> 0 .. 2 * Cardinality(Guests)]
    <2>1. IsFiniteSet(Guests) /\ Cardinality(Guests) \in Nat
      BY PluginUsersAssumption, FS_CardinalityType
    <2>2. ASSUME NEW a \in Addresses PROVE points[a] \in 0 .. 2 * Cardinality(Guests)
      <3>1. Here(a) \subseteq Guests /\ Inside(a) \subseteq Guests
        BY DEF Here, Inside
      <3>2. Cardinality(Here(a)) <= Cardinality(Guests)
        BY <2>1, <3>1, FS_Subset
      <3>3. Cardinality(Inside(a)) <= Cardinality(Guests)
        BY <2>1, <3>1, FS_Subset
      <3>4. /\ Owed(a) = Cardinality(Here(a)) + Cardinality(Inside(a))
            /\ Cardinality(Here(a)) \in Nat /\ Cardinality(Inside(a)) \in Nat
        BY OwedIs DEF GuestsInv, PointsInv
      <3>5. points[a] \in Nat /\ points[a] <= Owed(a)
        BY DEF GuestsInv, PointsInv, PointsRight
      <3> QED
        BY <2>1, <3>2, <3>3, <3>4, <3>5
    <2>3. points \in [Addresses -> Nat]
      BY DEF GuestsInv, PointsInv
    <2> QED
      BY <2>2, <2>3
  <1>3. Cardinality(room) <= 1
    <2>1. CASE room = {}
      BY <2>1, FS_EmptySet
    <2>2. CASE room # {}
      <3>1. PICK r : r \in room
        BY <2>2
      <3>2. room = {r}
        BY <3>1 DEF GuestsKeep, RoomKeeps
      <3> QED
        BY <3>2, FS_Singleton
    <2> QED
      BY <2>1, <2>2
  <1>4. /\ clock \in 1 .. MaxClock /\ sent \in 1 .. MaxMail
        /\ \A m \in box \cup mailed \cup got : m.by \in Guests
    BY DEF GuestsKeep, MailKeeps
  <1>5. plugs \subseteq {"floodprot", "chatroom", "messenger"}
    BY DEF GuestsKeep, Followers
  <1> QED
    BY <1>1, <1>2, <1>3, <1>4, <1>5 DEF GuestsTypeOK

-----------------------------------------------------------------------------
(* The services together *)

LEMMA RosterTyped ==
    ASSUME RosterInv
    PROVE  RosterTypeOK
  <1>1. buckets \in Seq(Seq(RosterUsers)) /\ Len(buckets) > 0
    BY TableFacts DEF RosterInv, Sound, Chains
  <1>2. mSize \in Nat /\ gotList \subseteq RosterUsers /\ cutOff \subseteq RosterUsers
    BY InvFacts DEF RosterInv
  <1>3. view \in [RosterUsers -> [RosterUsers -> Infos \cup {NickOnly, Unknown}]]
    BY DEF RosterInv, Knows, Whats
  <1>4. behind \in [RosterUsers -> SUBSET RosterUsers]
    BY DEF RosterInv, Knows
  <1>5. ready \in [Kinds -> Seq([who : RosterUsers, what : Infos \cup {NickOnly}])]
    BY DEF RosterInv, Entries
  <1>6. remake \in [Kinds -> BOOLEAN]
    BY Zenon DEF RosterInv
  <1>7. info \in [RosterUsers -> Infos]
    BY DEF RosterInv
  <1> QED
    BY <1>1, <1>2, <1>3, <1>4, <1>5, <1>6, <1>7, Zenon DEF RosterTypeOK

UpkeepAll == UpkeepInv /\ UpkeepKeeps
ScriptsAll == ScriptsInv /\ ScriptsKeep
GuestsAll == GuestsInv /\ GuestsKeep
ServicesInv == WorkerInv /\ RosterInv /\ ScriptsAll /\ UpkeepAll /\ GuestsAll

LEMMA ServicesInvInit == ServicesInit => ServicesInv
  BY WorkerInvInit, RosterStarts, ScriptsInvInit, ScriptsKeepInit, UpkeepInvInit,
     UpkeepKeepsInit, GuestsInvInit, GuestsKeepInit
  DEF ServicesInit, ServicesInv, UpkeepAll, ScriptsAll, GuestsAll

\* A service moves, or it rests.
LEMMA EachKept ==
    /\ WorkerInv /\ [WorkerNext]_workerVars => WorkerInv'
    /\ RosterInv /\ [RosterNext]_rosterVars => RosterInv'
    /\ ScriptsAll /\ [ScriptsNext]_scriptsVars => ScriptsAll'
    /\ UpkeepAll /\ [UpkeepNext]_upkeepVars => UpkeepAll'
    /\ GuestsAll /\ [GuestsNext]_guestsVars => GuestsAll'
  <1>1. WorkerInv /\ [WorkerNext]_workerVars => WorkerInv'
    BY WorkerInvNext
  <1>2. RosterInv /\ [RosterNext]_rosterVars => RosterInv'
    BY RosterStep
  <1>3. ScriptsAll /\ [ScriptsNext]_scriptsVars => ScriptsAll'
    BY ScriptsInvNext, ScriptsKeepNext DEF ScriptsAll
  <1>4. UpkeepAll /\ [UpkeepNext]_upkeepVars => UpkeepAll'
    BY UpkeepInvNext, UpkeepKeepsNext DEF UpkeepAll
  <1>5. GuestsAll /\ [GuestsNext]_guestsVars => GuestsAll'
    BY GuestsInvNext, GuestsKeepNext DEF GuestsAll
  <1> QED
    BY <1>1, <1>2, <1>3, <1>4, <1>5

\* A step of the services is a step of one of them, and the others rest.
LEMMA ServicesSteps ==
    ASSUME [ServicesNext]_servicesVars
    PROVE  /\ [WorkerNext]_workerVars /\ [RosterNext]_rosterVars /\ [ScriptsNext]_scriptsVars
           /\ [UpkeepNext]_upkeepVars /\ [GuestsNext]_guestsVars
  <1>1. CASE ServesWorker /\ WorkerNext
    BY <1>1 DEF ServesWorker
  <1>2. CASE ServesRoster /\ RosterNext
    BY <1>2 DEF ServesRoster
  <1>3. CASE ServesScripts /\ ScriptsNext
    BY <1>3 DEF ServesScripts
  <1>4. CASE ServesUpkeep /\ (OrderSteps \/ WatchSteps \/ ErrandSteps \/ LoopStep)
    BY <1>4 DEF ServesUpkeep, UpkeepNext
  <1>5. CASE ServesGuests /\ GuestsNext
    BY <1>5 DEF ServesGuests
  <1>6. CASE UNCHANGED servicesVars
    <2>1. UNCHANGED <<workerVars, rosterVars, scriptsVars, upkeepVars, guestsVars>>
      BY <1>6 DEF servicesVars
    <2> QED
      BY <2>1
  <1>7. CASE ServicesNext
    <2>1. MailSteps({u1}) => MailSteps(Guests)
      BY ServicesAssumption DEF MailSteps
    <2>2. CASE ServesGuests /\ (Switches(serves) \/ \E g \in Guests : ComesAndGoes(g))
      BY <1>5, <2>2 DEF ServesGuests, GuestsNext
    <2>3. CASE ServesGuests /\ (FloodSteps \/ RoomSteps \/ MailSteps({u1}))
      BY <1>5, <2>1, <2>3 DEF GuestsNext
    <2> QED
      BY <1>1, <1>2, <1>3, <1>4, <1>7, <2>2, <2>3 DEF ServicesNext
  <1> QED
    BY <1>6, <1>7

LEMMA ServicesInvNext == ServicesInv /\ [ServicesNext]_servicesVars => ServicesInv'
  BY ServicesSteps, EachKept DEF ServicesInv

LEMMA ServicesInvAlways == ServicesSpec => []ServicesInv
  BY ServicesInvInit, ServicesInvNext, PTL DEF ServicesSpec

\* The fields of all the services stay within their types: the worker, the
\* user list, the scripts with their queue and the passes inside each other,
\* the orders, watches and errands of the clock, and the points, rooms and
\* mail of the plugins.
THEOREM ServicesTypesAlways == ServicesSpec => []ServicesTypeOK
  <1>1. WorkerInv => WorkerTypeOK
    BY DEF WorkerInv
  <1>2. ServicesInv => ServicesTypeOK
    BY <1>1, RosterTyped, ScriptsTyped, UpkeepTyped, GuestsTyped
    DEF ServicesInv, ScriptsAll, UpkeepAll, GuestsAll, ServicesTypeOK
  <1> QED
    BY <1>2, ServicesInvAlways, PTL

\* What runs beside each other is each of the services: the composed
\* specification implements theirs.
LEMMA ServicesAreEach ==
    ServicesSpec => WorkerSpec /\ RosterSpec /\ ScriptsSpec /\ GuestsSpec
  <1>1. ServicesInit => WorkerInit /\ RosterInit /\ ScriptsInit /\ GuestsInit
    BY DEF ServicesInit
  <1>2. [ServicesNext]_servicesVars => /\ [WorkerNext]_workerVars /\ [RosterNext]_rosterVars
                                       /\ [ScriptsNext]_scriptsVars /\ [GuestsNext]_guestsVars
    BY ServicesSteps
  <1> QED
    BY <1>1, <1>2, PTL DEF ServicesSpec, WorkerSpec, RosterSpec, ScriptsSpec, GuestsSpec

\* What is proved of each service holds of the hub that runs them all: no
\* work is used wildly and the worker is a place for one piece of work, the
\* user list and the robots are exact, operators are told what is true, and
\* what plugins keep of users is true of those in the hub.
THEOREM ServicesRightAlways ==
    ServicesSpec => /\ IsOneSlot
                    /\ [](NoWildUse /\ CollectionsExact /\ RobotsHeld /\ UpkeepRight
                          /\ GuestsServed)
  <1>1. UpkeepInv => UpkeepRight
    BY DEF UpkeepInv, WatchInv, ReloadInv, OwedInv, AttackRight, ReloadRight, OwedRight,
           UpkeepRight
  <1>2. ServicesInv => UpkeepRight
    BY <1>1 DEF ServicesInv, UpkeepAll
  <1> QED
    BY <1>2, ServicesAreEach, ServicesInvAlways, SlotRefined, NoWildUseHolds,
       CollectionsExactAlways, RobotsStayHeld, GuestsServedAlways, PTL
=============================================================================
