---------------------------- MODULE WorkerThread ----------------------------
(***************************************************************************)
(* cWorkerThread: the hub thread hands work (the hublist registration, the *)
(* check for updates) to a thread of its own through the one pointer       *)
(* mWork.  The hub thread takes a mutex to do so, the worker never does:   *)
(* what keeps them apart is the order in which each reads and writes       *)
(* mWork, mRun and mStop.  One step per read or write of these that the    *)
(* other thread may see; `work` says what has become of each work object,  *)
(* `wild` that a step used memory already given back.                      *)
(***************************************************************************)
CONSTANTS Works, NoWork

ASSUME WorkerAssumption == NoWork \notin Works

VARIABLES
    mWork,    \* the work in the slot, or NoWork
    mRun,     \* the thread is in its loop
    mStop,    \* the loop is to end
    hub,      \* where the hub thread is
    cur,      \* the work it is offering
    thread,   \* where the worker is
    work,     \* work -> "new", "taken", "done", "refused", "gone"
    createFailed,   \* pthread_create has failed
    early,    \* history: destroyed after pthread_create, before mRun was set
    strayed      \* history: freed memory was used

workerVars == <<mWork, mRun, mStop, hub, cur, thread, work, createFailed, early, strayed>>
hubSide    == <<hub, cur, createFailed, early>>

HubPlaces    == {"idle", "look", "put", "start", "refuse",
                 "stop", "join", "clean", "last", "rejoin", "gone"}
ThreadPlaces == {"none", "born", "test", "ask", "do", "free", "clear", "end", "ended"}

-----------------------------------------------------------------------------
(* The hub thread: AddWork and its caller *)

Offer(w) ==
    /\ hub = "idle"
    /\ work[w] = "new"
    /\ cur' = w
    /\ hub' = "look"
    /\ UNCHANGED <<mWork, mRun, mStop, thread, work, createFailed, early, strayed>>

\* TryLock succeeds: no one else ever holds the mutex
LookSlip ==                        \* a slip: what is in the slot is overwritten
    /\ hub = "look"
    /\ hub' = "put"
    /\ UNCHANGED <<mWork, mRun, mStop, cur, thread, work, createFailed, early, strayed>>
Look ==
    /\ hub = "look"
    /\ IF mWork = NoWork
       THEN hub' = "put" /\ UNCHANGED work
       ELSE hub' = "refuse" /\ work' = [work EXCEPT ![cur] = "refused"]
    /\ UNCHANGED <<mWork, mRun, mStop, cur, thread, createFailed, early, strayed>>

Put ==
    /\ hub = "put"
    /\ mWork' = cur
    /\ work' = [work EXCEPT ![cur] = "taken"]
    /\ hub' = "start"
    /\ UNCHANGED <<mRun, mStop, cur, thread, createFailed, early, strayed>>

\* Start: does nothing when the thread runs, or was ever tried to be started
StartThread ==
    /\ hub = "start"
    /\ hub' = "idle"
    /\ cur' = NoWork
    /\ mStop' = FALSE
    /\ IF mRun \/ ~mStop THEN UNCHANGED <<thread, createFailed>>
       ELSE \/ thread' = "born" /\ UNCHANGED createFailed
            \/ createFailed' = TRUE /\ UNCHANGED thread
    /\ UNCHANGED <<mWork, mRun, work, early, strayed>>

\* RegisterInHublist and CheckForUpdates delete what was not accepted
GiveBack ==
    /\ hub = "refuse"
    /\ hub' = "idle"
    /\ cur' = NoWork
    /\ work' = [work EXCEPT ![cur] = "gone"]
    /\ UNCHANGED <<mWork, mRun, mStop, thread, createFailed, early, strayed>>

-----------------------------------------------------------------------------
(* The hub thread: the destructors of cWorkerThread and cThread *)

Destroy ==
    /\ hub = "idle"
    /\ hub' = "stop"
    /\ UNCHANGED <<mWork, mRun, mStop, cur, thread, work, createFailed, early, strayed>>

\* Stop(true)
StopSlip ==                        \* a slip: the loop is not waited for
    /\ hub = "stop"
    /\ mStop' = IF mRun THEN TRUE ELSE mStop
    /\ early' = (thread = "born")
    /\ hub' = "clean"
    /\ UNCHANGED <<mWork, mRun, cur, thread, work, createFailed, strayed>>
Stop ==
    /\ hub = "stop"
    /\ IF ~mRun \/ mStop
       THEN hub' = "clean" /\ UNCHANGED mStop
       ELSE hub' = "join" /\ mStop' = TRUE
    /\ early' = (thread = "born")
    /\ UNCHANGED <<mWork, mRun, cur, thread, work, createFailed, strayed>>

Join ==
    /\ hub = "join" /\ thread = "ended"
    /\ hub' = "clean"
    /\ UNCHANGED <<mWork, mRun, mStop, cur, thread, work, createFailed, early, strayed>>

Clean ==
    /\ hub = "clean"
    /\ hub' = "last"
    /\ strayed' = (strayed \/ (mWork # NoWork /\ work[mWork] = "gone"))
    /\ work' = IF mWork = NoWork THEN work ELSE [work EXCEPT ![mWork] = "gone"]
    /\ mWork' = NoWork
    /\ UNCHANGED <<mRun, mStop, cur, thread, createFailed, early>>

LastStop ==
    /\ hub = "last"
    /\ mStop' = TRUE
    /\ hub' = IF mRun THEN "rejoin" ELSE "gone"
    /\ UNCHANGED <<mWork, mRun, cur, thread, work, createFailed, early, strayed>>

Rejoin ==
    /\ hub = "rejoin" /\ thread = "ended"
    /\ hub' = "gone"
    /\ UNCHANGED <<mWork, mRun, mStop, cur, thread, work, createFailed, early, strayed>>

-----------------------------------------------------------------------------
(* The worker: ThreadFunc and DoSomething *)

\* a step on an object that is gone is a use of freed memory: what follows
\* is left open, the model lets the thread go
Astray == hub = "gone"
Lost(place) ==
    /\ thread = place /\ Astray
    /\ strayed' = TRUE
    /\ thread' = "ended"
    /\ UNCHANGED <<mWork, mRun, mStop, work, hubSide>>

Moves(from, to) == thread = from /\ ~Astray /\ thread' = to

EnterLoop ==
    /\ Moves("born", "test")
    /\ mRun' = TRUE
    /\ UNCHANGED <<mWork, mStop, work, strayed, hubSide>>

TestStop ==
    /\ Moves("test", IF mStop THEN "end" ELSE "ask")
    /\ UNCHANGED <<mWork, mRun, mStop, work, strayed, hubSide>>

Ask ==
    /\ Moves("ask", IF mWork = NoWork THEN "test" ELSE "do")
    /\ UNCHANGED <<mWork, mRun, mStop, work, strayed, hubSide>>

\* DoTheWork
Do ==
    /\ Moves("do", IF mWork = NoWork THEN "test" ELSE "free")
    /\ strayed' = (strayed \/ (mWork # NoWork /\ work[mWork] # "taken"))
    /\ work' = IF mWork # NoWork /\ work[mWork] = "taken"
               THEN [work EXCEPT ![mWork] = "done"] ELSE work
    /\ UNCHANGED <<mWork, mRun, mStop, hubSide>>

\* delete mWork; mWork = NULL
FreeWork ==
    /\ Moves("free", "clear")
    /\ strayed' = (strayed \/ (mWork # NoWork /\ work[mWork] = "gone"))
    /\ work' = IF mWork = NoWork THEN work ELSE [work EXCEPT ![mWork] = "gone"]
    /\ UNCHANGED <<mWork, mRun, mStop, hubSide>>

Clear ==
    /\ Moves("clear", "test")
    /\ mWork' = NoWork
    /\ UNCHANGED <<mRun, mStop, work, strayed, hubSide>>

End ==
    /\ Moves("end", "ended")
    /\ mRun' = FALSE
    /\ UNCHANGED <<mWork, mStop, work, strayed, hubSide>>

-----------------------------------------------------------------------------
WorkerInit ==
    /\ mWork = NoWork /\ mRun = FALSE /\ mStop = TRUE
    /\ hub = "idle" /\ cur = NoWork /\ thread = "none"
    /\ work = [w \in Works |-> "new"]
    /\ createFailed = FALSE /\ early = FALSE /\ strayed = FALSE

HubStep == \/ Look \/ Put \/ StartThread \/ GiveBack
           \/ Stop \/ Join \/ Clean \/ LastStop \/ Rejoin
ThreadStep == \/ EnterLoop \/ TestStop \/ Ask \/ Do \/ FreeWork \/ Clear \/ End
              \/ \E p \in ThreadPlaces \ {"none", "ended"} : Lost(p)

WorkerNext == (\E w \in Works : Offer(w)) \/ Destroy \/ HubStep \/ ThreadStep

WorkerSpec == WorkerInit /\ [][WorkerNext]_workerVars
WorkerLive == WorkerSpec /\ WF_workerVars(HubStep) /\ WF_workerVars(ThreadStep)

-----------------------------------------------------------------------------
WorkerTypeOK ==
    /\ mWork \in Works \cup {NoWork} /\ cur \in Works \cup {NoWork}
    /\ mRun \in BOOLEAN /\ mStop \in BOOLEAN
    /\ hub \in HubPlaces /\ thread \in ThreadPlaces
    /\ work \in [Works -> {"new", "taken", "done", "refused", "gone"}]
    /\ createFailed \in BOOLEAN /\ early \in BOOLEAN /\ strayed \in BOOLEAN

(***************************************************************************)
(* No work is used or deleted after it was deleted, none is done twice,    *)
(* and the thread never outlives its object, although neither side locks   *)
(* against the other.  The exception is a destructor that runs after       *)
(* pthread_create and before the thread has set mRun: nobody joins then.   *)
(***************************************************************************)
NoWildUse == strayed => early

(***************************************************************************)
(* The pointer with its flags is a place for one piece of work.  Deleted   *)
(* work that the slot still points to keeps it occupied.                   *)
(***************************************************************************)
SlotStatus ==
    [w \in Works |-> IF work[w] = "gone" /\ mWork = w THEN "done" ELSE work[w]]
Slot == INSTANCE OneSlot WITH status <- SlotStatus
IsOneSlot == Slot!SlotSpec

(***************************************************************************)
(* Accepted work is done, unless the thread could not be created, which    *)
(* is final (mStop stays 0), or the object is destroyed first.             *)
(***************************************************************************)
AcceptedIsDone ==
    \A w \in Works : (work[w] = "taken") ~> (work[w] # "taken" \/ createFailed)
=============================================================================
