----------------------------- MODULE EventLoop -----------------------------
(***************************************************************************)
(* The main loop of the hub (cAsyncSocketServer): it asks the kernel which *)
(* sockets are ready (cConnPoll), accepts connections, treats each socket  *)
(* that is reported, deletes the connections that are closed, and runs the *)
(* timers.  While it treats one connection, the handlers it calls write to *)
(* any other, and close any other.                                         *)
(*                                                                         *)
(* Socket 0 listens; it has the lowest descriptor and is treated first.    *)
(***************************************************************************)
EXTENDS AsyncConn, FiniteSets

CONSTANTS
    LastSock,   \* mLastSock: client sockets are 1 .. LastSock
    Sizes       \* sizes of messages the hub sends

ASSUME LoopAssumption ==
    /\ LastSock \in Nat
    /\ Sizes \subseteq Nat \ {0}

VARIABLES
    conn,      \* the socket table: a slot for each descriptor
    phase,     \* where the loop is
    next,      \* the iterator of TimeStep: the socket it visits next
    treating,  \* mNowTreating; 0: no client
    act,       \* activity: what was reported of the connection that is treated
    todo       \* connections whose timer is still to run

vars == <<conn, phase, next, treating, act, todo>>

Sockets == 1 .. LastSock

TypeOK ==
    /\ conn \in [Sockets -> Slots]
    /\ phase \in {"choose", "listen", "visit", "input", "output", "timer"}
    /\ next \in 1 .. LastSock + 1
    /\ treating \in 0 .. LastSock
    /\ act \subseteq Events \cup {"close"}
    /\ todo \subseteq Sockets

Init ==
    /\ conn = [s \in Sockets |-> Empty]
    /\ phase = "choose"
    /\ next = LastSock + 1
    /\ treating = 0
    /\ act = {}
    /\ todo = {}

Free(s) == ~conn[s].listed

-----------------------------------------------------------------------------
(* What poll may report of a slot: the events asked for, and errors even if not asked for.  An
   entry without connection stands for a descriptor that is closed: POLLNVAL. *)
Polled(c) ==
    IF ~c.fd THEN {} ELSE IF c.listed THEN c.events \cup {"err"} ELSE {"err"}

(* RevTest may say yes, or no: an entry without events always reports, others may. *)
Reports(c) == c.fd /\ (c.events = {} \/ c.revents # {})
Silent(c) == ~c.fd \/ c.events # {}

(* cConnChoose::iterator: from s on to the next socket that reports, in the table cs *)
Nexts(s, cs) ==
    {t \in s + 1 .. LastSock + 1 :
        /\ t \in Sockets => Reports(cs[t])
        /\ \A u \in s + 1 .. t - 1 : Silent(cs[u])}

(* Time passes between rounds: the deadlines of late are over. *)
Later(late) == [s \in Sockets |-> [conn[s] EXCEPT !.due = IF s \in late THEN "over" ELSE @]]

Waiting == {s \in Sockets : conn[s].due = "ahead"}

(* run and Choose: a round begins, and poll reports something. *)
Choose ==
    /\ phase = "choose"
    /\ \E late \in SUBSET Waiting :
          conn' = [s \in Sockets |-> [Later(late)[s] EXCEPT !.revents = Polled(conn[s])]]
    /\ next' \in Nexts(0, conn')
    /\ phase' = "listen"
    /\ UNCHANGED <<treating, act, todo>>

(* Poll reports nothing, and TimeStep returns: closed connections are not looked at, for it is only
   the iterator, and not poll, that sees them.  A descriptor that is closed would be reported. *)
Idle ==
    /\ phase = "choose"
    /\ \A s \in Sockets : conn[s].fd => ~Free(s)
    /\ \E late \in SUBSET Waiting : conn' = Later(late)
    /\ next' = LastSock + 1
    /\ phase' = "visit"
    /\ UNCHANGED <<treating, act, todo>>

-----------------------------------------------------------------------------
(* A slip for comparison: the descriptor of a closed connection is taken before it is deleted. *)
NextSocketClosed(s) == ~conn[s].ok /\ \A t \in 1 .. s - 1 : conn[t].ok

(* Accept gets the lowest descriptor that is not in use. *)
NextSocket(s) == Free(s) /\ \A t \in 1 .. s - 1 : ~Free(t)

DelConn(c) == Empty

Accept(s) ==
    /\ phase = "listen" /\ NextSocket(s)
    /\ conn' = [conn EXCEPT ![s] = NewConn(@)]
    /\ UNCHANGED <<phase, next, treating, act, todo>>

(* OnNewConn refuses (hub full, banned, a plugin): delConnection at once. *)
AcceptRefused(s) ==
    /\ phase = "listen" /\ NextSocket(s)
    /\ conn' = [conn EXCEPT ![s] = DelConn(NewConn(@))]
    /\ UNCHANGED <<phase, next, treating, act, todo>>

(* The peer is gone before getpeername: the constructor closes, addConnection deletes.  The
   connection was never in the chooser's list, so the poll entry that CloseNow made stays. *)
AcceptLost(s) ==
    /\ phase = "listen" /\ NextSocket(s)
    /\ conn' = [conn EXCEPT ![s] = CloseNow(@)]
    /\ UNCHANGED <<phase, next, treating, act, todo>>

EndListen ==
    /\ phase = "listen"
    /\ phase' = "visit"
    /\ UNCHANGED <<conn, next, treating, act, todo>>

-----------------------------------------------------------------------------
(* An entry without connection is passed. *)
Pass(s) ==
    /\ phase = "visit" /\ s = next
    /\ Free(s)
    /\ next' \in Nexts(s, conn)
    /\ UNCHANGED <<conn, phase, treating, act, todo>>

(* RevGet: a part of what poll reported, and that was why the iterator stopped here; it is gone if
   the slot was given away since.  An entry without events says that the connection is closed.
   The iterator goes on before the connection is treated. *)
Visit(s, a) ==
    /\ phase = "visit" /\ s = next
    /\ ~Free(s)
    /\ a \subseteq conn[s].revents
    /\ a # {} \/ conn[s].events = {} \/ conn[s].revents = {}
    /\ act' = IF conn[s].events = {} THEN a \cup {"close"} ELSE a
    /\ treating' = s
    /\ next' \in Nexts(s, conn)
    /\ UNCHANGED todo

Readable(s, a) == conn[s].ok /\ "in" \in a

(* TimeStep: nothing to read, or the connection is not ok any more *)
TreatNoInput(s, a) ==
    /\ Visit(s, a)
    /\ ~Readable(s, a)
    /\ phase' = "output"
    /\ UNCHANGED conn

(* input: ReadAll does not read for a connection that is closing, and TimeStep takes this for its
   end: what was left to send is lost. *)
TreatClosing(s, a) ==
    /\ Visit(s, a)
    /\ Readable(s, a) /\ ~conn[s].writable
    /\ conn' = [conn EXCEPT ![s].ok = FALSE]
    /\ phase' = "output"

(* ReadAll: end of the stream, an error, or TLS where none is expected *)
TreatHangUp(s, a) ==
    /\ Visit(s, a)
    /\ Readable(s, a) /\ conn[s].writable
    /\ conn' = [conn EXCEPT ![s] = CloseNow(@)]
    /\ phase' = "output"

(* input: messages are read and their handlers run *)
TreatInput(s, a) ==
    /\ Visit(s, a)
    /\ Readable(s, a) /\ conn[s].writable
    /\ phase' = "input"
    /\ UNCHANGED conn

EndInput ==
    /\ phase = "input"
    /\ phase' = "output"
    /\ UNCHANGED <<conn, next, treating, act, todo>>

(* output, and the end of the treatment: delConnection of what is closed or broken *)
Treated(c, k) ==
    LET d == IF c.ok /\ "out" \in act THEN Flush(c, k) ELSE c
    IN  IF ~d.ok \/ act \cap {"err", "close"} # {} THEN DelConn(d) ELSE d

EndTreat(s, k) ==
    /\ phase = "output" /\ s = treating
    /\ conn' = [conn EXCEPT ![s] = Treated(@, k)]
    /\ phase' = "visit"
    /\ treating' = 0
    /\ act' = {}
    /\ UNCHANGED <<next, todo>>

-----------------------------------------------------------------------------
(* After a round nothing that poll reported is looked at again. *)
Forgotten == [s \in Sockets |-> [conn[s] EXCEPT !.revents = {}]]

(* OnTimerBase of the server runs each second, that of connections each four. *)
NoTimer ==
    /\ phase = "visit" /\ next = LastSock + 1
    /\ phase' = "choose"
    /\ conn' = Forgotten
    /\ UNCHANGED <<next, treating, act, todo>>

ServerTimer ==
    /\ phase = "visit" /\ next = LastSock + 1
    /\ phase' = "timer"
    /\ conn' = Forgotten
    /\ UNCHANGED <<next, treating, act, todo>>

ConnTimer ==
    /\ phase = "visit" /\ next = LastSock + 1
    /\ phase' = "timer"
    /\ todo' = {s \in Sockets : conn[s].ok}
    /\ conn' = Forgotten
    /\ UNCHANGED <<next, treating, act>>

(* OnTimerBase of one connection; it does nothing for a connection that was closed meanwhile. *)
RunTimer(s, k) ==
    /\ phase = "timer" /\ s \in todo
    /\ conn' = [conn EXCEPT ![s] = IF @.ok THEN OnTimerBase(@, k) ELSE @]
    /\ todo' = todo \ {s}
    /\ UNCHANGED <<phase, next, treating, act>>

EndTimer ==
    /\ phase = "timer" /\ todo = {}
    /\ phase' = "choose"
    /\ UNCHANGED <<conn, next, treating, act, todo>>

-----------------------------------------------------------------------------
(* What handlers do: those of messages, of new connections and of timers *)
Handling(s) == phase \in {"listen", "input", "timer"} /\ conn[s].listed

SendTo(s, n, flush, k) ==
    /\ Handling(s) /\ conn[s].writable
    /\ conn' = [conn EXCEPT ![s] = Send(@, n, flush, k)]
    /\ UNCHANGED <<phase, next, treating, act, todo>>

CloseConnNice(s, wait, n, k) ==
    /\ Handling(s) /\ (n > 0 => conn[s].writable)
    /\ conn' = [conn EXCEPT ![s] = CloseNice(@, wait, n, k)]
    /\ UNCHANGED <<phase, next, treating, act, todo>>

CloseConnNow(s) ==
    /\ Handling(s)
    /\ conn' = [conn EXCEPT ![s] = CloseNow(@)]
    /\ UNCHANGED <<phase, next, treating, act, todo>>

(* delConnection by a handler, of the connection it serves: it is only marked. *)
DelTreated(s) ==
    /\ phase = "input" /\ s = treating
    /\ conn' = [conn EXCEPT ![s].ok = FALSE]
    /\ UNCHANGED <<phase, next, treating, act, todo>>

-----------------------------------------------------------------------------
(* Bytes that wait at s; what the kernel does when these and n more are offered *)
Pending(s) == conn[s].flush + conn[s].send

Advance ==
    \/ Choose \/ Idle \/ EndListen \/ EndInput \/ EndTimer
    \/ NoTimer \/ ServerTimer \/ ConnTimer
    \/ \E s \in Sockets :
          \/ Pass(s)
          \/ \E a \in SUBSET Events :
                TreatNoInput(s, a) \/ TreatClosing(s, a) \/ TreatHangUp(s, a) \/ TreatInput(s, a)
          \/ \E k \in Kernel(Pending(s)) : EndTreat(s, k) \/ RunTimer(s, k)

Handle ==
    \E s \in Sockets :
        \/ Accept(s) \/ AcceptRefused(s) \/ AcceptLost(s)
        \/ CloseConnNow(s) \/ DelTreated(s)
        \/ \E n \in Sizes : \E k \in Kernel(Pending(s) + n), flush \in BOOLEAN : SendTo(s, n, flush, k)
        \/ \E n \in Sizes \cup {0} : \E k \in Kernel(Pending(s) + n), wait \in BOOLEAN :
              CloseConnNice(s, wait, n, k)

Next == Advance \/ Handle

Spec == Init /\ [][Next]_vars

(* The loop goes on, and the timer of the connections runs again and again. *)
FairSpec == Spec /\ WF_vars(Advance) /\ SF_vars(ConnTimer)

-----------------------------------------------------------------------------
(* Properties *)

(* TimeStep finds a closed connection by its poll entry only.  So, whatever handlers did in between,
   an open connection is watched for errors, and a closed one has the entry that reports it,
   except the one that is treated, which the loop deletes when it is through with it. *)
ClosedReported ==
    \A s \in Sockets : conn[s].listed =>
        /\ conn[s].ok => conn[s].fd /\ "err" \in conn[s].events
        /\ ~conn[s].ok => s = treating \/ (conn[s].fd /\ conn[s].events = {})

(* CloseNice, Write: a connection that accepts no more output and is still open has output left and
   a deadline, so that the next attempt to send ends it; none is left over with nothing to do. *)
ClosingHasOutput ==
    \A s \in Sockets : (conn[s].ok /\ ~conn[s].writable) =>
        conn[s].due # "none" /\ conn[s].flush + conn[s].send > 0

(* Write: a connection is watched for output when and only when its send buffer has something. *)
OutputWatched ==
    \A s \in Sockets : conn[s].ok => ("out" \in conn[s].events <=> conn[s].send > 0)

(* Write, Flush, CloseNice: the two buffers hold exactly the bytes the hub was told are accepted and
   the kernel did not take, through partial sends, failures and refused messages.  A send that fails
   after the kernel took a part leaves that part in the buffer, but the connection is closed then,
   and no byte is ever offered again that was taken. *)
Holds(c) ==
    /\ 0 <= c.owed /\ c.owed <= c.flush + c.send
    /\ c.ok \/ c.writable => c.owed = c.flush + c.send
NothingLost == \A s \in Sockets : conn[s].listed => Holds(conn[s])

(* delConnection, mNowTreating: the connection the loop is treating exists until the loop itself is
   through with it, whatever the handlers it calls do to it. *)
TreatedStays ==
    [][\A s \in Sockets : s = treating /\ phase' # "visit" => conn'[s].listed]_vars

(* Closing is final: see ConnLife. *)
Life(c) ==
    IF ~c.listed THEN "free" ELSE IF ~c.ok THEN "dead" ELSE IF c.writable THEN "open" ELSE "closing"

Lives == INSTANCE ConnLife WITH life <- [s \in Sockets |-> Life(conn[s])]

KeepsLife == Lives!LifeSpec

(* CloseNice, CloseNow, delConnection: a connection that was told to close is deleted at last,
   whether its peer reads or not, provided that poll reports some socket again and again; in a hub
   where nothing happens, what is closed stays. *)
ClosedDeleted ==
    []<>(phase = "listen") => \A s \in Sockets : (conn[s].listed /\ ~conn[s].writable) ~> Free(s)

(* Write without flush: what waits in the flush buffer of an open connection is tried some day, with
   or without activity on any socket, or the connection is closed. *)
FlushedAtLast ==
    \A s \in Sockets : (conn[s].flush > 0) ~> (conn[s].flush = 0 \/ ~conn[s].ok)

(* What was begun on a connection ends. *)
OutputEnds == ClosedDeleted /\ FlushedAtLast

(* casyncconn.h, of max_unblock_size: "under this level incoming data is unblocked again". *)
InputUnblocked ==
    \A s \in Sockets : (conn[s].ok /\ conn[s].send < Unblock) => "in" \in conn[s].events

=============================================================================
