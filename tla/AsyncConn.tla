----------------------------- MODULE AsyncConn -----------------------------
(***************************************************************************)
(* A client connection of the event loop (cAsyncConn) with the poll entry  *)
(* of its socket (cConnPoll): what writing, closing and flushing do to its *)
(* output buffers, its flags and the events it is watched for.             *)
(*                                                                         *)
(* Bytes are counted, not kept.  Compression is off.                       *)
(***************************************************************************)
EXTENDS Integers

CONSTANTS
    MaxBuffer,  \* max_outbuf_size: more output than this closes the connection
    OutFill,    \* max_outfill_size: from here on no input is read
    Unblock     \* max_unblock_size: below this input is read again

ASSUME SizesAssumption ==
    /\ MaxBuffer \in Nat \ {0}
    /\ OutFill \in Nat
    /\ Unblock \in Nat

(* eCC_INPUT, eCC_OUTPUT, eCC_ERROR; being told to close is an entry without events. *)
Events == {"in", "out", "err"}

(* A slot of the socket table: the connection and the poll entry of one descriptor. *)
Slots == [
    listed   : BOOLEAN,                    \* a connection exists here
    ok       : BOOLEAN,
    writable : BOOLEAN,                    \* mWritable
    due      : {"none", "ahead", "over"},  \* mCloseAfter: not set, in the future, past
    flush    : 0 .. MaxBuffer,             \* size of mBufFlush: not yet tried
    send     : 0 .. MaxBuffer,             \* size of mBufSend: tried, not taken by the kernel
    owed     : Int,                        \* not in the code: bytes accepted less bytes the kernel took
    fd       : BOOLEAN,                    \* the poll entry is in use
    events   : SUBSET Events,
    revents  : SUBSET Events ]

(* cPollfd::reset *)
Reset(c) == [c EXCEPT !.fd = FALSE, !.events = {}, !.revents = {}]

(* cConnPoll::OptIn, for events other than eCC_CLOSE *)
OptIn(c, mask) ==
    [c EXCEPT !.fd = @ \/ c.events = {}, !.events = @ \cup mask]

(* cConnPoll::OptIn of eCC_CLOSE *)
OptInClose(c) ==
    [c EXCEPT !.fd = @ \/ c.events = {}, !.events = {}]

(* cConnPoll::OptOut *)
OptOut(c, mask) ==
    IF c.events \subseteq mask THEN Reset(c) ELSE [c EXCEPT !.events = @ \ mask]

Empty ==
    [listed |-> FALSE, ok |-> FALSE, writable |-> FALSE, due |-> "none", flush |-> 0, send |-> 0,
     owed |-> 0, fd |-> FALSE, events |-> {}, revents |-> {}]

(* The constructor, and addConnection of a connection that is well. *)
NewConn(c) ==
    OptIn([c EXCEPT !.listed = TRUE, !.ok = TRUE, !.writable = TRUE], {"in", "err"})

CloseNow(c) ==
    OptInClose(OptOut([c EXCEPT !.writable = FALSE, !.ok = FALSE], Events))

(* Write, when all was sent: a connection that is to close nicely closes. *)
AllSent(c) ==
    LET d == IF c.due # "none" THEN CloseNow(c) ELSE c
    IN  IF d.ok THEN OptOut(d, {"out"}) ELSE d

(* Slips for comparison: a connection that was just closed is watched again; a closing connection
   waits for a peer that does not read. *)
SomeLeftAnyway(c, taken) ==
    LET d == IF taken = 0 /\ c.due # "none" THEN CloseNow(c) ELSE c
    IN  IF d.send < Unblock THEN OptIn(d, {"in", "out"})
        ELSE IF d.send >= OutFill THEN OptOut(OptIn(d, {"out"}), {"in"})
        ELSE OptIn(d, {"out"})

SomeLeftPatient(c, taken) ==
    IF ~c.ok THEN c
    ELSE IF c.send < Unblock THEN OptIn(c, {"in", "out"})
    ELSE IF c.send >= OutFill THEN OptOut(OptIn(c, {"out"}), {"in"})
    ELSE OptIn(c, {"out"})

(* Write, when the kernel took a part or nothing: the rest is watched, input is held back while
   much is left, and a connection that is to close nicely and makes no progress closes. *)
SomeLeft(c, taken) ==
    LET d == IF taken = 0 /\ c.due # "none" THEN CloseNow(c) ELSE c
    IN  IF ~d.ok THEN d
        ELSE IF d.send < Unblock THEN OptIn(d, {"in", "out"})
        ELSE IF d.send >= OutFill THEN OptOut(OptIn(d, {"out"}), {"in"})
        ELSE OptIn(d, {"out"})

(* What the kernel may do when it is offered size bytes: take k of them, or take Before(k) and then
   fail, for a negative k. *)
Kernel(size) == -size .. size
Before(k) == -k - 1

(* A slip for comparison: new output takes the place of the old instead of following it. *)
SendBuffersOver(c, k) ==
    LET size == c.flush + c.send
        left == [c EXCEPT !.flush = 0, !.send = IF c.flush > 0 THEN 0 ELSE size - k, !.owed = @ - k]
    IN  IF k < 0 THEN CloseNow(c) ELSE IF k = size THEN AllSent(left) ELSE SomeLeft(left, k)

(* Write with SendAll: everything goes to the send buffer, and the kernel takes k bytes of it before
   it says EAGAIN.  If it fails in another way the buffer is left as it is, with what was taken. *)
SendBuffers(c, k) ==
    LET size == c.flush + c.send
        full == [c EXCEPT !.flush = 0, !.send = size]
        left == [full EXCEPT !.send = size - k, !.owed = @ - k]
    IN  IF k < 0 THEN CloseNow([full EXCEPT !.owed = @ - Before(k)])
        ELSE IF k = size THEN AllSent(left)
        ELSE SomeLeft(left, k)

(* A slip for comparison: the limit is applied to what was there before. *)
WriteUnlimited(c, n, flush, k) ==
    LET size == c.flush + c.send + n
        more == [c EXCEPT !.flush = @ + n, !.owed = @ + n]
    IN  IF c.flush + c.send > MaxBuffer THEN CloseNow(c)
        ELSE IF size = 0 \/ (~flush /\ size <= MaxBuffer \div 2) THEN more
        ELSE SendBuffers(more, k)

(* Write: too much output closes; little output may wait for a flush. *)
Write(c, n, flush, k) ==
    LET size == c.flush + c.send + n
        more == [c EXCEPT !.flush = @ + n, !.owed = @ + n]
    IN  IF size > MaxBuffer THEN CloseNow(c)
        ELSE IF size = 0 \/ (~flush /\ size <= MaxBuffer \div 2) THEN more
        ELSE SendBuffers(more, k)

(* Flush: Write with nothing new, when there is something old. *)
Flush(c, k) ==
    IF c.flush + c.send = 0 THEN c ELSE Write(c, 0, TRUE, k)

(* cConnDC::Send: nothing more is accepted from the moment a close was asked for. *)
Send(c, n, flush, k) ==
    IF c.writable THEN Write(c, n, flush, k) ELSE c

(* CloseNice: a last message (OnCloseNice: a redirect, n = 0 for none), then no more output is
   accepted, and what is left has until mCloseAfter. *)
CloseNice(c, wait, n, k) ==
    LET d == IF n = 0 THEN c ELSE Send(c, n, TRUE, k)
    IN  IF ~wait \/ d.flush + d.send = 0 THEN CloseNow(d)
        ELSE [d EXCEPT !.writable = FALSE, !.due = "ahead"]

(* cAsyncConn::OnTimerBase before OnTimer *)
OnTimerBase(c, k) ==
    IF c.due = "ahead" THEN CloseNow(c) ELSE Flush(c, k)

=============================================================================
