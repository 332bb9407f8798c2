-------------------------- MODULE EventLoop_proofs --------------------------
(***************************************************************************)
(* The event loop keeps every slot of the socket table sound, and every    *)
(* closed connection reported, for any number of sockets, any sizes and    *)
(* limits, and whatever handlers and the kernel do.                        *)
(***************************************************************************)
EXTENDS EventLoop, TLAPS

-----------------------------------------------------------------------------
(* What every operation on a connection preserves (module AsyncConn): a    *)
(* sound slot of the socket table stays sound, whatever the kernel takes,  *)
(* and a connection never comes back to life.                              *)

(* The buffers agree with what was accepted, and are within the limit. *)
Held(c) ==
    /\ c \in Slots
    /\ Holds(c)
    /\ c.flush + c.send <= MaxBuffer

(* An open connection is watched for errors. *)
Watched(c) == c.ok => c.fd /\ "err" \in c.events

(* A connection that accepts no more output has a deadline. *)
Limited(c) == (c.ok /\ ~c.writable) => c.due # "none"

(* A slot without connection is clean, but for a poll entry that may be left. *)
Clean(c) ==
    ~c.listed =>
        ~c.ok /\ ~c.writable /\ c.due = "none" /\ c.flush = 0 /\ c.send = 0 /\ c.events = {}

Good(c) ==
    /\ Held(c) /\ Watched(c) /\ Limited(c) /\ Clean(c)
    /\ c.ok => ("out" \in c.events <=> c.send > 0)
    /\ (c.ok /\ ~c.writable) => c.flush + c.send > 0

(* A closed connection has the entry that says so. *)
Ended(c) == c.listed /\ ~c.ok => c.fd /\ c.events = {}

(* d is what c may become in an operation. *)
Follows(c, d) ==
    /\ Good(d)
    /\ Ended(c) => Ended(d)
    /\ d.listed = c.listed
    /\ d.ok => c.ok
    /\ d.writable => c.writable

-----------------------------------------------------------------------------
(* CloseNow leaves the buffers alone and the poll entry that reports the connection. *)
LEMMA CloseNowIs ==
    ASSUME NEW c \in Slots
    PROVE  CloseNow(c) = [c EXCEPT !.writable = FALSE, !.ok = FALSE, !.fd = TRUE, !.events = {},
                                   !.revents = {}]
<1> DEFINE d == [c EXCEPT !.writable = FALSE, !.ok = FALSE]
<1>1. d \in Slots /\ d.events \subseteq Events
  BY DEF Slots
<1>2. OptOut(d, Events) = Reset(d)
  BY <1>1 DEF OptOut
<1>3. OptInClose(Reset(d)) = [Reset(d) EXCEPT !.fd = TRUE, !.events = {}]
  BY <1>1 DEF OptInClose, Reset, Slots
<1>4. QED
  BY <1>1, <1>2, <1>3 DEF CloseNow, Reset, Slots

(* CloseNow makes a sound slot of any that holds its bytes. *)
LEMMA CloseNowGood ==
    ASSUME NEW c, Held(c), Clean(c)
    PROVE  Follows(c, CloseNow(c)) /\ ~CloseNow(c).ok
<1>1. c \in Slots
  BY DEF Held
<1>2. PICK d : d = CloseNow(c)
  OBVIOUS
<1>3. d = [c EXCEPT !.writable = FALSE, !.ok = FALSE, !.fd = TRUE, !.events = {}, !.revents = {}]
  BY <1>1, <1>2, CloseNowIs
<1>4. d \in Slots
  BY <1>1, <1>3 DEF Slots
<1>5. /\ d.listed = c.listed /\ ~d.ok /\ ~d.writable /\ d.due = c.due /\ d.flush = c.flush
      /\ d.send = c.send /\ d.owed = c.owed /\ d.fd /\ d.events = {}
  BY <1>1, <1>3 DEF Slots
<1>6. Good(d) /\ Ended(d)
  BY <1>4, <1>5 DEF Good, Held, Holds, Watched, Limited, Clean, Ended
<1>7. QED
  BY <1>2, <1>5, <1>6 DEF Follows

(* A connection that holds its bytes, and whose interest in output is about to be set *)
Unsettled(c) == Held(c) /\ Watched(c) /\ Limited(c) /\ c.listed /\ c.flush = 0

(* When all was sent, a connection that was to close is closed, and another is not watched for
   output any more. *)
LEMMA AllSentGood ==
    ASSUME NEW c, Unsettled(c), c.send = 0
    PROVE  Follows(c, AllSent(c))
<1>1. c \in Slots /\ Held(c) /\ Clean(c)
  BY DEF Unsettled, Held, Clean
<1>2. CASE c.due # "none"
  <2>1. AllSent(c) = CloseNow(c)
    BY <1>1, <1>2, CloseNowGood DEF AllSent
  <2>2. QED
    BY <1>1, <2>1, CloseNowGood
<1>3. CASE c.due = "none" /\ ~c.ok
  <2>1. AllSent(c) = c
    BY <1>3 DEF AllSent
  <2>2. QED
    BY <1>1, <1>3, <2>1 DEF Follows, Good, Unsettled
<1>4. CASE c.due = "none" /\ c.ok
  <2>1. "err" \in c.events /\ c.fd /\ c.writable
    BY <1>4 DEF Unsettled, Watched, Limited, Held, Slots
  <2>2. AllSent(c) = [c EXCEPT !.events = @ \ {"out"}]
    BY <1>4, <2>1 DEF AllSent, OptOut
  <2>3. PICK d : d = AllSent(c)
    OBVIOUS
  <2>4. d \in Slots
    BY <1>1, <2>2, <2>3 DEF Slots
  <2>5. /\ d.listed = c.listed /\ d.ok = c.ok /\ d.writable = c.writable /\ d.due = c.due
        /\ d.flush = c.flush /\ d.send = c.send /\ d.owed = c.owed /\ d.fd = c.fd
        /\ d.events = c.events \ {"out"}
    BY <1>1, <2>2, <2>3 DEF Slots
  <2>6. Good(d)
    BY <1>1, <1>4, <2>1, <2>4, <2>5 DEF Good, Held, Holds, Watched, Limited, Clean, Unsettled
  <2>7. QED
    BY <1>4, <2>3, <2>5, <2>6 DEF Follows, Ended
<1>5. QED
  BY <1>1, <1>2, <1>3, <1>4 DEF Slots

(* Interest in output and input, for an open connection: what the rest of it needs *)
LEMMA InterestGood ==
    ASSUME NEW c, Unsettled(c), c.ok, c.send > 0,
           NEW e \in SUBSET Events, "out" \in e, "err" \in e,
           NEW d, d = [c EXCEPT !.events = e]
    PROVE  Follows(c, d)
<1>1. c \in Slots
  BY DEF Unsettled, Held
<1>2. d \in Slots
  BY <1>1 DEF Slots
<1>3. /\ d.listed = c.listed /\ d.ok = c.ok /\ d.writable = c.writable /\ d.due = c.due
      /\ d.flush = c.flush /\ d.send = c.send /\ d.owed = c.owed /\ d.fd = c.fd /\ d.events = e
  BY <1>1 DEF Slots
<1>4. c.flush + c.send > 0
  BY <1>1 DEF Unsettled, Slots
<1>5. Good(d)
  BY <1>1, <1>2, <1>3, <1>4 DEF Good, Held, Holds, Watched, Limited, Clean, Unsettled
<1>6. QED
  BY <1>3, <1>5 DEF Follows, Ended

(* After a partial send a connection is watched for output, and stays watched for errors. *)
LEMMA SomeLeftGood ==
    ASSUME NEW c, Unsettled(c), c.send > 0, NEW taken
    PROVE  Follows(c, SomeLeft(c, taken))
<1>1. c \in Slots /\ Held(c) /\ Clean(c)
  BY DEF Unsettled, Held, Clean
<1>2. CASE taken = 0 /\ c.due # "none"
  <2>1. ~CloseNow(c).ok /\ Follows(c, CloseNow(c))
    BY <1>1, CloseNowGood
  <2>2. SomeLeft(c, taken) = CloseNow(c)
    BY <1>2, <2>1 DEF SomeLeft
  <2>3. QED
    BY <2>1, <2>2
<1>3. CASE ~(taken = 0 /\ c.due # "none") /\ ~c.ok
  <2>1. SomeLeft(c, taken) = c
    BY <1>3 DEF SomeLeft
  <2>2. QED
    BY <1>1, <1>3, <2>1 DEF Follows, Good, Unsettled
<1>4. CASE ~(taken = 0 /\ c.due # "none") /\ c.ok
  <2>1. c.fd /\ "err" \in c.events /\ c.events # {} /\ c.events \subseteq Events
    BY <1>1, <1>4 DEF Unsettled, Watched, Slots
  <2>2. ASSUME NEW m \in SUBSET Events
        PROVE  OptIn(c, m) = [c EXCEPT !.events = c.events \cup m]
    BY <1>1, <2>1 DEF OptIn, Slots
  <2>3. OptOut([c EXCEPT !.events = c.events \cup {"out"}], {"in"})
           = [c EXCEPT !.events = (c.events \cup {"out"}) \ {"in"}]
    BY <1>1, <2>1 DEF OptOut, Slots
  <2>4. PICK e \in SUBSET Events :
            /\ "out" \in e /\ "err" \in e
            /\ SomeLeft(c, taken) = [c EXCEPT !.events = e]
    <3>1. CASE c.send < Unblock
      <4>1. SomeLeft(c, taken) = OptIn(c, {"in", "out"})
        BY <1>3, <1>4, <3>1 DEF SomeLeft
      <4>2. QED
        BY <2>1, <2>2, <4>1 DEF Events
    <3>2. CASE ~(c.send < Unblock) /\ c.send >= OutFill
      <4>1. SomeLeft(c, taken) = OptOut(OptIn(c, {"out"}), {"in"})
        BY <1>4, <3>2 DEF SomeLeft
      <4>2. SomeLeft(c, taken) = [c EXCEPT !.events = (c.events \cup {"out"}) \ {"in"}]
        BY <2>2, <2>3, <4>1 DEF Events
      <4>3. QED
        BY <2>1, <4>2 DEF Events
    <3>3. CASE ~(c.send < Unblock) /\ ~(c.send >= OutFill)
      <4>1. SomeLeft(c, taken) = OptIn(c, {"out"})
        BY <1>4, <3>3 DEF SomeLeft
      <4>2. QED
        BY <2>1, <2>2, <4>1 DEF Events
    <3>4. QED
      BY <3>1, <3>2, <3>3
  <2>5. QED
    BY <1>4, <2>4, InterestGood
<1>5. QED
  BY <1>2, <1>3, <1>4

-----------------------------------------------------------------------------
(* One operation after another *)
LEMMA FollowsOn ==
    ASSUME NEW b, NEW c, NEW d, Follows(c, d), Ended(b) => Ended(c), c.listed = b.listed,
           c.ok => b.ok, c.writable => b.writable
    PROVE  Follows(b, d)
BY DEF Follows

(* Other sizes of the buffers *)
LEMMA BuffersTyped ==
    ASSUME NEW c \in Slots, NEW size \in 0 .. MaxBuffer
    PROVE  /\ [c EXCEPT !.flush = 0, !.send = size] \in Slots
           /\ \A o \in Int : /\ [c EXCEPT !.send = size, !.owed = o] \in Slots
                             /\ [c EXCEPT !.flush = size, !.owed = o] \in Slots
<1>1. 0 \in 0 .. MaxBuffer
  BY SizesAssumption
<1>2. QED
  BY <1>1 DEF Slots

(* What the kernel takes is taken from the send buffer, and nothing else is lost. *)
LEMMA SendBuffersGood ==
    ASSUME NEW c, Held(c), Watched(c), Limited(c), c.listed, c.flush + c.send > 0,
           c.ok \/ c.writable, NEW k \in Kernel(c.flush + c.send)
    PROVE  Follows(c, SendBuffers(c, k))
<1> DEFINE size == c.flush + c.send
           full == [c EXCEPT !.flush = 0, !.send = size]
           left == [full EXCEPT !.send = size - k, !.owed = @ - k]
<1>1. c \in Slots /\ size \in 0 .. MaxBuffer /\ MaxBuffer \in Nat
  BY SizesAssumption DEF Held, Slots
<1>2. full \in Slots
  BY <1>1, BuffersTyped
<1>3. /\ full.listed = c.listed /\ full.ok = c.ok /\ full.writable = c.writable
      /\ full.due = c.due /\ full.fd = c.fd /\ full.events = c.events
      /\ full.flush = 0 /\ full.send = size /\ full.owed = c.owed
  BY <1>1 DEF Slots
<1> HIDE DEF full
<1>0. k \in Int /\ size \in Nat /\ -size <= k /\ k <= size
  BY <1>1 DEF Kernel
<1>4. CASE k < 0
  <2> DEFINE part == [full EXCEPT !.owed = @ - Before(k)]
  <2>1. SendBuffers(c, k) = CloseNow(part)
    BY <1>4 DEF SendBuffers, full
  <2>2. Before(k) \in Nat /\ Before(k) < size
    BY <1>0, <1>4 DEF Before
  <2>3. full.owed = size
    BY <1>3 DEF Held, Holds
  <2>4. size - Before(k) \in Int /\ 0 <= size - Before(k) /\ size - Before(k) <= size
    BY <1>0, <2>2
  <2>5. part \in Slots /\ part.owed = size - Before(k)
    BY <1>2, <2>3, <2>4 DEF Slots
  <2>6. /\ part.listed = c.listed /\ part.ok = c.ok /\ part.writable = c.writable
        /\ part.due = c.due /\ part.fd = c.fd /\ part.events = c.events
        /\ part.flush = 0 /\ part.send = size
    BY <1>2, <1>3 DEF Slots
  <2> HIDE DEF part, size
  <2>7. Follows(c, CloseNow(part))
    <3>1. PICK d : d = CloseNow(part)
      OBVIOUS
    <3>2. d = [part EXCEPT !.writable = FALSE, !.ok = FALSE, !.fd = TRUE, !.events = {}, !.revents = {}]
      BY <2>5, <3>1, CloseNowIs
    <3>3. d \in Slots
      BY <2>5, <3>2 DEF Slots
    <3>4. /\ d.listed = c.listed /\ ~d.ok /\ ~d.writable /\ d.due = c.due /\ d.flush = 0
          /\ d.send = size /\ d.owed = size - Before(k) /\ d.fd /\ d.events = {}
      BY <2>5, <2>6, <3>2 DEF Slots
    <3>5. Held(d)
      BY <1>0, <1>1, <2>4, <3>3, <3>4 DEF Held, Holds
    <3>6. Good(d) /\ Ended(d)
      BY <3>4, <3>5 DEF Good, Watched, Limited, Clean, Ended
    <3>7. QED
      BY <3>1, <3>4, <3>6 DEF Follows
  <2>8. QED
    BY <2>1, <2>7
<1>5. CASE k >= 0
  <2>1. k \in 0 .. size /\ ~(k < 0)
    BY <1>0, <1>5
  <2>2. left \in Slots
    <3>1. size - k \in 0 .. MaxBuffer
      BY <1>1, <2>1
    <3>2. full.owed - k \in Int
      BY <1>2, <2>1 DEF Slots
    <3>3. QED
      BY <1>2, <3>1, <3>2, BuffersTyped
  <2>3. /\ left.listed = c.listed /\ left.ok = c.ok /\ left.writable = c.writable
        /\ left.due = c.due /\ left.fd = c.fd /\ left.events = c.events
        /\ left.flush = 0 /\ left.send = size - k /\ left.owed = c.owed - k
    BY <1>2, <1>3 DEF Slots
  <2> HIDE DEF left
  <2>4. Unsettled(left)
    <3>1. Held(left)
      BY <1>1, <2>1, <2>2, <2>3 DEF Held, Holds, Slots
    <3>2. QED
      BY <2>3, <3>1 DEF Unsettled, Watched, Limited
  <2>5. Ended(c) => Ended(left)
    BY <2>3 DEF Ended
  <2>6. CASE k = size
    <3>1. SendBuffers(c, k) = AllSent(left)
      BY <2>1, <2>6 DEF SendBuffers, left, full
    <3>2. left.send = 0
      BY <1>1, <2>3, <2>6
    <3>3. Follows(left, AllSent(left))
      BY <2>4, <3>2, AllSentGood
    <3>4. QED
      BY <2>3, <2>5, <3>1, <3>3, FollowsOn
  <2>7. CASE k # size
    <3>1. SendBuffers(c, k) = SomeLeft(left, k)
      BY <2>1, <2>7 DEF SendBuffers, left, full
    <3>2. left.send > 0
      BY <1>1, <2>1, <2>3, <2>7
    <3>3. Follows(left, SomeLeft(left, k))
      BY <2>4, <3>2, SomeLeftGood
    <3>4. QED
      BY <2>3, <2>5, <3>1, <3>3, FollowsOn
  <2>8. QED
    BY <2>6, <2>7
<1>6. QED
  BY <1>0, <1>4, <1>5

(* Write keeps the buffers within the limit, or closes. *)
LEMMA WriteGood ==
    ASSUME NEW c, Good(c), c.listed, c.ok \/ c.writable, NEW n \in Nat, NEW flush \in BOOLEAN,
           NEW k \in Kernel(c.flush + c.send + n)
    PROVE  Follows(c, Write(c, n, flush, k))
<1> DEFINE size == c.flush + c.send + n
           more == [c EXCEPT !.flush = @ + n, !.owed = @ + n]
<1>1. c \in Slots /\ MaxBuffer \in Nat /\ size \in Nat
  BY SizesAssumption DEF Good, Held, Slots
<1>2. CASE size > MaxBuffer
  <2>1. Write(c, n, flush, k) = CloseNow(c)
    BY <1>2 DEF Write
  <2>2. QED
    BY <2>1, CloseNowGood DEF Good
<1>3. CASE size <= MaxBuffer
  <2>1. more \in Slots
    <3>1. c.flush + n \in 0 .. MaxBuffer /\ c.owed + n \in Int
      BY <1>1, <1>3 DEF Slots
    <3>2. QED
      BY <1>1, <3>1, BuffersTyped
  <2>2. /\ more.listed = c.listed /\ more.ok = c.ok /\ more.writable = c.writable
        /\ more.due = c.due /\ more.fd = c.fd /\ more.events = c.events
        /\ more.flush = c.flush + n /\ more.send = c.send /\ more.owed = c.owed + n
    BY <1>1 DEF Slots
  <2> HIDE DEF more
  <2>3. more.flush + more.send = size
    BY <1>1, <2>2 DEF Slots
  <2>4. Held(more)
    BY <1>1, <1>3, <2>1, <2>2, <2>3 DEF Good, Held, Holds, Slots
  <2>5. Watched(more) /\ Limited(more) /\ Clean(more) /\ more.listed
    BY <2>2 DEF Good, Watched, Limited, Clean
  <2>6. Ended(c) => Ended(more)
    BY <2>2 DEF Ended
  <2>7. CASE size = 0 \/ (~flush /\ size <= MaxBuffer \div 2)
    <3>1. Write(c, n, flush, k) = more
      BY <1>1, <1>3, <2>7 DEF Write, more
    <3>2. more.ok /\ ~more.writable => more.flush + more.send > 0
      BY <1>1, <2>2 DEF Good, Slots
    <3>3. Good(more)
      BY <2>2, <2>4, <2>5, <3>2 DEF Good
    <3>4. QED
      BY <2>2, <2>6, <3>1, <3>3 DEF Follows
  <2>8. CASE ~(size = 0 \/ (~flush /\ size <= MaxBuffer \div 2))
    <3>1. Write(c, n, flush, k) = SendBuffers(more, k)
      BY <1>1, <1>3, <2>8 DEF Write, more
    <3>2. more.flush + more.send > 0 /\ k \in Kernel(more.flush + more.send)
      BY <1>1, <2>3, <2>8
    <3>3. Follows(more, SendBuffers(more, k))
      BY <2>2, <2>4, <2>5, <3>2, SendBuffersGood
    <3>4. QED
      BY <2>2, <2>6, <3>1, <3>3, FollowsOn
  <2>9. QED
    BY <2>7, <2>8
<1>4. QED
  BY <1>1, <1>2, <1>3

(* Flush, with the bytes that wait *)
LEMMA FlushGood ==
    ASSUME NEW c, Good(c), c.listed, c.ok \/ c.writable, NEW k \in Kernel(c.flush + c.send)
    PROVE  Follows(c, Flush(c, k))
<1>1. c.flush + c.send + 0 = c.flush + c.send
  BY DEF Good, Held, Slots
<1>2. Follows(c, Write(c, 0, TRUE, k))
  BY <1>1, WriteGood
<1>3. Follows(c, c)
  BY DEF Follows
<1>4. QED
  BY <1>2, <1>3 DEF Flush

LEMMA SendGood ==
    ASSUME NEW c, Good(c), c.listed, NEW n \in Nat, NEW flush \in BOOLEAN,
           NEW k \in Kernel(c.flush + c.send + n)
    PROVE  Follows(c, Send(c, n, flush, k))
<1>1. Follows(c, c)
  BY DEF Follows
<1>2. QED
  BY <1>1, WriteGood DEF Send

(* CloseNice leaves a connection open only if it has output and a deadline. *)
LEMMA CloseNiceGood ==
    ASSUME NEW c, Good(c), c.listed, NEW wait \in BOOLEAN, NEW n \in Nat,
           NEW k \in Kernel(c.flush + c.send + n)
    PROVE  Follows(c, CloseNice(c, wait, n, k))
<1> DEFINE d == IF n = 0 THEN c ELSE Send(c, n, TRUE, k)
           e == [d EXCEPT !.writable = FALSE, !.due = "ahead"]
<1>1. Follows(c, d)
  <2>1. Follows(c, c)
    BY DEF Follows
  <2>2. QED
    BY <2>1, SendGood
<1> HIDE DEF d
<1>2. d \in Slots /\ Good(d) /\ d.listed /\ Held(d) /\ Clean(d)
  BY <1>1 DEF Follows, Good, Held
<1>3. CASE ~wait \/ d.flush + d.send = 0
  <2>1. CloseNice(c, wait, n, k) = CloseNow(d)
    BY <1>3 DEF CloseNice, d
  <2>2. Follows(d, CloseNow(d))
    BY <1>2, CloseNowGood
  <2>3. QED
    BY <1>1, <2>1, <2>2, FollowsOn DEF Follows
<1>4. CASE ~(~wait \/ d.flush + d.send = 0)
  <2>1. CloseNice(c, wait, n, k) = e
    BY <1>4 DEF CloseNice, d
  <2>2. e \in Slots
    BY <1>2 DEF Slots
  <2>3. /\ e.listed = d.listed /\ e.ok = d.ok /\ ~e.writable /\ e.due = "ahead"
        /\ e.flush = d.flush /\ e.send = d.send /\ e.owed = d.owed /\ e.fd = d.fd
        /\ e.events = d.events
    BY <1>2 DEF Slots
  <2>4. d.flush + d.send > 0
    BY <1>2, <1>4 DEF Slots
  <2>5. Good(e)
    BY <1>2, <2>2, <2>3, <2>4 DEF Good, Held, Holds, Watched, Limited, Clean
  <2>6. Follows(d, e)
    BY <2>3, <2>5 DEF Follows, Ended
  <2>7. QED
    BY <1>1, <2>1, <2>6, FollowsOn DEF Follows
<1>5. QED
  BY <1>3, <1>4

LEMMA OnTimerBaseGood ==
    ASSUME NEW c, Good(c), c.listed, c.ok, NEW k \in Kernel(c.flush + c.send)
    PROVE  Follows(c, OnTimerBase(c, k))
BY CloseNowGood, FlushGood DEF OnTimerBase, Good

(* A slot without connection is sound, and so is one that has just got a connection. *)
LEMMA EmptyGood == Good(Empty) /\ Ended(Empty) /\ ~Empty.listed
<1>1. Empty \in Slots /\ 0 <= MaxBuffer
  BY SizesAssumption DEF Empty, Slots
<1>2. QED
  BY <1>1 DEF Empty, Good, Held, Holds, Watched, Limited, Clean, Ended

LEMMA NewConnGood ==
    ASSUME NEW c, Good(c), ~c.listed
    PROVE  Good(NewConn(c)) /\ NewConn(c).listed /\ NewConn(c).ok /\ NewConn(c).writable
<1>1. c \in Slots /\ c.flush = 0 /\ c.send = 0 /\ c.events = {} /\ c.owed = 0
  BY DEF Good, Held, Holds, Clean, Slots
<1>2. PICK d : d = NewConn(c)
  OBVIOUS
<1>3. d = [c EXCEPT !.listed = TRUE, !.ok = TRUE, !.writable = TRUE, !.fd = TRUE,
                    !.events = {"in", "err"}]
  BY <1>1, <1>2 DEF NewConn, OptIn, Slots
<1>4. d \in Slots
  BY <1>1, <1>3 DEF Slots, Events
<1>5. /\ d.listed /\ d.ok /\ d.writable /\ d.fd /\ d.events = {"in", "err"}
      /\ d.flush = 0 /\ d.send = 0 /\ d.owed = 0
  BY <1>1, <1>3 DEF Slots
<1>6. 0 <= MaxBuffer
  BY SizesAssumption
<1>7. QED
  BY <1>2, <1>4, <1>5, <1>6 DEF Good, Held, Holds, Watched, Limited, Clean

(* A connection that is only marked as not ok holds its bytes; the loop deletes it later. *)
LEMMA MarkedGood ==
    ASSUME NEW c, Good(c), c.listed
    PROVE  LET d == [c EXCEPT !.ok = FALSE]
           IN  Good(d) /\ d.listed /\ ~d.ok /\ d.writable = c.writable
<1>1. c \in Slots
  BY DEF Good, Held
<1>2. PICK d : d = [c EXCEPT !.ok = FALSE]
  OBVIOUS
<1>3. d \in Slots
  BY <1>1, <1>2 DEF Slots
<1>4. /\ d.listed = c.listed /\ ~d.ok /\ d.writable = c.writable /\ d.due = c.due
      /\ d.flush = c.flush /\ d.send = c.send /\ d.owed = c.owed /\ d.fd = c.fd
      /\ d.events = c.events
  BY <1>1, <1>2 DEF Slots
<1>5. QED
  BY <1>2, <1>3, <1>4 DEF Good, Held, Holds, Watched, Limited, Clean

-----------------------------------------------------------------------------
(* The loop *)

(* What is closed is reported, but for what is being treated. *)
Reported == \A s \in Sockets : s # treating => Ended(conn[s])

(* The loop treats a connection, which exists, or none. *)
Treatment ==
    /\ phase \in {"input", "output"} <=> treating # 0
    /\ treating # 0 => conn[treating].listed

IInv ==
    /\ TypeOK
    /\ \A s \in Sockets : Good(conn[s])
    /\ Reported
    /\ Treatment

LEMMA SocketsTyped ==
    /\ 0 \in 0 .. LastSock /\ 0 \notin Sockets
    /\ \A s \in Sockets : s \in Nat /\ s <= LastSock
BY LoopAssumption DEF Sockets

LEMMA InitIInv == Init => IInv
<1> SUFFICES ASSUME Init
             PROVE  IInv
  OBVIOUS
<1>1. \A s \in Sockets : conn[s] = Empty
  BY DEF Init
<1>2. Empty \in Slots
  BY EmptyGood DEF Good, Held
<1>3. TypeOK
  BY <1>2, LoopAssumption DEF Init, TypeOK
<1>4. QED
  BY <1>1, <1>3, EmptyGood DEF IInv, Reported, Treatment, Init

-----------------------------------------------------------------------------
(* A step that puts a sound slot in the place of another *)
LEMMA OneSlot ==
    ASSUME IInv, NEW s \in Sockets, NEW d, Good(d),
           conn' = [conn EXCEPT ![s] = d],
           phase' \in {"choose", "listen", "visit", "input", "output", "timer"},
           next' \in 1 .. LastSock + 1, treating' \in 0 .. LastSock,
           act' \subseteq Events \cup {"close"}, todo' \subseteq Sockets,
           treating = treating' \/ (treating = 0 /\ treating' = s) \/ (treating = s /\ treating' = 0),
           s # treating' => Ended(d),
           s = treating' => d.listed,
           phase' \in {"input", "output"} <=> treating' # 0
    PROVE  IInv'
<1>1. d \in Slots /\ conn \in [Sockets -> Slots]
  BY DEF Good, Held, IInv, TypeOK
<1>2. conn' \in [Sockets -> Slots]
  BY <1>1
<1>3. conn'[s] = d /\ \A t \in Sockets : t # s => conn'[t] = conn[t]
  BY <1>1
<1>4. TypeOK'
  BY <1>2 DEF TypeOK
<1>5. \A t \in Sockets : Good(conn'[t])
  BY <1>3 DEF IInv
<1>6. Reported'
  BY <1>3, SocketsTyped DEF IInv, Reported
<1>7. Treatment'
  <2>1. CASE treating' = s
    BY <1>3, <2>1 DEF IInv, Treatment
  <2>2. CASE treating' # s
    <3>1. treating' = treating \/ treating' = 0
      BY <2>2
    <3>2. treating' # 0 => treating' \in Sockets
      BY LoopAssumption DEF Sockets
    <3>3. QED
      BY <1>3, <2>2, <3>1, <3>2 DEF IInv, Treatment
  <2>3. QED
    BY <2>1, <2>2
<1>8. QED
  BY <1>4, <1>5, <1>6, <1>7 DEF IInv, Sockets

(* ... and all else stays *)
LEMMA OneSlotOnly ==
    ASSUME IInv, NEW s \in Sockets, NEW d, Good(d),
           conn' = [conn EXCEPT ![s] = d],
           UNCHANGED <<phase, next, treating, act, todo>>,
           s # treating => Ended(d), s = treating => d.listed
    PROVE  IInv'
BY OneSlot DEF IInv, TypeOK, Treatment

(* A step that operates on a connection *)
LEMMA Operation ==
    ASSUME IInv, NEW s \in Sockets, NEW d, Follows(conn[s], d), conn[s].listed,
           conn' = [conn EXCEPT ![s] = d],
           UNCHANGED <<phase, next, treating, act, todo>>
    PROVE  IInv'
BY OneSlotOnly DEF Follows, IInv, Reported

-----------------------------------------------------------------------------
(* Handlers *)
LEMMA AcceptIInv ==
    ASSUME IInv, NEW s \in Sockets, Accept(s) \/ AcceptRefused(s) \/ AcceptLost(s)
    PROVE  IInv'
<1>1. Good(conn[s]) /\ ~conn[s].listed /\ treating = 0 /\ s # treating
  BY SocketsTyped DEF Accept, AcceptRefused, AcceptLost, NextSocket, Free, IInv, Treatment
<1>2. CASE Accept(s)
  <2>1. Good(NewConn(conn[s])) /\ Ended(NewConn(conn[s]))
    BY <1>1, NewConnGood DEF Ended
  <2>2. QED
    BY <1>1, <1>2, <2>1, OneSlotOnly DEF Accept
<1>3. CASE AcceptRefused(s)
  <2>1. DelConn(NewConn(conn[s])) = Empty
    BY DEF DelConn
  <2>2. QED
    BY <1>1, <1>3, <2>1, EmptyGood, OneSlotOnly DEF AcceptRefused
<1>4. CASE AcceptLost(s)
  <2>1. Follows(conn[s], CloseNow(conn[s]))
    BY <1>1, CloseNowGood DEF Good
  <2>2. Good(CloseNow(conn[s])) /\ Ended(CloseNow(conn[s]))
    BY <1>1, <2>1 DEF Follows, Ended
  <2>3. QED
    BY <1>1, <1>4, <2>2, OneSlotOnly DEF AcceptLost
<1>5. QED
  BY <1>2, <1>3, <1>4

LEMMA SendToIInv ==
    ASSUME IInv, NEW s \in Sockets, NEW n \in Sizes, NEW flush \in BOOLEAN,
           NEW k \in Kernel(Pending(s) + n), SendTo(s, n, flush, k)
    PROVE  IInv'
<1>1. Good(conn[s]) /\ conn[s].listed /\ n \in Nat
  BY LoopAssumption DEF SendTo, Handling, IInv
<1>2. Follows(conn[s], Send(conn[s], n, flush, k))
  BY <1>1, SendGood DEF Pending
<1>3. QED
  BY <1>1, <1>2, Operation DEF SendTo

LEMMA CloseConnNiceIInv ==
    ASSUME IInv, NEW s \in Sockets, NEW n \in Sizes \cup {0}, NEW wait \in BOOLEAN,
           NEW k \in Kernel(Pending(s) + n), CloseConnNice(s, wait, n, k)
    PROVE  IInv'
<1>1. Good(conn[s]) /\ conn[s].listed /\ n \in Nat
  BY LoopAssumption DEF CloseConnNice, Handling, IInv
<1>2. Follows(conn[s], CloseNice(conn[s], wait, n, k))
  BY <1>1, CloseNiceGood DEF Pending
<1>3. QED
  BY <1>1, <1>2, Operation DEF CloseConnNice

LEMMA CloseConnNowIInv ==
    ASSUME IInv, NEW s \in Sockets, CloseConnNow(s)
    PROVE  IInv'
<1>1. Good(conn[s]) /\ conn[s].listed
  BY DEF CloseConnNow, Handling, IInv
<1>2. Follows(conn[s], CloseNow(conn[s]))
  BY <1>1, CloseNowGood DEF Good
<1>3. QED
  BY <1>1, <1>2, Operation DEF CloseConnNow

(* What a handler deletes while it is treated is only marked. *)
LEMMA DelTreatedIInv ==
    ASSUME IInv, NEW s \in Sockets, DelTreated(s)
    PROVE  IInv'
<1> DEFINE d == [conn[s] EXCEPT !.ok = FALSE]
<1>1. Good(conn[s]) /\ conn[s].listed /\ s = treating
  BY SocketsTyped DEF DelTreated, IInv, Treatment
<1>2. Good(d) /\ d.listed
  BY <1>1, MarkedGood
<1>3. conn' = [conn EXCEPT ![s] = d]
  BY DEF DelTreated
<1> HIDE DEF d
<1>4. QED
  BY <1>1, <1>2, <1>3, OneSlotOnly DEF DelTreated

LEMMA HandleIInv == IInv /\ Handle => IInv'
<1> SUFFICES ASSUME IInv, Handle
             PROVE  IInv'
  OBVIOUS
<1>1. PICK s \in Sockets :
        \/ Accept(s) \/ AcceptRefused(s) \/ AcceptLost(s)
        \/ CloseConnNow(s) \/ DelTreated(s)
        \/ \E n \in Sizes : \E k \in Kernel(Pending(s) + n), flush \in BOOLEAN : SendTo(s, n, flush, k)
        \/ \E n \in Sizes \cup {0} : \E k \in Kernel(Pending(s) + n), wait \in BOOLEAN :
              CloseConnNice(s, wait, n, k)
  BY DEF Handle
<1>2. CASE Accept(s) \/ AcceptRefused(s) \/ AcceptLost(s)
  BY <1>2, AcceptIInv
<1>3. CASE CloseConnNow(s)
  BY <1>3, CloseConnNowIInv
<1>4. CASE DelTreated(s)
  BY <1>4, DelTreatedIInv
<1>5. CASE \E n \in Sizes : \E k \in Kernel(Pending(s) + n), flush \in BOOLEAN : SendTo(s, n, flush, k)
  BY <1>5, SendToIInv
<1>6. CASE \E n \in Sizes \cup {0} : \E k \in Kernel(Pending(s) + n), wait \in BOOLEAN :
              CloseConnNice(s, wait, n, k)
  BY <1>6, CloseConnNiceIInv
<1>7. QED
  BY <1>1, <1>2, <1>3, <1>4, <1>5, <1>6

-----------------------------------------------------------------------------
(* Rounds of the loop: they touch deadlines and what poll reported, or nothing. *)
LEMMA AllSlots ==
    ASSUME IInv,
           NEW dues, NEW revs, \A s \in Sockets : revs[s] \in SUBSET Events,
           \A s \in Sockets : dues[s] = conn[s].due \/ (dues[s] = "over" /\ conn[s].due = "ahead"),
           conn' = [s \in Sockets |-> [conn[s] EXCEPT !.due = dues[s], !.revents = revs[s]]],
           treating = 0, treating' = 0,
           phase' \in {"choose", "listen", "visit", "timer"},
           next' \in 1 .. LastSock + 1, act' \subseteq Events \cup {"close"}, todo' \subseteq Sockets
    PROVE  IInv'
<1>1. ASSUME NEW s \in Sockets
      PROVE  Good(conn'[s]) /\ Ended(conn'[s])
  <2>1. PICK c : c = conn[s]
    OBVIOUS
  <2>2. PICK d : d = conn'[s]
    OBVIOUS
  <2>3. Good(c) /\ c \in Slots /\ Ended(c)
    BY <2>1, SocketsTyped DEF IInv, Reported, Good, Held
  <2>4. d = [c EXCEPT !.due = dues[s], !.revents = revs[s]]
    BY <2>1, <2>2
  <2>5. dues[s] = c.due \/ (dues[s] = "over" /\ c.due = "ahead")
    BY <2>1
  <2>6. d \in Slots
    BY <2>3, <2>4, <2>5 DEF Slots
  <2>7. /\ d.listed = c.listed /\ d.ok = c.ok /\ d.writable = c.writable /\ d.due = dues[s]
        /\ d.flush = c.flush /\ d.send = c.send /\ d.owed = c.owed /\ d.fd = c.fd
        /\ d.events = c.events
    BY <2>3, <2>4 DEF Slots
  <2>8. Good(d) /\ Ended(d)
    BY <2>3, <2>5, <2>6, <2>7 DEF Good, Held, Holds, Watched, Limited, Clean, Ended
  <2>9. QED
    BY <2>2, <2>8
<1> DEFINE g(s) == [conn[s] EXCEPT !.due = dues[s], !.revents = revs[s]]
<1>2. conn' \in [Sockets -> Slots]
  <2>1. \A s \in Sockets : conn'[s] \in Slots
    BY <1>1 DEF Good, Held
  <2>2. conn' = [s \in Sockets |-> g(s)]
    BY Zenon
  <2> HIDE DEF g
  <2>3. \A s \in Sockets : g(s) \in Slots
    BY <2>1, <2>2
  <2>4. QED
    BY <2>2, <2>3
<1>3. TypeOK'
  <2>1. phase' \in {"choose", "listen", "visit", "input", "output", "timer"}
    OBVIOUS
  <2>2. 0 \in 0 .. LastSock
    BY SocketsTyped, Zenon
  <2>3. conn' \in [Sockets -> Slots]'
    BY <1>2 DEF Sockets
  <2>4. QED
    BY <2>1, <2>2, <2>3, Zenon DEF TypeOK, Sockets
<1>4. QED
  BY <1>1, <1>3 DEF IInv, Reported, Treatment, Sockets

LEMMA PolledTyped == \A c \in Slots : Polled(c) \in SUBSET Events
BY DEF Polled, Slots, Events

(* The slots in the form of AllSlots *)
LEMMA ChooseIInv ==
    ASSUME IInv, Choose \/ Idle
    PROVE  IInv'
<1>1. treating = 0 /\ conn \in [Sockets -> Slots] /\ UNCHANGED <<treating, act, todo>>
  BY DEF Choose, Idle, IInv, Treatment, TypeOK
<1>2. PICK late \in SUBSET Waiting :
        \/ Choose /\ conn' = [s \in Sockets |-> [Later(late)[s] EXCEPT !.revents = Polled(conn[s])]]
        \/ Idle /\ conn' = Later(late)
  BY DEF Choose, Idle
<1> DEFINE dues == [s \in Sockets |-> IF s \in late THEN "over" ELSE conn[s].due]
           revs == [s \in Sockets |-> IF phase' = "listen" THEN Polled(conn[s]) ELSE conn[s].revents]
<1>3. conn' = [s \in Sockets |-> [conn[s] EXCEPT !.due = dues[s], !.revents = revs[s]]]
  <2>1. CASE Choose /\ conn' = [s \in Sockets |-> [Later(late)[s] EXCEPT !.revents = Polled(conn[s])]]
    <3>1. phase' = "listen"
      BY <2>1 DEF Choose
    <3>2. ASSUME NEW s \in Sockets
          PROVE  [Later(late)[s] EXCEPT !.revents = Polled(conn[s])]
                   = [conn[s] EXCEPT !.due = dues[s], !.revents = revs[s]]
      BY <1>1, <3>1 DEF Later, Slots
    <3>3. QED
      BY <2>1, <3>2, Zenon
  <2>2. CASE Idle /\ conn' = Later(late)
    <3>1. phase' = "visit"
      BY <2>2 DEF Idle
    <3>2. ASSUME NEW s \in Sockets
          PROVE  Later(late)[s] = [conn[s] EXCEPT !.due = dues[s], !.revents = revs[s]]
      BY <1>1, <3>1 DEF Later, Slots
    <3>3. conn' = [s \in Sockets |-> Later(late)[s]]
      BY <2>2 DEF Later
    <3>4. QED
      BY <3>2, <3>3, Zenon
  <2>3. QED
    BY <1>2, <2>1, <2>2
<1>4. \A s \in Sockets : dues[s] = conn[s].due \/ (dues[s] = "over" /\ conn[s].due = "ahead")
  BY DEF Waiting
<1>5. \A s \in Sockets : revs[s] \in SUBSET Events
  <2>1. \A s \in Sockets : conn[s].revents \in SUBSET Events
    BY <1>1 DEF Slots
  <2>2. QED
    BY <1>1, <2>1, PolledTyped
<1>6. phase' \in {"choose", "listen", "visit", "timer"} /\ next' \in 1 .. LastSock + 1
  BY LoopAssumption DEF Choose, Idle, Nexts
<1>7. act' \subseteq Events \cup {"close"} /\ todo' \subseteq Sockets
  BY <1>1 DEF IInv, TypeOK
<1> HIDE DEF dues, revs
<1>8. QED
  BY <1>1, <1>3, <1>4, <1>5, <1>6, <1>7, AllSlots

(* After the round what poll reported is forgotten. *)
LEMMA RoundEndsIInv ==
    ASSUME IInv, NoTimer \/ ServerTimer \/ ConnTimer
    PROVE  IInv'
<1>1. /\ treating = 0 /\ conn \in [Sockets -> Slots] /\ conn' = Forgotten
      /\ UNCHANGED <<next, treating, act>> /\ phase' \in {"choose", "timer"}
      /\ todo' \subseteq Sockets
  BY DEF NoTimer, ServerTimer, ConnTimer, IInv, Treatment, TypeOK
<1> DEFINE dues == [s \in Sockets |-> conn[s].due]
           revs == [s \in Sockets |-> {}]
<1>2. conn' = [s \in Sockets |-> [conn[s] EXCEPT !.due = dues[s], !.revents = revs[s]]]
  <2>1. ASSUME NEW s \in Sockets
        PROVE  [conn[s] EXCEPT !.revents = {}] = [conn[s] EXCEPT !.due = dues[s], !.revents = revs[s]]
    BY <1>1 DEF Slots
  <2>2. conn' = [s \in Sockets |-> [conn[s] EXCEPT !.revents = {}]]
    BY <1>1 DEF Forgotten
  <2>3. QED
    BY <2>1, <2>2, Zenon
<1>3. \A s \in Sockets : dues[s] = conn[s].due /\ revs[s] \in SUBSET Events
  OBVIOUS
<1>4. next' \in 1 .. LastSock + 1 /\ act' \subseteq Events \cup {"close"}
  BY <1>1 DEF IInv, TypeOK
<1> HIDE DEF dues, revs
<1>5. QED
  BY <1>1, <1>2, <1>3, <1>4, AllSlots

-----------------------------------------------------------------------------
(* The loop treats one connection. *)
LEMMA VisitIInv ==
    ASSUME IInv, NEW s \in Sockets, NEW a \in SUBSET Events,
           TreatNoInput(s, a) \/ TreatClosing(s, a) \/ TreatHangUp(s, a) \/ TreatInput(s, a)
    PROVE  IInv'
<1>1. Visit(s, a)
  BY DEF TreatNoInput, TreatClosing, TreatHangUp, TreatInput
<1>2. /\ treating = 0 /\ treating' = s /\ conn[s].listed /\ Good(conn[s])
      /\ conn \in [Sockets -> Slots]
  BY <1>1 DEF Visit, Free, IInv, Treatment, TypeOK
<1>3. phase' \in {"input", "output"}
  BY DEF TreatNoInput, TreatClosing, TreatHangUp, TreatInput
<1>4. /\ next' \in 1 .. LastSock + 1 /\ treating' \in 0 .. LastSock /\ treating' # 0
      /\ act' \subseteq Events \cup {"close"} /\ todo' \subseteq Sockets
  <2>1. next' \in 1 .. LastSock + 1
    BY <1>1, LoopAssumption DEF Visit, Nexts, Sockets
  <2>2. treating' \in 0 .. LastSock /\ treating' # 0
    BY <1>2, LoopAssumption DEF Sockets
  <2>3. act' \subseteq Events \cup {"close"}
    BY <1>1 DEF Visit
  <2>4. QED
    BY <1>1, <2>1, <2>2, <2>3 DEF Visit, IInv, TypeOK
<1>5. PICK d : Good(d) /\ d.listed /\ conn' = [conn EXCEPT ![s] = d]
  <2>1. CASE TreatNoInput(s, a) \/ TreatInput(s, a)
    <3>1. conn' = [conn EXCEPT ![s] = conn[s]]
      BY <1>2, <2>1 DEF TreatNoInput, TreatInput
    <3>2. QED
      BY <1>2, <3>1
  <2>2. CASE TreatClosing(s, a)
    <3>1. conn' = [conn EXCEPT ![s] = [conn[s] EXCEPT !.ok = FALSE]]
      BY <2>2 DEF TreatClosing
    <3>2. QED
      BY <1>2, <3>1, MarkedGood
  <2>3. CASE TreatHangUp(s, a)
    <3>1. conn' = [conn EXCEPT ![s] = CloseNow(conn[s])]
      BY <2>3 DEF TreatHangUp
    <3>2. Follows(conn[s], CloseNow(conn[s]))
      BY <1>2, CloseNowGood DEF Good
    <3>3. QED
      BY <1>2, <3>1, <3>2 DEF Follows
  <2>4. QED
    BY <2>1, <2>2, <2>3
<1>6. QED
  BY <1>2, <1>3, <1>4, <1>5, OneSlot

(* The treatment ends: the connection is deleted, or it is open. *)
LEMMA EndTreatIInv ==
    ASSUME IInv, NEW s \in Sockets, NEW k \in Kernel(Pending(s)), EndTreat(s, k)
    PROVE  IInv'
<1> DEFINE c == conn[s]
           d == IF c.ok /\ "out" \in act THEN Flush(c, k) ELSE c
<1>1. /\ treating = s /\ treating' = 0 /\ phase' = "visit" /\ UNCHANGED <<next, todo>>
      /\ act' = {} /\ conn' = [conn EXCEPT ![s] = Treated(c, k)]
  BY DEF EndTreat
<1>2. Good(c) /\ c.listed /\ s # 0
  BY <1>1, SocketsTyped DEF IInv, Treatment
<1>3. Good(d)
  <2>1. c.ok => Follows(c, Flush(c, k))
    BY <1>2, FlushGood DEF Pending
  <2>2. QED
    BY <1>2, <2>1 DEF Follows
<1>4. Good(Treated(c, k)) /\ Ended(Treated(c, k))
  <2>1. CASE ~d.ok \/ act \cap {"err", "close"} # {}
    <3>1. Treated(c, k) = Empty
      BY <2>1 DEF Treated, DelConn
    <3>2. QED
      BY <3>1, EmptyGood
  <2>2. CASE ~(~d.ok \/ act \cap {"err", "close"} # {})
    <3>1. Treated(c, k) = d /\ d.ok
      BY <2>2 DEF Treated
    <3>2. QED
      BY <1>3, <3>1 DEF Ended
  <2>3. QED
    BY <2>1, <2>2
<1>5. /\ next' \in 1 .. LastSock + 1 /\ treating' \in 0 .. LastSock
      /\ act' \subseteq Events \cup {"close"} /\ todo' \subseteq Sockets
  BY <1>1, SocketsTyped DEF IInv, TypeOK
<1>6. QED
  BY <1>1, <1>2, <1>4, <1>5, OneSlot

LEMMA RunTimerIInv ==
    ASSUME IInv, NEW s \in Sockets, NEW k \in Kernel(Pending(s)), RunTimer(s, k)
    PROVE  IInv'
<1> DEFINE d == IF conn[s].ok THEN OnTimerBase(conn[s], k) ELSE conn[s]
<1>1. /\ conn' = [conn EXCEPT ![s] = d] /\ phase = "timer" /\ todo' = todo \ {s}
      /\ UNCHANGED <<phase, next, treating, act>>
  BY DEF RunTimer
<1>2. treating = 0 /\ Good(conn[s]) /\ Ended(conn[s])
  BY <1>1, SocketsTyped DEF IInv, Treatment, Reported
<1>3. Good(d) /\ Ended(d)
  <2>1. CASE conn[s].ok
    <3>1. conn[s].listed
      BY <1>2, <2>1 DEF Good, Clean
    <3>2. Follows(conn[s], OnTimerBase(conn[s], k))
      BY <1>2, <2>1, <3>1, OnTimerBaseGood DEF Pending
    <3>3. QED
      BY <1>2, <2>1, <3>2 DEF Follows
  <2>2. CASE ~conn[s].ok
    BY <1>2, <2>2
  <2>3. QED
    BY <2>1, <2>2
<1>4. /\ next' \in 1 .. LastSock + 1 /\ treating' \in 0 .. LastSock /\ s # treating'
      /\ act' \subseteq Events \cup {"close"} /\ todo' \subseteq Sockets
  BY <1>1, <1>2, SocketsTyped DEF IInv, TypeOK
<1> HIDE DEF d
<1>5. QED
  BY <1>1, <1>2, <1>3, <1>4, OneSlot

(* The steps that leave the connections alone *)
LEMMA QuietIInv ==
    ASSUME IInv, EndListen \/ EndInput \/ EndTimer \/ \E s \in Sockets : Pass(s)
    PROVE  IInv'
<1>1. UNCHANGED <<conn, treating, act, todo>>
  BY DEF EndListen, EndInput, EndTimer, Pass
<1>2. /\ phase' \in {"choose", "listen", "visit", "input", "output", "timer"}
      /\ phase' \in {"input", "output"} <=> phase \in {"input", "output"}
  BY DEF EndListen, EndInput, EndTimer, Pass, IInv, TypeOK
<1>3. next' \in 1 .. LastSock + 1
  <2>1. CASE \E s \in Sockets : Pass(s)
    BY <2>1, LoopAssumption DEF Pass, Nexts, Sockets
  <2>2. CASE EndListen \/ EndInput \/ EndTimer
    BY <2>2 DEF EndListen, EndInput, EndTimer, IInv, TypeOK
  <2>3. QED
    BY <2>1, <2>2
<1>4. TypeOK'
  BY <1>1, <1>2, <1>3 DEF IInv, TypeOK
<1>5. QED
  BY <1>1, <1>2, <1>4 DEF IInv, Reported, Treatment

LEMMA NextIInv == IInv /\ [Next]_vars => IInv'
<1> SUFFICES ASSUME IInv, [Next]_vars
             PROVE  IInv'
  OBVIOUS
<1>1. CASE UNCHANGED vars
  BY <1>1 DEF vars, IInv, TypeOK, Reported, Treatment
<1>2. CASE Handle
  BY <1>2, HandleIInv
<1>3. CASE Choose \/ Idle
  BY <1>3, ChooseIInv
<1>4. CASE NoTimer \/ ServerTimer \/ ConnTimer
  BY <1>4, RoundEndsIInv
<1>5. CASE EndListen \/ EndInput \/ EndTimer \/ \E s \in Sockets : Pass(s)
  BY <1>5, QuietIInv
<1>6. CASE \E s \in Sockets : \E a \in SUBSET Events :
             TreatNoInput(s, a) \/ TreatClosing(s, a) \/ TreatHangUp(s, a) \/ TreatInput(s, a)
  BY <1>6, VisitIInv
<1>7. CASE \E s \in Sockets : \E k \in Kernel(Pending(s)) : EndTreat(s, k) \/ RunTimer(s, k)
  BY <1>7, EndTreatIInv, RunTimerIInv
<1>8. QED
  BY <1>1, <1>2, <1>3, <1>4, <1>5, <1>6, <1>7 DEF Next, Advance

-----------------------------------------------------------------------------
(* The slots stay sound and what is closed stays reported, in every behaviour of the loop. *)
THEOREM SlotsSound == Spec => []IInv
<1>1. Init => IInv
  BY InitIInv
<1>2. IInv /\ [Next]_vars => IInv'
  BY NextIInv
<1>3. QED
  BY <1>1, <1>2, PTL DEF Spec

(* Buffers stay within max_outbuf_size, and all else has its type: TypeOK. *)
THEOREM TypeCorrect == Spec => []TypeOK
<1>1. IInv => TypeOK
  BY DEF IInv
<1>2. QED
  BY <1>1, SlotsSound, PTL

(* TimeStep: an open connection is watched for errors, and a closed one has the poll entry that
   makes the loop delete it, whatever handlers did to it, and whoever had the descriptor before. *)
THEOREM ClosedIsReported == Spec => []ClosedReported
<1>1. IInv => ClosedReported
  BY DEF IInv, Reported, Ended, Good, Watched, ClosedReported
<1>2. QED
  BY <1>1, SlotsSound, PTL

(* CloseNice: a connection that is closing has something to send and a deadline. *)
THEOREM ClosingHasSomething == Spec => []ClosingHasOutput
<1>1. IInv => ClosingHasOutput
  BY DEF IInv, Good, Limited, ClosingHasOutput
<1>2. QED
  BY <1>1, SlotsSound, PTL

(* Write: interest in output follows the send buffer, and no byte is lost between the buffers. *)
THEOREM OutputIsKept == Spec => [](OutputWatched /\ NothingLost)
<1>1. IInv => OutputWatched /\ NothingLost
  BY DEF IInv, Good, Held, OutputWatched, NothingLost
<1>2. QED
  BY <1>1, SlotsSound, PTL

(* delConnection, mNowTreating: whatever the handlers do, the connection the loop is treating exists
   until the loop itself ends its treatment. *)
THEOREM TreatedIsKept == Spec => TreatedStays
<1> DEFINE Kept == \A s \in Sockets : s = treating /\ phase' # "visit" => conn'[s].listed
<1>1. IInv /\ [Next]_vars => Kept
  <2> SUFFICES ASSUME IInv, [Next]_vars, NEW s \in Sockets, s = treating, phase' # "visit"
               PROVE  conn'[s].listed
    OBVIOUS
  <2>1. treating # 0 /\ phase \in {"input", "output"}
    BY SocketsTyped DEF IInv, Treatment
  <2>2. treating' = treating
    <3>1. CASE UNCHANGED vars
      BY <3>1 DEF vars
    <3>2. CASE Handle
      BY <3>2 DEF Handle, Accept, AcceptRefused, AcceptLost, CloseConnNow, DelTreated, SendTo,
                  CloseConnNice
    <3>3. CASE Advance
      BY <2>1, <3>3 DEF Advance, Choose, Idle, EndListen, EndInput, EndTimer, NoTimer, ServerTimer,
                        ConnTimer, Pass, TreatNoInput, TreatClosing, TreatHangUp, TreatInput, Visit,
                        EndTreat, RunTimer
    <3>4. QED
      BY <3>1, <3>2, <3>3 DEF Next
  <2>3. IInv'
    BY NextIInv
  <2>4. QED
    BY <2>1, <2>2, <2>3 DEF IInv, Treatment
<1>2. Spec => [][Kept]_vars
  BY <1>1, SlotsSound, PTL DEF Spec
<1>3. QED
  BY <1>2 DEF TreatedStays

-----------------------------------------------------------------------------
(* The life of connections: every step of the loop is a step of ConnLife, or none. *)
lives == [s \in Sockets |-> Life(conn[s])]

(* One slot goes on in its life. *)
Turn(c, d) == Life(d) = Life(c) \/ Life(c) \in Lives!Before(Life(d))

LEMMA TurnDead == \A c, d : ~d.listed \/ (c.listed /\ d.listed /\ ~d.ok) => Turn(c, d)
BY DEF Turn, Life, Lives!Before

LEMMA TurnFollows == \A c, d : Good(c) /\ Follows(c, d) => Turn(c, d)
<1> SUFFICES ASSUME NEW c, NEW d, Good(c), Follows(c, d)
             PROVE  Turn(c, d)
  OBVIOUS
<1>1. CASE ~d.listed \/ ~d.ok
  BY <1>1, TurnDead DEF Follows
<1>2. CASE d.listed /\ d.ok
  <2>1. c.listed /\ c.ok /\ (d.writable => c.writable)
    BY <1>2 DEF Follows
  <2>2. QED
    BY <1>2, <2>1 DEF Turn, Life, Lives!Before
<1>3. QED
  BY <1>1, <1>2

LEMMA OneLife ==
    ASSUME conn \in [Sockets -> Slots], NEW s \in Sockets, NEW d, conn' = [conn EXCEPT ![s] = d],
           Turn(conn[s], d)
    PROVE  [Lives!LifeNext]_lives
<1>1. conn'[s] = d /\ \A t \in Sockets : t # s => conn'[t] = conn[t]
  OBVIOUS
<1>2. lives' = [t \in Sockets |-> Life(conn'[t])]
  BY DEF lives, Sockets
<1>3. Life(d) \in {"open", "closing", "dead", "free"}
  BY DEF Life
<1>4. lives' = [lives EXCEPT ![s] = Life(d)]
  BY <1>1, <1>2 DEF lives
<1>5. CASE Life(d) = Life(conn[s])
  BY <1>4, <1>5 DEF lives
<1>6. CASE Life(conn[s]) \in Lives!Before(Life(d))
  BY <1>3, <1>4, <1>6 DEF lives, Lives!LifeNext
<1>7. QED
  BY <1>5, <1>6 DEF Turn

LEMMA HandleLives == IInv /\ Handle => [Lives!LifeNext]_lives
<1> SUFFICES ASSUME IInv, Handle
             PROVE  [Lives!LifeNext]_lives
  OBVIOUS
<1>1. conn \in [Sockets -> Slots] /\ \A s \in Sockets : Good(conn[s])
  BY DEF IInv, TypeOK
<1>2. ASSUME NEW s \in Sockets, Accept(s)
      PROVE  [Lives!LifeNext]_lives
  <2>1. ~conn[s].listed /\ conn' = [conn EXCEPT ![s] = NewConn(conn[s])]
    BY <1>2 DEF Accept, NextSocket, Free
  <2>2. NewConn(conn[s]).listed /\ NewConn(conn[s]).ok /\ NewConn(conn[s]).writable
    BY <1>1, <2>1, NewConnGood
  <2>3. Turn(conn[s], NewConn(conn[s]))
    BY <2>1, <2>2 DEF Turn, Life, Lives!Before
  <2>4. QED
    BY <1>1, <2>1, <2>3, OneLife
<1>3. ASSUME NEW s \in Sockets, AcceptRefused(s)
      PROVE  [Lives!LifeNext]_lives
  <2>1. conn' = [conn EXCEPT ![s] = Empty]
    BY <1>3 DEF AcceptRefused, DelConn
  <2>2. QED
    BY <1>1, <2>1, EmptyGood, TurnDead, OneLife
<1>4. ASSUME NEW s \in Sockets, AcceptLost(s) \/ CloseConnNow(s)
      PROVE  [Lives!LifeNext]_lives
  <2>1. conn' = [conn EXCEPT ![s] = CloseNow(conn[s])]
    BY <1>4 DEF AcceptLost, CloseConnNow
  <2>2. Follows(conn[s], CloseNow(conn[s]))
    BY <1>1, CloseNowGood DEF Good
  <2>3. Turn(conn[s], CloseNow(conn[s]))
    BY <1>1, <2>2, TurnFollows
  <2>4. QED
    BY <1>1, <2>1, <2>3, OneLife
<1>5. ASSUME NEW s \in Sockets, DelTreated(s)
      PROVE  [Lives!LifeNext]_lives
  <2> DEFINE d == [conn[s] EXCEPT !.ok = FALSE]
  <2>1. conn' = [conn EXCEPT ![s] = d] /\ conn[s].listed
    BY <1>5, SocketsTyped DEF DelTreated, IInv, Treatment
  <2>2. d.listed /\ ~d.ok
    BY <1>1, <2>1, MarkedGood
  <2> HIDE DEF d
  <2>3. Turn(conn[s], d)
    BY <2>1, <2>2, TurnDead
  <2>4. QED
    BY <1>1, <2>1, <2>3, OneLife
<1>6. ASSUME NEW s \in Sockets, NEW n \in Sizes, NEW flush \in BOOLEAN,
             NEW k \in Kernel(Pending(s) + n), SendTo(s, n, flush, k)
      PROVE  [Lives!LifeNext]_lives
  <2>1. conn' = [conn EXCEPT ![s] = Send(conn[s], n, flush, k)] /\ conn[s].listed /\ n \in Nat
    BY <1>6, LoopAssumption DEF SendTo, Handling
  <2>2. Follows(conn[s], Send(conn[s], n, flush, k))
    BY <1>1, <2>1, SendGood DEF Pending
  <2>3. Turn(conn[s], Send(conn[s], n, flush, k))
    BY <1>1, <2>2, TurnFollows
  <2>4. QED
    BY <1>1, <2>1, <2>3, OneLife
<1>7. ASSUME NEW s \in Sockets, NEW n \in Sizes \cup {0}, NEW wait \in BOOLEAN,
             NEW k \in Kernel(Pending(s) + n), CloseConnNice(s, wait, n, k)
      PROVE  [Lives!LifeNext]_lives
  <2>1. conn' = [conn EXCEPT ![s] = CloseNice(conn[s], wait, n, k)] /\ conn[s].listed /\ n \in Nat
    BY <1>7, LoopAssumption DEF CloseConnNice, Handling
  <2>2. Follows(conn[s], CloseNice(conn[s], wait, n, k))
    BY <1>1, <2>1, CloseNiceGood DEF Pending
  <2>3. Turn(conn[s], CloseNice(conn[s], wait, n, k))
    BY <1>1, <2>2, TurnFollows
  <2>4. QED
    BY <1>1, <2>1, <2>3, OneLife
<1>8. QED
  BY <1>2, <1>3, <1>4, <1>5, <1>6, <1>7 DEF Handle

(* The loop itself *)
LEMMA SameLives ==
    ASSUME \A s \in Sockets : Life(conn'[s]) = Life(conn[s])
    PROVE  [Lives!LifeNext]_lives
BY DEF lives, Sockets

LEMMA VisitLives ==
    ASSUME IInv, NEW s \in Sockets, NEW a \in SUBSET Events,
           TreatNoInput(s, a) \/ TreatClosing(s, a) \/ TreatHangUp(s, a) \/ TreatInput(s, a)
    PROVE  [Lives!LifeNext]_lives
<1>1. conn \in [Sockets -> Slots] /\ Good(conn[s]) /\ conn[s].listed
  BY DEF IInv, TypeOK, TreatNoInput, TreatClosing, TreatHangUp, TreatInput, Visit, Free
<1>2. CASE TreatNoInput(s, a) \/ TreatInput(s, a)
  BY <1>2, SameLives DEF TreatNoInput, TreatInput
<1>3. CASE TreatClosing(s, a)
  <2> DEFINE d == [conn[s] EXCEPT !.ok = FALSE]
  <2>1. conn' = [conn EXCEPT ![s] = d]
    BY <1>3 DEF TreatClosing
  <2>2. d.listed /\ ~d.ok
    BY <1>1, MarkedGood
  <2> HIDE DEF d
  <2>3. Turn(conn[s], d)
    BY <1>1, <2>2, TurnDead
  <2>4. QED
    BY <1>1, <2>1, <2>3, OneLife
<1>4. CASE TreatHangUp(s, a)
  <2>1. conn' = [conn EXCEPT ![s] = CloseNow(conn[s])]
    BY <1>4 DEF TreatHangUp
  <2>2. Follows(conn[s], CloseNow(conn[s]))
    BY <1>1, CloseNowGood DEF Good
  <2>3. Turn(conn[s], CloseNow(conn[s]))
    BY <1>1, <2>2, TurnFollows
  <2>4. QED
    BY <1>1, <2>1, <2>3, OneLife
<1>5. QED
  BY <1>2, <1>3, <1>4

LEMMA EndTreatLives ==
    ASSUME IInv, NEW s \in Sockets, NEW k \in Kernel(Pending(s)), EndTreat(s, k)
    PROVE  [Lives!LifeNext]_lives
<1> DEFINE c == conn[s]
<1>1. conn \in [Sockets -> Slots] /\ Good(c) /\ c.listed
  BY SocketsTyped DEF EndTreat, IInv, TypeOK, Treatment
<1>2. conn' = [conn EXCEPT ![s] = Treated(c, k)]
  BY DEF EndTreat
<1>3. Treated(c, k) \in {Empty, c} \/ (c.ok /\ Treated(c, k) = Flush(c, k))
  BY DEF Treated, DelConn
<1>4. Turn(c, Treated(c, k))
  <2>1. c.ok => Follows(c, Flush(c, k))
    BY <1>1, FlushGood DEF Pending
  <2>2. (c.ok => Turn(c, Flush(c, k))) /\ Turn(c, Empty) /\ Turn(c, c)
    BY <1>1, <2>1, TurnFollows, TurnDead, EmptyGood DEF Turn
  <2>3. QED
    BY <1>3, <2>2
<1>5. QED
  BY <1>1, <1>2, <1>4, OneLife

LEMMA RunTimerLives ==
    ASSUME IInv, NEW s \in Sockets, NEW k \in Kernel(Pending(s)), RunTimer(s, k)
    PROVE  [Lives!LifeNext]_lives
<1> DEFINE c == conn[s]
           d == IF c.ok THEN OnTimerBase(c, k) ELSE c
<1>1. conn \in [Sockets -> Slots] /\ Good(c)
  BY DEF IInv, TypeOK
<1>2. conn' = [conn EXCEPT ![s] = d]
  BY DEF RunTimer
<1>3. Turn(c, d)
  <2>1. CASE c.ok
    <3>1. c.listed
      BY <1>1, <2>1 DEF Good, Clean
    <3>2. Follows(c, OnTimerBase(c, k))
      BY <1>1, <2>1, <3>1, OnTimerBaseGood DEF Pending
    <3>3. QED
      BY <1>1, <2>1, <3>2, TurnFollows
  <2>2. CASE ~c.ok
    BY <2>2 DEF Turn
  <2>3. QED
    BY <2>1, <2>2
<1> HIDE DEF d
<1>4. QED
  BY <1>1, <1>2, <1>3, OneLife

LEMMA RoundLives ==
    ASSUME IInv, Choose \/ Idle \/ NoTimer \/ ServerTimer \/ ConnTimer
    PROVE  [Lives!LifeNext]_lives
<1>1. conn \in [Sockets -> Slots]
  BY DEF IInv, TypeOK
<1>2. ASSUME NEW s \in Sockets
      PROVE  /\ conn'[s].listed = conn[s].listed
             /\ conn'[s].ok = conn[s].ok
             /\ conn'[s].writable = conn[s].writable
  <2>1. CASE Choose
    <3>1. PICK late : conn' = [t \in Sockets |-> [Later(late)[t] EXCEPT !.revents = Polled(conn[t])]]
      BY <2>1 DEF Choose
    <3>2. PICK e : Later(late)[s] = [conn[s] EXCEPT !.due = e]
      BY DEF Later
    <3>3. conn'[s] = [[conn[s] EXCEPT !.due = e] EXCEPT !.revents = Polled(conn[s])]
      BY <3>1, <3>2
    <3>4. QED
      BY <1>1, <3>3 DEF Slots
  <2>2. CASE Idle
    BY <1>1, <2>2 DEF Idle, Later, Slots
  <2>3. CASE NoTimer \/ ServerTimer \/ ConnTimer
    BY <1>1, <2>3 DEF NoTimer, ServerTimer, ConnTimer, Forgotten, Slots
  <2>4. QED
    BY <2>1, <2>2, <2>3
<1>3. QED
  BY <1>2, SameLives DEF Life

(* KeepsLife: closing is final; a connection is open, then closing or dead, then deleted, and its
   descriptor is used again only after that. *)
THEOREM LifeIsKept == Spec => KeepsLife
<1>1. Init => Lives!LifeInit
  <2> SUFFICES ASSUME Init
               PROVE  Lives!LifeInit
    OBVIOUS
  <2>1. \A s \in Sockets : Life(conn[s]) = "free"
    BY EmptyGood DEF Init, Life
  <2>2. QED
    BY <2>1 DEF Lives!LifeInit
<1>2. IInv /\ [Next]_vars => [Lives!LifeNext]_lives
  <2> SUFFICES ASSUME IInv, [Next]_vars
               PROVE  [Lives!LifeNext]_lives
    OBVIOUS
  <2>1. CASE conn' = conn
    BY <2>1, SameLives
  <2>2. CASE Handle
    BY <2>2, HandleLives
  <2>3. CASE Choose \/ Idle \/ NoTimer \/ ServerTimer \/ ConnTimer
    BY <2>3, RoundLives
  <2>4. CASE EndListen \/ EndInput \/ EndTimer \/ \E s \in Sockets : Pass(s)
    BY <2>1, <2>4 DEF EndListen, EndInput, EndTimer, Pass
  <2>5. CASE \E s \in Sockets : \E a \in SUBSET Events :
               TreatNoInput(s, a) \/ TreatClosing(s, a) \/ TreatHangUp(s, a) \/ TreatInput(s, a)
    BY <2>5, VisitLives
  <2>6. CASE \E s \in Sockets : \E k \in Kernel(Pending(s)) : EndTreat(s, k) \/ RunTimer(s, k)
    BY <2>6, EndTreatLives, RunTimerLives
  <2>7. QED
    BY <2>1, <2>2, <2>3, <2>4, <2>5, <2>6 DEF Next, Advance, vars
<1>3. QED
  BY <1>1, <1>2, SlotsSound, PTL DEF Spec, KeepsLife, Lives!LifeSpec, lives

=============================================================================
