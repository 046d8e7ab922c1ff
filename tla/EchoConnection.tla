--------------------------- MODULE EchoConnection ---------------------------
(***************************************************************************)
(* demo/echo-server.cpp: one Connection, and what ServiceTask::run() does  *)
(* with it.  The Connection is a state machine driven by notifications; up *)
(* to one accept, disconnect, get, get timeout and put is active at a time,*)
(* and myActiveRequests keeps count of them.                               *)
(*                                                                         *)
(* A handler of the code runs from a notification to its return without    *)
(* giving up control, so it is one step here.  It is written as a chain of *)
(* operators, one per method, each of which takes the connection and       *)
(* returns it changed.  ::DebugBreak() ends the process: `broken' then     *)
(* names the method whose sanity check failed and nothing happens any more.*)
(*                                                                         *)
(* The kernel and the peer are external: they complete what is in flight   *)
(* in any order, with any result.  Notifications reach the connection in   *)
(* the order they were posted.                                             *)
(***************************************************************************)
EXTENDS SequencesExt

CONSTANTS
    BufferSize,   \* capacity of the two buffers
    MaxBytes      \* bound on the bytes a peer sends over one TCP connection

ASSUME EchoAssumption == BufferSize \in Nat \ {0} /\ MaxBytes \in Nat

VARIABLE conn

Bits == {"NEW", "DEL", "GET", "GTO", "PUT"}
States == {"disconnected", "full_duplex", "exhausting", "disconnecting"}
Pools == {"listen", "active", "unused"}

(* A get that does not complete at once.                                   *)
NotYet == MaxBytes + 1

Note(k, n, bad) == [request |-> k, size |-> n, bad |-> bad]
Post(c, k, n, bad) == [c EXCEPT !.port = Append(@, Note(k, n, bad))]

(* A sanity check and its ::DebugBreak().                                  *)
Check(c, ok, site) ==
    IF ok \/ c.broken # "" THEN c ELSE [c EXCEPT !.broken = site]

----------------------------------------------------------------------------
(* The two buffers: the bytes in use, and how far myBase has moved.        *)

NoBytes == [base |-> 0, bytes |-> <<>>]

gsize(b) == BufferSize - b.base - Len(b.bytes)
pused(b, n) == [base |-> b.base + n, bytes |-> SubSeq(b.bytes, n + 1, Len(b.bytes))]
pack(b) == [b EXCEPT !.base = 0]
pdone(b) == b.bytes = <<>>

(* Bytes are numbered in the order in which the peer sends them.           *)
gused(c, n) ==
    [c EXCEPT !.getBuffer.bytes = @ \o [i \in 1..n |-> c.taken + i],
              !.taken = @ + n]

SwapBuffers(c) ==
    [c EXCEPT !.getBuffer = c.putBuffer, !.putBuffer = c.getBuffer]

(* Mutant: the space of what was sent is not reclaimed.                    *)
SwapAndPack_Unpacked(c) == SwapBuffers(c)

SwapAndPack(c) == [SwapBuffers(c) EXCEPT !.getBuffer = pack(@)]

----------------------------------------------------------------------------
(* The requests.                                                           *)

(* TimeRequest::start(), abort() and reset().                              *)
StartTimer(c) == [c EXCEPT !.timer = "running", !.timerReady = FALSE]
AbortTimer(c) == [c EXCEPT !.timer = "off"]
ResetTimer(c) == [c EXCEPT !.timerReady = TRUE]

(* SocketGetRequest::start(): pending, or completed at once, in which case *)
(* a notification comes all the same.                                      *)
StartGet(c, got) ==
    LET d == [c EXCEPT !.getAt = c.getBuffer] IN
    IF got = NotYet
    THEN [d EXCEPT !.inflight = @ \cup {"GET"}]
    ELSE Post([d EXCEPT !.received = @ + got, !.closed = @ \/ got = 0],
              "GET", got, got = 0)

StartPut(c) ==
    [c EXCEPT !.inflight = @ \cup {"PUT"}, !.putAt = c.putBuffer]

initiate_disconnection(c) ==
    LET d == Check(c, "DEL" \notin c.active, "initiate_disconnection") IN
    [d EXCEPT !.inflight = @ \cup {"DEL"},
              !.active = @ \cup {"DEL"},
              !.state = "disconnecting"]

(* The timeout is started unless the get has completed already.            *)
initiate_get(c, got) ==
    LET d == Check(Check(c, "GET" \notin c.active, "initiate_get"),
                   gsize(c.getBuffer) > 0, "initiate_get: full")
        e == [StartGet(d, got) EXCEPT !.active = @ \cup {"GET"}]
    IN IF got = NotYet
       THEN [StartTimer(e) EXCEPT !.active = @ \cup {"GTO"}]
       ELSE e

initiate_put(c) ==
    LET d == Check(Check(c, "PUT" \notin c.active, "initiate_put"),
                   ~pdone(c.putBuffer), "initiate_put: empty")
    IN [StartPut(d) EXCEPT !.active = @ \cup {"PUT"}]

(* SocketGetRequest::result() and its likes.                               *)
Transferred(n) == IF n.bad THEN 0 ELSE n.size

(* Mutant: the received bytes go on the wire without looking whether some  *)
(* are left in the put buffer.                                             *)
GotBytes_SwapAlways(c, got) ==
    IF "PUT" \in c.active THEN SwapAndPack(c)
    ELSE initiate_put(initiate_get(SwapAndPack(c), got))

(* complete_get(), bytes were received: put them, unless a put is going on.*)
GotBytes(c, got) ==
    IF "PUT" \in c.active THEN c
    ELSE initiate_put(IF pdone(c.putBuffer)
                      THEN initiate_get(SwapAndPack(c), got) ELSE c)

(* complete_get(), the stream has ended.                                   *)
GotNothing(c, eof) ==
    IF ~eof /\ ~pdone(c.putBuffer)
    THEN [initiate_put(c) EXCEPT !.state = "exhausting"]
    ELSE c

(* complete_get(), last part: stop the timer.                              *)
StopTimer(c) ==
    LET d == AbortTimer(c) IN
    IF "GTO" \notin c.active THEN c
    ELSE IF d.timerReady THEN [d EXCEPT !.state = "disconnecting"]
    ELSE [ResetTimer(d) EXCEPT !.active = @ \ {"GTO"}]

(* Mutant: the GET bit stays set.                                          *)
complete_get_BitStays(c, n, got) ==
    LET x == Transferred(n)
        d == Check(Check(c, "GET" \in c.active, "complete_get"),
                   "GET" \notin c.inflight, "complete_get: not ready")
    IN StopTimer(IF x > 0 THEN GotBytes(gused(d, x), got)
                 ELSE GotNothing(d, n.bad))

complete_get(c, n, got) ==
    LET x == Transferred(n)
        d == Check(Check(c, "GET" \in c.active, "complete_get"),
                   "GET" \notin c.inflight, "complete_get: not ready")
        e == [d EXCEPT !.active = @ \ {"GET"}]
    IN StopTimer(IF x > 0 THEN GotBytes(gused(e, x), got)
                 ELSE GotNothing(e, n.bad))

(* complete_put(): go on with the rest, or with what was received since.   *)
PutBytes(c, got) ==
    IF ~pdone(c.putBuffer) THEN initiate_put(c)
    ELSE IF ~pdone(c.getBuffer) /\ "GET" \notin c.active
         THEN initiate_get(SwapAndPack(c), got)
         ELSE c

(* Mutant: the put buffer does not advance.                                *)
complete_put_Repeat(c, n, got) ==
    LET d == Check(Check(c, "PUT" \in c.active, "complete_put"),
                   "PUT" \notin c.inflight, "complete_put: not ready")
        e == [d EXCEPT !.active = @ \ {"PUT"}]
    IN IF Transferred(n) = Len(c.putBuffer.bytes)
       THEN PutBytes([e EXCEPT !.putBuffer = pused(@, Transferred(n))], got)
       ELSE initiate_put(e)

complete_put(c, n, got) ==
    LET x == Transferred(n)
        d == Check(Check(c, "PUT" \in c.active, "complete_put"),
                   "PUT" \notin c.inflight, "complete_put: not ready")
        e == [d EXCEPT !.active = @ \ {"PUT"}]
        f == IF x > 0
             THEN PutBytes([e EXCEPT !.putBuffer = pused(@, x)], got)
             ELSE initiate_disconnection(e)
    IN IF "DEL" \notin f.active /\ ~pdone(f.putBuffer)
       THEN initiate_put(f) ELSE f

----------------------------------------------------------------------------
(* The states: how each one takes a notification.                          *)

(* The accept request has completed: echo what came with it, and read on.  *)
Accepted(c, n, got) ==
    LET d == SwapBuffers(gused(c, n.size))
        e == initiate_get([d EXCEPT !.state = "full_duplex"], got)
    IN IF pdone(e.putBuffer) THEN e ELSE initiate_put(e)

disconnected(c, n, got) ==
    LET d == Check(c, c.active \subseteq {"NEW"}, "disconnected")
        e == [d EXCEPT !.active = @ \ {"NEW"}]
    IN IF n.request # "NEW" THEN d
       ELSE IF n.bad THEN initiate_disconnection(e)
       ELSE Accepted(e, n, got)

(* Mutant: PUT is missing from the requests to wait for.                   *)
disconnecting_Hasty(c, n) ==
    LET d == Check(c, "GET" \notin c.active, "disconnecting")
        e == [d EXCEPT !.active = @ \ ({n.request} \ {"GET"})]
        f == IF n.request = "GTO" THEN ResetTimer(e) ELSE e
    IN IF f.active \subseteq {"GET", "PUT"}
       THEN [f EXCEPT !.state = "disconnected"] ELSE f

(* Wait for whatever is still active.                                      *)
disconnecting(c, n) ==
    LET d == Check(c, "GET" \notin c.active, "disconnecting")
        e == [d EXCEPT !.active = @ \ ({n.request} \ {"GET"})]
        f == IF n.request = "GTO" THEN ResetTimer(e) ELSE e
    IN IF f.active \subseteq {"GET"}
       THEN [f EXCEPT !.state = "disconnected"] ELSE f

exhausting(c, n, got) ==
    LET d == Check(c, c.active \subseteq {"PUT"}, "exhausting")
        e == IF n.request = "PUT" THEN complete_put(d, n, got) ELSE d
    IN IF e.active \subseteq {"PUT"} THEN initiate_disconnection(e) ELSE e

(* Part of full_duplex(): the get timed out.                               *)
TimedOut(c) ==
    LET d == Check([c EXCEPT !.active = @ \ {"GTO"}],
                   c.timerReady, "full_duplex: not ready")
        e == Check(ResetTimer(d), "GET" \notin d.active, "full_duplex: timeout")
    IN initiate_disconnection(e)

(* Mutant: nothing left to do is not noticed.                              *)
full_duplex_Idle(c, n, got) ==
    LET d == Check(c, c.active \subseteq {"GET", "GTO", "PUT"}, "full_duplex")
    IN CASE n.request = "GTO" -> TimedOut(d)
         [] n.request = "GET" -> complete_get(d, n, got)
         [] n.request = "PUT" -> complete_put(d, n, got)
         [] OTHER -> d

full_duplex(c, n, got) ==
    LET d == Check(c, c.active \subseteq {"GET", "GTO", "PUT"}, "full_duplex")
        e == CASE n.request = "GTO" -> TimedOut(d)
               [] n.request = "GET" -> complete_get(d, n, got)
               [] n.request = "PUT" -> complete_put(d, n, got)
               [] OTHER -> d
    IN IF e.active \cap {"GET", "GTO", "PUT"} = {}
       THEN initiate_disconnection(e) ELSE e

process_notification(c, n, got) ==
    LET d == Check(c, c.active # {}, "process_notification") IN
    CASE d.state = "disconnected" -> disconnected(d, n, got)
      [] d.state = "disconnecting" -> disconnecting(d, n)
      [] d.state = "exhausting" -> exhausting(d, n, got)
      [] d.state = "full_duplex" -> full_duplex(d, n, got)

----------------------------------------------------------------------------
(* What ServiceTask::run() does with the connection.                       *)

(* move_connection(): a connection in the wrong set stays there.           *)
Move(c, from, to) == IF c.pool = from THEN [c EXCEPT !.pool = to] ELSE c

Running == conn.broken = ""

(* A notification of the connection is dispatched.                         *)
Notify ==
    /\ Running
    /\ conn.port # <<>>
    /\ \E got \in {NotYet} \cup 0..(MaxBytes - conn.received) :
        LET c == [conn EXCEPT !.port = Tail(@)]
            d == IF c.state = "disconnected" THEN Move(c, "listen", "active")
                 ELSE c
            e == process_notification(d, Head(conn.port), got)
        IN /\ got # NotYet => got <= BufferSize /\ (conn.closed => got = 0)
           /\ conn' = IF e.state = "disconnected"
                      THEN Move(e, "active", "unused") ELSE e

(* The accept watcher has fired: take an unused connection, ...            *)
StartAccept ==
    /\ Running
    /\ conn.pool = "unused"
    /\ LET c == Check(Check(conn, conn.active = {}, "start_accept"),
                      conn.socket = "idle", "AcceptEx") IN
       conn' = [c EXCEPT !.getBuffer = NoBytes, !.putBuffer = NoBytes,
                         !.active = @ \cup {"NEW"},
                         !.inflight = @ \cup {"NEW"},
                         !.pool = "listen",
                         !.received = 0, !.taken = 0, !.wire = <<>>,
                         !.closed = FALSE]

(* ... and abort an accept whose client sends nothing.  CancelIoEx() finds *)
(* the request only if it has not completed; its notification then comes   *)
(* although the bit is cleared.                                            *)
AbortAccept ==
    /\ Running
    /\ conn.pool = "listen" /\ conn.socket = "connected"
    /\ LET c == Check(conn, conn.active = {"NEW"}, "abort_accept")
           d == Post([c EXCEPT !.inflight = @ \ {"NEW"}, !.active = @ \ {"NEW"}],
                     "NEW", 0, TRUE)
       IN conn' = IF "NEW" \in c.inflight THEN initiate_disconnection(d)
                  ELSE Check(c, c.state = "disconnected", "abort_accept: late")

----------------------------------------------------------------------------
(* The kernel and the peer.                                                *)

Finished(k) == [conn EXCEPT !.inflight = @ \ {k}]

(* A client connects.                                                      *)
Connect ==
    /\ Running
    /\ "NEW" \in conn.inflight /\ conn.socket = "idle"
    /\ conn' = [conn EXCEPT !.socket = "connected"]

(* AcceptEx() completes, with the first bytes or with an error.            *)
CompleteAccept ==
    /\ Running
    /\ "NEW" \in conn.inflight /\ conn.socket = "connected"
    /\ \E n \in 0..MaxBytes :
        /\ n <= BufferSize
        /\ \E bad \in {n = 0, FALSE} :
               conn' = Post([Finished("NEW") EXCEPT !.received = n],
                            "NEW", n, bad)

CompleteGet ==
    /\ Running
    /\ "GET" \in conn.inflight
    /\ \E n \in 0..(MaxBytes - conn.received), bad \in BOOLEAN :
        /\ n <= gsize(conn.getAt)
        /\ conn.closed => n = 0
        /\ bad => n = 0
        /\ conn' = Post([Finished("GET") EXCEPT !.received = @ + n,
                                                !.closed = n = 0],
                        "GET", n, bad)

CompletePut ==
    /\ Running
    /\ "PUT" \in conn.inflight
    /\ \E n \in 0..Len(conn.putAt.bytes) :
        conn' = Post([Finished("PUT") EXCEPT
                        !.wire = @ \o SubSeq(conn.putAt.bytes, 1, n)],
                     "PUT", n, n = 0)

CompleteDisconnect ==
    /\ Running
    /\ "DEL" \in conn.inflight
    /\ conn' = Post([Finished("DEL") EXCEPT !.socket = "idle"], "DEL", 0, FALSE)

Expire ==
    /\ Running
    /\ conn.timer = "running"
    /\ conn' = Post([conn EXCEPT !.timer = "off", !.timerReady = TRUE],
                    "GTO", 0, FALSE)

----------------------------------------------------------------------------
(* new_pending_connection().                                               *)
Init ==
    conn = [state |-> "disconnected", active |-> {"NEW"}, pool |-> "listen",
            getBuffer |-> NoBytes, putBuffer |-> NoBytes,
            getAt |-> NoBytes, putAt |-> NoBytes,
            timer |-> "off", timerReady |-> TRUE,
            inflight |-> {"NEW"}, socket |-> "idle", port |-> <<>>,
            received |-> 0, taken |-> 0, wire |-> <<>>, closed |-> FALSE,
            broken |-> ""]

Kernel ==
    \/ CompleteAccept \/ CompleteGet \/ CompletePut
    \/ CompleteDisconnect \/ Expire

Next == Notify \/ StartAccept \/ AbortAccept \/ Connect \/ Kernel

Spec == Init /\ [][Next]_conn

(* Fairness.  Notifications are dispatched; a put is taken by the network, *)
(* a disconnect ends, a timer expires, and a get of a connection that its  *)
(* peer closed completes.                                                  *)
Fairness ==
    /\ WF_conn(Notify)
    /\ WF_conn(CompletePut) /\ WF_conn(CompleteDisconnect) /\ WF_conn(Expire)
    /\ WF_conn(conn.closed /\ CompleteGet)

FairSpec == Spec /\ Fairness

----------------------------------------------------------------------------
(* Properties.                                                             *)

Posted(k) == {i \in DOMAIN conn.port : conn.port[i].request = k}
Outstanding(k) == k \in conn.inflight \/ Posted(k) # {}

(* The connection has its type.                                            *)
TypeOK ==
    /\ conn.state \in States
    /\ conn.active \subseteq Bits
    /\ conn.inflight \subseteq Bits \ {"GTO"}
    /\ conn.pool \in Pools
    /\ \A b \in {conn.getBuffer, conn.putBuffer} :
           Running => b.base + Len(b.bytes) \in 0..BufferSize
    /\ conn.received \in 0..MaxBytes /\ conn.taken \in 0..MaxBytes

(* The server echoes: what went out is a prefix of what came in, in order, *)
(* through any number of swaps, packs and partial operations               *)
(* (echo-server.cpp:423-576).                                              *)
EchoesInOrder ==
    Running => /\ Len(conn.wire) <= conn.received
               /\ \A i \in DOMAIN conn.wire : conn.wire[i] = i

(* A buffer is left alone while the kernel uses it: no swap, pack, reset   *)
(* or insert between the start of a get or put and its notification.       *)
BuffersUntouched ==
    Running =>
        /\ Outstanding("GET") => conn.getBuffer = conn.getAt
        /\ Outstanding("PUT") => conn.putBuffer = conn.putAt

(* myActiveRequests tells the truth about gets, puts and disconnects, and  *)
(* of each at most one is outstanding (echo-server.cpp:175-182).           *)
BitsTellTheTruth ==
    Running => \A k \in {"GET", "PUT", "DEL"} :
        /\ k \in conn.active <=> Outstanding(k)
        /\ Posted(k) # {} => k \notin conn.inflight
        /\ \A i, j \in Posted(k) : i = j

(* Of the sanity checks that end in ::DebugBreak(), those that guard the    *)
(* bits and the kernel's buffers never fail.  Some do fail: the ones of    *)
(* initiate_disconnection(), initiate_put(), full_duplex() for a timeout,  *)
(* disconnecting() and abort_accept(), and AcceptEx() on a socket that is  *)
(* connected (echo-server.cpp:249-768).                                    *)
SanityChecksHold ==
    conn.broken \in {"", "initiate_disconnection", "initiate_put", "AcceptEx",
                     "full_duplex: timeout", "disconnecting", "abort_accept"}

(* A disconnected connection has nothing outstanding but its accept: it is *)
(* safe to use it for another client (echo-server.cpp:700-704).            *)
SafeToReuse ==
    Running /\ conn.state = "disconnected" =>
        \A k \in {"GET", "PUT", "DEL"} : ~Outstanding(k)

(* What a connection keeps true between two notifications, its types, its  *)
(* bits and its requests (echo-server.cpp:362-784).                        *)
ConnectionInv == TypeOK /\ BitsTellTheTruth /\ SafeToReuse

(* Once the peer has closed, the connection ends up disconnected, or the   *)
(* process with it (echo-server.cpp:779-783).                              *)
ClosedIsRecycled ==
    conn.closed /\ Running ~> conn.state = "disconnected" \/ ~Running

Dispatches(k) == Len(conn'.port) < Len(conn.port) /\ Head(conn.port).request = k

(* "We still have data to send," (echo-server.cpp:559): a put that sent    *)
(* part of the buffer is followed by one for the rest.                     *)
PartialPutContinues ==
    [][Dispatches("PUT") /\ Transferred(Head(conn.port)) > 0
          => conn'.broken # "initiate_put"]_conn

(* "we should keep sending whatever has been queued" when the peer shuts   *)
(* down gracefully (echo-server.cpp:459-462).                              *)
HalfCloseKeepsSending ==
    [][Dispatches("GET") /\ Transferred(Head(conn.port)) = 0
          => conn'.broken # "initiate_put"]_conn

(* "Cancel pending get operation." (echo-server.cpp:764): the timeout of a *)
(* get that is pending is handled.                                         *)
TimeoutIsHandled == conn.broken # "full_duplex: timeout"

(* "Don't allow slow writers to hold the connection."                      *)
(* (echo-server.cpp:417): a get that is pending has its timeout running.   *)
GetsHaveTimeouts ==
    Running /\ conn.state = "full_duplex" /\ "GET" \in conn.inflight
        => "GTO" \in conn.active

(* "wait until all async requests complete no matter who sent us here"     *)
(* (echo-server.cpp:639-641).                                              *)
DisconnectingWaitsForAll == conn.broken # "disconnecting"

(* "the disconnection process has completed and our stream is ready to     *)
(* start listening" (echo-server.cpp:643-645).                             *)
DisconnectedIsIdle ==
    Running /\ conn.state = "disconnected" /\ conn.active = {}
        => conn.socket = "idle"

(* "Sanity check" of abort_accept() (echo-server.cpp:277-280).             *)
AcceptAbortedOnce == conn.broken # "abort_accept"

(* "If we cannot abort the timeout, a notification has already been        *)
(* queued" (echo-server.cpp:473-474): when the GTO bit is clear none is.   *)
TimeoutBitIsRight ==
    Running /\ "GTO" \notin conn.active => Posted("GTO") = {}
=============================================================================
