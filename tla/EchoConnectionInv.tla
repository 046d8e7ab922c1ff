-------------------------- MODULE EchoConnectionInv --------------------------
(***************************************************************************)
(* The inductive invariant behind the safety properties of EchoConnection. *)
(***************************************************************************)
EXTENDS EchoConnection

(* The checks that can fail.                                               *)
Failures ==
    {"initiate_disconnection", "initiate_put", "AcceptEx",
     "full_duplex: timeout", "disconnecting", "abort_accept"}

Buffers == [base : Nat, bytes : Seq(Nat)]
Notification == [request : Bits, size : 0..MaxBytes, bad : BOOLEAN]

Connections ==
    [state : States, active : SUBSET Bits, pool : Pools,
     getBuffer : Buffers, putBuffer : Buffers, getAt : Buffers, putAt : Buffers,
     timer : {"off", "running"}, timerReady : BOOLEAN,
     inflight : SUBSET (Bits \ {"GTO"}), socket : {"idle", "connected"},
     port : Seq(Notification),
     received : 0..MaxBytes, taken : 0..MaxBytes, wire : Seq(Nat),
     closed : BOOLEAN, broken : {""} \cup Failures]

(* The kinds of requests whose notifications are queued.                   *)
Kinds(q) == {q[i].request : i \in DOMAIN q}

(* At most one notification of each kind, of a request that has completed. *)
PortInv(c) ==
    /\ \A i, j \in DOMAIN c.port : c.port[i].request = c.port[j].request => i = j
    /\ Kinds(c.port) \cap c.inflight = {}

(* The bits of gets, puts and disconnects are exact.                       *)
BitInv(c) ==
    \A k \in {"GET", "PUT", "DEL"} :
        k \in c.active <=> k \in c.inflight \cup Kinds(c.port)

(* The timer's bit is set while it runs and until its expiry is dispatched,*)
(* unless it is stopped too late: then its notification is the next one,   *)
(* and comes while a get is pending.                                       *)
TimerInv(c) ==
    /\ c.timer = "running" =>
          "GTO" \in c.active /\ ~c.timerReady /\ "GTO" \notin Kinds(c.port)
    /\ "GTO" \in c.active =>
          c.timer = "running" \/ "GTO" \in Kinds(c.port)
    /\ "GTO" \in Kinds(c.port) => c.timerReady
    /\ "GTO" \in Kinds(c.port) /\ "GTO" \notin c.active =>
          /\ c.state = "full_duplex" /\ "GET" \in c.active
          /\ Head(c.port).request = "GTO"

(* A get is always for the whole of an empty buffer.                       *)
BufferInv(c) ==
    /\ c.getBuffer.base + Len(c.getBuffer.bytes) <= BufferSize
    /\ c.putBuffer.base + Len(c.putBuffer.bytes) <= BufferSize
    /\ "GET" \in c.active => c.getBuffer = NoBytes /\ c.getAt = NoBytes
    /\ "PUT" \in c.active => c.putAt = c.putBuffer

(* What the peer has sent was taken by the connection or is on its way.    *)
NoteInv(c) ==
    /\ c.taken <= c.received
    /\ \A n \in ToSet(c.port) :
          /\ n.bad => n.size = 0
          /\ n.request \in {"NEW", "GET"} =>
                n.size <= BufferSize /\ c.taken + n.size <= c.received
          /\ n.request = "PUT" => n.size <= Len(c.putBuffer.bytes)

(* Of the bytes in the put buffer the first `sent' are on the wire; the    *)
(* others, and then those in the get buffer, are all that follows.         *)
Stream(c, sent) ==
    LET from == Len(c.wire) - sent IN
    /\ sent <= Len(c.putBuffer.bytes)
    /\ from + Len(c.putBuffer.bytes) + Len(c.getBuffer.bytes) = c.taken
    /\ \A i \in DOMAIN c.putBuffer.bytes : c.putBuffer.bytes[i] = from + i
    /\ \A i \in DOMAIN c.getBuffer.bytes :
           c.getBuffer.bytes[i] = from + Len(c.putBuffer.bytes) + i

StreamInv(c) ==
    /\ Len(c.wire) <= c.taken
    /\ \A i \in DOMAIN c.wire : c.wire[i] = i
    /\ c.state = "full_duplex" \/ "PUT" \in c.inflight =>
          /\ "PUT" \notin Kinds(c.port) => Stream(c, 0)
          /\ \A n \in ToSet(c.port) : n.request = "PUT" => Stream(c, n.size)

(* An accept that is pending is all there is.                              *)
Disconnected(c) ==
    /\ c.active = {} \/ (c.active = {"NEW"} /\ c.pool = "listen")
    /\ "NEW" \in c.active <=> "NEW" \in c.inflight \cup Kinds(c.port)
    /\ Kinds(c.port) \subseteq {"NEW"}
    /\ "NEW" \in c.active =>
          /\ c.getBuffer = NoBytes /\ c.putBuffer = NoBytes
          /\ c.taken = 0 /\ c.wire = <<>>

(* A put is active as long as there is something to put; a get, unless the *)
(* get buffer is waiting for its turn, or the stream has ended.            *)
FullDuplex(c) ==
    /\ c.active \subseteq {"GET", "GTO", "PUT"}
    /\ "GET" \in c.active \/ "PUT" \in c.active
    /\ "PUT" \notin c.active => c.putBuffer.bytes = <<>>
    /\ "GTO" \in c.active => "GET" \in c.active
    /\ "NEW" \notin c.inflight \cup Kinds(c.port)

(* The notification of an accept that was aborted comes first.             *)
Disconnecting(c) ==
    /\ "NEW" \notin c.active \cup c.inflight
    /\ c.active # {}
    /\ "NEW" \in Kinds(c.port) =>
          Head(c.port).request = "NEW" /\ c.active = {"DEL"}

(* The connection exhausts nothing: when a get comes back empty, either a  *)
(* put is active, and the process ends, or nothing is left to put.         *)
StateInv(c) ==
    /\ c.state # "exhausting"
    /\ c.state = "disconnected" => Disconnected(c)
    /\ c.state = "full_duplex" => FullDuplex(c)
    /\ c.state = "disconnecting" => Disconnecting(c)
    /\ c.pool = "unused" => c.state = "disconnected" /\ c.active = {}

Sane(c) ==
    /\ PortInv(c) /\ BitInv(c) /\ TimerInv(c)
    /\ BufferInv(c) /\ NoteInv(c) /\ StreamInv(c)
    /\ StateInv(c)

EchoInv == conn \in Connections /\ (Running => Sane(conn))
=============================================================================
