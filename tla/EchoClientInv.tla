---------------------------- MODULE EchoClientInv ----------------------------
(***************************************************************************)
(* The inductive invariant behind the safety properties of EchoClient.     *)
(***************************************************************************)
EXTENDS EchoClient, EchoConnectionInv

Refused == "could not send everything."

ClientTypes ==
    /\ client \in [at : {"connect", "put", "get", "exited"},
                   round : 1..Iterations, error : {"", Refused}]
    /\ streams \in [1..Iterations -> [sent : 0..size, got : 0..size,
                                      gone : {"", "fin", "rst"}]]
    /\ served \in 0..Iterations
    /\ client.error # "" => client.at = "exited"

(* The client has got all that it sent, and has reset the stream.          *)
Complete(s) == s.sent = size /\ s.got = size /\ size > 0 /\ s.gone = "rst"

(* The streams of the iterations before and after, and of this one.        *)
RoundInv ==
    /\ \A i \in 1..Iterations :
          /\ i < client.round => Complete(streams[i])
          /\ i > client.round => streams[i] = NewStream
    /\ client.at = "connect" => Mine = NewStream
    /\ client.at = "put" => Mine.got = 0 /\ Mine.gone = ""
    /\ client.at = "get" => Mine.sent = size /\ size > 0 /\ Mine.gone = ""
    /\ client.at = "exited" => Complete(Mine)

(* The accept waits for a client.                                          *)
Waiting == "NEW" \in conn.inflight /\ conn.socket = "idle"

(* The server serves the client's stream or still the one before.          *)
ServedInv ==
    /\ served \in {client.round - 1, client.round}
    /\ Waiting \/ client.at = "connect" => ~Served
    /\ ~Served => Mine.got = 0
    /\ ~Waiting =>
          /\ served > 0
          /\ Theirs.got <= Len(conn.wire) /\ conn.received <= Theirs.sent
          /\ conn.closed => Theirs.gone # ""

(* No notification is one of a failure, unless the client is gone.         *)
GoodNotes(c) ==
    \A n \in ToSet(c.port) :
        /\ n.request # "GTO"
        /\ n.request = "NEW" => ~n.bad /\ n.size > 0
        /\ n.request = "GET" /\ n.size = 0 => n.bad /\ c.closed
        /\ n.request = "PUT" => n.size = Len(c.putBuffer.bytes)

(* The connection disconnects only when the stream has ended and all of it *)
(* was put; before that it gets, or keeps what it got for the next put.    *)
OwnStates(c) ==
    /\ "PUT" \in c.active => c.putBuffer.bytes # <<>>
    /\ c.state = "full_duplex" =>
          /\ c.socket = "connected"
          /\ "GET" \in c.active \/ c.getBuffer.bytes # <<>> \/ c.closed
    /\ c.state = "disconnecting" =>
          /\ c.active = {"DEL"} /\ c.closed
          /\ "DEL" \notin c.inflight => c.socket = "idle"
    /\ c.state = "disconnected" =>
          /\ c.active = {} => c.closed /\ c.socket = "idle"
          /\ c.active # {} => ~c.closed
          /\ "NEW" \in c.inflight => c.received = 0
          /\ "NEW" \in Kinds(c.port) => c.socket = "connected"

Own(c) == c.broken = "" /\ GoodNotes(c) /\ OwnStates(c)

OwnInv ==
    /\ EchoInv /\ ClientTypes
    /\ client.error = "" => RoundInv /\ ServedInv /\ Own(conn)
=============================================================================
