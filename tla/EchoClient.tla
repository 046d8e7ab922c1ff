----------------------------- MODULE EchoClient -----------------------------
(***************************************************************************)
(* A thread of demo/echo-client.cpp against a Connection of                *)
(* demo/echo-server.cpp: client_thread() connects, puts its whole payload, *)
(* gets as much, compares, resets the TCP connection and starts over.  The *)
(* same Connection serves it every time.                                   *)
(*                                                                         *)
(* EchoConnection lets the peer and the kernel do anything.  Here they do  *)
(* what this client makes them do, through a network that holds a bounded  *)
(* number of bytes in each direction.  The client sends at once and reads  *)
(* as soon as it has sent, so that neither of the server's timeouts (5 and *)
(* 15 seconds) is in play.                                                 *)
(***************************************************************************)
EXTENDS EchoConnection

CONSTANTS
    Iterations,  \* Settings::iterations()
    Inbound,     \* bytes the network holds on the way to the server
    Outbound,    \* ... and on the way back
    PutsAll      \* Stream::put() never returns early

ASSUME ClientAssumption ==
    /\ Iterations \in Nat \ {0}
    /\ Inbound \in Nat \ {0} /\ Outbound \in Nat \ {0}
    /\ PutsAll \in BOOLEAN

VARIABLES
    client,   \* where client_thread() stands
    streams,  \* the TCP connection of each iteration
    served    \* the one the server has accepted last

vars == <<conn, client, streams, served>>

(* The payload; MaxBytes bounds what a peer sends.                         *)
size == MaxBytes

(* sent, got: bytes the client has put and read; gone: how it has closed.  *)
NewStream == [sent |-> 0, got |-> 0, gone |-> ""]

Mine == streams[client.round]
Theirs == streams[served]
Served == served = client.round

(* Bytes on their way to the client.                                       *)
ToClient == IF Served THEN Len(conn.wire) - Mine.got ELSE 0

----------------------------------------------------------------------------
(* client_thread().                                                        *)

(* The constructor of the stream: the listener's backlog takes it.         *)
ClientConnect ==
    /\ client.at = "connect"
    /\ client' = [client EXCEPT !.at = "put"]
    /\ UNCHANGED <<conn, streams, served>>

Leave(round, error) ==
    [client EXCEPT !.at = IF error # "" \/ round > Iterations THEN "exited" ELSE "connect",
                   !.round = IF round > Iterations THEN @ ELSE round,
                   !.error = error]

(* The network takes some bytes.                                           *)
ClientPut ==
    /\ client.at = "put" /\ Mine.sent < size
    /\ \E n \in 1..(size - Mine.sent) :
        /\ Mine.sent - (IF Served THEN conn.received ELSE 0) + n <= Inbound
        /\ streams' = [streams EXCEPT ![client.round].sent = @ + n]
    /\ UNCHANGED <<conn, client, served>>

(* put() returns.  `pass' is 0 all along, so that it is called only once;  *)
(* if that was not enough the stream is closed.                            *)
ClientPutReturns ==
    /\ client.at = "put" /\ Mine.sent > 0
    /\ IF Mine.sent = size
       THEN client' = [client EXCEPT !.at = "get"] /\ UNCHANGED streams
       ELSE /\ ~PutsAll
            /\ client' = Leave(client.round, "could not send everything.")
            /\ \E gone \in {"fin", "rst"} :
                   streams' = [streams EXCEPT ![client.round].gone = gone]
    /\ UNCHANGED <<conn, served>>

(* Mutant: the loop ends after the first get.                              *)
ClientGet_Once ==
    /\ client.at = "get" /\ Mine.got = 0
    /\ \E n \in 1..ToClient :
        streams' = [streams EXCEPT ![client.round].got = @ + n]
    /\ UNCHANGED <<conn, client, served>>

ClientGet ==
    /\ client.at = "get" /\ Mine.got < size
    /\ \E n \in 1..ToClient :
        streams' = [streams EXCEPT ![client.round].got = @ + n]
    /\ UNCHANGED <<conn, client, served>>

(* The loop of gets ends: with everything, or because the server has       *)
(* disconnected.  The copy is compared with the data.                      *)
ClientCompares ==
    LET gone == Served /\ conn.socket = "idle" /\ ToClient = 0 IN
    /\ client.at = "get" /\ (Mine.got = size \/ gone)
    /\ LET error == IF Mine.got < size THEN "could not read everything."
                    ELSE IF \E i \in 1..size : conn.wire[i] # i
                         THEN "received incoherent data." ELSE ""
       IN /\ client' = Leave(client.round + 1, error)
          /\ streams' = [streams EXCEPT ![client.round].gone =
                             IF error = "" THEN "rst" ELSE "fin"]
    /\ UNCHANGED <<conn, served>>

Client ==
    ClientConnect \/ ClientPut \/ ClientPutReturns \/ ClientGet \/ ClientCompares

----------------------------------------------------------------------------
(* The server, and what the kernel does for it.                            *)

Listens == client.at # "connect" /\ ~Served

(* A waiting client is accepted.                                           *)
ServerConnect ==
    /\ Listens /\ Connect
    /\ served' = client.round
    /\ UNCHANGED <<client, streams>>

(* The accept watcher fires only for a client that waits.                  *)
ServerAccepts ==
    /\ Listens /\ StartAccept
    /\ UNCHANGED <<client, streams, served>>

(* What a get or an accept may give: bytes that were sent, and nothing only*)
(* after the client has closed.  A reset makes it fail.                    *)
Given ==
    /\ conn'.received <= Theirs.sent
    /\ conn'.closed /\ ~conn.closed =>
           Theirs.gone # "" /\ conn.received = Theirs.sent

ServerNotify ==
    /\ Notify /\ Given
    /\ UNCHANGED <<client, streams, served>>

ServerAccepted ==
    /\ CompleteAccept /\ Given
    /\ conn'.received = 0 => Theirs.gone # "" /\ Theirs.sent = 0
    /\ ~Last(conn'.port).bad
    /\ UNCHANGED <<client, streams, served>>

ServerGets ==
    /\ CompleteGet /\ Given
    /\ Last(conn'.port).bad <=> conn'.closed /\ Theirs.gone = "rst"
    /\ UNCHANGED <<client, streams, served>>

(* The network takes all of a put, as soon as there is room (if there ever *)
(* is: a put is of up to BufferSize bytes); the put fails when the client  *)
(* is gone.                                                                *)
ServerPuts ==
    /\ CompletePut
    /\ IF Last(conn'.port).size = 0 THEN Theirs.gone # ""
       ELSE /\ Last(conn'.port).size = Len(conn.putAt.bytes)
            /\ Len(conn'.wire) - Theirs.got <= Outbound
    /\ UNCHANGED <<client, streams, served>>

ServerDisconnects ==
    /\ CompleteDisconnect
    /\ UNCHANGED <<client, streams, served>>

Server ==
    \/ ServerConnect \/ ServerAccepts \/ ServerNotify \/ ServerAccepted
    \/ ServerGets \/ ServerPuts \/ ServerDisconnects

----------------------------------------------------------------------------

ClientInit ==
    /\ Init
    /\ client = [at |-> "connect", round |-> 1, error |-> ""]
    /\ streams = [i \in 1..Iterations |-> NewStream]
    /\ served = 0

ClientNext == Client \/ Server

(* Fairness: the client's thread runs, the server's loop dispatches, and   *)
(* the kernel does what it can.  No put has to return early.               *)
ClientFairness ==
    /\ WF_vars(ClientConnect) /\ WF_vars(ClientPut)
    /\ WF_vars(ClientPutReturns /\ Mine.sent = size)
    /\ WF_vars(ClientGet) /\ WF_vars(ClientCompares)
    /\ WF_vars(ServerNotify) /\ WF_vars(ServerConnect) /\ WF_vars(ServerAccepts)
    /\ WF_vars(ServerAccepted) /\ WF_vars(ServerGets) /\ WF_vars(ServerPuts)
    /\ WF_vars(ServerDisconnects)

ClientSpec == ClientInit /\ [][ClientNext]_vars /\ ClientFairness

----------------------------------------------------------------------------
(* Properties.                                                             *)

(* With this client, as long as its puts are complete, no sanity check of  *)
(* the server ever fails (echo-server.cpp:249-768): not the six that other *)
(* peers can make fail, either.                                            *)
OwnClientIsSafe ==
    client.error # "could not send everything." => Running

(* The client gets an exact copy, iteration after iteration: the recycled  *)
(* connection keeps nothing of the one before (echo-client.cpp:117-125).   *)
CopyIsExact == client.error \in {"", "could not send everything."}

(* The client finishes its iterations, although it reads nothing before it *)
(* has sent everything (echo-client.cpp:83-138).                           *)
ClientFinishes == <>(client.at = "exited")
=============================================================================
