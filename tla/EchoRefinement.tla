--------------------------- MODULE EchoRefinement ---------------------------
(* EchoConnection implements ConnectionLife, as long as no sanity check    *)
(* has ended the process.                                                  *)
EXTENDS EchoConnection, FiniteSets

L == INSTANCE ConnectionLife WITH MaxIo <- 3

Phase ==
    CASE conn.state = "disconnected" ->
            IF "NEW" \in conn.active THEN "accept" ELSE "idle"
      [] conn.state = "disconnecting" -> "closing"
      [] OTHER -> "open"

IoRequests == {"GET", "GTO", "PUT"}

(* Everything that the kernel, a timer or the port still has.              *)
lifeBar ==
    [phase |-> Phase, pool |-> conn.pool,
     io |-> Cardinality(conn.inflight \cap IoRequests)
            + Cardinality(UNION {Posted(k) : k \in IoRequests})
            + IF conn.timer = "running" THEN 1 ELSE 0,
     new |-> Outstanding("NEW"), del |-> Outstanding("DEL")]

(* A connection goes through the phases that ConnectionLife allows, with   *)
(* something outstanding whenever it is not idle: the service task never   *)
(* waits for a connection that nothing is going to notify                  *)
(* (echo-server.cpp:585-784).                                              *)
ImplementsLife ==
    /\ lifeBar = L!Accepting(L!Unborn)
    /\ [][Running' => L!LifeStep(lifeBar, lifeBar')]_lifeBar
=============================================================================
