--------------------------- MODULE ConnectionLife ---------------------------
(***************************************************************************)
(* What a Connection of demo/echo-server.cpp promises the service task,    *)
(* without buffers and bytes: the phases it goes through, the set it is in,*)
(* and the requests whose completions are still to be dispatched to it.    *)
(* EchoConnection implements this (EchoRefinement); EchoServer puts several*)
(* of them under one service task.                                         *)
(***************************************************************************)
EXTENDS Naturals

CONSTANT MaxIo   \* gets, puts and timeouts a connection has outstanding

ASSUME LifeAssumption == MaxIo \in Nat \ {0}

(* Outstanding is a request from its start to the dispatch of its          *)
(* notification: new, the accept; del, the disconnect; io, how many of the *)
(* others.                                                                 *)
Lives ==
    [phase : {"idle", "accept", "open", "closing"},
     pool : {"none", "unused", "listen", "active"},
     io : 0..MaxIo, new : BOOLEAN, del : BOOLEAN]

Kinds == {"NEW", "IO", "DEL"}

(* The constructor; start_accept() follows at once.                        *)
Unborn == [phase |-> "idle", pool |-> "none", io |-> 0, new |-> FALSE, del |-> FALSE]

connected(l) == l.phase \in {"open", "closing"}
Outstanding(l) == l.new \/ l.del \/ l.io > 0

(* start_accept(), of a new connection or of an unused one.                *)
Accepting(l) == [l EXCEPT !.phase = "accept", !.pool = "listen", !.new = TRUE]

(* abort_accept() of an accept that is still pending: its notification is  *)
(* going to come, and so is the one of the disconnect.                     *)
Aborting(l) == [l EXCEPT !.phase = "closing", !.del = TRUE]

(* Mutant: a connection that has accepted a client stays in its set.       *)
PoolAfter_Stays(l, phase) ==
    IF phase = "idle" /\ l.pool = "active" THEN "unused" ELSE l.pool

(* The sets a connection is moved between when it takes a notification.    *)
PoolAfter(l, phase) ==
    LET pool == IF ~connected(l) /\ l.pool = "listen" THEN "active" ELSE l.pool
    IN IF phase = "idle" /\ pool = "active" THEN "unused" ELSE pool

(* A connection that is open or closing always has something outstanding,  *)
(* so that it is notified again; one that is idle has nothing.  An accept  *)
(* that failed is followed by a disconnect.                                *)
Handled(l, m) ==
    CASE l.phase = "accept" ->
            \/ m.phase = "open" /\ m.io > 0 /\ ~m.del
            \/ m.phase = "closing" /\ m.io = 0 /\ m.del
      [] l.phase = "open" ->
            /\ m.phase \in {"open", "closing"}
            /\ m.io > 0 \/ m.del
            /\ m.io + 2 >= l.io   \* this one, and a timer that is stopped
            /\ m.del => m.phase = "closing"
      [] l.phase = "closing" ->
            /\ m.phase = IF Outstanding(m) THEN "closing" ELSE "idle"
      [] OTHER -> FALSE

(* The lives after the notification of a request of kind k.                *)
Notified(l, k) ==
    {m \in Lives :
        /\ m.new = (l.new /\ k # "NEW")
        /\ IF l.phase = "closing"
           THEN /\ m.io = IF k = "IO" THEN l.io - 1 ELSE l.io
                /\ m.del = (l.del /\ k # "DEL")
           ELSE TRUE
        /\ Handled(l, m)
        /\ m.pool = PoolAfter(l, m.phase)}

Awaited(l) ==
    {k \in Kinds : CASE k = "NEW" -> l.new [] k = "IO" -> l.io > 0 [] k = "DEL" -> l.del}

LifeStep(l, m) ==
    \/ l.phase = "idle" /\ l.pool \in {"none", "unused"} /\ m = Accepting(l)
    \/ l.phase = "accept" /\ m = Aborting(l)
    \/ \E k \in Awaited(l) : m \in Notified(l, k)
=============================================================================
