--------------------------- MODULE EchoServerInv ---------------------------
(***************************************************************************)
(* The inductive invariant behind the safety properties of EchoServer.     *)
(***************************************************************************)
EXTENDS EchoServer

(* Notifications name a connection or one of the pool's jobs, and the      *)
(* batch is what is left of a dispatch.                                    *)
LoopInv ==
    /\ \A n \in ToSet(port) \cup ToSet(queue) \cup ToSet(batch) :
           n.kind \in Kinds <=> n.connection # Null
    /\ main # "dispatch" => batch = <<>>

(* Each phase of a connection, with the sets it can be in then.            *)
Sound(l) ==
    CASE l.phase = "idle" -> l.pool # "active" /\ ~Outstanding(l)
      [] l.phase = "accept" -> l.pool = "listen" /\ l.new /\ ~l.del /\ l.io = 0
      [] l.phase = "open" -> l.pool = "active" /\ ~l.new /\ ~l.del /\ l.io > 0
      [] l.phase = "closing" ->
            Outstanding(l) /\ (l.pool = "active" \/ l.pool = "listen")
            /\ (l.pool = "active" => ~l.new)

LifeInv == \A c \in Conns : Sound(life[c])

(* A silent client holds an accept that is still pending; an accept that   *)
(* was aborted is no longer, its notification is on its way.               *)
HeldInv ==
    /\ \A c \in held : life[c].phase = "accept" /\ Count(c, "NEW") = 0
    /\ fate = "fine" => \A c \in Conns :
          life[c].phase = "closing" /\ life[c].new => Count(c, "NEW") = 1

(* Each job has at most one completion to come; for the console's there is *)
(* one as long as its task is there.                                       *)
JobsInv ==
    /\ \A j \in Jobs : Coming(j) <= 1
    /\ "control" \in alive <=> Coming("compute") = 1
    /\ WatchersAreWatching

(* Who ended, and why: the control task tells the service task to.         *)
EndInv ==
    /\ signal <=> "control" \notin alive
    /\ Count(Null, "shutdown_wait") > 0 => signal
    /\ job["shutdown_wait"] # "armed" => signal
    /\ "service" \notin alive => signal
    /\ StrayOnlyAtTheEnd

(* The accept watcher fires when a client waits and nothing listens, which *)
(* does not change before the watcher is handled.                          *)
EventInv ==
    fate = "fine" /\ "service" \in alive =>
        /\ event => backlog > 0 /\ Listening = {}
        /\ job["accept_watcher"] = "closed" => event
        /\ Count(Null, "accept_watcher") > 0 => event

(* A connection was made for each client that was accepted, and for each   *)
(* that listens, so that there is always room for one more.                *)
Made == {c \in Conns : life[c].pool # "none"}
RoomInv ==
    /\ backlog <= arrived
    /\ fate = "fine" =>
          Cardinality(Made) + backlog <= arrived + Cardinality(Listening)

(* Where the bytes of the console are.                                     *)
ConsoleInv == LET k == console IN
    /\ Len(k.out) <= k.taken
    /\ \A i \in DOMAIN k.out : k.out[i] = i
    /\ k.pass <= k.used
    /\ k.op = "put" =>
          /\ k.pass < k.used /\ k.taken = k.base + k.used
          /\ job["compute"] = "armed" => Len(k.out) = k.base + k.pass
          /\ job["compute"] # "armed" =>
                /\ Len(k.out) = k.base + k.pass + k.result
                /\ k.pass + k.result <= k.used
    /\ k.op = "get" =>
          /\ job["compute"] = "armed" => Len(k.out) = k.taken
          /\ job["compute"] # "armed" /\ k.result > 0 =>
                Len(k.out) = k.base /\ k.taken = k.base + k.result
          /\ job["compute"] # "armed" /\ k.result = 0 =>
                Len(k.out) = k.taken /\ (k.taken = InputSize \/ k.failed)
    /\ "control" \notin alive =>
          k.op = "get" /\ k.result = 0 /\ job["compute"] = "none"

ServerInv ==
    /\ TypeOK /\ LoopInv
    /\ LifeInv /\ NotificationsAreAwaited /\ HeldInv
    /\ JobsInv /\ EndInv
    /\ EventInv /\ RoomInv
    /\ ConsoleInv
=============================================================================
