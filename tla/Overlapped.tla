----------------------------- MODULE Overlapped -----------------------------
(***************************************************************************)
(* The requests that wrap a native asynchronous operation: SocketGetRequest*)
(* SocketPutRequest and ConnectRequest (SocketChannel.cpp), AcceptRequest  *)
(* and DisconnectRequest (Listener.cpp), GetRequest (FileReader.cpp) and   *)
(* PutRequest (FileWriter.cpp).  One request is started, completed,        *)
(* collected and reset again and again.                                    *)
(*                                                                         *)
(* There are two signs of a completion, and they do not come together.     *)
(* The kernel clears the OVERLAPPED's pending mark, which is what ready()  *)
(* reads; and it posts a notification, which only reaches the request when *)
(* the engine takes it off the completion port, and which is what result() *)
(* reads.  An operation that completes synchronously posts one too.        *)
(***************************************************************************)
EXTENDS Naturals, Sequences

CONSTANTS
    Kinds,     \* the classes of request to look at
    MaxSize,   \* bound on the bytes that one operation transfers
    MaxOps,    \* bound on the number of operations
    Eager      \* the task collects once ready(), not when it is notified

AllKinds == {"SocketGet", "SocketPut", "FileGet", "FilePut",
             "Accept", "Connect", "Disconnect"}

ASSUME OverlappedAssumption ==
    /\ Kinds \subseteq AllKinds
    /\ MaxSize \in Nat /\ MaxOps \in Nat /\ Eager \in BOOLEAN

VARIABLES
    kind,           \* the class of the request
    myState,        \* Idle, Busy or Dead
    pending,        \* the OVERLAPPED says STATUS_PENDING
    myResult,       \* what the call to start the operation transferred
    myNotification, \* the last notification that reached the request
    kernel,         \* the operation that the kernel is working on
    cancelled,      \* ... and whether it has been told to give up
    port,           \* the completion port
    task,           \* what the task is up to
    notified,       \* the task was resumed since it started the operation
    op,             \* ghost: the number of operations so far
    outcome,        \* ghost: how each of them ended
    collected       \* ghost: what result() and eof() said of the last

request == <<kind, myState, pending, myResult, myNotification>>
app == <<task, notified, op, collected>>
vars == <<request, app, kernel, cancelled, port, outcome>>

NoOp == 0

States == {"Idle", "Busy", "Dead"}
Errors == {"disconnected", "aborted", "failed"}
NoNotification == [status |-> "ok", size |-> 0]
Notifications == [status : {"ok"} \cup Errors, size : 0..MaxSize]

----------------------------------------------------------------------------
(* In what the classes differ.                                             *)
(*   started  the state that start() leaves, ...                           *)
(*   empty    ... when it transferred nothing, there and then              *)
(*   ready    the states in which ready() may be true                      *)
(*   failed   the states that result() leaves after an error it expects    *)
(*   expects  the errors for which result() does not throw                 *)
(*   sizes    what a successful operation transfers                        *)
(*   keeps    start() keeps the size of a synchronous operation            *)
(*   aborts   there is an abort()                                          *)
(*   resets   there is a reset()                                           *)

SocketGetRequest ==
    [started |-> "Busy", empty |-> "Dead", ready |-> {"Busy", "Dead"},
     failed |-> "Dead", expects |-> {"disconnected", "aborted"},
     sizes |-> 0..MaxSize, keeps |-> TRUE, aborts |-> TRUE, resets |-> TRUE]

SocketPutRequest ==
    [started |-> "Busy", empty |-> "Busy", ready |-> {"Busy"},
     failed |-> "Dead", expects |-> {"disconnected", "aborted"},
     sizes |-> 1..MaxSize, keeps |-> TRUE, aborts |-> TRUE, resets |-> TRUE]

GetRequest ==
    [started |-> "Busy", empty |-> "Busy", ready |-> {"Busy"},
     failed |-> "Busy", expects |-> {"disconnected", "aborted"},
     sizes |-> 0..MaxSize, keeps |-> TRUE, aborts |-> FALSE, resets |-> TRUE]

PutRequest ==
    [started |-> "Busy", empty |-> "Busy", ready |-> {"Busy"},
     failed |-> "Busy", expects |-> {"disconnected", "aborted"},
     sizes |-> 1..MaxSize, keeps |-> TRUE, aborts |-> FALSE, resets |-> TRUE]

(* No state of its own: ready() is true before start(), too.  The bytes    *)
(* that came with the client go into the buffer.                           *)
AcceptRequest ==
    [started |-> "Idle", empty |-> "Idle", ready |-> {"Idle"},
     failed |-> "Idle", expects |-> {"disconnected", "aborted"},
     sizes |-> 0..MaxSize, keeps |-> FALSE, aborts |-> TRUE, resets |-> TRUE]

(* It has no reset() and is used once.                                     *)
ConnectRequest ==
    [started |-> "Idle", empty |-> "Idle", ready |-> {"Idle"},
     failed |-> "Idle", expects |-> {"aborted"},
     sizes |-> {0}, keeps |-> FALSE, aborts |-> FALSE, resets |-> FALSE]

DisconnectRequest ==
    [started |-> "Busy", empty |-> "Busy", ready |-> {"Busy"},
     failed |-> "Busy", expects |-> {"disconnected", "aborted"},
     sizes |-> {0}, keeps |-> FALSE, aborts |-> TRUE, resets |-> TRUE]

Class ==
    CASE kind = "SocketGet" -> SocketGetRequest
      [] kind = "SocketPut" -> SocketPutRequest
      [] kind = "FileGet" -> GetRequest
      [] kind = "FilePut" -> PutRequest
      [] kind = "Accept" -> AcceptRequest
      [] kind = "Connect" -> ConnectRequest
      [] OTHER -> DisconnectRequest

(* How an operation can end; a put never succeeds with nothing sent.       *)
Outcomes ==
    [status : {"ok"}, size : Class.sizes] \cup [status : Errors, size : {0}]

(* ready()                                                                 *)
Ready == myState \in Class.ready /\ ~pending

(* Mutant: both sizes count.                                               *)
Result_Sum ==
    IF myNotification.status # "ok" THEN 0
    ELSE myResult + myNotification.size

(* The bytes that result() speaks of, ...                                  *)
Result ==
    IF myNotification.status # "ok" THEN 0
    ELSE IF myResult > 0 THEN myResult ELSE myNotification.size

(* ... whether it reports success, failure or throws, ...                  *)
Answer ==
    IF myNotification.status = "ok" THEN "ok"
    ELSE IF myNotification.status \in Class.expects THEN "no" ELSE "throws"

(* ... and the state it leaves.                                            *)
AfterResult == IF Answer = "no" THEN Class.failed ELSE myState

(* eof(), of the requests that can be dead.                                *)
Eof(state) == state = "Dead"

----------------------------------------------------------------------------
(* start(): the operation is pending, ...                                  *)
StartPending ==
    /\ task = "idle" /\ op < MaxOps
    /\ op' = op + 1 /\ kernel' = op' /\ cancelled' = FALSE
    /\ pending' = TRUE /\ myState' = Class.started
    /\ task' = "started" /\ notified' = FALSE
    /\ UNCHANGED <<kind, myResult, myNotification, port, outcome, collected>>

(* Mutant: a request that completed synchronously is not marked Busy.      *)
StartSynchronous_Idle ==
    /\ task = "idle" /\ op < MaxOps
    /\ \E e \in Outcomes :
        /\ e.status = "ok"
        /\ myResult' = IF Class.keeps THEN e.size ELSE myResult
        /\ myState' = "Idle"
        /\ outcome' = Append(outcome, e)
        /\ port' = Append(port, e)
    /\ op' = op + 1 /\ pending' = FALSE
    /\ task' = "started" /\ notified' = FALSE
    /\ UNCHANGED <<kind, myNotification, kernel, cancelled, collected>>

(* ... or it has completed within the call, and the notification is posted.*)
StartSynchronous ==
    /\ task = "idle" /\ op < MaxOps
    /\ \E e \in Outcomes :
        /\ e.status = "ok"
        /\ myResult' = IF Class.keeps THEN e.size ELSE myResult
        /\ myState' = IF e.size = 0 THEN Class.empty ELSE Class.started
        /\ outcome' = Append(outcome, e)
        /\ port' = Append(port, e)
    /\ op' = op + 1 /\ pending' = FALSE
    /\ task' = "started" /\ notified' = FALSE
    /\ UNCHANGED <<kind, myNotification, kernel, cancelled, collected>>

(* abort()                                                                 *)
Abort ==
    /\ Class.aborts
    /\ task = "started" /\ kernel # NoOp /\ ~cancelled
    /\ cancelled' = TRUE
    /\ UNCHANGED <<request, app, kernel, port, outcome>>

(* The kernel completes the operation: whether or not it was cancelled, it *)
(* may have succeeded.                                                     *)
Complete ==
    /\ kernel # NoOp
    /\ \E e \in Outcomes :
        /\ e.status = "aborted" => cancelled
        /\ outcome' = Append(outcome, e)
        /\ port' = Append(port, e)
    /\ pending' = FALSE
    /\ kernel' = NoOp /\ cancelled' = FALSE
    /\ UNCHANGED <<kind, myState, myResult, myNotification, app>>

(* The engine hands the notification over and has the task resumed.        *)
Process ==
    /\ port # <<>>
    /\ myNotification' = Head(port) /\ port' = Tail(port)
    /\ notified' = TRUE
    /\ UNCHANGED <<kind, myState, pending, myResult, kernel, cancelled,
                   task, op, outcome, collected>>

(* Mutant: the task does not wait for the notification.                    *)
Collect_Ready ==
    /\ task = "started" /\ Ready
    /\ collected' = [size |-> Result, answer |-> Answer, eof |-> Eof(AfterResult)]
    /\ myState' = AfterResult /\ task' = "collected"
    /\ UNCHANGED <<kind, pending, myResult, myNotification, notified, op,
                   kernel, cancelled, port, outcome>>

(* result() and eof(), when the task is resumed or as soon as the request  *)
(* is ready.                                                               *)
Collect ==
    /\ task = "started"
    /\ IF Eager THEN Ready ELSE notified
    /\ collected' = [size |-> Result, answer |-> Answer, eof |-> Eof(AfterResult)]
    /\ myState' = AfterResult /\ task' = "collected"
    /\ UNCHANGED <<kind, pending, myResult, myNotification, notified, op,
                   kernel, cancelled, port, outcome>>

(* Mutant: the size of a synchronous operation is kept.                    *)
Reset_KeepsResult ==
    /\ task = "collected" /\ Class.resets
    /\ myState' = "Idle" /\ pending' = FALSE /\ task' = "idle"
    /\ UNCHANGED <<kind, myResult, myNotification, notified, op, collected,
                   kernel, cancelled, port, outcome>>

(* reset(), before the next start().                                       *)
Reset ==
    /\ task = "collected" /\ Class.resets
    /\ myState' = "Idle" /\ pending' = FALSE /\ myResult' = 0
    /\ task' = "idle"
    /\ UNCHANGED <<kind, myNotification, notified, op, collected,
                   kernel, cancelled, port, outcome>>

(* The request goes away with the call that made it, and the next call     *)
(* makes another one.                                                      *)
Return ==
    /\ task = "collected"
    /\ myState' = "Idle" /\ pending' = FALSE /\ myResult' = 0
    /\ myNotification' = NoNotification
    /\ task' = "idle"
    /\ UNCHANGED <<kind, notified, op, collected, kernel, cancelled, port, outcome>>

----------------------------------------------------------------------------
Init ==
    /\ kind \in Kinds
    /\ myState = "Idle" /\ pending = FALSE /\ myResult = 0
    /\ myNotification = NoNotification
    /\ kernel = NoOp /\ cancelled = FALSE /\ port = <<>>
    /\ task = "idle" /\ notified = FALSE /\ op = 0
    /\ outcome = <<>> /\ collected = [size |-> 0, answer |-> "ok", eof |-> FALSE]

Next ==
    \/ StartPending \/ StartSynchronous \/ Abort
    \/ Complete \/ Process \/ Collect \/ Reset \/ Return

Spec == Init /\ [][Next]_vars

----------------------------------------------------------------------------
(* Properties.                                                             *)

Marks == pending \in BOOLEAN /\ cancelled \in BOOLEAN /\ notified \in BOOLEAN

(* The variables have their types.                                         *)
TypeOK ==
    /\ Marks
    /\ kind \in Kinds /\ myState \in States
    /\ myResult \in 0..MaxSize /\ myNotification \in Notifications
    /\ kernel \in 0..MaxOps /\ op \in 0..MaxOps
    /\ port \in Seq(Notifications) /\ outcome \in Seq(Notifications)
    /\ task \in {"idle", "started", "collected"}
    /\ collected \in [size : 0..MaxSize, answer : {"ok", "no", "throws"}, eof : BOOLEAN]

(* What result() returns is the size of the operation it is asked about,   *)
(* and it reports success or throws for that one, never for what an earlier*)
(* one left in myResult or in the notification (SocketChannel.cpp:259-281, *)
(* Listener.cpp:132-167).                                                  *)
ResultIsOwn ==
    task = "collected" =>
        /\ Len(outcome) = op
        /\ collected.size = outcome[op].size
        /\ collected.answer = "ok" <=> outcome[op].status = "ok"

(* A request that was collected has nothing left in the kernel or in the   *)
(* port: reset() and start() cannot confuse the next operation with the    *)
(* last (SocketChannel.cpp:283-288).                                       *)
NothingLeftBehind ==
    task # "started" => kernel = NoOp /\ port = <<>>

(* When the task is notified the request is ready, whichever way the       *)
(* operation completed: the callers' sanity checks rely on it              *)
(* (echo-server.cpp:429-431, 535-537).  A task that takes the comment at   *)
(* SocketChannel.cpp:242-244 at its word, and collects the results of a    *)
(* synchronous completion "immediately", is notified of it all the same,   *)
(* when its next operation is under way.                                   *)
ReadyWhenNotified == task = "started" /\ notified => Ready

(* "unless the peer initiated a graceful shutdown procedure"               *)
(* (echo-server.cpp:460-463, where that is !eof): the end of the stream    *)
(* that comes without an error leaves eof() false.                         *)
GracefulIsNotEof ==
    task = "collected" /\ outcome[op].status = "ok" => ~collected.eof
=============================================================================
