----------------------------- MODULE EchoServer -----------------------------
(***************************************************************************)
(* demo/echo-server.cpp as a program: server_main() with its loop, the     *)
(* ServiceTask with its connections and its two WaitRequests, and the      *)
(* ControlTask that copies the standard input to the standard output and   *)
(* then signals the shutdown event.                                        *)
(*                                                                         *)
(* Each connection is abstracted to its ConnectionLife.  A task that is    *)
(* resumed runs until it yields again, which is one step: what it does in  *)
(* between is decided by what it was resumed for.  The pool, the kernel,   *)
(* the clients and the console are external and may do their next step at  *)
(* any time.                                                               *)
(***************************************************************************)
EXTENDS ConnectionLife, SequencesExt

CONSTANTS
    Conns,       \* the Connection objects there may be
    MaxClients,  \* bound on the clients that connect
    InputSize,   \* bytes of the standard input
    ChunkSize,   \* capacity of ControlTask's buffer
    CanThrow,    \* console operations may throw
    Null

ASSUME ServerAssumption ==
    /\ MaxClients \in Nat
    /\ IsFiniteSet(Conns) /\ Cardinality(Conns) > MaxClients
    /\ InputSize \in Nat /\ ChunkSize \in Nat \ {0} /\ CanThrow \in BOOLEAN
    /\ Null \notin Conns

VARIABLES
    life,     \* the connections
    backlog,  \* clients that wait to be accepted
    arrived,  \* clients so far
    held,     \* connections whose accept has a client, which has sent nothing
    event,    \* connection_ready
    signal,   \* Server::myShutdownSignal
    job,      \* what the pool does for each WaitRequest, and for compute()
    console,  \* ControlTask, its buffer and the two streams
    port, queue, batch,
    main,     \* where server_main() stands
    alive,    \* the tasks that have not ended
    fate      \* "fine"; "broken": a sanity check failed; "stray": control
              \* went to a slave that was deleted

clientVars == <<backlog, arrived, held>>
loopVars == <<queue, batch, main>>
taskVars == <<life, event, signal, job, console, alive>>
vars == <<clientVars, taskVars, loopVars, port, fate>>

Jobs == {"shutdown_wait", "accept_watcher", "compute"}

(* armed: not complete.  closed: past Request::close(), so that ready() is *)
(* true; the notification is still to be posted.                           *)
JobStates == {"none", "armed", "closed"}

(* ControlTask: reading or writing; where its buffer begins in the input,   *)
(* how much is in it and has been passed to put(); the result of the last  *)
(* computation; the bytes of the streams, and whether one has thrown.      *)
Console ==
    [op : {"get", "put"}, base : 0..InputSize, used : 0..ChunkSize,
     pass : 0..ChunkSize, result : 0..ChunkSize,
     taken : 0..InputSize, out : Seq(1..InputSize), failed : BOOLEAN]

NoteKinds == Kinds \cup Jobs
Notification == [connection : Conns \cup {Null}, kind : NoteKinds]
Note(c, kind) == [connection |-> c, kind |-> kind]
Slave(n) == IF n.kind = "compute" THEN "control" ELSE "service"

Notes == port \o queue \o batch
Count(c, kind) == Cardinality({i \in DOMAIN Notes : Notes[i] = Note(c, kind)})

(* What the kernel still works on.                                         *)
Pending(c, kind) ==
    CASE kind = "NEW" -> life[c].new /\ Count(c, "NEW") = 0
      [] kind = "DEL" -> life[c].del /\ Count(c, "DEL") = 0
      [] kind = "IO" -> life[c].io > Count(c, "IO")

Listening == {c \in Conns : Pending(c, "NEW") /\ c \notin held}
Unused == {c \in Conns : life[c].pool = "unused"}
Up == fate = "fine" /\ main # "exited"

----------------------------------------------------------------------------
(* Clients and the kernel.                                                 *)

Arrive ==
    /\ Up /\ arrived < MaxClients
    /\ arrived' = arrived + 1 /\ backlog' = backlog + 1
    /\ UNCHANGED <<held, taskVars, loopVars, port, fate>>

Accept(c) ==
    /\ Up /\ backlog > 0 /\ c \in Listening
    /\ backlog' = backlog - 1 /\ held' = held \cup {c}
    /\ UNCHANGED <<arrived, taskVars, loopVars, port, fate>>

(* The first bytes of the client, or an error, end the accept.             *)
CompleteAccept(c) ==
    /\ Up /\ c \in held
    /\ held' = held \ {c} /\ port' = Append(port, Note(c, "NEW"))
    /\ UNCHANGED <<backlog, arrived, taskVars, loopVars, fate>>

Complete(c, kind) ==
    /\ Up /\ kind # "NEW" /\ Pending(c, kind)
    /\ port' = Append(port, Note(c, kind))
    /\ UNCHANGED <<clientVars, taskVars, loopVars, fate>>

(* WSAEventSelect(): a client waits and no accept is there to take it.     *)
SelectAccept ==
    /\ Up /\ backlog > 0 /\ Listening = {} /\ ~event
    /\ event' = TRUE
    /\ UNCHANGED <<clientVars, life, signal, job, console, alive, loopVars,
                   port, fate>>

----------------------------------------------------------------------------
(* The thread pool.                                                        *)

(* Request::close() after the object is signaled.                          *)
Release(j) ==
    /\ Up /\ job[j] = "armed"
    /\ CASE j = "shutdown_wait" -> signal
         [] j = "accept_watcher" -> event
         [] OTHER -> FALSE
    /\ job' = [job EXCEPT ![j] = "closed"]
    /\ UNCHANGED <<clientVars, life, event, signal, console, alive, loopVars,
                   port, fate>>

(* BlockingGet::execute(): what one read of the stream gives.              *)
Gets(k) ==
    LET left == InputSize - k.taken IN
    {[k EXCEPT !.result = n, !.base = k.taken, !.taken = @ + n] :
        n \in {n \in 0..ChunkSize : n <= left /\ (n = 0 <=> left = 0)}}

(* Mutant: the data that follows what was passed is not what is written.   *)
Puts_FromStart(k) ==
    {[k EXCEPT !.result = n,
               !.out = @ \o [i \in 1..n |-> k.base + i]] :
        n \in IF CanThrow THEN 0..(k.used - k.pass) ELSE {k.used - k.pass}}

(* BlockingPutRequest::execute(): everything, unless the stream throws.    *)
Puts(k) ==
    {[k EXCEPT !.result = n,
               !.out = @ \o [i \in 1..n |-> k.base + k.pass + i]] :
        n \in IF CanThrow THEN 0..(k.used - k.pass) ELSE {k.used - k.pass}}

(* An exception ends the computation, which completes all the same.        *)
Throws(k) ==
    IF CanThrow THEN {[k EXCEPT !.result = 0, !.failed = TRUE]} ELSE {}

(* execute_computation(), up to close().                                   *)
Execute ==
    /\ Up /\ job["compute"] = "armed"
    /\ console' \in IF console.op = "get" THEN Gets(console) \cup Throws(console)
                    ELSE Puts(console)
    /\ job' = [job EXCEPT !["compute"] = "closed"]
    /\ UNCHANGED <<clientVars, life, event, signal, alive, loopVars, port, fate>>

ReportCompletion(j) ==
    /\ Up /\ job[j] = "closed"
    /\ job' = [job EXCEPT ![j] = "none"]
    /\ port' = Append(port, Note(Null, j))
    /\ UNCHANGED <<clientVars, life, event, signal, console, alive, loopVars, fate>>

----------------------------------------------------------------------------
(* server_main().                                                          *)

TakeNotification ==
    /\ Up /\ main \in {"process", "wait"}
    /\ port # <<>>
    /\ queue' = Append(queue, Head(port)) /\ port' = Tail(port)
    /\ main' = "process"
    /\ UNCHANGED <<clientVars, taskVars, batch, fate>>

NoNotification ==
    /\ Up /\ main = "process" /\ port = <<>>
    /\ main' = IF queue = <<>> THEN "wait" ELSE "dispatch"
    /\ batch' = queue /\ queue' = <<>>
    /\ UNCHANGED <<clientVars, taskVars, port, fate>>

DispatchReturns ==
    /\ Up /\ main = "dispatch" /\ batch = <<>>
    /\ main' = IF alive = {} THEN "exited" ELSE "process"
    /\ UNCHANGED <<clientVars, taskVars, queue, batch, port, fate>>

(* resume_pending_slaves() resumes slave s for the notification n.         *)
Resumes(s, n) ==
    /\ Up /\ main = "dispatch" /\ batch # <<>>
    /\ n = Head(batch) /\ Slave(n) = s
    /\ batch' = Tail(batch)
    /\ UNCHANGED <<queue, main, arrived, backlog>>

Stray(s, n) ==
    /\ Resumes(s, n)
    /\ s \notin alive
    /\ fate' = "stray"
    /\ UNCHANGED <<held, taskVars, port>>

----------------------------------------------------------------------------
(* ServiceTask::run().                                                     *)

(* Mutant: the task waits for either of its WaitRequests.                  *)
LoopTest_Any(jobs) ==
    IF \A j \in {"shutdown_wait", "accept_watcher"} : jobs[j] = "armed"
    THEN job' = jobs /\ UNCHANGED alive
    ELSE /\ alive' = alive \ {"service"}
         /\ job' = [jobs EXCEPT !["accept_watcher"] = IF @ = "armed" THEN "none" ELSE @]

(* The condition of the loop, shutdown_wait.ready().  The task that leaves *)
(* it takes its requests along; what the pool has begun goes on.           *)
LoopTest(jobs) ==
    IF jobs["shutdown_wait"] = "armed"
    THEN job' = jobs /\ UNCHANGED alive
    ELSE /\ alive' = alive \ {"service"}
         /\ job' = [jobs EXCEPT !["accept_watcher"] = IF @ = "armed" THEN "none" ELSE @]

(* A connection takes its notification.  What is posted cannot be taken    *)
(* back.                                                                   *)
HandleConnection(n) ==
    /\ Resumes("service", n) /\ "service" \in alive
    /\ n.kind \in Kinds
    /\ \E l \in Notified(life[n.connection], n.kind) :
        /\ l.io >= Count(n.connection, "IO") - IF n.kind = "IO" THEN 1 ELSE 0
        /\ life' = [life EXCEPT ![n.connection] = l]
    /\ LoopTest(job)
    /\ UNCHANGED <<held, event, signal, console, port, fate>>

(* Connections in the listen set with a client connected: some have waited *)
(* for too long.                                                           *)
Slow == {c \in Conns : life[c].pool = "listen" /\ (c \in held \/ Pending(c, "DEL"))}

(* Mutant: the watcher is started again only after a new connection.       *)
Rewatched_Once == [job EXCEPT !["accept_watcher"] = IF Unused = {} THEN "armed" ELSE @]

(* accept_watcher.start(), at the end.                                     *)
Rewatched == [job EXCEPT !["accept_watcher"] = "armed"]

(* Mutant: without an unused connection no accept is started.              *)
Candidates_Unused == IF Unused # {} THEN Unused ELSE {Null}

(* An unused connection, or else a new one.                                *)
Candidates ==
    IF Unused # {} THEN Unused
    ELSE {CHOOSE c \in Conns : life[c].pool = "none"}

(* Abort the accepts that are slow, start one more, and watch again.       *)
Relisten(late, c) ==
    /\ event' = FALSE
    /\ life' = [d \in Conns |-> IF d = c THEN Accepting(life[c])
                                ELSE IF d \in late THEN Aborting(life[d])
                                ELSE life[d]]
    /\ held' = held \ late
    /\ port' = port \o SetToSeq({Note(d, "NEW") : d \in late})
    /\ LoopTest(Rewatched)
    /\ UNCHANGED <<signal, console, fate>>

(* The accept watcher has fired.  To abort an accept that was aborted      *)
(* already, and is being disconnected, fails abort_accept()'s sanity check.*)
HandleWatcher(n) ==
    /\ Resumes("service", n) /\ "service" \in alive
    /\ n.kind = "accept_watcher"
    /\ \E late \in SUBSET Slow, c \in Candidates :
        IF late \subseteq held THEN Relisten(late, c)
        ELSE fate' = "broken" /\ UNCHANGED <<held, taskVars, port>>

HandleShutdown(n) ==
    /\ Resumes("service", n) /\ "service" \in alive
    /\ n.kind = "shutdown_wait"
    /\ LoopTest(job)
    /\ UNCHANGED <<held, life, event, signal, console, port, fate>>

----------------------------------------------------------------------------
(* ControlTask::run().                                                     *)

(* BlockingReader::get() and BlockingWriter::put() start the next          *)
(* computation.                                                            *)
Compute(k) ==
    /\ console' = k
    /\ job' = [job EXCEPT !["compute"] = "armed"]
    /\ UNCHANGED <<signal, alive>>

(* Mutant: the end of the input ends the task, and nobody is told.         *)
GetReturns_Quiet(n) ==
    /\ Resumes("control", n) /\ "control" \in alive
    /\ console.op = "get"
    /\ IF console.result > 0
       THEN Compute([console EXCEPT !.op = "put", !.used = console.result,
                                    !.pass = 0])
       ELSE alive' = alive \ {"control"} /\ UNCHANGED <<signal, job, console>>
    /\ UNCHANGED <<held, life, event, port, fate>>

(* get() returns: write what was read, or shut down.                       *)
GetReturns(n) ==
    /\ Resumes("control", n) /\ "control" \in alive
    /\ console.op = "get"
    /\ IF console.result > 0
       THEN Compute([console EXCEPT !.op = "put", !.used = console.result,
                                    !.pass = 0])
       ELSE signal' = TRUE /\ alive' = alive \ {"control"} /\ UNCHANGED <<job, console>>
    /\ UNCHANGED <<held, life, event, port, fate>>

(* put() returns: write the rest, or read on.                              *)
PutReturns(n) ==
    /\ Resumes("control", n) /\ "control" \in alive
    /\ console.op = "put"
    /\ LET pass == console.pass + console.result IN
       Compute([console EXCEPT !.pass = pass,
                               !.op = IF pass < console.used THEN "put" ELSE "get"])
    /\ UNCHANGED <<held, life, event, port, fate>>

----------------------------------------------------------------------------
(* Both tasks were started and have yielded for the first time.            *)
Init ==
    /\ LET first == CHOOSE c \in Conns : TRUE IN
       life = [c \in Conns |-> IF c = first THEN Accepting(Unborn) ELSE Unborn]
    /\ backlog = 0 /\ arrived = 0 /\ held = {}
    /\ event = FALSE /\ signal = FALSE
    /\ job = [j \in Jobs |-> "armed"]
    /\ console = [op |-> "get", base |-> 0, used |-> 0, pass |-> 0,
                  result |-> 0, taken |-> 0, out |-> <<>>, failed |-> FALSE]
    /\ port = <<>> /\ queue = <<>> /\ batch = <<>>
    /\ main = "process" /\ alive = {"service", "control"} /\ fate = "fine"

Kernel ==
    \/ Arrive \/ SelectAccept
    \/ \E c \in Conns : Accept(c) \/ CompleteAccept(c) \/ \E k \in Kinds : Complete(c, k)

Pool == Execute \/ \E j \in Jobs : Release(j) \/ ReportCompletion(j)

Loop == TakeNotification \/ NoNotification \/ DispatchReturns

Tasks ==
    \E i \in DOMAIN batch : LET n == batch[i] IN
        \/ HandleConnection(n) \/ HandleWatcher(n) \/ HandleShutdown(n)
        \/ GetReturns(n) \/ PutReturns(n)
        \/ \E s \in {"service", "control"} : Stray(s, n)

Next == Kernel \/ Pool \/ Loop \/ Tasks

Spec == Init /\ [][Next]_vars

Writes == console.op = "put" /\ Execute /\ console'.result > 0
ReadsEnd == console.op = "get" /\ console.taken = InputSize /\ Execute

(* Fairness.  The program goes on and the pool works; the kernel accepts   *)
(* clients and signals the event.  A client may stay silent for ever, a    *)
(* connection's I/O may never complete, and a read may wait for input for  *)
(* ever, but it notices the end.  A write that throws, thrown often enough,*)
(* gets somewhere in the end.                                              *)
Fairness ==
    /\ WF_vars(Loop) /\ WF_vars(Tasks)
    /\ WF_vars(ReadsEnd) /\ SF_vars(Writes)
    /\ \A j \in Jobs : WF_vars(Release(j)) /\ WF_vars(ReportCompletion(j))
    /\ WF_vars(SelectAccept) /\ WF_vars(\E c \in Conns : Accept(c))

FairSpec == Spec /\ Fairness

----------------------------------------------------------------------------
(* Properties.                                                             *)

(* Every variable has its type.                                            *)
TypeOK ==
    /\ life \in [Conns -> Lives]
    /\ backlog \in 0..MaxClients /\ arrived \in 0..MaxClients
    /\ held \subseteq Conns
    /\ event \in BOOLEAN /\ signal \in BOOLEAN
    /\ job \in [Jobs -> JobStates]
    /\ port \in Seq(Notification) /\ queue \in Seq(Notification)
    /\ batch \in Seq(Notification)
    /\ console \in Console
    /\ main \in {"process", "wait", "dispatch", "exited"}
    /\ alive \subseteq {"service", "control"}
    /\ fate \in {"fine", "broken", "stray"}

(* The three sets tell the truth: what is unused has nothing outstanding,  *)
(* what is active has a client, and what listens waits for one, is being   *)
(* disconnected after its accept was aborted, or is lost                   *)
(* (echo-server.cpp:877-880, 1045-1071).                                   *)
SetsTellTheTruth ==
    \A c \in Conns :
        CASE life[c].pool \in {"none", "unused"} ->
                life[c].phase = "idle" /\ ~Outstanding(life[c])
          [] life[c].pool = "active" -> connected(life[c])
          [] life[c].pool = "listen" -> life[c].phase # "open"

(* Nothing comes that nobody waits for: every notification on its way to a *)
(* connection is one that the connection has outstanding.                  *)
NotificationsAreAwaited ==
    \A c \in Conns :
        /\ Count(c, "NEW") <= IF life[c].new THEN 1 ELSE 0
        /\ Count(c, "DEL") <= IF life[c].del THEN 1 ELSE 0
        /\ Count(c, "IO") <= life[c].io

(* What holds of the connections whenever no task runs: the sets they are  *)
(* in and the notifications that come agree with what they wait for        *)
(* (echo-server.cpp:960-1074).                                             *)
ServiceInv == TypeOK /\ SetsTellTheTruth /\ NotificationsAreAwaited

(* As long as the service task is at work, exactly one completion of its   *)
(* accept watcher is armed or on its way, and at most one of its shutdown  *)
(* request: reset() never waits for the pool, and no client waits for a    *)
(* watcher that was forgotten (echo-server.cpp:974-1011).                  *)
Coming(j) == Count(Null, j) + IF job[j] = "none" THEN 0 ELSE 1

WatchersAreWatching ==
    "service" \in alive /\ fate # "broken" =>
        Coming("accept_watcher") = 1 /\ Coming("shutdown_wait") <= 1

(* ControlTask copies: what it wrote is what it read, in order, and it has *)
(* written all of it when it shuts down; it shuts down at the end of the   *)
(* input or when a read throws (echo-server.cpp:822-843, Request.cpp:163). *)
CopiesInput ==
    /\ \A i \in DOMAIN console.out : console.out[i] = i
    /\ signal => /\ Len(console.out) = console.taken
                 /\ console.taken = InputSize \/ console.failed

(* A deleted slave gets control only after the shutdown was signaled and   *)
(* the service task, with notifications queued, has left its loop          *)
(* (echo-server.cpp:955, 1075-1078).                                       *)
StrayOnlyAtTheEnd == fate = "stray" => signal /\ alive = {}

(* A client that waits is accepted, although accepts are held by clients   *)
(* that send nothing (echo-server.cpp:941-948).                            *)
ClientsAreAccepted ==
    backlog > 0 ~> backlog = 0 \/ signal \/ fate # "fine"

(* When the input has ended the program ends, too, whatever the            *)
(* connections do (echo-server.cpp:1107).                                  *)
InputEndsServer ==
    console.taken = InputSize ~> main = "exited" \/ fate # "fine"

(* "the task should complete only when all the connections have been       *)
(* deleted" (echo-server.cpp:953-954): it leaves their requests behind.    *)
EndsCleanly ==
    "service" \notin alive => \A c \in Conns : ~Outstanding(life[c])

(* "we may run into an access violation" (echo-server.cpp:1076-1078).      *)
NeverStray == fate # "stray"

(* "Exhaust input stream." (echo-server.cpp:830): a read that throws looks *)
(* like the end of the input (Request.cpp:163-166).                        *)
ShutdownAfterInput == signal => console.taken = InputSize

(* "make sure aborted accept requests are properly returned to the         *)
(* connection pool" (echo-server.cpp:1045-1048).                           *)
NoConnectionLost ==
    \A c \in Conns : life[c].pool = "listen" => life[c].phase # "idle"
=============================================================================
