------------------------------- MODULE Engine -------------------------------
(***************************************************************************)
(* code/Engine.cpp and code/Request.cpp: asynchronous requests.  Slaves    *)
(* start requests and yield; the threads of a pool carry them out and post *)
(* a notification to a completion port; the master fiber, in the main loop *)
(* that Engine.hpp documents, turns each notification into an entry of the *)
(* hub's queue and resumes what is queued.  demo/demo.cpp has a main loop  *)
(* of its own, which is here, too.                                         *)
(*                                                                         *)
(* A notification carries the ADDRESS of a request, and requests live on   *)
(* the stacks of slaves: an address may be dead, or have another request   *)
(* behind it, by the time it is dispatched.  Cells is the set of these     *)
(* addresses.  Requests names the Request objects; a name is used again    *)
(* only when nothing of the old object is left anywhere.                   *)
(*                                                                         *)
(* Two kinds of threads: the fibers (one at a time), and the pool, whose   *)
(* steps interleave with everything.  The pool, the timers and the port    *)
(* are external (w32 and Windows).                                         *)
(***************************************************************************)
EXTENDS SequencesExt, FiniteSets

CONSTANTS
    Slaves,    \* slaves the application may have
    Works,     \* requests that run a computation in the pool
    Waits,     \* requests that wait for a waitable object
    Timers,    \* requests that wait for a timer
    Cells,     \* addresses of requests
    Habits,    \* what application code does, a subset of AllHabits
    MainLoops, \* where the master may begin, which tells the two loops apart
    MaxPending, \* bound on what is pending when one more request is started
    Master, Null

(* "Mixed": compute() or wait() is called while another request of the     *)
(* same slave is in flight; "Unwind": a slave ends, by itself or by        *)
(* Hub::shutdown(), with requests in flight; "ReadyExit": a request is     *)
(* destroyed as soon as its ready() says so; "PauseInDemo": a task under   *)
(* the loop of demo/demo.cpp pauses, which no task there does.             *)
AllHabits == {"Mixed", "Unwind", "ReadyExit", "PauseInDemo"}

Requests == Works \cup Waits \cup Timers

ASSUME EngineAssumption ==
    /\ Habits \subseteq AllHabits
    /\ MainLoops \subseteq {"process", "turn"} /\ MainLoops # {}
    /\ MaxPending \in Nat
    /\ IsFiniteSet(Requests)
    /\ Works \cap Waits = {}
    /\ Timers \cap (Works \cup Waits) = {}
    /\ Null \notin Slaves \cup Requests \cup Cells \cup {Master}
    /\ Master \notin Slaves

VARIABLES
    at,        \* the live Request at each address: Data::request, zeroed by
               \* the destructor
    home,      \* the address each Request has, or had last
    owner,     \* Request::mySlave
    internal,  \* OVERLAPPED::Internal, what ready() looks at
    job,       \* what the pool does for each request
    port,      \* the completion port
    ready,     \* Hub::myQueue
    batch,     \* entries stolen by Hub::resume_pending_slaves()
    loop,      \* where the main loop stands
    current,   \* the fiber that runs; Null: control went to a dead slave
    alive,     \* the slaves there are
    step,      \* what each slave's code is in the middle of
    using,     \* the request that code works on
    due        \* the slave that each request's completion is due to, as the
               \* application keeps count of it

requestVars == <<at, home, owner, internal>>
loopVars == <<ready, batch, loop>>
slaveVars == <<current, alive, step, using>>
vars == <<requestVars, job, port, loopVars, slaveVars, due>>

(* armed: waits for its object or timer.  queued: waits for a thread.      *)
(* running: in the callback.  closed: past Request::close(), before        *)
(* Request::report_completion().                                           *)
JobStates == {"none", "armed", "queued", "running", "closed"}

(* app: application code.  starting/calling: between Request::start() and  *)
(* the submission, for the application or inside compute() and wait().     *)
(* yielding: compute() is about to call Hub::resume().  waiting: it did.   *)
(* aborting: inside TimeRequest::abort(), past the first call.             *)
Steps == {"app", "starting", "calling", "yielding", "waiting", "aborting"}

(* process: in process_notifications().  check: at slaves_pending().       *)
(* wait: in wait_for_notification().  dispatch: in resume_pending_slaves() *)
(* turn: the demo's loop is about to wait.  resume: it is about to call    *)
(* resume_pending_slave().                                                 *)
Loops == {"process", "check", "wait", "dispatch", "turn", "resume"}

Entry == [slave : Slaves, request : Requests \cup {Null}]
Notification == [cell : Cells, of : Requests]

Item(s, r) == [slave |-> s, request |-> r]
Note(r) == [cell |-> home[r], of |-> r]   \* "of" is for the properties only

Live(r) == home[r] # Null /\ at[home[r]] = r
Queued == ready \o batch
HasEntry(s) == \E i \in DOMAIN Queued : Queued[i].slave = s

(* The notifications of r that have not reached a slave, and the one that  *)
(* its job is going to post.                                               *)
Coming(r) ==
    Cardinality({i \in DOMAIN port : port[i].of = r})
    + Cardinality({i \in DOMAIN Queued : Queued[i].request = r})
    + IF job[r] = "none" THEN 0 ELSE 1

Unbuilt(r) == ~Live(r) /\ Coming(r) = 0
Awaits(s) == \E r \in Requests : due[r] = s
Quiet(s) == ~Awaits(s) /\ ~HasEntry(s)

(* The bound: with the habits above, an early resume can start a request   *)
(* again while its last completion is still to come, time after time.      *)
Short == Len(port) + Len(Queued) < MaxPending

Runs(s) == current = s
InApp(s) == Runs(s) /\ step[s] = "app"
MasterAt(l) == current = Master /\ loop = l

----------------------------------------------------------------------------
(* Request.                                                                *)

(* The constructor: myData is zeroed and points back at the request.       *)
Construct(s, r, c) ==
    /\ Unbuilt(r)
    /\ at[c] = Null
    /\ at' = [at EXCEPT ![c] = r]
    /\ home' = [home EXCEPT ![r] = c]

(* Mutant: mySlave stays what it was.                                      *)
Mark_SameSlave(s, r) ==
    /\ internal' = [internal EXCEPT ![r] = "pending"]
    /\ owner' = [owner EXCEPT ![r] = IF @ = Null THEN s ELSE @]
    /\ due' = [due EXCEPT ![r] = s]

(* Request::start().                                                       *)
Mark(s, r) ==
    /\ internal' = [internal EXCEPT ![r] = "pending"]
    /\ owner' = [owner EXCEPT ![r] = s]
    /\ due' = [due EXCEPT ![r] = s]

(* HasOverlappedIoCompleted(): also TRUE of a request never started.       *)
IsReady(r) == internal[r] # "pending"

(* The destructors of R: myData is zeroed, myJob closed.  What the pool    *)
(* has begun goes on.                                                      *)
Destruct(R) ==
    /\ at' = [c \in Cells |-> IF at[c] \in R THEN Null ELSE at[c]]
    /\ home' = [r \in Requests |->
                  IF r \in R /\ job[r] = "none" THEN Null ELSE home[r]]
    /\ owner' = [r \in Requests |-> IF r \in R THEN Null ELSE owner[r]]
    /\ internal' = [r \in Requests |-> IF r \in R THEN "zero" ELSE internal[r]]
    /\ job' = [r \in Requests |->
                  IF r \in R /\ job[r] \in {"armed", "queued"} THEN "none"
                  ELSE job[r]]
    /\ due' = [r \in Requests |-> IF r \in R THEN Null ELSE due[r]]

(* The requests on the stack of s.                                         *)
OnStack(s) == {r \in Requests : Live(r) /\ owner[r] = s}

----------------------------------------------------------------------------
(* The thread pool.  Each step may happen at any time.                     *)

(* The timer elapses, or the object is signaled.                           *)
Elapse(r) ==
    /\ job[r] = "armed"
    /\ job' = [job EXCEPT ![r] = "queued"]
    /\ UNCHANGED <<requestVars, port, loopVars, slaveVars, due>>

(* A thread enters execute_computation() or release_wait_client().         *)
Execute(r) ==
    /\ job[r] = "queued"
    /\ job' = [job EXCEPT ![r] = "running"]
    /\ UNCHANGED <<requestVars, port, loopVars, slaveVars, due>>

(* Request::close(): writes where the request is, or was.                  *)
Close(r) ==
    /\ job[r] = "running"
    /\ job' = [job EXCEPT ![r] = "closed"]
    /\ internal' = [q \in Requests |->
                      IF at[home[r]] = q THEN "done" ELSE internal[q]]
    /\ UNCHANGED <<at, home, owner, port, loopVars, slaveVars, due>>

(* Mutant: an exception of the computation skips the notification.         *)
ReportCompletion_Lost(r) ==
    /\ job[r] = "closed"
    /\ job' = [job EXCEPT ![r] = "none"]
    /\ port' = IF r \in Works THEN port ELSE Append(port, Note(r))
    /\ UNCHANGED <<requestVars, loopVars, slaveVars, due>>

(* Request::report_completion() and Engine::complete_request().            *)
ReportCompletion(r) ==
    /\ job[r] = "closed"
    /\ job' = [job EXCEPT ![r] = "none"]
    /\ port' = Append(port, Note(r))
    /\ UNCHANGED <<requestVars, loopVars, slaveVars, due>>

----------------------------------------------------------------------------
(* The main loop of the master fiber.                                      *)

(* Mutant: the test for a null request is missing.                         *)
Process_Unchecked(n) ==
    LET r == at[n.cell] IN
    ready' = Append(ready, Item(IF r = Null THEN Null ELSE owner[r], r))

(* Engine::process(): find the request at the notification's address, and  *)
(* schedule its slave.  No request there: a warning, and nothing else.     *)
Process(n) ==
    LET r == at[n.cell] IN
    ready' = IF r = Null THEN ready ELSE Append(ready, Item(owner[r], r))

(* Mutant: process_notifications() keeps what it takes for the next round. *)
ProcessNotification_Keep ==
    /\ MasterAt("process")
    /\ alive # {}
    /\ port # <<>>
    /\ Process(Head(port))
    /\ loop' = "check"
    /\ UNCHANGED <<requestVars, job, port, batch, slaveVars, due>>

(* process_notification(), in the loop of process_notifications().  The    *)
(* main loop turns as long as there are slaves.                            *)
ProcessNotification ==
    /\ MasterAt("process")
    /\ alive # {}
    /\ port # <<>>
    /\ Process(Head(port))
    /\ port' = Tail(port)
    /\ UNCHANGED <<requestVars, job, batch, loop, slaveVars, due>>

NoNotification ==
    /\ MasterAt("process")
    /\ alive # {}
    /\ port = <<>>
    /\ loop' = "check"
    /\ UNCHANGED <<requestVars, job, port, ready, batch, slaveVars, due>>

(* Mutant: the loop of demo/demo.cpp always waits.                         *)
CheckPending_Wait ==
    /\ MasterAt("check")
    /\ loop' = "wait"
    /\ UNCHANGED <<requestVars, job, port, ready, batch, slaveVars, due>>

(* slaves_pending(), and the steal of resume_pending_slaves().             *)
CheckPending ==
    /\ MasterAt("check")
    /\ IF ready = <<>>
       THEN loop' = "wait" /\ UNCHANGED <<ready, batch>>
       ELSE loop' = "dispatch" /\ batch' = ready /\ ready' = <<>>
    /\ UNCHANGED <<requestVars, job, port, slaveVars, due>>

WaitForNotification ==
    /\ MasterAt("wait")
    /\ port # <<>>
    /\ Process(Head(port))
    /\ port' = Tail(port)
    /\ loop' = "process"
    /\ UNCHANGED <<requestVars, job, batch, slaveVars, due>>

(* resume_pending_slaves() resumes the next slave.                         *)
Dispatch ==
    /\ MasterAt("dispatch")
    /\ batch # <<>>
    /\ batch' = Tail(batch)
    /\ LET e == Head(batch) IN
       /\ current' = IF e.slave \in alive THEN e.slave ELSE Null
       /\ due' = [r \in Requests |->
                    IF r = e.request /\ due[r] = e.slave THEN Null ELSE due[r]]
    /\ UNCHANGED <<requestVars, job, port, ready, loop, alive, step, using>>

DispatchReturns ==
    /\ MasterAt("dispatch")
    /\ batch = <<>>
    /\ loop' = "process"
    /\ UNCHANGED <<requestVars, job, port, ready, batch, slaveVars, due>>

(* Hub::spawn(StartNow), before the loop's next turn.                      *)
Spawn(s) ==
    /\ MasterAt("process")
    /\ s \notin alive
    /\ alive' = alive \cup {s}
    /\ current' = s
    /\ UNCHANGED <<requestVars, job, port, loopVars, step, using, due>>

(* resume_pending_slave(): the front entry, if its slave exists.           *)
ResumeOne ==
    /\ MasterAt("resume")
    /\ loop' = "turn"
    /\ IF ready = <<>>
       THEN UNCHANGED <<ready, current, due>>
       ELSE LET e == Head(ready) IN
            /\ ready' = Tail(ready)
            /\ current' = IF e.slave \in alive THEN e.slave ELSE Master
            /\ due' = [r \in Requests |->
                         IF r = e.request /\ due[r] = e.slave THEN Null ELSE due[r]]
    /\ UNCHANGED <<requestVars, job, port, batch, alive, step, using>>

(* The demo spawns a task and resumes it, before its loop, ...             *)
SpawnQueued(s) ==
    /\ MasterAt("turn")
    /\ s \notin alive
    /\ alive' = alive \cup {s}
    /\ ready' = Append(ready, Item(s, Null))
    /\ loop' = "resume"
    /\ UNCHANGED <<requestVars, job, port, batch, current, step, using, due>>

(* ... whose turn is to take one notification and to resume one slave,     *)
(* whether or not others are queued.                                       *)
Turn ==
    /\ MasterAt("turn")
    /\ alive # {}
    /\ port # <<>>
    /\ Process(Head(port))
    /\ port' = Tail(port)
    /\ loop' = "resume"
    /\ UNCHANGED <<requestVars, job, batch, slaveVars, due>>

(* Hub::shutdown(): the queue is dropped, every slave is resumed to throw, *)
(* and its stack unwinds.                                                  *)
Shutdown ==
    /\ "Unwind" \in Habits
    /\ MasterAt("process")
    /\ ready' = <<>>
    /\ alive' = {}
    /\ Destruct(UNION {OnStack(s) : s \in alive})
    /\ step' = [s \in Slaves |-> "app"]
    /\ using' = [s \in Slaves |-> Null]
    /\ UNCHANGED <<port, batch, loop, current>>

----------------------------------------------------------------------------
(* What a slave does while it runs.                                        *)

(* The beginning of compute() and wait(): build the request and mark it.   *)
Call(s, r, c) ==
    /\ InApp(s)
    /\ r \in Works \cup Waits
    /\ "Mixed" \in Habits \/ Quiet(s)
    /\ Short
    /\ Construct(s, r, c)
    /\ Mark(s, r)
    /\ step' = [step EXCEPT ![s] = "calling"]
    /\ using' = [using EXCEPT ![s] = r]
    /\ UNCHANGED <<job, port, loopVars, current, alive>>

(* The application declares a request, ...                                 *)
New(s, r, c) ==
    /\ InApp(s)
    /\ Construct(s, r, c)
    /\ owner' = [owner EXCEPT ![r] = s]
    /\ UNCHANGED <<internal, job, port, loopVars, slaveVars, due>>

(* ... starts it, possibly for another slave than before, ...              *)
Start(s, r) ==
    /\ InApp(s)
    /\ Live(r)
    /\ due[r] = Null
    /\ Short
    /\ Mark(s, r)
    /\ step' = [step EXCEPT ![s] = "starting"]
    /\ using' = [using EXCEPT ![s] = r]
    /\ UNCHANGED <<at, home, job, port, loopVars, current, alive>>

(* Mutant: the job is submitted first and the request marked after it.     *)
Submit_MarkLast(s) ==
    LET r == using[s] IN
    /\ Runs(s)
    /\ step[s] \in {"starting", "calling"}
    /\ IF job[r] = "none" /\ internal[r] = "pending" /\ Coming(r) = 0
       THEN /\ job' = [job EXCEPT ![r] = IF r \in Works THEN "queued" ELSE "armed"]
            /\ UNCHANGED <<step, using, internal>>
       ELSE /\ internal' = [internal EXCEPT ![r] = "pending"]
            /\ step' = [step EXCEPT ![s] =
                          IF @ = "calling" THEN "yielding" ELSE "app"]
            /\ using' = [using EXCEPT ![s] = IF step[s] = "calling" THEN r ELSE Null]
            /\ UNCHANGED job
    /\ UNCHANGED <<at, home, owner, port, loopVars, current, alive, due>>

(* myJob.submit(), watch() or start(), the end of WorkRequest::start() and *)
(* its likes.  The pool may run the job before this returns.               *)
Submit(s) ==
    LET r == using[s] IN
    /\ Runs(s)
    /\ step[s] \in {"starting", "calling"}
    /\ job' = [job EXCEPT ![r] = IF r \in Works THEN "queued" ELSE "armed"]
    /\ step' = [step EXCEPT ![s] = IF @ = "calling" THEN "yielding" ELSE "app"]
    /\ using' = [using EXCEPT ![s] = IF step[s] = "calling" THEN r ELSE Null]
    /\ UNCHANGED <<requestVars, port, loopVars, current, alive, due>>

(* Hub::resume(): from compute() and wait(), or from the application's own *)
(* event loop.                                                             *)
Yield(s) ==
    /\ Runs(s)
    /\ step[s] = "yielding" \/ (step[s] = "app" /\ ~Quiet(s))
    /\ step' = [step EXCEPT ![s] = IF @ = "yielding" THEN "waiting" ELSE @]
    /\ current' = Master
    /\ UNCHANGED <<requestVars, job, port, loopVars, alive, using, due>>

(* Task::pause().                                                          *)
Pause(s) ==
    /\ InApp(s)
    /\ ~HasEntry(s)
    /\ Short
    /\ loop # "turn" \/ "PauseInDemo" \in Habits
    /\ ready' = Append(ready, Item(s, Null))
    /\ current' = Master
    /\ UNCHANGED <<requestVars, job, port, batch, loop, alive, step, using,
                   due>>

(* compute() or wait() returns, and its request goes.                      *)
CallReturns(s) ==
    /\ Runs(s)
    /\ step[s] = "waiting"
    /\ Destruct({using[s]})
    /\ step' = [step EXCEPT ![s] = "app"]
    /\ using' = [using EXCEPT ![s] = Null]
    /\ UNCHANGED <<port, loopVars, current, alive>>

(* TimeRequest::abort(): stop the timer, ...                               *)
AbortCancel(s, r) ==
    /\ InApp(s)
    /\ r \in Timers /\ Live(r)
    /\ due[r] \in {s, Null}
    /\ job' = [job EXCEPT ![r] = IF @ = "armed" THEN "none" ELSE @]
    /\ step' = [step EXCEPT ![s] = "aborting"]
    /\ using' = [using EXCEPT ![s] = r]
    /\ UNCHANGED <<requestVars, port, loopVars, current, alive, due>>

AbortResult(r) == ~IsReady(r)

(* Mutant: abort() does not wait for a callback that is running.           *)
AbortReturns_NoWait(s) ==
    LET r == using[s] IN
    /\ Runs(s)
    /\ step[s] = "aborting"
    /\ job' = [job EXCEPT ![r] = IF @ = "queued" THEN "none" ELSE @]
    /\ due' = [due EXCEPT ![r] = IF AbortResult(r) THEN Null ELSE @]
    /\ step' = [step EXCEPT ![s] = "app"]
    /\ using' = [using EXCEPT ![s] = Null]
    /\ UNCHANGED <<requestVars, port, loopVars, current, alive>>

(* ... take back a callback that is queued, wait for one that is running,  *)
(* and tell.  The caller counts on no completion if the answer is true.    *)
AbortReturns(s) ==
    LET r == using[s] IN
    /\ Runs(s)
    /\ step[s] = "aborting"
    /\ job[r] \in {"none", "queued"}
    /\ job' = [job EXCEPT ![r] = "none"]
    /\ due' = [due EXCEPT ![r] = IF AbortResult(r) THEN Null ELSE @]
    /\ step' = [step EXCEPT ![s] = "app"]
    /\ using' = [using EXCEPT ![s] = Null]
    /\ UNCHANGED <<requestVars, port, loopVars, current, alive>>

(* reset(), which waits for the callback first if the request is not ready.*)
Reset(s, r) ==
    /\ InApp(s)
    /\ Live(r)
    /\ due[r] = Null
    /\ IsReady(r) \/ job[r] \in {"none", "armed"}
    /\ internal' = [internal EXCEPT ![r] = "zero"]
    /\ UNCHANGED <<at, home, owner, job, port, loopVars, slaveVars, due>>

(* A request of the application goes out of scope.                         *)
Delete(s, r) ==
    /\ InApp(s)
    /\ r \in OnStack(s)
    /\ due[r] = Null \/ ("ReadyExit" \in Habits /\ IsReady(r))
    /\ Destruct({r})
    /\ UNCHANGED <<port, loopVars, slaveVars>>

(* Task::run() returns or throws.                                          *)
End(s) ==
    /\ InApp(s)
    /\ Quiet(s) \/ "Unwind" \in Habits
    /\ Destruct(OnStack(s))
    /\ alive' = alive \ {s}
    /\ current' = Master
    /\ UNCHANGED <<port, loopVars, step, using>>

----------------------------------------------------------------------------
Init ==
    /\ at = [c \in Cells |-> Null]
    /\ home = [r \in Requests |-> Null]
    /\ owner = [r \in Requests |-> Null]
    /\ internal = [r \in Requests |-> "zero"]
    /\ job = [r \in Requests |-> "none"]
    /\ port = <<>> /\ ready = <<>> /\ batch = <<>>
    /\ loop \in MainLoops /\ current = Master
    /\ alive = {}
    /\ step = [s \in Slaves |-> "app"]
    /\ using = [s \in Slaves |-> Null]
    /\ due = [r \in Requests |-> Null]

PoolStep ==
    \E r \in Requests :
        Elapse(r) \/ Execute(r) \/ Close(r) \/ ReportCompletion(r)

LoopStep ==
    \/ ProcessNotification \/ NoNotification \/ CheckPending
    \/ WaitForNotification \/ Dispatch \/ DispatchReturns
    \/ Turn \/ ResumeOne
    \/ \E s \in Slaves : Spawn(s) \/ SpawnQueued(s)
    \/ Shutdown

SlaveStep ==
    \E s \in Slaves :
        \/ \E r \in Requests, c \in Cells : Call(s, r, c) \/ New(s, r, c)
        \/ \E r \in Requests :
               \/ Start(s, r) \/ AbortCancel(s, r)
               \/ Reset(s, r) \/ Delete(s, r)
        \/ Submit(s) \/ Yield(s) \/ Pause(s)
        \/ CallReturns(s) \/ AbortReturns(s) \/ End(s)

Next == PoolStep \/ LoopStep \/ SlaveStep

Spec == Init /\ [][Next]_vars

(* Fairness.  The pool runs what is queued, and timers elapse, but a       *)
(* waitable object may never be signaled.  The main loop goes on, and a    *)
(* slave keeps running and gives control back again and again.  The demo   *)
(* does not spawn tasks for ever instead of turning its loop, and its      *)
(* tasks, which do not pause, end when they wait for nothing.              *)
Fairness ==
    /\ \A r \in Requests : WF_vars(Execute(r) \/ Close(r) \/ ReportCompletion(r))
    /\ \A r \in Timers : WF_vars(Elapse(r))
    /\ WF_vars(ProcessNotification \/ NoNotification \/ CheckPending
               \/ WaitForNotification \/ Dispatch \/ DispatchReturns \/ ResumeOne)
    /\ SF_vars(Turn)
    /\ \A s \in Slaves :
        /\ WF_vars(Submit(s) \/ CallReturns(s) \/ AbortReturns(s))
        /\ SF_vars(Yield(s) \/ Pause(s) \/ (loop = "turn" /\ End(s)))

FairSpec == Spec /\ Fairness

----------------------------------------------------------------------------
(* Properties.                                                             *)

(* Every variable has its type.                                            *)
TypeOK ==
    /\ at \in [Cells -> Requests \cup {Null}]
    /\ home \in [Requests -> Cells \cup {Null}]
    /\ owner \in [Requests -> Slaves \cup {Null}]
    /\ internal \in [Requests -> {"zero", "pending", "done"}]
    /\ job \in [Requests -> JobStates]
    /\ port \in Seq(Notification)
    /\ ready \in Seq(Entry)
    /\ batch \in Seq(Entry)
    /\ loop \in Loops
    /\ current \in Slaves \cup {Master, Null}
    /\ alive \subseteq Slaves
    /\ step \in [Slaves -> Steps]
    /\ using \in [Slaves -> Requests \cup {Null}]
    /\ due \in [Requests -> Slaves \cup {Null}]

(* Exactly one completion comes for every start of a request, until it was *)
(* delivered or abort() said that none would come; otherwise none.  This   *)
(* is what lets the application count what it has in flight (Request.cpp:  *)
(* 144-195, Engine.cpp:424-452).  Between Request::start() and the         *)
(* submission, and inside abort(), the request is not counted yet.         *)
OneCompletionPerStart ==
    \A r \in Requests :
        (\A s \in Slaves : Runs(s) => using[s] # r \/ step[s] \in {"app", "waiting"})
            => Coming(r) = IF due[r] = Null THEN 0 ELSE 1

(* No completion is lost, whatever the application does except aborting: a *)
(* slave that waits for a request is going to be resumed                   *)
(* (Engine.cpp:75-118).                                                    *)
NoCompletionLost ==
    \A r \in Requests : due[r] # Null =>
        \/ Coming(r) > 0
        \/ \E s \in Slaves :
               using[s] = r /\ step[s] \in {"starting", "calling"}

(* Each notification finds the request it was posted for at its address,   *)
(* owned by the slave that waits for it: process() never meets a dead      *)
(* request, nor another one at the same place (Engine.cpp:97-117).         *)
NotificationFindsItsRequest ==
    \A i \in DOMAIN port :
        /\ at[port[i].cell] = port[i].of
        /\ due[port[i].of] = owner[port[i].of]

(* No job is left with a request that is dead: the pool never writes to a  *)
(* stack that was unwound (Request.cpp:173-174).                           *)
JobsHaveRequests == \A r \in Requests : job[r] # "none" => Live(r)

(* compute() and wait() return only when the job is over and nothing of it *)
(* is left to come: they rely on being resumed by nothing else             *)
(* (Engine.cpp:274-277, 289-292).                                          *)
CallsComplete ==
    [][\A s \in Slaves : CallReturns(s) =>
          IsReady(using[s]) /\ Coming(using[s]) = 0]_vars

(* ready() tells of the request that a slave is resumed for, in either     *)
(* main loop (Request.cpp:85-106).                                         *)
ReadyWhenDelivered ==
    [][\A r \in Requests :
          (Dispatch \/ ResumeOne) /\ due[r] # Null /\ due'[r] = Null
              => IsReady(r)]_vars

(* The master blocks in wait_for_notification() only when no slave is      *)
(* queued to run (Engine.hpp:159-162; demo/demo.cpp:271-273, which does not*)
(* look: nothing is queued because each turn resumes what it queues).      *)
BlocksOnlyWhenIdle ==
    MasterAt("wait") \/ MasterAt("turn") => ready = <<>> /\ batch = <<>>

(* compute() returns in the end, and a timer that was started is delivered *)
(* or aborted in the end, whatever else is going on (Engine.hpp:214-219).  *)
WorkReturns ==
    \A s \in Slaves :
        step[s] = "waiting" /\ using[s] \in Works ~> step[s] # "waiting"
TimersComeBack == \A r \in Timers : due[r] # Null ~> due[r] = Null
CompletionsArrive == WorkReturns /\ TimersComeBack

(* "return true if the timer had already expired" (Engine.hpp:310).        *)
AbortTrueMeansExpired ==
    [][\A s \in Slaves, r \in Timers :
          AbortReturns(s) /\ using[s] = r /\ AbortResult(r)
              => Coming(r) = 1]_vars
=============================================================================
