-------------------------------- MODULE Hub --------------------------------
(***************************************************************************)
(* The cooperative scheduler of code/Hub.cpp: one master fiber (the thread *)
(* that built the Hub) and one fiber per Task, wrapped in a heap-allocated *)
(* Hub::Slave.  Exactly one fiber runs at any time.                        *)
(*                                                                         *)
(* A slave is named by its ADDRESS: the set Slaves is the heap, and `new   *)
(* Slave' may return any address that is free, so an address can come back *)
(* with another task behind it.                                            *)
(*                                                                         *)
(* Application code is the environment: Task::run() bodies and the code    *)
(* around the hub.  What it does beyond "start one request, wait for it"   *)
(* is switched on by the constant Habits.                                  *)
(***************************************************************************)
EXTENDS SequencesExt

CONSTANTS
    Tasks,      \* Task objects of the application
    Slaves,     \* heap addresses a Hub::Slave can have
    Requests,   \* asynchronous requests (see Request in the Engine module)
    Pooled,     \* the requests that outlive the slave that started them
    Reusable,   \* the tasks the application may spawn again once dead
    Habits,     \* what application code does, a subset of AllHabits
    MaxQueue,   \* bound on the entries pending when one more is made
    Master,     \* the hub's own fiber
    Null

(* "Inactive"/"StartNow": slaves call spawn() with these modes; "Wake":    *)
(* resume_later() is called for another slave; "Multi": a slave yields, or *)
(* ends, with several requests in flight; "Swallow": a task catches        *)
(* Hub::Shutdown and goes on; "Shutdown"/"Dispatch": a slave calls         *)
(* shutdown()/resume_pending_slaves(); "PauseOther": Task::pause() is      *)
(* called for a task that is not running.                                  *)
AllHabits == {"Inactive", "StartNow", "Wake", "Multi", "Swallow",
              "Shutdown", "Dispatch", "PauseOther"}

ASSUME HubAssumption ==
    /\ IsFiniteSet(Slaves)
    /\ Master \notin Slaves
    /\ Null \notin Slaves \cup Tasks \cup Requests \cup {Master}
    /\ Pooled \subseteq Requests
    /\ Reusable \subseteq Tasks
    /\ Habits \subseteq AllHabits
    /\ MaxQueue \in Nat

VARIABLES
    hubState,     \* Hub::myState
    slaves,       \* Hub::mySlaves
    queue,        \* Hub::myQueue
    batch,        \* the local queue of resume_pending_slaves(), not yet resumed
    frame,        \* what the master fiber is in the middle of
    pass,         \* i of the loop in shutdown(), capped at 2
    current,      \* the fiber that runs; Null: control went to a deleted slave
    resuming,     \* `this' of the Slave::resume() on the master's stack
    taskState,    \* Task::myState
    mySlave,      \* Task::mySlave
    myTask,       \* Slave::myTask
    fiber,        \* where each address's fiber stands
    lastRequest,  \* Slave::myLastRequest
    inflight      \* the slave to schedule when a request completes

hubVars == <<hubState, queue, batch, frame, pass>>
taskVars == <<slaves, taskState, mySlave, myTask>>
fiberVars == <<current, resuming, fiber, lastRequest>>
vars == <<hubVars, taskVars, fiberVars, inflight>>

Entry == [slave : Slaves, request : Requests \cup {Null}]
Item(s, r) == [slave |-> s, request |-> r]
TaskStates == {"Offline", "Started", "Running", "Paused", "Closing", "Dead"}

(* fresh: entry() not entered.  running: application code.  throwing:      *)
(* Shutdown was just thrown at it.  paused/blocked: suspended below        *)
(* Task::pause() / below a request's wait.  done: past forget().           *)
FiberStates ==
    {"free", "fresh", "running", "throwing", "paused", "blocked", "done"}
Suspended == {"fresh", "paused", "blocked"}

(* "app": in the application's main loop.  "one": in a resume() call that  *)
(* returns to it.  "batch": in resume_pending_slaves().  "closing": at the *)
(* loop test of shutdown().  "sweep": in the call of                       *)
(* resume_pending_slaves() inside that loop.                               *)
Frames == {"app", "one", "batch", "closing", "sweep"}

SlavesOf(q) == {q[i].slave : i \in DOMAIN q}
Pending == ToSet(queue) \cup ToSet(batch)
HasEntry(s) == s \in SlavesOf(queue) \cup SlavesOf(batch)
InFlight(s) == \E r \in Requests : inflight[r] = s

(* The bound: a slave that has several wakeups coming and pauses at each   *)
(* one adds an entry every time, so the queue grows without limit.         *)
Short == Len(queue) + Len(batch) < MaxQueue

(* Application code that keeps to "one request, then wait for it".         *)
Single == "Multi" \notin Habits

----------------------------------------------------------------------------
(* What the master fiber does.                                             *)

AtApp == current = Master /\ resuming = Null /\ frame = "app"
MasterIn(f) == current = Master /\ resuming = Null /\ frame = f
Runs(s) == current = s /\ fiber[s] = "running"
Caller(c) == (c = Master /\ AtApp) \/ (c \in Slaves /\ Runs(c))

(* Mutant: Hub::resume() does not look at the hub's state.                 *)
Resume_NoCheck(e) ==
    LET s == e.slave IN
    /\ fiber[s] # "free"
    /\ current' = s
    /\ resuming' = s
    /\ lastRequest' = [lastRequest EXCEPT ![s] = e.request]
    /\ fiber' = [fiber EXCEPT ![s] = "running"]
    /\ taskState' = [taskState EXCEPT ![myTask[s]] = "Running"]
    /\ UNCHANGED <<slaves, mySlave, myTask>>

(* Slave::resume() up to the switch, and what the fiber does first once it *)
(* has control: a fresh one enters entry(), any other one goes through the *)
(* hub-state check of Hub::resume().                                       *)
Resume(e) ==
    LET s == e.slave IN
    \/ /\ fiber[s] = "free"
       /\ current' = Null
       /\ UNCHANGED <<taskVars, resuming, fiber, lastRequest>>
    \/ /\ fiber[s] # "free"
       /\ current' = s
       /\ resuming' = s
       /\ lastRequest' = [lastRequest EXCEPT ![s] = e.request]
       /\ fiber' = [fiber EXCEPT ![s] =
                      IF fiber[s] = "fresh" \/ hubState = "Running"
                      THEN "running" ELSE "throwing"]
       /\ taskState' = [taskState EXCEPT ![myTask[s]] =
                          IF \/ fiber[s] = "fresh"
                             \/ fiber[s] = "paused" /\ hubState = "Running"
                          THEN "Running" ELSE @]
       /\ UNCHANGED <<slaves, mySlave, myTask>>

(* Slave::resume() after the switch back: collect a slave that has ended.  *)
ResumeReturns ==
    /\ current = Master
    /\ resuming # Null
    /\ resuming' = Null
    /\ lastRequest' = [lastRequest EXCEPT ![resuming] = Null]
    /\ frame' = IF frame = "one" THEN "app" ELSE frame
    /\ LET s == resuming
           t == myTask[s]
       IN \/ /\ taskState[t] = "Closing"
             /\ taskState' = [taskState EXCEPT ![t] = "Dead"]
             /\ mySlave' = [mySlave EXCEPT ![t] = Null]
             /\ myTask' = [myTask EXCEPT ![s] = Null]
             /\ fiber' = [fiber EXCEPT ![s] = "free"]
             /\ slaves' = slaves \ {s}
          \/ /\ taskState[t] # "Closing"
             /\ UNCHANGED <<taskVars, fiber>>
    /\ UNCHANGED <<hubState, queue, batch, pass, current, inflight>>

(* resume_pending_slave(): the head of the queue, unless it is unknown.    *)
ResumePendingSlave ==
    /\ AtApp
    /\ queue # <<>>
    /\ queue' = Tail(queue)
    /\ \/ /\ Head(queue).slave \notin slaves
          /\ UNCHANGED <<taskVars, fiberVars, frame>>
       \/ /\ Head(queue).slave \in slaves
          /\ frame' = "one"
          /\ Resume(Head(queue))
    /\ UNCHANGED <<hubState, batch, pass, inflight>>

(* Mutants: the queue is copied, not swapped; only its head is taken.      *)
Steal_Copy(q, into) == batch' = q /\ queue' = queue /\ frame' = into
Steal_Head(q, into) ==
    /\ batch' = IF q = <<>> THEN q ELSE <<Head(q)>>
    /\ queue' = <<>>
    /\ frame' = into

(* resume_pending_slaves(): steal the queue, ...                           *)
Steal(q, into) ==
    /\ batch' = q
    /\ queue' = <<>>
    /\ frame' = into

ResumePendingSlaves ==
    /\ AtApp
    /\ Steal(queue, "batch")
    /\ UNCHANGED <<hubState, pass, taskVars, fiberVars, inflight>>

(* ... resume what was stolen, one by one, ...                             *)
BatchStep ==
    /\ MasterIn("batch") \/ MasterIn("sweep")
    /\ batch # <<>>
    /\ batch' = Tail(batch)
    /\ Resume(Head(batch))
    /\ UNCHANGED <<hubState, queue, frame, pass, inflight>>

(* Mutant: dispatch goes on until the queue is empty.                      *)
BatchReturns_UntilEmpty ==
    /\ MasterIn("batch") \/ MasterIn("sweep")
    /\ batch = <<>>
    /\ batch' = queue
    /\ queue' = <<>>
    /\ frame' = IF queue # <<>> THEN frame
                ELSE IF frame = "batch" THEN "app" ELSE "closing"
    /\ UNCHANGED <<hubState, pass, taskVars, fiberVars, inflight>>

(* ... and return, to the application or to the loop in shutdown().        *)
BatchReturns ==
    /\ MasterIn("batch") \/ MasterIn("sweep")
    /\ batch = <<>>
    /\ frame' = IF frame = "batch" THEN "app" ELSE "closing"
    /\ UNCHANGED <<hubState, queue, batch, pass, taskVars, fiberVars,
                   inflight>>

(* shutdown(): set the state, ...                                          *)
Shutdown ==
    /\ AtApp
    /\ hubState' = "Closing"
    /\ frame' = "closing"
    /\ pass' = 0
    /\ UNCHANGED <<queue, batch, taskVars, fiberVars, inflight>>

(* ... and while slaves are left drop the queue, schedule every slave (in  *)
(* address order, which is any order) and resume them all.                 *)
Everyone == { [i \in DOMAIN f |-> Item(f[i], Null)] : f \in SetToSeqs(slaves) }

(* Mutant: myQueue.clear() is missing and stale entries stay.              *)
ShutdownRound_NoClear ==
    /\ MasterIn("closing")
    /\ slaves # {}
    /\ batch' \in Everyone
    /\ frame' = "sweep"
    /\ pass' = IF pass < 2 THEN pass + 1 ELSE 2
    /\ UNCHANGED <<hubState, queue, taskVars, fiberVars, inflight>>

ShutdownRound ==
    /\ MasterIn("closing")
    /\ slaves # {}
    /\ \E q \in Everyone : Steal(q, "sweep")
    /\ pass' = IF pass < 2 THEN pass + 1 ELSE 2
    /\ UNCHANGED <<hubState, taskVars, fiberVars, inflight>>

(* Mutant: shutdown() makes one round only.                                *)
ShutdownReturns_OneRound ==
    /\ MasterIn("closing")
    /\ slaves = {} \/ pass = 1
    /\ frame' = "app"
    /\ UNCHANGED <<hubState, queue, batch, pass, taskVars, fiberVars,
                   inflight>>

ShutdownReturns ==
    /\ MasterIn("closing")
    /\ slaves = {}
    /\ frame' = "app"
    /\ UNCHANGED <<hubState, queue, batch, pass, taskVars, fiberVars,
                   inflight>>

(* Engine::process(): a completed request schedules its slave, whatever    *)
(* has become of that slave.                                               *)
Schedule(s, r) == queue' = Append(queue, Item(s, r))

Complete(r) ==
    /\ AtApp
    /\ inflight[r] # Null
    /\ Schedule(inflight[r], r)
    /\ inflight' = [inflight EXCEPT ![r] = Null]
    /\ UNCHANGED <<hubState, batch, frame, pass, taskVars, fiberVars>>

----------------------------------------------------------------------------
(* What the master fiber and the slaves both can do.                       *)

(* spawn(): the Slave is built, the Task started, the slave registered;    *)
(* then the mode decides.  StartNow resumes at once, and throws at a       *)
(* caller that is a slave, leaving all the rest done.                      *)
Register(t, s) ==
    /\ taskState[t] = "Offline" \/ (t \in Reusable /\ taskState[t] = "Dead")
    /\ fiber[s] = "free"
    /\ slaves' = slaves \cup {s}
    /\ mySlave' = [mySlave EXCEPT ![t] = s]
    /\ myTask' = [myTask EXCEPT ![s] = t]

SpawnDeferred(c, t, s) ==
    /\ Caller(c)
    /\ Register(t, s)
    /\ Schedule(s, Null)
    /\ taskState' = [taskState EXCEPT ![t] = "Started"]
    /\ fiber' = [fiber EXCEPT ![s] = "fresh"]
    /\ UNCHANGED <<hubState, batch, frame, pass, current, resuming,
                   lastRequest, inflight>>

(* Inactive, or a StartNow that throws.                                    *)
SpawnUnscheduled(c, t, s) ==
    /\ Caller(c)
    /\ "Inactive" \in Habits \/ ("StartNow" \in Habits /\ c # Master)
    /\ Register(t, s)
    /\ taskState' = [taskState EXCEPT ![t] = "Started"]
    /\ fiber' = [fiber EXCEPT ![s] = "fresh"]
    /\ UNCHANGED <<hubVars, current, resuming, lastRequest, inflight>>

SpawnStartNow(t, s) ==
    /\ AtApp
    /\ Register(t, s)
    /\ taskState' = [taskState EXCEPT ![t] = "Running"]
    /\ fiber' = [fiber EXCEPT ![s] = "running"]
    /\ current' = s
    /\ resuming' = s
    /\ frame' = "one"
    /\ UNCHANGED <<hubState, queue, batch, pass, lastRequest, inflight>>

(* Slave::resume_later() on behalf of a slave that is not the caller.  The *)
(* caller got the reference from Slave::self(), so s has run.              *)
Wake(c, s) ==
    /\ "Wake" \in Habits
    /\ Caller(c)
    /\ c # s
    /\ fiber[s] \in {"paused", "blocked"}
    /\ Short
    /\ Schedule(s, Null)
    /\ UNCHANGED <<hubState, batch, frame, pass, taskVars, fiberVars,
                   inflight>>

(* Task::pause() of a task that is not the caller: the state is set before *)
(* Slave::pause() refuses.                                                 *)
PauseOther(c, t) ==
    /\ "PauseOther" \in Habits
    /\ Caller(c)
    /\ mySlave[t] \notin {Null, c}
    /\ taskState' = [taskState EXCEPT ![t] = "Paused"]
    /\ UNCHANGED <<hubVars, slaves, mySlave, myTask, fiberVars, inflight>>

----------------------------------------------------------------------------
(* What a slave does while it runs.                                        *)

(* Request::start() and the initiation of the asynchronous operation.  A   *)
(* request object is used again only after its notification was dispatched.*)
Start(s, r) ==
    /\ Runs(s)
    /\ inflight[r] = Null
    /\ \A e \in Pending : e.request # r
    /\ Single => ~InFlight(s)
    /\ inflight' = [inflight EXCEPT ![r] = s]
    /\ UNCHANGED <<hubVars, taskVars, fiberVars>>

Leave(s, where) ==
    /\ fiber' = [fiber EXCEPT ![s] = where]
    /\ current' = Master
    /\ UNCHANGED <<resuming, lastRequest>>

(* Mutants: pause() forgets resume_later(); or calls it twice.             *)
Pause_Unscheduled(s) ==
    /\ Runs(s)
    /\ Single => ~InFlight(s)
    /\ taskState' = [taskState EXCEPT ![myTask[s]] = "Paused"]
    /\ Leave(s, "paused")
    /\ UNCHANGED <<hubVars, slaves, mySlave, myTask, inflight>>
Pause_Twice(s) ==
    /\ Runs(s)
    /\ Single => ~InFlight(s)
    /\ Len(queue) < 3
    /\ taskState' = [taskState EXCEPT ![myTask[s]] = "Paused"]
    /\ queue' = queue \o <<Item(s, Null), Item(s, Null)>>
    /\ Leave(s, "paused")
    /\ UNCHANGED <<hubState, batch, frame, pass, slaves, mySlave, myTask,
                   inflight>>

(* Task::pause().                                                          *)
Pause(s) ==
    /\ Runs(s)
    /\ IF Single THEN ~InFlight(s) ELSE Short
    /\ taskState' = [taskState EXCEPT ![myTask[s]] = "Paused"]
    /\ Schedule(s, Null)
    /\ Leave(s, "paused")
    /\ UNCHANGED <<hubState, batch, frame, pass, slaves, mySlave, myTask,
                   inflight>>

(* Hub::resume(), under its documented precondition.                       *)
Block(s) ==
    /\ Runs(s)
    /\ InFlight(s)
    /\ Leave(s, "blocked")
    /\ UNCHANGED <<hubVars, taskVars, inflight>>

(* Unwinding the slave's stack destroys the requests on it; what becomes   *)
(* of their notifications is the Engine's subject.                         *)
Unwind(s) ==
    inflight' = [r \in Requests |->
                   IF inflight[r] = s /\ r \notin Pooled THEN Null
                   ELSE inflight[r]]

(* Mutant: entry() skips forget().                                         *)
Finish_Remembered(s) ==
    /\ current = s
    /\ fiber[s] = "running" /\ Single => ~InFlight(s)
    /\ Unwind(s)
    /\ taskState' = [taskState EXCEPT ![myTask[s]] = "Closing"]
    /\ Leave(s, "done")
    /\ UNCHANGED <<hubVars, slaves, mySlave, myTask>>

(* run() returns or throws, or the Shutdown reaches entry(): Online's      *)
(* destructor, forget(), and the last Hub::resume().                       *)
Finish(s) ==
    /\ current = s
    /\ fiber[s] = "running" /\ Single => ~InFlight(s)
    /\ Unwind(s)
    /\ taskState' = [taskState EXCEPT ![myTask[s]] = "Closing"]
    /\ slaves' = slaves \ {s}
    /\ Leave(s, "done")
    /\ UNCHANGED <<hubVars, mySlave, myTask>>

(* Application code catches the Shutdown and carries on: the assignment    *)
(* that follows mySlave->pause() in Task::pause() was skipped.             *)
Swallow(s) ==
    /\ "Swallow" \in Habits
    /\ current = s
    /\ fiber[s] = "throwing"
    /\ fiber' = [fiber EXCEPT ![s] = "running"]
    /\ Unwind(s)
    /\ UNCHANGED <<hubVars, taskVars, current, resuming, lastRequest>>

(* resume_pending_slaves() called by a slave: the stolen queue dies with   *)
(* the exception that its first resume() throws.                           *)
SlaveDispatch(s) ==
    /\ "Dispatch" \in Habits
    /\ Runs(s)
    /\ queue' = <<>>
    /\ UNCHANGED <<hubState, batch, frame, pass, taskVars, fiberVars,
                   inflight>>

(* shutdown() called by a slave: the same, once the state is set.          *)
SlaveShutdown(s) ==
    /\ "Shutdown" \in Habits
    /\ Runs(s)
    /\ hubState' = "Closing"
    /\ queue' = <<>>
    /\ UNCHANGED <<batch, frame, pass, taskVars, fiberVars, inflight>>

----------------------------------------------------------------------------
Init ==
    /\ hubState = "Running"
    /\ slaves = {}
    /\ queue = <<>> /\ batch = <<>>
    /\ frame = "app" /\ pass = 0
    /\ current = Master /\ resuming = Null
    /\ taskState = [t \in Tasks |-> "Offline"]
    /\ mySlave = [t \in Tasks |-> Null]
    /\ myTask = [s \in Slaves |-> Null]
    /\ fiber = [s \in Slaves |-> "free"]
    /\ lastRequest = [s \in Slaves |-> Null]
    /\ inflight = [r \in Requests |-> Null]

MasterStep ==
    \/ ResumeReturns \/ ResumePendingSlave \/ ResumePendingSlaves
    \/ BatchStep \/ BatchReturns
    \/ Shutdown \/ ShutdownRound \/ ShutdownReturns
    \/ \E r \in Requests : Complete(r)
    \/ \E t \in Tasks, s \in Slaves : SpawnStartNow(t, s)

SharedStep ==
    \E c \in Slaves \cup {Master} :
        \/ \E t \in Tasks, s \in Slaves :
               SpawnDeferred(c, t, s) \/ SpawnUnscheduled(c, t, s)
        \/ \E s \in Slaves : Wake(c, s)
        \/ \E t \in Tasks : PauseOther(c, t)

SlaveStep ==
    \E s \in Slaves :
        \/ \E r \in Requests : Start(s, r)
        \/ Pause(s) \/ Block(s) \/ Finish(s) \/ Swallow(s)
        \/ SlaveDispatch(s) \/ SlaveShutdown(s)

Next == MasterStep \/ SharedStep \/ SlaveStep

Spec == Init /\ [][Next]_vars

(* Fairness.  The master's calls run to their end.  A slave that runs      *)
(* gives control back (scheduling is cooperative: nothing can take it      *)
(* away), and one that Shutdown is thrown at time and again unwinds in the *)
(* end.  The main loop keeps coming back to resume_pending_slaves().       *)
Fairness ==
    /\ WF_vars(ResumeReturns \/ BatchStep \/ BatchReturns)
    /\ WF_vars(ShutdownRound \/ ShutdownReturns)
    /\ SF_vars(ResumePendingSlaves)
    /\ \A s \in Slaves :
        /\ WF_vars(Pause(s) \/ Block(s) \/ Finish(s))
        /\ SF_vars(fiber[s] = "throwing" /\ Finish(s))

FairSpec == Spec /\ Fairness

----------------------------------------------------------------------------
(* Properties.                                                             *)

(* Every variable has its type.                                            *)
TypeOK ==
    /\ hubState \in {"Running", "Closing"}
    /\ slaves \subseteq Slaves
    /\ queue \in Seq(Entry)
    /\ batch \in Seq(Entry)
    /\ frame \in Frames
    /\ pass \in 0..2
    /\ current \in Slaves \cup {Master, Null}
    /\ resuming \in Slaves \cup {Null}
    /\ taskState \in [Tasks -> TaskStates]
    /\ mySlave \in [Tasks -> Slaves \cup {Null}]
    /\ myTask \in [Slaves -> Tasks \cup {Null}]
    /\ fiber \in [Slaves -> FiberStates]
    /\ lastRequest \in [Slaves -> Requests \cup {Null}]
    /\ inflight \in [Requests -> Slaves \cup {Null}]

(* No deleted slave is ever resumed: resume_pending_slaves() has no        *)
(* exists() check, so what keeps it safe is that no entry outlives its     *)
(* slave (Hub.cpp:118-122).                                                *)
NoWildResume == current # Null

Unique(q) == \A i, j \in DOMAIN q : q[i].slave = q[j].slave => i = j

(* "Holds slaves ready to resume." (Hub.hpp:92): every slave scheduled, in *)
(* the hub's queue or in a stolen one, is alive and suspended, and is      *)
(* scheduled once in that queue.                                           *)
QueueIsReady ==
    /\ \A s \in SlavesOf(queue) \cup SlavesOf(batch) :
           s \in slaves /\ fiber[s] \in Suspended
    /\ Unique(queue) /\ Unique(batch)
    /\ SlavesOf(queue) \cap SlavesOf(batch) = {}

(* No wakeup is lost: a suspended slave is scheduled, or a request it      *)
(* waits for is still in flight, whatever is cleared, stolen or dropped    *)
(* on the way (Hub.cpp:108-129, 177).                                      *)
NoLostWakeup ==
    \A s \in Slaves : fiber[s] \in Suspended =>
        HasEntry(s) \/ (fiber[s] = "blocked" /\ InFlight(s))

(* A slave that waits for a request runs again only because that request   *)
(* completed, and is told so by last_request(): what compute(), wait() and *)
(* the socket calls rely on when they return without testing anything      *)
(* (Engine.cpp:265-293).                                                   *)
ResumedByCompletion ==
    [][\A s \in Slaves : fiber[s] = "blocked" /\ fiber'[s] = "running" =>
          lastRequest'[s] # Null /\ ~InFlight(s)]_vars

(* When shutdown() returns, every task that was spawned is dead, nothing   *)
(* is scheduled and no request on a task's stack is left (Hub.cpp:157-190).*)
ShutdownPost ==
    [][frame = "closing" /\ frame' = "app" =>
          /\ \A t \in Tasks : taskState[t] \in {"Offline", "Dead"}
          /\ \A s \in Slaves : fiber[s] = "free"
          /\ queue = <<>>
          /\ \A r \in Requests \ Pooled : inflight[r] = Null]_vars

(* Dispatching one slave at a time survives entries that outlived their    *)
(* slave (Hub.cpp:99-102).                                                 *)
SingleDispatchSafe == [][ResumePendingSlave => current' # Null]_vars

(* The master gets back to its main loop time and again, so that I/O       *)
(* notifications are processed even if tasks do nothing but pause()        *)
(* (Hub.hpp:124-129).                                                      *)
EngineNotStarved == []<>AtApp

(* A task that pauses gets to run again (Hub.hpp:206).                     *)
PausedResumes ==
    \A s \in Slaves : fiber[s] = "paused" ~> fiber[s] # "paused"

(* A call of shutdown() ends, even if tasks intercept the exception again  *)
(* and again and spawn others on their way out (Hub.cpp:166-189).          *)
ShutdownEnds == frame = "closing" ~> AtApp

(* "Force all slaves to end." (Hub.hpp:149): once shutdown() was called no *)
(* suspended slave is left that nothing is going to resume.                *)
ClosingStrandsNone == hubState = "Closing" => NoLostWakeup

(* "StartNow, // start before returning." (Hub.hpp:74): no spawned slave   *)
(* is left that has neither started nor been queued.                       *)
StartNowStarts == \A s \in Slaves : fiber[s] = "fresh" => HasEntry(s)
=============================================================================
