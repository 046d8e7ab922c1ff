------------------------------- MODULE HubInv -------------------------------
(***************************************************************************)
(* The inductive invariants behind the safety properties of Hub.           *)
(***************************************************************************)
EXTENDS Hub

(* Where control is: the slave that runs is the one the master resumed,    *)
(* and the master's call stack fits (Hub.cpp:355-380).                     *)
ControlInv ==
    /\ current \in Slaves =>
          /\ resuming = current
          /\ fiber[current] \in {"running", "throwing"}
    /\ resuming # Null /\ current = Master =>
          fiber[resuming] \in {"paused", "blocked", "done"}
    /\ \A s \in Slaves :
          /\ fiber[s] \in {"running", "throwing"} => current = s
          /\ fiber[s] = "done" => current = Master /\ resuming = s
    /\ frame \in {"app", "closing"} => resuming = Null
    /\ frame \in {"closing", "sweep"} => hubState = "Closing"
    /\ frame \in {"app", "closing", "one"} => batch = <<>>

(* Who is whose: a live Slave and its Task point at each other, and the    *)
(* task's state says whether it has one (Hub.cpp:66-70, 375-378).          *)
LinkInv ==
    /\ \A s \in Slaves :
          /\ s \in slaves <=> fiber[s] \notin {"free", "done"}
          /\ fiber[s] = "free" <=> myTask[s] = Null
          /\ myTask[s] # Null =>
                /\ mySlave[myTask[s]] = s
                /\ taskState[myTask[s]] = "Closing" <=> fiber[s] = "done"
    /\ \A t \in Tasks :
          /\ taskState[t] \in {"Offline", "Dead"} <=> mySlave[t] = Null
          /\ mySlave[t] # Null => myTask[mySlave[t]] = t

StructInv == TypeOK /\ ControlInv /\ LinkInv

(* Application code that waits for one request at a time, leaves other     *)
(* slaves alone and keeps its requests on its own stack.                   *)
Calm == Habits \cap {"Multi", "Wake"} = {} /\ Pooled = {}

(* A slave has at most one wakeup coming: one entry, or one request in     *)
(* flight.  Only a shutdown schedules slaves whose request is in flight;   *)
(* those requests die with the stack before any of them is dispatched.     *)
TokenInv ==
    /\ \A r1, r2 \in Requests :
          inflight[r1] = inflight[r2] /\ inflight[r1] # Null => r1 = r2
    /\ \A r \in Requests : inflight[r] # Null =>
          /\ fiber[inflight[r]] \in {"running", "throwing", "blocked"}
          /\ inflight[r] \notin SlavesOf(queue)
          /\ frame # "sweep" => inflight[r] \notin SlavesOf(batch)

(* An entry for a slave that waits carries the request it waits for, until *)
(* a shutdown schedules everybody.                                         *)
CarriesInv ==
    hubState = "Running" =>
        \A e \in Pending : fiber[e.slave] = "blocked" => e.request # Null

CalmInv == StructInv /\ NoWildResume /\ QueueIsReady /\ TokenInv

(* CalmInv, as an invariant of any run.                                    *)
CalmInvWhenCalm == Calm => CalmInv /\ CarriesInv

(* No slave is created unscheduled and nothing drops the queue.            *)
Scheduling == Habits \cap {"Inactive", "StartNow", "Shutdown", "Dispatch"} = {}
=============================================================================
