---------------------------- MODULE RequestLife ----------------------------
(***************************************************************************)
(* What Engine.cpp and Request.cpp promise to code that counts what it has *)
(* in flight, without addresses, threads, notifications or queues: every   *)
(* start of a request is answered at most once, after the request has      *)
(* completed, by giving control to the slave that started it, which is     *)
(* alive; the slave may abandon a request until it completes.  A slave in  *)
(* compute() or wait() gets control by the answer to that one call only.   *)
(***************************************************************************)
CONSTANTS Slaves, Requests, Master, Null

VARIABLES
    alive,   \* the slaves there are
    runner,  \* the slave that has control, or Master
    phase,   \* "idle", "pending" or "complete"
    waiter,  \* the slave that each request's answer is due to, or Null
    call     \* the request whose answer a slave waits for in a call, or Null

lifeVars == <<alive, runner, phase, waiter, call>>

LifeInit ==
    /\ alive = {} /\ runner = Master
    /\ phase = [r \in Requests |-> "idle"]
    /\ waiter = [r \in Requests |-> Null]
    /\ call = [s \in Slaves |-> Null]

WaitsForNothing(s) == \A r \in Requests : waiter[r] # s

(* A slave comes to life, and runs at once or later.                       *)
Enter(s) ==
    /\ runner = Master /\ s \notin alive
    /\ alive' = alive \cup {s}
    /\ runner' \in {Master, s}
    /\ UNCHANGED <<phase, waiter, call>>

Leave(s) ==
    /\ runner = s /\ call[s] = Null /\ WaitsForNothing(s)
    /\ alive' = alive \ {s}
    /\ runner' = Master
    /\ UNCHANGED <<phase, waiter, call>>

Begin(s, r) ==
    /\ runner = s /\ call[s] = Null
    /\ phase[r] = "idle"
    /\ phase' = [phase EXCEPT ![r] = "pending"]
    /\ waiter' = [waiter EXCEPT ![r] = s]
    /\ UNCHANGED <<alive, runner>>

Start(s, r) == Begin(s, r) /\ UNCHANGED call

Call(s, r) ==
    /\ WaitsForNothing(s) /\ Begin(s, r)
    /\ call' = [call EXCEPT ![s] = r]

(* The environment's step.                                                 *)
Complete(r) ==
    /\ phase[r] = "pending"
    /\ phase' = [phase EXCEPT ![r] = "complete"]
    /\ UNCHANGED <<alive, runner, waiter, call>>

Abandon(s, r) ==
    /\ runner = s /\ call[s] = Null
    /\ waiter[r] = s /\ phase[r] = "pending"
    /\ phase' = [phase EXCEPT ![r] = "idle"]
    /\ waiter' = [waiter EXCEPT ![r] = Null]
    /\ UNCHANGED <<alive, runner, call>>

(* Inside a call a slave does not give up control once it has its answer.  *)
Yield(s) ==
    /\ runner = s
    /\ call[s] # Null => waiter[call[s]] = s
    /\ runner' = Master
    /\ UNCHANGED <<alive, phase, waiter, call>>

(* Control comes back for no request: after Task::pause().                 *)
Resume(s) ==
    /\ runner = Master /\ s \in alive /\ call[s] = Null
    /\ runner' = s
    /\ UNCHANGED <<alive, phase, waiter, call>>

Answer(s, r) ==
    /\ runner = Master /\ s \in alive /\ call[s] \in {Null, r}
    /\ waiter[r] = s /\ phase[r] = "complete"
    /\ phase' = [phase EXCEPT ![r] = "idle"]
    /\ waiter' = [waiter EXCEPT ![r] = Null]
    /\ runner' = s
    /\ UNCHANGED <<alive, call>>

Return(s) ==
    /\ runner = s /\ call[s] # Null /\ waiter[call[s]] = Null
    /\ call' = [call EXCEPT ![s] = Null]
    /\ UNCHANGED <<alive, runner, phase, waiter>>

LifeNext ==
    \/ \E s \in Slaves :
          \/ Enter(s) \/ Leave(s) \/ Yield(s) \/ Resume(s) \/ Return(s)
          \/ \E r \in Requests :
                Start(s, r) \/ Call(s, r) \/ Abandon(s, r) \/ Answer(s, r)
    \/ \E r \in Requests : Complete(r)

LifeSpec == LifeInit /\ [][LifeNext]_lifeVars
=============================================================================
