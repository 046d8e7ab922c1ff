------------------------------ MODULE TaskLife ------------------------------
(***************************************************************************)
(* What the scheduler of Hub.cpp promises, without queues, fibers or       *)
(* addresses: a task lives once per spawn, at most one task runs, only a   *)
(* living task is ever given control, a task that ended is collected       *)
(* before anything else runs, and a shutdown is over only when nobody is   *)
(* left alive.                                                             *)
(***************************************************************************)
CONSTANTS Tasks, Reusable, Null

VARIABLES
    phase,      \* "offline", "alive", "ended" (run() is over) or "dead"
    runner,     \* the task that has control, or Null
    closing     \* a shutdown is going on

lifeVars == <<phase, runner, closing>>

Phases == {"offline", "alive", "ended", "dead"}

LifeInit ==
    /\ phase = [t \in Tasks |-> "offline"]
    /\ runner = Null
    /\ closing = FALSE

Spawnable(t) == phase[t] = "offline" \/ (t \in Reusable /\ phase[t] = "dead")
NoneEnded == \A t \in Tasks : phase[t] # "ended"

Spawn(t) ==
    /\ Spawnable(t)
    /\ NoneEnded
    /\ phase' = [phase EXCEPT ![t] = "alive"]
    /\ UNCHANGED <<runner, closing>>

SpawnAndRun(t) ==
    /\ Spawnable(t)
    /\ NoneEnded
    /\ runner = Null
    /\ ~closing
    /\ phase' = [phase EXCEPT ![t] = "alive"]
    /\ runner' = t
    /\ UNCHANGED closing

Run(t) ==
    /\ phase[t] = "alive"
    /\ NoneEnded
    /\ runner = Null
    /\ runner' = t
    /\ UNCHANGED <<phase, closing>>

Yield(t) ==
    /\ runner = t
    /\ runner' = Null
    /\ UNCHANGED <<phase, closing>>

End(t) ==
    /\ runner = t
    /\ phase' = [phase EXCEPT ![t] = "ended"]
    /\ runner' = Null
    /\ UNCHANGED closing

Collect(t) ==
    /\ phase[t] = "ended"
    /\ phase' = [phase EXCEPT ![t] = "dead"]
    /\ UNCHANGED <<runner, closing>>

StartClosing ==
    /\ NoneEnded
    /\ runner = Null
    /\ closing' = TRUE
    /\ UNCHANGED <<phase, runner>>

StopClosing ==
    /\ closing
    /\ runner = Null
    /\ \A t \in Tasks : phase[t] \in {"offline", "dead"}
    /\ closing' = FALSE
    /\ UNCHANGED <<phase, runner>>

LifeNext ==
    \/ \E t \in Tasks :
          \/ Spawn(t) \/ SpawnAndRun(t) \/ Run(t)
          \/ Yield(t) \/ End(t) \/ Collect(t)
    \/ StartClosing \/ StopClosing

LifeSpec == LifeInit /\ [][LifeNext]_lifeVars
=============================================================================
