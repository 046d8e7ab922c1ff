-------------------------- MODULE EngineRefinement --------------------------
(* Engine implements RequestLife.  A start is answered when the slave is   *)
(* resumed for it, and until then the mark in the OVERLAPPED says whether  *)
(* it is complete.  What a request does while nobody waits for it, also    *)
(* where it is and whether it is at all, cannot be seen.                   *)
EXTENDS Engine

phaseBar ==
    [r \in Requests |-> IF due[r] = Null THEN "idle"
                        ELSE IF IsReady(r) THEN "complete" ELSE "pending"]
callBar ==
    [s \in Slaves |-> IF step[s] \in {"calling", "yielding", "waiting"}
                      THEN using[s] ELSE Null]

Life == INSTANCE RequestLife
          WITH runner <- current, phase <- phaseBar, waiter <- due, call <- callBar

(* Engine, Request and the pool answer each start once, to the slave that  *)
(* waits for it and to nobody else, and never before the job is done       *)
(* (Engine.cpp:53-118, 270-452; Request.cpp:49-195).                       *)
ImplementsRequestLife == Life!LifeSpec
=============================================================================
