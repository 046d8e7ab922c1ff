--------------------------- MODULE HubRefinement ---------------------------
(* Hub implements TaskLife.  A deleted slave that gets control is mapped   *)
(* to a runner that is no task, which TaskLife never allows.               *)
EXTENDS Hub

Phase(state) ==
    CASE state = "Offline" -> "offline"
      [] state = "Closing" -> "ended"
      [] state = "Dead" -> "dead"
      [] OTHER -> "alive"

phaseBar == [t \in Tasks |-> Phase(taskState[t])]
runnerBar == CASE current = Master -> Null
               [] current = Null -> "stray"
               [] OTHER -> myTask[current]
closingBar == frame \in {"closing", "sweep"}

Life == INSTANCE TaskLife
          WITH phase <- phaseBar, runner <- runnerBar, closing <- closingBar

(* Every behaviour of the scheduler, seen through the mapping, is one of   *)
(* the abstract task life cycle (Hub.cpp, all of it).                      *)
ImplementsTaskLife == Life!LifeSpec
=============================================================================
