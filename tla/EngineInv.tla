----------------------------- MODULE EngineInv -----------------------------
(***************************************************************************)
(* The inductive invariants behind the safety properties of Engine.        *)
(***************************************************************************)
EXTENDS Engine

Busy == {"starting", "calling", "yielding", "aborting"}

(* Where control is: a slave that is in the middle of a call runs, unless  *)
(* the call yields, and the master's loop stands where slaves are resumed. *)
ControlInv ==
    /\ current \in Slaves => current \in alive
    /\ current # Master => loop \in {"process", "dispatch", "turn"}
    /\ loop # "dispatch" => batch = <<>>
    /\ \A s \in Slaves :
          /\ step[s] \in Busy => current = s
          /\ step[s] # "app" => using[s] # Null
          /\ step[s] \in {"starting", "calling"} => Live(using[s])
          /\ step[s] = "aborting" => using[s] \in Timers

(* Addresses and owners: what a request's destructor leaves is forgotten   *)
(* everywhere but in the pool and in notifications, which keep the address *)
(* (Request.cpp:144-195).                                                  *)
AddressInv ==
    /\ \A c \in Cells : at[c] # Null => home[at[c]] = c /\ owner[at[c]] # Null
    /\ \A r \in Requests :
          /\ owner[r] # Null => Live(r) /\ owner[r] \in alive
          /\ job[r] # "none" => home[r] # Null
          /\ due[r] # Null => owner[r] = due[r]
    /\ \A n \in ToSet(port) : home[n.of] \in {n.cell, Null}

StructInv == TypeOK /\ ControlInv /\ AddressInv

(* What brings r back to the slave that is waiting for it: its job, then   *)
(* its notification, then an entry for just this slave.                    *)
Announced(r) ==
    \/ job[r] # "none"
    \/ \E n \in ToSet(port) : n.of = r
    \/ Item(due[r], r) \in ToSet(ready) \cup ToSet(batch)
    \/ \E s \in Slaves : using[s] = r /\ step[s] \in {"starting", "calling"}

AnnouncedInv == \A r \in Works \cup Waits : due[r] # Null => Announced(r)

(* Application code that keeps a request until its completion has come.    *)
Calm == Habits \cap {"Mixed", "Unwind", "ReadyExit"} = {}

(* One completion for every start, and ready() tells whether close() was   *)
(* called for it.  A request that was only just started, or whose timer    *)
(* was stopped, has none.                                                  *)
CompletionInv ==
    \A r \in Requests :
        /\ Coming(r) = 0
           \/ (due[r] # Null /\ Coming(r) = 1)
        /\ due[r] # Null /\ Coming(r) = 0 =>
              /\ internal[r] = "pending"
              /\ \E s \in Slaves : using[s] = r
                                   /\ step[s] \in {"starting", "calling", "aborting"}
        /\ Coming(r) = 1 =>
              (internal[r] = IF job[r] \in {"armed", "queued", "running"}
                             THEN "pending" ELSE "done")

(* A slave inside compute() or wait() has nothing coming but the request   *)
(* it waits for, and entries are for slaves that wait for them.            *)
CallInv ==
    /\ \A s \in Slaves :
          /\ step[s] \in {"starting", "calling"} =>
                due[using[s]] = s /\ Coming(using[s]) = 0
          /\ step[s] = "aborting" =>
                due[using[s]] \in {s, Null} /\ job[using[s]] # "armed"
          /\ step[s] = "yielding" => due[using[s]] = s
          /\ step[s] = "waiting" =>
                \/ due[using[s]] = s /\ current # s
                \/ due[using[s]] = Null /\ current = s /\ internal[using[s]] = "done"
          /\ step[s] \in {"calling", "yielding", "waiting"} =>
                /\ \A r \in Requests : due[r] = s => r = using[s]
                /\ \A e \in ToSet(ready) \cup ToSet(batch) :
                       e.slave = s => e.request = using[s]
    /\ \A e \in ToSet(ready) \cup ToSet(batch) :
          /\ e.slave \in alive
          /\ e.request # Null => due[e.request] = e.slave

CalmInv == StructInv /\ current # Null /\ CompletionInv /\ CallInv

CalmInvWhenCalm == Calm => CalmInv

(* The loop of demo/demo.cpp resumes what it queues, one by one, and the   *)
(* other one looks before it waits.                                        *)
QueueInv ==
    /\ loop \in {"wait", "turn"} => ready = <<>>
    /\ loop = "resume" => Len(ready) <= 1
=============================================================================
