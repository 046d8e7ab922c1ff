----------------------------- MODULE HubProofs -----------------------------
(***************************************************************************)
(* Theorems about Hub, for every set of tasks, addresses and requests.     *)
(***************************************************************************)
EXTENDS HubInv, HubRefinement, TLAPS, FiniteSetTheorems

----------------------------------------------------------------------------
(* The queues.                                                             *)

(* An entry is a slave and a request (or none).                            *)
LEMMA ItemFacts ==
    ASSUME NEW s \in Slaves, NEW r \in Requests \cup {Null}
    PROVE  /\ Item(s, r) \in Entry
           /\ Item(s, r).slave = s
           /\ Item(s, r).request = r
BY DEF Item, Entry

(* What push_back() does to the set of slaves in a queue.                  *)
LEMMA AppendSlaves ==
    ASSUME NEW q \in Seq(Entry), NEW e \in Entry
    PROVE  /\ Append(q, e) \in Seq(Entry)
           /\ SlavesOf(Append(q, e)) = SlavesOf(q) \cup {e.slave}
           /\ Unique(q) /\ e.slave \notin SlavesOf(q) => Unique(Append(q, e))
<1>1. Append(q, e) \in Seq(Entry)
  OBVIOUS
<1>2. /\ DOMAIN q = 1..Len(q)
      /\ DOMAIN Append(q, e) = 1..(Len(q) + 1)
      /\ \A i \in 1..Len(q) : Append(q, e)[i] = q[i]
      /\ Append(q, e)[Len(q) + 1] = e
      /\ Len(q) \in Nat
  OBVIOUS
<1>3. SlavesOf(Append(q, e)) = SlavesOf(q) \cup {e.slave}
  BY <1>2 DEF SlavesOf
<1>4. Unique(q) /\ e.slave \notin SlavesOf(q) => Unique(Append(q, e))
  BY <1>2 DEF SlavesOf, Unique
<1> QED
  BY <1>1, <1>3, <1>4

(* What pop_front(), or one step of an iterator, does to that set.         *)
LEMMA TailSlaves ==
    ASSUME NEW q \in Seq(Entry), q # <<>>
    PROVE  /\ Head(q) \in Entry
           /\ Tail(q) \in Seq(Entry)
           /\ SlavesOf(q) = {Head(q).slave} \cup SlavesOf(Tail(q))
           /\ Unique(q) => /\ Unique(Tail(q))
                           /\ Head(q).slave \notin SlavesOf(Tail(q))
<1>1. Head(q) \in Entry /\ Tail(q) \in Seq(Entry)
  OBVIOUS
<1>2. /\ DOMAIN q = 1..Len(q)
      /\ DOMAIN Tail(q) = 1..(Len(q) - 1)
      /\ \A i \in 1..(Len(q) - 1) : Tail(q)[i] = q[i + 1]
      /\ Head(q) = q[1]
      /\ Len(q) \in Nat \ {0}
  OBVIOUS
<1>3. \A i \in 1..Len(q) : i = 1 \/ (i - 1 \in 1..(Len(q) - 1) /\ q[i] = Tail(q)[i - 1])
  BY <1>2
<1>4. SlavesOf(q) = {Head(q).slave} \cup SlavesOf(Tail(q))
  <2>1. 1 \in 1..Len(q) /\ \A i \in 1..(Len(q) - 1) : i + 1 \in 1..Len(q)
    BY <1>2
  <2>2. {Head(q).slave} \cup SlavesOf(Tail(q)) \subseteq SlavesOf(q)
    BY <1>2, <2>1 DEF SlavesOf
  <2>3. ASSUME NEW i \in 1..Len(q)
        PROVE  q[i].slave \in {Head(q).slave} \cup SlavesOf(Tail(q))
    BY <1>2, <1>3 DEF SlavesOf
  <2> QED
    BY <1>2, <2>2, <2>3 DEF SlavesOf
<1>5. ASSUME Unique(q)
      PROVE  Unique(Tail(q)) /\ Head(q).slave \notin SlavesOf(Tail(q))
  BY <1>2, <1>5 DEF SlavesOf, Unique
<1> QED
  BY <1>1, <1>4, <1>5

(* The same two facts about whole entries.                                 *)
LEMMA AppendEntries ==
    ASSUME NEW q \in Seq(Entry), NEW e \in Entry
    PROVE  ToSet(Append(q, e)) = ToSet(q) \cup {e}
<1>1. /\ DOMAIN q = 1..Len(q)
      /\ DOMAIN Append(q, e) = 1..(Len(q) + 1)
      /\ \A i \in 1..Len(q) : Append(q, e)[i] = q[i]
      /\ Append(q, e)[Len(q) + 1] = e
      /\ Len(q) \in Nat
  OBVIOUS
<1> QED
  BY <1>1 DEF ToSet

LEMMA TailEntries ==
    ASSUME NEW q \in Seq(Entry), q # <<>>
    PROVE  Head(q) \in ToSet(q) /\ ToSet(Tail(q)) \subseteq ToSet(q)
<1>1. /\ DOMAIN q = 1..Len(q)
      /\ DOMAIN Tail(q) = 1..(Len(q) - 1)
      /\ \A i \in 1..(Len(q) - 1) : Tail(q)[i] = q[i + 1]
      /\ Head(q) = q[1]
      /\ Len(q) \in Nat \ {0}
  OBVIOUS
<1>2. 1 \in 1..Len(q) /\ \A i \in 1..(Len(q) - 1) : i + 1 \in 1..Len(q)
  BY <1>1
<1> QED
  BY <1>1, <1>2 DEF ToSet

(* An entry's slave is among the slaves of its queue.                      *)
LEMMA EntrySlaves ==
    ASSUME NEW q, NEW e \in ToSet(q)
    PROVE  e.slave \in SlavesOf(q)
BY DEF ToSet, SlavesOf

(* A cleared or stolen queue is empty.                                     *)
LEMMA EmptySlaves ==
    /\ <<>> \in Seq(Entry)
    /\ SlavesOf(<<>>) = {}
    /\ ToSet(<<>>) = {}
    /\ Unique(<<>>)
BY DEF SlavesOf, ToSet, Unique

(* The queue that shutdown() builds holds every slave, once.               *)
LEMMA EveryoneSlaves ==
    ASSUME slaves \subseteq Slaves, NEW q \in Everyone
    PROVE  /\ q \in Seq(Entry)
           /\ SlavesOf(q) = slaves
           /\ Unique(q)
<1> DEFINE n == Cardinality(slaves)
<1>1. IsFiniteSet(slaves) /\ n \in Nat
  BY HubAssumption, FS_Subset, FS_CardinalityType
<1>2. PICK f \in SetToSeqs(slaves) : q = [i \in DOMAIN f |-> Item(f[i], Null)]
  BY DEF Everyone
<1>3. /\ f \in [1..n -> slaves]
      /\ \A i, j \in 1..n : f[i] = f[j] => i = j
  BY <1>2 DEF SetToSeqs
<1>4. f \in Injection(1..n, slaves)
  BY <1>3 DEF Injection, IsInjective
<1>5. IsFiniteSet(1..n) /\ Cardinality(1..n) = n
  BY <1>1, FS_Interval
<1>6. f \in Surjection(1..n, slaves)
  BY <1>1, <1>4, <1>5, FS_Injection
<1>7. \A s \in slaves : \E i \in 1..n : f[i] = s
  BY <1>6 DEF Surjection
<1>8. /\ DOMAIN q = 1..n
      /\ \A i \in 1..n : q[i] \in Entry /\ q[i].slave = f[i]
  BY <1>2, <1>3, ItemFacts
<1>9. q \in [1..n -> Entry]
  BY <1>2, <1>8
<1>10. q \in Seq(Entry)
  BY <1>1, <1>9
<1>11. SlavesOf(q) = slaves
  BY <1>3, <1>7, <1>8 DEF SlavesOf
<1>12. Unique(q)
  BY <1>3, <1>8 DEF Unique
<1> QED
  BY <1>10, <1>11, <1>12

----------------------------------------------------------------------------
(* Control and ownership, whatever application code does.                  *)

LEMMA StructInit == Init => StructInv
<1> SUFFICES ASSUME Init
             PROVE  StructInv
  OBVIOUS
<1>1. TypeOK
  BY EmptySlaves DEF Init, TypeOK, Frames, TaskStates, FiberStates
<1>2. ControlInv
  BY HubAssumption DEF Init, ControlInv
<1>3. LinkInv
  BY HubAssumption DEF Init, LinkInv
<1> QED
  BY <1>1, <1>2, <1>3 DEF StructInv

(* What Slave::resume() does to a slave that exists.                       *)
LEMMA ResumeFacts ==
    ASSUME StructInv, current = Master, resuming = Null,
           NEW e \in Entry, Resume(e), fiber[e.slave] # "free"
    PROVE  /\ myTask[e.slave] \in Tasks
           /\ current' = e.slave
           /\ resuming' = e.slave
           /\ lastRequest' = [lastRequest EXCEPT ![e.slave] = e.request]
           /\ UNCHANGED <<slaves, mySlave, myTask>>
           /\ \E f \in {"running", "throwing"},
                 k \in TaskStates \ {"Closing", "Offline", "Dead"} :
                /\ fiber' = [fiber EXCEPT ![e.slave] = f]
                /\ taskState' = [taskState EXCEPT ![myTask[e.slave]] = k]
<1> DEFINE s == e.slave
           f == IF fiber[s] = "fresh" \/ hubState = "Running"
                THEN "running" ELSE "throwing"
           k == IF \/ fiber[s] = "fresh"
                   \/ fiber[s] = "paused" /\ hubState = "Running"
                THEN "Running" ELSE taskState[myTask[s]]
<1>1. s \in Slaves /\ myTask[s] \in Tasks
  BY DEF Entry, StructInv, TypeOK, LinkInv
<1>2. taskState[myTask[s]] \in TaskStates \ {"Closing", "Offline", "Dead"}
  BY <1>1, HubAssumption DEF StructInv, TypeOK, LinkInv, ControlInv, TaskStates
<1>3. /\ f \in {"running", "throwing"}
      /\ k \in TaskStates \ {"Closing", "Offline", "Dead"}
  BY <1>2 DEF TaskStates
<1>4. /\ fiber' = [fiber EXCEPT ![s] = f]
      /\ taskState' = [taskState EXCEPT ![myTask[s]] = k]
      /\ current' = s /\ resuming' = s
      /\ lastRequest' = [lastRequest EXCEPT ![s] = e.request]
      /\ UNCHANGED <<slaves, mySlave, myTask>>
  BY DEF Resume
<1> HIDE DEF f, k
<1> QED
  BY <1>1, <1>3, <1>4

LEMMA StructStep == StructInv /\ [Next]_vars => StructInv'
<1> SUFFICES ASSUME StructInv, [Next]_vars
             PROVE  StructInv'
  OBVIOUS
<1> USE HubAssumption, ItemFacts, EmptySlaves
    DEF StructInv, TypeOK, ControlInv, LinkInv, Frames, TaskStates,
        FiberStates, Suspended, hubVars, taskVars, fiberVars, AtApp, MasterIn,
        Runs, Caller, Schedule, Leave
<1>1. CASE UNCHANGED vars
  BY <1>1 DEF vars
<1>2. CASE ResumeReturns
  <2> DEFINE s == resuming
             t == myTask[s]
  <2>1. s \in Slaves /\ fiber[s] # "free" /\ t \in Tasks
    BY <1>2 DEF ResumeReturns
  <2>2. CASE taskState[t] = "Closing"
    <3>1. /\ taskState' = [taskState EXCEPT ![t] = "Dead"]
          /\ mySlave' = [mySlave EXCEPT ![t] = Null]
          /\ myTask' = [myTask EXCEPT ![s] = Null]
          /\ fiber' = [fiber EXCEPT ![s] = "free"]
          /\ slaves' = slaves \ {s}
          /\ lastRequest' = [lastRequest EXCEPT ![s] = Null]
          /\ resuming' = Null
          /\ frame' = IF frame = "one" THEN "app" ELSE frame
          /\ UNCHANGED <<hubState, queue, batch, pass, current, inflight>>
      BY <1>2, <2>2 DEF ResumeReturns
    <3>2. taskState' \in [Tasks -> TaskStates] /\ fiber' \in [Slaves -> FiberStates]
      BY <2>1, <3>1
    <3>3. /\ mySlave' \in [Tasks -> Slaves \cup {Null}]
          /\ myTask' \in [Slaves -> Tasks \cup {Null}]
          /\ lastRequest' \in [Slaves -> Requests \cup {Null}]
      BY <2>1, <3>1
    <3>4. TypeOK'
      BY <3>1, <3>2, <3>3
    <3>5. ControlInv'
      BY <1>2, <2>1, <2>2 DEF ResumeReturns
    <3>6. mySlave[t] = s /\ fiber[s] = "done"
      BY <2>1, <2>2
    <3>7. LinkInv'
      BY <2>1, <2>2, <3>1, <3>6
    <3> QED
      BY <3>4, <3>5, <3>7
  <2>3. CASE taskState[t] # "Closing"
    <3>1. TypeOK'
      BY <1>2, <2>1, <2>3 DEF ResumeReturns
    <3>2. ControlInv' /\ LinkInv'
      BY <1>2, <2>1, <2>3 DEF ResumeReturns
    <3> QED
      BY <3>1, <3>2
  <2> QED
    BY <2>2, <2>3
<1>3. CASE ResumePendingSlave
  <2> DEFINE s == Head(queue).slave
  <2>1. Head(queue) \in Entry /\ s \in Slaves /\ Tail(queue) \in Seq(Entry)
    BY <1>3, TailSlaves DEF ResumePendingSlave, Entry
  <2>2. CASE Head(queue).slave \notin slaves
    BY <1>3, <2>1, <2>2 DEF ResumePendingSlave
  <2>3. CASE Resume(Head(queue)) /\ fiber[s] = "free"
    BY <1>3, <2>1, <2>3 DEF ResumePendingSlave, Resume
  <2>4. CASE Resume(Head(queue)) /\ fiber[s] # "free"
    <3>1. PICK f \in {"running", "throwing"},
               k \in TaskStates \ {"Closing", "Offline", "Dead"} :
            /\ fiber' = [fiber EXCEPT ![s] = f]
            /\ taskState' = [taskState EXCEPT ![myTask[s]] = k]
      BY <1>3, <2>1, <2>4, ResumeFacts DEF ResumePendingSlave
    <3>2. /\ myTask[s] \in Tasks
          /\ Head(queue).request \in Requests \cup {Null}
          /\ current' = s
          /\ resuming' = s
          /\ lastRequest' = [lastRequest EXCEPT ![s] = Head(queue).request]
          /\ UNCHANGED <<slaves, mySlave, myTask>>
      BY <1>3, <2>1, <2>4, ResumeFacts DEF ResumePendingSlave, Entry
    <3>3. TypeOK'
      BY <1>3, <2>1, <3>1, <3>2 DEF ResumePendingSlave
    <3>4. ControlInv'
      BY <1>3, <2>1, <2>4, <3>1, <3>2 DEF ResumePendingSlave
    <3>5. LinkInv'
      BY <1>3, <2>1, <2>4, <3>1, <3>2 DEF ResumePendingSlave
    <3> QED
      BY <3>3, <3>4, <3>5
  <2> QED
    BY <1>3, <2>1, <2>2, <2>3, <2>4 DEF ResumePendingSlave
<1>4. CASE ResumePendingSlaves
  BY <1>4 DEF ResumePendingSlaves, Steal
<1>5. CASE BatchStep
  <2> DEFINE s == Head(batch).slave
  <2>1. Head(batch) \in Entry /\ s \in Slaves /\ Tail(batch) \in Seq(Entry)
    BY <1>5, TailSlaves DEF BatchStep, Entry
  <2>2. CASE Resume(Head(batch)) /\ fiber[s] = "free"
    BY <1>5, <2>1, <2>2 DEF BatchStep, Resume
  <2>3. CASE Resume(Head(batch)) /\ fiber[s] # "free"
    <3>1. PICK f \in {"running", "throwing"},
               k \in TaskStates \ {"Closing", "Offline", "Dead"} :
            /\ fiber' = [fiber EXCEPT ![s] = f]
            /\ taskState' = [taskState EXCEPT ![myTask[s]] = k]
      BY <1>5, <2>1, <2>3, ResumeFacts DEF BatchStep
    <3>2. /\ myTask[s] \in Tasks
          /\ Head(batch).request \in Requests \cup {Null}
          /\ current' = s
          /\ resuming' = s
          /\ lastRequest' = [lastRequest EXCEPT ![s] = Head(batch).request]
          /\ UNCHANGED <<slaves, mySlave, myTask>>
      BY <1>5, <2>1, <2>3, ResumeFacts DEF BatchStep, Entry
    <3>3. TypeOK'
      BY <1>5, <2>1, <3>1, <3>2 DEF BatchStep
    <3>4. ControlInv'
      BY <1>5, <2>1, <2>3, <3>1, <3>2 DEF BatchStep
    <3>5. LinkInv'
      BY <1>5, <2>1, <2>3, <3>1, <3>2 DEF BatchStep
    <3> QED
      BY <3>3, <3>4, <3>5
  <2> QED
    BY <1>5, <2>1, <2>2, <2>3 DEF BatchStep
<1>6. CASE BatchReturns
  BY <1>6 DEF BatchReturns
<1>7. CASE Shutdown
  BY <1>7 DEF Shutdown
<1>8. CASE ShutdownRound
  BY <1>8, EveryoneSlaves DEF ShutdownRound, Steal
<1>9. CASE ShutdownReturns
  BY <1>9 DEF ShutdownReturns
<1>10. ASSUME NEW r \in Requests, Complete(r)
       PROVE  StructInv'
  BY <1>10, AppendSlaves DEF Complete
<1>11. ASSUME NEW t \in Tasks, NEW s \in Slaves, SpawnStartNow(t, s)
       PROVE  StructInv'
  BY <1>11 DEF SpawnStartNow, Register
<1>12. ASSUME NEW c \in Slaves \cup {Master}, NEW t \in Tasks,
              NEW s \in Slaves, SpawnDeferred(c, t, s)
       PROVE  StructInv'
  BY <1>12, AppendSlaves DEF SpawnDeferred, Register
<1>13. ASSUME NEW c \in Slaves \cup {Master}, NEW t \in Tasks,
              NEW s \in Slaves, SpawnUnscheduled(c, t, s)
       PROVE  StructInv'
  BY <1>13 DEF SpawnUnscheduled, Register
<1>14. ASSUME NEW c \in Slaves \cup {Master}, NEW s \in Slaves, Wake(c, s)
       PROVE  StructInv'
  BY <1>14, AppendSlaves DEF Wake
<1>15. ASSUME NEW c \in Slaves \cup {Master}, NEW t \in Tasks, PauseOther(c, t)
       PROVE  StructInv'
  BY <1>15 DEF PauseOther
<1>16. ASSUME NEW s \in Slaves, NEW r \in Requests, Start(s, r)
       PROVE  StructInv'
  BY <1>16 DEF Start
<1>17. ASSUME NEW s \in Slaves, Pause(s)
       PROVE  StructInv'
  BY <1>17, AppendSlaves DEF Pause
<1>18. ASSUME NEW s \in Slaves, Block(s)
       PROVE  StructInv'
  BY <1>18 DEF Block
<1>19. ASSUME NEW s \in Slaves, Finish(s)
       PROVE  StructInv'
  BY <1>19 DEF Finish, Unwind
<1>20. ASSUME NEW s \in Slaves, Swallow(s)
       PROVE  StructInv'
  BY <1>20 DEF Swallow, Unwind
<1>21. ASSUME NEW s \in Slaves, SlaveDispatch(s)
       PROVE  StructInv'
  BY <1>21 DEF SlaveDispatch
<1>22. ASSUME NEW s \in Slaves, SlaveShutdown(s)
       PROVE  StructInv'
  BY <1>22 DEF SlaveShutdown
<1> QED
  BY <1>1, <1>2, <1>3, <1>4, <1>5, <1>6, <1>7, <1>8, <1>9, <1>10, <1>11,
     <1>12, <1>13, <1>14, <1>15, <1>16, <1>17, <1>18, <1>19, <1>20, <1>21,
     <1>22 DEF Next, MasterStep, SharedStep, SlaveStep

(* The state variables keep their types and the links between tasks and    *)
(* slaves stay consistent, whatever application code does.                 *)
THEOREM StructSafe == Spec => []StructInv
<1>1. Init => StructInv
  BY StructInit
<1>2. StructInv /\ [Next]_vars => StructInv'
  BY StructStep
<1> QED
  BY <1>1, <1>2, PTL DEF Spec

(* Every variable of the scheduler keeps its type.                         *)
THEOREM TypeSafe == Spec => []TypeOK
<1>1. StructInv => TypeOK
  BY DEF StructInv
<1> QED
  BY <1>1, StructSafe, PTL

(* Dispatching one slave at a time never resumes a deleted slave, whatever *)
(* application code does: the exists() check of resume_pending_slave() is  *)
(* enough on its own.                                                      *)
THEOREM SingleDispatch == Spec => SingleDispatchSafe
<1>1. StructInv /\ [Next]_vars => [ResumePendingSlave => current' # Null]_vars
  <2> SUFFICES ASSUME StructInv, ResumePendingSlave
               PROVE  current' # Null
    OBVIOUS
  <2>1. queue \in Seq(Entry) /\ queue # <<>>
    BY DEF ResumePendingSlave, StructInv, TypeOK
  <2>2. Head(queue).slave \in Slaves
    BY <2>1, TailSlaves DEF Entry
  <2>3. CASE Head(queue).slave \notin slaves
    BY <2>3, HubAssumption DEF ResumePendingSlave, AtApp, fiberVars
  <2>4. CASE Head(queue).slave \in slaves
    <3>1. fiber[Head(queue).slave] # "free"
      BY <2>2, <2>4 DEF StructInv, LinkInv
    <3> QED
      BY <2>2, <2>4, <3>1, HubAssumption DEF ResumePendingSlave, Resume
  <2> QED
    BY <2>3, <2>4
<1> QED
  BY <1>1, StructSafe, PTL DEF Spec, SingleDispatchSafe

----------------------------------------------------------------------------
(* Scheduling, when application code is calm.                              *)

LEMMA CalmInit == Init => CalmInv
<1> SUFFICES ASSUME Init
             PROVE  CalmInv
  OBVIOUS
<1>1. StructInv
  BY StructInit
<1>2. NoWildResume /\ QueueIsReady /\ TokenInv
  BY EmptySlaves, HubAssumption DEF Init, NoWildResume, QueueIsReady, TokenInv
<1> QED
  BY <1>1, <1>2 DEF CalmInv

(* A slave that was not scheduled, and is suspended now, is scheduled.      *)
LEMMA QueueGrows ==
    ASSUME QueueIsReady, queue \in Seq(Entry), UNCHANGED batch,
           NEW e \in Entry, queue' = Append(queue, e),
           e.slave \notin SlavesOf(queue) \cup SlavesOf(batch),
           e.slave \in slaves', fiber'[e.slave] \in Suspended,
           slaves \subseteq slaves',
           \A s \in slaves : s # e.slave => fiber'[s] = fiber[s]
    PROVE  /\ QueueIsReady'
           /\ SlavesOf(queue') = SlavesOf(queue) \cup {e.slave}
<1>1. /\ SlavesOf(queue') = SlavesOf(queue) \cup {e.slave}
      /\ Unique(queue')
  BY AppendSlaves DEF QueueIsReady
<1>2. \A s \in SlavesOf(queue') \cup SlavesOf(batch') :
          s \in slaves' /\ fiber'[s] \in Suspended
  BY <1>1 DEF QueueIsReady
<1>3. Unique(batch') /\ SlavesOf(queue') \cap SlavesOf(batch') = {}
  BY <1>1 DEF QueueIsReady
<1> QED
  BY <1>1, <1>2, <1>3 DEF QueueIsReady

LEMMA CalmStep == Calm /\ CalmInv /\ [Next]_vars => CalmInv'
<1> SUFFICES ASSUME Calm, CalmInv, [Next]_vars
             PROVE  NoWildResume' /\ QueueIsReady' /\ TokenInv'
  BY StructStep DEF CalmInv
<1> DEFINE Goal == NoWildResume' /\ QueueIsReady' /\ TokenInv'
<1>a. StructInv /\ StructInv'
  BY StructStep DEF CalmInv
<1>b. /\ Single
      /\ "Wake" \notin Habits
      /\ Pooled = {}
  BY DEF Calm, Single
<1> USE <1>a, <1>b, HubAssumption, ItemFacts, EmptySlaves
    DEF CalmInv, StructInv, TypeOK, ControlInv, LinkInv, QueueIsReady,
        TokenInv, NoWildResume, Suspended, hubVars, taskVars, fiberVars,
        AtApp, MasterIn, Runs, Caller, Schedule, Leave, InFlight
<1>1. CASE UNCHANGED vars
  BY <1>1 DEF vars
<1>2. CASE ResumeReturns
  BY <1>2 DEF ResumeReturns
<1>3. CASE ResumePendingSlave
  <2> DEFINE s == Head(queue).slave
  <2>1. /\ Head(queue) \in Entry /\ s \in Slaves
        /\ SlavesOf(queue) = {s} \cup SlavesOf(Tail(queue))
        /\ Unique(Tail(queue)) /\ s \notin SlavesOf(Tail(queue))
    BY <1>3, TailSlaves DEF ResumePendingSlave, Entry
  <2>2. Resume(Head(queue)) /\ fiber[s] \in Suspended
    BY <1>3, <2>1 DEF ResumePendingSlave
  <2>3. PICK f \in {"running", "throwing"} : fiber' = [fiber EXCEPT ![s] = f]
    BY <1>3, <2>1, <2>2, ResumeFacts DEF ResumePendingSlave
  <2>4. /\ current' = s /\ UNCHANGED <<slaves, batch, inflight>>
        /\ queue' = Tail(queue) /\ batch = <<>>
    BY <1>3, <2>1, <2>2 DEF ResumePendingSlave, Resume
  <2> QED
    BY <2>1, <2>2, <2>3, <2>4
<1>4. CASE ResumePendingSlaves
  BY <1>4 DEF ResumePendingSlaves, Steal
<1>5. CASE BatchStep
  BY <1>5, TailSlaves, ResumeFacts, SMTT(30) DEF BatchStep, Resume
<1>6. CASE BatchReturns
  BY <1>6 DEF BatchReturns
<1>7. CASE Shutdown
  BY <1>7 DEF Shutdown
<1>8. CASE ShutdownRound
  <2>1. /\ SlavesOf(batch') = slaves /\ Unique(batch')
        /\ queue' = <<>> /\ frame' = "sweep"
        /\ UNCHANGED <<slaves, fiber, current, inflight>>
    BY <1>8, EveryoneSlaves DEF ShutdownRound, Steal
  <2>2. \A s \in slaves : s \in Slaves /\ fiber[s] \in Suspended
    BY <1>8 DEF ShutdownRound, FiberStates
  <2> QED
    BY <2>1, <2>2
<1>9. CASE ShutdownReturns
  BY <1>9 DEF ShutdownReturns
<1>10. ASSUME NEW r \in Requests, Complete(r)
       PROVE  Goal
  <2> DEFINE s == inflight[r]
  <2>1. /\ s \in Slaves /\ Item(s, r) \in Entry /\ Item(s, r).slave = s
        /\ queue' = Append(queue, Item(s, r))
        /\ inflight' = [inflight EXCEPT ![r] = Null]
        /\ frame = "app" /\ current = Master
        /\ UNCHANGED <<slaves, batch, fiber, frame, current>>
    BY <1>10 DEF Complete
  <2>2. s \notin SlavesOf(queue) \cup SlavesOf(batch)
    BY <2>1
  <2>3. s \in slaves /\ fiber[s] \in Suspended
    BY <2>1
  <2>4. QueueIsReady' /\ SlavesOf(queue') = SlavesOf(queue) \cup {s}
    BY ONLY <2>1, <2>2, <2>3, <1>a, CalmInv, QueueGrows
       DEF CalmInv, StructInv, TypeOK
  <2>5. TokenInv'
    BY <2>1, <2>4
  <2> QED
    BY <2>1, <2>4, <2>5
<1>11. ASSUME NEW t \in Tasks, NEW s \in Slaves, SpawnStartNow(t, s)
       PROVE  Goal
  BY <1>11 DEF SpawnStartNow, Register
<1>12. ASSUME NEW c \in Slaves \cup {Master}, NEW t \in Tasks,
              NEW s \in Slaves, SpawnDeferred(c, t, s)
       PROVE  Goal
  <2>1. /\ Item(s, Null) \in Entry /\ Item(s, Null).slave = s
        /\ queue' = Append(queue, Item(s, Null))
        /\ fiber[s] = "free" /\ fiber' = [fiber EXCEPT ![s] = "fresh"]
        /\ slaves' = slaves \cup {s} /\ s \notin slaves
        /\ UNCHANGED <<batch, inflight, frame, current>>
    BY <1>12 DEF SpawnDeferred, Register
  <2>2. /\ s \notin SlavesOf(queue) \cup SlavesOf(batch)
        /\ \A r \in Requests : inflight[r] # s
        /\ fiber'[s] \in Suspended /\ s \in slaves'
    BY <2>1
  <2>3. \A x \in slaves : x # s => fiber'[x] = fiber[x]
    BY <2>1
  <2>4. QueueIsReady' /\ SlavesOf(queue') = SlavesOf(queue) \cup {s}
    BY ONLY <2>1, <2>2, <2>3, <1>a, CalmInv, QueueGrows
       DEF CalmInv, StructInv, TypeOK
  <2>5. TokenInv'
    BY <2>1, <2>2, <2>4
  <2> QED
    BY <2>1, <2>4, <2>5
<1>13. ASSUME NEW c \in Slaves \cup {Master}, NEW t \in Tasks,
              NEW s \in Slaves, SpawnUnscheduled(c, t, s)
       PROVE  Goal
  BY <1>13 DEF SpawnUnscheduled, Register
<1>14. ASSUME NEW c \in Slaves \cup {Master}, NEW s \in Slaves, Wake(c, s)
       PROVE  Goal
  BY <1>14 DEF Wake
<1>15. ASSUME NEW c \in Slaves \cup {Master}, NEW t \in Tasks, PauseOther(c, t)
       PROVE  Goal
  BY <1>15 DEF PauseOther
<1>16. ASSUME NEW s \in Slaves, NEW r \in Requests, Start(s, r)
       PROVE  Goal
  <2>1. /\ inflight' = [inflight EXCEPT ![r] = s]
        /\ \A q \in Requests : inflight[q] # s
        /\ fiber[s] = "running"
        /\ UNCHANGED <<slaves, queue, batch, frame, fiber, current>>
    BY <1>16 DEF Start
  <2>2. s \notin SlavesOf(queue) \cup SlavesOf(batch)
    BY <2>1
  <2>3. TokenInv'
    BY <2>1, <2>2
  <2> QED
    BY <2>1, <2>3
<1>17. ASSUME NEW s \in Slaves, Pause(s)
       PROVE  Goal
  <2>1. /\ Item(s, Null) \in Entry /\ Item(s, Null).slave = s
        /\ queue' = Append(queue, Item(s, Null))
        /\ fiber' = [fiber EXCEPT ![s] = "paused"]
        /\ UNCHANGED <<slaves, batch, inflight, frame>>
        /\ current' = Master
    BY <1>17 DEF Pause
  <2>2. /\ s \notin SlavesOf(queue) \cup SlavesOf(batch)
        /\ s \in slaves' /\ fiber'[s] \in Suspended
        /\ \A r \in Requests : inflight[r] # s
    BY <1>17 DEF Pause
  <2>3. \A x \in slaves : x # s => fiber'[x] = fiber[x]
    BY <2>1
  <2>4. QueueIsReady' /\ SlavesOf(queue') = SlavesOf(queue) \cup {s}
    BY ONLY <2>1, <2>2, <2>3, <1>a, CalmInv, QueueGrows
       DEF CalmInv, StructInv, TypeOK
  <2>5. TokenInv'
    BY <2>1, <2>2, <2>4
  <2> QED
    BY <2>1, <2>4, <2>5
<1>18. ASSUME NEW s \in Slaves, Block(s)
       PROVE  Goal
  BY <1>18 DEF Block
<1>19. ASSUME NEW s \in Slaves, Finish(s)
       PROVE  Goal
  BY <1>19 DEF Finish, Unwind
<1>20. ASSUME NEW s \in Slaves, Swallow(s)
       PROVE  Goal
  BY <1>20 DEF Swallow, Unwind
<1>21. ASSUME NEW s \in Slaves, SlaveDispatch(s)
       PROVE  Goal
  BY <1>21 DEF SlaveDispatch
<1>22. ASSUME NEW s \in Slaves, SlaveShutdown(s)
       PROVE  Goal
  BY <1>22 DEF SlaveShutdown
<1> QED
  BY <1>1, <1>2, <1>3, <1>4, <1>5, <1>6, <1>7, <1>8, <1>9, <1>10, <1>11,
     <1>12, <1>13, <1>14, <1>15, <1>16, <1>17, <1>18, <1>19, <1>20, <1>21,
     <1>22 DEF Next, MasterStep, SharedStep, SlaveStep

LEMMA CalmAlways == Calm /\ Spec => []CalmInv
<1>1. Calm /\ CalmInv /\ [Next]_vars => CalmInv'
  BY CalmStep
<1>2. CASE Calm
  <2>1. CalmInv /\ [Next]_vars => CalmInv'
    BY <1>1, <1>2
  <2> QED
    BY <2>1, CalmInit, PTL DEF Spec
<1>3. CASE ~Calm
  BY <1>3
<1> QED
  BY <1>2, <1>3

(* No deleted slave is ever resumed, by shutdown() included.               *)
THEOREM NeverWild == Calm /\ Spec => []NoWildResume
<1>1. CalmInv => NoWildResume
  BY DEF CalmInv
<1> QED
  BY <1>1, CalmAlways, PTL

(* Whatever is scheduled is alive, suspended and scheduled once.           *)
THEOREM QueueReady == Calm /\ Spec => []QueueIsReady
<1>1. CalmInv => QueueIsReady
  BY DEF CalmInv
<1> QED
  BY <1>1, CalmAlways, PTL

(* When shutdown() returns every task is dead, nothing is scheduled and no *)
(* request is left in flight.                                              *)
THEOREM ShutdownIsFinal == Calm /\ Spec => ShutdownPost
<1> DEFINE Post == /\ \A t \in Tasks : taskState[t] \in {"Offline", "Dead"}
                   /\ \A s \in Slaves : fiber[s] = "free"
                   /\ queue = <<>>
                   /\ \A r \in Requests \ Pooled : inflight[r] = Null
<1>1. CalmInv /\ [Next]_vars => [frame = "closing" /\ frame' = "app" => Post]_vars
  <2> SUFFICES ASSUME CalmInv, Next, frame = "closing", frame' = "app"
               PROVE  Post
    BY DEF vars, hubVars
  <2>1. MasterIn("closing") /\ slaves = {}
    BY DEF Next, MasterStep, SharedStep, SlaveStep, ResumeReturns,
       ResumePendingSlave, ResumePendingSlaves, BatchStep, BatchReturns,
       Shutdown, ShutdownRound, ShutdownReturns, Complete, SpawnStartNow,
       SpawnDeferred, SpawnUnscheduled, Wake, PauseOther, Start, Pause, Block,
       Finish, Swallow, SlaveDispatch, SlaveShutdown, hubVars, Steal,
       MasterIn, AtApp
  <2>2. \A s \in Slaves : fiber[s] = "free"
    BY <2>1, HubAssumption DEF CalmInv, StructInv, LinkInv, ControlInv, MasterIn
  <2>3. \A t \in Tasks : taskState[t] \in {"Offline", "Dead"}
    BY <2>2, HubAssumption DEF CalmInv, StructInv, LinkInv, TypeOK
  <2>4. queue = <<>>
    <3>1. queue \in Seq(Entry) /\ SlavesOf(queue) = {}
      BY <2>1 DEF CalmInv, StructInv, TypeOK, QueueIsReady
    <3> QED
      BY <3>1, TailSlaves
  <2>5. \A r \in Requests : inflight[r] = Null
    BY <2>2 DEF CalmInv, StructInv, TypeOK, TokenInv
  <2> QED
    BY <2>2, <2>3, <2>4, <2>5
<1> QED
  BY <1>1, CalmAlways, PTL DEF Spec, ShutdownPost

----------------------------------------------------------------------------
(* Wakeups.                                                                *)

LEMMA WakeupStep ==
    Scheduling /\ StructInv /\ NoLostWakeup /\ [Next]_vars => NoLostWakeup'
<1> SUFFICES ASSUME Scheduling, StructInv, NoLostWakeup, [Next]_vars
             PROVE  NoLostWakeup'
  OBVIOUS
<1>a. StructInv'
  BY StructStep
<1>b. {"Inactive", "StartNow", "Shutdown", "Dispatch"} \cap Habits = {}
  BY DEF Scheduling
<1> USE <1>a, <1>b, HubAssumption, ItemFacts, EmptySlaves
    DEF StructInv, TypeOK, ControlInv, LinkInv, NoLostWakeup, HasEntry,
        Suspended, hubVars, taskVars, fiberVars, AtApp, MasterIn, Runs,
        Caller, Schedule, Leave, InFlight
<1>1. CASE UNCHANGED vars
  BY <1>1 DEF vars
<1>2. CASE ResumeReturns
  BY <1>2 DEF ResumeReturns
<1>3. CASE ResumePendingSlave
  <2> DEFINE s == Head(queue).slave
  <2>1. /\ Head(queue) \in Entry /\ s \in Slaves
        /\ SlavesOf(queue) = {s} \cup SlavesOf(queue')
        /\ UNCHANGED <<batch, inflight>>
    BY <1>3, TailSlaves DEF ResumePendingSlave, Entry
  <2>2. CASE fiber[s] \notin {"free", "done"}
    <3>1. Resume(Head(queue))
      BY <1>3, <2>1, <2>2 DEF ResumePendingSlave
    <3>2. PICK f \in {"running", "throwing"} : fiber' = [fiber EXCEPT ![s] = f]
      BY <1>3, <2>1, <2>2, <3>1, ResumeFacts DEF ResumePendingSlave
    <3> QED
      BY <2>1, <3>2
  <2>3. CASE fiber[s] \in {"free", "done"}
    BY <1>3, <2>1, <2>3 DEF ResumePendingSlave
  <2> QED
    BY <2>2, <2>3
<1>4. CASE ResumePendingSlaves
  BY <1>4 DEF ResumePendingSlaves, Steal
<1>5. CASE BatchStep
  <2> DEFINE s == Head(batch).slave
  <2>1. /\ Head(batch) \in Entry /\ s \in Slaves
        /\ SlavesOf(batch) = {s} \cup SlavesOf(batch')
        /\ UNCHANGED <<queue, inflight>> /\ Resume(Head(batch))
    BY <1>5, TailSlaves DEF BatchStep, Entry
  <2>2. CASE fiber[s] # "free"
    <3>1. PICK f \in {"running", "throwing"} : fiber' = [fiber EXCEPT ![s] = f]
      BY <1>5, <2>1, <2>2, ResumeFacts DEF BatchStep
    <3> QED
      BY <2>1, <3>1
  <2>3. CASE fiber[s] = "free"
    BY <2>1, <2>3 DEF Resume
  <2> QED
    BY <2>2, <2>3
<1>6. CASE BatchReturns
  BY <1>6 DEF BatchReturns
<1>7. CASE Shutdown
  BY <1>7 DEF Shutdown
<1>8. CASE ShutdownRound
  BY <1>8, EveryoneSlaves DEF ShutdownRound, Steal
<1>9. CASE ShutdownReturns
  BY <1>9 DEF ShutdownReturns
<1>10. ASSUME NEW r \in Requests, Complete(r)
       PROVE  NoLostWakeup'
  BY <1>10, AppendSlaves DEF Complete
<1>11. ASSUME NEW t \in Tasks, NEW s \in Slaves, SpawnStartNow(t, s)
       PROVE  NoLostWakeup'
  BY <1>11 DEF SpawnStartNow, Register
<1>12. ASSUME NEW c \in Slaves \cup {Master}, NEW t \in Tasks,
              NEW s \in Slaves, SpawnDeferred(c, t, s)
       PROVE  NoLostWakeup'
  BY <1>12, AppendSlaves DEF SpawnDeferred, Register
<1>13. ASSUME NEW c \in Slaves \cup {Master}, NEW t \in Tasks,
              NEW s \in Slaves, SpawnUnscheduled(c, t, s)
       PROVE  NoLostWakeup'
  BY <1>13 DEF SpawnUnscheduled
<1>14. ASSUME NEW c \in Slaves \cup {Master}, NEW s \in Slaves, Wake(c, s)
       PROVE  NoLostWakeup'
  BY <1>14, AppendSlaves DEF Wake
<1>15. ASSUME NEW c \in Slaves \cup {Master}, NEW t \in Tasks, PauseOther(c, t)
       PROVE  NoLostWakeup'
  BY <1>15 DEF PauseOther
<1>16. ASSUME NEW s \in Slaves, NEW r \in Requests, Start(s, r)
       PROVE  NoLostWakeup'
  BY <1>16 DEF Start
<1>17. ASSUME NEW s \in Slaves, Pause(s)
       PROVE  NoLostWakeup'
  BY <1>17, AppendSlaves DEF Pause
<1>18. ASSUME NEW s \in Slaves, Block(s)
       PROVE  NoLostWakeup'
  BY <1>18 DEF Block
<1>19. ASSUME NEW s \in Slaves, Finish(s)
       PROVE  NoLostWakeup'
  BY <1>19 DEF Finish, Unwind
<1>20. ASSUME NEW s \in Slaves, Swallow(s)
       PROVE  NoLostWakeup'
  BY <1>20 DEF Swallow, Unwind
<1>21. ASSUME NEW s \in Slaves, SlaveDispatch(s)
       PROVE  NoLostWakeup'
  BY <1>21 DEF SlaveDispatch
<1>22. ASSUME NEW s \in Slaves, SlaveShutdown(s)
       PROVE  NoLostWakeup'
  BY <1>22 DEF SlaveShutdown
<1> QED
  BY <1>1, <1>2, <1>3, <1>4, <1>5, <1>6, <1>7, <1>8, <1>9, <1>10, <1>11,
     <1>12, <1>13, <1>14, <1>15, <1>16, <1>17, <1>18, <1>19, <1>20, <1>21,
     <1>22 DEF Next, MasterStep, SharedStep, SlaveStep

(* No wakeup is lost, even if slaves wake one another and leave requests   *)
(* in flight, as long as nobody spawns without scheduling or dispatches    *)
(* from inside a slave.                                                    *)
THEOREM WakeupsKept == Scheduling /\ Spec => []NoLostWakeup
<1>1. Init => NoLostWakeup
  BY DEF Init, NoLostWakeup, Suspended
<1>2. CASE Scheduling
  <2>1. StructInv /\ NoLostWakeup /\ [Next]_vars => NoLostWakeup'
    BY <1>2, WakeupStep
  <2> QED
    BY <1>1, <2>1, StructSafe, PTL DEF Spec
<1>3. CASE ~Scheduling
  BY <1>3
<1> QED
  BY <1>2, <1>3

LEMMA CarriesStep ==
    Calm /\ CalmInv /\ CarriesInv /\ [Next]_vars => CarriesInv'
<1> SUFFICES ASSUME Calm, CalmInv, CarriesInv, [Next]_vars
             PROVE  CarriesInv'
  OBVIOUS
<1>a. \A e \in Pending : e.slave \in Slaves /\ fiber[e.slave] \in Suspended
  BY EntrySlaves DEF CalmInv, StructInv, TypeOK, QueueIsReady, Pending
<1> USE <1>a, HubAssumption, ItemFacts, EmptySlaves
    DEF CalmInv, StructInv, TypeOK, ControlInv, CarriesInv, Pending,
        Suspended, hubVars, taskVars, fiberVars, AtApp, MasterIn, Runs,
        Caller, Schedule, Leave
<1>1. CASE UNCHANGED vars
  BY <1>1 DEF vars
<1>2. CASE ResumeReturns
  BY <1>2 DEF ResumeReturns
<1>3. CASE ResumePendingSlave
  <2>1. Head(queue) \in Entry /\ ToSet(queue') \subseteq ToSet(queue)
    BY <1>3, TailSlaves, TailEntries DEF ResumePendingSlave
  <2>2. \A s \in Slaves : fiber'[s] = "blocked" => fiber[s] = "blocked"
    BY <1>3, <2>1 DEF ResumePendingSlave, Resume
  <2> QED
    BY <1>3, <2>1, <2>2 DEF ResumePendingSlave
<1>4. CASE ResumePendingSlaves
  BY <1>4 DEF ResumePendingSlaves, Steal
<1>5. CASE BatchStep
  <2>1. Head(batch) \in Entry /\ ToSet(batch') \subseteq ToSet(batch)
    BY <1>5, TailSlaves, TailEntries DEF BatchStep
  <2>2. \A s \in Slaves : fiber'[s] = "blocked" => fiber[s] = "blocked"
    BY <1>5, <2>1 DEF BatchStep, Resume
  <2> QED
    BY <1>5, <2>1, <2>2 DEF BatchStep
<1>6. CASE BatchReturns
  BY <1>6 DEF BatchReturns
<1>7. CASE Shutdown
  BY <1>7 DEF Shutdown
<1>8. CASE ShutdownRound
  BY <1>8 DEF ShutdownRound
<1>9. CASE ShutdownReturns
  BY <1>9 DEF ShutdownReturns
<1>10. ASSUME NEW r \in Requests, Complete(r)
       PROVE  CarriesInv'
  BY <1>10, AppendEntries DEF Complete
<1>11. ASSUME NEW t \in Tasks, NEW s \in Slaves, SpawnStartNow(t, s)
       PROVE  CarriesInv'
  BY <1>11 DEF SpawnStartNow
<1>12. ASSUME NEW c \in Slaves \cup {Master}, NEW t \in Tasks,
              NEW s \in Slaves, SpawnDeferred(c, t, s)
       PROVE  CarriesInv'
  BY <1>12, AppendEntries DEF SpawnDeferred
<1>13. ASSUME NEW c \in Slaves \cup {Master}, NEW t \in Tasks,
              NEW s \in Slaves, SpawnUnscheduled(c, t, s)
       PROVE  CarriesInv'
  BY <1>13 DEF SpawnUnscheduled
<1>14. ASSUME NEW c \in Slaves \cup {Master}, NEW s \in Slaves, Wake(c, s)
       PROVE  CarriesInv'
  BY <1>14 DEF Wake, Calm
<1>15. ASSUME NEW c \in Slaves \cup {Master}, NEW t \in Tasks, PauseOther(c, t)
       PROVE  CarriesInv'
  BY <1>15 DEF PauseOther
<1>16. ASSUME NEW s \in Slaves, NEW r \in Requests, Start(s, r)
       PROVE  CarriesInv'
  BY <1>16 DEF Start
<1>17. ASSUME NEW s \in Slaves, Pause(s)
       PROVE  CarriesInv'
  BY <1>17, AppendEntries DEF Pause
<1>18. ASSUME NEW s \in Slaves, Block(s)
       PROVE  CarriesInv'
  BY <1>18 DEF Block
<1>19. ASSUME NEW s \in Slaves, Finish(s)
       PROVE  CarriesInv'
  BY <1>19 DEF Finish
<1>20. ASSUME NEW s \in Slaves, Swallow(s)
       PROVE  CarriesInv'
  BY <1>20 DEF Swallow
<1>21. ASSUME NEW s \in Slaves, SlaveDispatch(s)
       PROVE  CarriesInv'
  BY <1>21 DEF SlaveDispatch
<1>22. ASSUME NEW s \in Slaves, SlaveShutdown(s)
       PROVE  CarriesInv'
  BY <1>22 DEF SlaveShutdown
<1> QED
  BY <1>1, <1>2, <1>3, <1>4, <1>5, <1>6, <1>7, <1>8, <1>9, <1>10, <1>11,
     <1>12, <1>13, <1>14, <1>15, <1>16, <1>17, <1>18, <1>19, <1>20, <1>21,
     <1>22 DEF Next, MasterStep, SharedStep, SlaveStep

LEMMA CarriesAlways == Calm /\ Spec => []CarriesInv
<1>1. Init => CarriesInv
  BY EmptySlaves DEF Init, CarriesInv, Pending
<1>2. CASE Calm
  <2>1. CalmInv /\ CarriesInv /\ [Next]_vars => CarriesInv'
    BY <1>2, CarriesStep
  <2> QED
    BY <1>1, <1>2, <2>1, CalmAlways, PTL DEF Spec
<1>3. CASE ~Calm
  BY <1>3
<1> QED
  BY <1>2, <1>3

(* With calm application code each slave has at most one wakeup, queued or *)
(* in flight, and the entry of a slave that waits for a request carries it *)
(* (Hub.cpp:108-155).                                                      *)
THEOREM CalmInvSafe == Spec => []CalmInvWhenCalm
<1>1. CalmInv /\ CarriesInv => CalmInvWhenCalm
  BY DEF CalmInvWhenCalm
<1>2. ~Calm => CalmInvWhenCalm
  BY DEF CalmInvWhenCalm
<1>3. CASE Calm
  BY <1>1, <1>3, CalmAlways, CarriesAlways, PTL
<1>4. CASE ~Calm
  BY <1>2, <1>4, PTL
<1> QED
  BY <1>3, <1>4

(* A slave that waits runs on only because its request completed, and      *)
(* last_request() names a request: nothing else wakes it.                  *)
THEOREM NoSpuriousResume == Calm /\ Spec => ResumedByCompletion
<1> DEFINE Woken == \A s \in Slaves :
                      fiber[s] = "blocked" /\ fiber'[s] = "running" =>
                        lastRequest'[s] # Null /\ ~InFlight(s)
<1>1. CalmInv /\ CarriesInv /\ [Next]_vars => [Woken]_vars
  <2> SUFFICES ASSUME CalmInv, CarriesInv, Next, NEW s \in Slaves,
                      fiber[s] = "blocked", fiber'[s] = "running"
               PROVE  lastRequest'[s] # Null /\ ~InFlight(s)
    OBVIOUS
  <2> USE DEF CalmInv, StructInv, TypeOK, ControlInv, fiberVars, taskVars,
        hubVars, Leave, Runs, AtApp, MasterIn
  <2>1. CASE ResumePendingSlave
    <3>1. Head(queue) \in Entry /\ Head(queue) \in ToSet(queue)
      BY <2>1, TailSlaves, TailEntries DEF ResumePendingSlave
    <3>2. Resume(Head(queue)) /\ s = Head(queue).slave /\ hubState = "Running"
      BY <2>1, <3>1 DEF ResumePendingSlave, Resume
    <3>3. Head(queue).request # Null
      BY <3>1, <3>2 DEF CarriesInv, Pending
    <3>4. ~InFlight(s)
      BY <3>1, <3>2, EntrySlaves, HubAssumption DEF TokenInv, InFlight
    <3> QED
      BY <3>1, <3>2, <3>3, <3>4 DEF Resume, Entry
  <2>2. CASE BatchStep
    <3>1. Head(batch) \in Entry /\ Head(batch) \in ToSet(batch)
      BY <2>2, TailSlaves, TailEntries DEF BatchStep
    <3>2. Resume(Head(batch)) /\ s = Head(batch).slave /\ hubState = "Running"
      BY <2>2, <3>1 DEF BatchStep, Resume
    <3>3. Head(batch).request # Null
      BY <3>1, <3>2 DEF CarriesInv, Pending
    <3>4. ~InFlight(s)
      BY <3>1, <3>2, EntrySlaves, HubAssumption DEF TokenInv, InFlight
    <3> QED
      BY <3>1, <3>2, <3>3, <3>4 DEF Resume, Entry
  <2>3. CASE ~ResumePendingSlave /\ ~BatchStep
    BY <2>3 DEF Next, MasterStep, SharedStep, SlaveStep, ResumeReturns,
       ResumePendingSlaves, BatchReturns, Shutdown, ShutdownRound,
       ShutdownReturns, Complete, SpawnStartNow, SpawnDeferred,
       SpawnUnscheduled, Register, Wake, PauseOther, Start, Pause, Block,
       Finish, Swallow, SlaveDispatch, SlaveShutdown
  <2> QED
    BY <2>1, <2>2, <2>3
<1> QED
  BY <1>1, CalmAlways, CarriesAlways, PTL DEF Spec, ResumedByCompletion

----------------------------------------------------------------------------
(* Hub implements TaskLife when application code is calm.                  *)

(* The abstract variables after a step, task by task.                      *)
LEMMA LifeInitial == Init => Life!LifeInit
BY HubAssumption DEF Init, Life!LifeInit, phaseBar, Phase, runnerBar, closingBar

(* What the mapping makes of a change of one task's state.                 *)
LEMMA PhaseStep ==
    ASSUME NEW t \in Tasks, NEW k \in TaskStates, taskState \in [Tasks -> TaskStates],
           taskState' = [taskState EXCEPT ![t] = k]
    PROVE  phaseBar' = [phaseBar EXCEPT ![t] = Phase(k)]
BY DEF phaseBar

(* While nobody's fiber is done, no task has ended.                        *)
LEMMA NoneEndedNow ==
    ASSUME StructInv, \A s \in Slaves : fiber[s] # "done"
    PROVE  Life!NoneEnded
<1>1. ASSUME NEW t \in Tasks
      PROVE  taskState[t] # "Closing"
  <2>1. CASE mySlave[t] = Null
    BY <2>1 DEF StructInv, LinkInv
  <2>2. CASE mySlave[t] # Null
    BY <2>2, HubAssumption DEF StructInv, LinkInv, TypeOK
  <2> QED
    BY <2>1, <2>2
<1> QED
  BY <1>1 DEF Life!NoneEnded, phaseBar, Phase, StructInv, TypeOK, TaskStates

LEMMA LifeStep ==
    CalmInv /\ CalmInv' /\ [Next]_vars => [Life!LifeNext]_(Life!lifeVars)
<1> SUFFICES ASSUME CalmInv, CalmInv', [Next]_vars
             PROVE  Life!LifeNext \/ UNCHANGED Life!lifeVars
  OBVIOUS
<1> DEFINE Goal == Life!LifeNext \/ UNCHANGED Life!lifeVars
<1>a. /\ current # Null /\ current' # Null
      /\ current \in Slaves => fiber[current] \in {"running", "throwing"}
      /\ \A s \in Slaves : fiber[s] = "done" => resuming = s /\ current = Master
  BY DEF CalmInv, StructInv, ControlInv, NoWildResume
<1>b. /\ runnerBar = IF current = Master THEN Null ELSE myTask[current]
      /\ runnerBar' = IF current' = Master THEN Null ELSE myTask'[current']
  BY <1>a DEF runnerBar
<1>c. ASSUME current \in Slaves \/ resuming = Null
      PROVE  Life!NoneEnded
  BY <1>a, <1>c, NoneEndedNow, HubAssumption DEF CalmInv
<1>d. /\ TypeOK /\ LinkInv /\ TypeOK' /\ LinkInv'
      /\ \A s \in Slaves : fiber[s] # "free" => myTask[s] \in Tasks
  BY DEF CalmInv, StructInv, TypeOK, LinkInv
<1> USE HubAssumption
    DEF AtApp, MasterIn, Runs, Caller, hubVars, taskVars, fiberVars, Leave,
        Life!LifeNext, Life!lifeVars, closingBar
<1>1. ASSUME UNCHANGED <<taskState, myTask, current, frame>>
      PROVE  Goal
  BY <1>1 DEF phaseBar, runnerBar
<1>2. CASE ResumeReturns
  <2> DEFINE s == resuming
             t == myTask[s]
  <2>1. s \in Slaves /\ t \in Tasks
    BY <1>2, <1>d DEF ResumeReturns, CalmInv, StructInv, ControlInv, TypeOK
  <2>2. runnerBar = Null /\ runnerBar' = Null /\ UNCHANGED closingBar
    BY <1>2, <1>b DEF ResumeReturns
  <2>3. CASE taskState[t] = "Closing"
    <3>1. phaseBar' = [phaseBar EXCEPT ![t] = "dead"] /\ phaseBar[t] = "ended"
      <4>1. taskState' = [taskState EXCEPT ![t] = "Dead"]
        BY <1>2, <2>3 DEF ResumeReturns
      <4>2. phaseBar[t] = "ended"
        BY <2>1, <2>3 DEF phaseBar, Phase
      <4> QED
        BY <1>d, <2>1, <4>1, <4>2, PhaseStep DEF Phase, TypeOK, TaskStates
    <3> QED
      BY <2>1, <2>2, <3>1 DEF Life!Collect
  <2>4. CASE taskState[t] # "Closing"
    BY <1>2, <2>2, <2>4 DEF ResumeReturns, phaseBar
  <2> QED
    BY <2>3, <2>4
<1>3. ASSUME NEW e \in Entry, Resume(e), current = Master, resuming = Null,
             UNCHANGED closingBar
      PROVE  Goal
  <2> DEFINE s == e.slave
             t == myTask[s]
  <2>1. fiber[s] # "free" /\ s \in Slaves /\ t \in Tasks /\ UNCHANGED myTask
    BY <1>3, <1>a, <1>d DEF Resume, Entry
  <2>2. PICK k \in TaskStates \ {"Closing", "Offline", "Dead"} :
          taskState' = [taskState EXCEPT ![t] = k]
    BY <1>3, <2>1, ResumeFacts DEF CalmInv
  <2>3. taskState[t] \notin {"Closing", "Offline", "Dead"}
    BY <1>3, <1>a, <1>d, <2>1 DEF LinkInv
  <2>4. phaseBar[t] = "alive" /\ phaseBar' = phaseBar
    <3>1. phaseBar[t] = "alive"
      BY <2>1, <2>3 DEF phaseBar, Phase
    <3>2. Phase(k) = "alive"
      BY <2>2 DEF Phase
    <3> QED
      BY <1>d, <2>1, <2>2, <3>1, <3>2, PhaseStep DEF TypeOK, phaseBar
  <2>5. runnerBar = Null /\ runnerBar' = t
    BY <1>3, <1>b, <2>1 DEF Resume
  <2> QED
    BY <1>3, <1>c, <2>1, <2>4, <2>5 DEF Life!Run
<1>4. CASE ResumePendingSlave
  <2>1. CASE Head(queue).slave \notin slaves
    BY <1>1, <1>4, <2>1 DEF ResumePendingSlave
  <2>2. CASE Head(queue).slave \in slaves
    <3>1. Head(queue) \in Entry
      BY <1>4, <1>d, TailSlaves DEF ResumePendingSlave, TypeOK
    <3> QED
      BY <1>3, <1>4, <2>2, <3>1 DEF ResumePendingSlave
  <2> QED
    BY <2>1, <2>2
<1>5. CASE BatchStep
  <2>1. Head(batch) \in Entry
    BY <1>5, <1>d, TailSlaves DEF BatchStep, TypeOK
  <2> QED
    BY <1>3, <1>5, <2>1 DEF BatchStep
<1>6. CASE ResumePendingSlaves \/ BatchReturns \/ ShutdownRound
  BY <1>6 DEF ResumePendingSlaves, BatchReturns, ShutdownRound, Steal,
     phaseBar, runnerBar
<1>7. CASE Shutdown
  BY <1>7, <1>b, <1>c DEF Shutdown, phaseBar, runnerBar, Life!StartClosing
<1>8. CASE ShutdownReturns
  <2>1. \A s \in Slaves : fiber[s] = "free"
    BY <1>8, <1>a, <1>d DEF ShutdownReturns, LinkInv, TypeOK
  <2>2. \A t \in Tasks : phaseBar[t] \in {"offline", "dead"}
    BY <2>1, <1>d DEF LinkInv, TypeOK, phaseBar, Phase
  <2> QED
    BY <1>8, <1>b, <2>2 DEF ShutdownReturns, phaseBar, runnerBar, Life!StopClosing
<1>9. ASSUME NEW r \in Requests, Complete(r)
      PROVE  Goal
  BY <1>1, <1>9 DEF Complete
<1>10. ASSUME NEW t \in Tasks, NEW s \in Slaves, SpawnStartNow(t, s)
       PROVE  Goal
  <2>1. Life!Spawnable(t) /\ phaseBar' = [phaseBar EXCEPT ![t] = "alive"]
    BY <1>10, <1>d, PhaseStep DEF SpawnStartNow, Register, Life!Spawnable,
       phaseBar, Phase, TypeOK, TaskStates
  <2>2. runnerBar = Null /\ runnerBar' = t /\ ~closingBar /\ UNCHANGED closingBar
    BY <1>10, <1>b, <1>d DEF SpawnStartNow, Register, TypeOK
  <2> QED
    BY <1>10, <1>c, <2>1, <2>2 DEF SpawnStartNow, Life!SpawnAndRun
<1>11. ASSUME NEW c \in Slaves \cup {Master}, NEW t \in Tasks, NEW s \in Slaves,
              Caller(c), Register(t, s), UNCHANGED <<current, frame>>,
              taskState' = [taskState EXCEPT ![t] = "Started"]
       PROVE  Goal
  <2>1. Life!Spawnable(t) /\ phaseBar' = [phaseBar EXCEPT ![t] = "alive"]
    BY <1>11, <1>d, PhaseStep DEF Register, Life!Spawnable,
       phaseBar, Phase, TypeOK, TaskStates
  <2>2. Life!NoneEnded
    BY <1>11, <1>c
  <2>3. UNCHANGED runnerBar
    <3>1. current \in Slaves => current # s
      BY <1>11, <1>a DEF Register
    <3> QED
      BY <1>11, <1>b, <1>d, <3>1 DEF Register, TypeOK
  <2> QED
    BY <1>11, <2>1, <2>2, <2>3 DEF Life!Spawn
<1>12. ASSUME NEW c \in Slaves \cup {Master}, NEW t \in Tasks, NEW s \in Slaves,
              SpawnDeferred(c, t, s) \/ SpawnUnscheduled(c, t, s)
       PROVE  Goal
  BY <1>11, <1>12 DEF SpawnDeferred, SpawnUnscheduled
<1>13. ASSUME NEW c \in Slaves \cup {Master}, NEW s \in Slaves, Wake(c, s)
       PROVE  Goal
  BY <1>1, <1>13 DEF Wake
<1>14. ASSUME NEW c \in Slaves \cup {Master}, NEW t \in Tasks, PauseOther(c, t)
       PROVE  Goal
  <2>1. mySlave[t] \in Slaves /\ fiber[mySlave[t]] # "done"
    BY <1>14, <1>a, <1>d DEF PauseOther, TypeOK
  <2>2. taskState[t] \notin {"Offline", "Dead", "Closing"}
    BY <1>d, <2>1 DEF LinkInv
  <2>3. taskState' = [taskState EXCEPT ![t] = "Paused"]
    BY <1>14 DEF PauseOther
  <2>4. phaseBar' = phaseBar
    BY <1>d, <2>2, <2>3, PhaseStep DEF phaseBar, Phase, TypeOK, TaskStates
  <2> QED
    BY <1>14, <2>4 DEF PauseOther, runnerBar
<1>15. ASSUME NEW s \in Slaves, NEW r \in Requests, Start(s, r)
       PROVE  Goal
  BY <1>1, <1>15 DEF Start
<1>16. ASSUME NEW s \in Slaves, Pause(s)
       PROVE  Goal
  <2> DEFINE t == myTask[s]
  <2>1. t \in Tasks /\ taskState[t] \notin {"Offline", "Dead", "Closing"}
    BY <1>16, <1>d DEF Pause, LinkInv
  <2>2. taskState' = [taskState EXCEPT ![t] = "Paused"]
    BY <1>16 DEF Pause
  <2>3. phaseBar' = phaseBar
    BY <1>d, <2>1, <2>2, PhaseStep DEF phaseBar, Phase, TypeOK, TaskStates
  <2>4. runnerBar = t /\ runnerBar' = Null
    BY <1>16, <1>b DEF Pause
  <2> QED
    BY <1>16, <2>1, <2>3, <2>4 DEF Pause, Life!Yield
<1>17. ASSUME NEW s \in Slaves, Block(s)
       PROVE  Goal
  <2>1. runnerBar = myTask[s] /\ runnerBar' = Null /\ myTask[s] \in Tasks
    BY <1>17, <1>b, <1>d DEF Block
  <2> QED
    BY <1>17, <2>1 DEF Block, Life!Yield, phaseBar
<1>18. ASSUME NEW s \in Slaves, Finish(s)
       PROVE  Goal
  <2> DEFINE t == myTask[s]
  <2>1. t \in Tasks
    BY <1>18, <1>a, <1>d DEF Finish
  <2>2. phaseBar' = [phaseBar EXCEPT ![t] = "ended"]
    BY <1>18, <1>d, <2>1, PhaseStep DEF Finish, Phase, TypeOK, TaskStates
  <2>3. runnerBar = t /\ runnerBar' = Null
    BY <1>18, <1>b DEF Finish
  <2> QED
    BY <1>18, <2>1, <2>2, <2>3 DEF Finish, Life!End
<1>19. ASSUME NEW s \in Slaves,
              Swallow(s) \/ SlaveDispatch(s) \/ SlaveShutdown(s)
       PROVE  Goal
  BY <1>1, <1>19 DEF Swallow, SlaveDispatch, SlaveShutdown
<1>20. CASE UNCHANGED vars
  BY <1>1, <1>20 DEF vars
<1> QED
  BY <1>2, <1>4, <1>5, <1>6, <1>7, <1>8, <1>9, <1>10, <1>12, <1>13, <1>14,
     <1>15, <1>16, <1>17, <1>18, <1>19, <1>20
  DEF Next, MasterStep, SharedStep, SlaveStep

(* The scheduler keeps what TaskLife promises: one task runs at a time,    *)
(* only living tasks run, ended tasks are collected at once, and shutdown  *)
(* is over only when everybody is dead.                                    *)
THEOREM HubImplementsTaskLife == Calm /\ Spec => ImplementsTaskLife
<1>1. Init => Life!LifeInit
  BY LifeInitial
<1>2. CalmInv /\ CalmInv' /\ [Next]_vars => [Life!LifeNext]_(Life!lifeVars)
  BY LifeStep
<1> QED
  BY <1>1, <1>2, CalmAlways, PTL DEF Spec, ImplementsTaskLife, Life!LifeSpec
=============================================================================
