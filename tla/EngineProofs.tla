---------------------------- MODULE EngineProofs ----------------------------
(***************************************************************************)
(* Theorems about Engine, for every set of slaves, requests and addresses. *)
(***************************************************************************)
EXTENDS EngineInv, EngineRefinement, SequenceLemmas

----------------------------------------------------------------------------
(* The operators that the actions share.                                   *)

LEMMA ItemFacts ==
    ASSUME NEW s \in Slaves, NEW r \in Requests \cup {Null}
    PROVE  /\ Item(s, r) \in Entry
           /\ Item(s, r).slave = s /\ Item(s, r).request = r
BY DEF Item, Entry

LEMMA NoteFacts ==
    ASSUME NEW r \in Requests, home[r] \in Cells
    PROVE  /\ Note(r) \in Notification
           /\ Note(r).cell = home[r] /\ Note(r).of = r
BY DEF Note, Notification

(* Coming(r), as a sum: what heads for a slave, and the job.               *)
NotesOf(r) == {n \in Notification : n.of = r}
EntriesOf(r) == {e \in Entry : e.request = r}
Heading(r) ==
    Occurrences(port, NotesOf(r)) + Occurrences(ready, EntriesOf(r))
    + Occurrences(batch, EntriesOf(r))

LEMMA ComingSum ==
    ASSUME TypeOK, NEW r \in Requests
    PROVE  /\ Occurrences(port, NotesOf(r)) \in Nat
           /\ Occurrences(ready, EntriesOf(r)) \in Nat
           /\ Occurrences(batch, EntriesOf(r)) \in Nat
           /\ Heading(r) \in Nat
           /\ Coming(r) = Heading(r) + IF job[r] = "none" THEN 0 ELSE 1
<1>1. port \in Seq(Notification) /\ ready \in Seq(Entry) /\ batch \in Seq(Entry)
  BY DEF TypeOK
<1>2. \A i \in DOMAIN port : port[i] \in Notification
  BY <1>1
<1>3. {i \in DOMAIN port : port[i].of = r} = {i \in DOMAIN port : port[i] \in NotesOf(r)}
  BY <1>2 DEF NotesOf
<1>4. Queued \in Seq(Entry)
  BY <1>1, ConcatSet DEF Queued
<1>5. \A i \in DOMAIN Queued : Queued[i] \in Entry
  BY <1>4
<1>6. {i \in DOMAIN Queued : Queued[i].request = r}
        = {i \in DOMAIN Queued : Queued[i] \in EntriesOf(r)}
  BY <1>5 DEF EntriesOf
<1>7. /\ Occurrences(port, NotesOf(r)) \in Nat
      /\ Occurrences(port, NotesOf(r))
            = Cardinality({i \in DOMAIN port : port[i] \in NotesOf(r)})
  BY <1>1, CountType
<1>8. Occurrences(Queued, EntriesOf(r))
        = Cardinality({i \in DOMAIN Queued : Queued[i] \in EntriesOf(r)})
  BY <1>4, CountType
<1>9. /\ Occurrences(ready, EntriesOf(r)) \in Nat
      /\ Occurrences(batch, EntriesOf(r)) \in Nat
  BY <1>1, CountType
<1>10. Occurrences(Queued, EntriesOf(r))
        = Occurrences(ready, EntriesOf(r)) + Occurrences(batch, EntriesOf(r))
  BY <1>1, CountConcat DEF Queued
<1>11. Coming(r) = Cardinality({i \in DOMAIN port : port[i] \in NotesOf(r)})
                   + Cardinality({i \in DOMAIN Queued : Queued[i] \in EntriesOf(r)})
                   + IF job[r] = "none" THEN 0 ELSE 1
  BY <1>3, <1>6 DEF Coming
<1>12. Coming(r) = Heading(r) + IF job[r] = "none" THEN 0 ELSE 1
  BY <1>7, <1>8, <1>9, <1>10, <1>11 DEF Heading
<1> QED
  BY <1>7, <1>9, <1>12 DEF Heading

(* Nothing is coming only if nothing is anywhere.                          *)
LEMMA NothingComing ==
    ASSUME TypeOK, NEW r \in Requests
    PROVE  /\ Coming(r) \in Nat
           /\ Heading(r) = 0 <=>
                 /\ \A n \in ToSet(port) : n.of # r
                 /\ \A e \in ToSet(ready) \cup ToSet(batch) : e.request # r
           /\ Coming(r) = 0 <=> Heading(r) = 0 /\ job[r] = "none"
<1>1. port \in Seq(Notification) /\ ready \in Seq(Entry) /\ batch \in Seq(Entry)
  BY DEF TypeOK
<1>2. Occurrences(port, NotesOf(r)) = 0 <=> \A n \in ToSet(port) : n.of # r
  <2>1. Occurrences(port, NotesOf(r)) = 0
          <=> \A i \in DOMAIN port : port[i] \notin NotesOf(r)
    BY <1>1, CountType
  <2>2. \A i \in DOMAIN port : port[i] \in Notification
    BY <1>1
  <2> QED
    BY <2>1, <2>2 DEF ToSet, NotesOf
<1>3. Occurrences(ready, EntriesOf(r)) = 0 <=> \A e \in ToSet(ready) : e.request # r
  <2>1. Occurrences(ready, EntriesOf(r)) = 0
          <=> \A i \in DOMAIN ready : ready[i] \notin EntriesOf(r)
    BY <1>1, CountType
  <2>2. \A i \in DOMAIN ready : ready[i] \in Entry
    BY <1>1
  <2> QED
    BY <2>1, <2>2 DEF ToSet, EntriesOf
<1>4. Occurrences(batch, EntriesOf(r)) = 0 <=> \A e \in ToSet(batch) : e.request # r
  <2>1. Occurrences(batch, EntriesOf(r)) = 0
          <=> \A i \in DOMAIN batch : batch[i] \notin EntriesOf(r)
    BY <1>1, CountType
  <2>2. \A i \in DOMAIN batch : batch[i] \in Entry
    BY <1>1
  <2> QED
    BY <2>1, <2>2 DEF ToSet, EntriesOf
<1>5. /\ Heading(r) \in Nat
      /\ Heading(r) = 0 <=> /\ Occurrences(port, NotesOf(r)) = 0
                           /\ Occurrences(ready, EntriesOf(r)) = 0
                           /\ Occurrences(batch, EntriesOf(r)) = 0
  BY ComingSum DEF Heading
<1>6. /\ Coming(r) \in Nat
      /\ Coming(r) = 0 <=> Heading(r) = 0 /\ job[r] = "none"
  BY <1>5, ComingSum
<1> QED
  BY <1>2, <1>3, <1>4, <1>5, <1>6

(* The constructor gives a request that was dead an address that was free. *)
LEMMA ConstructFacts ==
    ASSUME StructInv, NEW s \in Slaves, NEW r \in Requests, NEW c \in Cells,
           Construct(s, r, c)
    PROVE  /\ at' \in [Cells -> Requests \cup {Null}]
           /\ home' \in [Requests -> Cells \cup {Null}]
           /\ at'[c] = r /\ home'[r] = c
           /\ \A d \in Cells : d # c => at'[d] = at[d] /\ at[d] # r
           /\ \A q \in Requests : q # r => home'[q] = home[q]
           /\ owner[r] = Null /\ due[r] = Null /\ Coming(r) = 0
           /\ \A q \in Requests : Live(q) => q # r /\ Live(q)'
           /\ at[c] = Null
BY EngineAssumption
   DEF Construct, Unbuilt, StructInv, TypeOK, AddressInv, Live

(* The destructors of R leave the others alone.                            *)
LEMMA DestructFacts ==
    ASSUME StructInv, NEW R, Destruct(R)
    PROVE  /\ at' \in [Cells -> Requests \cup {Null}]
           /\ home' \in [Requests -> Cells \cup {Null}]
           /\ owner' \in [Requests -> Slaves \cup {Null}]
           /\ internal' \in [Requests -> {"zero", "pending", "done"}]
           /\ job' \in [Requests -> JobStates]
           /\ due' \in [Requests -> Slaves \cup {Null}]
           /\ \A c \in Cells : at'[c] # Null => at'[c] = at[c] /\ at'[c] \notin R
           /\ \A r \in Requests :
                 /\ home'[r] \in {home[r], Null}
                 /\ job'[r] # "none" => job[r] # "none" /\ home'[r] = home[r]
                 /\ r \in R => owner'[r] = Null /\ due'[r] = Null
                 /\ r \notin R => /\ owner'[r] = owner[r] /\ due'[r] = due[r]
                                  /\ home'[r] = home[r] /\ job'[r] = job[r]
                                  /\ internal'[r] = internal[r]
                                  /\ Live(r) => Live(r)'
<1> USE EngineAssumption DEF Destruct, StructInv, TypeOK, AddressInv, JobStates
<1>1. /\ at' \in [Cells -> Requests \cup {Null}]
      /\ home' \in [Requests -> Cells \cup {Null}]
      /\ owner' \in [Requests -> Slaves \cup {Null}]
      /\ internal' \in [Requests -> {"zero", "pending", "done"}]
      /\ job' \in [Requests -> JobStates]
      /\ due' \in [Requests -> Slaves \cup {Null}]
  OBVIOUS
<1>2. \A c \in Cells : at'[c] # Null => at'[c] = at[c] /\ at'[c] \notin R
  OBVIOUS
<1>3. ASSUME NEW r \in Requests
      PROVE  /\ home'[r] \in {home[r], Null}
             /\ job'[r] # "none" => job[r] # "none" /\ home'[r] = home[r]
             /\ r \in R => owner'[r] = Null /\ due'[r] = Null
  OBVIOUS
<1>4. ASSUME NEW r \in Requests, r \notin R
      PROVE  /\ owner'[r] = owner[r] /\ due'[r] = due[r]
             /\ home'[r] = home[r] /\ job'[r] = job[r]
             /\ internal'[r] = internal[r]
             /\ Live(r) => Live(r)'
  BY <1>4 DEF Live
<1> QED
  BY <1>1, <1>2, <1>3, <1>4

LEMMA DestructKeeps ==
    ASSUME StructInv, NEW R, Destruct(R), UNCHANGED port,
           \A r \in Requests \ R : owner[r] # Null => owner[r] \in alive'
    PROVE  AddressInv'
<1> USE DestructFacts, EngineAssumption DEF StructInv, AddressInv, TypeOK
<1>1. ASSUME NEW c \in Cells, at'[c] # Null
      PROVE  home'[at'[c]] = c /\ owner'[at'[c]] # Null
  BY <1>1
<1>2. ASSUME NEW r \in Requests
      PROVE  /\ owner'[r] # Null => Live(r)' /\ owner'[r] \in alive'
             /\ job'[r] # "none" => home'[r] # Null
             /\ due'[r] # Null => owner'[r] = due'[r]
  BY <1>2
<1>3. ASSUME NEW n \in ToSet(port)
      PROVE  home'[n.of] \in {n.cell, Null}
  <2>a. ToSet(port) \subseteq Notification
    BY SetType
  <2>1. n.of \in Requests
    BY <2>a DEF Notification
  <2> QED
    BY <2>1
<1> QED
  BY <1>1, <1>2, <1>3

LEMMA ConstructKeeps ==
    ASSUME StructInv, NEW s \in alive, NEW r \in Requests, NEW c \in Cells,
           Construct(s, r, c), owner' = [owner EXCEPT ![r] = s],
           due' \in {due, [due EXCEPT ![r] = s]},
           UNCHANGED <<port, job, alive>>
    PROVE  AddressInv'
<1> USE ConstructFacts, EngineAssumption DEF StructInv, AddressInv, TypeOK
<1>1. ASSUME NEW d \in Cells, at'[d] # Null
      PROVE  home'[at'[d]] = d /\ owner'[at'[d]] # Null
  BY <1>1
<1>2. ASSUME NEW q \in Requests
      PROVE  /\ owner'[q] # Null => Live(q)' /\ owner'[q] \in alive'
             /\ job'[q] # "none" => home'[q] # Null
             /\ due'[q] # Null => owner'[q] = due'[q]
  BY <1>2 DEF Live
<1>3. ASSUME NEW n \in ToSet(port)
      PROVE  home'[n.of] \in {n.cell, Null}
  <2>a. ToSet(port) \subseteq Notification
    BY SetType
  <2>1. n.of \in Requests
    BY <2>a DEF Notification
  <2>2. n.of # r
    BY <2>1, NothingComing
  <2> QED
    BY <2>1, <2>2
<1> QED
  BY <1>1, <1>2, <1>3

(* process() appends at most one entry, for the owner of the request at    *)
(* the notification's address.                                             *)
LEMMA ProcessFacts ==
    ASSUME StructInv, port # <<>>, Process(Head(port)), port' = Tail(port)
    PROVE  /\ Head(port) \in Notification /\ port' \in Seq(Notification)
           /\ ToSet(port) = {Head(port)} \cup ToSet(port')
           /\ ready' \in Seq(Entry)
           /\ LET r == at[Head(port).cell] IN
              \/ r = Null /\ ready' = ready
              \/ /\ r \in Requests /\ owner[r] \in Slaves
                 /\ Live(r) /\ home[r] = Head(port).cell
                 /\ ready' = Append(ready, Item(owner[r], r))
                 /\ ToSet(ready') = ToSet(ready) \cup {Item(owner[r], r)}
<1> DEFINE n == Head(port)
           r == at[n.cell]
<1>1. /\ n \in Notification /\ port' \in Seq(Notification)
      /\ ToSet(port) = {n} \cup ToSet(port')
  BY TailSet DEF StructInv, TypeOK
<1>2. r \in Requests \cup {Null} /\ n.cell \in Cells
  BY <1>1 DEF StructInv, TypeOK, Notification
<1>3. CASE r = Null
  BY <1>1, <1>3 DEF Process, StructInv, TypeOK
<1>4. CASE r # Null
  <2>1. /\ r \in Requests /\ owner[r] \in Slaves
        /\ Live(r) /\ home[r] = n.cell
    BY <1>2, <1>4, EngineAssumption DEF StructInv, TypeOK, AddressInv, Live
  <2>2. ready' = Append(ready, Item(owner[r], r)) /\ Item(owner[r], r) \in Entry
    BY <1>4, <2>1, ItemFacts DEF Process
  <2>3. ready' \in Seq(Entry) /\ ToSet(ready') = ToSet(ready) \cup {Item(owner[r], r)}
    BY <2>2, AppendSet DEF StructInv, TypeOK
  <2> QED
    BY <1>1, <2>1, <2>2, <2>3
<1> QED
  BY <1>3, <1>4

----------------------------------------------------------------------------
(* Types, control and ownership, whatever application code does.           *)

LEMMA StructInit == Init => StructInv
<1> SUFFICES ASSUME Init
             PROVE  StructInv
  OBVIOUS
<1>1. TypeOK
  BY EmptySet, EngineAssumption DEF Init, TypeOK, JobStates, Loops, Steps
<1>2. ControlInv
  BY EngineAssumption DEF Init, ControlInv, Busy
<1>3. AddressInv
  BY EmptySet DEF Init, AddressInv
<1> QED
  BY <1>1, <1>2, <1>3 DEF StructInv

LEMMA StructStep == StructInv /\ [Next]_vars => StructInv'
<1> SUFFICES ASSUME StructInv, [Next]_vars
             PROVE  StructInv'
  OBVIOUS
<1> USE EngineAssumption
    DEF StructInv, TypeOK, ControlInv, AddressInv, Live, JobStates, Loops,
        Steps, Busy, requestVars, loopVars, slaveVars, Runs, InApp, MasterAt
<1>1. CASE UNCHANGED vars
  BY <1>1 DEF vars
<1>2. ASSUME NEW r \in Requests, Elapse(r) PROVE StructInv'
  BY <1>2 DEF Elapse
<1>3. ASSUME NEW r \in Requests, Execute(r) PROVE StructInv'
  BY <1>3 DEF Execute
<1>4. ASSUME NEW r \in Requests, Close(r) PROVE StructInv'
  BY <1>4 DEF Close
<1>5. ASSUME NEW r \in Requests, ReportCompletion(r) PROVE StructInv'
  BY <1>5, NoteFacts, AppendSet DEF ReportCompletion
<1>6. CASE ProcessNotification
  BY <1>6, ProcessFacts DEF ProcessNotification
<1>7. CASE NoNotification
  BY <1>7 DEF NoNotification
<1>8. CASE CheckPending
  <2>1. CASE ready = <<>>
    BY <1>8, <2>1 DEF CheckPending
  <2>2. CASE ready # <<>>
    <3>1. <<>> \in Seq(Entry)
      BY EmptySet
    <3> QED
      BY <1>8, <2>2, <3>1 DEF CheckPending
  <2> QED
    BY <2>1, <2>2
<1>9. CASE WaitForNotification
  BY <1>9, ProcessFacts DEF WaitForNotification
<1>10. CASE Dispatch
  BY <1>10, TailSet DEF Dispatch, Entry
<1>11. CASE DispatchReturns
  BY <1>11 DEF DispatchReturns
<1>12. ASSUME NEW s \in Slaves, Spawn(s) PROVE StructInv'
  BY <1>12 DEF Spawn
<1>13. CASE ResumeOne
  <2>1. CASE ready = <<>>
    BY <1>13, <2>1 DEF ResumeOne
  <2>2. CASE ready # <<>>
    <3>1. Head(ready) \in Entry /\ Tail(ready) \in Seq(Entry)
      BY <2>2, TailSet
    <3>0. /\ ready' = Tail(ready)
          /\ current' \in alive \cup {Master}
          /\ due' = [r \in Requests |->
                       IF r = Head(ready).request /\ due[r] = Head(ready).slave
                       THEN Null ELSE due[r]]
      BY <1>13, <2>2 DEF ResumeOne
    <3>2. TypeOK'
      BY <1>13, <3>0, <3>1 DEF ResumeOne
    <3>3. ControlInv' /\ AddressInv'
      BY <1>13, <2>2, <3>1 DEF ResumeOne, Entry
    <3> QED
      BY <3>2, <3>3
  <2> QED
    BY <2>1, <2>2
<1>14. ASSUME NEW s \in Slaves, SpawnQueued(s) PROVE StructInv'
  BY <1>14, ItemFacts, AppendSet DEF SpawnQueued
<1>15. CASE Turn
  BY <1>15, ProcessFacts DEF Turn
<1>16. CASE Shutdown
  <2> DEFINE R == UNION {OnStack(s) : s \in alive}
  <2>1. Destruct(R) /\ UNCHANGED port
    BY <1>16 DEF Shutdown
  <2>2. \A r \in Requests \ R : owner[r] = Null
    BY DEF OnStack
  <2> HIDE DEF R
  <2>3. AddressInv'
    BY <2>1, <2>2, DestructKeeps
  <2>4. TypeOK'
    BY <1>16, <2>1, DestructFacts, EmptySet DEF Shutdown
  <2>5. ControlInv'
    BY <1>16 DEF Shutdown
  <2> QED
    BY <2>3, <2>4, <2>5
<1>17. ASSUME NEW s \in Slaves, NEW r \in Requests, NEW c \in Cells, Call(s, r, c)
       PROVE  StructInv'
  <2>1. Construct(s, r, c) /\ s \in alive
    BY <1>17 DEF Call
  <2>2. AddressInv'
    BY <1>17, <2>1, ConstructKeeps DEF Call, Mark
  <2>3. TypeOK'
    BY <1>17, <2>1, ConstructFacts DEF Call, Mark
  <2>4. ControlInv'
    BY <1>17, <2>1, ConstructFacts DEF Call, Mark
  <2> QED
    BY <2>2, <2>3, <2>4
<1>18. ASSUME NEW s \in Slaves, NEW r \in Requests, NEW c \in Cells, New(s, r, c)
       PROVE  StructInv'
  <2>1. Construct(s, r, c) /\ s \in alive
    BY <1>18 DEF New
  <2>2. AddressInv'
    BY <1>18, <2>1, ConstructKeeps DEF New
  <2>3. TypeOK'
    BY <1>18, <2>1, ConstructFacts DEF New
  <2>4. ControlInv'
    BY <1>18, <2>1, ConstructFacts DEF New
  <2> QED
    BY <2>2, <2>3, <2>4
<1>19. ASSUME NEW s \in Slaves, NEW r \in Requests, Start(s, r) PROVE StructInv'
  BY <1>19 DEF Start, Mark
<1>20. ASSUME NEW s \in Slaves, NEW r \in Requests, AbortCancel(s, r)
       PROVE  StructInv'
  BY <1>20 DEF AbortCancel
<1>21. ASSUME NEW s \in Slaves, NEW r \in Requests, Reset(s, r) PROVE StructInv'
  BY <1>21 DEF Reset
<1>22. ASSUME NEW s \in Slaves, NEW r \in Requests, Delete(s, r) PROVE StructInv'
  <2>1. Destruct({r}) /\ UNCHANGED <<port, alive>> /\ InApp(s)
    BY <1>22 DEF Delete
  <2>2. AddressInv'
    BY <2>1, DestructKeeps
  <2>3. TypeOK'
    BY <1>22, <2>1, DestructFacts DEF Delete
  <2>4. ControlInv'
    BY <1>22 DEF Delete
  <2> QED
    BY <2>2, <2>3, <2>4
<1>23. ASSUME NEW s \in Slaves, Submit(s) PROVE StructInv'
  BY <1>23 DEF Submit
<1>24. ASSUME NEW s \in Slaves, Yield(s) PROVE StructInv'
  BY <1>24 DEF Yield
<1>25. ASSUME NEW s \in Slaves, Pause(s) PROVE StructInv'
  BY <1>25, ItemFacts, AppendSet DEF Pause
<1>26. ASSUME NEW s \in Slaves, CallReturns(s) PROVE StructInv'
  <2>1. Destruct({using[s]}) /\ UNCHANGED <<port, alive>>
    BY <1>26 DEF CallReturns
  <2>2. AddressInv'
    BY <2>1, DestructKeeps
  <2>3. TypeOK'
    BY <1>26, <2>1, DestructFacts DEF CallReturns
  <2>4. ControlInv'
    BY <1>26 DEF CallReturns
  <2> QED
    BY <2>2, <2>3, <2>4
<1>27. ASSUME NEW s \in Slaves, AbortReturns(s) PROVE StructInv'
  BY <1>27 DEF AbortReturns
<1>28. ASSUME NEW s \in Slaves, End(s) PROVE StructInv'
  <2>1. Destruct(OnStack(s)) /\ UNCHANGED port /\ alive' = alive \ {s}
    BY <1>28 DEF End
  <2>2. \A r \in Requests \ OnStack(s) : owner[r] # s
    BY DEF OnStack
  <2>3. AddressInv'
    BY <2>1, <2>2, DestructKeeps
  <2>4. TypeOK'
    BY <1>28, <2>1, DestructFacts DEF End
  <2>5. ControlInv'
    BY <1>28 DEF End
  <2> QED
    BY <2>3, <2>4, <2>5
<1> QED
  BY <1>1, <1>2, <1>3, <1>4, <1>5, <1>6, <1>7, <1>8, <1>9, <1>10, <1>11,
     <1>12, <1>13, <1>14, <1>15, <1>16, <1>17, <1>18, <1>19, <1>20, <1>21,
     <1>22, <1>23, <1>24, <1>25, <1>26, <1>27, <1>28
     DEF Next, PoolStep, LoopStep, SlaveStep

LEMMA StructAlways == Spec => []StructInv
<1>1. Init => StructInv
  BY StructInit
<1>2. StructInv /\ [Next]_vars => StructInv'
  BY StructStep
<1> QED
  BY <1>1, <1>2, PTL DEF Spec

(* Every variable keeps its type: process() finds an owner wherever it     *)
(* finds a request, and no notification is posted without an address       *)
(* (Engine.cpp:97-117), whatever application code does.                    *)
THEOREM EngineTypes == Spec => []TypeOK
<1>1. StructInv => TypeOK
  BY DEF StructInv
<1> QED
  BY <1>1, StructAlways, PTL

----------------------------------------------------------------------------
(* No completion is lost, whatever application code does.                  *)

LEMMA AnnouncedStep ==
    StructInv /\ AnnouncedInv /\ [Next]_vars => AnnouncedInv'
<1> SUFFICES ASSUME StructInv, AnnouncedInv, [Next]_vars,
                    NEW r \in Works \cup Waits, due'[r] # Null
             PROVE  Announced(r)'
  BY DEF AnnouncedInv
<1>a. r \in Requests /\ r \notin Timers
  BY EngineAssumption DEF Requests
<1>b. due[r] # Null => Announced(r)
  BY DEF AnnouncedInv
<1>c. /\ port \in Seq(Notification) /\ ready \in Seq(Entry) /\ batch \in Seq(Entry)
      /\ due \in [Requests -> Slaves \cup {Null}] /\ job \in [Requests -> JobStates]
      /\ step \in [Slaves -> Steps] /\ using \in [Slaves -> Requests \cup {Null}]
      /\ current \in Slaves => current \in alive
      /\ loop # "dispatch" => batch = <<>>
      /\ \A s \in Slaves :
            /\ step[s] \in Busy => current = s
            /\ step[s] = "aborting" => using[s] \in Timers
      /\ due[r] # Null => due[r] \in alive /\ owner[r] = due[r] /\ Live(r)
  BY <1>a, EngineAssumption DEF StructInv, TypeOK, ControlInv, AddressInv
<1> USE <1>a, <1>b, <1>c, EngineAssumption
    DEF Announced, requestVars, loopVars, slaveVars, Runs, InApp, MasterAt, Busy
<1>1. CASE UNCHANGED vars
  BY <1>1 DEF vars
<1>2. ASSUME NEW q \in Requests, Elapse(q) PROVE Announced(r)'
  BY <1>2 DEF Elapse
<1>3. ASSUME NEW q \in Requests, Execute(q) PROVE Announced(r)'
  BY <1>3 DEF Execute
<1>4. ASSUME NEW q \in Requests, Close(q) PROVE Announced(r)'
  BY <1>4 DEF Close
<1>5. ASSUME NEW q \in Requests, ReportCompletion(q) PROVE Announced(r)'
  <2>1. /\ Note(q) \in Notification /\ Note(q).of = q
        /\ ToSet(port') = ToSet(port) \cup {Note(q)}
    BY <1>5, NoteFacts, AppendSet DEF ReportCompletion, StructInv, TypeOK, AddressInv
  <2> QED
    BY <1>5, <2>1 DEF ReportCompletion
<1>6. ASSUME port # <<>>, Process(Head(port)), port' = Tail(port),
             UNCHANGED <<requestVars, job, batch, step, using, due>>
      PROVE  Announced(r)'
  <2>1. /\ ToSet(port) = {Head(port)} \cup ToSet(port')
        /\ ToSet(ready) \subseteq ToSet(ready')
    BY <1>6, ProcessFacts
  <2>2. ASSUME Head(port).of = r
        PROVE  Item(due[r], r) \in ToSet(ready')
    <3>1. at[Head(port).cell] = r /\ owner[r] = due[r]
      BY <1>6, <2>1, <2>2 DEF StructInv, AddressInv, Live
    <3> QED
      BY <1>6, <3>1, ProcessFacts
  <2> QED
    BY <1>6, <2>1, <2>2
<1>7. CASE ProcessNotification
  BY <1>6, <1>7 DEF ProcessNotification
<1>8. CASE NoNotification
  BY <1>8 DEF NoNotification
<1>9. CASE CheckPending
  BY <1>9, EmptySet DEF CheckPending
<1>10. CASE WaitForNotification
  BY <1>6, <1>10 DEF WaitForNotification
<1>11. CASE Dispatch
  <2>1. ToSet(batch) = {Head(batch)} \cup ToSet(batch') /\ Head(batch) \in Entry
    BY <1>11, TailSet DEF Dispatch
  <2>2. due[r] # Null /\ due'[r] = due[r]
    BY <1>11 DEF Dispatch
  <2>3. Head(batch) # Item(due[r], r)
    BY <1>11, <2>2, ItemFacts DEF Dispatch
  <2> QED
    BY <1>11, <2>1, <2>2, <2>3 DEF Dispatch
<1>12. CASE DispatchReturns
  BY <1>12 DEF DispatchReturns
<1>13. ASSUME NEW s \in Slaves, Spawn(s) PROVE Announced(r)'
  BY <1>13 DEF Spawn
<1>14. CASE ResumeOne
  <2>1. CASE ready = <<>>
    BY <1>14, <2>1 DEF ResumeOne
  <2>2. CASE ready # <<>>
    <3>1. ToSet(ready) = {Head(ready)} \cup ToSet(ready') /\ Head(ready) \in Entry
      BY <1>14, <2>2, TailSet DEF ResumeOne
    <3>2. due[r] # Null /\ due'[r] = due[r]
      BY <1>14, <2>2 DEF ResumeOne
    <3>3. Head(ready) # Item(due[r], r)
      BY <1>14, <2>2, <3>2, ItemFacts DEF ResumeOne
    <3> QED
      BY <1>14, <3>1, <3>2, <3>3 DEF ResumeOne
  <2> QED
    BY <2>1, <2>2
<1>15. ASSUME NEW s \in Slaves, SpawnQueued(s) PROVE Announced(r)'
  BY <1>15, ItemFacts, AppendSet DEF SpawnQueued
<1>16. CASE Turn
  BY <1>6, <1>16 DEF Turn
<1>17. CASE Shutdown
  <2>1. due[r] # Null => r \in UNION {OnStack(s) : s \in alive}
    BY DEF OnStack, StructInv, TypeOK
  <2>2. Destruct(UNION {OnStack(s) : s \in alive})
    BY <1>17 DEF Shutdown
  <2>3. due'[r] = Null
    BY <2>1, <2>2 DEF Destruct
  <2> QED
    BY <2>3
<1>18. ASSUME NEW s \in Slaves, NEW q \in Requests, NEW c \in Cells, Call(s, q, c)
       PROVE  Announced(r)'
  BY <1>18 DEF Call, Mark
<1>19. ASSUME NEW s \in Slaves, NEW q \in Requests, NEW c \in Cells, New(s, q, c)
       PROVE  Announced(r)'
  BY <1>19 DEF New
<1>20. ASSUME NEW s \in Slaves, NEW q \in Requests, Start(s, q) PROVE Announced(r)'
  BY <1>20 DEF Start, Mark
<1>21. ASSUME NEW s \in Slaves, NEW q \in Requests, AbortCancel(s, q)
       PROVE  Announced(r)'
  BY <1>21 DEF AbortCancel
<1>22. ASSUME NEW s \in Slaves, NEW q \in Requests, Reset(s, q) PROVE Announced(r)'
  BY <1>22 DEF Reset
<1>23. ASSUME NEW R, Destruct(R), UNCHANGED <<port, ready, batch>>,
              \A s \in Slaves : step[s] \in {"starting", "calling"} =>
                  step'[s] = step[s] /\ using'[s] = using[s]
       PROVE  Announced(r)'
  <2>1. r \notin R /\ due'[r] = due[r] /\ job'[r] = job[r]
    BY <1>23 DEF Destruct
  <2> QED
    BY <1>23, <2>1
<1>24. ASSUME NEW s \in Slaves, NEW q \in Requests, Delete(s, q) PROVE Announced(r)'
  BY <1>23, <1>24 DEF Delete
<1>25. ASSUME NEW s \in Slaves, Submit(s) PROVE Announced(r)'
  BY <1>25 DEF Submit
<1>26. ASSUME NEW s \in Slaves, Yield(s) PROVE Announced(r)'
  BY <1>26 DEF Yield
<1>27. ASSUME NEW s \in Slaves, Pause(s) PROVE Announced(r)'
  BY <1>27, ItemFacts, AppendSet DEF Pause
<1>28. ASSUME NEW s \in Slaves, CallReturns(s) PROVE Announced(r)'
  BY <1>23, <1>28 DEF CallReturns
<1>29. ASSUME NEW s \in Slaves, AbortReturns(s) PROVE Announced(r)'
  BY <1>29 DEF AbortReturns
<1>30. ASSUME NEW s \in Slaves, End(s) PROVE Announced(r)'
  BY <1>23, <1>30 DEF End
<1> QED
  BY <1>1, <1>2, <1>3, <1>4, <1>5, <1>7, <1>8, <1>9, <1>10, <1>11, <1>12,
     <1>13, <1>14, <1>15, <1>16, <1>17, <1>18, <1>19, <1>20, <1>21, <1>22,
     <1>24, <1>25, <1>26, <1>27, <1>28, <1>29, <1>30
     DEF Next, PoolStep, LoopStep, SlaveStep

LEMMA AnnouncedAlways == Spec => []AnnouncedInv
<1>1. Init => AnnouncedInv
  BY EngineAssumption DEF Init, AnnouncedInv, Requests
<1>2. StructInv /\ AnnouncedInv /\ [Next]_vars => AnnouncedInv'
  BY AnnouncedStep
<1> QED
  BY <1>1, <1>2, StructAlways, PTL DEF Spec

(* A slave that waits for a computation or an object gets its completion,  *)
(* even if requests are abandoned, slaves end in the middle of calls and   *)
(* notifications find the wrong request (Engine.cpp:75-118).  Timers,      *)
(* which can be aborted, are left out here: see CompletionsAreExact.       *)
THEOREM NoneIsLost == Timers = {} /\ Spec => []NoCompletionLost
<1>1. Timers = {} /\ StructInv /\ AnnouncedInv => NoCompletionLost
  <2> SUFFICES ASSUME Timers = {}, StructInv, AnnouncedInv,
                      NEW r \in Requests, due[r] # Null
               PROVE  \/ Coming(r) > 0
                      \/ \E s \in Slaves :
                             using[s] = r /\ step[s] \in {"starting", "calling"}
    BY DEF NoCompletionLost
  <2>1. Announced(r)
    BY DEF AnnouncedInv, Requests
  <2>2. due[r] \in Slaves
    BY DEF StructInv, TypeOK
  <2>3. Item(due[r], r).request = r
    BY <2>2, ItemFacts
  <2>4. Coming(r) \in Nat /\ (Coming(r) = 0 \/ Coming(r) > 0)
    BY NothingComing DEF StructInv
  <2> QED
    BY <2>1, <2>3, <2>4, NothingComing DEF StructInv, Announced
<1>2. CASE Timers = {}
  <2>1. StructInv /\ AnnouncedInv => NoCompletionLost
    BY <1>1, <1>2
  <2> QED
    BY <2>1, StructAlways, AnnouncedAlways, PTL
<1>3. CASE Timers # {}
  BY <1>3
<1> QED
  BY <1>2, <1>3

----------------------------------------------------------------------------
(* Both main loops.                                                        *)

LEMMA QueueStep ==
    "PauseInDemo" \notin Habits /\ StructInv /\ QueueInv /\ [Next]_vars
        => QueueInv'
<1> SUFFICES ASSUME "PauseInDemo" \notin Habits, StructInv, QueueInv, [Next]_vars
             PROVE  QueueInv'
  OBVIOUS
<1>a. /\ ready \in Seq(Entry) /\ Len(<<>>) = 0
      /\ current # Master => loop \in {"process", "dispatch", "turn"}
  BY DEF StructInv, TypeOK, ControlInv
<1> USE <1>a, EngineAssumption
    DEF QueueInv, requestVars, loopVars, slaveVars, Runs, InApp, MasterAt
<1>1. CASE UNCHANGED vars
  BY <1>1 DEF vars
<1>2. CASE UNCHANGED loopVars
  BY <1>2
<1>3. CASE PoolStep
  BY <1>2, <1>3 DEF PoolStep, Elapse, Execute, Close, ReportCompletion
<1>4. CASE ProcessNotification
  BY <1>4 DEF ProcessNotification
<1>5. CASE NoNotification
  BY <1>5 DEF NoNotification
<1>6. CASE CheckPending
  BY <1>6 DEF CheckPending
<1>7. CASE WaitForNotification
  BY <1>7 DEF WaitForNotification
<1>8. CASE Dispatch
  BY <1>8 DEF Dispatch
<1>9. CASE DispatchReturns
  BY <1>9 DEF DispatchReturns
<1>10. ASSUME NEW s \in Slaves, Spawn(s) PROVE QueueInv'
  BY <1>2, <1>10 DEF Spawn
<1>11. CASE ResumeOne
  <2>1. CASE ready = <<>>
    BY <1>11, <2>1 DEF ResumeOne
  <2>2. CASE ready # <<>>
    <3>1. loop = "resume" /\ ready' = Tail(ready) /\ loop' = "turn"
      BY <1>11, <2>2 DEF ResumeOne
    <3>2. Len(ready) \in Nat /\ Len(ready) # 0 /\ Len(ready) <= 1
      <4>1. Len(ready) = 0 => ready = <<>>
        BY ONLY <1>a, EmptySeq
      <4> QED
        BY <2>2, <3>1, <4>1, LenProperties
    <3>3. Len(ready) = 1
      <4>1. \A n \in Nat : n # 0 /\ n <= 1 => n = 1
        OBVIOUS
      <4> QED
        BY ONLY <3>2, <4>1
    <3>4. ready' \in Seq(Entry) /\ Len(ready') = 0
      BY <2>2, <3>1, <3>3, HeadTailProperties
    <3>5. ready' = <<>>
      BY <3>4, EmptySeq
    <3> QED
      BY <3>1, <3>5
  <2> QED
    BY <2>1, <2>2
<1>12. ASSUME NEW s \in Slaves, SpawnQueued(s) PROVE QueueInv'
  <2>1. Item(s, Null) \in Entry /\ ready = <<>> /\ loop' = "resume"
        /\ ready' = Append(ready, Item(s, Null))
    BY <1>12, ItemFacts DEF SpawnQueued
  <2>2. Len(ready') = 1
    BY <2>1, AppendProperties
  <2> QED
    BY <2>1, <2>2
<1>13. CASE Turn
  <2>1. ready = <<>> /\ loop' = "resume"
    BY <1>13 DEF Turn
  <2>2. Len(ready') <= 1
    <3>1. CASE ready' = ready
      BY <2>1, <3>1
    <3>2. CASE \E e \in Entry : ready' = Append(ready, e)
      BY <2>1, <3>2, AppendProperties
    <3> QED
      BY <1>13, <3>1, <3>2, ProcessFacts, ItemFacts DEF Turn
  <2> QED
    BY <2>1, <2>2
<1>14. CASE Shutdown
  BY <1>14 DEF Shutdown
<1>15. ASSUME NEW s \in Slaves, Pause(s) PROVE QueueInv'
  BY <1>15 DEF Pause
<1>16. CASE SlaveStep
  <2>1. ASSUME NEW s \in Slaves, NEW r \in Requests, NEW c \in Cells,
               Call(s, r, c) \/ New(s, r, c)
        PROVE  UNCHANGED loopVars
    BY <2>1 DEF Call, New
  <2>2. ASSUME NEW s \in Slaves, NEW r \in Requests,
               \/ Start(s, r) \/ AbortCancel(s, r) \/ Reset(s, r) \/ Delete(s, r)
        PROVE  UNCHANGED loopVars
    BY <2>2 DEF Start, AbortCancel, Reset, Delete
  <2>3. ASSUME NEW s \in Slaves,
               \/ Submit(s) \/ Yield(s) \/ CallReturns(s)
               \/ AbortReturns(s) \/ End(s)
        PROVE  UNCHANGED loopVars
    BY <2>3 DEF Submit, Yield, CallReturns, AbortReturns, End
  <2> QED
    BY <1>2, <1>15, <1>16, <2>1, <2>2, <2>3 DEF SlaveStep
<1> QED
  BY <1>1, <1>3, <1>4, <1>5, <1>6, <1>7, <1>8, <1>9, <1>10, <1>11, <1>12,
     <1>13, <1>14, <1>16 DEF Next, LoopStep

LEMMA QueueAlways == "PauseInDemo" \notin Habits /\ Spec => []QueueInv
<1>1. Init => QueueInv
  BY DEF Init, QueueInv
<1>2. "PauseInDemo" \notin Habits /\ StructInv /\ QueueInv /\ [Next]_vars => QueueInv'
  BY QueueStep
<1>3. CASE "PauseInDemo" \notin Habits
  <2>1. StructInv /\ QueueInv /\ [Next]_vars => QueueInv'
    BY <1>2, <1>3
  <2> QED
    BY <1>1, <2>1, StructAlways, PTL DEF Spec
<1>4. CASE ~("PauseInDemo" \notin Habits)
  BY <1>4
<1> QED
  BY <1>3, <1>4

(* Neither main loop ever waits for a notification while a slave is queued *)
(* to run, as long as no task of the demo's pauses.                        *)
THEOREM NeverBlocksBusy ==
    "PauseInDemo" \notin Habits /\ Spec => []BlocksOnlyWhenIdle
<1>1. StructInv /\ QueueInv => BlocksOnlyWhenIdle
  BY DEF StructInv, ControlInv, QueueInv, BlocksOnlyWhenIdle, MasterAt
<1> QED
  BY <1>1, StructAlways, QueueAlways, PTL

----------------------------------------------------------------------------
(* Application code that keeps its requests until they complete.           *)

(* How the actions change what heads for a slave.                          *)

SumFacts ==
    \A r \in Requests :
        /\ Heading(r) \in Nat
        /\ Coming(r) = Heading(r) + IF job[r] = "none" THEN 0 ELSE 1
        /\ Heading(r) = 0 =>
              \A e \in ToSet(ready) \cup ToSet(batch) : e.request # r

LEMMA ComingSumNext == TypeOK' => SumFacts'
<1>1. TypeOK => SumFacts
  BY ComingSum, NothingComing DEF SumFacts
<1>2. (TypeOK => SumFacts)'
  BY <1>1, PTL
<1> QED
  BY <1>2

LEMMA HeadingStays ==
    UNCHANGED <<port, ready, batch>> => \A r \in Requests : Heading(r)' = Heading(r)
BY DEF Heading, NotesOf, EntriesOf

LEMMA HeadingPosted ==
    ASSUME StructInv, NEW q \in Requests, home[q] \in Cells,
           port' = Append(port, Note(q)), UNCHANGED <<ready, batch>>,
           NEW r \in Requests
    PROVE  /\ Heading(r)' = Heading(r) + IF r = q THEN 1 ELSE 0
           /\ ToSet(port') = ToSet(port) \cup {Note(q)}
<1>1. port \in Seq(Notification) /\ Note(q) \in Notification
  BY NoteFacts DEF StructInv, TypeOK
<1>2. Note(q) \in NotesOf(r) <=> r = q
  BY NoteFacts, <1>1 DEF NotesOf
<1>3. /\ ToSet(port') = ToSet(port) \cup {Note(q)}
      /\ Occurrences(port', NotesOf(r))
            = Occurrences(port, NotesOf(r)) + IF r = q THEN 1 ELSE 0
  BY <1>1, <1>2, CountAppend, AppendSet
<1>4. Heading(r)' = Occurrences(port', NotesOf(r)) + Occurrences(ready, EntriesOf(r))
                    + Occurrences(batch, EntriesOf(r))
  BY DEF Heading, NotesOf, EntriesOf
<1>5. /\ Occurrences(port, NotesOf(r)) \in Nat
      /\ Occurrences(ready, EntriesOf(r)) \in Nat
      /\ Occurrences(batch, EntriesOf(r)) \in Nat
      /\ (IF r = q THEN 1 ELSE 0) \in Nat
  BY ComingSum DEF StructInv
<1> QED
  BY <1>3, <1>4, <1>5 DEF Heading

(* An entry goes to the back of the queue.                                 *)
LEMMA HeadingQueued ==
    ASSUME StructInv, NEW e \in Entry, ready' = Append(ready, e),
           UNCHANGED batch, NEW r \in Requests
    PROVE  /\ UNCHANGED port =>
                 Heading(r)' = Heading(r) + IF e.request = r THEN 1 ELSE 0
           /\ port # <<>> /\ port' = Tail(port) /\ Head(port).of = e.request =>
                 Heading(r)' = Heading(r)
           /\ ToSet(ready') = ToSet(ready) \cup {e}
<1>1. port \in Seq(Notification) /\ ready \in Seq(Entry)
  BY DEF StructInv, TypeOK
<1>2. e \in EntriesOf(r) <=> e.request = r
  BY DEF EntriesOf
<1>3. /\ ToSet(ready') = ToSet(ready) \cup {e}
      /\ Occurrences(ready', EntriesOf(r))
            = Occurrences(ready, EntriesOf(r)) + IF e.request = r THEN 1 ELSE 0
  BY <1>1, <1>2, CountAppend, AppendSet
<1>4. Heading(r)' = Occurrences(port', NotesOf(r)) + Occurrences(ready', EntriesOf(r))
                    + Occurrences(batch, EntriesOf(r))
  BY DEF Heading, NotesOf, EntriesOf
<1>5. /\ Occurrences(port, NotesOf(r)) \in Nat
      /\ Occurrences(ready, EntriesOf(r)) \in Nat
      /\ Occurrences(batch, EntriesOf(r)) \in Nat
      /\ (IF e.request = r THEN 1 ELSE 0) \in Nat
  BY ComingSum DEF StructInv
<1>6. UNCHANGED port =>
          Heading(r)' = Heading(r) + IF e.request = r THEN 1 ELSE 0
  BY <1>3, <1>4, <1>5 DEF Heading
<1>7. ASSUME port # <<>>, port' = Tail(port), Head(port).of = e.request
      PROVE  Heading(r)' = Heading(r)
  <2>1. Head(port) \in NotesOf(r) <=> e.request = r
    BY <1>1, <1>7, CountTail DEF NotesOf
  <2>2. Occurrences(port, NotesOf(r))
          = Occurrences(port', NotesOf(r)) + IF e.request = r THEN 1 ELSE 0
    BY <1>1, <1>7, <2>1, CountTail
  <2>3. Occurrences(port', NotesOf(r)) \in Nat
    BY <1>1, <1>7, TailSet, CountType
  <2> QED
    BY <1>3, <1>4, <1>5, <2>2, <2>3 DEF Heading
<1> QED
  BY <1>3, <1>6, <1>7

(* An entry is taken from the front of the queue, or of what was stolen.   *)
LEMMA HeadingTaken ==
    ASSUME StructInv, UNCHANGED port, NEW e,
           \/ /\ ready # <<>> /\ e = Head(ready)
              /\ ready' = Tail(ready) /\ UNCHANGED batch
           \/ /\ batch # <<>> /\ e = Head(batch)
              /\ batch' = Tail(batch) /\ UNCHANGED ready
    PROVE  /\ e \in ToSet(ready) \cup ToSet(batch)
           /\ ToSet(ready') \cup ToSet(batch') \subseteq ToSet(ready) \cup ToSet(batch)
           /\ \A r \in Requests :
                 Heading(r) = Heading(r)' + IF e.request = r THEN 1 ELSE 0
<1>1. ready \in Seq(Entry) /\ batch \in Seq(Entry)
  BY DEF StructInv, TypeOK
<1>2. /\ e \in ToSet(ready) \cup ToSet(batch)
      /\ ToSet(ready') \cup ToSet(batch') \subseteq ToSet(ready) \cup ToSet(batch)
  BY <1>1, TailSet
<1>3. ASSUME NEW r \in Requests
      PROVE  Heading(r) = Heading(r)' + IF e.request = r THEN 1 ELSE 0
  <2>1. Heading(r)' = Occurrences(port, NotesOf(r)) + Occurrences(ready', EntriesOf(r))
                      + Occurrences(batch', EntriesOf(r))
    BY DEF Heading, NotesOf, EntriesOf
  <2>2. /\ Occurrences(port, NotesOf(r)) \in Nat
        /\ Occurrences(ready, EntriesOf(r)) \in Nat
        /\ Occurrences(batch, EntriesOf(r)) \in Nat
        /\ (IF e.request = r THEN 1 ELSE 0) \in Nat
    BY ComingSum DEF StructInv
  <2>3. ASSUME NEW q \in Seq(Entry), q # <<>>, e = Head(q)
        PROVE  /\ Occurrences(q, EntriesOf(r))
                    = Occurrences(Tail(q), EntriesOf(r)) + IF e.request = r THEN 1 ELSE 0
               /\ Occurrences(Tail(q), EntriesOf(r)) \in Nat
    <3>1. e \in Entry /\ Tail(q) \in Seq(Entry)
      BY <2>3, TailSet
    <3>2. e \in EntriesOf(r) <=> e.request = r
      BY <3>1 DEF EntriesOf
    <3>3. Occurrences(q, EntriesOf(r))
            = Occurrences(Tail(q), EntriesOf(r)) + IF e \in EntriesOf(r) THEN 1 ELSE 0
      BY <2>3, CountTail
    <3> QED
      BY <3>1, <3>2, <3>3, CountType
  <2>4. CASE /\ ready # <<>> /\ e = Head(ready)
             /\ ready' = Tail(ready) /\ UNCHANGED batch
    <3>1. /\ Occurrences(ready, EntriesOf(r))
               = Occurrences(ready', EntriesOf(r)) + IF e.request = r THEN 1 ELSE 0
          /\ Occurrences(ready', EntriesOf(r)) \in Nat
      BY <1>1, <2>3, <2>4
    <3> QED
      BY <2>1, <2>2, <2>4, <3>1 DEF Heading
  <2>5. CASE /\ batch # <<>> /\ e = Head(batch)
             /\ batch' = Tail(batch) /\ UNCHANGED ready
    <3>1. /\ Occurrences(batch, EntriesOf(r))
               = Occurrences(batch', EntriesOf(r)) + IF e.request = r THEN 1 ELSE 0
          /\ Occurrences(batch', EntriesOf(r)) \in Nat
      BY <1>1, <2>3, <2>5
    <3> QED
      BY <2>1, <2>2, <2>5, <3>1 DEF Heading
  <2> QED
    BY <2>4, <2>5
<1> QED
  BY <1>2, <1>3

(* resume_pending_slaves() steals the queue.                               *)
LEMMA HeadingStolen ==
    ASSUME StructInv, UNCHANGED port, batch = <<>>, batch' = ready, ready' = <<>>
    PROVE  \A r \in Requests : Heading(r)' = Heading(r)
<1> SUFFICES ASSUME NEW r \in Requests PROVE Heading(r)' = Heading(r)
  OBVIOUS
<1>1. Heading(r)' = Occurrences(port, NotesOf(r)) + Occurrences(<<>>, EntriesOf(r))
                    + Occurrences(ready, EntriesOf(r))
  BY DEF Heading, NotesOf, EntriesOf
<1>2. Heading(r) = Occurrences(port, NotesOf(r)) + Occurrences(ready, EntriesOf(r))
                   + Occurrences(<<>>, EntriesOf(r))
  BY DEF Heading
<1>3. /\ Occurrences(port, NotesOf(r)) \in Nat
      /\ Occurrences(ready, EntriesOf(r)) \in Nat
  BY ComingSum DEF StructInv
<1> QED
  BY <1>1, <1>2, <1>3, CountEmpty

(* What HasEntry() and Quiet() look at.                                    *)
LEMMA QuietFacts ==
    ASSUME StructInv, NEW s
    PROVE  /\ HasEntry(s) <=> \E e \in ToSet(ready) \cup ToSet(batch) : e.slave = s
           /\ Quiet(s) => /\ \A r \in Requests : due[r] # s
                          /\ \A e \in ToSet(ready) \cup ToSet(batch) : e.slave # s
<1>1. ToSet(Queued) = ToSet(ready) \cup ToSet(batch)
  BY ConcatSet DEF StructInv, TypeOK, Queued
<1>2. HasEntry(s) <=> \E e \in ToSet(Queued) : e.slave = s
  BY DEF HasEntry, ToSet
<1> QED
  BY <1>1, <1>2 DEF Quiet, Awaits

(* A request has at most one completion to come, which is in one place, is *)
(* due to the slave on whose stack the request is, and finds it there.     *)
LEMMA CalmFacts ==
    ASSUME StructInv, CompletionInv, CallInv
    PROVE  /\ \A r \in Requests :
                 /\ Coming(r) = Heading(r) + IF job[r] = "none" THEN 0 ELSE 1
                 /\ Heading(r) \in {0, 1} /\ Coming(r) \in {0, 1}
                 /\ Coming(r) = 1 => /\ due[r] \in alive /\ owner[r] = due[r]
                                     /\ Live(r) /\ home[r] \in Cells
                 /\ job[r] # "none" => Coming(r) = 1 /\ Heading(r) = 0
                 /\ Heading(r) = 1 => Coming(r) = 1 /\ job[r] = "none"
                                      /\ internal[r] = "done"
           /\ \A n \in ToSet(port) :
                 n.of \in Requests /\ Heading(n.of) = 1 /\ at[n.cell] = n.of
           /\ \A e \in ToSet(ready) \cup ToSet(batch) :
                 /\ e.slave \in alive /\ e.request \in Requests \cup {Null}
                 /\ e.request # Null =>
                       Heading(e.request) = 1 /\ due[e.request] = e.slave
           /\ \A s \in Slaves : s \notin alive => step[s] = "app"
<1>1. ASSUME NEW r \in Requests
      PROVE  /\ Coming(r) = Heading(r) + IF job[r] = "none" THEN 0 ELSE 1
             /\ Heading(r) \in {0, 1} /\ Coming(r) \in {0, 1}
             /\ job[r] # "none" => Coming(r) = 1 /\ Heading(r) = 0
             /\ Heading(r) = 1 => Coming(r) = 1 /\ job[r] = "none"
  <2>1. /\ Heading(r) \in Nat
        /\ Coming(r) = Heading(r) + IF job[r] = "none" THEN 0 ELSE 1
    BY ComingSum DEF StructInv
  <2>2. Coming(r) = 0 \/ Coming(r) = 1
    BY DEF CompletionInv
  <2> QED
    BY <2>1, <2>2
<1>2. ASSUME NEW r \in Requests, Coming(r) = 1
      PROVE  /\ due[r] \in alive /\ owner[r] = due[r]
             /\ Live(r) /\ home[r] \in Cells
  <2>1. due[r] # Null
    BY <1>2 DEF CompletionInv
  <2> QED
    BY <2>1, EngineAssumption DEF StructInv, TypeOK, AddressInv, Live
<1>3. ASSUME NEW r \in Requests, Heading(r) = 1
      PROVE  internal[r] = "done"
  BY <1>1, <1>3 DEF CompletionInv
<1>4. ASSUME NEW n \in ToSet(port)
      PROVE  n.of \in Requests /\ Heading(n.of) = 1 /\ at[n.cell] = n.of
  <2>1. n \in Notification
    BY SetType DEF StructInv, TypeOK
  <2>2. n.of \in Requests /\ n.cell \in Cells
    BY <2>1 DEF Notification
  <2>3. Heading(n.of) = 1
    <3>1. Heading(n.of) # 0
      BY <2>2, NothingComing DEF StructInv
    <3> QED
      BY <2>2, <3>1, <1>1
  <2>4. Live(n.of) /\ home[n.of] = n.cell
    BY <1>1, <1>2, <2>2, <2>3 DEF StructInv, AddressInv, Live
  <2> QED
    BY <2>2, <2>3, <2>4 DEF Live
<1>5. ASSUME NEW e \in ToSet(ready) \cup ToSet(batch)
      PROVE  /\ e.slave \in alive /\ e.request \in Requests \cup {Null}
             /\ e.request # Null =>
                   Heading(e.request) = 1 /\ due[e.request] = e.slave
  <2>1. e \in Entry
    BY SetType DEF StructInv, TypeOK
  <2>2. e.request \in Requests \cup {Null}
    BY <2>1 DEF Entry
  <2>3. e.slave \in alive /\ e.request # Null => due[e.request] = e.slave
    BY DEF CallInv
  <2>4. ASSUME e.request # Null PROVE Heading(e.request) = 1
    <3>1. Heading(e.request) # 0
      BY <2>2, <2>4, NothingComing DEF StructInv
    <3> QED
      BY <2>2, <2>4, <3>1, <1>1
  <2>5. e.slave \in alive
    BY DEF CallInv
  <2> QED
    BY <2>2, <2>3, <2>4, <2>5
<1>6. ASSUME NEW s \in Slaves, s \notin alive
      PROVE  step[s] = "app"
  <2>1. current # s
    BY <1>6 DEF StructInv, ControlInv
  <2>2. step[s] \in Steps /\ step[s] \notin Busy /\ using[s] \in Requests \cup {Null}
    BY <2>1 DEF StructInv, TypeOK, ControlInv
  <2>3. step[s] # "waiting"
    <3> SUFFICES ASSUME step[s] = "waiting" PROVE FALSE
      OBVIOUS
    <3>1. due[using[s]] = s /\ using[s] # Null
      BY <2>1 DEF CallInv, StructInv, ControlInv
    <3>2. using[s] \in Requests /\ s # Null
      BY <2>2, <3>1, EngineAssumption
    <3>3. s \in alive
      BY <3>1, <3>2 DEF StructInv, AddressInv
    <3> QED
      BY <1>6, <3>3
  <2> QED
    BY <2>2, <2>3 DEF Steps, Busy
<1> QED
  BY <1>1, <1>2, <1>3, <1>4, <1>5, <1>6

LEMMA CalmStep == Calm /\ CalmInv /\ [Next]_vars => CalmInv'
<1> DEFINE Goal == current' # Null /\ CompletionInv' /\ CallInv'
<1> SUFFICES ASSUME Calm, StructInv, current # Null, CompletionInv, CallInv,
                    [Next]_vars, StructInv'
             PROVE  Goal
  BY StructStep DEF CalmInv
<1>a. /\ "Mixed" \notin Habits /\ "Unwind" \notin Habits /\ "ReadyExit" \notin Habits
      /\ port \in Seq(Notification) /\ ready \in Seq(Entry) /\ batch \in Seq(Entry)
      /\ due \in [Requests -> Slaves \cup {Null}] /\ job \in [Requests -> JobStates]
      /\ internal \in [Requests -> {"zero", "pending", "done"}]
      /\ step \in [Slaves -> Steps] /\ using \in [Slaves -> Requests \cup {Null}]
      /\ alive \subseteq Slaves /\ Null \notin Slaves \cup Requests
      /\ Master # Null /\ Master \notin Slaves
      /\ current \in Slaves => current \in alive
      /\ loop # "dispatch" => batch = <<>>
      /\ \A s \in Slaves :
            /\ step[s] \in Busy => current = s
            /\ step[s] # "app" => using[s] \in Requests
            /\ step[s] = "aborting" => using[s] \in Timers
  BY EngineAssumption DEF StructInv, TypeOK, ControlInv, Calm
<1>b. /\ \A r \in Requests :
            /\ Coming(r) = Heading(r) + IF job[r] = "none" THEN 0 ELSE 1
            /\ Heading(r) \in {0, 1} /\ Coming(r) \in {0, 1}
            /\ Coming(r) = 1 => /\ due[r] \in alive /\ owner[r] = due[r]
                                /\ Live(r) /\ home[r] \in Cells
            /\ job[r] # "none" => Coming(r) = 1 /\ Heading(r) = 0
            /\ Heading(r) = 1 => Coming(r) = 1 /\ job[r] = "none"
                                 /\ internal[r] = "done"
      /\ \A n \in ToSet(port) :
            n.of \in Requests /\ Heading(n.of) = 1 /\ at[n.cell] = n.of
      /\ \A e \in ToSet(ready) \cup ToSet(batch) :
            /\ e.slave \in alive /\ e.request \in Requests \cup {Null}
            /\ e.request # Null =>
                  Heading(e.request) = 1 /\ due[e.request] = e.slave
      /\ \A s \in Slaves : s \notin alive => step[s] = "app"
  BY CalmFacts
<1>c. \A r \in Requests :
         /\ Heading(r)' \in Nat
         /\ Coming(r)' = Heading(r)' + IF job'[r] = "none" THEN 0 ELSE 1
  BY ComingSumNext DEF StructInv, SumFacts
<1>d. ASSUME UNCHANGED job, \A r \in Requests : Heading(r)' = Heading(r)
      PROVE  \A r \in Requests : Coming(r)' = Coming(r)
  BY <1>b, <1>c, <1>d
<1> HIDE DEF Goal
<1> USE <1>a DEF requestVars, loopVars, slaveVars, Runs, InApp, MasterAt, Busy, Steps, JobStates
<1>1. ASSUME UNCHANGED <<port, ready, batch, due, using, step, internal, current, alive>>,
             \A r \in Requests :
                 /\ job'[r] = "none" <=> job[r] = "none"
                 /\ job'[r] \in {"armed", "queued", "running"}
                       <=> job[r] \in {"armed", "queued", "running"}
                 /\ job'[r] = "armed" => job[r] = "armed"
      PROVE  Goal
  <2>1. \A r \in Requests : Coming(r)' = Coming(r)
    BY <1>b, <1>c, <1>1, HeadingStays
  <2>2. CompletionInv'
    BY <1>1, <2>1 DEF CompletionInv
  <2>3. CallInv'
    BY <1>1, <2>1 DEF CallInv
  <2> QED
    BY <1>1, <2>2, <2>3 DEF Goal
<1>2. CASE UNCHANGED vars
  BY <1>1, <1>2 DEF vars
<1>3. ASSUME NEW r \in Requests, Elapse(r) PROVE Goal
  BY <1>1, <1>3 DEF Elapse
<1>4. ASSUME NEW r \in Requests, Execute(r) PROVE Goal
  BY <1>1, <1>4 DEF Execute
<1>5. ASSUME NEW r \in Requests, Close(r) PROVE Goal
  <2>1. /\ job[r] = "running" /\ job' = [job EXCEPT ![r] = "closed"]
        /\ \A q \in Requests : internal'[q] = IF q = r THEN "done" ELSE internal[q]
        /\ UNCHANGED <<port, ready, batch, due, using, step, current, alive>>
    <3>1. job[r] = "running" /\ Live(r) /\ home[r] \in Cells
      BY <1>b, <1>5 DEF Close
    <3>2. at[home[r]] = r
      BY <3>1 DEF Live
    <3> QED
      BY <1>5, <3>1, <3>2 DEF Close
  <2>2. \A q \in Requests : Coming(q)' = Coming(q)
    BY <1>b, <1>c, <2>1, HeadingStays
  <2>3. CompletionInv'
    BY <1>b, <2>1, <2>2 DEF CompletionInv
  <2>4. CallInv'
    BY <1>b, <2>1, <2>2 DEF CallInv
  <2> QED
    BY <2>1, <2>3, <2>4 DEF Goal
<1>6. ASSUME NEW r \in Requests, ReportCompletion(r) PROVE Goal
  <2>1. job[r] = "closed" /\ home[r] \in Cells /\ internal[r] = "done"
    BY <1>b, <1>6 DEF ReportCompletion, CompletionInv
  <2>2. \A q \in Requests : Heading(q)' = Heading(q) + IF q = r THEN 1 ELSE 0
    BY <1>6, <2>1, HeadingPosted DEF ReportCompletion
  <2>3. \A q \in Requests : Coming(q)' = Coming(q)
    BY <1>b, <1>c, <1>6, <2>1, <2>2 DEF ReportCompletion
  <2>4. CompletionInv'
    BY <1>6, <2>1, <2>3 DEF CompletionInv, ReportCompletion
  <2>5. CallInv'
    BY <1>6, <2>3 DEF CallInv, ReportCompletion
  <2> QED
    BY <1>6, <2>4, <2>5 DEF Goal, ReportCompletion
<1>7. ASSUME MasterAt(loop), port # <<>>, Process(Head(port)), port' = Tail(port),
             UNCHANGED <<requestVars, job, batch, slaveVars, due>>
      PROVE  Goal
  <2> DEFINE r == Head(port).of
  <2>1. /\ r \in Requests /\ Heading(r) = 1 /\ at[Head(port).cell] = r
    BY <1>b, <1>7, ProcessFacts
  <2>2. /\ owner[r] \in alive /\ due[r] = owner[r]
        /\ ready' = Append(ready, Item(owner[r], r))
    BY <1>b, <1>7, <2>1 DEF Process
  <2>3. /\ Item(owner[r], r) \in Entry
        /\ Item(owner[r], r).slave = owner[r] /\ Item(owner[r], r).request = r
    BY <2>1, <2>2, ItemFacts
  <2>4. /\ \A q \in Requests : Heading(q)' = Heading(q)
        /\ ToSet(ready') = ToSet(ready) \cup {Item(owner[r], r)}
    BY <1>7, <2>1, <2>2, <2>3, HeadingQueued
  <2>5. \A q \in Requests : Coming(q)' = Coming(q)
    BY <1>b, <1>c, <1>7, <2>4
  <2>6. CompletionInv'
    BY <1>7, <2>5 DEF CompletionInv
  <2>7. CallInv'
    BY <1>b, <1>7, <2>1, <2>2, <2>3, <2>4, <2>5 DEF CallInv
  <2> QED
    BY <1>7, <2>6, <2>7 DEF Goal
<1>8. CASE ProcessNotification
  BY <1>7, <1>8 DEF ProcessNotification
<1>9. CASE NoNotification
  BY <1>1, <1>9 DEF NoNotification
<1>10. CASE CheckPending
  <2>1. CASE ready = <<>>
    BY <1>1, <1>10, <2>1 DEF CheckPending
  <2>2. CASE ready # <<>>
    <3>1. \A q \in Requests : Heading(q)' = Heading(q)
      BY <1>10, <2>2, HeadingStolen DEF CheckPending
    <3>2. \A q \in Requests : Coming(q)' = Coming(q)
      BY <1>d, <1>10, <3>1 DEF CheckPending
    <3>3. CompletionInv'
      BY <1>10, <3>2 DEF CompletionInv, CheckPending
    <3>4. CallInv'
      BY <1>10, <2>2, <3>2, EmptySet DEF CallInv, CheckPending
    <3> QED
      BY <1>10, <3>3, <3>4 DEF Goal, CheckPending
  <2> QED
    BY <2>1, <2>2
<1>11. CASE WaitForNotification
  BY <1>7, <1>11 DEF WaitForNotification
<1>12. ASSUME NEW e, current = Master,
              \/ /\ ready # <<>> /\ e = Head(ready)
                 /\ ready' = Tail(ready) /\ UNCHANGED batch
              \/ /\ batch # <<>> /\ e = Head(batch)
                 /\ batch' = Tail(batch) /\ UNCHANGED ready,
              e.slave \in alive => current' = e.slave,
              due' = [r \in Requests |->
                        IF r = e.request /\ due[r] = e.slave THEN Null ELSE due[r]],
              UNCHANGED <<requestVars, job, port, alive, step, using>>
       PROVE  Goal
  <2>1. /\ e \in ToSet(ready) \cup ToSet(batch)
        /\ ToSet(ready') \cup ToSet(batch') \subseteq ToSet(ready) \cup ToSet(batch)
        /\ \A r \in Requests :
              Heading(r) = Heading(r)' + IF e.request = r THEN 1 ELSE 0
    <3>1. UNCHANGED port
      BY <1>12
    <3> QED
      BY <1>12, <3>1, HeadingTaken
  <2>2. /\ e.slave \in alive /\ e.request \in Requests \cup {Null}
        /\ e.request # Null => due[e.request] = e.slave
        /\ \A r \in Requests : due'[r] = IF r = e.request THEN Null ELSE due[r]
        /\ current' = e.slave
    BY <1>b, <1>12, <2>1
  <2>3. \A r \in Requests :
           /\ r = e.request => Coming(r) = 1 /\ Coming(r)' = 0 /\ internal[r] = "done"
           /\ r # e.request => Coming(r)' = Coming(r)
    <3> SUFFICES ASSUME NEW r \in Requests
                 PROVE  /\ r = e.request => Coming(r) = 1 /\ Coming(r)' = 0
                                            /\ internal[r] = "done"
                        /\ r # e.request => Coming(r)' = Coming(r)
      OBVIOUS
    <3>1. /\ Coming(r) = Heading(r) + IF job[r] = "none" THEN 0 ELSE 1
          /\ Coming(r)' = Heading(r)' + IF job[r] = "none" THEN 0 ELSE 1
          /\ Heading(r) = Heading(r)' + IF e.request = r THEN 1 ELSE 0
          /\ Heading(r) \in Nat /\ Heading(r)' \in Nat
      BY <1>b, <1>c, <1>12, <2>1
    <3>2. r = e.request => /\ Heading(r) = 1 /\ Coming(r) = 1
                           /\ job[r] = "none" /\ internal[r] = "done"
      BY <1>b, <2>1, <1>a
    <3> QED
      BY <3>1, <3>2
  <2>4. CompletionInv'
    BY <1>12, <2>2, <2>3 DEF CompletionInv
  <2>5. CallInv'
    <3>1. ASSUME NEW f \in ToSet(ready') \cup ToSet(batch')
          PROVE  f.slave \in alive' /\ f.request # Null => due'[f.request] = f.slave
      <4>1. e.request \in Requests => Heading(e.request)' = 0
        BY <1>b, <1>c, <2>1
      <4>2. e.request \in Requests => f.request # e.request
        BY <3>1, <4>1, ComingSumNext DEF SumFacts, StructInv
      <4> QED
        BY <1>b, <1>12, <2>1, <2>2, <3>1, <4>2
    <3> QED
      BY <1>b, <1>12, <2>1, <2>2, <2>3, <3>1 DEF CallInv
  <2> QED
    BY <2>2, <2>4, <2>5 DEF Goal
<1>13. CASE Dispatch
  <2>0. PICK e : e = Head(batch)
    OBVIOUS
  <2>1. /\ current = Master /\ batch # <<>> /\ batch' = Tail(batch)
        /\ e.slave \in alive => current' = e.slave
        /\ due' = [r \in Requests |->
                     IF r = e.request /\ due[r] = e.slave THEN Null ELSE due[r]]
        /\ UNCHANGED <<requestVars, job, port, ready, alive, step, using>>
    BY <1>13, <2>0 DEF Dispatch
  <2> QED
    BY <1>12, <2>0, <2>1
<1>14. CASE DispatchReturns
  BY <1>1, <1>14 DEF DispatchReturns
<1>15. ASSUME NEW s \in Slaves, Spawn(s) PROVE Goal
  <2>1. /\ step[s] = "app" /\ current = Master /\ current' = s /\ s \notin alive
        /\ alive' = alive \cup {s}
        /\ UNCHANGED <<requestVars, job, port, loopVars, step, using, due>>
    BY <1>b, <1>15 DEF Spawn
  <2>2. \A q \in Requests : Coming(q)' = Coming(q)
    BY <1>d, <2>1, HeadingStays
  <2>3. CompletionInv'
    BY <2>1, <2>2 DEF CompletionInv
  <2>4. CallInv'
    BY <2>1, <2>2 DEF CallInv
  <2> QED
    BY <2>1, <2>3, <2>4 DEF Goal
<1>16. CASE ResumeOne
  <2>1. CASE ready = <<>>
    BY <1>1, <1>16, <2>1 DEF ResumeOne
  <2>2. CASE ready # <<>>
    BY <1>12, <1>16, <2>2 DEF ResumeOne
  <2> QED
    BY <2>1, <2>2
<1>17. ASSUME NEW s \in alive', UNCHANGED <<requestVars, job, port, batch, step, using, due>>,
              ready' = Append(ready, Item(s, Null)), step[s] = "app",
              current \in {s, Master},
              current' = Master, alive \subseteq alive'
       PROVE  Goal
  <2>1. s \in Slaves
    BY DEF StructInv, TypeOK
  <2>2. /\ Item(s, Null) \in Entry
        /\ Item(s, Null).slave = s /\ Item(s, Null).request = Null
    BY <2>1, ItemFacts
  <2>3. ToSet(ready') = ToSet(ready) \cup {Item(s, Null)}
    BY <1>17, <2>2, AppendSet
  <2>4. \A q \in Requests : Heading(q)' = Heading(q)
    BY <1>b, <1>17, <2>2, HeadingQueued
  <2>5. \A q \in Requests : Coming(q)' = Coming(q)
    BY <1>d, <1>17, <2>4
  <2>6. CompletionInv'
    BY <1>17, <2>5 DEF CompletionInv
  <2>7. CallInv'
    BY <1>17, <2>1, <2>2, <2>3, <2>5 DEF CallInv
  <2> QED
    BY <1>17, <2>6, <2>7 DEF Goal
<1>18. ASSUME NEW s \in Slaves, SpawnQueued(s) PROVE Goal
  BY <1>b, <1>17, <1>18 DEF SpawnQueued
<1>19. CASE Turn
  BY <1>7, <1>19 DEF Turn
<1>20. CASE Shutdown
  BY <1>20 DEF Shutdown
<1>21. ASSUME NEW s \in Slaves, NEW r \in Requests, due[r] = Null, Coming(r) = 0,
              InApp(s), \A q \in Requests : q # r => UNCHANGED <<internal[q], due[q]>>,
              internal'[r] = "pending", due'[r] = s,
              step' = [step EXCEPT ![s] = "starting"] \/
              (step' = [step EXCEPT ![s] = "calling"] /\ Quiet(s)),
              using' = [using EXCEPT ![s] = r],
              UNCHANGED <<job, port, loopVars, current, alive>>
       PROVE  Goal
  <2>1. \A q \in Requests : Coming(q)' = Coming(q)
    BY <1>d, <1>21, HeadingStays
  <2>2. CompletionInv'
    BY <1>21, <2>1 DEF CompletionInv
  <2>3. CallInv'
    <3>1. ASSUME NEW e \in ToSet(ready') \cup ToSet(batch')
          PROVE  e.slave \in alive' /\ e.request # Null => due'[e.request] = e.slave
      BY <1>b, <1>21, <3>1
    <3>2. ASSUME NEW t \in Slaves, t # s
          PROVE  /\ step[t] \in {"app", "waiting"}
                 /\ step[t] = "waiting" =>
                       due[using[t]] = t /\ using[t] # r /\ due'[using[t]] = t
      BY <1>21, <3>2 DEF CallInv
    <3>3. Quiet(s) => /\ \A q \in Requests : due[q] # s
                      /\ \A e \in ToSet(ready) \cup ToSet(batch) : e.slave # s
      BY QuietFacts
    <3>4. ASSUME NEW t \in Slaves, t # s
          PROVE  /\ step'[t] = step[t] /\ using'[t] = using[t]
                 /\ \A q \in Requests : due'[q] = t => due[q] = t
      BY <1>21, <3>4
    <3> QED
      BY <1>21, <2>1, <3>1, <3>2, <3>3, <3>4 DEF CallInv
  <2> QED
    BY <1>21, <2>2, <2>3 DEF Goal
<1>22. ASSUME NEW s \in Slaves, NEW r \in Requests, NEW c \in Cells, Call(s, r, c)
       PROVE  Goal
  <2>1. due[r] = Null /\ Coming(r) = 0
    BY <1>22, ConstructFacts DEF Call
  <2> QED
    BY <1>21, <1>22, <2>1 DEF Call, Mark
<1>23. ASSUME NEW s \in Slaves, NEW r \in Requests, NEW c \in Cells, New(s, r, c)
       PROVE  Goal
  BY <1>1, <1>23 DEF New
<1>24. ASSUME NEW s \in Slaves, NEW r \in Requests, Start(s, r) PROVE Goal
  <2>1. due[r] = Null /\ Coming(r) = 0
    BY <1>b, <1>24, EngineAssumption DEF Start
  <2> QED
    BY <1>21, <1>24, <2>1 DEF Start, Mark
<1>25. ASSUME NEW s \in Slaves, NEW r \in Requests, AbortCancel(s, r) PROVE Goal
  <2>1. /\ step[s] = "app" /\ current = s /\ due[r] \in {s, Null}
        /\ job' = [job EXCEPT ![r] = IF @ = "armed" THEN "none" ELSE @]
        /\ step' = [step EXCEPT ![s] = "aborting"]
        /\ using' = [using EXCEPT ![s] = r]
        /\ UNCHANGED <<requestVars, port, ready, batch, current, alive, due>>
    BY <1>25 DEF AbortCancel
  <2>2. \A q \in Requests : Heading(q)' = Heading(q)
    BY <2>1, HeadingStays
  <2>3. \A q \in Requests :
           IF q = r /\ job[r] = "armed" THEN Coming(q)' = 0 /\ Coming(q) = 1
           ELSE Coming(q)' = Coming(q) /\ job'[q] = job[q]
    <3> SUFFICES ASSUME NEW q \in Requests
                 PROVE  IF q = r /\ job[r] = "armed"
                        THEN Coming(q)' = 0 /\ Coming(q) = 1
                        ELSE Coming(q)' = Coming(q) /\ job'[q] = job[q]
      OBVIOUS
    <3>1. CASE q = r /\ job[r] = "armed"
      BY <1>b, <1>c, <2>1, <2>2, <3>1
    <3>2. CASE ~(q = r /\ job[r] = "armed")
      BY <1>b, <1>c, <2>1, <2>2, <3>2
    <3> QED
      BY <3>1, <3>2
  <2>4. job'[r] # "armed"
    BY <2>1
  <2>5. CompletionInv'
    BY <1>b, <2>1, <2>3 DEF CompletionInv
  <2>6. CallInv'
    BY <1>b, <2>1, <2>3, <2>4 DEF CallInv
  <2> QED
    BY <2>1, <2>5, <2>6 DEF Goal
<1>26. ASSUME NEW s \in Slaves, NEW r \in Requests, Reset(s, r) PROVE Goal
  <2>1. /\ current = s /\ step[s] = "app" /\ due[r] = Null /\ Coming(r) = 0
        /\ internal' = [internal EXCEPT ![r] = "zero"]
        /\ UNCHANGED <<job, port, ready, batch, slaveVars, due>>
    BY <1>b, <1>26, EngineAssumption DEF Reset
  <2>2. \A q \in Requests : Coming(q)' = Coming(q)
    BY <1>d, <2>1, HeadingStays
  <2>3. CompletionInv'
    BY <2>1, <2>2 DEF CompletionInv
  <2>4. CallInv'
    BY <2>1, <2>2 DEF CallInv
  <2> QED
    BY <2>1, <2>3, <2>4 DEF Goal
<1>27. ASSUME NEW s \in Slaves, Submit(s) PROVE Goal
  <2>0. PICK r \in Requests : r = using[s]
    BY <1>27 DEF Submit
  <2>1. /\ current = s /\ step[s] \in {"starting", "calling"} /\ using[s] = r
        /\ due[r] = s /\ Coming(r) = 0 /\ job[r] = "none" /\ internal[r] = "pending"
    BY <1>b, <1>27, <2>0 DEF Submit, CallInv, CompletionInv
  <2>2. /\ job' = [job EXCEPT ![r] = IF r \in Works THEN "queued" ELSE "armed"]
        /\ step' = [step EXCEPT ![s] = IF @ = "calling" THEN "yielding" ELSE "app"]
        /\ using' = [using EXCEPT ![s] = IF step[s] = "calling" THEN r ELSE Null]
        /\ UNCHANGED <<requestVars, port, ready, batch, current, alive, due>>
    BY <1>27, <2>0 DEF Submit
  <2>3. \A q \in Requests : Heading(q)' = Heading(q)
    BY <2>2, HeadingStays
  <2>4. /\ Coming(r)' = 1 /\ job'[r] \in {"queued", "armed"}
        /\ \A q \in Requests : q # r => Coming(q)' = Coming(q) /\ job'[q] = job[q]
    <3>1. Coming(r)' = 1 /\ job'[r] \in {"queued", "armed"}
      BY <1>b, <1>c, <2>1, <2>2, <2>3
    <3>2. ASSUME NEW q \in Requests, q # r
          PROVE  Coming(q)' = Coming(q) /\ job'[q] = job[q]
      BY <1>b, <1>c, <2>1, <2>2, <2>3, <3>2
    <3> QED
      BY <3>1, <3>2
  <2>5. CompletionInv'
    <3>1. ASSUME NEW q \in Requests, q # r, due[q] # Null, Coming(q) = 0
          PROVE  \E t \in Slaves : using'[t] = q
                       /\ step'[t] \in {"starting", "calling", "aborting"}
      BY <2>1, <2>2, <3>1 DEF CompletionInv
    <3> QED
      BY <1>b, <2>1, <2>2, <2>4, <3>1 DEF CompletionInv
  <2>6. CallInv'
    BY <1>b, <2>1, <2>2, <2>4 DEF CallInv
  <2> QED
    BY <2>2, <2>5, <2>6 DEF Goal
<1>28. ASSUME NEW s \in Slaves, Yield(s) PROVE Goal
  <2>1. /\ current = s /\ current' = Master /\ step[s] \in {"yielding", "app"}
        /\ step' = [step EXCEPT ![s] = IF @ = "yielding" THEN "waiting" ELSE @]
        /\ UNCHANGED <<requestVars, job, port, loopVars, alive, using, due>>
    BY <1>28 DEF Yield
  <2>2. \A q \in Requests : Coming(q)' = Coming(q)
    BY <1>d, <2>1, HeadingStays
  <2>3. \A t \in Slaves : step[t] \in {"starting", "calling", "aborting"} =>
            step'[t] = step[t]
    BY <2>1
  <2>4. CompletionInv'
    BY <2>1, <2>2, <2>3 DEF CompletionInv
  <2>5. CallInv'
    BY <2>1, <2>2 DEF CallInv
  <2> QED
    BY <2>1, <2>4, <2>5 DEF Goal
<1>29. ASSUME NEW s \in Slaves, Pause(s) PROVE Goal
  BY <1>17, <1>29 DEF Pause
<1>30. ASSUME NEW R, Destruct(R), UNCHANGED <<port, ready, batch>>,
              current \in Slaves,
              \A r \in Requests : r \in R => due[r] = Null,
              \A s \in Slaves : step[s] = "waiting" /\ current = s =>
                                    step'[s] = "app",
              \/ UNCHANGED <<current, alive>>
              \/ /\ current' = Master /\ alive' = alive \ {current}
                 /\ step[current] = "app"
                 /\ \A e \in ToSet(ready) \cup ToSet(batch) : e.slave # current,
              \A s \in Slaves : \/ step'[s] = "app" /\ step[s] \in {"app", "waiting"}
                                \/ step'[s] = step[s] /\ using'[s] = using[s]
       PROVE  Goal
  <2>1. \A r \in Requests :
           /\ due'[r] = due[r] /\ job'[r] = job[r]
           /\ due[r] # Null => internal'[r] = internal[r]
    <3> SUFFICES ASSUME NEW r \in Requests
                 PROVE  /\ due'[r] = due[r] /\ job'[r] = job[r]
                        /\ due[r] # Null => internal'[r] = internal[r]
      OBVIOUS
    <3>1. CASE r \in R
      <4>1. job[r] = "none" /\ due[r] = Null
        BY <1>b, <1>30, <3>1
      <4> QED
        BY <1>30, <3>1, <4>1 DEF Destruct
    <3>2. CASE r \notin R
      BY <1>30, <3>2 DEF Destruct
    <3> QED
      BY <3>1, <3>2
  <2>2. \A q \in Requests : Coming(q)' = Coming(q)
    <3> SUFFICES ASSUME NEW q \in Requests PROVE Coming(q)' = Coming(q)
      OBVIOUS
    <3>1. Heading(q)' = Heading(q) /\ job'[q] = job[q]
      BY <1>30, <2>1, HeadingStays
    <3> QED
      BY <1>b, <1>c, <3>1
  <2>3. CompletionInv'
    BY <1>b, <1>30, <2>1, <2>2 DEF CompletionInv
  <2>4. CallInv'
    BY <1>b, <1>30, <2>1, <2>2 DEF CallInv
  <2> QED
    BY <1>30, <2>3, <2>4 DEF Goal
<1>31. ASSUME NEW s \in Slaves, NEW r \in Requests, Delete(s, r) PROVE Goal
  BY <1>30, <1>31 DEF Delete
<1>32. ASSUME NEW s \in Slaves, CallReturns(s) PROVE Goal
  <2>1. due[using[s]] = Null
    BY <1>32, EngineAssumption DEF CallReturns, CallInv
  <2> QED
    BY <1>30, <1>32, <2>1 DEF CallReturns
<1>33. ASSUME NEW s \in Slaves, AbortReturns(s) PROVE Goal
  <2>0. PICK r \in Requests : r = using[s]
    BY <1>33 DEF AbortReturns
  <2>1. /\ current = s /\ step[s] = "aborting" /\ using[s] = r
        /\ due[r] \in {s, Null} /\ job[r] \in {"none", "queued"}
        /\ job' = [job EXCEPT ![r] = "none"]
        /\ due' = [due EXCEPT ![r] = IF internal[r] = "pending" THEN Null ELSE @]
        /\ step' = [step EXCEPT ![s] = "app"]
        /\ using' = [using EXCEPT ![s] = Null]
        /\ UNCHANGED <<requestVars, port, ready, batch, current, alive>>
    BY <1>33, <2>0 DEF AbortReturns, AbortResult, IsReady, CallInv
  <2>2. \A q \in Requests : Heading(q)' = Heading(q)
    BY <2>1, HeadingStays
  <2>3. /\ Coming(r)' = Heading(r)
        /\ due'[r] = Null => Heading(r) = 0
        /\ due'[r] # Null => due[r] = s /\ Heading(r) = 1 /\ internal[r] = "done"
    <3>1. Coming(r)' = Heading(r)
      BY <1>b, <1>c, <2>1, <2>2
    <3>2. due'[r] # Null => due[r] = s /\ internal[r] # "pending"
      BY <2>1
    <3>3. due[r] # Null /\ internal[r] # "pending" => Coming(r) = 1 /\ job[r] = "none"
      BY <1>b, <2>1 DEF CompletionInv
    <3>4. due[r] = Null \/ internal[r] = "pending" => Heading(r) = 0
      BY <1>b, <2>1, EngineAssumption
    <3> QED
      BY <1>b, <2>1, <3>1, <3>2, <3>3, <3>4 DEF CompletionInv
  <2>4. ASSUME NEW q \in Requests, q # r
        PROVE  /\ Coming(q)' = Coming(q) /\ job'[q] = job[q] /\ due'[q] = due[q]
               /\ \A t \in Slaves :
                     using[t] = q /\ step[t] \in {"starting", "calling", "aborting"} =>
                         using'[t] = q /\ step'[t] = step[t]
    <3>1. Heading(q)' = Heading(q) /\ job'[q] = job[q]
      BY <2>1, <2>2, <2>4
    <3>2. Coming(q)' = Coming(q)
      BY <1>b, <1>c, <3>1
    <3>3. due'[q] = due[q]
      BY <2>1, <2>4
    <3>4. ASSUME NEW t \in Slaves, using[t] = q, step[t] # "app"
          PROVE  using'[t] = q /\ step'[t] = step[t]
      BY <2>1, <2>4, <3>4
    <3> QED
      BY <3>1, <3>2, <3>3, <3>4
  <2>5. CompletionInv'
    <3> SUFFICES ASSUME NEW q \in Requests
                 PROVE  /\ Coming(q)' = 0 \/ (due'[q] # Null /\ Coming(q)' = 1)
                        /\ due'[q] # Null /\ Coming(q)' = 0 =>
                              /\ internal'[q] = "pending"
                              /\ \E t \in Slaves : using'[t] = q
                                     /\ step'[t] \in {"starting", "calling", "aborting"}
                        /\ Coming(q)' = 1 =>
                              (internal'[q] = IF job'[q] \in {"armed", "queued", "running"}
                                              THEN "pending" ELSE "done")
      BY DEF CompletionInv
    <3>1. CASE q = r
      BY <2>1, <2>3, <3>1
    <3>2. CASE q # r
      BY <2>1, <2>4, <3>2 DEF CompletionInv
    <3> QED
      BY <3>1, <3>2
  <2>6. CallInv'
    <3>1. ASSUME NEW e \in ToSet(ready) \cup ToSet(batch), e.request # Null
          PROVE  due'[e.request] = e.slave
      BY <1>b, <2>1, <2>3, <2>4, <3>1
    <3>2. ASSUME NEW t \in Slaves, t # s
          PROVE  /\ step'[t] = step[t] /\ using'[t] = using[t]
                 /\ step[t] \in {"app", "waiting"}
                 /\ step[t] = "waiting" => due[using[t]] = t /\ due'[using[t]] = t
    BY <2>1, <2>4, <3>2 DEF CallInv
    <3> QED
      BY <1>b, <2>1, <3>1, <3>2 DEF CallInv
  <2> QED
    BY <2>1, <2>5, <2>6 DEF Goal
<1>34. ASSUME NEW s \in Slaves, End(s) PROVE Goal
  <2>1. Quiet(s) /\ current = s /\ step[s] = "app"
    BY <1>34 DEF End
  <2>2. \A r \in Requests : r \in OnStack(s) => due[r] = Null
    BY <2>1, QuietFacts DEF OnStack, StructInv, AddressInv
  <2>3. \A e \in ToSet(ready) \cup ToSet(batch) : e.slave # s
    BY <2>1, QuietFacts
  <2> QED
    BY <1>30, <1>34, <2>1, <2>2, <2>3 DEF End
<1> QED
  BY <1>2, <1>3, <1>4, <1>5, <1>6, <1>8, <1>9, <1>10, <1>11, <1>13, <1>14,
     <1>15, <1>16, <1>18, <1>19, <1>20, <1>22, <1>23, <1>24, <1>25, <1>26,
     <1>27, <1>28, <1>29, <1>31, <1>32, <1>33, <1>34
     DEF Next, PoolStep, LoopStep, SlaveStep

(* Everything above, from the beginning on, for application code that is   *)
(* calm.                                                                   *)
LEMMA CalmAlways == Calm /\ Spec => []CalmInv
<1>1. Init => CalmInv
  <2> SUFFICES ASSUME Init PROVE CalmInv
    OBVIOUS
  <2>1. StructInv
    BY StructInit
  <2>2. \A r \in Requests : Coming(r) = 0
    BY <2>1, NothingComing, EmptySet DEF Init, StructInv
  <2>3. CompletionInv
    BY <2>2 DEF CompletionInv, Init
  <2>4. CallInv
    BY EmptySet DEF CallInv, Init
  <2> QED
    BY <2>1, <2>3, <2>4, EngineAssumption DEF CalmInv, Init
<1>2. Calm /\ CalmInv /\ [Next]_vars => CalmInv'
  BY CalmStep
<1>3. CASE Calm
  <2>1. CalmInv /\ [Next]_vars => CalmInv'
    BY <1>2, <1>3
  <2> QED
    BY <1>1, <2>1, PTL DEF Spec
<1>4. CASE ~Calm
  BY <1>4
<1> QED
  BY <1>3, <1>4

(* Exactly one completion comes for every start, wherever the request is   *)
(* on its way through the pool, the port and the queue (Request.cpp:       *)
(* 144-195, Engine.cpp:424-452).                                           *)
THEOREM CompletionsAreExact == Calm /\ Spec => []OneCompletionPerStart
<1>1. CalmInv => OneCompletionPerStart
  <2> SUFFICES ASSUME CalmInv, NEW r \in Requests,
                      \A s \in Slaves :
                          Runs(s) => using[s] # r \/ step[s] \in {"app", "waiting"}
               PROVE  Coming(r) = IF due[r] = Null THEN 0 ELSE 1
    BY DEF OneCompletionPerStart
  <2>1. CASE due[r] = Null
    BY <2>1 DEF CalmInv, CompletionInv
  <2>2. CASE due[r] # Null
    <3>1. ASSUME NEW s \in Slaves, using[s] = r,
                 step[s] \in {"starting", "calling", "aborting"}
          PROVE  FALSE
      BY <3>1 DEF CalmInv, StructInv, ControlInv, Busy, Runs
    <3> QED
      BY <2>2, <3>1 DEF CalmInv, CompletionInv
  <2> QED
    BY <2>1, <2>2
<1> QED
  BY <1>1, CalmAlways, PTL

(* process() never meets a dead request, nor another one at the same       *)
(* address (Engine.cpp:97-117).                                            *)
THEOREM NotificationsFindTheirRequests ==
    Calm /\ Spec => []NotificationFindsItsRequest
<1>1. CalmInv => NotificationFindsItsRequest
  <2> SUFFICES ASSUME CalmInv, NEW i \in DOMAIN port
               PROVE  /\ at[port[i].cell] = port[i].of
                      /\ due[port[i].of] = owner[port[i].of]
    BY DEF NotificationFindsItsRequest
  <2>1. port[i] \in ToSet(port)
    BY DEF ToSet
  <2>2. /\ port[i].of \in Requests /\ Coming(port[i].of) = 1
        /\ at[port[i].cell] = port[i].of
    BY <2>1, CalmFacts DEF CalmInv
  <2> QED
    BY <2>2, CalmFacts DEF CalmInv
<1> QED
  BY <1>1, CalmAlways, PTL

(* The pool never writes to a stack that was unwound (Request.cpp:173-174).*)
THEOREM PoolWritesToTheLiving == Calm /\ Spec => []JobsHaveRequests
<1>1. CalmInv => JobsHaveRequests
  BY CalmFacts DEF CalmInv, JobsHaveRequests
<1> QED
  BY <1>1, CalmAlways, PTL

(* compute() and wait() return only when their job is over (Engine.cpp:    *)
(* 274-277, 289-292).                                                      *)
THEOREM CallsReturnWhenDone == Calm /\ Spec => CallsComplete
<1>1. ASSUME CalmInv, NEW s \in Slaves, CallReturns(s)
      PROVE  IsReady(using[s]) /\ Coming(using[s]) = 0
  <2>1. PICK r \in Requests : r = using[s]
    BY <1>1 DEF CallReturns, CalmInv, StructInv, TypeOK, ControlInv
  <2>2. due[r] = Null /\ internal[r] = "done"
    BY <1>1, <2>1, EngineAssumption DEF CallReturns, Runs, CalmInv, CallInv
  <2>3. Coming(r) = 0
    BY <1>1, <2>2 DEF CalmInv, CompletionInv
  <2> QED
    BY <2>1, <2>2, <2>3 DEF IsReady
<1>2. CalmInv => [\A s \in Slaves : CallReturns(s) =>
                     IsReady(using[s]) /\ Coming(using[s]) = 0]_vars
  BY <1>1
<1> QED
  BY <1>2, CalmAlways, PTL DEF CallsComplete

(* ready() tells of the request that a slave is resumed for, in either     *)
(* main loop (Request.cpp:85-106).                                         *)
THEOREM DeliveredMeansReady == Calm /\ Spec => ReadyWhenDelivered
<1>1. ASSUME CalmInv, NEW r \in Requests, Dispatch \/ ResumeOne,
             due[r] # Null, due'[r] = Null
      PROVE  IsReady(r)
  <2>a. StructInv /\ CompletionInv /\ CallInv
    BY <1>1 DEF CalmInv
  <2>1. \E e \in ToSet(ready) \cup ToSet(batch) : e.request = r
    <3>1. CASE Dispatch
      <4>1. batch \in Seq(Entry) /\ batch # <<>> /\ Head(batch).request = r
        BY <1>1, <2>a, <3>1 DEF Dispatch, StructInv, TypeOK
      <4>2. Head(batch) \in ToSet(batch)
        BY <4>1, TailSet
      <4> QED
        BY <4>1, <4>2
    <3>2. CASE ResumeOne
      <4>1. ready \in Seq(Entry) /\ ready # <<>> /\ Head(ready).request = r
        BY <1>1, <2>a, <3>2 DEF ResumeOne, StructInv, TypeOK
      <4>2. Head(ready) \in ToSet(ready)
        BY <4>1, TailSet
      <4> QED
        BY <4>1, <4>2
    <3> QED
      BY <1>1, <3>1, <3>2
  <2>2. Heading(r) = 1
    BY <2>a, <2>1, CalmFacts, EngineAssumption
  <2>3. internal[r] = "done"
    BY <2>a, <2>2, CalmFacts
  <2> QED
    BY <2>3 DEF IsReady
<1>2. CalmInv => [\A r \in Requests :
                     (Dispatch \/ ResumeOne) /\ due[r] # Null /\ due'[r] = Null
                         => IsReady(r)]_vars
  BY <1>1
<1> QED
  BY <1>2, CalmAlways, PTL DEF ReadyWhenDelivered

----------------------------------------------------------------------------
(* Engine implements RequestLife.                                          *)

(* Where nothing is due, the mark in the OVERLAPPED does not matter.       *)
LEMMA PhaseStays ==
    ASSUME due' = due,
           \A r \in Requests : due[r] # Null => internal'[r] = internal[r]
    PROVE  phaseBar' = phaseBar
BY DEF phaseBar, IsReady

LEMMA PhaseSet ==
    ASSUME NEW r \in Requests, NEW w \in Slaves \cup {Null},
           due \in [Requests -> Slaves \cup {Null}],
           due' = [due EXCEPT ![r] = w],
           \A q \in Requests : q # r => internal'[q] = internal[q]
    PROVE  /\ w = Null => phaseBar' = [phaseBar EXCEPT ![r] = "idle"]
           /\ w # Null /\ internal'[r] = "pending" =>
                 phaseBar' = [phaseBar EXCEPT ![r] = "pending"]
           /\ w # Null /\ internal'[r] = "done" =>
                 phaseBar' = [phaseBar EXCEPT ![r] = "complete"]
BY DEF phaseBar, IsReady

LEMMA MarkPending ==
    ASSUME CalmInv, NEW s \in Slaves, NEW r \in Requests, Mark(s, r)
    PROVE  /\ phaseBar' = [phaseBar EXCEPT ![r] = "pending"]
           /\ due' = [due EXCEPT ![r] = s]
<1>1. /\ due' = [due EXCEPT ![r] = s]
      /\ due \in [Requests -> Slaves \cup {Null}] /\ s # Null
      /\ internal \in [Requests -> {"zero", "pending", "done"}]
      /\ internal' = [internal EXCEPT ![r] = "pending"]
  BY EngineAssumption DEF Mark, CalmInv, StructInv, TypeOK
<1>2. internal'[r] = "pending" /\ \A q \in Requests : q # r => internal'[q] = internal[q]
  BY <1>1
<1> QED
  BY <1>1, <1>2, PhaseSet

(* An entry of the queue is an answer, or resumes a slave that has no call *)
(* under way.                                                              *)
LEMMA EntryAnswers ==
    ASSUME CalmInv, NEW e \in ToSet(ready) \cup ToSet(batch),
           current = Master, current' = e.slave,
           due' = [r \in Requests |->
                      IF r = e.request /\ due[r] = e.slave THEN Null ELSE due[r]],
           UNCHANGED <<alive, step, using, internal>>
    PROVE  Life!LifeNext
<1>1. /\ e.slave \in alive /\ e.slave \in Slaves
      /\ e.request \in Requests \cup {Null}
      /\ e.request # Null =>
            Heading(e.request) = 1 /\ due[e.request] = e.slave
                                   /\ internal[e.request] = "done"
  BY CalmFacts DEF CalmInv, StructInv, TypeOK
<1>2. callBar[e.slave] \in {Null, e.request}
  BY <1>1 DEF CalmInv, CallInv, callBar
<1>3. callBar' = callBar
  BY DEF callBar
<1>4. /\ due \in [Requests -> Slaves \cup {Null}]
      /\ Null \notin Slaves \cup Requests
  BY EngineAssumption DEF CalmInv, StructInv, TypeOK
<1>5. CASE e.request = Null
  <2>1. due' = due
    BY <1>4, <1>5
  <2>2. phaseBar' = phaseBar
    BY <2>1, PhaseStays
  <2>3. callBar[e.slave] = Null
    BY <1>2, <1>5
  <2> QED
    BY <1>1, <1>3, <2>1, <2>2, <2>3 DEF Life!LifeNext, Life!Resume
<1>6. CASE e.request # Null
  <2>1. e.request \in Requests /\ due[e.request] = e.slave
    BY <1>1, <1>6
  <2>2. due' = [due EXCEPT ![e.request] = Null]
    BY <1>4, <2>1
  <2>3. phaseBar' = [phaseBar EXCEPT ![e.request] = "idle"]
    BY <1>4, <2>1, <2>2, PhaseSet
  <2>4. phaseBar[e.request] = "complete"
    BY <1>1, <1>4, <2>1 DEF phaseBar, IsReady
  <2>5. Life!Answer(e.slave, e.request)
    BY <1>1, <1>2, <1>3, <2>1, <2>2, <2>3, <2>4 DEF Life!Answer
  <2> QED
    BY <1>1, <2>1, <2>5 DEF Life!LifeNext
<1> QED
  BY <1>5, <1>6

LEMMA LifeStep == Calm /\ CalmInv /\ [Next]_vars => [Life!LifeNext]_(Life!lifeVars)
<1> SUFFICES ASSUME Calm, CalmInv, [Next]_vars
             PROVE  Life!LifeNext \/ UNCHANGED Life!lifeVars
  OBVIOUS
<1> DEFINE Goal == Life!LifeNext \/ UNCHANGED Life!lifeVars
<1>a. /\ "Mixed" \notin Habits /\ "Unwind" \notin Habits /\ "ReadyExit" \notin Habits
      /\ ready \in Seq(Entry) /\ batch \in Seq(Entry)
      /\ due \in [Requests -> Slaves \cup {Null}]
      /\ internal \in [Requests -> {"zero", "pending", "done"}]
      /\ step \in [Slaves -> Steps] /\ using \in [Slaves -> Requests \cup {Null}]
      /\ alive \subseteq Slaves /\ Null \notin Slaves \cup Requests
      /\ Master # Null /\ Master \notin Slaves
      /\ \A s \in Slaves :
            /\ step[s] \in Busy => current = s
            /\ step[s] # "app" => using[s] \in Requests
  BY EngineAssumption DEF CalmInv, StructInv, TypeOK, ControlInv, Calm
<1>b. StructInv /\ CompletionInv /\ CallInv
  BY DEF CalmInv
<1> SUFFICES Goal
  OBVIOUS
<1> HIDE DEF Goal
<1> USE <1>a DEF requestVars, loopVars, slaveVars, Runs, InApp, MasterAt, Busy, Steps
<1>1. ASSUME UNCHANGED <<alive, current, due, internal, step, using>>
      PROVE  Goal
  <2>1. phaseBar' = phaseBar
    BY <1>1, PhaseStays
  <2>2. callBar' = callBar
    BY <1>1 DEF callBar
  <2> QED
    BY <1>1, <2>1, <2>2 DEF Goal, Life!lifeVars
<1>2. CASE UNCHANGED vars
  BY <1>1, <1>2 DEF vars
<1>3. ASSUME NEW r \in Requests,
             Elapse(r) \/ Execute(r) \/ ReportCompletion(r)
      PROVE  Goal
  BY <1>1, <1>3 DEF Elapse, Execute, ReportCompletion
<1>4. ASSUME NEW r \in Requests, Close(r) PROVE Goal
  <2>1. /\ job[r] = "running" /\ Coming(r) = 1 /\ Live(r) /\ due[r] \in alive
    BY <1>b, <1>4, CalmFacts DEF Close
  <2>2. internal[r] = "pending" /\ due[r] # Null
    BY <1>b, <2>1 DEF CompletionInv
  <2>3. /\ \A q \in Requests : internal'[q] = IF q = r THEN "done" ELSE internal[q]
        /\ UNCHANGED <<due, alive, current, step, using>>
    BY <1>4, <2>1 DEF Close, Live
  <2>4. due' = [due EXCEPT ![r] = due[r]] /\ due[r] \in Slaves \cup {Null}
    BY <2>3
  <2>5. internal'[r] = "done" /\ \A q \in Requests : q # r => internal'[q] = internal[q]
    BY <2>3
  <2>6. phaseBar' = [phaseBar EXCEPT ![r] = "complete"]
    BY <2>2, <2>4, <2>5, PhaseSet
  <2>7. phaseBar[r] = "pending"
    BY <2>2 DEF phaseBar, IsReady
  <2>8. callBar' = callBar
    BY <2>3 DEF callBar
  <2> QED
    BY <2>3, <2>6, <2>7, <2>8 DEF Goal, Life!LifeNext, Life!Complete
<1>5. CASE \/ ProcessNotification \/ NoNotification \/ CheckPending
           \/ WaitForNotification \/ DispatchReturns \/ Turn
  BY <1>1, <1>5
     DEF ProcessNotification, NoNotification, CheckPending, WaitForNotification,
         DispatchReturns, Turn
<1>6. CASE Dispatch
  <2>1. Head(batch) \in ToSet(batch)
    BY <1>6, TailSet DEF Dispatch
  <2>2. Head(batch).slave \in alive
    BY <1>b, <2>1, CalmFacts
  <2> QED
    BY <1>6, <2>1, <2>2, EntryAnswers DEF Dispatch, Goal
<1>7. CASE ResumeOne
  <2>1. CASE ready = <<>>
    BY <1>1, <1>7, <2>1 DEF ResumeOne
  <2>2. CASE ready # <<>>
    <3>1. Head(ready) \in ToSet(ready)
      BY <2>2, TailSet
    <3>2. Head(ready).slave \in alive
      BY <1>b, <3>1, CalmFacts
    <3> QED
      BY <1>7, <2>2, <3>1, <3>2, EntryAnswers, SMTT(30) DEF ResumeOne, Goal
  <2> QED
    BY <2>1, <2>2
<1>8. ASSUME NEW s \in Slaves, Spawn(s) \/ SpawnQueued(s) PROVE Goal
  <2>1. phaseBar' = phaseBar
    BY <1>8, PhaseStays DEF Spawn, SpawnQueued
  <2>2. callBar' = callBar
    BY <1>8 DEF Spawn, SpawnQueued, callBar
  <2>3. Life!Enter(s)
    BY <1>8, <2>1, <2>2 DEF Spawn, SpawnQueued, Life!Enter
  <2> QED
    BY <2>3 DEF Goal, Life!LifeNext
<1>9. CASE Shutdown
  BY <1>9 DEF Shutdown
<1>10. ASSUME NEW s \in Slaves, NEW r \in Requests, NEW c \in Cells, Call(s, r, c)
       PROVE  Goal
  <2>1. due[r] = Null
    BY <1>b, <1>10, ConstructFacts DEF Call
  <2>2. /\ step[s] = "app" /\ current = s /\ Mark(s, r)
        /\ step' = [step EXCEPT ![s] = "calling"]
        /\ using' = [using EXCEPT ![s] = r]
        /\ UNCHANGED <<current, alive>>
    BY <1>10 DEF Call
  <2>3. phaseBar' = [phaseBar EXCEPT ![r] = "pending"] /\ due' = [due EXCEPT ![r] = s]
    BY <2>2, MarkPending
  <2>4. phaseBar[r] = "idle" /\ callBar[s] = Null
    BY <2>1, <2>2 DEF phaseBar, callBar
  <2>5. callBar' = [callBar EXCEPT ![s] = r]
    BY <2>2 DEF callBar
  <2>6. Life!WaitsForNothing(s)
    BY <1>b, <1>10, QuietFacts DEF Call, Life!WaitsForNothing
  <2>7. Life!Call(s, r)
    BY <2>2, <2>3, <2>4, <2>5, <2>6 DEF Life!Call, Life!Begin
  <2> QED
    BY <2>7 DEF Goal, Life!LifeNext
<1>11. ASSUME NEW s \in Slaves, NEW r \in Requests, NEW c \in Cells, New(s, r, c)
       PROVE  Goal
  BY <1>1, <1>11 DEF New
<1>12. ASSUME NEW s \in Slaves, NEW r \in Requests, Start(s, r) PROVE Goal
  <2>1. /\ step[s] = "app" /\ current = s /\ Mark(s, r) /\ due[r] = Null
        /\ step' = [step EXCEPT ![s] = "starting"]
        /\ using' = [using EXCEPT ![s] = r]
        /\ UNCHANGED <<current, alive>>
    BY <1>12 DEF Start
  <2>2. phaseBar' = [phaseBar EXCEPT ![r] = "pending"] /\ due' = [due EXCEPT ![r] = s]
    BY <2>1, MarkPending
  <2>3. phaseBar[r] = "idle" /\ callBar[s] = Null
    BY <2>1 DEF phaseBar, callBar
  <2>4. callBar' = callBar
    BY <2>1 DEF callBar
  <2>5. Life!Start(s, r)
    BY <2>1, <2>2, <2>3, <2>4 DEF Life!Start, Life!Begin
  <2> QED
    BY <2>5 DEF Goal, Life!LifeNext
<1>13. ASSUME NEW s \in Slaves, NEW r \in Requests, AbortCancel(s, r) PROVE Goal
  <2>1. phaseBar' = phaseBar
    BY <1>13, PhaseStays DEF AbortCancel
  <2>2. callBar' = callBar
    BY <1>13 DEF AbortCancel, callBar
  <2> QED
    BY <1>13, <2>1, <2>2 DEF AbortCancel, Goal, Life!lifeVars
<1>14. ASSUME NEW s \in Slaves, NEW r \in Requests, Reset(s, r) PROVE Goal
  <2>1. phaseBar' = phaseBar
    BY <1>14, PhaseStays DEF Reset
  <2>2. callBar' = callBar
    BY <1>14 DEF Reset, callBar
  <2> QED
    BY <1>14, <2>1, <2>2 DEF Reset, Goal, Life!lifeVars
<1>15. ASSUME NEW s \in Slaves, NEW R, Destruct(R),
              \A r \in Requests \cap R : due[r] = Null
       PROVE  due' = due /\ phaseBar' = phaseBar
  <2>1. due' = due
    BY <1>15 DEF Destruct
  <2> QED
    BY <1>15, <2>1, PhaseStays DEF Destruct
<1>16. ASSUME NEW s \in Slaves, NEW r \in Requests, Delete(s, r) PROVE Goal
  <2>1. due' = due /\ phaseBar' = phaseBar
    BY <1>15, <1>16 DEF Delete
  <2>2. callBar' = callBar
    BY <1>16 DEF Delete, callBar
  <2> QED
    BY <1>16, <2>1, <2>2 DEF Delete, Goal, Life!lifeVars
<1>17. ASSUME NEW s \in Slaves, Submit(s) PROVE Goal
  <2>1. phaseBar' = phaseBar
    BY <1>17, PhaseStays DEF Submit
  <2>2. callBar' = callBar
    BY <1>17 DEF Submit, callBar
  <2> QED
    BY <1>17, <2>1, <2>2 DEF Submit, Goal, Life!lifeVars
<1>18. ASSUME NEW s \in Slaves, Yield(s) \/ Pause(s) PROVE Goal
  <2>1. phaseBar' = phaseBar
    BY <1>18, PhaseStays DEF Yield, Pause
  <2>2. callBar' = callBar
    BY <1>18 DEF Yield, Pause, callBar
  <2>3. callBar[s] # Null => due[callBar[s]] = s
    BY <1>b, <1>18 DEF Yield, Pause, callBar, CallInv
  <2>4. Life!Yield(s)
    BY <1>18, <2>1, <2>2, <2>3 DEF Yield, Pause, Life!Yield
  <2> QED
    BY <2>4 DEF Goal, Life!LifeNext
<1>19. ASSUME NEW s \in Slaves, CallReturns(s) PROVE Goal
  <2>1. using[s] \in Requests /\ due[using[s]] = Null
    BY <1>b, <1>19 DEF CallReturns, CallInv
  <2>2. due' = due /\ phaseBar' = phaseBar
    BY <1>15, <1>19, <2>1 DEF CallReturns
  <2>3. callBar[s] = using[s] /\ callBar' = [callBar EXCEPT ![s] = Null]
    BY <1>19 DEF CallReturns, callBar
  <2>4. Life!Return(s)
    BY <1>19, <2>1, <2>2, <2>3 DEF CallReturns, Life!Return
  <2> QED
    BY <2>4 DEF Goal, Life!LifeNext
<1>20. ASSUME NEW s \in Slaves, AbortReturns(s) PROVE Goal
  <2> DEFINE r == using[s]
  <2>1. /\ r \in Requests /\ due[r] \in {s, Null} /\ current = s
        /\ step[s] = "aborting" /\ UNCHANGED <<current, alive, internal>>
        /\ due' = [due EXCEPT ![r] = IF AbortResult(r) THEN Null ELSE @]
    BY <1>b, <1>20 DEF AbortReturns, CallInv
  <2>2. callBar' = callBar /\ callBar[s] = Null
    BY <1>20 DEF AbortReturns, callBar
  <2> HIDE DEF r
  <2>3. CASE AbortResult(r) /\ due[r] = s
    <3>1. due' = [due EXCEPT ![r] = Null]
      BY <2>1, <2>3
    <3>2. phaseBar' = [phaseBar EXCEPT ![r] = "idle"]
      BY <2>1, <3>1, PhaseSet
    <3>3. phaseBar[r] = "pending"
      BY <2>1, <2>3 DEF phaseBar, AbortResult
    <3>4. Life!Abandon(s, r)
      BY <2>1, <2>2, <2>3, <3>1, <3>2, <3>3 DEF Life!Abandon
    <3> QED
      BY <2>1, <3>4 DEF Goal, Life!LifeNext
  <2>4. CASE ~(AbortResult(r) /\ due[r] = s)
    <3>1. due' = due
      BY <2>1, <2>4
    <3>2. phaseBar' = phaseBar
      BY <2>1, <3>1, PhaseStays
    <3> QED
      BY <2>1, <2>2, <3>1, <3>2 DEF Goal, Life!lifeVars
  <2> QED
    BY <2>3, <2>4
<1>21. ASSUME NEW s \in Slaves, End(s) PROVE Goal
  <2>1. \A r \in Requests : due[r] # s
    BY <1>b, <1>21, QuietFacts DEF End
  <2>2. \A r \in Requests \cap OnStack(s) : due[r] = Null
    BY <1>b, <2>1 DEF OnStack, StructInv, AddressInv
  <2>3. due' = due /\ phaseBar' = phaseBar
    BY <1>15, <1>21, <2>2 DEF End
  <2>4. callBar' = callBar /\ callBar[s] = Null
    BY <1>21 DEF End, callBar
  <2>5. Life!Leave(s)
    BY <1>21, <2>1, <2>3, <2>4 DEF End, Life!Leave, Life!WaitsForNothing
  <2> QED
    BY <2>5 DEF Goal, Life!LifeNext
<1> QED
  BY <1>2, <1>3, <1>4, <1>5, <1>6, <1>7, <1>8, <1>9, <1>10, <1>11, <1>12, <1>13,
     <1>14, <1>16, <1>17, <1>18, <1>19, <1>20, <1>21
  DEF Next, PoolStep, LoopStep, SlaveStep

(* Each start is answered at most once, to the slave that waits for it and *)
(* to nobody else, and never before the job is done (Engine.cpp:53-118,    *)
(* 270-452; Request.cpp:49-195).                                           *)
THEOREM EngineImplementsRequestLife == Calm /\ Spec => ImplementsRequestLife
<1>1. Init => Life!LifeInit
  BY DEF Init, Life!LifeInit, phaseBar, callBar
<1>2. CASE Calm
  <2>1. CalmInv /\ [Next]_vars => [Life!LifeNext]_(Life!lifeVars)
    BY <1>2, LifeStep
  <2> QED
    BY <1>1, <1>2, <2>1, CalmAlways, PTL
    DEF Spec, ImplementsRequestLife, Life!LifeSpec
<1>3. CASE ~Calm
  BY <1>3
<1> QED
  BY <1>2, <1>3
=============================================================================
