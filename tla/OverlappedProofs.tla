-------------------------- MODULE OverlappedProofs --------------------------
(***************************************************************************)
(* A task that collects a request when it is notified, and not before, is  *)
(* never told about another operation than its own, however many it        *)
(* starts, whatever they transfer and however they complete.               *)
(***************************************************************************)
EXTENDS Overlapped, TLAPS

(* How far the operation has come.                                         *)
InKernel ==
    /\ kernel = op /\ pending /\ port = <<>> /\ ~notified
    /\ Len(outcome) + 1 = op
    /\ myState = Class.started /\ myResult = 0

(* What start() and result() leave of it in the request.                   *)
Recorded ==
    /\ kernel = NoOp /\ ~pending
    /\ op > 0 /\ Len(outcome) = op
    /\ myResult = 0 \/ myResult = outcome[op].size
    /\ outcome[op].status # "ok" => myResult = 0 /\ outcome[op].size = 0

InPort ==
    /\ Recorded /\ port = <<outcome[op]>> /\ ~notified
    /\ myState \in {Class.started, Class.empty}

Delivered ==
    /\ Recorded /\ port = <<>> /\ notified
    /\ myNotification = outcome[op]
    /\ myState \in {Class.started, Class.empty}

(* The inductive invariant: by what the task is up to.                     *)
IInv ==
    /\ TypeOK
    /\ task = "idle" =>
        /\ kernel = NoOp /\ port = <<>> /\ Len(outcome) = op
        /\ ~pending /\ myState = "Idle" /\ myResult = 0
    /\ task = "started" => InKernel \/ InPort \/ Delivered
    /\ task = "collected" =>
        /\ kernel = NoOp /\ port = <<>> /\ ~pending
        /\ op > 0 /\ Len(outcome) = op
        /\ collected.size = outcome[op].size
        /\ collected.answer = "ok" <=> outcome[op].status = "ok"

(* What the classes have in common.                                        *)
LEMMA ClassFacts ==
    /\ Class.started \in States /\ Class.empty \in States /\ Class.failed \in States
    /\ Class.started \in Class.ready /\ Class.empty \in Class.ready
    /\ Class.sizes \subseteq 0..MaxSize
  BY OverlappedAssumption
  DEF Class, States, SocketGetRequest, SocketPutRequest, GetRequest, PutRequest,
      AcceptRequest, ConnectRequest, DisconnectRequest

(* A request keeps its class.                                              *)
LEMMA SameClass == [Next]_vars => Class' = Class
<1>1. [Next]_vars => kind' = kind
  BY DEF Next, vars, request, StartPending, StartSynchronous, Abort, Complete,
         Process, Collect, Reset, Return
<1>2. kind' = kind => Class' = Class
  BY DEF Class, SocketGetRequest, SocketPutRequest, GetRequest, PutRequest,
         AcceptRequest, ConnectRequest, DisconnectRequest
<1> QED
  BY <1>1, <1>2

(* How operations end is a type of notification.                           *)
LEMMA OutcomeTypes ==
    ASSUME NEW e \in Outcomes
    PROVE  e \in Notifications /\ (e.status # "ok" => e.size = 0)
<1>1. CASE e \in [status : {"ok"}, size : Class.sizes]
  BY <1>1, ClassFacts DEF Notifications
<1>2. CASE e \in [status : Errors, size : {0}]
  BY <1>2, OverlappedAssumption DEF Notifications, Errors
<1> QED
  BY <1>1, <1>2 DEF Outcomes

LEMMA InitInv == Init => IInv
<1> SUFFICES ASSUME Init PROVE IInv
  OBVIOUS
<1>1. TypeOK
  <2>1. myNotification \in Notifications
    BY OverlappedAssumption DEF Init, Notifications, NoNotification
  <2>2. collected \in [size : 0..MaxSize, answer : {"ok", "no", "throws"}, eof : BOOLEAN]
    BY OverlappedAssumption DEF Init
  <2>3. port \in Seq(Notifications) /\ outcome \in Seq(Notifications)
    BY DEF Init
  <2>4. Marks
    BY Zenon DEF Init, Marks
  <2> QED
    BY <2>1, <2>2, <2>3, <2>4, OverlappedAssumption DEF Init, TypeOK, NoOp, States
<1> QED
  BY <1>1 DEF Init, IInv

(* One operation more: what Append does to the history.                    *)
LEMMA History ==
    ASSUME TypeOK, NEW e \in Notifications, outcome' = Append(outcome, e)
    PROVE  /\ outcome' \in Seq(Notifications)
           /\ Len(outcome') = Len(outcome) + 1
           /\ outcome'[Len(outcome) + 1] = e
  BY DEF TypeOK

LEMMA StepInv ==
    ~Eager /\ IInv /\ [Next]_vars => IInv'
<1> SUFFICES ASSUME ~Eager, IInv, [Next]_vars PROVE IInv'
  OBVIOUS
<1> USE OverlappedAssumption
<1>t. TypeOK
  BY DEF IInv
<1>m. Marks'
  BY <1>t, Zenon
  DEF Next, vars, request, app, TypeOK, Marks, StartPending, StartSynchronous,
      Abort, Complete, Process, Collect, Reset, Return
<1>c. Class' = Class
  BY SameClass
<1>1. CASE StartPending
  <2>1. TypeOK'
    BY <1>1, <1>t, <1>m, ClassFacts DEF StartPending, TypeOK
  <2>2. InKernel'
    BY <1>1, <1>t, <1>c DEF StartPending, IInv, InKernel, TypeOK
  <2> QED
    BY <2>1, <2>2, <1>1 DEF StartPending, IInv
<1>2. CASE StartSynchronous
  <2>1. PICK e \in Outcomes :
            /\ e.status = "ok"
            /\ myResult' = IF Class.keeps THEN e.size ELSE myResult
            /\ myState' = IF e.size = 0 THEN Class.empty ELSE Class.started
            /\ outcome' = Append(outcome, e) /\ port' = Append(port, e)
    BY <1>2 DEF StartSynchronous
  <2>2. e \in Notifications
    BY OutcomeTypes
  <2>3. /\ outcome' \in Seq(Notifications) /\ Len(outcome') = op'
        /\ outcome'[op'] = e
    BY <1>2, <1>t, <2>1, <2>2, History DEF StartSynchronous, IInv, TypeOK
  <2>4. port = <<>> /\ port' = <<e>>
    BY <1>2, <2>1 DEF StartSynchronous, IInv
  <2>5. myResult' \in 0..MaxSize
    BY <1>t, <2>1, <2>2 DEF Notifications, TypeOK
  <2>6. TypeOK'
    BY <1>2, <1>t, <1>m, <2>1, <2>2, <2>3, <2>4, <2>5, ClassFacts DEF StartSynchronous, TypeOK
  <2>7. InPort'
    BY <1>2, <1>t, <1>c, <2>1, <2>3, <2>4
    DEF StartSynchronous, IInv, InPort, Recorded, TypeOK
  <2> QED
    BY <2>6, <2>7, <1>2 DEF StartSynchronous, IInv
<1>3. CASE Abort
  <2>1. TypeOK'
    BY <1>3, <1>t, <1>m DEF Abort, TypeOK, request, app
  <2> QED
    BY <2>1, <1>3, <1>c
    DEF Abort, IInv, InKernel, InPort, Delivered, Recorded, request, app
<1>4. CASE Complete
  <2>1. PICK e \in Outcomes :
            outcome' = Append(outcome, e) /\ port' = Append(port, e)
    BY <1>4 DEF Complete
  <2>2. e \in Notifications /\ (e.status # "ok" => e.size = 0)
    BY OutcomeTypes
  <2>3. task = "started" /\ InKernel
    BY <1>4, <1>t
    DEF Complete, IInv, InPort, Delivered, Recorded, TypeOK, NoOp
  <2>4. /\ outcome' \in Seq(Notifications) /\ Len(outcome') = op
        /\ outcome'[op] = e
    BY <1>t, <2>1, <2>2, <2>3, History DEF InKernel
  <2>5. port' = <<e>>
    BY <2>1, <2>3 DEF InKernel
  <2>6. TypeOK'
    BY <1>4, <1>t, <1>m, <2>2, <2>4, <2>5 DEF Complete, TypeOK, app, NoOp
  <2>7. InPort'
    BY <1>4, <1>t, <1>c, <2>2, <2>3, <2>4, <2>5
    DEF Complete, InKernel, InPort, Recorded, app, TypeOK
  <2> QED
    BY <2>3, <2>6, <2>7, <1>4 DEF Complete, IInv, app
<1>5. CASE Process
  <2>1. task = "started" /\ InPort
    BY <1>5, <1>t DEF Process, IInv, InKernel, Delivered, TypeOK
  <2>2. port' = <<>> /\ myNotification' = outcome[op]
    BY <1>5, <2>1 DEF Process, InPort
  <2>3. outcome[op] \in Notifications
    BY <1>t, <2>1 DEF InPort, Recorded, TypeOK
  <2>4. TypeOK'
    BY <1>5, <1>t, <1>m, <2>2, <2>3 DEF Process, TypeOK
  <2>5. Delivered'
    BY <1>5, <1>c, <2>1, <2>2 DEF Process, InPort, Delivered, Recorded
  <2> QED
    BY <2>1, <2>4, <2>5, <1>5 DEF Process, IInv
<1>6. CASE Collect
  <2>1. Delivered
    BY <1>6 DEF Collect, IInv, InKernel, InPort
  <2>2. Result = outcome[op].size
    BY <2>1, <1>t DEF Result, Delivered, Recorded, TypeOK
  <2>3. Result \in 0..MaxSize
    BY <2>1, <2>2, <1>t DEF Delivered, Recorded, TypeOK, Notifications
  <2>4. TypeOK'
    <3>1. Eof(AfterResult) \in BOOLEAN
      BY DEF Eof
    <3>2. AfterResult \in States
      BY <1>t, ClassFacts DEF AfterResult, TypeOK
    <3>3. Answer \in {"ok", "no", "throws"}
      BY DEF Answer
    <3> QED
      BY <1>6, <1>t, <1>m, <2>3, <3>1, <3>2, <3>3 DEF Collect, TypeOK
  <2>5. Answer = "ok" <=> outcome[op].status = "ok"
    BY <2>1 DEF Answer, Delivered
  <2> QED
    BY <1>6, <2>1, <2>2, <2>4, <2>5 DEF Collect, IInv, Delivered, Recorded
<1>7. CASE Reset
  <2>1. TypeOK'
    BY <1>7, <1>t, <1>m DEF Reset, TypeOK, States
  <2> QED
    BY <2>1, <1>7 DEF Reset, IInv
<1>8. CASE Return
  <2>1. TypeOK'
    BY <1>8, <1>t, <1>m DEF Return, TypeOK, States, NoNotification, Notifications
  <2> QED
    BY <2>1, <1>8 DEF Return, IInv
<1>9. CASE UNCHANGED vars
  <2>1. TypeOK'
    BY <1>9, <1>t, <1>m DEF vars, request, app, TypeOK
  <2> QED
    BY <2>1, <1>9, <1>c
    DEF vars, request, app, IInv, InKernel, InPort, Delivered, Recorded
<1> QED
  BY <1>1, <1>2, <1>3, <1>4, <1>5, <1>6, <1>7, <1>8, <1>9 DEF Next

THEOREM Inductive == ASSUME ~Eager PROVE Spec => []IInv
  BY InitInv, StepInv, PTL DEF Spec

(* Types are kept.                                                         *)
THEOREM OverlappedTypes == ASSUME ~Eager PROVE Spec => []TypeOK
<1>1. IInv => TypeOK
  BY DEF IInv
<1> QED
  BY <1>1, Inductive, PTL

(* result() speaks of the operation it is asked about                      *)
(* (SocketChannel.cpp:259-281).                                            *)
THEOREM ResultsAreOwn == ASSUME ~Eager PROVE Spec => []ResultIsOwn
<1>1. IInv => ResultIsOwn
  BY DEF IInv, ResultIsOwn
<1> QED
  BY <1>1, Inductive, PTL

(* A request is reset, and started again, only when nothing of its last    *)
(* operation is left (SocketChannel.cpp:283-288).                          *)
THEOREM NothingIsLeftBehind == ASSUME ~Eager PROVE Spec => []NothingLeftBehind
<1>1. IInv => NothingLeftBehind
  BY DEF IInv, NothingLeftBehind, TypeOK
<1> QED
  BY <1>1, Inductive, PTL

(* The callers' checks that a notified request is ready never fail         *)
(* (echo-server.cpp:429-431, 535-537).                                     *)
THEOREM NotifiedIsReady == ASSUME ~Eager PROVE Spec => []ReadyWhenNotified
<1>1. IInv => ReadyWhenNotified
  BY ClassFacts DEF IInv, ReadyWhenNotified, Ready, InKernel, InPort, Delivered, Recorded
<1> QED
  BY <1>1, Inductive, PTL
=============================================================================
