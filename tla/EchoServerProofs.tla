-------------------------- MODULE EchoServerProofs --------------------------
(***************************************************************************)
(* Theorems about EchoServer, for any connections, clients and input.      *)
(*                                                                         *)
(* The invariant is ServerInv of EchoServerInv.  First come the facts the  *)
(* proofs keep needing: what each kind of step does to the number of       *)
(* notifications (CountPosted ... CountAborted, then Moved, Posted,        *)
(* Consumed, Aborted per action), to a connection (Taken, Relistened) and  *)
(* to the set that listens (ListenersStay, ListenerAccepts, ListenerAdded).*)
(* Then each part of the invariant is shown to be kept by every action:    *)
(* TypeStep, LoopKept, LifeKept, AwaitedKept, RoomKept, JobsKept,          *)
(* EventKept, ConsoleKept.                                                 *)
(***************************************************************************)
EXTENDS EchoServerInv, SequenceLemmas

----------------------------------------------------------------------------
(* Where notifications are, and how many.                                  *)

LEMMA NoteFacts ==
    /\ \A c \in Conns \cup {Null}, k \in NoteKinds :
          /\ Note(c, k) \in Notification
          /\ Note(c, k).connection = c /\ Note(c, k).kind = k
    /\ \A n \in Notification :
          /\ n.connection \in Conns \cup {Null} /\ n.kind \in NoteKinds
          /\ n = Note(n.connection, n.kind)
          /\ \A c, k : n = Note(c, k) <=> c = n.connection /\ k = n.kind
BY DEF Note, Notification

LEMMA KindFacts ==
    /\ "NEW" \in NoteKinds /\ "IO" \in NoteKinds /\ "DEL" \in NoteKinds
    /\ \A j \in Jobs : j \in NoteKinds /\ j \notin Kinds
    /\ \A k \in Kinds : k \in NoteKinds /\ k \notin Jobs
    /\ "compute" \in Jobs /\ "accept_watcher" \in Jobs /\ "shutdown_wait" \in Jobs
BY DEF NoteKinds, Kinds, Jobs

(* What Count(c, k) adds up.                                               *)
Of(c, k, q) == Occurrences(q, {Note(c, k)})

CountFacts ==
    \A c \in Conns \cup {Null}, k \in NoteKinds :
        /\ Of(c, k, port) \in Nat /\ Of(c, k, queue) \in Nat /\ Of(c, k, batch) \in Nat
        /\ Count(c, k) \in Nat
        /\ Count(c, k) = Of(c, k, port) + Of(c, k, queue) + Of(c, k, batch)
        /\ Count(c, k) = 0 <=>
              Note(c, k) \notin ToSet(port) \cup ToSet(queue) \cup ToSet(batch)

LEMMA Counts == TypeOK => CountFacts
<1> SUFFICES ASSUME TypeOK, NEW c \in Conns \cup {Null}, NEW k \in NoteKinds
             PROVE  /\ Of(c, k, port) \in Nat /\ Of(c, k, queue) \in Nat
                    /\ Of(c, k, batch) \in Nat
                    /\ Count(c, k) \in Nat
                    /\ Count(c, k) = Of(c, k, port) + Of(c, k, queue) + Of(c, k, batch)
                    /\ Count(c, k) = 0 <=>
                          Note(c, k) \notin ToSet(port) \cup ToSet(queue) \cup ToSet(batch)
  BY DEF CountFacts
<1> DEFINE S == {Note(c, k)}
<1>1. /\ port \in Seq(Notification) /\ queue \in Seq(Notification)
      /\ batch \in Seq(Notification)
  BY DEF TypeOK
<1>2. port \o queue \in Seq(Notification) /\ Notes \in Seq(Notification)
  BY <1>1, ConcatSet DEF Notes
<1>3. Count(c, k) = Occurrences(Notes, S)
  <2>1. {i \in DOMAIN Notes : Notes[i] = Note(c, k)} = {i \in DOMAIN Notes : Notes[i] \in S}
    OBVIOUS
  <2>2. Occurrences(Notes, S) = Cardinality({i \in DOMAIN Notes : Notes[i] \in S})
    BY <1>2, CountType
  <2> QED
    BY <2>1, <2>2 DEF Count
<1>4. Occurrences(Notes, S)
        = Occurrences(port, S) + Occurrences(queue, S) + Occurrences(batch, S)
  <2>1. Occurrences(Notes, S) = Occurrences(port \o queue, S) + Occurrences(batch, S)
    <3> DEFINE p == port \o queue
    <3>1. p \in Seq(Notification) /\ Notes = p \o batch
      BY <1>2 DEF Notes
    <3> HIDE DEF p
    <3>2. Occurrences(p \o batch, S) = Occurrences(p, S) + Occurrences(batch, S)
      BY <1>1, <3>1, CountConcat
    <3> QED
      BY <3>1, <3>2 DEF p
  <2>2. Occurrences(port \o queue, S) = Occurrences(port, S) + Occurrences(queue, S)
    BY <1>1, CountConcat
  <2> QED
    BY <2>1, <2>2
<1>5. ASSUME NEW q \in Seq(Notification)
      PROVE  /\ Occurrences(q, S) \in Nat
             /\ Occurrences(q, S) = 0 <=> Note(c, k) \notin ToSet(q)
  <2>1. /\ Occurrences(q, S) \in Nat
        /\ Occurrences(q, S) = 0 <=> \A i \in DOMAIN q : q[i] \notin S
    BY CountType
  <2> QED
    BY <2>1 DEF ToSet
<1>6. /\ Occurrences(port, S) \in Nat /\ Occurrences(queue, S) \in Nat
      /\ Occurrences(batch, S) \in Nat
      /\ Occurrences(port, S) = 0 <=> Note(c, k) \notin ToSet(port)
      /\ Occurrences(queue, S) = 0 <=> Note(c, k) \notin ToSet(queue)
      /\ Occurrences(batch, S) = 0 <=> Note(c, k) \notin ToSet(batch)
  BY <1>1, <1>5
<1> QED
  BY <1>3, <1>4, <1>6 DEF Of

LEMMA CountsNext == TypeOK' => CountFacts'
<1>1. (TypeOK => CountFacts)'
  BY Counts, PTL
<1> QED
  BY <1>1

LEMMA CountStays ==
    UNCHANGED <<port, queue, batch>> => \A c, k : Count(c, k)' = Count(c, k)
BY DEF Count, Notes

LEMMA CountPosted ==
    ASSUME TypeOK, TypeOK', NEW n \in Notification, port' = Append(port, n),
           UNCHANGED <<queue, batch>>,
           NEW c \in Conns \cup {Null}, NEW k \in NoteKinds
    PROVE  Count(c, k)' = Count(c, k) + IF n = Note(c, k) THEN 1 ELSE 0
<1> DEFINE S == {Note(c, k)}
           one == IF n = Note(c, k) THEN 1 ELSE 0
<1>1. port \in Seq(Notification)
  BY DEF TypeOK
<1>2. Occurrences(Append(port, n), S) = Occurrences(port, S) + IF n \in S THEN 1 ELSE 0
  BY <1>1, CountAppend
<1>3. Of(c, k, port') = Of(c, k, port) + one
  BY <1>2 DEF Of
<1>4. Count(c, k)' = Of(c, k, port') + Of(c, k, queue) + Of(c, k, batch)
  BY CountsNext DEF CountFacts, Of, Note
<1>5. /\ Of(c, k, port) \in Nat /\ Of(c, k, queue) \in Nat /\ Of(c, k, batch) \in Nat
      /\ Count(c, k) = Of(c, k, port) + Of(c, k, queue) + Of(c, k, batch)
  BY Counts DEF CountFacts
<1> QED
  BY <1>3, <1>4, <1>5

(* A notification is taken from the port and queued.                       *)
LEMMA CountTaken ==
    ASSUME TypeOK, TypeOK', port # <<>>, port' = Tail(port),
           queue' = Append(queue, Head(port)), UNCHANGED batch,
           NEW c \in Conns \cup {Null}, NEW k \in NoteKinds
    PROVE  Count(c, k)' = Count(c, k)
<1> DEFINE S == {Note(c, k)}
           one == IF Head(port) \in S THEN 1 ELSE 0
<1>1. port \in Seq(Notification) /\ queue \in Seq(Notification)
  BY DEF TypeOK
<1>2. /\ Head(port) \in Notification
      /\ Occurrences(port, S) = Occurrences(Tail(port), S) + one
  BY <1>1, CountTail
<1>3. Occurrences(Append(queue, Head(port)), S) = Occurrences(queue, S) + one
  BY <1>1, <1>2, CountAppend
<1>4. /\ Count(c, k)' = Of(c, k, port') + Of(c, k, queue') + Of(c, k, batch)
      /\ Of(c, k, port') \in Nat
  BY CountsNext DEF CountFacts, Of, Note
<1>5. /\ Of(c, k, port) \in Nat /\ Of(c, k, queue) \in Nat /\ Of(c, k, batch) \in Nat
      /\ Count(c, k) = Of(c, k, port) + Of(c, k, queue) + Of(c, k, batch)
  BY Counts DEF CountFacts
<1>6. /\ Of(c, k, port) = Of(c, k, port') + one
      /\ Of(c, k, queue') = Of(c, k, queue) + one
  BY <1>2, <1>3 DEF Of
<1> HIDE DEF one
<1>7. one \in Nat
  BY DEF one
<1> QED
  BY <1>4, <1>5, <1>6, <1>7

(* The queue is stolen.                                                    *)
LEMMA CountStolen ==
    ASSUME TypeOK, TypeOK', batch = <<>>, batch' = queue, queue' = <<>>,
           UNCHANGED port,
           NEW c \in Conns \cup {Null}, NEW k \in NoteKinds
    PROVE  Count(c, k)' = Count(c, k)
<1>1. Count(c, k)' = Of(c, k, port) + Of(c, k, <<>>) + Of(c, k, queue)
  BY CountsNext DEF CountFacts, Of, Note
<1>2. /\ Of(c, k, port) \in Nat /\ Of(c, k, queue) \in Nat
      /\ Count(c, k) = Of(c, k, port) + Of(c, k, queue) + Of(c, k, <<>>)
  BY Counts DEF CountFacts
<1>3. Of(c, k, <<>>) = 0
  BY CountEmpty DEF Of
<1> QED
  BY <1>1, <1>2, <1>3

(* A task is resumed for n, and posts what is in q.                        *)
LEMMA CountResumed ==
    ASSUME TypeOK, TypeOK', batch # <<>>, batch' = Tail(batch), UNCHANGED queue,
           NEW q \in Seq(Notification), port' = port \o q,
           NEW c \in Conns \cup {Null}, NEW k \in NoteKinds
    PROVE  /\ Of(c, k, q) \in Nat
           /\ Count(c, k)' + (IF Head(batch) = Note(c, k) THEN 1 ELSE 0)
                = Count(c, k) + Of(c, k, q)
<1> DEFINE S == {Note(c, k)}
           one == IF Head(batch) = Note(c, k) THEN 1 ELSE 0
<1>1. port \in Seq(Notification) /\ batch \in Seq(Notification)
  BY DEF TypeOK
<1>2. Occurrences(batch, S)
        = Occurrences(Tail(batch), S) + IF Head(batch) \in S THEN 1 ELSE 0
  BY <1>1, CountTail
<1>3. /\ Occurrences(port \o q, S) = Occurrences(port, S) + Occurrences(q, S)
      /\ Occurrences(q, S) \in Nat
  <2>1. Occurrences(port \o q, S) = Occurrences(port, S) + Occurrences(q, S)
    BY <1>1, CountConcat
  <2> QED
    BY <2>1, CountType
<1>4. /\ Count(c, k)' = Of(c, k, port') + Of(c, k, queue) + Of(c, k, batch')
      /\ Of(c, k, batch') \in Nat
  BY CountsNext DEF CountFacts, Of, Note
<1>5. /\ Of(c, k, port) \in Nat /\ Of(c, k, queue) \in Nat /\ Of(c, k, batch) \in Nat
      /\ Count(c, k) = Of(c, k, port) + Of(c, k, queue) + Of(c, k, batch)
  BY Counts DEF CountFacts
<1>6. /\ Of(c, k, batch) = Of(c, k, batch') + one
      /\ Of(c, k, port') = Of(c, k, port) + Of(c, k, q)
      /\ Of(c, k, q) \in Nat
  BY <1>2, <1>3 DEF Of
<1> HIDE DEF one
<1>7. one \in Nat
  BY DEF one
<1>8. Count(c, k)' + one = Count(c, k) + Of(c, k, q)
  BY <1>4, <1>5, <1>6, <1>7
<1> QED
  BY <1>6, <1>8 DEF one

(* The task that is resumed posts nothing.                                 *)
LEMMA CountLess ==
    ASSUME TypeOK, TypeOK', batch # <<>>, batch' = Tail(batch),
           UNCHANGED <<port, queue>>,
           NEW c \in Conns \cup {Null}, NEW k \in NoteKinds
    PROVE  Count(c, k)' + (IF Head(batch) = Note(c, k) THEN 1 ELSE 0) = Count(c, k)
<1>1. <<>> \in Seq(Notification) /\ port' = port \o <<>>
  BY ConcatProperties DEF TypeOK
<1>2. Of(c, k, <<>>) = 0
  BY CountEmpty DEF Of
<1>3. Count(c, k)' + (IF Head(batch) = Note(c, k) THEN 1 ELSE 0)
        = Count(c, k) + Of(c, k, <<>>)
  BY <1>1, CountResumed
<1>4. Count(c, k) \in Nat
  BY Counts DEF CountFacts
<1> QED
  BY <1>2, <1>3, <1>4

(* The notifications of the accepts that are aborted.                      *)
LEMMA CountAborted ==
    ASSUME NEW late \in SUBSET Conns, NEW c \in Conns \cup {Null}, NEW k \in NoteKinds
    PROVE  LET q == SetToSeq({Note(d, "NEW") : d \in late}) IN
           /\ q \in Seq(Notification)
           /\ \A n \in ToSet(q) : n.kind = "NEW" /\ n.connection \in late
           /\ Of(c, k, q) = IF k = "NEW" /\ c \in late THEN 1 ELSE 0
<1> DEFINE N == {Note(d, "NEW") : d \in late}
           q == SetToSeq(N)
           f == [d \in late |-> Note(d, "NEW")]
<1>1. IsFiniteSet(late)
  BY FS_Subset, ServerAssumption
<1>2. f \in Surjection(late, N)
  BY DEF Surjection
<1>3. IsFiniteSet(N)
  BY <1>1, <1>2, FS_Surjection
<1>4. /\ q \in Seq(N) /\ ToSet(q) = N
      /\ Occurrences(q, {Note(c, k)}) = IF Note(c, k) \in N THEN 1 ELSE 0
  BY <1>3, SetToSeqFacts
<1>5. \A n \in N : n \in Notification /\ n.kind = "NEW" /\ n.connection \in late
  BY NoteFacts, KindFacts
<1>6. Note(c, k) \in N <=> k = "NEW" /\ c \in late
  BY NoteFacts, KindFacts
<1>7. q \in Seq(Notification)
  BY <1>4, <1>5
<1> QED
  BY <1>4, <1>5, <1>6, <1>7 DEF Of

----------------------------------------------------------------------------
(* What a resumption may count on.                                         *)
LEMMA Resumed ==
    ASSUME TypeOK, LoopInv, JobsInv, NEW s \in {"service", "control"}, NEW n,
           Resumes(s, n)
    PROVE  /\ n \in Notification /\ n = Head(batch) /\ batch # <<>>
           /\ n = Note(n.connection, n.kind)
           /\ Count(n.connection, n.kind) > 0
           /\ n.kind \in Kinds => n.connection \in Conns
           /\ n.kind \in Jobs => n.connection = Null /\ job[n.kind] = "none"
           /\ s = "control" <=> n.kind = "compute"
           /\ n.kind \in NoteKinds
<1>1. n = Head(batch) /\ batch # <<>> /\ Slave(n) = s
  BY DEF Resumes
<1>2. n \in Notification /\ n \in ToSet(batch)
  BY <1>1, TailSet DEF TypeOK
<1>3. n.connection \in Conns \cup {Null} /\ n.kind \in NoteKinds
      /\ n = Note(n.connection, n.kind)
  BY <1>2, NoteFacts
<1>4. Count(n.connection, n.kind) \in Nat /\ Count(n.connection, n.kind) # 0
  BY <1>2, <1>3, Counts DEF CountFacts
<1>5. n.kind \in Kinds <=> n.connection # Null
  BY <1>2 DEF LoopInv
<1>6. ASSUME n.kind \in Jobs
      PROVE  n.connection = Null /\ job[n.kind] = "none"
  <2>1. n.connection = Null
    BY <1>5, <1>6, KindFacts
  <2>2. Count(Null, n.kind) + (IF job[n.kind] = "none" THEN 0 ELSE 1) <= 1
    BY <1>6 DEF JobsInv, Coming
  <2> QED
    BY <1>4, <2>1, <2>2
<1> QED
  BY <1>1, <1>2, <1>3, <1>4, <1>5, <1>6 DEF Slave

----------------------------------------------------------------------------
(* Types.                                                                  *)

LEMMA LifeTypes ==
    ASSUME NEW l \in Lives
    PROVE  /\ Accepting(l) \in Lives /\ Aborting(l) \in Lives
           /\ \A k : Notified(l, k) \subseteq Lives
           /\ l.new \in BOOLEAN /\ l.del \in BOOLEAN /\ l.io \in 0..MaxIo
           /\ l.phase \in {"idle", "accept", "open", "closing"}
           /\ l.pool \in {"none", "unused", "listen", "active"}
BY LifeAssumption DEF Lives, Accepting, Aborting, Notified

LEMMA ConsoleTypes ==
    ASSUME NEW k \in Console
    PROVE  /\ k.op \in {"get", "put"} /\ k.base \in 0..InputSize
           /\ k.used \in 0..ChunkSize /\ k.pass \in 0..ChunkSize
           /\ k.result \in 0..ChunkSize /\ k.taken \in 0..InputSize
           /\ k.out \in Seq(1..InputSize) /\ k.failed \in BOOLEAN
           /\ InputSize \in Nat /\ ChunkSize \in Nat \ {0}
BY ServerAssumption DEF Console

LEMMA TypeInit == Init => TypeOK
<1> SUFFICES ASSUME Init PROVE TypeOK
  OBVIOUS
<1>1. Unborn \in Lives
  BY LifeAssumption DEF Unborn, Lives
<1>2. life \in [Conns -> Lives]
  BY <1>1, LifeTypes DEF Init
<1>3. /\ port \in Seq(Notification) /\ queue \in Seq(Notification)
      /\ batch \in Seq(Notification)
  BY DEF Init
<1>4. job \in [Jobs -> JobStates]
  BY DEF Init, JobStates
<1>5. console \in Console
  BY ServerAssumption DEF Init, Console
<1>6. /\ backlog \in 0..MaxClients /\ arrived \in 0..MaxClients
      /\ held \subseteq Conns /\ event \in BOOLEAN /\ signal \in BOOLEAN
      /\ main \in {"process", "wait", "dispatch", "exited"}
      /\ alive \subseteq {"service", "control"}
      /\ fate \in {"fine", "broken", "stray"}
  <2>1. backlog = 0 /\ arrived = 0 /\ 0 \in 0..MaxClients
    BY ServerAssumption DEF Init
  <2> QED
    BY <2>1 DEF Init
<1> QED
  BY <1>2, <1>3, <1>4, <1>5, <1>6 DEF TypeOK

(* What a read takes.                                                      *)
LEMMA Gotten ==
    ASSUME console \in Console, NEW m \in Gets(console)
    PROVE  /\ m \in Console /\ m.op = console.op /\ m.out = console.out
           /\ m.used = console.used /\ m.pass = console.pass
           /\ m.base = console.taken /\ m.taken = m.base + m.result
           /\ m.result = 0 <=> console.taken = InputSize
<1> DEFINE k == console
<1>1. PICK n \in 0..ChunkSize :
         /\ m = [k EXCEPT !.result = n, !.base = k.taken, !.taken = @ + n]
         /\ n <= InputSize - k.taken /\ (n = 0 <=> InputSize - k.taken = 0)
  BY DEF Gets
<1>2. k.taken \in 0..InputSize /\ InputSize \in Nat
  BY ConsoleTypes
<1>3. k.taken + n \in 0..InputSize /\ (n = 0 <=> k.taken = InputSize)
  BY <1>1, <1>2
<1> QED
  BY <1>1, <1>2, <1>3 DEF Console

(* What a write appends.                                                   *)
LEMMA Written ==
    ASSUME console \in Console, ConsoleInv, console.op = "put",
           job["compute"] = "armed", NEW m \in Puts(console)
    PROVE  /\ m \in Console /\ m.op = "put" /\ m.used = console.used
           /\ m.pass = console.pass /\ m.base = console.base
           /\ m.taken = console.taken /\ m.failed = console.failed
           /\ m.result \in 0..(console.used - console.pass)
           /\ Len(m.out) = console.base + console.pass + m.result
           /\ \A i \in DOMAIN m.out : m.out[i] = i
<1> DEFINE k == console
           a == k.base + k.pass
<1>1. /\ k.used \in 0..ChunkSize /\ k.pass \in 0..ChunkSize /\ k.base \in 0..InputSize
      /\ k.taken \in 0..InputSize /\ k.out \in Seq(1..InputSize)
      /\ InputSize \in Nat /\ ChunkSize \in Nat
  BY ConsoleTypes
<1>0. k.pass < k.used /\ k.taken = k.base + k.used
  BY DEF ConsoleInv
<1>2. /\ Len(k.out) = a
      /\ \A i \in DOMAIN k.out : k.out[i] = i
  BY DEF ConsoleInv
<1>3. PICK n \in Nat :
         /\ n \in 0..(k.used - k.pass)
         /\ m = [k EXCEPT !.result = n, !.out = @ \o [i \in 1..n |-> k.base + k.pass + i]]
  <2>1. PICK n \in IF CanThrow THEN 0..(k.used - k.pass) ELSE {k.used - k.pass} :
           m = [k EXCEPT !.result = n, !.out = @ \o [i \in 1..n |-> k.base + k.pass + i]]
    BY DEF Puts
  <2>2. n \in 0..(k.used - k.pass) /\ n \in Nat
    BY <1>0, <1>1, <2>1
  <2> QED
    BY <2>1, <2>2
<1> DEFINE w == [i \in 1..n |-> k.base + k.pass + i]
<1>4. a \in Nat /\ a + n <= InputSize /\ n \in 0..ChunkSize
  BY <1>0, <1>1, <1>3
<1>5. w \in Seq(1..InputSize) /\ Len(w) = n /\ \A i \in 1..n : w[i] = a + i
  <2>1. \A i \in 1..n : a + i \in 1..InputSize
    BY <1>1, <1>4, SMTT(30)
  <2>2. w \in [1..n -> 1..InputSize] /\ \A i \in 1..n : w[i] = a + i
    BY <2>1
  <2>3. ASSUME NEW v \in [1..n -> 1..InputSize]
        PROVE  v \in Seq(1..InputSize) /\ Len(v) = n
    BY FunctionSeq
  <2> QED
    BY <2>2, <2>3
<1>6. /\ m.result = n /\ m.out = k.out \o w
      /\ m.op = k.op /\ m.used = k.used /\ m.pass = k.pass /\ m.base = k.base
      /\ m.taken = k.taken /\ m.failed = k.failed
      /\ m = [k EXCEPT !.result = n, !.out = m.out]
  BY <1>3 DEF Console
<1> HIDE DEF w, a
<1>7. /\ k.out \o w \in Seq(1..InputSize) /\ Len(k.out \o w) = a + n
      /\ DOMAIN (k.out \o w) = 1..(a + n)
      /\ \A i \in 1..(a + n) : (k.out \o w)[i] = IF i <= a THEN k.out[i] ELSE w[i - a]
  <2>1. Len(k.out) = a /\ k.out \in Seq(1..InputSize)
    BY <1>1, <1>2
  <2>2. w \in Seq(1..InputSize) /\ Len(w) = n
    BY <1>5
  <2>3. /\ k.out \o w \in Seq(1..InputSize) /\ Len(k.out \o w) = a + n
        /\ \A i \in 1..(a + n) : (k.out \o w)[i] = IF i <= a THEN k.out[i] ELSE w[i - a]
    BY <2>1, <2>2, ConcatProperties
  <2> QED
    BY <2>3
<1>8. ASSUME NEW i \in 1..(a + n)
      PROVE  (k.out \o w)[i] = i
  <2>1. CASE i <= a
    <3>1. i \in DOMAIN k.out
      BY <1>1, <1>2, <1>4, <2>1
    <3> QED
      BY <1>2, <1>7, <2>1, <3>1
  <2>2. CASE ~(i <= a)
    <3>1. i - a \in 1..n /\ a + (i - a) = i
      BY <1>3, <1>4, <2>2
    <3> QED
      BY <1>5, <1>7, <2>2, <3>1
  <2> QED
    BY <2>1, <2>2
<1>9. m \in Console
  BY <1>4, <1>6, <1>7 DEF Console
<1> QED
  BY <1>3, <1>6, <1>7, <1>8, <1>9 DEF a

LEMMA TypeStep == ServerInv /\ [Next]_vars => TypeOK'
<1> SUFFICES ASSUME TypeOK, LoopInv, JobsInv, ConsoleInv, RoomInv, [Next]_vars
             PROVE  TypeOK'
  BY DEF ServerInv
<1> USE DEF TypeOK, clientVars, taskVars, loopVars
<1>1. CASE UNCHANGED vars
  BY <1>1 DEF vars
<1>2. CASE Arrive
  BY <1>2, ServerAssumption DEF Arrive, RoomInv
<1>3. ASSUME NEW c \in Conns, Accept(c) PROVE TypeOK'
  BY <1>3, ServerAssumption DEF Accept
<1>4. ASSUME NEW n \in Notification, port' = Append(port, n)
      PROVE  port' \in Seq(Notification)
  BY <1>4
<1>5. ASSUME NEW c \in Conns, CompleteAccept(c) PROVE TypeOK'
  BY <1>4, <1>5, NoteFacts, KindFacts DEF CompleteAccept
<1>6. ASSUME NEW c \in Conns, NEW k \in Kinds, Complete(c, k) PROVE TypeOK'
  BY <1>4, <1>6, NoteFacts, KindFacts DEF Complete
<1>7. CASE SelectAccept
  BY <1>7 DEF SelectAccept
<1>8. ASSUME NEW j \in Jobs, Release(j) PROVE TypeOK'
  BY <1>8 DEF Release, JobStates
<1>9. ASSUME NEW j \in Jobs, ReportCompletion(j) PROVE TypeOK'
  BY <1>4, <1>9, NoteFacts, KindFacts DEF ReportCompletion, JobStates
<1>10. CASE Execute
  <2>1. job' \in [Jobs -> JobStates]
    BY <1>10 DEF Execute, JobStates
  <2>2. console' \in Console
    <3>1. CASE console' \in Gets(console)
      BY <3>1, Gotten
    <3>2. CASE console' \in Throws(console)
      <4>1. console' = [console EXCEPT !.result = 0, !.failed = TRUE]
        BY <3>2 DEF Throws
      <4>2. 0 \in 0..ChunkSize
        BY ConsoleTypes
      <4> QED
        BY <4>1, <4>2 DEF Console
    <3>3. CASE console.op = "put" /\ console' \in Puts(console)
      BY <1>10, <3>3, Written DEF Execute
    <3> QED
      BY <1>10, <3>1, <3>2, <3>3, ConsoleTypes DEF Execute
  <2> QED
    BY <1>10, <2>1, <2>2 DEF Execute
<1>11. CASE TakeNotification
  BY <1>11, HeadTailProperties DEF TakeNotification
<1>12. CASE NoNotification
  BY <1>12 DEF NoNotification
<1>13. CASE DispatchReturns
  BY <1>13 DEF DispatchReturns
<1>14. ASSUME NEW s \in {"service", "control"}, NEW n, Resumes(s, n)
       PROVE  /\ batch' \in Seq(Notification) /\ n \in Notification
              /\ UNCHANGED <<queue, main, arrived, backlog>>
  BY <1>14, TailSet DEF Resumes
<1>15. ASSUME NEW jobs \in [Jobs -> JobStates], LoopTest(jobs)
       PROVE  job' \in [Jobs -> JobStates] /\ alive' \subseteq alive
  BY <1>15 DEF LoopTest, JobStates
<1>16. ASSUME NEW s \in {"service", "control"}, NEW n, Stray(s, n) PROVE TypeOK'
  BY <1>14, <1>16 DEF Stray
<1>17. ASSUME NEW n, HandleConnection(n) PROVE TypeOK'
  <2>1. PICK l \in Notified(life[n.connection], n.kind) :
           life' = [life EXCEPT ![n.connection] = l]
    BY <1>17 DEF HandleConnection
  <2>2. n.connection \in Conns
    BY <1>17, Resumed DEF HandleConnection
  <2>3. l \in Lives
    BY <2>2, LifeTypes
  <2>4. life' \in [Conns -> Lives]
    BY <2>1, <2>3
  <2>5. job' \in [Jobs -> JobStates] /\ alive' \subseteq alive
    BY <1>15, <1>17 DEF HandleConnection
  <2> QED
    BY <1>14, <1>17, <2>4, <2>5 DEF HandleConnection
<1>18. ASSUME NEW n, HandleWatcher(n) PROVE TypeOK'
  <2>1. PICK late \in SUBSET Slow, c \in Candidates :
           IF late \subseteq held THEN Relisten(late, c)
           ELSE fate' = "broken" /\ UNCHANGED <<held, taskVars, port>>
    BY <1>18 DEF HandleWatcher
  <2>2. CASE Relisten(late, c)
    <3>1. life' \in [Conns -> Lives]
      BY <2>2, LifeTypes DEF Relisten
    <3>2. Rewatched \in [Jobs -> JobStates]
      BY DEF Rewatched, JobStates
    <3>3. job' \in [Jobs -> JobStates] /\ alive' \subseteq alive
      BY <1>15, <2>2, <3>2 DEF Relisten
    <3>4. port' \in Seq(Notification)
      <4>1. late \in SUBSET Conns /\ Null \in Conns \cup {Null} /\ "NEW" \in NoteKinds
        BY KindFacts DEF Slow
      <4>2. SetToSeq({Note(d, "NEW") : d \in late}) \in Seq(Notification)
        BY <4>1, CountAborted
      <4> QED
        BY <2>2, <4>2, ConcatProperties DEF Relisten
    <3> QED
      BY <1>14, <1>18, <2>2, <3>1, <3>3, <3>4 DEF HandleWatcher, Relisten
  <2> QED
    BY <1>14, <1>18, <2>1, <2>2 DEF HandleWatcher
<1>19. ASSUME NEW n, HandleShutdown(n) PROVE TypeOK'
  BY <1>14, <1>15, <1>19 DEF HandleShutdown
<1>20. ASSUME NEW n, GetReturns(n) PROVE TypeOK'
  <2>1. /\ job' \in [Jobs -> JobStates] /\ alive' \subseteq alive
        /\ signal' \in BOOLEAN
    BY <1>20 DEF GetReturns, Compute, JobStates
  <2>2. console' \in Console
    <3>1. \/ UNCHANGED console
          \/ console' = [console EXCEPT !.op = "put", !.used = console.result,
                                         !.pass = 0]
      BY <1>20 DEF GetReturns, Compute
    <3>2. console.result \in 0..ChunkSize /\ 0 \in 0..ChunkSize
      BY ConsoleTypes
    <3> QED
      BY <3>1, <3>2 DEF Console
  <2> QED
    BY <1>14, <1>20, <2>1, <2>2 DEF GetReturns
<1>21. ASSUME NEW n, PutReturns(n) PROVE TypeOK'
  <2>1. job["compute"] = "none" /\ "compute" \in Jobs
    BY <1>21, Resumed, KindFacts DEF PutReturns
  <2>2. console.pass + console.result <= console.used
    BY <1>21, <2>1 DEF PutReturns, ConsoleInv
  <2>3. console.pass + console.result \in 0..ChunkSize
    BY <2>2, ConsoleTypes
  <2>4. console' \in Console
    BY <1>21, <2>3, ConsoleTypes DEF PutReturns, Compute, Console
  <2>5. job' \in [Jobs -> JobStates] /\ UNCHANGED <<signal, alive>>
    BY <1>21 DEF PutReturns, Compute, JobStates
  <2> QED
    BY <1>14, <1>21, <2>4, <2>5 DEF PutReturns
<1> QED
  BY <1>1, <1>2, <1>3, <1>5, <1>6, <1>7, <1>8, <1>9, <1>10, <1>11, <1>12,
     <1>13, <1>16, <1>17, <1>18, <1>19, <1>20, <1>21
     DEF Next, Kernel, Pool, Loop, Tasks

----------------------------------------------------------------------------
(* What the steps do to the numbers of notifications.                      *)

LEMMA Moved ==
    ASSUME TypeOK, TypeOK', LoopInv,
           \/ TakeNotification \/ NoNotification \/ UNCHANGED <<port, queue, batch>>
    PROVE  \A c \in Conns \cup {Null}, k \in NoteKinds : Count(c, k)' = Count(c, k)
<1>1. CASE TakeNotification
  BY <1>1, CountTaken DEF TakeNotification
<1>2. CASE NoNotification
  <2>1. batch = <<>>
    BY <1>2 DEF NoNotification, LoopInv
  <2> QED
    BY <1>2, <2>1, CountStolen DEF NoNotification
<1> QED
  BY <1>1, <1>2, CountStays

LEMMA Posted ==
    ASSUME TypeOK, TypeOK', NEW d \in Conns \cup {Null}, NEW e \in NoteKinds,
           port' = Append(port, Note(d, e)), UNCHANGED <<queue, batch>>
    PROVE  \A c \in Conns \cup {Null}, k \in NoteKinds :
               Count(c, k)' = Count(c, k) + IF c = d /\ k = e THEN 1 ELSE 0
<1> SUFFICES ASSUME NEW c \in Conns \cup {Null}, NEW k \in NoteKinds
             PROVE  Count(c, k)' = Count(c, k) + IF c = d /\ k = e THEN 1 ELSE 0
  OBVIOUS
<1>1. Note(d, e) \in Notification /\ (Note(d, e) = Note(c, k) <=> c = d /\ k = e)
  <2>1. /\ Note(d, e) \in Notification
        /\ Note(d, e).connection = d /\ Note(d, e).kind = e
    BY NoteFacts
  <2> QED
    BY <2>1, NoteFacts
<1>2. Count(c, k)' = Count(c, k) + IF Note(d, e) = Note(c, k) THEN 1 ELSE 0
  BY <1>1, CountPosted
<1> QED
  BY <1>1, <1>2

LEMMA Consumed ==
    ASSUME TypeOK, TypeOK', LoopInv, JobsInv,
           NEW s \in {"service", "control"}, NEW n, Resumes(s, n), UNCHANGED port
    PROVE  \A c \in Conns \cup {Null}, k \in NoteKinds :
               /\ Count(c, k) \in Nat /\ Count(c, k)' \in Nat
               /\ Count(c, k)' + (IF c = n.connection /\ k = n.kind THEN 1 ELSE 0)
                     = Count(c, k)
<1> SUFFICES ASSUME NEW c \in Conns \cup {Null}, NEW k \in NoteKinds
             PROVE  /\ Count(c, k) \in Nat /\ Count(c, k)' \in Nat
                    /\ Count(c, k)' + (IF c = n.connection /\ k = n.kind THEN 1 ELSE 0)
                          = Count(c, k)
  OBVIOUS
<1>1. /\ n = Head(batch) /\ n \in Notification
      /\ batch # <<>> /\ batch' = Tail(batch) /\ UNCHANGED queue
  BY Resumed DEF Resumes
<1>2. Head(batch) = Note(c, k) <=> c = n.connection /\ k = n.kind
  BY <1>1, NoteFacts
<1>3. Count(c, k)' + (IF Head(batch) = Note(c, k) THEN 1 ELSE 0) = Count(c, k)
  BY <1>1, CountLess
<1>4. Count(c, k) \in Nat /\ Count(c, k)' \in Nat
  BY Counts, CountsNext DEF CountFacts
<1> QED
  BY <1>2, <1>3, <1>4

(* The service task aborts accepts, each of which is notified.             *)
LEMMA Aborted ==
    ASSUME TypeOK, TypeOK', LoopInv, JobsInv,
           NEW n, HandleWatcher(n), NEW late \in SUBSET Conns, NEW d, Relisten(late, d)
    PROVE  \A c \in Conns \cup {Null}, k \in NoteKinds :
               Count(c, k)' = IF c = Null /\ k = "accept_watcher" THEN 0
                              ELSE IF c \in late /\ k = "NEW" THEN Count(c, k) + 1
                              ELSE Count(c, k)
<1> SUFFICES ASSUME NEW c \in Conns \cup {Null}, NEW k \in NoteKinds
             PROVE  Count(c, k)' = IF c = Null /\ k = "accept_watcher" THEN 0
                                   ELSE IF c \in late /\ k = "NEW" THEN Count(c, k) + 1
                                   ELSE Count(c, k)
  OBVIOUS
<1> DEFINE q == SetToSeq({Note(e, "NEW") : e \in late})
<1>1. /\ n = Head(batch) /\ n \in Notification /\ n.kind = "accept_watcher"
      /\ batch # <<>> /\ batch' = Tail(batch) /\ UNCHANGED queue
      /\ Count(Null, "accept_watcher") > 0 /\ n.connection = Null
      /\ job["accept_watcher"] = "none"
  BY Resumed, KindFacts DEF Resumes, HandleWatcher
<1>2. q \in Seq(Notification)
  BY CountAborted
<1>3. Of(c, k, q) = IF k = "NEW" /\ c \in late THEN 1 ELSE 0
  BY CountAborted
<1>4. port' = port \o q
  BY DEF Relisten
<1> HIDE DEF q
<1>5. Count(c, k)' + (IF Head(batch) = Note(c, k) THEN 1 ELSE 0)
        = Count(c, k) + Of(c, k, q)
  BY <1>1, <1>2, <1>4, CountResumed
<1>6. Head(batch) = Note(c, k) <=> c = Null /\ k = "accept_watcher"
  BY <1>1, NoteFacts
<1>7. Count(c, k) \in Nat /\ Count(c, k)' \in Nat
  BY Counts, CountsNext DEF CountFacts
<1>8. Null \notin late /\ "NEW" # "accept_watcher"
  BY ServerAssumption
<1>9. CASE c = Null /\ k = "accept_watcher"
  <2>1. Coming("accept_watcher") <= 1
    BY KindFacts DEF JobsInv
  <2>2. Count(c, k) = 1
    BY <1>1, <1>7, <1>9, <2>1 DEF Coming
  <2> QED
    BY <1>3, <1>5, <1>6, <1>7, <1>8, <1>9, <2>2
<1>10. CASE ~(c = Null /\ k = "accept_watcher")
  BY <1>3, <1>5, <1>6, <1>7, <1>10
<1> QED
  BY <1>9, <1>10

----------------------------------------------------------------------------
(* The parts of the invariant, each preserved by every step.               *)

LEMMA LoopKept ==
    ASSUME ServerInv, TypeOK', [Next]_vars
    PROVE  LoopInv'
<1> USE DEF ServerInv
<1> DEFINE All == ToSet(port) \cup ToSet(queue) \cup ToSet(batch)
           Named(n) == n.kind \in Kinds <=> n.connection # Null
<1>a. /\ port \in Seq(Notification) /\ queue \in Seq(Notification)
      /\ batch \in Seq(Notification)
      /\ \A n \in All : Named(n)
      /\ main # "dispatch" => batch = <<>>
  BY DEF TypeOK, LoopInv
<1>b. ASSUME NEW c \in Conns \cup {Null}, NEW k \in NoteKinds,
             c = Null <=> k \in Jobs,
             port' = Append(port, Note(c, k)), UNCHANGED <<queue, batch, main>>
      PROVE  LoopInv'
  <2>1. Named(Note(c, k)) /\ Note(c, k) \in Notification
    BY <1>b, NoteFacts DEF NoteKinds, Kinds, Jobs
  <2>2. ToSet(port') = ToSet(port) \cup {Note(c, k)}
    BY <1>a, <1>b, <2>1, AppendSet
  <2> QED
    BY <1>a, <1>b, <2>1, <2>2 DEF LoopInv
<1>c. ASSUME NEW s, NEW n, Resumes(s, n)
      PROVE  /\ ToSet(batch') \subseteq ToSet(batch)
             /\ UNCHANGED <<queue, main>> /\ main = "dispatch"
  BY <1>a, <1>c, TailSet DEF Resumes
<1>1. CASE UNCHANGED <<port, queue, batch, main>>
  BY <1>1, <1>a DEF LoopInv
<1>2. ASSUME NEW c \in Conns, CompleteAccept(c) PROVE LoopInv'
  BY <1>2, <1>b, KindFacts, ServerAssumption DEF CompleteAccept, loopVars, Kinds
<1>3. ASSUME NEW c \in Conns, NEW k \in Kinds, Complete(c, k) PROVE LoopInv'
  BY <1>3, <1>b, KindFacts, ServerAssumption DEF Complete, loopVars
<1>4. ASSUME NEW j \in Jobs, ReportCompletion(j) PROVE LoopInv'
  BY <1>4, <1>b, KindFacts, ServerAssumption DEF ReportCompletion, loopVars
<1>5. CASE TakeNotification
  <2>1. /\ Head(port) \in Notification
        /\ ToSet(port) = {Head(port)} \cup ToSet(port')
        /\ ToSet(queue') = ToSet(queue) \cup {Head(port)}
    BY <1>5, <1>a, TailSet, AppendSet DEF TakeNotification
  <2> QED
    BY <1>5, <1>a, <2>1 DEF TakeNotification, LoopInv
<1>6. CASE NoNotification
  <2>1. /\ ToSet(batch') = ToSet(queue) /\ ToSet(queue') = {} /\ ToSet(port') = ToSet(port)
        /\ main' # "dispatch" => batch' = <<>>
    BY <1>6, EmptySet DEF NoNotification
  <2> QED
    BY <1>a, <2>1 DEF LoopInv
<1>7. CASE DispatchReturns
  BY <1>7, <1>a DEF DispatchReturns, LoopInv
<1>8. ASSUME NEW s, NEW n, Resumes(s, n), UNCHANGED port PROVE LoopInv'
  BY <1>8, <1>a, <1>c DEF LoopInv
<1>9. ASSUME NEW n, HandleWatcher(n) PROVE LoopInv'
  <2>1. PICK late \in SUBSET Slow, c \in Candidates :
           IF late \subseteq held THEN Relisten(late, c)
           ELSE fate' = "broken" /\ UNCHANGED <<held, taskVars, port>>
    BY <1>9 DEF HandleWatcher
  <2>2. CASE Relisten(late, c)
    <3> DEFINE q == SetToSeq({Note(d, "NEW") : d \in late})
    <3>1. late \in SUBSET Conns /\ Null \in Conns \cup {Null} /\ "NEW" \in NoteKinds
      BY KindFacts DEF Slow
    <3>2. /\ q \in Seq(Notification)
          /\ \A m \in ToSet(q) : m.kind = "NEW" /\ m.connection \in late
      BY <3>1, CountAborted
    <3>3. \A m \in ToSet(q) : Named(m)
      BY <3>1, <3>2, ServerAssumption DEF Kinds
    <3>4. port' = port \o q
      BY <2>2 DEF Relisten
    <3> HIDE DEF q
    <3>5. ToSet(port') = ToSet(port) \cup ToSet(q)
      BY <1>a, <3>2, <3>4, ConcatSet
    <3>6. Resumes("service", n)
      BY <1>9 DEF HandleWatcher
    <3>7. /\ ToSet(batch') \subseteq ToSet(batch) /\ UNCHANGED <<queue, main>>
          /\ main = "dispatch"
      BY <3>6, <1>c
    <3> QED
      BY <1>a, <3>3, <3>5, <3>7 DEF LoopInv
  <2> QED
    BY <1>8, <1>9, <2>1, <2>2 DEF HandleWatcher
<1>10. ASSUME NEW n, \/ HandleConnection(n) \/ HandleShutdown(n) \/ GetReturns(n)
                     \/ PutReturns(n) \/ Stray("service", n) \/ Stray("control", n)
       PROVE  LoopInv'
  BY <1>8, <1>10
     DEF HandleConnection, HandleShutdown, GetReturns, PutReturns, Stray
<1>11. CASE \/ Arrive \/ SelectAccept \/ Execute \/ UNCHANGED vars
            \/ \E c \in Conns : Accept(c)
            \/ \E j \in Jobs : Release(j)
  BY <1>1, <1>11
     DEF Arrive, SelectAccept, Execute, Accept, Release, vars, loopVars
<1> QED
  BY <1>2, <1>3, <1>4, <1>5, <1>6, <1>7, <1>9, <1>10, <1>11
     DEF Next, Kernel, Pool, Loop, Tasks

(* When the watcher has fired there is a connection to accept with.        *)
LEMMA Candidate ==
    ASSUME ServerInv, NEW n, HandleWatcher(n), NEW c \in Candidates
    PROVE  /\ c \in Conns /\ life[c].pool \in {"none", "unused"}
           /\ life[c].phase = "idle" /\ ~Outstanding(life[c])
           /\ event /\ backlog > 0 /\ Listening = {}
           /\ job["shutdown_wait"] = "armed" \/ signal
<1> USE DEF ServerInv
<1>1. /\ fate = "fine" /\ "service" \in alive
      /\ Count(Null, "accept_watcher") > 0
  <2>1. Resumes("service", n)
    BY DEF HandleWatcher
  <2> QED
    BY <2>1, Resumed, KindFacts DEF HandleWatcher, Resumes, Up
<1>2. event /\ backlog > 0 /\ Listening = {}
  BY <1>1 DEF EventInv
<1>3. \E d \in Conns : life[d].pool = "none"
  <2>1. Cardinality(Made) + backlog <= arrived + Cardinality(Listening)
    BY <1>1 DEF RoomInv
  <2>2. Cardinality(Listening) = 0
    BY <1>2, FS_EmptySet
  <2>3. Made \subseteq Conns /\ IsFiniteSet(Made) /\ Cardinality(Made) \in Nat
    BY ServerAssumption, FS_Subset, FS_CardinalityType DEF Made
  <2>4. Cardinality(Conns) \in Nat
    BY ServerAssumption, FS_CardinalityType
  <2>5. Cardinality(Made) < Cardinality(Conns)
    BY <1>2, <2>1, <2>2, <2>3, <2>4, ServerAssumption DEF TypeOK
  <2>6. Made # Conns
    BY <2>3, <2>4, <2>5
  <2> QED
    BY <2>3, <2>6 DEF Made
<1>4. c \in Conns /\ life[c].pool \in {"none", "unused"}
  <2>1. CASE Unused # {}
    BY <2>1 DEF Candidates, Unused
  <2>2. CASE Unused = {}
    <3>1. c = CHOOSE d \in Conns : life[d].pool = "none"
      BY <2>2 DEF Candidates
    <3> QED
      BY <1>3, <3>1
  <2> QED
    BY <2>1, <2>2
<1>5. life[c].phase = "idle" /\ ~Outstanding(life[c])
  <2>1. life[c].phase \in {"idle", "accept", "open", "closing"}
    BY <1>4, LifeTypes DEF TypeOK
  <2> QED
    BY <1>4, <2>1 DEF LifeInv, Sound
<1>6. job["shutdown_wait"] = "armed" \/ signal
  BY DEF EndInv
<1> QED
  BY <1>1, <1>2, <1>4, <1>5, <1>6

LEMMA AwaitedKinds ==
    ASSUME NEW l, NEW k \in Awaited(l)
    PROVE  \/ k = "NEW" /\ l.new
           \/ k = "IO" /\ l.io > 0
           \/ k = "DEL" /\ l.del
BY DEF Awaited, Kinds

(* What a connection makes of a notification that it waits for.            *)
LEMMA NotifiedSound ==
    ASSUME NEW l \in Lives, Sound(l), NEW k \in Awaited(l), NEW m \in Notified(l, k)
    PROVE  /\ Sound(m) /\ m \in Lives
           /\ m.new = (l.new /\ k # "NEW")
           /\ m.del \/ ~l.del \/ k = "DEL"
           /\ l.pool # "none" /\ m.pool # "none"
<1>1. /\ l.phase \in {"idle", "accept", "open", "closing"}
      /\ m.phase \in {"idle", "accept", "open", "closing"}
      /\ l.io \in Nat /\ m.io \in Nat
      /\ l.new \in BOOLEAN /\ l.del \in BOOLEAN /\ m \in Lives
      /\ m.new \in BOOLEAN /\ m.del \in BOOLEAN
  BY LifeAssumption DEF Notified, Lives
<1>2. /\ m.new = (l.new /\ k # "NEW") /\ Handled(l, m)
      /\ m.pool = PoolAfter(l, m.phase)
  BY DEF Notified
<1>7. \/ k = "NEW" /\ l.new
      \/ k = "IO" /\ l.io > 0
      \/ k = "DEL" /\ l.del
  BY AwaitedKinds
<1>3. CASE l.phase = "idle"
  BY <1>1, <1>3, <1>7 DEF Sound, Outstanding
<1>4. CASE l.phase = "accept"
  <2>1. k = "NEW"
    BY <1>1, <1>4, <1>7 DEF Sound
  <2> QED
    BY <1>1, <1>2, <1>4, <2>1 DEF Sound, Outstanding, Handled, PoolAfter, connected
<1>5. CASE l.phase = "open"
  BY <1>1, <1>2, <1>5 DEF Sound, Outstanding, Awaited, Handled, PoolAfter, connected
<1>6. CASE l.phase = "closing"
  <2>1. m.del = (l.del /\ k # "DEL")
    BY <1>6 DEF Notified
  <2> QED
    BY <1>1, <1>2, <1>6, <2>1 DEF Sound, Outstanding, Handled, PoolAfter, connected
<1> QED
  BY <1>1, <1>3, <1>4, <1>5, <1>6

(* A connection takes a notification that it awaits, and no other          *)
(* connection is touched.                                                  *)
LEMMA Taken ==
    ASSUME ServerInv, TypeOK', NEW n, HandleConnection(n)
    PROVE  \E c \in Conns, k \in Kinds :
               /\ k \in Awaited(life[c]) /\ Count(c, k) > 0 /\ c \notin held
               /\ \E m \in Notified(life[c], k) :
                      /\ life' = [life EXCEPT ![c] = m]
                      /\ m.io >= Count(c, "IO")'
               /\ \A d \in Conns \cup {Null}, e \in NoteKinds :
                      Count(d, e)' = Count(d, e) - IF d = c /\ e = k THEN 1 ELSE 0
<1> USE DEF ServerInv
<1>1. Resumes("service", n) /\ UNCHANGED port /\ n.kind \in Kinds
  BY DEF HandleConnection
<1>2. n.connection \in Conns /\ Count(n.connection, n.kind) > 0
  BY <1>1, Resumed
<1> DEFINE c == n.connection
           k == n.kind
<1>3. \A d \in Conns \cup {Null}, e \in NoteKinds :
          /\ Count(d, e) \in Nat /\ Count(d, e)' \in Nat
          /\ Count(d, e)' + (IF d = c /\ e = k THEN 1 ELSE 0) = Count(d, e)
  BY <1>1, Consumed
<1>4. \A d \in Conns \cup {Null}, e \in NoteKinds :
          Count(d, e)' = Count(d, e) - IF d = c /\ e = k THEN 1 ELSE 0
  <2> SUFFICES ASSUME NEW d \in Conns \cup {Null}, NEW e \in NoteKinds
               PROVE  Count(d, e)' = Count(d, e) - IF d = c /\ e = k THEN 1 ELSE 0
    OBVIOUS
  <2>1. CASE d = c /\ e = k
    BY <1>3, <2>1
  <2>2. CASE ~(d = c /\ e = k)
    BY <1>3, <2>2
  <2> QED
    BY <2>1, <2>2
<1>5. /\ "NEW" \in NoteKinds /\ "IO" \in NoteKinds /\ "DEL" \in NoteKinds
      /\ k \in {"NEW", "IO", "DEL"} /\ c \in Conns \cup {Null}
  BY <1>1, <1>2, KindFacts DEF Kinds
<1>6. /\ Count(c, "NEW") <= IF life[c].new THEN 1 ELSE 0
      /\ Count(c, "DEL") <= IF life[c].del THEN 1 ELSE 0
      /\ Count(c, "IO") <= life[c].io
      /\ life[c] \in Lives /\ life[c].io \in Nat
      /\ Sound(life[c])
  BY <1>2, LifeAssumption DEF NotificationsAreAwaited, LifeInv, TypeOK, Lives
<1>7. k = "NEW" => life[c].new
  BY <1>2, <1>3, <1>5, <1>6
<1>8. k = "DEL" => life[c].del
  BY <1>2, <1>3, <1>5, <1>6
<1>9. k = "IO" => life[c].io > 0
  BY <1>2, <1>3, <1>5, <1>6
<1>10. k \in Awaited(life[c])
  BY <1>1, <1>5, <1>7, <1>8, <1>9 DEF Awaited
<1>11. c \notin held
  <2> SUFFICES ASSUME c \in held PROVE FALSE
    OBVIOUS
  <2>1. life[c].phase = "accept" /\ Count(c, "NEW") = 0
    BY DEF HeldInv
  <2>2. ~life[c].del /\ life[c].io = 0
    BY <1>6, <2>1 DEF Sound
  <2> QED
    BY <1>2, <1>5, <1>8, <1>9, <2>1, <2>2
<1>12. PICK m \in Notified(life[c], k) :
          /\ m.io >= Count(c, "IO") - IF k = "IO" THEN 1 ELSE 0
          /\ life' = [life EXCEPT ![c] = m]
  BY DEF HandleConnection
<1>13. m.io >= Count(c, "IO")'
  BY <1>4, <1>5, <1>12
<1> QED
  BY <1>1, <1>2, <1>4, <1>10, <1>11, <1>12, <1>13

(* The service task after the watcher: connection c accepts, and the       *)
(* accepts in late are aborted.                                            *)
LEMMA Relistened ==
    ASSUME ServerInv, TypeOK', NEW n, HandleWatcher(n), fate' # "broken"
    PROVE  \E late \in SUBSET held, c \in Candidates :
               /\ Relisten(late, c) /\ c \notin held
               /\ \A d \in Conns \cup {Null}, e \in NoteKinds :
                      Count(d, e)' = IF d = Null /\ e = "accept_watcher" THEN 0
                                     ELSE IF d \in late /\ e = "NEW" THEN 1
                                     ELSE Count(d, e)
<1> USE DEF ServerInv
<1>1. PICK late \in SUBSET Slow, c \in Candidates :
         late \subseteq held /\ Relisten(late, c)
  BY DEF HandleWatcher
<1>2. late \in SUBSET Conns
  BY DEF Slow
<1>3. \A d \in Conns \cup {Null}, e \in NoteKinds :
          Count(d, e)' = IF d = Null /\ e = "accept_watcher" THEN 0
                         ELSE IF d \in late /\ e = "NEW" THEN Count(d, e) + 1
                         ELSE Count(d, e)
  BY <1>1, <1>2, Aborted
<1>4. \A d \in held : Count(d, "NEW") = 0 /\ life[d].phase = "accept"
  BY DEF HeldInv
<1>5. c \notin held
  BY <1>4, Candidate
<1> QED
  BY <1>1, <1>3, <1>4, <1>5

LEMMA LifeKept ==
    ASSUME ServerInv, TypeOK', [Next]_vars
    PROVE  LifeInv'
<1> USE DEF ServerInv
<1>1. CASE UNCHANGED life
  BY <1>1 DEF LifeInv
<1>2. ASSUME NEW n, HandleConnection(n) PROVE LifeInv'
  <2>1. PICK c \in Conns, k \in Kinds :
           /\ k \in Awaited(life[c])
           /\ \E m \in Notified(life[c], k) : life' = [life EXCEPT ![c] = m]
    BY <1>2, Taken
  <2>2. PICK m \in Notified(life[c], k) : life' = [life EXCEPT ![c] = m]
    BY <2>1
  <2>3. Sound(m)
    BY <2>1, <2>2, NotifiedSound DEF TypeOK, LifeInv
  <2> QED
    BY <2>2, <2>3 DEF LifeInv, TypeOK
<1>3. ASSUME NEW n, HandleWatcher(n) PROVE LifeInv'
  <2>1. CASE fate' # "broken"
    <3>1. PICK late \in SUBSET held, c \in Candidates : Relisten(late, c)
      BY <1>3, <2>1, Relistened
    <3>2. life[c].phase = "idle" /\ ~Outstanding(life[c])
      BY <1>3, Candidate
    <3> SUFFICES ASSUME NEW d \in Conns PROVE Sound(life'[d])
      BY DEF LifeInv
    <3>3. life[d] \in Lives /\ Sound(life[d])
      BY DEF TypeOK, LifeInv
    <3>4. CASE d = c
      <4>1. life'[d] = Accepting(life[d])
        BY <3>1, <3>4 DEF Relisten
      <4> QED
        BY <3>2, <3>3, <3>4, <4>1, LifeAssumption DEF Sound, Outstanding, Accepting, Lives
    <3>5. CASE d # c /\ d \in late
      <4>1. life'[d] = Aborting(life[d]) /\ life[d].phase = "accept"
        BY <3>1, <3>5 DEF Relisten, HeldInv
      <4> QED
        BY <3>3, <4>1 DEF Sound, Outstanding, Aborting, Lives
    <3>6. CASE d # c /\ d \notin late
      <4>1. life'[d] = life[d]
        BY <3>1, <3>6 DEF Relisten
      <4> QED
        BY <3>3, <4>1
    <3> QED
      BY <3>4, <3>5, <3>6
  <2>2. CASE fate' = "broken"
    BY <1>1, <1>3, <2>2 DEF HandleWatcher, Relisten, Resumes, Up, taskVars
  <2> QED
    BY <2>1, <2>2
<1>4. ASSUME NEW n, \/ HandleShutdown(n) \/ GetReturns(n) \/ PutReturns(n)
                    \/ Stray("service", n) \/ Stray("control", n)
      PROVE  UNCHANGED life
  BY <1>4 DEF HandleShutdown, GetReturns, PutReturns, Stray, taskVars
<1>5. CASE Kernel \/ Pool \/ Loop \/ UNCHANGED vars
  BY <1>1, <1>5 DEF Kernel, Arrive, SelectAccept, Accept, CompleteAccept, Complete,
       Pool, Execute, Release, ReportCompletion, Loop, TakeNotification,
       NoNotification, DispatchReturns, taskVars, vars
<1>6. CASE Tasks
  <2>1. PICK n : \/ HandleConnection(n) \/ HandleWatcher(n) \/ HandleShutdown(n)
                 \/ GetReturns(n) \/ PutReturns(n)
                 \/ Stray("service", n) \/ Stray("control", n)
    BY <1>6 DEF Tasks
  <2> QED
    BY <1>1, <1>2, <1>3, <1>4, <2>1
<1> QED
  BY <1>1, <1>5, <1>6 DEF Next

(* What the invariant says of the notifications of connection c.           *)
Right(c) ==
    /\ Count(c, "NEW") <= IF life[c].new THEN 1 ELSE 0
    /\ Count(c, "DEL") <= IF life[c].del THEN 1 ELSE 0
    /\ Count(c, "IO") <= life[c].io
    /\ c \in held => life[c].phase = "accept" /\ Count(c, "NEW") = 0
    /\ fate = "fine" /\ life[c].phase = "closing" /\ life[c].new => Count(c, "NEW") = 1

Same(c) ==
    /\ life'[c] = life[c] /\ (c \in held' => c \in held)
    /\ fate' = "fine" => fate = "fine"
    /\ \A k \in Kinds : Count(c, k)' = Count(c, k)

LEMMA AwaitedKept ==
    ASSUME ServerInv, TypeOK', [Next]_vars
    PROVE  NotificationsAreAwaited' /\ HeldInv'
<1> USE DEF ServerInv
<1> DEFINE Goal == NotificationsAreAwaited' /\ HeldInv'
<1>a. ASSUME NEW c \in Conns
      PROVE  /\ Right(c) /\ Sound(life[c]) /\ life[c] \in Lives
             /\ \A k \in Kinds : Count(c, k) \in Nat
  BY Counts, KindFacts DEF NotificationsAreAwaited, HeldInv, LifeInv, TypeOK, CountFacts, Right
<1>b. (\A c \in Conns : Right(c)') => Goal
  BY DEF NotificationsAreAwaited, HeldInv, TypeOK, Right
<1>c. ASSUME NEW c \in Conns, Same(c) PROVE Right(c)'
  BY <1>a, <1>c DEF Kinds, Right, Same
<1> HIDE DEF Goal
<1>1. ASSUME UNCHANGED <<life, fate>>, held' \subseteq held,
             \A c \in Conns, k \in Kinds : Count(c, k)' = Count(c, k)
      PROVE  Goal
  <2>1. \A c \in Conns : Same(c)
    BY <1>1 DEF Same
  <2>2. \A c \in Conns : Right(c)'
    BY <2>1, <1>c
  <2> QED
    BY <2>2, <1>b
<1>2. ASSUME \/ TakeNotification \/ NoNotification \/ DispatchReturns
             \/ Arrive \/ SelectAccept \/ Execute \/ (\E j \in Jobs : Release(j))
             \/ UNCHANGED vars
      PROVE  Goal
  <2>1. UNCHANGED <<life, held, fate>>
    BY <1>2 DEF TakeNotification, NoNotification, DispatchReturns, Arrive,
         SelectAccept, Execute, Release, clientVars, taskVars, vars
  <2>2. TakeNotification \/ NoNotification \/ UNCHANGED <<port, queue, batch>>
    BY <1>2 DEF DispatchReturns, Arrive, SelectAccept, Execute, Release,
         loopVars, vars
  <2>3. \A c \in Conns, k \in Kinds : Count(c, k)' = Count(c, k)
    BY <2>2, Moved, KindFacts
  <2> QED
    BY <1>1, <2>1, <2>3
<1>3. ASSUME NEW j \in Jobs, ReportCompletion(j) PROVE Goal
  <2>1. \A c \in Conns \cup {Null}, k \in NoteKinds :
           Count(c, k)' = Count(c, k) + IF c = Null /\ k = j THEN 1 ELSE 0
    <3>1. /\ port' = Append(port, Note(Null, j)) /\ UNCHANGED <<queue, batch>>
          /\ j \in NoteKinds /\ Null \in Conns \cup {Null}
      BY <1>3, KindFacts DEF ReportCompletion, loopVars
    <3> QED
      BY <3>1, Posted
  <2>2. \A c \in Conns, k \in Kinds : Count(c, k)' = Count(c, k)
    <3> SUFFICES ASSUME NEW c \in Conns, NEW k \in Kinds
                 PROVE  Count(c, k)' = Count(c, k)
      OBVIOUS
    <3>1. c # Null /\ k \in NoteKinds /\ Count(c, k) \in Nat
      BY <1>a, KindFacts, ServerAssumption
    <3> QED
      BY <2>1, <3>1
  <2>3. UNCHANGED <<life, held, fate>>
    BY <1>3 DEF ReportCompletion, clientVars
  <2> QED
    BY <1>1, <2>2, <2>3
<1>4. ASSUME NEW c \in Conns, Accept(c) PROVE Goal
  <2>1. /\ UNCHANGED <<life, fate, port, queue, batch>> /\ held' = held \cup {c}
        /\ life[c].new /\ Count(c, "NEW") = 0 /\ fate = "fine"
    BY <1>4 DEF Accept, Listening, Pending, taskVars, loopVars, Up
  <2>2. \A d \in Conns, k \in Kinds : Count(d, k)' = Count(d, k)
    BY <2>1, CountStays
  <2>3. ASSUME NEW d \in Conns \ {c} PROVE Right(d)'
    BY <1>c, <2>1, <2>2, <2>3 DEF Same
  <2>4. life[c].phase = "accept"
    <3>1. life[c].phase \in {"idle", "accept", "open", "closing"}
      BY <1>a, LifeTypes
    <3>2. life[c].phase # "idle" /\ life[c].phase # "open"
      BY <1>a, <2>1 DEF Sound, Outstanding
    <3>3. life[c].phase # "closing"
      BY <1>a, <2>1 DEF Right
    <3> QED
      BY <3>1, <3>2, <3>3
  <2>5. Right(c)'
    BY <1>a, <2>1, <2>2, <2>4 DEF Right, Kinds
  <2> QED
    BY <1>b, <2>3, <2>5
<1>5. ASSUME NEW c \in Conns, NEW e \in Kinds,
             (CompleteAccept(c) /\ e = "NEW") \/ Complete(c, e)
      PROVE  Goal
  <2>1. /\ UNCHANGED <<life, fate, queue, batch>> /\ held' \subseteq held
        /\ port' = Append(port, Note(c, e))
        /\ e = "NEW" => c \in held /\ c \notin held'
        /\ e # "NEW" => Pending(c, e)
    BY <1>5 DEF CompleteAccept, Complete, clientVars, taskVars, loopVars
  <2>2. \A d \in Conns \cup {Null}, k \in NoteKinds :
           Count(d, k)' = Count(d, k) + IF d = c /\ k = e THEN 1 ELSE 0
    BY <2>1, Posted, KindFacts
  <2>3. ASSUME NEW d \in Conns \ {c} PROVE Right(d)'
    <3>1. \A k \in Kinds : Count(d, k)' = Count(d, k)
      <4> SUFFICES ASSUME NEW k \in Kinds PROVE Count(d, k)' = Count(d, k)
        OBVIOUS
      <4>1. d # c /\ k \in NoteKinds /\ Count(d, k) \in Nat
        BY <1>a, <2>3, KindFacts
      <4> QED
        BY <2>2, <4>1
    <3> QED
      BY <1>c, <2>1, <3>1 DEF Same
  <2>4. /\ Count(c, "NEW")' = Count(c, "NEW") + IF e = "NEW" THEN 1 ELSE 0
        /\ Count(c, "DEL")' = Count(c, "DEL") + IF e = "DEL" THEN 1 ELSE 0
        /\ Count(c, "IO")' = Count(c, "IO") + IF e = "IO" THEN 1 ELSE 0
        /\ Count(c, "NEW") \in Nat /\ Count(c, "DEL") \in Nat /\ Count(c, "IO") \in Nat
    BY <1>a, <2>2, KindFacts DEF Kinds
  <2>5. Right(c) /\ life'[c] = life[c] /\ life[c].io \in Nat
    BY <1>a, <2>1, LifeAssumption DEF Lives
  <2>6. CASE e = "NEW"
    <3>1. life[c].phase = "accept" /\ Count(c, "NEW") = 0 /\ life[c].new
      BY <1>a, <2>1, <2>6 DEF Right, Sound
    <3> QED
      <4>1. Right(c)'
        BY <2>1, <2>4, <2>5, <2>6, <3>1 DEF Right
      <4> QED
        BY <1>b, <2>3, <4>1
  <2>7. CASE e = "DEL"
    <3>1. life[c].del /\ Count(c, "DEL") = 0
      BY <2>1, <2>7 DEF Pending
    <3>2. /\ Count(c, "NEW")' = Count(c, "NEW") /\ Count(c, "IO")' = Count(c, "IO")
          /\ Count(c, "DEL")' = 1
      BY <2>4, <2>7, <3>1
    <3>3. Right(c)'
      BY <2>1, <2>5, <3>1, <3>2 DEF Right
    <3> QED
      BY <1>b, <2>3, <3>3
  <2>8. CASE e = "IO"
    <3>1. life[c].io > Count(c, "IO")
      BY <2>1, <2>8 DEF Pending
    <3>2. Right(c)'
      BY <2>1, <2>4, <2>5, <2>8, <3>1 DEF Right
    <3> QED
      BY <1>b, <2>3, <3>2
  <2> QED
    BY <2>6, <2>7, <2>8 DEF Kinds
<1>6. ASSUME NEW n, HandleConnection(n) PROVE Goal
  <2>1. PICK c \in Conns, k \in Kinds :
           /\ k \in Awaited(life[c]) /\ Count(c, k) > 0 /\ c \notin held
           /\ \E m \in Notified(life[c], k) :
                  /\ life' = [life EXCEPT ![c] = m]
                  /\ m.io >= Count(c, "IO")'
           /\ \A d \in Conns \cup {Null}, e \in NoteKinds :
                  Count(d, e)' = Count(d, e) - IF d = c /\ e = k THEN 1 ELSE 0
    BY <1>6, Taken
  <2>2. PICK m \in Notified(life[c], k) :
           life' = [life EXCEPT ![c] = m] /\ m.io >= Count(c, "IO")'
    BY <2>1
  <2>3. UNCHANGED <<held, fate>> /\ fate = "fine"
    BY <1>6 DEF HandleConnection, Resumes, Up
  <2>a. \/ k = "NEW"
        \/ k = "IO" /\ life[c].io > 0
        \/ k = "DEL" /\ life[c].del
    <3>1. k \in Awaited(life[c])
      BY <2>1
    <3> QED
      BY <3>1, AwaitedKinds
  <2>4. ASSUME NEW d \in Conns \ {c} PROVE Right(d)'
    <3>1. \A e \in Kinds : Count(d, e)' = Count(d, e)
      <4> SUFFICES ASSUME NEW e \in Kinds PROVE Count(d, e)' = Count(d, e)
        OBVIOUS
      <4>1. d # c /\ e \in NoteKinds /\ Count(d, e) \in Nat
        BY <1>a, <2>4, KindFacts
      <4> QED
        BY <2>1, <4>1
    <3>2. life'[d] = life[d]
      BY <2>2 DEF TypeOK
    <3> QED
      BY <1>c, <2>3, <3>1, <3>2 DEF Same
  <2>5. /\ Count(c, "NEW")' = Count(c, "NEW") - IF k = "NEW" THEN 1 ELSE 0
        /\ Count(c, "DEL")' = Count(c, "DEL") - IF k = "DEL" THEN 1 ELSE 0
        /\ Count(c, "NEW") \in Nat /\ Count(c, "DEL") \in Nat
    BY <1>a, <2>1, KindFacts DEF Kinds
  <2>6. /\ Right(c) /\ life'[c] = m /\ c \notin held'
        /\ life[c].new \in BOOLEAN /\ life[c].del \in BOOLEAN
    BY <1>a, <2>1, <2>2, <2>3, LifeTypes DEF TypeOK
  <2>7. /\ m.new = (life[c].new /\ k # "NEW")
        /\ m.del \/ ~life[c].del \/ k = "DEL"
    BY <1>a, <2>1, <2>2, NotifiedSound
  <2>8. /\ Count(c, "NEW")' <= IF m.new THEN 1 ELSE 0
        /\ Count(c, "DEL")' <= IF m.del THEN 1 ELSE 0
    <3>1. /\ Count(c, "NEW") <= IF life[c].new THEN 1 ELSE 0
          /\ Count(c, "DEL") <= IF life[c].del THEN 1 ELSE 0
      BY <2>6 DEF Right
    <3>2. CASE k = "NEW"
      BY <2>1, <2>5, <2>6, <2>7, <3>1, <3>2
    <3>3. CASE k = "DEL"
      BY <2>1, <2>5, <2>6, <2>7, <3>1, <3>3
    <3>4. CASE k = "IO"
      BY <2>1, <2>5, <2>6, <2>7, <3>1, <3>4
    <3> QED
      BY <3>2, <3>3, <3>4 DEF Kinds
  <2>9. ASSUME m.phase = "closing", m.new PROVE Count(c, "NEW")' = 1
    <3>1. life[c].new /\ k # "NEW"
      BY <2>7, <2>9
    <3>2. life[c].phase = "closing"
      <4>1. life[c].phase \in {"idle", "accept", "open", "closing"}
        BY <1>a, LifeTypes
      <4>2. CASE life[c].phase = "accept"
        <5>1. ~life[c].del /\ life[c].io = 0
          BY <1>a, <4>2 DEF Sound
        <5> QED
          BY <2>a, <3>1, <5>1
      <4> QED
        BY <1>a, <3>1, <4>1, <4>2 DEF Sound, Outstanding
    <3> QED
      BY <2>3, <2>5, <2>6, <3>1, <3>2 DEF Right
  <2>10. Right(c)'
    BY <2>2, <2>6, <2>8, <2>9 DEF Right
  <2> QED
    BY <1>b, <2>4, <2>10
<1>7. ASSUME NEW n, HandleWatcher(n), fate' # "broken" PROVE Goal
  <2>1. PICK late \in SUBSET held, c \in Candidates :
           /\ Relisten(late, c) /\ c \notin held
           /\ \A d \in Conns \cup {Null}, e \in NoteKinds :
                  Count(d, e)' = IF d = Null /\ e = "accept_watcher" THEN 0
                                 ELSE IF d \in late /\ e = "NEW" THEN 1
                                 ELSE Count(d, e)
    BY <1>7, Relistened
  <2>2. /\ life' = [d \in Conns |-> IF d = c THEN Accepting(life[c])
                                    ELSE IF d \in late THEN Aborting(life[d])
                                    ELSE life[d]]
        /\ held' = held \ late /\ UNCHANGED fate
    BY <2>1 DEF Relisten
  <2>3. c \in Conns /\ life[c].phase = "idle" /\ ~Outstanding(life[c])
    BY <1>7, <2>1, Candidate
  <2> SUFFICES ASSUME NEW d \in Conns PROVE Right(d)'
    BY <1>b
  <2>4. d # Null /\ \A e \in Kinds : e \in NoteKinds /\ Count(d, e) \in Nat
    BY <1>a, KindFacts, ServerAssumption
  <2>5. CASE d \notin late /\ d # c
    <3>1. \A e \in Kinds : Count(d, e)' = Count(d, e)
      BY <2>1, <2>4, <2>5
    <3>2. life'[d] = life[d] /\ (d \in held' => d \in held)
      BY <2>2, <2>5
    <3> QED
      BY <1>c, <2>2, <3>1, <3>2 DEF Same
  <2>6. CASE d = c
    <3>1. /\ Count(d, "NEW")' = Count(d, "NEW") /\ Count(d, "DEL")' = Count(d, "DEL")
          /\ Count(d, "IO")' = Count(d, "IO")
      BY <2>1, <2>4, <2>6 DEF Kinds
    <3>2. life'[d] = Accepting(life[d]) /\ d \notin held'
      BY <2>1, <2>2, <2>6
    <3>3. /\ life'[d].phase = "accept" /\ life'[d].new
          /\ life'[d].del = life[d].del /\ life'[d].io = life[d].io
      BY <1>a, <3>2 DEF Accepting, Lives
    <3>4. /\ Right(d) /\ ~life[d].new
      BY <1>a, <2>3, <2>6 DEF Outstanding
    <3>5. /\ Count(d, "NEW") = 0
      BY <2>4, <3>4 DEF Right, Kinds
    <3> QED
      BY <3>1, <3>2, <3>3, <3>4, <3>5 DEF Right
  <2>7. CASE d \in late /\ d # c
    <3>1. /\ Count(d, "NEW")' = 1 /\ Count(d, "DEL")' = Count(d, "DEL")
          /\ Count(d, "IO")' = Count(d, "IO")
      BY <2>1, <2>4, <2>7 DEF Kinds
    <3>2. life'[d] = Aborting(life[d]) /\ d \notin held' /\ life[d].phase = "accept"
      BY <2>1, <2>2, <2>7 DEF HeldInv
    <3>3. /\ life'[d].phase = "closing" /\ life'[d].new = life[d].new
          /\ life'[d].del /\ life'[d].io = life[d].io
      BY <1>a, <3>2 DEF Aborting, Lives
    <3>4. Right(d) /\ life[d].new /\ ~life[d].del
      BY <1>a, <3>2 DEF Sound
    <3>5. Count(d, "DEL") = 0
      BY <2>4, <3>4 DEF Right, Kinds
    <3> QED
      BY <3>1, <3>2, <3>3, <3>4, <3>5 DEF Right
  <2> QED
    BY <2>5, <2>6, <2>7
<1>8. ASSUME NEW s \in {"service", "control"}, NEW n, Resumes(s, n),
             UNCHANGED <<port, life, held>>,
             (n.kind \notin Kinds /\ UNCHANGED fate) \/ fate' # "fine"
      PROVE  Goal
  <2> SUFFICES ASSUME NEW d \in Conns PROVE Right(d)'
    BY <1>b
  <2>1. \A e \in Kinds : /\ Count(d, e) \in Nat /\ Count(d, e)' \in Nat
                         /\ Count(d, e)' <= Count(d, e)
                         /\ e # n.kind => Count(d, e)' = Count(d, e)
    <3> SUFFICES ASSUME NEW e \in Kinds
                 PROVE  /\ Count(d, e) \in Nat /\ Count(d, e)' \in Nat
                        /\ Count(d, e)' <= Count(d, e)
                        /\ e # n.kind => Count(d, e)' = Count(d, e)
      OBVIOUS
    <3>1. /\ Count(d, e) \in Nat /\ Count(d, e)' \in Nat
          /\ Count(d, e)' + (IF d = n.connection /\ e = n.kind THEN 1 ELSE 0)
               = Count(d, e)
      BY <1>8, Consumed, KindFacts
    <3>2. CASE d = n.connection /\ e = n.kind
      BY <3>1, <3>2
    <3>3. CASE ~(d = n.connection /\ e = n.kind)
      BY <3>1, <3>3
    <3> QED
      BY <3>2, <3>3
  <2>2. Right(d) /\ life[d].io \in Nat
    BY <1>a, LifeAssumption DEF Lives
  <2>3. CASE n.kind \notin Kinds /\ UNCHANGED fate
    <3>1. Same(d)
      BY <1>8, <2>1, <2>3 DEF Same
    <3> QED
      BY <1>c, <3>1
  <2>4. CASE fate' # "fine"
    <3>1. /\ Count(d, "NEW") \in Nat /\ Count(d, "NEW")' \in Nat
          /\ Count(d, "DEL") \in Nat /\ Count(d, "DEL")' \in Nat
          /\ Count(d, "IO") \in Nat /\ Count(d, "IO")' \in Nat
          /\ Count(d, "NEW")' <= Count(d, "NEW")
          /\ Count(d, "DEL")' <= Count(d, "DEL")
          /\ Count(d, "IO")' <= Count(d, "IO")
      BY <2>1 DEF Kinds
    <3>2. UNCHANGED <<life, held>>
      BY <1>8
    <3> QED
      BY <2>2, <2>4, <3>1, <3>2 DEF Right
  <2> QED
    BY <1>8, <2>3, <2>4
<1>9. ASSUME NEW n, \/ HandleShutdown(n) \/ GetReturns(n) \/ PutReturns(n)
                    \/ HandleWatcher(n) /\ fate' = "broken"
                    \/ Stray("service", n) \/ Stray("control", n)
      PROVE  Goal
  <2>1. CASE HandleShutdown(n)
    BY <1>8, <2>1 DEF HandleShutdown, Kinds
  <2>2. CASE GetReturns(n) \/ PutReturns(n)
    <3>1. Resumes("control", n)
      BY <2>2 DEF GetReturns, PutReturns
    <3>2. n.kind = "compute"
      BY <3>1, Resumed
    <3> QED
      BY <1>8, <2>2, <3>1, <3>2 DEF GetReturns, PutReturns, Kinds
  <2>3. CASE HandleWatcher(n) /\ fate' = "broken"
    <3>1. UNCHANGED <<port, life, held>> /\ Resumes("service", n)
      BY <2>3 DEF HandleWatcher, Relisten, Resumes, Up, taskVars
    <3> QED
      BY <1>8, <2>3, <3>1
  <2>4. CASE Stray("service", n) \/ Stray("control", n)
    BY <1>8, <2>4 DEF Stray, taskVars
  <2> QED
    BY <1>9, <2>1, <2>2, <2>3, <2>4
<1>10. CASE Tasks
  <2>1. PICK n : \/ HandleConnection(n) \/ HandleWatcher(n) \/ HandleShutdown(n)
                 \/ GetReturns(n) \/ PutReturns(n)
                 \/ Stray("service", n) \/ Stray("control", n)
    BY <1>10 DEF Tasks
  <2> QED
    BY <1>6, <1>7, <1>9, <2>1 DEF Goal
<1> QED
  BY <1>2, <1>3, <1>4, <1>5, <1>10 DEF Next, Kernel, Pool, Loop, Goal, Kinds

(* Which connections listen, and which were made.                          *)
Listens(c) == life[c].new /\ Count(c, "NEW") = 0 /\ c \notin held

LEMMA ListeningIs ==
    /\ Listening = {c \in Conns : Listens(c)}
    /\ Listening' = {c \in Conns : Listens(c)'}
BY DEF Listening, Pending, Listens

(* The steps that do not begin or take an accept.                          *)
Others ==
    \/ Arrive \/ SelectAccept \/ Pool \/ Loop \/ UNCHANGED vars
    \/ \E c \in Conns : CompleteAccept(c) \/ \E k \in Kinds : Complete(c, k)
    \/ \E n : \/ HandleConnection(n) \/ HandleShutdown(n)
              \/ GetReturns(n) \/ PutReturns(n)
              \/ Stray("service", n) \/ Stray("control", n)

LEMMA Steps ==
    [Next]_vars => \/ Others
                   \/ \E c \in Conns : Accept(c)
                   \/ \E n : HandleWatcher(n)
<1>1. CASE Tasks
  <2>1. PICK n : \/ HandleConnection(n) \/ HandleWatcher(n) \/ HandleShutdown(n)
                 \/ GetReturns(n) \/ PutReturns(n)
                 \/ Stray("service", n) \/ Stray("control", n)
    BY <1>1 DEF Tasks
  <2> QED
    BY <2>1 DEF Others
<1>2. CASE Kernel \/ Pool \/ Loop \/ UNCHANGED vars
  BY <1>2 DEF Kernel, Others
<1> QED
  BY <1>1, <1>2 DEF Next

LEMMA ListenersStay ==
    ASSUME ServerInv, TypeOK', Others, fate' = "fine"
    PROVE  Listening' = Listening /\ Made' = Made
<1> USE DEF ServerInv
<1>a. ASSUME \A c \in Conns : Listens(c)' <=> Listens(c) PROVE Listening' = Listening
  BY <1>a, ListeningIs
<1>b. UNCHANGED life => Made' = Made
  BY DEF Made
<1>c. ASSUME NEW c \in Conns PROVE c # Null /\ Count(c, "NEW") \in Nat
  BY Counts, KindFacts, ServerAssumption DEF CountFacts
<1>1. CASE \/ TakeNotification \/ NoNotification \/ DispatchReturns
           \/ Arrive \/ SelectAccept \/ Execute \/ (\E j \in Jobs : Release(j))
           \/ UNCHANGED vars
  <2>1. UNCHANGED <<life, held>>
    BY <1>1 DEF TakeNotification, NoNotification, DispatchReturns, Arrive,
         SelectAccept, Execute, Release, clientVars, taskVars, vars
  <2>2. TakeNotification \/ NoNotification \/ UNCHANGED <<port, queue, batch>>
    BY <1>1 DEF DispatchReturns, Arrive, SelectAccept, Execute, Release,
         loopVars, vars
  <2>3. \A c \in Conns : Count(c, "NEW")' = Count(c, "NEW")
    BY <2>2, Moved, KindFacts
  <2> QED
    BY <1>a, <1>b, <2>1, <2>3 DEF Listens
<1>2. ASSUME NEW j \in Jobs, ReportCompletion(j)
      PROVE  Listening' = Listening /\ Made' = Made
  <2>1. /\ UNCHANGED <<life, held, queue, batch>>
        /\ port' = Append(port, Note(Null, j))
    BY <1>2 DEF ReportCompletion, clientVars, loopVars
  <2>2. \A c \in Conns \cup {Null}, k \in NoteKinds :
           Count(c, k)' = Count(c, k) + IF c = Null /\ k = j THEN 1 ELSE 0
    <3>1. j \in NoteKinds /\ Null \in Conns \cup {Null}
      BY KindFacts
    <3> QED
      BY <2>1, <3>1, Posted
  <2>3. ASSUME NEW c \in Conns PROVE Count(c, "NEW")' = Count(c, "NEW")
    BY <1>c, <2>2, KindFacts
  <2> QED
    BY <1>a, <1>b, <2>1, <2>3 DEF Listens
<1>3. ASSUME NEW c \in Conns, NEW e \in Kinds,
             (CompleteAccept(c) /\ e = "NEW") \/ Complete(c, e)
      PROVE  Listening' = Listening /\ Made' = Made
  <2>1. /\ UNCHANGED <<life, queue, batch>> /\ port' = Append(port, Note(c, e))
        /\ e = "NEW" => c \in held /\ held' = held \ {c}
        /\ e # "NEW" => UNCHANGED held
    BY <1>3 DEF CompleteAccept, Complete, clientVars, taskVars, loopVars
  <2>2. \A d \in Conns \cup {Null}, k \in NoteKinds :
           Count(d, k)' = Count(d, k) + IF d = c /\ k = e THEN 1 ELSE 0
    BY <2>1, Posted, KindFacts
  <2>3. ASSUME NEW d \in Conns
        PROVE  Count(d, "NEW")' = Count(d, "NEW") + IF d = c /\ e = "NEW" THEN 1 ELSE 0
    BY <2>2, KindFacts
  <2>4. ASSUME NEW d \in Conns PROVE Listens(d)' <=> Listens(d)
    <3>1. CASE d = c /\ e = "NEW"
      BY <1>c, <2>1, <2>3, <3>1 DEF Listens
    <3>2. CASE ~(d = c /\ e = "NEW")
      BY <1>c, <2>1, <2>3, <3>2 DEF Listens
    <3> QED
      BY <3>1, <3>2
  <2> QED
    BY <1>a, <1>b, <2>1, <2>4
<1>4. ASSUME NEW n, HandleConnection(n)
      PROVE  Listening' = Listening /\ Made' = Made
  <2>1. PICK c \in Conns, k \in Kinds :
           /\ k \in Awaited(life[c]) /\ Count(c, k) > 0
           /\ \E m \in Notified(life[c], k) : life' = [life EXCEPT ![c] = m]
           /\ \A d \in Conns \cup {Null}, e \in NoteKinds :
                  Count(d, e)' = Count(d, e) - IF d = c /\ e = k THEN 1 ELSE 0
    BY <1>4, Taken
  <2>2. PICK m \in Notified(life[c], k) : life' = [life EXCEPT ![c] = m]
    BY <2>1
  <2>3. UNCHANGED held
    BY <1>4 DEF HandleConnection
  <2>4. /\ life[c] \in Lives /\ Sound(life[c])
        /\ Count(c, "NEW") <= IF life[c].new THEN 1 ELSE 0
    BY DEF TypeOK, LifeInv, NotificationsAreAwaited
  <2>5. /\ m.new = (life[c].new /\ k # "NEW")
        /\ life[c].pool # "none" /\ m.pool # "none"
    BY <2>1, <2>2, <2>4, NotifiedSound
  <2>6. \A d \in Conns : life'[d] = IF d = c THEN m ELSE life[d]
    BY <2>2 DEF TypeOK
  <2>7. Made' = Made
    BY <2>5, <2>6 DEF Made
  <2>8. ASSUME NEW d \in Conns
        PROVE  Count(d, "NEW")' = Count(d, "NEW") - IF d = c /\ k = "NEW" THEN 1 ELSE 0
    BY <2>1, KindFacts
  <2>9. ASSUME NEW d \in Conns PROVE Listens(d)' <=> Listens(d)
    <3>1. CASE d = c /\ k = "NEW"
      <4>1. ~m.new /\ Count(c, "NEW") # 0
        <5>1. Count(c, k) > 0
          BY <2>1
        <5>2. Count(c, "NEW") # 0
          BY <1>c, <3>1, <5>1
        <5>3. ~m.new
          BY <2>5, <3>1
        <5> QED
          BY <5>2, <5>3
      <4> QED
        BY <2>6, <3>1, <4>1 DEF Listens
    <3>2. CASE ~(d = c /\ k = "NEW")
      <4>1. Count(d, "NEW")' = Count(d, "NEW")
        BY <1>c, <2>8, <3>2
      <4>2. life'[d].new <=> life[d].new
        BY <2>5, <2>6, <3>2
      <4> QED
        BY <2>3, <4>1, <4>2 DEF Listens
    <3> QED
      BY <3>1, <3>2
  <2> QED
    BY <1>a, <2>7, <2>9
<1>5. ASSUME NEW n, HandleShutdown(n) \/ GetReturns(n) \/ PutReturns(n)
      PROVE  Listening' = Listening /\ Made' = Made
  <2>1. PICK s \in {"service", "control"} : Resumes(s, n)
    BY <1>5 DEF HandleShutdown, GetReturns, PutReturns
  <2>2. n.kind # "NEW"
    <3>1. CASE HandleShutdown(n)
      BY <3>1 DEF HandleShutdown
    <3>2. CASE GetReturns(n) \/ PutReturns(n)
      <4>1. Resumes("control", n)
        BY <3>2 DEF GetReturns, PutReturns
      <4> QED
        BY <4>1, Resumed
    <3> QED
      BY <1>5, <3>1, <3>2
  <2>3. UNCHANGED <<life, held, port>>
    BY <1>5 DEF HandleShutdown, GetReturns, PutReturns
  <2>4. ASSUME NEW c \in Conns PROVE Count(c, "NEW")' = Count(c, "NEW")
    <3>1. /\ Count(c, "NEW") \in Nat /\ Count(c, "NEW")' \in Nat
          /\ Count(c, "NEW")' + (IF c = n.connection /\ "NEW" = n.kind THEN 1 ELSE 0)
                = Count(c, "NEW")
      BY <2>1, <2>3, Consumed, KindFacts
    <3> QED
      BY <2>2, <3>1
  <2> QED
    BY <1>a, <1>b, <2>3, <2>4 DEF Listens
<1>6. ASSUME NEW n, Stray("service", n) \/ Stray("control", n) PROVE FALSE
  BY <1>6 DEF Stray
<1> QED
  BY <1>1, <1>2, <1>3, <1>4, <1>5, <1>6 DEF Others, Pool, Loop, Kinds

LEMMA ListenerAccepts ==
    ASSUME ServerInv, NEW c \in Conns, Accept(c)
    PROVE  /\ c \in Listening /\ Listening' = Listening \ {c} /\ Made' = Made
           /\ backlog > 0 /\ backlog' = backlog - 1
<1>1. /\ UNCHANGED <<life, port, queue, batch>> /\ held' = held \cup {c}
      /\ c \in Listening /\ backlog > 0 /\ backlog' = backlog - 1
  BY DEF Accept, taskVars, loopVars
<1>2. \A d \in Conns : Count(d, "NEW")' = Count(d, "NEW")
  BY <1>1, CountStays
<1>3. \A d \in Conns : Listens(d)' <=> Listens(d) /\ d # c
  BY <1>1, <1>2 DEF Listens
<1> QED
  BY <1>1, <1>3, ListeningIs DEF Made

LEMMA ListenerAdded ==
    ASSUME ServerInv, TypeOK', NEW n, HandleWatcher(n), fate' # "broken"
    PROVE  \E c \in Conns \ Listening :
               /\ Listening' = Listening \cup {c} /\ Made' = Made \cup {c}
               /\ ~event' /\ Count(Null, "accept_watcher")' = 0
               /\ LoopTest(Rewatched)
<1>1. PICK late \in SUBSET held, c \in Candidates :
         /\ Relisten(late, c) /\ c \notin held
         /\ \A d \in Conns \cup {Null}, e \in NoteKinds :
                Count(d, e)' = IF d = Null /\ e = "accept_watcher" THEN 0
                               ELSE IF d \in late /\ e = "NEW" THEN 1
                               ELSE Count(d, e)
  BY Relistened
<1>2. /\ life' = [d \in Conns |-> IF d = c THEN Accepting(life[c])
                                  ELSE IF d \in late THEN Aborting(life[d])
                                  ELSE life[d]]
      /\ held' = held \ late /\ event' = FALSE /\ LoopTest(Rewatched)
  BY <1>1 DEF Relisten
<1>3. c \in Conns /\ life[c].phase = "idle" /\ ~life[c].new
  BY <1>1, Candidate DEF Outstanding
<1>4. ASSUME NEW d \in Conns
      PROVE  /\ Count(d, "NEW") \in Nat
             /\ Count(d, "NEW")' = IF d \in late THEN 1 ELSE Count(d, "NEW")
             /\ life[d] \in Lives
  BY <1>1, Counts, KindFacts, ServerAssumption DEF CountFacts, ServerInv, TypeOK
<1>5. ASSUME NEW d \in Conns PROVE Listens(d)' <=> Listens(d) \/ d = c
  <2>1. CASE d = c
    <3>1. life'[d].new
      BY <1>2, <1>4, <2>1 DEF Accepting, Lives
    <3>2. Count(d, "NEW") = 0
      <4>1. Count(d, "NEW") <= IF life[d].new THEN 1 ELSE 0
        BY DEF ServerInv, NotificationsAreAwaited
      <4> QED
        BY <1>3, <1>4, <2>1, <4>1
    <3> QED
      BY <1>1, <1>2, <1>4, <2>1, <3>1, <3>2 DEF Listens
  <2>2. CASE d \in late /\ d # c
    BY <1>2, <1>4, <2>2 DEF Listens
  <2>3. CASE d \notin late /\ d # c
    BY <1>2, <1>4, <2>3 DEF Listens
  <2> QED
    BY <2>1, <2>2, <2>3
<1>6. c \notin Listening
  BY <1>3, ListeningIs DEF Listens
<1>7. Listening' = Listening \cup {c}
  BY <1>3, <1>5, ListeningIs
<1>8. Made' = Made \cup {c}
  <2>1. ASSUME NEW d \in Conns
        PROVE  life'[d].pool # "none" <=> life[d].pool # "none" \/ d = c
    BY <1>2, <1>4 DEF Accepting, Aborting, Lives
  <2> QED
    BY <1>3, <2>1 DEF Made
<1>9. Count(Null, "accept_watcher")' = 0
  BY <1>1, KindFacts
<1> QED
  BY <1>2, <1>3, <1>6, <1>7, <1>8, <1>9

LEMMA RoomKept ==
    ASSUME ServerInv, TypeOK', [Next]_vars
    PROVE  RoomInv'
<1> USE DEF ServerInv
<1>a. /\ backlog \in Nat /\ arrived \in Nat
      /\ backlog <= arrived
      /\ fate = "fine" =>
            Cardinality(Made) + backlog <= arrived + Cardinality(Listening)
  BY ServerAssumption DEF TypeOK, RoomInv
<1>b. /\ IsFiniteSet(Made) /\ IsFiniteSet(Listening)
      /\ Cardinality(Made) \in Nat /\ Cardinality(Listening) \in Nat
  BY ServerAssumption, FS_Subset, FS_CardinalityType DEF Made, Listening
<1>1. ASSUME NEW c \in Conns, Accept(c) PROVE RoomInv'
  <2>1. /\ c \in Listening /\ Listening' = Listening \ {c} /\ Made' = Made
        /\ backlog > 0 /\ backlog' = backlog - 1
    BY <1>1, ListenerAccepts
  <2>2. UNCHANGED <<arrived, fate>> /\ fate = "fine"
    BY <1>1 DEF Accept, Up
  <2>3. Cardinality(Listening') = Cardinality(Listening) - 1
    BY <1>b, <2>1, FS_RemoveElement
  <2> QED
    BY <1>a, <1>b, <2>1, <2>2, <2>3 DEF RoomInv
<1>2. ASSUME NEW n, HandleWatcher(n) PROVE RoomInv'
  <2>1. UNCHANGED <<arrived, backlog>> /\ fate = "fine"
    BY <1>2 DEF HandleWatcher, Resumes, Up
  <2>2. CASE fate' # "broken"
    <3>1. PICK c \in Conns \ Listening :
             Listening' = Listening \cup {c} /\ Made' = Made \cup {c}
      BY <1>2, <2>2, ListenerAdded
    <3>2. Cardinality(Listening') = Cardinality(Listening) + 1
      BY <1>b, <3>1, FS_AddElement
    <3>3. Cardinality(Made') <= Cardinality(Made) + 1 /\ Cardinality(Made') \in Nat
      <4>1. CASE c \in Made
        <5>1. Made' = Made
          BY <3>1, <4>1
        <5> QED
          BY <1>b, <5>1
      <4>2. CASE c \notin Made
        <5>1. Cardinality(Made \cup {c}) = Cardinality(Made) + 1
          BY <1>b, <4>2, FS_AddElement
        <5> QED
          BY <1>b, <3>1, <5>1
      <4> QED
        BY <4>1, <4>2
    <3> QED
      BY <1>a, <1>b, <2>1, <3>2, <3>3 DEF RoomInv
  <2>3. CASE fate' = "broken"
    BY <1>a, <2>1, <2>3 DEF RoomInv
  <2> QED
    BY <2>2, <2>3
<1>3. CASE Others
  <2>1. \/ UNCHANGED <<arrived, backlog>>
        \/ arrived' = arrived + 1 /\ backlog' = backlog + 1
    BY <1>3 DEF Others, Arrive, SelectAccept, CompleteAccept, Complete,
         Pool, Execute, Release, ReportCompletion, Loop, TakeNotification,
         NoNotification, DispatchReturns, HandleConnection, HandleShutdown,
         GetReturns, PutReturns, Stray, Resumes, clientVars, vars
  <2>2. fate' = "fine" => fate = "fine"
    BY <1>3 DEF Others, Arrive, SelectAccept, CompleteAccept, Complete,
         Pool, Execute, Release, ReportCompletion, Loop, TakeNotification,
         NoNotification, DispatchReturns, HandleConnection, HandleShutdown,
         GetReturns, PutReturns, Stray, vars
  <2>3. fate' = "fine" => Listening' = Listening /\ Made' = Made
    BY <1>3, ListenersStay
  <2> QED
    BY <1>a, <1>b, <2>1, <2>2, <2>3 DEF RoomInv
<1> QED
  BY <1>1, <1>2, <1>3, Steps

(* The pool's jobs: one completion each, and who waits for it.             *)
LEMMA JobsKept ==
    ASSUME ServerInv, TypeOK', [Next]_vars
    PROVE  JobsInv' /\ EndInv'
<1> USE DEF ServerInv
<1> DEFINE One(j) == IF job[j] = "none" THEN 0 ELSE 1
<1>a. ASSUME NEW j \in Jobs
      PROVE  /\ Count(Null, j) \in Nat /\ Count(Null, j)' \in Nat
             /\ job[j] \in {"none", "armed", "closed"}
             /\ Count(Null, j) + One(j) <= 1
  BY Counts, CountsNext, KindFacts DEF CountFacts, TypeOK, JobStates, JobsInv, Coming
<1>b. /\ "shutdown_wait" \in Jobs /\ "accept_watcher" \in Jobs /\ "compute" \in Jobs
      /\ Jobs = {"shutdown_wait", "accept_watcher", "compute"}
      /\ alive \subseteq {"service", "control"}
      /\ \A j \in Jobs : j \in NoteKinds
  BY KindFacts DEF Jobs, TypeOK
<1>c. /\ "control" \in alive <=> Count(Null, "compute") + One("compute") = 1
      /\ "service" \in alive /\ fate # "broken" =>
            Count(Null, "accept_watcher") + One("accept_watcher") = 1
      /\ signal <=> "control" \notin alive
      /\ Count(Null, "shutdown_wait") > 0 => signal
      /\ job["shutdown_wait"] # "armed" => signal
      /\ "service" \notin alive => signal
      /\ fate = "stray" => signal /\ alive = {}
  BY DEF JobsInv, EndInv, WatchersAreWatching, StrayOnlyAtTheEnd, Coming
<1>d. ASSUME /\ \A j \in Jobs : Count(Null, j)' + One(j)' <= 1
             /\ ("control" \in alive)' <=> Count(Null, "compute")' + One("compute")' = 1
             /\ ("service" \in alive /\ fate # "broken")' =>
                   Count(Null, "accept_watcher")' + One("accept_watcher")' = 1
      PROVE  JobsInv'
  BY <1>b, <1>d DEF JobsInv, WatchersAreWatching, Coming
<1>e. ASSUME /\ signal' <=> "control" \notin alive'
             /\ Count(Null, "shutdown_wait")' > 0 => signal'
             /\ job'["shutdown_wait"] # "armed" => signal'
             /\ "service" \notin alive' => signal'
             /\ fate' = "stray" => signal' /\ alive' = {}
      PROVE  EndInv'
  BY <1>e DEF EndInv, StrayOnlyAtTheEnd
<1>1. ASSUME UNCHANGED <<job, alive, signal, fate>>,
             \A j \in Jobs : Count(Null, j)' = Count(Null, j)
      PROVE  JobsInv' /\ EndInv'
  BY <1>1, <1>a, <1>b, <1>c, <1>d, <1>e
<1>2. CASE \/ TakeNotification \/ NoNotification \/ DispatchReturns
           \/ Arrive \/ SelectAccept \/ (\E c \in Conns : Accept(c)) \/ UNCHANGED vars
  <2>1. UNCHANGED <<job, alive, signal, fate>>
    BY <1>2 DEF TakeNotification, NoNotification, DispatchReturns, Arrive,
         SelectAccept, Accept, taskVars, vars
  <2>2. TakeNotification \/ NoNotification \/ UNCHANGED <<port, queue, batch>>
    BY <1>2 DEF DispatchReturns, Arrive, SelectAccept, Accept, loopVars, vars
  <2>3. \A j \in Jobs : Count(Null, j)' = Count(Null, j)
    BY <2>2, Moved, KindFacts
  <2> QED
    BY <1>1, <2>1, <2>3
<1>3. ASSUME NEW c \in Conns, NEW e \in Kinds,
             (CompleteAccept(c) /\ e = "NEW") \/ Complete(c, e)
      PROVE  JobsInv' /\ EndInv'
  <2>1. /\ UNCHANGED <<job, alive, signal, fate, queue, batch>>
        /\ port' = Append(port, Note(c, e))
    BY <1>3 DEF CompleteAccept, Complete, taskVars, loopVars
  <2>2. \A d \in Conns \cup {Null}, k \in NoteKinds :
           Count(d, k)' = Count(d, k) + IF d = c /\ k = e THEN 1 ELSE 0
    BY <2>1, Posted, KindFacts
  <2>3. ASSUME NEW j \in Jobs PROVE Count(Null, j)' = Count(Null, j)
    BY <1>a, <1>b, <2>2, ServerAssumption
  <2> QED
    BY <1>1, <2>1, <2>3
<1>4. ASSUME NEW j \in Jobs, Release(j) \/ (Execute /\ j = "compute")
      PROVE  JobsInv' /\ EndInv'
  <2>1. /\ job[j] = "armed" /\ job' = [job EXCEPT ![j] = "closed"]
        /\ UNCHANGED <<alive, signal, fate, port, queue, batch>>
        /\ j = "shutdown_wait" => signal
    BY <1>4 DEF Release, Execute, loopVars
  <2>2. \A k \in Jobs : /\ Count(Null, k)' = Count(Null, k)
                        /\ job'[k] = IF k = j THEN "closed" ELSE job[k]
                        /\ One(k)' = One(k)
    BY <2>1, CountStays DEF TypeOK
  <2> QED
    BY <1>a, <1>b, <1>c, <1>d, <1>e, <2>1, <2>2
<1>5. ASSUME NEW j \in Jobs, ReportCompletion(j) PROVE JobsInv' /\ EndInv'
  <2>1. /\ job[j] = "closed" /\ job' = [job EXCEPT ![j] = "none"]
        /\ UNCHANGED <<alive, signal, fate, queue, batch>>
        /\ port' = Append(port, Note(Null, j))
    BY <1>5 DEF ReportCompletion, loopVars
  <2>2. \A c \in Conns \cup {Null}, k \in NoteKinds :
           Count(c, k)' = Count(c, k) + IF c = Null /\ k = j THEN 1 ELSE 0
    <3>1. j \in NoteKinds /\ Null \in Conns \cup {Null}
      BY <1>b
    <3> QED
      BY <2>1, <3>1, Posted
  <2>3. ASSUME NEW k \in Jobs
        PROVE  /\ Count(Null, k)' = Count(Null, k) + IF k = j THEN 1 ELSE 0
               /\ job'[k] = IF k = j THEN "none" ELSE job[k]
               /\ Count(Null, k)' + One(k)' = Count(Null, k) + One(k)
    <3>1. /\ Count(Null, k)' = Count(Null, k) + IF k = j THEN 1 ELSE 0
          /\ job'[k] = IF k = j THEN "none" ELSE job[k]
      BY <1>b, <2>1, <2>2 DEF TypeOK
    <3>2. CASE k = j
      BY <1>a, <2>1, <3>1, <3>2
    <3>3. CASE k # j
      BY <1>a, <2>1, <3>1, <3>3
    <3> QED
      BY <3>1, <3>2, <3>3
  <2>4. j = "shutdown_wait" => signal
    BY <1>c, <2>1
  <2>5. JobsInv'
    BY <1>a, <1>b, <1>c, <1>d, <2>1, <2>3
  <2>6. /\ Count(Null, "shutdown_wait")' > 0 => signal
        /\ job'["shutdown_wait"] # "armed" => signal
    <3>1. CASE j = "shutdown_wait"
      BY <2>4, <3>1
    <3>2. CASE j # "shutdown_wait"
      BY <1>a, <1>b, <1>c, <2>3, <3>2
    <3> QED
      BY <3>1, <3>2
  <2>7. EndInv'
    BY <1>c, <1>e, <2>1, <2>6
  <2> QED
    BY <2>5, <2>7
<1>6. ASSUME NEW jobs \in [Jobs -> JobStates], LoopTest(jobs),
             \A j \in Jobs : Count(Null, j)' + (IF jobs[j] = "none" THEN 0 ELSE 1)
                                = Count(Null, j) + One(j),
             jobs["shutdown_wait"] = job["shutdown_wait"],
             UNCHANGED <<signal, fate>>, fate = "fine", "service" \in alive,
             Count(Null, "shutdown_wait")' <= Count(Null, "shutdown_wait"),
             jobs["compute"] = job["compute"]
      PROVE  JobsInv' /\ EndInv'
  <2>1. CASE jobs["shutdown_wait"] = "armed"
    <3>1. job' = jobs /\ UNCHANGED alive
      BY <1>6, <2>1 DEF LoopTest
    <3>2. \A j \in Jobs : Count(Null, j)' + One(j)' = Count(Null, j) + One(j)
      BY <1>6, <3>1
    <3>3. JobsInv'
      BY <1>6, <1>a, <1>b, <1>c, <1>d, <3>1, <3>2
    <3>4. EndInv'
      BY <1>6, <1>a, <1>b, <1>c, <1>e, <2>1, <3>1
    <3> QED
      BY <3>3, <3>4
  <2>2. CASE jobs["shutdown_wait"] # "armed"
    <3>1. /\ alive' = alive \ {"service"}
          /\ job' = [jobs EXCEPT !["accept_watcher"] = IF @ = "armed" THEN "none" ELSE @]
      BY <1>6, <2>2 DEF LoopTest
    <3>2. signal
      BY <1>6, <1>c, <2>2
    <3>3. ASSUME NEW j \in Jobs
          PROVE  /\ Count(Null, j)' + One(j)' <= Count(Null, j) + One(j)
                 /\ j # "accept_watcher" =>
                       Count(Null, j)' + One(j)' = Count(Null, j) + One(j)
      <4>1. CASE j = "accept_watcher"
        <5>1. job'[j] = IF jobs[j] = "armed" THEN "none" ELSE jobs[j]
          BY <3>1, <4>1
        <5>2. One(j)' <= IF jobs[j] = "none" THEN 0 ELSE 1
          BY <5>1
        <5>3. Count(Null, j)' + (IF jobs[j] = "none" THEN 0 ELSE 1)
                 = Count(Null, j) + One(j)
          BY <1>6
        <5> HIDE DEF One
        <5>4. One(j) \in {0, 1} /\ One(j)' \in {0, 1}
          BY DEF One
        <5> QED
          BY <1>a, <4>1, <5>2, <5>3, <5>4
      <4>2. CASE j # "accept_watcher"
        <5>1. job'[j] = jobs[j]
          BY <3>1, <4>2
        <5> QED
          BY <1>6, <1>a, <4>2, <5>1
      <4> QED
        BY <4>1, <4>2
    <3>4. ASSUME NEW j \in Jobs PROVE Count(Null, j)' + One(j)' <= 1
      BY <1>a, <3>3
    <3>5. Count(Null, "compute")' + One("compute")' = 1 <=> "control" \in alive'
      BY <1>b, <1>c, <3>1, <3>3
    <3>6. JobsInv'
      BY <1>d, <3>1, <3>4, <3>5
    <3>7. EndInv'
      BY <1>6, <1>c, <1>e, <3>1, <3>2
    <3> QED
      BY <3>6, <3>7
  <2> QED
    BY <2>1, <2>2
<1>7. ASSUME NEW n, HandleConnection(n) PROVE JobsInv' /\ EndInv'
  <2>1. PICK c \in Conns, k \in Kinds :
           \A d \in Conns \cup {Null}, e \in NoteKinds :
               Count(d, e)' = Count(d, e) - IF d = c /\ e = k THEN 1 ELSE 0
    BY <1>7, Taken
  <2>2. ASSUME NEW j \in Jobs PROVE Count(Null, j)' = Count(Null, j)
    BY <1>a, <1>b, <2>1, ServerAssumption
  <2>3. /\ LoopTest(job) /\ UNCHANGED <<signal, fate>> /\ fate = "fine"
        /\ "service" \in alive /\ job \in [Jobs -> JobStates]
    BY <1>7 DEF HandleConnection, Resumes, Up, TypeOK
  <2> QED
    BY <1>6, <1>a, <1>b, <2>2, <2>3
<1>8. ASSUME NEW n, HandleWatcher(n) PROVE JobsInv' /\ EndInv'
  <2>1. /\ fate = "fine" /\ "service" \in alive /\ Resumes("service", n)
        /\ n.kind = "accept_watcher" /\ n.connection = Null
        /\ job["accept_watcher"] = "none" /\ Count(Null, "accept_watcher") > 0
    <3>1. Resumes("service", n) /\ n.kind = "accept_watcher" /\ "service" \in alive
      BY <1>8 DEF HandleWatcher
    <3> QED
      BY <1>b, <3>1, Resumed DEF Resumes, Up
  <2>2. Count(Null, "accept_watcher") = 1
    BY <1>a, <1>b, <2>1
  <2>3. CASE fate' # "broken"
    <3>1. PICK late \in SUBSET held, c \in Candidates :
             /\ Relisten(late, c)
             /\ \A d \in Conns \cup {Null}, e \in NoteKinds :
                    Count(d, e)' = IF d = Null /\ e = "accept_watcher" THEN 0
                                   ELSE IF d \in late /\ e = "NEW" THEN 1
                                   ELSE Count(d, e)
      BY <1>8, <2>3, Relistened
    <3>2. Null \notin late
      BY ServerAssumption DEF TypeOK
    <3>3. ASSUME NEW j \in Jobs
          PROVE  /\ Count(Null, j)' = IF j = "accept_watcher" THEN 0 ELSE Count(Null, j)
                 /\ Rewatched[j] = IF j = "accept_watcher" THEN "armed" ELSE job[j]
      BY <1>b, <3>1, <3>2 DEF Rewatched, TypeOK
    <3>4. ASSUME NEW j \in Jobs
          PROVE  Count(Null, j)' + (IF Rewatched[j] = "none" THEN 0 ELSE 1)
                    = Count(Null, j) + One(j)
      <4>1. CASE j = "accept_watcher"
        BY <2>1, <2>2, <3>3, <4>1
      <4>2. CASE j # "accept_watcher"
        BY <3>3, <4>2
      <4> QED
        BY <4>1, <4>2
    <3>5. /\ LoopTest(Rewatched) /\ UNCHANGED <<signal, fate>>
          /\ Rewatched \in [Jobs -> JobStates]
      BY <3>1 DEF Relisten, Rewatched, TypeOK, JobStates
    <3>6. /\ Rewatched["shutdown_wait"] = job["shutdown_wait"]
          /\ Rewatched["compute"] = job["compute"]
          /\ Count(Null, "shutdown_wait")' <= Count(Null, "shutdown_wait")
      BY <1>a, <1>b, <3>3
    <3> HIDE DEF One
    <3> QED
      BY <1>6, <2>1, <3>4, <3>5, <3>6
  <2>4. CASE fate' = "broken"
    <3>1. UNCHANGED <<port, job, alive, signal>>
      BY <1>8, <2>1, <2>4 DEF HandleWatcher, Relisten, taskVars
    <3>2. ASSUME NEW j \in Jobs
          PROVE  Count(Null, j)' = IF j = "accept_watcher" THEN 0 ELSE Count(Null, j)
      <4>1. /\ Count(Null, j) \in Nat /\ Count(Null, j)' \in Nat
            /\ Count(Null, j)' + (IF Null = n.connection /\ j = n.kind THEN 1 ELSE 0)
                  = Count(Null, j)
        BY <1>b, <2>1, <3>1, Consumed
      <4> QED
        BY <2>1, <2>2, <4>1
    <3>3. JobsInv'
      BY <1>a, <1>b, <1>c, <1>d, <2>1, <2>4, <3>1, <3>2
    <3>4. EndInv'
      BY <1>b, <1>c, <1>e, <2>4, <3>1, <3>2
    <3> QED
      BY <3>3, <3>4
  <2> QED
    BY <2>3, <2>4
<1>9. ASSUME NEW s \in {"service", "control"}, NEW n, Resumes(s, n), UNCHANGED port
      PROVE  /\ n.kind \in Jobs => n.connection = Null /\ job[n.kind] = "none"
             /\ n.kind \in Jobs => Count(Null, n.kind) = 1
             /\ s = "control" <=> n.kind = "compute"
             /\ fate = "fine"
             /\ \A j \in Jobs : Count(Null, j)' = IF j = n.kind THEN 0 ELSE Count(Null, j)
  <2>1. /\ Count(n.connection, n.kind) > 0
        /\ n.kind \in Jobs => n.connection = Null /\ job[n.kind] = "none"
        /\ s = "control" <=> n.kind = "compute"
        /\ n.kind \in Kinds => n.connection \in Conns
        /\ n.kind \in NoteKinds
    BY <1>9, Resumed
  <2>2. n.kind \in Jobs => Count(Null, n.kind) = 1
    <3> SUFFICES ASSUME n.kind \in Jobs PROVE Count(Null, n.kind) = 1
      OBVIOUS
    <3>1. Count(Null, n.kind) \in Nat /\ Count(Null, n.kind) <= 1
      <4>1. Count(Null, n.kind) \in Nat /\ Count(Null, n.kind) + One(n.kind) <= 1
        BY <1>a
      <4> QED
        BY <4>1
    <3> QED
      BY <2>1, <3>1
  <2>3. ASSUME NEW j \in Jobs
        PROVE  Count(Null, j)' = IF j = n.kind THEN 0 ELSE Count(Null, j)
    <3>1. /\ Count(Null, j) \in Nat /\ Count(Null, j)' \in Nat
          /\ Count(Null, j)' + (IF Null = n.connection /\ j = n.kind THEN 1 ELSE 0)
                = Count(Null, j)
      BY <1>9, <1>b, Consumed
    <3>2. CASE j = n.kind
      BY <2>1, <2>2, <3>1, <3>2
    <3>3. CASE j # n.kind
      BY <3>1, <3>3
    <3> QED
      BY <3>2, <3>3
  <2> QED
    BY <1>9, <2>1, <2>2, <2>3 DEF Resumes, Up
<1>10. ASSUME NEW n, HandleShutdown(n) PROVE JobsInv' /\ EndInv'
  <2>1. /\ Resumes("service", n) /\ n.kind = "shutdown_wait" /\ LoopTest(job)
        /\ UNCHANGED <<port, signal, fate>> /\ "service" \in alive
    BY <1>10 DEF HandleShutdown
  <2>2. /\ job["shutdown_wait"] = "none" /\ Count(Null, "shutdown_wait") = 1
        /\ \A j \in Jobs : Count(Null, j)' =
                              IF j = "shutdown_wait" THEN 0 ELSE Count(Null, j)
        /\ fate = "fine"
    BY <1>9, <1>b, <2>1
  <2>3. /\ alive' = alive \ {"service"} /\ signal
        /\ job' = [job EXCEPT !["accept_watcher"] = IF @ = "armed" THEN "none" ELSE @]
    BY <1>c, <2>1, <2>2 DEF LoopTest
  <2>4. ASSUME NEW j \in Jobs
        PROVE  /\ Count(Null, j)' <= Count(Null, j) /\ One(j)' <= One(j)
               /\ j = "compute" => Count(Null, j)' = Count(Null, j) /\ One(j)' = One(j)
    <3>1. Count(Null, j)' <= Count(Null, j)
      BY <1>a, <2>2
    <3>2. job'[j] = IF j = "accept_watcher" /\ job[j] = "armed" THEN "none" ELSE job[j]
      BY <1>b, <2>3 DEF TypeOK
    <3> QED
      BY <1>b, <2>2, <3>1, <3>2
  <2>5. ASSUME NEW j \in Jobs PROVE Count(Null, j)' + One(j)' <= 1
    <3>1. /\ Count(Null, j)' <= Count(Null, j) /\ One(j)' <= One(j)
          /\ Count(Null, j) + One(j) <= 1 /\ Count(Null, j) \in Nat
          /\ Count(Null, j)' \in Nat /\ One(j) \in {0, 1} /\ One(j)' \in {0, 1}
      BY <1>a, <2>4
    <3> HIDE DEF One
    <3> QED
      BY <3>1
  <2>6. JobsInv'
    BY <1>b, <1>c, <1>d, <2>3, <2>4, <2>5
  <2>7. EndInv'
    BY <1>c, <1>e, <2>1, <2>2, <2>3
  <2> QED
    BY <2>6, <2>7
<1>11. ASSUME NEW n, GetReturns(n) \/ PutReturns(n) PROVE JobsInv' /\ EndInv'
  <2>1. /\ Resumes("control", n) /\ "control" \in alive
        /\ UNCHANGED <<port, fate>>
        /\ \/ /\ job' = [job EXCEPT !["compute"] = "armed"]
              /\ UNCHANGED <<signal, alive>>
           \/ /\ signal' = TRUE /\ alive' = alive \ {"control"} /\ UNCHANGED job
    BY <1>11 DEF GetReturns, PutReturns, Compute
  <2>2. /\ n.kind = "compute" /\ fate = "fine"
        /\ job["compute"] = "none" /\ Count(Null, "compute") = 1
        /\ \A j \in Jobs : Count(Null, j)' =
                              IF j = "compute" THEN 0 ELSE Count(Null, j)
    BY <1>9, <1>b, <2>1
  <2>3. ASSUME NEW j \in Jobs \ {"compute"}
        PROVE  Count(Null, j)' = Count(Null, j) /\ job'[j] = job[j]
    BY <2>1, <2>2 DEF TypeOK
  <2>4. CASE job' = [job EXCEPT !["compute"] = "armed"] /\ UNCHANGED <<signal, alive>>
    <3>1. job'["compute"] = "armed"
      BY <1>b, <2>4 DEF TypeOK
    <3>2. Count(Null, "compute")' + One("compute")' = 1
      BY <1>b, <2>2, <3>1
    <3>3. \A j \in Jobs : Count(Null, j)' + One(j)' <= 1
      BY <1>a, <2>3, <3>2
    <3>4. JobsInv'
      BY <1>b, <1>c, <1>d, <2>1, <2>2, <2>3, <2>4, <3>2, <3>3
    <3>5. EndInv'
      BY <1>b, <1>c, <1>e, <2>1, <2>2, <2>3, <2>4
    <3> QED
      BY <3>4, <3>5
  <2>5. CASE signal' = TRUE /\ alive' = alive \ {"control"} /\ UNCHANGED job
    <3>1. Count(Null, "compute")' + One("compute")' = 0
      BY <1>b, <2>2, <2>5
    <3>2. \A j \in Jobs : Count(Null, j)' + One(j)' <= 1
      BY <1>a, <2>3, <3>1
    <3>3. JobsInv'
      BY <1>b, <1>c, <1>d, <2>1, <2>2, <2>3, <2>5, <3>1, <3>2
    <3>4. EndInv'
      BY <1>b, <1>c, <1>e, <2>1, <2>2, <2>5
    <3> QED
      BY <3>3, <3>4
  <2> QED
    BY <2>1, <2>4, <2>5
<1>12. ASSUME NEW s \in {"service", "control"}, NEW n, Stray(s, n)
       PROVE  JobsInv' /\ EndInv'
  <2>1. /\ Resumes(s, n) /\ s \notin alive /\ fate' = "stray"
        /\ UNCHANGED <<port, job, alive, signal>>
    BY <1>12 DEF Stray, taskVars
  <2>2. /\ s = "control" <=> n.kind = "compute"
        /\ n.kind \in Jobs => Count(Null, n.kind) = 1 /\ job[n.kind] = "none"
        /\ \A j \in Jobs : Count(Null, j)' = IF j = n.kind THEN 0 ELSE Count(Null, j)
    BY <1>9, <2>1
  <2>3. s = "service"
    <3>1. ASSUME s = "control" PROVE FALSE
      <4>1. Count(Null, "compute") = 1 /\ job["compute"] = "none"
        BY <1>b, <2>2, <3>1
      <4> QED
        BY <1>c, <2>1, <3>1, <4>1
    <3> QED
      BY <3>1
  <2>4. signal /\ alive = {}
    BY <1>b, <1>c, <2>1, <2>3
  <2>5. ASSUME NEW j \in Jobs PROVE Count(Null, j)' + One(j)' <= 1
    <3>1. Count(Null, j) + One(j) <= 1 /\ Count(Null, j)' <= Count(Null, j)
      BY <1>a, <2>2
    <3>2. One(j)' = One(j) /\ One(j) \in {0, 1}
      BY <2>1
    <3> HIDE DEF One
    <3> QED
      BY <1>a, <3>1, <3>2
  <2>6. JobsInv'
    <3>1. Count(Null, "compute")' = Count(Null, "compute")
      BY <1>b, <2>2, <2>3
    <3> QED
      BY <1>c, <1>d, <2>1, <2>4, <2>5, <3>1
  <2>7. EndInv'
    BY <1>c, <1>e, <2>1, <2>4
  <2> QED
    BY <2>6, <2>7
<1>13. CASE Tasks
  <2>1. PICK n : \/ HandleConnection(n) \/ HandleWatcher(n) \/ HandleShutdown(n)
                 \/ GetReturns(n) \/ PutReturns(n)
                 \/ Stray("service", n) \/ Stray("control", n)
    BY <1>13 DEF Tasks
  <2> QED
    BY <1>7, <1>8, <1>10, <1>11, <1>12, <2>1
<1>14. CASE Kernel
  BY <1>2, <1>3, <1>14 DEF Kernel, Kinds
<1>15. CASE Pool
  BY <1>4, <1>5, <1>15, <1>b DEF Pool
<1> QED
  BY <1>2, <1>13, <1>14, <1>15 DEF Next, Loop

(* The event is signaled only while a client waits and nothing listens.    *)
LEMMA EventKept ==
    ASSUME ServerInv, TypeOK', [Next]_vars
    PROVE  EventInv'
<1> USE DEF ServerInv
<1> SUFFICES ASSUME fate' = "fine", "service" \in alive'
             PROVE  /\ event' => backlog' > 0 /\ Listening' = {}
                    /\ job'["accept_watcher"] = "closed" => event'
                    /\ Count(Null, "accept_watcher")' > 0 => event'
  BY DEF EventInv
<1> DEFINE Goal == /\ event' => backlog' > 0 /\ Listening' = {}
                   /\ job'["accept_watcher"] = "closed" => event'
                   /\ Count(Null, "accept_watcher")' > 0 => event'
           a == "accept_watcher"
<1>a. /\ Null \in Conns \cup {Null} /\ a \in NoteKinds /\ a \in Jobs /\ a \notin Kinds
      /\ Count(Null, a) \in Nat /\ Count(Null, a)' \in Nat
      /\ job \in [Jobs -> JobStates]
  BY KindFacts, Counts, CountsNext DEF CountFacts, TypeOK
<1>b. ASSUME fate = "fine", "service" \in alive
      PROVE  /\ event => backlog > 0 /\ Listening = {}
             /\ job[a] = "closed" => event
             /\ Count(Null, a) > 0 => event
  BY <1>b DEF EventInv
<1>1. CASE \/ TakeNotification \/ NoNotification \/ DispatchReturns
           \/ Arrive \/ UNCHANGED vars
  <2>1. /\ UNCHANGED <<job, event, alive, fate>>
        /\ backlog' = backlog \/ backlog' = backlog + 1
    BY <1>1 DEF TakeNotification, NoNotification, DispatchReturns, Arrive,
         clientVars, taskVars, vars
  <2>2. TakeNotification \/ NoNotification \/ UNCHANGED <<port, queue, batch>>
    BY <1>1 DEF DispatchReturns, Arrive, loopVars, vars
  <2>3. Count(Null, a)' = Count(Null, a)
    BY <1>a, <2>2, Moved
  <2>4. Listening' = Listening
    BY <1>1, ListenersStay DEF Others, Loop
  <2> QED
    BY <1>b, <2>1, <2>3, <2>4 DEF TypeOK
<1>2. ASSUME NEW c \in Conns, Accept(c) PROVE Goal
  <2>1. c \in Listening /\ fate = "fine" /\ "service" \in alive
        /\ UNCHANGED <<event, job, port, queue, batch>>
    BY <1>2 DEF Accept, Up, taskVars, loopVars
  <2>2. Count(Null, a)' = Count(Null, a)
    BY <2>1, CountStays
  <2> QED
    BY <1>b, <2>1, <2>2
<1>3. ASSUME NEW c \in Conns, NEW e \in Kinds,
             (CompleteAccept(c) /\ e = "NEW") \/ Complete(c, e)
      PROVE  Goal
  <2>1. /\ UNCHANGED <<job, event, alive, fate, backlog, queue, batch>>
        /\ port' = Append(port, Note(c, e))
    BY <1>3 DEF CompleteAccept, Complete, clientVars, taskVars, loopVars
  <2>2. \A d \in Conns \cup {Null}, k \in NoteKinds :
           Count(d, k)' = Count(d, k) + IF d = c /\ k = e THEN 1 ELSE 0
    BY <2>1, Posted, KindFacts
  <2>3. Count(Null, a)' = Count(Null, a)
    BY <1>a, <2>2
  <2>4. Listening' = Listening
    BY <1>3, ListenersStay DEF Others
  <2> QED
    BY <1>b, <2>1, <2>3, <2>4
<1>4. CASE SelectAccept
  <2>1. /\ backlog > 0 /\ Listening = {} /\ event' = TRUE /\ UNCHANGED backlog
    BY <1>4 DEF SelectAccept, clientVars
  <2>2. Listening' = Listening
    BY <1>4, ListenersStay DEF Others
  <2> QED
    BY <2>1, <2>2
<1>5. ASSUME NEW j \in Jobs, Release(j) \/ (Execute /\ j = "compute") PROVE Goal
  <2>1. /\ job' = [job EXCEPT ![j] = "closed"] /\ (j = a => event)
        /\ UNCHANGED <<event, alive, fate, backlog, port, queue, batch>>
    BY <1>5 DEF Release, Execute, clientVars, loopVars
  <2>2. Listening' = Listening
    BY <1>5, ListenersStay DEF Others, Pool
  <2>3. Count(Null, a)' = Count(Null, a)
    BY <2>1, CountStays
  <2>4. job'[a] = IF j = a THEN "closed" ELSE job[a]
    BY <1>a, <2>1
  <2> QED
    BY <1>b, <2>1, <2>2, <2>3, <2>4
<1>6. ASSUME NEW j \in Jobs, ReportCompletion(j) PROVE Goal
  <2>1. /\ job[j] = "closed" /\ job' = [job EXCEPT ![j] = "none"]
        /\ port' = Append(port, Note(Null, j))
        /\ UNCHANGED <<event, alive, fate, backlog, queue, batch>>
    BY <1>6 DEF ReportCompletion, clientVars, loopVars
  <2>2. Listening' = Listening
    BY <1>6, ListenersStay DEF Others, Pool
  <2>3. Count(Null, a)' = Count(Null, a) + IF Null = Null /\ a = j THEN 1 ELSE 0
    <3>1. j \in NoteKinds
      BY KindFacts
    <3> QED
      BY <1>a, <2>1, <3>1, Posted, ZenonT(60)
  <2>4. job'[a] = IF j = a THEN "none" ELSE job[a]
    BY <1>a, <2>1
  <2>5. CASE j = a
    BY <1>b, <2>1, <2>2, <2>4, <2>5
  <2>6. CASE j # a
    <3>1. Count(Null, a)' = Count(Null, a)
      BY <1>a, <2>3, <2>6
    <3> QED
      BY <1>b, <2>1, <2>2, <2>4, <2>6, <3>1
  <2> QED
    BY <2>5, <2>6
<1>7. ASSUME NEW n, \/ HandleConnection(n) \/ HandleShutdown(n)
                    \/ GetReturns(n) \/ PutReturns(n)
      PROVE  Goal
  <2>1. PICK s \in {"service", "control"} : Resumes(s, n)
    BY <1>7 DEF HandleConnection, HandleShutdown, GetReturns, PutReturns
  <2>2. /\ UNCHANGED <<event, fate, backlog, port>>
        /\ "service" \in alive /\ fate = "fine"
    BY <1>7 DEF HandleConnection, HandleShutdown, GetReturns, PutReturns, LoopTest,
         Compute, Resumes, Up
  <2>3. Listening' = Listening
    BY <1>7, ListenersStay DEF Others
  <2>4. job'[a] = job[a] \/ job'[a] = "none"
    <3>1. CASE LoopTest(job)
      BY <1>a, <3>1 DEF LoopTest
    <3>2. CASE job' = [job EXCEPT !["compute"] = "armed"] \/ UNCHANGED job
      BY <1>a, <3>2
    <3> QED
      BY <1>7, <3>1, <3>2
         DEF HandleConnection, HandleShutdown, GetReturns, PutReturns, Compute
  <2>5. Count(Null, a)' <= Count(Null, a)
    <3>1. Count(Null, a)' + (IF Null = n.connection /\ a = n.kind THEN 1 ELSE 0)
             = Count(Null, a)
      BY <1>a, <2>1, <2>2, Consumed
    <3> QED
      BY <1>a, <3>1
  <2> QED
    BY <1>a, <1>b, <2>2, <2>3, <2>4, <2>5
<1>8. ASSUME NEW n, HandleWatcher(n) PROVE Goal
  <2>1. ~event' /\ Count(Null, a)' = 0 /\ LoopTest(Rewatched)
    BY <1>8, ListenerAdded
  <2>2. job' = Rewatched
    BY <2>1 DEF LoopTest
  <2>3. job'[a] = "armed"
    BY <1>a, <2>2 DEF Rewatched
  <2> QED
    BY <2>1, <2>3
<1>9. ASSUME NEW n, Stray("service", n) \/ Stray("control", n) PROVE FALSE
  BY <1>9 DEF Stray
<1>10. CASE Others
  BY <1>1, <1>3, <1>4, <1>5, <1>6, <1>7, <1>9, <1>10, KindFacts
     DEF Others, Pool, Loop, Kinds
<1> QED
  BY <1>2, <1>8, <1>10, Steps

(* Every byte is in the buffer, or was written in its turn.                *)
LEMMA ConsoleKept ==
    ASSUME ServerInv, TypeOK', [Next]_vars
    PROVE  ConsoleInv'
<1> USE DEF ServerInv
<1> DEFINE k == console
<1>a. /\ k \in Console /\ job \in [Jobs -> JobStates] /\ "compute" \in Jobs
      /\ k.op \in {"get", "put"} /\ k.base \in Nat /\ k.used \in Nat /\ k.pass \in Nat
      /\ k.result \in Nat /\ k.taken \in Nat /\ Len(k.out) \in Nat
      /\ InputSize \in Nat
  <2>1. console \in Console
    BY DEF TypeOK
  <2>2. k.out \in Seq(1..InputSize)
    BY <2>1, ConsoleTypes
  <2>3. Len(k.out) \in Nat
    BY <2>2
  <2>4. /\ k.base \in Nat /\ k.used \in Nat /\ k.pass \in Nat
        /\ k.result \in Nat /\ k.taken \in Nat
        /\ k.op \in {"get", "put"} /\ InputSize \in Nat
    BY <2>1, ConsoleTypes
  <2>5. job \in [Jobs -> JobStates] /\ "compute" \in Jobs
    BY KindFacts DEF TypeOK
  <2> QED
    BY <2>1, <2>3, <2>4, <2>5
<1>b. /\ Len(k.out) <= k.taken
      /\ \A i \in DOMAIN k.out : k.out[i] = i
      /\ k.pass <= k.used
      /\ k.op = "put" =>
            /\ k.pass < k.used /\ k.taken = k.base + k.used
            /\ job["compute"] = "armed" => Len(k.out) = k.base + k.pass
            /\ job["compute"] # "armed" =>
                  /\ Len(k.out) = k.base + k.pass + k.result
                  /\ k.pass + k.result <= k.used
      /\ k.op = "get" =>
            /\ job["compute"] = "armed" => Len(k.out) = k.taken
            /\ job["compute"] # "armed" /\ k.result > 0 =>
                  Len(k.out) = k.base /\ k.taken = k.base + k.result
            /\ job["compute"] # "armed" /\ k.result = 0 =>
                  Len(k.out) = k.taken /\ (k.taken = InputSize \/ k.failed)
      /\ "control" \notin alive =>
            k.op = "get" /\ k.result = 0 /\ job["compute"] = "none"
  BY DEF ConsoleInv
<1>1. ASSUME UNCHANGED console, "control" \in alive' <=> "control" \in alive,
             job'["compute"] = job["compute"]
      PROVE  ConsoleInv'
  BY <1>1, <1>b DEF ConsoleInv
<1>2. CASE Kernel \/ Loop \/ UNCHANGED vars
  <2>1. UNCHANGED <<console, job, alive>>
    BY <1>2 DEF Kernel, Arrive, SelectAccept, Accept, CompleteAccept, Complete,
       Loop, TakeNotification, NoNotification, DispatchReturns, taskVars, vars
  <2> QED
    BY <1>1, <2>1
<1>3. ASSUME NEW j \in Jobs, Release(j) \/ ReportCompletion(j) PROVE ConsoleInv'
  <2>1. UNCHANGED <<console, alive>>
    BY <1>3 DEF Release, ReportCompletion
  <2>2. CASE j = "compute"
    <3>1. job["compute"] = "closed" /\ job'["compute"] = "none"
      BY <1>3, <1>a, <2>2 DEF Release, ReportCompletion
    <3>2. "control" \in alive
      BY <1>b, <3>1
    <3> QED
      BY <1>b, <2>1, <3>1, <3>2 DEF ConsoleInv
  <2>3. CASE j # "compute"
    <3>1. job'["compute"] = job["compute"]
      BY <1>3, <1>a, <2>3 DEF Release, ReportCompletion
    <3> QED
      BY <1>1, <2>1, <3>1
  <2> QED
    BY <2>2, <2>3
<1>4. CASE Execute
  <2>1. /\ job["compute"] = "armed" /\ job'["compute"] = "closed"
        /\ UNCHANGED alive /\ "control" \in alive
    <3>1. job["compute"] = "armed" /\ job'["compute"] = "closed" /\ UNCHANGED alive
      BY <1>4, <1>a DEF Execute
    <3> QED
      BY <1>b, <3>1
  <2>2. CASE k.op = "get" /\ console' \in Gets(console)
    <3>1. /\ console'.op = "get" /\ console'.out = k.out
          /\ console'.used = k.used /\ console'.pass = k.pass
          /\ console'.base = k.taken /\ console'.taken = console'.base + console'.result
          /\ console'.result = 0 <=> k.taken = InputSize
          /\ console'.result \in Nat
      <4>1. console' \in Console
        BY <1>a, <2>2, Gotten
      <4>2. console'.result \in Nat
        BY <4>1, ConsoleTypes
      <4> QED
        BY <1>a, <2>2, <4>2, Gotten
    <3> QED
      BY <1>a, <1>b, <2>1, <2>2, <3>1 DEF ConsoleInv
  <2>3. CASE k.op = "get" /\ console' \in Throws(console)
    <3>1. console' = [k EXCEPT !.result = 0, !.failed = TRUE]
      BY <2>3 DEF Throws
    <3>2. /\ console'.op = "get" /\ console'.out = k.out
          /\ console'.used = k.used /\ console'.pass = k.pass
          /\ console'.base = k.base /\ console'.taken = k.taken
          /\ console'.result = 0 /\ console'.failed = TRUE
      BY <1>a, <2>3, <3>1 DEF Console
    <3> QED
      BY <1>a, <1>b, <2>1, <2>3, <3>2 DEF ConsoleInv
  <2>4. CASE k.op = "put" /\ console' \in Puts(console)
    <3>1. /\ console'.op = "put" /\ console'.used = k.used
          /\ console'.pass = k.pass /\ console'.base = k.base
          /\ console'.taken = k.taken
          /\ console'.result \in 0..(k.used - k.pass)
          /\ Len(console'.out) = k.base + k.pass + console'.result
          /\ \A i \in DOMAIN console'.out : console'.out[i] = i
      BY <1>a, <2>1, <2>4, Written
    <3> QED
      BY <1>a, <1>b, <2>1, <2>4, <3>1, SMTT(30) DEF ConsoleInv
  <2> QED
    BY <1>4, <1>a, <2>2, <2>3, <2>4 DEF Execute
<1>5. ASSUME NEW jobs \in [Jobs -> JobStates], LoopTest(jobs),
             jobs["compute"] = job["compute"], UNCHANGED console
      PROVE  ConsoleInv'
  <2>1. job'["compute"] = job["compute"]
    BY <1>5, <1>a DEF LoopTest
  <2>2. "control" \in alive' <=> "control" \in alive
    BY <1>5 DEF LoopTest
  <2> QED
    BY <1>1, <1>5, <2>1, <2>2
<1>6. ASSUME NEW n, HandleConnection(n) \/ HandleShutdown(n) PROVE ConsoleInv'
  BY <1>5, <1>6, <1>a DEF HandleConnection, HandleShutdown
<1>7. ASSUME NEW n, HandleWatcher(n) PROVE ConsoleInv'
  <2>1. PICK late \in SUBSET Slow, c \in Candidates :
           IF late \subseteq held THEN Relisten(late, c)
           ELSE fate' = "broken" /\ UNCHANGED <<held, taskVars, port>>
    BY <1>7 DEF HandleWatcher
  <2>2. CASE Relisten(late, c)
    <3>1. Rewatched \in [Jobs -> JobStates] /\ Rewatched["compute"] = job["compute"]
      BY <1>a DEF Rewatched, JobStates
    <3> QED
      BY <1>5, <2>2, <3>1 DEF Relisten
  <2> QED
    BY <1>1, <2>1, <2>2 DEF taskVars
<1>8. ASSUME NEW n, GetReturns(n) PROVE ConsoleInv'
  <2>1. job["compute"] = "none" /\ k.op = "get"
    BY <1>8, <1>a, Resumed DEF GetReturns
  <2>2. CASE k.result > 0
    <3>1. /\ console' = [k EXCEPT !.op = "put", !.used = k.result, !.pass = 0]
          /\ job'["compute"] = "armed" /\ UNCHANGED alive
      BY <1>8, <1>a, <2>2 DEF GetReturns, Compute
    <3>2. /\ console'.op = "put" /\ console'.out = k.out
          /\ console'.used = k.result /\ console'.pass = 0
          /\ console'.base = k.base /\ console'.taken = k.taken
      BY <1>a, <3>1 DEF Console
    <3>3. "control" \in alive
      BY <1>8 DEF GetReturns
    <3> QED
      BY <1>a, <1>b, <2>1, <2>2, <3>1, <3>2, <3>3 DEF ConsoleInv
  <2>3. CASE ~(k.result > 0)
    <3>1. UNCHANGED <<console, job>>
      BY <1>8, <2>3 DEF GetReturns
    <3>2. k.result = 0
      BY <1>a, <2>3
    <3> QED
      BY <1>b, <2>1, <3>1, <3>2 DEF ConsoleInv
  <2> QED
    BY <2>2, <2>3
<1>9. ASSUME NEW n, PutReturns(n) PROVE ConsoleInv'
  <2> DEFINE pass == k.pass + k.result
  <2>1. job["compute"] = "none" /\ k.op = "put"
    BY <1>9, <1>a, Resumed DEF PutReturns
  <2>2. /\ console' = [k EXCEPT !.pass = pass,
                                !.op = IF pass < k.used THEN "put" ELSE "get"]
        /\ job'["compute"] = "armed" /\ UNCHANGED alive /\ "control" \in alive
    BY <1>9, <1>a DEF PutReturns, Compute
  <2>3. /\ console'.op = IF pass < k.used THEN "put" ELSE "get"
        /\ console'.out = k.out
        /\ console'.used = k.used /\ console'.pass = pass
        /\ console'.base = k.base /\ console'.taken = k.taken
    BY <1>a, <2>2 DEF Console
  <2>4. CASE pass < k.used
    BY <1>a, <1>b, <2>1, <2>2, <2>3, <2>4 DEF ConsoleInv
  <2>5. CASE ~(pass < k.used)
    <3>1. pass = k.used
      BY <1>a, <1>b, <2>1, <2>5
    <3> QED
      BY <1>a, <1>b, <2>1, <2>2, <2>3, <2>5, <3>1 DEF ConsoleInv
  <2> QED
    BY <2>4, <2>5
<1>10. ASSUME NEW n, Stray("service", n) \/ Stray("control", n) PROVE ConsoleInv'
  BY <1>1, <1>10 DEF Stray, taskVars
<1>11. CASE Tasks
  <2>1. PICK n : \/ HandleConnection(n) \/ HandleWatcher(n) \/ HandleShutdown(n)
                 \/ GetReturns(n) \/ PutReturns(n)
                 \/ Stray("service", n) \/ Stray("control", n)
    BY <1>11 DEF Tasks
  <2> QED
    BY <1>6, <1>7, <1>8, <1>9, <1>10, <2>1
<1> QED
  BY <1>2, <1>3, <1>4, <1>11 DEF Next, Pool

----------------------------------------------------------------------------
(* The invariant holds.                                                    *)

LEMMA ServerInit == Init => ServerInv
<1> SUFFICES ASSUME Init PROVE ServerInv
  OBVIOUS
<1> DEFINE first == CHOOSE c \in Conns : TRUE
<1>1. TypeOK
  BY TypeInit
<1>2. \A c \in Conns \cup {Null}, k \in NoteKinds : Count(c, k) = 0
  <2>1. ToSet(port) = {} /\ ToSet(queue) = {} /\ ToSet(batch) = {}
    BY EmptySet DEF Init
  <2> QED
    BY <1>1, <2>1, Counts DEF CountFacts
<1>3. first \in Conns
  <2>1. Conns # {}
    BY FS_EmptySet, ServerAssumption
  <2> QED
    BY <2>1
<1>4. \A c \in Conns : life[c] = IF c = first THEN Accepting(Unborn) ELSE Unborn
  BY DEF Init
<1> HIDE DEF first
<1>5. /\ Unborn.phase = "idle" /\ Unborn.pool = "none" /\ ~Unborn.new /\ ~Unborn.del
      /\ Unborn.io = 0
      /\ Accepting(Unborn).phase = "accept" /\ Accepting(Unborn).pool = "listen"
      /\ Accepting(Unborn).new /\ ~Accepting(Unborn).del /\ Accepting(Unborn).io = 0
  BY DEF Unborn, Accepting
<1>6. LoopInv
  BY EmptySet DEF Init, LoopInv
<1>7. LifeInv
  <2>1. Sound(Unborn) /\ Sound(Accepting(Unborn))
    BY <1>5 DEF Sound, Outstanding
  <2> QED
    BY <1>4, <2>1 DEF LifeInv
<1>8. NotificationsAreAwaited /\ HeldInv
  <2>1. \A c \in Conns : Count(c, "NEW") = 0 /\ Count(c, "DEL") = 0 /\ Count(c, "IO") = 0
    BY <1>2, KindFacts
  <2>2. \A c \in Conns : life[c].io = 0 /\ life[c].phase # "closing"
    BY <1>4, <1>5
  <2>3. held = {}
    BY DEF Init
  <2> QED
    BY <2>1, <2>2, <2>3 DEF NotificationsAreAwaited, HeldInv
<1>9. /\ \A j \in Jobs : Count(Null, j) = 0 /\ job[j] = "armed"
      /\ alive = {"service", "control"} /\ fate = "fine" /\ ~signal /\ ~event
  BY <1>2, KindFacts DEF Init
<1>10. JobsInv
  BY <1>9, KindFacts DEF JobsInv, Coming, WatchersAreWatching
<1>11. EndInv
  BY <1>9, KindFacts DEF EndInv, StrayOnlyAtTheEnd
<1>12. EventInv
  BY <1>9, KindFacts DEF EventInv
<1>13. RoomInv
  <2>1. Made = {first}
    BY <1>3, <1>4, <1>5 DEF Made
  <2>2. Listening = {first}
    <3>1. \A c \in Conns : Count(c, "NEW") = 0 /\ c \notin held
      BY <1>2, KindFacts DEF Init
    <3>2. \A c \in Conns : Listens(c) <=> c = first
      BY <1>4, <1>5, <3>1 DEF Listens
    <3> QED
      BY <1>3, <3>2, ListeningIs
  <2>3. backlog = 0 /\ arrived = 0
    BY DEF Init
  <2>4. Cardinality(Made) = 1 /\ Cardinality(Listening) = 1
    BY <2>1, <2>2, FS_Singleton
  <2> QED
    BY <2>3, <2>4 DEF RoomInv
<1>14. ConsoleInv
  BY <1>9, ConsoleTypes, KindFacts DEF Init, ConsoleInv
<1> QED
  BY <1>1, <1>6, <1>7, <1>8, <1>10, <1>11, <1>12, <1>13, <1>14 DEF ServerInv

LEMMA ServerStep == ServerInv /\ [Next]_vars => ServerInv'
<1> SUFFICES ASSUME ServerInv, [Next]_vars PROVE ServerInv'
  OBVIOUS
<1>1. TypeOK'
  BY TypeStep
<1>2. LoopInv' /\ LifeInv' /\ NotificationsAreAwaited' /\ HeldInv'
  BY <1>1, LoopKept, LifeKept, AwaitedKept
<1>3. JobsInv' /\ EndInv' /\ EventInv' /\ RoomInv' /\ ConsoleInv'
  BY <1>1, JobsKept, EventKept, RoomKept, ConsoleKept
<1> QED
  BY <1>1, <1>2, <1>3 DEF ServerInv

LEMMA ServerAlways == Spec => []ServerInv
BY ServerInit, ServerStep, PTL DEF Spec

----------------------------------------------------------------------------

(* The connections, the sets they are in and the notifications on their    *)
(* way agree in every state: no notification comes to a connection that    *)
(* does not wait for it (echo-server.cpp:960-1074).                        *)
THEOREM ConnectionsAgree == Spec => []ServiceInv
<1>1. ServerInv => ServiceInv
  <2> SUFFICES ASSUME ServerInv PROVE ServiceInv
    OBVIOUS
  <2>1. ASSUME NEW c \in Conns
        PROVE  CASE life[c].pool \in {"none", "unused"} ->
                      life[c].phase = "idle" /\ ~Outstanding(life[c])
                 [] life[c].pool = "active" -> connected(life[c])
                 [] life[c].pool = "listen" -> life[c].phase # "open"
    <3>1. Sound(life[c]) /\ life[c] \in Lives
      BY DEF ServerInv, LifeInv, TypeOK
    <3>2. /\ life[c].phase \in {"idle", "accept", "open", "closing"}
          /\ life[c].pool \in {"none", "unused", "listen", "active"}
      BY <3>1, LifeTypes
    <3> QED
      BY <3>1, <3>2 DEF Sound, connected
  <2> QED
    BY <2>1 DEF ServiceInv, SetsTellTheTruth, ServerInv
<1> QED
  BY <1>1, ServerAlways, PTL

(* The service task never forgets to watch: each time its loop goes round, *)
(* the accept watcher is armed again exactly once                          *)
(* (echo-server.cpp:974-1011).                                             *)
THEOREM WatchersWatch == Spec => []WatchersAreWatching
<1>1. ServerInv => WatchersAreWatching
  BY DEF ServerInv, JobsInv
<1> QED
  BY <1>1, ServerAlways, PTL

(* ControlTask writes what it read, whole and in order, before it signals  *)
(* the shutdown (echo-server.cpp:822-843).                                 *)
THEOREM InputIsCopied == Spec => []CopiesInput
<1>1. ServerInv => CopiesInput
  <2> SUFFICES ASSUME ServerInv PROVE CopiesInput
    OBVIOUS
  <2>1. signal => console.op = "get" /\ console.result = 0 /\ job["compute"] = "none"
    BY DEF ServerInv, EndInv, ConsoleInv
  <2> QED
    BY <2>1 DEF ServerInv, ConsoleInv, CopiesInput
<1> QED
  BY <1>1, ServerAlways, PTL

(* Control goes to a deleted slave only after both tasks have ended, on    *)
(* the order of the control task (echo-server.cpp:955, 1075-1078).         *)
THEOREM StrayComesLast == Spec => []StrayOnlyAtTheEnd
<1>1. ServerInv => StrayOnlyAtTheEnd
  BY DEF ServerInv, EndInv
<1> QED
  BY <1>1, ServerAlways, PTL
=============================================================================
