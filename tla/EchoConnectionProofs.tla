------------------------ MODULE EchoConnectionProofs ------------------------
(***************************************************************************)
(* Proofs of the safety properties of EchoConnection, for buffers of any   *)
(* size and any number of bytes: EchoInv is inductive.  Then the           *)
(* refinement: EchoConnection implements ConnectionLife.                   *)
(***************************************************************************)
EXTENDS EchoConnectionInv, EchoRefinement, SequenceLemmas

LEMMA EmptyKinds ==
    ASSUME NEW q \in Seq(Notification)
    PROVE  Kinds(q) = {} <=> Len(q) = 0
<1>1. DOMAIN q = 1..Len(q) /\ Len(q) \in Nat
  OBVIOUS
<1>2. CASE Len(q) = 0
  BY <1>1, <1>2 DEF Kinds
<1>3. CASE Len(q) # 0
  <2>1. 1 \in DOMAIN q
    BY <1>1, <1>3
  <2>2. q[1].request \in Kinds(q)
    BY <2>1 DEF Kinds
  <2> QED
    BY <1>3, <2>2
<1> QED
  BY <1>2, <1>3

(* post and dispatch, as they change what is on the port.                  *)
LEMMA PortAppend ==
    ASSUME NEW q \in Seq(Notification), NEW n \in Notification
    PROVE  /\ Append(q, n) \in Seq(Notification)
           /\ Kinds(Append(q, n)) = Kinds(q) \cup {n.request}
           /\ ToSet(Append(q, n)) = ToSet(q) \cup {n}
           /\ Kinds(q) \subseteq Bits
           /\ Head(Append(q, n)) = IF Kinds(q) = {} THEN n ELSE Head(q)
<1>1. /\ DOMAIN q = 1..Len(q)
      /\ DOMAIN Append(q, n) = 1..(Len(q) + 1)
      /\ \A i \in 1..Len(q) : Append(q, n)[i] = q[i]
      /\ \A i \in 1..Len(q) : q[i] \in Notification
      /\ Append(q, n)[Len(q) + 1] = n
      /\ Len(q) \in Nat
  OBVIOUS
<1>2. Kinds(Append(q, n)) = Kinds(q) \cup {n.request}
  BY <1>1 DEF Kinds
<1>3. Kinds(q) \subseteq Bits
  BY <1>1 DEF Kinds, Notification
<1>4. Kinds(q) = {} <=> Len(q) = 0
  BY <1>1, EmptyKinds
<1>5. /\ Head(Append(q, n)) = Append(q, n)[1] /\ Head(q) = q[1]
      /\ Append(q, n)[1] = IF Len(q) = 0 THEN n ELSE q[1]
  BY <1>1
<1> QED
  BY <1>2, <1>3, <1>4, <1>5, AppendSet

(* No two notifications of one kind.                                       *)
Distinct(q) == \A i, j \in DOMAIN q : q[i].request = q[j].request => i = j

LEMMA DistinctAppend ==
    ASSUME NEW q \in Seq(Notification), NEW n \in Notification,
           Distinct(q), n.request \notin Kinds(q)
    PROVE  Distinct(Append(q, n))
<1>1. /\ DOMAIN q = 1..Len(q)
      /\ DOMAIN Append(q, n) = 1..(Len(q) + 1)
      /\ \A i \in 1..Len(q) : Append(q, n)[i] = q[i]
      /\ Append(q, n)[Len(q) + 1] = n
      /\ Len(q) \in Nat
  OBVIOUS
<1>2. \A i \in 1..Len(q) : q[i].request # n.request
  BY <1>1 DEF Kinds
<1>3. \A i \in 1..(Len(q) + 1) : i \in 1..Len(q) \/ i = Len(q) + 1
  BY <1>1
<1> QED
  BY <1>1, <1>2, <1>3 DEF Distinct

LEMMA PortTail ==
    ASSUME NEW q \in Seq(Notification), q # <<>>
    PROVE  /\ Head(q) \in Notification /\ Tail(q) \in Seq(Notification)
           /\ Kinds(q) = {Head(q).request} \cup Kinds(Tail(q))
           /\ ToSet(q) = {Head(q)} \cup ToSet(Tail(q))
           /\ Distinct(q) =>
                 Distinct(Tail(q)) /\ Head(q).request \notin Kinds(Tail(q))
<1>1. /\ DOMAIN q = 1..Len(q)
      /\ DOMAIN Tail(q) = 1..(Len(q) - 1)
      /\ \A i \in 1..(Len(q) - 1) : Tail(q)[i] = q[i + 1]
      /\ Head(q) = q[1]
      /\ Len(q) \in Nat \ {0}
      /\ Head(q) \in Notification /\ Tail(q) \in Seq(Notification)
  OBVIOUS
<1>2. \A i \in 1..Len(q) :
          i = 1 \/ (i - 1 \in 1..(Len(q) - 1) /\ q[i] = Tail(q)[i - 1])
  BY <1>1
<1>3. 1 \in 1..Len(q) /\ \A i \in 1..(Len(q) - 1) : i + 1 \in 1..Len(q)
  BY <1>1
<1>4. Kinds(q) \subseteq {Head(q).request} \cup Kinds(Tail(q))
  <2> SUFFICES ASSUME NEW i \in 1..Len(q)
               PROVE  q[i].request \in {Head(q).request} \cup Kinds(Tail(q))
    BY <1>1 DEF Kinds
  <2> QED
    BY <1>1, <1>2 DEF Kinds
<1>5. {Head(q).request} \cup Kinds(Tail(q)) \subseteq Kinds(q)
  BY <1>1, <1>3 DEF Kinds
<1>6. ASSUME Distinct(q) PROVE Distinct(Tail(q))
  <2> SUFFICES ASSUME NEW i \in 1..(Len(q) - 1), NEW j \in 1..(Len(q) - 1),
                      Tail(q)[i].request = Tail(q)[j].request
               PROVE  i = j
    BY <1>1 DEF Distinct
  <2>1. i + 1 = j + 1
    BY <1>1, <1>3, <1>6 DEF Distinct
  <2> QED
    BY <2>1
<1>7. ASSUME Distinct(q) PROVE Head(q).request \notin Kinds(Tail(q))
  <2> SUFFICES ASSUME NEW i \in 1..(Len(q) - 1), Tail(q)[i].request = q[1].request
               PROVE  FALSE
    BY <1>1 DEF Kinds
  <2>1. i + 1 = 1
    BY <1>1, <1>3, <1>7 DEF Distinct
  <2> QED
    BY <2>1
<1> QED
  BY <1>1, <1>4, <1>5, <1>6, <1>7, TailSet

LEMMA KindsOf ==
    ASSUME NEW q \in Seq(Notification)
    PROVE  /\ Kinds(q) = {n.request : n \in ToSet(q)}
           /\ Kinds(q) = {} <=> q = <<>>
           /\ ToSet(q) \subseteq Notification
<1>1. /\ DOMAIN q = 1..Len(q) /\ Len(q) \in Nat /\ (q = <<>> <=> Len(q) = 0)
  OBVIOUS
<1>2. Kinds(q) = {n.request : n \in ToSet(q)}
  BY DEF Kinds, ToSet
<1>3. Kinds(q) = {} <=> q = <<>>
  BY <1>1, EmptyKinds
<1> QED
  BY <1>2, <1>3, SetType

LEMMA NoKinds == Kinds(<<>>) = {}
BY DEF Kinds

----------------------------------------------------------------------------
(* What each method does, field by field.                                  *)

SamePlace(c, d) == d.state = c.state /\ d.pool = c.pool /\ d.socket = c.socket
SameBits(c, d) == d.active = c.active /\ d.inflight = c.inflight
SameTimer(c, d) == d.timer = c.timer /\ d.timerReady = c.timerReady
SameBuffers(c, d) == d.getBuffer = c.getBuffer /\ d.putBuffer = c.putBuffer
SameUsed(c, d) == d.getAt = c.getAt /\ d.putAt = c.putAt
SameBytes(c, d) ==
    /\ d.received = c.received /\ d.taken = c.taken
    /\ d.wire = c.wire /\ d.closed = c.closed

LEMMA Checked ==
    ASSUME NEW c \in Connections, NEW ok \in BOOLEAN, NEW site,
           site \in Failures \/ ok \/ c.broken # ""
    PROVE  LET d == Check(c, ok, site) IN
           /\ d \in Connections
           /\ d.broken = "" <=> c.broken = "" /\ ok
           /\ SamePlace(c, d) /\ SameBits(c, d) /\ SameTimer(c, d)
           /\ SameBuffers(c, d) /\ SameUsed(c, d) /\ SameBytes(c, d)
           /\ d.port = c.port
<1>1. site # "" \/ ok \/ c.broken # ""
  BY DEF Failures
<1> QED
  BY <1>1 DEF Check, Connections, SamePlace, SameBits, SameTimer, SameBuffers, SameUsed,
         SameBytes

LEMMA EmptyBuffer == NoBytes \in Buffers /\ Len(NoBytes.bytes) = 0
BY DEF NoBytes, Buffers

LEMMA GetStarted ==
    ASSUME NEW c \in Connections, NEW got \in {NotYet} \cup 0..MaxBytes,
           got # NotYet => c.received + got <= MaxBytes
    PROVE  LET d == StartGet(c, got) IN
           /\ d \in Connections
           /\ d.broken = c.broken
           /\ SamePlace(c, d) /\ SameTimer(c, d) /\ SameBuffers(c, d)
           /\ d.active = c.active
           /\ d.getAt = c.getBuffer /\ d.putAt = c.putAt
           /\ d.taken = c.taken /\ d.wire = c.wire
           /\ got = NotYet =>
                 /\ d.inflight = c.inflight \cup {"GET"}
                 /\ d.port = c.port /\ d.received = c.received
           /\ got # NotYet =>
                 /\ d.inflight = c.inflight
                 /\ d.port = Append(c.port, Note("GET", got, got = 0))
                 /\ d.received = c.received + got
<1>1. CASE got = NotYet
  BY <1>1 DEF StartGet, Connections, SamePlace, SameTimer, SameBuffers, Bits
<1>2. CASE got # NotYet
  <2>1. /\ Note("GET", got, got = 0) \in Notification
        /\ got \in 0..MaxBytes
    BY <1>2 DEF Note, Notification, Bits
  <2>2. c.port \in Seq(Notification) /\ c.received \in 0..MaxBytes
    BY DEF Connections
  <2>3. Append(c.port, Note("GET", got, got = 0)) \in Seq(Notification)
    BY <2>1, <2>2, PortAppend
  <2>4. c.received + got \in 0..MaxBytes
    BY <1>2, <2>1, <2>2, EchoAssumption DEF EchoAssumption
  <2> QED
    BY <1>2, <2>3, <2>4 DEF StartGet, Post, Connections, SamePlace, SameTimer, SameBuffers
<1> QED
  BY <1>1, <1>2

LEMMA DisconnectionInitiated ==
    ASSUME NEW c \in Connections
    PROVE  LET d == initiate_disconnection(c) IN
           /\ d \in Connections
           /\ d.broken = "" <=> c.broken = "" /\ "DEL" \notin c.active
           /\ d.state = "disconnecting" /\ d.pool = c.pool /\ d.socket = c.socket
           /\ d.active = c.active \cup {"DEL"}
           /\ d.inflight = c.inflight \cup {"DEL"}
           /\ SameTimer(c, d) /\ SameBuffers(c, d) /\ SameUsed(c, d)
           /\ SameBytes(c, d)
           /\ d.port = c.port
BY ZenonT(60) DEF initiate_disconnection, Check, Connections, SameTimer, SameBuffers,
       SameUsed, SameBytes, Bits, States, Failures

LEMMA SizeOfEmpty == \A b : b = NoBytes => gsize(b) > 0 /\ gsize(b) = BufferSize
<1>1. gsize(NoBytes) = BufferSize
  BY EchoAssumption DEF EchoAssumption, gsize, NoBytes
<1>2. BufferSize > 0
  BY EchoAssumption DEF EchoAssumption
<1> QED
  BY <1>1, <1>2

(* A get for an empty buffer, when no get is active.                       *)
LEMMA GetInitiated ==
    ASSUME NEW c \in Connections, NEW got \in {NotYet} \cup 0..MaxBytes,
           got # NotYet => c.received + got <= MaxBytes,
           c.broken = "" => "GET" \notin c.active /\ c.getBuffer = NoBytes
    PROVE  LET d == initiate_get(c, got) IN
           /\ d \in Connections
           /\ d.broken = c.broken
           /\ SamePlace(c, d) /\ SameBuffers(c, d)
           /\ d.getAt = c.getBuffer /\ d.putAt = c.putAt
           /\ d.taken = c.taken /\ d.wire = c.wire
           /\ got = NotYet =>
                 /\ d.active = c.active \cup {"GET", "GTO"}
                 /\ d.inflight = c.inflight \cup {"GET"}
                 /\ d.timer = "running" /\ d.timerReady = FALSE
                 /\ d.port = c.port /\ d.received = c.received
           /\ got # NotYet =>
                 /\ d.active = c.active \cup {"GET"}
                 /\ d.inflight = c.inflight
                 /\ SameTimer(c, d)
                 /\ d.port = Append(c.port, Note("GET", got, got = 0))
                 /\ d.received = c.received + got
<1> DEFINE d == Check(Check(c, "GET" \notin c.active, "initiate_get"),
                      gsize(c.getBuffer) > 0, "initiate_get: full")
           e == StartGet(c, got)
<1>1. c.broken # "" \/ (gsize(c.getBuffer) > 0 /\ "GET" \notin c.active)
  BY SizeOfEmpty
<1>2. d = c
  BY <1>1 DEF Check
<1>3. /\ e \in Connections
      /\ e.broken = c.broken
      /\ SamePlace(c, e) /\ SameTimer(c, e) /\ SameBuffers(c, e)
      /\ e.active = c.active
      /\ e.getAt = c.getBuffer /\ e.putAt = c.putAt
      /\ e.taken = c.taken /\ e.wire = c.wire
      /\ got = NotYet =>
            /\ e.inflight = c.inflight \cup {"GET"}
            /\ e.port = c.port /\ e.received = c.received
      /\ got # NotYet =>
            /\ e.inflight = c.inflight
            /\ e.port = Append(c.port, Note("GET", got, got = 0))
            /\ e.received = c.received + got
  BY GetStarted
<1>4. initiate_get(c, got) =
          IF got = NotYet
          THEN [StartTimer([e EXCEPT !.active = @ \cup {"GET"}]) EXCEPT
                    !.active = @ \cup {"GTO"}]
          ELSE [e EXCEPT !.active = @ \cup {"GET"}]
  BY <1>2 DEF initiate_get
<1> HIDE DEF d, e
<1> DEFINE r == initiate_get(c, got)
<1>5. CASE got = NotYet
  <2>1. r = [e EXCEPT !.active = @ \cup {"GET"} \cup {"GTO"},
                      !.timer = "running", !.timerReady = FALSE]
    BY <1>3, <1>4, <1>5 DEF StartTimer, Connections
  <2> HIDE DEF r
  <2>2. /\ r \in Connections
        /\ r.broken = e.broken /\ SamePlace(e, r) /\ SameBuffers(e, r)
        /\ SameUsed(e, r) /\ SameBytes(e, r)
        /\ r.active = e.active \cup {"GET"} \cup {"GTO"}
        /\ r.inflight = e.inflight /\ r.port = e.port
        /\ r.timer = "running" /\ r.timerReady = FALSE
    BY <1>3, <2>1 DEF Connections, SamePlace, SameBuffers, SameUsed, SameBytes, Bits
  <2> QED
    BY <1>3, <1>5, <2>2 DEF r, SamePlace, SameBuffers, SameUsed, SameBytes
<1>6. CASE got # NotYet
  <2>1. r = [e EXCEPT !.active = @ \cup {"GET"}]
    BY <1>4, <1>6
  <2> HIDE DEF r
  <2>2. /\ r \in Connections
        /\ r.broken = e.broken /\ SamePlace(e, r) /\ SameBuffers(e, r)
        /\ SameUsed(e, r) /\ SameBytes(e, r) /\ SameTimer(e, r)
        /\ r.active = e.active \cup {"GET"}
        /\ r.inflight = e.inflight /\ r.port = e.port
    BY <1>3, <2>1
       DEF Connections, SamePlace, SameBuffers, SameUsed, SameBytes, SameTimer, Bits
  <2> QED
    BY <1>3, <1>6, <2>2
       DEF r, SamePlace, SameBuffers, SameUsed, SameBytes, SameTimer
<1> QED
  BY <1>5, <1>6

LEMMA PutInitiated ==
    ASSUME NEW c \in Connections,
           c.broken = "" /\ "PUT" \notin c.active => c.putBuffer.bytes # <<>>
    PROVE  LET d == initiate_put(c) IN
           /\ d \in Connections
           /\ d.broken = "" <=> c.broken = "" /\ "PUT" \notin c.active
           /\ SamePlace(c, d) /\ SameTimer(c, d) /\ SameBuffers(c, d)
           /\ SameBytes(c, d)
           /\ d.active = c.active \cup {"PUT"}
           /\ d.inflight = c.inflight \cup {"PUT"}
           /\ d.getAt = c.getAt /\ d.putAt = c.putBuffer
           /\ d.port = c.port
<1> DEFINE d == Check(c, "PUT" \notin c.active, "initiate_put")
           e == Check(d, ~pdone(d.putBuffer), "initiate_put: empty")
<1>1. /\ d \in Connections
      /\ d.broken = "" <=> c.broken = "" /\ "PUT" \notin c.active
      /\ SamePlace(c, d) /\ SameBits(c, d) /\ SameTimer(c, d)
      /\ SameBuffers(c, d) /\ SameUsed(c, d) /\ SameBytes(c, d)
      /\ d.port = c.port
  <2>1. "initiate_put" \in Failures
    BY DEF Failures
  <2> QED
    BY <2>1, Checked
<1>2. e = d
  BY <1>1 DEF Check, pdone, SameBuffers
<1>3. c.putBuffer = d.putBuffer
  BY <1>1 DEF SameBuffers
<1>4. initiate_put(c) = [d EXCEPT !.inflight = @ \cup {"PUT"},
                                  !.putAt = d.putBuffer,
                                  !.active = @ \cup {"PUT"}]
  <2>1. initiate_put(c) =
            [StartPut(Check(d, ~pdone(c.putBuffer), "initiate_put: empty")) EXCEPT
                !.active = @ \cup {"PUT"}]
    BY DEF initiate_put
  <2> QED
    BY <1>1, <1>2, <1>3, <2>1 DEF StartPut, Connections
<1> DEFINE r == initiate_put(c)
<1> HIDE DEF d, e, r
<1>a. d.putBuffer \in Buffers /\ d.active \cup {"PUT"} \in SUBSET Bits
      /\ d.inflight \cup {"PUT"} \in SUBSET (Bits \ {"GTO"})
  BY <1>1 DEF Connections, Bits
<1>b. r = [d EXCEPT !.inflight = d.inflight \cup {"PUT"}, !.putAt = d.putBuffer,
                    !.active = d.active \cup {"PUT"}]
  BY <1>4 DEF r
<1>c. r \in Connections
  BY <1>1, <1>a, <1>b DEF Connections
<1>5. /\ r \in Connections
      /\ r.broken = d.broken /\ SamePlace(d, r) /\ SameTimer(d, r)
      /\ SameBuffers(d, r) /\ SameBytes(d, r)
      /\ r.active = d.active \cup {"PUT"} /\ r.inflight = d.inflight \cup {"PUT"}
      /\ r.getAt = d.getAt /\ r.putAt = d.putBuffer /\ r.port = d.port
  BY <1>1, <1>b, <1>c, ZenonT(60)
     DEF Connections, SamePlace, SameTimer, SameBuffers, SameBytes
<1> QED
  BY <1>1, <1>5
     DEF r, SamePlace, SameBits, SameTimer, SameBuffers, SameUsed, SameBytes

LEMMA TimerStopped ==
    ASSUME NEW c \in Connections
    PROVE  LET d == StopTimer(c) IN
           /\ d \in Connections
           /\ d.broken = c.broken
           /\ d.pool = c.pool /\ d.socket = c.socket
           /\ SameBuffers(c, d) /\ SameUsed(c, d) /\ SameBytes(c, d)
           /\ d.port = c.port /\ d.inflight = c.inflight
           /\ "GTO" \notin c.active => d = c
           /\ "GTO" \in c.active =>
                 /\ d.timer = "off" /\ d.timerReady = TRUE
                 /\ d.active = IF c.timerReady THEN c.active ELSE c.active \ {"GTO"}
                 /\ d.state = IF c.timerReady THEN "disconnecting" ELSE c.state
BY ZenonT(60) DEF StopTimer, AbortTimer, ResetTimer, Connections, SameBuffers, SameUsed,
       SameBytes, Bits, States

(* The bytes that a get, or an accept, has received.                       *)
LEMMA BytesGot ==
    ASSUME NEW c \in Connections, NEW n \in 0..MaxBytes,
           c.taken + n <= MaxBytes, c.getBuffer = NoBytes
    PROVE  LET d == gused(c, n) IN
           /\ d \in Connections
           /\ d.broken = c.broken
           /\ SamePlace(c, d) /\ SameBits(c, d) /\ SameTimer(c, d) /\ SameUsed(c, d)
           /\ d.putBuffer = c.putBuffer
           /\ d.getBuffer.base = 0 /\ Len(d.getBuffer.bytes) = n
           /\ \A i \in DOMAIN d.getBuffer.bytes : d.getBuffer.bytes[i] = c.taken + i
           /\ d.taken = c.taken + n
           /\ d.received = c.received /\ d.wire = c.wire /\ d.closed = c.closed
           /\ d.port = c.port
<1> DEFINE new == [i \in 1..n |-> c.taken + i]
<1>0. c.taken \in 0..MaxBytes
  BY DEF Connections
<1>1. c.taken \in 0..MaxBytes /\ n \in Nat /\ c.taken + n \in 0..MaxBytes
  BY <1>0, EchoAssumption DEF EchoAssumption
<1>2. new \in Seq(Nat) /\ Len(new) = n
  <2>1. new \in [1..n -> Nat]
    BY <1>1, EchoAssumption DEF EchoAssumption
  <2> QED
    BY <1>1, <2>1, FunctionSeq
<1>3. \A i \in DOMAIN new : new[i] = c.taken + i
  OBVIOUS
<1> HIDE DEF new
<1>4. c.getBuffer.bytes \o new = new
  <2>1. \A s \in Seq(Nat) : <<>> \o s = s
    OBVIOUS
  <2> QED
    BY <1>2, <2>1 DEF NoBytes
<1>5. gused(c, n) = [c EXCEPT !.getBuffer.bytes = new, !.taken = c.taken + n]
  BY <1>4 DEF gused, new
<1>a. \A b \in Buffers : [b EXCEPT !.bytes = new] = [base |-> b.base, bytes |-> new]
  BY DEF Buffers
<1>b. [c.getBuffer EXCEPT !.bytes = new] = [base |-> 0, bytes |-> new]
  BY <1>a, EmptyBuffer DEF NoBytes
<1>6. [base |-> 0, bytes |-> new] \in Buffers
  BY <1>2 DEF Buffers
<1>7. gused(c, n) = [c EXCEPT !.getBuffer = [base |-> 0, bytes |-> new],
                              !.taken = c.taken + n]
  BY <1>5, <1>b DEF Connections
<1> DEFINE r == gused(c, n)
           b == [base |-> 0, bytes |-> new]
<1>8. b \in Buffers /\ b.base = 0 /\ b.bytes = new
  BY <1>6
<1>9. r = [c EXCEPT !.getBuffer = b, !.taken = c.taken + n]
  BY <1>7
<1> HIDE DEF r, b
<1>10. /\ r \in Connections
       /\ r.broken = c.broken
       /\ SamePlace(c, r) /\ SameBits(c, r) /\ SameTimer(c, r) /\ SameUsed(c, r)
       /\ r.putBuffer = c.putBuffer
       /\ r.getBuffer = b
       /\ r.taken = c.taken + n
       /\ r.received = c.received /\ r.wire = c.wire /\ r.closed = c.closed
       /\ r.port = c.port
  BY <1>1, <1>8, <1>9 DEF Connections, SamePlace, SameBits, SameTimer, SameUsed
<1> QED
  BY <1>2, <1>3, <1>8, <1>10 DEF r

(* The put buffer is empty and is packed, as the get buffer that it is now.*)
LEMMA SwappedAndPacked ==
    ASSUME NEW c \in Connections, c.putBuffer.bytes = <<>>
    PROVE  LET d == SwapAndPack(c) IN
           /\ d \in Connections
           /\ d.broken = c.broken
           /\ SamePlace(c, d) /\ SameBits(c, d) /\ SameTimer(c, d) /\ SameUsed(c, d)
           /\ SameBytes(c, d)
           /\ d.getBuffer = NoBytes /\ d.putBuffer = c.getBuffer
           /\ d.port = c.port
<1>1. pack(c.putBuffer) = NoBytes
  <2>1. \A b \in Buffers : [b EXCEPT !.base = 0] = [base |-> 0, bytes |-> b.bytes]
    BY DEF Buffers
  <2>2. c.putBuffer \in Buffers
    BY DEF Connections
  <2> QED
    BY <2>1, <2>2 DEF pack, NoBytes
<1>2. SwapAndPack(c) = [c EXCEPT !.getBuffer = NoBytes, !.putBuffer = c.getBuffer]
  BY <1>1 DEF SwapAndPack, SwapBuffers, Connections
<1> QED
  BY <1>2, EmptyBuffer, ZenonT(60)
     DEF Connections, SamePlace, SameBits, SameTimer, SameUsed, SameBytes

----------------------------------------------------------------------------
(* The kernel and the peer.                                                *)

LEMMA PortIs ==
    ASSUME NEW c \in Connections
    PROVE  /\ c.port \in Seq(Notification)
           /\ PortInv(c) <=> Distinct(c.port) /\ Kinds(c.port) \cap c.inflight = {}
BY DEF Connections, PortInv, Distinct

(* A request other than the timer completes.                               *)
Completes(c, d, n) ==
    /\ n.request \in c.inflight
    /\ d.port = Append(c.port, n) /\ d.inflight = c.inflight \ {n.request}
    /\ d.active = c.active /\ d.state = c.state /\ d.pool = c.pool
    /\ SameTimer(c, d) /\ SameBuffers(c, d) /\ SameUsed(c, d)
    /\ d.taken = c.taken /\ d.broken = c.broken
    /\ d.wire = c.wire \/ n.request = "PUT"

LEMMA PostKept ==
    ASSUME NEW c \in Connections, NEW d \in Connections, NEW n \in Notification,
           Sane(c), Completes(c, d, n)
    PROVE  /\ PortInv(d) /\ BitInv(d) /\ TimerInv(d) /\ BufferInv(d)
           /\ StateInv(d)
           /\ ToSet(d.port) = ToSet(c.port) \cup {n}
           /\ Kinds(d.port) = Kinds(c.port) \cup {n.request}
<1>0. /\ n.request \in c.inflight
      /\ d.port = Append(c.port, n) /\ d.inflight = c.inflight \ {n.request}
      /\ d.active = c.active /\ d.state = c.state /\ d.pool = c.pool
      /\ SameTimer(c, d) /\ SameBuffers(c, d) /\ SameUsed(c, d)
      /\ d.taken = c.taken
      /\ d.wire = c.wire \/ n.request = "PUT"
  BY DEF Completes
<1>1. /\ Kinds(d.port) = Kinds(c.port) \cup {n.request}
      /\ ToSet(d.port) = ToSet(c.port) \cup {n}
      /\ Kinds(c.port) \subseteq Bits
      /\ Kinds(c.port) # {} => Head(d.port) = Head(c.port)
  BY <1>0, PortIs, PortAppend
<1>2. n.request \in Bits \ {"GTO"} /\ n.request \notin Kinds(c.port)
  BY <1>0 DEF Connections, Sane, PortInv
<1>3. PortInv(d)
  <2>1. Distinct(c.port) /\ Kinds(c.port) \cap c.inflight = {}
    BY PortIs DEF Sane
  <2>2. Distinct(d.port)
    BY <1>0, <1>2, <2>1, PortIs, DistinctAppend
  <2>3. Kinds(d.port) \cap d.inflight = {}
    BY <1>0, <1>1, <2>1
  <2> QED
    BY <2>2, <2>3, PortIs
<1>4. BitInv(d)
  BY <1>0, <1>1, <1>2 DEF Sane, BitInv
<1>5. TimerInv(d)
  BY <1>0, <1>1, <1>2 DEF Sane, TimerInv, SameTimer
<1>6. BufferInv(d)
  BY <1>0 DEF Sane, BufferInv, SameBuffers, SameUsed
<1>7. StateInv(d)
  <2>1. ASSUME c.state = "disconnected" PROVE Disconnected(d)
    <3>1. Disconnected(c) /\ BitInv(c)
      BY <2>1 DEF Sane, StateInv
    <3>2. n.request = "NEW" /\ "PUT" \notin c.inflight
      BY <1>0, <3>1, <1>2 DEF Disconnected, BitInv, Bits
    <3> QED
      BY <1>0, <1>1, <3>1, <3>2 DEF Disconnected, SameBuffers
  <2>2. ASSUME c.state = "full_duplex" PROVE FullDuplex(d)
    BY <1>0, <2>2, <1>1 DEF Sane, StateInv, FullDuplex, SameBuffers
  <2>3. ASSUME c.state = "disconnecting" PROVE Disconnecting(d)
    BY <1>0, <2>3, <1>1 DEF Sane, StateInv, Disconnecting
  <2> QED
    BY <1>0, <2>1, <2>2, <2>3 DEF Sane, StateInv
<1> QED
  BY <1>1, <1>3, <1>4, <1>5, <1>6, <1>7

LEMMA TypesOf ==
    ASSUME NEW c \in Connections
    PROVE  /\ c.received \in Nat /\ c.taken \in Nat
           /\ c.received <= MaxBytes /\ c.taken <= MaxBytes
           /\ c.getBuffer \in Buffers /\ c.putBuffer \in Buffers
           /\ c.getBuffer.base \in Nat /\ c.putBuffer.base \in Nat
           /\ c.getBuffer.bytes \in Seq(Nat) /\ c.putBuffer.bytes \in Seq(Nat)
           /\ Len(c.getBuffer.bytes) \in Nat /\ Len(c.putBuffer.bytes) \in Nat
           /\ c.wire \in Seq(Nat) /\ Len(c.wire) \in Nat
           /\ c.port \in Seq(Notification)
           /\ \A n \in ToSet(c.port) : n \in Notification /\ n.size \in Nat
           /\ c.active \subseteq Bits /\ c.inflight \subseteq Bits \ {"GTO"}
           /\ Kinds(c.port) = {n.request : n \in ToSet(c.port)}
<1>1. /\ c.received \in 0..MaxBytes /\ c.taken \in 0..MaxBytes
      /\ c.getBuffer \in Buffers /\ c.putBuffer \in Buffers
      /\ c.wire \in Seq(Nat) /\ c.port \in Seq(Notification)
      /\ c.active \subseteq Bits /\ c.inflight \subseteq Bits \ {"GTO"}
  BY DEF Connections
<1>2. \A b \in Buffers : b.base \in Nat /\ b.bytes \in Seq(Nat)
  BY DEF Buffers
<1>3. \A s \in Seq(Nat) : Len(s) \in Nat
  OBVIOUS
<1>4. \A n \in Notification : n.size \in Nat
  BY EchoAssumption DEF EchoAssumption, Notification
<1>5. \A m \in 0..MaxBytes : m \in Nat /\ m <= MaxBytes
  BY EchoAssumption DEF EchoAssumption
<1>6. \A n \in ToSet(c.port) : n \in Notification
  BY <1>1, SetType
<1> QED
  BY <1>1, <1>2, <1>3, <1>4, <1>5, <1>6, KindsOf

LEMMA Numbers ==
    ASSUME NEW c \in Connections
    PROVE  /\ c.received \in Nat /\ c.taken \in Nat
           /\ c.received <= MaxBytes /\ c.taken <= MaxBytes
           /\ Len(c.getBuffer.bytes) \in Nat /\ Len(c.putBuffer.bytes) \in Nat
           /\ Len(c.wire) \in Nat
BY TypesOf

LEMMA Bounds == BufferSize \in Nat /\ 0 < BufferSize /\ MaxBytes \in Nat
BY EchoAssumption DEF EchoAssumption

(* The bytes are where they were, but for some that the peer has sent.     *)
LEMMA StreamStays ==
    ASSUME NEW c \in Connections, NEW d \in Connections,
           SameBuffers(c, d), d.taken = c.taken, d.wire = c.wire
    PROVE  \A n : Stream(c, n) <=> Stream(d, n)
BY DEF Stream, SameBuffers

LEMMA AcceptKept == EchoInv /\ CompleteAccept => EchoInv'
<1> SUFFICES ASSUME EchoInv, CompleteAccept PROVE EchoInv'
  OBVIOUS
<1>1. PICK k \in 0..MaxBytes : k <= BufferSize
             /\ \E bad \in {k = 0, FALSE} :
                   conn' = Post([Finished("NEW") EXCEPT !.received = k], "NEW", k, bad)
  BY DEF CompleteAccept
<1>2. PICK bad \in {k = 0, FALSE} :
             conn' = Post([Finished("NEW") EXCEPT !.received = k], "NEW", k, bad)
  BY <1>1
<1> DEFINE n == Note("NEW", k, bad)
<1>3. /\ conn \in Connections /\ Sane(conn) /\ conn.broken = ""
      /\ "NEW" \in conn.inflight
  BY DEF EchoInv, CompleteAccept, Running
<1>4. /\ n \in Notification
      /\ n.request = "NEW" /\ n.size = k /\ (n.bad => n.size = 0)
  BY DEF Note, Notification, Bits
<1>5. conn' = [conn EXCEPT !.inflight = @ \ {"NEW"}, !.received = k,
                           !.port = Append(conn.port, n)]
  BY <1>2, <1>3 DEF Post, Finished, Connections
<1> HIDE DEF n
<1>6. Append(conn.port, n) \in Seq(Notification)
  BY <1>3, <1>4, PortAppend, PortIs
<1>7. /\ conn' \in Connections
      /\ Completes(conn, conn', n)
      /\ conn'.received = k /\ conn'.wire = conn.wire
  BY <1>3, <1>4, <1>5, <1>6 DEF Connections, Completes, SameTimer, SameBuffers, SameUsed
<1>8. /\ PortInv(conn') /\ BitInv(conn') /\ TimerInv(conn') /\ BufferInv(conn')
      /\ StateInv(conn')
      /\ ToSet(conn'.port) = ToSet(conn.port) \cup {n}
      /\ Kinds(conn'.port) = Kinds(conn.port) \cup {"NEW"}
  <2>1. conn \in Connections /\ conn' \in Connections /\ n \in Notification
    BY <1>3, <1>4, <1>7
  <2>2. Sane(conn) /\ Completes(conn, conn', n)
    BY <1>3, <1>7
  <2> QED
    BY <2>1, <2>2, <1>4, PostKept
(* Nothing but the accept is there.                                        *)
<1>9. /\ conn.state = "disconnected" /\ conn.active = {"NEW"}
      /\ "PUT" \notin conn.inflight
      /\ ToSet(conn.port) = {}
      /\ conn.taken = 0
  <2>1. /\ conn.state \in {"disconnected", "disconnecting", "full_duplex"}
        /\ StateInv(conn) /\ PortInv(conn) /\ BitInv(conn)
    BY <1>3 DEF Sane, StateInv, Connections, States
  <2>2. conn.state = "disconnected" /\ Disconnected(conn)
    BY <1>3, <2>1 DEF StateInv, FullDuplex, Disconnecting
  <2>3. Kinds(conn.port) = {}
    BY <1>3, <2>1, <2>2 DEF Disconnected, PortInv
  <2>4. conn.port = <<>>
    BY <1>3, <2>3, KindsOf, PortIs
  <2> QED
    BY <1>3, <2>1, <2>2, <2>4, EmptySet DEF Disconnected, BitInv
<1>10. NoteInv(conn')
  <2>1. k \in Nat
    BY EchoAssumption DEF EchoAssumption
  <2>2. ToSet(conn'.port) = {n} /\ conn'.taken = 0 /\ conn'.received = k
    BY <1>7, <1>8, <1>9 DEF Completes
  <2> QED
    BY <1>1, <1>4, <2>1, <2>2 DEF NoteInv
<1>11. StreamInv(conn')
  BY <1>3, <1>7, <1>9 DEF Sane, StreamInv, Completes
<1> QED
  BY <1>7, <1>8, <1>10, <1>11 DEF EchoInv, Sane

(* A completion that leaves the bytes alone: what is received is to come.  *)
LEMMA NotesKept ==
    ASSUME NEW c \in Connections, NEW d \in Connections, NEW n \in Notification,
           Sane(c), Completes(c, d, n), n.request # "PUT",
           d.wire = c.wire, c.received <= d.received,
           n.bad => n.size = 0, n.size <= BufferSize,
           n.request \in {"NEW", "GET"} => c.taken + n.size <= d.received
    PROVE  Sane(d)
<1>1. /\ PortInv(d) /\ BitInv(d) /\ TimerInv(d) /\ BufferInv(d)
      /\ StateInv(d)
      /\ ToSet(d.port) = ToSet(c.port) \cup {n}
      /\ Kinds(d.port) = Kinds(c.port) \cup {n.request}
  BY PostKept
<1>2. NoteInv(d)
  <2>1. /\ d.taken = c.taken /\ d.putBuffer = c.putBuffer
        /\ c.taken \in Nat /\ c.received \in Nat /\ d.received \in Nat
        /\ \A m \in ToSet(c.port) : m.size \in Nat
    BY TypesOf DEF Completes, SameBuffers
  <2>2. /\ c.taken <= c.received
        /\ \A m \in ToSet(c.port) :
              /\ m.bad => m.size = 0
              /\ m.request \in {"NEW", "GET"} =>
                    m.size <= BufferSize /\ c.taken + m.size <= c.received
              /\ m.request = "PUT" => m.size <= Len(c.putBuffer.bytes)
    BY DEF Sane, NoteInv
  <2>3. ASSUME NEW m \in ToSet(c.port), m.request \in {"NEW", "GET"}
        PROVE  m.size <= BufferSize /\ c.taken + m.size <= d.received
    BY <2>1, <2>2, <2>3
  <2>4. c.taken <= d.received
    BY <2>1, <2>2
  <2> QED
    BY <1>1, <2>1, <2>2, <2>3, <2>4 DEF NoteInv
<1>3. StreamInv(d)
  <2>1. \A k : Stream(c, k) <=> Stream(d, k)
    BY StreamStays DEF Completes
  <2>2. /\ d.wire = c.wire /\ d.taken = c.taken /\ d.state = c.state
        /\ "PUT" \in d.inflight <=> "PUT" \in c.inflight
    BY DEF Completes
  <2> QED
    BY <1>1, <2>1, <2>2 DEF Sane, StreamInv
<1> QED
  BY <1>1, <1>2, <1>3 DEF Sane

LEMMA GetKept == EchoInv /\ CompleteGet => EchoInv'
<1> SUFFICES ASSUME EchoInv, CompleteGet PROVE EchoInv'
  OBVIOUS
<1>1. /\ conn \in Connections /\ Sane(conn) /\ conn.broken = ""
      /\ "GET" \in conn.inflight
  BY DEF EchoInv, CompleteGet, Running
<1>2. PICK k \in 0..(MaxBytes - conn.received), bad \in BOOLEAN :
         /\ k <= gsize(conn.getAt)
         /\ bad => k = 0
         /\ conn' = Post([Finished("GET") EXCEPT !.received = @ + k,
                                                 !.closed = k = 0],
                         "GET", k, bad)
  BY DEF CompleteGet
<1> DEFINE n == Note("GET", k, bad)
           r == conn.received + k
<1>3. /\ k \in Nat /\ k \in 0..MaxBytes /\ r \in 0..MaxBytes
      /\ conn.received \in Nat /\ conn.received <= r /\ r \in Nat
  <2>1. conn.received \in Nat /\ conn.received <= MaxBytes
    BY <1>1, TypesOf
  <2>2. k \in Int /\ 0 <= k /\ k <= MaxBytes - conn.received /\ MaxBytes \in Nat
    BY EchoAssumption DEF EchoAssumption
  <2> QED
    BY <2>1, <2>2
<1>4. /\ n \in Notification
      /\ n.request = "GET" /\ n.size = k /\ n.bad = bad
  BY <1>3 DEF Note, Notification, Bits
<1>5. conn' = [conn EXCEPT !.inflight = @ \ {"GET"}, !.received = r,
                           !.closed = k = 0,
                           !.port = Append(conn.port, n)]
  BY <1>1, <1>2 DEF Post, Finished, Connections
<1>6. conn.taken + k <= r
  <2>1. conn.taken <= conn.received /\ conn.taken \in Nat
    BY <1>1, TypesOf DEF Sane, NoteInv
  <2> QED
    BY <1>3, <2>1
<1>7. k <= BufferSize
  <2>1. conn.getAt = NoBytes
    BY <1>1 DEF Sane, BitInv, BufferInv
  <2>2. gsize(conn.getAt) = BufferSize
    BY <2>1, SizeOfEmpty
  <2> QED
    BY <1>2, <2>2
<1> HIDE DEF n, r
<1>8. Append(conn.port, n) \in Seq(Notification)
  BY <1>1, <1>4, PortAppend, PortIs
<1>9. /\ conn' \in Connections
      /\ Completes(conn, conn', n)
      /\ conn'.received = r /\ conn'.wire = conn.wire
  BY <1>1, <1>3, <1>4, <1>5, <1>8
     DEF Connections, Completes, SameTimer, SameBuffers, SameUsed
<1>10. Sane(conn')
  <2>1. conn \in Connections /\ conn' \in Connections /\ n \in Notification
    BY <1>1, <1>4, <1>9
  <2>2. /\ Sane(conn) /\ Completes(conn, conn', n)
        /\ n.request # "PUT" /\ conn'.wire = conn.wire
        /\ conn.received <= conn'.received
        /\ n.bad => n.size = 0
        /\ n.size <= BufferSize
        /\ conn.taken + n.size <= conn'.received
    BY <1>1, <1>2, <1>3, <1>4, <1>6, <1>7, <1>9
  <2> QED
    BY <2>1, <2>2, NotesKept
<1> QED
  BY <1>9, <1>10 DEF EchoInv

LEMMA DisconnectKept == EchoInv /\ CompleteDisconnect => EchoInv'
<1> SUFFICES ASSUME EchoInv, CompleteDisconnect PROVE EchoInv'
  OBVIOUS
<1>1. /\ conn \in Connections /\ Sane(conn) /\ conn.broken = ""
      /\ "DEL" \in conn.inflight
      /\ conn' = Post([Finished("DEL") EXCEPT !.socket = "idle"], "DEL", 0, FALSE)
  BY DEF EchoInv, CompleteDisconnect, Running
<1> DEFINE n == Note("DEL", 0, FALSE)
<1>2. /\ n \in Notification
      /\ n.request = "DEL" /\ n.size = 0 /\ n.bad = FALSE
  BY EchoAssumption DEF EchoAssumption, Note, Notification, Bits
<1>3. conn' = [conn EXCEPT !.inflight = @ \ {"DEL"}, !.socket = "idle",
                           !.port = Append(conn.port, n)]
  BY <1>1 DEF Post, Finished, Connections
<1> HIDE DEF n
<1>4. Append(conn.port, n) \in Seq(Notification)
  BY <1>1, <1>2, PortAppend, PortIs
<1>5. /\ conn' \in Connections
      /\ Completes(conn, conn', n)
      /\ conn'.received = conn.received /\ conn'.wire = conn.wire
  <2>1. conn' \in Connections
    BY <1>1, <1>3, <1>4, ZenonT(60) DEF Connections
  <2> QED
    BY <1>1, <1>2, <1>3, <2>1, ZenonT(60)
       DEF Connections, Completes, SameTimer, SameBuffers, SameUsed
<1>6. Sane(conn')
  <2>1. conn \in Connections /\ conn' \in Connections /\ n \in Notification
    BY <1>1, <1>2, <1>5
  <2>2. /\ Sane(conn) /\ Completes(conn, conn', n)
        /\ n.request # "PUT" /\ conn'.wire = conn.wire
        /\ conn.received <= conn'.received
        /\ n.bad => n.size = 0
        /\ n.size <= BufferSize
        /\ n.request \notin {"NEW", "GET"}
    <3>1. conn.received \in Nat /\ 0 <= BufferSize
      <4>1. conn \in Connections
        BY <1>1
      <4> QED
        BY <4>1, Numbers, Bounds
    <3>2. conn.received <= conn.received
      BY <3>1
    <3> QED
      BY <1>1, <1>2, <1>5, <3>1, <3>2
  <2> QED
    BY <2>1, <2>2, NotesKept
<1> QED
  BY <1>5, <1>6 DEF EchoInv

LEMMA Concat ==
    ASSUME NEW p \in Seq(Nat), NEW q \in Seq(Nat)
    PROVE  /\ p \o q \in Seq(Nat) /\ Len(p \o q) = Len(p) + Len(q)
           /\ DOMAIN (p \o q) = 1..(Len(p) + Len(q))
           /\ \A i \in 1..(Len(p) + Len(q)) :
                 (p \o q)[i] = IF i <= Len(p) THEN p[i] ELSE q[i - Len(p)]
OBVIOUS

(* What a put has sent is what comes next on the wire.                     *)
LEMMA Sent ==
    ASSUME NEW w \in Seq(Nat), NEW b \in Seq(Nat), NEW m \in 0..Len(b),
           \A i \in DOMAIN w : w[i] = i,
           \A i \in DOMAIN b : b[i] = Len(w) + i
    PROVE  LET v == w \o SubSeq(b, 1, m) IN
           /\ v \in Seq(Nat) /\ Len(v) = Len(w) + m
           /\ \A i \in DOMAIN v : v[i] = i
<1> DEFINE s == SubSeq(b, 1, m)
<1>1. /\ s \in Seq(Nat) /\ Len(s) = m
      /\ \A i \in 1..m : s[i] = b[i] /\ i \in DOMAIN b
  OBVIOUS
<1>2. Len(w) \in Nat /\ m \in Nat /\ DOMAIN w = 1..Len(w)
  OBVIOUS
<1> HIDE DEF s
<1>3. /\ w \o s \in Seq(Nat) /\ Len(w \o s) = Len(w) + m
      /\ DOMAIN (w \o s) = 1..(Len(w) + m)
      /\ \A i \in 1..(Len(w) + m) :
            (w \o s)[i] = IF i <= Len(w) THEN w[i] ELSE s[i - Len(w)]
  BY <1>1, Concat
<1>4. ASSUME NEW i \in 1..(Len(w) + m) PROVE (w \o s)[i] = i
  <2>1. CASE i <= Len(w)
    <3>1. i \in DOMAIN w
      BY <1>2, <2>1
    <3> QED
      BY <1>3, <2>1, <3>1
  <2>2. CASE ~(i <= Len(w))
    <3>1. i - Len(w) \in 1..m
      BY <1>2, <2>2
    <3>2. (w \o s)[i] = b[i - Len(w)] /\ i - Len(w) \in DOMAIN b
      BY <1>1, <1>3, <2>2, <3>1
    <3>3. b[i - Len(w)] = Len(w) + (i - Len(w))
      BY <3>2
    <3> QED
      BY <1>2, <3>2, <3>3
  <2> QED
    BY <2>1, <2>2
<1> QED
  BY <1>3, <1>4 DEF s

LEMMA PutKept == EchoInv /\ CompletePut => EchoInv'
<1> SUFFICES ASSUME EchoInv, CompletePut PROVE EchoInv'
  OBVIOUS
<1>1. /\ conn \in Connections /\ Sane(conn) /\ conn.broken = ""
      /\ "PUT" \in conn.inflight
  BY DEF EchoInv, CompletePut, Running
<1>2. PICK m \in 0..Len(conn.putAt.bytes) :
         conn' = Post([Finished("PUT") EXCEPT
                         !.wire = @ \o SubSeq(conn.putAt.bytes, 1, m)],
                      "PUT", m, m = 0)
  BY DEF CompletePut
<1>3. /\ conn.putAt = conn.putBuffer /\ "PUT" \notin Kinds(conn.port)
      /\ "PUT" \in conn.active
  BY <1>1 DEF Sane, BitInv, BufferInv, PortInv
<1>4. Stream(conn, 0)
  BY <1>1, <1>3 DEF Sane, StreamInv
<1> DEFINE p == conn.putBuffer.bytes
           n == Note("PUT", m, m = 0)
           v == conn.wire \o SubSeq(p, 1, m)
<1>5. /\ p \in Seq(Nat) /\ Len(p) \in Nat /\ m \in 0..Len(p) /\ m \in Nat
      /\ Len(conn.getBuffer.bytes) \in Nat
      /\ conn.wire \in Seq(Nat) /\ Len(conn.wire) \in Nat
      /\ conn.taken \in Nat /\ conn.taken <= MaxBytes
  <2>1. m \in 0..Len(conn.putBuffer.bytes)
    BY <1>3
  <2>2. p \in Seq(Nat) /\ conn.wire \in Seq(Nat)
    BY <1>1, TypesOf
  <2>3. /\ Len(conn.getBuffer.bytes) \in Nat /\ Len(p) \in Nat
        /\ Len(conn.wire) \in Nat
        /\ conn.taken \in Nat /\ conn.taken <= MaxBytes
    BY <1>1, Numbers
  <2>4. m \in Nat
    BY <2>1, <2>3
  <2> QED
    BY <2>1, <2>2, <2>3, <2>4
<1>a. Len(conn.wire) + Len(p) + Len(conn.getBuffer.bytes) = conn.taken
  <2>1. Len(conn.wire) - 0 + Len(p) + Len(conn.getBuffer.bytes) = conn.taken
    BY <1>4 DEF Stream
  <2>2. Len(conn.wire) \in Nat
    BY <1>5
  <2>3. Len(conn.wire) - 0 = Len(conn.wire)
    BY <2>2
  <2> QED
    BY <2>1, <2>3
<1>b. m <= Len(p) /\ Len(conn.wire) + m <= conn.taken /\ m <= MaxBytes
  <2> DEFINE a == Len(conn.wire)
             b == Len(p)
             g == Len(conn.getBuffer.bytes)
  <2>1. a \in Nat /\ b \in Nat /\ g \in Nat /\ m \in 0..b /\ a + b + g = conn.taken
    BY <1>5, <1>a
  <2>2. conn.taken \in Nat /\ conn.taken <= MaxBytes /\ MaxBytes \in Nat
    BY <1>5, Bounds
  <2> HIDE DEF a, b, g
  <2>3. m <= b /\ a + m <= conn.taken /\ m <= MaxBytes
    BY <2>1, <2>2
  <2> QED
    BY <2>3 DEF a, b
<1>6. /\ \A i \in DOMAIN p : p[i] = Len(conn.wire) + i
      /\ \A i \in DOMAIN conn.getBuffer.bytes :
            conn.getBuffer.bytes[i] = Len(conn.wire) + Len(p) + i
  <2>1. Len(conn.wire) - 0 = Len(conn.wire)
    BY <1>5
  <2> QED
    BY <1>4, <2>1 DEF Stream
<1>7. /\ v \in Seq(Nat) /\ Len(v) = Len(conn.wire) + m
      /\ \A i \in DOMAIN v : v[i] = i
  <2>1. \A i \in DOMAIN conn.wire : conn.wire[i] = i
    BY <1>1 DEF Sane, StreamInv
  <2> QED
    BY <1>5, <1>6, <2>1, Sent
<1>8. m \in 0..MaxBytes
  BY <1>5, <1>b, Bounds
<1>9. /\ n \in Notification
      /\ n.request = "PUT" /\ n.size = m /\ n.bad = (m = 0)
  BY <1>8 DEF Note, Notification, Bits
<1>10. conn' = [conn EXCEPT !.inflight = @ \ {"PUT"}, !.wire = v,
                            !.port = Append(conn.port, n)]
  BY <1>1, <1>2, <1>3 DEF Post, Finished, Connections
<1> HIDE DEF n, v
<1>11. Append(conn.port, n) \in Seq(Notification)
  BY <1>1, <1>9, PortAppend, PortIs
<1>12. /\ conn' \in Connections
       /\ Completes(conn, conn', n)
       /\ conn'.received = conn.received /\ conn'.wire = v
  BY <1>1, <1>7, <1>9, <1>10, <1>11
     DEF Connections, Completes, SameTimer, SameBuffers, SameUsed
<1>13. /\ PortInv(conn') /\ BitInv(conn') /\ TimerInv(conn') /\ BufferInv(conn')
       /\ StateInv(conn')
       /\ ToSet(conn'.port) = ToSet(conn.port) \cup {n}
       /\ Kinds(conn'.port) = Kinds(conn.port) \cup {n.request}
  <2>1. conn \in Connections /\ conn' \in Connections /\ n \in Notification
    BY <1>1, <1>9, <1>12
  <2>2. Sane(conn) /\ Completes(conn, conn', n)
    BY <1>1, <1>12
  <2> QED
    BY <2>1, <2>2, PostKept
<1>14. conn'.taken = conn.taken /\ SameBuffers(conn, conn')
  BY <1>12 DEF Completes
<1>15. NoteInv(conn')
  <2>1. m <= Len(conn'.putBuffer.bytes) /\ conn'.putBuffer = conn.putBuffer
    BY <1>5, <1>14 DEF SameBuffers
  <2> QED
    BY <1>1, <1>9, <1>12, <1>13, <1>14, <2>1 DEF Sane, NoteInv
<1>16. StreamInv(conn')
  <2>1. Len(v) <= conn'.taken
    BY <1>7, <1>b, <1>14
  <2>2. Stream(conn', m)
    <3>1. Len(v) - m = Len(conn.wire)
      BY <1>5, <1>7
    <3>2. conn'.putBuffer.bytes = p /\ conn'.getBuffer = conn.getBuffer
      BY <1>14 DEF SameBuffers
    <3> QED
      <4>1. m <= Len(p)
        BY <1>5
      <4> QED
        BY <1>a, <1>6, <1>12, <1>14, <3>1, <3>2, <4>1 DEF Stream
  <2>3. \A x \in ToSet(conn'.port) : x.request = "PUT" => x = n
    BY <1>1, <1>3, <1>13, TypesOf
  <2> QED
    BY <1>7, <1>9, <1>12, <1>13, <2>1, <2>2, <2>3 DEF StreamInv
<1> QED
  BY <1>12, <1>13, <1>15, <1>16 DEF EchoInv, Sane

LEMMA ExpireKept == EchoInv /\ Expire => EchoInv'
<1> SUFFICES ASSUME EchoInv, Expire PROVE EchoInv'
  OBVIOUS
<1>1. /\ conn \in Connections /\ Sane(conn) /\ conn.broken = ""
      /\ conn.timer = "running"
      /\ conn' = Post([conn EXCEPT !.timer = "off", !.timerReady = TRUE],
                      "GTO", 0, FALSE)
  BY DEF EchoInv, Expire, Running
<1> DEFINE n == Note("GTO", 0, FALSE)
<1>2. /\ n \in Notification
      /\ n.request = "GTO" /\ n.size = 0 /\ n.bad = FALSE
  BY EchoAssumption DEF EchoAssumption, Note, Notification, Bits
<1>3. conn' = [conn EXCEPT !.timer = "off", !.timerReady = TRUE,
                           !.port = Append(conn.port, n)]
  BY <1>1 DEF Post, Connections
<1> HIDE DEF n
<1>4. /\ Append(conn.port, n) \in Seq(Notification)
      /\ Kinds(Append(conn.port, n)) = Kinds(conn.port) \cup {"GTO"}
      /\ ToSet(Append(conn.port, n)) = ToSet(conn.port) \cup {n}
      /\ Kinds(conn.port) # {} => Head(Append(conn.port, n)) = Head(conn.port)
  <2>1. /\ Append(conn.port, n) \in Seq(Notification)
        /\ Kinds(Append(conn.port, n)) = Kinds(conn.port) \cup {n.request}
        /\ ToSet(Append(conn.port, n)) = ToSet(conn.port) \cup {n}
        /\ Head(Append(conn.port, n)) =
              IF Kinds(conn.port) = {} THEN n ELSE Head(conn.port)
    BY <1>1, <1>2, PortAppend, PortIs
  <2> QED
    BY <1>2, <2>1
<1>5. /\ conn' \in Connections
      /\ SamePlace(conn, conn') /\ SameBits(conn, conn')
      /\ SameBuffers(conn, conn') /\ SameUsed(conn, conn') /\ SameBytes(conn, conn')
      /\ conn'.timer = "off" /\ conn'.timerReady = TRUE
      /\ conn'.port = Append(conn.port, n)
  BY <1>1, <1>3, <1>4, ZenonT(60)
     DEF Connections, SamePlace, SameBits, SameBuffers, SameUsed, SameBytes
<1>6. /\ "GTO" \in conn.active /\ "GTO" \notin Kinds(conn.port)
      /\ "GTO" \notin conn.inflight
  BY <1>1, TypesOf DEF Sane, TimerInv
<1>7. PortInv(conn')
  <2>1. Distinct(conn.port) /\ Kinds(conn.port) \cap conn.inflight = {}
    BY <1>1, PortIs DEF Sane
  <2>2. Distinct(conn'.port)
    BY <1>1, <1>2, <1>5, <1>6, <2>1, PortIs, DistinctAppend
  <2>3. Kinds(conn'.port) \cap conn'.inflight = {}
    BY <1>4, <1>5, <1>6, <2>1 DEF SameBits
  <2> QED
    BY <1>5, <2>2, <2>3, PortIs
<1>8. BitInv(conn')
  BY <1>1, <1>4, <1>5 DEF Sane, BitInv, SameBits
<1>9. TimerInv(conn')
  BY <1>1, <1>4, <1>5, <1>6 DEF TimerInv, SameBits
<1>10. BufferInv(conn')
  BY <1>1, <1>5 DEF Sane, BufferInv, SameBits, SameBuffers, SameUsed
<1>11. NoteInv(conn')
  BY <1>1, <1>2, <1>4, <1>5 DEF Sane, NoteInv, SameBuffers, SameBytes
<1>12. StreamInv(conn')
  <2>1. \A k : Stream(conn, k) <=> Stream(conn', k)
    BY <1>1, <1>5, StreamStays, ZenonT(60) DEF SameBytes
  <2> QED
    BY <1>1, <1>2, <1>4, <1>5, <2>1
       DEF Sane, StreamInv, SameBytes, SameBits, SamePlace
<1>13. StateInv(conn')
  <2>1. conn.state # "disconnected"
    BY <1>1, <1>6 DEF Sane, StateInv, Disconnected
  <2>2. conn.state = "full_duplex" => FullDuplex(conn')
    <3>1. /\ conn'.active = conn.active /\ conn'.inflight = conn.inflight
          /\ conn'.putBuffer = conn.putBuffer
          /\ Kinds(conn'.port) = Kinds(conn.port) \cup {"GTO"}
      BY <1>4, <1>5 DEF SameBits, SameBuffers
    <3> QED
      BY <1>1, <3>1 DEF Sane, StateInv, FullDuplex
  <2>3. conn.state = "disconnecting" => Disconnecting(conn')
    BY <1>1, <1>4, <1>5, <1>6 DEF Sane, StateInv, Disconnecting, SameBits
  <2> QED
    BY <1>1, <1>5, <2>1, <2>2, <2>3 DEF Sane, StateInv, SamePlace
<1> QED
  BY <1>5, <1>7, <1>8, <1>9, <1>10, <1>11, <1>12, <1>13 DEF EchoInv, Sane

LEMMA ConnectKept == EchoInv /\ Connect => EchoInv'
<1> SUFFICES ASSUME EchoInv, Connect PROVE EchoInv'
  OBVIOUS
<1>1. /\ conn \in Connections /\ Sane(conn)
      /\ conn' = [conn EXCEPT !.socket = "connected"]
  BY DEF EchoInv, Connect, Running
<1>2. /\ conn' \in Connections
      /\ conn'.state = conn.state /\ conn'.pool = conn.pool
      /\ SameBits(conn, conn') /\ SameTimer(conn, conn')
      /\ SameBuffers(conn, conn') /\ SameUsed(conn, conn') /\ SameBytes(conn, conn')
      /\ conn'.port = conn.port
  BY <1>1 DEF Connections, SameBits, SameTimer, SameBuffers, SameUsed, SameBytes
<1>3. \A k : Stream(conn, k) <=> Stream(conn', k)
  BY <1>1, <1>2, StreamStays DEF SameBytes
<1>4. PortInv(conn') /\ BitInv(conn') /\ TimerInv(conn') /\ BufferInv(conn')
  BY <1>1, <1>2 DEF Sane, PortInv, BitInv, TimerInv, BufferInv,
                    SameBits, SameTimer, SameBuffers, SameUsed
<1>5. NoteInv(conn') /\ StreamInv(conn')
  BY <1>1, <1>2, <1>3
     DEF Sane, NoteInv, StreamInv, SameBits, SameBuffers, SameBytes
<1>6. StateInv(conn')
  BY <1>1, <1>2 DEF Sane, StateInv, Disconnected, FullDuplex, Disconnecting,
                    SameBits, SameBuffers, SameBytes
<1> QED
  BY <1>2, <1>4, <1>5, <1>6 DEF EchoInv, Sane

----------------------------------------------------------------------------
(* The accepts.                                                            *)

(* A connection that has its accept active has nothing else.               *)
LEMMA AcceptAlone ==
    ASSUME NEW c \in Connections, Sane(c), c.active \subseteq {"NEW"},
           c.state = "disconnected" \/ "NEW" \in c.active
    PROVE  /\ c.state = "disconnected" /\ Disconnected(c)
           /\ c.inflight \subseteq {"NEW"} /\ c.timer = "off"
           /\ Kinds(c.port) \subseteq {"NEW"}
           /\ "NEW" \in c.active <=> "NEW" \in c.inflight \cup Kinds(c.port)
<1>1. /\ c.state \in States /\ c.timer \in {"off", "running"}
      /\ c.inflight \subseteq Bits \ {"GTO"}
  BY DEF Connections
<1>2. c.state = "disconnected"
  BY <1>1 DEF Sane, StateInv, States, FullDuplex, Disconnecting
<1>3. Disconnected(c)
  BY <1>2 DEF Sane, StateInv
<1>4. c.inflight \subseteq {"NEW"}
  BY <1>1 DEF Sane, BitInv, Bits
<1>5. c.timer = "off"
  BY <1>1 DEF Sane, TimerInv
<1> QED
  BY <1>2, <1>3, <1>4, <1>5 DEF Disconnected

LEMMA StartKept == EchoInv /\ StartAccept => EchoInv'
<1> SUFFICES ASSUME EchoInv, StartAccept PROVE EchoInv'
  OBVIOUS
<1>1. conn \in Connections /\ Sane(conn) /\ conn.broken = "" /\ conn.pool = "unused"
  BY DEF EchoInv, StartAccept, Running
<1>2. /\ conn.state = "disconnected" /\ conn.active = {}
      /\ conn.inflight = {} /\ conn.timer = "off" /\ Kinds(conn.port) = {}
  <2>1. conn.state = "disconnected" /\ conn.active = {}
    BY <1>1 DEF Sane, StateInv
  <2> QED
    BY <1>1, <2>1, AcceptAlone
<1> DEFINE c == Check(conn, conn.socket = "idle", "AcceptEx")
<1>3. Check(conn, conn.active = {}, "start_accept") = conn
  BY <1>2 DEF Check
<1>4. /\ c \in Connections
      /\ SamePlace(conn, c) /\ SameBits(conn, c) /\ SameTimer(conn, c)
      /\ SameBuffers(conn, c) /\ SameUsed(conn, c) /\ SameBytes(conn, c)
      /\ c.port = conn.port
  <2>1. "AcceptEx" \in Failures /\ (conn.socket = "idle") \in BOOLEAN
    BY DEF Failures
  <2> QED
    BY <1>1, <2>1, Checked
<1>5. conn' = [c EXCEPT !.getBuffer = NoBytes, !.putBuffer = NoBytes,
                        !.active = @ \cup {"NEW"},
                        !.inflight = @ \cup {"NEW"},
                        !.pool = "listen",
                        !.received = 0, !.taken = 0, !.wire = <<>>,
                        !.closed = FALSE]
  BY <1>3 DEF StartAccept
<1>6. 0 \in 0..MaxBytes /\ <<>> \in Seq(Nat) /\ NoBytes \in Buffers
      /\ "NEW" \in Bits \ {"GTO"}
  BY Bounds, EmptyBuffer DEF Bits
<1> HIDE DEF c
<1>7. /\ conn' \in Connections
      /\ conn'.getBuffer = NoBytes /\ conn'.putBuffer = NoBytes
      /\ conn'.active = c.active \cup {"NEW"}
      /\ conn'.inflight = c.inflight \cup {"NEW"}
      /\ conn'.pool = "listen" /\ conn'.state = c.state
      /\ SameTimer(c, conn') /\ conn'.port = c.port
      /\ conn'.taken = 0 /\ conn'.received = 0 /\ conn'.wire = <<>>
  <2>1. conn' \in Connections
    BY <1>4, <1>5, <1>6 DEF Connections, Pools
  <2> QED
    BY <1>4, <1>5, <2>1, ZenonT(60) DEF Connections, SameTimer
<1>8. /\ conn'.active = {"NEW"} /\ conn'.inflight = {"NEW"}
      /\ conn'.state = "disconnected" /\ conn'.timer = "off"
      /\ conn'.port = conn.port
  BY <1>2, <1>4, <1>7 DEF SameBits, SameTimer, SamePlace
<1>9. PortInv(conn') /\ BitInv(conn') /\ TimerInv(conn')
  BY <1>1, <1>2, <1>8 DEF Sane, PortInv, BitInv, TimerInv
<1>10. BufferInv(conn')
  BY <1>7, <1>8, EmptyBuffer, Bounds DEF BufferInv, NoBytes
<1>11. ToSet(conn'.port) = {}
  BY <1>1, <1>2, <1>8, KindsOf, PortIs, EmptySet
<1>12. NoteInv(conn') /\ StreamInv(conn')
  <2>1. Len(<<>>) = 0 /\ DOMAIN <<>> = {}
    OBVIOUS
  <2>2. 0 <= 0
    OBVIOUS
  <2> QED
    BY <1>7, <1>8, <1>11, <2>1, <2>2 DEF NoteInv, StreamInv
<1>13. StateInv(conn')
  BY <1>2, <1>7, <1>8 DEF StateInv, Disconnected
<1> QED
  BY <1>7, <1>9, <1>10, <1>12, <1>13 DEF EchoInv, Sane

LEMMA AddNothing == 0 <= BufferSize /\ \A k \in Nat : k + 0 = k
BY Bounds

LEMMA AbortKept == EchoInv /\ AbortAccept => EchoInv'
<1> SUFFICES ASSUME EchoInv, AbortAccept PROVE EchoInv'
  OBVIOUS
<1>1. conn \in Connections /\ Sane(conn) /\ conn.broken = "" /\ conn.pool = "listen"
  BY DEF EchoInv, AbortAccept, Running
<1> DEFINE c == Check(conn, conn.active = {"NEW"}, "abort_accept")
           n == Note("NEW", 0, TRUE)
           d == Post([c EXCEPT !.inflight = @ \ {"NEW"}, !.active = @ \ {"NEW"}],
                     "NEW", 0, TRUE)
<1>2. conn' = IF "NEW" \in c.inflight THEN initiate_disconnection(d)
              ELSE Check(c, c.state = "disconnected", "abort_accept: late")
  BY DEF AbortAccept
<1>3. /\ c \in Connections
      /\ c.broken = "" <=> conn.active = {"NEW"}
      /\ SamePlace(conn, c) /\ SameBits(conn, c) /\ SameTimer(conn, c)
      /\ SameBuffers(conn, c) /\ SameUsed(conn, c) /\ SameBytes(conn, c)
      /\ c.port = conn.port
  <2>1. "abort_accept" \in Failures /\ (conn.active = {"NEW"}) \in BOOLEAN
    BY DEF Failures
  <2> QED
    BY <1>1, <2>1, Checked
<1>4. /\ n \in Notification
      /\ n.request = "NEW" /\ n.size = 0 /\ n.bad = TRUE
  BY Bounds DEF Note, Notification, Bits
<1>5. d = [c EXCEPT !.inflight = @ \ {"NEW"}, !.active = @ \ {"NEW"},
                    !.port = Append(c.port, n)]
  BY <1>3 DEF Post, Connections
<1>6. ASSUME conn.active = {"NEW"}
      PROVE  conn.state = "disconnected" /\ Disconnected(conn)
             /\ conn.inflight \subseteq {"NEW"} /\ conn.timer = "off"
             /\ Kinds(conn.port) \subseteq {"NEW"}
  BY <1>1, <1>6, AcceptAlone
<1>7. CASE "NEW" \in c.inflight
  <2> HIDE DEF n, c, d
  <2>1. /\ Append(c.port, n) \in Seq(Notification)
        /\ Kinds(Append(c.port, n)) = Kinds(c.port) \cup {n.request}
        /\ ToSet(Append(c.port, n)) = ToSet(c.port) \cup {n}
        /\ Head(Append(c.port, n)) = IF Kinds(c.port) = {} THEN n ELSE Head(c.port)
    <3>1. c.port \in Seq(Notification) /\ n \in Notification
      BY <1>3, <1>4, PortIs
    <3> QED
      BY <3>1, PortAppend
  <2> HIDE DEF c, d
  <2>2. /\ d \in Connections
        /\ d.broken = c.broken
        /\ SamePlace(c, d) /\ SameTimer(c, d)
        /\ SameBuffers(c, d) /\ SameUsed(c, d) /\ SameBytes(c, d)
        /\ d.inflight = c.inflight \ {"NEW"} /\ d.active = c.active \ {"NEW"}
        /\ d.port = Append(c.port, n)
    BY <1>3, <1>5, <2>1
       DEF Connections, SamePlace, SameTimer, SameBuffers, SameUsed, SameBytes
  <2>3. /\ conn' \in Connections
        /\ conn'.broken = "" => d.broken = ""
        /\ conn'.state = "disconnecting" /\ conn'.pool = d.pool
        /\ conn'.active = d.active \cup {"DEL"}
        /\ conn'.inflight = d.inflight \cup {"DEL"}
        /\ SameTimer(d, conn') /\ SameBuffers(d, conn') /\ SameUsed(d, conn')
        /\ SameBytes(d, conn')
        /\ conn'.port = d.port
    BY <1>2, <1>7, <2>2, DisconnectionInitiated
  <2> SUFFICES ASSUME conn'.broken = "" PROVE Sane(conn')
    BY <2>3 DEF EchoInv, Running
  <2>4. conn.active = {"NEW"}
    BY <1>3, <2>2, <2>3
  <2>5. /\ Kinds(conn.port) = {} /\ conn.inflight = {"NEW"}
        /\ conn.timer = "off"
    BY <1>1, <1>3, <1>6, <1>7, <2>4 DEF Sane, PortInv, SameBits
  <2>6. /\ conn'.active = {"DEL"} /\ conn'.inflight = {"DEL"}
        /\ conn'.timer = "off" /\ conn'.port = Append(conn.port, n)
        /\ conn'.pool = "listen"
        /\ SameBuffers(conn, conn') /\ SameBytes(conn, conn')
    <3>1. /\ conn'.active = {"DEL"} /\ conn'.inflight = {"DEL"}
      BY <1>3, <2>2, <2>3, <2>4, <2>5 DEF SameBits
    <3>2. conn'.timer = "off" /\ conn'.pool = "listen"
      BY <1>1, <1>3, <2>2, <2>3, <2>5, ZenonT(60) DEF SameTimer, SamePlace
    <3>3. conn'.port = Append(conn.port, n)
      BY <1>3, <2>2, <2>3
    <3>4. SameBuffers(conn, conn') /\ SameBytes(conn, conn')
      BY <1>3, <2>2, <2>3 DEF SameBuffers, SameBytes
    <3> QED
      BY <3>1, <3>2, <3>3, <3>4
  <2>7. /\ Kinds(conn'.port) = {"NEW"} /\ ToSet(conn'.port) = {n}
        /\ Head(conn'.port) = n
    <3>1. ToSet(conn.port) = {} /\ c.port = conn.port
      BY <1>1, <1>3, <2>5, KindsOf, PortIs, EmptySet
    <3> QED
      BY <1>4, <2>1, <2>5, <2>6, <3>1
  <2>8. PortInv(conn')
    <3>1. Distinct(conn'.port)
      <4>1. /\ conn.port \in Seq(Notification) /\ n \in Notification
            /\ Distinct(conn.port)
        BY <1>1, <1>4, PortIs DEF Sane
      <4>2. n.request \notin Kinds(conn.port)
        BY <2>5
      <4>3. Distinct(Append(conn.port, n))
        BY <4>1, <4>2, DistinctAppend
      <4> QED
        BY <2>6, <4>3
    <3> QED
      BY <2>3, <2>6, <2>7, <3>1, PortIs
  <2>9. BitInv(conn') /\ TimerInv(conn')
    BY <2>6, <2>7 DEF BitInv, TimerInv
  <2>10. BufferInv(conn')
    BY <1>1, <2>6 DEF Sane, BufferInv, SameBuffers
  <2>11. NoteInv(conn')
    <3>1. /\ conn'.taken <= conn'.received /\ conn'.taken + 0 <= conn'.received
          /\ 0 <= BufferSize
      <4>1. conn.taken <= conn.received /\ conn.taken \in Nat
        BY <1>1, Numbers DEF Sane, NoteInv
      <4>2. conn'.taken = conn.taken /\ conn'.received = conn.received
        BY <2>6 DEF SameBytes
      <4> QED
        BY <4>1, <4>2, AddNothing
    <3> QED
      BY <1>4, <2>7, <3>1 DEF NoteInv
  <2>12. StreamInv(conn')
    BY <1>1, <2>3, <2>6 DEF Sane, StreamInv, SameBytes
  <2>13. StateInv(conn')
    BY <1>4, <2>3, <2>6, <2>7 DEF StateInv, Disconnecting
  <2> QED
    BY <2>8, <2>9, <2>10, <2>11, <2>12, <2>13 DEF Sane
<1>8. CASE "NEW" \notin c.inflight
  <2>1. conn' = c
    BY <1>2, <1>3, <1>6, <1>8 DEF Check, SamePlace
  <2>2. ASSUME conn'.broken = "" PROVE conn' = conn
    BY <1>3, <2>1, <2>2 DEF Check
  <2> QED
    BY <1>1, <1>3, <2>1, <2>2 DEF EchoInv, Running
<1> QED
  BY <1>7, <1>8

----------------------------------------------------------------------------
(* A notification.  What the methods keep as long as they pass no failed   *)
(* check, whatever the state and the timer are.                            *)

Streaming(c) ==
    /\ Len(c.wire) <= c.taken
    /\ \A i \in DOMAIN c.wire : c.wire[i] = i
    /\ "PUT" \notin Kinds(c.port) => Stream(c, 0)
    /\ \A n \in ToSet(c.port) : n.request = "PUT" => Stream(c, n.size)

Core(c) ==
    /\ PortInv(c) /\ BitInv(c) /\ BufferInv(c) /\ NoteInv(c) /\ Streaming(c)
    /\ "NEW" \notin c.active \cup c.inflight \cup Kinds(c.port)
    /\ c.broken = "" /\ c.pool # "unused"

Fits(c, got) ==
    /\ got \in {NotYet} \cup 0..MaxBytes
    /\ got # NotYet => got <= BufferSize /\ c.received + got <= MaxBytes

(* Nothing that the core depends on changes.                               *)
LEMMA CoreStays ==
    ASSUME NEW c \in Connections, NEW d \in Connections, Core(c),
           d.broken = c.broken, d.pool = c.pool,
           \A k \in Bits \ {"GTO"} : k \in d.active <=> k \in c.active,
           d.inflight = c.inflight, d.port = c.port,
           SameBuffers(c, d), SameUsed(c, d),
           d.received = c.received, d.taken = c.taken, d.wire = c.wire
    PROVE  Core(d)
<1>1. \A k : Stream(c, k) <=> Stream(d, k)
  BY StreamStays
<1>2. PortInv(d) /\ BitInv(d)
  BY DEF Core, PortInv, BitInv, Bits
<1>3. BufferInv(d)
  BY DEF Core, BufferInv, Bits, SameBuffers, SameUsed
<1>4. NoteInv(d) /\ Streaming(d)
  BY <1>1 DEF Core, NoteInv, Streaming, SameBuffers
<1>5. "NEW" \in Bits \ {"GTO"}
  BY DEF Bits
<1> QED
  BY <1>2, <1>3, <1>4, <1>5 DEF Core

LEMMA CoreGet ==
    ASSUME NEW c \in Connections, NEW got, Core(c), Fits(c, got),
           "GET" \notin c.active, c.getBuffer = NoBytes
    PROVE  Core(initiate_get(c, got))
<1> DEFINE d == initiate_get(c, got)
           n == Note("GET", got, got = 0)
<1>1. /\ d \in Connections
      /\ d.broken = c.broken
      /\ SamePlace(c, d) /\ SameBuffers(c, d)
      /\ d.getAt = c.getBuffer /\ d.putAt = c.putAt
      /\ d.taken = c.taken /\ d.wire = c.wire
      /\ got = NotYet =>
            /\ d.active = c.active \cup {"GET", "GTO"}
            /\ d.inflight = c.inflight \cup {"GET"}
            /\ d.port = c.port /\ d.received = c.received
      /\ got # NotYet =>
            /\ d.active = c.active \cup {"GET"}
            /\ d.inflight = c.inflight
            /\ d.port = Append(c.port, n)
            /\ d.received = c.received + got
  BY GetInitiated, ZenonT(60) DEF Fits
<1>n. ASSUME got # NotYet
      PROVE  /\ n \in Notification
             /\ n.request = "GET" /\ n.size = got /\ (n.bad => n.size = 0)
             /\ got \in 0..MaxBytes /\ got <= BufferSize
  BY <1>n DEF Fits, Note, Notification, Bits
<1> SUFFICES Core(d)
  OBVIOUS
<1> HIDE DEF d, n
<1>2. \A k : Stream(c, k) <=> Stream(d, k)
  BY <1>1, StreamStays
<1>3. /\ "GET" \notin c.inflight /\ "GET" \notin Kinds(c.port)
      /\ Distinct(c.port) /\ Kinds(c.port) \cap c.inflight = {}
  BY PortIs DEF Core, BitInv
<1>4. BufferInv(d)
  BY <1>1 DEF Core, BufferInv, SameBuffers
<1>5. d.broken = "" /\ d.pool # "unused"
  BY <1>1 DEF Core, SamePlace
<1>6. CASE got = NotYet
  <2>1. /\ d.active = c.active \cup {"GET", "GTO"}
        /\ d.inflight = c.inflight \cup {"GET"}
        /\ d.port = c.port /\ d.received = c.received
    BY <1>1, <1>6
  <2>2. PortInv(d) /\ BitInv(d)
    <3>1. Kinds(d.port) \cap d.inflight = {}
      BY <1>3, <2>1
    <3>2. PortInv(d)
      BY <1>1, <1>3, <2>1, <3>1, PortIs
    <3> QED
      BY <2>1, <3>2 DEF Core, BitInv
  <2>3. NoteInv(d) /\ Streaming(d)
    BY <1>1, <1>2, <2>1 DEF Core, NoteInv, Streaming, SameBuffers
  <2> QED
    BY <1>4, <1>5, <2>1, <2>2, <2>3 DEF Core
<1>7. CASE got # NotYet
  <2>1. /\ d.active = c.active \cup {"GET"}
        /\ d.inflight = c.inflight
        /\ d.port = Append(c.port, n)
        /\ d.received = c.received + got
    BY <1>1, <1>7
  <2>2. got \in 0..MaxBytes /\ got <= BufferSize
    BY <1>7, <1>n
  <2>3. /\ n \in Notification
        /\ n.request = "GET" /\ n.size = got /\ (n.bad => n.size = 0)
    BY <1>7, <1>n
  <2>4. c.port \in Seq(Notification)
    BY PortIs
  <2>5. /\ Kinds(d.port) = Kinds(c.port) \cup {"GET"}
        /\ ToSet(d.port) = ToSet(c.port) \cup {n}
    BY <2>1, <2>3, <2>4, PortAppend
  <2>6. Distinct(d.port)
    BY <1>3, <2>1, <2>3, <2>4, DistinctAppend
  <2>7. PortInv(d) /\ BitInv(d)
    <3>1. Kinds(d.port) \cap d.inflight = {}
      BY <1>3, <2>1, <2>5
    <3>2. PortInv(d)
      BY <1>1, <2>6, <3>1, PortIs
    <3> QED
      BY <2>1, <2>5, <3>2 DEF Core, BitInv
  <2>8. /\ d.taken <= d.received
        /\ n.size <= BufferSize /\ d.taken + n.size <= d.received
        /\ c.received <= d.received
    <3>1. /\ c.taken \in Nat /\ c.received \in Nat /\ got \in Nat
          /\ c.taken <= c.received
      <4>1. c.taken \in Nat /\ c.received \in Nat
        BY Numbers
      <4>2. c.taken <= c.received
        BY DEF Core, NoteInv
      <4> QED
        BY <2>2, <4>1, <4>2, Bounds
    <3>2. c.taken <= c.received + got /\ c.taken + got <= c.received + got
          /\ c.received <= c.received + got
      BY <3>1
    <3> QED
      BY <1>1, <2>1, <2>2, <2>3, <3>2
  <2>9. ASSUME NEW m \in ToSet(c.port), m.request \in {"NEW", "GET"}
        PROVE  m.size <= BufferSize /\ c.taken + m.size <= d.received
    <3>1. /\ c.taken \in Nat /\ c.received \in Nat /\ m.size \in Nat
          /\ d.received \in Nat
      BY <1>1, TypesOf
    <3>2. m.size <= BufferSize /\ c.taken + m.size <= c.received
      BY <2>9 DEF Core, NoteInv
    <3> QED
      BY <2>8, <3>1, <3>2
  <2>10. NoteInv(d)
    BY <1>1, <2>3, <2>5, <2>8, <2>9 DEF Core, NoteInv, SameBuffers
  <2>11. Streaming(d)
    BY <1>1, <1>2, <2>3, <2>5 DEF Core, Streaming
  <2> QED
    BY <1>4, <1>5, <2>1, <2>5, <2>7, <2>10, <2>11 DEF Core
<1> QED
  BY <1>6, <1>7

LEMMA CorePut ==
    ASSUME NEW c \in Connections, Core(c),
           "PUT" \notin c.active, c.putBuffer.bytes # <<>>
    PROVE  Core(initiate_put(c))
<1> DEFINE d == initiate_put(c)
<1>1. /\ d \in Connections
      /\ d.broken = "" <=> c.broken = "" /\ "PUT" \notin c.active
      /\ SamePlace(c, d) /\ SameTimer(c, d) /\ SameBuffers(c, d)
      /\ SameBytes(c, d)
      /\ d.active = c.active \cup {"PUT"}
      /\ d.inflight = c.inflight \cup {"PUT"}
      /\ d.getAt = c.getAt /\ d.putAt = c.putBuffer
      /\ d.port = c.port
  BY PutInitiated
<1> HIDE DEF d
<1>2. \A k : Stream(c, k) <=> Stream(d, k)
  BY <1>1, StreamStays DEF SameBytes
<1>3. "PUT" \notin c.inflight /\ "PUT" \notin Kinds(c.port)
  BY DEF Core, BitInv
<1>4. PortInv(d) /\ BitInv(d) /\ BufferInv(d)
  BY <1>1, <1>3 DEF Core, PortInv, BitInv, BufferInv, SameBuffers
<1>5. NoteInv(d) /\ Streaming(d)
  BY <1>1, <1>2 DEF Core, NoteInv, Streaming, SameBuffers, SameBytes
<1>6. d.broken = "" /\ d.pool # "unused"
      /\ "NEW" \notin d.active \cup d.inflight \cup Kinds(d.port)
  BY <1>1 DEF Core, SamePlace
<1>7. Core(d)
  BY <1>4, <1>5, <1>6 DEF Core
<1> QED
  BY <1>7 DEF d

LEMMA CoreDisconnect ==
    ASSUME NEW c \in Connections, Core(c), "DEL" \notin c.active
    PROVE  Core(initiate_disconnection(c))
<1> DEFINE d == initiate_disconnection(c)
<1>1. /\ d \in Connections
      /\ d.broken = "" <=> c.broken = "" /\ "DEL" \notin c.active
      /\ d.state = "disconnecting" /\ d.pool = c.pool /\ d.socket = c.socket
      /\ d.active = c.active \cup {"DEL"}
      /\ d.inflight = c.inflight \cup {"DEL"}
      /\ SameTimer(c, d) /\ SameBuffers(c, d) /\ SameUsed(c, d)
      /\ SameBytes(c, d)
      /\ d.port = c.port
  BY DisconnectionInitiated
<1> HIDE DEF d
<1>2. \A k : Stream(c, k) <=> Stream(d, k)
  BY <1>1, StreamStays DEF SameBytes
<1>3. "DEL" \notin c.inflight /\ "DEL" \notin Kinds(c.port)
  BY DEF Core, BitInv
<1>4. PortInv(d) /\ BitInv(d) /\ BufferInv(d)
  BY <1>1, <1>3 DEF Core, PortInv, BitInv, BufferInv, SameBuffers, SameUsed
<1>5. NoteInv(d) /\ Streaming(d)
  BY <1>1, <1>2 DEF Core, NoteInv, Streaming, SameBuffers, SameBytes
<1>6. d.broken = "" /\ d.pool # "unused"
      /\ "NEW" \notin d.active \cup d.inflight \cup Kinds(d.port)
  BY <1>1 DEF Core
<1>7. Core(d)
  BY <1>4, <1>5, <1>6 DEF Core
<1> QED
  BY <1>7 DEF d

(* The bytes of the stream when a get is taken, and when the buffers swap. *)
LEMMA StreamGot ==
    ASSUME NEW c \in Connections, NEW d \in Connections, NEW k \in Nat,
           Stream(c, k), Len(c.getBuffer.bytes) = 0,
           \A i \in DOMAIN d.getBuffer.bytes : d.getBuffer.bytes[i] = c.taken + i,
           d.taken = c.taken + Len(d.getBuffer.bytes),
           d.putBuffer = c.putBuffer, d.wire = c.wire
    PROVE  Stream(d, k)
<1> DEFINE w == Len(c.wire)
           p == Len(c.putBuffer.bytes)
           g == Len(d.getBuffer.bytes)
<1>1. w \in Nat /\ p \in Nat /\ g \in Nat /\ c.taken \in Nat
  BY Numbers
<1>2. k <= p /\ w - k + p + 0 = c.taken
  BY DEF Stream
<1>3. \A i \in DOMAIN c.putBuffer.bytes : c.putBuffer.bytes[i] = w - k + i
  BY DEF Stream
<1>4. d.taken = c.taken + g /\ Len(d.wire) = w /\ d.putBuffer = c.putBuffer
  OBVIOUS
<1> HIDE DEF w, p, g
<1>5. w - k + p = c.taken
  BY <1>1, <1>2
<1>6. w - k + p + g = c.taken + g
  BY <1>5
<1>7. \A i \in DOMAIN d.getBuffer.bytes : d.getBuffer.bytes[i] = w - k + p + i
  BY <1>5
<1> QED
  BY <1>2, <1>3, <1>4, <1>6, <1>7 DEF Stream, w, p, g

LEMMA StreamSwap ==
    ASSUME NEW c \in Connections, NEW d \in Connections,
           Stream(c, 0), Len(c.putBuffer.bytes) = 0,
           d.putBuffer = c.getBuffer, Len(d.getBuffer.bytes) = 0,
           d.getBuffer.bytes = <<>>,
           d.taken = c.taken, d.wire = c.wire
    PROVE  Stream(d, 0)
<1> DEFINE w == Len(c.wire)
           g == Len(c.getBuffer.bytes)
<1>1. w \in Nat /\ g \in Nat /\ c.taken \in Nat
  BY Numbers
<1>2. w - 0 + 0 + g = c.taken
  BY DEF Stream
<1>3. \A i \in DOMAIN c.getBuffer.bytes : c.getBuffer.bytes[i] = w - 0 + 0 + i
  BY DEF Stream
<1>4. DOMAIN c.getBuffer.bytes = 1..g
  BY TypesOf
<1>5. d.taken = c.taken /\ Len(d.wire) = w /\ Len(d.putBuffer.bytes) = g
      /\ d.putBuffer = c.getBuffer
  OBVIOUS
<1> HIDE DEF w, g
<1>6. w - 0 + g + 0 = c.taken /\ 0 <= g
  BY <1>1, <1>2
<1>7. \A i \in 1..g : w - 0 + 0 + i = w - 0 + i
  BY <1>1
<1>8. DOMAIN d.getBuffer.bytes = {}
  OBVIOUS
<1> QED
  BY <1>3, <1>4, <1>5, <1>6, <1>7, <1>8 DEF Stream, w, g

(* All that was in the put buffer has been sent.                           *)
LEMMA StreamSent ==
    ASSUME NEW c \in Connections, NEW d \in Connections,
           Stream(c, Len(c.putBuffer.bytes)), d.putBuffer.bytes = <<>>,
           d.getBuffer = c.getBuffer, d.taken = c.taken, d.wire = c.wire
    PROVE  Stream(d, 0)
<1> DEFINE w == Len(c.wire)
           p == Len(c.putBuffer.bytes)
           g == Len(c.getBuffer.bytes)
<1>1. w \in Nat /\ g \in Nat /\ p \in Nat /\ c.taken \in Nat
  BY Numbers
<1>2. w - p + p + g = c.taken
  BY DEF Stream
<1>3. \A i \in DOMAIN c.getBuffer.bytes : c.getBuffer.bytes[i] = w - p + p + i
  BY DEF Stream
<1>4. DOMAIN c.getBuffer.bytes = 1..g
  BY TypesOf
<1>5. /\ d.taken = c.taken /\ Len(d.wire) = w /\ d.getBuffer = c.getBuffer
      /\ Len(d.putBuffer.bytes) = 0 /\ DOMAIN d.putBuffer.bytes = {}
  OBVIOUS
<1> HIDE DEF w, p, g
<1>6. w - 0 + 0 + g = c.taken
  BY <1>1, <1>2
<1>7. \A i \in 1..g : w - p + p + i = w - 0 + 0 + i
  BY <1>1
<1>8. 0 <= 0
  OBVIOUS
<1> QED
  BY <1>3, <1>4, <1>5, <1>6, <1>7, <1>8, ZenonT(60) DEF Stream, w, g

LEMMA CoreGot ==
    ASSUME NEW c \in Connections, NEW x \in 0..MaxBytes, Core(c),
           "GET" \notin c.active, c.getBuffer = NoBytes,
           x <= BufferSize, c.taken + x <= c.received
    PROVE  gused(c, x) \in Connections /\ Core(gused(c, x))
<1> DEFINE d == gused(c, x)
<1>a. x \in Nat /\ MaxBytes \in Nat /\ c.taken \in Nat /\ c.received \in Nat
      /\ c.received <= MaxBytes
  BY Numbers, Bounds
<1>b. c.taken + x <= MaxBytes
  BY <1>a
<1>1. /\ d \in Connections
      /\ d.broken = c.broken
      /\ SamePlace(c, d) /\ SameBits(c, d) /\ SameTimer(c, d) /\ SameUsed(c, d)
      /\ d.putBuffer = c.putBuffer
      /\ d.getBuffer.base = 0 /\ Len(d.getBuffer.bytes) = x
      /\ \A i \in DOMAIN d.getBuffer.bytes : d.getBuffer.bytes[i] = c.taken + i
      /\ d.taken = c.taken + x
      /\ d.received = c.received /\ d.wire = c.wire /\ d.closed = c.closed
      /\ d.port = c.port
  BY <1>b, BytesGot
<1> SUFFICES Core(d)
  BY <1>1
<1> HIDE DEF d
<1>2. PortInv(d) /\ BitInv(d)
  BY <1>1 DEF Core, PortInv, BitInv, SameBits
<1>3. BufferInv(d)
  <2>1. 0 + x <= BufferSize
    BY <1>a
  <2>2. d.getBuffer.base + Len(d.getBuffer.bytes) <= BufferSize
    BY <1>1, <2>1
  <2>3. "GET" \notin d.active
    BY <1>1 DEF SameBits
  <2> QED
    BY <1>1, <2>2, <2>3 DEF Core, BufferInv, SameBits, SameUsed
(* No other bytes are announced.                                           *)
<1>4. NoteInv(d)
  <2>1. "GET" \notin Kinds(c.port) /\ "NEW" \notin Kinds(c.port)
    BY DEF Core, BitInv
  <2>2. \A n \in ToSet(c.port) : n.request \notin {"NEW", "GET"}
    BY <2>1, TypesOf
  <2> QED
    BY <1>1, <2>2 DEF Core, NoteInv
<1>5. Streaming(d)
  <2>1. Len(c.getBuffer.bytes) = 0
    BY EmptyBuffer
  <2>2. d.taken = c.taken + Len(d.getBuffer.bytes)
    BY <1>1
  <2>3. ASSUME NEW k \in Nat, Stream(c, k) PROVE Stream(d, k)
    BY <1>1, <2>1, <2>2, <2>3, StreamGot
  <2>4. \A n \in ToSet(c.port) : n.size \in Nat
    BY TypesOf
  <2>5. Len(d.wire) <= d.taken
    <3>1. Len(c.wire) <= c.taken /\ Len(c.wire) \in Nat
      BY Numbers DEF Core, Streaming
    <3>2. Len(c.wire) <= c.taken + x
      BY <1>a, <3>1
    <3> QED
      BY <1>1, <3>2
  <2>6. 0 \in Nat
    OBVIOUS
  <2> QED
    BY <1>1, <2>3, <2>4, <2>5, <2>6 DEF Core, Streaming
<1> QED
  BY <1>1, <1>2, <1>3, <1>4, <1>5 DEF Core, SamePlace, SameBits

LEMMA CoreSwap ==
    ASSUME NEW c \in Connections, Core(c),
           "GET" \notin c.active, "PUT" \notin c.active, c.putBuffer.bytes = <<>>
    PROVE  Core(SwapAndPack(c))
<1> DEFINE d == SwapAndPack(c)
<1>1. /\ d \in Connections
      /\ d.broken = c.broken
      /\ SamePlace(c, d) /\ SameBits(c, d) /\ SameTimer(c, d) /\ SameUsed(c, d)
      /\ SameBytes(c, d)
      /\ d.getBuffer = NoBytes /\ d.putBuffer = c.getBuffer
      /\ d.port = c.port
  BY SwappedAndPacked
<1> HIDE DEF d
<1>2. PortInv(d) /\ BitInv(d)
  BY <1>1 DEF Core, PortInv, BitInv, SameBits
<1>3. BufferInv(d)
  <2>1. NoBytes.base + Len(NoBytes.bytes) <= BufferSize
    BY Bounds, EmptyBuffer DEF NoBytes
  <2> QED
    BY <1>1, <2>1 DEF Core, BufferInv, SameBits
<1>4. "PUT" \notin Kinds(c.port)
  BY DEF Core, BitInv
<1>5. \A n \in ToSet(c.port) : n.request # "PUT"
  BY <1>4, TypesOf
<1>6. NoteInv(d)
  BY <1>1, <1>5 DEF Core, NoteInv, SameBytes
<1>7. Streaming(d)
  <2>1. Stream(c, 0)
    BY <1>4 DEF Core, Streaming
  <2>2. d.getBuffer.bytes = <<>> /\ Len(d.getBuffer.bytes) = 0
        /\ Len(c.putBuffer.bytes) = 0
    BY <1>1, EmptyBuffer DEF NoBytes
  <2>3. Stream(d, 0)
    BY <1>1, <2>1, <2>2, StreamSwap DEF SameBytes
  <2> QED
    BY <1>1, <1>5, <2>3 DEF Core, Streaming, SameBytes
<1>8. Core(d)
  BY <1>1, <1>2, <1>3, <1>6, <1>7 DEF Core, SamePlace, SameBits
<1> QED
  BY <1>8 DEF d

LEMMA CoreSane ==
    ASSUME NEW c \in Connections, Core(c), TimerInv(c),
           \/ c.state = "full_duplex" /\ FullDuplex(c)
           \/ c.state = "disconnecting" /\ c.active # {}
    PROVE  Sane(c)
<1>1. StreamInv(c)
  BY DEF Core, Streaming, StreamInv
<1>2. StateInv(c)
  BY DEF Core, StateInv, Disconnecting
<1> QED
  BY <1>1, <1>2 DEF Core, Sane

----------------------------------------------------------------------------
(* Last part of a get: the timer is stopped, and the connection closed when*)
(* nothing is left to do.  The timer runs or its notification is queued, or*)
(* both, when it was started again just now.                               *)

Clock(c) ==
    /\ c.timer = "running" => "GTO" \in c.active /\ ~c.timerReady
    /\ "GTO" \in c.active => c.timer = "running" \/ "GTO" \in Kinds(c.port)
    /\ "GTO" \in Kinds(c.port) =>
          /\ "GTO" \in c.active
          /\ ~c.timerReady => "GET" \in c.active /\ Head(c.port).request = "GTO"

EndOf(c) ==
    IF c.active \cap {"GET", "GTO", "PUT"} = {} THEN initiate_disconnection(c) ELSE c

(* When the get, the put and the timer are all done.                       *)
LEMMA EndKept ==
    ASSUME NEW c \in Connections, Core(c), TimerInv(c),
           c.active \subseteq {"GET", "GTO", "PUT"},
           "PUT" \notin c.active => c.putBuffer.bytes = <<>>,
           "GTO" \in c.active /\ c.state = "full_duplex" => "GET" \in c.active,
           c.state \in {"full_duplex", "disconnecting"}
    PROVE  EndOf(c) \in Connections /\ Sane(EndOf(c))
<1>1. CASE c.active \cap {"GET", "GTO", "PUT"} = {}
  <2> DEFINE d == initiate_disconnection(c)
  <2>1. c.active = {}
    BY <1>1
  <2>2. /\ d \in Connections
        /\ d.state = "disconnecting" /\ d.active = c.active \cup {"DEL"}
        /\ SameTimer(c, d) /\ d.port = c.port
    BY DisconnectionInitiated
  <2>3. Core(d)
    BY <2>1, CoreDisconnect
  <2>4. EndOf(c) = d
    BY <1>1 DEF EndOf
  <2> HIDE DEF d
  <2>5. TimerInv(d)
    BY <2>1, <2>2 DEF TimerInv, SameTimer
  <2> QED
    BY <2>2, <2>3, <2>4, <2>5, CoreSane
<1>2. CASE c.active \cap {"GET", "GTO", "PUT"} # {}
  <2>1. EndOf(c) = c
    BY <1>2 DEF EndOf
  <2>2. "NEW" \notin c.inflight \cup Kinds(c.port)
    BY DEF Core
  <2>3. c.state = "full_duplex" => FullDuplex(c)
    BY <1>2, <2>2 DEF FullDuplex
  <2>4. c.active # {}
    BY <1>2
  <2> QED
    BY <2>1, <2>3, <2>4, CoreSane
<1> QED
  BY <1>1, <1>2

LEMMA StopKept ==
    ASSUME NEW c \in Connections, Core(c), Clock(c), c.state = "full_duplex",
           c.active \subseteq {"GET", "GTO", "PUT"},
           "PUT" \notin c.active => c.putBuffer.bytes = <<>>
    PROVE  EndOf(StopTimer(c)) \in Connections /\ Sane(EndOf(StopTimer(c)))
<1> DEFINE d == StopTimer(c)
<1>1. /\ d \in Connections
      /\ d.broken = c.broken
      /\ d.pool = c.pool /\ d.socket = c.socket
      /\ SameBuffers(c, d) /\ SameUsed(c, d) /\ SameBytes(c, d)
      /\ d.port = c.port /\ d.inflight = c.inflight
      /\ "GTO" \notin c.active => d = c
      /\ "GTO" \in c.active =>
            /\ d.timer = "off" /\ d.timerReady = TRUE
            /\ d.active = IF c.timerReady THEN c.active ELSE c.active \ {"GTO"}
            /\ d.state = IF c.timerReady THEN "disconnecting" ELSE c.state
  BY TimerStopped
<1> HIDE DEF d
<1>2. \A k \in Bits \ {"GTO"} : k \in d.active <=> k \in c.active
  BY <1>1
<1>3. Core(d)
  BY <1>1, <1>2, CoreStays DEF SameBytes
<1>4. TimerInv(d)
  BY <1>1 DEF Clock, TimerInv
<1>5. /\ d.active \subseteq {"GET", "GTO", "PUT"}
      /\ "PUT" \notin d.active => d.putBuffer.bytes = <<>>
      /\ "GTO" \in d.active /\ d.state = "full_duplex" => "GET" \in d.active
      /\ d.state \in {"full_duplex", "disconnecting"}
  BY <1>1 DEF SameBuffers
<1>6. EndOf(d) \in Connections /\ Sane(EndOf(d))
  BY <1>1, <1>3, <1>4, <1>5, EndKept
<1> QED
  BY <1>6 DEF d

----------------------------------------------------------------------------
(* The states.                                                             *)

(* The first notification has been taken from the port.                    *)
Dispatched(c, d, n) ==
    /\ n \in Notification /\ n \in ToSet(c.port)
    /\ Head(c.port) = n
    /\ Kinds(c.port) = {n.request} \cup Kinds(d.port)
    /\ ToSet(c.port) = {n} \cup ToSet(d.port)
    /\ Distinct(d.port) /\ n.request \notin Kinds(d.port)
    /\ n.request \notin c.inflight /\ Kinds(d.port) \cap c.inflight = {}
    /\ d.state = c.state /\ d.broken = c.broken
    /\ SameBits(c, d) /\ SameTimer(c, d)
    /\ SameBuffers(c, d) /\ SameUsed(c, d) /\ SameBytes(c, d)

LEMMA Dispatching ==
    ASSUME NEW c \in Connections, Sane(c), c.port # <<>>
    PROVE  LET d == [c EXCEPT !.port = Tail(@)] IN
           /\ d \in Connections /\ Dispatched(c, d, Head(c.port))
           /\ d.pool = c.pool
<1> DEFINE d == [c EXCEPT !.port = Tail(@)]
           n == Head(c.port)
<1>1. /\ c.port \in Seq(Notification)
      /\ Distinct(c.port) /\ Kinds(c.port) \cap c.inflight = {}
  BY PortIs DEF Sane
<1>2. /\ n \in Notification /\ Tail(c.port) \in Seq(Notification)
      /\ Kinds(c.port) = {n.request} \cup Kinds(Tail(c.port))
      /\ ToSet(c.port) = {n} \cup ToSet(Tail(c.port))
      /\ Distinct(Tail(c.port)) /\ n.request \notin Kinds(Tail(c.port))
  BY <1>1, PortTail
<1>3. d \in Connections
  BY <1>2 DEF Connections
<1>4. /\ d.port = Tail(c.port) /\ d.pool = c.pool
      /\ d.state = c.state /\ d.broken = c.broken
      /\ SameBits(c, d) /\ SameTimer(c, d)
      /\ SameBuffers(c, d) /\ SameUsed(c, d) /\ SameBytes(c, d)
  BY DEF Connections, SameBits, SameTimer, SameBuffers, SameUsed, SameBytes
<1> HIDE DEF d, n
<1>5. Dispatched(c, d, n)
  BY <1>1, <1>2, <1>4 DEF Dispatched, n
<1> QED
  BY <1>3, <1>4, <1>5 DEF d, n

LEMMA Same ==
    ASSUME NEW c, NEW d, NEW e
    PROVE  /\ SamePlace(c, d) /\ SamePlace(d, e) => SamePlace(c, e)
           /\ SameBits(c, d) /\ SameBits(d, e) => SameBits(c, e)
           /\ SameTimer(c, d) /\ SameTimer(d, e) => SameTimer(c, e)
           /\ SameBuffers(c, d) /\ SameBuffers(d, e) => SameBuffers(c, e)
           /\ SameUsed(c, d) /\ SameUsed(d, e) => SameUsed(c, e)
           /\ SameBytes(c, d) /\ SameBytes(d, e) => SameBytes(c, e)
BY DEF SamePlace, SameBits, SameTimer, SameBuffers, SameUsed, SameBytes

(* A handler returns a connection that is sane unless a check has failed.  *)
Good(c) == c \in Connections /\ (c.broken = "" => Sane(c))

LEMMA KindsAreBits == \A q \in Seq(Notification) : Kinds(q) \subseteq Bits
BY KindsOf DEF Notification

LEMMA DisconnectingKept ==
    ASSUME NEW c \in Connections, NEW d \in Connections, NEW n, Sane(c),
           c.state = "disconnecting", c.broken = "",
           Dispatched(c, d, n), d.pool = c.pool
    PROVE  Good(disconnecting(d, n))
<1> DEFINE a == Check(d, "GET" \notin d.active, "disconnecting")
           e == [a EXCEPT !.active = @ \ ({n.request} \ {"GET"})]
           f == IF n.request = "GTO" THEN ResetTimer(e) ELSE e
           g == disconnecting(d, n)
<1>0. /\ n \in Notification /\ n.request \in Bits
      /\ Head(c.port) = n
      /\ Kinds(c.port) = {n.request} \cup Kinds(d.port)
      /\ ToSet(c.port) = {n} \cup ToSet(d.port)
      /\ Distinct(d.port) /\ n.request \notin Kinds(d.port)
      /\ n.request \notin c.inflight /\ Kinds(d.port) \cap c.inflight = {}
      /\ d.state = c.state /\ d.broken = c.broken
      /\ SameBits(c, d) /\ SameTimer(c, d)
      /\ SameBuffers(c, d) /\ SameUsed(c, d) /\ SameBytes(c, d)
  BY DEF Dispatched, Notification
<1>1. /\ a \in Connections
      /\ a.broken = "" <=> d.broken = "" /\ "GET" \notin d.active
      /\ SamePlace(d, a) /\ SameBits(d, a) /\ SameTimer(d, a)
      /\ SameBuffers(d, a) /\ SameUsed(d, a) /\ SameBytes(d, a)
      /\ a.port = d.port
  <2>1. "disconnecting" \in Failures /\ ("GET" \notin d.active) \in BOOLEAN
    BY DEF Failures
  <2> QED
    BY <2>1, Checked
<1> HIDE DEF a
<1>2. /\ e \in Connections /\ e.broken = a.broken
      /\ SamePlace(a, e) /\ SameTimer(a, e)
      /\ SameBuffers(a, e) /\ SameUsed(a, e) /\ SameBytes(a, e)
      /\ e.active = a.active \ ({n.request} \ {"GET"}) /\ e.inflight = a.inflight
      /\ e.port = a.port
  BY <1>1 DEF Connections, SamePlace, SameTimer, SameBuffers, SameUsed, SameBytes
<1> HIDE DEF e
<1>3. /\ f \in Connections /\ f.broken = e.broken
      /\ SamePlace(e, f) /\ SameBits(e, f)
      /\ SameBuffers(e, f) /\ SameUsed(e, f) /\ SameBytes(e, f)
      /\ f.port = e.port /\ f.timer = e.timer
      /\ f.timerReady = e.timerReady \/ f.timerReady = TRUE
      /\ n.request # "GTO" => f.timerReady = e.timerReady
  BY <1>2 DEF ResetTimer, Connections, SamePlace, SameBits, SameBuffers, SameUsed,
              SameBytes
<1> HIDE DEF f
<1>4. g = IF f.active \subseteq {"GET"} THEN [f EXCEPT !.state = "disconnected"] ELSE f
  BY DEF disconnecting, f, e, a
<1> HIDE DEF g
<1>5. /\ g \in Connections /\ g.broken = f.broken /\ g.pool = f.pool
      /\ g.state = IF f.active \subseteq {"GET"} THEN "disconnected" ELSE f.state
      /\ SameBits(f, g) /\ SameTimer(f, g)
      /\ SameBuffers(f, g) /\ SameUsed(f, g) /\ SameBytes(f, g)
      /\ g.port = f.port
  BY <1>3, <1>4 DEF Connections, States, SameBits, SameTimer, SameBuffers, SameUsed,
                    SameBytes
<1> SUFFICES ASSUME g.broken = "" PROVE Sane(g)
  BY <1>5 DEF Good, g
<1>6. /\ "GET" \notin c.active
      /\ g.active = c.active \ {n.request} /\ g.inflight = c.inflight
      /\ g.pool = c.pool /\ g.port = d.port
      /\ g.state = IF g.active = {} THEN "disconnected" ELSE "disconnecting"
      /\ g.timer = c.timer
      /\ g.timerReady = c.timerReady \/ g.timerReady = TRUE
      /\ n.request # "GTO" => g.timerReady = c.timerReady
      /\ SameBuffers(c, g) /\ SameUsed(c, g) /\ SameBytes(c, g)
  <2>1. a.broken = "" /\ f.port = d.port /\ g.port = d.port
    BY <1>1, <1>2, <1>3, <1>5
  <2>2. SameBuffers(c, g) /\ SameUsed(c, g) /\ SameBytes(c, g)
    <3>1. SameBuffers(c, a) /\ SameUsed(c, a) /\ SameBytes(c, a)
      BY <1>0, <1>1, Same
    <3>2. SameBuffers(c, e) /\ SameUsed(c, e) /\ SameBytes(c, e)
      BY <1>2, <3>1, Same
    <3>3. SameBuffers(c, f) /\ SameUsed(c, f) /\ SameBytes(c, f)
      BY <1>3, <3>2, Same
    <3> QED
      BY <1>5, <3>3, Same
  <2>3. SameBits(c, a) /\ SameTimer(c, a) /\ SamePlace(d, a)
    BY <1>0, <1>1, Same
  <2>4. "GET" \notin c.active
    <3>1. "GET" \notin d.active
      BY <1>1, <2>1
    <3> QED
      BY <1>1, <2>3, <3>1 DEF SameBits
  <2>5. g.active = c.active \ {n.request} /\ g.inflight = c.inflight
    <3>1. e.active = c.active \ ({n.request} \ {"GET"}) /\ e.inflight = c.inflight
      BY <1>2, <2>3 DEF SameBits
    <3>2. g.active = e.active /\ g.inflight = e.inflight
      BY <1>3, <1>5 DEF SameBits
    <3> QED
      BY <2>4, <3>1, <3>2
  <2>6. g.timer = c.timer
        /\ (g.timerReady = c.timerReady \/ g.timerReady = TRUE)
        /\ (n.request # "GTO" => g.timerReady = c.timerReady)
    <3>1. e.timer = c.timer /\ e.timerReady = c.timerReady
      BY <1>2, <2>3 DEF SameTimer
    <3> QED
      BY <1>3, <1>5, <3>1 DEF SameTimer
  <2>7. f.state = "disconnecting" /\ g.pool = c.pool
    <3>1. SamePlace(d, e)
      BY <1>2, <2>3, Same
    <3>2. SamePlace(d, f)
      BY <1>3, <3>1, Same
    <3> QED
      BY <1>0, <1>5, <3>2 DEF SamePlace
  <2>8. g.state = IF g.active = {} THEN "disconnected" ELSE "disconnecting"
    <3>1. f.active = g.active /\ "GET" \notin g.active
      BY <1>5, <2>4, <2>5 DEF SameBits
    <3> QED
      BY <1>5, <2>7, <3>1
  <2> QED
    BY <2>1, <2>2, <2>4, <2>5, <2>6, <2>7, <2>8
<1>7. /\ PortInv(c) /\ BitInv(c) /\ TimerInv(c) /\ Disconnecting(c)
      /\ c.pool # "unused"
  BY DEF Sane, StateInv
<1>8. PortInv(g)
  BY <1>0, <1>5, <1>6, PortIs
<1>9. BitInv(g)
  BY <1>0, <1>6, <1>7 DEF BitInv
<1>10. TimerInv(g)
  <2>1. "GTO" \in Kinds(c.port) => "GTO" \in c.active /\ c.timerReady
    BY <1>7 DEF TimerInv
  <2> QED
    BY <1>0, <1>6, <1>7, <2>1 DEF TimerInv
<1>11. BufferInv(g)
  BY <1>6 DEF Sane, BufferInv, SameBuffers, SameUsed
<1>12. NoteInv(g)
  BY <1>0, <1>6 DEF Sane, NoteInv, SameBuffers, SameBytes
<1>13. StreamInv(g)
  <2>1. \A k : Stream(c, k) <=> Stream(g, k)
    BY <1>5, <1>6, StreamStays DEF SameBytes
  <2>2. g.state # "full_duplex"
    BY <1>6
  <2> QED
    BY <1>0, <1>6, <2>1, <2>2 DEF Sane, StreamInv, SameBytes
(* The accept's notification can only have been this one.                  *)
<1>14. "NEW" \notin Kinds(d.port)
  <2>1. "NEW" \in Kinds(d.port) => n.request = "NEW"
    BY <1>0, <1>7 DEF Disconnecting
  <2> QED
    BY <1>0, <2>1
<1>15. StateInv(g)
  <2>1. CASE g.active = {}
    <3>1. c.active \subseteq {n.request}
      BY <1>6, <2>1
    <3>2. Kinds(d.port) \subseteq Bits
      <4>1. d.port \in Seq(Notification)
        BY PortIs
      <4> QED
        BY <4>1, KindsAreBits
    <3>3. "GTO" \in Kinds(d.port) => "GTO" \in c.active
      BY <1>0, <1>7 DEF TimerInv
    <3>4. \A k \in {"GET", "PUT", "DEL"} : k \in Kinds(d.port) => k \in c.active
      BY <1>0, <1>7 DEF BitInv
    <3>5. Kinds(d.port) = {}
      BY <1>0, <1>14, <3>1, <3>2, <3>3, <3>4, ZenonT(60) DEF Bits
    <3>6. Disconnected(g)
      BY <1>6, <1>7, <2>1, <3>5 DEF Disconnected, Disconnecting
    <3> QED
      BY <1>6, <1>7, <2>1, <3>6 DEF StateInv
  <2>2. CASE g.active # {}
    <3>1. Disconnecting(g)
      BY <1>6, <1>7, <1>14, <2>2 DEF Disconnecting
    <3> QED
      BY <1>6, <1>7, <2>2, <3>1 DEF StateInv
  <2> QED
    BY <2>1, <2>2
<1> QED
  BY <1>8, <1>9, <1>10, <1>11, <1>12, <1>13, <1>15 DEF Sane

LEMMA Empty ==
    /\ NoBytes.bytes = <<>> /\ NoBytes.base = 0
    /\ NoBytes.base + Len(NoBytes.bytes) <= BufferSize
    /\ pack(NoBytes) = NoBytes
<1>1. 0 + 0 <= BufferSize
  BY Bounds
<1> QED
  BY <1>1, EmptyBuffer DEF NoBytes, pack

LEMMA Nothing ==
    /\ Len(<<>>) = 0 /\ DOMAIN <<>> = {} /\ 0 - 0 + 0 + 0 = 0 /\ 0 <= 0
    /\ \A r \in Nat : 0 <= r
OBVIOUS

LEMMA Ranges == \A m \in 0..MaxBytes : m \in Nat
BY Bounds

LEMMA NotEmpty == \A s : Len(s) > 0 => s # <<>>
OBVIOUS

LEMMA GetsOnly == \A s \in {{"GET"}, {"GET", "GTO"}} : "PUT" \notin s /\ "DEL" \notin s
OBVIOUS

LEMMA NoMore ==
    ASSUME NEW a \in Nat, NEW x \in Nat, NEW b \in Nat, NEW m \in Nat,
           a + x <= b, b <= m
    PROVE  a + x <= m
OBVIOUS

(* A get starts a timer that was off.                                      *)
LEMMA TimerStarted ==
    ASSUME NEW c \in Connections, NEW got, Core(c), Fits(c, got),
           "GET" \notin c.active, c.getBuffer = NoBytes,
           "GTO" \notin c.active \cup Kinds(c.port), c.timer = "off"
    PROVE  LET d == initiate_get(c, got) IN
           /\ d \in Connections /\ Core(d) /\ TimerInv(d)
           /\ SamePlace(c, d) /\ SameBuffers(c, d)
           /\ d.active \in {c.active \cup {"GET"}, c.active \cup {"GET", "GTO"}}
<1> DEFINE d == initiate_get(c, got)
           n == Note("GET", got, got = 0)
<1>1. /\ d \in Connections
      /\ SamePlace(c, d) /\ SameBuffers(c, d)
      /\ got = NotYet =>
            /\ d.active = c.active \cup {"GET", "GTO"}
            /\ d.timer = "running" /\ d.timerReady = FALSE
            /\ d.port = c.port
      /\ got # NotYet =>
            /\ d.active = c.active \cup {"GET"}
            /\ SameTimer(c, d)
            /\ d.port = Append(c.port, n)
  BY GetInitiated, ZenonT(60) DEF Fits, Core
<1>2. Core(d)
  BY CoreGet
<1>3. got # NotYet => n \in Notification /\ n.request = "GET"
  BY DEF Fits, Note, Notification, Bits
<1> HIDE DEF d, n
<1>4. TimerInv(d) /\ d.active \in {c.active \cup {"GET"}, c.active \cup {"GET", "GTO"}}
  <2>1. CASE got = NotYet
    BY <1>1, <2>1 DEF TimerInv
  <2>2. CASE got # NotYet
    <3>1. c.port \in Seq(Notification) /\ n \in Notification
      BY <1>3, <2>2, PortIs
    <3>2. Kinds(d.port) = Kinds(c.port) \cup {"GET"}
      <4>1. d.port = Append(c.port, n) /\ n.request = "GET"
        BY <1>1, <1>3, <2>2
      <4>2. Kinds(Append(c.port, n)) = Kinds(c.port) \cup {n.request}
        BY <3>1, PortAppend
      <4> QED
        BY <4>1, <4>2
    <3>3. d.active = c.active \cup {"GET"} /\ d.timer = "off"
      BY <1>1, <2>2 DEF SameTimer
    <3> QED
      BY <3>2, <3>3 DEF TimerInv
  <2> QED
    BY <2>1, <2>2
<1> QED
  BY <1>1, <1>2, <1>4 DEF d

(* An accept has completed: nothing is left outstanding.                   *)
LEMMA AcceptTaken ==
    ASSUME NEW c \in Connections, NEW d \in Connections, NEW n, Sane(c),
           c.state = "disconnected", c.broken = "", c.port # <<>>,
           Dispatched(c, d, n),
           d.pool = IF c.pool = "listen" THEN "active" ELSE c.pool
    PROVE  LET e == [d EXCEPT !.active = @ \ {"NEW"}] IN
           /\ n.request = "NEW" /\ d.active = {"NEW"}
           /\ e \in Connections /\ Core(e)
           /\ e.active = {} /\ e.timer = "off" /\ Kinds(e.port) = {}
           /\ e.getBuffer = NoBytes /\ e.putBuffer = NoBytes
           /\ e.taken = 0 /\ e.received = c.received
           /\ n.size \in 0..MaxBytes /\ n.size <= BufferSize
           /\ e.taken + n.size <= e.received
<1> DEFINE e == [d EXCEPT !.active = @ \ {"NEW"}]
<1>0. /\ n \in Notification /\ n \in ToSet(c.port)
      /\ Kinds(c.port) = {n.request} \cup Kinds(d.port)
      /\ Distinct(d.port) /\ n.request \notin Kinds(d.port)
      /\ n.request \notin c.inflight
      /\ d.state = c.state /\ d.broken = c.broken
      /\ SameBits(c, d) /\ SameTimer(c, d)
      /\ SameBuffers(c, d) /\ SameUsed(c, d) /\ SameBytes(c, d)
  BY DEF Dispatched
<1>1. n.request = "NEW" /\ c.active = {"NEW"} /\ c.pool = "listen"
      /\ Kinds(d.port) = {}
      /\ c.getBuffer = NoBytes /\ c.putBuffer = NoBytes
      /\ c.taken = 0 /\ c.wire = <<>>
  BY <1>0 DEF Sane, StateInv, Disconnected
<1>2. c.inflight = {} /\ c.timer = "off"
  BY <1>0, <1>1, AcceptAlone
<1>3. /\ e \in Connections
      /\ e.active = {} /\ e.inflight = {} /\ e.port = d.port
      /\ e.timer = "off" /\ e.pool = "active" /\ e.broken = ""
      /\ e.getBuffer = NoBytes /\ e.putBuffer = NoBytes
      /\ e.taken = 0 /\ e.received = c.received /\ e.wire = <<>>
  <2>1. d.active = {"NEW"} /\ d.inflight = {} /\ d.timer = "off" /\ d.pool = "active"
    BY <1>0, <1>1, <1>2 DEF SameBits, SameTimer
  <2>2. /\ d.getBuffer = NoBytes /\ d.putBuffer = NoBytes
        /\ d.taken = 0 /\ d.received = c.received /\ d.wire = <<>>
    BY <1>0, <1>1 DEF SameBuffers, SameBytes
  <2>3. e \in Connections
    BY DEF Connections
  <2> QED
    BY <1>0, <2>1, <2>2, <2>3 DEF Connections
<1>4. d.active = {"NEW"}
  BY <1>0, <1>1 DEF SameBits
<1> HIDE DEF e
<1>5. n.size <= BufferSize /\ c.taken + n.size <= c.received
      /\ n.size \in 0..MaxBytes
  BY <1>0, <1>1 DEF Sane, NoteInv, Notification
<1>6. ToSet(e.port) = {} /\ Kinds(e.port) = {}
  BY <1>1, <1>3, KindsOf, EmptySet, PortIs
<1>7. Core(e)
  <2>1. PortInv(e) /\ BitInv(e)
    BY <1>0, <1>3, <1>6, PortIs DEF BitInv
  <2>2. BufferInv(e)
    BY <1>3, Empty DEF BufferInv
  <2>3. NoteInv(e)
    <3>1. e.taken <= e.received
      <4>1. e.received \in Nat
        BY <1>3, Numbers
      <4> QED
        BY <1>3, <4>1, Nothing
    <3> QED
      BY <1>6, <3>1 DEF NoteInv
  <2>4. Streaming(e)
    <3>1. e.getBuffer.bytes = <<>> /\ e.putBuffer.bytes = <<>>
      BY <1>3, Empty
    <3>2. Stream(e, 0)
      BY <1>3, <3>1, Nothing DEF Stream
    <3> QED
      BY <1>3, <1>6, <3>2, Nothing DEF Streaming
  <2> QED
    BY <1>3, <1>6, <2>1, <2>2, <2>3, <2>4 DEF Core
<1> QED
  BY <1>1, <1>3, <1>4, <1>5, <1>6, <1>7 DEF e

LEMMA DisconnectedKept ==
    ASSUME NEW c \in Connections, NEW d \in Connections, NEW n, NEW got, Sane(c),
           c.state = "disconnected", c.broken = "", c.port # <<>>,
           Dispatched(c, d, n), Fits(c, got),
           d.pool = IF c.pool = "listen" THEN "active" ELSE c.pool
    PROVE  /\ d.active # {}
           /\ LET r == disconnected(d, n, got) IN
              Good(r) /\ r.state # "disconnected"
<1> DEFINE e == [d EXCEPT !.active = @ \ {"NEW"}]
           r == disconnected(d, n, got)
<1>1. /\ n.request = "NEW" /\ d.active = {"NEW"}
      /\ e \in Connections /\ Core(e)
      /\ e.active = {} /\ e.timer = "off" /\ Kinds(e.port) = {}
      /\ e.getBuffer = NoBytes /\ e.putBuffer = NoBytes
      /\ e.taken = 0 /\ e.received = c.received
      /\ n.size \in 0..MaxBytes /\ n.size <= BufferSize
      /\ e.taken + n.size <= e.received
  BY AcceptTaken
<1> HIDE DEF e
<1>2. r = IF n.bad THEN initiate_disconnection(e) ELSE Accepted(e, n, got)
  BY <1>1 DEF disconnected, Check, e
<1> HIDE DEF r
<1>3. CASE n.bad
  <2>1. /\ r \in Connections /\ r.state = "disconnecting"
        /\ r.active = {"DEL"} /\ SameTimer(e, r) /\ r.port = e.port
    BY <1>1, <1>2, <1>3, DisconnectionInitiated
  <2>2. Core(r)
    BY <1>1, <1>2, <1>3, CoreDisconnect
  <2>3. TimerInv(r)
    BY <1>1, <2>1 DEF TimerInv, SameTimer
  <2>4. Sane(r)
    BY <2>1, <2>2, <2>3, CoreSane
  <2> QED
    BY <1>1, <2>1, <2>4 DEF Good, r
<1>4. CASE ~n.bad
  <2> DEFINE g == gused(e, n.size)
             s == SwapBuffers(g)
             t == [s EXCEPT !.state = "full_duplex"]
             q == initiate_get(t, got)
             p == initiate_put(q)
  <2>1. /\ g \in Connections /\ Core(g)
        /\ SameBits(e, g) /\ SameTimer(e, g)
        /\ g.putBuffer = NoBytes /\ g.port = e.port /\ g.received = e.received
    <3>1. g \in Connections /\ Core(g)
      BY <1>1, CoreGot
    <3>2. e.taken + n.size <= MaxBytes
      <4>1. /\ e.taken \in Nat /\ e.received \in Nat /\ e.received <= MaxBytes
            /\ MaxBytes \in Nat
        BY <1>1, Numbers, Bounds
      <4>2. n.size \in Nat
        BY <1>1, Ranges
      <4> QED
        BY <1>1, <4>1, <4>2, NoMore
    <3>3. /\ SameBits(e, g) /\ SameTimer(e, g)
          /\ g.putBuffer = e.putBuffer /\ g.port = e.port /\ g.received = e.received
      BY <1>1, <3>2, BytesGot
    <3> QED
      BY <1>1, <3>1, <3>3
  <2> HIDE DEF g
  <2>2. /\ s \in Connections /\ Core(s)
        /\ SameBits(g, s) /\ SameTimer(g, s)
        /\ s.getBuffer = NoBytes /\ s.port = g.port /\ s.received = g.received
    <3>2. s \in Connections /\ s.getBuffer = NoBytes
      BY <2>1 DEF SwapBuffers, Connections
    <3>3. SwapAndPack(g) = s
      BY <3>2, Empty DEF SwapAndPack, Connections
    <3>4. g.putBuffer.bytes = <<>> /\ "GET" \notin g.active /\ "PUT" \notin g.active
      BY <1>1, <2>1, Empty DEF SameBits
    <3>5. Core(s)
      BY <2>1, <3>3, <3>4, CoreSwap
    <3>6. /\ SameBits(g, s) /\ SameTimer(g, s)
          /\ SameBytes(g, s) /\ s.port = g.port
      BY <2>1, <3>3, <3>4, SwappedAndPacked
    <3> QED
      BY <3>2, <3>5, <3>6 DEF SameBytes
  <2> HIDE DEF s
  <2>3. /\ t \in Connections /\ t.state = "full_duplex"
        /\ t.broken = s.broken /\ t.pool = s.pool
        /\ SameBits(s, t) /\ SameTimer(s, t)
        /\ SameBuffers(s, t) /\ SameUsed(s, t) /\ SameBytes(s, t)
        /\ t.port = s.port
    BY <2>2 DEF Connections, States, SameBits, SameTimer, SameBuffers, SameUsed,
                SameBytes
  <2> HIDE DEF t
  <2>4. Core(t)
    BY <2>2, <2>3, CoreStays DEF SameBits, SameBytes
  <2>5. /\ t.active = {} /\ t.timer = "off" /\ t.port = e.port
        /\ t.getBuffer = NoBytes /\ Fits(t, got)
    <3>1. SameBits(e, t) /\ SameTimer(e, t)
      BY <2>1, <2>2, <2>3, Same
    <3>2. t.received = c.received
      BY <1>1, <2>1, <2>2, <2>3 DEF SameBytes
    <3> QED
      BY <1>1, <2>1, <2>2, <2>3, <3>1, <3>2 DEF SameBits, SameTimer, SameBuffers, Fits
  <2>6. /\ q \in Connections /\ Core(q) /\ TimerInv(q)
        /\ q.state = "full_duplex"
        /\ q.active \in {{"GET"}, {"GET", "GTO"}}
    <3>1. "GET" \notin t.active /\ "GTO" \notin t.active \cup Kinds(t.port)
      BY <1>1, <2>5
    <3>2. /\ q \in Connections /\ Core(q) /\ TimerInv(q) /\ SamePlace(t, q)
          /\ q.active \in {t.active \cup {"GET"}, t.active \cup {"GET", "GTO"}}
      BY <2>3, <2>4, <2>5, <3>1, TimerStarted
    <3> QED
      BY <2>3, <2>5, <3>2 DEF SamePlace
  <2> HIDE DEF q
  <2>7. r = IF pdone(q.putBuffer) THEN q ELSE p
    BY <1>2, <1>4 DEF Accepted, g, s, t, q
  <2>8. "NEW" \notin q.inflight \cup Kinds(q.port)
    BY <2>6 DEF Core
  <2>9. CASE pdone(q.putBuffer)
    <3>1. FullDuplex(q)
      BY <2>6, <2>8, <2>9 DEF FullDuplex, pdone
    <3> QED
      BY <1>1, <2>6, <2>7, <2>9, <3>1, CoreSane DEF Good, r
  <2>10. CASE ~pdone(q.putBuffer)
    <3>1. "PUT" \notin q.active /\ q.putBuffer.bytes # <<>>
      <4>1. "PUT" \notin q.active
        BY <2>6, GetsOnly
      <4>2. q.putBuffer.bytes # <<>>
        BY <2>10 DEF pdone
      <4> QED
        BY <4>1, <4>2
    <3>2. /\ p \in Connections /\ SamePlace(q, p) /\ SameTimer(q, p)
          /\ p.active = q.active \cup {"PUT"} /\ p.port = q.port
      BY <2>6, <3>1, PutInitiated
    <3>3. Core(p)
      BY <2>6, <3>1, CorePut
    <3> HIDE DEF p
    <3>4. TimerInv(p)
      BY <2>6, <3>2 DEF TimerInv, SameTimer, SamePlace
    <3>5. FullDuplex(p)
      BY <2>6, <3>2, <3>3 DEF FullDuplex, Core
    <3>6. p.state = "full_duplex" /\ Sane(p)
      BY <2>6, <3>2, <3>3, <3>4, <3>5, CoreSane DEF SamePlace
    <3> QED
      BY <1>1, <2>7, <2>10, <3>2, <3>6 DEF Good, r
  <2> QED
    BY <2>9, <2>10
<1> QED
  BY <1>3, <1>4

(* Once a check has failed it stays so.                                    *)
LEMMA FailedEnds ==
    ASSUME NEW c \in Connections, c.broken # ""
    PROVE  /\ EndOf(c) \in Connections /\ EndOf(c).broken # ""
           /\ StopTimer(c) \in Connections /\ StopTimer(c).broken # ""
BY DisconnectionInitiated, TimerStopped DEF EndOf

(* Part of full_duplex(): the expiry of a timer always finds a get pending.*)
LEMMA TimeoutFails ==
    ASSUME NEW c \in Connections, NEW d \in Connections, NEW n, Sane(c),
           c.state = "full_duplex", c.broken = "", Dispatched(c, d, n),
           n.request = "GTO"
    PROVE  TimedOut(d) \in Connections /\ TimedOut(d).broken # ""
<1>1. "GET" \in d.active /\ d.timerReady = TRUE
  <2>1. "GTO" \in Kinds(c.port) /\ SameBits(c, d) /\ SameTimer(c, d)
    BY DEF Dispatched
  <2>2. c.timerReady /\ "GET" \in c.active
    BY <2>1 DEF Sane, TimerInv, StateInv, FullDuplex
  <2>3. c.timerReady \in BOOLEAN
    BY DEF Connections
  <2> QED
    BY <2>1, <2>2, <2>3 DEF SameBits, SameTimer
<1> DEFINE a == [d EXCEPT !.active = @ \ {"GTO"}]
           b == ResetTimer(a)
           e == Check(b, "GET" \notin a.active, "full_duplex: timeout")
<1>2. a \in Connections /\ "GET" \in a.active /\ a.timerReady
  BY <1>1 DEF Connections
<1>3. Check(a, d.timerReady, "full_duplex: not ready") = a
  BY <1>1 DEF Check
<1>4. TimedOut(d) = initiate_disconnection(e)
  BY <1>3 DEF TimedOut
<1> HIDE DEF a
<1>5. b \in Connections
  BY <1>2 DEF ResetTimer, Connections
<1> HIDE DEF b
<1>6. e \in Connections /\ e.broken # ""
  <2>1. "full_duplex: timeout" \in Failures /\ ("GET" \notin a.active) \in BOOLEAN
    BY DEF Failures
  <2> QED
    BY <1>2, <1>5, <2>1, Checked
<1> HIDE DEF e
<1> QED
  BY <1>4, <1>6, DisconnectionInitiated

(* A get has completed: its buffer is free for what it received.           *)
LEMMA GetTaken ==
    ASSUME NEW c \in Connections, NEW d \in Connections, NEW n, Sane(c),
           c.state = "full_duplex", c.broken = "",
           Dispatched(c, d, n), d.pool = c.pool, n.request = "GET"
    PROVE  LET e == [d EXCEPT !.active = @ \ {"GET"}] IN
           /\ "GET" \in d.active /\ "GET" \notin d.inflight
           /\ e \in Connections /\ Core(e) /\ Clock(e)
           /\ e.state = "full_duplex" /\ e.active \subseteq {"GTO", "PUT"}
           /\ "PUT" \notin e.active => e.putBuffer.bytes = <<>>
           /\ e.getBuffer = NoBytes /\ e.received = c.received
           /\ "GTO" \in Kinds(e.port) => e.timerReady
           /\ "GTO" \in Kinds(e.port) /\ "PUT" \notin e.active =>
                 Head(e.port).request = "GTO"
           /\ Transferred(n) = n.size /\ n.size \in 0..MaxBytes
           /\ n.size <= BufferSize /\ e.taken + n.size <= e.received
<1> DEFINE e == [d EXCEPT !.active = @ \ {"GET"}]
<1>0. /\ n \in Notification /\ n \in ToSet(c.port)
      /\ Head(c.port) = n
      /\ Kinds(c.port) = {"GET"} \cup Kinds(d.port)
      /\ ToSet(c.port) = {n} \cup ToSet(d.port)
      /\ Distinct(d.port) /\ "GET" \notin Kinds(d.port)
      /\ "GET" \notin c.inflight /\ Kinds(d.port) \cap c.inflight = {}
      /\ d.state = c.state /\ d.broken = c.broken
      /\ SameBits(c, d) /\ SameTimer(c, d)
      /\ SameBuffers(c, d) /\ SameUsed(c, d) /\ SameBytes(c, d)
  BY DEF Dispatched
<1>1. /\ BitInv(c) /\ TimerInv(c) /\ BufferInv(c) /\ NoteInv(c) /\ FullDuplex(c)
      /\ c.pool # "unused"
  BY DEF Sane, StateInv
<1>2. "GET" \in c.active
  BY <1>0, <1>1 DEF BitInv
<1>3. /\ e \in Connections
      /\ e.active = d.active \ {"GET"} /\ e.inflight = d.inflight
      /\ e.port = d.port /\ e.pool = d.pool /\ e.state = d.state
      /\ e.broken = d.broken /\ SameTimer(d, e)
      /\ SameBuffers(d, e) /\ SameUsed(d, e) /\ SameBytes(d, e)
  BY DEF Connections, SameTimer, SameBuffers, SameUsed, SameBytes
<1> HIDE DEF e
<1>4. /\ e.active = c.active \ {"GET"} /\ e.inflight = c.inflight
      /\ e.port = d.port /\ e.pool = c.pool /\ e.state = "full_duplex"
      /\ e.broken = "" /\ SameTimer(c, e)
      /\ SameBuffers(c, e) /\ SameUsed(c, e) /\ SameBytes(c, e)
  <2>1. /\ SameTimer(c, e) /\ SameBuffers(c, e)
        /\ SameUsed(c, e) /\ SameBytes(c, e)
    BY <1>0, <1>3, Same
  <2>2. e.active = c.active \ {"GET"} /\ e.inflight = c.inflight
    BY <1>0, <1>3 DEF SameBits
  <2> QED
    BY <1>0, <1>3, <2>1, <2>2
<1>5. PortInv(e)
  BY <1>0, <1>3, <1>4, PortIs
<1>6. BitInv(e)
  BY <1>0, <1>1, <1>4 DEF BitInv
<1>7. BufferInv(e) /\ e.getBuffer = NoBytes
  BY <1>1, <1>2, <1>4 DEF BufferInv, SameBuffers, SameUsed
<1>8. NoteInv(e)
  BY <1>0, <1>1, <1>4 DEF NoteInv, SameBuffers, SameBytes
<1>9. Streaming(e)
  <2>1. \A k : Stream(c, k) <=> Stream(e, k)
    BY <1>3, <1>4, StreamStays DEF SameBytes
  <2> QED
    BY <1>0, <1>4, <2>1 DEF Sane, StreamInv, Streaming, SameBytes
<1>10. "NEW" \notin e.active \cup e.inflight \cup Kinds(e.port)
  BY <1>0, <1>1, <1>4 DEF FullDuplex
<1>11. Core(e)
  BY <1>1, <1>4, <1>5, <1>6, <1>7, <1>8, <1>9, <1>10 DEF Core
<1>12. "GTO" \in Kinds(e.port) => e.timerReady /\ "GTO" \in e.active
  <2>1. "GTO" \in Kinds(e.port) => "GTO" \in Kinds(c.port)
    BY <1>0, <1>4
  <2> QED
    BY <1>0, <1>1, <1>4, <2>1 DEF TimerInv, SameTimer
<1>13. Clock(e)
  <2>1. "GTO" \in Kinds(c.port) => "GTO" \in Kinds(e.port)
    BY <1>0, <1>4
  <2> QED
    BY <1>1, <1>4, <1>12, <2>1 DEF TimerInv, Clock, SameTimer
<1>14. /\ e.active \subseteq {"GTO", "PUT"}
       /\ "PUT" \notin e.active => e.putBuffer.bytes = <<>>
  BY <1>1, <1>4 DEF FullDuplex, SameBuffers
<1>15. ASSUME "GTO" \in Kinds(e.port), "PUT" \notin e.active
       PROVE  Head(e.port).request = "GTO"
  <2>1. e.port \in Seq(Notification) /\ Kinds(e.port) \subseteq Bits
    BY <1>3, PortIs, KindsAreBits
  <2>2. "PUT" \notin Kinds(e.port) /\ "DEL" \notin Kinds(e.port)
    BY <1>6, <1>14, <1>15 DEF BitInv
  <2>3. Kinds(e.port) \subseteq {"GTO"}
    BY <1>0, <1>4, <1>10, <2>1, <2>2 DEF Bits
  <2>4. e.port # <<>>
    BY <1>15, <2>1, KindsOf
  <2>5. Head(e.port).request \in Kinds(e.port)
    BY <2>1, <2>4, PortTail
  <2> QED
    BY <2>3, <2>5
<1>16. /\ Transferred(n) = n.size /\ n.size \in 0..MaxBytes
       /\ n.size <= BufferSize /\ e.taken + n.size <= e.received
  <2>1. n.size \in 0..MaxBytes /\ n.size <= BufferSize /\ (n.bad => n.size = 0)
    BY <1>0, <1>1 DEF NoteInv, Notification
  <2>2. e.taken + n.size <= e.received
    BY <1>0, <1>1, <1>4 DEF NoteInv, SameBytes
  <2> QED
    BY <2>1, <2>2 DEF Transferred
<1>17. "GET" \in d.active /\ "GET" \notin d.inflight /\ e.received = c.received
  BY <1>0, <1>2, <1>4 DEF SameBits, SameBytes
<1> QED
  BY <1>3, <1>4, <1>7, <1>11, <1>12, <1>13, <1>14, <1>15, <1>16, <1>17 DEF e

LEMMA GetCompleted ==
    ASSUME NEW c \in Connections, NEW d \in Connections, NEW n, NEW got, Sane(c),
           c.state = "full_duplex", c.broken = "",
           Dispatched(c, d, n), d.pool = c.pool, n.request = "GET", Fits(c, got)
    PROVE  Good(EndOf(complete_get(d, n, got)))
<1> DEFINE e == [d EXCEPT !.active = @ \ {"GET"}]
           x == n.size
           r == complete_get(d, n, got)
<1>1. /\ "GET" \in d.active /\ "GET" \notin d.inflight
      /\ e \in Connections /\ Core(e) /\ Clock(e)
      /\ e.state = "full_duplex" /\ e.active \subseteq {"GTO", "PUT"}
      /\ "PUT" \notin e.active => e.putBuffer.bytes = <<>>
      /\ e.getBuffer = NoBytes /\ e.received = c.received
      /\ "GTO" \in Kinds(e.port) => e.timerReady
      /\ "GTO" \in Kinds(e.port) /\ "PUT" \notin e.active =>
            Head(e.port).request = "GTO"
      /\ Transferred(n) = x /\ x \in 0..MaxBytes
      /\ x <= BufferSize /\ e.taken + x <= e.received
  BY GetTaken
<1> HIDE DEF e, x
<1>2. r = StopTimer(IF x > 0 THEN GotBytes(gused(e, x), got)
                    ELSE GotNothing(e, n.bad))
  BY <1>1 DEF complete_get, Check, e
<1> HIDE DEF r
<1>3. "GET" \notin e.active /\ e.active \subseteq {"GET", "GTO", "PUT"}
  BY <1>1
<1>4. CASE x > 0
  <2> DEFINE g == gused(e, x)
             s == SwapAndPack(g)
             q == initiate_get(s, got)
             p == initiate_put(q)
  <2>1. /\ g \in Connections /\ Core(g)
        /\ SamePlace(e, g) /\ SameBits(e, g) /\ SameTimer(e, g)
        /\ g.putBuffer = e.putBuffer /\ Len(g.getBuffer.bytes) = x
        /\ g.port = e.port /\ g.received = e.received
    <3>1. g \in Connections /\ Core(g)
      BY <1>1, <1>3, CoreGot
    <3>2. e.taken + x <= MaxBytes
      <4>1. /\ e.taken \in Nat /\ e.received \in Nat /\ e.received <= MaxBytes
            /\ MaxBytes \in Nat
        BY <1>1, Numbers, Bounds
      <4>2. x \in Nat
        BY <1>1, Ranges
      <4> QED
        BY <1>1, <4>1, <4>2, NoMore
    <3>3. /\ SamePlace(e, g) /\ SameBits(e, g) /\ SameTimer(e, g)
          /\ g.putBuffer = e.putBuffer /\ Len(g.getBuffer.bytes) = x
          /\ g.port = e.port /\ g.received = e.received
      BY <1>1, <3>2, BytesGot
    <3> QED
      BY <3>1, <3>3
  <2> HIDE DEF g
  <2>2. r = StopTimer(GotBytes(g, got)) /\ g.active = e.active
        /\ g.state = "full_duplex"
    BY <1>1, <1>2, <1>4, <2>1 DEF g, SameBits, SamePlace
  <2>3. CASE "PUT" \in e.active
    <3>1. r = StopTimer(g)
      BY <2>2, <2>3 DEF GotBytes
    <3>2. Clock(g)
      BY <1>1, <2>1 DEF Clock, SameBits, SameTimer
    <3>3. EndOf(r) \in Connections /\ Sane(EndOf(r))
      BY <1>3, <2>1, <2>2, <2>3, <3>1, <3>2, StopKept
    <3> QED
      BY <3>3 DEF Good, r
  <2>4. CASE "PUT" \notin e.active
    <3>1. g.putBuffer.bytes = <<>> /\ "GET" \notin g.active /\ "PUT" \notin g.active
      BY <1>1, <1>3, <2>1, <2>2, <2>4
    <3>2. /\ s \in Connections /\ Core(s)
          /\ SamePlace(g, s) /\ SameBits(g, s) /\ SameTimer(g, s)
          /\ s.getBuffer = NoBytes /\ s.putBuffer = g.getBuffer
          /\ s.port = g.port /\ s.received = g.received
      BY <2>1, <3>1, CoreSwap, SwappedAndPacked DEF SameBytes
    <3> HIDE DEF s
    <3>3. /\ s.active = e.active /\ "GET" \notin s.active /\ "PUT" \notin s.active
          /\ SameTimer(e, s) /\ s.port = e.port /\ Fits(s, got)
          /\ s.state = "full_duplex"
      <4>1. SameTimer(e, s)
        BY <2>1, <3>2, Same
      <4>2. s.active = e.active /\ s.state = "full_duplex"
        BY <2>2, <3>2 DEF SameBits, SamePlace
      <4>3. s.received = c.received
        BY <1>1, <2>1, <3>2
      <4> QED
        BY <1>3, <2>1, <2>4, <3>2, <4>1, <4>2, <4>3 DEF Fits
    <3>4. /\ q \in Connections /\ Core(q)
          /\ SamePlace(s, q) /\ SameBuffers(s, q)
          /\ got = NotYet =>
                /\ q.active = s.active \cup {"GET", "GTO"}
                /\ q.timer = "running" /\ q.timerReady = FALSE
                /\ q.port = s.port
          /\ got # NotYet =>
                /\ q.active = s.active \cup {"GET"}
                /\ SameTimer(s, q)
                /\ q.port = Append(s.port, Note("GET", got, got = 0))
      <4>1. Core(q)
        BY <3>2, <3>3, CoreGet
      <4>2. s.broken = "" => "GET" \notin s.active /\ s.getBuffer = NoBytes
        BY <3>2, <3>3
      <4>3. /\ got \in {NotYet} \cup 0..MaxBytes
            /\ got # NotYet => s.received + got <= MaxBytes
        BY <3>3 DEF Fits
      <4>4. s \in Connections
        BY <3>2
      <4> QED
        BY <4>1, <4>2, <4>3, <4>4, GetInitiated, ZenonT(60)
    <3> HIDE DEF q
    <3>5. Clock(q)
      <4>1. CASE got = NotYet
        <5>1. /\ q.active = e.active \cup {"GET", "GTO"}
              /\ q.timer = "running" /\ q.timerReady = FALSE
              /\ q.port = e.port
          BY <3>3, <3>4, <4>1
        <5>2. "GTO" \in Kinds(e.port) => Head(e.port).request = "GTO"
          BY <1>1, <2>4
        <5> QED
          BY <5>1, <5>2 DEF Clock
      <4>2. CASE got # NotYet
        <5> DEFINE m == Note("GET", got, got = 0)
        <5>1. m \in Notification /\ m.request = "GET"
          BY <3>3, <4>2 DEF Fits, Note, Notification, Bits
        <5>2. e.port \in Seq(Notification)
          BY <1>1, PortIs
        <5>3. q.port = Append(e.port, m)
          BY <3>3, <3>4, <4>2
        <5> HIDE DEF m
        <5>4. Kinds(q.port) = Kinds(e.port) \cup {"GET"}
          BY <5>1, <5>2, <5>3, PortAppend
        <5>5. q.active = e.active \cup {"GET"}
          BY <3>3, <3>4, <4>2
        <5>6. SameTimer(e, q)
          BY <3>3, <3>4, <4>2, Same
        <5> QED
          BY <1>1, <5>4, <5>5, <5>6 DEF Clock, SameTimer
      <4> QED
        BY <4>1, <4>2
    <3>6. "PUT" \notin q.active /\ q.active \subseteq {"GET", "GTO", "PUT"}
      <4>1. q.active \in {s.active \cup {"GET"}, s.active \cup {"GET", "GTO"}}
        BY <3>4
      <4>2. s.active \subseteq {"GTO", "PUT"} /\ "PUT" \notin s.active
        BY <1>1, <3>3
      <4> QED
        BY <4>1, <4>2
    <3>7. q.putBuffer.bytes # <<>>
      <4>1. q.putBuffer = g.getBuffer
        BY <3>2, <3>4 DEF SameBuffers
      <4>2. Len(g.getBuffer.bytes) > 0
        BY <1>4, <2>1
      <4> QED
        BY <4>1, <4>2, NotEmpty
    <3>8. /\ p \in Connections /\ Core(p)
          /\ SamePlace(q, p) /\ SameTimer(q, p)
          /\ p.active = q.active \cup {"PUT"} /\ p.port = q.port
      BY <3>4, <3>6, <3>7, CorePut, PutInitiated
    <3>9. r = StopTimer(p)
      BY <2>2, <3>1 DEF GotBytes, pdone, s, q
    <3> HIDE DEF p
    <3>10. Clock(p)
      BY <3>5, <3>8 DEF Clock, SameTimer
    <3>11. /\ p.state = "full_duplex" /\ p.active \subseteq {"GET", "GTO", "PUT"}
           /\ "PUT" \in p.active
      BY <3>3, <3>4, <3>6, <3>8 DEF SamePlace
    <3>12. EndOf(r) \in Connections /\ Sane(EndOf(r))
      BY <3>8, <3>9, <3>10, <3>11, StopKept
    <3> QED
      BY <3>12 DEF Good, r
  <2> QED
    BY <2>3, <2>4
<1>5. CASE ~(x > 0)
  <2>1. r = StopTimer(GotNothing(e, n.bad))
    BY <1>2, <1>5
  <2>2. CASE n.bad \/ pdone(e.putBuffer)
    <3>1. r = StopTimer(e)
      BY <2>1, <2>2 DEF GotNothing
    <3>2. EndOf(r) \in Connections /\ Sane(EndOf(r))
      BY <1>1, <1>3, <3>1, StopKept
    <3> QED
      BY <3>2 DEF Good, r
  (* The put that is going on is not expected.                             *)
  <2>3. CASE ~(n.bad \/ pdone(e.putBuffer))
    <3> DEFINE p == initiate_put(e)
               q == [p EXCEPT !.state = "exhausting"]
    <3>1. "PUT" \in e.active
      BY <1>1, <2>3 DEF pdone
    <3>2. p \in Connections /\ p.broken # ""
      BY <1>1, <3>1, PutInitiated
    <3>3. r = StopTimer(q)
      BY <2>1, <2>3 DEF GotNothing
    <3> HIDE DEF p
    <3>4. q \in Connections /\ q.broken # ""
      BY <3>2 DEF Connections, States
    <3> HIDE DEF q
    <3>5. r \in Connections /\ r.broken # ""
      BY <3>3, <3>4, FailedEnds
    <3> QED
      BY <3>5, FailedEnds DEF Good, r
  <2> QED
    BY <2>2, <2>3
<1> QED
  BY <1>4, <1>5

LEMMA NotPositive == \A m \in Nat : ~(m > 0) => m = 0
OBVIOUS

LEMMA NoPuts == \A s : s \subseteq {"GET", "GTO"} => "PUT" \notin s /\ "DEL" \notin s
OBVIOUS

LEMMA NoLength == \A s \in Seq(Nat) : s = <<>> <=> Len(s) = 0
OBVIOUS

(* The buffer after n of its bytes have been sent.                         *)
LEMMA Advanced ==
    ASSUME NEW b \in Buffers, NEW x \in Nat, x <= Len(b.bytes)
    PROVE  /\ pused(b, x) \in Buffers
           /\ pused(b, x).base + Len(pused(b, x).bytes) = b.base + Len(b.bytes)
           /\ pused(b, x).bytes = <<>> <=> x = Len(b.bytes)
<1> DEFINE s == SubSeq(b.bytes, x + 1, Len(b.bytes))
<1>1. b.base \in Nat /\ b.bytes \in Seq(Nat) /\ Len(b.bytes) \in Nat
  BY DEF Buffers
<1>2. s \in Seq(Nat) /\ Len(s) = Len(b.bytes) - x
  BY <1>1
<1>3. s = <<>> <=> Len(s) = 0
  BY <1>2, NoLength
<1>4. Len(b.bytes) - x = 0 <=> x = Len(b.bytes)
  BY <1>1
<1>5. b.base + x + (Len(b.bytes) - x) = b.base + Len(b.bytes) /\ b.base + x \in Nat
  BY <1>1
<1>6. pused(b, x) = [base |-> b.base + x, bytes |-> s]
  BY DEF pused
<1> HIDE DEF s
<1>7. pused(b, x).base = b.base + x /\ pused(b, x).bytes = s
  BY <1>6
<1>8. pused(b, x) \in Buffers
  BY <1>2, <1>5, <1>6 DEF Buffers
<1>9. pused(b, x).base + Len(pused(b, x).bytes) = b.base + Len(b.bytes)
  BY <1>2, <1>5, <1>7
<1>10. pused(b, x).bytes = <<>> <=> x = Len(b.bytes)
  BY <1>2, <1>3, <1>4, <1>7
<1> QED
  BY <1>8, <1>9, <1>10

(* A put has completed: what it sent is at the end of the wire.            *)
LEMMA PutTaken ==
    ASSUME NEW c \in Connections, NEW d \in Connections, NEW n, Sane(c),
           c.state = "full_duplex", c.broken = "",
           Dispatched(c, d, n), d.pool = c.pool, n.request = "PUT"
    PROVE  LET e == [d EXCEPT !.active = @ \ {"PUT"}] IN
           /\ "PUT" \in d.active /\ "PUT" \notin d.inflight
           /\ e \in Connections
           /\ PortInv(e) /\ BitInv(e) /\ BufferInv(e) /\ NoteInv(e) /\ TimerInv(e)
           /\ Len(e.wire) <= e.taken
           /\ \A i \in DOMAIN e.wire : e.wire[i] = i
           /\ Stream(e, n.size) /\ "PUT" \notin Kinds(e.port)
           /\ "NEW" \notin e.active \cup e.inflight \cup Kinds(e.port)
           /\ e.broken = "" /\ e.pool # "unused"
           /\ e.state = "full_duplex" /\ e.active \subseteq {"GET", "GTO"}
           /\ "GTO" \in e.active \cup Kinds(e.port) =>
                 "GET" \in e.active /\ "GTO" \in e.active
           /\ e.received = c.received
           /\ Transferred(n) = n.size
           /\ n.size \in Nat /\ n.size <= Len(d.putBuffer.bytes)
           /\ d.putBuffer = e.putBuffer
<1> DEFINE e == [d EXCEPT !.active = @ \ {"PUT"}]
<1>0. /\ n \in Notification /\ n \in ToSet(c.port)
      /\ Head(c.port) = n
      /\ Kinds(c.port) = {"PUT"} \cup Kinds(d.port)
      /\ ToSet(c.port) = {n} \cup ToSet(d.port)
      /\ Distinct(d.port) /\ "PUT" \notin Kinds(d.port)
      /\ "PUT" \notin c.inflight /\ Kinds(d.port) \cap c.inflight = {}
      /\ d.state = c.state /\ d.broken = c.broken
      /\ SameBits(c, d) /\ SameTimer(c, d)
      /\ SameBuffers(c, d) /\ SameUsed(c, d) /\ SameBytes(c, d)
  BY DEF Dispatched
<1>1. /\ BitInv(c) /\ TimerInv(c) /\ BufferInv(c) /\ NoteInv(c) /\ FullDuplex(c)
      /\ StreamInv(c) /\ c.pool # "unused"
  BY DEF Sane, StateInv
<1>2. "PUT" \in c.active
  BY <1>0, <1>1 DEF BitInv
<1>3. /\ e \in Connections
      /\ e.active = d.active \ {"PUT"} /\ e.inflight = d.inflight
      /\ e.port = d.port /\ e.pool = d.pool /\ e.state = d.state
      /\ e.broken = d.broken /\ SameTimer(d, e)
      /\ SameBuffers(d, e) /\ SameUsed(d, e) /\ SameBytes(d, e)
  BY DEF Connections, SameTimer, SameBuffers, SameUsed, SameBytes
<1> HIDE DEF e
<1>4. /\ e.active = c.active \ {"PUT"} /\ e.inflight = c.inflight
      /\ e.port = d.port /\ e.pool = c.pool /\ e.state = "full_duplex"
      /\ e.broken = "" /\ SameTimer(c, e)
      /\ SameBuffers(c, e) /\ SameUsed(c, e) /\ SameBytes(c, e)
  <2>1. /\ SameTimer(c, e) /\ SameBuffers(c, e)
        /\ SameUsed(c, e) /\ SameBytes(c, e)
    BY <1>0, <1>3, Same
  <2>2. e.active = c.active \ {"PUT"} /\ e.inflight = c.inflight
    BY <1>0, <1>3 DEF SameBits
  <2> QED
    BY <1>0, <1>3, <2>1, <2>2
<1>5. PortInv(e)
  BY <1>0, <1>3, <1>4, PortIs
<1>6. BitInv(e)
  BY <1>0, <1>1, <1>4 DEF BitInv
<1>7. BufferInv(e)
  BY <1>1, <1>4 DEF BufferInv, SameBuffers, SameUsed
<1>8. NoteInv(e)
  BY <1>0, <1>1, <1>4 DEF NoteInv, SameBuffers, SameBytes
<1>9. /\ Len(e.wire) <= e.taken
      /\ \A i \in DOMAIN e.wire : e.wire[i] = i
      /\ Stream(e, n.size)
  <2>1. \A k : Stream(c, k) <=> Stream(e, k)
    BY <1>3, <1>4, StreamStays DEF SameBytes
  <2> QED
    BY <1>0, <1>1, <1>4, <2>1 DEF StreamInv, SameBytes
<1>10. "NEW" \notin e.active \cup e.inflight \cup Kinds(e.port)
  BY <1>0, <1>1, <1>4 DEF FullDuplex
<1>11. /\ e.active \subseteq {"GET", "GTO"}
       /\ "GTO" \in e.active => "GET" \in e.active
  BY <1>1, <1>4 DEF FullDuplex
<1>12. "GTO" \in Kinds(c.port) => "GTO" \in c.active
  BY <1>0, <1>1 DEF TimerInv
<1>13. TimerInv(e)
  BY <1>0, <1>1, <1>4, <1>12 DEF TimerInv, SameTimer
<1>14. /\ n.size \in Nat /\ n.size <= Len(c.putBuffer.bytes)
       /\ n.bad => n.size = 0
  BY <1>0, <1>1, Ranges DEF NoteInv, Notification
<1>15. Transferred(n) = n.size
  BY <1>14 DEF Transferred
<1>16. "GTO" \in Kinds(e.port) => "GTO" \in e.active
  BY <1>0, <1>4, <1>12
<1>17. /\ "PUT" \in d.active /\ "PUT" \notin d.inflight /\ e.received = c.received
       /\ d.putBuffer = c.putBuffer /\ d.putBuffer = e.putBuffer
  BY <1>0, <1>2, <1>3, <1>4 DEF SameBits, SameBytes, SameBuffers
<1>18. "PUT" \notin Kinds(e.port) /\ e.pool # "unused"
  BY <1>0, <1>1, <1>4
<1> QED
  BY <1>3, <1>4, <1>5, <1>6, <1>7, <1>8, <1>9, <1>10, <1>11, <1>13, <1>14, <1>15,
     <1>16, <1>17, <1>18 DEF e

LEMMA PutCompleted ==
    ASSUME NEW c \in Connections, NEW d \in Connections, NEW n, NEW got, Sane(c),
           c.state = "full_duplex", c.broken = "",
           Dispatched(c, d, n), d.pool = c.pool, n.request = "PUT", Fits(c, got)
    PROVE  Good(EndOf(complete_put(d, n, got)))
<1> DEFINE e == [d EXCEPT !.active = @ \ {"PUT"}]
           x == n.size
           b == e.putBuffer
           u == [e EXCEPT !.putBuffer = pused(@, x)]
           f == IF x > 0 THEN PutBytes(u, got) ELSE initiate_disconnection(e)
           r == complete_put(d, n, got)
<1>1. /\ "PUT" \in d.active /\ "PUT" \notin d.inflight
      /\ e \in Connections
      /\ PortInv(e) /\ BitInv(e) /\ BufferInv(e) /\ NoteInv(e) /\ TimerInv(e)
      /\ Len(e.wire) <= e.taken
      /\ \A i \in DOMAIN e.wire : e.wire[i] = i
      /\ Stream(e, x) /\ "PUT" \notin Kinds(e.port)
      /\ "NEW" \notin e.active \cup e.inflight \cup Kinds(e.port)
      /\ e.broken = "" /\ e.pool # "unused"
      /\ e.state = "full_duplex" /\ e.active \subseteq {"GET", "GTO"}
      /\ "GTO" \in e.active \cup Kinds(e.port) =>
            "GET" \in e.active /\ "GTO" \in e.active
      /\ e.received = c.received
      /\ Transferred(n) = x
      /\ x \in Nat /\ x <= Len(d.putBuffer.bytes)
      /\ d.putBuffer = e.putBuffer
  BY PutTaken
<1>a. Check(Check(d, "PUT" \in d.active, "complete_put"),
            "PUT" \notin d.inflight, "complete_put: not ready") = d
  BY <1>1 DEF Check
<1>b. Transferred(n) = x
  BY <1>1
<1>2. r = IF "DEL" \notin f.active /\ ~pdone(f.putBuffer) THEN initiate_put(f) ELSE f
  <2> DEFINE a == Check(Check(d, "PUT" \in d.active, "complete_put"),
                        "PUT" \notin d.inflight, "complete_put: not ready")
             g == [a EXCEPT !.active = @ \ {"PUT"}]
             y == Transferred(n)
             h == IF y > 0
                  THEN PutBytes([g EXCEPT !.putBuffer = pused(@, y)], got)
                  ELSE initiate_disconnection(g)
  <2>1. r = IF "DEL" \notin h.active /\ ~pdone(h.putBuffer)
            THEN initiate_put(h) ELSE h
    BY DEF complete_put
  <2>2. a = d
    BY <1>a
  <2> HIDE DEF a, r
  <2>3. g = e
    BY <2>2
  <2> HIDE DEF g, e, y, x
  <2>4. y = x
    BY <1>b DEF y
  <2>5. h = f
    BY <2>3, <2>4
  <2> HIDE DEF h, f
  <2> QED
    BY <2>1, <2>5
<1> HIDE DEF e, r, x
<1>3. \A m \in ToSet(e.port) : m.request # "PUT"
  <2>1. e \in Connections /\ "PUT" \notin Kinds(e.port)
    BY <1>1
  <2> QED
    BY <2>1, TypesOf
<1>c. x \in Nat
  BY <1>1
<1>4. CASE ~(x > 0)
  <2> HIDE DEF f
  <2>1. f = initiate_disconnection(e)
    BY <1>4 DEF f
  <2>2. x = 0
    BY <1>c, <1>4, NotPositive
  <2>3. Core(e)
    BY <1>1, <1>3, <2>2 DEF Core, Streaming
  <2>4. "DEL" \notin e.active
    BY <1>1
  <2>5. /\ f \in Connections /\ f.broken = ""
        /\ f.state = "disconnecting" /\ f.active = e.active \cup {"DEL"}
        /\ SameTimer(e, f) /\ f.port = e.port
    BY <1>1, <2>1, <2>4, DisconnectionInitiated
  <2>6. Core(f)
    BY <1>1, <2>1, <2>3, <2>4, CoreDisconnect
  <2>7. r = f
    BY <1>2, <2>5
  <2>8. CASE f.active \cap {"GET", "GTO", "PUT"} = {}
    <3>1. EndOf(r) = initiate_disconnection(f)
      BY <2>7, <2>8 DEF EndOf
    <3>2. /\ initiate_disconnection(f) \in Connections
          /\ initiate_disconnection(f).broken # ""
      BY <2>5, DisconnectionInitiated
    <3> QED
      BY <3>1, <3>2 DEF Good, r
  <2>9. CASE f.active \cap {"GET", "GTO", "PUT"} # {}
    <3>1. EndOf(r) = f
      BY <2>7, <2>9 DEF EndOf
    <3>2. TimerInv(f)
      BY <1>1, <2>5 DEF TimerInv, SameTimer
    <3>3. Sane(f)
      BY <2>5, <2>6, <3>2, CoreSane
    <3> QED
      BY <2>5, <3>1, <3>3 DEF Good, r
  <2> QED
    BY <2>8, <2>9
<1>5. CASE x > 0
  <2>1. b \in Buffers /\ x <= Len(b.bytes)
    <3>1. e.putBuffer \in Buffers
      BY <1>1, TypesOf
    <3> QED
      BY <1>1, <3>1
  <2>2. /\ pused(b, x) \in Buffers
        /\ pused(b, x).base + Len(pused(b, x).bytes) = b.base + Len(b.bytes)
        /\ pused(b, x).bytes = <<>> <=> x = Len(b.bytes)
    BY <1>1, <2>1, Advanced
  <2>3. /\ u \in Connections /\ u.putBuffer = pused(b, x)
        /\ u.getBuffer = e.getBuffer /\ u.broken = e.broken
        /\ SamePlace(e, u) /\ SameBits(e, u) /\ SameTimer(e, u) /\ SameUsed(e, u)
        /\ SameBytes(e, u) /\ u.port = e.port
    BY <1>1, <2>2 DEF Connections, SamePlace, SameBits, SameTimer, SameUsed, SameBytes
  <2> HIDE DEF u
  <2>4. f = PutBytes(u, got)
    BY <1>5 DEF f
  <2> HIDE DEF f
  <2>5. /\ u.active = e.active /\ u.state = "full_duplex" /\ u.broken = ""
        /\ "DEL" \notin u.active /\ "PUT" \notin u.active
    <3>1. u.active = e.active
      BY <2>3 DEF SameBits
    <3>2. e.active \subseteq {"GET", "GTO"}
      BY <1>1
    <3>3. u.state = "full_duplex" /\ u.broken = ""
      BY <1>1, <2>3 DEF SamePlace
    <3> QED
      BY <3>1, <3>2, <3>3, NoPuts
  (* The rest is sent twice.                                               *)
  <2>6. CASE x # Len(b.bytes)
    <3> DEFINE p == initiate_put(u)
    <3>1. u.putBuffer.bytes # <<>>
      BY <2>2, <2>3, <2>6
    <3>2. /\ p \in Connections /\ SameBuffers(u, p)
          /\ p.active = u.active \cup {"PUT"}
      BY <2>3, <3>1, PutInitiated
    <3>3. f = p
      BY <2>4, <3>1 DEF PutBytes, pdone
    <3> HIDE DEF p
    <3>4. "DEL" \notin p.active /\ ~pdone(p.putBuffer) /\ "PUT" \in p.active
      BY <2>5, <3>1, <3>2 DEF SameBuffers, pdone
    <3>5. r = initiate_put(p)
      BY <1>2, <3>3, <3>4
    <3>6. r \in Connections /\ r.broken # ""
      BY <3>2, <3>4, <3>5, PutInitiated
    <3> QED
      BY <3>6, FailedEnds DEF Good, r
  <2>7. CASE x = Len(b.bytes)
    <3>1. u.putBuffer.bytes = <<>>
      BY <2>2, <2>3, <2>7
    <3>2. Core(u)
      <4>1. PortInv(u) /\ BitInv(u)
        <5>1. /\ u.port = e.port /\ u.active = e.active /\ u.inflight = e.inflight
              /\ PortInv(e) /\ BitInv(e)
          BY <1>1, <2>3 DEF SameBits
        <5> QED
          BY <5>1 DEF PortInv, BitInv
      <4>2. BufferInv(u)
        <5>1. u.putBuffer.base + Len(u.putBuffer.bytes) <= BufferSize
          BY <1>1, <2>2, <2>3 DEF BufferInv
        <5> QED
          BY <1>1, <2>3, <2>5, <5>1 DEF BufferInv, SameBits, SameUsed
      <4>3. NoteInv(u)
        BY <1>1, <1>3, <2>3 DEF NoteInv, SameBytes
      <4>4. Stream(u, 0)
        BY <1>1, <2>3, <2>7, <3>1, StreamSent DEF SameBytes
      <4>5. Streaming(u)
        BY <1>1, <1>3, <2>3, <4>4 DEF Streaming, SameBytes
      <4> QED
        BY <1>1, <2>3, <4>1, <4>2, <4>3, <4>5 DEF Core, SameBits, SamePlace
    <3>3. TimerInv(u)
      BY <1>1, <2>3 DEF TimerInv, SameBits, SameTimer, SamePlace
    <3>4. CASE ~(~pdone(u.getBuffer) /\ "GET" \notin u.active)
      <4>1. f = u
        BY <2>4, <3>1, <3>4 DEF PutBytes, pdone
      <4>2. r = u
        BY <1>2, <3>1, <4>1 DEF pdone
      <4>3. u.active \subseteq {"GET", "GTO", "PUT"}
            /\ ("GTO" \in u.active => "GET" \in u.active)
        BY <1>1, <2>5
      <4>4. EndOf(u) \in Connections /\ Sane(EndOf(u))
        BY <2>3, <2>5, <3>1, <3>2, <3>3, <4>3, EndKept
      <4> QED
        BY <4>2, <4>4 DEF Good, r
    <3>5. CASE ~pdone(u.getBuffer) /\ "GET" \notin u.active
      <4> DEFINE s == SwapAndPack(u)
                 q == initiate_get(s, got)
                 p == initiate_put(q)
      <4>1. f = q
        BY <2>4, <3>1, <3>5 DEF PutBytes, pdone
      <4>2. /\ s \in Connections /\ Core(s)
            /\ SamePlace(u, s) /\ SameBits(u, s) /\ SameTimer(u, s)
            /\ s.getBuffer = NoBytes /\ s.putBuffer = u.getBuffer
            /\ s.port = u.port /\ s.received = u.received
        BY <2>3, <2>5, <3>1, <3>2, <3>5, CoreSwap, SwappedAndPacked DEF SameBytes
      <4> HIDE DEF s
      <4>3. /\ s.active = {} /\ s.port = e.port
            /\ "GTO" \notin Kinds(e.port) /\ "GTO" \notin e.active
        <5>1. s.active = e.active /\ s.port = e.port /\ "GET" \notin e.active
          BY <2>3, <2>5, <3>5, <4>2 DEF SameBits
        <5> QED
          BY <1>1, <5>1
      <4>4. s.timer = "off"
        <5>1. e.timer # "running"
          BY <1>1, <4>3 DEF TimerInv
        <5>2. s.timer = e.timer
          BY <2>3, <4>2 DEF SameTimer
        <5>3. s.timer \in {"off", "running"}
          BY <4>2 DEF Connections
        <5> QED
          BY <5>1, <5>2, <5>3
      <4>5. Fits(s, got)
        <5>1. s.received = c.received
          BY <1>1, <2>3, <4>2 DEF SameBytes
        <5> QED
          BY <5>1 DEF Fits
      <4>6. /\ q \in Connections /\ Core(q) /\ TimerInv(q)
            /\ SamePlace(s, q) /\ SameBuffers(s, q)
            /\ q.active \in {s.active \cup {"GET"}, s.active \cup {"GET", "GTO"}}
        <5>1. "GET" \notin s.active /\ "GTO" \notin s.active \cup Kinds(s.port)
          BY <4>3
        <5> QED
          BY <4>2, <4>4, <4>5, <5>1, TimerStarted
      <4> HIDE DEF q
      <4>7. q.active \in {{"GET"}, {"GET", "GTO"}}
        BY <4>3, <4>6
      <4>8. q.putBuffer.bytes # <<>>
        BY <3>5, <4>2, <4>6 DEF pdone, SameBuffers
      <4>9. "PUT" \notin q.active /\ "DEL" \notin q.active
        BY <4>7, GetsOnly
      <4>10. r = p
        BY <1>2, <4>1, <4>8, <4>9 DEF pdone
      <4>11. /\ p \in Connections /\ SamePlace(q, p) /\ SameTimer(q, p)
             /\ p.active = q.active \cup {"PUT"} /\ p.port = q.port
        BY <4>6, <4>8, <4>9, PutInitiated
      <4>12. Core(p)
        BY <4>6, <4>8, <4>9, CorePut
      <4> HIDE DEF p
      <4>13. TimerInv(p)
        BY <4>6, <4>11 DEF TimerInv, SameTimer, SamePlace
      <4>14. p.active \in {{"GET", "PUT"}, {"GET", "GTO", "PUT"}}
        BY <4>7, <4>11
      <4>15. FullDuplex(p)
        BY <4>12, <4>14 DEF FullDuplex, Core
      <4>16. p.state = "full_duplex"
        BY <2>5, <4>2, <4>6, <4>11 DEF SamePlace
      <4>17. Sane(p)
        BY <4>11, <4>12, <4>13, <4>15, <4>16, CoreSane
      <4>18. EndOf(p) = p
        BY <4>14 DEF EndOf
      <4> QED
        BY <4>10, <4>11, <4>17, <4>18 DEF Good, r
    <3> QED
      BY <3>4, <3>5
  <2> QED
    BY <2>6, <2>7
<1> QED
  BY <1>4, <1>5

LEMMA FullDuplexKept ==
    ASSUME NEW c \in Connections, NEW d \in Connections, NEW n, NEW got, Sane(c),
           c.state = "full_duplex", c.broken = "", c.port # <<>>,
           Dispatched(c, d, n), d.pool = c.pool, Fits(c, got)
    PROVE  Good(full_duplex(d, n, got))
<1> DEFINE e == CASE n.request = "GTO" -> TimedOut(d)
                  [] n.request = "GET" -> complete_get(d, n, got)
                  [] n.request = "PUT" -> complete_put(d, n, got)
                  [] OTHER -> d
           r == full_duplex(d, n, got)
<1>1. FullDuplex(c) /\ BitInv(c)
  BY DEF Sane, StateInv
<1>2. /\ n.request \in Kinds(c.port) /\ n.request \in Bits
      /\ d.active = c.active
  BY DEF Dispatched, SameBits, Notification
<1>3. n.request \in {"GTO", "GET", "PUT"}
  BY <1>1, <1>2 DEF FullDuplex, BitInv, Bits
<1>4. Check(d, d.active \subseteq {"GET", "GTO", "PUT"}, "full_duplex") = d
  BY <1>1, <1>2 DEF Check, FullDuplex
<1>5. r = EndOf(e)
  BY <1>4 DEF full_duplex, EndOf
<1> HIDE DEF r
<1>6. CASE n.request = "GTO"
  <2>1. e = TimedOut(d)
    BY <1>6
  <2> HIDE DEF e
  <2>2. e \in Connections /\ e.broken # ""
    BY <1>6, <2>1, TimeoutFails
  <2> QED
    BY <1>5, <2>2, FailedEnds DEF Good, r
<1>7. CASE n.request = "GET"
  <2>1. e = complete_get(d, n, got)
    BY <1>7
  <2> HIDE DEF e
  <2> QED
    BY <1>5, <1>7, <2>1, GetCompleted DEF r
<1>8. CASE n.request = "PUT"
  <2>1. e = complete_put(d, n, got)
    BY <1>8
  <2> HIDE DEF e
  <2> QED
    BY <1>5, <1>8, <2>1, PutCompleted DEF r
<1> QED
  BY <1>3, <1>6, <1>7, <1>8

(* The last part of ServiceTask::run(): the connection is free again.      *)
LEMMA MoveKept ==
    ASSUME NEW c \in Connections, Good(c)
    PROVE  Good(IF c.state = "disconnected" THEN Move(c, "active", "unused") ELSE c)
<1> DEFINE d == [c EXCEPT !.pool = "unused"]
<1>1. CASE c.state = "disconnected" /\ c.pool = "active"
  <2>1. Move(c, "active", "unused") = d
    BY <1>1 DEF Move
  <2>2. /\ d \in Connections /\ d.broken = c.broken /\ d.state = c.state
        /\ d.pool = "unused" /\ d.port = c.port
        /\ SameBits(c, d) /\ SameTimer(c, d)
        /\ SameBuffers(c, d) /\ SameUsed(c, d) /\ SameBytes(c, d)
    BY DEF Connections, Pools, SameBits, SameTimer, SameBuffers, SameUsed, SameBytes
  <2> HIDE DEF d
  <2> SUFFICES ASSUME c.broken = "" PROVE Sane(d)
    BY <1>1, <2>1, <2>2 DEF Good
  <2>3. Sane(c)
    BY DEF Good
  <2>4. c.active = {}
    BY <1>1, <2>3 DEF Sane, StateInv, Disconnected
  <2>5. PortInv(d) /\ BitInv(d) /\ TimerInv(d)
    <3>1. PortInv(d) /\ BitInv(d)
      BY <2>2, <2>3 DEF Sane, PortInv, BitInv, SameBits
    <3>2. TimerInv(d)
      BY <2>2, <2>3 DEF Sane, TimerInv, SameBits, SameTimer
    <3> QED
      BY <3>1, <3>2
  <2>6. BufferInv(d)
    BY <2>2, <2>3 DEF Sane, BufferInv, SameBits, SameBuffers, SameUsed
  <2>7. NoteInv(d)
    BY <2>2, <2>3 DEF Sane, NoteInv, SameBuffers, SameBytes
  <2>8. StreamInv(d)
    <3>1. \A k : Stream(c, k) <=> Stream(d, k)
      BY <2>2, StreamStays DEF SameBytes
    <3> QED
      BY <2>2, <2>3, <3>1 DEF Sane, StreamInv, SameBits, SameBytes
  <2>9. StateInv(d)
    BY <1>1, <2>2, <2>3, <2>4 DEF Sane, StateInv, Disconnected, SameBits, SameBuffers
  <2> QED
    BY <2>5, <2>6, <2>7, <2>8, <2>9 DEF Sane
<1>2. CASE ~(c.state = "disconnected" /\ c.pool = "active")
  BY <1>2 DEF Move
<1> QED
  BY <1>1, <1>2

(* A notification is taken from the port, and a connection that listened   *)
(* moved to the active ones, before it is handled.                         *)
LEMMA Delivered ==
    ASSUME NEW conn0 \in Connections, Sane(conn0), conn0.port # <<>>
    PROVE  LET b == [conn0 EXCEPT !.port = Tail(@)]
               d == IF b.state = "disconnected" THEN Move(b, "listen", "active") ELSE b
           IN /\ d \in Connections /\ Dispatched(conn0, d, Head(conn0.port))
              /\ d.pool = IF conn0.state = "disconnected" /\ conn0.pool = "listen"
                          THEN "active" ELSE conn0.pool
<1> DEFINE n == Head(conn0.port)
           c == [conn0 EXCEPT !.port = Tail(@)]
           d == IF c.state = "disconnected" THEN Move(c, "listen", "active") ELSE c
<1>1. c \in Connections /\ Dispatched(conn0, c, n) /\ c.pool = conn0.pool
  BY Dispatching
<1> HIDE DEF c, n
<1>2. c.state = conn0.state
  BY <1>1 DEF Dispatched
<1>3. CASE conn0.state = "disconnected" /\ conn0.pool = "listen"
  <2>1. d = [c EXCEPT !.pool = "active"]
    BY <1>1, <1>2, <1>3 DEF Move
  <2> HIDE DEF d
  <2>2. /\ d \in Connections /\ d.pool = "active"
        /\ d.port = c.port /\ d.state = c.state /\ d.broken = c.broken
        /\ SameBits(c, d) /\ SameTimer(c, d)
        /\ SameBuffers(c, d) /\ SameUsed(c, d) /\ SameBytes(c, d)
    BY <1>1, <2>1
       DEF Connections, Pools, SameBits, SameTimer, SameBuffers, SameUsed, SameBytes
  <2>3. Dispatched(conn0, d, n)
    <3>1. /\ SameBits(conn0, c) /\ SameTimer(conn0, c)
          /\ SameBuffers(conn0, c) /\ SameUsed(conn0, c) /\ SameBytes(conn0, c)
      BY <1>1 DEF Dispatched
    <3>2. /\ SameBits(conn0, d) /\ SameTimer(conn0, d)
          /\ SameBuffers(conn0, d) /\ SameUsed(conn0, d) /\ SameBytes(conn0, d)
      BY <2>2, <3>1, Same
    <3> QED
      BY <1>1, <2>2, <3>2 DEF Dispatched
  <2> QED
    BY <1>3, <2>2, <2>3 DEF d, c, n
<1>4. CASE ~(conn0.state = "disconnected" /\ conn0.pool = "listen")
  <2>1. d = c
    BY <1>1, <1>2, <1>4 DEF Move
  <2> HIDE DEF d
  <2>2. d \in Connections /\ Dispatched(conn0, d, n) /\ d.pool = conn0.pool
    BY <1>1, <2>1
  <2> QED
    BY <1>4, <2>2 DEF d, c, n
<1> QED
  BY <1>3, <1>4

(* process_notification()'s own check: a notification finds a bit set.     *)
LEMMA HasActive ==
    ASSUME NEW c \in Connections, NEW d \in Connections, NEW n, NEW got, Sane(c),
           c.broken = "", c.port # <<>>, Dispatched(c, d, n), Fits(c, got),
           d.pool = IF c.state = "disconnected" /\ c.pool = "listen"
                    THEN "active" ELSE c.pool
    PROVE  d.active # {}
<1>1. d.state = c.state /\ d.active = c.active
  BY DEF Dispatched, SameBits
<1>2. /\ c.state \in {"disconnected", "disconnecting", "full_duplex"}
      /\ StateInv(c)
  BY DEF Sane, StateInv, Connections, States
<1>3. CASE c.state = "disconnected"
  <2>1. d.pool = IF c.pool = "listen" THEN "active" ELSE c.pool
    BY <1>3
  <2> QED
    BY <1>3, <2>1, DisconnectedKept
<1>4. CASE c.state = "full_duplex"
  BY <1>1, <1>2, <1>4 DEF StateInv, FullDuplex
<1>5. CASE c.state = "disconnecting"
  BY <1>1, <1>2, <1>5 DEF StateInv, Disconnecting
<1> QED
  BY <1>2, <1>3, <1>4, <1>5

LEMMA NotifyKept == EchoInv /\ Notify => EchoInv'
<1> SUFFICES ASSUME EchoInv, Notify PROVE EchoInv'
  OBVIOUS
<1>1. conn \in Connections /\ Sane(conn) /\ conn.broken = "" /\ conn.port # <<>>
  BY DEF EchoInv, Notify, Running
<1> DEFINE n == Head(conn.port)
           c == [conn EXCEPT !.port = Tail(@)]
           d == IF c.state = "disconnected" THEN Move(c, "listen", "active") ELSE c
<1>2. PICK got \in {NotYet} \cup 0..(MaxBytes - conn.received) :
          LET e == process_notification(d, n, got) IN
          /\ got # NotYet => got <= BufferSize /\ (conn.closed => got = 0)
          /\ conn' = IF e.state = "disconnected"
                     THEN Move(e, "active", "unused") ELSE e
  BY DEF Notify
<1> DEFINE e == process_notification(d, n, got)
<1>3. conn' = IF e.state = "disconnected" THEN Move(e, "active", "unused") ELSE e
  BY <1>2
<1>4. Fits(conn, got)
  <2>1. conn.received \in Nat /\ conn.received <= MaxBytes /\ MaxBytes \in Nat
    BY <1>1, Numbers, Bounds
  <2>2. \A k \in 0..(MaxBytes - conn.received) :
            k \in 0..MaxBytes /\ conn.received + k <= MaxBytes
    BY <2>1
  <2>3. got # NotYet => got \in 0..(MaxBytes - conn.received) /\ got <= BufferSize
    BY <1>2
  <2> QED
    BY <2>2, <2>3 DEF Fits
<1>5. /\ d \in Connections /\ Dispatched(conn, d, n)
      /\ d.pool = IF conn.state = "disconnected" /\ conn.pool = "listen"
                  THEN "active" ELSE conn.pool
  BY <1>1, Delivered
<1> HIDE DEF c, d, n
<1>6. d.state = conn.state /\ d.active = conn.active
  BY <1>5 DEF Dispatched, SameBits
<1>7. /\ conn.state \in {"disconnected", "disconnecting", "full_duplex"}
      /\ StateInv(conn)
  BY <1>1 DEF Sane, StateInv, Connections, States
<1>8. d.active # {}
  BY <1>1, <1>4, <1>5, HasActive
<1>9. Check(d, d.active # {}, "process_notification") = d
  BY <1>8 DEF Check
<1>10. Good(e)
  <2>1. CASE conn.state = "disconnected"
    <3>1. d.pool = IF conn.pool = "listen" THEN "active" ELSE conn.pool
      BY <1>5, <2>1
    <3>2. e = disconnected(d, n, got)
      BY <1>6, <1>9, <2>1 DEF process_notification
    <3> HIDE DEF e
    <3> QED
      BY <1>1, <1>4, <1>5, <2>1, <3>1, <3>2, DisconnectedKept
  <2>2. CASE conn.state = "full_duplex"
    <3>1. e = full_duplex(d, n, got)
      BY <1>6, <1>9, <2>2 DEF process_notification
    <3> HIDE DEF e
    <3>2. d.pool = conn.pool
      BY <1>5, <2>2
    <3> QED
      BY <1>1, <1>4, <1>5, <2>2, <3>1, <3>2, FullDuplexKept
  <2>3. CASE conn.state = "disconnecting"
    <3>1. e = disconnecting(d, n)
      BY <1>6, <1>9, <2>3 DEF process_notification
    <3> HIDE DEF e
    <3>2. d.pool = conn.pool
      BY <1>5, <2>3
    <3> QED
      BY <1>1, <1>5, <2>3, <3>1, <3>2, DisconnectingKept
  <2> QED
    BY <1>7, <2>1, <2>2, <2>3
<1> HIDE DEF e
<1>11. Good(conn')
  <2>1. e \in Connections
    BY <1>10 DEF Good
  <2> QED
    BY <1>3, <1>10, <2>1, MoveKept
<1> QED
  BY <1>11 DEF Good, EchoInv, Running

----------------------------------------------------------------------------
(* The theorems.                                                           *)

LEMMA EchoInit == Init => EchoInv
<1> SUFFICES ASSUME Init PROVE EchoInv
  OBVIOUS
<1>1. 0 \in 0..MaxBytes /\ <<>> \in Seq(Nat) /\ <<>> \in Seq(Notification)
  BY Bounds
<1>2. /\ conn \in Connections
      /\ conn.state = "disconnected" /\ conn.active = {"NEW"}
      /\ conn.pool = "listen" /\ conn.timer = "off" /\ conn.inflight = {"NEW"}
      /\ conn.port = <<>> /\ conn.getBuffer = NoBytes /\ conn.putBuffer = NoBytes
      /\ conn.received = 0 /\ conn.taken = 0 /\ conn.wire = <<>>
  BY <1>1, EmptyBuffer DEF Init, Connections, States, Bits, Pools
<1>3. ToSet(conn.port) = {} /\ Kinds(conn.port) = {} /\ DOMAIN conn.port = {}
  BY <1>2, NoKinds, EmptySet
<1>4. PortInv(conn) /\ BitInv(conn) /\ TimerInv(conn)
  BY <1>2, <1>3 DEF PortInv, BitInv, TimerInv
<1>5. BufferInv(conn)
  BY <1>2, Empty DEF BufferInv
<1>6. NoteInv(conn) /\ StreamInv(conn)
  BY <1>2, <1>3, Nothing DEF NoteInv, StreamInv
<1>7. StateInv(conn)
  BY <1>2, <1>3 DEF StateInv, Disconnected
<1> QED
  BY <1>2, <1>4, <1>5, <1>6, <1>7 DEF EchoInv, Sane

LEMMA EchoStep == EchoInv /\ [Next]_conn => EchoInv'
<1> SUFFICES ASSUME EchoInv, [Next]_conn PROVE EchoInv'
  OBVIOUS
<1>1. CASE Notify
  BY <1>1, NotifyKept
<1>2. CASE StartAccept
  BY <1>2, StartKept
<1>3. CASE AbortAccept
  BY <1>3, AbortKept
<1>4. CASE Connect
  BY <1>4, ConnectKept
<1>5. CASE CompleteAccept
  BY <1>5, AcceptKept
<1>6. CASE CompleteGet
  BY <1>6, GetKept
<1>7. CASE CompletePut
  BY <1>7, PutKept
<1>8. CASE CompleteDisconnect
  BY <1>8, DisconnectKept
<1>9. CASE Expire
  BY <1>9, ExpireKept
<1>10. CASE UNCHANGED conn
  BY <1>10 DEF EchoInv, Running
<1> QED
  BY <1>1, <1>2, <1>3, <1>4, <1>5, <1>6, <1>7, <1>8, <1>9, <1>10 DEF Next, Kernel

LEMMA EchoAlways == Spec => []EchoInv
BY EchoInit, EchoStep, PTL DEF Spec

LEMMA PostedIs ==
    ASSUME NEW k, conn \in Connections
    PROVE  Posted(k) # {} <=> k \in Kinds(conn.port)
BY DEF Posted, Kinds

LEMMA InvGivesTypes == EchoInv => TypeOK
<1> SUFFICES ASSUME EchoInv PROVE TypeOK
  OBVIOUS
<1>1. /\ conn.state \in States /\ conn.active \subseteq Bits
      /\ conn.inflight \subseteq Bits \ {"GTO"} /\ conn.pool \in Pools
      /\ conn.received \in 0..MaxBytes /\ conn.taken \in 0..MaxBytes
      /\ conn \in Connections
  BY DEF EchoInv, Connections
<1>2. ASSUME NEW b \in {conn.getBuffer, conn.putBuffer}, Running
      PROVE  b.base + Len(b.bytes) \in 0..BufferSize
  <2>1. b.base \in Nat /\ Len(b.bytes) \in Nat /\ BufferSize \in Nat
    BY <1>1, TypesOf, Bounds
  <2>2. b.base + Len(b.bytes) <= BufferSize
    BY <1>2 DEF EchoInv, Sane, BufferInv
  <2> QED
    BY <2>1, <2>2
<1> QED
  BY <1>1, <1>2 DEF TypeOK

(* ConnectionInv: the types, the bits of myActiveRequests, and a connection*)
(* that is disconnected has nothing outstanding but its accept             *)
(* (echo-server.cpp:362-784).                                              *)
THEOREM ConnectionSafe == Spec => []ConnectionInv
<1>1. EchoInv => ConnectionInv
  <2> SUFFICES ASSUME EchoInv PROVE ConnectionInv
    OBVIOUS
  <2>1. TypeOK
    BY InvGivesTypes
  <2>2. conn \in Connections /\ (Running => Sane(conn))
    BY DEF EchoInv
  <2>3. \A k : Posted(k) # {} <=> k \in Kinds(conn.port)
    BY <2>2, PostedIs
  <2>4. BitsTellTheTruth
    <3> SUFFICES ASSUME Running, NEW k \in {"GET", "PUT", "DEL"}
                 PROVE  /\ k \in conn.active <=> Outstanding(k)
                        /\ Posted(k) # {} => k \notin conn.inflight
                        /\ \A i, j \in Posted(k) : i = j
      BY DEF BitsTellTheTruth
    <3>1. PortInv(conn) /\ BitInv(conn)
      BY <2>2 DEF Sane
    <3>2. k \in conn.active <=> Outstanding(k)
      BY <2>3, <3>1 DEF BitInv, Outstanding
    <3>3. Posted(k) # {} => k \notin conn.inflight
      BY <2>3, <3>1 DEF PortInv
    <3>4. \A i, j \in Posted(k) : i = j
      BY <3>1 DEF PortInv, Posted
    <3> QED
      BY <3>2, <3>3, <3>4
  <2>5. SafeToReuse
    <3> SUFFICES ASSUME Running, conn.state = "disconnected",
                        NEW k \in {"GET", "PUT", "DEL"}
                 PROVE  ~Outstanding(k)
      BY DEF SafeToReuse
    <3>1. Disconnected(conn) /\ BitInv(conn)
      BY <2>2 DEF Sane, StateInv
    <3>2. k \notin conn.active
      BY <3>1 DEF Disconnected
    <3> QED
      BY <2>3, <3>1, <3>2 DEF BitInv, Outstanding
  <2> QED
    BY <2>1, <2>4, <2>5 DEF ConnectionInv
<1> QED
  BY <1>1, EchoAlways, PTL

(* SanityChecksHold: whatever the peer and the kernel do, the checks that  *)
(* guard the bits and the kernel's buffers never reach ::DebugBreak()      *)
(* (echo-server.cpp:249-768).                                              *)
THEOREM ChecksHold == Spec => []SanityChecksHold
<1>1. EchoInv => SanityChecksHold
  BY DEF EchoInv, Connections, Failures, SanityChecksHold
<1> QED
  BY <1>1, EchoAlways, PTL

(* The connection exhausts nothing: full_duplex() meant to enter exhausting *)
(* at the end of the stream, but the process ends in a failed check        *)
(* wherever it would (echo-server.cpp:456-468, 715-730).                   *)
THEOREM NeverExhausting == Spec => [](Running => conn.state # "exhausting")
<1>1. EchoInv => (Running => conn.state # "exhausting")
  BY DEF EchoInv, Sane, StateInv
<1> QED
  BY <1>1, EchoAlways, PTL

(* EchoesInOrder: for any buffer size and any number of bytes, what is on  *)
(* the wire is what was received, in order (echo-server.cpp:423-576).      *)
THEOREM Echoes == Spec => []EchoesInOrder
<1>1. EchoInv => EchoesInOrder
  <2> SUFFICES ASSUME EchoInv, Running PROVE EchoesInOrder
    BY DEF EchoesInOrder
  <2>1. conn \in Connections /\ StreamInv(conn) /\ NoteInv(conn)
    BY DEF EchoInv, Sane
  <2>2. /\ Len(conn.wire) \in Nat /\ conn.taken \in Nat /\ conn.received \in Nat
    BY <2>1, Numbers
  <2>3. Len(conn.wire) <= conn.taken /\ conn.taken <= conn.received
    BY <2>1 DEF StreamInv, NoteInv
  <2>4. Len(conn.wire) <= conn.received
    BY <2>2, <2>3
  <2> QED
    BY <2>1, <2>4 DEF StreamInv, EchoesInOrder
<1> QED
  BY <1>1, EchoAlways, PTL

(* BuffersUntouched: neither buffer changes between the start of a get or  *)
(* put and its notification (echo-server.cpp:175-182).                     *)
THEOREM Untouched == Spec => []BuffersUntouched
<1>1. EchoInv => BuffersUntouched
  <2> SUFFICES ASSUME EchoInv, Running PROVE BuffersUntouched
    BY DEF BuffersUntouched
  <2>1. conn \in Connections /\ BitInv(conn) /\ BufferInv(conn)
    BY DEF EchoInv, Sane
  <2>2. \A k : Posted(k) # {} <=> k \in Kinds(conn.port)
    BY <2>1, PostedIs
  <2>3. /\ Outstanding("GET") => "GET" \in conn.active
        /\ Outstanding("PUT") => "PUT" \in conn.active
    BY <2>1, <2>2 DEF Outstanding, BitInv
  <2> QED
    BY <2>1, <2>3 DEF BufferInv, BuffersUntouched
<1> QED
  BY <1>1, EchoAlways, PTL

----------------------------------------------------------------------------
(* The refinement.  Of a request it only matters whether it is pending,    *)
(* from its start to the dispatch of its notification.                     *)

Pending(c) ==
    c.inflight \cup Kinds(c.port) \cup {k \in {"GTO"} : c.timer = "running"}

One(P) == IF P THEN 1 ELSE 0

PhaseOf(c) ==
    CASE c.state = "disconnected" -> IF "NEW" \in c.active THEN "accept" ELSE "idle"
      [] c.state = "disconnecting" -> "closing"
      [] OTHER -> "open"

LifeOf(c) ==
    [phase |-> PhaseOf(c), pool |-> c.pool,
     io |-> One("GET" \in Pending(c)) + One("GTO" \in Pending(c))
            + One("PUT" \in Pending(c)),
     new |-> "NEW" \in Pending(c), del |-> "DEL" \in Pending(c)]

LEMMA CountOne ==
    ASSUME NEW S, \A i, j \in S : i = j
    PROVE  IsFiniteSet(S) /\ Cardinality(S) = One(S # {})
<1>1. CASE S = {}
  BY <1>1, FS_EmptySet DEF One
<1>2. CASE S # {}
  <2>1. PICK x \in S : TRUE
    BY <1>2
  <2>2. S = {x}
    BY <2>1
  <2> QED
    BY <1>2, <2>2, FS_Singleton DEF One
<1> QED
  BY <1>1, <1>2

LEMMA CountTwo ==
    ASSUME NEW S, NEW T, IsFiniteSet(S), IsFiniteSet(T), S \cap T = {}
    PROVE  /\ IsFiniteSet(S \cup T)
           /\ Cardinality(S \cup T) = Cardinality(S) + Cardinality(T)
<1>1. Cardinality(S) \in Nat /\ Cardinality(T) \in Nat
  BY FS_CardinalityType
<1> QED
  BY <1>1, FS_Union, FS_EmptySet

(* The refinement mapping, request by request.                             *)
LEMMA LifeIs == EchoInv /\ Running => lifeBar = LifeOf(conn)
<1> SUFFICES ASSUME EchoInv, Running PROVE lifeBar = LifeOf(conn)
  OBVIOUS
<1>1. /\ conn \in Connections /\ PortInv(conn) /\ TimerInv(conn)
      /\ conn.inflight \subseteq Bits \ {"GTO"}
      /\ Kinds(conn.port) \cap conn.inflight = {}
      /\ conn.timer = "running" => "GTO" \notin Kinds(conn.port)
  BY DEF EchoInv, Sane, PortInv, TimerInv, Connections
<1>2. \A k : Posted(k) # {} <=> k \in Kinds(conn.port)
  BY <1>1, PostedIs
<1>3. \A k : \A i, j \in Posted(k) : i = j
  BY <1>1 DEF PortInv, Posted
<1>4. \A k : IsFiniteSet(Posted(k)) /\ Cardinality(Posted(k)) = One(k \in Kinds(conn.port))
  BY <1>2, <1>3, CountOne DEF One
<1> DEFINE A == conn.inflight \cap {"GET"}
           B == conn.inflight \cap {"PUT"}
<1>5. /\ IsFiniteSet(A) /\ Cardinality(A) = One("GET" \in conn.inflight)
      /\ IsFiniteSet(B) /\ Cardinality(B) = One("PUT" \in conn.inflight)
  <2>1. (\A i, j \in A : i = j) /\ (\A i, j \in B : i = j)
    OBVIOUS
  <2>2. (A # {} <=> "GET" \in conn.inflight) /\ (B # {} <=> "PUT" \in conn.inflight)
    OBVIOUS
  <2>3. /\ IsFiniteSet(A) /\ Cardinality(A) = One(A # {})
        /\ IsFiniteSet(B) /\ Cardinality(B) = One(B # {})
    BY <2>1, CountOne
  <2> QED
    BY <2>2, <2>3 DEF One
<1>6. Cardinality(conn.inflight \cap IoRequests)
          = One("GET" \in conn.inflight) + One("PUT" \in conn.inflight)
  <2>1. conn.inflight \cap IoRequests = A \cup B /\ A \cap B = {}
    BY <1>1 DEF IoRequests
  <2> HIDE DEF A, B
  <2> QED
    BY <1>5, <2>1, CountTwo
<1>7. Cardinality(UNION {Posted(k) : k \in IoRequests})
          = One("GET" \in Kinds(conn.port)) + One("GTO" \in Kinds(conn.port))
            + One("PUT" \in Kinds(conn.port))
  <2>1. UNION {Posted(k) : k \in IoRequests}
            = (Posted("GET") \cup Posted("GTO")) \cup Posted("PUT")
    BY DEF IoRequests
  <2>2. /\ Posted("GET") \cap Posted("GTO") = {}
        /\ (Posted("GET") \cup Posted("GTO")) \cap Posted("PUT") = {}
    BY DEF Posted
  <2>3. /\ IsFiniteSet(Posted("GET") \cup Posted("GTO"))
        /\ Cardinality(Posted("GET") \cup Posted("GTO"))
               = One("GET" \in Kinds(conn.port)) + One("GTO" \in Kinds(conn.port))
    BY <1>4, <2>2, CountTwo
  <2>4. Cardinality((Posted("GET") \cup Posted("GTO")) \cup Posted("PUT"))
            = Cardinality(Posted("GET") \cup Posted("GTO")) + Cardinality(Posted("PUT"))
    BY <1>4, <2>2, <2>3, CountTwo
  <2> QED
    BY <1>4, <2>1, <2>3, <2>4
<1>8. \A P \in BOOLEAN, Q \in BOOLEAN : ~(P /\ Q) => One(P \/ Q) = One(P) + One(Q)
  BY DEF One
<1>9. /\ "GET" \in Pending(conn) <=> "GET" \in conn.inflight \/ "GET" \in Kinds(conn.port)
      /\ "PUT" \in Pending(conn) <=> "PUT" \in conn.inflight \/ "PUT" \in Kinds(conn.port)
      /\ "GTO" \in Pending(conn) <=> conn.timer = "running" \/ "GTO" \in Kinds(conn.port)
      /\ "NEW" \in Pending(conn) <=> "NEW" \in conn.inflight \/ "NEW" \in Kinds(conn.port)
      /\ "DEL" \in Pending(conn) <=> "DEL" \in conn.inflight \/ "DEL" \in Kinds(conn.port)
  BY <1>1 DEF Pending
<1>10. /\ One("GET" \in Pending(conn))
              = One("GET" \in conn.inflight) + One("GET" \in Kinds(conn.port))
       /\ One("PUT" \in Pending(conn))
              = One("PUT" \in conn.inflight) + One("PUT" \in Kinds(conn.port))
       /\ One("GTO" \in Pending(conn))
              = One(conn.timer = "running") + One("GTO" \in Kinds(conn.port))
  BY <1>1, <1>9 DEF One
<1>11. lifeBar.io = LifeOf(conn).io
  <2>1. \A P : One(P) \in Nat
    BY DEF One
  <2>2. lifeBar.io = Cardinality(conn.inflight \cap IoRequests)
                     + Cardinality(UNION {Posted(k) : k \in IoRequests})
                     + One(conn.timer = "running")
    BY DEF lifeBar, One
  <2> QED
    BY <1>6, <1>7, <1>10, <2>1, <2>2 DEF LifeOf
<1>12. /\ Outstanding("NEW") = ("NEW" \in Pending(conn))
       /\ Outstanding("DEL") = ("DEL" \in Pending(conn))
  BY <1>2, <1>9 DEF Outstanding
<1> QED
  BY <1>11, <1>12 DEF lifeBar, LifeOf, Phase, PhaseOf

(* What a step of the connection may do to its life.                       *)
Lives(c, d) == LifeOf(d) = LifeOf(c) \/ L!LifeStep(LifeOf(c), LifeOf(d))

LEMMA LifeParts ==
    ASSUME NEW c \in Connections
    PROVE  LET l == LifeOf(c) IN
           /\ l \in L!Lives
           /\ l.phase = PhaseOf(c) /\ l.pool = c.pool
           /\ l.io = One("GET" \in Pending(c)) + One("GTO" \in Pending(c))
                     + One("PUT" \in Pending(c))
           /\ l.new <=> "NEW" \in Pending(c)
           /\ l.del <=> "DEL" \in Pending(c)
<1> DEFINE io == One("GET" \in Pending(c)) + One("GTO" \in Pending(c))
                 + One("PUT" \in Pending(c))
           new == "NEW" \in Pending(c)
           del == "DEL" \in Pending(c)
<1>1. io \in 0..3 /\ new \in BOOLEAN /\ del \in BOOLEAN
  BY DEF One
<1>2. PhaseOf(c) \in {"idle", "accept", "open", "closing"}
  BY DEF PhaseOf
<1>3. c.pool \in {"none", "unused", "listen", "active"}
  BY DEF Connections, Pools
<1>4. LifeOf(c) = [phase |-> PhaseOf(c), pool |-> c.pool, io |-> io,
                   new |-> new, del |-> del]
  BY DEF LifeOf
<1> HIDE DEF io, new, del
<1>5. /\ LifeOf(c) \in L!Lives
      /\ LifeOf(c).phase = PhaseOf(c) /\ LifeOf(c).pool = c.pool
      /\ LifeOf(c).io = io /\ LifeOf(c).new = new /\ LifeOf(c).del = del
  BY <1>1, <1>2, <1>3, <1>4 DEF L!Lives
<1> QED
  BY <1>5 DEF io, new, del

LEMMA Unseen ==
    ASSUME NEW c, NEW d, d.state = c.state, d.active = c.active, d.pool = c.pool,
           Pending(d) = Pending(c)
    PROVE  LifeOf(d) = LifeOf(c)
<1>1. PhaseOf(d) = PhaseOf(c)
  BY DEF PhaseOf
<1> QED
  BY <1>1 DEF LifeOf

(* The kernel gives a request back: it stays pending, as a notification.   *)
LEMMA GivenBack ==
    ASSUME NEW c \in Connections, NEW d \in Connections, NEW k, NEW size, NEW bad,
           d.port = Append(c.port, Note(k, size, bad)),
           \/ k \in c.inflight /\ d.inflight = c.inflight \ {k} /\ d.timer = c.timer
           \/ /\ k = "GTO" /\ c.timer = "running"
              /\ d.inflight = c.inflight /\ d.timer = "off"
    PROVE  Pending(d) = Pending(c)
<1> DEFINE n == Note(k, size, bad)
           q == c.port
<1>1. q \in Seq(Notification) /\ d.port \in Seq(Notification)
  BY DEF Connections
<1>2. n.request = k
  BY DEF Note
<1>3. n \in Notification
  <2> HIDE DEF n, q
  <2>1. /\ Append(q, n) \in Seq(Notification) /\ Len(q) \in Nat
        /\ Len(Append(q, n)) = Len(q) + 1 /\ Append(q, n)[Len(q) + 1] = n
    BY <1>1 DEF n, q
  <2> QED
    BY <2>1
<1>4. Kinds(d.port) = Kinds(c.port) \cup {k}
  BY <1>1, <1>2, <1>3, PortAppend
<1> QED
  BY <1>4 DEF Pending

LEMMA KernelUnseen ==
    ASSUME EchoInv, EchoInv', Kernel
    PROVE  LifeOf(conn') = LifeOf(conn)
<1>1. conn \in Connections /\ conn' \in Connections
  BY DEF EchoInv
<1>2. CASE CompleteAccept
  <2>1. PICK n \in 0..MaxBytes, bad \in BOOLEAN :
            conn' = Post([Finished("NEW") EXCEPT !.received = n], "NEW", n, bad)
    BY <1>2 DEF CompleteAccept
  <2>2. /\ conn'.port = Append(conn.port, Note("NEW", n, bad))
        /\ "NEW" \in conn.inflight /\ conn'.inflight = conn.inflight \ {"NEW"}
        /\ conn'.timer = conn.timer /\ conn'.state = conn.state
        /\ conn'.active = conn.active /\ conn'.pool = conn.pool
    BY <1>1, <1>2, <2>1 DEF CompleteAccept, Post, Finished, Connections
  <2>3. Pending(conn') = Pending(conn)
    BY <1>1, <2>2, GivenBack
  <2> QED
    BY <2>2, <2>3, Unseen
<1>3. CASE CompleteGet
  <2>1. PICK n \in 0..(MaxBytes - conn.received), bad \in BOOLEAN :
            conn' = Post([Finished("GET") EXCEPT !.received = @ + n, !.closed = n = 0], "GET", n, bad)
    BY <1>3 DEF CompleteGet
  <2>2. /\ conn'.port = Append(conn.port, Note("GET", n, bad))
        /\ "GET" \in conn.inflight /\ conn'.inflight = conn.inflight \ {"GET"}
        /\ conn'.timer = conn.timer /\ conn'.state = conn.state
        /\ conn'.active = conn.active /\ conn'.pool = conn.pool
    BY <1>1, <1>3, <2>1, ZenonT(60) DEF CompleteGet, Post, Finished, Connections
  <2>3. Pending(conn') = Pending(conn)
    BY <1>1, <2>2, GivenBack
  <2> QED
    BY <2>2, <2>3, Unseen
<1>4. CASE CompletePut
  <2>1. PICK n \in 0..Len(conn.putAt.bytes) :
            conn' = Post([Finished("PUT") EXCEPT
                            !.wire = @ \o SubSeq(conn.putAt.bytes, 1, n)], "PUT", n, n = 0)
    BY <1>4 DEF CompletePut
  <2>2. /\ conn'.port = Append(conn.port, Note("PUT", n, n = 0))
        /\ "PUT" \in conn.inflight /\ conn'.inflight = conn.inflight \ {"PUT"}
        /\ conn'.timer = conn.timer /\ conn'.state = conn.state
        /\ conn'.active = conn.active /\ conn'.pool = conn.pool
    BY <1>1, <1>4, <2>1 DEF CompletePut, Post, Finished, Connections
  <2>3. Pending(conn') = Pending(conn)
    BY <1>1, <2>2, GivenBack
  <2> QED
    BY <2>2, <2>3, Unseen
<1>5. CASE CompleteDisconnect
  <2>1. /\ conn'.port = Append(conn.port, Note("DEL", 0, FALSE))
        /\ "DEL" \in conn.inflight /\ conn'.inflight = conn.inflight \ {"DEL"}
        /\ conn'.timer = conn.timer /\ conn'.state = conn.state
        /\ conn'.active = conn.active /\ conn'.pool = conn.pool
    BY <1>1, <1>5 DEF CompleteDisconnect, Post, Finished, Connections
  <2>2. Pending(conn') = Pending(conn)
    BY <1>1, <2>1, GivenBack
  <2> QED
    BY <2>1, <2>2, Unseen
<1>6. CASE Expire
  <2>1. /\ conn'.port = Append(conn.port, Note("GTO", 0, FALSE))
        /\ conn.timer = "running" /\ conn'.timer = "off"
        /\ conn'.inflight = conn.inflight /\ conn'.state = conn.state
        /\ conn'.active = conn.active /\ conn'.pool = conn.pool
    BY <1>1, <1>6 DEF Expire, Post, Connections
  <2>2. Pending(conn') = Pending(conn)
    BY <1>1, <2>1, GivenBack
  <2> QED
    BY <2>1, <2>2, Unseen
<1> QED
  BY <1>2, <1>3, <1>4, <1>5, <1>6 DEF Kernel

LEMMA ConnectUnseen ==
    ASSUME EchoInv, Connect
    PROVE  LifeOf(conn') = LifeOf(conn)
<1>1. /\ conn'.state = conn.state /\ conn'.active = conn.active
      /\ conn'.pool = conn.pool /\ conn'.inflight = conn.inflight
      /\ conn'.port = conn.port /\ conn'.timer = conn.timer
  BY DEF EchoInv, Connect, Connections
<1> QED
  BY <1>1, Unseen DEF Pending

(* The accept watcher's two ways to use a connection.                      *)
LEMMA StartLives ==
    ASSUME EchoInv, EchoInv', StartAccept, Running'
    PROVE  L!LifeStep(LifeOf(conn), LifeOf(conn'))
<1>1. conn \in Connections /\ Sane(conn) /\ conn.pool = "unused"
  BY DEF EchoInv, StartAccept
<1>2. /\ conn.state = "disconnected" /\ conn.active = {}
      /\ conn.inflight = {} /\ conn.timer = "off" /\ Kinds(conn.port) = {}
  <2>1. conn.state = "disconnected" /\ conn.active = {}
    BY <1>1 DEF Sane, StateInv
  <2> QED
    BY <1>1, <2>1, AcceptAlone
<1> DEFINE c == Check(conn, conn.socket = "idle", "AcceptEx")
<1>3. Check(conn, conn.active = {}, "start_accept") = conn
  BY <1>2 DEF Check
<1>4. /\ c \in Connections /\ SamePlace(conn, c) /\ SameBits(conn, c)
      /\ SameTimer(conn, c) /\ c.port = conn.port
  <2>1. "AcceptEx" \in Failures /\ (conn.socket = "idle") \in BOOLEAN
    BY DEF Failures
  <2> QED
    BY <1>1, <2>1, Checked
<1>5. conn' = [c EXCEPT !.getBuffer = NoBytes, !.putBuffer = NoBytes,
                        !.active = @ \cup {"NEW"},
                        !.inflight = @ \cup {"NEW"},
                        !.pool = "listen",
                        !.received = 0, !.taken = 0, !.wire = <<>>,
                        !.closed = FALSE]
  BY <1>3 DEF StartAccept
<1> HIDE DEF c
<1>6. /\ conn'.state = "disconnected" /\ conn'.active = {"NEW"}
      /\ conn'.inflight = {"NEW"} /\ conn'.timer = "off" /\ conn'.port = conn.port
      /\ conn'.pool = "listen"
  BY <1>2, <1>4, <1>5 DEF Connections, SamePlace, SameBits, SameTimer
<1>7. Pending(conn) = {} /\ Pending(conn') = {"NEW"}
  BY <1>2, <1>6 DEF Pending
<1>8. LifeOf(conn) \in L!Lives /\ LifeOf(conn') \in L!Lives
  BY <1>1, LifeParts DEF EchoInv
<1>9. /\ LifeOf(conn).phase = "idle" /\ LifeOf(conn).pool = "unused"
      /\ LifeOf(conn).io = 0 /\ ~LifeOf(conn).new /\ ~LifeOf(conn).del
  BY <1>1, <1>2, <1>7, LifeParts DEF PhaseOf, One
<1>10. /\ LifeOf(conn').phase = "accept" /\ LifeOf(conn').pool = "listen"
       /\ LifeOf(conn').io = 0 /\ LifeOf(conn').new /\ ~LifeOf(conn').del
  <2>1. conn' \in Connections
    BY DEF EchoInv
  <2> QED
    BY <1>6, <1>7, <2>1, LifeParts DEF PhaseOf, One
<1>11. LifeOf(conn') = L!Accepting(LifeOf(conn))
  BY <1>8, <1>9, <1>10 DEF L!Accepting, L!Lives
<1> QED
  BY <1>9, <1>11 DEF L!LifeStep

LEMMA AbortLives ==
    ASSUME EchoInv, EchoInv', AbortAccept, Running'
    PROVE  Lives(conn, conn')
<1>1. conn \in Connections /\ Sane(conn) /\ conn.pool = "listen"
  BY DEF EchoInv, AbortAccept
<1> DEFINE c == Check(conn, conn.active = {"NEW"}, "abort_accept")
           n == Note("NEW", 0, TRUE)
           d == Post([c EXCEPT !.inflight = @ \ {"NEW"}, !.active = @ \ {"NEW"}],
                     "NEW", 0, TRUE)
<1>2. conn' = IF "NEW" \in c.inflight THEN initiate_disconnection(d)
              ELSE Check(c, c.state = "disconnected", "abort_accept: late")
  BY DEF AbortAccept
<1>3. conn.active = {"NEW"}
  <2> SUFFICES ASSUME conn.active # {"NEW"} PROVE FALSE
    OBVIOUS
  <2>1. c = [conn EXCEPT !.broken = "abort_accept"] /\ conn.broken = ""
    BY DEF Check, AbortAccept, Running
  <2>2. c.broken = "abort_accept"
    BY <1>1, <2>1 DEF Connections
  <2>3. d.broken = c.broken
    BY <1>1, <2>1 DEF Post, Connections
  <2> HIDE DEF c, d
  <2>4. Check(d, "DEL" \notin d.active, "initiate_disconnection") = d
    BY <2>2, <2>3 DEF Check
  <2>5. initiate_disconnection(d).broken = d.broken
    BY <2>4 DEF initiate_disconnection
  <2>6. Check(c, c.state = "disconnected", "abort_accept: late") = c
    BY <2>2 DEF Check
  <2> QED
    BY <1>2, <2>2, <2>3, <2>5, <2>6 DEF Running
<1>4. c = conn
  BY <1>3 DEF Check
<1>5. /\ conn.state = "disconnected" /\ conn.inflight \subseteq {"NEW"}
      /\ conn.timer = "off" /\ Kinds(conn.port) \subseteq {"NEW"}
      /\ "NEW" \in conn.inflight \cup Kinds(conn.port)
  BY <1>1, <1>3, AcceptAlone
<1>6. CASE "NEW" \in conn.inflight
  <2>1. conn.port \in Seq(Notification) /\ n \in Notification /\ n.request = "NEW"
    <3>1. conn.port \in Seq(Notification)
      BY <1>1, PortIs
    <3> QED
      BY <3>1, Bounds DEF Note, Notification, Bits
  <2>2. d = [conn EXCEPT !.inflight = @ \ {"NEW"}, !.active = @ \ {"NEW"},
                         !.port = Append(conn.port, n)]
    BY <1>1, <1>4 DEF Post, Connections
  <2> HIDE DEF n
  <2>3. /\ Append(conn.port, n) \in Seq(Notification)
        /\ Kinds(Append(conn.port, n)) = Kinds(conn.port) \cup {"NEW"}
    BY <2>1, PortAppend
  <2>4. /\ d \in Connections /\ d.active = {} /\ d.inflight = {}
        /\ d.timer = "off" /\ d.pool = "listen" /\ d.port = Append(conn.port, n)
    <3> DEFINE q == Append(conn.port, n)
    <3> HIDE DEF q
    <3>1. q \in Seq(Notification) /\ conn.active \ {"NEW"} = {}
          /\ conn.inflight \ {"NEW"} = {}
      BY <1>3, <1>5, <2>3 DEF q
    <3>2. d = [conn EXCEPT !.inflight = {}, !.active = {}, !.port = q]
      BY <2>2, <3>1 DEF q
    <3> HIDE DEF d
    <3> QED
      BY <1>1, <1>5, <3>1, <3>2 DEF Connections, q
  <2>5. conn' = initiate_disconnection(d)
    BY <1>2, <1>4, <1>6
  <2> HIDE DEF d
  <2>6. /\ conn'.state = "disconnecting" /\ conn'.active = {"DEL"}
        /\ conn'.inflight = {"DEL"} /\ conn'.timer = "off"
        /\ conn'.pool = "listen" /\ conn'.port = d.port
    BY <2>4, <2>5, DisconnectionInitiated DEF SameTimer
  <2>7. Pending(conn) = {"NEW"}
    BY <1>5, <1>6 DEF Pending
  <2>8. Pending(conn') = {"NEW", "DEL"}
    BY <1>5, <2>3, <2>4, <2>6 DEF Pending
  <2>9. conn' \in Connections
    BY DEF EchoInv
  <2>10. LifeOf(conn) \in L!Lives /\ LifeOf(conn') \in L!Lives
    BY <1>1, <2>9, LifeParts
  <2>11. /\ LifeOf(conn).phase = "accept" /\ LifeOf(conn).pool = "listen"
         /\ LifeOf(conn).io = 0 /\ LifeOf(conn).new
    BY <1>1, <1>3, <1>5, <2>7, LifeParts DEF PhaseOf, One
  <2>12. /\ LifeOf(conn').phase = "closing" /\ LifeOf(conn').pool = "listen"
         /\ LifeOf(conn').io = 0 /\ LifeOf(conn').new /\ LifeOf(conn').del
    BY <2>6, <2>8, <2>9, LifeParts DEF PhaseOf, One
  <2>13. LifeOf(conn') = L!Aborting(LifeOf(conn))
    BY <2>10, <2>11, <2>12 DEF L!Aborting, L!Lives
  <2> QED
    BY <2>11, <2>13 DEF Lives, L!LifeStep
<1>7. CASE "NEW" \notin conn.inflight
  <2>1. conn' = conn
    BY <1>2, <1>4, <1>5, <1>7 DEF Check
  <2> QED
    BY <2>1 DEF Lives
<1> QED
  BY <1>6, <1>7

----------------------------------------------------------------------------
(* What no method of a connection does, whether its checks hold or not: it *)
(* starts no accept, moves the connection to no other set, takes nothing   *)
(* from the port and clears no bit of a get or a put.                      *)

Used == {"state", "active", "pool", "inflight", "port", "broken",
         "timer", "timerReady"}
Shaped(c) == Used \subseteq DOMAIN c /\ c.port \in Seq(Notification)

Keeps(c, d) ==
    /\ Shaped(d)
    /\ d.pool = c.pool
    /\ "NEW" \in d.inflight => "NEW" \in c.inflight
    /\ "GET" \in c.active => "GET" \in d.active
    /\ "PUT" \in c.active => "PUT" \in d.active
    /\ "NEW" \in Kinds(d.port) => "NEW" \in Kinds(c.port)

Stays(c, d) == Keeps(c, d) /\ d.state = c.state
Moves(c, d) == Keeps(c, d) /\ d.state \in {c.state, "disconnecting", "exhausting"}

LEMMA KeepsTwice ==
    ASSUME NEW c, NEW d, NEW e
    PROVE  /\ Stays(c, d) /\ Stays(d, e) => Stays(c, e)
           /\ Moves(c, d) /\ Moves(d, e) => Moves(c, e)
           /\ Stays(c, d) => Moves(c, d)
           /\ Shaped(c) => Stays(c, c)
           /\ Stays(c, d) \/ Moves(c, d) => Shaped(d)
BY DEF Stays, Moves, Keeps

LEMMA CheckStays ==
    ASSUME NEW c, Shaped(c), NEW ok \in BOOLEAN, NEW site
    PROVE  Stays(c, Check(c, ok, site))
BY DEF Check, Stays, Keeps, Shaped, Used

LEMMA DisconnectionMoves ==
    ASSUME NEW c, Shaped(c)
    PROVE  Moves(c, initiate_disconnection(c))
<1> DEFINE d == Check(c, "DEL" \notin c.active, "initiate_disconnection")
<1>1. Stays(c, d)
  BY CheckStays
<1>2. initiate_disconnection(c) =
          [d EXCEPT !.inflight = @ \cup {"DEL"}, !.active = @ \cup {"DEL"},
                    !.state = "disconnecting"]
  BY DEF initiate_disconnection
<1> HIDE DEF d
<1> QED
  BY <1>1, <1>2 DEF Stays, Moves, Keeps, Shaped, Used

LEMMA PutStays ==
    ASSUME NEW c, Shaped(c)
    PROVE  Stays(c, initiate_put(c))
<1> DEFINE a == Check(c, "PUT" \notin c.active, "initiate_put")
           d == Check(a, ~pdone(c.putBuffer), "initiate_put: empty")
<1>1. Stays(c, a)
  BY CheckStays
<1>2. Stays(a, d)
  <2>1. Shaped(a) /\ (~pdone(c.putBuffer)) \in BOOLEAN
    BY <1>1, KeepsTwice
  <2> HIDE DEF a
  <2> QED
    BY <2>1, CheckStays
<1>3. Stays(c, d)
  <2> HIDE DEF a, d
  <2> QED
    BY <1>1, <1>2, KeepsTwice
<1>4. initiate_put(c) = [[d EXCEPT !.inflight = @ \cup {"PUT"}, !.putAt = d.putBuffer]
                         EXCEPT !.active = @ \cup {"PUT"}]
  BY DEF initiate_put, StartPut
<1> HIDE DEF a, d
<1> QED
  BY <1>3, <1>4 DEF Stays, Keeps, Shaped, Used

LEMMA GetStays ==
    ASSUME NEW c, Shaped(c), NEW got \in {NotYet} \cup 0..MaxBytes
    PROVE  Stays(c, initiate_get(c, got))
<1> DEFINE a == Check(c, "GET" \notin c.active, "initiate_get")
           d == Check(a, gsize(c.getBuffer) > 0, "initiate_get: full")
           u == [d EXCEPT !.getAt = d.getBuffer]
           e == [StartGet(d, got) EXCEPT !.active = @ \cup {"GET"}]
<1>1. Stays(c, a)
  BY CheckStays
<1>2. Stays(a, d)
  <2>1. Shaped(a) /\ (gsize(c.getBuffer) > 0) \in BOOLEAN
    BY <1>1, KeepsTwice
  <2> HIDE DEF a
  <2> QED
    BY <2>1, CheckStays
<1>3. Stays(c, d)
  <2> HIDE DEF a, d
  <2> QED
    BY <1>1, <1>2, KeepsTwice
<1>4. initiate_get(c, got) =
          IF got = NotYet THEN [StartTimer(e) EXCEPT !.active = @ \cup {"GTO"}] ELSE e
  BY DEF initiate_get
<1> HIDE DEF a, d
<1>5. Stays(d, u)
  BY <1>3 DEF Stays, Keeps, Shaped, Used
<1>6. CASE got = NotYet
  <2>1. e = [[u EXCEPT !.inflight = @ \cup {"GET"}] EXCEPT !.active = @ \cup {"GET"}]
    BY <1>6 DEF StartGet
  <2> HIDE DEF e, u
  <2>2. Stays(u, e)
    BY <1>5, <2>1 DEF Stays, Keeps, Shaped, Used
  <2>3. Stays(e, [StartTimer(e) EXCEPT !.active = @ \cup {"GTO"}])
    BY <2>2 DEF StartTimer, Stays, Keeps, Shaped, Used
  <2> QED
    BY <1>3, <1>4, <1>5, <1>6, <2>2, <2>3, KeepsTwice
<1>7. CASE got # NotYet
  <2> DEFINE n == Note("GET", got, got = 0)
             v == [u EXCEPT !.received = @ + got, !.closed = @ \/ got = 0]
  <2>1. n \in Notification /\ n.request = "GET"
    BY <1>7 DEF Note, Notification, Bits
  <2>2. Stays(u, v)
    <3> HIDE DEF u
    <3> QED
      BY <1>5 DEF Stays, Keeps, Shaped, Used
  <2>3. e = [[v EXCEPT !.port = Append(@, n)] EXCEPT !.active = @ \cup {"GET"}]
    BY <1>7 DEF StartGet, Post
  <2> HIDE DEF e, n, u, v
  <2>4. v.port \in Seq(Notification)
    BY <2>2 DEF Stays, Keeps, Shaped
  <2>5. /\ Append(v.port, n) \in Seq(Notification)
        /\ Kinds(Append(v.port, n)) = Kinds(v.port) \cup {"GET"}
    BY <2>1, <2>4, PortAppend
  <2>6. Stays(v, e)
    BY <2>2, <2>3, <2>5 DEF Stays, Keeps, Shaped, Used
  <2> QED
    BY <1>3, <1>4, <1>5, <1>7, <2>2, <2>6, KeepsTwice
<1> QED
  BY <1>6, <1>7

LEMMA BuffersStay ==
    ASSUME NEW c, Shaped(c), NEW m
    PROVE  /\ Stays(c, gused(c, m)) /\ Stays(c, SwapBuffers(c))
           /\ Stays(c, SwapAndPack(c))
           /\ Stays(c, [c EXCEPT !.putBuffer = pused(@, m)])
<1>1. Stays(c, gused(c, m))
  BY DEF gused, Stays, Keeps, Shaped, Used
<1>2. Stays(c, SwapBuffers(c))
  BY DEF SwapBuffers, Stays, Keeps, Shaped, Used
<1>3. Stays(c, SwapAndPack(c))
  BY <1>2 DEF SwapAndPack, Stays, Keeps, Shaped, Used
<1>4. Stays(c, [c EXCEPT !.putBuffer = pused(@, m)])
  BY DEF Stays, Keeps, Shaped, Used
<1> QED
  BY <1>1, <1>2, <1>3, <1>4

LEMMA SwapGetStays ==
    ASSUME NEW c, Shaped(c), NEW got \in {NotYet} \cup 0..MaxBytes
    PROVE  Stays(c, initiate_get(SwapAndPack(c), got))
<1> DEFINE s == SwapAndPack(c)
<1>1. Stays(c, s)
  BY BuffersStay
<1> HIDE DEF s
<1>2. Stays(s, initiate_get(s, got))
  BY <1>1, GetStays, KeepsTwice
<1>3. Stays(c, initiate_get(s, got))
  BY <1>1, <1>2, KeepsTwice
<1> QED
  BY <1>3 DEF s

LEMMA GotMoves ==
    ASSUME NEW c, Shaped(c), NEW got \in {NotYet} \cup 0..MaxBytes, NEW m, NEW eof
    PROVE  Moves(c, GotBytes(gused(c, m), got)) /\ Moves(c, GotNothing(c, eof))
<1>1. Moves(c, GotBytes(gused(c, m), got))
  <2> DEFINE g == gused(c, m)
             s == IF pdone(g.putBuffer) THEN initiate_get(SwapAndPack(g), got) ELSE g
  <2>1. Stays(c, g)
    BY BuffersStay
  <2> HIDE DEF g
  <2>2. Stays(g, s)
    BY <2>1, SwapGetStays, KeepsTwice
  <2> HIDE DEF s
  <2>3. Stays(s, initiate_put(s))
    BY <2>2, PutStays, KeepsTwice
  <2>4. GotBytes(g, got) = IF "PUT" \in g.active THEN g ELSE initiate_put(s)
    BY DEF GotBytes, s
  <2>5. Moves(c, GotBytes(g, got))
    BY <2>1, <2>2, <2>3, <2>4, KeepsTwice
  <2> QED
    BY <2>5 DEF g
<1>2. Moves(c, GotNothing(c, eof))
  <2> DEFINE p == initiate_put(c)
  <2>1. Stays(c, p)
    BY PutStays
  <2>2. GotNothing(c, eof) = IF ~eof /\ ~pdone(c.putBuffer)
                             THEN [p EXCEPT !.state = "exhausting"] ELSE c
    BY DEF GotNothing
  <2> HIDE DEF p
  <2>3. Moves(c, [p EXCEPT !.state = "exhausting"])
    BY <2>1 DEF Moves, Stays, Keeps, Shaped, Used
  <2> QED
    BY <2>2, <2>3, KeepsTwice
<1> QED
  BY <1>1, <1>2

LEMMA StopMoves ==
    ASSUME NEW c, Shaped(c)
    PROVE  Moves(c, StopTimer(c))
<1> DEFINE d == AbortTimer(c)
<1>1. Stays(c, d)
  BY DEF AbortTimer, Stays, Keeps, Shaped, Used
<1>2. StopTimer(c) = IF "GTO" \notin c.active THEN c
                     ELSE IF d.timerReady THEN [d EXCEPT !.state = "disconnecting"]
                     ELSE [[d EXCEPT !.timerReady = TRUE] EXCEPT !.active = @ \ {"GTO"}]
  BY DEF StopTimer, ResetTimer
<1> HIDE DEF d
<1>3. Moves(c, [d EXCEPT !.state = "disconnecting"])
  BY <1>1 DEF Moves, Stays, Keeps, Shaped, Used
<1>4. Moves(c, [[d EXCEPT !.timerReady = TRUE] EXCEPT !.active = @ \ {"GTO"}])
  BY <1>1 DEF Moves, Stays, Keeps, Shaped, Used
<1> QED
  BY <1>2, <1>3, <1>4, KeepsTwice

LEMMA PutBytesMoves ==
    ASSUME NEW c, Shaped(c), NEW got \in {NotYet} \cup 0..MaxBytes
    PROVE  Moves(c, PutBytes(c, got))
<1>1. /\ Stays(c, initiate_put(c)) /\ Stays(c, c)
      /\ Stays(c, initiate_get(SwapAndPack(c), got))
  BY PutStays, SwapGetStays, KeepsTwice
<1> QED
  BY <1>1, KeepsTwice DEF PutBytes

LEMMA EndMoves ==
    ASSUME NEW c, Shaped(c)
    PROVE  Moves(c, EndOf(c))
BY DisconnectionMoves, KeepsTwice DEF EndOf

(* The handlers of full_duplex, after the bit has been cleared.            *)
LEMMA GetMoves ==
    ASSUME NEW c, NEW d, NEW n, NEW got \in {NotYet} \cup 0..MaxBytes,
           "GET" \in c.active, "GET" \notin c.inflight,
           d = [c EXCEPT !.active = @ \ {"GET"}], Shaped(d)
    PROVE  Moves(d, EndOf(complete_get(c, n, got)))
<1> DEFINE x == Transferred(n)
           g == IF x > 0 THEN GotBytes(gused(d, x), got) ELSE GotNothing(d, n.bad)
           r == complete_get(c, n, got)
<1>1. r = StopTimer(g)
  BY DEF complete_get, Check
<1>2. Moves(d, g)
  BY GotMoves
<1> HIDE DEF g, r
<1>3. Moves(g, r)
  BY <1>1, <1>2, StopMoves, KeepsTwice
<1>4. Moves(r, EndOf(r))
  BY <1>3, EndMoves, KeepsTwice
<1>5. Moves(d, EndOf(r))
  BY <1>2, <1>3, <1>4, KeepsTwice
<1> QED
  BY <1>5 DEF r

LEMMA PutMoves ==
    ASSUME NEW c, NEW d, NEW n, NEW got \in {NotYet} \cup 0..MaxBytes,
           "PUT" \in c.active, "PUT" \notin c.inflight,
           d = [c EXCEPT !.active = @ \ {"PUT"}], Shaped(d)
    PROVE  Moves(d, EndOf(complete_put(c, n, got)))
<1> DEFINE x == Transferred(n)
           u == [d EXCEPT !.putBuffer = pused(@, x)]
           f == IF x > 0 THEN PutBytes(u, got) ELSE initiate_disconnection(d)
           r == complete_put(c, n, got)
<1>1. r = IF "DEL" \notin f.active /\ ~pdone(f.putBuffer) THEN initiate_put(f) ELSE f
  BY DEF complete_put, Check
<1>2. Stays(d, u)
  BY BuffersStay
<1> HIDE DEF u
<1>3. Moves(u, PutBytes(u, got)) /\ Moves(d, initiate_disconnection(d))
  BY <1>2, PutBytesMoves, DisconnectionMoves, KeepsTwice
<1>4. Moves(d, f)
  BY <1>2, <1>3, KeepsTwice
<1> HIDE DEF f, r
<1>5. Stays(f, initiate_put(f)) /\ Stays(f, f)
  BY <1>4, PutStays, KeepsTwice
<1>6. Moves(f, r)
  BY <1>1, <1>5, KeepsTwice
<1>7. Moves(r, EndOf(r))
  BY <1>6, EndMoves, KeepsTwice
<1>8. Moves(d, EndOf(r))
  BY <1>4, <1>6, <1>7, KeepsTwice
<1> QED
  BY <1>8 DEF r

LEMMA AcceptStays ==
    ASSUME NEW c, Shaped(c), NEW n, NEW got \in {NotYet} \cup 0..MaxBytes
    PROVE  Keeps(c, Accepted(c, n, got)) /\ Accepted(c, n, got).state = "full_duplex"
<1> DEFINE g == gused(c, n.size)
           s == SwapBuffers(g)
           d == [s EXCEPT !.state = "full_duplex"]
           e == initiate_get(d, got)
<1>1. Stays(c, g)
  BY BuffersStay
<1> HIDE DEF g
<1>2. Stays(g, s)
  BY <1>1, BuffersStay, KeepsTwice
<1> HIDE DEF s
<1>3. Stays(c, s)
  BY <1>1, <1>2, KeepsTwice
<1>4. Keeps(c, d) /\ Shaped(d) /\ d.state = "full_duplex"
  BY <1>3 DEF Stays, Keeps, Shaped, Used
<1> HIDE DEF d
<1>5. Stays(d, e)
  BY <1>4, GetStays
<1>6. Accepted(c, n, got) = IF pdone(e.putBuffer) THEN e ELSE initiate_put(e)
  BY DEF Accepted, e, d, s, g
<1> HIDE DEF e
<1>7. Stays(d, initiate_put(e))
  BY <1>5, PutStays, KeepsTwice
<1>8. Stays(d, Accepted(c, n, got))
  BY <1>5, <1>6, <1>7
<1> HIDE DEF Accepted
<1> QED
  BY <1>4, <1>8 DEF Stays, Keeps

----------------------------------------------------------------------------
(* What ConnectionLife allows after a notification, phase by phase.        *)

LEMMA AcceptLife ==
    ASSUME NEW l \in L!Lives, NEW m \in L!Lives, l.phase = "accept", l.new, ~m.new,
           m.pool = IF l.pool = "listen" THEN "active" ELSE l.pool,
           \/ m.phase = "open" /\ m.io > 0 /\ ~m.del
           \/ m.phase = "closing" /\ m.io = 0 /\ m.del
    PROVE  L!LifeStep(l, m)
<1>1. L!Handled(l, m)
  BY DEF L!Handled
<1>2. m.pool = L!PoolAfter(l, m.phase)
  BY DEF L!PoolAfter, L!connected
<1>3. m.new = (l.new /\ "NEW" # "NEW")
  BY DEF L!Lives
<1>4. "NEW" \in L!Awaited(l)
  BY DEF L!Awaited, L!Kinds
<1>5. m \in L!Notified(l, "NEW")
  BY <1>1, <1>2, <1>3 DEF L!Notified
<1> QED
  BY <1>4, <1>5 DEF L!LifeStep

LEMMA OpenLife ==
    ASSUME NEW l \in L!Lives, NEW m \in L!Lives, l.phase = "open", l.io > 0,
           ~l.new, ~m.new, m.pool = l.pool, m.phase \in {"open", "closing"},
           m.io > 0 \/ m.del, m.io + 2 >= l.io, m.del => m.phase = "closing"
    PROVE  L!LifeStep(l, m)
<1>1. L!Handled(l, m)
  BY DEF L!Handled
<1>2. m.pool = L!PoolAfter(l, m.phase)
  BY DEF L!PoolAfter, L!connected
<1>3. m.new = (l.new /\ "IO" # "NEW")
  BY DEF L!Lives
<1>4. "IO" \in L!Awaited(l)
  BY DEF L!Awaited, L!Kinds
<1>5. m \in L!Notified(l, "IO")
  BY <1>1, <1>2, <1>3 DEF L!Notified
<1> QED
  BY <1>4, <1>5 DEF L!LifeStep

LEMMA ClosingLife ==
    ASSUME NEW l \in L!Lives, NEW m \in L!Lives, NEW k \in L!Kinds,
           l.phase = "closing",
           CASE k = "NEW" -> l.new [] k = "IO" -> l.io > 0 [] k = "DEL" -> l.del,
           m.new <=> l.new /\ k # "NEW",
           m.io = IF k = "IO" THEN l.io - 1 ELSE l.io,
           m.del <=> l.del /\ k # "DEL",
           m.phase = IF m.new \/ m.del \/ m.io > 0 THEN "closing" ELSE "idle",
           m.pool = IF m.phase = "idle" /\ l.pool = "active" THEN "unused" ELSE l.pool
    PROVE  L!LifeStep(l, m)
<1>1. L!Handled(l, m)
  BY DEF L!Handled, L!Outstanding
<1>2. m.pool = L!PoolAfter(l, m.phase)
  BY DEF L!PoolAfter, L!connected
<1>3. m.new = (l.new /\ k # "NEW") /\ m.del = (l.del /\ k # "DEL")
  BY DEF L!Lives
<1>4. k \in L!Awaited(l)
  BY DEF L!Awaited
<1>5. m \in L!Notified(l, k)
  BY <1>1, <1>2, <1>3 DEF L!Notified
<1> QED
  BY <1>4, <1>5 DEF L!LifeStep

----------------------------------------------------------------------------
(* What EchoInv says of a connection's life.                               *)

LEMMA OneIs == \A P : One(P) \in 0..1 /\ (P => One(P) = 1) /\ (~P => One(P) = 0)
BY DEF One

LEMMA SomeIs == \A P, Q, R : P \/ Q \/ R => One(P) + One(Q) + One(R) > 0
<1> SUFFICES ASSUME NEW P, NEW Q, NEW R, P \/ Q \/ R
             PROVE  One(P) + One(Q) + One(R) > 0
  OBVIOUS
<1>1. /\ One(P) \in 0..1 /\ One(Q) \in 0..1 /\ One(R) \in 0..1
      /\ One(P) = 1 \/ One(Q) = 1 \/ One(R) = 1
  BY Zenon, OneIs
<1> QED
  BY <1>1

LEMMA PendingIs ==
    ASSUME NEW c \in Connections, Sane(c)
    PROVE  /\ \A k \in {"GET", "PUT", "DEL"} : k \in Pending(c) <=> k \in c.active
           /\ "GTO" \in c.active => "GTO" \in Pending(c)
           /\ "NEW" \in Pending(c) <=> "NEW" \in c.inflight \cup Kinds(c.port)
           /\ Pending(c) \subseteq Bits
<1>1. BitInv(c) /\ TimerInv(c)
  BY DEF Sane
<1>2. c.inflight \subseteq Bits /\ Kinds(c.port) \subseteq Bits
  <2>1. c.port \in Seq(Notification)
    BY DEF Connections
  <2> QED
    BY <2>1, KindsAreBits DEF Connections
<1> QED
  BY <1>1, <1>2 DEF Pending, BitInv, TimerInv, Bits

LEMMA OpenIs ==
    ASSUME NEW c \in Connections, Sane(c), c.state = "full_duplex"
    PROVE  /\ LifeOf(c).phase = "open" /\ LifeOf(c).io > 0
           /\ ~LifeOf(c).new /\ ~LifeOf(c).del
<1>1. /\ "GET" \in c.active \/ "PUT" \in c.active
      /\ "DEL" \notin c.active /\ "NEW" \notin c.inflight \cup Kinds(c.port)
  BY DEF Sane, StateInv, FullDuplex
<1>2. /\ "GET" \in Pending(c) \/ "PUT" \in Pending(c)
      /\ "DEL" \notin Pending(c) /\ "NEW" \notin Pending(c)
  BY <1>1, PendingIs
<1>3. PhaseOf(c) = "open"
  BY DEF PhaseOf
<1>4. One("GET" \in Pending(c)) + One("GTO" \in Pending(c)) + One("PUT" \in Pending(c)) > 0
  BY <1>2, SomeIs
<1> QED
  BY <1>2, <1>3, <1>4, LifeParts

LEMMA ClosingIs ==
    ASSUME NEW c \in Connections, Sane(c), c.state = "disconnecting"
    PROVE  /\ LifeOf(c).phase = "closing"
           /\ LifeOf(c).io > 0 \/ LifeOf(c).del
<1>1. c.active # {} /\ "NEW" \notin c.active /\ c.active \subseteq Bits
  BY DEF Sane, StateInv, Disconnecting, Connections
<1>2. \/ "GET" \in Pending(c) \/ "PUT" \in Pending(c)
      \/ "GTO" \in Pending(c) \/ "DEL" \in Pending(c)
  BY <1>1, PendingIs DEF Bits
<1>3. PhaseOf(c) = "closing"
  BY DEF PhaseOf
<1>4. "DEL" \in Pending(c) \/
      One("GET" \in Pending(c)) + One("GTO" \in Pending(c)) + One("PUT" \in Pending(c)) > 0
  BY <1>2, SomeIs
<1> QED
  BY <1>3, <1>4, LifeParts

(* A get or a put is dispatched to a connection that is open.              *)
LEMMA OpenLives ==
    ASSUME NEW c \in Connections, NEW d, NEW e \in Connections, Sane(c), Sane(e),
           c.state = "full_duplex",
           NEW k \in {"GET", "PUT"}, d.state = c.state, d.pool = c.pool,
           d.active = c.active \ {k},
           "NEW" \notin d.inflight \cup Kinds(d.port), Moves(d, e)
    PROVE  L!LifeStep(LifeOf(c), LifeOf(e)) /\ e.state # "disconnected"
<1> DEFINE l == LifeOf(c)
           m == LifeOf(e)
<1>1. /\ l \in L!Lives /\ m \in L!Lives /\ l.pool = c.pool /\ m.pool = e.pool
      /\ m.new <=> "NEW" \in Pending(e)
      /\ l.io = One("GET" \in Pending(c)) + One("GTO" \in Pending(c))
                + One("PUT" \in Pending(c))
      /\ m.io = One("GET" \in Pending(e)) + One("GTO" \in Pending(e))
                + One("PUT" \in Pending(e))
  BY LifeParts
<1>2. l.phase = "open" /\ l.io > 0 /\ ~l.new
  BY OpenIs
<1>3. e.state \in {"full_duplex", "disconnecting"} /\ m.pool = l.pool
  BY <1>1 DEF Moves, Keeps, Sane, StateInv
<1>4. ~m.new
  BY <1>1, PendingIs DEF Moves, Keeps
<1>5. /\ m.phase \in {"open", "closing"} /\ (m.io > 0 \/ m.del)
      /\ m.del => m.phase = "closing"
  BY <1>3, OpenIs, ClosingIs
<1>6. \A j \in {"GET", "PUT"} \ {k} : j \in Pending(c) => j \in Pending(e)
  BY PendingIs DEF Moves, Keeps
<1>7. m.io + 2 >= l.io
  <2> DEFINE P == "GET" \in Pending(c)
             Q == "PUT" \in Pending(c)
             R == "GET" \in Pending(e)
             S == "PUT" \in Pending(e)
  <2>0. (P => R) \/ (Q => S)
    BY <1>6
  <2>1. One(P) <= One(R) \/ One(Q) <= One(S)
    BY <2>0 DEF One
  <2>2. \A x : One(x) \in 0..1
    BY OneIs
  <2> QED
    BY <1>1, <2>1, <2>2
<1>8. L!LifeStep(l, m)
  <2> HIDE DEF l, m
  <2> QED
    BY <1>1, <1>2, <1>3, <1>4, <1>5, <1>7, OpenLife
<1> QED
  BY <1>3, <1>8

(* Nothing is pending for a connection that is disconnected, or only its   *)
(* accept is.                                                              *)
LEMMA IdleIs ==
    ASSUME NEW c \in Connections, Sane(c), c.state = "disconnected"
    PROVE  /\ Pending(c) = c.active /\ c.active \subseteq {"NEW"}
           /\ LifeOf(c).io = 0 /\ ~LifeOf(c).del
           /\ LifeOf(c).new <=> LifeOf(c).phase = "accept"
           /\ ~LifeOf(c).new <=> LifeOf(c).phase = "idle"
<1>1. Disconnected(c) /\ c.active \subseteq {"NEW"}
  BY DEF Sane, StateInv, Disconnected
<1>2. /\ "NEW" \in c.active <=> "NEW" \in Pending(c)
      /\ "GET" \notin Pending(c) /\ "PUT" \notin Pending(c) /\ "DEL" \notin Pending(c)
      /\ Pending(c) \subseteq Bits
  BY <1>1, PendingIs DEF Disconnected
<1>3. "GTO" \notin Pending(c)
  BY <1>1 DEF Pending, Sane, TimerInv, Disconnected, Connections
<1>4. Pending(c) = c.active
  BY <1>1, <1>2, <1>3 DEF Bits
<1>5. PhaseOf(c) = IF "NEW" \in c.active THEN "accept" ELSE "idle"
  BY DEF PhaseOf
<1>6. LifeOf(c).io = 0 /\ ~LifeOf(c).del
  BY <1>2, <1>3, LifeParts DEF One
<1> QED
  BY <1>1, <1>2, <1>4, <1>5, <1>6, LifeParts

(* A connection that is closing waits for what is pending, one by one.     *)
LEMMA ClosingLives ==
    ASSUME NEW c \in Connections, NEW e \in Connections, Sane(c), Sane(e),
           c.state = "disconnecting", NEW k \in Pending(c),
           Pending(e) = Pending(c) \ {k},
           e.active = c.active \ {k},
           e.state = IF e.active = {} THEN "disconnected" ELSE "disconnecting",
           e.pool = IF e.active = {} /\ c.pool = "active" THEN "unused" ELSE c.pool
    PROVE  L!LifeStep(LifeOf(c), LifeOf(e))
<1> DEFINE l == LifeOf(c)
           m == LifeOf(e)
           K == IF k \in {"NEW", "DEL"} THEN k ELSE "IO"
<1>1. /\ l \in L!Lives /\ m \in L!Lives /\ l.pool = c.pool /\ m.pool = e.pool
      /\ l.new <=> "NEW" \in Pending(c)
      /\ m.new <=> "NEW" \in Pending(e)
      /\ l.del <=> "DEL" \in Pending(c)
      /\ m.del <=> "DEL" \in Pending(e)
      /\ l.io = One("GET" \in Pending(c)) + One("GTO" \in Pending(c))
                + One("PUT" \in Pending(c))
      /\ m.io = One("GET" \in Pending(e)) + One("GTO" \in Pending(e))
                + One("PUT" \in Pending(e))
  BY LifeParts
<1>2. k \in Bits
  BY PendingIs
<1>3. l.phase = "closing"
  BY ClosingIs
<1>4. K \in L!Kinds
  BY <1>2 DEF L!Kinds
<1>5. m.phase = IF m.new \/ m.del \/ m.io > 0 THEN "closing" ELSE "idle"
  <2>1. CASE e.active = {}
    BY <1>1, <2>1, IdleIs
  <2>2. CASE e.active # {}
    BY <2>2, ClosingIs
  <2> QED
    BY <2>1, <2>2
<1>6. m.pool = IF m.phase = "idle" /\ l.pool = "active" THEN "unused" ELSE l.pool
  <2>1. CASE e.active = {}
    BY <1>1, <2>1, IdleIs
  <2>2. CASE e.active # {}
    BY <1>1, <2>2, ClosingIs
  <2> QED
    BY <2>1, <2>2
<1>7. /\ m.new <=> l.new /\ K # "NEW"
      /\ m.del <=> l.del /\ K # "DEL"
  BY <1>1, <1>2 DEF Bits
<1>8. /\ \A j : j # k => One(j \in Pending(e)) = One(j \in Pending(c))
      /\ One(k \in Pending(e)) = 0 /\ One(k \in Pending(c)) = 1
  BY DEF One
<1>9. One("GET" \in Pending(c)) \in 0..1 /\ One("GTO" \in Pending(c)) \in 0..1
      /\ One("PUT" \in Pending(c)) \in 0..1
  BY DEF One
<1>10. m.io = IF K = "IO" THEN l.io - 1 ELSE l.io
  <2>1. CASE k = "GET"
    BY <1>1, <1>8, <1>9, <2>1
  <2>2. CASE k = "GTO"
    BY <1>1, <1>8, <1>9, <2>2
  <2>3. CASE k = "PUT"
    BY <1>1, <1>8, <1>9, <2>3
  <2>4. CASE k \in {"NEW", "DEL"}
    BY <1>1, <1>8, <2>4
  <2> QED
    BY <1>2, <2>1, <2>2, <2>3, <2>4 DEF Bits
<1>11. (CASE K = "NEW" -> l.new [] K = "IO" -> l.io > 0 [] K = "DEL" -> l.del)
  <2>1. CASE k \in {"NEW", "DEL"}
    BY <1>1, <2>1
  <2>2. CASE k \in {"GET", "GTO", "PUT"}
    <3>1. One("GET" \in Pending(c)) + One("GTO" \in Pending(c))
              + One("PUT" \in Pending(c)) > 0
      <4>1. "GET" \in Pending(c) \/ "GTO" \in Pending(c) \/ "PUT" \in Pending(c)
        BY <2>2
      <4> QED
        BY <4>1, SomeIs
    <3> HIDE DEF l
    <3>2. l.io > 0
      BY <1>1, <3>1
    <3> QED
      BY <2>2, <3>2
  <2> QED
    BY <1>2, <2>1, <2>2 DEF Bits
<1> HIDE DEF l, m, K
<1>12. L!LifeStep(l, m)
  BY <1>1, <1>3, <1>4, <1>5, <1>6, <1>7, <1>10, <1>11, ClosingLife
<1> QED
  BY <1>12 DEF l, m

----------------------------------------------------------------------------
(* The dispatch of a notification, state by state.                         *)

LEMMA ConnectionShaped == \A c \in Connections : Shaped(c)
BY DEF Connections, Shaped, Used

LEMMA DispatchedIs ==
    ASSUME NEW c \in Connections, NEW d \in Connections, NEW n, Sane(c),
           Dispatched(c, d, n)
    PROVE  /\ n.request \in Pending(c) /\ n.request \in Kinds(c.port)
           /\ n.request \in Bits /\ n.request \notin c.inflight
           /\ Kinds(d.port) = Kinds(c.port) \ {n.request}
           /\ d.active = c.active /\ d.inflight = c.inflight /\ d.timer = c.timer
           /\ d.state = c.state /\ d.broken = c.broken
           /\ Pending(d) = Pending(c) \ {n.request}
<1>1. /\ n.request \in Kinds(c.port) /\ n.request \in Bits
      /\ n.request \notin c.inflight
      /\ Kinds(d.port) = Kinds(c.port) \ {n.request}
      /\ d.active = c.active /\ d.inflight = c.inflight /\ d.timer = c.timer
      /\ d.state = c.state /\ d.broken = c.broken
  BY DEF Dispatched, SameBits, SameTimer, Notification
<1>2. n.request = "GTO" => c.timer # "running"
  BY <1>1 DEF Sane, TimerInv
<1> QED
  BY <1>1, <1>2 DEF Pending

LEMMA DisconnectingLives ==
    ASSUME NEW c \in Connections, NEW d \in Connections, NEW n, NEW e \in Connections,
           Sane(c), Sane(e), c.state = "disconnecting", c.broken = "",
           Dispatched(c, d, n), d.pool = c.pool, e.broken = "",
           e = IF disconnecting(d, n).state = "disconnected"
               THEN Move(disconnecting(d, n), "active", "unused")
               ELSE disconnecting(d, n)
    PROVE  L!LifeStep(LifeOf(c), LifeOf(e))
<1>1. /\ n.request \in Pending(c) /\ Kinds(d.port) = Kinds(c.port) \ {n.request}
      /\ d.active = c.active /\ d.inflight = c.inflight /\ d.timer = c.timer
      /\ d.state = c.state /\ d.broken = c.broken
      /\ Pending(d) = Pending(c) \ {n.request}
  BY ONLY DispatchedIs, Sane(c), Dispatched(c, d, n), c \in Connections,
          d \in Connections
<1> DEFINE a == Check(d, "GET" \notin d.active, "disconnecting")
           f == [a EXCEPT !.active = @ \ ({n.request} \ {"GET"})]
           g == IF n.request = "GTO" THEN ResetTimer(f) ELSE f
           r == disconnecting(d, n)
<1>2. r = IF g.active \subseteq {"GET"} THEN [g EXCEPT !.state = "disconnected"] ELSE g
  BY DEF disconnecting
<1>3. CASE "GET" \in d.active
  <2>1. a = [d EXCEPT !.broken = "disconnecting"]
    BY <1>1, <1>3 DEF Check
  <2>2. a.broken = "disconnecting" /\ Shaped(a)
    BY <2>1 DEF Connections, Shaped, Used
  <2> HIDE DEF a, r
  <2>3. f.broken = "disconnecting" /\ Shaped(f)
    BY <2>2 DEF Shaped, Used
  <2> HIDE DEF f
  <2>4. g.broken = "disconnecting" /\ Shaped(g)
    BY <2>3 DEF ResetTimer, Shaped, Used
  <2> HIDE DEF g
  <2>5. r.broken = "disconnecting" /\ Shaped(r)
    BY <1>2, <2>4 DEF Shaped, Used
  <2>6. e.broken = "disconnecting"
    BY <2>5 DEF Move, Shaped, Used, r
  <2> QED
    BY <2>6
<1>4. CASE "GET" \notin d.active
  <2>1. a = d
    BY <1>4 DEF Check
  <2>2. f = [d EXCEPT !.active = d.active \ {n.request}]
    BY <1>4, <2>1
  <2> HIDE DEF a, r
  <2>3. /\ Shaped(f) /\ f.active = c.active \ {n.request} /\ f.inflight = d.inflight
        /\ f.timer = d.timer /\ f.port = d.port /\ f.pool = c.pool
        /\ f.state = "disconnecting"
    BY <1>1, <2>2, ConnectionShaped DEF Shaped, Used
  <2> HIDE DEF f
  <2>4. /\ Shaped(g) /\ g.active = c.active \ {n.request} /\ g.inflight = d.inflight
        /\ g.timer = d.timer /\ g.port = d.port /\ g.pool = c.pool
        /\ g.state = "disconnecting"
    BY <2>3 DEF ResetTimer, Shaped, Used
  <2> HIDE DEF g
  <2>5. g.active \subseteq {"GET"} <=> g.active = {}
    <3>1. "GET" \notin g.active
      BY <1>1, <1>4, <2>4
    <3>2. \A S : "GET" \notin S => (S \subseteq {"GET"} <=> S = {})
      OBVIOUS
    <3> QED
      BY <3>1, <3>2
  <2>6. /\ Shaped(r) /\ r.active = c.active \ {n.request} /\ r.inflight = d.inflight
        /\ r.timer = d.timer /\ r.port = d.port /\ r.pool = c.pool
        /\ r.state = IF r.active = {} THEN "disconnected" ELSE "disconnecting"
    BY <1>2, <2>4, <2>5 DEF Shaped, Used
  <2>7. /\ e.active = c.active \ {n.request} /\ e.inflight = d.inflight
        /\ e.timer = d.timer /\ e.port = d.port
        /\ e.state = IF e.active = {} THEN "disconnected" ELSE "disconnecting"
        /\ e.pool = IF e.active = {} /\ c.pool = "active" THEN "unused" ELSE c.pool
    <3>1. e = IF r.state = "disconnected" THEN Move(r, "active", "unused") ELSE r
      BY DEF r
    <3> QED
      BY <2>6, <3>1 DEF Move, Shaped, Used
  <2>8. Pending(e) = Pending(c) \ {n.request}
    BY <1>1, <2>7, ZenonT(60) DEF Pending
  <2> QED
    BY <1>1, <2>7, <2>8, ClosingLives
<1> QED
  BY <1>3, <1>4

(* A connection with nothing pending but its disconnect, as ConnectionLife *)
(* sees it.                                                                *)
LEMMA OnlyDisconnect ==
    ASSUME NEW c \in Connections, Pending(c) = {"DEL"}
    PROVE  LifeOf(c).io = 0 /\ LifeOf(c).del /\ ~LifeOf(c).new
<1>1. /\ "GET" \notin Pending(c) /\ "GTO" \notin Pending(c)
      /\ "PUT" \notin Pending(c)
  OBVIOUS
<1>2. /\ One("GET" \in Pending(c)) = 0 /\ One("GTO" \in Pending(c)) = 0
      /\ One("PUT" \in Pending(c)) = 0
  BY <1>1 DEF One
<1>3. LifeOf(c).io = 0
  BY <1>2, LifeParts
<1>4. LifeOf(c).del /\ ~LifeOf(c).new
  BY LifeParts
<1> QED
  BY <1>3, <1>4

LEMMA AcceptLives ==
    ASSUME NEW c \in Connections, NEW d \in Connections, NEW n, NEW got,
           NEW e \in Connections, Sane(c), Sane(e), c.state = "disconnected",
           c.broken = "", c.port # <<>>, Dispatched(c, d, n), Fits(c, got),
           d.pool = IF c.pool = "listen" THEN "active" ELSE c.pool,
           e = disconnected(d, n, got)
    PROVE  L!LifeStep(LifeOf(c), LifeOf(e))
<1> DEFINE a == [d EXCEPT !.active = @ \ {"NEW"}]
<1>0. /\ n.request = "NEW" /\ d.active = {"NEW"}
      /\ a \in Connections /\ Core(a)
      /\ a.active = {} /\ a.timer = "off" /\ Kinds(a.port) = {}
      /\ a.getBuffer = NoBytes /\ a.putBuffer = NoBytes
      /\ a.taken = 0 /\ a.received = c.received
      /\ n.size \in 0..MaxBytes /\ n.size <= BufferSize
      /\ a.taken + n.size <= a.received
  BY AcceptTaken
<1>1. /\ n.request = "NEW" /\ d.active = {"NEW"}
      /\ a \in Connections /\ Core(a)
      /\ a.active = {} /\ a.timer = "off" /\ Kinds(a.port) = {}
  BY <1>0
<1> DEFINE l == LifeOf(c)
           m == LifeOf(e)
<1>2. /\ n.request \in Pending(c) /\ d.active = c.active /\ d.inflight = c.inflight
  BY DispatchedIs
<1>3. a.pool = d.pool /\ a.inflight = d.inflight
  BY DEF Connections
<1> HIDE DEF a
<1>4. e = IF n.bad THEN initiate_disconnection(a) ELSE Accepted(a, n, got)
  BY <1>1 DEF disconnected, Check, a
<1>5. /\ l \in L!Lives /\ m \in L!Lives /\ l.pool = c.pool /\ m.pool = e.pool
      /\ m.new <=> "NEW" \in Pending(e)
      /\ m.del <=> "DEL" \in Pending(e)
      /\ m.io = One("GET" \in Pending(e)) + One("GTO" \in Pending(e))
                + One("PUT" \in Pending(e))
  BY LifeParts
<1>6. l.phase = "accept" /\ l.new
  <2>1. "NEW" \in Pending(c)
    BY <1>1, <1>2
  <2>2. LifeOf(c).new
    BY <2>1, LifeParts
  <2> QED
    BY <2>2, IdleIs
<1>7. CASE n.bad
  <2>1. /\ e.state = "disconnecting" /\ e.pool = a.pool /\ e.active = {"DEL"}
        /\ e.inflight = a.inflight \cup {"DEL"} /\ e.timer = "off" /\ e.port = a.port
    <3>1. e = initiate_disconnection(a) /\ a \in Connections
      BY <1>1, <1>4, <1>7
    <3>2. /\ e.state = "disconnecting" /\ e.pool = a.pool
          /\ e.active = a.active \cup {"DEL"}
          /\ e.inflight = a.inflight \cup {"DEL"} /\ SameTimer(a, e) /\ e.port = a.port
      BY <3>1, DisconnectionInitiated
    <3> QED
      BY <1>1, <3>2 DEF SameTimer
  <2>2. a.inflight \subseteq {"NEW"} \ {"NEW"}
    <3>1. a.inflight \subseteq Bits \ {"GTO"} /\ "NEW" \notin a.inflight /\ BitInv(a)
      BY <1>1 DEF Core, Connections
    <3> QED
      BY <1>1, <3>1 DEF BitInv, Bits
  <2>3. Pending(e) = {"DEL"}
    BY <1>1, <2>1, <2>2 DEF Pending
  <2>4. m.phase = "closing"
    BY <2>1, ClosingIs
  <2>5. m.io = 0 /\ m.del /\ ~m.new
    BY <2>3, OnlyDisconnect
  <2> HIDE DEF l, m
  <2>6. L!LifeStep(l, m)
    BY <1>3, <1>5, <1>6, <2>1, <2>4, <2>5, AcceptLife, ZenonT(60)
  <2> QED
    BY <2>6 DEF l, m
<1>8. CASE ~n.bad
  <2>1. got \in {NotYet} \cup 0..MaxBytes /\ Shaped(a)
    BY <1>1, ConnectionShaped DEF Fits
  <2>2. Keeps(a, e) /\ e.state = "full_duplex"
    BY <1>4, <1>8, <2>1, AcceptStays
  <2>3. m.phase = "open" /\ m.io > 0 /\ ~m.new /\ ~m.del
    BY <2>2, OpenIs
  <2>4. m.pool = IF l.pool = "listen" THEN "active" ELSE l.pool
    BY <1>3, <1>5, <2>2 DEF Keeps
  <2> HIDE DEF l, m
  <2>5. L!LifeStep(l, m)
    BY <1>5, <1>6, <2>3, <2>4, AcceptLife
  <2> QED
    BY <2>5 DEF l, m
<1> QED
  BY <1>7, <1>8

LEMMA FullDuplexLives ==
    ASSUME NEW c \in Connections, NEW d \in Connections, NEW n, NEW got,
           NEW e \in Connections, Sane(c), Sane(e), c.state = "full_duplex",
           c.broken = "", Dispatched(c, d, n), d.pool = c.pool, Fits(c, got),
           e.broken = "", e = full_duplex(d, n, got)
    PROVE  L!LifeStep(LifeOf(c), LifeOf(e)) /\ e.state # "disconnected"
<1>1. /\ n.request \in Kinds(c.port) /\ n.request \in Bits
      /\ n.request \notin c.inflight
      /\ Kinds(d.port) = Kinds(c.port) \ {n.request}
      /\ d.active = c.active /\ d.inflight = c.inflight
      /\ d.state = c.state /\ d.broken = c.broken
  BY DispatchedIs, ZenonT(60)
<1>2. FullDuplex(c) /\ BitInv(c)
  BY DEF Sane, StateInv
<1>3. n.request \in {"GTO", "GET", "PUT"}
  BY <1>1, <1>2 DEF FullDuplex, BitInv, Bits
<1> DEFINE f == CASE n.request = "GTO" -> TimedOut(d)
                  [] n.request = "GET" -> complete_get(d, n, got)
                  [] n.request = "PUT" -> complete_put(d, n, got)
                  [] OTHER -> d
<1>4. Check(d, d.active \subseteq {"GET", "GTO", "PUT"}, "full_duplex") = d
  BY <1>1, <1>2 DEF Check, FullDuplex
<1>5. e = EndOf(f)
  BY <1>4 DEF full_duplex, EndOf
<1>6. got \in {NotYet} \cup 0..MaxBytes
  BY DEF Fits
<1>7. CASE n.request = "GTO"
  <2>1. f = TimedOut(d)
    BY <1>7
  <2>2. TimedOut(d) \in Connections /\ TimedOut(d).broken # ""
    BY <1>7, TimeoutFails
  <2> HIDE DEF f
  <2>3. e.broken # ""
    BY <1>5, <2>1, <2>2, DisconnectionInitiated, ZenonT(60) DEF EndOf
  <2> QED
    BY <2>3
<1>8. CASE n.request \in {"GET", "PUT"}
  <2> DEFINE k == n.request
             b == [d EXCEPT !.active = @ \ {k}]
  <2>1. /\ b.state = c.state /\ b.pool = c.pool /\ b.active = c.active \ {k}
        /\ b.inflight = d.inflight /\ b.port = d.port /\ Shaped(b)
    BY <1>1, ConnectionShaped DEF Connections, Shaped, Used
  <2>2. k \in d.active /\ k \notin d.inflight
    BY <1>1, <1>2, <1>8 DEF BitInv
  <2>3. "NEW" \notin b.inflight \cup Kinds(b.port)
    BY <1>1, <1>2, <2>1 DEF FullDuplex
  <2>4. Moves(b, e)
    <3>1. CASE k = "GET"
      <4>1. f = complete_get(d, n, got)
        BY <3>1
      <4>2. b = [d EXCEPT !.active = @ \ {"GET"}]
        BY <3>1
      <4> HIDE DEF b, f
      <4> QED
        <5>1. "GET" \in d.active /\ "GET" \notin d.inflight /\ Shaped(b)
          BY <2>1, <2>2, <3>1
        <5>2. Moves(b, EndOf(complete_get(d, n, got)))
          BY <1>6, <4>2, <5>1, GetMoves
        <5> QED
          BY <1>5, <4>1, <5>2
    <3>2. CASE k = "PUT"
      <4>1. f = complete_put(d, n, got)
        BY <3>2
      <4>2. b = [d EXCEPT !.active = @ \ {"PUT"}]
        BY <3>2
      <4> HIDE DEF b, f
      <4> QED
        <5>1. "PUT" \in d.active /\ "PUT" \notin d.inflight /\ Shaped(b)
          BY <2>1, <2>2, <3>2
        <5>2. Moves(b, EndOf(complete_put(d, n, got)))
          BY <1>6, <4>2, <5>1, PutMoves
        <5> QED
          BY <1>5, <4>1, <5>2
    <3> QED
      BY <1>8, <3>1, <3>2
  <2> HIDE DEF b
  <2> QED
    BY <1>8, <2>1, <2>3, <2>4, OpenLives
<1> QED
  BY <1>3, <1>7, <1>8

LEMMA NotifyLives ==
    ASSUME EchoInv, EchoInv', Notify, Running'
    PROVE  Lives(conn, conn')
<1>1. conn \in Connections /\ Sane(conn) /\ conn.broken = "" /\ conn.port # <<>>
  BY DEF EchoInv, Notify, Running
<1>2. conn' \in Connections /\ Sane(conn') /\ conn'.broken = ""
  BY DEF EchoInv, Running
<1> DEFINE n == Head(conn.port)
           c == [conn EXCEPT !.port = Tail(@)]
           d == IF c.state = "disconnected" THEN Move(c, "listen", "active") ELSE c
<1>3. PICK got \in {NotYet} \cup 0..(MaxBytes - conn.received) :
          LET e == process_notification(d, n, got) IN
          /\ got # NotYet => got <= BufferSize /\ (conn.closed => got = 0)
          /\ conn' = IF e.state = "disconnected"
                     THEN Move(e, "active", "unused") ELSE e
  BY DEF Notify
<1> DEFINE e == process_notification(d, n, got)
<1>4. conn' = IF e.state = "disconnected" THEN Move(e, "active", "unused") ELSE e
  BY <1>3
<1>5. Fits(conn, got)
  <2>1. conn.received \in Nat /\ conn.received <= MaxBytes /\ MaxBytes \in Nat
    BY <1>1, Numbers, Bounds
  <2>2. \A k \in 0..(MaxBytes - conn.received) :
            k \in 0..MaxBytes /\ conn.received + k <= MaxBytes
    BY <2>1
  <2>3. got # NotYet => got \in 0..(MaxBytes - conn.received) /\ got <= BufferSize
    BY <1>3
  <2> QED
    BY <2>2, <2>3 DEF Fits
<1>6. /\ d \in Connections /\ Dispatched(conn, d, n)
      /\ d.pool = IF conn.state = "disconnected" /\ conn.pool = "listen"
                  THEN "active" ELSE conn.pool
  BY <1>1, Delivered
<1> HIDE DEF c, d, n
<1>7. d.state = conn.state
  BY <1>1, <1>6, DispatchedIs
<1>8. conn.state \in {"disconnected", "disconnecting", "full_duplex"}
  BY <1>1 DEF Sane, StateInv, Connections, States
<1>9. d.active # {}
  BY <1>1, <1>5, <1>6, HasActive
<1>10. Check(d, d.active # {}, "process_notification") = d
  BY <1>9 DEF Check
<1>11. CASE conn.state = "disconnected"
  <2>1. d.pool = IF conn.pool = "listen" THEN "active" ELSE conn.pool
    BY <1>6, <1>11
  <2>2. e = disconnected(d, n, got)
    BY <1>7, <1>10, <1>11 DEF process_notification
  <2> HIDE DEF e
  <2>3. e.state # "disconnected"
    BY <1>1, <1>5, <1>6, <1>11, <2>1, <2>2, DisconnectedKept
  <2>4. conn' = disconnected(d, n, got)
    BY <1>4, <2>2, <2>3
  <2> QED
    BY <1>1, <1>2, <1>5, <1>6, <1>11, <2>1, <2>4, AcceptLives DEF Lives
<1>12. CASE conn.state = "full_duplex"
  <2>1. e = full_duplex(d, n, got)
    BY <1>7, <1>10, <1>12 DEF process_notification
  <2>2. d.pool = conn.pool
    BY <1>6, <1>12
  <2> HIDE DEF e
  <2>3. Good(e)
    BY <1>1, <1>5, <1>6, <1>12, <2>1, <2>2, FullDuplexKept
  <2>4. e.broken = ""
    BY <1>2, <1>4, <2>3 DEF Move, Good, Connections
  <2>5. L!LifeStep(LifeOf(conn), LifeOf(e)) /\ e.state # "disconnected"
    BY <1>1, <1>5, <1>6, <1>12, <2>1, <2>2, <2>3, <2>4, FullDuplexLives DEF Good
  <2> QED
    BY <1>4, <2>5 DEF Lives
<1>13. CASE conn.state = "disconnecting"
  <2>1. e = disconnecting(d, n)
    BY <1>7, <1>10, <1>13 DEF process_notification
  <2>2. d.pool = conn.pool
    BY <1>6, <1>13
  <2> HIDE DEF e
  <2>3. conn' = IF disconnecting(d, n).state = "disconnected"
                THEN Move(disconnecting(d, n), "active", "unused")
                ELSE disconnecting(d, n)
    BY <1>4, <2>1
  <2> QED
    BY <1>1, <1>2, <1>6, <1>13, <2>2, <2>3, DisconnectingLives DEF Lives
<1> QED
  BY <1>8, <1>11, <1>12, <1>13

LEMMA EveryStepLives ==
    ASSUME EchoInv, EchoInv', Next, Running'
    PROVE  Lives(conn, conn')
<1>1. CASE Notify
  BY <1>1, NotifyLives
<1>2. CASE StartAccept
  BY <1>2, StartLives DEF Lives
<1>3. CASE AbortAccept
  BY <1>3, AbortLives
<1>4. CASE Connect
  BY <1>4, ConnectUnseen DEF Lives
<1>5. CASE Kernel
  BY <1>5, KernelUnseen DEF Lives
<1> QED
  BY <1>1, <1>2, <1>3, <1>4, <1>5 DEF Next

LEMMA LifeInit == Init => lifeBar = L!Accepting(L!Unborn)
<1> SUFFICES ASSUME Init PROVE lifeBar = L!Accepting(L!Unborn)
  OBVIOUS
<1>1. EchoInv /\ Running
  BY EchoInit DEF Init, Running
<1>2. lifeBar = LifeOf(conn)
  BY <1>1, LifeIs
<1>3. /\ conn.state = "disconnected" /\ conn.active = {"NEW"}
      /\ conn.pool = "listen" /\ conn.timer = "off" /\ conn.inflight = {"NEW"}
      /\ conn.port = <<>>
  BY DEF Init
<1>4. Pending(conn) = {"NEW"}
  BY <1>3, NoKinds DEF Pending
<1>5. conn \in Connections
  BY <1>1 DEF EchoInv
<1>6. /\ LifeOf(conn) \in L!Lives
      /\ LifeOf(conn).phase = "accept" /\ LifeOf(conn).pool = "listen"
      /\ LifeOf(conn).io = 0 /\ LifeOf(conn).new /\ ~LifeOf(conn).del
  BY <1>3, <1>4, <1>5, LifeParts DEF PhaseOf, One
<1>7. /\ L!Unborn \in L!Lives
      /\ L!Unborn.io = 0 /\ L!Unborn.del = FALSE
  BY DEF L!Unborn, L!Lives
<1> HIDE DEF L!Unborn
<1>8. LifeOf(conn) = L!Accepting(L!Unborn)
  BY <1>6, <1>7 DEF L!Accepting, L!Lives
<1> QED
  BY <1>2, <1>8

(* ImplementsLife: as long as no check fails, each step of a connection is *)
(* one that ConnectionLife allows, or is not seen there                    *)
(* (echo-server.cpp:585-784).                                              *)
THEOREM ConnectionImplementsLife == Spec => ImplementsLife
<1>1. EchoInv /\ EchoInv' /\ [Next]_conn
          => [Running' => L!LifeStep(lifeBar, lifeBar')]_lifeBar
  <2> SUFFICES ASSUME EchoInv, EchoInv', [Next]_conn, Running', lifeBar' # lifeBar
               PROVE  L!LifeStep(lifeBar, lifeBar')
    OBVIOUS
  <2>1. CASE UNCHANGED conn
    BY <2>1 DEF lifeBar, Phase, Posted, Outstanding
  <2>2. CASE Next
    <3>1. Running
      BY <2>2 DEF Next, Notify, StartAccept, AbortAccept, Connect, Kernel,
                  CompleteAccept, CompleteGet, CompletePut, CompleteDisconnect, Expire
    <3>2. lifeBar = LifeOf(conn)
      BY <3>1, LifeIs
    <3>3. lifeBar' = LifeOf(conn')
      <4>1. (EchoInv /\ Running => lifeBar = LifeOf(conn))'
        BY LifeIs, PTL
      <4> QED
        BY <4>1
    <3>4. Lives(conn, conn')
      BY <2>2, EveryStepLives
    <3> QED
      BY <3>2, <3>3, <3>4 DEF Lives
  <2> QED
    BY <2>1, <2>2
<1> QED
  BY <1>1, EchoAlways, LifeInit, EchoStep, PTL DEF Spec, ImplementsLife
=============================================================================
