-------------------------- MODULE EchoClientProofs --------------------------
(***************************************************************************)
(* Theorems about EchoClient, for a payload and buffers of any size, a     *)
(* network of any capacity and any number of iterations.                   *)
(***************************************************************************)
EXTENDS EchoClientInv, EchoConnectionProofs

LEMMA NotYetIs == NotYet # 0 /\ NotYet \notin 0..MaxBytes
<1>1. MaxBytes \in Nat
  BY Bounds
<1> QED
  BY ONLY <1>1 DEF NotYet

----------------------------------------------------------------------------
(* What the methods do to the notifications on their way.                  *)

(* Nothing but notifications and the buffers decides whether they are good.*)
LEMMA NotesStay ==
    ASSUME NEW c \in Connections, NEW d \in Connections, GoodNotes(c),
           d.port = c.port, c.closed => d.closed,
           d.putBuffer = c.putBuffer \/ "PUT" \notin Kinds(c.port)
    PROVE  GoodNotes(d)
<1>1. Kinds(c.port) = {n.request : n \in ToSet(c.port)}
  BY TypesOf
<1>2. ASSUME NEW n \in ToSet(d.port), n.request = "PUT"
      PROVE  n.size = Len(d.putBuffer.bytes)
  BY <1>1, <1>2 DEF GoodNotes
<1> QED
  BY <1>2 DEF GoodNotes

LEMMA NotesPost ==
    ASSUME NEW c \in Connections, NEW d \in Connections, GoodNotes(c),
           NEW m \in Notification, d.port = Append(c.port, m),
           c.closed => d.closed, d.putBuffer = c.putBuffer,
           m.request \in {"NEW", "GET", "PUT", "DEL"},
           m.request = "NEW" => ~m.bad /\ m.size > 0,
           m.request = "GET" /\ m.size = 0 => m.bad /\ d.closed,
           m.request = "PUT" => m.size = Len(d.putBuffer.bytes)
    PROVE  GoodNotes(d)
<1>1. ToSet(d.port) = ToSet(c.port) \cup {m}
  BY PortAppend, PortIs
<1> QED
  BY <1>1 DEF GoodNotes

(* A get that completes at once and has nothing to give, closes.           *)
LEMMA GetCloses ==
    ASSUME NEW c \in Connections, NEW got \in {NotYet} \cup 0..MaxBytes,
           got # NotYet => c.received + got <= MaxBytes,
           c.broken = "" => "GET" \notin c.active /\ c.getBuffer = NoBytes
    PROVE  initiate_get(c, got).closed = (c.closed \/ got = 0)
<1> DEFINE d == Check(Check(c, "GET" \notin c.active, "initiate_get"),
                      gsize(c.getBuffer) > 0, "initiate_get: full")
           e == StartGet(c, got)
<1>1. c.broken # "" \/ (gsize(c.getBuffer) > 0 /\ "GET" \notin c.active)
  BY SizeOfEmpty
<1>2. d = c
  BY <1>1 DEF Check
<1>3. initiate_get(c, got) =
          IF got = NotYet
          THEN [StartTimer([e EXCEPT !.active = @ \cup {"GET"}]) EXCEPT
                    !.active = @ \cup {"GTO"}]
          ELSE [e EXCEPT !.active = @ \cup {"GET"}]
  BY <1>2 DEF initiate_get
<1>4. e \in Connections
  BY GetStarted
<1>5. e.closed = (c.closed \/ got = 0)
  <2>1. NotYet # 0
    BY NotYetIs
  <2>2. c.closed \in BOOLEAN
    BY DEF Connections
  <2>3. CASE got = NotYet
    BY <2>1, <2>2, <2>3 DEF StartGet, Connections
  <2>4. CASE got # NotYet
    BY <2>4 DEF StartGet, Post, Connections
  <2> QED
    BY <2>3, <2>4
<1> HIDE DEF d, e
<1>6. CASE got = NotYet
  BY <1>3, <1>4, <1>5, <1>6 DEF StartTimer, Connections
<1>7. CASE got # NotYet
  BY <1>3, <1>4, <1>5, <1>7 DEF Connections
<1> QED
  BY <1>6, <1>7

(* What is true of the connection between the calls of a handler.          *)
Fine(c) ==
    /\ c \in Connections /\ c.broken = "" /\ GoodNotes(c)
    /\ c.state = "full_duplex" /\ c.socket = "connected"

(* The timer that would be stopped has not expired.                        *)
NotLate(c) == "GTO" \in c.active => ~c.timerReady

LEMMA GetFine ==
    ASSUME NEW c, NEW got, Fine(c), Fits(c, got),
           "GET" \notin c.active, c.getBuffer = NoBytes
    PROVE  LET d == initiate_get(c, got) IN
           /\ Fine(d) /\ "GET" \in d.active
           /\ \A k \in {"PUT", "DEL"} : k \in d.active <=> k \in c.active
           /\ d.active \subseteq c.active \cup {"GET", "GTO"}
           /\ d.putBuffer = c.putBuffer /\ d.wire = c.wire
           /\ NotLate(c) => NotLate(d)
<1> DEFINE d == initiate_get(c, got)
           m == Note("GET", got, got = 0)
<1>1. /\ d \in Connections /\ d.broken = ""
      /\ SamePlace(c, d) /\ SameBuffers(c, d) /\ d.wire = c.wire
      /\ got = NotYet =>
            /\ d.active = c.active \cup {"GET", "GTO"}
            /\ d.port = c.port /\ d.timerReady = FALSE
      /\ got # NotYet =>
            /\ d.active = c.active \cup {"GET"} /\ d.timerReady = c.timerReady
            /\ d.port = Append(c.port, m)
  BY GetInitiated, ZenonT(60) DEF Fine, Fits, SameTimer
<1>2. d.closed = (c.closed \/ got = 0)
  BY GetCloses DEF Fine, Fits
<1>3. c \in Connections /\ GoodNotes(c)
  BY DEF Fine
<1>4. got # NotYet => /\ m \in Notification /\ m.request = "GET"
                      /\ m.size = got /\ m.bad = (got = 0)
  BY DEF Fits, Note, Notification, Bits
<1> HIDE DEF d, m
<1>5. d.putBuffer = c.putBuffer /\ d.state = c.state /\ d.socket = c.socket
  BY <1>1 DEF SameBuffers, SamePlace
<1>6. GoodNotes(d)
  <2>1. CASE got = NotYet
    BY <1>1, <1>2, <1>3, <1>5, <2>1, NotesStay
  <2>2. CASE got # NotYet
    <3>1. m.request = "GET" /\ (m.size = 0 => m.bad /\ d.closed)
      BY <1>2, <1>4, <2>2
    <3> QED
      BY <1>1, <1>2, <1>3, <1>4, <1>5, <2>2, <3>1, NotesPost
  <2> QED
    BY <2>1, <2>2
<1>7. /\ "GET" \in d.active /\ d.active \subseteq c.active \cup {"GET", "GTO"}
      /\ \A k \in {"PUT", "DEL"} : k \in d.active <=> k \in c.active
  BY <1>1
<1>8. NotLate(c) => NotLate(d)
  <2>1. CASE got = NotYet
    BY <1>1, <2>1, Zenon DEF NotLate
  <2>2. CASE got # NotYet
    <3>1. d.active = c.active \cup {"GET"}
      BY <1>1, <2>2
    <3>2. "GTO" \in d.active => "GTO" \in c.active
      BY <3>1
    <3>3. d.timerReady = c.timerReady
      BY <1>1, <2>2, Zenon
    <3> QED
      BY <3>2, <3>3, Zenon DEF NotLate
  <2> QED
    BY <2>1, <2>2
<1> QED
  BY <1>1, <1>5, <1>6, <1>7, <1>8 DEF Fine, d

LEMMA PutFine ==
    ASSUME NEW c, Fine(c), "PUT" \notin c.active, c.putBuffer.bytes # <<>>
    PROVE  LET d == initiate_put(c) IN
           /\ Fine(d) /\ d.active = c.active \cup {"PUT"}
           /\ d.putBuffer = c.putBuffer /\ d.wire = c.wire
           /\ SameTimer(c, d) /\ d.port = c.port
<1> DEFINE d == initiate_put(c)
<1>1. /\ d \in Connections /\ d.broken = ""
      /\ SamePlace(c, d) /\ SameTimer(c, d) /\ SameBuffers(c, d)
      /\ SameBytes(c, d)
      /\ d.active = c.active \cup {"PUT"} /\ d.port = c.port
  BY PutInitiated DEF Fine
<1> HIDE DEF d
<1>2. d.putBuffer = c.putBuffer /\ d.wire = c.wire /\ d.closed = c.closed
  BY <1>1 DEF SameBuffers, SameBytes
<1>3. GoodNotes(d)
  BY <1>1, <1>2, NotesStay DEF Fine
<1> QED
  BY <1>1, <1>2, <1>3 DEF Fine, SamePlace, d

LEMMA SwapFine ==
    ASSUME NEW c, Fine(c), c.putBuffer.bytes = <<>>, "PUT" \notin Kinds(c.port)
    PROVE  LET d == SwapAndPack(c) IN
           /\ Fine(d) /\ SameBits(c, d) /\ SameTimer(c, d) /\ SameBytes(c, d)
           /\ d.getBuffer = NoBytes /\ d.putBuffer = c.getBuffer
           /\ d.port = c.port
<1> DEFINE d == SwapAndPack(c)
<1>1. /\ d \in Connections /\ d.broken = ""
      /\ SamePlace(c, d) /\ SameBits(c, d) /\ SameTimer(c, d) /\ SameBytes(c, d)
      /\ d.getBuffer = NoBytes /\ d.putBuffer = c.getBuffer /\ d.port = c.port
  BY SwappedAndPacked DEF Fine
<1> HIDE DEF d
<1>2. GoodNotes(d)
  <2>1. d.closed = c.closed
    BY <1>1 DEF SameBytes
  <2> QED
    BY <1>1, <2>1, NotesStay DEF Fine
<1> QED
  BY <1>1, <1>2 DEF Fine, SamePlace, d

(* The end of a handler in full_duplex.                                    *)
LEMMA OwnEnd ==
    ASSUME NEW c, Fine(c), c.active \subseteq {"GET", "GTO", "PUT"},
           "PUT" \in c.active => c.putBuffer.bytes # <<>>,
           "GET" \in c.active \/ c.closed
               \/ ("PUT" \in c.active /\ c.getBuffer.bytes # <<>>)
    PROVE  LET r == EndOf(c) IN
           Own(r) /\ r.wire = c.wire /\ r.state # "disconnected"
<1>1. CASE c.active \cap {"GET", "GTO", "PUT"} = {}
  <2> DEFINE d == initiate_disconnection(c)
  <2>1. EndOf(c) = d
    BY <1>1 DEF EndOf
  <2>2. c.active = {} /\ c.closed
    BY <1>1
  <2>3. /\ d \in Connections /\ d.broken = ""
        /\ d.state = "disconnecting" /\ d.active = {"DEL"}
        /\ d.inflight = c.inflight \cup {"DEL"}
        /\ SameBuffers(c, d) /\ SameBytes(c, d) /\ d.port = c.port
    BY <2>2, DisconnectionInitiated DEF Fine
  <2> HIDE DEF d
  <2>4. GoodNotes(d) /\ d.closed /\ d.wire = c.wire
    <3>1. d.putBuffer = c.putBuffer /\ d.closed = c.closed /\ d.wire = c.wire
      BY <2>3 DEF SameBuffers, SameBytes
    <3> QED
      BY <2>2, <2>3, <3>1, NotesStay DEF Fine
  <2>5. OwnStates(d)
    BY <2>3, <2>4 DEF OwnStates
  <2> QED
    BY <2>1, <2>3, <2>4, <2>5 DEF Own
<1>2. CASE c.active \cap {"GET", "GTO", "PUT"} # {}
  <2>1. EndOf(c) = c
    BY <1>2 DEF EndOf
  <2>2. OwnStates(c)
    BY DEF OwnStates, Fine
  <2> QED
    BY <2>1, <2>2 DEF Own, Fine
<1> QED
  BY <1>1, <1>2

LEMMA StopFine ==
    ASSUME NEW c, Fine(c), NotLate(c)
    PROVE  LET d == StopTimer(c) IN
           /\ Fine(d) /\ SameBuffers(c, d) /\ SameBytes(c, d)
           /\ d.active = c.active \ {"GTO"}
<1> DEFINE d == StopTimer(c)
<1>0. c \in Connections /\ c.broken = "" /\ GoodNotes(c)
      /\ c.active \subseteq Bits
  BY DEF Fine, Connections
<1>1. /\ d \in Connections /\ d.broken = "" /\ d.socket = c.socket
      /\ SameBuffers(c, d) /\ SameBytes(c, d) /\ d.port = c.port
      /\ "GTO" \notin c.active => d = c
      /\ "GTO" \in c.active =>
            /\ d.active = IF c.timerReady THEN c.active ELSE c.active \ {"GTO"}
            /\ d.state = IF c.timerReady THEN "disconnecting" ELSE c.state
  BY <1>0, TimerStopped, Zenon
<1> HIDE DEF d
<1>2. d.putBuffer = c.putBuffer /\ d.closed = c.closed
  BY <1>1 DEF SameBuffers, SameBytes
<1>3. GoodNotes(d)
  BY <1>0, <1>1, <1>2, NotesStay
<1>4. d.state = c.state /\ d.active = c.active \ {"GTO"}
  <2>1. CASE "GTO" \in c.active
    BY <1>1, <2>1, Zenon DEF NotLate
  <2>2. CASE "GTO" \notin c.active
    BY <1>1, <2>2
  <2> QED
    BY <2>1, <2>2
<1> QED
  BY <1>1, <1>3, <1>4 DEF Fine, d

----------------------------------------------------------------------------
(* The handlers.                                                           *)

LEMMA NotesLeft ==
    ASSUME NEW c \in Connections, NEW d \in Connections, NEW n,
           GoodNotes(c), Dispatched(c, d, n)
    PROVE  /\ GoodNotes(d)
           /\ n.request # "GTO"
           /\ n.request = "NEW" => ~n.bad /\ n.size > 0
           /\ n.request = "GET" /\ n.size = 0 => n.bad /\ d.closed
           /\ n.request = "PUT" => n.size = Len(d.putBuffer.bytes)
<1>1. /\ n \in ToSet(c.port) /\ ToSet(d.port) \subseteq ToSet(c.port)
      /\ d.closed = c.closed /\ d.putBuffer = c.putBuffer
  BY DEF Dispatched, SameBytes, SameBuffers
<1> QED
  BY <1>1 DEF GoodNotes

(* What a handler of full_duplex() finds when it has cleared the bit.      *)
LEMMA OwnTaken ==
    ASSUME NEW c \in Connections, NEW d \in Connections, NEW n, Sane(c), Own(c),
           c.state = "full_duplex", Dispatched(c, d, n), d.socket = c.socket,
           NEW k \in {"GET", "PUT"}
    PROVE  LET e == [d EXCEPT !.active = @ \ {k}] IN
           /\ Fine(e) /\ NotLate(e)
           /\ e.wire = c.wire /\ e.closed = d.closed
           /\ e.putBuffer = d.putBuffer /\ e.getBuffer = d.getBuffer
           /\ e.active = c.active \ {k}
           /\ "PUT" \in c.active => e.putBuffer.bytes # <<>>
           /\ "GET" \in c.active \/ e.getBuffer.bytes # <<>> \/ e.closed
<1> DEFINE e == [d EXCEPT !.active = @ \ {k}]
<1>1. /\ d.state = c.state /\ d.broken = c.broken
      /\ SameBits(c, d) /\ SameTimer(c, d)
      /\ SameBuffers(c, d) /\ SameBytes(c, d)
  BY DEF Dispatched
<1>2. /\ e \in Connections
      /\ e.active = d.active \ {k}
      /\ e.port = d.port /\ e.state = d.state /\ e.socket = d.socket
      /\ e.broken = d.broken /\ SameTimer(d, e)
      /\ SameBuffers(d, e) /\ SameBytes(d, e)
  BY DEF Connections, SameTimer, SameBuffers, SameBytes
<1> HIDE DEF e
<1>3. /\ e.putBuffer = d.putBuffer /\ e.getBuffer = d.getBuffer
      /\ e.closed = d.closed /\ e.wire = d.wire /\ e.timerReady = d.timerReady
      /\ d.putBuffer = c.putBuffer /\ d.getBuffer = c.getBuffer
      /\ d.closed = c.closed /\ d.wire = c.wire /\ d.timerReady = c.timerReady
      /\ d.active = c.active
  BY <1>1, <1>2 DEF SameTimer, SameBuffers, SameBytes, SameBits
<1>4. c.broken = "" /\ GoodNotes(c) /\ OwnStates(c)
  BY DEF Own
<1>5. GoodNotes(e)
  <2>1. GoodNotes(d)
    BY <1>4, NotesLeft
  <2> QED
    BY <1>2, <1>3, <2>1, NotesStay
<1>6. NotLate(c)
  <2>1. Kinds(c.port) = {m.request : m \in ToSet(c.port)}
    BY TypesOf
  <2>2. "GTO" \notin Kinds(c.port)
    BY <1>4, <2>1 DEF GoodNotes
  <2> QED
    BY <2>2 DEF Sane, TimerInv, NotLate
<1>7. c.socket = "connected"
  BY <1>4 DEF OwnStates
<1>8. Fine(e)
  BY <1>1, <1>2, <1>4, <1>5, <1>7 DEF Fine
<1>9. NotLate(e)
  BY <1>2, <1>3, <1>6 DEF NotLate
<1>10. /\ "PUT" \in c.active => c.putBuffer.bytes # <<>>
       /\ "GET" \in c.active \/ c.getBuffer.bytes # <<>> \/ c.closed
  BY <1>4 DEF OwnStates
<1> QED
  BY <1>2, <1>3, <1>8, <1>9, <1>10 DEF e

LEMMA OwnGet ==
    ASSUME NEW c \in Connections, NEW d \in Connections, NEW n, NEW got, Sane(c),
           Own(c), c.state = "full_duplex", Dispatched(c, d, n), d.pool = c.pool,
           d.socket = c.socket, n.request = "GET", Fits(c, got)
    PROVE  LET r == EndOf(complete_get(d, n, got)) IN
           Own(r) /\ r.wire = c.wire /\ r.state # "disconnected"
<1> DEFINE e == [d EXCEPT !.active = @ \ {"GET"}]
           x == n.size
           r == complete_get(d, n, got)
<1>0. c.broken = "" /\ GoodNotes(c)
  BY DEF Own
<1>1. /\ "GET" \in d.active /\ "GET" \notin d.inflight
      /\ e \in Connections /\ e.active \subseteq {"GTO", "PUT"}
      /\ "PUT" \notin e.active => e.putBuffer.bytes = <<>>
      /\ e.getBuffer = NoBytes /\ e.received = c.received
      /\ Transferred(n) = x /\ x \in 0..MaxBytes
      /\ e.taken + x <= e.received
      /\ "PUT" \in e.active \/ "PUT" \notin Kinds(e.port)
  <2>1. /\ "GET" \in d.active /\ "GET" \notin d.inflight
        /\ e \in Connections /\ Core(e) /\ e.active \subseteq {"GTO", "PUT"}
        /\ "PUT" \notin e.active => e.putBuffer.bytes = <<>>
        /\ e.getBuffer = NoBytes /\ e.received = c.received
    BY <1>0, GetTaken, ZenonT(60)
  <2>2. Transferred(n) = x /\ x \in 0..MaxBytes /\ e.taken + x <= e.received
    BY <1>0, GetTaken, ZenonT(60)
  <2> HIDE DEF e, x
  <2>3. "PUT" \in e.active \/ "PUT" \notin Kinds(e.port)
    BY <2>1 DEF Core, BitInv
  <2> QED
    BY <2>1, <2>2, <2>3
<1>2. /\ Fine(e) /\ NotLate(e) /\ e.wire = c.wire /\ e.closed = d.closed
      /\ e.active = c.active \ {"GET"}
      /\ "PUT" \in c.active => e.putBuffer.bytes # <<>>
  BY OwnTaken
<1>3. x = 0 => n.bad /\ d.closed
  BY <1>0, NotesLeft
<1> HIDE DEF e, x
<1>4. r = StopTimer(IF x > 0 THEN GotBytes(gused(e, x), got)
                    ELSE GotNothing(e, n.bad))
  BY <1>1 DEF complete_get, Check, e
<1> HIDE DEF r
<1>5. CASE ~(x > 0)
  <2>1. x \in Nat
    BY <1>1, Ranges
  <2>2. n.bad /\ e.closed
    BY <1>2, <1>3, <1>5, <2>1, NotPositive
  <2>3. r = StopTimer(e)
    BY <1>4, <1>5, <2>2 DEF GotNothing
  <2>4. /\ Fine(r) /\ SameBuffers(e, r) /\ SameBytes(e, r)
        /\ r.active = e.active \ {"GTO"}
    BY <1>2, <2>3, StopFine
  <2>5. r.putBuffer = e.putBuffer /\ r.closed = e.closed /\ r.wire = e.wire
    BY <2>4 DEF SameBuffers, SameBytes
  <2>6. r.active \subseteq {"GET", "GTO", "PUT"}
    BY <1>1, <2>4
  <2>7. "PUT" \in r.active => r.putBuffer.bytes # <<>>
    BY <1>2, <2>4, <2>5
  <2> QED
    BY <1>2, <2>2, <2>4, <2>5, <2>6, <2>7, OwnEnd DEF r
<1>6. CASE x > 0
  <2> DEFINE g == gused(e, x)
             s == SwapAndPack(g)
             q == initiate_get(s, got)
             p == initiate_put(q)
  <2>1. /\ g \in Connections /\ g.broken = e.broken
        /\ SamePlace(e, g) /\ SameBits(e, g) /\ SameTimer(e, g)
        /\ g.putBuffer = e.putBuffer /\ Len(g.getBuffer.bytes) = x
        /\ g.port = e.port /\ g.received = e.received
        /\ g.wire = e.wire /\ g.closed = e.closed
    <3>1. e.taken + x <= MaxBytes
      <4>1. /\ e.taken \in Nat /\ e.received \in Nat /\ e.received <= MaxBytes
            /\ MaxBytes \in Nat
        BY <1>1, Numbers, Bounds
      <4>2. x \in Nat
        BY <1>1, Ranges
      <4> QED
        BY <1>1, <4>1, <4>2, NoMore
    <3> QED
      BY <1>1, <3>1, BytesGot
  <2> HIDE DEF g
  <2>2. r = StopTimer(GotBytes(g, got)) /\ g.active = e.active
    BY <1>4, <1>6, <2>1 DEF g, SameBits
  <2>3. g.getBuffer.bytes # <<>>
    <3>1. Len(g.getBuffer.bytes) > 0
      BY <1>6, <2>1
    <3> QED
      BY <3>1, NotEmpty
  <2>4. Fine(g) /\ NotLate(g)
    <3>1. GoodNotes(g)
      BY <1>2, <2>1, NotesStay DEF Fine
    <3>2. g.timerReady = e.timerReady /\ g.state = e.state /\ g.socket = e.socket
      BY <2>1 DEF SameTimer, SamePlace
    <3> QED
      BY <1>2, <2>1, <2>2, <3>1, <3>2 DEF Fine, NotLate
  <2>5. CASE "PUT" \in e.active
    <3>1. r = StopTimer(g)
      BY <2>2, <2>5 DEF GotBytes
    <3>2. /\ Fine(r) /\ SameBuffers(g, r) /\ SameBytes(g, r)
          /\ r.active = g.active \ {"GTO"}
      BY <2>4, <3>1, StopFine
    <3>3. /\ r.putBuffer = g.putBuffer /\ r.getBuffer = g.getBuffer
          /\ r.wire = g.wire
      BY <3>2 DEF SameBuffers, SameBytes
    <3>4. r.active \subseteq {"GET", "GTO", "PUT"} /\ "PUT" \in r.active
      BY <1>1, <2>2, <2>5, <3>2
    <3>5. r.putBuffer.bytes # <<>>
      BY <1>2, <2>1, <2>5, <3>3
    <3> QED
      BY <1>2, <2>1, <2>3, <3>2, <3>3, <3>4, <3>5, OwnEnd DEF r
  <2>6. CASE "PUT" \notin e.active
    <3>1. /\ g.putBuffer.bytes = <<>> /\ "GET" \notin g.active
          /\ "PUT" \notin g.active /\ "PUT" \notin Kinds(g.port)
      BY <1>1, <2>1, <2>2, <2>6
    <3>2. /\ Fine(s) /\ SameBits(g, s) /\ SameTimer(g, s) /\ SameBytes(g, s)
          /\ s.getBuffer = NoBytes /\ s.putBuffer = g.getBuffer
      BY <2>4, <3>1, SwapFine
    <3> HIDE DEF s
    <3>3. /\ s.active = e.active /\ s.timerReady = g.timerReady
          /\ s.received = c.received /\ s.wire = g.wire
      BY <1>1, <2>1, <2>2, <3>2 DEF SameBits, SameTimer, SameBytes
    <3>4. /\ "GET" \notin s.active /\ "PUT" \notin s.active
          /\ Fits(s, got) /\ NotLate(s)
      BY <2>2, <2>4, <3>1, <3>3 DEF Fits, NotLate
    <3>5. /\ Fine(q) /\ "GET" \in q.active /\ "PUT" \notin q.active
          /\ q.active \subseteq s.active \cup {"GET", "GTO"}
          /\ q.putBuffer = s.putBuffer /\ q.wire = s.wire /\ NotLate(q)
      BY <3>2, <3>4, GetFine
    <3> HIDE DEF q
    <3>6. r = StopTimer(p)
      BY <2>2, <2>6, <3>1 DEF GotBytes, pdone, s, q
    <3>7. /\ Fine(p) /\ p.active = q.active \cup {"PUT"}
          /\ p.putBuffer = q.putBuffer /\ p.wire = q.wire
          /\ p.timerReady = q.timerReady
      BY <2>3, <3>2, <3>5, PutFine DEF SameTimer
    <3> HIDE DEF p
    <3>8. NotLate(p)
      BY <3>5, <3>7 DEF NotLate
    <3>9. /\ Fine(r) /\ SameBuffers(p, r) /\ SameBytes(p, r)
          /\ r.active = p.active \ {"GTO"}
      BY <3>6, <3>7, <3>8, StopFine
    <3>10. r.putBuffer = p.putBuffer /\ r.wire = p.wire
      BY <3>9 DEF SameBuffers, SameBytes
    <3>11. r.active \subseteq {"GET", "GTO", "PUT"} /\ "GET" \in r.active
      BY <1>1, <3>3, <3>5, <3>7, <3>9
    <3>12. r.putBuffer.bytes # <<>>
      BY <2>3, <3>2, <3>5, <3>7, <3>10
    <3>13. r.wire = c.wire
      BY <1>2, <2>1, <3>3, <3>5, <3>7, <3>10
    <3> QED
      BY <3>9, <3>11, <3>12, <3>13, OwnEnd DEF r
  <2> QED
    BY <2>5, <2>6
<1> QED
  BY <1>5, <1>6

LEMMA OwnPut ==
    ASSUME NEW c \in Connections, NEW d \in Connections, NEW n, NEW got, Sane(c),
           Own(c), c.state = "full_duplex", Dispatched(c, d, n), d.pool = c.pool,
           d.socket = c.socket, n.request = "PUT", Fits(c, got)
    PROVE  LET r == EndOf(complete_put(d, n, got)) IN
           Own(r) /\ r.wire = c.wire /\ r.state # "disconnected"
<1> DEFINE e == [d EXCEPT !.active = @ \ {"PUT"}]
           x == n.size
           u == [e EXCEPT !.putBuffer = pused(@, x)]
           f == PutBytes(u, got)
           r == complete_put(d, n, got)
<1>0. c.broken = "" /\ GoodNotes(c)
  BY DEF Own
<1>1. /\ "PUT" \in d.active /\ "PUT" \notin d.inflight
      /\ e \in Connections /\ "PUT" \notin Kinds(e.port)
      /\ e.active \subseteq {"GET", "GTO"}
      /\ e.received = c.received
      /\ Transferred(n) = x /\ x \in Nat
      /\ d.putBuffer = e.putBuffer
  <2>1. /\ "PUT" \in d.active /\ "PUT" \notin d.inflight
        /\ e \in Connections
        /\ PortInv(e) /\ BitInv(e) /\ BufferInv(e) /\ NoteInv(e) /\ TimerInv(e)
        /\ Len(e.wire) <= e.taken
        /\ \A i \in DOMAIN e.wire : e.wire[i] = i
        /\ Stream(e, x) /\ "PUT" \notin Kinds(e.port)
        /\ "NEW" \notin e.active \cup e.inflight \cup Kinds(e.port)
        /\ e.broken = "" /\ e.pool # "unused"
        /\ e.state = "full_duplex" /\ e.active \subseteq {"GET", "GTO"}
        /\ "GTO" \in e.active \cup Kinds(e.port) =>
              "GET" \in e.active /\ "GTO" \in e.active
        /\ e.received = c.received
        /\ Transferred(n) = x
        /\ x \in Nat /\ x <= Len(d.putBuffer.bytes)
        /\ d.putBuffer = e.putBuffer
    BY <1>0, PutTaken
  <2> HIDE DEF e, x
  <2> QED
    BY <2>1
<1>2. /\ Fine(e) /\ NotLate(e) /\ e.wire = c.wire
      /\ e.active = c.active \ {"PUT"}
      /\ "PUT" \in c.active => e.putBuffer.bytes # <<>>
      /\ "GET" \in c.active \/ e.getBuffer.bytes # <<>> \/ e.closed
  BY OwnTaken
<1>3. x = Len(e.putBuffer.bytes)
  <2>1. n.size = Len(d.putBuffer.bytes)
    BY <1>0, NotesLeft
  <2> QED
    BY <1>1, <2>1
<1>4. e.putBuffer.bytes # <<>>
  BY <1>1, <1>2 DEF Dispatched, SameBits
<1>5. x > 0
  <2>1. e.putBuffer.bytes \in Seq(Nat)
    BY <1>1, TypesOf
  <2>2. Len(e.putBuffer.bytes) # 0
    BY <1>4, <2>1, NoLength
  <2> QED
    BY <1>1, <1>3, <2>2
<1>a. Check(Check(d, "PUT" \in d.active, "complete_put"),
            "PUT" \notin d.inflight, "complete_put: not ready") = d
  BY <1>1 DEF Check
<1>b. Transferred(n) = x
  BY <1>1
<1>6. r = IF "DEL" \notin f.active /\ ~pdone(f.putBuffer) THEN initiate_put(f) ELSE f
  <2> DEFINE a == Check(Check(d, "PUT" \in d.active, "complete_put"),
                        "PUT" \notin d.inflight, "complete_put: not ready")
             g == [a EXCEPT !.active = @ \ {"PUT"}]
             y == Transferred(n)
             h == IF y > 0
                  THEN PutBytes([g EXCEPT !.putBuffer = pused(@, y)], got)
                  ELSE initiate_disconnection(g)
  <2>1. r = IF "DEL" \notin h.active /\ ~pdone(h.putBuffer)
            THEN initiate_put(h) ELSE h
    BY DEF complete_put
  <2>2. a = d
    BY <1>a
  <2> HIDE DEF a, r
  <2>3. g = e
    BY <2>2
  <2> HIDE DEF g, e, y, x
  <2>4. y = x
    BY <1>b DEF y
  <2>5. h = f
    BY <1>5, <2>3, <2>4
  <2> HIDE DEF h, f
  <2> QED
    BY <2>1, <2>5
<1> HIDE DEF e, r, x
<1>7. /\ u \in Connections /\ u.putBuffer.bytes = <<>>
      /\ u.active = e.active /\ u.getBuffer = e.getBuffer
      /\ u.port = e.port /\ u.state = e.state /\ u.socket = e.socket
      /\ u.broken = e.broken /\ u.received = e.received /\ u.closed = e.closed
      /\ u.wire = e.wire
  <2> DEFINE b == pused(e.putBuffer, x)
  <2>1. e.putBuffer \in Buffers
    BY <1>1, TypesOf
  <2>2. x <= Len(e.putBuffer.bytes)
    BY <1>1, <1>3
  <2>3. b \in Buffers /\ b.bytes = <<>>
    BY <1>1, <1>3, <2>1, <2>2, Advanced
  <2> HIDE DEF b
  <2>4. u = [e EXCEPT !.putBuffer = b]
    BY <1>1 DEF b, Connections
  <2> HIDE DEF u
  <2> QED
    BY <1>1, <2>3, <2>4 DEF Connections
<1> HIDE DEF u
<1>8. Fine(u)
  <2>1. GoodNotes(u)
    BY <1>1, <1>2, <1>7, NotesStay DEF Fine
  <2> QED
    BY <1>2, <1>7, <2>1 DEF Fine
<1>9. f = IF u.getBuffer.bytes # <<>> /\ "GET" \notin u.active
          THEN initiate_get(SwapAndPack(u), got) ELSE u
  BY <1>7 DEF PutBytes, pdone
<1>10. CASE u.getBuffer.bytes # <<>> /\ "GET" \notin u.active
  <2> DEFINE s == SwapAndPack(u)
             q == initiate_get(s, got)
             p == initiate_put(q)
  <2>1. /\ Fine(s) /\ SameBits(u, s) /\ SameBytes(u, s)
        /\ s.getBuffer = NoBytes /\ s.putBuffer = u.getBuffer
    BY <1>1, <1>7, <1>8, SwapFine
  <2> HIDE DEF s
  <2>2. s.active = e.active /\ s.received = c.received /\ s.wire = c.wire
    BY <1>1, <1>2, <1>7, <2>1 DEF SameBits, SameBytes
  <2>3. "GET" \notin s.active /\ s.active \subseteq {"GET", "GTO"} /\ Fits(s, got)
    BY <1>1, <1>7, <1>10, <2>2 DEF Fits
  <2>4. /\ Fine(q) /\ "GET" \in q.active
        /\ "PUT" \notin q.active /\ "DEL" \notin q.active
        /\ q.active \subseteq s.active \cup {"GET", "GTO"}
        /\ q.putBuffer = s.putBuffer /\ q.wire = s.wire
    BY <2>1, <2>3, GetFine
  <2> HIDE DEF q
  <2>5. f = q
    BY <1>9, <1>10 DEF q, s
  <2> HIDE DEF f
  <2>6. q.putBuffer.bytes # <<>>
    BY <1>10, <2>1, <2>4
  <2>7. r = p
    BY <1>6, <2>4, <2>5, <2>6 DEF pdone
  <2>8. /\ Fine(p) /\ p.active = q.active \cup {"PUT"}
        /\ p.putBuffer = q.putBuffer /\ p.wire = q.wire
    BY <2>4, <2>6, PutFine
  <2> HIDE DEF p
  <2>9. /\ p.active \subseteq {"GET", "GTO", "PUT"} /\ "GET" \in p.active
        /\ p.putBuffer.bytes # <<>> /\ p.wire = c.wire
    BY <2>2, <2>3, <2>4, <2>6, <2>8
  <2> QED
    BY <2>7, <2>8, <2>9, OwnEnd DEF r
<1>11. CASE ~(u.getBuffer.bytes # <<>> /\ "GET" \notin u.active)
  <2>1. f = u
    BY <1>9, <1>11
  <2> HIDE DEF f
  <2>2. r = u
    BY <1>6, <1>7, <2>1 DEF pdone
  <2>3. u.active \subseteq {"GET", "GTO", "PUT"} /\ "PUT" \notin u.active
    BY <1>1, <1>7
  <2>4. "GET" \in u.active \/ u.closed
    BY <1>2, <1>7, <1>11
  <2> QED
    BY <1>2, <1>7, <1>8, <2>2, <2>3, <2>4, OwnEnd DEF r
<1> QED
  BY <1>10, <1>11

LEMMA OwnFullDuplex ==
    ASSUME NEW c \in Connections, NEW d \in Connections, NEW n, NEW got, Sane(c),
           Own(c), c.state = "full_duplex", Dispatched(c, d, n), d.pool = c.pool,
           d.socket = c.socket, Fits(c, got)
    PROVE  LET r == full_duplex(d, n, got) IN
           Own(r) /\ r.wire = c.wire /\ r.state # "disconnected"
<1> DEFINE e == CASE n.request = "GTO" -> TimedOut(d)
                  [] n.request = "GET" -> complete_get(d, n, got)
                  [] n.request = "PUT" -> complete_put(d, n, got)
                  [] OTHER -> d
           r == full_duplex(d, n, got)
<1>1. FullDuplex(c) /\ BitInv(c)
  BY DEF Sane, StateInv
<1>2. /\ n.request \in Kinds(c.port) /\ n.request \in Bits
      /\ d.active = c.active
  BY DEF Dispatched, SameBits, Notification
<1>3. n.request \in {"GET", "PUT"}
  <2>1. n.request # "GTO"
    BY NotesLeft DEF Own
  <2> QED
    BY <1>1, <1>2, <2>1 DEF FullDuplex, BitInv, Bits
<1>4. Check(d, d.active \subseteq {"GET", "GTO", "PUT"}, "full_duplex") = d
  BY <1>1, <1>2 DEF Check, FullDuplex
<1>5. r = EndOf(e)
  BY <1>4 DEF full_duplex, EndOf
<1> HIDE DEF r
<1>7. CASE n.request = "GET"
  <2>1. e = complete_get(d, n, got)
    BY <1>7
  <2> HIDE DEF e
  <2> QED
    BY <1>5, <1>7, <2>1, OwnGet DEF r
<1>8. CASE n.request = "PUT"
  <2>1. e = complete_put(d, n, got)
    BY <1>8
  <2> HIDE DEF e
  <2> QED
    BY <1>5, <1>8, <2>1, OwnPut DEF r
<1> QED
  BY <1>3, <1>7, <1>8

LEMMA OwnDisconnected ==
    ASSUME NEW c \in Connections, NEW d \in Connections, NEW n, NEW got, Sane(c),
           Own(c), c.state = "disconnected", c.port # <<>>, Dispatched(c, d, n),
           d.socket = c.socket, Fits(c, got),
           d.pool = IF c.pool = "listen" THEN "active" ELSE c.pool
    PROVE  LET r == disconnected(d, n, got) IN
           Own(r) /\ r.wire = c.wire /\ r.state # "disconnected"
<1> DEFINE e == [d EXCEPT !.active = @ \ {"NEW"}]
           r == disconnected(d, n, got)
<1>0. c.broken = "" /\ GoodNotes(c)
  BY DEF Own
<1>1. /\ n.request = "NEW" /\ d.active = {"NEW"}
      /\ e \in Connections /\ Core(e)
      /\ e.active = {} /\ e.timer = "off" /\ Kinds(e.port) = {}
      /\ e.getBuffer = NoBytes /\ e.putBuffer = NoBytes
      /\ e.taken = 0 /\ e.received = c.received
      /\ n.size \in 0..MaxBytes /\ n.size <= BufferSize
      /\ e.taken + n.size <= e.received
  BY <1>0, AcceptTaken
<1>2. /\ e.broken = "" /\ e.socket = c.socket /\ e.wire = c.wire
      /\ e.closed = d.closed /\ e.port = d.port
  BY <1>0 DEF Dispatched, SameBytes, Connections
<1> HIDE DEF e
<1>3. r = IF n.bad THEN initiate_disconnection(e) ELSE Accepted(e, n, got)
  BY <1>1 DEF disconnected, Check, e
<1> HIDE DEF r
<1>4. ~n.bad /\ n.size > 0 /\ GoodNotes(d)
  BY <1>0, <1>1, NotesLeft
<1>5. c.socket = "connected"
  <2>1. "NEW" \in Kinds(c.port)
    BY <1>1 DEF Dispatched
  <2> QED
    BY <2>1 DEF Own, OwnStates
<1> DEFINE g == gused(e, n.size)
           s == SwapBuffers(g)
           t == [s EXCEPT !.state = "full_duplex"]
           q == initiate_get(t, got)
           p == initiate_put(q)
<1>6. /\ g \in Connections /\ g.broken = e.broken /\ g.socket = e.socket
      /\ g.active = e.active /\ g.putBuffer = NoBytes
      /\ Len(g.getBuffer.bytes) = n.size
      /\ g.port = e.port /\ g.received = e.received
      /\ g.wire = e.wire /\ g.closed = e.closed
  <2>1. e.taken + n.size <= MaxBytes
    <3>1. /\ e.taken \in Nat /\ e.received \in Nat /\ e.received <= MaxBytes
          /\ MaxBytes \in Nat
      BY <1>1, Numbers, Bounds
    <3>2. n.size \in Nat
      BY <1>1, Ranges
    <3> QED
      BY <1>1, <3>1, <3>2, NoMore
  <2> QED
    BY <1>1, <2>1, BytesGot DEF SamePlace, SameBits
<1> HIDE DEF g
<1>7. /\ t \in Connections /\ t.state = "full_duplex"
      /\ t.broken = g.broken /\ t.socket = g.socket /\ t.active = g.active
      /\ t.getBuffer = NoBytes /\ t.putBuffer = g.getBuffer
      /\ t.port = g.port /\ t.received = g.received
      /\ t.wire = g.wire /\ t.closed = g.closed
  BY <1>6 DEF SwapBuffers, Connections, States
<1> HIDE DEF t
<1>8. Fine(t)
  <2>1. t.port = d.port /\ t.closed = d.closed
    BY <1>2, <1>6, <1>7
  <2>2. "PUT" \notin Kinds(d.port)
    BY <1>1, <1>2
  <2>3. GoodNotes(t)
    BY <1>4, <1>7, <2>1, <2>2, NotesStay
  <2> QED
    BY <1>2, <1>5, <1>6, <1>7, <2>3 DEF Fine
<1>9. t.active = {} /\ Fits(t, got)
  BY <1>1, <1>6, <1>7 DEF Fits
<1>10. /\ Fine(q) /\ "GET" \in q.active /\ "PUT" \notin q.active
       /\ "DEL" \notin q.active
       /\ q.putBuffer = t.putBuffer /\ q.wire = t.wire
  BY <1>7, <1>8, <1>9, GetFine
<1> HIDE DEF q
<1>11. q.putBuffer.bytes # <<>>
  <2>1. Len(q.putBuffer.bytes) > 0
    BY <1>4, <1>6, <1>7, <1>10
  <2> QED
    BY <2>1, NotEmpty
<1>12. r = p
  BY <1>3, <1>4, <1>11 DEF Accepted, pdone, g, t, q
<1>13. /\ Fine(p) /\ p.active = q.active \cup {"PUT"}
       /\ p.putBuffer = q.putBuffer /\ p.wire = q.wire
  BY <1>10, <1>11, PutFine
<1> HIDE DEF p
<1>14. OwnStates(p) /\ p.wire = c.wire /\ p.state # "disconnected"
  BY <1>2, <1>6, <1>7, <1>10, <1>11, <1>13, ZenonT(60) DEF OwnStates, Fine
<1> QED
  BY <1>12, <1>13, <1>14 DEF Own, Fine, r

LEMMA OwnDisconnecting ==
    ASSUME NEW c \in Connections, NEW d \in Connections, NEW n, Sane(c), Own(c),
           c.state = "disconnecting", Dispatched(c, d, n), d.pool = c.pool,
           d.socket = c.socket
    PROVE  LET r == disconnecting(d, n) IN
           /\ r \in Connections /\ Own(r) /\ r.wire = c.wire
           /\ r.state = "disconnected" => r.active = {}
<1> DEFINE e == [d EXCEPT !.active = @ \ ({n.request} \ {"GET"})]
           r == disconnecting(d, n)
<1>1. /\ GoodNotes(c) /\ OwnStates(c) /\ c.broken = ""
      /\ n.request # "GTO" /\ GoodNotes(d)
  BY NotesLeft DEF Own
<1>2. /\ c.active = {"DEL"} /\ c.closed
      /\ "DEL" \notin c.inflight => c.socket = "idle"
  BY <1>1 DEF OwnStates
<1>3. /\ d.active = {"DEL"} /\ d.closed /\ d.broken = "" /\ d.inflight = c.inflight
      /\ d.wire = c.wire /\ d.state = "disconnecting"
      /\ n.request \notin c.inflight
  BY <1>1, <1>2 DEF Dispatched, SameBits, SameBytes
<1>4. Check(d, "GET" \notin d.active, "disconnecting") = d
  BY <1>3 DEF Check
<1>5. r = IF e.active \subseteq {"GET"} THEN [e EXCEPT !.state = "disconnected"] ELSE e
  BY <1>1, <1>4 DEF disconnecting
<1>6. /\ e \in Connections
      /\ e.active = {"DEL"} \ ({n.request} \ {"GET"})
      /\ e.port = d.port /\ e.closed = d.closed /\ e.putBuffer = d.putBuffer
      /\ e.socket = d.socket /\ e.state = d.state /\ e.broken = d.broken
      /\ e.wire = d.wire /\ e.inflight = d.inflight
  BY <1>3 DEF Connections
<1> HIDE DEF e, r
<1>7. GoodNotes(e)
  BY <1>1, <1>6, NotesStay
<1>8. CASE n.request = "DEL"
  <2>1. e.active = {}
    BY <1>6, <1>8
  <2>2. r = [e EXCEPT !.state = "disconnected"]
    BY <1>5, <2>1
  <2>3. /\ r \in Connections /\ r.state = "disconnected" /\ r.active = {}
        /\ r.port = e.port /\ r.closed = e.closed /\ r.putBuffer = e.putBuffer
        /\ r.socket = e.socket /\ r.broken = e.broken
        /\ r.wire = e.wire /\ r.inflight = e.inflight
    BY <1>6, <2>1, <2>2 DEF Connections, States
  <2>4. GoodNotes(r)
    BY <1>6, <1>7, <2>3, NotesStay
  <2>5. r.closed /\ r.socket = "idle"
    BY <1>2, <1>3, <1>6, <1>8, <2>3, ZenonT(60)
  <2>6. Good(r)
    BY <1>1, DisconnectingKept DEF r
  <2>7. r.broken = ""
    BY <1>3, <1>6, <2>3
  <2>8. "NEW" \notin r.inflight \cup Kinds(r.port)
    BY <2>3, <2>6, <2>7 DEF Good, Sane, StateInv, Disconnected
  <2>9. OwnStates(r)
    BY <2>3, <2>5, <2>8 DEF OwnStates
  <2> QED
    BY <1>3, <1>6, <2>3, <2>4, <2>7, <2>9 DEF Own, r
<1>9. CASE n.request # "DEL"
  <2>1. e.active = {"DEL"}
    BY <1>6, <1>9
  <2>2. r = e
    BY <1>5, <2>1
  <2>3. OwnStates(e)
    BY <1>2, <1>3, <1>6, <2>1 DEF OwnStates
  <2> QED
    BY <1>3, <1>6, <1>7, <2>2, <2>3 DEF Own, r
<1> QED
  BY <1>8, <1>9

LEMMA OwnMove ==
    ASSUME NEW c \in Connections, Own(c)
    PROVE  LET d == Move(c, "active", "unused") IN
           /\ Own(d) /\ d.wire = c.wire
           /\ d.state = c.state /\ d.active = c.active
<1> DEFINE d == Move(c, "active", "unused")
<1>1. d = c \/ d = [c EXCEPT !.pool = "unused"]
  BY DEF Move
<1> HIDE DEF d
<1>2. /\ d \in Connections
      /\ d.state = c.state /\ d.active = c.active /\ d.inflight = c.inflight
      /\ d.port = c.port /\ d.closed = c.closed /\ d.socket = c.socket
      /\ d.putBuffer = c.putBuffer /\ d.getBuffer = c.getBuffer
      /\ d.received = c.received /\ d.broken = c.broken /\ d.wire = c.wire
  BY <1>1 DEF Connections, Pools
<1>3. GoodNotes(d)
  BY <1>2, NotesStay DEF Own
<1>4. OwnStates(d)
  BY <1>2 DEF Own, OwnStates
<1> QED
  BY <1>2, <1>3, <1>4 DEF Own, d

LEMMA OwnNotify ==
    ASSUME EchoInv, Own(conn), Notify
    PROVE  /\ Own(conn') /\ conn'.wire = conn.wire
           /\ "NEW" \notin conn.inflight \cup conn'.inflight
<1>1. /\ conn \in Connections /\ Sane(conn) /\ conn.broken = ""
      /\ conn.port # <<>>
  BY DEF EchoInv, Notify, Running
<1> DEFINE n == Head(conn.port)
           c == [conn EXCEPT !.port = Tail(@)]
           d == IF c.state = "disconnected" THEN Move(c, "listen", "active") ELSE c
<1>2. PICK got \in {NotYet} \cup 0..(MaxBytes - conn.received) :
          LET e == process_notification(d, n, got) IN
          /\ got # NotYet => got <= BufferSize /\ (conn.closed => got = 0)
          /\ conn' = IF e.state = "disconnected"
                     THEN Move(e, "active", "unused") ELSE e
  BY DEF Notify
<1> DEFINE e == process_notification(d, n, got)
<1>3. conn' = IF e.state = "disconnected" THEN Move(e, "active", "unused") ELSE e
  BY <1>2
<1>4. Fits(conn, got)
  <2>1. conn.received \in Nat /\ conn.received <= MaxBytes /\ MaxBytes \in Nat
    BY <1>1, Numbers, Bounds
  <2>2. \A k \in 0..(MaxBytes - conn.received) :
            k \in 0..MaxBytes /\ conn.received + k <= MaxBytes
    BY <2>1
  <2>3. got # NotYet => got \in 0..(MaxBytes - conn.received) /\ got <= BufferSize
    BY <1>2
  <2> QED
    BY <2>2, <2>3 DEF Fits
<1>5. /\ d \in Connections /\ Dispatched(conn, d, n)
      /\ d.pool = IF conn.state = "disconnected" /\ conn.pool = "listen"
                  THEN "active" ELSE conn.pool
  BY <1>1, Delivered
<1>6. d.socket = conn.socket
  <2>1. c.socket = conn.socket
    BY <1>1 DEF Connections
  <2>2. c \in Connections
    BY <1>1, Dispatching
  <2> HIDE DEF c
  <2> QED
    BY <2>1, <2>2 DEF Move, Connections
<1> HIDE DEF c, d, n
<1>7. d.state = conn.state /\ d.active = conn.active
  BY <1>5 DEF Dispatched, SameBits
<1>8. /\ conn.state \in {"disconnected", "disconnecting", "full_duplex"}
      /\ StateInv(conn)
  BY <1>1 DEF Sane, StateInv, Connections, States
<1>9. Check(d, d.active # {}, "process_notification") = d
  <2>1. d.active # {}
    BY <1>1, <1>4, <1>5, HasActive
  <2> QED
    BY <2>1 DEF Check
<1>10. /\ Own(e) /\ e.wire = conn.wire
       /\ e.state = "disconnected" => e \in Connections /\ e.active = {}
  <2>1. CASE conn.state = "disconnected"
    <3>1. d.pool = IF conn.pool = "listen" THEN "active" ELSE conn.pool
      BY <1>5, <2>1
    <3>2. e = disconnected(d, n, got)
      BY <1>7, <1>9, <2>1 DEF process_notification
    <3> HIDE DEF e
    <3>3. LET r == disconnected(d, n, got) IN
          Own(r) /\ r.wire = conn.wire /\ r.state # "disconnected"
      <4>1. /\ conn \in Connections /\ Sane(conn) /\ Own(conn)
            /\ conn.port # <<>> /\ d \in Connections
        BY <1>1, <1>5
      <4>2. Dispatched(conn, d, n)
        BY <1>5
      <4> QED
        BY <1>4, <1>6, <2>1, <3>1, <4>1, <4>2, OwnDisconnected, SMTT(30)
    <3> QED
      BY <3>2, <3>3
  <2>2. CASE conn.state = "full_duplex"
    <3>1. e = full_duplex(d, n, got)
      BY <1>7, <1>9, <2>2 DEF process_notification
    <3> HIDE DEF e
    <3>2. d.pool = conn.pool
      BY <1>5, <2>2
    <3>3. LET r == full_duplex(d, n, got) IN
          Own(r) /\ r.wire = conn.wire /\ r.state # "disconnected"
      <4>1. conn \in Connections /\ Sane(conn) /\ d \in Connections
        BY <1>1, <1>5
      <4>2. Dispatched(conn, d, n)
        BY <1>5
      <4> QED
        BY <1>4, <1>6, <2>2, <3>2, <4>1, <4>2, OwnFullDuplex, SMTT(30)
    <3> QED
      BY <3>1, <3>3
  <2>3. CASE conn.state = "disconnecting"
    <3>1. e = disconnecting(d, n)
      BY <1>7, <1>9, <2>3 DEF process_notification
    <3> HIDE DEF e
    <3>2. d.pool = conn.pool
      BY <1>5, <2>3
    <3> QED
      BY <1>1, <1>5, <1>6, <2>3, <3>1, <3>2, OwnDisconnecting, ZenonT(60)
  <2> QED
    BY <1>8, <2>1, <2>2, <2>3
<1> HIDE DEF e
<1>11. /\ Own(conn') /\ conn'.wire = conn.wire
       /\ conn'.state = "disconnected" => conn'.active = {}
  <2>1. CASE e.state = "disconnected"
    <3> DEFINE m == Move(e, "active", "unused")
    <3>1. conn' = m
      BY <1>3, <2>1
    <3>2. Own(m) /\ m.wire = e.wire /\ m.state = e.state /\ m.active = e.active
      BY <1>10, <2>1, OwnMove
    <3> HIDE DEF m
    <3> QED
      BY <1>10, <2>1, <3>1, <3>2
  <2>2. CASE e.state # "disconnected"
    BY <1>3, <1>10, <2>2
  <2> QED
    BY <2>1, <2>2
<1>12. "NEW" \notin conn.inflight
  <2>1. CASE conn.state = "disconnected"
    <3>1. conn.port \in Seq(Notification)
      BY <1>1, PortIs
    <3>2. Kinds(conn.port) # {}
      BY <1>1, <3>1, KindsOf
    <3> QED
      BY <1>1, <2>1, <3>2 DEF Sane, StateInv, Disconnected, PortInv
  <2>2. CASE conn.state # "disconnected"
    BY <1>8, <2>2 DEF StateInv, FullDuplex, Disconnecting
  <2> QED
    BY <2>1, <2>2
<1>13. "NEW" \notin conn'.inflight
  <2>1. EchoInv'
    BY NotifyKept
  <2>2. conn'.broken = ""
    BY <1>11 DEF Own
  <2>3. conn' \in Connections /\ StateInv(conn')
    BY <2>1, <2>2 DEF EchoInv, Running, Sane
  <2>4. CASE conn'.state = "disconnected"
    BY <1>11, <2>3, <2>4 DEF StateInv, Disconnected
  <2>5. CASE conn'.state # "disconnected"
    BY <2>3, <2>5 DEF StateInv, FullDuplex, Disconnecting, Connections, States
  <2> QED
    BY <2>4, <2>5
<1> QED
  BY <1>11, <1>12, <1>13

----------------------------------------------------------------------------
(* What the network gives the server is something EchoConnection allows.   *)

LEMMA ServerSteps == [ClientNext]_vars => [Next]_conn
<1>1. Client => UNCHANGED conn
  BY DEF Client, ClientConnect, ClientPut, ClientPutReturns, ClientGet, ClientCompares
<1>2. Server => Next
  <2>1. ServerConnect => Connect
    BY DEF ServerConnect
  <2>2. ServerAccepts => StartAccept
    BY DEF ServerAccepts
  <2>3. ServerNotify => Notify
    BY DEF ServerNotify
  <2>4. ServerAccepted => CompleteAccept
    BY DEF ServerAccepted
  <2>5. ServerGets => CompleteGet
    BY DEF ServerGets
  <2>6. ServerPuts => CompletePut
    BY DEF ServerPuts
  <2>7. ServerDisconnects => CompleteDisconnect
    BY DEF ServerDisconnects
  <2> QED
    BY <2>1, <2>2, <2>3, <2>4, <2>5, <2>6, <2>7 DEF Server, Next, Kernel
<1> QED
  BY <1>1, <1>2 DEF ClientNext, vars

----------------------------------------------------------------------------
(* The steps of the client and of the network, while no put was refused.   *)

StreamType == [sent : 0..size, got : 0..size, gone : {"", "fin", "rst"}]

LEMMA RoundsAre == Iterations \in Nat /\ 1 <= Iterations
BY ClientAssumption DEF ClientAssumption

LEMMA StreamsAre ==
    ASSUME ClientTypes
    PROVE  /\ client.round \in 1..Iterations /\ client.round \in Nat
           /\ served \in Nat /\ served <= Iterations
           /\ streams \in [1..Iterations -> StreamType]
           /\ Mine \in StreamType
           /\ Mine.sent \in Nat /\ Mine.got \in Nat
           /\ Mine.sent <= size /\ Mine.got <= size /\ size \in Nat
<1>1. client.round \in 1..Iterations /\ streams \in [1..Iterations -> StreamType]
      /\ served \in 0..Iterations
  BY DEF ClientTypes, StreamType
<1>2. client.round \in Nat /\ served \in Nat /\ served <= Iterations
  BY <1>1, RoundsAre
<1>3. Mine \in StreamType
  BY <1>1 DEF Mine
<1>4. Mine.sent \in 0..size /\ Mine.got \in 0..size
  BY <1>3 DEF StreamType
<1>5. size \in Nat
  BY Bounds DEF size
<1> HIDE DEF size
<1>6. Mine.sent \in Nat /\ Mine.got \in Nat /\ Mine.sent <= size /\ Mine.got <= size
  BY <1>4, <1>5
<1> QED
  BY <1>1, <1>2, <1>3, <1>5, <1>6

LEMMA ServedIs == ClientTypes /\ served > 0 => served \in 1..Iterations
<1> SUFFICES ASSUME ClientTypes, served > 0 PROVE served \in 1..Iterations
  OBVIOUS
<1>1. served \in 0..Iterations
  BY DEF ClientTypes
<1> QED
  BY <1>1, RoundsAre

Settled == OwnInv /\ client.error = ""
SettledKept ==
    /\ ClientTypes'
    /\ client'.error = "" => RoundInv' /\ ServedInv' /\ Own(conn')

LEMMA SettledIs ==
    ASSUME Settled
    PROVE  /\ EchoInv /\ conn \in Connections /\ Sane(conn) /\ conn.broken = ""
           /\ ClientTypes /\ RoundInv /\ ServedInv /\ Own(conn)
BY DEF Settled, OwnInv, Own, EchoInv, Running

LEMMA WireIs ==
    ASSUME Settled
    PROVE  /\ Len(conn.wire) \in Nat /\ Len(conn.wire) <= size
           /\ \A i \in 1..Len(conn.wire) : conn.wire[i] = i
<1>1. conn \in Connections /\ StreamInv(conn) /\ NoteInv(conn)
  BY SettledIs DEF Sane
<1>2. /\ Len(conn.wire) \in Nat /\ conn.taken \in Nat /\ conn.received \in Nat
      /\ conn.received <= MaxBytes /\ conn.wire \in Seq(Nat)
  BY <1>1, TypesOf
<1>3. Len(conn.wire) <= conn.taken /\ conn.taken <= conn.received
  BY <1>1 DEF StreamInv, NoteInv
<1>4. \A i \in DOMAIN conn.wire : conn.wire[i] = i
  BY <1>1 DEF StreamInv
<1>5. MaxBytes \in Nat
  BY Bounds
<1>6. DOMAIN conn.wire = 1..Len(conn.wire)
  BY <1>2
<1> QED
  BY <1>2, <1>3, <1>4, <1>5, <1>6 DEF size

(* Only this iteration's stream changes.                                   *)
LEMMA MineChanges ==
    ASSUME ClientTypes, NEW s \in StreamType,
           streams' = [streams EXCEPT ![client.round] = s]
    PROVE  /\ streams' \in [1..Iterations -> StreamType]
           /\ streams'[client.round] = s
           /\ \A i \in 1..Iterations : i # client.round => streams'[i] = streams[i]
BY StreamsAre

LEMMA ConnectSettled == Settled /\ ClientConnect => SettledKept
<1> SUFFICES ASSUME Settled, ClientConnect PROVE SettledKept
  OBVIOUS
<1>1. /\ ClientTypes /\ RoundInv /\ ServedInv /\ Own(conn)
      /\ client.error = ""
  BY SettledIs DEF Settled
<1>2. /\ client.at = "connect" /\ client' = [client EXCEPT !.at = "put"]
      /\ conn' = conn /\ streams' = streams /\ served' = served
  BY DEF ClientConnect
<1>3. /\ client'.at = "put" /\ client'.round = client.round /\ client'.error = ""
      /\ ClientTypes'
  <2>1. client \in [at : {"connect", "put", "get", "exited"},
                    round : 1..Iterations, error : {"", Refused}]
    BY <1>1 DEF ClientTypes
  <2>2. /\ client' \in [at : {"connect", "put", "get", "exited"},
                         round : 1..Iterations, error : {"", Refused}]
        /\ client'.at = "put" /\ client'.round = client.round
        /\ client'.error = client.error
    BY <1>2, <2>1
  <2> QED
    BY <1>1, <1>2, <2>2 DEF ClientTypes
<1>4. RoundInv'
  <2>1. Mine' = Mine
    BY <1>2, <1>3 DEF Mine
  <2>2. Mine = NewStream
    BY <1>1, <1>2 DEF RoundInv
  <2>3. Mine'.got = 0 /\ Mine'.gone = ""
    BY <2>1, <2>2 DEF NewStream
  <2> QED
    BY <1>1, <1>2, <1>3, <2>3 DEF RoundInv
<1>5. ServedInv'
  BY <1>1, <1>2, <1>3 DEF ServedInv, Waiting, Served, Mine, Theirs
<1> QED
  BY <1>1, <1>2, <1>3, <1>4, <1>5 DEF SettledKept

LEMMA PutSettled == Settled /\ ClientPut => SettledKept
<1> SUFFICES ASSUME Settled, ClientPut PROVE SettledKept
  OBVIOUS
<1>1. /\ ClientTypes /\ RoundInv /\ ServedInv /\ Own(conn)
      /\ client.error = "" /\ conn \in Connections
  BY SettledIs DEF Settled
<1>2. PICK n \in 1..(size - Mine.sent) :
          streams' = [streams EXCEPT ![client.round].sent = @ + n]
  BY DEF ClientPut
<1>3. /\ client.at = "put" /\ client' = client /\ conn' = conn /\ served' = served
  BY DEF ClientPut
<1> DEFINE s == [Mine EXCEPT !.sent = @ + n]
<1>4. /\ client.round \in 1..Iterations
      /\ streams \in [1..Iterations -> StreamType]
      /\ Mine \in StreamType
      /\ Mine.sent \in Nat /\ Mine.sent <= size /\ size \in Nat
      /\ served \in Nat /\ served <= Iterations
  BY <1>1, StreamsAre
<1>5. Mine.sent + n \in 0..size /\ Mine.sent <= Mine.sent + n /\ n \in Nat
  BY <1>4
<1>6. /\ s \in StreamType /\ s.sent = Mine.sent + n
      /\ s.got = Mine.got /\ s.gone = Mine.gone
  BY <1>4, <1>5 DEF StreamType
<1>7. streams' = [streams EXCEPT ![client.round] = s]
  BY <1>2 DEF Mine
<1> HIDE DEF s
<1>8. /\ streams' \in [1..Iterations -> StreamType]
      /\ streams'[client.round] = s
      /\ \A i \in 1..Iterations : i # client.round => streams'[i] = streams[i]
  BY <1>1, <1>6, <1>7, MineChanges
<1>9. ClientTypes'
  BY <1>1, <1>3, <1>8 DEF ClientTypes, StreamType
<1>10. RoundInv'
  <2>1. Mine' = s
    BY <1>3, <1>8 DEF Mine
  <2>2. \A i \in 1..Iterations :
            i < client.round \/ i > client.round => i # client.round
    BY <1>4
  <2>3. Mine.got = 0 /\ Mine.gone = ""
    BY <1>1, <1>3 DEF RoundInv
  <2> QED
    BY <1>1, <1>3, <1>6, <1>8, <2>1, <2>2, <2>3 DEF RoundInv
<1>11. ServedInv'
  <2>1. Mine' = s
    BY <1>3, <1>8 DEF Mine
  <2>2. ~Served => Mine'.got = 0
    BY <1>1, <1>6, <2>1 DEF ServedInv
  <2>3. ASSUME ~Waiting
        PROVE  /\ served > 0 /\ streams'[served].got <= Len(conn.wire)
               /\ conn.received <= streams'[served].sent
               /\ conn.closed => streams'[served].gone # ""
    <3>1. /\ served > 0 /\ streams[served].got <= Len(conn.wire)
          /\ conn.received <= streams[served].sent
          /\ conn.closed => streams[served].gone # ""
      BY <1>1, <2>3 DEF ServedInv, Theirs
    <3>2. CASE served = client.round
      <4>1. conn.received \in Nat
        BY <1>1, Numbers
      <4>3. streams'[served] = s /\ streams[served] = Mine
        BY <1>8, <3>2 DEF Mine
      <4>2. conn.received <= Mine.sent + n
        <5>1. conn.received <= Mine.sent
          BY <3>1, <4>3
        <5> HIDE DEF Mine, size
        <5> QED
          BY <1>4, <1>5, <4>1, <5>1
      <4> HIDE DEF Mine
      <4> QED
        BY <1>6, <3>1, <4>2, <4>3
    <3>3. CASE served # client.round
      <4>1. served \in 1..Iterations
        BY <1>1, <3>1, ServedIs
      <4> QED
        BY <1>8, <3>1, <3>3, <4>1
    <3> QED
      BY <3>2, <3>3
  <2> QED
    BY <1>1, <1>3, <2>2, <2>3 DEF ServedInv, Waiting, Served, Theirs
<1> QED
  BY <1>1, <1>3, <1>9, <1>10, <1>11 DEF SettledKept

LEMMA LeavesIs ==
    ASSUME ClientTypes, NEW r \in Nat, NEW error
    PROVE  Leave(r, error) =
               [at |-> IF error # "" \/ r > Iterations THEN "exited" ELSE "connect",
                round |-> IF r > Iterations THEN client.round ELSE r,
                error |-> error]
<1> DEFINE at == IF error # "" \/ r > Iterations THEN "exited" ELSE "connect"
           round == IF r > Iterations THEN client.round ELSE r
<1>1. client \in [at : {"connect", "put", "get", "exited"},
                  round : 1..Iterations, error : {"", Refused}]
  BY DEF ClientTypes
<1>2. Leave(r, error) = [client EXCEPT !.at = at, !.round = round, !.error = error]
  BY <1>1 DEF Leave
<1> HIDE DEF at, round
<1>3. Leave(r, error) = [at |-> at, round |-> round, error |-> error]
  BY <1>1, <1>2
<1> QED
  BY <1>3 DEF at, round

LEMMA PutReturnsSettled == Settled /\ ClientPutReturns => SettledKept
<1> SUFFICES ASSUME Settled, ClientPutReturns PROVE SettledKept
  OBVIOUS
<1>1. /\ ClientTypes /\ RoundInv /\ ServedInv /\ Own(conn)
      /\ client.error = "" /\ conn \in Connections
  BY SettledIs DEF Settled
<1>2. /\ client.at = "put" /\ Mine.sent > 0
      /\ conn' = conn /\ served' = served
  BY DEF ClientPutReturns
<1>3. /\ client.round \in 1..Iterations /\ client.round \in Nat
      /\ Mine \in StreamType /\ Mine.sent \in Nat
  BY <1>1, StreamsAre
<1>4. CASE Mine.sent = size
  <2>1. client' = [client EXCEPT !.at = "get"] /\ streams' = streams
    BY <1>4 DEF ClientPutReturns
  <2>2. /\ client'.at = "get" /\ client'.round = client.round /\ client'.error = ""
        /\ ClientTypes'
    <3>1. client \in [at : {"connect", "put", "get", "exited"},
                      round : 1..Iterations, error : {"", Refused}]
      BY <1>1 DEF ClientTypes
    <3>2. /\ client' \in [at : {"connect", "put", "get", "exited"},
                           round : 1..Iterations, error : {"", Refused}]
          /\ client'.at = "get" /\ client'.round = client.round
          /\ client'.error = client.error
      BY <2>1, <3>1
    <3> QED
      BY <1>1, <1>2, <2>1, <3>2 DEF ClientTypes
  <2>3. Mine' = Mine
    BY <2>1, <2>2 DEF Mine
  <2>4. RoundInv'
    <3>1. Mine.sent = size /\ size > 0 /\ Mine.gone = ""
      BY <1>1, <1>2, <1>4 DEF RoundInv
    <3> QED
      BY <1>1, <2>1, <2>2, <2>3, <3>1 DEF RoundInv
  <2>5. ServedInv'
    BY <1>1, <1>2, <2>1, <2>2, <2>3 DEF ServedInv, Waiting, Served, Theirs
  <2> QED
    BY <1>1, <1>2, <2>2, <2>4, <2>5 DEF SettledKept
<1>5. CASE Mine.sent # size
  <2>1. PICK gone \in {"fin", "rst"} :
            streams' = [streams EXCEPT ![client.round].gone = gone]
    BY <1>5 DEF ClientPutReturns
  <2>2. client' = Leave(client.round, Refused)
    BY <1>5 DEF ClientPutReturns, Refused
  <2>3. ~(client.round > Iterations) /\ Refused # ""
    BY <1>3, RoundsAre DEF Refused
  <2>4. client'.error = Refused /\ client'.at = "exited" /\ client'.round = client.round
        /\ client' = [at |-> client'.at, round |-> client'.round,
                      error |-> client'.error]
    <3>1. client' = [at |-> IF Refused # "" \/ client.round > Iterations
                            THEN "exited" ELSE "connect",
                     round |-> IF client.round > Iterations THEN client.round
                               ELSE client.round,
                     error |-> Refused]
      BY <1>1, <1>3, <2>2, LeavesIs
    <3> QED
      BY <2>3, <3>1
  <2> DEFINE s == [Mine EXCEPT !.gone = gone]
  <2>5. s \in StreamType /\ streams' = [streams EXCEPT ![client.round] = s]
    BY <1>3, <2>1 DEF Mine, StreamType
  <2> HIDE DEF s
  <2>6. streams' \in [1..Iterations -> StreamType]
    BY <1>1, <2>5, MineChanges
  <2>7. ClientTypes'
    BY <1>1, <1>2, <1>3, <2>4, <2>6 DEF ClientTypes, StreamType
  <2> QED
    BY <2>3, <2>4, <2>7 DEF SettledKept
<1> QED
  BY <1>4, <1>5

LEMMA GetSettled == Settled /\ ClientGet => SettledKept
<1> SUFFICES ASSUME Settled, ClientGet PROVE SettledKept
  OBVIOUS
<1>1. /\ ClientTypes /\ RoundInv /\ ServedInv /\ Own(conn)
      /\ client.error = "" /\ conn \in Connections
  BY SettledIs DEF Settled
<1>2. PICK n \in 1..ToClient :
          streams' = [streams EXCEPT ![client.round].got = @ + n]
  BY DEF ClientGet
<1>3. /\ client.at = "get" /\ client' = client /\ conn' = conn /\ served' = served
  BY DEF ClientGet
<1>4. /\ client.round \in 1..Iterations
      /\ Mine \in StreamType
      /\ Mine.got \in Nat /\ size \in Nat
  BY <1>1, StreamsAre
<1>5. Len(conn.wire) \in Nat /\ Len(conn.wire) <= size
  BY WireIs
<1>6. Served /\ Mine.got + n \in 0..size /\ Mine.got + n <= Len(conn.wire)
  <2>1. CASE ~Served
    <3>1. ToClient = 0
      BY <2>1 DEF ToClient
    <3> HIDE DEF ToClient
    <3>2. n \in 1..0
      BY <3>1
    <3> QED
      BY <3>2
  <2>2. CASE Served
    <3>1. ToClient = Len(conn.wire) - Mine.got
      BY <2>2 DEF ToClient
    <3>2. n \in 1..(Len(conn.wire) - Mine.got)
      BY <3>1
    <3> HIDE DEF ToClient, Mine, size
    <3> QED
      BY <1>4, <1>5, <2>2, <3>2
  <2> QED
    BY <2>1, <2>2
<1> DEFINE s == [Mine EXCEPT !.got = @ + n]
<1>7. /\ s \in StreamType /\ s.got = Mine.got + n
      /\ s.sent = Mine.sent /\ s.gone = Mine.gone
  BY <1>4, <1>6 DEF StreamType
<1>8. streams' = [streams EXCEPT ![client.round] = s]
  BY <1>2 DEF Mine
<1> HIDE DEF s
<1>9. /\ streams' \in [1..Iterations -> StreamType]
      /\ streams'[client.round] = s
      /\ \A i \in 1..Iterations : i # client.round => streams'[i] = streams[i]
  BY <1>1, <1>7, <1>8, MineChanges
<1>10. ClientTypes'
  BY <1>1, <1>3, <1>9 DEF ClientTypes, StreamType
<1>11. Mine' = s
  BY <1>3, <1>9 DEF Mine
<1>12. RoundInv'
  <2>1. \A i \in 1..Iterations :
            i < client.round \/ i > client.round => i # client.round
    BY <1>4
  <2>2. Mine.sent = size /\ size > 0 /\ Mine.gone = ""
    BY <1>1, <1>3 DEF RoundInv
  <2> QED
    BY <1>1, <1>3, <1>7, <1>9, <1>11, <2>1, <2>2 DEF RoundInv
<1>13. ServedInv'
  <2>1. Served /\ Served' /\ Theirs' = s /\ Theirs = Mine
    BY <1>3, <1>6, <1>9 DEF Served, Theirs, Mine
  <2>2. Theirs'.got <= Len(conn.wire)
    BY <1>6, <1>7, <2>1
  <2>3. Theirs'.sent = Theirs.sent /\ Theirs'.gone = Theirs.gone
    BY <1>7, <2>1
  <2> QED
    BY <1>1, <1>3, <2>1, <2>2, <2>3 DEF ServedInv, Waiting
<1> QED
  BY <1>1, <1>3, <1>10, <1>12, <1>13 DEF SettledKept

(* The client gets its copy: the server does not disconnect before.        *)
LEMMA NeverGone ==
    ASSUME Settled, client.at = "get", Served
    PROVE  conn.socket # "idle"
<1> SUFFICES ASSUME conn.socket = "idle" PROVE FALSE
  OBVIOUS
<1>1. /\ RoundInv /\ ServedInv /\ OwnStates(conn)
      /\ conn \in Connections /\ StateInv(conn)
  BY SettledIs DEF Own, Sane
<1>2. ~Waiting
  BY <1>1 DEF ServedInv
<1>3. "NEW" \notin conn.inflight
  BY <1>2 DEF Waiting
<1>4. conn.closed
  <2>1. conn.state \in {"disconnected", "disconnecting", "full_duplex"}
    BY <1>1 DEF StateInv, Connections, States
  <2>2. CASE conn.state = "disconnected"
    <3>1. conn.active = {}
      BY <1>1, <1>3, <2>2 DEF StateInv, Disconnected, OwnStates
    <3> QED
      BY <1>1, <2>2, <3>1 DEF OwnStates
  <2>3. CASE conn.state = "disconnecting"
    BY <1>1, <2>3 DEF OwnStates
  <2>4. CASE conn.state = "full_duplex"
    BY <1>1, <2>4 DEF OwnStates
  <2> QED
    BY <2>1, <2>2, <2>3, <2>4
<1>5. Mine.gone # ""
  BY <1>1, <1>2, <1>4 DEF ServedInv, Served, Theirs, Mine
<1> QED
  BY <1>1, <1>5 DEF RoundInv

LEMMA ComparesSettled == Settled /\ ClientCompares => SettledKept
<1> SUFFICES ASSUME Settled, ClientCompares PROVE SettledKept
  OBVIOUS
<1>1. /\ ClientTypes /\ RoundInv /\ ServedInv /\ Own(conn)
      /\ client.error = "" /\ conn \in Connections
  BY SettledIs DEF Settled
<1>2. client.at = "get" /\ conn' = conn /\ served' = served
  BY DEF ClientCompares
<1>3. /\ client.round \in 1..Iterations /\ client.round \in Nat
      /\ Mine \in StreamType
      /\ Mine.got \in Nat /\ size \in Nat
  BY <1>1, StreamsAre
<1>4. Mine.got = size
  <2>1. Mine.got = size \/ (Served /\ conn.socket = "idle")
    BY DEF ClientCompares
  <2> QED
    BY <1>2, <2>1, NeverGone
<1>5. Mine.sent = size /\ size > 0
  BY <1>1, <1>2 DEF RoundInv
<1>6. Served
  <2>1. Mine.got # 0
    BY <1>3, <1>4, <1>5
  <2> QED
    BY <1>1, <2>1 DEF ServedInv
<1>7. \A i \in 1..size : conn.wire[i] = i
  <2>1. Mine.got <= Len(conn.wire)
    <3>1. ~Waiting
      BY <1>1, <1>6 DEF ServedInv
    <3> QED
      BY <1>1, <1>6, <3>1 DEF ServedInv, Served, Theirs, Mine
  <2>2. /\ Len(conn.wire) \in Nat
        /\ \A i \in 1..Len(conn.wire) : conn.wire[i] = i
    BY WireIs
  <2> HIDE DEF size, Mine
  <2>3. \A i \in 1..size : i \in 1..Len(conn.wire)
    BY <1>3, <1>4, <2>1, <2>2
  <2> QED
    BY <2>2, <2>3
<1>8. /\ client' = Leave(client.round + 1, "")
      /\ streams' = [streams EXCEPT ![client.round].gone = "rst"]
  <2> DEFINE error == IF Mine.got < size THEN "could not read everything."
                      ELSE IF \E i \in 1..size : conn.wire[i] # i
                           THEN "received incoherent data." ELSE ""
  <2>1. ~(Mine.got < size)
    BY <1>3, <1>4
  <2>2. error = ""
    BY <1>7, <2>1
  <2>3. /\ client' = Leave(client.round + 1, error)
        /\ streams' = [streams EXCEPT ![client.round].gone =
                           IF error = "" THEN "rst" ELSE "fin"]
    BY DEF ClientCompares
  <2> HIDE DEF error
  <2> QED
    BY <2>2, <2>3
<1> DEFINE s == [Mine EXCEPT !.gone = "rst"]
<1>9. /\ s \in StreamType /\ s.got = Mine.got /\ s.sent = Mine.sent
      /\ s.gone = "rst" /\ Complete(s)
  BY <1>3, <1>4, <1>5 DEF StreamType, Complete
<1>10. streams' = [streams EXCEPT ![client.round] = s]
  BY <1>8 DEF Mine
<1> HIDE DEF s
<1>11. /\ streams' \in [1..Iterations -> StreamType]
       /\ streams'[client.round] = s
       /\ \A i \in 1..Iterations : i # client.round => streams'[i] = streams[i]
  BY <1>1, <1>9, <1>10, MineChanges
<1> DEFINE next == client.round + 1
<1>12. next \in Nat
  BY <1>3
<1>13. /\ client'.error = ""
       /\ client'.at = IF next > Iterations THEN "exited" ELSE "connect"
       /\ client'.round = IF next > Iterations THEN client.round ELSE next
       /\ client' = [at |-> client'.at, round |-> client'.round,
                     error |-> client'.error]
  <2>1. client' = Leave(next, "")
    BY <1>8
  <2> HIDE DEF next
  <2>2. client' = [at |-> IF "" # "" \/ next > Iterations
                          THEN "exited" ELSE "connect",
                   round |-> IF next > Iterations THEN client.round ELSE next,
                   error |-> ""]
    BY <1>1, <1>12, <2>1, LeavesIs
  <2> QED
    BY <2>2
<1>14. client'.round \in 1..Iterations
  <2>1. ~(next > Iterations) => next \in 1..Iterations
    BY <1>3, RoundsAre
  <2> HIDE DEF next
  <2> QED
    BY <1>3, <1>13, <2>1
<1>15. ClientTypes'
  <2> HIDE DEF next
  <2> QED
    BY <1>1, <1>2, <1>11, <1>13, <1>14 DEF ClientTypes, StreamType
<1>16. \A i \in 1..Iterations :
           /\ i < client.round \/ i > client.round => i # client.round
           /\ i < next => i < client.round \/ i = client.round
           /\ i > next => i > client.round
           /\ next # client.round /\ (i = next => i > client.round)
  BY <1>3
<1>17. served = client.round /\ streams[served] = Mine /\ streams'[served] = s
  BY <1>6, <1>11 DEF Served, Mine
<1>18. ~Waiting
  BY <1>1, <1>6 DEF ServedInv
<1>19. /\ served > 0 /\ streams'[served].got <= Len(conn.wire)
       /\ conn.received <= streams'[served].sent
       /\ conn.closed => streams'[served].gone # ""
  <2>1. /\ served > 0 /\ Mine.got <= Len(conn.wire) /\ conn.received <= Mine.sent
    BY <1>1, <1>17, <1>18 DEF ServedInv, Theirs
  <2> QED
    BY <1>9, <1>17, <2>1
<1>20. /\ \A i \in 1..Iterations :
              /\ i < client.round => Complete(streams[i])
              /\ i > client.round => streams[i] = NewStream
  BY <1>1 DEF RoundInv
<1>21. \A i \in 1..Iterations :
           /\ i < client.round => Complete(streams'[i])
           /\ i > client.round => streams'[i] = NewStream
           /\ i = client.round => Complete(streams'[i])
  BY <1>9, <1>11, <1>16, <1>20
<1>22. CASE next > Iterations
  <2>1. client'.round = client.round /\ client'.at = "exited"
    BY <1>13, <1>22
  <2>2. RoundInv'
    BY <1>3, <1>21, <2>1 DEF RoundInv, Mine
  <2>3. ServedInv'
    BY <1>2, <1>17, <1>18, <1>19, <2>1 DEF ServedInv, Waiting, Served, Theirs
  <2> QED
    BY <1>1, <1>2, <1>15, <2>2, <2>3 DEF SettledKept
<1>23. CASE ~(next > Iterations)
  <2>1. client'.round = next /\ client'.at = "connect"
    BY <1>13, <1>23
  <2>2. Mine' = NewStream
    BY <1>14, <1>16, <1>21, <2>1 DEF Mine
  <2>3. RoundInv'
    <3>1. \A i \in 1..Iterations :
              /\ i < next => Complete(streams'[i])
              /\ i > next => streams'[i] = NewStream
      BY <1>16, <1>21
    <3> HIDE DEF next
    <3> QED
      BY <2>1, <2>2, <3>1 DEF RoundInv
  <2>4. ServedInv'
    <3>1. served = next - 1 /\ served # next
      BY <1>3, <1>17
    <3>2. Mine'.got = 0
      BY <2>2 DEF NewStream
    <3> HIDE DEF next
    <3> QED
      BY <1>2, <1>18, <1>19, <2>1, <3>1, <3>2 DEF ServedInv, Waiting, Served, Theirs
  <2> QED
    BY <1>1, <1>2, <1>15, <2>3, <2>4 DEF SettledKept
<1> QED
  BY <1>22, <1>23

LEMMA LastIs ==
    ASSUME NEW q \in Seq(Notification), NEW m \in Notification
    PROVE  Last(Append(q, m)) = m
<1>1. /\ Len(Append(q, m)) = Len(q) + 1
      /\ Append(q, m)[Len(q) + 1] = m
  OBVIOUS
<1> QED
  BY <1>1 DEF Last

(* Who is gone, has got everything.                                        *)
LEMMA GoneIsComplete ==
    ASSUME Settled, ~Waiting, Theirs.gone # ""
    PROVE  Complete(Theirs)
<1>1. /\ ClientTypes /\ RoundInv /\ ServedInv
  BY SettledIs
<1>2. served \in 1..Iterations
  <2>1. served > 0
    BY <1>1 DEF ServedInv
  <2> QED
    BY <1>1, <2>1, ServedIs
<1>3. client.round \in 1..Iterations /\ client.round \in Nat
  BY <1>1, StreamsAre
<1>4. CASE served = client.round
  <2>1. Theirs = Mine
    BY <1>4 DEF Theirs, Mine
  <2>2. client.at \in {"connect", "put", "get", "exited"}
    BY <1>1 DEF ClientTypes
  <2>3. client.at # "connect"
    BY <1>1, <1>4 DEF ServedInv, Served
  <2>4. client.at = "exited"
    BY <1>1, <2>1, <2>2, <2>3 DEF RoundInv
  <2> QED
    BY <1>1, <2>1, <2>4 DEF RoundInv
<1>5. CASE served # client.round
  <2>1. served = client.round - 1
    BY <1>1, <1>5 DEF ServedInv
  <2>2. served < client.round
    <3>1. client.round \in Nat
      BY <1>3
    <3> QED
      BY ONLY <2>1, <3>1
  <2> QED
    BY <1>1, <1>2, <2>2 DEF RoundInv, Theirs
<1> QED
  BY <1>4, <1>5

(* What is in flight tells the state.                                      *)
LEMMA Serving ==
    ASSUME Settled, NEW k \in {"GET", "PUT", "DEL"}, k \in conn.inflight
    PROVE  /\ ~Waiting /\ k \in conn.active
           /\ "NEW" \notin conn.inflight
           /\ conn.state = IF k = "DEL" THEN "disconnecting" ELSE "full_duplex"
<1>1. /\ conn \in Connections /\ StateInv(conn) /\ BitInv(conn)
      /\ OwnStates(conn)
  BY SettledIs DEF Sane, Own
<1>2. k \in conn.active
  BY <1>1 DEF BitInv
<1>3. conn.state \in {"disconnected", "disconnecting", "full_duplex"}
  BY <1>1 DEF StateInv, Connections, States
<1>4. conn.state # "disconnected"
  BY <1>1, <1>2 DEF StateInv, Disconnected
<1>5. "NEW" \notin conn.inflight
  BY <1>1, <1>3, <1>4 DEF StateInv, FullDuplex, Disconnecting
<1>6. CASE k = "DEL"
  <2>1. conn.state # "full_duplex"
    BY <1>1, <1>2, <1>6 DEF StateInv, FullDuplex
  <2> QED
    BY <1>2, <1>3, <1>4, <1>5, <1>6, <2>1 DEF Waiting
<1>7. CASE k # "DEL"
  <2>1. conn.state # "disconnecting"
    BY <1>1, <1>2, <1>7 DEF OwnStates
  <2> QED
    BY <1>2, <1>3, <1>4, <1>5, <1>7, <2>1 DEF Waiting
<1> QED
  BY <1>6, <1>7

(* The network's steps leave the client and its streams alone.             *)
LEMMA ServerKeeps ==
    ASSUME Settled, UNCHANGED <<client, streams, served>>, Own(conn'),
           ~Waiting, ~Waiting', Theirs.got <= Len(conn'.wire),
           conn'.received <= Theirs.sent, conn'.closed => Theirs.gone # ""
    PROVE  SettledKept
<1>1. ClientTypes /\ RoundInv /\ ServedInv
  BY SettledIs
<1>2. ClientTypes' /\ RoundInv'
  BY <1>1 DEF ClientTypes, RoundInv, Mine
<1>3. ServedInv'
  <2>1. Theirs' = Theirs /\ (Served' <=> Served) /\ Mine' = Mine
    BY DEF Theirs, Served, Mine
  <2>2. /\ served \in {client.round - 1, client.round}
        /\ client.at = "connect" => ~Served
        /\ ~Served => Mine.got = 0
        /\ served > 0
    BY <1>1 DEF ServedInv
  <2> QED
    BY <2>1, <2>2 DEF ServedInv
<1> QED
  BY <1>2, <1>3 DEF SettledKept

LEMMA TheirsAre ==
    ASSUME Settled, ~Waiting
    PROVE  /\ Theirs.got <= Len(conn.wire) /\ conn.received <= Theirs.sent
           /\ conn.closed => Theirs.gone # ""
           /\ Theirs.got \in Nat
<1>1. ClientTypes /\ ServedInv
  BY SettledIs
<1>2. /\ served > 0
      /\ Theirs.got <= Len(conn.wire) /\ conn.received <= Theirs.sent
      /\ conn.closed => Theirs.gone # ""
  BY <1>1 DEF ServedInv
<1>3. Theirs.got \in Nat
  <2>1. served \in 1..Iterations
    BY <1>1, <1>2, ServedIs
  <2>2. streams[served] \in StreamType
    BY <1>1, <2>1, StreamsAre
  <2>3. Theirs.got \in 0..size
    BY <2>2 DEF StreamType, Theirs
  <2> QED
    BY <2>3, Bounds DEF size
<1> QED
  BY <1>2, <1>3

LEMMA NotifySettled == Settled /\ ServerNotify => SettledKept
<1> SUFFICES ASSUME Settled, ServerNotify PROVE SettledKept
  OBVIOUS
<1>1. EchoInv /\ Own(conn)
  BY SettledIs
<1>2. Notify /\ Given /\ UNCHANGED <<client, streams, served>>
  BY DEF ServerNotify
<1>3. /\ Own(conn') /\ conn'.wire = conn.wire
      /\ "NEW" \notin conn.inflight \cup conn'.inflight
  BY <1>1, <1>2, OwnNotify
<1>4. ~Waiting /\ ~Waiting'
  BY <1>3 DEF Waiting
<1>5. /\ Theirs.got <= Len(conn.wire)
      /\ conn.closed => Theirs.gone # ""
  BY <1>4, TheirsAre
<1>6. /\ conn'.received <= Theirs.sent
      /\ conn'.closed => conn.closed \/ Theirs.gone # ""
  BY <1>2 DEF Given
<1> QED
  BY <1>2, <1>3, <1>4, <1>5, <1>6, ServerKeeps

LEMMA ServerConnectSettled == Settled /\ ServerConnect => SettledKept
<1> SUFFICES ASSUME Settled, ServerConnect PROVE SettledKept
  OBVIOUS
<1>1. /\ EchoInv /\ conn \in Connections /\ Sane(conn) /\ ClientTypes /\ RoundInv
      /\ ServedInv /\ Own(conn)
  BY SettledIs
<1>2. /\ client.at # "connect" /\ ~Served
      /\ Connect /\ served' = client.round
      /\ client' = client /\ streams' = streams
  BY DEF ServerConnect, Listens
<1>3. /\ "NEW" \in conn.inflight
      /\ conn' = [conn EXCEPT !.socket = "connected"]
  BY <1>2 DEF Connect
<1>4. /\ conn' \in Connections /\ conn'.socket = "connected"
      /\ conn'.state = conn.state /\ conn'.active = conn.active
      /\ conn'.inflight = conn.inflight /\ conn'.port = conn.port
      /\ conn'.closed = conn.closed /\ conn'.broken = conn.broken
      /\ conn'.putBuffer = conn.putBuffer /\ conn'.wire = conn.wire
      /\ conn'.received = conn.received
  BY <1>1, <1>3 DEF Connections
<1>5. conn.state = "disconnected" /\ conn.active = {"NEW"}
  <2>1. /\ StateInv(conn)
        /\ conn.state \in {"disconnected", "disconnecting", "full_duplex"}
    BY <1>1 DEF Sane, StateInv, Connections, States
  <2>2. conn.state = "disconnected"
    BY <1>3, <2>1 DEF StateInv, FullDuplex, Disconnecting
  <2> QED
    BY <1>3, <2>1, <2>2 DEF StateInv, Disconnected
<1>6. ~conn.closed /\ conn.received = 0 /\ conn.broken = "" /\ GoodNotes(conn)
  BY <1>1, <1>3, <1>5 DEF Own, OwnStates
<1>7. Own(conn')
  <2>1. GoodNotes(conn')
    <3>1. conn.closed => conn'.closed
      BY <1>6, Zenon
    <3>2. conn'.port = conn.port /\ conn'.putBuffer = conn.putBuffer
      BY <1>4
    <3> QED
      BY <1>1, <1>4, <1>6, <3>1, <3>2, NotesStay
  <2>2. OwnStates(conn')
    <3>1. ~conn'.closed
      BY <1>4, <1>6, Zenon
    <3>2. /\ conn'.state = "disconnected" /\ conn'.active = {"NEW"}
          /\ conn'.received = 0 /\ conn'.socket = "connected"
      BY <1>4, <1>5, <1>6
    <3> QED
      BY <3>1, <3>2 DEF OwnStates
  <2> QED
    BY <1>4, <1>6, <2>1, <2>2 DEF Own
<1>8. /\ client.round \in 1..Iterations /\ client.round \in Nat
      /\ Mine.sent \in Nat /\ Len(conn.wire) \in Nat
  BY <1>1, StreamsAre, WireIs
<1>9. ClientTypes'
  <2>1. client.round \in 0..Iterations
    BY <1>8, RoundsAre
  <2> QED
    BY <1>1, <1>2, <2>1 DEF ClientTypes
<1>10. RoundInv'
  BY <1>1, <1>2 DEF RoundInv, Mine
<1>11. ServedInv'
  <2>1. Served' /\ ~Waiting' /\ Theirs' = Mine /\ Mine' = Mine
    BY <1>2, <1>4 DEF Served, Waiting, Theirs, Mine
  <2>2. Mine.got = 0
    BY <1>1, <1>2 DEF ServedInv
  <2>3. /\ Mine.got <= Len(conn'.wire) /\ conn'.received <= Mine.sent
        /\ ~conn'.closed
    <3>1. 0 <= Len(conn.wire) /\ 0 <= Mine.sent
      BY <1>8
    <3> QED
      BY <1>4, <1>6, <2>2, <3>1
  <2>4. served' > 0
    BY <1>2, <1>8
  <2> QED
    BY <1>2, <2>1, <2>3, <2>4 DEF ServedInv
<1> QED
  BY <1>7, <1>9, <1>10, <1>11 DEF SettledKept

LEMMA AcceptsSettled == Settled /\ ServerAccepts => SettledKept
<1> SUFFICES ASSUME Settled, ServerAccepts PROVE SettledKept
  OBVIOUS
<1>1. /\ EchoInv /\ conn \in Connections /\ Sane(conn) /\ ClientTypes /\ RoundInv
      /\ ServedInv /\ Own(conn)
  BY SettledIs
<1>2. /\ client.at # "connect" /\ ~Served /\ StartAccept
      /\ client' = client /\ streams' = streams /\ served' = served
  BY DEF ServerAccepts, Listens
<1>3. conn.pool = "unused"
  BY <1>2 DEF StartAccept
<1>4. /\ conn.state = "disconnected" /\ conn.active = {} /\ conn.socket = "idle"
      /\ conn.broken = ""
  <2>1. conn.state = "disconnected" /\ conn.active = {}
    BY <1>1, <1>3 DEF Sane, StateInv
  <2> QED
    BY <1>1, <2>1 DEF Own, OwnStates
<1>5. conn.port = <<>> /\ conn.port \in Seq(Notification)
  <2>1. conn.port \in Seq(Notification)
    BY <1>1, PortIs
  <2>2. Kinds(conn.port) = {}
    BY <1>1, <1>4 DEF Sane, StateInv, Disconnected
  <2> QED
    BY <2>1, <2>2, KindsOf
<1>6. Check(Check(conn, conn.active = {}, "start_accept"),
            conn.socket = "idle", "AcceptEx") = conn
  BY <1>4 DEF Check
<1>7. conn' = [conn EXCEPT !.getBuffer = NoBytes, !.putBuffer = NoBytes,
                           !.active = @ \cup {"NEW"},
                           !.inflight = @ \cup {"NEW"},
                           !.pool = "listen",
                           !.received = 0, !.taken = 0, !.wire = <<>>,
                           !.closed = FALSE]
  BY <1>2, <1>6 DEF StartAccept
<1>8. /\ conn'.state = "disconnected" /\ conn'.active = {"NEW"}
      /\ conn'.port = <<>> /\ conn'.broken = "" /\ conn'.closed = FALSE
      /\ conn'.received = 0 /\ conn'.socket = "idle" /\ "NEW" \in conn'.inflight
  BY <1>1, <1>4, <1>5, <1>7 DEF Connections
<1>9. Own(conn')
  <2>1. ToSet(conn'.port) = {} /\ Kinds(conn'.port) = {}
    BY <1>8, EmptySet, NoKinds
  <2>2. GoodNotes(conn')
    BY <2>1 DEF GoodNotes
  <2>3. OwnStates(conn')
    BY <1>8, <2>1 DEF OwnStates
  <2> QED
    BY <1>8, <2>2, <2>3 DEF Own
<1>10. ClientTypes' /\ RoundInv'
  BY <1>1, <1>2 DEF ClientTypes, RoundInv, Mine
<1>11. ServedInv'
  <2>1. ~Served' /\ Waiting' /\ Mine' = Mine
    BY <1>2, <1>8 DEF Served, Waiting, Mine
  <2>2. /\ served \in {client.round - 1, client.round} /\ Mine.got = 0
    BY <1>1, <1>2 DEF ServedInv
  <2> QED
    BY <1>2, <2>1, <2>2 DEF ServedInv
<1> QED
  BY <1>9, <1>10, <1>11 DEF SettledKept

LEMMA Orders ==
    /\ \A a, b, c \in Nat : a <= b /\ b <= c => a <= c
    /\ \A a, b, c \in Nat : a <= b /\ b < c => a # c
    /\ \A a, b \in Nat : a <= a + b
    /\ \A a, b, c, d, e \in Nat : a - 0 + b + c = d /\ b # 0 /\ d <= e => a < e
OBVIOUS

LEMMA AcceptedSettled == Settled /\ ServerAccepted => SettledKept
<1> SUFFICES ASSUME Settled, ServerAccepted PROVE SettledKept
  OBVIOUS
<1>1. /\ EchoInv /\ conn \in Connections /\ Sane(conn) /\ Own(conn)
      /\ ClientTypes
  BY SettledIs
<1>2. /\ CompleteAccept /\ Given
      /\ conn'.received = 0 => Theirs.gone # "" /\ Theirs.sent = 0
      /\ ~Last(conn'.port).bad
      /\ UNCHANGED <<client, streams, served>>
  BY DEF ServerAccepted
<1>3. /\ "NEW" \in conn.inflight /\ conn.socket = "connected"
      /\ conn' \in Connections
  BY <1>1, <1>2, AcceptKept DEF CompleteAccept, EchoInv
<1>4. PICK k \in 0..MaxBytes, bad \in BOOLEAN :
          conn' = Post([Finished("NEW") EXCEPT !.received = k], "NEW", k, bad)
  BY <1>2 DEF CompleteAccept
<1> DEFINE m == Note("NEW", k, bad)
<1>5. /\ m \in Notification
      /\ m.request = "NEW" /\ m.size = k /\ m.bad = bad
  BY DEF Note, Notification, Bits
<1>6. /\ conn'.port = Append(conn.port, m)
      /\ conn'.state = conn.state /\ conn'.active = conn.active
      /\ conn'.inflight = conn.inflight \ {"NEW"}
      /\ conn'.closed = conn.closed /\ conn'.broken = conn.broken
      /\ conn'.putBuffer = conn.putBuffer /\ conn'.getBuffer = conn.getBuffer
      /\ conn'.wire = conn.wire /\ conn'.socket = conn.socket
      /\ conn'.received = k
  BY <1>1, <1>4 DEF Post, Finished, Connections
<1> HIDE DEF m
<1>7. ~Waiting /\ ~Waiting'
  BY <1>3, <1>6 DEF Waiting
<1>8. /\ Theirs.got <= Len(conn.wire)
      /\ conn.closed => Theirs.gone # ""
  BY <1>7, TheirsAre
<1>9. ~bad
  <2>1. Last(conn'.port) = m
    BY <1>1, <1>5, <1>6, LastIs, PortIs
  <2> QED
    BY <1>2, <1>5, <2>1
<1>10. k > 0
  <2>1. k # 0
    <3> SUFFICES ASSUME k = 0 PROVE FALSE
      OBVIOUS
    <3>1. Theirs.gone # "" /\ Theirs.sent = 0
      BY <1>2, <1>6
    <3>2. Complete(Theirs)
      BY <1>7, <3>1, GoneIsComplete
    <3> QED
      BY <3>1, <3>2 DEF Complete
  <2>2. k \in Nat
    BY Ranges
  <2> QED
    BY <2>1, <2>2
<1>11. conn.broken = "" /\ GoodNotes(conn) /\ OwnStates(conn)
  BY <1>1 DEF Own
<1>12. conn.state = "disconnected" /\ conn.active = {"NEW"}
  <2>1. /\ StateInv(conn)
        /\ conn.state \in {"disconnected", "disconnecting", "full_duplex"}
    BY <1>1 DEF Sane, StateInv, Connections, States
  <2>2. conn.state = "disconnected"
    BY <1>3, <2>1 DEF StateInv, FullDuplex, Disconnecting
  <2> QED
    BY <1>3, <2>1, <2>2 DEF StateInv, Disconnected
<1>13. Own(conn')
  <2>1. GoodNotes(conn')
    <3>1. conn.closed => conn'.closed
      BY <1>6, Zenon
    <3>2. m.request = "NEW" => ~m.bad /\ m.size > 0
      BY <1>5, <1>9, <1>10
    <3> QED
      BY <1>1, <1>3, <1>5, <1>6, <1>11, <3>1, <3>2, NotesPost
  <2>2. OwnStates(conn')
    <3>1. ~conn'.closed
      <4>1. ~conn.closed
        BY <1>11, <1>12 DEF OwnStates
      <4> QED
        BY <1>6, <4>1, Zenon
    <3>2. /\ conn'.state = "disconnected" /\ conn'.active = {"NEW"}
          /\ "NEW" \notin conn'.inflight /\ conn'.socket = "connected"
      BY <1>3, <1>6, <1>12
    <3> QED
      BY <3>1, <3>2 DEF OwnStates
  <2> QED
    BY <1>6, <1>11, <2>1, <2>2 DEF Own
<1>14. /\ conn'.received <= Theirs.sent
       /\ conn'.closed => Theirs.gone # ""
  <2>1. conn'.received <= Theirs.sent
    BY <1>2 DEF Given
  <2>2. conn'.closed => conn.closed
    BY <1>6, Zenon
  <2> QED
    BY <1>8, <2>1, <2>2
<1>15. Theirs.got <= Len(conn'.wire)
  BY <1>6, <1>8
<1> QED
  BY <1>2, <1>7, <1>13, <1>14, <1>15, ServerKeeps

LEMMA GetsSettled == Settled /\ ServerGets => SettledKept
<1> SUFFICES ASSUME Settled, ServerGets PROVE SettledKept
  OBVIOUS
<1>1. /\ EchoInv /\ conn \in Connections /\ Sane(conn) /\ Own(conn)
      /\ ClientTypes
  BY SettledIs
<1>2. /\ CompleteGet /\ Given
      /\ Last(conn'.port).bad <=> conn'.closed /\ Theirs.gone = "rst"
      /\ UNCHANGED <<client, streams, served>>
  BY DEF ServerGets
<1>3. "GET" \in conn.inflight /\ conn' \in Connections
  BY <1>1, <1>2, GetKept DEF CompleteGet, EchoInv
<1>4. PICK k \in 0..(MaxBytes - conn.received), bad \in BOOLEAN :
         /\ conn.closed => k = 0
         /\ conn' = Post([Finished("GET") EXCEPT !.received = @ + k,
                                                 !.closed = k = 0],
                         "GET", k, bad)
  BY <1>2 DEF CompleteGet
<1> DEFINE m == Note("GET", k, bad)
<1>5. /\ m \in Notification
      /\ m.request = "GET" /\ m.size = k /\ m.bad = bad
  <2>1. k \in 0..MaxBytes
    <3>1. conn.received \in Nat /\ conn.received <= MaxBytes /\ MaxBytes \in Nat
      BY <1>1, Numbers, Bounds
    <3> QED
      BY <3>1
  <2> QED
    BY <2>1 DEF Note, Notification, Bits
<1>6. /\ conn'.port = Append(conn.port, m)
      /\ conn'.state = conn.state /\ conn'.active = conn.active
      /\ conn'.inflight = conn.inflight \ {"GET"}
      /\ conn'.closed = (k = 0) /\ conn'.broken = conn.broken
      /\ conn'.putBuffer = conn.putBuffer /\ conn'.getBuffer = conn.getBuffer
      /\ conn'.wire = conn.wire /\ conn'.socket = conn.socket
  BY <1>1, <1>4 DEF Post, Finished, Connections
<1> HIDE DEF m
<1>7. /\ ~Waiting /\ "GET" \in conn.active /\ "NEW" \notin conn.inflight
      /\ conn.state = "full_duplex"
  BY <1>3, Serving
<1>8. ~Waiting'
  BY <1>6, <1>7 DEF Waiting
<1>9. /\ Theirs.got <= Len(conn.wire)
      /\ conn.closed => Theirs.gone # ""
  BY <1>7, TheirsAre
<1>10. k = 0 => conn'.closed
  BY <1>6
<1>11. conn'.closed => Theirs.gone # ""
  BY <1>2, <1>9 DEF Given
<1>12. k = 0 => bad
  <2> SUFFICES ASSUME k = 0 PROVE bad
    OBVIOUS
  <2>1. conn'.closed /\ Theirs.gone # ""
    BY <1>10, <1>11
  <2>2. Complete(Theirs)
    BY <1>7, <2>1, GoneIsComplete
  <2>3. Last(conn'.port).bad
    BY <1>2, <2>1, <2>2 DEF Complete
  <2>4. Last(conn'.port) = m
    BY <1>1, <1>5, <1>6, LastIs, PortIs
  <2> QED
    BY <1>5, <2>3, <2>4
<1>13. conn.broken = "" /\ GoodNotes(conn) /\ OwnStates(conn)
  BY <1>1 DEF Own
<1>14. conn.closed => conn'.closed
  BY <1>4, <1>10
<1>15. Own(conn')
  <2>1. GoodNotes(conn')
    <3>1. m.request = "GET" /\ m.size = 0 => m.bad /\ conn'.closed
      BY <1>5, <1>10, <1>12
    <3> QED
      BY <1>1, <1>3, <1>5, <1>6, <1>13, <1>14, <3>1, NotesPost
  <2>2. OwnStates(conn')
    <3>1. "PUT" \in conn.active => conn.putBuffer.bytes # <<>>
      BY <1>13 DEF OwnStates
    <3>2. conn.socket = "connected"
      BY <1>7, <1>13 DEF OwnStates
    <3> QED
      BY <1>6, <1>7, <3>1, <3>2 DEF OwnStates
  <2> QED
    BY <1>6, <1>13, <2>1, <2>2 DEF Own
<1>16. conn'.received <= Theirs.sent
  BY <1>2 DEF Given
<1>17. Theirs.got <= Len(conn'.wire)
  BY <1>6, <1>9
<1> QED
  BY <1>2, <1>7, <1>8, <1>11, <1>15, <1>16, <1>17, ServerKeeps

LEMMA PutsSettled == Settled /\ ServerPuts => SettledKept
<1> SUFFICES ASSUME Settled, ServerPuts PROVE SettledKept
  OBVIOUS
<1>1. /\ EchoInv /\ conn \in Connections /\ Sane(conn) /\ Own(conn)
      /\ ClientTypes
  BY SettledIs
<1>2. /\ CompletePut
      /\ Last(conn'.port).size = 0 => Theirs.gone # ""
      /\ Last(conn'.port).size # 0 =>
            Last(conn'.port).size = Len(conn.putAt.bytes)
      /\ UNCHANGED <<client, streams, served>>
  BY DEF ServerPuts
<1>3. "PUT" \in conn.inflight /\ conn' \in Connections
  BY <1>1, <1>2, PutKept DEF CompletePut, EchoInv
<1>4. PICK k \in 0..Len(conn.putAt.bytes) :
         conn' = Post([Finished("PUT") EXCEPT
                         !.wire = @ \o SubSeq(conn.putAt.bytes, 1, k)],
                      "PUT", k, k = 0)
  BY <1>2 DEF CompletePut
<1>5. /\ ~Waiting /\ "PUT" \in conn.active /\ "NEW" \notin conn.inflight
      /\ conn.state = "full_duplex"
  BY <1>3, Serving
<1>6. conn.putAt = conn.putBuffer /\ "PUT" \notin Kinds(conn.port)
  BY <1>1, <1>3, <1>5 DEF Sane, BufferInv, PortInv
<1>7. conn.broken = "" /\ GoodNotes(conn) /\ OwnStates(conn)
  BY <1>1 DEF Own
<1> DEFINE p == conn.putBuffer.bytes
           m == Note("PUT", k, k = 0)
           v == conn.wire \o SubSeq(p, 1, k)
<1>8. /\ p \in Seq(Nat) /\ p # <<>> /\ Len(p) \in Nat /\ Len(p) # 0
      /\ Len(conn.getBuffer.bytes) \in Nat
      /\ conn.wire \in Seq(Nat) /\ Len(conn.wire) \in Nat
  <2>1. p \in Seq(Nat) /\ conn.wire \in Seq(Nat)
    BY <1>1, TypesOf
  <2>2. p # <<>>
    BY <1>5, <1>7 DEF OwnStates
  <2>3. /\ Len(p) \in Nat /\ Len(conn.getBuffer.bytes) \in Nat
        /\ Len(conn.wire) \in Nat
    BY <1>1, Numbers
  <2> HIDE DEF p
  <2> QED
    BY <2>1, <2>2, <2>3, NoLength
<1>9. Len(conn.wire) < size
  <2>1. Stream(conn, 0)
    BY <1>1, <1>5, <1>6 DEF Sane, StreamInv
  <2>2. Len(conn.wire) - 0 + Len(p) + Len(conn.getBuffer.bytes) = conn.taken
    BY <2>1 DEF Stream
  <2>3. conn.taken \in Nat /\ conn.taken <= size
    BY <1>1, Numbers DEF size
  <2>4. size \in Nat
    BY Bounds DEF size
  <2> HIDE DEF p, size
  <2> QED
    BY <1>8, <2>2, <2>3, <2>4, Orders, Zenon
<1>10. k \in 0..Len(p) /\ k \in Nat
  <2>1. k \in 0..Len(p)
    BY <1>6
  <2> HIDE DEF p
  <2> QED
    BY <1>8, <2>1
<1>11. k <= MaxBytes
  <2>1. conn'.port \in Seq(Notification)
    BY <1>3, PortIs
  <2>2. conn'.port = Append(conn.port, m) /\ conn.port \in Seq(Notification)
    BY <1>1, <1>4, PortIs DEF Post, Finished, Connections
  <2>3. m \in Notification
    <3> HIDE DEF m
    <3>1. /\ Len(conn'.port) = Len(conn.port) + 1
          /\ conn'.port[Len(conn.port) + 1] = m
          /\ Len(conn.port) + 1 \in 1..Len(conn'.port)
      BY <2>2
    <3> QED
      BY <2>1, <3>1
  <2>4. m.size = k
    BY DEF Note
  <2>5. k \in 0..MaxBytes
    BY <2>3, <2>4 DEF Notification
  <2> QED
    BY <2>5
<1>12. /\ m \in Notification
       /\ m.request = "PUT" /\ m.size = k
  <2>1. k \in 0..MaxBytes
    BY <1>10, <1>11, Bounds
  <2> QED
    BY <2>1 DEF Note, Notification, Bits
<1>13. /\ conn'.port = Append(conn.port, m)
       /\ conn'.state = conn.state /\ conn'.active = conn.active
       /\ conn'.inflight = conn.inflight \ {"PUT"}
       /\ conn'.closed = conn.closed /\ conn'.broken = conn.broken
       /\ conn'.putBuffer = conn.putBuffer /\ conn'.getBuffer = conn.getBuffer
       /\ conn'.wire = v /\ conn'.socket = conn.socket
       /\ conn'.received = conn.received
  BY <1>1, <1>4, <1>6 DEF Post, Finished, Connections
<1> HIDE DEF m
<1>14. Len(v) \in Nat /\ Len(conn.wire) <= Len(v)
  <2>1. SubSeq(p, 1, k) \in Seq(Nat) /\ Len(SubSeq(p, 1, k)) \in Nat
    <3> HIDE DEF p
    <3> QED
      BY <1>8, <1>10
  <2> DEFINE q == SubSeq(p, 1, k)
  <2> HIDE DEF q
  <2>2. q \in Seq(Nat) /\ Len(q) \in Nat
    BY <2>1 DEF q
  <2>3. v = conn.wire \o q
    BY DEF q
  <2> HIDE DEF v, p
  <2>4. Len(v) = Len(conn.wire) + Len(q) /\ v \in Seq(Nat)
    BY <1>8, <2>2, <2>3, Concat
  <2>5. Len(v) \in Nat
    BY <2>4
  <2>6. Len(conn.wire) <= Len(conn.wire) + Len(q)
    BY <1>8, <2>2, Orders, Zenon
  <2> QED
    BY <2>4, <2>5, <2>6
<1> HIDE DEF v
<1>15. /\ Theirs.got <= Len(conn.wire) /\ Theirs.got \in Nat
       /\ conn.received <= Theirs.sent
       /\ conn.closed => Theirs.gone # ""
  BY <1>5, TheirsAre
<1>16. k = Len(p)
  <2>1. Last(conn'.port).size = k
    BY <1>1, <1>12, <1>13, LastIs, PortIs
  <2>2. k # 0
    <3> SUFFICES ASSUME k = 0 PROVE FALSE
      OBVIOUS
    <3>1. Complete(Theirs)
      BY <1>2, <1>5, <2>1, GoneIsComplete
    <3>2. Theirs.got = size
      BY <3>1 DEF Complete
    <3>3. size \in Nat
      BY Bounds DEF size
    <3> HIDE DEF size
    <3> QED
      BY <1>8, <1>9, <1>15, <3>2, <3>3, Orders, Zenon
  <2> QED
    BY <1>2, <1>6, <2>1, <2>2
<1>17. ~Waiting'
  BY <1>5, <1>13 DEF Waiting
<1>18. Own(conn')
  <2>1. GoodNotes(conn')
    <3>1. conn.closed => conn'.closed
      BY <1>13, Zenon
    <3>2. m.request = "PUT" /\ m.size = Len(conn'.putBuffer.bytes)
      BY <1>12, <1>13, <1>16
    <3> QED
      BY <1>1, <1>3, <1>7, <1>12, <1>13, <3>1, <3>2, NotesPost
  <2>2. OwnStates(conn')
    <3>1. /\ conn.socket = "connected"
          /\ "GET" \in conn.active \/ conn.getBuffer.bytes # <<>> \/ conn.closed
      BY <1>5, <1>7 DEF OwnStates
    <3>2. /\ conn'.socket = "connected"
          /\ "GET" \in conn'.active \/ conn'.getBuffer.bytes # <<>> \/ conn'.closed
      BY <1>13, <3>1, Zenon
    <3>3. conn'.state = "full_duplex" /\ conn'.putBuffer.bytes # <<>>
      BY <1>5, <1>8, <1>13
    <3> QED
      BY <3>2, <3>3 DEF OwnStates
  <2> QED
    BY <1>7, <1>13, <2>1, <2>2 DEF Own
<1>19. Theirs.got <= Len(conn'.wire)
  BY <1>8, <1>13, <1>14, <1>15, Orders, Zenon
<1>20. conn'.received <= Theirs.sent /\ (conn'.closed => Theirs.gone # "")
  <2>1. conn'.closed => conn.closed
    BY <1>13, Zenon
  <2> QED
    BY <1>13, <1>15, <2>1
<1> QED
  BY <1>2, <1>5, <1>17, <1>18, <1>19, <1>20, ServerKeeps

LEMMA DisconnectsSettled == Settled /\ ServerDisconnects => SettledKept
<1> SUFFICES ASSUME Settled, ServerDisconnects PROVE SettledKept
  OBVIOUS
<1>1. /\ EchoInv /\ conn \in Connections /\ Sane(conn) /\ Own(conn)
  BY SettledIs
<1>2. CompleteDisconnect /\ UNCHANGED <<client, streams, served>>
  BY DEF ServerDisconnects
<1>3. "DEL" \in conn.inflight /\ conn' \in Connections
  BY <1>1, <1>2, DisconnectKept DEF CompleteDisconnect, EchoInv
<1> DEFINE m == Note("DEL", 0, FALSE)
<1>4. m \in Notification /\ m.request = "DEL"
  <2>1. 0 \in 0..MaxBytes
    BY Bounds
  <2> QED
    BY <2>1 DEF Note, Notification, Bits
<1>5. /\ conn'.port = Append(conn.port, m)
      /\ conn'.state = conn.state /\ conn'.active = conn.active
      /\ conn'.inflight = conn.inflight \ {"DEL"}
      /\ conn'.closed = conn.closed /\ conn'.broken = conn.broken
      /\ conn'.putBuffer = conn.putBuffer
      /\ conn'.wire = conn.wire /\ conn'.socket = "idle"
      /\ conn'.received = conn.received
  BY <1>1, <1>2 DEF CompleteDisconnect, Post, Finished, Connections
<1> HIDE DEF m
<1>6. /\ ~Waiting /\ "NEW" \notin conn.inflight
      /\ conn.state = "disconnecting"
  BY <1>3, Serving
<1>7. conn.broken = "" /\ GoodNotes(conn) /\ OwnStates(conn)
  BY <1>1 DEF Own
<1>8. conn.closed /\ conn.active = {"DEL"}
  BY <1>6, <1>7 DEF OwnStates
<1>9. conn'.closed
  BY <1>5, <1>8, Zenon
<1>10. Own(conn')
  <2>1. GoodNotes(conn')
    BY <1>1, <1>3, <1>4, <1>5, <1>7, <1>9, NotesPost
  <2>2. OwnStates(conn')
    <3>1. /\ conn'.state = "disconnecting" /\ conn'.active = {"DEL"}
          /\ conn'.socket = "idle"
      BY <1>5, <1>6, <1>8
    <3> QED
      BY <1>9, <3>1 DEF OwnStates
  <2> QED
    BY <1>5, <1>7, <2>1, <2>2 DEF Own
<1>11. ~Waiting'
  BY <1>5, <1>6 DEF Waiting
<1>12. /\ Theirs.got <= Len(conn'.wire) /\ conn'.received <= Theirs.sent
       /\ conn'.closed => Theirs.gone # ""
  <2>1. /\ Theirs.got <= Len(conn.wire) /\ conn.received <= Theirs.sent
        /\ conn.closed => Theirs.gone # ""
    BY <1>6, TheirsAre
  <2> QED
    BY <1>5, <1>8, <2>1
<1> QED
  BY <1>2, <1>6, <1>10, <1>11, <1>12, ServerKeeps

----------------------------------------------------------------------------
(* OwnInv is inductive.                                                    *)

LEMMA RoundRange == \A i \in 1..Iterations : i \in 0..Iterations
BY RoundsAre

LEMMA RoundOne == \A s, r : s = 0 /\ r = 1 => s # r /\ s \in {r - 1, r}
OBVIOUS

LEMMA OwnInit == ClientInit => OwnInv
<1> SUFFICES ASSUME ClientInit PROVE OwnInv
  OBVIOUS
<1>1. /\ Init /\ served = 0
      /\ client = [at |-> "connect", round |-> 1, error |-> ""]
      /\ streams = [i \in 1..Iterations |-> NewStream]
  BY DEF ClientInit
<1>2. EchoInv
  BY <1>1, EchoInit
<1>3. 1 \in 1..Iterations /\ 0 \in 0..Iterations
  BY RoundsAre
<1>4. NewStream \in StreamType
  <2>1. 0 \in 0..size
    BY Bounds DEF size
  <2> QED
    BY <2>1 DEF NewStream, StreamType
<1>5. ClientTypes
  BY <1>1, <1>3, <1>4 DEF ClientTypes, StreamType, NewStream
<1>6. RoundInv
  <2>1. \A i \in 1..Iterations : ~(i < 1)
    BY RoundsAre
  <2>2. client.round = 1 /\ client.at = "connect" /\ Mine = NewStream
    BY <1>1, <1>3 DEF Mine
  <2> QED
    BY <1>1, <2>1, <2>2 DEF RoundInv
<1>7. /\ conn.state = "disconnected" /\ conn.active = {"NEW"} /\ conn.broken = ""
      /\ "NEW" \in conn.inflight /\ conn.socket = "idle" /\ conn.port = <<>>
      /\ conn.received = 0 /\ conn.closed = FALSE
  BY <1>1 DEF Init
<1>8. ServedInv
  <2>1. Waiting
    BY <1>7 DEF Waiting
  <2>2. served = 0 /\ client.round = 1 /\ client.at = "connect"
    BY <1>1
  <2>3. served # client.round /\ served \in {client.round - 1, client.round}
    BY <2>2, RoundOne, Zenon
  <2>4. Mine = NewStream
    BY <1>1, <1>3, <2>2 DEF Mine
  <2>5. Mine.got = 0
    BY <2>4 DEF NewStream
  <2> QED
    BY <2>1, <2>3, <2>5 DEF ServedInv, Served
<1>9. Own(conn)
  <2>1. ToSet(conn.port) = {} /\ Kinds(conn.port) = {}
    BY <1>7, EmptySet, NoKinds
  <2> QED
    BY <1>7, <2>1 DEF Own, GoodNotes, OwnStates
<1> QED
  BY <1>2, <1>5, <1>6, <1>8, <1>9 DEF OwnInv

(* Once a put was refused the client has left, and only its types matter.  *)
LEMMA RefusedStays ==
    ASSUME OwnInv, client.error # "", ClientNext
    PROVE  ClientTypes' /\ client' = client
<1>1. ClientTypes /\ client.at = "exited"
  BY DEF OwnInv, ClientTypes
<1>2. ~Client
  BY <1>1 DEF Client, ClientConnect, ClientPut, ClientPutReturns, ClientGet,
              ClientCompares
<1>3. client' = client /\ streams' = streams /\ served' \in {served, client.round}
  BY <1>2 DEF ClientNext, Server, ServerConnect, ServerAccepts, ServerNotify,
              ServerAccepted, ServerGets, ServerPuts, ServerDisconnects
<1>4. client.round \in 0..Iterations
  <2>1. client.round \in 1..Iterations
    BY <1>1, StreamsAre
  <2> QED
    BY <2>1, RoundRange, Zenon
<1>5. served' \in 0..Iterations
  <2>1. served \in 0..Iterations
    BY <1>1 DEF ClientTypes
  <2> QED
    BY <1>3, <1>4, <2>1
<1> QED
  BY <1>1, <1>3, <1>5 DEF ClientTypes

LEMMA OwnStep == OwnInv /\ [ClientNext]_vars => OwnInv'
<1> SUFFICES ASSUME OwnInv, [ClientNext]_vars PROVE OwnInv'
  OBVIOUS
<1>1. EchoInv'
  BY ServerSteps, EchoStep DEF OwnInv
<1>2. CASE UNCHANGED vars
  <2>1. conn' = conn /\ client' = client /\ streams' = streams /\ served' = served
    BY <1>2 DEF vars
  <2>2. ClientTypes' <=> ClientTypes
    BY <2>1 DEF ClientTypes
  <2>3. RoundInv' <=> RoundInv
    BY <2>1 DEF RoundInv, Mine
  <2>4. ServedInv' <=> ServedInv
    BY <2>1 DEF ServedInv, Mine, Theirs, Served, Waiting
  <2>5. Own(conn') <=> Own(conn)
    BY <2>1
  <2> QED
    BY <1>1, <2>1, <2>2, <2>3, <2>4, <2>5 DEF OwnInv
<1>3. CASE ClientNext /\ client.error # ""
  BY <1>1, <1>3, RefusedStays DEF OwnInv
<1>4. CASE ClientNext /\ client.error = ""
  <2>1. Settled
    BY <1>4 DEF Settled
  <2>2. SettledKept
    <3>1. CASE Client
      BY <2>1, <3>1, ConnectSettled, PutSettled, PutReturnsSettled, GetSettled,
         ComparesSettled DEF Client
    <3>2. CASE Server
      BY <2>1, <3>2, ServerConnectSettled, AcceptsSettled, NotifySettled,
         AcceptedSettled, GetsSettled, PutsSettled, DisconnectsSettled DEF Server
    <3> QED
      BY <1>4, <3>1, <3>2 DEF ClientNext
  <2> QED
    BY <1>1, <2>2 DEF OwnInv, SettledKept
<1> QED
  BY <1>2, <1>3, <1>4

LEMMA OwnAlways == ClientSpec => []OwnInv
BY OwnInit, OwnStep, PTL DEF ClientSpec

----------------------------------------------------------------------------
(* The theorems.                                                           *)

(* The network of echo-client.cpp is one of those that EchoConnection      *)
(* allows: all that is proved of echo-server.cpp's Connection holds of the *)
(* one that serves this client.                                            *)
THEOREM ClientMeetsServer == ClientSpec => Spec
<1>1. ClientInit => Init
  BY DEF ClientInit
<1> QED
  BY <1>1, ServerSteps, PTL DEF ClientSpec, Spec

(* A client that sends at once, reads all it has sent and resets the TCP   *)
(* connection makes none of the server's sanity checks fail, as long as    *)
(* its puts are complete (echo-server.cpp:249-768).                        *)
THEOREM OwnClientSafe == ClientSpec => []OwnClientIsSafe
<1>1. OwnInv => OwnClientIsSafe
  <2> SUFFICES ASSUME OwnInv, client.error # Refused PROVE Running
    BY DEF OwnClientIsSafe, Refused
  <2>1. client.error \in {"", Refused}
    BY DEF OwnInv, ClientTypes
  <2> QED
    BY <2>1 DEF OwnInv, Own, Running
<1> QED
  BY <1>1, OwnAlways, PTL

(* What the client reads is what it sent, in every iteration, and all of   *)
(* it: neither "could not read everything" nor "received incoherent data"  *)
(* (echo-client.cpp:117-125).                                              *)
THEOREM ExactCopy == ClientSpec => []CopyIsExact
<1>1. OwnInv => CopyIsExact
  BY DEF OwnInv, ClientTypes, CopyIsExact, Refused
<1> QED
  BY <1>1, OwnAlways, PTL
=============================================================================
