---------------------------- MODULE BufferProofs ----------------------------
(***************************************************************************)
(* Buffer implements ByteFifo, for any capacity and any set of bytes.      *)
(***************************************************************************)
EXTENDS Buffer, SequenceTheorems, TLAPS

(* A buffer whose cursors are in order.                                    *)
Sound(b) ==
    /\ b \in [data : [1..Capacity -> Bytes], base : 0..Capacity, peek : 0..Capacity]
    /\ b.base <= b.peek

Inv == Sound(inbound) /\ Sound(outbound)

(* What is in use, byte by byte.                                           *)
LEMMA ViewProperties ==
    ASSUME NEW b, Sound(b)
    PROVE  /\ used(b) \in 0..Capacity /\ b.base + used(b) = b.peek
           /\ View(b) \in Seq(Bytes)
           /\ Len(View(b)) = used(b)
           /\ \A i \in 1..used(b) : View(b)[i] = b.data[b.base + i]
<1> DEFINE s == b.data  m == b.base + 1  n == b.peek
<1>1. /\ m \in Int /\ n \in Int /\ used(b) \in 0..Capacity
      /\ b.base + used(b) = b.peek /\ n - m + 1 = used(b)
      /\ b.base \in Nat
  BY BufferAssumption DEF Sound, used
<1>2. \A i \in m..n : s[i] \in Bytes
  BY BufferAssumption DEF Sound
<1> HIDE DEF s, m, n
<1>3. /\ SubSeq(s, m, n) \in Seq(Bytes)
      /\ Len(SubSeq(s, m, n)) = IF m <= n THEN n - m + 1 ELSE 0
      /\ \A i \in 1..(n - m + 1) : SubSeq(s, m, n)[i] = s[m + i - 1]
  BY <1>1, <1>2, SubSeqProperties
<1>4. Len(SubSeq(s, m, n)) = used(b)
  BY <1>1, <1>3, BufferAssumption
<1>5. \A i \in 1..used(b) : SubSeq(s, m, n)[i] = b.data[b.base + i]
  <2>1. \A i \in 1..used(b) : m + i - 1 = b.base + i
    BY <1>1, BufferAssumption DEF m
  <2> QED
    BY <1>1, <1>3, <2>1 DEF s
<1> QED
  BY <1>1, <1>3, <1>4, <1>5 DEF View, s, m, n

(* Two buffers with the same bytes in use have the same view.              *)
LEMMA ViewEqual ==
    ASSUME NEW b, Sound(b), NEW s \in Seq(Bytes), Len(s) = used(b),
           \A i \in 1..used(b) : b.data[b.base + i] = s[i]
    PROVE  View(b) = s
  BY ViewProperties, SeqEqual

(* pused(): whatever the count, bytes go from the front only.              *)
LEMMA PutView ==
    ASSUME NEW b, Sound(b), NEW n \in Nat
    PROVE  /\ Sound(pused(b, n))
           /\ LET m == Least(n, used(b)) IN
              /\ m \in 0..Len(View(b))
              /\ View(pused(b, n)) = SubSeq(View(b), m + 1, Len(View(b)))
<1> DEFINE m == Least(n, used(b))
           c == pused(b, n)
           v == View(b)
<1>1. /\ used(b) \in 0..Capacity /\ b.base + used(b) = b.peek
      /\ v \in Seq(Bytes) /\ Len(v) = used(b)
      /\ \A i \in 1..used(b) : v[i] = b.data[b.base + i]
  BY ViewProperties
<1>2. m \in 0..used(b)
  BY <1>1, BufferAssumption DEF Least
<1>3. /\ Sound(c) /\ c.data = b.data
      /\ c.base = b.base + m /\ used(c) = used(b) - m
  BY <1>1, BufferAssumption, SMTT(30) DEF Sound, pused, used, Least
<1>4. /\ SubSeq(v, m + 1, used(b)) \in Seq(Bytes)
      /\ Len(SubSeq(v, m + 1, used(b))) = used(b) - m
      /\ \A i \in 1..(used(b) - m) : SubSeq(v, m + 1, used(b))[i] = v[m + i]
  <2> HIDE DEF v, m, c
  <2>1. \A i \in (m + 1)..used(b) : v[i] \in Bytes
    BY <1>1, <1>2, ElementOfSeq, BufferAssumption
  <2>2. m + 1 \in Int /\ used(b) \in Int
    BY <1>1, <1>2, BufferAssumption
  <2>3. /\ SubSeq(v, m + 1, used(b)) \in Seq(Bytes)
        /\ Len(SubSeq(v, m + 1, used(b))) =
               IF m + 1 <= used(b) THEN used(b) - (m + 1) + 1 ELSE 0
        /\ \A i \in 1..(used(b) - (m + 1) + 1) :
               SubSeq(v, m + 1, used(b))[i] = v[m + 1 + i - 1]
    BY <2>1, <2>2, SubSeqProperties
  <2>4. used(b) - (m + 1) + 1 = used(b) - m
    BY <1>1, <1>2, BufferAssumption
  <2>5. \A i \in 1..(used(b) - m) : m + 1 + i - 1 = m + i
    BY <1>1, <1>2, BufferAssumption
  <2> QED
    BY <1>1, <1>2, <2>3, <2>4, <2>5, BufferAssumption
<1>5. \A i \in 1..used(c) :
          c.data[c.base + i] = SubSeq(v, m + 1, used(b))[i]
  <2> SUFFICES ASSUME NEW i \in 1..used(c)
               PROVE  c.data[c.base + i] = SubSeq(v, m + 1, used(b))[i]
    OBVIOUS
  <2>1. m + i \in 1..used(b) /\ b.base + m + i = b.base + (m + i)
    BY <1>1, <1>2, <1>3, BufferAssumption DEF Sound
  <2> HIDE DEF v, m, c
  <2> QED
    BY <1>1, <1>3, <1>4, <2>1
<1> HIDE DEF v, m, c
<1>6. View(c) = SubSeq(v, m + 1, used(b))
  BY <1>3, <1>4, <1>5, ViewEqual
<1> QED
  BY <1>1, <1>2, <1>3, <1>6 DEF v, m, c

(* pack(): the same bytes, from the front of the block.                    *)
LEMMA PackView ==
    ASSUME NEW b, Sound(b)
    PROVE  /\ Sound(pack(b)) /\ View(pack(b)) = View(b)
           /\ gsize(pack(b)) = Capacity - used(b)
<1> DEFINE c == pack(b)
<1>1. /\ used(b) \in 0..Capacity /\ b.base + used(b) = b.peek
      /\ View(b) \in Seq(Bytes) /\ Len(View(b)) = used(b)
      /\ \A i \in 1..used(b) : View(b)[i] = b.data[b.base + i]
  BY ViewProperties
<1>2. \A i \in 1..used(b) : b.base + i \in 1..Capacity
  BY <1>1, BufferAssumption DEF Sound
<1>3. /\ c.base = 0 /\ c.peek = used(b)
      /\ c.data = [i \in 1..Capacity |->
                     IF i <= used(b) THEN b.data[i + b.base] ELSE b.data[i]]
  BY DEF pack, Sound
<1>4. c.data \in [1..Capacity -> Bytes]
  <2>1. \A i \in 1..Capacity : i <= used(b) => i + b.base \in 1..Capacity
    BY <1>1, BufferAssumption DEF Sound
  <2> HIDE DEF c
  <2> QED
    BY <1>3, <2>1, ZenonT(60) DEF Sound
<1>5. Sound(c)
  <2>1. c \in [data : [1..Capacity -> Bytes], base : 0..Capacity, peek : 0..Capacity]
    <3>1. c = [b EXCEPT !.data = c.data, !.base = 0, !.peek = used(b)]
      BY <1>3 DEF pack
    <3> HIDE DEF c
    <3>2. used(b) \in 0..Capacity /\ 0 \in 0..Capacity
      BY <1>1, BufferAssumption
    <3> QED
      BY <1>4, <3>1, <3>2 DEF Sound
  <2> QED
    BY <1>1, <1>3, <2>1 DEF Sound
<1>6. used(c) = used(b)
  BY <1>1, <1>3 DEF used
<1>7. \A i \in 1..used(c) : c.data[c.base + i] = View(b)[i]
  <2> SUFFICES ASSUME NEW i \in 1..used(b)
               PROVE  c.data[c.base + i] = View(b)[i]
    BY <1>6
  <2>1. i \in 1..Capacity /\ i <= used(b) /\ i + b.base = b.base + i /\ 0 + i = i
    BY <1>1, BufferAssumption DEF Sound
  <2> HIDE DEF c
  <2> QED
    BY <1>1, <1>3, <2>1
<1>9. gsize(c) = Capacity - used(b)
  BY <1>3 DEF gsize
<1> HIDE DEF c
<1>8. View(c) = View(b)
  BY <1>1, <1>5, <1>6, <1>7, ViewEqual
<1> QED
  BY <1>5, <1>8, <1>9 DEF c

(* gused(): the bytes that arrived follow those that were there.           *)
LEMMA GetView ==
    ASSUME NEW b, Sound(b), NEW n \in 0..gsize(b), NEW x \in Nat,
           x > 0 => n = gsize(b), NEW bs \in [1..n -> Bytes]
    PROVE  /\ Sound(gused(Written(b, bs), n + x))
           /\ View(gused(Written(b, bs), n + x)) = View(b) \o bs
           /\ used(b) + n <= Capacity /\ n \in 0..Capacity
<1> DEFINE w == Written(b, bs)
           c == gused(w, n + x)
<1>1. /\ used(b) \in 0..Capacity /\ b.base + used(b) = b.peek
      /\ View(b) \in Seq(Bytes) /\ Len(View(b)) = used(b)
      /\ \A i \in 1..used(b) : View(b)[i] = b.data[b.base + i]
  BY ViewProperties
<1>2. /\ n \in 0..Capacity /\ b.peek + n <= Capacity /\ used(b) + n <= Capacity
      /\ DOMAIN bs = 1..n
  BY <1>1, BufferAssumption DEF gsize, Sound
<1>3. /\ w.base = b.base /\ w.peek = b.peek
      /\ w.data = [i \in 1..Capacity |->
                     IF i - b.peek \in 1..n THEN bs[i - b.peek] ELSE b.data[i]]
      /\ w.data \in [1..Capacity -> Bytes]
      /\ Sound(w)
  BY <1>2, BufferAssumption DEF Written, Sound
<1>4. /\ c.data = w.data /\ c.base = b.base /\ c.peek = b.peek + n
      /\ c \in [data : [1..Capacity -> Bytes], base : 0..Capacity, peek : 0..Capacity]
  <2>1. Least(w.peek + (n + x), Capacity) = b.peek + n
    BY <1>2, <1>3, BufferAssumption DEF Least, gsize, Sound
  <2>2. c = [w EXCEPT !.peek = b.peek + n]
    BY <2>1 DEF gused
  <2>3. b.peek + n \in 0..Capacity
    BY <1>2, BufferAssumption DEF Sound
  <2> HIDE DEF w, c
  <2> QED
    BY <1>3, <2>2, <2>3 DEF Sound
<1> HIDE DEF w, c
<1>5. Sound(c) /\ used(c) = used(b) + n
  BY <1>1, <1>2, <1>4, BufferAssumption DEF Sound, used
<1>6. /\ bs \in Seq(Bytes) /\ Len(bs) = n
  <2>1. bs \in Seq(Bytes)
    BY <1>2, SeqDef
  <2>2. Len(bs) \in Nat /\ 1..Len(bs) = 1..n
    BY <1>2, <2>1, LenProperties
  <2> QED
    BY <1>2, <2>1, <2>2
<1>7. /\ View(b) \o bs \in Seq(Bytes)
      /\ Len(View(b) \o bs) = used(b) + n
      /\ \A i \in 1..(used(b) + n) : (View(b) \o bs)[i] =
             IF i <= used(b) THEN View(b)[i] ELSE bs[i - used(b)]
  <2>1. \A s, t \in Seq(Bytes) :
            /\ s \o t \in Seq(Bytes)
            /\ Len(s \o t) = Len(s) + Len(t)
            /\ \A i \in 1..(Len(s) + Len(t)) : (s \o t)[i] =
                   IF i <= Len(s) THEN s[i] ELSE t[i - Len(s)]
    BY ConcatProperties
  <2>2. View(b) \in Seq(Bytes)
    BY <1>1
  <2> DEFINE s == View(b)
  <2> HIDE DEF s
  <2>3. /\ s \o bs \in Seq(Bytes)
        /\ Len(s \o bs) = used(b) + n
        /\ \A i \in 1..(used(b) + n) : (s \o bs)[i] =
               IF i <= used(b) THEN s[i] ELSE bs[i - used(b)]
    <3>1. s \in Seq(Bytes) /\ Len(s) = used(b)
      BY <1>1 DEF s
    <3>2. /\ s \o bs \in Seq(Bytes)
          /\ Len(s \o bs) = Len(s) + Len(bs)
          /\ \A i \in 1..(Len(s) + Len(bs)) : (s \o bs)[i] =
                 IF i <= Len(s) THEN s[i] ELSE bs[i - Len(s)]
      BY <1>6, <2>1, <3>1, Zenon
    <3> QED
      BY <1>6, <3>1, <3>2, Zenon
  <2> QED
    BY <2>3 DEF s
<1>8. ASSUME NEW i \in 1..(used(b) + n)
      PROVE  c.data[c.base + i] = (View(b) \o bs)[i]
  <2>0. b.base + i \in 1..Capacity
    BY <1>1, <1>2, BufferAssumption DEF Sound
  <2>1. CASE i <= used(b)
    <3>1. (b.base + i) - b.peek \notin 1..n /\ i \in 1..used(b)
      BY <1>1, <1>2, <2>1, BufferAssumption DEF Sound
    <3> QED
      BY <1>1, <1>3, <1>4, <1>7, <2>0, <2>1, <3>1
  <2>2. CASE ~(i <= used(b))
    <3>1. (b.base + i) - b.peek = i - used(b) /\ i - used(b) \in 1..n
      BY <1>1, <1>2, <2>2, BufferAssumption DEF Sound
    <3> QED
      BY <1>3, <1>4, <1>7, <2>0, <2>2, <3>1
  <2> QED
    BY <2>1, <2>2
<1>9. View(c) = View(b) \o bs
  BY <1>5, <1>7, <1>8, ViewEqual
<1> QED
  BY <1>2, <1>5, <1>9 DEF c, w

(* reset(): nothing is in use.                                             *)
LEMMA ResetView ==
    ASSUME NEW b, Sound(b)
    PROVE  Sound(reset(b)) /\ View(reset(b)) = <<>>
<1> DEFINE c == reset(b)
<1>0. c = [b EXCEPT !.base = 0, !.peek = 0]
  BY DEF reset
<1> HIDE DEF c
<1>1. Sound(c) /\ used(c) = 0
  <2>1. 0 \in 0..Capacity /\ 0 - 0 = 0
    BY BufferAssumption
  <2>2. c.base = 0 /\ c.peek = 0
    BY <1>0 DEF Sound
  <2>3. c \in [data : [1..Capacity -> Bytes], base : 0..Capacity, peek : 0..Capacity]
    <3> DEFINE A == [1..Capacity -> Bytes]
               B == 0..Capacity
    <3> HIDE DEF A, B
    <3>1. b \in [data : A, base : B, peek : B] /\ 0 \in B
      BY <2>1 DEF Sound, A, B
    <3>2. c \in [data : A, base : B, peek : B]
      BY <1>0, <3>1
    <3> QED
      BY <3>2 DEF A, B
  <2> QED
    BY <2>1, <2>2, <2>3 DEF Sound, used
<1>2. View(c) \in Seq(Bytes) /\ Len(View(c)) = 0
  BY <1>1, ViewProperties
<1>3. View(c) = <<>>
  BY <1>2, EmptySeq
<1> QED
  BY <1>1, <1>3 DEF c

----------------------------------------------------------------------------
LEMMA InitSound == Init => Inv /\ Fifo!Init
<1> SUFFICES ASSUME Init PROVE Inv /\ Fifo!Init
  OBVIOUS
<1>1. \A b \in Fresh : Sound(b) /\ used(b) = 0
  BY BufferAssumption DEF Fresh, Sound, used
<1>2. \A b \in Fresh : View(b) = <<>>
  <2> SUFFICES ASSUME NEW b \in Fresh PROVE View(b) = <<>>
    OBVIOUS
  <2>1. View(b) \in Seq(Bytes) /\ Len(View(b)) = 0
    BY <1>1, ViewProperties
  <2> QED
    BY <2>1, EmptySeq
<1> QED
  BY <1>1, <1>2 DEF Init, Inv, Fifo!Init

(* Every step keeps the cursors in order and is one of the two queues.     *)
LEMMA StepSound ==
    Inv /\ [Next]_vars => Inv' /\ [Fifo!Next]_(Fifo!fifoVars)
<1> SUFFICES ASSUME Inv, [Next]_vars
             PROVE  Inv' /\ (Fifo!Next \/ UNCHANGED Fifo!fifoVars)
  OBVIOUS
<1> USE DEF Inv
<1>1. CASE Get
  <2>1. PICK n \in 0..gsize(inbound), x \in 0..Excess :
            /\ x > 0 => n = gsize(inbound)
            /\ \E bs \in [1..n -> Bytes] :
                   inbound' = gused(Written(inbound, bs), n + x)
    BY <1>1 DEF Get
  <2>2. PICK bs \in [1..n -> Bytes] :
            inbound' = gused(Written(inbound, bs), n + x)
    BY <2>1
  <2>3. x \in Nat
    BY BufferAssumption
  <2>4. /\ Sound(inbound') /\ View(inbound') = View(inbound) \o bs
        /\ used(inbound) + n <= Capacity /\ n \in 0..Capacity
    BY <2>1, <2>2, <2>3, GetView
  <2>5. outbound' = outbound
    BY <1>1 DEF Get
  <2>6. Inv'
    BY <2>4, <2>5
  <2>7. Fifo!Insert
    <3>1. bs \in Fifo!Contents /\ Len(bs) = n
      BY <2>4, BufferAssumption DEF Fifo!Contents
    <3>2. Len(View(inbound)) = used(inbound)
      BY ViewProperties
    <3>3. View(outbound)' = View(outbound) /\ View(inbound)' = View(inbound')
      BY <2>5 DEF View
    <3> QED
      BY <2>4, <3>1, <3>2, <3>3 DEF Fifo!Insert
  <2> QED
    BY <2>6, <2>7 DEF Fifo!Next
<1>2. CASE Put
  <2>1. PICK n \in 0..(used(outbound) + Excess) : outbound' = pused(outbound, n)
    BY <1>2 DEF Put
  <2>2. n \in Nat
    BY BufferAssumption, ViewProperties
  <2>3. /\ Sound(outbound')
        /\ \E m \in 0..Len(View(outbound)) :
               View(outbound') = SubSeq(View(outbound), m + 1, Len(View(outbound)))
    BY <2>1, <2>2, PutView
  <2>4. inbound' = inbound
    BY <1>2 DEF Put
  <2>5. View(inbound)' = View(inbound) /\ View(outbound)' = View(outbound')
    BY <2>4 DEF View
  <2>6. Fifo!Remove
    BY <2>3, <2>5 DEF Fifo!Remove
  <2> QED
    BY <2>3, <2>4, <2>6 DEF Fifo!Next
<1>3. CASE Pack
  <2>1. Sound(inbound') /\ View(inbound') = View(inbound) /\ outbound' = outbound
    BY <1>3, PackView DEF Pack
  <2>2. View(inbound)' = View(inbound') /\ View(outbound)' = View(outbound)
    BY <2>1 DEF View
  <2> QED
    BY <2>1, <2>2 DEF Fifo!fifoVars
<1>4. CASE Reset
  <2>1. Sound(inbound') /\ View(inbound') = <<>> /\ outbound' = outbound
    BY <1>4, ResetView DEF Reset
  <2>2. View(inbound)' = View(inbound') /\ View(outbound)' = View(outbound)
    BY <2>1 DEF View
  <2> QED
    BY <2>1, <2>2 DEF Fifo!Next, Fifo!Clear
<1>5. CASE Swap
  <2>1. inbound' = outbound /\ outbound' = inbound
    BY <1>5 DEF Swap
  <2>2. View(inbound)' = View(outbound) /\ View(outbound)' = View(inbound)
    BY <2>1 DEF View
  <2> QED
    BY <2>1, <2>2 DEF Fifo!Next, Fifo!Exchange
<1>6. CASE UNCHANGED vars
  BY <1>6 DEF vars, Fifo!fifoVars, View
<1> QED
  BY <1>1, <1>2, <1>3, <1>4, <1>5, <1>6 DEF Next

(* The cursors stay in order and inside the block (Buffer.hpp:114-154).    *)
THEOREM CursorsStayOK == Spec => []CursorsOK
<1>1. Inv => CursorsOK
  BY BufferAssumption DEF Inv, Sound, CursorsOK
<1> QED
  BY <1>1, InitSound, StepSound, PTL DEF Spec

(* pack() frees all that is not in use and moves what is                   *)
(* (Buffer.hpp:126-135).                                                   *)
THEOREM PackingFreesAll == Spec => PackFreesAll
<1>1. Inv /\ [Next]_vars =>
          [Pack => /\ gsize(inbound') = Capacity - used(inbound)
                   /\ View(inbound') = View(inbound)]_vars
  BY PackView DEF Inv, Pack
<1> QED
  BY <1>1, InitSound, StepSound, PTL DEF Spec, PackFreesAll

(* A pair of buffers is a pair of bounded queues of bytes: none is lost,   *)
(* repeated or reordered (Buffer.hpp:75-155).                              *)
THEOREM BufferImplementsFifo == Spec => ImplementsFifo
  BY InitSound, StepSound, PTL DEF Spec, ImplementsFifo, Fifo!Spec
=============================================================================
