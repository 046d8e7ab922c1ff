------------------------------- MODULE Buffer -------------------------------
(***************************************************************************)
(* code/Buffer.hpp: a memory block with two cursors.  What lies between    *)
(* myBase and myPeek is in use; I/O inserts at myPeek ("get" operations)   *)
(* and consumes from myBase ("put" operations).  Two buffers are used as a *)
(* pair and swapped, as in demo/echo-server.cpp.                           *)
(***************************************************************************)
EXTENDS Naturals, Sequences

CONSTANTS
    Bytes,      \* values of a byte
    Capacity,   \* size both buffers are made with
    Excess      \* how far beyond the space left a caller's count may be

ASSUME BufferAssumption == Capacity \in Nat /\ Excess \in Nat

VARIABLES inbound, outbound   \* the buffers that I/O gets into and puts from

vars == <<inbound, outbound>>

Least(a, b) == IF a < b THEN a ELSE b

used(b) == b.peek - b.base
gsize(b) == Capacity - b.peek

(* What was received and not yet sent, which is what a caller sees from    *)
(* pbase() on.                                                             *)
View(b) == SubSeq(b.data, b.base + 1, b.peek)

(* I/O has written bs at gbase(), as far as there is room.                 *)
Written(b, bs) ==
    [b EXCEPT !.data = [i \in 1..Capacity |->
        IF i - b.peek \in DOMAIN bs THEN bs[i - b.peek] ELSE @[i]]]

gused(b, n) == [b EXCEPT !.peek = Least(@ + n, Capacity)]

(* Mutant: the count is trusted.                                           *)
pused_Unclamped(b, n) == [b EXCEPT !.base = @ + n]

pused(b, n) == [b EXCEPT !.base = Least(@ + n, b.peek)]

(* Mutant: the bytes stay where they are; the cursors do not.              *)
pack_NoCopy(b) == [b EXCEPT !.peek = @ - b.base, !.base = 0]

(* std::copy() to the front, where it may overlap what it copies.          *)
pack(b) ==
    [b EXCEPT !.data = [i \in 1..Capacity |->
                          IF i <= used(b) THEN @[i + b.base] ELSE @[i]],
              !.base = 0, !.peek = used(b)]

reset(b) == [b EXCEPT !.base = 0, !.peek = 0]

----------------------------------------------------------------------------
(* new char[size] leaves the bytes unset.                                  *)
Fresh == [data : [1..Capacity -> Bytes], base : {0}, peek : {0}]

Init == inbound \in Fresh /\ outbound \in Fresh

(* A get operation: at most gsize() bytes arrive, but gused() is told any  *)
(* count that covers them.                                                 *)
Get ==
    \E n \in 0..gsize(inbound), x \in 0..Excess :
        /\ x > 0 => n = gsize(inbound)
        /\ \E bs \in [1..n -> Bytes] :
               inbound' = gused(Written(inbound, bs), n + x)
        /\ UNCHANGED outbound

Put ==
    \E n \in 0..(used(outbound) + Excess) :
        outbound' = pused(outbound, n) /\ UNCHANGED inbound

Pack == inbound' = pack(inbound) /\ UNCHANGED outbound
Reset == inbound' = reset(inbound) /\ UNCHANGED outbound
Swap == inbound' = outbound /\ outbound' = inbound

Next == Get \/ Put \/ Pack \/ Reset \/ Swap

Spec == Init /\ [][Next]_vars

----------------------------------------------------------------------------
(* The cursors stay in order and inside the block.                         *)
CursorsOK ==
    \A b \in {inbound, outbound} :
        /\ b.data \in [1..Capacity -> Bytes]
        /\ b.base \in 0..b.peek /\ b.peek \in 0..Capacity

(* Seen from the cursors the pair is two bounded queues: no byte is lost,  *)
(* repeated or reordered by pack(), swap() or by counts that are too large *)
(* (Buffer.hpp:114-154).                                                   *)
Fifo == INSTANCE ByteFifo WITH
            inbound <- View(inbound), outbound <- View(outbound)
ImplementsFifo == Fifo!Spec

(* "free up space for next insert" (Buffer.hpp:126): after pack() all that *)
(* is not in use can be filled again, and what is in use is what it was.   *)
PackFreesAll ==
    [][Pack => /\ gsize(inbound') = Capacity - used(inbound)
               /\ View(inbound') = View(inbound)]_vars
=============================================================================
