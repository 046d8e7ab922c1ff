------------------------------ MODULE ByteFifo ------------------------------
(***************************************************************************)
(* What a pair of I/O buffers promises: two bounded queues of bytes, that  *)
(* can be exchanged.  Abstract specification of code/Buffer.hpp.           *)
(***************************************************************************)
EXTENDS Naturals, Sequences

CONSTANTS Bytes, Capacity

VARIABLES inbound, outbound

fifoVars == <<inbound, outbound>>

Contents == UNION {[1..n -> Bytes] : n \in 0..Capacity}

Init == inbound = <<>> /\ outbound = <<>>

Insert ==
    \E bs \in Contents :
        /\ Len(inbound) + Len(bs) <= Capacity
        /\ inbound' = inbound \o bs
        /\ UNCHANGED outbound

Remove ==
    \E n \in 0..Len(outbound) :
        /\ outbound' = SubSeq(outbound, n + 1, Len(outbound))
        /\ UNCHANGED inbound

Exchange == inbound' = outbound /\ outbound' = inbound

Clear == inbound' = <<>> /\ UNCHANGED outbound

Next == Insert \/ Remove \/ Exchange \/ Clear

Spec == Init /\ [][Next]_fifoVars
=============================================================================
