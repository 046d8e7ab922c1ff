---------------------------- MODULE MCOverlapped ----------------------------
(* Instances of Overlapped for TLC.                                        *)
EXTENDS Overlapped, TLC
=============================================================================
