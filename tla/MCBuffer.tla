------------------------------ MODULE MCBuffer ------------------------------
(* Instances of Buffer for TLC.                                            *)
EXTENDS Buffer, TLC
=============================================================================
