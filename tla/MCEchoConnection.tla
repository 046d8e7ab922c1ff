-------------------------- MODULE MCEchoConnection --------------------------
(* Instances of EchoConnection for TLC.                                    *)
EXTENDS EchoRefinement, EchoConnectionInv, TLC
=============================================================================
