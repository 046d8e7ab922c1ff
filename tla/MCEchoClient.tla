---------------------------- MODULE MCEchoClient ----------------------------
(* Instances of EchoClient for TLC.                                        *)
EXTENDS EchoClientInv, TLC
=============================================================================
