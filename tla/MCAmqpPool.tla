----------------------------- MODULE MCAmqpPool -----------------------------
(***************************************************************************)
(* An instance of AmqpPool for TLC.                                        *)
(***************************************************************************)
EXTENDS AmqpPool

CONSTANTS c1, c2, k1, k2
=============================================================================
