--------------------------- MODULE MCAmqpPublish ---------------------------
(***************************************************************************)
(* Instances of AmqpPublish for TLC.                                       *)
(***************************************************************************)
EXTENDS AmqpPublish

CONSTANTS s1
=============================================================================
