---------------------------- MODULE MCMPSCQueue ----------------------------
(***************************************************************************)
(* Instance of MPSCQueue for TLC.                                          *)
(***************************************************************************)
EXTENDS MPSCQueue

CONSTANTS p1, p2

\* One producer calls TryEnqueue, the other one Enqueue.
OneTries == [p \in Producers |-> {p = p1}]
=============================================================================
