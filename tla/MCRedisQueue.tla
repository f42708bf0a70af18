---------------------------- MODULE MCRedisQueue ----------------------------
(***************************************************************************)
(* Instances of RedisQueue for TLC.                                        *)
(***************************************************************************)
EXTENDS RedisQueue, TLC

CONSTANTS s1, s2, k1, k2, k3

\* The messages differ in size, so that both modes and partial sums are told apart.
Sizes == [m \in Messages |-> 3 + m]

Symmetry == Permutations(Packets) \cup Permutations(Senders)
=============================================================================
