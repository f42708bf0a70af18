---------------------------- MODULE BoundedFIFO ----------------------------
(***************************************************************************)
(* What pkg/queue promises its users: a first-in first-out queue of at     *)
(* most Cap items.  Closing it does not stop the reader before it has read *)
(* everything; a Put that was under way when the queue was closed may still *)
(* succeed, even after the reader has ended.                               *)
(***************************************************************************)
EXTENDS Naturals, Sequences

CONSTANTS Items, Cap

VARIABLES accepted,    \* items put, in order
          delivered,   \* items read, in order
          closed,      \* Close was called
          ended        \* the reader was told there is nothing more

vars == <<accepted, delivered, closed, ended>>

Init ==
    /\ accepted = << >>
    /\ delivered = << >>
    /\ closed = FALSE
    /\ ended = FALSE

Put(x) ==
    /\ Len(accepted) - Len(delivered) < Cap
    /\ accepted' = Append(accepted, x)
    /\ UNCHANGED <<delivered, closed, ended>>

Get ==
    /\ ~ended
    /\ Len(delivered) < Len(accepted)
    /\ delivered' = Append(delivered, accepted[Len(delivered) + 1])
    /\ UNCHANGED <<accepted, closed, ended>>

Shut ==
    /\ closed' = TRUE
    /\ UNCHANGED <<accepted, delivered, ended>>

End ==
    /\ closed
    /\ delivered = accepted
    /\ ended' = TRUE
    /\ UNCHANGED <<accepted, delivered, closed>>

Next == (\E x \in Items : Put(x)) \/ Get \/ Shut \/ End

Spec == Init /\ [][Next]_vars
=============================================================================
