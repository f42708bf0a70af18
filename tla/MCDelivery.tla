----------------------------- MODULE MCDelivery -----------------------------
(***************************************************************************)
(* Instance of Delivery for TLC: c1 is logged in as x and gets deflate, c2 *)
(* is a guest without; c1 subscribes to p.  big is worth compressing, bye  *)
(* is not.                                                                 *)
(***************************************************************************)
EXTENDS Delivery, TLC

CONSTANTS c1, c2, f1, f2, p, x, t1, t2, big, bye

Subscribers == (p :> {c1}) @@ (x :> {c1})

To(m, y) == [msg |-> m, to |-> y]

Cmd(op, legs) == [op |-> op, legs |-> legs]

SomeRequests ==
    {Cmd(topicPublishBulk, <<To(big, p)>>),
     Cmd(singleCastBulk, <<To(bye, c1), To(big, c1)>>),
     Cmd(singleCastBulkByCustomerId, <<To(bye, x)>>),
     Cmd(broadcastBulk, <<To(big, All)>>),
     Cmd(forceOffline, <<To(bye, c1)>>),
     Cmd(forceOfflineByCustomerId, <<To(NoMsg, x)>>),
     Cmd(forceOfflineGuest(FALSE), <<To(bye, c1), To(bye, c2)>>),
     Cmd(forceOfflineGuest(TRUE), <<To(NoMsg, c2)>>),
     Cmd(connInfoUpdate, <<To(bye, c1)>>),
     Cmd(topicDelete, <<To(big, p)>>)}

Symmetry == Permutations(Frames) \cup Permutations(Tasks)
=============================================================================
