----------------------------- MODULE MCRegistry -----------------------------
(***************************************************************************)
(* Instances of Registry for TLC.  The commands are the ones that can      *)
(* disagree: customers and topics change, are cleared and set again.       *)
(***************************************************************************)
EXTENDS RegistryInvariant, TLC

CONSTANTS c1, c2, t1, t2, x1, x2, p1, p2

Blank(op, c) == [op |-> op, conn |-> c, customerId |-> NoCustomer, session |-> FALSE,
                 topics |-> {}, del |-> {}]

Update(c, x, ps) == [Blank("connInfoUpdate", c) EXCEPT !.customerId = x, !.session = TRUE, !.topics = ps]
Delete(c, fs)    == [Blank("connInfoDelete", c) EXCEPT !.del = fs]
Sub(c, ps)       == [Blank("topicSubscribe", c) EXCEPT !.topics = ps]
Unsub(c, ps)     == [Blank("topicUnsubscribe", c) EXCEPT !.topics = ps]
DelTopic(ps)     == [Blank("topicDelete", c1) EXCEPT !.topics = ps]
Offline(c)       == Blank("forceOffline", c)
OfflineBy(x)     == [Blank("forceOfflineByCustomerId", c1) EXCEPT !.customerId = x]
OfflineGuest(c)  == Blank("forceOfflineGuest", c)

\* All commands, on one connection; the business deletes p1 and never p2.
AllCommands ==
    {Update(c1, x2, {p2}), Delete(c1, Fields), Sub(c1, {p1, p2}), Unsub(c1, {p2}),
     DelTopic({p1}), Offline(c1), OfflineBy(x2), OfflineGuest(c1)}

AllReplies == {NoReply,
               [customerId |-> x1, session |-> FALSE, topics |-> {p1, p2}]}

Symmetry == Permutations(Tasks)
=============================================================================
