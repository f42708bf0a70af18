----------------------------- MODULE MCInbound ------------------------------
(***************************************************************************)
(* Instance of Inbound for TLC: two event loops and room for one client.   *)
(* The plans: three clients compete for the place; one client talks as     *)
(* fast as it likes; one sends messages that are too big; one sends        *)
(* heartbeats, or forgets to.                                              *)
(***************************************************************************)
EXTENDS Inbound, TLC

CONSTANTS c1, c2, c3

Loop == (c1 :> 1) @@ (c2 :> 2) @@ (c3 :> 2)
Limits == ("OnOpen" :> 2) @@ ("OnMessage" :> 2)

Faster == ("OnOpen" :> 3) @@ ("OnMessage" :> 0)

Only(x) == (c1 :> x) @@ (c2 :> {}) @@ (c3 :> {})

Alone(answer, kinds, t) ==
    [answers |-> Only({answer}), inputs |-> Only(kinds), quits |-> "beat" \in kinds, rates |-> {}, until |-> Epoch + t]

Compete ==
    [answers |-> (c1 :> {"allow", "deny"}) @@ (c2 :> {"allow"}) @@ (c3 :> {"deny"}), inputs |-> Only({}),
     quits |-> TRUE, rates |-> {Faster}, until |-> Epoch + 1]

AllPlans == {Compete, Alone("allow", {"text"}, 5), Alone("none", {"text", "big"}, 1), Alone("none", {"beat"}, 12)}
=============================================================================
