--------------------------- MODULE AmqpPoolState ---------------------------
(***************************************************************************)
(* The state of a pool of AmqpPool, and what is to hold of it.             *)
(***************************************************************************)
EXTENDS Integers, Sequences, FiniteSets

CONSTANTS Sockets,      \* connections or channels; each lives once
          Clients,      \* goroutines that get and release
          Ticker,       \* the goroutine of loopHeartbeat
          NoSocket,
          PoolSize      \* poolSize

Beaters == Sockets \cup {Ticker}

ASSUME PoolAssumption ==
    /\ Ticker \notin Sockets
    /\ NoSocket \notin Sockets
    /\ PoolSize \in Nat \ {0}
    /\ IsFiniteSet(Clients) /\ IsFiniteSet(Sockets)
    /\ Clients \cap Beaters = {}      \* goroutines are finitely many and distinct

VARIABLES
    size,       \* tokens in size
    pool,       \* the sockets in pool
    state,      \* per socket: "none", "open" or "closed" (IsClosed)
    client,     \* per client: the step of get or release
    held,       \* per client: its socket
    beat,       \* per beater: the step of heartbeat
    left,       \* per beater: the i of its loop
    hand        \* per beater: the socket it looks at

-----------------------------------------------------------------------------
InPool == {pool[i] : i \in 1 .. Len(pool)}

\* The clients and beaters that owe the pool a socket or a token.
Debtors ==
    {k \in Clients : client[k] \in {"create", "made", "sleep", "hold", "put", "token"}}
    \cup {b \in Beaters : beat[b] \in {"check", "back", "drop"}}

(***************************************************************************)
(* The tokens, the sockets in the pool and the debts of the goroutines sum *)
(* up to PoolSize at every step of every goroutine: no token is lost when  *)
(* a socket dies in somebody's hands, and none is returned twice.          *)
(***************************************************************************)
CapacityConserved == size + Len(pool) + Cardinality(Debtors) = PoolSize

(***************************************************************************)
(* release and heartbeat never block on a full channel, however many of    *)
(* them run at once: there is room whenever one of them sends.             *)
(***************************************************************************)
NeverBlocks ==
    /\ \A k \in Clients :
        /\ client[k] = "put" => Len(pool) < PoolSize
        /\ client[k] \in {"sleep", "token"} => size < PoolSize
    /\ \A b \in Beaters :
        /\ beat[b] = "back" => Len(pool) < PoolSize
        /\ beat[b] = "drop" => size < PoolSize

(***************************************************************************)
(* A socket is in one place: once in the pool, with one client or in the   *)
(* hand of one heartbeat.  A living one is always somewhere: connections   *)
(* do not leak.                                                            *)
(***************************************************************************)
Owners(c) == {k \in Clients : held[k] = c} \cup {b \in Beaters : hand[b] = c}

OneOwner ==
    /\ \A i, j \in 1 .. Len(pool) : pool[i] = pool[j] => i = j
    /\ \A c \in Sockets :
        /\ Cardinality(Owners(c)) <= 1
        /\ c \in InPool => Owners(c) = {}
        /\ state[c] = "open" => c \in InPool \/ Owners(c) # {}
=============================================================================
