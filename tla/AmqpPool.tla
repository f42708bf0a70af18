------------------------------ MODULE AmqpPool ------------------------------
(***************************************************************************)
(* The pools of the AMQP queue: connPool holds connections, channelPool     *)
(* channels.  Both keep the sockets nobody uses in the buffered Go channel  *)
(* pool and the right to open another one as tokens in the Go channel size. *)
(* A socket may die at any moment.  Three kinds of goroutines look after    *)
(* the pool at once: the clients that get and release, the ticker's         *)
(* heartbeat, and one goroutine per socket that waits for its death and     *)
(* then runs a heartbeat of its own.                                        *)
(*                                                                         *)
(* A send on a Go channel that is full blocks.  The code never looks: that  *)
(* no send on pool or size ever blocks rests on counting alone.             *)
(***************************************************************************)
EXTENDS AmqpPoolState

VARIABLE quit       \* quit.Ctx is done

vars == <<size, pool, state, client, held, beat, left, hand, quit>>

TypeOK ==
    /\ size \in 0 .. PoolSize
    /\ pool \in Seq(Sockets)
    /\ Len(pool) <= PoolSize
    /\ state \in [Sockets -> {"none", "open", "closed"}]
    /\ client \in [Clients -> {"idle", "size", "wait", "create", "made", "sleep",
                               "hold", "put", "token"}]
    /\ held \in [Clients -> Sockets \cup {NoSocket}]
    /\ beat \in [Beaters -> {"idle", "loop", "check", "back", "drop", "done"}]
    /\ left \in [Beaters -> 0 .. PoolSize]
    /\ hand \in [Beaters -> Sockets \cup {NoSocket}]
    /\ quit \in BOOLEAN

Init ==
    /\ size = PoolSize
    /\ pool = << >>
    /\ state = [c \in Sockets |-> "none"]
    /\ client = [k \in Clients |-> "idle"]
    /\ held = [k \in Clients |-> NoSocket]
    /\ beat = [b \in Beaters |-> "idle"]
    /\ left = [b \in Beaters |-> 0]
    /\ hand = [b \in Beaters |-> NoSocket]
    /\ quit = FALSE

-----------------------------------------------------------------------------
(***************************************************************************)
(* getAmqpConnection and getAmqpChannel.                                   *)
(***************************************************************************)
\* A socket of the pool is handed out as it is, dead or alive.
Take(k) ==
    /\ pool # << >>
    /\ held' = [held EXCEPT ![k] = Head(pool)]
    /\ pool' = Tail(pool)
    /\ client' = [client EXCEPT ![k] = "hold"]
    /\ UNCHANGED <<size, state, beat, left, hand, quit>>

Get(k) == client[k] = "idle" /\ Take(k)

\* The pool is empty: ...
GetEmpty(k) ==
    /\ client[k] = "idle"
    /\ pool = << >>
    /\ client' = [client EXCEPT ![k] = "size"]
    /\ UNCHANGED <<size, pool, state, held, beat, left, hand, quit>>

\* ... a token lets the client open a socket, ...
GetToken(k) ==
    /\ client[k] = "size"
    /\ size > 0
    /\ size' = size - 1
    /\ client' = [client EXCEPT ![k] = "create"]
    /\ UNCHANGED <<pool, state, held, beat, left, hand, quit>>

\* ... without one it waits for a socket, ...
GetNoToken(k) ==
    /\ client[k] = "size"
    /\ size = 0
    /\ client' = [client EXCEPT ![k] = "wait"]
    /\ UNCHANGED <<size, pool, state, held, beat, left, hand, quit>>

Wait(k) == client[k] = "wait" /\ Take(k)

\* ... for waitTimeout at most.
WaitTimeout(k) ==
    /\ client[k] = "wait"
    /\ client' = [client EXCEPT ![k] = "idle"]
    /\ UNCHANGED <<size, pool, state, held, beat, left, hand, quit>>

\* createAmpqConn, createChannel: the goroutine that watches the new socket starts, ...
Create(k, c) ==
    /\ client[k] = "create"
    /\ state[c] = "none"
    /\ state' = [state EXCEPT ![c] = "open"]
    /\ held' = [held EXCEPT ![k] = c]
    /\ client' = [client EXCEPT ![k] = "made"]
    /\ UNCHANGED <<size, pool, beat, left, hand, quit>>

\* ... or there is none.
CreateFailed(k) ==
    /\ client[k] = "create"
    /\ client' = [client EXCEPT ![k] = "sleep"]
    /\ UNCHANGED <<size, pool, state, held, beat, left, hand, quit>>

\* The new socket is used if it lives, ...
Made(k) ==
    /\ client[k] = "made"
    /\ state[held[k]] = "open"
    /\ client' = [client EXCEPT ![k] = "hold"]
    /\ UNCHANGED <<size, pool, state, held, beat, left, hand, quit>>

\* ... else the client sleeps ...
MadeClosed(k) ==
    /\ client[k] = "made"
    /\ state[held[k]] = "closed"
    /\ held' = [held EXCEPT ![k] = NoSocket]
    /\ client' = [client EXCEPT ![k] = "sleep"]
    /\ UNCHANGED <<size, pool, state, beat, left, hand, quit>>

\* Mutant: the client returns without giving the token back.
SleepEndKept(k) ==
    /\ client[k] = "sleep"
    /\ client' = [client EXCEPT ![k] = "idle"]
    /\ UNCHANGED <<size, pool, state, held, beat, left, hand, quit>>

\* ... and gives the token back.
SleepEnd(k) ==
    /\ client[k] = "sleep"
    /\ size < PoolSize
    /\ size' = size + 1
    /\ client' = [client EXCEPT ![k] = "idle"]
    /\ UNCHANGED <<pool, state, held, beat, left, hand, quit>>

-----------------------------------------------------------------------------
(***************************************************************************)
(* release: the look at the socket is one step, the send another.          *)
(***************************************************************************)
\* Mutant: a dead socket returns its token and goes back to the pool as well.
ReleaseLookTwice(k) ==
    /\ client[k] = "hold"
    /\ client' = [client EXCEPT ![k] = "put"]
    /\ size' = IF state[held[k]] = "open" THEN size ELSE size + 1
    /\ UNCHANGED <<pool, state, held, beat, left, hand, quit>>

ReleaseLook(k) ==
    /\ client[k] = "hold"
    /\ client' = [client EXCEPT ![k] = IF state[held[k]] = "open" THEN "put" ELSE "token"]
    /\ UNCHANGED <<size, pool, state, held, beat, left, hand, quit>>

\* pool <- socket
ReleasePut(k) ==
    /\ client[k] = "put"
    /\ Len(pool) < PoolSize
    /\ pool' = Append(pool, held[k])
    /\ held' = [held EXCEPT ![k] = NoSocket]
    /\ client' = [client EXCEPT ![k] = "idle"]
    /\ UNCHANGED <<size, state, beat, left, hand, quit>>

\* size <- struct{}{}
ReleaseToken(k) ==
    /\ client[k] = "token"
    /\ size < PoolSize
    /\ size' = size + 1
    /\ held' = [held EXCEPT ![k] = NoSocket]
    /\ client' = [client EXCEPT ![k] = "idle"]
    /\ UNCHANGED <<pool, state, beat, left, hand, quit>>

-----------------------------------------------------------------------------
(***************************************************************************)
(* heartbeat, by the ticker or by the goroutine of a dead socket.          *)
(***************************************************************************)
\* What follows the loop: the ticker waits for its next tick, a watcher returns.
After(b) == IF b = Ticker THEN "idle" ELSE "done"

\* i := len(pool)
BeatStart(b) ==
    /\ beat[b] = "idle"
    /\ b = Ticker => ~quit
    /\ b # Ticker => state[b] = "closed"
    /\ left' = [left EXCEPT ![b] = Len(pool)]
    /\ beat' = [beat EXCEPT ![b] = "loop"]
    /\ UNCHANGED <<size, pool, state, client, held, hand, quit>>

\* Mutant: every round looks at the socket at the end of the pool.
BeatTakeLast(b) ==
    /\ beat[b] = "loop"
    /\ left[b] > 0
    /\ pool # << >>
    /\ hand' = [hand EXCEPT ![b] = pool[Len(pool)]]
    /\ pool' = SubSeq(pool, 1, Len(pool) - 1)
    /\ beat' = [beat EXCEPT ![b] = "check"]
    /\ UNCHANGED <<size, state, client, held, left, quit>>

\* socket := <-pool
BeatTake(b) ==
    /\ beat[b] = "loop"
    /\ left[b] > 0
    /\ pool # << >>
    /\ hand' = [hand EXCEPT ![b] = Head(pool)]
    /\ pool' = Tail(pool)
    /\ beat' = [beat EXCEPT ![b] = "check"]
    /\ UNCHANGED <<size, state, client, held, left, quit>>

\* default: continue
BeatEmpty(b) ==
    /\ beat[b] = "loop"
    /\ left[b] > 0
    /\ pool = << >>
    /\ left' = [left EXCEPT ![b] = @ - 1]
    /\ UNCHANGED <<size, pool, state, client, held, beat, hand, quit>>

BeatEnd(b) ==
    /\ beat[b] = "loop"
    /\ left[b] = 0
    /\ beat' = [beat EXCEPT ![b] = After(b)]
    /\ UNCHANGED <<size, pool, state, client, held, left, hand, quit>>

\* case <-quit.Ctx.Done()
BeatQuit(b) ==
    /\ beat[b] = "loop"
    /\ left[b] > 0
    /\ quit
    /\ beat' = [beat EXCEPT ![b] = "done"]
    /\ UNCHANGED <<size, pool, state, client, held, left, hand, quit>>

\* Mutant: the heartbeat throws every socket away.
BeatLookAway(b) ==
    /\ beat[b] = "check"
    /\ beat' = [beat EXCEPT ![b] = "drop"]
    /\ UNCHANGED <<size, pool, state, client, held, left, hand, quit>>

BeatLook(b) ==
    /\ beat[b] = "check"
    /\ beat' = [beat EXCEPT ![b] = IF state[hand[b]] = "open" THEN "back" ELSE "drop"]
    /\ UNCHANGED <<size, pool, state, client, held, left, hand, quit>>

\* A living socket goes back, ...
BeatBack(b) ==
    /\ beat[b] = "back"
    /\ Len(pool) < PoolSize
    /\ pool' = Append(pool, hand[b])
    /\ hand' = [hand EXCEPT ![b] = NoSocket]
    /\ left' = [left EXCEPT ![b] = @ - 1]
    /\ beat' = [beat EXCEPT ![b] = "loop"]
    /\ UNCHANGED <<size, state, client, held, quit>>

\* ... a dead one becomes a token (release(nil)).
BeatDrop(b) ==
    /\ beat[b] = "drop"
    /\ size < PoolSize
    /\ size' = size + 1
    /\ hand' = [hand EXCEPT ![b] = NoSocket]
    /\ left' = [left EXCEPT ![b] = @ - 1]
    /\ beat' = [beat EXCEPT ![b] = "loop"]
    /\ UNCHANGED <<pool, state, client, held, quit>>

-----------------------------------------------------------------------------
\* The server, the network or the library closes a socket.
Die(c) ==
    /\ state[c] = "open"
    /\ state' = [state EXCEPT ![c] = "closed"]
    /\ UNCHANGED <<size, pool, client, held, beat, left, hand, quit>>

\* quit.Execute
Quit ==
    /\ ~quit
    /\ quit' = TRUE
    /\ UNCHANGED <<size, pool, state, client, held, beat, left, hand>>

GetRelease(k) ==
    \/ GetToken(k)
    \/ GetNoToken(k)
    \/ Wait(k)
    \/ WaitTimeout(k)
    \/ \E c \in Sockets : Create(k, c)
    \/ CreateFailed(k)
    \/ Made(k)
    \/ MadeClosed(k)
    \/ SleepEnd(k)
    \/ ReleaseLook(k)
    \/ ReleasePut(k)
    \/ ReleaseToken(k)

Heartbeat(b) ==
    \/ BeatStart(b)
    \/ BeatTake(b)
    \/ BeatEmpty(b)
    \/ BeatEnd(b)
    \/ BeatQuit(b)
    \/ BeatLook(b)
    \/ BeatBack(b)
    \/ BeatDrop(b)

Next ==
    \/ \E k \in Clients : Get(k) \/ GetEmpty(k) \/ GetRelease(k)
    \/ \E b \in Beaters : Heartbeat(b)
    \/ \E c \in Sockets : Die(c)
    \/ Quit

Spec == Init /\ [][Next]_vars

\* Goroutines run, timers fire; nobody has to ask for a socket, and none has to die.
Fairness ==
    /\ \A k \in Clients : WF_vars(GetRelease(k))
    /\ \A b \in Beaters : WF_vars(Heartbeat(b))

FairSpec == Spec /\ Fairness

-----------------------------------------------------------------------------
(***************************************************************************)
(* A dead socket does not stay in the pool, even one that died between the *)
(* look of release and its send, when its own heartbeat has come and gone. *)
(***************************************************************************)
DeadLeaves == \A c \in Sockets : c \in InPool /\ state[c] = "closed" ~> c \notin InPool \/ quit
=============================================================================
