------------------------------- MODULE Worker -------------------------------
(***************************************************************************)
(* Forwarding events to the business over its worker connections.          *)
(*                                                                         *)
(* A worker connection has two goroutines: process reads requests          *)
(* (Register, Unregister), loopSend writes what is in the sendCh of the    *)
(* connection.  Either may call Close.  Manager lists, per event, the       *)
(* connections that take it; the goroutines of the customer side ask it for *)
(* a connection and Send to it.  The packets come from a pool and go back   *)
(* to it.                                                                  *)
(*                                                                         *)
(* sendCh is the bounded FIFO that MPSCQueue implements (BoundedFIFO): a    *)
(* Send that saw it open may still put its packet after it was closed.      *)
(***************************************************************************)
EXTENDS Naturals, Sequences, FiniteSets

CONSTANTS Workers,      \* worker connections; each lives once
          Senders,      \* goroutines of the customer side that forward events
          Events,       \* netsvrProtocol.Event without the placeholder
          Packets,      \* packet objects
          Cap,          \* capacity of sendCh (SendChanCap)
          DequeueSize,  \* packets loopSend takes at a time
          MaxRequests,  \* bound: requests per connection
          MaxForwards,  \* bound: events a sender forwards
          NoWorker

\* What a packet says: the answer to a Register (granted or not), to an Unregister, an
\* event of a customer; on the wire also the part of a packet that a failed write left.
Answers == {"registered", "refused", "unregistered"}
Contents == Answers \cup {"event"}

ASSUME WorkerAssumption ==
    /\ NoWorker \notin Workers
    /\ Cap \in Nat \ {0}
    /\ DequeueSize \in Nat \ {0}
    /\ MaxRequests \in Nat
    /\ MaxForwards \in Nat

VARIABLES
    recv,       \* per connection: the step of process
    events,     \* per connection: the events it takes, {} before Register
    requests,   \* per connection: requests read
    listing,    \* per connection: events process still has to set or delete in Manager
    target,     \* per connection: the connection its Unregister names
    collect,    \* Manager: per event, the connections that take it
    closeLock,  \* per connection: Close has begun
    closer,     \* per connection: who runs Close: "nobody", "recv" or "send"
    toDel,      \* per connection: events Close still has to delete in Manager
    tcp,        \* per connection: the socket is open
    timer,      \* per connection: the 100ms timer that closes sendCh is armed
    sendCh, chClosed,   \* per connection: the queue and its closed flag
    loop,       \* per connection: the step of loopSend
    batch, next,        \* per connection: the packets loopSend took, the next one to write
    bulk,       \* per connection: the batch is below packLimit and written at once
    wire,       \* per connection: what the business receives
    pool,       \* packetObjPool
    content,    \* per packet: what it says
    spc, to, held, forwards,    \* per sender: step, connection, packet, events forwarded
    late,       \* history, per connection: it was listed after Close had begun
    lost        \* history, per connection: an answer did not fit into sendCh, a write failed

process == <<recv, events, requests, listing, target>>
closing == <<closeLock, closer, toDel, timer>>
loopSend == <<loop, batch, next, bulk>>
sender == <<spc, to, held, forwards>>
history == <<late, lost>>
vars == <<process, collect, closing, tcp, sendCh, chClosed, loopSend, wire, pool, content,
          sender, history>>

TypeOK ==
    /\ recv \in [Workers -> {"none", "read", "list", "unlist", "close", "hangup", "gone"}]
    /\ events \in [Workers -> SUBSET Events]
    /\ requests \in [Workers -> 0 .. MaxRequests]
    /\ listing \in [Workers -> SUBSET Events]
    /\ target \in [Workers -> Workers \cup {NoWorker}]
    /\ collect \in [Events -> SUBSET Workers]
    /\ closeLock \in [Workers -> BOOLEAN]
    /\ closer \in [Workers -> {"nobody", "recv", "send"}]
    /\ toDel \in [Workers -> SUBSET Events]
    /\ tcp \in [Workers -> BOOLEAN]
    /\ timer \in [Workers -> BOOLEAN]
    /\ sendCh \in [Workers -> Seq(Packets)]
    /\ \A w \in Workers : Len(sendCh[w]) <= Cap
    /\ chClosed \in [Workers -> BOOLEAN]
    /\ loop \in [Workers -> {"dequeue", "write", "close", "done"}]
    /\ batch \in [Workers -> Seq(Packets)]
    /\ next \in [Workers -> Nat]
    /\ bulk \in [Workers -> BOOLEAN]
    /\ wire \in [Workers -> Seq(Contents \cup {"part"})]
    /\ pool \in SUBSET Packets
    /\ content \in [Packets -> Contents]
    /\ spc \in [Senders -> {"idle", "got", "held"}]
    /\ to \in [Senders -> Workers \cup {NoWorker}]
    /\ held \in [Senders -> SUBSET Packets]
    /\ forwards \in [Senders -> 0 .. MaxForwards]
    /\ late \in [Workers -> BOOLEAN]
    /\ lost \in [Workers -> BOOLEAN]

Init ==
    /\ recv = [w \in Workers |-> "none"]
    /\ events = [w \in Workers |-> {}]
    /\ requests = [w \in Workers |-> 0]
    /\ listing = [w \in Workers |-> {}]
    /\ target = [w \in Workers |-> NoWorker]
    /\ collect = [e \in Events |-> {}]
    /\ closeLock = [w \in Workers |-> FALSE]
    /\ closer = [w \in Workers |-> "nobody"]
    /\ toDel = [w \in Workers |-> {}]
    /\ tcp = [w \in Workers |-> FALSE]
    /\ timer = [w \in Workers |-> FALSE]
    /\ sendCh = [w \in Workers |-> << >>]
    /\ chClosed = [w \in Workers |-> FALSE]
    /\ loop = [w \in Workers |-> "dequeue"]
    /\ batch = [w \in Workers |-> << >>]
    /\ next = [w \in Workers |-> 1]
    /\ bulk = [w \in Workers |-> FALSE]
    /\ wire = [w \in Workers |-> << >>]
    /\ pool = Packets
    /\ content = [k \in Packets |-> "event"]
    /\ spc = [s \in Senders |-> "idle"]
    /\ to = [s \in Senders |-> NoWorker]
    /\ held = [s \in Senders |-> {}]
    /\ forwards = [s \in Senders |-> 0]
    /\ late = [w \in Workers |-> FALSE]
    /\ lost = [w \in Workers |-> FALSE]

-----------------------------------------------------------------------------
(***************************************************************************)
(* process: one request after the other.                                   *)
(***************************************************************************)
\* newConn and go process
Accept(w) ==
    /\ recv[w] = "none"
    /\ recv' = [recv EXCEPT ![w] = "read"]
    /\ tcp' = [tcp EXCEPT ![w] = TRUE]
    /\ UNCHANGED <<events, requests, listing, target, collect, closing, sendCh, chClosed, loopSend,
                   wire, pool, content, sender, history>>

\* workerConn.Send of an answer: a packet of the pool says it and is put into sendCh, or
\* goes back to the pool when sendCh is closed or full.
Answer(w, a) ==
    IF chClosed[w] \/ Len(sendCh[w]) >= Cap
    THEN /\ lost' = [lost EXCEPT ![w] = TRUE]
         /\ UNCHANGED <<sendCh, pool, content>>
    ELSE \E k \in pool :
            /\ content' = [content EXCEPT ![k] = a]
            /\ pool' = pool \ {k}
            /\ sendCh' = [sendCh EXCEPT ![w] = Append(@, k)]
            /\ UNCHANGED lost

Request(w) ==
    /\ recv[w] = "read"
    /\ tcp[w]
    /\ requests[w] < MaxRequests
    /\ requests' = [requests EXCEPT ![w] = @ + 1]

\* Mutant: the connection is listed without waiting for the answer.
RegisterUnanswered(w, es) ==
    /\ Request(w)
    /\ events[w] = {}
    /\ events' = [events EXCEPT ![w] = es]
    /\ recv' = [recv EXCEPT ![w] = "list"]
    /\ listing' = [listing EXCEPT ![w] = es]
    /\ UNCHANGED <<target, collect, closing, tcp, sendCh, chClosed, loopSend, wire, pool, content,
                   sender, history>>

\* A valid Register of a connection not registered yet.  The answer is sent first, then
\* the connection is listed.
Register(w, es) ==
    /\ Request(w)
    /\ events[w] = {}
    /\ events' = [events EXCEPT ![w] = es]
    /\ Answer(w, "registered")
    /\ recv' = [recv EXCEPT ![w] = "list"]
    /\ listing' = [listing EXCEPT ![w] = es]
    /\ UNCHANGED <<target, collect, closing, tcp, chClosed, loopSend, wire, sender, late>>

\* A Register that cannot be decoded, names no event or comes from a registered connection.
RegisterRefused(w) ==
    /\ Request(w)
    /\ Answer(w, "refused")
    /\ UNCHANGED <<recv, events, listing, target, collect, closing, tcp, chClosed, loopSend, wire,
                   sender, late>>

\* Manager.Set, one event at a time.
Set(w, e) ==
    /\ recv[w] = "list"
    /\ e \in listing[w]
    /\ collect' = [collect EXCEPT ![e] = @ \cup {w}]
    /\ listing' = [listing EXCEPT ![w] = @ \ {e}]
    /\ late' = [late EXCEPT ![w] = @ \/ closeLock[w]]
    /\ UNCHANGED <<recv, events, requests, target, closing, tcp, sendCh, chClosed, loopSend, wire,
                   pool, content, sender, lost>>

SetEnd(w) ==
    /\ recv[w] = "list"
    /\ listing[w] = {}
    /\ recv' = [recv EXCEPT ![w] = "read"]
    /\ UNCHANGED <<events, requests, listing, target, collect, closing, tcp, sendCh, chClosed, loopSend,
                   wire, pool, content, sender, history>>

\* Unregister names a connection, not necessarily this one.
Unregister(w, v) ==
    /\ Request(w)
    /\ recv' = [recv EXCEPT ![w] = "unlist"]
    /\ listing' = [listing EXCEPT ![w] = Events]
    /\ target' = [target EXCEPT ![w] = v]
    /\ UNCHANGED <<events, collect, closing, tcp, sendCh, chClosed, loopSend, wire, pool, content,
                   sender, history>>

\* Manager.Del, one event at a time, ...
Unset(w, e) ==
    /\ recv[w] = "unlist"
    /\ e \in listing[w]
    /\ collect' = [collect EXCEPT ![e] = @ \ {target[w]}]
    /\ listing' = [listing EXCEPT ![w] = @ \ {e}]
    /\ UNCHANGED <<recv, events, requests, target, closing, tcp, sendCh, chClosed, loopSend, wire,
                   pool, content, sender, history>>

\* ... and the answer.
UnsetEnd(w) ==
    /\ recv[w] = "unlist"
    /\ listing[w] = {}
    /\ Answer(w, "unregistered")
    /\ recv' = [recv EXCEPT ![w] = "read"]
    /\ target' = [target EXCEPT ![w] = NoWorker]
    /\ UNCHANGED <<events, requests, listing, collect, closing, tcp, chClosed, loopSend, wire, sender, late>>

\* The read failed, timed out or brought nonsense: process returns and its defer closes
\* the connection, if loopSend has not begun to.
RecvEnd(w) ==
    /\ recv[w] = "read"
    /\ recv' = [recv EXCEPT ![w] = IF closeLock[w] THEN "hangup" ELSE "close"]
    /\ IF closeLock[w]
       THEN UNCHANGED <<closeLock, closer, toDel>>
       ELSE /\ closeLock' = [closeLock EXCEPT ![w] = TRUE]
            /\ closer' = [closer EXCEPT ![w] = "recv"]
            /\ toDel' = [toDel EXCEPT ![w] = Events]
    /\ UNCHANGED <<events, requests, listing, target, collect, tcp, timer, sendCh, chClosed, loopSend,
                   wire, pool, content, sender, history>>

\* The defer closes the socket again, whoever ran Close.
Hangup(w) ==
    /\ recv[w] = "hangup"
    /\ recv' = [recv EXCEPT ![w] = "gone"]
    /\ tcp' = [tcp EXCEPT ![w] = FALSE]
    /\ UNCHANGED <<events, requests, listing, target, collect, closing, sendCh, chClosed, loopSend,
                   wire, pool, content, sender, history>>

-----------------------------------------------------------------------------
(***************************************************************************)
(* Close, by the goroutine that set closeLock.                             *)
(***************************************************************************)
\* Mutant: Close leaves the connection in Manager.
CloseDelSkipped(w, e) ==
    /\ e \in toDel[w]
    /\ toDel' = [toDel EXCEPT ![w] = @ \ {e}]
    /\ UNCHANGED <<process, collect, closeLock, closer, timer, tcp, sendCh, chClosed, loopSend, wire,
                   pool, content, sender, history>>

\* Manager.Del, one event at a time.
CloseDel(w, e) ==
    /\ e \in toDel[w]
    /\ collect' = [collect EXCEPT ![e] = @ \ {w}]
    /\ toDel' = [toDel EXCEPT ![w] = @ \ {e}]
    /\ UNCHANGED <<process, closeLock, closer, timer, tcp, sendCh, chClosed, loopSend, wire,
                   pool, content, sender, history>>

\* Mutant: Close leaves sendCh open.
CloseConnOnly(w) ==
    /\ closer[w] # "nobody"
    /\ toDel[w] = {}
    /\ tcp' = [tcp EXCEPT ![w] = FALSE]
    /\ closer' = [closer EXCEPT ![w] = "nobody"]
    /\ recv' = [recv EXCEPT ![w] = IF closer[w] = "recv" THEN "hangup" ELSE @]
    /\ loop' = [loop EXCEPT ![w] = IF closer[w] = "send" THEN "write" ELSE @]
    /\ UNCHANGED <<events, requests, listing, target, collect, closeLock, toDel, timer, sendCh, chClosed,
                   batch, next, bulk, wire, pool, content, sender, history>>

\* The socket is closed, the timer armed, and the goroutine goes on.
CloseConn(w) ==
    /\ closer[w] # "nobody"
    /\ toDel[w] = {}
    /\ tcp' = [tcp EXCEPT ![w] = FALSE]
    /\ timer' = [timer EXCEPT ![w] = TRUE]
    /\ closer' = [closer EXCEPT ![w] = "nobody"]
    /\ recv' = [recv EXCEPT ![w] = IF closer[w] = "recv" THEN "hangup" ELSE @]
    /\ loop' = [loop EXCEPT ![w] = IF closer[w] = "send" THEN "write" ELSE @]
    /\ UNCHANGED <<events, requests, listing, target, collect, closeLock, toDel, sendCh, chClosed,
                   batch, next, bulk, wire, pool, content, sender, history>>

\* time.AfterFunc: sendCh.Close()
CloseSendCh(w) ==
    /\ timer[w]
    /\ timer' = [timer EXCEPT ![w] = FALSE]
    /\ chClosed' = [chClosed EXCEPT ![w] = TRUE]
    /\ UNCHANGED <<process, collect, closeLock, closer, toDel, tcp, sendCh, loopSend, wire, pool, content,
                   sender, history>>

-----------------------------------------------------------------------------
(***************************************************************************)
(* loopSend: batches of packets, at once or one by one.                    *)
(***************************************************************************)
\* Dequeue returns the packets that are ready, at most DequeueSize.
Dequeue(w, n, b) ==
    /\ recv[w] # "none"
    /\ loop[w] = "dequeue"
    /\ n <= Len(sendCh[w])
    /\ batch' = [batch EXCEPT ![w] = SubSeq(sendCh[w], 1, n)]
    /\ sendCh' = [sendCh EXCEPT ![w] = SubSeq(@, n + 1, Len(@))]
    /\ next' = [next EXCEPT ![w] = 1]
    /\ bulk' = [bulk EXCEPT ![w] = b]
    /\ loop' = [loop EXCEPT ![w] = "write"]
    /\ UNCHANGED <<process, collect, closing, tcp, chClosed, wire, pool, content, sender, history>>

\* Dequeue returns 0.
DequeueEnd(w) ==
    /\ loop[w] = "dequeue"
    /\ chClosed[w]
    /\ sendCh[w] = << >>
    /\ loop' = [loop EXCEPT ![w] = "done"]
    /\ UNCHANGED <<process, collect, closing, tcp, sendCh, chClosed, batch, next, bulk, wire, pool, content,
                   sender, history>>

\* The packets the next WriteTo writes end here.
Last(w) == IF bulk[w] THEN Len(batch[w]) ELSE next[w]

Said(w, i, j) == [n \in 1 .. (j - i + 1) |-> content[batch[w][i + n - 1]]]

\* send: the write succeeds, ...
Write(w) ==
    /\ loop[w] = "write"
    /\ next[w] <= Len(batch[w])
    /\ tcp[w]
    /\ wire' = [wire EXCEPT ![w] = @ \o Said(w, next[w], Last(w))]
    /\ next' = [next EXCEPT ![w] = Last(w) + 1]
    /\ UNCHANGED <<process, collect, closing, tcp, sendCh, chClosed, loop, batch, bulk, pool, content,
                   sender, history>>

\* ... or fails before a byte is written (a closed socket, a deadline that passes), ...
WriteNothing(w) ==
    /\ loop[w] = "write"
    /\ next[w] <= Len(batch[w])
    /\ next' = [next EXCEPT ![w] = Last(w) + 1]
    /\ lost' = [lost EXCEPT ![w] = TRUE]
    /\ UNCHANGED <<process, collect, closing, tcp, sendCh, chClosed, loop, batch, bulk, wire, pool,
                   content, sender, late>>

\* Close, called by send: it returns at once if process has begun to.
CloseBySend(w) ==
    IF closeLock[w]
    THEN UNCHANGED <<closeLock, closer, toDel, loop>>
    ELSE /\ closeLock' = [closeLock EXCEPT ![w] = TRUE]
         /\ closer' = [closer EXCEPT ![w] = "send"]
         /\ toDel' = [toDel EXCEPT ![w] = Events]
         /\ loop' = [loop EXCEPT ![w] = "close"]

\* ... or after packets up to n and a part of the next, ...
WritePart(w, n) ==
    /\ loop[w] = "write"
    /\ next[w] <= Len(batch[w])
    /\ tcp[w]
    /\ next[w] - 1 <= n /\ n < Last(w)
    /\ wire' = [wire EXCEPT ![w] = Append(@ \o Said(w, next[w], n), "part")]
    /\ next' = [next EXCEPT ![w] = Last(w) + 1]
    /\ lost' = [lost EXCEPT ![w] = TRUE]
    /\ CloseBySend(w)
    /\ UNCHANGED <<process, collect, timer, tcp, sendCh, chClosed, batch, bulk, pool, content, sender, late>>

\* ... or SetWriteDeadline fails, and nothing is written.
NoDeadline(w) ==
    /\ loop[w] = "write"
    /\ next[w] <= Len(batch[w])
    /\ next' = [next EXCEPT ![w] = Last(w) + 1]
    /\ lost' = [lost EXCEPT ![w] = TRUE]
    /\ CloseBySend(w)
    /\ UNCHANGED <<process, collect, timer, tcp, sendCh, chClosed, batch, bulk, wire, pool, content, sender,
                   late>>

\* The packets go back to the pool.
WriteEnd(w) ==
    /\ loop[w] = "write"
    /\ next[w] > Len(batch[w])
    /\ pool' = pool \cup {batch[w][i] : i \in 1 .. Len(batch[w])}
    /\ batch' = [batch EXCEPT ![w] = << >>]
    /\ loop' = [loop EXCEPT ![w] = "dequeue"]
    /\ UNCHANGED <<process, collect, closing, tcp, sendCh, chClosed, next, bulk, wire, content, sender,
                   history>>

-----------------------------------------------------------------------------
(***************************************************************************)
(* The customer side: Manager.Get, then Send on what it returned.          *)
(***************************************************************************)
\* Manager.Get: its counter advances with every call of any goroutine, so it may be any
\* of the connections listed.
Get(s, e, w) ==
    /\ spc[s] = "idle"
    /\ forwards[s] < MaxForwards
    /\ w \in collect[e]
    /\ spc' = [spc EXCEPT ![s] = "got"]
    /\ to' = [to EXCEPT ![s] = w]
    /\ forwards' = [forwards EXCEPT ![s] = @ + 1]
    /\ UNCHANGED <<process, collect, closing, tcp, sendCh, chClosed, loopSend, wire, pool, content, held,
                   history>>

\* Send: a closed sendCh takes nothing, ...
SendClosed(s) ==
    /\ spc[s] = "got"
    /\ chClosed[to[s]]
    /\ spc' = [spc EXCEPT ![s] = "idle"]
    /\ to' = [to EXCEPT ![s] = NoWorker]
    /\ UNCHANGED <<process, collect, closing, tcp, sendCh, chClosed, loopSend, wire, pool, content,
                   held, forwards, history>>

\* ... otherwise a packet of the pool says the event ...
SendSet(s, k) ==
    /\ spc[s] = "got"
    /\ ~chClosed[to[s]]
    /\ k \in pool
    /\ pool' = pool \ {k}
    /\ content' = [content EXCEPT ![k] = "event"]
    /\ held' = [held EXCEPT ![s] = {k}]
    /\ spc' = [spc EXCEPT ![s] = "held"]
    /\ UNCHANGED <<process, collect, closing, tcp, sendCh, chClosed, loopSend, wire, to, forwards, history>>

\* Mutant: the packet goes back to the pool even when sendCh has taken it.
SendEnqueueKept(s) ==
    /\ spc[s] = "held"
    /\ IF Len(sendCh[to[s]]) < Cap
       THEN \E k \in held[s] : sendCh' = [sendCh EXCEPT ![to[s]] = Append(@, k)]
       ELSE UNCHANGED sendCh
    /\ pool' = pool \cup held[s]
    /\ held' = [held EXCEPT ![s] = {}]
    /\ spc' = [spc EXCEPT ![s] = "idle"]
    /\ to' = [to EXCEPT ![s] = NoWorker]
    /\ UNCHANGED <<process, collect, closing, tcp, chClosed, loopSend, wire, content, forwards, history>>

\* ... and is put into sendCh, or goes back to the pool when sendCh is full.
SendEnqueue(s) ==
    /\ spc[s] = "held"
    /\ IF Len(sendCh[to[s]]) < Cap
       THEN /\ \E k \in held[s] : sendCh' = [sendCh EXCEPT ![to[s]] = Append(@, k)]
            /\ UNCHANGED pool
       ELSE /\ pool' = pool \cup held[s]
            /\ UNCHANGED sendCh
    /\ held' = [held EXCEPT ![s] = {}]
    /\ spc' = [spc EXCEPT ![s] = "idle"]
    /\ to' = [to EXCEPT ![s] = NoWorker]
    /\ UNCHANGED <<process, collect, closing, tcp, chClosed, loopSend, wire, content, forwards, history>>

-----------------------------------------------------------------------------
Process(w) ==
    \/ \E e \in Events : Set(w, e) \/ Unset(w, e)
    \/ SetEnd(w)
    \/ UnsetEnd(w)
    \/ Hangup(w)

CloseSteps(w) ==
    \/ \E e \in Events : CloseDel(w, e)
    \/ CloseConn(w)

LoopSend(w) ==
    \/ \E n \in 1 .. DequeueSize, b \in BOOLEAN : Dequeue(w, n, b)
    \/ DequeueEnd(w)
    \/ Write(w)
    \/ WriteNothing(w)
    \/ \E n \in 0 .. DequeueSize : WritePart(w, n)
    \/ NoDeadline(w)
    \/ WriteEnd(w)

Forward(s) ==
    \/ SendClosed(s)
    \/ \E k \in Packets : SendSet(s, k)
    \/ SendEnqueue(s)

Next ==
    \/ \E w \in Workers :
        \/ Accept(w)
        \/ \E es \in (SUBSET Events) \ {{}} : Register(w, es)
        \/ RegisterRefused(w)
        \/ \E v \in Workers : Unregister(w, v)
        \/ RecvEnd(w)
        \/ Process(w)
        \/ CloseSteps(w)
        \/ CloseSendCh(w)
        \/ LoopSend(w)
    \/ \E s \in Senders : Forward(s) \/ \E e \in Events, w \in Workers : Get(s, e, w)

Spec == Init /\ [][Next]_vars

\* Goroutines and timers run; a read on a closed socket fails; a write ends because it
\* has a deadline.  The business owes nothing.
Fairness ==
    /\ \A w \in Workers :
        /\ WF_vars(Process(w))
        /\ WF_vars(~tcp[w] /\ RecvEnd(w))
        /\ WF_vars(CloseSteps(w))
        /\ WF_vars(CloseSendCh(w))
        /\ WF_vars(LoopSend(w))
    /\ \A s \in Senders : WF_vars(Forward(s))

FairSpec == Spec /\ Fairness

-----------------------------------------------------------------------------
InBatch(w) == {batch[w][i] : i \in 1 .. Len(batch[w])}
InQueue(w) == {sendCh[w][i] : i \in 1 .. Len(sendCh[w])}

(***************************************************************************)
(* A packet has one owner: the pool, a sender, one sendCh or one batch.    *)
(* The comment in Send warns of the double Put that would make two senders *)
(* write into one packet.                                                  *)
(***************************************************************************)
OneOwner ==
    /\ \A w \in Workers :
        /\ Cardinality(InQueue(w)) = Len(sendCh[w])
        /\ Cardinality(InBatch(w)) = Len(batch[w])
        /\ (InQueue(w) \cup InBatch(w)) \cap pool = {}
        /\ InQueue(w) \cap InBatch(w) = {}
        /\ \A v \in Workers \ {w} :
              (InQueue(w) \cup InBatch(w)) \cap (InQueue(v) \cup InBatch(v)) = {}
        /\ \A s \in Senders : held[s] \cap (InQueue(w) \cup InBatch(w)) = {}
    /\ \A s \in Senders :
        /\ held[s] \cap pool = {}
        /\ \A r \in Senders \ {s} : held[r] \cap held[s] = {}

(***************************************************************************)
(* The result of Register is the first thing a business receives (the      *)
(* comment in register): an event on the wire comes after it, unless the   *)
(* answer found sendCh full or a write failed.                             *)
(***************************************************************************)
GreetedFirst ==
    \A w \in Workers : ~lost[w] =>
        \A i \in 1 .. Len(wire[w]) : wire[w][i] = "event" =>
            \E j \in 1 .. i - 1 : wire[w][j] = "registered"

(***************************************************************************)
(* A connection that is gone is not offered to senders any more, unless    *)
(* its Register was still listing it when loopSend closed it.              *)
(***************************************************************************)
GoneIsUnlisted ==
    \A w \in Workers : recv[w] = "gone" /\ closer[w] = "nobody" /\ ~late[w] =>
        \A e \in Events : w \notin collect[e]

(***************************************************************************)
(* A connection that Close has begun to close ends: both goroutines        *)
(* return, whatever is in sendCh and whichever of them began.              *)
(***************************************************************************)
CloseEnds ==
    \A w \in Workers : closeLock[w] ~> recv[w] = "gone" /\ loop[w] = "done"

=============================================================================
