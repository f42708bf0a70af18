----------------------------- MODULE RedisQueue -----------------------------
(***************************************************************************)
(* A redis queue, from Send to the metrics.                                *)
(*                                                                         *)
(* Event loops and tasks call Send: a packet of PacketObjPool is given the  *)
(* message and put into sendCh (the BoundedFIFO that MPSCQueue implements). *)
(* loopSend takes the packets out in batches.  A batch that is small enough *)
(* is pushed by one goroutine of the worker pool in one pipeline; of a      *)
(* larger one every packet is pushed by a goroutine of its own.  Afterwards *)
(* the messages are counted as succeeded or failed and the packets go back  *)
(* to the pool, where their content is reset.                               *)
(*                                                                         *)
(* The library (go-redis): a pipeline or command that gets no connection,   *)
(* whose connection breaks, or that redis refuses for the moment, is sent   *)
(* again as a whole, at most MaxRetries times; what the lost attempt has    *)
(* stored stays stored.  Every command of a pipeline has an error of its    *)
(* own, which an attempt that reads no reply leaves as it was: a pipeline   *)
(* that never gets a connection ends with commands that have no error.      *)
(***************************************************************************)
EXTENDS Integers, Sequences, FiniteSets, SequencesExt

CONSTANTS Senders,      \* goroutines that call Send
          Packets,      \* the packets PacketObjPool hands out
          Cap,          \* capacity of sendCh
          DequeueSize,  \* dequeueSize: the largest batch
          PackLimit,    \* packLimit: a batch is pushed as one below this size
          Size,         \* the length of each encoded message
          MaxSends,     \* bound: messages sent
          MaxRetries,   \* retries of the library
          NoMessage     \* the content of a packet in the pool

Messages == 1 .. MaxSends

ASSUME RedisAssumption ==
    /\ Cap \in Nat \ {0}
    /\ DequeueSize \in Nat \ {0}
    /\ PackLimit \in Nat
    /\ MaxSends \in Nat
    /\ MaxRetries \in Nat
    /\ Size \in [Messages -> Nat \ {0}]
    /\ NoMessage \notin Messages

VARIABLES
    pool,           \* PacketObjPool
    content,        \* per packet: its Message
    sendCh,         \* the packets in sendCh
    chClosed,       \* sendCh.closed
    closeLock,      \* Close was called; its timer runs until chClosed
    spc, held,      \* per sender: the step of Send, its packet
    loop,           \* loopSend: "dequeue", "submit" (the whole batch), "single" or "gone"
    batch,          \* the packets loopSend has dequeued
    next,           \* single mode: the packet to submit
    tasks,          \* what the worker pool runs: the mode, the packets, the retries so far and
                    \* the indices of the commands that have no error (clean)
    returning,      \* tasks that are through, whose packets go back
    keyType,        \* "list" or "stream"
    redis,          \* the messages at redisKey, from head to tail
    quit,           \* quit.Ctx is done
    succeedCount, failedCount, succeedByte,     \* the metrics, kept per message
    sends,          \* history: the messages sent so far
    accepted,       \* history: messages in sendCh before loopSend had gone
    grouped,        \* history: the batches that were pushed as one, as messages
    retried,        \* history: messages of lost attempts that stored something
    unanswered      \* history: messages of pipelines that ended without any reply read

metrics == <<succeedCount, failedCount, succeedByte>>
history == <<accepted, grouped, retried, unanswered>>
send == <<spc, held, sends>>
loopSend == <<loop, batch, next>>
work == <<tasks, returning>>
vars == <<pool, content, sendCh, chClosed, closeLock, send, loopSend, work, keyType, redis,
          quit, metrics, history>>

MessagesOf(ps) == [i \in 1 .. Len(ps) |-> content[ps[i]]]
SizeOf(ps) == FoldSeq(LAMBDA p, total : total + Size[content[p]], 0, ps)

Tasks == [mode : {"batch", "single"}, packets : Seq(Packets), tries : 0 .. MaxRetries,
          clean : SUBSET Nat]
Commands(t) == 1 .. Len(t.packets)

TypeOK ==
    /\ pool \in SUBSET Packets
    /\ content \in [Packets -> Messages \cup {NoMessage}]
    /\ sendCh \in Seq(Packets)
    /\ Len(sendCh) <= Cap
    /\ chClosed \in BOOLEAN
    /\ closeLock \in BOOLEAN
    /\ spc \in [Senders -> {"idle", "check", "enqueue", "return"}]
    /\ held \in [Senders -> SUBSET Packets]
    /\ loop \in {"dequeue", "submit", "single", "gone"}
    /\ batch \in Seq(Packets)
    /\ Len(batch) <= DequeueSize
    /\ next \in 1 .. DequeueSize + 1
    /\ tasks \subseteq Tasks
    /\ returning \subseteq Tasks
    /\ keyType \in {"list", "stream"}
    /\ redis \in Seq(Messages)
    /\ quit \in BOOLEAN
    /\ succeedCount \in [Messages -> Nat]
    /\ failedCount \in [Messages -> Nat]
    /\ succeedByte \in [Messages -> Nat]
    /\ sends \in 0 .. MaxSends
    /\ accepted \in SUBSET Messages
    /\ grouped \in SUBSET Seq(Messages)
    /\ retried \in SUBSET Messages
    /\ unanswered \in SUBSET Messages

\* newQueue, with nothing left at redisKey
Init ==
    /\ pool = Packets
    /\ content = [p \in Packets |-> NoMessage]
    /\ sendCh = << >>
    /\ chClosed = FALSE
    /\ closeLock = FALSE
    /\ spc = [s \in Senders |-> "idle"]
    /\ held = [s \in Senders |-> {}]
    /\ loop = "dequeue"
    /\ batch = << >>
    /\ next = 1
    /\ tasks = {}
    /\ returning = {}
    /\ keyType \in {"list", "stream"}
    /\ redis = << >>
    /\ quit = FALSE
    /\ succeedCount = [m \in Messages |-> 0]
    /\ failedCount = [m \in Messages |-> 0]
    /\ succeedByte = [m \in Messages |-> 0]
    /\ sends = 0
    /\ accepted = {}
    /\ grouped = {}
    /\ retried = {}
    /\ unanswered = {}

\* PacketObjPool.Put of the packets ps: reset, then back.
PoolPut(ps) ==
    /\ pool' = pool \cup ps
    /\ content' = [p \in Packets |-> IF p \in ps THEN NoMessage ELSE content[p]]

\* Meter.Mark: one more for each of the messages ms.
Mark(meter, ms) == [m \in Messages |-> IF m \in ms THEN meter[m] + 1 ELSE meter[m]]

-----------------------------------------------------------------------------
(***************************************************************************)
(* Send.                                                                   *)
(***************************************************************************)
\* A packet of the pool is given the next message.
SendSet(s, p) ==
    /\ spc[s] = "idle"
    /\ sends < MaxSends
    /\ p \in pool
    /\ sends' = sends + 1
    /\ pool' = pool \ {p}
    /\ content' = [content EXCEPT ![p] = sends + 1]
    /\ held' = [held EXCEPT ![s] = {p}]
    /\ spc' = [spc EXCEPT ![s] = "check"]
    /\ UNCHANGED <<sendCh, chClosed, closeLock, loopSend, work, keyType, redis, quit, metrics,
                   history>>

\* The message cannot be encoded: it is dropped and counted nowhere.
SendSetFailed(s) ==
    /\ spc[s] = "idle"
    /\ sends < MaxSends
    /\ pool # {}
    /\ sends' = sends + 1
    /\ UNCHANGED <<pool, content, sendCh, chClosed, closeLock, spc, held, loopSend, work, keyType,
                   redis, quit, metrics, history>>

\* The message is discarded: the packet stays with Send.
Reject(s) ==
    /\ failedCount' = Mark(failedCount, {content[p] : p \in held[s]})
    /\ spc' = [spc EXCEPT ![s] = "return"]
    /\ UNCHANGED <<pool, content, sendCh, chClosed, closeLock, held, sends, loopSend, work, keyType,
                   redis, quit, succeedCount, succeedByte, history>>

\* Enqueue looks at closed first, ...
SendCheck(s) ==
    /\ spc[s] = "check"
    /\ IF chClosed
       THEN Reject(s)
       ELSE /\ spc' = [spc EXCEPT ![s] = "enqueue"]
            /\ UNCHANGED <<pool, content, sendCh, chClosed, closeLock, held, sends, loopSend, work,
                           keyType, redis, quit, metrics, history>>

\* ... and puts the packet in, even if sendCh is closed meanwhile.
Accept(p) ==
    /\ sendCh' = Append(sendCh, p)
    /\ accepted' = IF loop = "gone" THEN accepted ELSE accepted \cup {content[p]}

\* Mutant: the packet stays with Send, whose defer puts it back (pkg = nil is missing).
SendEnqueueKept(s) ==
    /\ spc[s] = "enqueue"
    /\ IF Len(sendCh) < Cap
       THEN /\ \E p \in held[s] : Accept(p)
            /\ spc' = [spc EXCEPT ![s] = "return"]
            /\ UNCHANGED <<pool, content, chClosed, closeLock, held, sends, loopSend, work, keyType,
                           redis, quit, metrics, grouped, retried, unanswered>>
       ELSE Reject(s)

\* The packet belongs to loopSend from now on, or sendCh is full.
SendEnqueue(s) ==
    /\ spc[s] = "enqueue"
    /\ IF Len(sendCh) < Cap
       THEN /\ \E p \in held[s] : Accept(p)
            /\ held' = [held EXCEPT ![s] = {}]
            /\ spc' = [spc EXCEPT ![s] = "idle"]
            /\ UNCHANGED <<pool, content, chClosed, closeLock, sends, loopSend, work, keyType,
                           redis, quit, metrics, grouped, retried, unanswered>>
       ELSE Reject(s)

\* The defer puts back a packet that Send still has.
SendReturn(s) ==
    /\ spc[s] = "return"
    /\ PoolPut(held[s])
    /\ held' = [held EXCEPT ![s] = {}]
    /\ spc' = [spc EXCEPT ![s] = "idle"]
    /\ UNCHANGED <<sendCh, chClosed, closeLock, sends, loopSend, work, keyType, redis, quit, metrics,
                   history>>

Send(s) == SendCheck(s) \/ SendEnqueue(s) \/ SendReturn(s)

-----------------------------------------------------------------------------
(***************************************************************************)
(* Close.                                                                  *)
(***************************************************************************)
\* Shutdown calls it after quit.Cancel: the lock is taken; a timer will close sendCh.
Close ==
    /\ quit
    /\ ~closeLock
    /\ closeLock' = TRUE
    /\ UNCHANGED <<pool, content, sendCh, chClosed, send, loopSend, work, keyType, redis, quit,
                   metrics, history>>

CloseTimer ==
    /\ closeLock
    /\ ~chClosed
    /\ chClosed' = TRUE
    /\ UNCHANGED <<pool, content, sendCh, closeLock, send, loopSend, work, keyType, redis, quit,
                   metrics, history>>

-----------------------------------------------------------------------------
(***************************************************************************)
(* loopSend.                                                               *)
(***************************************************************************)
\* n packets are ready; their size decides how they are pushed.
Dequeue(n) ==
    /\ loop = "dequeue"
    /\ n <= Len(sendCh)
    /\ LET ps == SubSeq(sendCh, 1, n)
       IN  /\ batch' = ps
           /\ loop' = IF SizeOf(ps) < PackLimit THEN "submit" ELSE "single"
    /\ sendCh' = SubSeq(sendCh, n + 1, Len(sendCh))
    /\ next' = 1
    /\ UNCHANGED <<pool, content, chClosed, closeLock, send, work, keyType, redis, quit, metrics,
                   history>>

\* sendCh is closed and empty.
DequeueEnd ==
    /\ loop = "dequeue"
    /\ chClosed
    /\ sendCh = << >>
    /\ loop' = "gone"
    /\ UNCHANGED <<pool, content, sendCh, chClosed, closeLock, send, batch, next, work, keyType,
                   redis, quit, metrics, history>>

\* Its commands start without an error.
Task(mode, ps) == [mode |-> mode, packets |-> ps, tries |-> 0, clean |-> 1 .. Len(ps)]

\* The worker pool takes the batch as one task.
SubmitBatch ==
    /\ loop = "submit"
    /\ tasks' = tasks \cup {Task("batch", batch)}
    /\ grouped' = grouped \cup {MessagesOf(batch)}
    /\ loop' = "dequeue"
    /\ batch' = << >>
    /\ UNCHANGED <<pool, content, sendCh, chClosed, closeLock, send, next, returning, keyType,
                   redis, quit, metrics, accepted, retried, unanswered>>

\* The worker pool is full: all of the batch failed.
SubmitBatchRefused ==
    /\ loop = "submit"
    /\ PoolPut(Range(batch))
    /\ failedCount' = Mark(failedCount, Range(MessagesOf(batch)))
    /\ loop' = "dequeue"
    /\ batch' = << >>
    /\ UNCHANGED <<sendCh, chClosed, closeLock, send, next, work, keyType, redis, quit,
                   succeedCount, succeedByte, history>>

\* The next packet, and the next batch after the last one.
NextSingle ==
    /\ next' = next + 1
    /\ loop' = IF next < Len(batch) THEN "single" ELSE "dequeue"
    /\ batch' = IF next < Len(batch) THEN batch ELSE << >>

SubmitSingle ==
    /\ loop = "single"
    /\ tasks' = tasks \cup {Task("single", <<batch[next]>>)}
    /\ NextSingle
    /\ UNCHANGED <<pool, content, sendCh, chClosed, closeLock, send, returning, keyType, redis,
                   quit, metrics, history>>

SubmitSingleRefused ==
    /\ loop = "single"
    /\ PoolPut({batch[next]})
    /\ failedCount' = Mark(failedCount, {content[batch[next]]})
    /\ NextSingle
    /\ UNCHANGED <<sendCh, chClosed, closeLock, send, work, keyType, redis, quit, succeedCount,
                   succeedByte, history>>

LoopSend ==
    \/ \E n \in 1 .. DequeueSize : Dequeue(n)
    \/ DequeueEnd
    \/ SubmitBatch
    \/ SubmitBatchRefused
    \/ SubmitSingle
    \/ SubmitSingleRefused

-----------------------------------------------------------------------------
(***************************************************************************)
(* The goroutines of the worker pool: pipelines and single commands.       *)
(***************************************************************************)
\* The packets of t with the indices is, in order: the k-th has k - 1 before it.
Chosen(t, is) ==
    [k \in 1 .. Cardinality(is) |->
        t.packets[CHOOSE i \in is : Cardinality({j \in is : j <= i}) = k]]

\* Mutant: at the tail, where the consumer takes.
LPushTail(ms) == redis \o ms

\* LPush of one message after the other.
LPush(ms) == Reverse(ms) \o redis

\* XAdd of one message after the other.
XAdd(ms) == redis \o ms

Pushed(ms) == IF keyType = "list" THEN LPush(ms) ELSE XAdd(ms)

\* An attempt reads no reply and gives no error to a command of a pipeline: there was no
\* connection, or it was gone before the reading.  (A single command always gets the error.)
Silent(t, ok) == t.mode = "batch" /\ ok = t.clean

\* An attempt stores the messages stored, is lost, and the library will try again: the
\* commands ok are without error.  One of them has an error if replies were read at all.
AttemptLost(t, stored, ok) ==
    /\ t.tries < MaxRetries
    /\ ~quit
    /\ Silent(t, ok) \/ (ok \subseteq stored /\ ok # Commands(t))
    /\ redis' = Pushed(MessagesOf(Chosen(t, stored)))
    /\ retried' = IF stored = {} THEN retried ELSE retried \cup Range(MessagesOf(t.packets))
    /\ tasks' = (tasks \ {t}) \cup {[t EXCEPT !.tries = @ + 1, !.clean = ok]}
    /\ UNCHANGED <<pool, content, sendCh, chClosed, closeLock, send, loopSend, returning, keyType,
                   quit, metrics, accepted, grouped, unanswered>>

\* The last attempt: the retries are used up, or the error is not one to try again (a redis
\* that refuses the connection, say, its password).  Nothing is sent once quit.Ctx is done;
\* all commands get its error then.  The attempts matter no more for what is to go back.
Exec(t, stored, ok) ==
    /\ quit => stored = {} /\ ok = {}
    /\ \/ /\ ok \subseteq stored
          /\ UNCHANGED unanswered
       \/ /\ Silent(t, ok)
          /\ stored = {} \/ t.tries = MaxRetries
          /\ unanswered' = IF ok = Commands(t) THEN unanswered \cup Range(MessagesOf(t.packets))
                                               ELSE unanswered
    /\ redis' = Pushed(MessagesOf(Chosen(t, stored)))
    /\ tasks' = tasks \ {t}
    /\ returning' = returning \cup {Task(t.mode, t.packets)}
    /\ UNCHANGED <<pool, content, sendCh, chClosed, closeLock, send, loopSend, keyType, quit,
                   accepted, grouped, retried>>

\* The packets good succeeded, the packets bad failed.
Count(good, bad) ==
    LET ms == {content[p] : p \in good}
    IN  /\ succeedCount' = Mark(succeedCount, ms)
        /\ failedCount' = Mark(failedCount, {content[p] : p \in bad})
        /\ succeedByte' = [m \in Messages |->
                             IF m \in ms THEN succeedByte[m] + Size[m] ELSE succeedByte[m]]

\* Mutant: the number of those that failed is not taken off the number of packets.
CountBatchAll(t, ok) ==
    Count(IF ok = {} THEN {} ELSE Range(t.packets), {t.packets[i] : i \in Commands(t) \ ok})

\* Without an error all messages succeeded; with one, every command has its own.
CountBatch(t, ok) ==
    Count({t.packets[i] : i \in ok}, {t.packets[i] : i \in Commands(t) \ ok})

SendListBatchMode(t, stored, ok) ==
    /\ keyType = "list"
    /\ t.mode = "batch"
    /\ Exec(t, stored, ok)
    /\ CountBatch(t, ok)

SendStreamBatchMode(t, stored, ok) ==
    /\ keyType = "stream"
    /\ t.mode = "batch"
    /\ Exec(t, stored, ok)
    /\ CountBatch(t, ok)

SendListSingleMode(t, stored, ok) ==
    /\ keyType = "list"
    /\ t.mode = "single"
    /\ Exec(t, stored, ok)
    /\ IF ok = {} THEN Count({}, Range(t.packets)) ELSE Count(Range(t.packets), {})

SendStreamSingleMode(t, stored, ok) ==
    /\ keyType = "stream"
    /\ t.mode = "single"
    /\ Exec(t, stored, ok)
    /\ IF ok = {} THEN Count({}, Range(t.packets)) ELSE Count(Range(t.packets), {})

\* The defer of the task: its packets go back.
TaskReturn(t) ==
    /\ PoolPut(Range(t.packets))
    /\ returning' = returning \ {t}
    /\ UNCHANGED <<sendCh, chClosed, closeLock, send, loopSend, tasks, keyType, redis, quit, metrics,
                   history>>

Push(t) ==
    \E stored, ok \in SUBSET Commands(t) :
        \/ AttemptLost(t, stored, ok)
        \/ SendListBatchMode(t, stored, ok)
        \/ SendStreamBatchMode(t, stored, ok)
        \/ SendListSingleMode(t, stored, ok)
        \/ SendStreamSingleMode(t, stored, ok)

WorkerPool == (\E t \in tasks : Push(t)) \/ (\E t \in returning : TaskReturn(t))

Quit ==
    /\ ~quit
    /\ quit' = TRUE
    /\ UNCHANGED <<pool, content, sendCh, chClosed, closeLock, send, loopSend, work, keyType, redis,
                   metrics, history>>

Next ==
    \/ \E s \in Senders :
        \/ \E p \in Packets : SendSet(s, p)
        \/ SendSetFailed(s)
        \/ Send(s)
    \/ Close
    \/ CloseTimer
    \/ LoopSend
    \/ WorkerPool
    \/ Quit

Spec == Init /\ [][Next]_vars

-----------------------------------------------------------------------------
InQueue == Range(sendCh)
InLoop == IF loop = "single" THEN {batch[i] : i \in next .. Len(batch)} ELSE Range(batch)

(***************************************************************************)
(* A packet has one owner: the pool, one Send, sendCh, loopSend or one     *)
(* task.  A packet put back twice, or used after it was put back, would    *)
(* carry the message of somebody else.                                     *)
(***************************************************************************)
OneOwner ==
    /\ pool \cap (InQueue \cup InLoop) = {}
    /\ InQueue \cap InLoop = {}
    /\ IsInjective(sendCh)
    /\ \A s \in Senders :
        /\ held[s] \cap (pool \cup InQueue \cup InLoop) = {}
        /\ \A r \in Senders \ {s} : held[s] \cap held[r] = {}
    /\ \A t \in tasks \cup returning :
        /\ Range(t.packets) \cap (pool \cup InQueue \cup InLoop) = {}
        /\ \A s \in Senders : held[s] \cap Range(t.packets) = {}
        /\ \A u \in (tasks \cup returning) \ {t} : Range(t.packets) \cap Range(u.packets) = {}

(***************************************************************************)
(* The metrics do not contradict each other or redis: a message is counted *)
(* once, as succeeded only if it is stored, whatever part of a pipeline    *)
(* failed or was sent again, and the bytes are those of the messages that  *)
(* succeeded.  Two things the code does not promise: a message counted as  *)
(* failed may be stored all the same, when the answer was lost; and a      *)
(* pipeline that ends without any reply read, because no attempt got a     *)
(* connection, leaves its commands without error, so that all of them are  *)
(* counted as succeeded.  And every message that sendCh took while         *)
(* loopSend ran is counted when loopSend and its tasks are through: pushed *)
(* or not, in a batch or alone, before or after Close and the end of       *)
(* quit.Ctx.                                                               *)
(***************************************************************************)
CountedOnce ==
    /\ \A m \in Messages :
        /\ succeedCount[m] + failedCount[m] <= 1
        /\ succeedCount[m] = 1 => m \in Range(redis) \cup unanswered
        /\ succeedByte[m] = IF succeedCount[m] = 1 THEN Size[m] ELSE 0
    /\ loop = "gone" /\ tasks = {} => \A m \in accepted : succeedCount[m] + failedCount[m] >= 1

\* What the consumer gets: RPop takes the tail of a list, XRead starts at the head.
Consumed == IF keyType = "list" THEN Reverse(redis) ELSE redis

(***************************************************************************)
(* The messages of a batch that is pushed as one are consumed in the order *)
(* they were sent, each at most once, unless an attempt that stored some   *)
(* of them was lost and the library sent them again.                       *)
(***************************************************************************)
ConsumedInOrder ==
    \A g \in grouped : Range(g) \cap retried = {} =>
        \A i, j \in 1 .. Len(redis) :
            i < j /\ Consumed[i] \in Range(g) /\ Consumed[j] \in Range(g) =>
                \E a, b \in 1 .. Len(g) : a < b /\ g[a] = Consumed[i] /\ g[b] = Consumed[j]

=============================================================================
