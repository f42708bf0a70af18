----------------------------- MODULE MPSCQueue -----------------------------
(***************************************************************************)
(* pkg/queue: the bounded ring between the goroutines that send (to a task *)
(* connection, to redis, to amqp) and the one goroutine that writes.       *)
(*                                                                         *)
(* One step is one access to shared memory: a load, a store, a CAS, a       *)
(* channel operation, a read or a write of the data of a slot.  Positions   *)
(* (head, tail, sequence) are uint64 in the code and never reused; they are *)
(* naturals here, because 2^64 items are never sent.                        *)
(***************************************************************************)
EXTENDS Naturals, Sequences

CONSTANTS Producers,   \* goroutines that call Enqueue and TryEnqueue
          Cap,         \* capacity; New makes it a power of two, at least 2
          Limit,       \* len(result) of the consumer
          MaxSends,    \* bound: items a producer sends
          Tries,       \* per producer: may a call be TryEnqueue (TRUE), Enqueue (FALSE)
          NoItem       \* the zero value of T

Items == Producers \X (1 .. MaxSends)

ASSUME QueueAssumption ==
    /\ Cap \in Nat \ {0, 1}
    /\ Limit \in Nat \ {0}
    /\ MaxSends \in Nat
    /\ Tries \in [Producers -> SUBSET BOOLEAN]
    /\ NoItem \notin Items

VARIABLES
    head,       \* next position to claim
    tail,       \* next position to consume, as the consumer last stored it
    sequence,   \* per slot: position p when free for p, p + 1 when p is ready in it
    data,       \* per slot: the item
    closed,     \* the closed flag
    noticer,    \* the channel of capacity 1 holds a token
    ppc,        \* per producer: its step
    try,        \* per producer: the call is TryEnqueue
    sends,      \* per producer: calls so far; the item of a call is <<p, sends[p]>>
    mine,       \* per producer: the head it loaded
    cpc,        \* the consumer's step
    pos, count, \* the consumer's local tail and how many items it has read
    schedule,   \* the consumer's yields since Dequeue was called
    free,       \* next position the consumer has to release
    closing,    \* Close has set the flag and not yet notified
    log, got    \* history: items in the order of their claims; items consumed

ring == <<head, tail, sequence, data>>
producer == <<ppc, try, sends, mine>>
consumer == <<cpc, pos, count, schedule, free>>
vars == <<ring, closed, noticer, producer, consumer, closing, log, got>>

Slots == 0 .. Cap - 1

\* head & q.mask
Index(n) == n % Cap

ProducerSteps == {"idle", "check", "load", "seq", "cas", "full", "write", "publish", "notify"}
ConsumerSteps == {"out", "peek", "take", "empty", "wait", "recheck", "len", "commit", "release", "done"}

TypeOK ==
    /\ head \in Nat
    /\ tail \in Nat
    /\ sequence \in [Slots -> Nat]
    /\ data \in [Slots -> Items \cup {NoItem}]
    /\ closed \in BOOLEAN
    /\ noticer \in BOOLEAN
    /\ ppc \in [Producers -> ProducerSteps]
    /\ try \in [Producers -> BOOLEAN]
    /\ sends \in [Producers -> 0 .. MaxSends]
    /\ mine \in [Producers -> Nat]
    /\ cpc \in ConsumerSteps
    /\ pos \in Nat
    /\ count \in 0 .. Limit
    /\ schedule \in 0 .. 3
    /\ free \in Nat
    /\ closing \in BOOLEAN
    /\ log \in Seq(Items)
    /\ got \in Seq(Items)

Init ==
    /\ head = 0
    /\ tail = 0
    /\ sequence = [i \in Slots |-> i]
    /\ data = [i \in Slots |-> NoItem]
    /\ closed = FALSE
    /\ noticer = FALSE
    /\ ppc = [p \in Producers |-> "idle"]
    /\ try = [p \in Producers |-> FALSE]
    /\ sends = [p \in Producers |-> 0]
    /\ mine = [p \in Producers |-> 0]
    /\ cpc = "out"
    /\ pos = 0
    /\ count = 0
    /\ schedule = 0
    /\ free = 0
    /\ closing = FALSE
    /\ log = << >>
    /\ got = << >>

-----------------------------------------------------------------------------
(***************************************************************************)
(* Enqueue and TryEnqueue.                                                 *)
(***************************************************************************)
Item(p) == <<p, sends[p]>>

Goto(p, step) == ppc' = [ppc EXCEPT ![p] = step]

\* What a failed attempt does: Enqueue goes round its loop, TryEnqueue returns false.
Retry(p) == Goto(p, IF try[p] THEN "idle" ELSE "check")

Call(p) ==
    /\ ppc[p] = "idle"
    /\ sends[p] < MaxSends
    /\ sends' = [sends EXCEPT ![p] = @ + 1]
    /\ Goto(p, "check")
    /\ \E b \in Tries[p] : try' = [try EXCEPT ![p] = b]
    /\ UNCHANGED <<ring, closed, noticer, mine, consumer, closing, log, got>>

\* A closed queue takes nothing.
CheckClosed(p) ==
    /\ ppc[p] = "check"
    /\ Goto(p, IF closed THEN "idle" ELSE "load")
    /\ UNCHANGED <<ring, closed, noticer, try, sends, mine, consumer, closing, log, got>>

LoadHead(p) ==
    /\ ppc[p] = "load"
    /\ mine' = [mine EXCEPT ![p] = head]
    /\ Goto(p, "seq")
    /\ UNCHANGED <<ring, closed, noticer, try, sends, consumer, closing, log, got>>

\* The slot is free for this position, ...
SlotFree(p) ==
    /\ ppc[p] = "seq"
    /\ sequence[Index(mine[p])] = mine[p]
    /\ Goto(p, "cas")
    /\ UNCHANGED <<ring, closed, noticer, try, sends, mine, consumer, closing, log, got>>

\* ... or holds an item of the round before, ...
SlotTaken(p) ==
    /\ ppc[p] = "seq"
    /\ sequence[Index(mine[p])] < mine[p]
    /\ Goto(p, IF try[p] THEN "idle" ELSE "full")
    /\ UNCHANGED <<ring, closed, noticer, try, sends, mine, consumer, closing, log, got>>

\* ... or another producer was here since.
SlotPassed(p) ==
    /\ ppc[p] = "seq"
    /\ sequence[Index(mine[p])] > mine[p]
    /\ Retry(p)
    /\ UNCHANGED <<ring, closed, noticer, try, sends, mine, consumer, closing, log, got>>

\* The queue is full if head did not move: Enqueue returns false.
RecheckFull(p) ==
    /\ ppc[p] = "full"
    /\ Goto(p, IF head = mine[p] THEN "idle" ELSE "check")
    /\ UNCHANGED <<ring, closed, noticer, try, sends, mine, consumer, closing, log, got>>

\* Mutant: the position is taken with a store instead of a CompareAndSwap.
ClaimBlindly(p) ==
    /\ ppc[p] = "cas"
    /\ head' = mine[p] + 1
    /\ log' = Append(log, Item(p))
    /\ Goto(p, "write")
    /\ UNCHANGED <<tail, sequence, data, closed, noticer, try, sends, mine, consumer, closing, got>>

\* CompareAndSwap(head, head + 1) succeeds: the position is this producer's.
Claim(p) ==
    /\ ppc[p] = "cas"
    /\ head = mine[p]
    /\ head' = head + 1
    /\ log' = Append(log, Item(p))
    /\ Goto(p, "write")
    /\ UNCHANGED <<tail, sequence, data, closed, noticer, try, sends, mine, consumer, closing, got>>

LoseClaim(p) ==
    /\ ppc[p] = "cas"
    /\ head # mine[p]
    /\ Retry(p)
    /\ UNCHANGED <<ring, closed, noticer, try, sends, mine, consumer, closing, log, got>>

Write(p) ==
    /\ ppc[p] = "write"
    /\ data' = [data EXCEPT ![Index(mine[p])] = Item(p)]
    /\ Goto(p, "publish")
    /\ UNCHANGED <<head, tail, sequence, closed, noticer, try, sends, mine, consumer, closing, log, got>>

Publish(p) ==
    /\ ppc[p] = "publish"
    /\ sequence' = [sequence EXCEPT ![Index(mine[p])] = mine[p] + 1]
    /\ Goto(p, "notify")
    /\ UNCHANGED <<head, tail, data, closed, noticer, try, sends, mine, consumer, closing, log, got>>

\* Mutant: the notification is left to the producer of the next position, if there is one.
NotifyLast(p) ==
    /\ ppc[p] = "notify"
    /\ noticer' = (noticer \/ head = mine[p] + 1)
    /\ Goto(p, "idle")
    /\ UNCHANGED <<ring, closed, try, sends, mine, consumer, closing, log, got>>

\* The non-blocking send leaves a token whether or not there was one: returns true.
Notify(p) ==
    /\ ppc[p] = "notify"
    /\ noticer' = TRUE
    /\ Goto(p, "idle")
    /\ UNCHANGED <<ring, closed, try, sends, mine, consumer, closing, log, got>>

-----------------------------------------------------------------------------
(***************************************************************************)
(* Dequeue, called by one goroutine again and again until it returns 0.    *)
(***************************************************************************)
Dequeue ==
    /\ cpc = "out"
    /\ cpc' = "peek"
    /\ pos' = tail
    /\ count' = 0
    /\ schedule' = 0
    /\ UNCHANGED <<ring, closed, noticer, producer, free, closing, log, got>>

\* The sequence at the local tail: an item is ready, ...
PeekReady ==
    /\ cpc = "peek"
    /\ count < Limit
    /\ sequence[Index(pos)] = pos + 1
    /\ cpc' = "take"
    /\ UNCHANGED <<ring, closed, noticer, producer, pos, count, schedule, free, closing, log, got>>

\* ... or the batch ends here.
PeekEnd ==
    /\ cpc = "peek"
    /\ count = Limit \/ sequence[Index(pos)] # pos + 1
    /\ cpc' = IF count = 0 THEN "empty" ELSE "commit"
    /\ UNCHANGED <<ring, closed, noticer, producer, pos, count, schedule, free, closing, log, got>>

Take ==
    /\ cpc = "take"
    /\ got' = Append(got, data[Index(pos)])
    /\ data' = [data EXCEPT ![Index(pos)] = NoItem]
    /\ pos' = pos + 1
    /\ count' = count + 1
    /\ cpc' = "peek"
    /\ UNCHANGED <<head, tail, sequence, closed, noticer, producer, schedule, free, closing, log>>

\* Nothing was read: yield up to three times, then wait; a closed queue is looked at again.
Empty ==
    /\ cpc = "empty"
    /\ \/ /\ closed
          /\ cpc' = "recheck"
          /\ UNCHANGED schedule
       \/ /\ ~closed
          /\ schedule < 3
          /\ cpc' = "peek"
          /\ schedule' = schedule + 1
       \/ /\ ~closed
          /\ schedule = 3
          /\ cpc' = "wait"
          /\ UNCHANGED schedule
    /\ UNCHANGED <<ring, closed, noticer, producer, pos, count, free, closing, log, got>>

Wait ==
    /\ cpc = "wait"
    /\ noticer
    /\ noticer' = FALSE
    /\ cpc' = "recheck"
    /\ UNCHANGED <<ring, closed, producer, pos, count, schedule, free, closing, log, got>>

\* Mutant: a closed queue is not asked for its length again.
RecheckClosedOnly ==
    /\ cpc = "recheck"
    /\ cpc' = IF closed THEN "done" ELSE "peek"
    /\ UNCHANGED <<ring, closed, noticer, producer, pos, count, schedule, free, closing, log, got>>

RecheckClosed ==
    /\ cpc = "recheck"
    /\ cpc' = IF closed THEN "len" ELSE "peek"
    /\ UNCHANGED <<ring, closed, noticer, producer, pos, count, schedule, free, closing, log, got>>

\* Len() > 0 goes on reading; otherwise Dequeue returns 0 and the goroutine ends.
LenOfClosed ==
    /\ cpc = "len"
    /\ cpc' = IF head > tail THEN "peek" ELSE "done"
    /\ UNCHANGED <<ring, closed, noticer, producer, pos, count, schedule, free, closing, log, got>>

Commit ==
    /\ cpc = "commit"
    /\ tail' = pos
    /\ free' = pos - count
    /\ cpc' = "release"
    /\ UNCHANGED <<head, sequence, data, closed, noticer, producer, pos, count, schedule, closing, log, got>>

\* The slot of a consumed position is free for the next round.
Release ==
    /\ cpc = "release"
    /\ free < pos
    /\ sequence' = [sequence EXCEPT ![Index(free)] = free + Cap]
    /\ free' = free + 1
    /\ UNCHANGED <<head, tail, data, closed, noticer, producer, cpc, pos, count, schedule, closing, log, got>>

Return ==
    /\ cpc = "release"
    /\ free = pos
    /\ cpc' = "out"
    /\ UNCHANGED <<ring, closed, noticer, producer, pos, count, schedule, free, closing, log, got>>

-----------------------------------------------------------------------------
(***************************************************************************)
(* Close: the CAS on the flag lets one caller through; the others return.  *)
(***************************************************************************)
Close ==
    /\ ~closed
    /\ closed' = TRUE
    /\ closing' = TRUE
    /\ UNCHANGED <<ring, noticer, producer, consumer, log, got>>

\* Mutant: Close wakes nobody.
CloseSilently ==
    /\ closing
    /\ closing' = FALSE
    /\ UNCHANGED <<ring, closed, noticer, producer, consumer, log, got>>

CloseNotify ==
    /\ closing
    /\ noticer' = TRUE
    /\ closing' = FALSE
    /\ UNCHANGED <<ring, closed, producer, consumer, log, got>>

-----------------------------------------------------------------------------
Produce(p) ==
    \/ CheckClosed(p)
    \/ LoadHead(p)
    \/ SlotFree(p)
    \/ SlotTaken(p)
    \/ SlotPassed(p)
    \/ RecheckFull(p)
    \/ Claim(p)
    \/ LoseClaim(p)
    \/ Write(p)
    \/ Publish(p)
    \/ Notify(p)

Consume ==
    \/ Dequeue
    \/ PeekReady
    \/ PeekEnd
    \/ Take
    \/ Empty
    \/ Wait
    \/ RecheckClosed
    \/ LenOfClosed
    \/ Commit
    \/ Release
    \/ Return

Next ==
    \/ \E p \in Producers : Call(p) \/ Produce(p)
    \/ Consume
    \/ Close
    \/ CloseNotify

Spec == Init /\ [][Next]_vars

\* A goroutine in the middle of a call goes on, the consumer's loop keeps calling
\* Dequeue, and nobody has to call Enqueue or Close.
Fairness ==
    /\ \A p \in Producers : WF_vars(Produce(p))
    /\ WF_vars(Consume)
    /\ WF_vars(CloseNotify)

FairSpec == Spec /\ Fairness

-----------------------------------------------------------------------------

(***************************************************************************)
(* The data of a slot is plain memory, guarded only by the sequence        *)
(* numbers: nobody touches it while somebody else does.                    *)
(***************************************************************************)
NoDataRace ==
    \A p \in Producers : ppc[p] = "write" =>
        /\ cpc = "take" => Index(pos) # Index(mine[p])
        /\ \A q \in Producers \ {p} : ppc[q] = "write" => Index(mine[q]) # Index(mine[p])

(***************************************************************************)
(* The ring implements the bounded FIFO it stands for: a claim is the Put, *)
(* a read of the data the Get, and Dequeue returns 0 only from a closed     *)
(* queue that is empty.                                                    *)
(***************************************************************************)
FifoQueue == INSTANCE BoundedFIFO
    WITH accepted <- log, delivered <- got, ended <- (cpc = "done")

ImplementsFIFO == FifoQueue!Spec

(***************************************************************************)
(* Close drains: an item claimed before Close is read, however the claim,  *)
(* its publication, Close and the consumer's checks interleave.            *)
(***************************************************************************)
ClaimedIsRead ==
    \A n \in 1 .. Cap + 1 : ~closed /\ Len(log) >= n ~> Len(got) >= n

\* Close ends the consumer, even one that waits on the channel.
CloseEnds == closed ~> cpc = "done"
=============================================================================
