# netsvr in TLA+

netsvr is a websocket gateway. Customers connect to it over websocket; the business
processes connect to it over TCP (task connections that send commands, worker connections
that receive events) or are called over HTTP, or read the events from redis or AMQP
queues. This directory holds TLA+ modules for the parts of netsvr in which goroutines
meet, the TLC configurations that check them, and TLAPS proofs.

    tlc -workers 2 -config RegistryAll.cfg MCRegistry     model-check one run
    tlapm RegistryProofs.tla                              check the proofs of one module

`PROJECT.json` lists the components, the runs, the source lines behind every definition,
the mutants that show that every property can fail, the hazards and the theorems.

## 1. The system

| component | state | operations | hard behaviour |
|---|---|---|---|
| connection registry (`internal/customer/{manager,binder,topic}`, `internal/wsServer/info.go`) | the listed connections; customerId -> connections; topic -> connections; per connection customerId, session, topics and a lock | Set, Del, SetRelation, DelRelation..., the `...OnSafe` methods of the info | three copies of one fact, each under its own lock, updated by many goroutines |
| life of a connection (`internal/customer/websocket.go`, `internal/wsServer/{server,info}.go`) | closed flag, open task, time of the last message, heartbeat timer | OnWebsocketOpen (a task in a goroutine pool, with an HTTP callback), OnWebsocketMessage, OnWebsocketPing, OnWebsocketClose (event loop), the heartbeat check (timer) | the connection may close while the open task is under way; the check races with a message; several event loops admit clients |
| commands (`internal/task/process`) | one goroutine per task connection | connInfoUpdate, connInfoDelete, topicSubscribe, topicUnsubscribe, topicDelete, forceOffline..., casts, queries | two task connections and the event loops work on one connection |
| MPSC queue (`pkg/queue`) | ring with a sequence number per slot, head, tail, closed, a channel of one token | Enqueue, TryEnqueue, Dequeue, Len, Close | lock free; the wake-up and Close race with both sides |
| worker connections (`internal/worker`) | events per connection, lists per event, sendCh, packet pool | register, unregister, Send, loopSend, Close | two goroutines may close; writes fail in the middle of a packet |
| websocket codec (`internal/wsServer/codec.go`) | current and interrupted message, rsv, upgraded, closed | decode, OnTraffic, WriteCloseFrame | frames cut anywhere, control frames between fragments, two sides closing |
| AMQP pools (`internal/queue/amqp091/{connPool,channelPool}.go`) | tokens, idle sockets | get, release, heartbeat | sockets die in anybody's hands; blocking sends without a look |
| AMQP publishing (`internal/queue/amqp091/{queue,channelPool}.go`) | publishedCh, refCount, the monitor's records | sendBatch, monitor | confirms, records and the death of the channel in any order |
| delivery (`internal/customer/{frame,func}.go`, casts and forced closes of `internal/task/process`) | Frames with encoded bytes, their pool, what gnet has queued | WriteTo, WriteCloseFrame, the cast commands | order against closes; partial failure; bytes kept in pooled objects |
| redis queue (`internal/queue/redisQueue`) | sendCh, client pool | Send, loopSend | retries, shutdown |
| limiters (`internal/limit`, `info.Allow`) | token buckets, window per connection | Allow, Update | boundaries of the windows |
| shutdown (`pkg/quit`, `cmd`) | context, wait group | Execute, Shutdown | order of the shutdown |

How they interact: the event loop of gnet calls OnTraffic (codec), which calls
OnWebsocketOpen, OnWebsocketMessage; OnClose calls OnWebsocketClose. These register the
connection and forward an event to a worker connection, a callback, a redis queue or an AMQP
queue. All three transports put the event into an MPSC queue that one goroutine drains in
batches. Commands come in over task connections, read and change the registry, and write
to customers or close them through the codec. The closed flag of a connection, the lock of
its info, `manager`, `binder` and `topic` are what the goroutines share.

What makes each part correct:

* registry: the indexes and the info of a connection agree whenever nobody works on it; a
  connection that is gone is in no index; a closed connection is cleaned up;
* queue: first in, first out, bounded, no data race, no lost wake-up, Close drains;
* worker: a packet has one owner; the answer to Register comes first; a connection that is
  gone is not offered; Close ends both goroutines;
* codec: accepted are exactly the legal sequences, messages are put together from exactly
  their frames, at most one answer to a close, a closed connection goes away;
* redis queue: a packet has one owner, every message is counted once and on the right side, a
  batch keeps its order;
* pools: capacity is conserved, no send blocks, a socket has one owner, dead ones leave;
* publishing: every message is counted once, every batch and every monitor ends;
* delivery: a client gets what was meant for it, in the form it negotiated, in the order of
  the command and once; a command misses nobody but where a write failed; one close frame,
  after the message that goes with it; nothing of the same task connection after a forced
  close;
* inbound: never more clients than allowed, never more messages than the windows allow, a
  refusal only when the window is full; the silent are closed in time, and nobody else.

## 2. The modules

| module | models | composed with |
|---|---|---|
| `Registry` | manager, binder, topic, the info, the open task, OnClose, the commands | |
| `RegistryInvariant` | the inductive invariant, in named parts | extends `Registry` |
| `RegistryProofs` | theorems | extends `RegistryInvariant`, TLAPS |
| `MPSCQueue` | pkg/queue, one atomic operation per step | implements `BoundedFIFO` |
| `BoundedFIFO` | abstract: what pkg/queue promises | |
| `Worker` | worker connections, Manager, packets; its sendCh is the `BoundedFIFO` | |
| `Codec` | handshake, decode, OnTraffic, WriteCloseFrame | |
| `AmqpPool` | connPool and channelPool | |
| `AmqpPoolState` | the state of the pool without quit, and its safety properties | extended by `AmqpPool` and `AmqpProofs` |
| `AmqpPublish` | one AMQP channel: sendBatch, monitor, the library's confirms and shutdown; that one sender has it at a time is OneOwner of `AmqpPool` | |
| `RedisQueue` | the redis queue: Send, loopSend, pipelines and single commands, Close; its sendCh is the `BoundedFIFO` | |
| `Delivery` | the casts and the forced closes: Process, Frame and its pool, WriteTo, WriteCloseFrame, the event loop's queue and the wire; who is registered, and as whom, is the subject of `Registry` | |
| `Inbound` | admission, limiters, messages, the heartbeat check and the jobs that forward events, with a clock | |
| `DeliveryProofs`, `MPSCQueueProofs`, `WorkerProofs`, `InboundProofs`, `CodecProofs`, `RedisQueueProofs` | the inductive invariant of each module, and theorems | extend the module they are named after, TLAPS |
| `AmqpProofs` | the same for the two AMQP modules | extends `AmqpPublish` and `AmqpPoolState`, with `AmqpPool` as the instance `Pool` |
| `MC...` | values of the constants for TLC | extend the above |

**Registry.** One action per atomic step. An operation of an index is a step, because it
runs under one shard lock; a list of topics is a step per topic. The writes of a command to
the info are one step, the one that takes the lock of the connection (nobody sees the info
without it). What a goroutine still has to do to the indexes is state: `taskUnbind`,
`taskBind`, `taskDrop`, `taskAdd` for the command that holds the lock, `openBind`, `openAdd`
for the open task, `closeUnbind`, `closeDrop` for OnWebsocketClose. `loop[c]` is how far the
event loop is with the connection, `open[c]` how far its open task. `overlap[c]` is a
history variable: the open task was overtaken by OnClose or by a command after its last
look at the closed flag (`websocket.go:151`). The commands and answers of the callback are
constants: the theorems hold for every set of them.

**MPSCQueue.** Every atomic load, store and compare-and-swap of `queue.go` is an action;
plain reads and writes of a slot's data are actions too, so that `NoDataRace` can see two
of them at once. `log` and `got` are the items claimed and read. `Tries` says which
producers call TryEnqueue.

**Worker.** `recv[w]` is the step of process, `loop[w]` of loopSend; Manager's lists are
changed one event at a time; `wire[w]` is what the business receives, a `"part"` being a
packet cut by a failed write. A write that fails without a byte leaves the connection open;
one that fails half-way, and a deadline that cannot be set (`NoDeadline`), close it.

**Codec.** A frame is a record of what its header says and whether its payload passes the
checks; it arrives in three stages, since decode runs on whatever the buffer holds. The
messages are sequences of frame indexes, so that `Reassembled` can say from which frames
each was made. The length of a frame is short, longer than a control frame may be, or has
the bit set that must be 0. Masking, the payload bytes, the deflate stream and the arithmetic
on lengths (`int(head.Length)+4` and the like, `codec.go:381-400`) are left out: the frames are
those whose length an int can hold with room for the header.

**AmqpPool.** A blocking send on a Go channel is an action whose guard is that there is
room; `NeverBlocks` says that the guard holds whenever a goroutine is there. Connections and
channels are managed by the same code, which the module models once. Variables and safety
properties are in `AmqpPoolState`, so that the proofs can name them next to those of
`AmqpPublish`; `quit`, which both modules have, is declared in each.

**AmqpPublish.** The monitor's `select` is a choice between its enabled cases. Positive and
negative confirms are both a tag: both count a message. Of the library, what the monitor and the senders
can observe is modelled from its source: the lock `ch.m` that shutdown holds (`shutdown = "locked"`), the
lock of the confirms that the reader holds while it delivers (`expecting <= upto`), the
closing of `errCh` and `confirmCh`.

**RedisQueue.** A packet's `content` is the message it carries now, and what is pushed and
counted is the content at that moment: a packet that is used after it went back to the pool
pushes or counts something else. Messages are numbered in the order of the calls of Send. An attempt
stores any part of a task's commands (`stored`) and leaves some commands without an error
(`ok`). Which ones follows the vendored go-redis: every command of a pipeline has an error of
its own (`clean` lists those without one); an attempt that reads replies sets them, one whose
writing or reading fails gives the error to the rest, and one that gets no connection, or loses
it before it reads, leaves them as they were (`Silent`). An error that may be tried again leads
to the next attempt (`AttemptLost`); `Exec` is the last one. A single command always gets the
error. `unanswered` is a history variable: the messages of pipelines that ended without any
reply read and without an error. `Chosen` lists the packets of a part
in the order of the batch. The metrics are kept per message, the bytes too: the meters of the
code are their sums, in which a message counted twice could hide one that is not counted. `keyType` is chosen at start; Close comes after quit.Cancel,
as in `cmd/netsvr.go`, and nothing is stored once quit.Ctx is done.

**Delivery.** A payload is a sequence of legs, one for each message and target in the order
of the loops, so that one set of actions serves all commands; how the commands differ is the
record named after each (`singleCastBulk`, `forceOffline`, ...). The commands that change the
registry and tell the client (connInfoUpdate, connInfoDelete, topicSubscribe, topicUnsubscribe,
topicDelete) run on the task connection itself; here they are the data they send along, and
`Members` stays as it is. `queue[c]` is what
AsyncWrite has handed to the event loop, `wire[c]` what it has written. gnet runs writes in
order, with high priority, and a close with low priority: it comes after the writes handed over
before it and perhaps after later ones. So `ends[c]` keeps, for each call of CloseOnSafe, how
many writes were before it, and `End` may come at any time after those. The
answers to the client's own frames are written by the event loop itself and pass by the
queue. Reading the flag, handing over the bytes and raising the flag are steps of their
own. `data`, `compressed` and `uncompressed` are the fields of a Frame; whoever takes one
from the pool sees what was left in them. GetConnections reads the shards one after the
other: since connections only leave here, reading them at once gives the same lists.

**Inbound.** Time is a variable in whole seconds, as `time.Now().Unix()` is. The connections
of all event loops are counted loop by loop (`Count`), while the other loops go on. The
check reads `lastActiveTime` and the clock in two steps; the difference is taken modulo
`Width`. `plan` is chosen at the start: what the outside may do in this behaviour, so that
the run explores a few scenarios in depth instead of all mixtures. `quiet[c]` is a history
variable: the longest silence so far.

`TypeOK` of each module states the types of its variables; `RegistryInv` contains the one of
`Registry`. The other runs name only properties that a mistake in the code could break; TLC
checks `TypeOK` along with them when it is added to the `.cfg`.

## 3. The runs

All runs finish in three minutes or less with two workers (`delivery`, the largest, has five
million distinct states). CHECK_DEADLOCK is off everywhere: connections end,
the bounds on inputs are used up, and then the system has legitimately nothing to do.
That goroutines do not wait for each other is stated by the liveness properties instead.

| run | checks | instance |
|---|---|---|
| `registry_all` | RegistryInv, IndexComplete, IndexSound, NoLateCommand, NoResidue, ClosedIsCleaned | 1 connection, 2 tasks, 2 customers, 2 topics, all commands; the business deletes one of the topics |
| `registry_unlisted` | violation: ClosedConnIsUnlisted | the same |
| `queue` | NoDataRace, ImplementsFIFO, ClaimedIsRead, CloseEnds | 2 producers with 2 sends each, 2 slots, batches up to 2 |
| `worker` | OneOwner, GreetedFirst, GoneIsUnlisted, CloseEnds | 1 connection, 1 sender with 2 events, 3 packets, sendCh of 2 |
| `codec` | AcceptsOnlyLegal, RejectsOnlyIllegal, Reassembled, ClosedIsGone | all sequences of 3 out of 20 frames |
| `codec_rsv` | violation: InterruptionIsHarmless | |
| `amqp_pool` | CapacityConserved, NeverBlocks, OneOwner, DeadLeaves | 2 clients, 2 sockets, PoolSize 2, three heartbeats |
| `amqp_publish` | NoOrphanBlocks, CountedOnce, BatchEnds, MonitorEnds | 2 batches of up to 2 messages, DequeueSize 2 |
| `amqp_jam` | violation: SendersGoOn | 4 batches of 1 message, DequeueSize 1 |
| `redis_queue` | OneOwner, CountedOnce, ConsumedInOrder | 3 messages of 2 senders, 3 packets, sendCh of 2, batches up to 2, 1 retry |
| `delivery` | Intact, CastInOrder, Reached, LateFrames, Farewell, OfflineIsFinal | 2 connections (one logged in and with deflate), 2 tasks, 10 commands (one of each kind), 2 of them in a behaviour, 2 Frames, 1 failing call |
| `inbound` | OnlineBound, WithinLimit, RefusedFairly, ActiveIsKept, SilentIsClosed | 2 event loops, 3 clients, room for 1; 4 plans |

### Bounds

* Registry: the connections are independent but for topicDelete and
  forceOfflineByCustomerId, which visit them one by one; one connection with two tasks, its
  open task and its event loop has all the races for one connection. Two customers and two
  topics let a relation be replaced and a list be worked on halfway. The theorems cover any
  number of everything.
* MPSCQueue: four items through two slots wrap the ring twice and fill it; two
  producers collide on a slot; one consumer is all there is. `Limit` 2 allows batches.
* Worker: three packets overfill a sendCh of two and a batch may have two; two requests allow
  Register and Unregister, or a second Register. One event and one sender keep the state
  space small enough for liveness; senders and process compete for sendCh all the same.
* Codec: three frames are the shortest sequences with a control frame between two
  fragments; the frames are one of each kind and one for each way to be wrong.
* AmqpPool: two clients, a ticker and two watchers on two places; a socket dies in every
  possible place.
* AmqpPublish: a batch of two fails at its first or its second message; the channel is used
  by one sender at a time, so one sender takes both batches. Four messages do not overflow
  the confirmCh of four; `amqp_jam` uses a smaller one that does.
* RedisQueue: messages of 4, 5 and 6 bytes and a limit of 10 make batches below, at and above
  the limit; three messages fill sendCh, make a batch of two and another one, and reuse a
  packet. `MaxRetries` 1: an attempt that is lost and one that is the last, each of which may get no
  connection. Packets and senders are symmetric. The run has no liveness property; that loopSend
  ends after Close is CloseEnds of `queue`.

* Delivery: two commands are enough for two casts side by side, a cast against a forced close,
  and two closes, from one task connection or from two. The payload of two legs (singleCastBulk) has a
  message before and after the one that fails, the broadcast a connection; a message worth compressing and one that is not, on a
  connection with deflate and one without, give every form and let a Frame pass from one to
  the other; two commands hold at most two Frames. `MaxFails` 1: one call of AsyncWrite or
  CompressTo fails, at any place.
* Inbound: `MaxOnline` 1 with three clients on two loops, one of them shared, so that two loops
  count at once. `Size`, `WindowMax` and `ZeroMax` 1 and four messages in six seconds: the free
  message, a full window, a refused message and a new window, with every distance between them.
  `Interval` 3 with `Late` and `Pause` 1: messages at every second before, between and after the
  two reads, through four checks. `Late` and `Pause` bound how long a callback may wait for the
  processor; `SilentIsClosed` and `ActiveIsKept` say how the guarantee depends on them.
  `Width` stands for 2^32 and is larger than the clock gets: the code supports no later time
  (`info.go:48`). `Epoch` is larger than `Size`, as the Unix time is.

### Fairness

Weak fairness of every goroutine that is in the middle of something, and of armed timers:
the Go scheduler runs runnable goroutines, `time.AfterFunc` and tickers fire. Nothing is
assumed of customers, the business, the broker or the network: nobody has to connect, send,
confirm, read or close. A write ends because it has a deadline; a read on a closed socket
fails (`Worker`). That timers fire holds until the process is told to end, which stops them
(`internal/timer/timer.go:36`); `ClosedIsGone` of `Codec` is about the time before that.
`Delivery` and `Inbound` have no liveness property; `SilentIsClosed` is a deadline instead. A select with several ready cases is one action under weak fairness, which
does not promise that a given case is taken. No strong fairness is used.

### What the exceptions in properties say

`NoResidue` and `IndexSound` speak of connections with `~overlap[c]`, and of a topic only if the
business never deletes it;
`GoneIsUnlisted` of connections not listed late; `Reassembled` and `RejectsOnlyIllegal` make
an exception for compressed messages that were interrupted; `CountedOnce` for confirms read
before their records; `BatchEnds` for a jam; `ConsumedInOrder` for messages that go-redis sent
again, and `CountedOnce` of `RedisQueue` for packets put into sendCh after loopSend had left and
for pipelines that end without any reply read (`unanswered`);
`Reached` for singleCastBulk after a failure; `LateFrames` for one message per command;
`Farewell` for the answer to an illegal frame, and for the message of a forced close when a
write to this client failed; `OfflineIsFinal` for delayed forced closes. Each
exception is a deviation of section 5: the property shows that there is no other.

## 4. The proofs

`RegistryProofs` proves, for all sets of connections, tasks, customers, topics, answers and
commands (assumption `ConstantsAssumption`: the placeholders are not members of the sets, and
answers and commands have their types):

* `RegistryInvariance`: `Spec => []RegistryInv`;
* `IndexCompleteness`: `Spec => []IndexComplete`;
* `NoLateCommands`: `Spec => []NoLateCommand`;
* `NoResidueLeft`: `Spec => []NoResidue`;
* `IndexSoundness`: `Spec => []IndexSound`.

None of these is inductive: that an index has everything the info says is false in the
middle of a command. `RegistryInv` says what is true there, in parts. `LockInv`: the lock
of a connection belongs to the task that works on it, and without a lock there is no work
left. `AgentInv`: the open task and the closer have work only in the middle of their lives.
`FlagInv`: the flag is up before the closer begins, so that after its snapshot nobody
holds the lock. `UnregisteredInv`: until manager.Set nobody knows the connection.
`ListedInv`: whoever is about to work on a connection found it listed. `BinderInv` and
`TopicInv`: whatever the info says is in the index, or in somebody's work list.
`NotOvertakenInv`, `BinderSoundInv`, `TopicSoundInv`: the converse, for connections whose
open task was not overtaken (and, for a topic, if the business never deletes it). The proof has
one lemma per action and under it one step per part that the action can disturb; the
properties follow from the parts: for a settled connection the work lists are empty.

The other proof modules are built the same way: each begins with its inductive invariant, in
named parts, then has the lemmas about the data, then one lemma per action or group of actions,
and ends with the theorems. Each also proves `TypeCorrect`, `Spec => []TypeOK`.

| module | theorems | from the assumptions | for every |
|---|---|---|---|
| `MPSCQueueProofs` | `NoDataRaceTheorem`; `Refinement`: `Spec => ImplementsFIFO` | `QueueAssumption`: at least 2 slots, as `New` makes | set of producers, capacity, limit, number of sends |
| `WorkerProofs` | `OneOwnerTheorem`, `GreetedFirstTheorem`, `GoneIsUnlistedTheorem` | `WorkerAssumption`: the types of the constants | set of workers, senders, packets, events and requests |
| `AmqpProofs`, the pools | `CapacityTheorem`, `NeverBlocksTheorem`, `OneOwnerTheorem` | `PoolAssumption`: clients and sockets are finite sets, and a client is no heartbeat | number of clients, sockets and heartbeats, PoolSize |
| `AmqpProofs`, publishing | `NoOrphanBlocksTheorem`, `CountedOnceTheorem` | `PublishAssumption` | set of senders, dequeueSize, number of batches |
| `RedisQueueProofs` | `OneOwnerTheorem`, `CountedOnceTheorem`, `ConsumedInOrderTheorem` | `RedisAssumption`: positive capacity, batch size and message lengths | set of senders and packets, capacity, batch size, packLimit, number of messages and retries |
| `CodecProofs` | `AcceptsOnlyLegalTheorem`, `RejectsOnlyIllegalTheorem`, `ReassembledTheorem` | `CodecAssumption`: frames are frames | set of frames, length of the stream and way to cut it |
| `DeliveryProofs` | `IntactTheorem`, `CastInOrderTheorem`, `ReachedTheorem`, `LateFramesTheorem`, `FarewellTheorem`, `OfflineIsFinalTheorem` | `ConstantsAssumption`, `RequestsAssumption`: what the commands of the business can say | set of connections, topics, customers, commands, Frames and failing calls |
| `InboundProofs` | `OnlineBoundTheorem`, `WithinLimitTheorem`, `RefusedFairlyTheorem`, `ActiveIsKeptTheorem`, `SilentIsClosedTheorem` | `ConstantsAssumption`: finitely many connections, the clock below `Width`, callbacks over before the next (`Late + Pause < Interval`) | number of loops and connections, all limits, all plans |

Why the invariants are what they are:

* `MPSCQueueProofs`. Neither theorem is inductive, because a slot alone does not tell whose it
  is: `sequence[i]` is compared with a position. `WindowInv` gives every slot the one position
  it stands for, in the window of `Cap` positions from the first one the consumer has not
  released: consumed, claimed or free, which the sequence number tells apart. `OwnerInv` says
  that producers who have claimed have different positions, hence different slots. The
  refinement maps what the abstract queue has accepted to `log` and what it has delivered to
  `got`: claiming a position is Put, reading a slot is Get, the closed flag is Shut, a
  Dequeue that returns 0 is End, and everything else stutters.
* `WorkerProofs`. `PacketInv` names the places of packets one by one; `Ordered` says of every
  place in which an event can be (wire, batch, sendCh) that "registered" is ahead of it, and
  `KnownInv` that a sender picked a connection only after its register had put the answer
  into sendCh. `CloseInv` says that what is still listed is what Close has still to delete.
* `AmqpProofs`, the pools. The sum in `CapacityConserved` counts the goroutines that owe a place; the
  step that moves a debt is an equation between cardinalities of finite sets. `NeverBlocks`
  follows from it: whoever stands before a send is one of the debtors. `PlaceInv` and
  `LiveInv` say where sockets are and that what becomes a token is dead.
* `AmqpProofs`, publishing. The hard part is that the monitor may read confirms before the records
  they belong to. `EffectiveInv` therefore does not speak of the monitor's map as it is, but
  of what will be in it once the records on publishedCh are read, for every tag; `Right` says
  what that is. `CountInv` then says that exactly what is settled is counted, and `AfterInv`
  that a channel taken after the monitor left is found with an empty publishedCh.
* `RedisQueueProofs`. None of the three is inductive: a count is right because of the packets
  that are still on their way, an order because of what is in redis before a push. `ApartInv`
  and `LoopInv` say where packets are; `ContentInv` that packets out of the pool carry different
  messages, so that what is true of a packet is true of its message. `CountInv` says that the
  message of a packet that waits (`Waiting`) or is pushed (`Pushing`) is not counted yet,
  `CleanInv` that the commands without error of a pipeline are stored as soon as one of its
  commands has an error (an error stays until a reply is read, so only a pipeline that never had
  one can end with commands that are neither stored nor failed), and
  `AcceptedInv` that what loopSend has to do is counted or still with one of them. For the
  order, `PushedInv` says that a message in redis whose task still runs was stored by a lost
  attempt, and `GroupInv` that a batch is one task's, in the same order, or no task's any
  more: a push then adds messages of a batch of which redis has none yet, or none of it. `Chosen`
  takes the stored part by counting smaller indexes; `ChosenFacts` shows with the cardinality
  theorems that it is increasing and leaves nothing out. The steps are first reduced to ten
  kinds (`Kinds`), and their effect on packets and messages to `Flow`; each part of the
  invariant is then shown once per kind, or once for `Flow`.
* `CodecProofs`. The reference says which frames are legal and which frames a message has, from
  the stream alone; the decoder has a current and an interrupted message. `BodyInv` says that the
  two agree between frames: whichever of the two messages is open lists exactly `Pending`, the
  frames of the stream's unfinished message, in order. `ShapeInv` says that a message is put
  aside only while a control frame is on its way or held back, `RsvInv` that messageRsv tells
  whether the open message is compressed unless a control frame has come since its first frame.
* `DeliveryProofs`. All properties are about `Sent(c)`, what is on the wire and in the queue of a
  client. `FrameInv` says that what a Frame caches is always an encoding of its data, `DataInv`
  and `OrderInv` where an entry came from and that its command is past it, `CloseInv` and
  `FinalInv` that a forced close leaves the flag up before its task connection goes on,
  `LateInv` that a WriteTo that has seen the flag down has one message left.
* `InboundProofs`. `OnlineBound` rests on `CountInv`: of any connections that are there together,
  the one that came last has counted all the others on the loops it has read. `WindowOf` relates
  the counter of `Allow` to the history of messages; `SeenInv` and `DueInv` say how old what the
  check has read may be, and when it is due.

Only model-checked: all liveness (ClosedIsCleaned, ClaimedIsRead, CloseEnds of `queue` and of
`worker`, DeadLeaves, BatchEnds, MonitorEnds, ClosedIsGone), since fairness and ENABLED are
beyond the prover. Every invariant and the refinement that a run checks are also proved. What is
not proved of `RedisQueue` is what SizeOf computes, an induction over data: the theorems hold
whichever of the two ways a batch is pushed.

## 5. Known deviations

Runs with expectation "violation" exhibit these:

* `registry_unlisted`: OnClose between the open task's last look at the flag and
  `manager.Set`: the connection is listed for ever;
* `codec_rsv`: a control frame between fragments makes a compressed message a plain one;
* `amqp_jam`: a sender, the monitor, the library's reader and its shutdown wait for each
  other.

Seen while modelling, without a run of their own: connInfoUpdate between `manager.Set` and
`binder.SetRelation` of the open task leaves the connection bound to two customers (the
reason for `overlap` in `IndexSound`); after a partial write loopSend's Close returns at once
when process is closing already, and the next packets follow half a packet until the socket
is closed (a `"part"` that is not the last of `wire`; `worker/conn.go:163` says the
connection is closed by force); forceOfflineGuest closes a connection that logs in
between its look and its close; `Enqueue` may return true after the consumer of the closed
queue has left (`ClaimedIsRead` is about items claimed before Close); the monitor's select may take a confirm before its record, whose bytes
are then counted as 0 and which is counted as failed in the end (`overtaken`); the delay
before sendCh is closed leaves loopSend time to push what is left, but quit.Ctx is done by
then, so all of it fails, and the process exits without waiting for the timer; a worker
connection whose process is in the middle of Register when loopSend closes it may be listed for
an event after Close has deleted it from that list, and stays there (`late` in
`GoneIsUnlisted`).

Of the redis queue: a pipeline none of whose attempts gets a connection is counted as succeeded,
bytes included, while redis holds nothing. go-redis gives the commands an error only when it
stops before its retries are used up (`redis.go:1170-1174`); when they are used up it returns
the error and the commands keep none (`redis.go:1200`), and queue.go asks the commands
(`queue.go:226-243`, `292-309`). `metrics.go:56` calls the meter the number of times customer
data was forwarded to the business through the redis queue
("统计客户数据通过redis队列转发到业务侧的次数"). `CountedOnce` states this as an exception: without
`unanswered` TLC shows a behaviour of seven states, in which one message is sent, taken in a
batch and pushed without a connection, and is then counted as succeeded with an empty redis.

Of delivery: a data frame may follow the close frame on the wire, one per command
(`LateFrames`); on a decode error OnTraffic writes a close frame even if one was sent
(`Farewell`); the first failed write of a singleCastBulk ends it for all other connections
(`Reached`); casts of one task connection may overtake each other, and those sent before a
forceOffline may be lost or follow it; a failed AsyncWrite has handed its bytes to the event
loop all the same, so a message reported as failed may arrive.

Of the receiving side: OnClose, messages and OnOpen are forwarded by jobs of a pool and may
reach the business in any order; messages are forwarded while the callback still decides
about their connection, and also if it denies it; a connection that is refused or denied
produces OnClose without OnOpen. The heartbeat check begins only when the open task is
through, and ends with the signal that ends the process. A window lasts until a message comes
more than LimitWindowSizeSeconds after its start, so in whole seconds one second longer than
its name says. The heartbeat check runs every HeartbeatInterval and compares with
HeartbeatIntervalSecond, the same without its fraction of a second (`config.go:322`): `Interval`
stands for both, so `ActiveIsKept` and `SilentIsClosed` are about intervals of whole seconds;
with another the check is stricter by the fraction. The timer wheel runs each callback in a
goroutine of its own; `Late + Pause < Interval` keeps two of one connection apart. The token
buckets are in the model because they decide which clients and messages get on; no property is
about how they are filled. The command `limit` changes the rate but not the burst of a limiter, and does
nothing where the configuration has none. OnlineNum counts connections that have not been
upgraded, so clients may be refused below MaxOnlineNum (`OnlineBound` is the other side).

topicSubscribe between the two halves of topicDelete sets a relation of which
UnsubscribeTopicOnSafe then deletes only the info's side; OnWebsocketClose goes by the info,
and the relation stays.

## 6. Not modelled, and the plan

Not modelled: the read-only queries (they report an approximate view and change nothing),
configuration (its values are the constants of the modules), metrics and logging (they only
observe), the object pools as such (wrappers of sync.Pool; what is pooled is modelled with
its users), the topology declared on the broker and the clients created at start-up.

In the order planned:

1. `Shutdown`: what the order of `cmd/netsvr.go` loses, on top of `RedisQueue`;
2. unique ids (`uniqIdGen`): never reused within the time a connection can live, including
   the wrap of the counter, which `Registry` and `Worker` assume.
