---------------------------- MODULE AmqpPublish ----------------------------
(***************************************************************************)
(* One AMQP channel from its creation to the end of its monitor.           *)
(*                                                                         *)
(* Batches of messages are published by goroutines that get the channel     *)
(* from channelPool and have it for themselves until they release it        *)
(* (OneOwner of AmqpPool).  Before a message is published its size is put   *)
(* into publishedCh.  The monitor of the channel reads publishedCh and the  *)
(* confirms of the broker and keeps the metrics: every message is to be     *)
(* counted as succeeded or failed.  When the channel dies the monitor goes  *)
(* on to read publishedCh until nobody uses the channel any more.           *)
(*                                                                         *)
(* The library (amqp091-go): its reader goroutine delivers confirms into    *)
(* confirmCh under the lock of confirms and blocks there while confirmCh is *)
(* full; shutdown, in a goroutine of its own, flags the channel closed,     *)
(* takes ch.m, closes errCh, waits for the lock of confirms to close        *)
(* confirmCh, and only then lets ch.m go; Publish needs ch.m.               *)
(***************************************************************************)
EXTENDS Integers, Sequences

CONSTANTS Senders,      \* goroutines of the worker pool that run sendBatch
          DequeueSize,  \* dequeueSize: the largest batch
          MaxBatches,   \* bound: batches dequeued
          NoMessage     \* the size 0 of a record that revokes another

\* Mutant: room for one record.
ChanCapOne == 1

\* The capacity of publishedCh and of confirmCh.
ChanCap == 2 * DequeueSize

Messages == (1 .. MaxBatches) \X (1 .. DequeueSize)

ASSUME PublishAssumption ==
    /\ DequeueSize \in Nat \ {0}
    /\ MaxBatches \in Nat
    /\ NoMessage \notin Messages

VARIABLES
    place,          \* the channel is "pooled", "used" by a sender or "dropped" from the pool
    refCount,       \* amqpChInfo.refCount
    publishedCh,    \* records <<seqNo, message>>, or <<seqNo, NoMessage>>
    sender,         \* per sender: the step of sendBatch
    batches,        \* batches loopSend has dequeued
    batch, count, at,       \* per sender: its batch, the messages in it, the current one
    monitor,        \* the step of monitor
    publishedMp,    \* the records of the monitor that are not settled
    published,      \* library: the messages published; the tag of one is its place
    shutdown,       \* library: "no", "flagged", "locked" (ch.m held, errCh closed) or "over"
    expecting,      \* library: the next tag to confirm
    upto,           \* library: the last tag the reader has to confirm now
    confirmCh,      \* library: the tags of the confirms, positive or negative
    quit,           \* quit.Ctx is done
    issued,         \* history: the messages in the batches
    counted,        \* history, per message: how often it was counted
    overtaken       \* history: messages whose confirm was read before their record

lib == <<published, shutdown, expecting, upto>>
mon == <<monitor, publishedMp>>
work == <<batches, batch, count, at, issued>>
history == <<counted, overtaken>>
snd == <<sender, work>>
vars == <<place, refCount, publishedCh, snd, mon, lib, confirmCh, quit, history>>

Current(s) == <<batch[s], at[s]>>
IsClosed == shutdown # "no"
Records == (Nat \ {0}) \X (Messages \cup {NoMessage})

TypeOK ==
    /\ place \in {"pooled", "used", "dropped"}
    /\ refCount \in Nat
    /\ publishedCh \in Seq(Records)
    /\ Len(publishedCh) <= ChanCap
    /\ sender \in [Senders -> {"idle", "taken", "record", "publish", "undo", "judge",
                               "unref", "look", "put"}]
    /\ batches \in 0 .. MaxBatches
    /\ batch \in [Senders -> 0 .. MaxBatches]
    /\ count \in [Senders -> 0 .. DequeueSize]
    /\ at \in [Senders -> 1 .. DequeueSize + 1]
    /\ monitor \in {"run", "end", "drain", "confirms", "count", "gone"}
    /\ publishedMp \in SUBSET Records
    /\ published \in Seq(Messages)
    /\ shutdown \in {"no", "flagged", "locked", "over"}
    /\ expecting \in 1 .. Len(published) + 1
    /\ upto \in 0 .. Len(published)
    /\ confirmCh \in Seq(1 .. Len(published))
    /\ Len(confirmCh) <= ChanCap
    /\ quit \in BOOLEAN
    /\ issued \in SUBSET Messages
    /\ counted \in [Messages -> Nat]
    /\ overtaken \in SUBSET Messages

\* createChannel has made the channel and started the monitor; its creator has released it.
Init ==
    /\ place = "pooled"
    /\ refCount = 0
    /\ publishedCh = << >>
    /\ sender = [s \in Senders |-> "idle"]
    /\ batches = 0
    /\ batch = [s \in Senders |-> 0]
    /\ count = [s \in Senders |-> 0]
    /\ at = [s \in Senders |-> 1]
    /\ monitor = "run"
    /\ publishedMp = {}
    /\ published = << >>
    /\ shutdown = "no"
    /\ expecting = 1
    /\ upto = 0
    /\ confirmCh = << >>
    /\ quit = FALSE
    /\ issued = {}
    /\ counted = [m \in Messages |-> 0]
    /\ overtaken = {}

-----------------------------------------------------------------------------
(***************************************************************************)
(* sendBatch, on the n messages loopSend has dequeued.                     *)
(***************************************************************************)
NewBatch(s, n) ==
    /\ sender[s] = "idle"
    /\ batches < MaxBatches
    /\ batches' = batches + 1
    /\ issued' = issued \cup {<<batches + 1, i>> : i \in 1 .. n}

\* The worker pool refuses the batch, or getAmqpChannel returns nil: all messages failed.
Discard(s, n) ==
    /\ NewBatch(s, n)
    /\ counted' = [m \in Messages |->
                      IF m \in issued' \ issued THEN counted[m] + 1 ELSE counted[m]]
    /\ UNCHANGED <<place, refCount, publishedCh, sender, batch, count, at, mon, lib,
                   confirmCh, quit, overtaken>>

\* getAmqpChannel: the channel is taken out of the pool, ...
Take(s, n) ==
    /\ place = "pooled"
    /\ NewBatch(s, n)
    /\ place' = "used"
    /\ sender' = [sender EXCEPT ![s] = "taken"]
    /\ batch' = [batch EXCEPT ![s] = batches + 1]
    /\ count' = [count EXCEPT ![s] = n]
    /\ UNCHANGED <<refCount, publishedCh, at, mon, lib, confirmCh, quit, history>>

\* ... then its reference is counted.
Ref(s) ==
    /\ sender[s] = "taken"
    /\ refCount' = refCount + 1
    /\ sender' = [sender EXCEPT ![s] = "record"]
    /\ UNCHANGED <<place, publishedCh, work, mon, lib, confirmCh, quit, history>>

\* publishedCh <- published{seqNo, size}
Record(s) ==
    /\ sender[s] = "record"
    /\ Len(publishedCh) < ChanCap
    /\ publishedCh' = Append(publishedCh, <<Len(published) + 1, Current(s)>>)
    /\ sender' = [sender EXCEPT ![s] = "publish"]
    /\ UNCHANGED <<place, refCount, work, mon, lib, confirmCh, quit, history>>

\* The loop goes on with the next message, if there is one.
NextMessage(s) ==
    /\ at' = [at EXCEPT ![s] = @ + 1]
    /\ sender' = [sender EXCEPT ![s] = IF at[s] < count[s] THEN "record" ELSE "unref"]

\* Publish waits for ch.m, ...
Publish(s) ==
    /\ sender[s] = "publish"
    /\ ~IsClosed
    /\ published' = Append(published, Current(s))
    /\ NextMessage(s)
    /\ UNCHANGED <<place, refCount, publishedCh, batches, batch, count, issued, mon,
                   shutdown, expecting, upto, confirmCh, quit, history>>

\* ... and fails on a closed channel or a broken connection.
PublishFailed(s) ==
    /\ sender[s] = "publish"
    /\ shutdown # "locked"
    /\ sender' = [sender EXCEPT ![s] = "undo"]
    /\ UNCHANGED <<place, refCount, publishedCh, work, mon, lib, confirmCh, quit, history>>

\* publishedCh <- published{seqNo, 0}
Undo(s) ==
    /\ sender[s] = "undo"
    /\ Len(publishedCh) < ChanCap
    /\ publishedCh' = Append(publishedCh, <<Len(published) + 1, NoMessage>>)
    /\ sender' = [sender EXCEPT ![s] = "judge"]
    /\ UNCHANGED <<place, refCount, work, mon, lib, confirmCh, quit, history>>

\* Mutant: the messages left are counted, the current one is not.
JudgeRest(s) ==
    /\ sender[s] = "judge"
    /\ IF IsClosed
       THEN /\ counted' = [m \in Messages |->
                    IF m[1] = batch[s] /\ m[2] \in at[s] + 1 .. count[s]
                    THEN counted[m] + 1 ELSE counted[m]]
            /\ sender' = [sender EXCEPT ![s] = "unref"]
            /\ UNCHANGED at
       ELSE /\ counted' = [counted EXCEPT ![Current(s)] = @ + 1]
            /\ NextMessage(s)
    /\ UNCHANGED <<place, refCount, publishedCh, batches, batch, count, issued, mon, lib,
                   confirmCh, quit, overtaken>>

\* This message failed; if the channel is closed, all that are left did.
Judge(s) ==
    /\ sender[s] = "judge"
    /\ IF IsClosed
       THEN /\ counted' = [m \in Messages |->
                    IF m[1] = batch[s] /\ m[2] \in at[s] .. count[s]
                    THEN counted[m] + 1 ELSE counted[m]]
            /\ sender' = [sender EXCEPT ![s] = "unref"]
            /\ UNCHANGED at
       ELSE /\ counted' = [counted EXCEPT ![Current(s)] = @ + 1]
            /\ NextMessage(s)
    /\ UNCHANGED <<place, refCount, publishedCh, batches, batch, count, issued, mon, lib,
                   confirmCh, quit, overtaken>>

\* Mutant: the reference stays.
UnrefNothing(s) ==
    /\ sender[s] = "unref"
    /\ sender' = [sender EXCEPT ![s] = "look"]
    /\ UNCHANGED <<place, refCount, publishedCh, work, mon, lib, confirmCh, quit, history>>

\* release: the reference, the look at the channel, the pool.
Unref(s) ==
    /\ sender[s] = "unref"
    /\ refCount' = refCount - 1
    /\ sender' = [sender EXCEPT ![s] = "look"]
    /\ UNCHANGED <<place, publishedCh, work, mon, lib, confirmCh, quit, history>>

Return(s) ==
    /\ sender' = [sender EXCEPT ![s] = "idle"]
    /\ batch' = [batch EXCEPT ![s] = 0]
    /\ count' = [count EXCEPT ![s] = 0]
    /\ at' = [at EXCEPT ![s] = 1]

Look(s) ==
    /\ sender[s] = "look"
    /\ IF IsClosed
       THEN place' = "dropped" /\ Return(s)
       ELSE sender' = [sender EXCEPT ![s] = "put"] /\ UNCHANGED <<place, batch, count, at>>
    /\ UNCHANGED <<refCount, publishedCh, batches, issued, mon, lib, confirmCh, quit,
                   history>>

Put(s) ==
    /\ sender[s] = "put"
    /\ place' = "pooled"
    /\ Return(s)
    /\ UNCHANGED <<refCount, publishedCh, batches, issued, mon, lib, confirmCh, quit,
                   history>>

SendBatch(s) ==
    \/ Ref(s)
    \/ Record(s)
    \/ Publish(s)
    \/ PublishFailed(s)
    \/ Undo(s)
    \/ Judge(s)
    \/ Unref(s)
    \/ Look(s)
    \/ Put(s)

-----------------------------------------------------------------------------
(***************************************************************************)
(* monitor.                                                                *)
(***************************************************************************)
Unrecord(no) == {r \in publishedMp : r[1] # no}

\* Mutant: publishedCh is not read while the monitor waits for the end.
ReadRecordRunning ==
    /\ monitor = "run"
    /\ publishedCh # << >>
    /\ LET r == Head(publishedCh)
       IN  publishedMp' = Unrecord(r[1]) \cup (IF r[2] = NoMessage THEN {} ELSE {r})
    /\ publishedCh' = Tail(publishedCh)
    /\ UNCHANGED <<place, refCount, snd, monitor, lib, confirmCh, quit, history>>

\* A record of publishedCh is set, or deleted.
ReadRecord ==
    /\ monitor \in {"run", "drain"}
    /\ publishedCh # << >>
    /\ LET r == Head(publishedCh)
       IN  publishedMp' = Unrecord(r[1]) \cup (IF r[2] = NoMessage THEN {} ELSE {r})
    /\ publishedCh' = Tail(publishedCh)
    /\ UNCHANGED <<place, refCount, snd, monitor, lib, confirmCh, quit, history>>

\* A confirm counts its message, as succeeded or as failed, and settles its record.
ReadConfirm ==
    /\ monitor \in {"run", "confirms"}
    /\ confirmCh # << >>
    /\ LET no == Head(confirmCh)
           m  == published[no]
       IN  /\ counted' = [counted EXCEPT ![m] = @ + 1]
           /\ publishedMp' = Unrecord(no)
           /\ overtaken' = IF <<no, m>> \in publishedMp THEN overtaken ELSE overtaken \cup {m}
    /\ confirmCh' = Tail(confirmCh)
    /\ UNCHANGED <<place, refCount, publishedCh, snd, monitor, lib, quit>>

\* errCh is closed, or confirmCh is closed and empty.
ReadClosed ==
    /\ monitor = "run"
    /\ shutdown \in {"locked", "over"}
    /\ monitor' = "end"
    /\ UNCHANGED <<place, refCount, publishedCh, snd, publishedMp, lib, confirmCh, quit,
                   history>>

\* channel.Close(), which is closed already, and a heartbeat: it takes the channel out of
\* the pool, unless a concurrent heartbeat or client has moved it out of sight.
MonitorEnd ==
    /\ monitor = "end"
    /\ place' \in {place} \cup (IF place = "pooled" THEN {"dropped"} ELSE {})
    /\ monitor' = "drain"
    /\ UNCHANGED <<refCount, publishedCh, snd, publishedMp, lib, confirmCh, quit, history>>

\* The timer: nobody refers to the channel and publishedCh is empty.
Delay ==
    /\ monitor = "drain"
    /\ refCount = 0
    /\ publishedCh = << >>
    /\ monitor' = "confirms"
    /\ UNCHANGED <<place, refCount, publishedCh, snd, publishedMp, lib, confirmCh, quit,
                   history>>

\* quit ends the monitor at once.
DrainQuit ==
    /\ monitor = "drain"
    /\ quit
    /\ monitor' = "count"
    /\ UNCHANGED <<place, refCount, publishedCh, snd, publishedMp, lib, confirmCh, quit,
                   history>>

ConfirmsEnd ==
    /\ monitor = "confirms"
    /\ confirmCh = << >>
    /\ shutdown = "over"
    /\ monitor' = "count"
    /\ UNCHANGED <<place, refCount, publishedCh, snd, publishedMp, lib, confirmCh, quit,
                   history>>

\* The defer: what is still recorded has failed.
CountFailed ==
    /\ monitor = "count"
    /\ counted' = [m \in Messages |->
                      IF \E r \in publishedMp : r[2] = m THEN counted[m] + 1 ELSE counted[m]]
    /\ monitor' = "gone"
    /\ UNCHANGED <<place, refCount, publishedCh, snd, publishedMp, lib, confirmCh, quit,
                   overtaken>>

Monitor ==
    \/ ReadRecord
    \/ ReadConfirm
    \/ ReadClosed
    \/ MonitorEnd
    \/ Delay
    \/ DrainQuit
    \/ ConfirmsEnd
    \/ CountFailed

-----------------------------------------------------------------------------
(***************************************************************************)
(* The library and the broker.                                             *)
(***************************************************************************)
\* The broker confirms the messages up to tag n (basic.ack or basic.nack).
Confirm(n) ==
    /\ shutdown \in {"no", "flagged"}
    /\ expecting > upto
    /\ n \in expecting .. Len(published)
    /\ upto' = n
    /\ UNCHANGED <<place, refCount, publishedCh, snd, mon, published, shutdown,
                   expecting, confirmCh, quit, history>>

\* The reader delivers them one by one, as long as there is room.
Deliver ==
    /\ expecting <= upto
    /\ Len(confirmCh) < ChanCap
    /\ confirmCh' = Append(confirmCh, expecting)
    /\ expecting' = expecting + 1
    /\ UNCHANGED <<place, refCount, publishedCh, snd, mon, published, shutdown, upto,
                   quit, history>>

\* A failed write, a missed heartbeat, the broker: the channel is flagged closed, ...
ShutdownBegin ==
    /\ shutdown = "no"
    /\ shutdown' = "flagged"
    /\ UNCHANGED <<place, refCount, publishedCh, snd, mon, published, expecting, upto,
                   confirmCh, quit, history>>

\* ... ch.m is taken and errCh closed, ...
ShutdownLock ==
    /\ shutdown = "flagged"
    /\ shutdown' = "locked"
    /\ UNCHANGED <<place, refCount, publishedCh, snd, mon, published, expecting, upto,
                   confirmCh, quit, history>>

\* ... and confirmCh, once the reader has let the lock of confirms go.
ShutdownEnd ==
    /\ shutdown = "locked"
    /\ expecting > upto
    /\ shutdown' = "over"
    /\ UNCHANGED <<place, refCount, publishedCh, snd, mon, published, expecting, upto,
                   confirmCh, quit, history>>

\* Another heartbeat of the pool finds the dead channel.
Heartbeat ==
    /\ place = "pooled"
    /\ IsClosed
    /\ place' = "dropped"
    /\ UNCHANGED <<refCount, publishedCh, snd, mon, lib, confirmCh, quit, history>>

Quit ==
    /\ ~quit
    /\ quit' = TRUE
    /\ UNCHANGED <<place, refCount, publishedCh, snd, mon, lib, confirmCh, history>>

Library == Deliver \/ ShutdownLock \/ ShutdownEnd

Next ==
    \/ \E s \in Senders :
        \/ SendBatch(s)
        \/ \E n \in 1 .. DequeueSize : Take(s, n) \/ Discard(s, n)
    \/ Monitor
    \/ Library
    \/ \E n \in 1 .. Len(published) : Confirm(n)
    \/ ShutdownBegin
    \/ Heartbeat
    \/ Quit

Spec == Init /\ [][Next]_vars

\* Goroutines run and timers fire; the broker owes no confirm and the channel need not die.
Fairness ==
    /\ \A s \in Senders : WF_vars(SendBatch(s))
    /\ WF_vars(Monitor)
    /\ WF_vars(Deliver)
    /\ WF_vars(ShutdownLock \/ ShutdownEnd)
    /\ WF_vars(Heartbeat)

FairSpec == Spec /\ Fairness

-----------------------------------------------------------------------------
(***************************************************************************)
(* Once the monitor reads publishedCh no more, a sender that still got the *)
(* channel - taken out of the pool, its reference not counted yet - finds  *)
(* room: the record and its revocation are all it writes.  This is what    *)
(* the delay and the capacity of publishedCh are for.                      *)
(***************************************************************************)
NoOrphanBlocks ==
    ~quit /\ monitor \in {"confirms", "count", "gone"} =>
        \A s \in Senders : sender[s] \in {"record", "undo"} => Len(publishedCh) < ChanCap

(***************************************************************************)
(* A message is counted once, as succeeded or as failed, while the process *)
(* does not end.  Never twice, unless the monitor's select took its        *)
(* confirm before its record; and at least once when the monitor and its   *)
(* sender are through: published or not, confirmed or not, and however the *)
(* channel died.                                                           *)
(***************************************************************************)
CountedOnce ==
    ~quit =>
        /\ \A m \in Messages \ overtaken : counted[m] <= 1
        /\ monitor = "gone" =>
              \A m \in issued : (\A s \in Senders : batch[s] # m[1]) => counted[m] >= 1

\* The reader waits for room in confirmCh, and shutdown for the reader, with ch.m held.
Jammed ==
    /\ shutdown = "locked"
    /\ expecting <= upto
    /\ Len(confirmCh) = ChanCap
    /\ monitor = "drain"

(***************************************************************************)
(* A batch ends: publishedCh is read as long as it has to be, and Publish  *)
(* gets ch.m, unless the reader of the library has stopped on a full       *)
(* confirmCh that the monitor does not read while it drains publishedCh.   *)
(***************************************************************************)
BatchEnds == \A s \in Senders : sender[s] # "idle" ~> sender[s] = "idle" \/ quit \/ Jammed

\* The monitor of a closed channel ends: its goroutine and the records are freed.
MonitorEnds == IsClosed ~> monitor = "gone" \/ Jammed

-----------------------------------------------------------------------------
(***************************************************************************)
(* What the comment at the end of monitor promises: it keeps reading so    *)
(* that the senders do not deadlock.                                       *)
(***************************************************************************)
SendersGoOn == \A s \in Senders : sender[s] # "idle" ~> sender[s] = "idle" \/ quit
=============================================================================
