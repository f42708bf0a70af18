----------------------------- MODULE AmqpProofs -----------------------------
(***************************************************************************)
(* Proofs about the AMQP queue, for every set of senders, clients and       *)
(* sockets, every size and every number of batches.                        *)
(*                                                                         *)
(* AmqpPublish: nobody blocks on the records of a channel whose monitor    *)
(* reads them no more, and every message is counted once.  AmqpPool, as    *)
(* the instance Pool: the pools keep their sockets and tokens together.    *)
(* That a socket has one owner is what AmqpPublish takes for granted of    *)
(* its channel.  The two have quit in common.                              *)
(***************************************************************************)
EXTENDS AmqpPublish, AmqpPoolState, FiniteSetTheorems, SequenceTheorems, TLAPS

Pool == INSTANCE AmqpPool

Reading == {"run", "end", "drain"}                              \* the monitor may read publishedCh
Referring == {"record", "publish", "undo", "judge", "unref"}    \* with a reference
Sending == {"taken", "record", "publish", "undo", "judge"}      \* with messages left

\* The channel has one user at a time, whose reference is the only one.
OwnerInv ==
    /\ \A s \in Senders : sender[s] # "idle" =>
          /\ place = "used"
          /\ \A r \in Senders \ {s} : sender[r] = "idle"
    /\ refCount = IF \E s \in Senders : sender[s] \in Referring THEN 1 ELSE 0

\* A sender has messages that were issued to it, and goes through them in order.
BatchInv ==
    /\ \A m \in issued : m[1] <= batches
    /\ \A s \in Senders :
        /\ sender[s] = "idle" => batch[s] = 0 /\ at[s] = 1
        /\ sender[s] # "idle" => batch[s] >= 1 /\ batch[s] <= batches
        /\ sender[s] \in Sending => at[s] <= count[s]
        /\ \A i \in 1 .. count[s] : sender[s] # "idle" => <<batch[s], i>> \in issued

\* The messages of a sender that are still to be published or to fail.
Pending(m) == \E s \in Senders : sender[s] \in Sending /\ m[1] = batch[s] /\ m[2] \in at[s] .. count[s]

\* No message is published twice.
PublishedInv ==
    /\ \A i, j \in 1 .. Len(published) : published[i] = published[j] => i = j
    /\ \A i \in 1 .. Len(published) : published[i] \in issued /\ ~Pending(published[i])

\* The confirms the monitor has read: those of the tags 1 .. Confirmed.
Confirmed == expecting - 1 - Len(confirmCh)

ConfirmInv ==
    /\ Confirmed >= 0
    /\ \A k \in 1 .. Len(confirmCh) : confirmCh[k] = Confirmed + k

\* The monitor goes on after errCh is closed.
ClosedInv == monitor # "run" => shutdown \in {"locked", "over"}

\* The message of a record was issued; it is the current one of its sender, or an earlier one.
Recorded(r) ==
    \/ r[2] = NoMessage
    \/ /\ r[2] \in issued
       /\ \A s \in Senders : r[2][1] = batch[s] =>
             /\ sender[s] \in {"taken", "record"} => r[2][2] < at[s]
             /\ sender[s] \in {"publish", "undo", "judge"} => r[2][2] <= at[s]

\* A message has one record.
RecordInv ==
    /\ \A r \in publishedMp : Recorded(r) /\ r[2] # NoMessage
    /\ \A k \in 1 .. Len(publishedCh) :
        /\ Recorded(publishedCh[k])
        /\ publishedCh[k][2] # NoMessage =>
              /\ publishedCh[k] \notin publishedMp
              /\ \A j \in 1 .. Len(publishedCh) : publishedCh[j] = publishedCh[k] => j = k

\* Once the records q are read on top of mp, that of tag no is x; NoMessage: there is none.
NoneOf(q, no) == \A k \in 1 .. Len(q) : q[k][1] # no
LastOf(q, no, x) ==
    \E k \in 1 .. Len(q) : q[k] = <<no, x>> /\ \A j \in 1 .. Len(q) : j > k => q[j][1] # no
InMap(mp, no, x) ==
    /\ \A r \in mp : r[1] = no => r[2] = x
    /\ x # NoMessage => <<no, x>> \in mp
Effective(q, mp, no, x) == LastOf(q, no, x) \/ (NoneOf(q, no) /\ InMap(mp, no, x))

\* The records the monitor will have read when it counts.
Stream == IF monitor \in Reading THEN publishedCh ELSE << >>

\* The senders whose record is written and whose message is not published yet.
Flying == {s \in Senders : sender[s] \in {"publish", "undo"}}

\* The record of a tag: a published message has its own, unless its confirm was read; a
\* record whose confirm was read is that of an overtaken message; the message that is just
\* being published has its record, one that failed has not.
Right(no, x) ==
    \/ no <= Len(published) /\ x = published[no] /\ (no <= Confirmed => x \in overtaken)
    \/ no <= Confirmed /\ x = NoMessage
    \/ /\ no > Len(published) /\ x = NoMessage
       /\ no = Len(published) + 1 /\ monitor \in Reading => Flying = {}
    \/ no = Len(published) + 1 /\ monitor \in Reading /\ \E s \in Flying : x = Current(s)

EffectiveInv ==
    monitor \in Reading \/ ~quit =>
        \A no \in Nat \ {0} : \E x \in Messages \cup {NoMessage} :
            Effective(Stream, publishedMp, no, x) /\ Right(no, x)

\* The messages that were published or have failed, ...
Done(m) == m \in issued /\ ~Pending(m)

\* ... and of those, the ones that failed or whose confirm the monitor has read.
Settled(m) == Done(m) /\ \A no \in 1 .. Len(published) : published[no] = m => no <= Confirmed

\* They are counted; in the end all are.
CountInv ==
    /\ monitor # "gone" => \A m \in Messages : counted[m] = IF Settled(m) THEN 1 ELSE 0
    /\ monitor = "gone" /\ ~quit => \A m \in Messages :
          /\ ~Done(m) => counted[m] = 0
          /\ Done(m) => counted[m] >= 1 /\ (m \in overtaken \/ counted[m] = 1)

\* A sender that still gets the channel when publishedCh is read no more finds it empty, and
\* leaves it for good.
AfterInv ==
    monitor \notin Reading /\ ~quit =>
        /\ place = "pooled" => publishedCh = << >>
        /\ \A s \in Senders :
              /\ sender[s] \in {"taken", "record", "put"} => publishedCh = << >>
              /\ sender[s] \in {"publish", "undo"} => Len(publishedCh) <= 1

PublishInv ==
    /\ TypeOK
    /\ OwnerInv
    /\ BatchInv
    /\ PublishedInv
    /\ ConfirmInv
    /\ ClosedInv
    /\ RecordInv
    /\ EffectiveInv
    /\ CountInv
    /\ AfterInv

-----------------------------------------------------------------------------
(***************************************************************************)
(* Constants, and types.                                                   *)
(***************************************************************************)
LEMMA Constants ==
    /\ DequeueSize \in Nat /\ DequeueSize >= 1 /\ MaxBatches \in Nat
    /\ ChanCap \in Nat /\ ChanCap >= 2
    /\ NoMessage \notin Messages
    /\ \A m \in Messages : m[1] \in Nat /\ m[2] \in Nat /\ m = <<m[1], m[2]>>
<1>1. DequeueSize \in Nat /\ DequeueSize >= 1 /\ MaxBatches \in Nat /\ NoMessage \notin Messages
  BY PublishAssumption
<1>2. ChanCap \in Nat /\ ChanCap >= 2
  BY <1>1 DEF ChanCap
<1> QED
  BY <1>1, <1>2 DEF Messages

LEMMA SenderTypes ==
    ASSUME TypeOK, NEW s \in Senders
    PROVE  /\ batches \in Nat /\ batches <= MaxBatches
           /\ batch[s] \in Nat /\ batch[s] <= MaxBatches
           /\ count[s] \in Nat /\ count[s] <= DequeueSize
           /\ at[s] \in Nat /\ at[s] >= 1 /\ at[s] <= DequeueSize + 1
<1>1. batches \in 0 .. MaxBatches /\ batch[s] \in 0 .. MaxBatches /\ count[s] \in 0 .. DequeueSize
      /\ at[s] \in 1 .. DequeueSize + 1
  BY DEF TypeOK
<1> QED
  BY <1>1, Constants

LEMMA RecordTypes ==
    /\ \A r \in Records : r[1] \in Nat /\ r[1] >= 1 /\ r = <<r[1], r[2]>>
    /\ \A r \in Records : r[2] \in Messages \/ r[2] = NoMessage
    /\ \A no \in Nat : no >= 1 => \A x \in Messages \cup {NoMessage} : <<no, x>> \in Records
BY DEF Records

\* Who uses the channel is alone.
LEMMA Alone ==
    ASSUME OwnerInv, NEW s \in Senders, sender[s] # "idle" \/ place = "pooled"
    PROVE  \A r \in Senders \ {s} : sender[r] = "idle"
BY DEF OwnerInv

LEMMA CurrentType ==
    ASSUME TypeOK, BatchInv, NEW s \in Senders, sender[s] \in Sending
    PROVE  /\ Current(s) \in Messages /\ Current(s)[1] = batch[s] /\ Current(s)[2] = at[s]
           /\ Current(s) \in issued /\ at[s] <= count[s] /\ at[s] \in 1 .. count[s] /\ batch[s] >= 1
<1>1. sender[s] # "idle"
  BY DEF Sending
<1>2. at[s] <= count[s] /\ batch[s] >= 1
  BY <1>1 DEF BatchInv
<1>3. /\ batch[s] \in Nat /\ batch[s] <= MaxBatches /\ count[s] \in Nat /\ count[s] <= DequeueSize
      /\ at[s] \in Nat /\ at[s] >= 1
  BY SenderTypes
<1>4. at[s] \in 1 .. count[s]
  BY <1>2, <1>3
<1>5. batch[s] \in 1 .. MaxBatches /\ at[s] \in 1 .. DequeueSize
  BY <1>2, <1>3, Constants
<1>6. <<batch[s], at[s]>> \in Messages
  BY <1>5 DEF Messages
<1>7. <<batch[s], at[s]>> \in issued
  BY <1>1, <1>4 DEF BatchInv
<1> QED
  BY <1>2, <1>4, <1>6, <1>7 DEF Current

\* What NewBatch adds.
LEMMA BatchTypes ==
    ASSUME TypeOK, NEW s \in Senders, NEW n \in 1 .. DequeueSize, NewBatch(s, n)
    PROVE  /\ batches' = batches + 1 /\ batches + 1 \in 1 .. MaxBatches /\ sender[s] = "idle"
           /\ batches' \in 0 .. MaxBatches
           /\ n \in Nat /\ n >= 1 /\ n <= DequeueSize
           /\ issued' = issued \cup {<<batches + 1, i>> : i \in 1 .. n}
           /\ issued' \subseteq Messages
<1>1. /\ batches' = batches + 1 /\ batches < MaxBatches /\ sender[s] = "idle"
      /\ issued' = issued \cup {<<batches + 1, i>> : i \in 1 .. n}
  BY DEF NewBatch
<1>2. batches \in Nat /\ MaxBatches \in Nat /\ DequeueSize \in Nat
  BY SenderTypes, Constants
<1>3. batches + 1 \in 1 .. MaxBatches /\ n \in Nat /\ n >= 1 /\ n <= DequeueSize
  BY <1>1, <1>2
<1>4. \A i \in 1 .. n : i \in 1 .. DequeueSize
  BY <1>2, <1>3
<1>5. \A i \in 1 .. n : <<batches + 1, i>> \in Messages
  BY <1>3, <1>4 DEF Messages
<1>6. issued \subseteq Messages
  BY DEF TypeOK
<1>7. batches + 1 \in 0 .. MaxBatches
  BY <1>3
<1> QED
  BY <1>1, <1>3, <1>5, <1>6, <1>7

LEMMA NextTypes ==
    ASSUME TypeOK, BatchInv, NEW s \in Senders, sender[s] \in Sending, NextMessage(s)
    PROVE  /\ at' = [at EXCEPT ![s] = at[s] + 1]
           /\ sender' = [sender EXCEPT ![s] = IF at[s] < count[s] THEN "record" ELSE "unref"]
           /\ at' \in [Senders -> 1 .. DequeueSize + 1]
<1>1. /\ at' = [at EXCEPT ![s] = at[s] + 1]
      /\ sender' = [sender EXCEPT ![s] = IF at[s] < count[s] THEN "record" ELSE "unref"]
  BY DEF NextMessage
<1>2. at[s] <= count[s]
  BY CurrentType
<1>3. at[s] \in Nat /\ at[s] >= 1 /\ count[s] \in Nat /\ count[s] <= DequeueSize
  BY SenderTypes
<1>4. at[s] + 1 \in 1 .. DequeueSize + 1
  BY <1>2, <1>3, Constants
<1>5. at \in [Senders -> 1 .. DequeueSize + 1]
  BY DEF TypeOK
<1> QED
  BY <1>1, <1>4, <1>5

LEMMA AppendType ==
    ASSUME TypeOK, NEW x \in Messages \cup {NoMessage}, Len(publishedCh) < ChanCap,
           publishedCh' = Append(publishedCh, <<Len(published) + 1, x>>)
    PROVE  publishedCh' \in Seq(Records) /\ Len(publishedCh') <= ChanCap
<1>1. publishedCh \in Seq(Records) /\ Len(published) \in Nat
  BY DEF TypeOK
<1>2. <<Len(published) + 1, x>> \in Records
  <2>1. Len(published) + 1 \in Nat /\ Len(published) + 1 >= 1
    BY <1>1
  <2> QED
    BY <2>1, RecordTypes
<1> HIDE DEF Records
<1>3. publishedCh' \in Seq(Records) /\ Len(publishedCh') = Len(publishedCh) + 1 /\ Len(publishedCh) \in Nat
  BY <1>1, <1>2
<1> QED
  BY <1>3, Constants

LEMMA TypeStep ==
    ASSUME PublishInv, [Next]_vars
    PROVE  TypeOK'
<1>t. TypeOK /\ OwnerInv /\ BatchInv
  BY DEF PublishInv
<1> DEFINE Steps == {"idle", "taken", "record", "publish", "undo", "judge", "unref", "look", "put"}
<1>0. /\ sender \in [Senders -> Steps] /\ batch \in [Senders -> 0 .. MaxBatches]
      /\ count \in [Senders -> 0 .. DequeueSize] /\ at \in [Senders -> 1 .. DequeueSize + 1]
      /\ counted \in [Messages -> Nat]
  BY <1>t DEF TypeOK
<1>1. ASSUME NEW s \in Senders, NEW n \in 1 .. DequeueSize, Take(s, n)
      PROVE  TypeOK'
  <2>1. NewBatch(s, n)
    BY <1>1 DEF Take
  <2>2. batches' \in 0 .. MaxBatches /\ batches + 1 \in 1 .. MaxBatches /\ issued' \subseteq Messages
    BY <1>t, <2>1, BatchTypes
  <2>3. /\ sender' = [sender EXCEPT ![s] = "taken"] /\ batch' = [batch EXCEPT ![s] = batches + 1]
        /\ count' = [count EXCEPT ![s] = n]
    BY <1>1 DEF Take
  <2>4. batches + 1 \in 0 .. MaxBatches /\ n \in 0 .. DequeueSize
    BY <2>2, Constants
  <2>5. /\ sender' \in [Senders -> Steps] /\ batch' \in [Senders -> 0 .. MaxBatches]
        /\ count' \in [Senders -> 0 .. DequeueSize]
    BY <1>0, <2>3, <2>4
  <2> QED
    BY <1>t, <1>1, <2>2, <2>5 DEF TypeOK, Take, mon, lib, history
<1>2. ASSUME NEW s \in Senders, NEW n \in 1 .. DequeueSize, Discard(s, n)
      PROVE  TypeOK'
  <2>1. NewBatch(s, n)
    BY <1>2 DEF Discard
  <2>2. batches' \in 0 .. MaxBatches /\ issued' \subseteq Messages
    BY <1>t, <2>1, BatchTypes
  <2>3. counted' \in [Messages -> Nat]
    BY <1>0, <1>2 DEF Discard
  <2> QED
    BY <1>t, <1>2, <2>2, <2>3 DEF TypeOK, Discard, mon, lib
<1>3. ASSUME NEW s \in Senders, Ref(s)
      PROVE  TypeOK'
  <2>1. sender' \in [Senders -> Steps] /\ refCount' \in Nat
    BY <1>t, <1>0, <1>3 DEF TypeOK, Ref
  <2> QED
    BY <1>t, <1>3, <2>1 DEF TypeOK, Ref, work, mon, lib, history
<1>4. ASSUME NEW s \in Senders, Record(s)
      PROVE  TypeOK'
  <2>1. sender' \in [Senders -> Steps]
    BY <1>0, <1>4 DEF Record
  <2>2. Current(s) \in Messages \cup {NoMessage}
    BY <1>t, <1>4, CurrentType DEF Record, Sending
  <2>3. publishedCh' \in Seq(Records) /\ Len(publishedCh') <= ChanCap
    BY <1>t, <1>4, <2>2, AppendType DEF Record
  <2> QED
    BY <1>t, <1>4, <2>1, <2>3 DEF TypeOK, Record, work, mon, lib, history
<1>5. ASSUME NEW s \in Senders, Publish(s)
      PROVE  TypeOK'
  <2>0. sender[s] \in Sending /\ NextMessage(s) /\ published' = Append(published, Current(s))
    BY <1>5 DEF Publish, Sending
  <2>1. at' \in [Senders -> 1 .. DequeueSize + 1]
    BY <1>t, <2>0, NextTypes
  <2>2. sender' \in [Senders -> Steps]
    BY <1>0, <2>0 DEF NextMessage
  <2>3. Current(s) \in Messages
    BY <1>t, <2>0, CurrentType
  <2>4. published \in Seq(Messages)
    BY <1>t DEF TypeOK
  <2>5. published' \in Seq(Messages) /\ Len(published') = Len(published) + 1 /\ Len(published) \in Nat
    BY <2>0, <2>3, <2>4
  <2>6. expecting \in 1 .. Len(published) + 1 /\ upto \in 0 .. Len(published)
    BY <1>t DEF TypeOK
  <2>7. expecting \in 1 .. Len(published') + 1 /\ upto \in 0 .. Len(published')
    BY <2>5, <2>6
  <2>8. confirmCh \in Seq(1 .. Len(published'))
    <3>1. confirmCh \in Seq(1 .. Len(published))
      BY <1>t DEF TypeOK
    <3>2. \A k \in 1 .. Len(published) : k \in 1 .. Len(published')
      BY <2>5
    <3> QED
      BY <3>1, <3>2
  <2> QED
    BY <1>t, <1>5, <2>1, <2>2, <2>5, <2>7, <2>8 DEF TypeOK, Publish, mon, history
<1>6. ASSUME NEW s \in Senders, PublishFailed(s)
      PROVE  TypeOK'
  <2>1. sender' \in [Senders -> Steps]
    BY <1>0, <1>6 DEF PublishFailed
  <2> QED
    BY <1>t, <1>6, <2>1 DEF TypeOK, PublishFailed, work, mon, lib, history
<1>7. ASSUME NEW s \in Senders, Undo(s)
      PROVE  TypeOK'
  <2>1. sender' \in [Senders -> Steps]
    BY <1>0, <1>7 DEF Undo
  <2>2. publishedCh' \in Seq(Records) /\ Len(publishedCh') <= ChanCap
    BY <1>t, <1>7, AppendType DEF Undo
  <2> QED
    BY <1>t, <1>7, <2>1, <2>2 DEF TypeOK, Undo, work, mon, lib, history
<1>8. ASSUME NEW s \in Senders, Judge(s)
      PROVE  TypeOK'
  <2>0. sender[s] \in Sending
    BY <1>8 DEF Judge, Sending
  <2>1. Current(s) \in Messages
    BY <1>t, <2>0, CurrentType
  <2>2. counted' \in [Messages -> Nat]
    BY <1>0, <1>8, <2>1 DEF Judge
  <2>3. sender' \in [Senders -> Steps] /\ at' \in [Senders -> 1 .. DequeueSize + 1]
    <3>1. CASE IsClosed
      BY <1>0, <1>8, <3>1 DEF Judge
    <3>2. CASE ~IsClosed
      <4>1. NextMessage(s)
        BY <1>8, <3>2 DEF Judge
      <4> QED
        BY <1>t, <1>0, <2>0, <4>1, NextTypes DEF NextMessage
    <3> QED
      BY <3>1, <3>2
  <2> QED
    BY <1>t, <1>8, <2>2, <2>3 DEF TypeOK, Judge, mon, lib
<1>9. ASSUME NEW s \in Senders, Unref(s)
      PROVE  TypeOK'
  <2>1. sender' \in [Senders -> Steps]
    BY <1>0, <1>9 DEF Unref
  <2>2. refCount = 1
    BY <1>t, <1>9 DEF Unref, OwnerInv, Referring
  <2>3. refCount' \in Nat
    BY <1>9, <2>2 DEF Unref
  <2> QED
    BY <1>t, <1>9, <2>1, <2>3 DEF TypeOK, Unref, work, mon, lib, history
<1>r. ASSUME NEW s \in Senders, Return(s)
      PROVE  /\ sender' \in [Senders -> Steps] /\ batch' \in [Senders -> 0 .. MaxBatches]
             /\ count' \in [Senders -> 0 .. DequeueSize] /\ at' \in [Senders -> 1 .. DequeueSize + 1]
  BY <1>0, <1>r, Constants DEF Return
<1>10. ASSUME NEW s \in Senders, Look(s) \/ Put(s)
       PROVE  TypeOK'
  <2>1. /\ sender' \in [Senders -> Steps] /\ batch' \in [Senders -> 0 .. MaxBatches]
        /\ count' \in [Senders -> 0 .. DequeueSize] /\ at' \in [Senders -> 1 .. DequeueSize + 1]
    BY <1>0, <1>10, <1>r DEF Look, Put
  <2> QED
    BY <1>t, <1>10, <2>1 DEF TypeOK, Look, Put, mon, lib, history
<1>11. ASSUME ReadRecord
       PROVE  TypeOK'
  <2>1. publishedCh \in Seq(Records) /\ publishedCh # << >> /\ Len(publishedCh) <= ChanCap
        /\ publishedMp \subseteq Records /\ publishedCh' = Tail(publishedCh)
    BY <1>t, <1>11 DEF TypeOK, ReadRecord
  <2> HIDE DEF Records
  <2>2. Tail(publishedCh) \in Seq(Records) /\ Len(Tail(publishedCh)) <= ChanCap /\ Head(publishedCh) \in Records
    BY <2>1, Constants
  <2>3. publishedMp' \subseteq Records
    BY <1>11, <2>1, <2>2 DEF ReadRecord, Unrecord
  <2> QED
    BY <1>t, <1>11, <2>1, <2>2, <2>3 DEF TypeOK, ReadRecord, snd, work, lib, history
<1>12. ASSUME ReadConfirm
       PROVE  TypeOK'
  <2>1. confirmCh \in Seq(1 .. Len(published)) /\ confirmCh # << >> /\ Len(confirmCh) <= ChanCap
        /\ confirmCh' = Tail(confirmCh) /\ published \in Seq(Messages)
    BY <1>t, <1>12 DEF TypeOK, ReadConfirm
  <2>2. /\ Tail(confirmCh) \in Seq(1 .. Len(published)) /\ Len(Tail(confirmCh)) <= ChanCap
        /\ Head(confirmCh) \in 1 .. Len(published)
    BY <2>1, Constants, SMTT(30)
  <2>3. published[Head(confirmCh)] \in Messages
    BY <2>1, <2>2
  <2>4. /\ counted' = [counted EXCEPT ![published[Head(confirmCh)]] = @ + 1]
        /\ publishedMp' = Unrecord(Head(confirmCh))
        /\ overtaken' \subseteq overtaken \cup {published[Head(confirmCh)]}
    BY <1>12 DEF ReadConfirm
  <2>5. counted' \in [Messages -> Nat] /\ publishedMp' \subseteq Records /\ overtaken' \subseteq Messages
    BY <1>t, <1>0, <2>3, <2>4, SMTT(30) DEF TypeOK, Unrecord
  <2> QED
    BY <1>t, <1>12, <2>1, <2>2, <2>5 DEF TypeOK, ReadConfirm, snd, work, lib
<1>13. ASSUME ReadClosed \/ MonitorEnd \/ Delay \/ DrainQuit \/ ConfirmsEnd
       PROVE  TypeOK'
  BY <1>t, <1>13 DEF TypeOK, ReadClosed, MonitorEnd, Delay, DrainQuit, ConfirmsEnd, snd, work, lib, history
<1>14. ASSUME CountFailed
       PROVE  TypeOK'
  <2>1. counted' \in [Messages -> Nat]
    BY <1>0, <1>14 DEF CountFailed
  <2> QED
    BY <1>t, <1>14, <2>1 DEF TypeOK, CountFailed, snd, work, lib
<1>15. ASSUME NEW n \in 1 .. Len(published), Confirm(n)
       PROVE  TypeOK'
  <2>1. upto' \in 0 .. Len(published)
    <3>1. upto' = n /\ Len(published) \in Nat
      BY <1>t, <1>15 DEF Confirm, TypeOK
    <3> QED
      BY <3>1
  <2> QED
    BY <1>t, <1>15, <2>1 DEF TypeOK, Confirm, snd, work, mon, history
<1>16. ASSUME Deliver
       PROVE  TypeOK'
  <2>1. /\ expecting \in 1 .. Len(published) + 1 /\ upto \in 0 .. Len(published)
        /\ confirmCh \in Seq(1 .. Len(published)) /\ Len(published) \in Nat
    BY <1>t DEF TypeOK
  <2>2. expecting <= upto /\ Len(confirmCh) < ChanCap /\ confirmCh' = Append(confirmCh, expecting)
        /\ expecting' = expecting + 1
    BY <1>16 DEF Deliver
  <2>3. expecting \in 1 .. Len(published) /\ expecting + 1 \in 1 .. Len(published) + 1
    BY <2>1, <2>2
  <2>4. confirmCh' \in Seq(1 .. Len(published)) /\ Len(confirmCh') = Len(confirmCh) + 1 /\ Len(confirmCh) \in Nat
    BY <2>1, <2>2, <2>3
  <2>5. Len(confirmCh') <= ChanCap
    BY <2>2, <2>4, Constants
  <2> QED
    BY <1>t, <1>16, <2>2, <2>3, <2>4, <2>5 DEF TypeOK, Deliver, snd, work, mon, history
<1>17. ASSUME ShutdownBegin \/ ShutdownLock \/ ShutdownEnd \/ Heartbeat \/ Quit \/ UNCHANGED vars
       PROVE  TypeOK'
  BY <1>t, <1>17 DEF TypeOK, ShutdownBegin, ShutdownLock, ShutdownEnd, Heartbeat, Quit, snd, work, mon, lib,
                     history, vars
<1> QED
  BY <1>1, <1>2, <1>3, <1>4, <1>5, <1>6, <1>7, <1>8, <1>9, <1>10, <1>11, <1>12, <1>13, <1>14, <1>15,
     <1>16, <1>17
  DEF Next, SendBatch, Monitor, Library

LEMMA InitInv ==
    ASSUME Init
    PROVE  PublishInv
<1>0. /\ \A s \in Senders : sender[s] = "idle" /\ batch[s] = 0 /\ count[s] = 0 /\ at[s] = 1
      /\ published = << >> /\ publishedCh = << >> /\ confirmCh = << >> /\ publishedMp = {}
      /\ issued = {} /\ monitor = "run" /\ place = "pooled" /\ refCount = 0 /\ batches = 0
      /\ expecting = 1 /\ \A m \in Messages : counted[m] = 0
  BY DEF Init
<1>1. TypeOK
  <2>1. 0 \in 0 .. MaxBatches /\ 0 \in 0 .. DequeueSize /\ 1 \in 1 .. DequeueSize + 1
    BY Constants
  <2>2. publishedCh \in Seq(Records) /\ Len(publishedCh) <= ChanCap
    BY Constants DEF Init
  <2>3. confirmCh \in Seq(1 .. Len(published)) /\ Len(confirmCh) <= ChanCap
    BY Constants DEF Init
  <2>4. published \in Seq(Messages) /\ expecting \in 1 .. Len(published) + 1 /\ upto \in 0 .. Len(published)
    BY DEF Init
  <2> QED
    BY <2>1, <2>2, <2>3, <2>4 DEF Init, TypeOK
<1>2. OwnerInv
  BY <1>0 DEF OwnerInv, Referring
<1>3. BatchInv
  BY <1>0 DEF BatchInv, Sending
<1>4. PublishedInv
  BY <1>0 DEF PublishedInv
<1>5. ConfirmInv
  BY <1>0 DEF ConfirmInv, Confirmed
<1>6. ClosedInv /\ AfterInv
  BY <1>0 DEF ClosedInv, AfterInv, Reading
<1>7. RecordInv
  BY <1>0 DEF RecordInv
<1>8. EffectiveInv
  <2>1. Stream = << >> /\ Flying = {} /\ Len(published) = 0
    BY <1>0 DEF Stream, Flying
  <2>2. ASSUME NEW no \in Nat \ {0}
        PROVE  Effective(Stream, publishedMp, no, NoMessage) /\ Right(no, NoMessage)
    <3>1. NoneOf(<< >>, no) /\ InMap({}, no, NoMessage)
      BY DEF NoneOf, InMap
    <3>2. no > Len(published)
      BY <2>1
    <3> QED
      BY <1>0, <2>1, <3>1, <3>2 DEF Effective, Right
  <2> QED
    BY <2>2 DEF EffectiveInv
<1>9. CountInv
  BY <1>0 DEF CountInv, Settled, Done
<1> QED
  BY <1>1, <1>2, <1>3, <1>4, <1>5, <1>6, <1>7, <1>8, <1>9 DEF PublishInv

-----------------------------------------------------------------------------
(***************************************************************************)
(* The senders.                                                            *)
(***************************************************************************)
\* The steps that are not those of a sender with the channel.
Others ==
    \/ \E s \in Senders : \E n \in 1 .. DequeueSize : Discard(s, n)
    \/ Monitor
    \/ Library
    \/ \E n \in 1 .. Len(published) : Confirm(n)
    \/ ShutdownBegin
    \/ Heartbeat
    \/ Quit
    \/ UNCHANGED vars

LEMMA StepKinds ==
    ASSUME [Next]_vars
    PROVE  \/ \E s \in Senders : SendBatch(s) \/ \E n \in 1 .. DequeueSize : Take(s, n)
           \/ Others
BY DEF Next, Others

LEMMA OthersLeave ==
    ASSUME Others
    PROVE  /\ UNCHANGED <<sender, batch, count, at, refCount, published>>
           /\ place' = place \/ (place = "pooled" /\ place' = "dropped")
<1>1. ASSUME NEW s \in Senders, NEW n \in 1 .. DequeueSize, Discard(s, n)
      PROVE  UNCHANGED <<sender, batch, count, at, refCount, published, place>>
  BY <1>1 DEF Discard, lib
<1>2. ASSUME Monitor
      PROVE  /\ UNCHANGED <<sender, batch, count, at, refCount, published>>
             /\ place' = place \/ (place = "pooled" /\ place' = "dropped")
  BY <1>2 DEF Monitor, ReadRecord, ReadConfirm, ReadClosed, MonitorEnd, Delay, DrainQuit, ConfirmsEnd,
              CountFailed, snd, work, lib
<1>3. ASSUME Library \/ (\E n \in 1 .. Len(published) : Confirm(n)) \/ ShutdownBegin \/ Quit \/ UNCHANGED vars
      PROVE  UNCHANGED <<sender, batch, count, at, refCount, published, place>>
  BY <1>3 DEF Library, Deliver, ShutdownLock, ShutdownEnd, Confirm, ShutdownBegin, Quit, snd, work, lib, vars
<1>4. ASSUME Heartbeat
      PROVE  /\ UNCHANGED <<sender, batch, count, at, refCount, published>>
             /\ place' = place \/ (place = "pooled" /\ place' = "dropped")
  BY <1>4 DEF Heartbeat, snd, work, lib
<1> QED
  BY <1>1, <1>2, <1>3, <1>4 DEF Others

\* A step of s is one of s alone.
LEMMA MovesAlone ==
    ASSUME TypeOK, OwnerInv, NEW s \in Senders,
           SendBatch(s) \/ \E n \in 1 .. DequeueSize : Take(s, n)
    PROVE  /\ \A r \in Senders \ {s} : sender[r] = "idle" /\ sender'[r] = "idle"
           /\ \A r \in Senders \ {s} : batch'[r] = batch[r] /\ count'[r] = count[r] /\ at'[r] = at[r]
<1>1. \A r \in Senders \ {s} : sender[r] = "idle"
  <2>1. sender[s] # "idle" \/ place = "pooled"
    BY DEF SendBatch, Ref, Record, Publish, PublishFailed, Undo, Judge, Unref, Look, Put, Take
  <2> QED
    BY <2>1, Alone
<1>2. \A r \in Senders \ {s} : sender'[r] = sender[r]
  <2>1. \E x : sender' = [sender EXCEPT ![s] = x]
    BY DEF SendBatch, Ref, Record, Publish, PublishFailed, Undo, Judge, Unref, Look, Put, Take, Return,
           NextMessage
  <2> QED
    BY <2>1 DEF TypeOK
<1>3. \A r \in Senders \ {s} : batch'[r] = batch[r] /\ count'[r] = count[r]
  <2>1. \/ UNCHANGED <<batch, count>>
        \/ \E x, y : batch' = [batch EXCEPT ![s] = x] /\ count' = [count EXCEPT ![s] = y]
    BY DEF SendBatch, Ref, Record, Publish, PublishFailed, Undo, Judge, Unref, Look, Put, Take, Return, work
  <2> QED
    BY <2>1 DEF TypeOK
<1>4. \A r \in Senders \ {s} : at'[r] = at[r]
  <2>1. at' = at \/ \E x : at' = [at EXCEPT ![s] = x]
    BY DEF SendBatch, Ref, Record, Publish, PublishFailed, Undo, Judge, Unref, Look, Put, Take, Return,
           NextMessage, work
  <2> QED
    BY <2>1 DEF TypeOK
<1> QED
  BY <1>1, <1>2, <1>3, <1>4

LEMMA OwnerStep ==
    ASSUME PublishInv, [Next]_vars
    PROVE  OwnerInv'
<1>t. TypeOK /\ OwnerInv /\ BatchInv
  BY DEF PublishInv
<1>1. CASE Others
  <2>1. UNCHANGED <<sender, refCount>> /\ (place' = place \/ place = "pooled")
    BY <1>1, OthersLeave
  <2> QED
    BY <1>t, <2>1 DEF OwnerInv
<1>2. ASSUME NEW s \in Senders, SendBatch(s) \/ \E n \in 1 .. DequeueSize : Take(s, n)
      PROVE  OwnerInv'
  <2>1. \A r \in Senders \ {s} : sender[r] = "idle" /\ sender'[r] = "idle"
    BY <1>t, <1>2, MovesAlone
  <2>2. refCount = IF sender[s] \in Referring THEN 1 ELSE 0
    BY <1>t, <2>1 DEF OwnerInv, Referring
  <2>3. sender \in [Senders -> {"idle", "taken", "record", "publish", "undo", "judge",
                               "unref", "look", "put"}]
    BY <1>t DEF TypeOK
  <2>4. place = "used" \/ sender[s] = "idle"
    BY <1>t DEF OwnerInv
  <2>5. sender'[s] # "idle" => place' = "used"
    <3>1. CASE \E n \in 1 .. DequeueSize : Take(s, n)
      BY <3>1 DEF Take
    <3>2. CASE Look(s) \/ Put(s)
      BY <2>3, <2>4, <3>2 DEF Look, Put, Return
    <3>3. CASE Ref(s) \/ Record(s) \/ Publish(s) \/ PublishFailed(s) \/ Undo(s) \/ Judge(s) \/ Unref(s)
      BY <2>4, <3>3 DEF Ref, Record, Publish, PublishFailed, Undo, Judge, Unref
    <3> QED
      BY <1>2, <3>1, <3>2, <3>3 DEF SendBatch
  <2>6. refCount' = IF sender'[s] \in Referring THEN 1 ELSE 0
    <3>1. CASE \E n \in 1 .. DequeueSize : Take(s, n)
      BY <2>2, <2>3, <3>1 DEF Take, NewBatch, Referring
    <3>2. CASE Look(s) \/ Put(s)
      BY <2>2, <2>3, <3>2 DEF Look, Put, Return, Referring
    <3>3. CASE Ref(s) \/ Unref(s)
      BY <2>2, <2>3, <3>3 DEF Ref, Unref, Referring
    <3>4. CASE Record(s) \/ Publish(s) \/ PublishFailed(s) \/ Undo(s) \/ Judge(s)
      BY <2>2, <2>3, <3>4 DEF Record, Publish, PublishFailed, Undo, Judge, NextMessage, Referring
    <3> QED
      BY <1>2, <3>1, <3>2, <3>3, <3>4 DEF SendBatch
  <2>7. (\E r \in Senders : sender'[r] \in Referring) <=> sender'[s] \in Referring
    BY <2>1 DEF Referring
  <2> QED
    BY <2>1, <2>5, <2>6, <2>7 DEF OwnerInv
<1> QED
  BY <1>1, <1>2, StepKinds

LEMMA ClosedStep ==
    ASSUME PublishInv, [Next]_vars
    PROVE  ClosedInv'
<1>t. ClosedInv
  BY DEF PublishInv
<1>1. ASSUME NEW s \in Senders, SendBatch(s) \/ \E n \in 1 .. DequeueSize : Take(s, n) \/ Discard(s, n)
      PROVE  UNCHANGED <<monitor, shutdown>>
  BY <1>1 DEF SendBatch, Ref, Record, Publish, PublishFailed, Undo, Judge, Unref, Look, Put, Take, Discard,
              mon, lib
<1>2. ASSUME Monitor PROVE ClosedInv'
  BY <1>t, <1>2 DEF Monitor, ReadRecord, ReadConfirm, ReadClosed, MonitorEnd, Delay, DrainQuit, ConfirmsEnd,
                    CountFailed, lib, ClosedInv
<1>3. ASSUME Library \/ (\E n \in 1 .. Len(published) : Confirm(n)) \/ ShutdownBegin \/ Heartbeat \/ Quit
             \/ UNCHANGED vars
      PROVE  ClosedInv'
  BY <1>t, <1>3 DEF Library, Deliver, ShutdownLock, ShutdownEnd, Confirm, ShutdownBegin, Heartbeat, Quit,
                    mon, lib, vars, ClosedInv
<1> QED
  BY <1>t, <1>1, <1>2, <1>3 DEF Next, ClosedInv

\* What has been issued stays so.
LEMMA IssuedGrows ==
    ASSUME TypeOK, [Next]_vars
    PROVE  /\ issued \subseteq issued'
           /\ batches' \in Nat /\ batches' >= batches
           /\ \A m \in issued' : m \in issued \/ (m[1] = batches + 1 /\ batches' = batches + 1)
<1>0. batches \in Nat
  BY Constants DEF TypeOK
<1>1. ASSUME NEW s \in Senders, NEW n \in 1 .. DequeueSize, NewBatch(s, n)
      PROVE  /\ issued \subseteq issued' /\ batches' = batches + 1
             /\ \A m \in issued' : m \in issued \/ m[1] = batches + 1
  BY <1>1 DEF NewBatch
<1>2. ASSUME NEW s \in Senders, SendBatch(s)
      PROVE  UNCHANGED <<issued, batches>>
  BY <1>2 DEF SendBatch, Ref, Record, Publish, PublishFailed, Undo, Judge, Unref, Look, Put, work
<1>3. ASSUME Monitor PROVE UNCHANGED <<issued, batches>>
  BY <1>3 DEF Monitor, ReadRecord, ReadConfirm, ReadClosed, MonitorEnd, Delay, DrainQuit, ConfirmsEnd,
              CountFailed, snd, work
<1>4. ASSUME Library \/ (\E n \in 1 .. Len(published) : Confirm(n)) \/ ShutdownBegin \/ Heartbeat \/ Quit
             \/ UNCHANGED vars
      PROVE  UNCHANGED <<issued, batches>>
  BY <1>4 DEF Library, Deliver, ShutdownLock, ShutdownEnd, Confirm, ShutdownBegin, Heartbeat, Quit, snd,
              work, vars
<1>5. \/ UNCHANGED <<issued, batches>>
      \/ \E s \in Senders : \E n \in 1 .. DequeueSize : NewBatch(s, n)
  BY <1>2, <1>3, <1>4 DEF Next, Take, Discard
<1> QED
  BY <1>0, <1>1, <1>5

LEMMA BatchStep ==
    ASSUME PublishInv, [Next]_vars
    PROVE  BatchInv'
<1>t. TypeOK /\ OwnerInv /\ BatchInv
  BY DEF PublishInv
<1>0. \A m \in issued' : m[1] <= batches'
  <2>1. \A m \in issued : m[1] <= batches /\ m \in Messages
    BY <1>t DEF BatchInv, TypeOK
  <2>2. /\ batches' \in Nat /\ batches' >= batches /\ batches \in Nat
        /\ \A m \in issued' : m \in issued \/ (m[1] = batches + 1 /\ batches' = batches + 1)
    BY <1>t, IssuedGrows, Constants DEF TypeOK
  <2> QED
    BY <2>1, <2>2, Constants
<1>g. issued \subseteq issued' /\ batches' \in Nat /\ batches' >= batches /\ batches \in Nat
  BY <1>t, IssuedGrows, Constants, SMTT(30) DEF TypeOK
<1>b. ASSUME NEW r \in Senders, sender'[r] = sender[r], batch'[r] = batch[r], count'[r] = count[r],
             at'[r] = at[r]
      PROVE  /\ sender'[r] = "idle" => batch'[r] = 0 /\ at'[r] = 1
             /\ sender'[r] # "idle" => batch'[r] >= 1 /\ batch'[r] <= batches'
             /\ sender'[r] \in Sending => at'[r] <= count'[r]
             /\ \A i \in 1 .. count'[r] : sender'[r] # "idle" => <<batch'[r], i>> \in issued'
  <2>1. sender[r] # "idle" => batch[r] >= 1 /\ batch[r] <= batches
    BY <1>t DEF BatchInv
  <2>2. batch[r] \in Nat
    BY <1>t, SenderTypes
  <2>3. sender[r] # "idle" => batch[r] <= batches'
    BY <1>g, <2>1, <2>2
  <2>4. \A i \in 1 .. count[r] : sender[r] # "idle" => <<batch[r], i>> \in issued
    BY <1>t DEF BatchInv
  <2> QED
    BY <1>t, <1>b, <1>g, <2>1, <2>3, <2>4 DEF BatchInv
<1>1. CASE Others
  BY <1>0, <1>1, <1>b, OthersLeave DEF BatchInv
<1>2. ASSUME NEW s \in Senders, SendBatch(s) \/ \E n \in 1 .. DequeueSize : Take(s, n)
      PROVE  BatchInv'
  <2> DEFINE G == /\ sender'[s] = "idle" => batch'[s] = 0 /\ at'[s] = 1
                  /\ sender'[s] # "idle" => batch'[s] >= 1 /\ batch'[s] <= batches'
                  /\ sender'[s] \in Sending => at'[s] <= count'[s]
                  /\ \A i \in 1 .. count'[s] : sender'[s] # "idle" => <<batch'[s], i>> \in issued'
  <2>0. /\ sender \in [Senders -> {"idle", "taken", "record", "publish", "undo", "judge",
                                   "unref", "look", "put"}]
        /\ batch \in [Senders -> 0 .. MaxBatches] /\ count \in [Senders -> 0 .. DequeueSize]
        /\ at \in [Senders -> 1 .. DequeueSize + 1]
    BY <1>t DEF TypeOK
  <2>1. \A r \in Senders \ {s} : /\ sender'[r] = sender[r] /\ batch'[r] = batch[r]
                                 /\ count'[r] = count[r] /\ at'[r] = at[r]
    BY <1>t, <1>2, MovesAlone
  <2> SUFFICES G
    BY <1>0, <1>b, <2>1 DEF BatchInv
  <2>2. ASSUME NEW n \in 1 .. DequeueSize, Take(s, n)
        PROVE  G
    <3>1. NewBatch(s, n) /\ sender' = [sender EXCEPT ![s] = "taken"]
          /\ batch' = [batch EXCEPT ![s] = batches + 1] /\ count' = [count EXCEPT ![s] = n] /\ at' = at
      BY <2>2 DEF Take
    <3>2. /\ batches' = batches + 1 /\ batches + 1 \in 1 .. MaxBatches /\ sender[s] = "idle"
          /\ n \in Nat /\ n >= 1
          /\ issued' = issued \cup {<<batches + 1, i>> : i \in 1 .. n}
      BY <1>t, <3>1, BatchTypes
    <3>3. at[s] = 1
      BY <1>t, <3>2 DEF BatchInv
    <3>4. sender'[s] = "taken" /\ batch'[s] = batches + 1 /\ count'[s] = n /\ at'[s] = 1
      BY <2>0, <3>1, <3>3
    <3>5. batches + 1 >= 1 /\ batches + 1 <= batches' /\ 1 <= n
      BY <1>g, <3>2
    <3> QED
      BY <3>2, <3>4, <3>5
  <2>3. ASSUME sender[s] # "idle", sender'[s] # "idle", batch' = batch, count' = count,
               sender'[s] \in Sending => at'[s] <= count[s]
        PROVE  G
    <3>1. batch[s] >= 1 /\ batch[s] <= batches /\ batch[s] \in Nat
      BY <1>t, <2>3, SenderTypes DEF BatchInv
    <3>2. batch[s] <= batches'
      BY <1>g, <3>1
    <3>3. \A i \in 1 .. count[s] : <<batch[s], i>> \in issued
      BY <1>t, <2>3 DEF BatchInv
    <3> QED
      BY <1>g, <2>3, <3>1, <3>2, <3>3
  <2>4. CASE Ref(s) \/ Record(s) \/ PublishFailed(s) \/ Undo(s) \/ Unref(s)
    <3>1. UNCHANGED <<batch, count, at>> /\ sender[s] # "idle"
      BY <2>4 DEF Ref, Record, PublishFailed, Undo, Unref, work
    <3>2. sender'[s] # "idle" /\ (sender'[s] \in Sending => sender[s] \in Sending)
      BY <2>0, <2>4 DEF Ref, Record, PublishFailed, Undo, Unref, Sending
    <3>3. sender[s] \in Sending => at[s] <= count[s]
      BY <1>t DEF BatchInv
    <3> HIDE DEF G
    <3> QED
      BY <2>3, <3>1, <3>2, <3>3
  <2>n. ASSUME sender[s] \in Sending, NextMessage(s)
        PROVE  sender'[s] # "idle" /\ (sender'[s] \in Sending => at'[s] <= count[s])
    <3>1. at' = [at EXCEPT ![s] = at[s] + 1]
          /\ sender' = [sender EXCEPT ![s] = IF at[s] < count[s] THEN "record" ELSE "unref"]
      BY <1>t, <2>n, NextTypes
    <3>2. at[s] \in Nat /\ count[s] \in Nat
      BY <1>t, SenderTypes
    <3>3. CASE at[s] < count[s]
      BY <2>0, <3>1, <3>2, <3>3
    <3>4. CASE ~(at[s] < count[s])
      BY <2>0, <3>1, <3>4 DEF Sending
    <3> QED
      BY <3>3, <3>4
  <2>5. CASE Publish(s)
    <3>1. sender[s] \in Sending /\ sender[s] # "idle" /\ NextMessage(s) /\ UNCHANGED <<batch, count>>
      BY <2>5 DEF Publish, Sending
    <3> HIDE DEF G
    <3> QED
      BY <2>3, <2>n, <3>1
  <2>6. CASE Judge(s)
    <3>1. sender[s] \in Sending /\ sender[s] # "idle" /\ UNCHANGED <<batch, count>>
      BY <2>6 DEF Judge, Sending
    <3>2. CASE ~IsClosed
      <4>1. NextMessage(s)
        BY <2>6, <3>2 DEF Judge
      <4> HIDE DEF G
      <4> QED
        BY <2>3, <2>n, <3>1, <4>1
    <3>3. CASE IsClosed
      <4>1. sender'[s] # "idle" /\ sender'[s] \notin Sending
        BY <2>0, <2>6, <3>3 DEF Judge, Sending
      <4> HIDE DEF G
      <4> QED
        BY <2>3, <3>1, <4>1
    <3> QED
      BY <3>2, <3>3
  <2>7. CASE Look(s) \/ Put(s)
    <3>1. CASE Return(s)
      BY <2>0, <3>1 DEF Return, Sending
    <3>2. CASE ~Return(s)
      <4>1. UNCHANGED <<batch, count, at>> /\ sender[s] # "idle" /\ sender'[s] = "put"
        BY <2>0, <2>7, <3>2 DEF Look, Put
      <4>2. sender'[s] \notin Sending /\ sender'[s] # "idle"
        BY <4>1 DEF Sending
      <4> HIDE DEF G
      <4> QED
        BY <2>3, <4>1, <4>2
    <3> QED
      BY <3>1, <3>2
  <2> HIDE DEF G
  <2> QED
    BY <1>2, <2>2, <2>4, <2>5, <2>6, <2>7 DEF SendBatch
<1> QED
  BY <1>1, <1>2, StepKinds

-----------------------------------------------------------------------------
(***************************************************************************)
(* The messages that are pending, and those that are published.            *)
(***************************************************************************)
LEMMA PendingOf ==
    ASSUME TypeOK, OwnerInv, NEW s \in Senders,
           SendBatch(s) \/ \E n \in 1 .. DequeueSize : Take(s, n), NEW m
    PROVE  /\ Pending(m) <=> /\ sender[s] \in Sending /\ m[1] = batch[s]
                             /\ m[2] \in at[s] .. count[s]
           /\ Pending(m)' <=> /\ sender'[s] \in Sending /\ m[1] = batch'[s]
                              /\ m[2] \in at'[s] .. count'[s]
<1>1. \A r \in Senders \ {s} : sender[r] = "idle" /\ sender'[r] = "idle"
  BY MovesAlone
<1>2. "idle" \notin Sending
  BY DEF Sending
<1> QED
  BY <1>1, <1>2 DEF Pending

\* What leaves the pending messages alone: all but the start of a batch, Publish and Judge.
LEMMA PendingStays ==
    ASSUME TypeOK, OwnerInv, BatchInv, NEW m \in Messages,
           \/ Others
           \/ \E s \in Senders : \/ Ref(s) \/ Record(s) \/ PublishFailed(s) \/ Undo(s) \/ Unref(s)
                                 \/ Look(s) \/ Put(s)
    PROVE  Pending(m)' <=> Pending(m)
<1>1. CASE Others
  BY <1>1, OthersLeave DEF Pending
<1>2. ASSUME NEW s \in Senders,
             Ref(s) \/ Record(s) \/ PublishFailed(s) \/ Undo(s) \/ Unref(s) \/ Look(s) \/ Put(s)
      PROVE  Pending(m)' <=> Pending(m)
  <2>0. sender \in [Senders -> {"idle", "taken", "record", "publish", "undo", "judge",
                                "unref", "look", "put"}]
    BY DEF TypeOK
  <2>1. SendBatch(s)
    BY <1>2 DEF SendBatch
  <2>2. CASE Ref(s) \/ Record(s) \/ PublishFailed(s) \/ Undo(s) \/ Unref(s)
    <3>1. UNCHANGED <<batch, count, at>> /\ (sender'[s] \in Sending <=> sender[s] \in Sending)
      BY <2>0, <2>2 DEF Ref, Record, PublishFailed, Undo, Unref, work, Sending
    <3> QED
      BY <2>1, <3>1, PendingOf
  <2>3. CASE Look(s) \/ Put(s)
    <3>1. sender[s] \notin Sending /\ sender'[s] \notin Sending
      BY <2>0, <2>3 DEF Look, Put, Return, Sending
    <3> QED
      BY <2>1, <3>1, PendingOf
  <2> QED
    BY <1>2, <2>2, <2>3
<1> QED
  BY <1>1, <1>2

LEMMA PendingTake ==
    ASSUME TypeOK, OwnerInv, BatchInv, NEW s \in Senders, NEW n \in 1 .. DequeueSize, Take(s, n),
           NEW m \in Messages
    PROVE  /\ ~Pending(m)
           /\ Pending(m)' <=> m \in issued' \ issued
<1>0. /\ sender \in [Senders -> {"idle", "taken", "record", "publish", "undo", "judge",
                                 "unref", "look", "put"}]
      /\ batch \in [Senders -> 0 .. MaxBatches] /\ count \in [Senders -> 0 .. DequeueSize]
      /\ at \in [Senders -> 1 .. DequeueSize + 1]
  BY DEF TypeOK
<1>1. NewBatch(s, n) /\ sender' = [sender EXCEPT ![s] = "taken"]
      /\ batch' = [batch EXCEPT ![s] = batches + 1] /\ count' = [count EXCEPT ![s] = n] /\ at' = at
  BY DEF Take
<1>2. /\ sender[s] = "idle" /\ n \in Nat /\ n >= 1
      /\ issued' = issued \cup {<<batches + 1, i>> : i \in 1 .. n}
  BY <1>1, BatchTypes
<1>3. at[s] = 1
  BY <1>2 DEF BatchInv
<1>4. sender'[s] = "taken" /\ batch'[s] = batches + 1 /\ count'[s] = n /\ at'[s] = 1
  BY <1>0, <1>1, <1>3
<1>5. ~Pending(m) /\ (Pending(m)' <=> m[1] = batches + 1 /\ m[2] \in 1 .. n)
  <2>1. "idle" \notin Sending /\ "taken" \in Sending
    BY DEF Sending
  <2> QED
    BY <1>2, <1>4, <2>1, PendingOf
<1>6. m[1] = batches + 1 => m \notin issued
  <2>1. batches \in Nat
    BY SenderTypes
  <2>2. m \in issued => m[1] <= batches /\ m[1] \in Nat
    BY Constants DEF BatchInv
  <2> QED
    BY <2>1, <2>2
<1>7. m = <<m[1], m[2]>>
  BY Constants
<1>8. m[1] = batches + 1 /\ m[2] \in 1 .. n <=> m \in {<<batches + 1, i>> : i \in 1 .. n}
  <2>1. ASSUME m[1] = batches + 1, m[2] \in 1 .. n
        PROVE  m \in {<<batches + 1, i>> : i \in 1 .. n}
    <3>1. m = <<batches + 1, m[2]>>
      BY <1>7, <2>1
    <3> QED
      BY <2>1, <3>1
  <2>2. ASSUME m \in {<<batches + 1, i>> : i \in 1 .. n}
        PROVE  m[1] = batches + 1 /\ m[2] \in 1 .. n
    BY <2>2
  <2> QED
    BY <2>1, <2>2
<1> QED
  BY <1>2, <1>5, <1>6, <1>8

\* The loop goes on: the current message is pending no more.
LEMMA PendingNext ==
    ASSUME TypeOK, OwnerInv, BatchInv, NEW s \in Senders, SendBatch(s), sender[s] \in Sending,
           NextMessage(s), UNCHANGED <<batch, count>>, NEW m \in Messages
    PROVE  /\ Pending(m)' <=> Pending(m) /\ m # Current(s)
           /\ Pending(Current(s))
<1>0. /\ sender \in [Senders -> {"idle", "taken", "record", "publish", "undo", "judge",
                                 "unref", "look", "put"}]
      /\ at \in [Senders -> 1 .. DequeueSize + 1]
  BY DEF TypeOK
<1>1. at' = [at EXCEPT ![s] = at[s] + 1]
      /\ sender' = [sender EXCEPT ![s] = IF at[s] < count[s] THEN "record" ELSE "unref"]
  BY NextTypes
<1>2. at'[s] = at[s] + 1 /\ sender'[s] = IF at[s] < count[s] THEN "record" ELSE "unref"
  BY <1>0, <1>1
<1>3. at[s] \in Nat /\ count[s] \in Nat
  BY SenderTypes
<1>4. sender'[s] \in Sending <=> at[s] < count[s]
  BY <1>2 DEF Sending
<1>5. m[1] \in Nat /\ m[2] \in Nat /\ m = <<m[1], m[2]>>
  BY Constants
<1>6. Pending(m) <=> m[1] = batch[s] /\ m[2] \in at[s] .. count[s]
  BY PendingOf
<1>7. Pending(m)' <=> at[s] < count[s] /\ m[1] = batch[s] /\ m[2] \in at[s] + 1 .. count[s]
  BY <1>2, <1>4, PendingOf
<1>8. m = Current(s) <=> m[1] = batch[s] /\ m[2] = at[s]
  BY <1>5 DEF Current
<1>9. at[s] \in at[s] .. count[s] /\ Current(s)[1] = batch[s] /\ Current(s)[2] = at[s]
  <2>1. at[s] <= count[s] /\ Current(s)[1] = batch[s] /\ Current(s)[2] = at[s]
    BY CurrentType
  <2> QED
    BY <1>3, <2>1
<1>10. Pending(Current(s))
  BY <1>9, PendingOf
<1>11. m[2] \in at[s] .. count[s] /\ m[2] # at[s] <=> at[s] < count[s] /\ m[2] \in at[s] + 1 .. count[s]
  BY <1>3, <1>5
<1> QED
  BY <1>6, <1>7, <1>8, <1>10, <1>11

\* The rest of the batch failed.
LEMMA PendingFailed ==
    ASSUME TypeOK, OwnerInv, NEW s \in Senders, Judge(s), IsClosed, NEW m \in Messages
    PROVE  /\ Pending(m) <=> m[1] = batch[s] /\ m[2] \in at[s] .. count[s]
           /\ ~Pending(m)'
<1>1. SendBatch(s) /\ sender[s] = "judge" /\ sender' = [sender EXCEPT ![s] = "unref"]
  BY DEF Judge, SendBatch
<1>2. sender'[s] = "unref"
  BY <1>1 DEF TypeOK
<1> QED
  BY <1>1, <1>2, PendingOf DEF Sending

LEMMA PendingShrinks ==
    ASSUME TypeOK, OwnerInv, BatchInv, [Next]_vars, NEW m \in issued, Pending(m)'
    PROVE  Pending(m)
<1>0. m \in Messages
  BY DEF TypeOK
<1>1. ASSUME NEW s \in Senders, NEW n \in 1 .. DequeueSize, Take(s, n)
      PROVE  Pending(m)
  BY <1>0, <1>1, PendingTake
<1>2. ASSUME NEW s \in Senders, Publish(s)
      PROVE  Pending(m)
  BY <1>0, <1>2, PendingNext DEF Publish, SendBatch, Sending
<1>3. ASSUME NEW s \in Senders, Judge(s)
      PROVE  Pending(m)
  <2>1. CASE IsClosed
    BY <1>0, <1>3, <2>1, PendingFailed
  <2>2. CASE ~IsClosed
    <3>1. NextMessage(s) /\ sender[s] \in Sending /\ SendBatch(s) /\ UNCHANGED <<batch, count>>
      BY <1>3, <2>2 DEF Judge, SendBatch, Sending
    <3> QED
      BY <1>0, <3>1, PendingNext
  <2> QED
    BY <2>1, <2>2
<1> QED
  BY <1>0, <1>1, <1>2, <1>3, PendingStays, StepKinds DEF SendBatch

\* Only Publish publishes.
LEMMA PublishedMoves ==
    ASSUME TypeOK, OwnerInv, BatchInv, [Next]_vars
    PROVE  \/ published' = published
           \/ \E s \in Senders : Publish(s)
<1>1. ASSUME NEW s \in Senders, SendBatch(s) \/ \E n \in 1 .. DequeueSize : Take(s, n), ~Publish(s)
      PROVE  published' = published
  BY <1>1 DEF SendBatch, Ref, Record, PublishFailed, Undo, Judge, Unref, Look, Put, Take, lib
<1> QED
  BY <1>1, OthersLeave, StepKinds

\* What Publish does.
LEMMA PublishFacts ==
    ASSUME TypeOK, OwnerInv, BatchInv, NEW s \in Senders, Publish(s)
    PROVE  /\ Len(published) \in Nat
           /\ Len(published') = Len(published) + 1
           /\ published'[Len(published) + 1] = Current(s)
           /\ \A i \in 1 .. Len(published) : published'[i] = published[i] /\ published[i] \in Messages
           /\ Current(s) \in Messages /\ Current(s) \in issued
           /\ SendBatch(s) /\ sender[s] \in Sending /\ NextMessage(s) /\ UNCHANGED <<batch, count>>
<1>1. /\ SendBatch(s) /\ sender[s] \in Sending /\ NextMessage(s) /\ UNCHANGED <<batch, count>>
      /\ published' = Append(published, Current(s))
  BY DEF Publish, SendBatch, Sending
<1>2. Current(s) \in Messages /\ Current(s) \in issued
  BY <1>1, CurrentType
<1>3. published \in Seq(Messages)
  BY DEF TypeOK
<1> QED
  BY <1>1, <1>2, <1>3

LEMMA PublishedTypes ==
    ASSUME TypeOK
    PROVE  Len(published) \in Nat /\ \A i \in 1 .. Len(published) : published[i] \in Messages
BY DEF TypeOK

LEMMA PublishedStep ==
    ASSUME PublishInv, [Next]_vars
    PROVE  PublishedInv'
<1>t. TypeOK /\ OwnerInv /\ BatchInv /\ PublishedInv
  BY DEF PublishInv
<1> DEFINE Later(m) == \E s \in Senders : /\ sender'[s] \in Sending /\ m[1] = batch'[s]
                                          /\ m[2] \in at'[s] .. count'[s]
           N == Len(published)
<1>0. ASSUME NEW i \in 1 .. N
      PROVE  published[i] \in issued' /\ ~Later(published[i])
  <2>1. PICK m \in issued : m = published[i] /\ ~Pending(m)
    BY <1>t DEF PublishedInv
  <2>2. m \in issued' /\ ~Pending(m)'
    BY <1>t, <2>1, IssuedGrows, PendingShrinks
  <2> QED
    BY <2>1, <2>2 DEF Pending
<1>i. \A i, j \in 1 .. N : published[i] = published[j] => i = j
  BY <1>t DEF PublishedInv
<1>1. ASSUME published' = published
      PROVE  PublishedInv'
  BY <1>0, <1>1, <1>i DEF PublishedInv, Pending
<1>2. ASSUME NEW s \in Senders, Publish(s)
      PROVE  PublishedInv'
  <2>1. /\ N \in Nat /\ Len(published') = N + 1 /\ published'[N + 1] = Current(s)
        /\ \A i \in 1 .. N : published'[i] = published[i]
        /\ Current(s) \in Messages /\ Current(s) \in issued
        /\ SendBatch(s) /\ sender[s] \in Sending /\ NextMessage(s) /\ UNCHANGED <<batch, count>>
    BY <1>t, <1>2, PublishFacts
  <2>2. PICK x \in Messages : x = Current(s) /\ x \in issued
    BY <2>1
  <2>3. Pending(x) /\ ~Pending(x)'
    BY <1>t, <2>1, <2>2, PendingNext
  <2>4. \A i \in 1 .. N : published[i] # x
    BY <1>t, <2>3 DEF PublishedInv
  <2>5. x \in issued' /\ ~Later(x)
    BY <1>t, <2>2, <2>3, IssuedGrows DEF Pending
  <2> HIDE DEF Later, N
  <2>6. \A i \in 1 .. N + 1 : i \in 1 .. N \/ i = N + 1
    BY <2>1
  <2>7. \A i, j \in 1 .. N + 1 : published'[i] = published'[j] => i = j
    BY <1>i, <2>1, <2>2, <2>4, <2>6
  <2>8. \A i \in 1 .. N + 1 : published'[i] \in issued' /\ ~Later(published'[i])
    BY <1>0, <2>1, <2>2, <2>5, <2>6
  <2> USE DEF Later
  <2> QED
    BY <2>1, <2>7, <2>8 DEF PublishedInv, Pending
<1> QED
  BY <1>t, <1>1, <1>2, PublishedMoves

-----------------------------------------------------------------------------
(***************************************************************************)
(* The confirms.                                                           *)
(***************************************************************************)
LEMMA ConfirmTypes ==
    ASSUME TypeOK, ConfirmInv
    PROVE  /\ Confirmed \in Nat /\ Confirmed <= Len(published) /\ Len(confirmCh) \in Nat
           /\ confirmCh # << >> =>
                 Head(confirmCh) = Confirmed + 1 /\ Confirmed + 1 \in 1 .. Len(published)
<1>1. /\ expecting \in 1 .. Len(published) + 1 /\ Len(published) \in Nat
      /\ confirmCh \in Seq(1 .. Len(published))
  BY DEF TypeOK
<1>2. Len(confirmCh) \in Nat /\ (confirmCh # << >> => Len(confirmCh) >= 1 /\ Head(confirmCh) = confirmCh[1])
  BY <1>1
<1>3. Confirmed \in Nat /\ Confirmed = expecting - 1 - Len(confirmCh)
  BY <1>1, <1>2 DEF ConfirmInv, Confirmed
<1>4. Confirmed <= Len(published)
  BY <1>1, <1>2, <1>3
<1>5. ASSUME confirmCh # << >>
      PROVE  Head(confirmCh) = Confirmed + 1 /\ Confirmed + 1 \in 1 .. Len(published)
  <2>1. 1 \in 1 .. Len(confirmCh)
    BY <1>2, <1>5
  <2>2. confirmCh[1] = Confirmed + 1
    BY <2>1 DEF ConfirmInv
  <2>3. confirmCh[1] \in 1 .. Len(published)
    BY <1>1, <2>1
  <2> QED
    BY <1>2, <1>5, <2>2, <2>3
<1> QED
  BY <1>2, <1>3, <1>4, <1>5

\* The monitor reads one confirm after the other.
LEMMA ConfirmedMoves ==
    ASSUME TypeOK, ConfirmInv, [Next]_vars
    PROVE  \/ ~ReadConfirm /\ Confirmed' = Confirmed
           \/ ReadConfirm /\ Confirmed' = Confirmed + 1
<1>1. /\ expecting \in 1 .. Len(published) + 1 /\ Len(published) \in Nat
      /\ confirmCh \in Seq(1 .. Len(published))
  BY DEF TypeOK
<1>2. CASE ReadConfirm
  <2>1. confirmCh # << >> /\ confirmCh' = Tail(confirmCh) /\ expecting' = expecting
    BY <1>2 DEF ReadConfirm, lib
  <2>2. Len(confirmCh') = Len(confirmCh) - 1 /\ Len(confirmCh) \in Nat
    BY <1>1, <2>1
  <2> QED
    BY <1>1, <1>2, <2>1, <2>2 DEF Confirmed
<1>3. CASE Deliver /\ ~ReadConfirm
  <2>1. confirmCh' = Append(confirmCh, expecting) /\ expecting' = expecting + 1
    BY <1>3 DEF Deliver
  <2>2. Len(confirmCh') = Len(confirmCh) + 1 /\ Len(confirmCh) \in Nat
    BY <1>1, <2>1
  <2> QED
    BY <1>1, <1>3, <2>1, <2>2 DEF Confirmed
<1>4. CASE ~Deliver /\ ~ReadConfirm
  <2>1. UNCHANGED <<expecting, confirmCh>>
    <3>1. ASSUME NEW s \in Senders, SendBatch(s) \/ \E n \in 1 .. DequeueSize : Take(s, n) \/ Discard(s, n)
          PROVE  UNCHANGED <<expecting, confirmCh>>
      BY <3>1 DEF SendBatch, Ref, Record, Publish, PublishFailed, Undo, Judge, Unref, Look, Put, Take,
                  Discard, lib
    <3>2. ASSUME Monitor PROVE UNCHANGED <<expecting, confirmCh>>
      BY <1>4, <3>2 DEF Monitor, ReadRecord, ReadClosed, MonitorEnd, Delay, DrainQuit, ConfirmsEnd,
                        CountFailed, lib
    <3>3. ASSUME Library \/ (\E n \in 1 .. Len(published) : Confirm(n)) \/ ShutdownBegin \/ Heartbeat \/ Quit
                 \/ UNCHANGED vars
          PROVE  UNCHANGED <<expecting, confirmCh>>
      BY <1>4, <3>3 DEF Library, ShutdownLock, ShutdownEnd, Confirm, ShutdownBegin, Heartbeat, Quit, lib, vars
    <3> QED
      BY <3>1, <3>2, <3>3 DEF Next
  <2> QED
    BY <1>4, <2>1 DEF Confirmed
<1> QED
  BY <1>2, <1>3, <1>4

LEMMA ConfirmStep ==
    ASSUME PublishInv, [Next]_vars
    PROVE  ConfirmInv'
<1>t. TypeOK /\ ConfirmInv
  BY DEF PublishInv
<1>0. /\ expecting \in 1 .. Len(published) + 1 /\ Len(published) \in Nat
      /\ confirmCh \in Seq(1 .. Len(published)) /\ Len(confirmCh) \in Nat
      /\ Confirmed \in Nat /\ Confirmed = expecting - 1 - Len(confirmCh)
      /\ \A k \in 1 .. Len(confirmCh) : confirmCh[k] = Confirmed + k
  BY <1>t, ConfirmTypes DEF TypeOK, ConfirmInv, Confirmed
<1> DEFINE D == Confirmed
<1>1. CASE ReadConfirm
  <2>1. confirmCh # << >> /\ confirmCh' = Tail(confirmCh)
    BY <1>1 DEF ReadConfirm
  <2>2. Confirmed' = D + 1
    BY <1>t, <1>1, ConfirmedMoves
  <2>3. Len(confirmCh') = Len(confirmCh) - 1 /\ \A k \in 1 .. Len(confirmCh') : confirmCh'[k] = confirmCh[k + 1]
    BY <1>0, <2>1
  <2> HIDE DEF D
  <2>4. \A k \in 1 .. Len(confirmCh') : confirmCh'[k] = (D + 1) + k
    <3>1. ASSUME NEW k \in 1 .. Len(confirmCh')
          PROVE  confirmCh'[k] = (D + 1) + k
      <4>1. k + 1 \in 1 .. Len(confirmCh) /\ k \in Nat
        BY <1>0, <2>3
      <4>2. confirmCh[k + 1] = D + (k + 1) /\ D \in Nat
        BY <1>0, <4>1 DEF D
      <4> QED
        BY <2>3, <4>1, <4>2
    <3> QED
      BY <3>1
  <2>5. D + 1 >= 0
    BY <1>0 DEF D
  <2> QED
    BY <2>2, <2>4, <2>5 DEF ConfirmInv
<1>2. CASE Deliver /\ ~ReadConfirm
  <2>1. confirmCh' = Append(confirmCh, expecting)
    BY <1>2 DEF Deliver
  <2>2. Confirmed' = D
    BY <1>t, <1>2, ConfirmedMoves
  <2>3. /\ Len(confirmCh') = Len(confirmCh) + 1 /\ confirmCh'[Len(confirmCh) + 1] = expecting
        /\ \A k \in 1 .. Len(confirmCh) : confirmCh'[k] = confirmCh[k]
    BY <1>0, <2>1
  <2>4. expecting = D + (Len(confirmCh) + 1)
    BY <1>0
  <2> HIDE DEF D
  <2>5. \A k \in 1 .. Len(confirmCh') : k \in 1 .. Len(confirmCh) \/ k = Len(confirmCh) + 1
    BY <1>0, <2>3
  <2>6. \A k \in 1 .. Len(confirmCh') : confirmCh'[k] = D + k
    BY <1>0, <2>3, <2>4, <2>5 DEF D
  <2>7. D >= 0
    BY <1>0 DEF D
  <2> QED
    BY <2>2, <2>6, <2>7 DEF ConfirmInv
<1>3. CASE ~Deliver /\ ~ReadConfirm
  <2>1. Confirmed' = Confirmed
    BY <1>t, <1>3, ConfirmedMoves
  <2>2. confirmCh' = confirmCh
    <3>1. ASSUME NEW s \in Senders, SendBatch(s) \/ \E n \in 1 .. DequeueSize : Take(s, n) \/ Discard(s, n)
          PROVE  confirmCh' = confirmCh
      BY <3>1 DEF SendBatch, Ref, Record, Publish, PublishFailed, Undo, Judge, Unref, Look, Put, Take, Discard
    <3>2. ASSUME Monitor PROVE confirmCh' = confirmCh
      BY <1>3, <3>2 DEF Monitor, ReadRecord, ReadClosed, MonitorEnd, Delay, DrainQuit, ConfirmsEnd, CountFailed
    <3>3. ASSUME Library \/ (\E n \in 1 .. Len(published) : Confirm(n)) \/ ShutdownBegin \/ Heartbeat \/ Quit
                 \/ UNCHANGED vars
          PROVE  confirmCh' = confirmCh
      BY <1>3, <3>3 DEF Library, ShutdownLock, ShutdownEnd, Confirm, ShutdownBegin, Heartbeat, Quit, vars
    <3> QED
      BY <3>1, <3>2, <3>3 DEF Next
  <2> QED
    BY <1>t, <2>1, <2>2 DEF ConfirmInv
<1> QED
  BY <1>1, <1>2, <1>3

-----------------------------------------------------------------------------
(***************************************************************************)
(* The records.                                                            *)
(***************************************************************************)
LEMMA QueueMoves ==
    ASSUME [Next]_vars
    PROVE  \/ UNCHANGED <<publishedCh, publishedMp>>
           \/ \E s \in Senders : Record(s) \/ Undo(s)
           \/ ReadRecord
           \/ ReadConfirm
<1>1. ASSUME NEW s \in Senders, SendBatch(s) \/ (\E n \in 1 .. DequeueSize : Take(s, n) \/ Discard(s, n)),
             ~Record(s), ~Undo(s)
      PROVE  UNCHANGED <<publishedCh, publishedMp>>
  BY <1>1 DEF SendBatch, Ref, Publish, PublishFailed, Judge, Unref, Look, Put, Take, Discard, mon
<1>2. ASSUME Monitor, ~ReadRecord, ~ReadConfirm
      PROVE  UNCHANGED <<publishedCh, publishedMp>>
  BY <1>2 DEF Monitor, ReadClosed, MonitorEnd, Delay, DrainQuit, ConfirmsEnd, CountFailed
<1>3. ASSUME Library \/ (\E n \in 1 .. Len(published) : Confirm(n)) \/ ShutdownBegin \/ Heartbeat \/ Quit
             \/ UNCHANGED vars
      PROVE  UNCHANGED <<publishedCh, publishedMp>>
  BY <1>3 DEF Library, Deliver, ShutdownLock, ShutdownEnd, Confirm, ShutdownBegin, Heartbeat, Quit, mon, vars
<1> QED
  BY <1>1, <1>2, <1>3 DEF Next

\* A record stays that of the current message or of an earlier one.
LEMMA RecordedStays ==
    ASSUME TypeOK, OwnerInv, BatchInv, [Next]_vars, NEW r \in Records, Recorded(r)
    PROVE  Recorded(r)'
<1>1. CASE r[2] = NoMessage
  BY <1>1 DEF Recorded
<1>2. CASE r[2] # NoMessage
  <2>1. r[2] \in issued /\ r[2] \in Messages /\ r[2] \in issued'
    BY <1>2, IssuedGrows DEF Recorded, TypeOK
  <2>2. r[2][1] \in Nat /\ r[2][2] \in Nat /\ r[2][1] <= batches
    BY <2>1, Constants DEF BatchInv
  <2> DEFINE b == r[2][1]
             i == r[2][2]
  <2>3. \A s \in Senders : b = batch[s] =>
          /\ sender[s] \in {"taken", "record"} => i < at[s]
          /\ sender[s] \in {"publish", "undo", "judge"} => i <= at[s]
    BY <1>2 DEF Recorded
  <2> SUFFICES \A s \in Senders : b = batch'[s] =>
                 /\ sender'[s] \in {"taken", "record"} => i < at'[s]
                 /\ sender'[s] \in {"publish", "undo", "judge"} => i <= at'[s]
    BY <2>1 DEF Recorded
  <2> HIDE DEF b, i
  <2>4. b \in Nat /\ i \in Nat /\ b <= batches
    BY <2>2 DEF b, i
  <2>5. CASE Others
    BY <2>3, <2>5, OthersLeave
  <2>6. ASSUME NEW s \in Senders, SendBatch(s) \/ \E n \in 1 .. DequeueSize : Take(s, n)
        PROVE  \A u \in Senders : b = batch'[u] =>
                 /\ sender'[u] \in {"taken", "record"} => i < at'[u]
                 /\ sender'[u] \in {"publish", "undo", "judge"} => i <= at'[u]
    <3>0. /\ sender \in [Senders -> {"idle", "taken", "record", "publish", "undo", "judge",
                                     "unref", "look", "put"}]
          /\ batch \in [Senders -> 0 .. MaxBatches] /\ at \in [Senders -> 1 .. DequeueSize + 1]
          /\ at[s] \in Nat /\ batches \in Nat
      BY SenderTypes DEF TypeOK
    <3>1. \A u \in Senders \ {s} : sender'[u] = "idle"
      BY <2>6, MovesAlone
    <3> SUFFICES b = batch'[s] =>
                   /\ sender'[s] \in {"taken", "record"} => i < at'[s]
                   /\ sender'[s] \in {"publish", "undo", "judge"} => i <= at'[s]
      BY <3>1
    <3>2. b = batch[s] =>
            /\ sender[s] \in {"taken", "record"} => i < at[s]
            /\ sender[s] \in {"publish", "undo", "judge"} => i <= at[s]
      BY <2>3
    <3>3. ASSUME NEW n \in 1 .. DequeueSize, Take(s, n)
          PROVE  b # batch'[s]
      <4>1. batch'[s] = batches + 1
        BY <3>0, <3>3 DEF Take
      <4> QED
        BY <2>4, <3>0, <4>1
    <3>4. CASE Ref(s) \/ Record(s) \/ PublishFailed(s) \/ Undo(s) \/ Unref(s)
      <4>1. UNCHANGED <<batch, at>>
        BY <3>4 DEF Ref, Record, PublishFailed, Undo, Unref, work
      <4>2. \/ sender[s] = "taken" /\ sender'[s] = "record"
            \/ sender[s] = "record" /\ sender'[s] = "publish"
            \/ sender[s] = "publish" /\ sender'[s] = "undo"
            \/ sender[s] = "undo" /\ sender'[s] = "judge"
            \/ sender'[s] = "look"
        BY <3>0, <3>4 DEF Ref, Record, PublishFailed, Undo, Unref
      <4> QED
        BY <2>4, <3>0, <3>2, <4>1, <4>2
    <3>n. ASSUME sender[s] \in {"publish", "judge"}, NextMessage(s), batch' = batch
          PROVE  b = batch'[s] =>
                   /\ sender'[s] \in {"taken", "record"} => i < at'[s]
                   /\ sender'[s] \in {"publish", "undo", "judge"} => i <= at'[s]
      <4>1. at'[s] = at[s] + 1 /\ sender'[s] \in {"record", "unref"}
        BY <3>0, <3>n DEF NextMessage
      <4> QED
        BY <2>4, <3>0, <3>2, <3>n, <4>1
    <3>5. CASE Publish(s)
      BY <3>5, <3>n DEF Publish
    <3>6. CASE Judge(s)
      <4>1. CASE IsClosed
        <5>1. sender'[s] = "unref"
          BY <3>0, <3>6, <4>1 DEF Judge
        <5> QED
          BY <5>1
      <4>2. CASE ~IsClosed
        BY <3>6, <3>n, <4>2 DEF Judge
      <4> QED
        BY <4>1, <4>2
    <3>7. CASE Look(s) \/ Put(s)
      <4>1. sender'[s] \in {"idle", "put"}
        BY <3>0, <3>7 DEF Look, Put, Return
      <4> QED
        BY <4>1
    <3> QED
      BY <2>6, <3>3, <3>4, <3>5, <3>6, <3>7 DEF SendBatch
  <2> QED
    BY <2>5, <2>6, StepKinds
<1> QED
  BY <1>1, <1>2

LEMMA QueueTypes ==
    ASSUME TypeOK
    PROVE  /\ publishedCh \in Seq(Records) /\ Len(publishedCh) \in Nat
           /\ \A k \in 1 .. Len(publishedCh) : publishedCh[k] \in Records
           /\ publishedMp \subseteq Records
           /\ Len(published) \in Nat
<1>1. publishedCh \in Seq(Records) /\ publishedMp \subseteq Records /\ Len(published) \in Nat
  BY DEF TypeOK
<1> HIDE DEF Records
<1> QED
  BY <1>1

\* The queue with one record more at the end.
LEMMA LongerQueue ==
    ASSUME TypeOK, NEW r \in Records, publishedCh' = Append(publishedCh, r)
    PROVE  /\ Len(publishedCh) \in Nat /\ Len(publishedCh') = Len(publishedCh) + 1
           /\ publishedCh'[Len(publishedCh) + 1] = r
           /\ \A k \in 1 .. Len(publishedCh) : publishedCh'[k] = publishedCh[k]
           /\ \A k \in 1 .. Len(publishedCh') : k \in 1 .. Len(publishedCh) \/ k = Len(publishedCh) + 1
<1>1. publishedCh \in Seq(Records)
  BY QueueTypes
<1> HIDE DEF Records
<1> QED
  BY <1>1

LEMMA RecordStep ==
    ASSUME PublishInv, [Next]_vars
    PROVE  RecordInv'
<1>t. TypeOK /\ OwnerInv /\ BatchInv /\ RecordInv
  BY DEF PublishInv
<1> DEFINE Later(r) ==
             \/ r[2] = NoMessage
             \/ /\ r[2] \in issued'
                /\ \A s \in Senders : r[2][1] = batch'[s] =>
                      /\ sender'[s] \in {"taken", "record"} => r[2][2] < at'[s]
                      /\ sender'[s] \in {"publish", "undo", "judge"} => r[2][2] <= at'[s]
           q == publishedCh
           N == Len(publishedCh)
<1>0. /\ q \in Seq(Records) /\ N \in Nat /\ publishedMp \subseteq Records
      /\ \A k \in 1 .. N : q[k] \in Records
  BY <1>t, QueueTypes
<1>1. ASSUME NEW r \in Records, Recorded(r)
      PROVE  Later(r)
  <2>1. Recorded(r)'
    BY <1>t, <1>1, RecordedStays
  <2> QED
    BY <2>1 DEF Recorded
<1>2. \A r \in publishedMp : Later(r) /\ r[2] # NoMessage
  BY <1>t, <1>0, <1>1 DEF RecordInv
<1>3. \A k \in 1 .. N : Later(q[k])
  BY <1>t, <1>0, <1>1 DEF RecordInv
<1>4. \A k \in 1 .. N : q[k][2] # NoMessage =>
        q[k] \notin publishedMp /\ \A j \in 1 .. N : q[j] = q[k] => j = k
  BY <1>t DEF RecordInv
<1>s. SUFFICES /\ \A r \in publishedMp' : Later(r) /\ r[2] # NoMessage
               /\ \A k \in 1 .. Len(publishedCh') :
                    /\ Later(publishedCh'[k])
                    /\ publishedCh'[k][2] # NoMessage =>
                          /\ publishedCh'[k] \notin publishedMp'
                          /\ \A j \in 1 .. Len(publishedCh') : publishedCh'[j] = publishedCh'[k] => j = k
  BY DEF RecordInv, Recorded
<1> HIDE DEF Later
<1>5. CASE UNCHANGED <<publishedCh, publishedMp>>
  BY <1>2, <1>3, <1>4, <1>5
<1>6. ASSUME NEW s \in Senders, Record(s)
      PROVE  /\ \A r \in publishedMp' : Later(r) /\ r[2] # NoMessage
             /\ \A k \in 1 .. Len(publishedCh') :
                  /\ Later(publishedCh'[k])
                  /\ publishedCh'[k][2] # NoMessage =>
                        /\ publishedCh'[k] \notin publishedMp'
                        /\ \A j \in 1 .. Len(publishedCh') : publishedCh'[j] = publishedCh'[k] => j = k
  <2>1. /\ sender[s] = "record" /\ publishedMp' = publishedMp /\ UNCHANGED <<issued, batch, at>>
        /\ publishedCh' = Append(publishedCh, <<Len(published) + 1, Current(s)>>)
        /\ sender' = [sender EXCEPT ![s] = "publish"]
    BY <1>6 DEF Record, mon, work
  <2>2. Current(s) \in Messages /\ Current(s) \in issued /\ Current(s)[1] = batch[s] /\ Current(s)[2] = at[s]
    BY <1>t, <2>1, CurrentType DEF Sending
  <2>3. PICK r \in Records : r = <<Len(published) + 1, Current(s)>> /\ r[2] = Current(s)
    <3>1. Len(published) + 1 \in Nat /\ Len(published) + 1 >= 1
      BY <1>t, QueueTypes
    <3> QED
      BY <2>2, <3>1, RecordTypes
  <2>4. /\ Len(publishedCh') = N + 1 /\ publishedCh'[N + 1] = r
        /\ \A k \in 1 .. N : publishedCh'[k] = q[k]
        /\ \A k \in 1 .. Len(publishedCh') : k \in 1 .. N \/ k = N + 1
    BY <1>t, <2>1, <2>3, LongerQueue
  <2>5. ~Recorded(r)
    <3>1. r[2] # NoMessage /\ r[2][1] = batch[s] /\ r[2][2] = at[s] /\ at[s] \in Nat
      BY <1>t, <2>2, <2>3, Constants, SenderTypes
    <3> QED
      BY <2>1, <3>1 DEF Recorded
  <2>6. r \notin publishedMp /\ \A k \in 1 .. N : q[k] # r
    BY <1>t, <2>5 DEF RecordInv
  <2>7. Later(r)
    <3>1. \A u \in Senders \ {s} : sender'[u] = "idle"
      BY <1>t, <1>6, MovesAlone DEF SendBatch
    <3>2. sender'[s] = "publish" /\ at'[s] = at[s] /\ at[s] \in Nat
      BY <1>t, <2>1, SenderTypes DEF TypeOK
    <3>3. r[2][1] = batch[s] /\ r[2][2] = at[s] /\ r[2] \in issued'
      BY <2>1, <2>2, <2>3
    <3>4. \A u \in Senders : /\ sender'[u] \in {"taken", "record"} => r[2][2] < at'[u]
                             /\ sender'[u] \in {"publish", "undo", "judge"} => r[2][2] <= at'[u]
      BY <3>1, <3>2, <3>3
    <3> QED
      BY <3>3, <3>4 DEF Later
  <2> HIDE DEF q, N
  <2>8. ASSUME NEW k \in 1 .. Len(publishedCh'), publishedCh'[k][2] # NoMessage
        PROVE  /\ publishedCh'[k] \notin publishedMp
               /\ \A j \in 1 .. Len(publishedCh') : publishedCh'[j] = publishedCh'[k] => j = k
    <3>1. CASE k \in 1 .. N
      BY <1>4, <2>4, <2>6, <2>8, <3>1
    <3>2. CASE k = N + 1
      BY <2>4, <2>6, <3>2
    <3> QED
      BY <2>4, <3>1, <3>2
  <2> QED
    BY <1>2, <1>3, <2>1, <2>4, <2>7, <2>8
<1>7. ASSUME NEW s \in Senders, Undo(s)
      PROVE  /\ \A r \in publishedMp' : Later(r) /\ r[2] # NoMessage
             /\ \A k \in 1 .. Len(publishedCh') :
                  /\ Later(publishedCh'[k])
                  /\ publishedCh'[k][2] # NoMessage =>
                        /\ publishedCh'[k] \notin publishedMp'
                        /\ \A j \in 1 .. Len(publishedCh') : publishedCh'[j] = publishedCh'[k] => j = k
  <2>1. publishedMp' = publishedMp /\ publishedCh' = Append(publishedCh, <<Len(published) + 1, NoMessage>>)
    BY <1>7 DEF Undo, mon
  <2>2. PICK r \in Records : r = <<Len(published) + 1, NoMessage>> /\ r[2] = NoMessage
    <3>1. Len(published) + 1 \in Nat /\ Len(published) + 1 >= 1
      BY <1>t, QueueTypes
    <3> QED
      BY <3>1, RecordTypes
  <2>3. /\ Len(publishedCh') = N + 1 /\ publishedCh'[N + 1] = r
        /\ \A k \in 1 .. N : publishedCh'[k] = q[k]
        /\ \A k \in 1 .. Len(publishedCh') : k \in 1 .. N \/ k = N + 1
    BY <1>t, <2>1, <2>2, LongerQueue
  <2>4. Later(r)
    BY <2>2 DEF Later
  <2> HIDE DEF q, N
  <2>5. ASSUME NEW k \in 1 .. Len(publishedCh'), publishedCh'[k][2] # NoMessage
        PROVE  /\ publishedCh'[k] \notin publishedMp
               /\ \A j \in 1 .. Len(publishedCh') : publishedCh'[j] = publishedCh'[k] => j = k
    <3>1. k \in 1 .. N
      BY <2>2, <2>3, <2>5
    <3> QED
      BY <1>4, <2>2, <2>3, <2>5, <3>1
  <2> QED
    BY <1>2, <1>3, <2>1, <2>3, <2>4, <2>5
<1>8. CASE ReadRecord
  <2>1. /\ q # << >> /\ publishedCh' = Tail(q)
        /\ publishedMp' = Unrecord(Head(q)[1]) \cup (IF Head(q)[2] = NoMessage THEN {} ELSE {Head(q)})
    BY <1>8 DEF ReadRecord
  <2> HIDE DEF Records
  <2>2. /\ N >= 1 /\ Head(q) = q[1] /\ Len(Tail(q)) = N - 1
        /\ \A k \in 1 .. N - 1 : Tail(q)[k] = q[k + 1]
    BY <1>0, <2>1
  <2> HIDE DEF q, N
  <2>3. \A k \in 1 .. N - 1 : k + 1 \in 1 .. N /\ k + 1 # 1 /\ k \in Nat
    BY <1>0
  <2>4. 1 \in 1 .. N
    BY <1>0, <2>2
  <2>5. \A r \in publishedMp' : (r \in publishedMp \/ r = q[1]) /\ (r = q[1] => r \in publishedMp \/ r[2] # NoMessage)
    BY <2>1, <2>2 DEF Unrecord
  <2>6. \A r \in publishedMp' : Later(r) /\ r[2] # NoMessage
    BY <1>2, <1>3, <2>4, <2>5
  <2>7. ASSUME NEW k \in 1 .. N - 1, q[k + 1][2] # NoMessage
        PROVE  q[k + 1] \notin publishedMp' /\ \A j \in 1 .. N - 1 : q[j + 1] = q[k + 1] => j = k
    <3>1. k + 1 \in 1 .. N /\ k + 1 # 1 /\ k \in Nat
      BY <2>3
    <3>2. q[k + 1] \notin publishedMp /\ \A j \in 1 .. N : q[j] = q[k + 1] => j = k + 1
      BY <1>4, <2>7, <3>1
    <3>3. q[1] # q[k + 1]
      BY <2>4, <3>1, <3>2
    <3>4. ASSUME NEW j \in 1 .. N - 1, q[j + 1] = q[k + 1]
          PROVE  j = k
      <4>1. j + 1 \in 1 .. N /\ j \in Nat
        BY <2>3
      <4>2. j + 1 = k + 1
        BY <3>2, <3>4, <4>1
      <4> QED
        BY <3>1, <4>1, <4>2
    <3> QED
      BY <2>5, <3>2, <3>3, <3>4
  <2>8. Len(publishedCh') = N - 1 /\ \A k \in 1 .. N - 1 : publishedCh'[k] = q[k + 1]
    BY <2>1, <2>2
  <2> QED
    BY <1>3, <2>3, <2>6, <2>7, <2>8
<1>9. CASE ReadConfirm
  <2>1. publishedMp' \subseteq publishedMp /\ publishedCh' = publishedCh
    BY <1>9 DEF ReadConfirm, Unrecord
  <2> QED
    BY <1>2, <1>3, <1>4, <2>1
<1> QED
  BY <1>5, <1>6, <1>7, <1>8, <1>9, QueueMoves

\* What a record at the end of the queue does to what will be in the map, ...
LEMMA EffectiveAppend ==
    ASSUME NEW q \in Seq(Records), NEW mp, NEW r \in Records, NEW y, r = <<r[1], y>>
    PROVE  /\ Effective(Append(q, r), mp, r[1], y)
           /\ \A no, x : no # r[1] /\ Effective(q, mp, no, x) => Effective(Append(q, r), mp, no, x)
<1> DEFINE t == Append(q, r)
           N == Len(q)
<1> HIDE DEF Records
<1>1. /\ N \in Nat /\ Len(t) = N + 1 /\ t[N + 1] = r
      /\ \A k \in 1 .. N : t[k] = q[k]
  OBVIOUS
<1> HIDE DEF t, N
<1>2. /\ \A k \in 1 .. Len(t) : k \in 1 .. N \/ k = N + 1
      /\ \A k \in 1 .. N : k \in 1 .. Len(t)
      /\ N + 1 \in 1 .. Len(t)
      /\ \A k \in 1 .. Len(t) : ~(k > N + 1)
  BY <1>1
<1>3. LastOf(t, r[1], y)
  BY <1>1, <1>2 DEF LastOf
<1>4. ASSUME NEW no, NEW x, no # r[1], LastOf(q, no, x)
      PROVE  LastOf(t, no, x)
  <2>1. PICK k \in 1 .. N : q[k] = <<no, x>> /\ \A j \in 1 .. N : j > k => q[j][1] # no
    BY <1>4 DEF LastOf, N
  <2>2. t[k] = <<no, x>> /\ k \in 1 .. Len(t)
    BY <1>1, <1>2, <2>1
  <2>3. \A j \in 1 .. Len(t) : j > k => t[j][1] # no
    BY <1>1, <1>2, <1>4, <2>1
  <2> QED
    BY <2>2, <2>3 DEF LastOf
<1>5. ASSUME NEW no, no # r[1], NoneOf(q, no)
      PROVE  NoneOf(t, no)
  <2>1. \A k \in 1 .. N : q[k][1] # no
    BY <1>5 DEF NoneOf, N
  <2> QED
    BY <1>1, <1>2, <1>5, <2>1 DEF NoneOf
<1> QED
  BY <1>3, <1>4, <1>5 DEF Effective, t

\* ... reading one: nothing, ...
LEMMA EffectiveRead ==
    ASSUME NEW q \in Seq(Records), q # << >>, NEW mp, NEW no, NEW x, Effective(q, mp, no, x)
    PROVE  Effective(Tail(q),
                     {u \in mp : u[1] # Head(q)[1]} \cup (IF Head(q)[2] = NoMessage THEN {} ELSE {Head(q)}),
                     no, x)
<1> DEFINE t == Tail(q)
           N == Len(q)
           r == Head(q)
           mp2 == {u \in mp : u[1] # r[1]} \cup (IF r[2] = NoMessage THEN {} ELSE {r})
<1> HIDE DEF Records
<1>1. /\ N \in Nat /\ N >= 1 /\ r = q[1] /\ Len(t) = N - 1
      /\ \A k \in 1 .. N - 1 : t[k] = q[k + 1]
  OBVIOUS
<1> HIDE DEF t, N
<1>2. /\ \A k \in 1 .. N - 1 : k + 1 \in 1 .. N
      /\ \A k \in 1 .. N : k = 1 \/ (k - 1 \in 1 .. N - 1 /\ (k - 1) + 1 = k)
      /\ 1 \in 1 .. N
  BY <1>1
<1>3. ASSUME NoneOf(q, no), InMap(mp, no, x)
      PROVE  NoneOf(t, no) /\ InMap(mp2, no, x)
  <2>1. \A k \in 1 .. N : q[k][1] # no
    BY <1>3 DEF NoneOf, N
  <2>2. NoneOf(t, no)
    BY <1>1, <1>2, <2>1 DEF NoneOf
  <2>3. r[1] # no
    BY <1>1, <1>2, <2>1
  <2>4. \A u : u[1] = no => (u \in mp2 <=> u \in mp)
    <3> HIDE DEF r
    <3> QED
      BY <2>3
  <2> HIDE DEF mp2, r
  <2>5. InMap(mp2, no, x)
    BY <1>3, <2>4 DEF InMap
  <2> QED
    BY <2>2, <2>5
<1>4. ASSUME LastOf(q, no, x)
      PROVE  LastOf(t, no, x) \/ (NoneOf(t, no) /\ InMap(mp2, no, x))
  <2>1. PICK k \in 1 .. N : q[k] = <<no, x>> /\ \A j \in 1 .. N : j > k => q[j][1] # no
    BY <1>4 DEF LastOf, N
  <2>2. CASE k = 1
    <3>1. r = <<no, x>> /\ r[1] = no /\ r[2] = x
      BY <1>1, <2>1, <2>2
    <3>2. \A j \in 1 .. N - 1 : q[j + 1][1] # no
      <4>1. ASSUME NEW j \in 1 .. N - 1
            PROVE  q[j + 1][1] # no
        <5>1. j + 1 \in 1 .. N /\ j + 1 > 1
          BY <1>1
        <5> QED
          BY <2>1, <2>2, <5>1
      <4> QED
        BY <4>1
    <3>3. NoneOf(t, no)
      BY <1>1, <3>2 DEF NoneOf
    <3> HIDE DEF r
    <3>4. InMap(mp2, no, x)
      BY <3>1 DEF InMap
    <3> QED
      BY <3>3, <3>4
  <2>3. CASE k # 1
    <3> DEFINE i == k - 1
    <3>1. i \in 1 .. N - 1 /\ i + 1 = k
      BY <1>2, <2>3
    <3> HIDE DEF i
    <3>2. t[i] = <<no, x>> /\ i \in 1 .. Len(t)
      BY <1>1, <2>1, <3>1
    <3>3. ASSUME NEW j \in 1 .. Len(t), j > i
          PROVE  t[j][1] # no
      <4>1. j + 1 \in 1 .. N /\ j + 1 > k /\ j \in 1 .. N - 1
        BY <1>1, <3>1, <3>3
      <4> QED
        BY <1>1, <2>1, <4>1
    <3> QED
      BY <3>2, <3>3 DEF LastOf
  <2> QED
    BY <2>2, <2>3
<1>5. Effective(t, mp2, no, x)
  <2> HIDE DEF mp2, r
  <2> QED
    BY <1>3, <1>4 DEF Effective
<1> QED
  BY <1>5 DEF t

\* ... and deleting one from the map.
LEMMA EffectiveDrop ==
    ASSUME NEW q, NEW mp, NEW no, NEW x, NEW n0, Effective(q, mp, no, x)
    PROVE  /\ no # n0 => Effective(q, {u \in mp : u[1] # n0}, no, x)
           /\ no = n0 => \/ LastOf(q, no, x) /\ Effective(q, {u \in mp : u[1] # n0}, no, x)
                         \/ Effective(q, {u \in mp : u[1] # n0}, no, NoMessage)
<1> DEFINE mp2 == {u \in mp : u[1] # n0}
<1>1. CASE LastOf(q, no, x)
  BY <1>1 DEF Effective
<1>2. CASE NoneOf(q, no) /\ InMap(mp, no, x)
  <2>1. ASSUME no # n0
        PROVE  InMap(mp2, no, x)
    BY <1>2, <2>1 DEF InMap
  <2>2. ASSUME no = n0
        PROVE  InMap(mp2, no, NoMessage)
    BY <2>2 DEF InMap
  <2> HIDE DEF mp2
  <2>3. /\ no # n0 => Effective(q, mp2, no, x)
        /\ no = n0 => Effective(q, mp2, no, NoMessage)
    BY <1>2, <2>1, <2>2 DEF Effective
  <2> QED
    BY <2>3 DEF mp2
<1> QED
  BY <1>1, <1>2 DEF Effective

\* When the monitor stops reading, and what grows.
LEMMA MonitorMoves ==
    ASSUME TypeOK, [Next]_vars
    PROVE  /\ (monitor' \in Reading <=> monitor \in Reading) \/ Delay \/ DrainQuit
           /\ monitor' \in Reading => monitor \in Reading
           /\ quit => quit'
           /\ overtaken \subseteq overtaken'
<1>1. ASSUME NEW s \in Senders, SendBatch(s) \/ \E n \in 1 .. DequeueSize : Take(s, n) \/ Discard(s, n)
      PROVE  UNCHANGED <<monitor, quit, overtaken>>
  BY <1>1 DEF SendBatch, Ref, Record, Publish, PublishFailed, Undo, Judge, Unref, Look, Put, Take, Discard,
              mon, history
<1>2. ASSUME Monitor
      PROVE  /\ (monitor' \in Reading <=> monitor \in Reading) \/ Delay \/ DrainQuit
             /\ monitor' \in Reading => monitor \in Reading
             /\ quit' = quit
             /\ overtaken \subseteq overtaken'
  <2>1. CASE ReadRecord \/ ReadConfirm
    BY <2>1 DEF ReadRecord, ReadConfirm, history
  <2>2. CASE ReadClosed \/ MonitorEnd \/ ConfirmsEnd \/ CountFailed
    BY <2>2 DEF ReadClosed, MonitorEnd, ConfirmsEnd, CountFailed, history, Reading
  <2>3. CASE Delay \/ DrainQuit
    BY <2>3 DEF Delay, DrainQuit, history, Reading
  <2> QED
    BY <1>2, <2>1, <2>2, <2>3 DEF Monitor
<1>3. ASSUME Library \/ (\E n \in 1 .. Len(published) : Confirm(n)) \/ ShutdownBegin \/ Heartbeat
             \/ UNCHANGED vars
      PROVE  UNCHANGED <<monitor, quit, overtaken>>
  BY <1>3 DEF Library, Deliver, ShutdownLock, ShutdownEnd, Confirm, ShutdownBegin, Heartbeat, mon, history,
              vars
<1>4. ASSUME Quit
      PROVE  quit' = TRUE /\ UNCHANGED <<monitor, overtaken>>
  BY <1>4 DEF Quit, mon, history
<1>5. Monitor \/ Quit \/ UNCHANGED <<monitor, quit, overtaken>>
  BY <1>1, <1>3 DEF Next
<1>6. quit => quit'
  BY <1>2, <1>4, <1>5, Zenon
<1>7. /\ (monitor' \in Reading <=> monitor \in Reading) \/ Delay \/ DrainQuit
      /\ monitor' \in Reading => monitor \in Reading
      /\ overtaken \subseteq overtaken'
  BY <1>2, <1>4, <1>5
<1> QED
  BY <1>6, <1>7

LEMMA FlyingOf ==
    ASSUME TypeOK, OwnerInv, NEW s \in Senders,
           SendBatch(s) \/ \E n \in 1 .. DequeueSize : Take(s, n)
    PROVE  /\ Flying = IF sender[s] \in {"publish", "undo"} THEN {s} ELSE {}
           /\ Flying' = IF sender'[s] \in {"publish", "undo"} THEN {s} ELSE {}
<1>1. \A r \in Senders \ {s} : sender[r] = "idle" /\ sender'[r] = "idle"
  BY MovesAlone
<1> QED
  BY <1>1 DEF Flying

\* The record of a tag stays right if nothing it depends on changes.
LEMMA RightStays ==
    ASSUME published' = published, Confirmed' = Confirmed, overtaken \subseteq overtaken',
           monitor' \in Reading <=> monitor \in Reading, NEW no, NEW x, Right(no, x),
           \/ no # Len(published) + 1
           \/ monitor \notin Reading
           \/ Flying' = Flying /\ \A s \in Flying : Current(s)' = Current(s)
    PROVE  Right(no, x)'
<1>1. CASE no # Len(published) + 1
  BY <1>1 DEF Right
<1>2. CASE monitor \notin Reading
  BY <1>2 DEF Right
<1>3. CASE Flying' = Flying /\ \A s \in Flying : Current(s)' = Current(s)
  <2>1. ASSUME NEW s \in Flying, x = Current(s)
        PROVE  \E r \in Flying' : x = Current(r)'
    BY <1>3, <2>1
  <2> QED
    BY <1>3, <2>1 DEF Right
<1> QED
  BY <1>1, <1>2, <1>3

\* The steps that change neither the records nor what they are about.
LEMMA QuietSender ==
    ASSUME TypeOK, OwnerInv, NEW s \in Senders,
           \/ \E n \in 1 .. DequeueSize : Take(s, n)
           \/ Ref(s) \/ PublishFailed(s) \/ Judge(s) \/ Unref(s) \/ Look(s) \/ Put(s)
    PROVE  /\ UNCHANGED <<published, publishedCh, publishedMp, monitor, quit, overtaken, Confirmed>>
           /\ Flying' = Flying /\ \A r \in Flying : Current(r)' = Current(r)
<1>0. sender \in [Senders -> {"idle", "taken", "record", "publish", "undo", "judge",
                              "unref", "look", "put"}]
  BY DEF TypeOK
<1>1. UNCHANGED <<published, publishedCh, publishedMp, monitor, quit, overtaken, expecting, confirmCh>>
  BY DEF Take, Ref, PublishFailed, Judge, Unref, Look, Put, mon, lib, history
<1>2. SendBatch(s) \/ \E n \in 1 .. DequeueSize : Take(s, n)
  BY DEF SendBatch
<1>3. CASE PublishFailed(s)
  <2>1. sender[s] = "publish" /\ sender'[s] = "undo" /\ UNCHANGED <<batch, at>>
    BY <1>0, <1>3 DEF PublishFailed, work
  <2>2. Flying' = Flying
    BY <1>2, <2>1, FlyingOf
  <2> QED
    BY <1>1, <2>1, <2>2 DEF Current, Confirmed
<1>4. CASE ~PublishFailed(s)
  <2>1. sender[s] \notin {"publish", "undo"}
    BY <1>4 DEF Take, NewBatch, Ref, Judge, Unref, Look, Put
  <2>2. sender'[s] \notin {"publish", "undo"}
    BY <1>0, <1>4 DEF Take, Ref, Judge, NextMessage, Unref, Look, Put, Return
  <2>3. Flying' = {} /\ Flying = {}
    BY <1>2, <2>1, <2>2, FlyingOf
  <2> QED
    BY <1>1, <2>3 DEF Confirmed
<1> QED
  BY <1>3, <1>4

LEMMA QuietOther ==
    ASSUME TypeOK, Others, ~ReadRecord, ~ReadConfirm
    PROVE  /\ UNCHANGED <<published, publishedCh, publishedMp, Confirmed>>
           /\ Flying' = Flying /\ \A r \in Flying : Current(r)' = Current(r)
<1>1. UNCHANGED <<sender, batch, at, published>>
  BY OthersLeave
<1>2. UNCHANGED <<publishedCh, publishedMp>>
  <2>1. ASSUME NEW s \in Senders, NEW n \in 1 .. DequeueSize, Discard(s, n)
        PROVE  UNCHANGED <<publishedCh, publishedMp>>
    BY <2>1 DEF Discard, mon
  <2>2. ASSUME Monitor
        PROVE  UNCHANGED <<publishedCh, publishedMp>>
    BY <2>2 DEF Monitor, ReadClosed, MonitorEnd, Delay, DrainQuit, ConfirmsEnd, CountFailed
  <2>3. ASSUME Library \/ (\E n \in 1 .. Len(published) : Confirm(n)) \/ ShutdownBegin \/ Heartbeat \/ Quit
               \/ UNCHANGED vars
        PROVE  UNCHANGED <<publishedCh, publishedMp>>
    BY <2>3 DEF Library, Deliver, ShutdownLock, ShutdownEnd, Confirm, ShutdownBegin, Heartbeat, Quit, mon, vars
  <2> QED
    BY <2>1, <2>2, <2>3 DEF Others
<1>3. Confirmed' = Confirmed
  <2>1. CASE Deliver
    <3>1. /\ expecting \in 1 .. Len(published) + 1 /\ Len(published) \in Nat
          /\ confirmCh \in Seq(1 .. Len(published))
      BY DEF TypeOK
    <3>2. confirmCh' = Append(confirmCh, expecting) /\ expecting' = expecting + 1
      BY <2>1 DEF Deliver
    <3>3. Len(confirmCh') = Len(confirmCh) + 1 /\ Len(confirmCh) \in Nat
      BY <3>1, <3>2
    <3> QED
      BY <3>1, <3>2, <3>3 DEF Confirmed
  <2>2. CASE ~Deliver
    <3>1. ASSUME NEW s \in Senders, NEW n \in 1 .. DequeueSize, Discard(s, n)
          PROVE  UNCHANGED <<expecting, confirmCh>>
      BY <3>1 DEF Discard, lib
    <3>2. ASSUME Monitor
          PROVE  UNCHANGED <<expecting, confirmCh>>
      BY <3>2 DEF Monitor, ReadClosed, MonitorEnd, Delay, DrainQuit, ConfirmsEnd, CountFailed, lib
    <3>3. ASSUME Library \/ (\E n \in 1 .. Len(published) : Confirm(n)) \/ ShutdownBegin \/ Heartbeat \/ Quit
                 \/ UNCHANGED vars
          PROVE  UNCHANGED <<expecting, confirmCh>>
      BY <2>2, <3>3 DEF Library, ShutdownLock, ShutdownEnd, Confirm, ShutdownBegin, Heartbeat, Quit, lib, vars
    <3> QED
      BY <3>1, <3>2, <3>3 DEF Others, Confirmed
  <2> QED
    BY <2>1, <2>2
<1> QED
  BY <1>1, <1>2, <1>3 DEF Flying, Current

LEMMA EffectiveStep ==
    ASSUME PublishInv, [Next]_vars
    PROVE  EffectiveInv'
<1>t. TypeOK /\ OwnerInv /\ BatchInv /\ ConfirmInv /\ ClosedInv /\ RecordInv /\ EffectiveInv
  BY DEF PublishInv
<1> DEFINE S == IF monitor' \in Reading THEN publishedCh' ELSE << >>
           N == Len(published)
<1> SUFFICES ASSUME monitor' \in Reading \/ ~quit', NEW no \in Nat \ {0}
             PROVE  \E x \in Messages \cup {NoMessage} : Effective(S, publishedMp', no, x) /\ Right(no, x)'
  BY DEF EffectiveInv, Stream
<1>g. monitor \in Reading \/ ~quit
  BY <1>t, MonitorMoves
<1>p. PICK x \in Messages \cup {NoMessage} : Effective(Stream, publishedMp, no, x) /\ Right(no, x)
  BY <1>t, <1>g DEF EffectiveInv
<1>o. overtaken \subseteq overtaken'
  BY <1>t, MonitorMoves
<1>n. N \in Nat /\ Confirmed \in Nat /\ Confirmed <= N /\ publishedCh \in Seq(Records)
  BY <1>t, QueueTypes, ConfirmTypes
<1> DEFINE Goal == \E y \in Messages \cup {NoMessage} : Effective(S, publishedMp', no, y) /\ Right(no, y)'
<1> SUFFICES Goal
  OBVIOUS
<1>1. ASSUME UNCHANGED <<published, publishedCh, publishedMp, Confirmed>>, Flying' = Flying,
             \A r \in Flying : Current(r)' = Current(r), monitor' \in Reading <=> monitor \in Reading
      PROVE  Goal
  <2>1. Right(no, x)'
    BY <1>p, <1>o, <1>1, RightStays
  <2>2. S = Stream /\ publishedMp' = publishedMp
    BY <1>1 DEF Stream
  <2> QED
    BY <1>p, <2>1, <2>2
<1>2. ASSUME NEW s \in Senders,
             \/ \E n \in 1 .. DequeueSize : Take(s, n)
             \/ Ref(s) \/ PublishFailed(s) \/ Judge(s) \/ Unref(s) \/ Look(s) \/ Put(s)
      PROVE  Goal
  <2>1. /\ UNCHANGED <<published, publishedCh, publishedMp, monitor, quit, overtaken, Confirmed>>
        /\ Flying' = Flying /\ \A r \in Flying : Current(r)' = Current(r)
    BY <1>t, <1>2, QuietSender
  <2> HIDE DEF Goal
  <2> QED
    BY <1>1, <2>1
<1>3. CASE Delay
  <2>1. monitor = "drain" /\ monitor' = "confirms" /\ refCount = 0 /\ publishedCh = << >>
        /\ publishedCh' = publishedCh /\ publishedMp' = publishedMp /\ UNCHANGED <<published, expecting, confirmCh>>
    BY <1>3 DEF Delay, lib
  <2>2. Flying = {}
    BY <1>t, <2>1 DEF OwnerInv, Referring, Flying
  <2>3. S = << >> /\ Stream = << >>
    BY <2>1 DEF Stream, Reading
  <2>4. monitor' \notin Reading /\ Confirmed' = Confirmed
    BY <2>1 DEF Reading, Confirmed
  <2>5. Right(no, x)'
    BY <1>p, <1>o, <2>1, <2>2, <2>4 DEF Right
  <2> QED
    BY <1>p, <2>1, <2>3, <2>5
<1>4. CASE DrainQuit
  <2>1. quit /\ quit' = quit /\ monitor' = "count"
    BY <1>4 DEF DrainQuit
  <2> QED
    BY <2>1 DEF Reading
<1>5. CASE Others /\ ~ReadRecord /\ ~ReadConfirm /\ ~Delay /\ ~DrainQuit
  <2>1. monitor' \in Reading <=> monitor \in Reading
    BY <1>t, <1>5, MonitorMoves
  <2>2. /\ UNCHANGED <<published, publishedCh, publishedMp, Confirmed>>
        /\ Flying' = Flying /\ \A r \in Flying : Current(r)' = Current(r)
    BY <1>t, <1>5, QuietOther
  <2> HIDE DEF Goal
  <2> QED
    BY <1>1, <2>1, <2>2
<1>6. ASSUME NEW s \in Senders, Record(s) \/ Undo(s)
      PROVE  Goal
  <2>1. /\ UNCHANGED <<published, publishedMp, monitor, expecting, confirmCh, batch, at>>
        /\ sender[s] \in Sending
    BY <1>6 DEF Record, Undo, mon, lib, work, Sending
  <2>2. Confirmed' = Confirmed
    BY <2>1 DEF Confirmed
  <2>3. CASE monitor \notin Reading
    <3>1. Right(no, x)'
      BY <1>p, <1>o, <2>1, <2>2, <2>3, RightStays
    <3>2. S = Stream
      BY <2>1, <2>3 DEF Stream
    <3> QED
      BY <1>p, <2>1, <3>1, <3>2
  <2>4. CASE monitor \in Reading
    <3> DEFINE y == IF sender[s] = "record" THEN Current(s) ELSE NoMessage
    <3>1. publishedCh' = Append(publishedCh, <<N + 1, y>>)
      BY <1>6 DEF Record, Undo
    <3>2. y \in Messages \cup {NoMessage}
      BY <1>t, <2>1, CurrentType
    <3>3. PICK r \in Records : r = <<N + 1, y>> /\ r[1] = N + 1 /\ r = <<r[1], y>>
      <4>1. N + 1 \in Nat /\ N + 1 >= 1
        BY <1>n
      <4> QED
        BY <3>2, <4>1, RecordTypes
    <3>4. Stream = publishedCh /\ S = Append(publishedCh, r)
      BY <2>1, <2>4, <3>1, <3>3 DEF Stream
    <3>5. CASE no # N + 1
      <4>1. Effective(S, publishedMp, no, x)
        BY <1>n, <1>p, <3>3, <3>4, <3>5, EffectiveAppend
      <4>2. Right(no, x)'
        BY <1>p, <1>o, <2>1, <2>2, <3>5, RightStays
      <4> QED
        BY <1>p, <2>1, <4>1, <4>2
    <3>6. CASE no = N + 1
      <4>1. PICK z \in Messages \cup {NoMessage} : z = y
        BY <3>2
      <4>2. Effective(S, publishedMp, no, z)
        BY <1>n, <3>3, <3>4, <3>6, <4>1, EffectiveAppend
      <4>3. Flying' = IF sender'[s] \in {"publish", "undo"} THEN {s} ELSE {}
        BY <1>t, <1>6, FlyingOf DEF SendBatch
      <4>4. Right(no, z)'
        <5>1. CASE Record(s)
          <6>1. sender[s] = "record" /\ sender'[s] = "publish"
            BY <1>t, <5>1 DEF Record, TypeOK
          <6>2. s \in Flying' /\ z = Current(s)'
            BY <2>1, <4>1, <4>3, <6>1 DEF Current
          <6> QED
            BY <2>1, <2>4, <3>6, <6>2 DEF Right
        <5>2. CASE Undo(s)
          <6>1. sender[s] = "undo" /\ sender'[s] = "judge"
            BY <1>t, <5>2 DEF Undo, TypeOK
          <6>2. Flying' = {} /\ z = NoMessage
            BY <4>1, <4>3, <6>1
          <6>3. no > Len(published')
            BY <1>n, <2>1, <3>6
          <6> QED
            BY <6>2, <6>3 DEF Right
        <5> QED
          BY <1>6, <5>1, <5>2
      <4> QED
        BY <2>1, <4>2, <4>4
    <3> QED
      BY <3>5, <3>6
  <2> QED
    BY <2>3, <2>4
<1>7. ASSUME NEW s \in Senders, Publish(s)
      PROVE  Goal
  <2>1. /\ UNCHANGED <<publishedCh, publishedMp, monitor, expecting, confirmCh>> /\ ~IsClosed
        /\ sender[s] = "publish"
    BY <1>7 DEF Publish, mon
  <2>2. monitor = "run" /\ monitor \in Reading
    BY <1>t, <2>1 DEF ClosedInv, IsClosed, Reading
  <2>3. Confirmed' = Confirmed /\ S = Stream
    BY <2>1 DEF Confirmed, Stream
  <2>4. /\ Len(published') = N + 1 /\ published'[N + 1] = Current(s) /\ NextMessage(s)
        /\ \A i \in 1 .. N : published'[i] = published[i]
    BY <1>t, <1>7, PublishFacts
  <2>5. sender'[s] \in {"record", "unref"}
    BY <1>t, <2>4 DEF NextMessage, TypeOK
  <2>6. Flying = {s} /\ Flying' = {}
    BY <1>t, <1>7, <2>1, <2>5, FlyingOf DEF SendBatch
  <2>7. Right(no, x)'
    <3>1. CASE no <= N
      <4>1. no \in 1 .. N /\ published'[no] = published[no] /\ no <= Len(published')
        BY <1>n, <2>4, <3>1
      <4>2. \/ x = published[no] /\ (no <= Confirmed => x \in overtaken)
            \/ no <= Confirmed /\ x = NoMessage
        BY <1>n, <1>p, <3>1 DEF Right
      <4> QED
        BY <1>o, <2>3, <4>1, <4>2 DEF Right
    <3>2. CASE no = N + 1
      <4>1. ~(no <= N) /\ ~(no <= Confirmed)
        BY <1>n, <3>2
      <4>2. x = Current(s)
        BY <1>p, <2>2, <2>6, <3>2, <4>1 DEF Right
      <4>3. no <= Len(published') /\ x = published'[no] /\ ~(no <= Confirmed')
        BY <1>n, <2>3, <2>4, <3>2, <4>1, <4>2
      <4> QED
        BY <4>3 DEF Right
    <3>3. CASE no > N + 1
      <4>1. ~(no <= N) /\ ~(no <= Confirmed) /\ no # N + 1 /\ no > Len(published')
        BY <1>n, <2>4, <3>3
      <4>2. x = NoMessage
        BY <1>p, <4>1 DEF Right
      <4> QED
        BY <2>6, <4>1, <4>2 DEF Right
    <3> QED
      BY <1>n, <3>1, <3>2, <3>3
  <2> QED
    BY <1>p, <2>1, <2>3, <2>7
<1>8. CASE ReadRecord
  <2>1. /\ monitor \in Reading /\ monitor' = monitor /\ publishedCh # << >> /\ publishedCh' = Tail(publishedCh)
        /\ publishedMp' = {u \in publishedMp : u[1] # Head(publishedCh)[1]}
                          \cup (IF Head(publishedCh)[2] = NoMessage THEN {} ELSE {Head(publishedCh)})
        /\ UNCHANGED <<sender, batch, at, published, expecting, confirmCh>>
    BY <1>8 DEF ReadRecord, Unrecord, Reading, snd, work, lib
  <2>2. Stream = publishedCh /\ S = Tail(publishedCh)
    BY <2>1 DEF Stream
  <2>3. Effective(S, publishedMp', no, x)
    BY <1>n, <1>p, <2>1, <2>2, EffectiveRead
  <2>4. Flying' = Flying /\ (\A s \in Flying : Current(s)' = Current(s)) /\ Confirmed' = Confirmed
    BY <2>1 DEF Flying, Current, Confirmed
  <2>5. Right(no, x)'
    BY <1>p, <1>o, <2>1, <2>4, RightStays
  <2> QED
    BY <1>p, <2>3, <2>5
<1>9. CASE ReadConfirm
  <2> DEFINE n0 == Confirmed + 1
  <2>1. /\ confirmCh # << >> /\ monitor' = monitor /\ publishedCh' = publishedCh
        /\ UNCHANGED <<sender, batch, at, published>>
        /\ overtaken' = IF <<Head(confirmCh), published[Head(confirmCh)]>> \in publishedMp THEN overtaken
                        ELSE overtaken \cup {published[Head(confirmCh)]}
        /\ publishedMp' = {u \in publishedMp : u[1] # Head(confirmCh)}
    BY <1>9 DEF ReadConfirm, Unrecord, snd, work, lib
  <2>2. Head(confirmCh) = n0 /\ n0 \in 1 .. N /\ Confirmed' = n0
    BY <1>t, <1>9, <2>1, ConfirmTypes, ConfirmedMoves
  <2>3. S = Stream /\ publishedMp' = {u \in publishedMp : u[1] # n0}
    BY <2>1, <2>2 DEF Stream
  <2>4. Flying' = Flying /\ \A s \in Flying : Current(s)' = Current(s)
    BY <2>1 DEF Flying, Current
  <2>n. n0 \in Nat /\ n0 = Confirmed + 1
    BY <1>n
  <2> HIDE DEF n0
  <2>5. CASE no # n0
    <3>0. Effective(Stream, {u \in publishedMp : u[1] # n0}, no, x)
      <4>1. Effective(Stream, publishedMp, no, x) /\ no # n0
        BY <1>p, <2>5
      <4> HIDE DEF S, Goal, N
      <4> QED
        BY <4>1 DEF Effective, InMap
    <3> HIDE DEF S
    <3>1. Effective(S, publishedMp', no, x)
      BY <2>3, <3>0
    <3>2. no <= Confirmed' <=> no <= Confirmed
      BY <1>n, <2>2, <2>n, <2>5
    <3>3. Right(no, x)'
      <4>1. ASSUME NEW s \in Flying, x = Current(s)
            PROVE  \E r \in Flying' : x = Current(r)'
        BY <2>4, <4>1
      <4> QED
        BY <1>p, <1>o, <2>1, <2>4, <3>2, <4>1 DEF Right
    <3> QED
      BY <1>p, <3>1, <3>3
  <2>6. CASE no = n0
    <3>1. no <= N /\ no > Confirmed /\ no <= Confirmed'
      BY <1>n, <2>2, <2>n, <2>6
    <3>2. x = published[no] /\ x \in Messages /\ x # NoMessage
      <4>1. x = published[no]
        BY <1>n, <1>p, <3>1 DEF Right
      <4> QED
        BY <1>t, <2>2, <2>6, <4>1, PublishedTypes, Constants
    <3>3. CASE LastOf(Stream, no, x) /\ Effective(Stream, {u \in publishedMp : u[1] # n0}, no, x)
      <4>1. PICK k \in 1 .. Len(Stream) : Stream[k] = <<no, x>>
        BY <3>3 DEF LastOf
      <4>2. Stream = publishedCh
        BY <4>1 DEF Stream
      <4>3. k \in 1 .. Len(publishedCh) /\ publishedCh[k] = <<no, x>>
        BY <4>1, <4>2
      <4>4. publishedCh[k][2] # NoMessage
        BY <3>2, <4>3
      <4>5. <<no, x>> \notin publishedMp
        BY <1>t, <4>3, <4>4 DEF RecordInv
      <4>6. x \in overtaken'
        BY <2>1, <2>2, <2>6, <3>2, <4>5
      <4>7. Right(no, x)'
        BY <2>1, <3>1, <3>2, <4>6 DEF Right
      <4> QED
        BY <1>p, <2>3, <3>3, <4>7
    <3>4. CASE Effective(Stream, {u \in publishedMp : u[1] # n0}, no, NoMessage)
      <4>1. Right(no, NoMessage)'
        BY <3>1 DEF Right
      <4> QED
        BY <2>3, <3>4, <4>1
    <3> QED
      BY <1>p, <2>6, <3>3, <3>4, EffectiveDrop
  <2> QED
    BY <2>5, <2>6
<1> HIDE DEF Goal
<1>10. CASE Others
  BY <1>3, <1>4, <1>5, <1>8, <1>9, <1>10
<1>11. ASSUME NEW s \in Senders, SendBatch(s) \/ \E n \in 1 .. DequeueSize : Take(s, n)
       PROVE  Goal
  BY <1>2, <1>6, <1>7, <1>11 DEF SendBatch
<1> QED
  BY <1>10, <1>11, StepKinds

-----------------------------------------------------------------------------
(***************************************************************************)
(* The metrics.                                                            *)
(***************************************************************************)
\* Who has a message pending got it with a batch.
LEMMA PendingIssued ==
    ASSUME TypeOK, BatchInv, NEW m \in Messages, Pending(m)
    PROVE  m \in issued
<1>1. PICK s \in Senders : sender[s] \in Sending /\ m[1] = batch[s] /\ m[2] \in at[s] .. count[s]
  BY DEF Pending
<1>2. sender[s] # "idle" /\ at[s] \in Nat /\ at[s] >= 1 /\ count[s] \in Nat
  BY <1>1, SenderTypes DEF Sending
<1>3. m[2] \in 1 .. count[s]
  BY <1>1, <1>2
<1>4. <<batch[s], m[2]>> \in issued
  BY <1>2, <1>3 DEF BatchInv
<1>5. m = <<m[1], m[2]>>
  BY Constants
<1> QED
  BY <1>1, <1>4, <1>5

\* A step keeps the counts if it counts what it settles.
LEMMA CountFrom ==
    ASSUME TypeOK, CountInv, monitor' = "gone" <=> monitor = "gone", quit => quit',
           overtaken \subseteq overtaken',
           \A m \in Messages :
              \/ /\ counted'[m] = counted[m] /\ (Settled(m)' <=> Settled(m))
                 /\ monitor = "gone" => (Done(m)' <=> Done(m))
              \/ /\ counted'[m] = counted[m] + 1 /\ ~Settled(m) /\ Settled(m)'
                 /\ monitor = "gone" => ~Done(m)
    PROVE  CountInv'
<1>0. \A m \in Messages : counted[m] \in Nat
  BY DEF TypeOK
<1>1. ASSUME monitor' # "gone", NEW m \in Messages
      PROVE  counted'[m] = IF Settled(m)' THEN 1 ELSE 0
  <2>1. counted[m] = IF Settled(m) THEN 1 ELSE 0
    BY <1>1 DEF CountInv
  <2> QED
    BY <2>1
<1>2. ASSUME monitor' = "gone", ~quit', NEW m \in Messages
      PROVE  /\ ~Done(m)' => counted'[m] = 0
             /\ Done(m)' => counted'[m] >= 1 /\ (m \in overtaken' \/ counted'[m] = 1)
  <2>0. monitor = "gone" /\ ~quit
    BY <1>2
  <2>1. /\ ~Done(m) => counted[m] = 0
        /\ Done(m) => counted[m] >= 1 /\ (m \in overtaken \/ counted[m] = 1)
    BY <2>0 DEF CountInv
  <2>2. Settled(m)' => Done(m)'
    BY DEF Settled
  <2>3. CASE counted'[m] = counted[m] /\ (Done(m)' <=> Done(m))
    BY <2>1, <2>3
  <2>4. CASE counted'[m] = counted[m] + 1 /\ ~Done(m) /\ Done(m)'
    BY <2>1, <2>4
  <2> QED
    BY <2>0, <2>2, <2>3, <2>4
<1> QED
  BY <1>1, <1>2 DEF CountInv

\* What counts nothing and settles nothing.
LEMMA CountQuiet ==
    ASSUME TypeOK, OwnerInv, BatchInv, ConfirmInv, CountInv, [Next]_vars,
           UNCHANGED <<counted, issued, published>>, ~ReadConfirm,
           monitor' = "gone" <=> monitor = "gone",
           \/ Others
           \/ \E s \in Senders : \/ Ref(s) \/ Record(s) \/ PublishFailed(s) \/ Undo(s) \/ Unref(s)
                                 \/ Look(s) \/ Put(s)
    PROVE  CountInv'
<1>1. Confirmed' = Confirmed /\ (quit => quit') /\ overtaken \subseteq overtaken'
  BY ConfirmedMoves, MonitorMoves
<1>2. ASSUME NEW m \in Messages
      PROVE  (Done(m)' <=> Done(m)) /\ (Settled(m)' <=> Settled(m))
  <2>1. Pending(m)' <=> Pending(m)
    BY PendingStays
  <2>2. Done(m)' <=> Done(m)
    BY <2>1 DEF Done
  <2> QED
    BY <1>1, <2>2 DEF Settled
<1> QED
  BY <1>1, <1>2, CountFrom

LEMMA DiscardCounts ==
    ASSUME PublishInv, [Next]_vars, NEW s \in Senders, NEW n \in 1 .. DequeueSize, Discard(s, n)
    PROVE  CountInv'
<1>t. TypeOK /\ OwnerInv /\ BatchInv /\ PublishedInv /\ ConfirmInv /\ CountInv
  BY DEF PublishInv
<1>1. /\ NewBatch(s, n) /\ UNCHANGED <<monitor, published, expecting, confirmCh, quit, overtaken>>
      /\ counted' = [m \in Messages |-> IF m \in issued' \ issued THEN counted[m] + 1 ELSE counted[m]]
  BY DEF Discard, mon, lib
<1>2. issued \subseteq issued'
  BY <1>t, IssuedGrows
<1>3. Confirmed' = Confirmed
  BY <1>1 DEF Confirmed
<1>4. Others
  BY DEF Others
<1>5. ASSUME NEW m \in Messages
      PROVE  \/ /\ counted'[m] = counted[m] /\ (Settled(m)' <=> Settled(m))
                /\ monitor = "gone" => (Done(m)' <=> Done(m))
             \/ /\ counted'[m] = counted[m] + 1 /\ ~Settled(m) /\ Settled(m)'
                /\ monitor = "gone" => ~Done(m)
  <2>1. Pending(m)' <=> Pending(m)
    BY <1>t, <1>4, PendingStays
  <2>2. CASE m \in issued' \ issued
    <3>1. counted'[m] = counted[m] + 1
      BY <1>1, <2>2
    <3>2. ~Done(m) /\ ~Settled(m)
      BY <2>2 DEF Settled, Done
    <3>3. Done(m)'
      BY <1>t, <2>1, <2>2, PendingIssued DEF Done
    <3>4. \A no \in 1 .. Len(published) : published[no] # m
      BY <1>t, <2>2 DEF PublishedInv
    <3>5. Settled(m)'
      BY <1>1, <3>3, <3>4 DEF Settled
    <3> QED
      BY <3>1, <3>2, <3>5
  <2>3. CASE m \notin issued' \ issued
    <3>1. counted'[m] = counted[m]
      BY <1>1, <2>3
    <3>2. Done(m)' <=> Done(m)
      BY <1>2, <2>1, <2>3 DEF Done
    <3>3. Settled(m)' <=> Settled(m)
      BY <1>1, <1>3, <3>2 DEF Settled
    <3> QED
      BY <3>1, <3>2, <3>3
  <2> QED
    BY <2>2, <2>3
<1> QED
  BY <1>t, <1>1, <1>5, CountFrom

LEMMA TakeCounts ==
    ASSUME PublishInv, [Next]_vars, NEW s \in Senders, NEW n \in 1 .. DequeueSize, Take(s, n)
    PROVE  CountInv'
<1>t. TypeOK /\ OwnerInv /\ BatchInv /\ PublishedInv /\ ConfirmInv /\ CountInv
  BY DEF PublishInv
<1>1. UNCHANGED <<monitor, published, expecting, confirmCh, quit, overtaken, counted>>
  BY DEF Take, mon, lib, history
<1>2. issued \subseteq issued'
  BY <1>t, IssuedGrows
<1>3. Confirmed' = Confirmed
  BY <1>1 DEF Confirmed
<1>4. ASSUME NEW m \in Messages
      PROVE  (Done(m)' <=> Done(m)) /\ (Settled(m)' <=> Settled(m))
  <2>1. ~Pending(m) /\ (Pending(m)' <=> m \in issued' \ issued)
    BY <1>t, PendingTake
  <2>2. Done(m)' <=> Done(m)
    BY <1>2, <2>1 DEF Done
  <2> QED
    BY <1>1, <1>3, <2>2 DEF Settled
<1> QED
  BY <1>t, <1>1, <1>4, CountFrom

\* A message that is published is not settled: its confirm is to come.
LEMMA PublishCounts ==
    ASSUME PublishInv, [Next]_vars, NEW s \in Senders, Publish(s)
    PROVE  CountInv'
<1>t. TypeOK /\ OwnerInv /\ BatchInv /\ PublishedInv /\ ConfirmInv /\ ClosedInv /\ CountInv
  BY DEF PublishInv
<1> DEFINE N == Len(published)
<1>1. UNCHANGED <<monitor, issued, expecting, confirmCh, quit, overtaken, counted>> /\ ~IsClosed
  BY DEF Publish, mon, history
<1>2. monitor # "gone"
  BY <1>t, <1>1 DEF ClosedInv, IsClosed
<1>3. Confirmed' = Confirmed /\ Confirmed \in Nat /\ Confirmed <= N
  BY <1>t, <1>1, ConfirmTypes DEF Confirmed
<1>4. /\ N \in Nat /\ Len(published') = N + 1 /\ published'[N + 1] = Current(s)
      /\ \A i \in 1 .. N : published'[i] = published[i]
      /\ Current(s) \in Messages
      /\ SendBatch(s) /\ sender[s] \in Sending /\ NextMessage(s) /\ UNCHANGED <<batch, count>>
  BY <1>t, PublishFacts
<1>5. ASSUME NEW m \in Messages
      PROVE  Settled(m)' <=> Settled(m)
  <2>1. (Pending(m)' <=> Pending(m) /\ m # Current(s)) /\ Pending(Current(s))
    BY <1>t, <1>4, PendingNext
  <2>2. CASE m = Current(s)
    <3>1. Pending(m) /\ ~Settled(m)
      BY <2>1, <2>2 DEF Settled, Done
    <3>2. N + 1 \in 1 .. Len(published') /\ published'[N + 1] = m /\ ~(N + 1 <= Confirmed')
      BY <1>3, <1>4, <2>2
    <3>3. ~Settled(m)'
      BY <3>2 DEF Settled
    <3> QED
      BY <3>1, <3>3
  <2>3. CASE m # Current(s)
    <3>1. Done(m)' <=> Done(m)
      BY <1>1, <2>1, <2>3 DEF Done
    <3> HIDE DEF N
    <3>2. \A no \in 1 .. N + 1 : no \in 1 .. N \/ no = N + 1
      BY <1>4
    <3>3. \A no \in 1 .. N : no \in 1 .. N + 1
      BY <1>4
    <3>4. (\A no \in 1 .. Len(published') : published'[no] = m => no <= Confirmed')
          <=> (\A no \in 1 .. N : published[no] = m => no <= Confirmed)
      BY <1>3, <1>4, <2>3, <3>2, <3>3
    <3> QED
      BY <3>1, <3>4 DEF Settled, N
  <2> QED
    BY <2>2, <2>3
<1> QED
  BY <1>t, <1>1, <1>2, <1>5, CountFrom

\* What has failed is counted.
LEMMA JudgeCounts ==
    ASSUME PublishInv, [Next]_vars, NEW s \in Senders, Judge(s)
    PROVE  CountInv'
<1>t. TypeOK /\ OwnerInv /\ BatchInv /\ PublishedInv /\ ConfirmInv /\ CountInv
  BY DEF PublishInv
<1>1. UNCHANGED <<monitor, issued, published, expecting, confirmCh, quit, overtaken, batch, count>>
      /\ sender[s] \in Sending /\ SendBatch(s)
  BY DEF Judge, mon, lib, SendBatch, Sending
<1>2. Confirmed' = Confirmed
  BY <1>1 DEF Confirmed
<1>3. ASSUME NEW m \in Messages
      PROVE  \/ counted'[m] = counted[m] /\ (Pending(m)' <=> Pending(m))
             \/ counted'[m] = counted[m] + 1 /\ Pending(m) /\ ~Pending(m)'
  <2>0. counted \in [Messages -> Nat]
    BY <1>t DEF TypeOK
  <2>1. CASE IsClosed
    <3>1. counted'[m] = IF m[1] = batch[s] /\ m[2] \in at[s] .. count[s] THEN counted[m] + 1 ELSE counted[m]
      BY <2>1 DEF Judge
    <3>2. (Pending(m) <=> m[1] = batch[s] /\ m[2] \in at[s] .. count[s]) /\ ~Pending(m)'
      BY <1>t, <2>1, PendingFailed
    <3> QED
      BY <3>1, <3>2
  <2>2. CASE ~IsClosed
    <3>1. NextMessage(s) /\ counted' = [counted EXCEPT ![Current(s)] = counted[Current(s)] + 1]
      BY <2>2 DEF Judge
    <3>2. (Pending(m)' <=> Pending(m) /\ m # Current(s)) /\ Pending(Current(s))
      BY <1>t, <1>1, <3>1, PendingNext
    <3>3. CASE m = Current(s)
      BY <2>0, <3>1, <3>2, <3>3
    <3>4. CASE m # Current(s)
      BY <2>0, <3>1, <3>2, <3>4
    <3> QED
      BY <3>3, <3>4
  <2> QED
    BY <2>1, <2>2
<1>4. ASSUME NEW m \in Messages
      PROVE  \/ /\ counted'[m] = counted[m] /\ (Settled(m)' <=> Settled(m))
                /\ monitor = "gone" => (Done(m)' <=> Done(m))
             \/ /\ counted'[m] = counted[m] + 1 /\ ~Settled(m) /\ Settled(m)'
                /\ monitor = "gone" => ~Done(m)
  <2>1. CASE counted'[m] = counted[m] /\ (Pending(m)' <=> Pending(m))
    <3>1. Done(m)' <=> Done(m)
      BY <1>1, <2>1 DEF Done
    <3>2. Settled(m)' <=> Settled(m)
      BY <1>1, <1>2, <3>1 DEF Settled
    <3> QED
      BY <2>1, <3>1, <3>2
  <2>2. CASE counted'[m] = counted[m] + 1 /\ Pending(m) /\ ~Pending(m)'
    <3>1. ~Done(m) /\ ~Settled(m)
      BY <2>2 DEF Done, Settled
    <3>2. Done(m)'
      BY <1>t, <1>1, <2>2, PendingIssued DEF Done
    <3>3. \A no \in 1 .. Len(published) : published[no] # m
      BY <1>t, <2>2 DEF PublishedInv
    <3>4. Settled(m)'
      BY <1>1, <3>2, <3>3 DEF Settled
    <3> QED
      BY <2>2, <3>1, <3>4
  <2> QED
    BY <1>3, <2>1, <2>2
<1> QED
  BY <1>t, <1>1, <1>4, CountFrom

\* A confirm settles its message and no other.
LEMMA ConfirmCounts ==
    ASSUME PublishInv, [Next]_vars, ReadConfirm
    PROVE  CountInv'
<1>t. TypeOK /\ OwnerInv /\ BatchInv /\ PublishedInv /\ ConfirmInv /\ CountInv
  BY DEF PublishInv
<1> DEFINE n0 == Confirmed + 1
<1>1. /\ confirmCh # << >> /\ monitor # "gone" /\ UNCHANGED <<monitor, issued, published, quit>>
      /\ counted' = [counted EXCEPT ![published[Head(confirmCh)]] = counted[published[Head(confirmCh)]] + 1]
  BY DEF ReadConfirm, snd, work, lib
<1>2. /\ Head(confirmCh) = n0 /\ n0 \in 1 .. Len(published) /\ Confirmed' = n0
      /\ Confirmed \in Nat /\ n0 = Confirmed + 1
  BY <1>t, <1>1, ConfirmTypes, ConfirmedMoves
<1>3. PICK x \in Messages : x = published[n0]
  BY <1>t, <1>2, PublishedTypes
<1>4. x \in issued /\ ~Pending(x) /\ \A no \in 1 .. Len(published) : published[no] = x => no = n0
  BY <1>t, <1>2, <1>3 DEF PublishedInv
<1> HIDE DEF n0
<1>5. overtaken \subseteq overtaken'
  BY <1>t, MonitorMoves
<1>6. Others /\ counted \in [Messages -> Nat] /\ counted' = [counted EXCEPT ![x] = counted[x] + 1]
  BY <1>t, <1>1, <1>2, <1>3 DEF Others, Monitor, TypeOK
<1>7. ASSUME NEW m \in Messages
      PROVE  \/ counted'[m] = counted[m] /\ (Settled(m)' <=> Settled(m))
             \/ counted'[m] = counted[m] + 1 /\ ~Settled(m) /\ Settled(m)'
  <2>1. Pending(m)' <=> Pending(m)
    BY <1>t, <1>6, PendingStays
  <2>2. Done(m)' <=> Done(m)
    BY <1>1, <2>1 DEF Done
  <2>3. CASE m = x
    <3>1. ~(n0 <= Confirmed) /\ n0 <= Confirmed'
      BY <1>2
    <3>2. ~Settled(m)
      BY <1>2, <1>3, <2>3, <3>1 DEF Settled
    <3>3. Done(m)'
      BY <1>4, <2>2, <2>3 DEF Done
    <3>4. Settled(m)'
      BY <1>1, <1>4, <2>3, <3>1, <3>3 DEF Settled
    <3> QED
      BY <1>6, <2>3, <3>2, <3>4
  <2>4. CASE m # x
    <3>1. \A no \in 1 .. Len(published) : published[no] = m => no # n0
      BY <1>3, <2>4
    <3>2. \A no \in 1 .. Len(published) : no # n0 => (no <= Confirmed' <=> no <= Confirmed)
      BY <1>2
    <3>3. Settled(m)' <=> Settled(m)
      BY <1>1, <2>2, <3>1, <3>2 DEF Settled
    <3> QED
      BY <1>6, <2>4, <3>3
  <2> QED
    BY <2>3, <2>4
<1> QED
  BY <1>t, <1>1, <1>5, <1>7, CountFrom

\* What is recorded at the end was published and not confirmed, or overtaken; and nothing else
\* is left to be counted.
LEMMA FailedCounts ==
    ASSUME PublishInv, [Next]_vars, CountFailed
    PROVE  CountInv'
<1>t. TypeOK /\ OwnerInv /\ BatchInv /\ PublishedInv /\ ConfirmInv /\ EffectiveInv /\ CountInv
  BY DEF PublishInv
<1>1. /\ monitor = "count" /\ monitor' = "gone" /\ UNCHANGED <<issued, published, quit, overtaken>>
      /\ counted' = [m \in Messages |->
                       IF \E r \in publishedMp : r[2] = m THEN counted[m] + 1 ELSE counted[m]]
  BY DEF CountFailed, snd, work, lib
<1>2. Others
  BY DEF Others, Monitor
<1>3. SUFFICES ASSUME ~quit, NEW m \in Messages
               PROVE  /\ ~Done(m)' => counted'[m] = 0
                      /\ Done(m)' => counted'[m] >= 1 /\ (m \in overtaken' \/ counted'[m] = 1)
  BY <1>1 DEF CountInv
<1>4. Done(m)' <=> Done(m)
  <2>1. Pending(m)' <=> Pending(m)
    BY <1>t, <1>2, PendingStays
  <2> QED
    BY <1>1, <2>1 DEF Done
<1>5. counted[m] = IF Settled(m) THEN 1 ELSE 0
  BY <1>t, <1>1 DEF CountInv
<1>n. Len(published) \in Nat /\ Confirmed \in Nat /\ Confirmed <= Len(published) /\ m # NoMessage
  BY <1>t, ConfirmTypes, PublishedTypes, Constants
<1>6. ASSUME NEW no \in Nat \ {0}
      PROVE  \E x \in Messages \cup {NoMessage} :
               /\ InMap(publishedMp, no, x)
               /\ \/ no \in 1 .. Len(published) /\ x = published[no] /\ (no <= Confirmed => x \in overtaken)
                  \/ no <= Confirmed /\ x = NoMessage
                  \/ no > Len(published) /\ x = NoMessage
  <2>1. monitor \notin Reading /\ Stream = << >>
    BY <1>1 DEF Reading, Stream
  <2>2. PICK x \in Messages \cup {NoMessage} : Effective(<< >>, publishedMp, no, x) /\ Right(no, x)
    BY <1>t, <1>3, <2>1 DEF EffectiveInv
  <2>3. InMap(publishedMp, no, x)
    BY <2>2 DEF Effective, LastOf
  <2>4. no <= Len(published) => no \in 1 .. Len(published)
    BY <1>n
  <2> QED
    BY <2>1, <2>2, <2>3, <2>4 DEF Right
<1>7. ASSUME NEW r \in publishedMp, r[2] = m
      PROVE  Done(m) /\ (Settled(m) => m \in overtaken)
  <2>1. r[1] \in Nat \ {0}
    BY <1>t, QueueTypes, RecordTypes
  <2>2. PICK x \in Messages \cup {NoMessage} :
               /\ InMap(publishedMp, r[1], x)
               /\ \/ r[1] \in 1 .. Len(published) /\ x = published[r[1]] /\ (r[1] <= Confirmed => x \in overtaken)
                  \/ r[1] <= Confirmed /\ x = NoMessage
                  \/ r[1] > Len(published) /\ x = NoMessage
    BY <1>6, <2>1
  <2>3. x = m
    BY <1>7, <2>2 DEF InMap
  <2>4. r[1] \in 1 .. Len(published) /\ m = published[r[1]] /\ (r[1] <= Confirmed => m \in overtaken)
    BY <1>n, <2>2, <2>3
  <2> QED
    BY <1>t, <2>4 DEF PublishedInv, Done, Settled
<1>8. ASSUME Done(m), ~Settled(m)
      PROVE  \E r \in publishedMp : r[2] = m
  <2>1. PICK no \in 1 .. Len(published) : published[no] = m /\ ~(no <= Confirmed)
    BY <1>8 DEF Settled
  <2>2. no \in Nat \ {0} /\ ~(no > Len(published))
    BY <1>n
  <2>3. InMap(publishedMp, no, m)
    BY <1>6, <2>1, <2>2
  <2>4. <<no, m>> \in publishedMp
    BY <1>n, <2>3 DEF InMap
  <2> QED
    BY <2>4
<1>9. counted'[m] = IF \E r \in publishedMp : r[2] = m THEN counted[m] + 1 ELSE counted[m]
  BY <1>1
<1>10. Settled(m) => Done(m)
  BY DEF Settled
<1> QED
  BY <1>1, <1>4, <1>5, <1>7, <1>8, <1>9, <1>10

LEMMA CountStep ==
    ASSUME PublishInv, [Next]_vars
    PROVE  CountInv'
<1>t. TypeOK /\ OwnerInv /\ BatchInv /\ ConfirmInv /\ CountInv
  BY DEF PublishInv
<1>1. ASSUME NEW s \in Senders,
             Ref(s) \/ Record(s) \/ PublishFailed(s) \/ Undo(s) \/ Unref(s) \/ Look(s) \/ Put(s)
      PROVE  CountInv'
  <2>1. UNCHANGED <<counted, issued, published, monitor, confirmCh>>
    BY <1>1 DEF Ref, Record, PublishFailed, Undo, Unref, Look, Put, work, mon, lib, history
  <2>2. ~ReadConfirm
    <3>1. confirmCh # << >> => Tail(confirmCh) # confirmCh
      <4>1. confirmCh \in Seq(1 .. Len(published))
        BY <1>t DEF TypeOK
      <4>2. confirmCh # << >> => Len(Tail(confirmCh)) = Len(confirmCh) - 1 /\ Len(confirmCh) \in Nat
        BY <4>1
      <4>3. confirmCh # << >> => Len(Tail(confirmCh)) # Len(confirmCh)
        BY <4>2
      <4> QED
        BY <4>3
    <3> QED
      BY <2>1, <3>1 DEF ReadConfirm
  <2> QED
    BY <1>t, <1>1, <2>1, <2>2, CountQuiet
<1>2. CASE Others /\ ~ReadConfirm /\ ~CountFailed /\ ~(\E s \in Senders : \E n \in 1 .. DequeueSize : Discard(s, n))
  <2>1. UNCHANGED <<counted, issued>> /\ (monitor' = "gone" <=> monitor = "gone")
    <3>1. ASSUME Monitor
          PROVE  UNCHANGED <<counted, issued>> /\ (monitor' = "gone" <=> monitor = "gone")
      BY <1>2, <3>1 DEF Monitor, ReadRecord, ReadClosed, MonitorEnd, Delay, DrainQuit, ConfirmsEnd, snd, work,
                        history
    <3>2. ASSUME Library \/ (\E n \in 1 .. Len(published) : Confirm(n)) \/ ShutdownBegin \/ Heartbeat \/ Quit
                 \/ UNCHANGED vars
          PROVE  UNCHANGED <<counted, issued, monitor>>
      BY <3>2 DEF Library, Deliver, ShutdownLock, ShutdownEnd, Confirm, ShutdownBegin, Heartbeat, Quit, snd,
                  work, mon, history, vars
    <3> QED
      BY <1>2, <3>1, <3>2 DEF Others
  <2>2. published' = published
    BY <1>2, OthersLeave
  <2> QED
    BY <1>t, <1>2, <2>1, <2>2, CountQuiet
<1>3. CASE Others
  BY <1>2, <1>3, ConfirmCounts, FailedCounts, DiscardCounts
<1>4. ASSUME NEW s \in Senders, SendBatch(s) \/ \E n \in 1 .. DequeueSize : Take(s, n)
      PROVE  CountInv'
  BY <1>1, <1>4, TakeCounts, PublishCounts, JudgeCounts DEF SendBatch
<1> QED
  BY <1>3, <1>4, StepKinds

-----------------------------------------------------------------------------
(***************************************************************************)
(* After the monitor has stopped reading.                                  *)
(***************************************************************************)
LEMMA AfterStep ==
    ASSUME PublishInv, [Next]_vars
    PROVE  AfterInv'
<1>t. TypeOK /\ OwnerInv /\ ClosedInv /\ AfterInv
  BY DEF PublishInv
<1>0. SUFFICES ASSUME monitor' \notin Reading, ~quit'
               PROVE  /\ place' = "pooled" => publishedCh' = << >>
                      /\ \A s \in Senders :
                            /\ sender'[s] \in {"taken", "record", "put"} => publishedCh' = << >>
                            /\ sender'[s] \in {"publish", "undo"} => Len(publishedCh') <= 1
  BY DEF AfterInv
<1>q. ~quit
  BY <1>0, <1>t, MonitorMoves
<1>1. CASE Delay
  <2>1. publishedCh = << >> /\ publishedCh' = publishedCh
    BY <1>1 DEF Delay
  <2> QED
    BY <2>1
<1>2. CASE DrainQuit
  BY <1>2, <1>q DEF DrainQuit
<1>3. CASE ~Delay /\ ~DrainQuit
  <2>1. monitor \notin Reading
    BY <1>0, <1>t, <1>3, MonitorMoves
  <2>2. /\ place = "pooled" => publishedCh = << >>
        /\ \A s \in Senders :
              /\ sender[s] \in {"taken", "record", "put"} => publishedCh = << >>
              /\ sender[s] \in {"publish", "undo"} => Len(publishedCh) <= 1
    BY <1>t, <1>q, <2>1 DEF AfterInv
  <2>3. IsClosed
    BY <1>t, <2>1 DEF ClosedInv, IsClosed, Reading
  <2>4. CASE Others
    <3>1. publishedCh' = publishedCh
      <4>1. ~ReadRecord
        BY <2>1 DEF ReadRecord, Reading
      <4>2. CASE ReadConfirm
        BY <4>2 DEF ReadConfirm
      <4> QED
        BY <1>t, <2>4, <4>1, <4>2, QuietOther
    <3>2. sender' = sender /\ (place' = "pooled" => place = "pooled")
      BY <2>4, OthersLeave
    <3> QED
      BY <2>2, <3>1, <3>2
  <2>5. ASSUME NEW s \in Senders, SendBatch(s) \/ \E n \in 1 .. DequeueSize : Take(s, n)
        PROVE  /\ place' = "pooled" => publishedCh' = << >>
               /\ \A r \in Senders :
                     /\ sender'[r] \in {"taken", "record", "put"} => publishedCh' = << >>
                     /\ sender'[r] \in {"publish", "undo"} => Len(publishedCh') <= 1
    <3>0. sender \in [Senders -> {"idle", "taken", "record", "publish", "undo", "judge",
                                  "unref", "look", "put"}]
      BY <1>t DEF TypeOK
    <3>1. \A r \in Senders \ {s} : sender'[r] = "idle"
      BY <1>t, <2>5, MovesAlone
    <3> DEFINE G == /\ place' = "pooled" => publishedCh' = << >>
                    /\ sender'[s] \in {"taken", "record", "put"} => publishedCh' = << >>
                    /\ sender'[s] \in {"publish", "undo"} => Len(publishedCh') <= 1
    <3> SUFFICES G
      BY <3>1
    <3>2. CASE \E n \in 1 .. DequeueSize : Take(s, n)
      <4>1. place = "pooled" /\ publishedCh' = publishedCh /\ place' = "used" /\ sender'[s] = "taken"
        BY <3>0, <3>2 DEF Take
      <4> QED
        BY <2>2, <4>1
    <3>3. CASE Ref(s) \/ PublishFailed(s)
      <4>1. publishedCh' = publishedCh /\ place' = place
        BY <3>3 DEF Ref, PublishFailed
      <4>2. \/ sender[s] = "taken" /\ sender'[s] = "record"
            \/ sender[s] = "publish" /\ sender'[s] = "undo"
        BY <3>0, <3>3 DEF Ref, PublishFailed
      <4> QED
        BY <2>2, <4>1, <4>2
    <3>4. CASE Record(s)
      <4>1. /\ sender[s] = "record" /\ sender'[s] = "publish" /\ place' = place
            /\ publishedCh' = Append(publishedCh, <<Len(published) + 1, Current(s)>>)
        BY <3>0, <3>4 DEF Record
      <4>2. publishedCh = << >> /\ place = "used"
        BY <1>t, <2>2, <4>1 DEF OwnerInv
      <4>3. Len(publishedCh') = 1
        BY <4>1, <4>2
      <4> QED
        BY <4>1, <4>2, <4>3
    <3>5. CASE Publish(s)
      BY <2>3, <3>5 DEF Publish
    <3>6. CASE Undo(s)
      <4>1. sender[s] = "undo" /\ sender'[s] = "judge" /\ place' = place
        BY <3>0, <3>6 DEF Undo
      <4>2. place = "used"
        BY <1>t, <4>1 DEF OwnerInv
      <4> QED
        BY <4>1, <4>2
    <3>7. CASE Judge(s) \/ Unref(s)
      <4>1. sender[s] # "idle" /\ sender'[s] \in {"unref", "look"} /\ place' = place
        BY <2>3, <3>0, <3>7 DEF Judge, Unref
      <4>2. place = "used"
        BY <1>t, <4>1 DEF OwnerInv
      <4> QED
        BY <4>1, <4>2
    <3>8. CASE Look(s)
      <4>1. sender'[s] = "idle" /\ place' = "dropped"
        BY <2>3, <3>0, <3>8 DEF Look, Return
      <4> QED
        BY <4>1
    <3>9. CASE Put(s)
      <4>1. sender[s] = "put" /\ sender'[s] = "idle" /\ publishedCh' = publishedCh
        BY <3>0, <3>9 DEF Put, Return
      <4> QED
        BY <2>2, <4>1
    <3> HIDE DEF G
    <3> QED
      BY <2>5, <3>2, <3>3, <3>4, <3>5, <3>6, <3>7, <3>8, <3>9 DEF SendBatch
  <2> QED
    BY <2>4, <2>5, StepKinds
<1> QED
  BY <1>1, <1>2, <1>3

-----------------------------------------------------------------------------
(***************************************************************************)
(* The theorems.                                                           *)
(***************************************************************************)
LEMMA InvStep ==
    ASSUME PublishInv, [Next]_vars
    PROVE  PublishInv'
BY TypeStep, OwnerStep, BatchStep, PublishedStep, ConfirmStep, ClosedStep, RecordStep, EffectiveStep,
   CountStep, AfterStep DEF PublishInv

\* What sendBatch, monitor and the library do together keeps PublishInv: one sender has the
\* channel, its batch is published in order and without repetition, the confirms come in order,
\* the records that are written are the ones the monitor will need, and what is settled is
\* counted.
THEOREM PublishInvariant == Spec => []PublishInv
<1>1. Init => PublishInv
  BY InitInv
<1>2. PublishInv /\ [Next]_vars => PublishInv'
  BY InvStep
<1> QED
  BY <1>1, <1>2, PTL DEF Spec

\* The variables of sendBatch, monitor and the library keep their types; publishedCh and
\* confirmCh stay within their capacity, and refCount does not become negative.
THEOREM TypeCorrect == Spec => []TypeOK
<1>1. PublishInv => TypeOK
  BY DEF PublishInv
<1> QED
  BY <1>1, PublishInvariant, PTL

\* sendBatch never waits for room in publishedCh once the monitor has stopped reading it: the
\* delay of monitor and the capacity 2 * dequeueSize suffice, for every dequeueSize.
THEOREM NoOrphanBlocksTheorem == Spec => []NoOrphanBlocks
<1>1. PublishInv => NoOrphanBlocks
  <2>1. SUFFICES ASSUME PublishInv, ~quit, monitor \in {"confirms", "count", "gone"}, NEW s \in Senders,
                        sender[s] \in {"record", "undo"}
                 PROVE  Len(publishedCh) < ChanCap
    BY DEF NoOrphanBlocks
  <2>2. monitor \notin Reading
    BY <2>1 DEF Reading
  <2>3. publishedCh = << >> \/ Len(publishedCh) <= 1
    BY <2>1, <2>2 DEF PublishInv, AfterInv
  <2>4. Len(publishedCh) \in Nat /\ Len(publishedCh) <= 1
    BY <2>1, <2>3, QueueTypes DEF PublishInv
  <2> QED
    BY <2>4, Constants
<1> QED
  BY <1>1, PublishInvariant, PTL

\* sendBatch, the confirms and the defer of monitor count every message once, but for one whose
\* confirm monitor read before its record, which may be counted twice.
THEOREM CountedOnceTheorem == Spec => []CountedOnce
<1>1. PublishInv => CountedOnce
  <2>1. SUFFICES ASSUME PublishInv, ~quit
                 PROVE  /\ \A m \in Messages \ overtaken : counted[m] <= 1
                        /\ monitor = "gone" =>
                              \A m \in issued : (\A s \in Senders : batch[s] # m[1]) => counted[m] >= 1
    BY DEF CountedOnce
  <2>2. CountInv /\ TypeOK
    BY <2>1 DEF PublishInv
  <2>3. ASSUME NEW m \in Messages \ overtaken
        PROVE  counted[m] <= 1
    <3>1. CASE monitor # "gone"
      BY <2>2, <3>1 DEF CountInv
    <3>2. CASE monitor = "gone"
      BY <2>1, <2>2, <3>2 DEF CountInv
    <3> QED
      BY <3>1, <3>2
  <2>4. ASSUME monitor = "gone", NEW m \in issued, \A s \in Senders : batch[s] # m[1]
        PROVE  counted[m] >= 1
    <3>1. m \in Messages
      BY <2>2 DEF TypeOK
    <3>2. Done(m)
      BY <2>4 DEF Done, Pending
    <3> QED
      BY <2>1, <2>2, <2>4, <3>1, <3>2 DEF CountInv
  <2> QED
    BY <2>3, <2>4
<1> QED
  BY <1>1, PublishInvariant, PTL

-----------------------------------------------------------------------------
(***************************************************************************)
(* The pools.                                                              *)
(***************************************************************************)
\* The instance has the same goroutines.
LEMMA PoolBeaters == Pool!Beaters = Beaters
BY DEF Pool!Beaters, Beaters

\* A client has a socket exactly between the step that got it and the one that gives it
\* up, and so has a heartbeat; a heartbeat that has one still has a round of its loop to go.
HandInv ==
    /\ \A k \in Clients : held[k] = NoSocket <=> client[k] \notin {"made", "hold", "put", "token"}
    /\ \A b \in Beaters : hand[b] = NoSocket <=> beat[b] \notin {"check", "back", "drop"}
    /\ \A b \in Beaters : beat[b] \in {"check", "back", "drop"} => left[b] >= 1

\* Only sockets that have been created are in anybody's hands or in the pool.
CreatedInv ==
    /\ \A k \in Clients : held[k] # NoSocket => state[held[k]] # "none"
    /\ \A b \in Beaters : hand[b] # NoSocket => state[hand[b]] # "none"
    /\ \A i \in 1 .. Len(pool) : state[pool[i]] # "none"

\* No two places hold the same socket.
PlaceInv ==
    /\ \A k, l \in Clients : held[k] = held[l] /\ held[k] # NoSocket => k = l
    /\ \A b, d \in Beaters : hand[b] = hand[d] /\ hand[b] # NoSocket => b = d
    /\ \A k \in Clients, b \in Beaters : held[k] = hand[b] => held[k] = NoSocket
    /\ \A i, j \in 1 .. Len(pool) : pool[i] = pool[j] => i = j
    /\ \A i \in 1 .. Len(pool) :
        /\ \A k \in Clients : held[k] # pool[i]
        /\ \A b \in Beaters : hand[b] # pool[i]

\* A socket that lives is in some place: what is about to become a token is dead.
Placed(c) ==
    \/ \E i \in 1 .. Len(pool) : pool[i] = c
    \/ \E k \in Clients : held[k] = c
    \/ \E b \in Beaters : hand[b] = c

LiveInv ==
    /\ \A c \in Sockets : state[c] = "open" => Placed(c)
    /\ \A k \in Clients : client[k] = "token" => state[held[k]] = "closed"
    /\ \A b \in Beaters : beat[b] = "drop" => state[hand[b]] = "closed"

PoolInv == Pool!TypeOK /\ HandInv /\ CapacityConserved /\ CreatedInv /\ PlaceInv /\ LiveInv

-----------------------------------------------------------------------------
\* There are finitely many debtors.
LEMMA DebtorsFinite ==
    /\ IsFiniteSet(Debtors)
    /\ Cardinality(Debtors) \in Nat
<1>1. IsFiniteSet(Beaters)
  BY PoolAssumption, FS_AddElement DEF Beaters
<1>2. IsFiniteSet(Clients \cup Beaters)
  BY <1>1, PoolAssumption, FS_Union
<1>3. Debtors \in SUBSET (Clients \cup Beaters)
  BY DEF Debtors
<1>4. IsFiniteSet(Debtors)
  BY <1>2, <1>3, FS_Subset
<1> QED
  BY <1>4, FS_CardinalityType

\* A goroutine that sends has a debt, so the counts leave room for what it sends.
LEMMA RoomToSend ==
    ASSUME Pool!TypeOK, CapacityConserved, Debtors # {}
    PROVE  Len(pool) < PoolSize /\ size < PoolSize
<1>1. Cardinality(Debtors) # 0
  BY DebtorsFinite, FS_EmptySet
<1>2. size \in Nat /\ Len(pool) \in Nat /\ PoolSize \in Nat
  BY PoolAssumption, PoolBeaters DEF Pool!TypeOK
<1> QED
  BY <1>1, <1>2, DebtorsFinite DEF CapacityConserved

\* A step that trades a token or a socket of the pool for one debt, or the other way round,
\* keeps the sum.
LEMMA Trade ==
    ASSUME Pool!TypeOK, CapacityConserved, NEW x,
           \/ /\ size' + Len(pool') = size + Len(pool)
              /\ Debtors' = Debtors
           \/ /\ size' + Len(pool') = size + Len(pool) - 1
              /\ x \notin Debtors
              /\ Debtors' = Debtors \cup {x}
           \/ /\ size' + Len(pool') = size + Len(pool) + 1
              /\ x \in Debtors
              /\ Debtors' = Debtors \ {x}
    PROVE  CapacityConserved'
<1> DEFINE D == Debtors
           E == Debtors'
<1>1. IsFiniteSet(D) /\ Cardinality(D) \in Nat
  BY DebtorsFinite
<1>2. size \in Nat /\ Len(pool) \in Nat /\ PoolSize \in Nat
  BY PoolAssumption, PoolBeaters DEF Pool!TypeOK
<1>3. size + Len(pool) + Cardinality(D) = PoolSize
  BY DEF CapacityConserved
<1>4. SUFFICES size' + Len(pool') + Cardinality(E) = PoolSize
  BY DEF CapacityConserved
<1>5. CASE E = D /\ size' + Len(pool') = size + Len(pool)
  BY <1>1, <1>2, <1>3, <1>5
<1>6. CASE x \notin D /\ E = D \cup {x} /\ size' + Len(pool') = size + Len(pool) - 1
  <2>1. Cardinality(E) = Cardinality(D) + 1
    BY <1>1, <1>6, FS_AddElement
  <2> HIDE DEF D, E
  <2> QED
    BY <1>1, <1>2, <1>3, <1>6, <2>1
<1>7. CASE x \in D /\ E = D \ {x} /\ size' + Len(pool') = size + Len(pool) + 1
  <2>1. Cardinality(E) = Cardinality(D) - 1
    BY <1>1, <1>7, FS_RemoveElement
  <2> HIDE DEF D, E
  <2> QED
    BY <1>1, <1>2, <1>3, <1>7, <2>1
<1> QED
  BY <1>5, <1>6, <1>7

-----------------------------------------------------------------------------
\* Every step keeps every variable in its type; the counters need the counts.
LEMMA PoolTypeStep ==
    Pool!TypeOK /\ HandInv /\ [Pool!Next]_Pool!vars => Pool!TypeOK'
<1> SUFFICES ASSUME Pool!TypeOK, HandInv, [Pool!Next]_Pool!vars PROVE Pool!TypeOK'
  OBVIOUS
<1> USE PoolAssumption, PoolBeaters DEF Pool!TypeOK
<1>1. ASSUME NEW k \in Clients, Pool!Get(k) PROVE Pool!TypeOK'
  BY <1>1 DEF Pool!Get, Pool!Take
<1>2. ASSUME NEW k \in Clients, Pool!GetEmpty(k) PROVE Pool!TypeOK'
  BY <1>2 DEF Pool!GetEmpty
<1>3. ASSUME NEW k \in Clients, Pool!GetToken(k) PROVE Pool!TypeOK'
  BY <1>3 DEF Pool!GetToken
<1>4. ASSUME NEW k \in Clients, Pool!GetNoToken(k) PROVE Pool!TypeOK'
  BY <1>4 DEF Pool!GetNoToken
<1>5. ASSUME NEW k \in Clients, Pool!Wait(k) PROVE Pool!TypeOK'
  BY <1>5 DEF Pool!Wait, Pool!Take
<1>6. ASSUME NEW k \in Clients, Pool!WaitTimeout(k) PROVE Pool!TypeOK'
  BY <1>6 DEF Pool!WaitTimeout
<1>7. ASSUME NEW k \in Clients, NEW c \in Sockets, Pool!Create(k, c) PROVE Pool!TypeOK'
  BY <1>7 DEF Pool!Create
<1>8. ASSUME NEW k \in Clients, Pool!CreateFailed(k) PROVE Pool!TypeOK'
  BY <1>8 DEF Pool!CreateFailed
<1>9. ASSUME NEW k \in Clients, Pool!Made(k) PROVE Pool!TypeOK'
  BY <1>9 DEF Pool!Made
<1>10. ASSUME NEW k \in Clients, Pool!MadeClosed(k) PROVE Pool!TypeOK'
  BY <1>10 DEF Pool!MadeClosed
<1>11. ASSUME NEW k \in Clients, Pool!SleepEnd(k) PROVE Pool!TypeOK'
  BY <1>11 DEF Pool!SleepEnd
<1>12. ASSUME NEW k \in Clients, Pool!ReleaseLook(k) PROVE Pool!TypeOK'
  BY <1>12 DEF Pool!ReleaseLook
<1>13. ASSUME NEW k \in Clients, Pool!ReleasePut(k) PROVE Pool!TypeOK'
  BY <1>13 DEF Pool!ReleasePut, HandInv
<1>14. ASSUME NEW k \in Clients, Pool!ReleaseToken(k) PROVE Pool!TypeOK'
  BY <1>14 DEF Pool!ReleaseToken
<1>15. ASSUME NEW b \in Beaters, Pool!BeatStart(b) PROVE Pool!TypeOK'
  BY <1>15 DEF Pool!BeatStart
<1>16. ASSUME NEW b \in Beaters, Pool!BeatTake(b) PROVE Pool!TypeOK'
  BY <1>16 DEF Pool!BeatTake
<1>17. ASSUME NEW b \in Beaters, Pool!BeatEmpty(b) PROVE Pool!TypeOK'
  BY <1>17 DEF Pool!BeatEmpty
<1>18. ASSUME NEW b \in Beaters, Pool!BeatEnd(b) PROVE Pool!TypeOK'
  BY <1>18 DEF Pool!BeatEnd, Pool!After
<1>19. ASSUME NEW b \in Beaters, Pool!BeatQuit(b) PROVE Pool!TypeOK'
  BY <1>19 DEF Pool!BeatQuit
<1>20. ASSUME NEW b \in Beaters, Pool!BeatLook(b) PROVE Pool!TypeOK'
  BY <1>20 DEF Pool!BeatLook
<1>21. ASSUME NEW b \in Beaters, Pool!BeatBack(b) PROVE Pool!TypeOK'
  BY <1>21 DEF Pool!BeatBack, HandInv
<1>22. ASSUME NEW b \in Beaters, Pool!BeatDrop(b) PROVE Pool!TypeOK'
  BY <1>22 DEF Pool!BeatDrop, HandInv
<1>23. ASSUME NEW c \in Sockets, Pool!Die(c) PROVE Pool!TypeOK'
  BY <1>23 DEF Pool!Die
<1>24. ASSUME Pool!Quit PROVE Pool!TypeOK'
  BY <1>24 DEF Pool!Quit
<1>25. CASE UNCHANGED Pool!vars
  BY <1>25 DEF Pool!vars
<1> QED
  BY <1>1, <1>2, <1>3, <1>4, <1>5, <1>6, <1>7, <1>8, <1>9, <1>10, <1>11, <1>12,
     <1>13, <1>14, <1>15, <1>16, <1>17, <1>18, <1>19, <1>20, <1>21, <1>22, <1>23,
     <1>24, <1>25, PoolBeaters DEF Pool!Next, Pool!GetRelease, Pool!Heartbeat

\* Every step that gets or gives up a socket moves the goroutine accordingly.
LEMMA HandStep ==
    Pool!TypeOK /\ HandInv /\ [Pool!Next]_Pool!vars => HandInv'
<1> SUFFICES ASSUME Pool!TypeOK, HandInv, [Pool!Next]_Pool!vars PROVE HandInv'
  OBVIOUS
<1> USE PoolAssumption, PoolBeaters DEF Pool!TypeOK, HandInv
<1>1. ASSUME NEW k \in Clients, Pool!Get(k) PROVE HandInv'
  BY <1>1 DEF Pool!Get, Pool!Take
<1>2. ASSUME NEW k \in Clients, Pool!GetEmpty(k) PROVE HandInv'
  BY <1>2 DEF Pool!GetEmpty
<1>3. ASSUME NEW k \in Clients, Pool!GetToken(k) PROVE HandInv'
  BY <1>3 DEF Pool!GetToken
<1>4. ASSUME NEW k \in Clients, Pool!GetNoToken(k) PROVE HandInv'
  BY <1>4 DEF Pool!GetNoToken
<1>5. ASSUME NEW k \in Clients, Pool!Wait(k) PROVE HandInv'
  BY <1>5 DEF Pool!Wait, Pool!Take
<1>6. ASSUME NEW k \in Clients, Pool!WaitTimeout(k) PROVE HandInv'
  BY <1>6 DEF Pool!WaitTimeout
<1>7. ASSUME NEW k \in Clients, NEW c \in Sockets, Pool!Create(k, c) PROVE HandInv'
  BY <1>7 DEF Pool!Create
<1>8. ASSUME NEW k \in Clients, Pool!CreateFailed(k) PROVE HandInv'
  BY <1>8 DEF Pool!CreateFailed
<1>9. ASSUME NEW k \in Clients, Pool!Made(k) PROVE HandInv'
  BY <1>9 DEF Pool!Made
<1>10. ASSUME NEW k \in Clients, Pool!MadeClosed(k) PROVE HandInv'
  BY <1>10 DEF Pool!MadeClosed
<1>11. ASSUME NEW k \in Clients, Pool!SleepEnd(k) PROVE HandInv'
  BY <1>11 DEF Pool!SleepEnd
<1>12. ASSUME NEW k \in Clients, Pool!ReleaseLook(k) PROVE HandInv'
  BY <1>12 DEF Pool!ReleaseLook
<1>13. ASSUME NEW k \in Clients, Pool!ReleasePut(k) PROVE HandInv'
  BY <1>13 DEF Pool!ReleasePut
<1>14. ASSUME NEW k \in Clients, Pool!ReleaseToken(k) PROVE HandInv'
  BY <1>14 DEF Pool!ReleaseToken
<1>15. ASSUME NEW b \in Beaters, Pool!BeatStart(b) PROVE HandInv'
  BY <1>15 DEF Pool!BeatStart
<1>16. ASSUME NEW b \in Beaters, Pool!BeatTake(b) PROVE HandInv'
  BY <1>16 DEF Pool!BeatTake
<1>17. ASSUME NEW b \in Beaters, Pool!BeatEmpty(b) PROVE HandInv'
  BY <1>17 DEF Pool!BeatEmpty
<1>18. ASSUME NEW b \in Beaters, Pool!BeatEnd(b) PROVE HandInv'
  BY <1>18 DEF Pool!BeatEnd, Pool!After
<1>19. ASSUME NEW b \in Beaters, Pool!BeatQuit(b) PROVE HandInv'
  BY <1>19 DEF Pool!BeatQuit
<1>20. ASSUME NEW b \in Beaters, Pool!BeatLook(b) PROVE HandInv'
  BY <1>20 DEF Pool!BeatLook
<1>21. ASSUME NEW b \in Beaters, Pool!BeatBack(b) PROVE HandInv'
  BY <1>21 DEF Pool!BeatBack
<1>22. ASSUME NEW b \in Beaters, Pool!BeatDrop(b) PROVE HandInv'
  BY <1>22 DEF Pool!BeatDrop
<1>23. ASSUME NEW c \in Sockets, Pool!Die(c) PROVE HandInv'
  BY <1>23 DEF Pool!Die
<1>24. ASSUME Pool!Quit PROVE HandInv'
  BY <1>24 DEF Pool!Quit
<1>25. CASE UNCHANGED Pool!vars
  BY <1>25 DEF Pool!vars
<1> QED
  BY <1>1, <1>2, <1>3, <1>4, <1>5, <1>6, <1>7, <1>8, <1>9, <1>10, <1>11, <1>12,
     <1>13, <1>14, <1>15, <1>16, <1>17, <1>18, <1>19, <1>20, <1>21, <1>22, <1>23,
     <1>24, <1>25, PoolBeaters DEF Pool!Next, Pool!GetRelease, Pool!Heartbeat

\* No step loses or doubles a token: what leaves size or pool becomes a debt, and a debt is
\* paid once.
LEMMA CapacityStep ==
    Pool!TypeOK /\ HandInv /\ CapacityConserved /\ [Pool!Next]_Pool!vars => CapacityConserved'
<1> SUFFICES ASSUME Pool!TypeOK, HandInv, CapacityConserved, [Pool!Next]_Pool!vars PROVE CapacityConserved'
  OBVIOUS
<1> USE PoolAssumption, PoolBeaters DEF Pool!TypeOK
<1>1. ASSUME NEW k \in Clients, Pool!Get(k) PROVE CapacityConserved'
  <2>1. k \notin Debtors /\ Debtors' = Debtors \cup {k}
    BY <1>1 DEF Pool!Get, Pool!Take, Debtors
  <2>2. size' + Len(pool') = size + Len(pool) - 1
    BY <1>1, HeadTailProperties DEF Pool!Get, Pool!Take
  <2> QED
    BY <2>1, <2>2, Trade
<1>2. ASSUME NEW k \in Clients, Pool!GetEmpty(k) PROVE CapacityConserved'
  <2>1. Debtors' = Debtors /\ size' = size /\ pool' = pool
    BY <1>2 DEF Pool!GetEmpty, Debtors
  <2> QED
    BY <2>1, Trade
<1>3. ASSUME NEW k \in Clients, Pool!GetToken(k) PROVE CapacityConserved'
  <2>1. k \notin Debtors /\ Debtors' = Debtors \cup {k}
    BY <1>3 DEF Pool!GetToken, Debtors
  <2>2. size' + Len(pool') = size + Len(pool) - 1
    BY <1>3 DEF Pool!GetToken
  <2> QED
    BY <2>1, <2>2, Trade
<1>4. ASSUME NEW k \in Clients, Pool!GetNoToken(k) PROVE CapacityConserved'
  <2>1. Debtors' = Debtors /\ size' = size /\ pool' = pool
    BY <1>4 DEF Pool!GetNoToken, Debtors
  <2> QED
    BY <2>1, Trade
<1>5. ASSUME NEW k \in Clients, Pool!Wait(k) PROVE CapacityConserved'
  <2>1. k \notin Debtors /\ Debtors' = Debtors \cup {k}
    BY <1>5 DEF Pool!Wait, Pool!Take, Debtors
  <2>2. size' + Len(pool') = size + Len(pool) - 1
    BY <1>5, HeadTailProperties DEF Pool!Wait, Pool!Take
  <2> QED
    BY <2>1, <2>2, Trade
<1>6. ASSUME NEW k \in Clients, Pool!WaitTimeout(k) PROVE CapacityConserved'
  <2>1. Debtors' = Debtors /\ size' = size /\ pool' = pool
    BY <1>6 DEF Pool!WaitTimeout, Debtors
  <2> QED
    BY <2>1, Trade
<1>7. ASSUME NEW k \in Clients, NEW c \in Sockets, Pool!Create(k, c) PROVE CapacityConserved'
  <2>1. Debtors' = Debtors /\ size' = size /\ pool' = pool
    BY <1>7 DEF Pool!Create, Debtors
  <2> QED
    BY <2>1, Trade
<1>8. ASSUME NEW k \in Clients, Pool!CreateFailed(k) PROVE CapacityConserved'
  <2>1. Debtors' = Debtors /\ size' = size /\ pool' = pool
    BY <1>8 DEF Pool!CreateFailed, Debtors
  <2> QED
    BY <2>1, Trade
<1>9. ASSUME NEW k \in Clients, Pool!Made(k) PROVE CapacityConserved'
  <2>1. Debtors' = Debtors /\ size' = size /\ pool' = pool
    BY <1>9 DEF Pool!Made, Debtors
  <2> QED
    BY <2>1, Trade
<1>10. ASSUME NEW k \in Clients, Pool!MadeClosed(k) PROVE CapacityConserved'
  <2>1. Debtors' = Debtors /\ size' = size /\ pool' = pool
    BY <1>10 DEF Pool!MadeClosed, Debtors
  <2> QED
    BY <2>1, Trade
<1>11. ASSUME NEW k \in Clients, Pool!SleepEnd(k) PROVE CapacityConserved'
  <2>1. k \in Debtors /\ Debtors' = Debtors \ {k}
    BY <1>11 DEF Pool!SleepEnd, Debtors
  <2>2. size' + Len(pool') = size + Len(pool) + 1
    BY <1>11 DEF Pool!SleepEnd
  <2> QED
    BY <2>1, <2>2, Trade
<1>12. ASSUME NEW k \in Clients, Pool!ReleaseLook(k) PROVE CapacityConserved'
  <2>1. Debtors' = Debtors /\ size' = size /\ pool' = pool
    BY <1>12 DEF Pool!ReleaseLook, Debtors
  <2> QED
    BY <2>1, Trade
<1>13. ASSUME NEW k \in Clients, Pool!ReleasePut(k) PROVE CapacityConserved'
  <2>1. k \in Debtors /\ Debtors' = Debtors \ {k}
    BY <1>13 DEF Pool!ReleasePut, Debtors
  <2>2. size' + Len(pool') = size + Len(pool) + 1
    BY <1>13, AppendProperties DEF Pool!ReleasePut, HandInv
  <2> QED
    BY <2>1, <2>2, Trade
<1>14. ASSUME NEW k \in Clients, Pool!ReleaseToken(k) PROVE CapacityConserved'
  <2>1. k \in Debtors /\ Debtors' = Debtors \ {k}
    BY <1>14 DEF Pool!ReleaseToken, Debtors
  <2>2. size' + Len(pool') = size + Len(pool) + 1
    BY <1>14 DEF Pool!ReleaseToken
  <2> QED
    BY <2>1, <2>2, Trade
<1>15. ASSUME NEW b \in Beaters, Pool!BeatStart(b) PROVE CapacityConserved'
  <2>1. Debtors' = Debtors /\ size' = size /\ pool' = pool
    BY <1>15 DEF Pool!BeatStart, Debtors
  <2> QED
    BY <2>1, Trade
<1>16. ASSUME NEW b \in Beaters, Pool!BeatTake(b) PROVE CapacityConserved'
  <2>1. b \notin Debtors /\ Debtors' = Debtors \cup {b}
    BY <1>16 DEF Pool!BeatTake, Debtors
  <2>2. size' + Len(pool') = size + Len(pool) - 1
    BY <1>16, HeadTailProperties DEF Pool!BeatTake
  <2> QED
    BY <2>1, <2>2, Trade
<1>17. ASSUME NEW b \in Beaters, Pool!BeatEmpty(b) PROVE CapacityConserved'
  <2>1. Debtors' = Debtors /\ size' = size /\ pool' = pool
    BY <1>17 DEF Pool!BeatEmpty, Debtors
  <2> QED
    BY <2>1, Trade
<1>18. ASSUME NEW b \in Beaters, Pool!BeatEnd(b) PROVE CapacityConserved'
  <2>1. Debtors' = Debtors /\ size' = size /\ pool' = pool
    BY <1>18 DEF Pool!BeatEnd, Pool!After, Debtors
  <2> QED
    BY <2>1, Trade
<1>19. ASSUME NEW b \in Beaters, Pool!BeatQuit(b) PROVE CapacityConserved'
  <2>1. Debtors' = Debtors /\ size' = size /\ pool' = pool
    BY <1>19 DEF Pool!BeatQuit, Debtors
  <2> QED
    BY <2>1, Trade
<1>20. ASSUME NEW b \in Beaters, Pool!BeatLook(b) PROVE CapacityConserved'
  <2>1. Debtors' = Debtors /\ size' = size /\ pool' = pool
    BY <1>20 DEF Pool!BeatLook, Debtors
  <2> QED
    BY <2>1, Trade
<1>21. ASSUME NEW b \in Beaters, Pool!BeatBack(b) PROVE CapacityConserved'
  <2>1. b \in Debtors /\ Debtors' = Debtors \ {b}
    BY <1>21 DEF Pool!BeatBack, Debtors
  <2>2. size' + Len(pool') = size + Len(pool) + 1
    BY <1>21, AppendProperties DEF Pool!BeatBack, HandInv
  <2> QED
    BY <2>1, <2>2, Trade
<1>22. ASSUME NEW b \in Beaters, Pool!BeatDrop(b) PROVE CapacityConserved'
  <2>1. b \in Debtors /\ Debtors' = Debtors \ {b}
    BY <1>22 DEF Pool!BeatDrop, Debtors
  <2>2. size' + Len(pool') = size + Len(pool) + 1
    BY <1>22 DEF Pool!BeatDrop
  <2> QED
    BY <2>1, <2>2, Trade
<1>23. ASSUME NEW c \in Sockets, Pool!Die(c) PROVE CapacityConserved'
  <2>1. Debtors' = Debtors /\ size' = size /\ pool' = pool
    BY <1>23 DEF Pool!Die, Debtors
  <2> QED
    BY <2>1, Trade
<1>24. ASSUME Pool!Quit PROVE CapacityConserved'
  <2>1. Debtors' = Debtors /\ size' = size /\ pool' = pool
    BY <1>24 DEF Pool!Quit, Debtors
  <2> QED
    BY <2>1, Trade
<1>25. CASE UNCHANGED Pool!vars
  <2>1. Debtors' = Debtors /\ size' = size /\ pool' = pool
    BY <1>25 DEF Pool!vars, Debtors
  <2> QED
    BY <2>1, Trade
<1> QED
  BY <1>1, <1>2, <1>3, <1>4, <1>5, <1>6, <1>7, <1>8, <1>9, <1>10, <1>11, <1>12,
     <1>13, <1>14, <1>15, <1>16, <1>17, <1>18, <1>19, <1>20, <1>21, <1>22, <1>23,
     <1>24, <1>25, PoolBeaters DEF Pool!Next, Pool!GetRelease, Pool!Heartbeat

\* What Take does to the pool.
LEMMA TakeFacts ==
    ASSUME Pool!TypeOK, pool # << >>, pool' = Tail(pool)
    PROVE  /\ Len(pool) \in Nat \ {0}
           /\ Head(pool) = pool[1] /\ Head(pool) \in Sockets
           /\ Len(pool') = Len(pool) - 1
           /\ \A i \in 1 .. Len(pool') : i + 1 \in 1 .. Len(pool) /\ pool'[i] = pool[i + 1]
           /\ \A i \in 1 .. Len(pool) : i = 1 \/ (i - 1 \in 1 .. Len(pool') /\ pool'[i - 1] = pool[i])
  BY HeadTailProperties, EmptySeq, PoolBeaters DEF Pool!TypeOK

\* What a send does to the pool.
LEMMA PutFacts ==
    ASSUME Pool!TypeOK, NEW c \in Sockets, pool' = Append(pool, c)
    PROVE  /\ Len(pool) \in Nat
           /\ Len(pool') = Len(pool) + 1
           /\ \A i \in 1 .. Len(pool) : i \in 1 .. Len(pool') /\ pool'[i] = pool[i]
           /\ pool'[Len(pool')] = c /\ Len(pool') \in 1 .. Len(pool')
           /\ \A i \in 1 .. Len(pool') : i = Len(pool') \/ i \in 1 .. Len(pool)
  BY AppendProperties, PoolBeaters DEF Pool!TypeOK

\* A socket comes to the pool or to a hand only after its creation.
LEMMA CreatedStep ==
    Pool!TypeOK /\ HandInv /\ CreatedInv /\ [Pool!Next]_Pool!vars => CreatedInv'
<1> SUFFICES ASSUME Pool!TypeOK, HandInv, CreatedInv, [Pool!Next]_Pool!vars PROVE CreatedInv'
  OBVIOUS
<1> USE PoolAssumption, PoolBeaters DEF Pool!TypeOK, CreatedInv
<1>1. ASSUME NEW k \in Clients, Pool!Get(k) PROVE CreatedInv'
  BY <1>1, TakeFacts DEF Pool!Get, Pool!Take
<1>2. ASSUME NEW k \in Clients, Pool!GetEmpty(k) PROVE CreatedInv'
  BY <1>2 DEF Pool!GetEmpty
<1>3. ASSUME NEW k \in Clients, Pool!GetToken(k) PROVE CreatedInv'
  BY <1>3 DEF Pool!GetToken
<1>4. ASSUME NEW k \in Clients, Pool!GetNoToken(k) PROVE CreatedInv'
  BY <1>4 DEF Pool!GetNoToken
<1>5. ASSUME NEW k \in Clients, Pool!Wait(k) PROVE CreatedInv'
  BY <1>5, TakeFacts DEF Pool!Wait, Pool!Take
<1>6. ASSUME NEW k \in Clients, Pool!WaitTimeout(k) PROVE CreatedInv'
  BY <1>6 DEF Pool!WaitTimeout
<1>7. ASSUME NEW k \in Clients, NEW c \in Sockets, Pool!Create(k, c) PROVE CreatedInv'
  BY <1>7 DEF Pool!Create
<1>8. ASSUME NEW k \in Clients, Pool!CreateFailed(k) PROVE CreatedInv'
  BY <1>8 DEF Pool!CreateFailed
<1>9. ASSUME NEW k \in Clients, Pool!Made(k) PROVE CreatedInv'
  BY <1>9 DEF Pool!Made
<1>10. ASSUME NEW k \in Clients, Pool!MadeClosed(k) PROVE CreatedInv'
  BY <1>10 DEF Pool!MadeClosed
<1>11. ASSUME NEW k \in Clients, Pool!SleepEnd(k) PROVE CreatedInv'
  BY <1>11 DEF Pool!SleepEnd
<1>12. ASSUME NEW k \in Clients, Pool!ReleaseLook(k) PROVE CreatedInv'
  BY <1>12 DEF Pool!ReleaseLook
<1>13. ASSUME NEW k \in Clients, Pool!ReleasePut(k) PROVE CreatedInv'
  BY <1>13 DEF Pool!ReleasePut, HandInv
<1>14. ASSUME NEW k \in Clients, Pool!ReleaseToken(k) PROVE CreatedInv'
  BY <1>14 DEF Pool!ReleaseToken, HandInv
<1>15. ASSUME NEW b \in Beaters, Pool!BeatStart(b) PROVE CreatedInv'
  BY <1>15 DEF Pool!BeatStart
<1>16. ASSUME NEW b \in Beaters, Pool!BeatTake(b) PROVE CreatedInv'
  BY <1>16, TakeFacts DEF Pool!BeatTake
<1>17. ASSUME NEW b \in Beaters, Pool!BeatEmpty(b) PROVE CreatedInv'
  BY <1>17 DEF Pool!BeatEmpty
<1>18. ASSUME NEW b \in Beaters, Pool!BeatEnd(b) PROVE CreatedInv'
  BY <1>18 DEF Pool!BeatEnd, Pool!After
<1>19. ASSUME NEW b \in Beaters, Pool!BeatQuit(b) PROVE CreatedInv'
  BY <1>19 DEF Pool!BeatQuit
<1>20. ASSUME NEW b \in Beaters, Pool!BeatLook(b) PROVE CreatedInv'
  BY <1>20 DEF Pool!BeatLook
<1>21. ASSUME NEW b \in Beaters, Pool!BeatBack(b) PROVE CreatedInv'
  BY <1>21 DEF Pool!BeatBack, HandInv
<1>22. ASSUME NEW b \in Beaters, Pool!BeatDrop(b) PROVE CreatedInv'
  BY <1>22 DEF Pool!BeatDrop, HandInv
<1>23. ASSUME NEW c \in Sockets, Pool!Die(c) PROVE CreatedInv'
  BY <1>23 DEF Pool!Die
<1>24. ASSUME Pool!Quit PROVE CreatedInv'
  BY <1>24 DEF Pool!Quit
<1>25. CASE UNCHANGED Pool!vars
  BY <1>25 DEF Pool!vars
<1> QED
  BY <1>1, <1>2, <1>3, <1>4, <1>5, <1>6, <1>7, <1>8, <1>9, <1>10, <1>11, <1>12,
     <1>13, <1>14, <1>15, <1>16, <1>17, <1>18, <1>19, <1>20, <1>21, <1>22, <1>23,
     <1>24, <1>25, PoolBeaters DEF Pool!Next, Pool!GetRelease, Pool!Heartbeat

\* A socket moves from one place to another.
LEMMA PlaceStep ==
    Pool!TypeOK /\ HandInv /\ CreatedInv /\ PlaceInv /\ [Pool!Next]_Pool!vars => PlaceInv'
<1> SUFFICES ASSUME Pool!TypeOK, HandInv, CreatedInv, PlaceInv, [Pool!Next]_Pool!vars PROVE PlaceInv'
  OBVIOUS
<1> USE PoolAssumption, PoolBeaters DEF Pool!TypeOK, PlaceInv
<1>1. ASSUME NEW k \in Clients, Pool!Get(k) PROVE PlaceInv'
  BY <1>1, TakeFacts DEF Pool!Get, Pool!Take
<1>2. ASSUME NEW k \in Clients, Pool!GetEmpty(k) PROVE PlaceInv'
  BY <1>2 DEF Pool!GetEmpty
<1>3. ASSUME NEW k \in Clients, Pool!GetToken(k) PROVE PlaceInv'
  BY <1>3 DEF Pool!GetToken
<1>4. ASSUME NEW k \in Clients, Pool!GetNoToken(k) PROVE PlaceInv'
  BY <1>4 DEF Pool!GetNoToken
<1>5. ASSUME NEW k \in Clients, Pool!Wait(k) PROVE PlaceInv'
  BY <1>5, TakeFacts DEF Pool!Wait, Pool!Take
<1>6. ASSUME NEW k \in Clients, Pool!WaitTimeout(k) PROVE PlaceInv'
  BY <1>6 DEF Pool!WaitTimeout
<1>7. ASSUME NEW k \in Clients, NEW c \in Sockets, Pool!Create(k, c) PROVE PlaceInv'
  BY <1>7 DEF Pool!Create, CreatedInv
<1>8. ASSUME NEW k \in Clients, Pool!CreateFailed(k) PROVE PlaceInv'
  BY <1>8 DEF Pool!CreateFailed
<1>9. ASSUME NEW k \in Clients, Pool!Made(k) PROVE PlaceInv'
  BY <1>9 DEF Pool!Made
<1>10. ASSUME NEW k \in Clients, Pool!MadeClosed(k) PROVE PlaceInv'
  BY <1>10 DEF Pool!MadeClosed
<1>11. ASSUME NEW k \in Clients, Pool!SleepEnd(k) PROVE PlaceInv'
  BY <1>11 DEF Pool!SleepEnd
<1>12. ASSUME NEW k \in Clients, Pool!ReleaseLook(k) PROVE PlaceInv'
  BY <1>12 DEF Pool!ReleaseLook
<1>13. ASSUME NEW k \in Clients, Pool!ReleasePut(k) PROVE PlaceInv'
  <2>1. held[k] \in Sockets
    BY <1>13 DEF Pool!ReleasePut, HandInv
  <2> QED
    BY <1>13, <2>1, PutFacts DEF Pool!ReleasePut
<1>14. ASSUME NEW k \in Clients, Pool!ReleaseToken(k) PROVE PlaceInv'
  BY <1>14 DEF Pool!ReleaseToken
<1>15. ASSUME NEW b \in Beaters, Pool!BeatStart(b) PROVE PlaceInv'
  BY <1>15 DEF Pool!BeatStart
<1>16. ASSUME NEW b \in Beaters, Pool!BeatTake(b) PROVE PlaceInv'
  <2>1. /\ Len(pool) \in Nat \ {0}
        /\ \A i \in 1 .. Len(pool') : i + 1 \in 1 .. Len(pool) /\ pool'[i] = pool[i + 1]
    BY <1>16, TakeFacts DEF Pool!BeatTake
  <2>2. held' = held /\ hand' = [hand EXCEPT ![b] = pool[1]] /\ Len(pool') \in Nat
    BY <1>16, TakeFacts DEF Pool!BeatTake
  <2>3. hand'[b] = pool[1] /\ \A d \in Beaters \ {b} : hand'[d] = hand[d]
    BY <2>2
  <2>4. 1 \in 1 .. Len(pool) /\ \A i \in 1 .. Len(pool') : i + 1 # 1
    BY <2>1, <2>2
  <2>5. \A i, j \in 1 .. Len(pool') : pool'[i] = pool'[j] => i = j
    BY <2>1
  <2>6. \A i \in 1 .. Len(pool') : /\ \A k \in Clients : held'[k] # pool'[i]
                                   /\ \A d \in Beaters : hand'[d] # pool'[i]
    <3> SUFFICES ASSUME NEW i \in 1 .. Len(pool')
                 PROVE  /\ \A k \in Clients : held[k] # pool'[i]
                        /\ \A d \in Beaters : hand'[d] # pool'[i]
      BY <2>2
    <3>1. i + 1 \in 1 .. Len(pool) /\ pool'[i] = pool[i + 1] /\ i + 1 # 1
      BY <2>1, <2>4
    <3>2. hand'[b] # pool'[i]
      BY <2>3, <2>4, <3>1
    <3> QED
      BY <2>3, <3>1, <3>2
  <2>7. \A d, e \in Beaters : hand'[d] = hand'[e] /\ hand'[d] # NoSocket => d = e
    BY <2>1, <2>3, <2>4
  <2>8. \A k \in Clients, d \in Beaters : held'[k] = hand'[d] => held'[k] = NoSocket
    BY <2>2, <2>3, <2>4
  <2> QED
    BY <2>2, <2>5, <2>6, <2>7, <2>8
<1>17. ASSUME NEW b \in Beaters, Pool!BeatEmpty(b) PROVE PlaceInv'
  BY <1>17 DEF Pool!BeatEmpty
<1>18. ASSUME NEW b \in Beaters, Pool!BeatEnd(b) PROVE PlaceInv'
  BY <1>18 DEF Pool!BeatEnd, Pool!After
<1>19. ASSUME NEW b \in Beaters, Pool!BeatQuit(b) PROVE PlaceInv'
  BY <1>19 DEF Pool!BeatQuit
<1>20. ASSUME NEW b \in Beaters, Pool!BeatLook(b) PROVE PlaceInv'
  BY <1>20 DEF Pool!BeatLook
<1>21. ASSUME NEW b \in Beaters, Pool!BeatBack(b) PROVE PlaceInv'
  <2>1. hand[b] \in Sockets
    BY <1>21 DEF Pool!BeatBack, HandInv
  <2> QED
    BY <1>21, <2>1, PutFacts DEF Pool!BeatBack
<1>22. ASSUME NEW b \in Beaters, Pool!BeatDrop(b) PROVE PlaceInv'
  BY <1>22 DEF Pool!BeatDrop
<1>23. ASSUME NEW c \in Sockets, Pool!Die(c) PROVE PlaceInv'
  BY <1>23 DEF Pool!Die
<1>24. ASSUME Pool!Quit PROVE PlaceInv'
  BY <1>24 DEF Pool!Quit
<1>25. CASE UNCHANGED Pool!vars
  BY <1>25 DEF Pool!vars
<1> QED
  BY <1>1, <1>2, <1>3, <1>4, <1>5, <1>6, <1>7, <1>8, <1>9, <1>10, <1>11, <1>12,
     <1>13, <1>14, <1>15, <1>16, <1>17, <1>18, <1>19, <1>20, <1>21, <1>22, <1>23,
     <1>24, <1>25, PoolBeaters DEF Pool!Next, Pool!GetRelease, Pool!Heartbeat

\* A socket stays placed when the places it may be in keep it.
LEMMA StillPlaced ==
    ASSUME NEW c, Placed(c),
           \A i \in 1 .. Len(pool) : pool[i] = c => Placed(c)',
           \A k \in Clients : held[k] = c => Placed(c)',
           \A b \in Beaters : hand[b] = c => Placed(c)'
    PROVE  Placed(c)'
  BY DEF Placed

\* A socket that nobody keeps any more is dead.
LEMMA LiveStep ==
    Pool!TypeOK /\ HandInv /\ CreatedInv /\ LiveInv /\ [Pool!Next]_Pool!vars => LiveInv'
<1> SUFFICES ASSUME Pool!TypeOK, HandInv, CreatedInv, LiveInv, [Pool!Next]_Pool!vars PROVE LiveInv'
  OBVIOUS
<1> USE PoolAssumption, PoolBeaters DEF Pool!TypeOK, LiveInv
<1>1. ASSUME NEW k \in Clients, Pool!Get(k) PROVE LiveInv'
  <2>1. held[k] = NoSocket
    BY <1>1 DEF Pool!Get, Pool!Take, HandInv
  <2>2. ASSUME NEW c \in Sockets, Placed(c) PROVE Placed(c)'
    <3>1. ASSUME NEW i \in 1 .. Len(pool), pool[i] = c PROVE Placed(c)'
      <4>1. CASE i = 1
        <5>1. held'[k] = c
          BY <1>1, <3>1, <4>1, TakeFacts DEF Pool!Get, Pool!Take
        <5> QED
          BY <5>1 DEF Placed
      <4>2. CASE i # 1
        <5>1. i - 1 \in 1 .. Len(pool') /\ pool'[i - 1] = c
          BY <1>1, <3>1, <4>2, TakeFacts DEF Pool!Get, Pool!Take
        <5> QED
          BY <5>1 DEF Placed
      <4> QED
        BY <4>1, <4>2
    <3>2. ASSUME NEW l \in Clients, held[l] = c PROVE Placed(c)'
      BY <1>1, <2>1, <3>2 DEF Pool!Get, Pool!Take, Placed
    <3>3. ASSUME NEW e \in Beaters, hand[e] = c PROVE Placed(c)'
      BY <1>1, <2>1, <3>3 DEF Pool!Get, Pool!Take, Placed
    <3> QED
      BY <2>2, <3>1, <3>2, <3>3, StillPlaced
  <2> QED
    BY <1>1, <2>1, <2>2 DEF Pool!Get, Pool!Take
<1>2. ASSUME NEW k \in Clients, Pool!GetEmpty(k) PROVE LiveInv'
  BY <1>2 DEF Pool!GetEmpty, Placed
<1>3. ASSUME NEW k \in Clients, Pool!GetToken(k) PROVE LiveInv'
  BY <1>3 DEF Pool!GetToken, Placed
<1>4. ASSUME NEW k \in Clients, Pool!GetNoToken(k) PROVE LiveInv'
  BY <1>4 DEF Pool!GetNoToken, Placed
<1>5. ASSUME NEW k \in Clients, Pool!Wait(k) PROVE LiveInv'
  <2>1. held[k] = NoSocket
    BY <1>5 DEF Pool!Wait, Pool!Take, HandInv
  <2>2. ASSUME NEW c \in Sockets, Placed(c) PROVE Placed(c)'
    <3>1. ASSUME NEW i \in 1 .. Len(pool), pool[i] = c PROVE Placed(c)'
      <4>1. CASE i = 1
        <5>1. held'[k] = c
          BY <1>5, <3>1, <4>1, TakeFacts DEF Pool!Wait, Pool!Take
        <5> QED
          BY <5>1 DEF Placed
      <4>2. CASE i # 1
        <5>1. i - 1 \in 1 .. Len(pool') /\ pool'[i - 1] = c
          BY <1>5, <3>1, <4>2, TakeFacts DEF Pool!Wait, Pool!Take
        <5> QED
          BY <5>1 DEF Placed
      <4> QED
        BY <4>1, <4>2
    <3>2. ASSUME NEW l \in Clients, held[l] = c PROVE Placed(c)'
      BY <1>5, <2>1, <3>2 DEF Pool!Wait, Pool!Take, Placed
    <3>3. ASSUME NEW e \in Beaters, hand[e] = c PROVE Placed(c)'
      BY <1>5, <2>1, <3>3 DEF Pool!Wait, Pool!Take, Placed
    <3> QED
      BY <2>2, <3>1, <3>2, <3>3, StillPlaced
  <2> QED
    BY <1>5, <2>1, <2>2 DEF Pool!Wait, Pool!Take
<1>6. ASSUME NEW k \in Clients, Pool!WaitTimeout(k) PROVE LiveInv'
  BY <1>6 DEF Pool!WaitTimeout, Placed
<1>7. ASSUME NEW k \in Clients, NEW c \in Sockets, Pool!Create(k, c) PROVE LiveInv'
  <2>1. held[k] = NoSocket
    BY <1>7 DEF Pool!Create, HandInv
  <2>2. ASSUME NEW d \in Sockets, Placed(d) PROVE Placed(d)'
    BY <1>7, <2>1, <2>2 DEF Pool!Create, Placed
  <2>3. Placed(c)'
    BY <1>7 DEF Pool!Create, Placed
  <2> QED
    BY <1>7, <2>1, <2>2, <2>3 DEF Pool!Create, CreatedInv, HandInv
<1>8. ASSUME NEW k \in Clients, Pool!CreateFailed(k) PROVE LiveInv'
  BY <1>8 DEF Pool!CreateFailed, Placed
<1>9. ASSUME NEW k \in Clients, Pool!Made(k) PROVE LiveInv'
  BY <1>9, SMTT(30) DEF Pool!Made, Placed
<1>10. ASSUME NEW k \in Clients, Pool!MadeClosed(k) PROVE LiveInv'
  <2>1. held[k] \in Sockets /\ state[held[k]] = "closed"
    BY <1>10 DEF Pool!MadeClosed, HandInv
  <2>2. ASSUME NEW c \in Sockets, Placed(c), state[c] = "open" PROVE Placed(c)'
    BY <1>10, <2>1, <2>2 DEF Pool!MadeClosed, Placed
  <2> QED
    BY <1>10, <2>1, <2>2 DEF Pool!MadeClosed, HandInv
<1>11. ASSUME NEW k \in Clients, Pool!SleepEnd(k) PROVE LiveInv'
  BY <1>11 DEF Pool!SleepEnd, Placed
<1>12. ASSUME NEW k \in Clients, Pool!ReleaseLook(k) PROVE LiveInv'
  BY <1>12 DEF Pool!ReleaseLook, Placed, HandInv, CreatedInv
<1>13. ASSUME NEW k \in Clients, Pool!ReleasePut(k) PROVE LiveInv'
  <2>1. held[k] \in Sockets
    BY <1>13 DEF Pool!ReleasePut, HandInv
  <2>2. ASSUME NEW c \in Sockets, Placed(c) PROVE Placed(c)'
    <3>1. ASSUME NEW i \in 1 .. Len(pool), pool[i] = c PROVE Placed(c)'
      BY <1>13, <2>1, <3>1, PutFacts DEF Pool!ReleasePut, Placed
    <3>2. ASSUME NEW l \in Clients, held[l] = c PROVE Placed(c)'
      BY <1>13, <2>1, <3>2, PutFacts DEF Pool!ReleasePut, Placed
    <3>3. ASSUME NEW e \in Beaters, hand[e] = c PROVE Placed(c)'
      BY <1>13, <2>1, <3>3, PutFacts DEF Pool!ReleasePut, Placed
    <3> QED
      BY <2>2, <3>1, <3>2, <3>3, StillPlaced
  <2> QED
    BY <1>13, <2>1, <2>2 DEF Pool!ReleasePut
<1>14. ASSUME NEW k \in Clients, Pool!ReleaseToken(k) PROVE LiveInv'
  <2>1. held[k] \in Sockets /\ state[held[k]] = "closed"
    BY <1>14 DEF Pool!ReleaseToken, HandInv
  <2>2. ASSUME NEW c \in Sockets, Placed(c), state[c] = "open" PROVE Placed(c)'
    BY <1>14, <2>1, <2>2 DEF Pool!ReleaseToken, Placed
  <2> QED
    BY <1>14, <2>1, <2>2 DEF Pool!ReleaseToken, HandInv
<1>15. ASSUME NEW b \in Beaters, Pool!BeatStart(b) PROVE LiveInv'
  BY <1>15 DEF Pool!BeatStart, Placed
<1>16. ASSUME NEW b \in Beaters, Pool!BeatTake(b) PROVE LiveInv'
  <2>1. hand[b] = NoSocket
    BY <1>16 DEF Pool!BeatTake, HandInv
  <2>2. ASSUME NEW c \in Sockets, Placed(c) PROVE Placed(c)'
    <3>1. ASSUME NEW i \in 1 .. Len(pool), pool[i] = c PROVE Placed(c)'
      <4>1. CASE i = 1
        <5>1. hand'[b] = c
          BY <1>16, <3>1, <4>1, TakeFacts DEF Pool!BeatTake
        <5> QED
          BY <5>1 DEF Placed
      <4>2. CASE i # 1
        <5>1. i - 1 \in 1 .. Len(pool') /\ pool'[i - 1] = c
          BY <1>16, <3>1, <4>2, TakeFacts DEF Pool!BeatTake
        <5> QED
          BY <5>1 DEF Placed
      <4> QED
        BY <4>1, <4>2
    <3>2. ASSUME NEW l \in Clients, held[l] = c PROVE Placed(c)'
      BY <1>16, <2>1, <3>2 DEF Pool!BeatTake, Placed
    <3>3. ASSUME NEW e \in Beaters, hand[e] = c PROVE Placed(c)'
      BY <1>16, <2>1, <3>3 DEF Pool!BeatTake, Placed
    <3> QED
      BY <2>2, <3>1, <3>2, <3>3, StillPlaced
  <2> QED
    BY <1>16, <2>1, <2>2 DEF Pool!BeatTake
<1>17. ASSUME NEW b \in Beaters, Pool!BeatEmpty(b) PROVE LiveInv'
  BY <1>17 DEF Pool!BeatEmpty, Placed
<1>18. ASSUME NEW b \in Beaters, Pool!BeatEnd(b) PROVE LiveInv'
  <2>1. \A c \in Sockets : Placed(c)' <=> Placed(c)
    BY <1>18 DEF Pool!BeatEnd, Placed
  <2>2. \A d \in Beaters : beat'[d] = "drop" => beat[d] = "drop"
    BY <1>18 DEF Pool!BeatEnd, Pool!After
  <2> QED
    BY <1>18, <2>1, <2>2 DEF Pool!BeatEnd
<1>19. ASSUME NEW b \in Beaters, Pool!BeatQuit(b) PROVE LiveInv'
  BY <1>19 DEF Pool!BeatQuit, Placed
<1>20. ASSUME NEW b \in Beaters, Pool!BeatLook(b) PROVE LiveInv'
  <2>1. \A c \in Sockets : Placed(c)' <=> Placed(c)
    BY <1>20 DEF Pool!BeatLook, Placed
  <2>2. hand[b] \in Sockets /\ state[hand[b]] # "none"
    BY <1>20 DEF Pool!BeatLook, HandInv, CreatedInv
  <2> QED
    BY <1>20, <2>1, <2>2 DEF Pool!BeatLook
<1>21. ASSUME NEW b \in Beaters, Pool!BeatBack(b) PROVE LiveInv'
  <2>1. hand[b] \in Sockets
    BY <1>21 DEF Pool!BeatBack, HandInv
  <2>2. ASSUME NEW c \in Sockets, Placed(c) PROVE Placed(c)'
    <3>1. ASSUME NEW i \in 1 .. Len(pool), pool[i] = c PROVE Placed(c)'
      BY <1>21, <2>1, <3>1, PutFacts DEF Pool!BeatBack, Placed
    <3>2. ASSUME NEW l \in Clients, held[l] = c PROVE Placed(c)'
      BY <1>21, <2>1, <3>2, PutFacts DEF Pool!BeatBack, Placed
    <3>3. ASSUME NEW e \in Beaters, hand[e] = c PROVE Placed(c)'
      BY <1>21, <2>1, <3>3, PutFacts DEF Pool!BeatBack, Placed
    <3> QED
      BY <2>2, <3>1, <3>2, <3>3, StillPlaced
  <2> QED
    BY <1>21, <2>1, <2>2 DEF Pool!BeatBack
<1>22. ASSUME NEW b \in Beaters, Pool!BeatDrop(b) PROVE LiveInv'
  <2>1. hand[b] \in Sockets /\ state[hand[b]] = "closed"
    BY <1>22 DEF Pool!BeatDrop, HandInv
  <2>2. ASSUME NEW c \in Sockets, Placed(c), state[c] = "open" PROVE Placed(c)'
    BY <1>22, <2>1, <2>2 DEF Pool!BeatDrop, Placed
  <2> QED
    BY <1>22, <2>1, <2>2 DEF Pool!BeatDrop, HandInv
<1>23. ASSUME NEW c \in Sockets, Pool!Die(c) PROVE LiveInv'
  BY <1>23 DEF Pool!Die, Placed, HandInv, CreatedInv
<1>24. ASSUME Pool!Quit PROVE LiveInv'
  BY <1>24 DEF Pool!Quit, Placed
<1>25. CASE UNCHANGED Pool!vars
  BY <1>25 DEF Pool!vars, Placed
<1> QED
  BY <1>1, <1>2, <1>3, <1>4, <1>5, <1>6, <1>7, <1>8, <1>9, <1>10, <1>11, <1>12,
     <1>13, <1>14, <1>15, <1>16, <1>17, <1>18, <1>19, <1>20, <1>21, <1>22, <1>23,
     <1>24, <1>25, PoolBeaters DEF Pool!Next, Pool!GetRelease, Pool!Heartbeat

-----------------------------------------------------------------------------
\* PoolInv holds in every state of the pool.
THEOREM PoolInvariant == Pool!Spec => []PoolInv
<1>1. Pool!Init => PoolInv
  <2> SUFFICES ASSUME Pool!Init PROVE PoolInv
    OBVIOUS
  <2>1. Pool!TypeOK
    <3>1. pool \in Seq(Sockets) /\ Len(pool) = 0
      BY EmptySeq, PoolBeaters DEF Pool!Init
    <3>2. PoolSize \in Nat
      BY PoolAssumption
    <3>3. size \in 0 .. PoolSize /\ left \in [Beaters -> 0 .. PoolSize]
      BY <3>2, PoolBeaters DEF Pool!Init
    <3>4. Len(pool) <= PoolSize
      BY <3>1, <3>2
    <3> QED
      BY <3>1, <3>3, <3>4, PoolBeaters DEF Pool!Init, Pool!TypeOK
  <2>2. HandInv
    BY PoolBeaters DEF Pool!Init, HandInv
  <2>3. CreatedInv /\ PlaceInv
    BY PoolBeaters DEF Pool!Init, CreatedInv, PlaceInv
  <2>4. LiveInv
    BY PoolBeaters DEF Pool!Init, LiveInv
  <2>5. Debtors = {}
    BY PoolBeaters DEF Pool!Init, Debtors
  <2>6. CapacityConserved
    BY <2>5, FS_EmptySet, PoolAssumption, PoolBeaters DEF Pool!Init, CapacityConserved
  <2> QED
    BY <2>1, <2>2, <2>3, <2>4, <2>6 DEF PoolInv
<1>2. PoolInv /\ [Pool!Next]_Pool!vars => PoolInv'
  BY PoolTypeStep, HandStep, CapacityStep, CreatedStep, PlaceStep, LiveStep DEF PoolInv
<1> QED
  BY <1>1, <1>2, PTL DEF Pool!Spec

\* Every variable keeps its type; in particular neither Go channel is ever filled beyond its
\* capacity.
THEOREM PoolTypeCorrect == Pool!Spec => []Pool!TypeOK
<1>1. PoolInv => Pool!TypeOK
  BY DEF PoolInv
<1> QED
  BY <1>1, PoolInvariant, PTL

\* Tokens, sockets in the pool and the debts of the goroutines always sum up to PoolSize.
THEOREM CapacityTheorem == Pool!Spec => []CapacityConserved
<1>1. PoolInv => CapacityConserved
  BY DEF PoolInv
<1> QED
  BY <1>1, PoolInvariant, PTL

\* release and heartbeat find room on the Go channel they send to, whatever the number of
\* clients, dead sockets and heartbeats at work.
THEOREM NeverBlocksTheorem == Pool!Spec => []NeverBlocks
<1>1. PoolInv => NeverBlocks
  <2> SUFFICES ASSUME PoolInv PROVE NeverBlocks
    OBVIOUS
  <2>1. ASSUME NEW k \in Clients, client[k] \in {"put", "sleep", "token"}
        PROVE  Len(pool) < PoolSize /\ size < PoolSize
    <3>1. k \in Debtors
      BY <2>1 DEF Debtors
    <3> QED
      BY <3>1, RoomToSend DEF PoolInv
  <2>2. ASSUME NEW b \in Beaters, beat[b] \in {"back", "drop"}
        PROVE  Len(pool) < PoolSize /\ size < PoolSize
    <3>1. b \in Debtors
      BY <2>2 DEF Debtors
    <3> QED
      BY <3>1, RoomToSend DEF PoolInv
  <2> QED
    BY <2>1, <2>2 DEF NeverBlocks
<1> QED
  BY <1>1, PoolInvariant, PTL

\* A socket is never in two places, and a living one is always in one: no socket is shared
\* and none leaks.
THEOREM OneOwnerTheorem == Pool!Spec => []OneOwner
<1>1. PoolInv => OneOwner
  <2> SUFFICES ASSUME PoolInv PROVE OneOwner
    OBVIOUS
  <2> USE DEF PoolInv
  <2>1. \A i, j \in 1 .. Len(pool) : pool[i] = pool[j] => i = j
    BY DEF PlaceInv
  <2>2. ASSUME NEW c \in Sockets PROVE Cardinality(Owners(c)) <= 1
    <3>1. \A x, y \in Owners(c) : x = y
      BY PoolAssumption DEF Owners, PlaceInv
    <3>2. CASE Owners(c) = {}
      BY <3>2, FS_EmptySet
    <3>3. CASE Owners(c) # {}
      <4>1. PICK x : Owners(c) = {x}
        BY <3>1, <3>3
      <4>2. Cardinality({x}) = 1
        BY FS_Singleton
      <4> QED
        BY <4>1, <4>2
    <3> QED
      BY <3>2, <3>3
  <2>3. ASSUME NEW c \in Sockets, c \in InPool PROVE Owners(c) = {}
    BY <2>3 DEF InPool, Owners, PlaceInv
  <2>4. ASSUME NEW c \in Sockets, state[c] = "open" PROVE c \in InPool \/ Owners(c) # {}
    BY <2>4 DEF InPool, Owners, LiveInv, Placed
  <2> QED
    BY <2>1, <2>2, <2>3, <2>4 DEF OneOwner
<1> QED
  BY <1>1, PoolInvariant, PTL
=============================================================================
