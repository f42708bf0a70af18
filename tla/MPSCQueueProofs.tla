--------------------------- MODULE MPSCQueueProofs ---------------------------
(***************************************************************************)
(* Proofs about MPSCQueue: no two goroutines touch the data of a slot at   *)
(* once, and the ring implements the bounded queue of BoundedFIFO, for     *)
(* every set of producers and every capacity, limit and number of sends.   *)
(*                                                                         *)
(* Every slot stands for exactly one position of the window that starts at *)
(* the first position the consumer has not released yet and is Cap long.   *)
(* From the left the window holds the positions that were consumed, the    *)
(* ones that were claimed, written to or published, and the free ones; the *)
(* sequence number of a slot tells the three parts apart.                  *)
(***************************************************************************)
EXTENDS MPSCQueue, TLAPS

Released == IF cpc = "release" THEN free ELSE tail

InWindow(n) == Released <= n /\ n < Released + Cap

\* The producer has claimed a position and not yet published it.
Owns(p) == ppc[p] \in {"write", "publish"}

\* How the consumer's counters, the claims and the items read fit together.
CountInv ==
    /\ head = Len(log)
    /\ Len(got) = IF cpc \in {"out", "done"} THEN tail ELSE pos
    /\ cpc \in {"peek", "take", "empty", "wait", "recheck", "len", "commit"} => pos = tail + count
    /\ cpc \in {"empty", "wait", "recheck", "len"} => count = 0
    /\ cpc = "take" => count < Limit
    /\ cpc = "release" => tail = pos /\ free <= pos
    /\ cpc = "len" => closed
    /\ Len(got) <= head
    /\ head <= Released + Cap

\* What was read is what was claimed, in the order of the claims.
PrefixInv == \A i \in 1 .. Len(got) : got[i] = log[i]

\* The sequence numbers and the data of the slots, by the position they stand for.
WindowInv ==
    \A n \in Nat : InWindow(n) =>
        /\ n < Len(got) => sequence[Index(n)] = n + 1
        /\ head <= n => sequence[Index(n)] = n
        /\ Len(got) <= n /\ n < head =>
            \/ sequence[Index(n)] = n
            \/ sequence[Index(n)] = n + 1 /\ data[Index(n)] = log[n + 1]

\* What a producer knows of the position it has loaded.
OwnerInv ==
    \A p \in Producers :
        /\ mine[p] <= head
        /\ ppc[p] # "idle" => sends[p] # 0
        /\ ppc[p] = "cas" => mine[p] < Released + Cap
        /\ Owns(p) =>
            /\ Len(got) <= mine[p] /\ mine[p] < head
            /\ sequence[Index(mine[p])] = mine[p]
            /\ log[mine[p] + 1] = Item(p)
            /\ \A q \in Producers \ {p} : Owns(q) => mine[q] # mine[p]
        /\ ppc[p] = "publish" => data[Index(mine[p])] = Item(p)

\* The item the consumer is about to read is there.
TakeInv == cpc = "take" => pos < head /\ sequence[Index(pos)] = pos + 1

QueueInv ==
    /\ TypeOK
    /\ CountInv
    /\ PrefixInv
    /\ WindowInv
    /\ OwnerInv
    /\ TakeInv

-----------------------------------------------------------------------------
(***************************************************************************)
(* The arithmetic of the ring.                                             *)
(***************************************************************************)
\* Division with remainder.
LEMMA DivMod ==
    ASSUME NEW a \in Nat
    PROVE  /\ a % Cap \in 0 .. Cap - 1
           /\ a \div Cap \in Nat
           /\ a = Cap * (a \div Cap) + (a % Cap)
BY QueueAssumption

\* Two multiples of Cap that are less than Cap apart are the same.
LEMMA Multiples ==
    ASSUME NEW x \in Nat, NEW y \in Nat, Cap * x < Cap * y + Cap, Cap * y < Cap * x + Cap
    PROVE  x = y
BY QueueAssumption

\* head & q.mask is a slot.
LEMMA IndexIsSlot ==
    ASSUME NEW a \in Nat
    PROVE  Index(a) \in Slots
BY DivMod, QueueAssumption DEF Index, Slots

\* In the first round the positions are the slots.
LEMMA IndexOfSlot ==
    ASSUME NEW i \in Slots
    PROVE  Index(i) = i
BY QueueAssumption DEF Index, Slots

\* Two positions in one slot are a round apart.
LEMMA IndexInjective ==
    ASSUME NEW a \in Nat, NEW b \in Nat, a < b + Cap, b < a + Cap, Index(a) = Index(b)
    PROVE  a = b
<1> DEFINE x == a \div Cap
           y == b \div Cap
<1>1. /\ x \in Nat /\ y \in Nat
      /\ a = Cap * x + (a % Cap)
      /\ b = Cap * y + (b % Cap)
  BY DivMod
<1>2. a % Cap = b % Cap /\ a % Cap \in 0 .. Cap - 1
  BY DivMod DEF Index
<1> HIDE DEF x, y
<1>3. Cap * x < Cap * y + Cap /\ Cap * y < Cap * x + Cap
  BY <1>1, <1>2, QueueAssumption
<1>4. x = y
  BY <1>1, <1>3, Multiples
<1> QED
  BY <1>1, <1>2, <1>4

\* The position one round later is in the same slot.
LEMMA IndexWraps ==
    ASSUME NEW a \in Nat
    PROVE  Index(a + Cap) = Index(a)
<1> DEFINE x == a \div Cap
           y == (a + Cap) \div Cap
<1>0. a + Cap \in Nat
  BY QueueAssumption
<1>1. /\ x \in Nat /\ y \in Nat
      /\ a = Cap * x + (a % Cap)
      /\ a + Cap = Cap * y + ((a + Cap) % Cap)
      /\ a % Cap \in 0 .. Cap - 1 /\ (a + Cap) % Cap \in 0 .. Cap - 1
  BY <1>0, DivMod
<1> HIDE DEF x, y
<1>2. Cap * (x + 1) = Cap * x + Cap
  BY <1>1, QueueAssumption
<1>3. Cap * (x + 1) < Cap * y + Cap /\ Cap * y < Cap * (x + 1) + Cap
  BY <1>1, <1>2, QueueAssumption
<1>4. y = x + 1
  BY <1>1, <1>3, Multiples
<1> QED
  BY <1>1, <1>2, <1>4, QueueAssumption DEF Index

\* What Append does to a sequence.
LEMMA AppendAt ==
    ASSUME NEW s \in Seq(Items), NEW x
    PROVE  /\ Append(s, x)[Len(s) + 1] = x
           /\ \A i \in 1 .. Len(s) : Append(s, x)[i] = s[i]
OBVIOUS

-----------------------------------------------------------------------------
(***************************************************************************)
(* What the invariant says about single positions.                         *)
(***************************************************************************)
\* The types of the counters.
LEMMA Counters ==
    ASSUME QueueInv
    PROVE  /\ head \in Nat /\ tail \in Nat /\ pos \in Nat /\ free \in Nat /\ count \in Nat
           /\ Released \in Nat /\ Cap \in Nat /\ Cap > 1
           /\ Len(got) \in Nat /\ Len(log) \in Nat
           /\ Released <= Len(got)
BY QueueAssumption DEF QueueInv, TypeOK, CountInv, Released, ConsumerSteps

\* The slot of a position in the window.
LEMMA WindowAt ==
    ASSUME QueueInv, NEW n \in Nat, Released <= n, n < Released + Cap
    PROVE  /\ n < Len(got) => sequence[Index(n)] = n + 1
           /\ head <= n => sequence[Index(n)] = n
           /\ Len(got) <= n /\ n < head =>
                \/ sequence[Index(n)] = n
                \/ sequence[Index(n)] = n + 1 /\ data[Index(n)] = log[n + 1]
BY DEF QueueInv, WindowInv, InWindow

\* Positions of the window that are in one slot are the same.
LEMMA WindowInjective ==
    ASSUME QueueInv,
           NEW a \in Nat, Released <= a, a < Released + Cap,
           NEW b \in Nat, Released <= b, b < Released + Cap,
           Index(a) = Index(b)
    PROVE  a = b
BY Counters, IndexInjective

\* A producer that owns a position.
LEMMA OwnerAt ==
    ASSUME QueueInv, NEW p \in Producers, Owns(p)
    PROVE  /\ mine[p] \in Nat
           /\ Released <= mine[p] /\ mine[p] < Released + Cap
           /\ Len(got) <= mine[p] /\ mine[p] < head
           /\ sequence[Index(mine[p])] = mine[p]
           /\ log[mine[p] + 1] = Item(p)
           /\ Item(p) \in Items
<1>1. mine[p] \in Nat
  BY DEF QueueInv, TypeOK
<1>2. /\ Len(got) <= mine[p] /\ mine[p] < head
      /\ sequence[Index(mine[p])] = mine[p]
      /\ log[mine[p] + 1] = Item(p)
      /\ sends[p] # 0
  BY DEF QueueInv, OwnerInv, Owns
<1>3. head <= Released + Cap
  BY DEF QueueInv, CountInv
<1>4. Released <= mine[p] /\ mine[p] < Released + Cap
  BY <1>1, <1>2, <1>3, Counters
<1>5. Item(p) \in Items
  BY <1>2, QueueAssumption DEF QueueInv, TypeOK, Item, Items
<1> QED
  BY <1>1, <1>2, <1>4, <1>5

\* The item that is about to be read.
LEMMA TakeAt ==
    ASSUME QueueInv, cpc = "take"
    PROVE  /\ Len(got) = pos /\ Released <= pos /\ pos < head /\ pos < Released + Cap
           /\ sequence[Index(pos)] = pos + 1
           /\ data[Index(pos)] = log[pos + 1]
           /\ log[pos + 1] \in Items
<1>1. Len(got) = pos /\ pos < head /\ sequence[Index(pos)] = pos + 1
  BY DEF QueueInv, CountInv, TakeInv
<1>2. head <= Released + Cap /\ head = Len(log)
  BY DEF QueueInv, CountInv
<1>3. Released <= pos /\ pos < Released + Cap
  BY <1>1, <1>2, Counters
<1>4. data[Index(pos)] = log[pos + 1]
  BY <1>1, <1>3, Counters, WindowAt, SMTT(30)
<1>5. log \in Seq(Items) /\ pos + 1 \in 1 .. Len(log)
  BY <1>1, <1>2, Counters DEF QueueInv, TypeOK
<1> QED
  BY <1>1, <1>3, <1>4, <1>5

\* At the end of a full window there is nothing to take and nothing to claim: the slot
\* is still the one of the window's first position.
LEMMA FullWindow ==
    ASSUME QueueInv, head = Released + Cap
    PROVE  sequence[Index(head)] = Released \/ sequence[Index(head)] = Released + 1
<1>1. Index(head) = Index(Released)
  BY Counters, IndexWraps
<1>2. Released < head
  BY Counters
<1> QED
  BY <1>1, <1>2, Counters, WindowAt

-----------------------------------------------------------------------------
(***************************************************************************)
(* Init.                                                                   *)
(***************************************************************************)
LEMMA InitInv ==
    ASSUME Init
    PROVE  QueueInv
<1>0. Cap \in Nat /\ Limit \in Nat /\ MaxSends \in Nat
  BY QueueAssumption
<1>1. TypeOK
  <2>1. sequence \in [Slots -> Nat] /\ data \in [Slots -> Items \cup {NoItem}]
    BY <1>0 DEF Init, Slots
  <2>2. log \in Seq(Items) /\ got \in Seq(Items)
    BY DEF Init
  <2>3. /\ sends \in [Producers -> 0 .. MaxSends]
        /\ mine \in [Producers -> Nat]
        /\ count \in 0 .. Limit /\ schedule \in 0 .. 3
    BY <1>0 DEF Init
  <2>4. try \in [Producers -> BOOLEAN] /\ closed \in BOOLEAN /\ noticer \in BOOLEAN
        /\ closing \in BOOLEAN
    BY DEF Init
  <2>5. ppc \in [Producers -> ProducerSteps] /\ cpc \in ConsumerSteps
    BY DEF Init, ProducerSteps, ConsumerSteps
  <2>6. head \in Nat /\ tail \in Nat /\ pos \in Nat /\ free \in Nat
    BY DEF Init
  <2> QED
    BY <2>1, <2>2, <2>3, <2>4, <2>5, <2>6 DEF TypeOK
<1>2. CountInv
  BY <1>0 DEF Init, CountInv, Released
<1>3. PrefixInv
  BY DEF Init, PrefixInv
<1>4. WindowInv
  <2> SUFFICES ASSUME NEW n \in Nat, InWindow(n)
               PROVE  sequence[Index(n)] = n /\ ~(n < head)
    BY DEF WindowInv, Init
  <2>1. n \in Slots
    BY <1>0 DEF InWindow, Released, Init, Slots
  <2> QED
    BY <2>1, IndexOfSlot DEF Init
<1>5. OwnerInv
  <2> SUFFICES ASSUME NEW p \in Producers
               PROVE  mine[p] <= head /\ ppc[p] = "idle"
    BY DEF OwnerInv, Owns
  <2> QED
    BY DEF Init
<1>6. TakeInv
  BY DEF Init, TakeInv
<1> QED
  BY <1>1, <1>2, <1>3, <1>4, <1>5, <1>6 DEF QueueInv

-----------------------------------------------------------------------------
(***************************************************************************)
(* The steps.  Five of them touch the ring; the others leave it as it is.  *)
(***************************************************************************)
Contents == <<head, sequence, data, log, got>>

\* A step that changes neither the ring nor the window.
Quiet == UNCHANGED Contents /\ Released' = Released

ProducerQuiet(p) ==
    \/ Call(p)
    \/ CheckClosed(p)
    \/ LoadHead(p)
    \/ SlotFree(p)
    \/ SlotTaken(p)
    \/ SlotPassed(p)
    \/ RecheckFull(p)
    \/ LoseClaim(p)
    \/ Notify(p)

ConsumerQuiet ==
    \/ Dequeue
    \/ PeekReady
    \/ PeekEnd
    \/ Empty
    \/ Wait
    \/ RecheckClosed
    \/ LenOfClosed
    \/ Commit
    \/ Return

\* A step of somebody else than the consumer or a producer.
OtherQuiet == Close \/ CloseNotify \/ UNCHANGED vars

LEMMA StepKinds ==
    ASSUME [Next]_vars
    PROVE  \/ \E p \in Producers :
                ProducerQuiet(p) \/ Claim(p) \/ Write(p) \/ Publish(p)
           \/ ConsumerQuiet
           \/ OtherQuiet
           \/ Take
           \/ Release
BY DEF Next, Produce, Consume, ProducerQuiet, ConsumerQuiet, OtherQuiet

\* What the steps that do not touch the ring leave alone.
LEMMA ProducerLeaves ==
    ASSUME NEW p \in Producers, ProducerQuiet(p)
    PROVE  UNCHANGED <<Contents, consumer, tail, closed>>
BY DEF ProducerQuiet, Call, CheckClosed, LoadHead, SlotFree, SlotTaken, SlotPassed, RecheckFull,
       LoseClaim, Notify, Contents, ring

LEMMA ConsumerLeaves ==
    ASSUME ConsumerQuiet
    PROVE  UNCHANGED <<Contents, producer, closed>>
BY DEF ConsumerQuiet, Dequeue, PeekReady, PeekEnd, Empty, Wait, RecheckClosed, LenOfClosed,
       Commit, Return, Contents, ring

LEMMA OtherLeaves ==
    ASSUME OtherQuiet
    PROVE  UNCHANGED <<ring, producer, consumer, log, got>> /\ (closed => closed')
BY DEF OtherQuiet, Close, CloseNotify, vars, ring, producer, consumer

LEMMA ConsumerKeepsWindow ==
    ASSUME QueueInv, ConsumerQuiet
    PROVE  Released' = Released
<1>1. CASE Commit
  <2>1. pos = tail + count
    BY <1>1 DEF Commit, QueueInv, CountInv
  <2>2. free' = tail
    BY <1>1, <2>1, Counters DEF Commit
  <2> QED
    BY <1>1, <2>2 DEF Commit, Released
<1>2. CASE Return
  <2>1. tail = pos /\ free = pos
    BY <1>2 DEF Return, QueueInv, CountInv
  <2> QED
    BY <1>2, <2>1 DEF Return, Released, ring
<1>3. CASE Dequeue \/ PeekReady \/ PeekEnd \/ Empty \/ Wait \/ RecheckClosed \/ LenOfClosed
  BY <1>3 DEF Dequeue, PeekReady, PeekEnd, Empty, Wait, RecheckClosed, LenOfClosed, Released, ring
<1> QED
  BY <1>1, <1>2, <1>3 DEF ConsumerQuiet

LEMMA QuietSteps ==
    ASSUME QueueInv, (\E p \in Producers : ProducerQuiet(p)) \/ ConsumerQuiet \/ OtherQuiet
    PROVE  Quiet
<1>1. CASE \E p \in Producers : ProducerQuiet(p)
  BY <1>1, ProducerLeaves DEF Quiet, Contents, consumer, Released
<1>2. CASE ConsumerQuiet
  BY <1>2, ConsumerLeaves, ConsumerKeepsWindow DEF Quiet
<1>3. CASE OtherQuiet
  BY <1>3, OtherLeaves DEF Quiet, Contents, ring, consumer, Released
<1> QED
  BY <1>1, <1>2, <1>3

-----------------------------------------------------------------------------
(***************************************************************************)
(* Types.                                                                  *)
(***************************************************************************)
LEMMA TypeStep ==
    ASSUME QueueInv, [Next]_vars
    PROVE  TypeOK'
<1>0. TypeOK /\ Cap \in Nat /\ Limit \in Nat /\ MaxSends \in Nat
  BY QueueAssumption DEF QueueInv
<1>1. ASSUME NEW p \in Producers, ProducerQuiet(p)
      PROVE  TypeOK'
  <2>1. UNCHANGED <<Contents, consumer, tail, closed>>
    BY <1>1, ProducerLeaves
  <2>2. UNCHANGED closing
    BY <1>1 DEF ProducerQuiet, Call, CheckClosed, LoadHead, SlotFree, SlotTaken, SlotPassed,
                RecheckFull, LoseClaim, Notify
  <2>3. noticer' \in BOOLEAN
    BY <1>0, <1>1 DEF TypeOK, ProducerQuiet, Call, CheckClosed, LoadHead, SlotFree, SlotTaken,
                SlotPassed, RecheckFull, LoseClaim, Notify
  <2>4. ppc' \in [Producers -> ProducerSteps]
    BY <1>0, <1>1 DEF TypeOK, ProducerQuiet, Call, CheckClosed, LoadHead, SlotFree, SlotTaken,
                SlotPassed, RecheckFull, LoseClaim, Notify, Goto, Retry, ProducerSteps
  <2>5. mine' \in [Producers -> Nat]
    BY <1>0, <1>1 DEF TypeOK, ProducerQuiet, Call, CheckClosed, LoadHead, SlotFree, SlotTaken,
                SlotPassed, RecheckFull, LoseClaim, Notify
  <2>6. sends' \in [Producers -> 0 .. MaxSends] /\ try' \in [Producers -> BOOLEAN]
    <3>1. CASE Call(p)
      <4>1. sends[p] + 1 \in 0 .. MaxSends
        BY <1>0, <3>1 DEF TypeOK, Call
      <4>2. PICK b \in Tries[p] : try' = [try EXCEPT ![p] = b]
        BY <3>1 DEF Call
      <4>3. b \in BOOLEAN
        BY QueueAssumption
      <4> QED
        BY <1>0, <3>1, <4>1, <4>2, <4>3 DEF TypeOK, Call
    <3>2. CASE ~Call(p)
      <4>1. UNCHANGED <<sends, try>>
        BY <1>1, <3>2 DEF ProducerQuiet, CheckClosed, LoadHead, SlotFree, SlotTaken,
                          SlotPassed, RecheckFull, LoseClaim, Notify
      <4> QED
        BY <1>0, <4>1 DEF TypeOK
    <3> QED
      BY <3>1, <3>2
  <2> QED
    BY <1>0, <2>1, <2>2, <2>3, <2>4, <2>5, <2>6 DEF TypeOK, Contents, consumer
<1>2. CASE ConsumerQuiet
  <2>1. UNCHANGED <<Contents, producer, closed>>
    BY <1>2, ConsumerLeaves
  <2>2. UNCHANGED closing
    BY <1>2 DEF ConsumerQuiet, Dequeue, PeekReady, PeekEnd, Empty, Wait, RecheckClosed,
                LenOfClosed, Commit, Return
  <2>3. noticer' \in BOOLEAN /\ cpc' \in ConsumerSteps
    BY <1>0, <1>2 DEF TypeOK, ConsumerQuiet, Dequeue, PeekReady, PeekEnd, Empty, Wait,
                RecheckClosed, LenOfClosed, Commit, Return, ConsumerSteps
  <2>4. tail' \in Nat /\ pos' \in Nat /\ count' \in 0 .. Limit /\ schedule' \in 0 .. 3
    BY <1>0, <1>2 DEF TypeOK, ConsumerQuiet, Dequeue, PeekReady, PeekEnd, Empty, Wait,
                RecheckClosed, LenOfClosed, Commit, Return, ring
  <2>5. free' \in Nat
    <3>1. CASE Commit
      BY <3>1, Counters DEF Commit, QueueInv, CountInv
    <3>2. CASE ~Commit
      BY <1>0, <1>2, <3>2 DEF TypeOK, ConsumerQuiet, Dequeue, PeekReady, PeekEnd, Empty, Wait,
                RecheckClosed, LenOfClosed, Return
    <3> QED
      BY <3>1, <3>2
  <2> QED
    BY <1>0, <2>1, <2>2, <2>3, <2>4, <2>5 DEF TypeOK, Contents, producer
<1>3. CASE OtherQuiet
  <2>1. UNCHANGED <<ring, producer, consumer, log, got>>
    BY <1>3, OtherLeaves
  <2>2. closed' \in BOOLEAN /\ noticer' \in BOOLEAN /\ closing' \in BOOLEAN
    BY <1>0, <1>3 DEF OtherQuiet, Close, CloseNotify, vars, TypeOK
  <2> QED
    BY <1>0, <2>1, <2>2 DEF TypeOK, ring, producer, consumer
<1>4. ASSUME NEW p \in Producers, Claim(p)
      PROVE  TypeOK'
  <2>1. sends[p] # 0
    BY <1>4 DEF Claim, QueueInv, OwnerInv
  <2>2. Item(p) \in Items
    BY <1>0, <2>1 DEF TypeOK, Item, Items
  <2>3. log' \in Seq(Items) /\ head' \in Nat
    BY <1>0, <1>4, <2>2 DEF TypeOK, Claim
  <2>4. ppc' \in [Producers -> ProducerSteps]
    BY <1>0, <1>4 DEF TypeOK, Claim, Goto, ProducerSteps
  <2> QED
    BY <1>0, <1>4, <2>3, <2>4 DEF TypeOK, Claim, consumer
<1>5. ASSUME NEW p \in Producers, Write(p)
      PROVE  TypeOK'
  <2>1. Item(p) \in Items
    BY <1>5, OwnerAt DEF Write, Owns
  <2>2. data' \in [Slots -> Items \cup {NoItem}]
    BY <1>0, <1>5, <2>1 DEF TypeOK, Write
  <2>3. ppc' \in [Producers -> ProducerSteps]
    BY <1>0, <1>5 DEF TypeOK, Write, Goto, ProducerSteps
  <2> QED
    BY <1>0, <1>5, <2>2, <2>3 DEF TypeOK, Write, consumer
<1>6. ASSUME NEW p \in Producers, Publish(p)
      PROVE  TypeOK'
  <2>1. sequence' \in [Slots -> Nat]
    <3>1. mine[p] + 1 \in Nat
      BY <1>0 DEF TypeOK
    <3> QED
      BY <1>0, <1>6, <3>1 DEF TypeOK, Publish
  <2>2. ppc' \in [Producers -> ProducerSteps]
    BY <1>0, <1>6 DEF TypeOK, Publish, Goto, ProducerSteps
  <2> QED
    BY <1>0, <1>6, <2>1, <2>2 DEF TypeOK, Publish, consumer
<1>7. CASE Take
  <2>1. data[Index(pos)] \in Items
    BY <1>7, TakeAt DEF Take
  <2>2. got' \in Seq(Items) /\ data' \in [Slots -> Items \cup {NoItem}]
    <3>1. got' \in Seq(Items)
      BY <1>0, <1>7, <2>1 DEF TypeOK, Take
    <3>2. data' \in [Slots -> Items \cup {NoItem}]
      BY <1>0, <1>7 DEF TypeOK, Take
    <3> QED
      BY <3>1, <3>2
  <2>3. count < Limit
    BY <1>7 DEF Take, QueueInv, CountInv
  <2>4. pos' \in Nat /\ count' \in 0 .. Limit /\ cpc' \in ConsumerSteps
    BY <1>0, <1>7, <2>3 DEF TypeOK, Take, ConsumerSteps
  <2> QED
    BY <1>0, <1>7, <2>2, <2>4 DEF TypeOK, Take, producer
<1>8. CASE Release
  <2>1. sequence' \in [Slots -> Nat] /\ free' \in Nat
    <3>1. free + 1 \in Nat /\ free + Cap \in Nat
      BY <1>0 DEF TypeOK
    <3> QED
      BY <1>0, <1>8, <3>1 DEF TypeOK, Release
  <2> QED
    BY <1>0, <1>8, <2>1 DEF TypeOK, Release, producer
<1> QED
  BY <1>1, <1>2, <1>3, <1>4, <1>5, <1>6, <1>7, <1>8, StepKinds

-----------------------------------------------------------------------------
(***************************************************************************)
(* The counters.                                                           *)
(***************************************************************************)
LEMMA CountStep ==
    ASSUME QueueInv, [Next]_vars
    PROVE  CountInv'
<1>0. CountInv /\ TypeOK
  BY DEF QueueInv
<1>1. CASE ConsumerQuiet
  <2>1. UNCHANGED <<Contents, closed>> /\ Released' = Released
    BY <1>1, ConsumerLeaves, ConsumerKeepsWindow
  <2>2. /\ head' = Len(log') /\ Len(got') <= head'
        /\ head' <= Released' + Cap
    BY <1>0, <2>1 DEF CountInv, Contents
  <2>3. CASE Dequeue
    <3>1. tail' = tail /\ pos' = tail /\ count' = 0 /\ cpc = "out" /\ cpc' = "peek"
      BY <2>3 DEF Dequeue, ring
    <3>2. Len(got) = tail
      BY <1>0, <3>1 DEF CountInv
    <3> QED
      BY <2>1, <2>2, <3>1, <3>2, Counters DEF CountInv, Contents
  <2>4. CASE PeekReady
    <3>1. UNCHANGED <<tail, pos, count>> /\ cpc = "peek" /\ cpc' = "take" /\ count < Limit
      BY <2>4 DEF PeekReady, ring
    <3> QED
      BY <1>0, <2>1, <2>2, <3>1 DEF CountInv, Contents
  <2>5. CASE PeekEnd
    <3>1. UNCHANGED <<tail, pos, count>> /\ cpc = "peek"
      BY <2>5 DEF PeekEnd, ring
    <3>2. cpc' = "commit" \/ (cpc' = "empty" /\ count = 0)
      BY <2>5 DEF PeekEnd
    <3> QED
      BY <1>0, <2>1, <2>2, <3>1, <3>2 DEF CountInv, Contents
  <2>6. CASE Empty \/ Wait \/ RecheckClosed
    <3>1. UNCHANGED <<tail, pos, count>> /\ cpc \in {"empty", "wait", "recheck"}
      BY <2>6 DEF Empty, Wait, RecheckClosed, ring
    <3>2. /\ cpc' \in {"peek", "wait", "recheck", "len"}
          /\ cpc' = "len" => closed
      BY <2>6 DEF Empty, Wait, RecheckClosed
    <3> QED
      BY <1>0, <2>1, <2>2, <3>1, <3>2 DEF CountInv, Contents
  <2>7. CASE LenOfClosed
    <3>1. UNCHANGED <<tail, pos, count>> /\ cpc = "len" /\ cpc' \in {"peek", "done"}
      BY <2>7 DEF LenOfClosed, ring
    <3>2. Len(got) = pos /\ pos = tail + count /\ count = 0
      BY <1>0, <3>1 DEF CountInv
    <3>3. Len(got) = tail
      BY <3>2, Counters
    <3> QED
      BY <2>1, <2>2, <3>1, <3>2, <3>3 DEF CountInv, Contents
  <2>8. CASE Commit
    <3>1. /\ tail' = pos /\ free' = pos - count /\ UNCHANGED <<pos, count>>
          /\ cpc = "commit" /\ cpc' = "release"
      BY <2>8 DEF Commit
    <3>2. Len(got) = pos /\ pos = tail + count
      BY <1>0, <3>1 DEF CountInv
    <3>3. free' <= pos'
      BY <3>1, <3>2, Counters
    <3> QED
      BY <2>1, <2>2, <3>1, <3>2, <3>3 DEF CountInv, Contents
  <2>9. CASE Return
    <3>1. UNCHANGED tail /\ cpc = "release" /\ cpc' = "out"
      BY <2>9 DEF Return, ring
    <3>2. Len(got) = tail
      BY <1>0, <3>1 DEF CountInv
    <3> QED
      BY <2>1, <2>2, <3>1, <3>2 DEF CountInv, Contents
  <2> QED
    BY <1>1, <2>3, <2>4, <2>5, <2>6, <2>7, <2>8, <2>9 DEF ConsumerQuiet
<1>2. CASE (\E p \in Producers : ProducerQuiet(p)) \/ OtherQuiet
  <2>1. UNCHANGED <<Contents, consumer, tail>> /\ (closed => closed')
    BY <1>2, ProducerLeaves, OtherLeaves DEF ring, Contents
  <2> QED
    BY <1>0, <2>1 DEF CountInv, Contents, consumer, Released
<1>3. ASSUME NEW p \in Producers, Claim(p)
      PROVE  CountInv'
  <2>1. UNCHANGED <<tail, consumer, got, closed>> /\ head' = head + 1 /\ head = mine[p]
    BY <1>3 DEF Claim
  <2>2. Len(log') = Len(log) + 1
    BY <1>0, <1>3 DEF Claim, TypeOK
  <2>3. mine[p] < Released + Cap
    BY <1>3 DEF Claim, QueueInv, OwnerInv
  <2>4. head' <= Released + Cap /\ Len(got) <= head'
    BY <1>0, <2>1, <2>3, Counters DEF CountInv
  <2> QED
    BY <1>0, <2>1, <2>2, <2>4 DEF CountInv, Released, consumer
<1>4. ASSUME NEW p \in Producers, Write(p) \/ Publish(p)
      PROVE  CountInv'
  <2>1. UNCHANGED <<head, tail, consumer, log, got, closed>>
    BY <1>4 DEF Write, Publish
  <2> QED
    BY <1>0, <2>1 DEF CountInv, Released, consumer
<1>5. CASE Take
  <2>1. /\ UNCHANGED <<head, tail, log, closed>> /\ cpc = "take" /\ cpc' = "peek"
        /\ pos' = pos + 1 /\ count' = count + 1
    BY <1>5 DEF Take
  <2>2. Len(got') = Len(got) + 1
    BY <1>0, <1>5 DEF Take, TypeOK
  <2>3. Len(got) = pos /\ pos < head /\ pos = tail + count
    BY <1>0, <2>1, TakeAt DEF CountInv
  <2>4. Len(got') = pos' /\ pos' <= head' /\ pos' = tail' + count'
    BY <2>1, <2>2, <2>3, Counters
  <2> QED
    BY <1>0, <2>1, <2>4 DEF CountInv, Released
<1>6. CASE Release
  <2>1. /\ UNCHANGED <<head, tail, pos, count, cpc, log, got, closed>> /\ cpc = "release"
        /\ free' = free + 1 /\ free < pos
    BY <1>6 DEF Release
  <2>2. head <= free + Cap /\ free' <= pos'
    BY <1>0, <2>1, Counters DEF CountInv, Released
  <2>3. head' <= free' + Cap
    BY <2>1, <2>2, Counters
  <2> QED
    BY <1>0, <2>1, <2>2, <2>3 DEF CountInv, Released
<1> QED
  BY <1>1, <1>2, <1>3, <1>4, <1>5, <1>6, StepKinds

-----------------------------------------------------------------------------
(***************************************************************************)
(* The items read.                                                         *)
(***************************************************************************)
LEMMA PrefixStep ==
    ASSUME QueueInv, [Next]_vars
    PROVE  PrefixInv'
<1>0. log \in Seq(Items) /\ got \in Seq(Items) /\ PrefixInv /\ Len(got) <= Len(log)
  BY DEF QueueInv, TypeOK, CountInv
<1>1. CASE UNCHANGED <<log, got>>
  BY <1>0, <1>1 DEF PrefixInv
<1>2. ASSUME NEW p \in Producers, Claim(p)
      PROVE  PrefixInv'
  BY <1>0, <1>2 DEF PrefixInv, Claim
<1>3. CASE Take
  <2>1. /\ log' = log /\ got' = Append(got, log[Len(got) + 1])
    BY <1>3, TakeAt DEF Take
  <2> QED
    BY <1>0, <2>1 DEF PrefixInv
<1>4. ASSUME NEW p \in Producers, Write(p) \/ Publish(p)
      PROVE  UNCHANGED <<log, got>>
  BY <1>4 DEF Write, Publish
<1>5. Release => UNCHANGED <<log, got>>
  BY DEF Release
<1>6. Quiet => UNCHANGED <<log, got>>
  BY DEF Quiet, Contents
<1> QED
  BY <1>1, <1>2, <1>3, <1>4, <1>5, <1>6, StepKinds, QuietSteps

-----------------------------------------------------------------------------
(***************************************************************************)
(* The slots.                                                              *)
(***************************************************************************)
LEMMA WindowStep ==
    ASSUME QueueInv, [Next]_vars
    PROVE  WindowInv'
<1> SUFFICES ASSUME NEW n \in Nat, Released' <= n, n < Released' + Cap
             PROVE  /\ n < Len(got') => sequence'[Index(n)] = n + 1
                    /\ head' <= n => sequence'[Index(n)] = n
                    /\ Len(got') <= n /\ n < head' =>
                        \/ sequence'[Index(n)] = n
                        \/ sequence'[Index(n)] = n + 1 /\ data'[Index(n)] = log'[n + 1]
  BY DEF WindowInv, InWindow, Index
<1> DEFINE Here == /\ n < Len(got') => sequence'[Index(n)] = n + 1
                   /\ head' <= n => sequence'[Index(n)] = n
                   /\ Len(got') <= n /\ n < head' =>
                        \/ sequence'[Index(n)] = n
                        \/ sequence'[Index(n)] = n + 1 /\ data'[Index(n)] = log'[n + 1]
<1> SUFFICES Here
  OBVIOUS
<1>0. log \in Seq(Items) /\ got \in Seq(Items) /\ head = Len(log) /\ Index(n) \in Slots
      /\ sequence \in [Slots -> Nat] /\ data \in [Slots -> Items \cup {NoItem}]
  BY IndexIsSlot DEF QueueInv, TypeOK, CountInv
<1>1. CASE Quiet
  <2>1. Released <= n /\ n < Released + Cap /\ UNCHANGED <<head, sequence, data, log, got>>
    BY <1>1 DEF Quiet, Contents
  <2> QED
    BY <2>1, WindowAt
<1>2. ASSUME NEW p \in Producers, Claim(p)
      PROVE  Here
  <2>1. /\ UNCHANGED <<Released, sequence, data, got>>
        /\ head' = head + 1 /\ log' = Append(log, Item(p))
    BY <1>2 DEF Claim, consumer, Released
  <2>2. ASSUME n < head
        PROVE  log'[n + 1] = log[n + 1]
    <3>1. n + 1 \in 1 .. Len(log)
      BY <1>0, <2>2, Counters
    <3> QED
      BY <1>0, <2>1, <3>1, AppendAt
  <2>3. Released <= n /\ n < Released + Cap
    BY <2>1
  <2>5. CASE n < head
    <3>1. ~(head' <= n)
      BY <2>1, <2>5, Counters
    <3> QED
      BY <2>1, <2>2, <2>3, <2>5, <3>1, WindowAt
  <2>6. CASE head <= n
    <3>1. sequence[Index(n)] = n
      BY <2>3, <2>6, WindowAt
    <3>2. ~(n < Len(got))
      BY <2>6, Counters DEF QueueInv, CountInv
    <3> QED
      BY <2>1, <3>1, <3>2
  <2> QED
    BY <2>5, <2>6, Counters
<1>3. ASSUME NEW p \in Producers, Write(p)
      PROVE  Here
  <2>1. UNCHANGED <<Released, head, sequence, log, got>>
    BY <1>3 DEF Write, consumer, Released
  <2>2. data' = [data EXCEPT ![Index(mine[p])] = Item(p)]
    BY <1>3 DEF Write
  <2>3. Released <= n /\ n < Released + Cap
    BY <2>1
  <2>4. /\ mine[p] \in Nat /\ Released <= mine[p] /\ mine[p] < Released + Cap
        /\ Len(got) <= mine[p] /\ mine[p] < head /\ sequence[Index(mine[p])] = mine[p]
    BY <1>3, OwnerAt DEF Write, Owns
  <2>5. CASE n = mine[p]
    BY <2>1, <2>4, <2>5, Counters
  <2>6. CASE n # mine[p]
    <3>1. Index(n) # Index(mine[p])
      BY <2>3, <2>4, <2>6, WindowInjective
    <3>2. data'[Index(n)] = data[Index(n)]
      BY <1>0, <2>2, <3>1
    <3> QED
      BY <2>1, <2>3, <3>2, WindowAt
  <2> QED
    BY <2>5, <2>6
<1>4. ASSUME NEW p \in Producers, Publish(p)
      PROVE  Here
  <2>1. UNCHANGED <<Released, head, data, log, got>>
    BY <1>4 DEF Publish, consumer, Released
  <2>2. sequence' = [sequence EXCEPT ![Index(mine[p])] = mine[p] + 1]
    BY <1>4 DEF Publish
  <2>3. Released <= n /\ n < Released + Cap
    BY <2>1
  <2>4. /\ mine[p] \in Nat /\ Released <= mine[p] /\ mine[p] < Released + Cap
        /\ Len(got) <= mine[p] /\ mine[p] < head /\ log[mine[p] + 1] = Item(p)
    BY <1>4, OwnerAt DEF Publish, Owns
  <2>5. data[Index(mine[p])] = Item(p)
    BY <1>4 DEF Publish, QueueInv, OwnerInv
  <2>6. CASE n = mine[p]
    <3>1. sequence'[Index(n)] = n + 1
      BY <1>0, <2>2, <2>6
    <3> QED
      BY <2>1, <2>4, <2>5, <2>6, <3>1, Counters
  <2>7. CASE n # mine[p]
    <3>1. Index(n) # Index(mine[p])
      BY <2>3, <2>4, <2>7, WindowInjective
    <3>2. sequence'[Index(n)] = sequence[Index(n)]
      BY <1>0, <2>2, <3>1
    <3> QED
      BY <2>1, <2>3, <3>2, WindowAt
  <2> QED
    BY <2>6, <2>7
<1>5. CASE Take
  <2>1. cpc = "take" /\ UNCHANGED <<Released, head, sequence, log>>
    BY <1>5 DEF Take, Released
  <2>2. data' = [data EXCEPT ![Index(pos)] = NoItem]
    BY <1>5 DEF Take
  <2>3. Released <= n /\ n < Released + Cap
    BY <2>1
  <2>4. /\ Len(got) = pos /\ Released <= pos /\ pos < head /\ pos < Released + Cap
        /\ sequence[Index(pos)] = pos + 1
    BY <2>1, TakeAt
  <2>5. Len(got') = pos + 1
    BY <1>0, <1>5, <2>4 DEF Take
  <2>6. CASE n = pos
    BY <2>1, <2>4, <2>5, <2>6, Counters
  <2>7. CASE n # pos
    <3>1. Index(n) # Index(pos)
      BY <2>3, <2>4, <2>7, Counters, WindowInjective
    <3>2. data'[Index(n)] = data[Index(n)]
      BY <1>0, <2>2, <3>1
    <3>3. (n < Len(got') <=> n < Len(got)) /\ (Len(got') <= n <=> Len(got) <= n)
      BY <2>4, <2>5, <2>7, Counters
    <3> QED
      BY <2>1, <2>3, <3>2, <3>3, WindowAt
  <2> QED
    BY <2>6, <2>7
<1>6. CASE Release
  <2>1. /\ UNCHANGED <<head, data, log, got>>
        /\ Released = free /\ Released' = free + 1
        /\ sequence' = [sequence EXCEPT ![Index(free)] = free + Cap]
    BY <1>6 DEF Release, Released
  <2>2. head <= free + Cap /\ Len(got) <= head
    BY <2>1 DEF QueueInv, CountInv
  <2>3. CASE n = free + Cap
    <3>1. Index(n) = Index(free)
      BY <2>3, Counters, IndexWraps
    <3>2. sequence'[Index(n)] = n
      BY <1>0, <2>1, <2>3, <3>1
    <3> QED
      BY <2>1, <2>2, <2>3, <3>2, Counters
  <2>4. CASE n # free + Cap
    <3>1. Released <= n /\ n < Released + Cap /\ n # free
      BY <2>1, <2>4, Counters
    <3>2. Released <= free /\ free < Released + Cap
      BY <2>1, Counters
    <3>3. Index(n) # Index(free)
      BY <3>1, <3>2, Counters, WindowInjective
    <3>4. sequence'[Index(n)] = sequence[Index(n)]
      BY <1>0, <2>1, <3>3
    <3> QED
      BY <2>1, <3>1, <3>4, WindowAt
  <2> QED
    BY <2>3, <2>4
<1> HIDE DEF Here
<1> QED
  BY <1>1, <1>2, <1>3, <1>4, <1>5, <1>6, StepKinds, QuietSteps

-----------------------------------------------------------------------------
(***************************************************************************)
(* The producers.                                                          *)
(***************************************************************************)
\* What OwnerInv says about the producer p, in the next state.
LEMMA OwnerStep ==
    ASSUME QueueInv, [Next]_vars
    PROVE  OwnerInv'
<1> SUFFICES ASSUME NEW p \in Producers
             PROVE  /\ mine'[p] <= head'
                    /\ ppc'[p] # "idle" => sends'[p] # 0
                    /\ ppc'[p] = "cas" => mine'[p] < Released' + Cap
                    /\ ppc'[p] \in {"write", "publish"} =>
                        /\ Len(got') <= mine'[p] /\ mine'[p] < head'
                        /\ sequence'[Index(mine'[p])] = mine'[p]
                        /\ log'[mine'[p] + 1] = <<p, sends'[p]>>
                        /\ \A q \in Producers \ {p} :
                              ppc'[q] \in {"write", "publish"} => mine'[q] # mine'[p]
                    /\ ppc'[p] = "publish" => data'[Index(mine'[p])] = <<p, sends'[p]>>
  BY DEF OwnerInv, Owns, Item, Index
<1> DEFINE Mine ==
        /\ mine'[p] <= head'
        /\ ppc'[p] # "idle" => sends'[p] # 0
        /\ ppc'[p] = "cas" => mine'[p] < Released' + Cap
        /\ ppc'[p] \in {"write", "publish"} =>
            /\ Len(got') <= mine'[p] /\ mine'[p] < head'
            /\ sequence'[Index(mine'[p])] = mine'[p]
            /\ log'[mine'[p] + 1] = <<p, sends'[p]>>
            /\ \A q \in Producers \ {p} :
                  ppc'[q] \in {"write", "publish"} => mine'[q] # mine'[p]
        /\ ppc'[p] = "publish" => data'[Index(mine'[p])] = <<p, sends'[p]>>
<1> SUFFICES Mine
  OBVIOUS
<1>0. /\ log \in Seq(Items) /\ got \in Seq(Items) /\ head = Len(log)
      /\ sequence \in [Slots -> Nat] /\ data \in [Slots -> Items \cup {NoItem}]
      /\ ppc \in [Producers -> ProducerSteps] /\ sends \in [Producers -> 0 .. MaxSends]
      /\ mine \in [Producers -> Nat] /\ mine[p] \in Nat
  BY DEF QueueInv, TypeOK, CountInv
<1>old. /\ mine[p] <= head
        /\ ppc[p] # "idle" => sends[p] # 0
        /\ ppc[p] = "cas" => mine[p] < Released + Cap
        /\ ppc[p] \in {"write", "publish"} =>
            /\ Len(got) <= mine[p] /\ mine[p] < head
            /\ sequence[Index(mine[p])] = mine[p]
            /\ log[mine[p] + 1] = <<p, sends[p]>>
            /\ \A q \in Producers \ {p} : ppc[q] \in {"write", "publish"} => mine[q] # mine[p]
        /\ ppc[p] = "publish" => data[Index(mine[p])] = <<p, sends[p]>>
  BY DEF QueueInv, OwnerInv, Owns, Item
<1>1. ASSUME NEW q \in Producers, ProducerQuiet(q)
      PROVE  Mine
  <2>1. UNCHANGED <<head, sequence, data, log, got>> /\ Released' = Released
    BY <1>1, QuietSteps DEF Quiet, Contents
  <2>2. \A r \in Producers \ {q} : UNCHANGED <<ppc[r], mine[r], sends[r]>>
    BY <1>0, <1>1 DEF ProducerQuiet, Call, CheckClosed, LoadHead, SlotFree, SlotTaken,
           SlotPassed, RecheckFull, LoseClaim, Notify, Goto, Retry
  <2>3. ppc'[q] \notin {"write", "publish"}
    BY <1>0, <1>1 DEF ProducerQuiet, Call, CheckClosed, LoadHead, SlotFree, SlotTaken,
           SlotPassed, RecheckFull, LoseClaim, Notify, Goto, Retry
  <2>4. CASE p # q
    BY <1>old, <2>1, <2>2, <2>3, <2>4
  <2>5. CASE p = q
    <3>1. mine'[q] \in {mine[q], head}
      BY <1>0, <1>1 DEF ProducerQuiet, Call, CheckClosed, LoadHead, SlotFree, SlotTaken,
             SlotPassed, RecheckFull, LoseClaim, Notify
    <3>2. ppc'[q] # "idle" => sends'[q] # 0
      <4>1. CASE Call(q)
        BY <1>0, <4>1 DEF Call
      <4>2. CASE ~Call(q)
        <5>1. ppc[q] # "idle" /\ sends' = sends
          BY <1>1, <4>2 DEF ProducerQuiet, CheckClosed, LoadHead, SlotFree, SlotTaken,
                 SlotPassed, RecheckFull, LoseClaim, Notify
        <5> QED
          BY <1>old, <2>5, <5>1
      <4> QED
        BY <4>1, <4>2
    <3>3. ppc'[q] = "cas" => mine'[q] < Released' + Cap
      <4>1. ppc'[q] = "cas" => SlotFree(q)
        BY <1>0, <1>1 DEF ProducerQuiet, Call, CheckClosed, LoadHead, SlotTaken,
               SlotPassed, RecheckFull, LoseClaim, Notify, Goto, Retry
      <4>2. ASSUME SlotFree(q)
            PROVE  mine'[q] < Released' + Cap
        <5>1. sequence[Index(mine[q])] = mine[q] /\ mine' = mine
          BY <4>2 DEF SlotFree
        <5>2. mine[q] <= head /\ head <= Released + Cap
          BY <1>old, <2>5 DEF QueueInv, CountInv
        <5>3. ASSUME mine[q] = Released + Cap
              PROVE  FALSE
          <6>1. head = Released + Cap
            BY <1>0, <2>5, <5>2, <5>3, Counters
          <6>2. mine[q] = Released \/ mine[q] = Released + 1
            BY <5>1, <5>3, <6>1, FullWindow
          <6> QED
            BY <5>3, <6>2, Counters
        <5>4. mine[q] \in Nat /\ mine[q] # Released + Cap
          BY <1>0, <5>3
        <5>5. mine[q] < Released + Cap
          BY <5>2, <5>4, Counters
        <5> QED
          BY <2>1, <5>1, <5>5
      <4> QED
        BY <4>1, <4>2
    <3> QED
      BY <1>0, <1>old, <2>1, <2>3, <2>5, <3>1, <3>2, <3>3, Counters
  <2> QED
    BY <2>4, <2>5
<1>2. CASE ConsumerQuiet \/ OtherQuiet
  <2>1. UNCHANGED <<ppc, mine, sends>>
    BY <1>2, ConsumerLeaves, OtherLeaves DEF producer
  <2>2. UNCHANGED <<head, sequence, data, log, got>> /\ Released' = Released
    BY <1>2, QuietSteps DEF Quiet, Contents
  <2> QED
    BY <1>old, <2>1, <2>2
<1>3. ASSUME NEW q \in Producers, Claim(q)
      PROVE  Mine
  <2>1. /\ UNCHANGED <<Released, sequence, data, got, mine, sends>>
        /\ head = mine[q] /\ head' = head + 1 /\ log' = Append(log, <<q, sends[q]>>)
        /\ ppc[q] = "cas" /\ ppc' = [ppc EXCEPT ![q] = "write"]
    BY <1>3 DEF Claim, consumer, Released, Item, Goto
  <2>2. \A r \in Producers : mine[r] \in Nat /\ (Owns(r) => mine[r] < head)
    BY DEF QueueInv, TypeOK, OwnerInv
  <2>3. ASSUME NEW r \in Producers \ {q}, ppc'[r] \in {"write", "publish"}
        PROVE  mine[r] < mine[q]
    BY <1>0, <2>1, <2>2, <2>3 DEF Owns
  <2>4. CASE p = q
    <3>1. mine[p] < Released + Cap /\ sends[p] # 0
      BY <1>old, <2>1, <2>4
    <3>2. Released <= head /\ Len(got) <= head
      BY Counters DEF QueueInv, CountInv
    <3>3. sequence[Index(head)] = head
      BY <2>1, <2>4, <3>1, <3>2, Counters, WindowAt
    <3>4. log'[mine[p] + 1] = <<p, sends[p]>>
      <4>1. mine[p] + 1 = Len(log) + 1
        BY <1>0, <2>1, <2>4
      <4>2. log' = Append(log, <<p, sends[p]>>)
        BY <2>1, <2>4
      <4>3. log \in Seq(Items)
        BY <1>0
      <4>4. Append(log, <<p, sends[p]>>)[Len(log) + 1] = <<p, sends[p]>>
        BY <4>3, AppendAt
      <4> QED
        BY <4>1, <4>2, <4>4
    <3>5. ppc'[p] = "write"
      BY <1>0, <2>1, <2>4
    <3>6. \A r \in Producers \ {p} : ppc'[r] \in {"write", "publish"} => mine'[r] # mine'[p]
      BY <2>1, <2>2, <2>3, <2>4
    <3>7. mine'[p] <= head' /\ mine'[p] < head' /\ Len(got') <= mine'[p]
      BY <2>1, <2>4, <3>2, Counters
    <3>8. sequence'[Index(mine'[p])] = mine'[p]
      BY <2>1, <2>4, <3>3
    <3>9. sends'[p] # 0 /\ mine' = mine /\ sends' = sends
      BY <2>1, <3>1
    <3> QED
      BY <3>4, <3>5, <3>6, <3>7, <3>8, <3>9
  <2>5. CASE p # q
    <3>1. ppc'[p] = ppc[p]
      BY <1>0, <2>1, <2>5
    <3>2. ASSUME mine[p] < head
          PROVE  log'[mine[p] + 1] = log[mine[p] + 1]
      <4>1. mine[p] + 1 \in 1 .. Len(log)
        BY <1>0, <3>2, Counters
      <4>2. log \in Seq(Items)
        BY <1>0
      <4>3. Append(log, <<q, sends[q]>>)[mine[p] + 1] = log[mine[p] + 1]
        BY <4>1, <4>2, AppendAt
      <4> QED
        BY <2>1, <4>3
    <3>3. mine[p] <= head'
      BY <1>0, <1>old, <2>1, Counters
    <3>4. mine[p] < head => mine[p] < head'
      BY <1>0, <2>1, Counters
    <3>5. ppc'[p] \in {"write", "publish"} =>
            \A r \in Producers \ {p} : ppc'[r] \in {"write", "publish"} => mine'[r] # mine'[p]
      <4>1. \A r \in Producers \ {q} : ppc'[r] = ppc[r]
        BY <1>0, <2>1
      <4> QED
        BY <1>old, <2>1, <2>2, <2>3, <2>5, <4>1
    <3> QED
      BY <1>old, <2>1, <3>1, <3>2, <3>3, <3>4, <3>5
  <2> QED
    BY <2>4, <2>5
<1>4. ASSUME NEW q \in Producers, Write(q)
      PROVE  Mine
  <2>1. /\ UNCHANGED <<Released, head, sequence, log, got, mine, sends>>
        /\ data' = [data EXCEPT ![Index(mine[q])] = <<q, sends[q]>>]
        /\ ppc[q] = "write" /\ ppc' = [ppc EXCEPT ![q] = "publish"]
    BY <1>4 DEF Write, consumer, Released, Item, Goto
  <2>2. \A r \in Producers : ppc'[r] \in {"write", "publish"} => ppc[r] \in {"write", "publish"}
    BY <1>0, <2>1
  <2>3. ppc'[p] = "cas" => ppc[p] = "cas"
    BY <1>0, <2>1
  <2>4. ppc'[p] # "idle" => ppc[p] # "idle"
    BY <1>0, <2>1
  <2>5. ppc'[p] = "publish" => data'[Index(mine[p])] = <<p, sends[p]>>
    <3>1. Index(mine[p]) \in Slots
      BY <1>0, IndexIsSlot
    <3>2. CASE p = q
      BY <1>0, <2>1, <3>1, <3>2
    <3>3. ASSUME p # q, ppc'[p] = "publish"
          PROVE  data'[Index(mine[p])] = <<p, sends[p]>>
      <4>1. Owns(p) /\ Owns(q) /\ ppc[p] = "publish"
        BY <1>0, <2>1, <3>3 DEF Owns
      <4>2. mine[p] # mine[q]
        BY <3>3, <4>1, <1>old DEF Owns
      <4>3. Index(mine[p]) # Index(mine[q])
        BY <4>1, <4>2, OwnerAt, WindowInjective
      <4> QED
        BY <1>0, <1>old, <2>1, <3>1, <4>1, <4>3
    <3> QED
      BY <3>2, <3>3
  <2> QED
    BY <1>old, <2>1, <2>2, <2>3, <2>4, <2>5
<1>5. ASSUME NEW q \in Producers, Publish(q)
      PROVE  Mine
  <2>1. /\ UNCHANGED <<Released, head, data, log, got, mine, sends>>
        /\ sequence' = [sequence EXCEPT ![Index(mine[q])] = mine[q] + 1]
        /\ ppc[q] = "publish" /\ ppc' = [ppc EXCEPT ![q] = "notify"]
    BY <1>5 DEF Publish, consumer, Released, Goto
  <2>2. CASE p = q
    <3>1. ppc'[p] = "notify"
      BY <1>0, <2>1, <2>2
    <3>2. ppc[p] # "idle"
      BY <2>1, <2>2
    <3> QED
      BY <1>old, <2>1, <3>1, <3>2
  <2>3. CASE p # q
    <3>1. ppc'[p] = ppc[p]
      BY <1>0, <2>1, <2>3
    <3>2. \A r \in Producers : ppc'[r] \in {"write", "publish"} => ppc[r] \in {"write", "publish"}
      BY <1>0, <2>1
    <3>3. ASSUME ppc[p] \in {"write", "publish"}
          PROVE  sequence'[Index(mine[p])] = sequence[Index(mine[p])]
      <4>1. Owns(p) /\ Owns(q)
        BY <2>1, <3>3 DEF Owns
      <4>2. mine[p] # mine[q]
        BY <2>3, <4>1, <1>old DEF Owns
      <4>3. Index(mine[p]) # Index(mine[q])
        BY <4>1, <4>2, OwnerAt, WindowInjective
      <4>4. Index(mine[p]) \in Slots
        BY <1>0, IndexIsSlot
      <4> QED
        BY <1>0, <2>1, <4>3, <4>4
    <3> QED
      BY <1>old, <2>1, <3>1, <3>2, <3>3
  <2> QED
    BY <2>2, <2>3
<1>6. CASE Take
  <2>1. /\ UNCHANGED <<Released, head, sequence, log, ppc, mine, sends>> /\ cpc = "take"
        /\ data' = [data EXCEPT ![Index(pos)] = NoItem]
    BY <1>6 DEF Take, Released, producer
  <2>2. /\ Len(got) = pos /\ Released <= pos /\ pos < head /\ pos < Released + Cap
        /\ sequence[Index(pos)] = pos + 1
    BY <2>1, TakeAt
  <2>3. Len(got') = pos + 1
    BY <1>0, <1>6, <2>2 DEF Take
  <2>4. ASSUME ppc[p] \in {"write", "publish"}
        PROVE  Len(got') <= mine[p] /\ data'[Index(mine[p])] = data[Index(mine[p])]
    <3>1. /\ mine[p] \in Nat /\ Released <= mine[p] /\ mine[p] < Released + Cap
          /\ Len(got) <= mine[p] /\ sequence[Index(mine[p])] = mine[p]
      BY <2>4, OwnerAt DEF Owns
    <3>2. mine[p] # pos
      BY <2>2, <3>1, Counters
    <3>3. Index(mine[p]) # Index(pos)
      BY <2>2, <3>1, <3>2, Counters, WindowInjective
    <3>4. Index(mine[p]) \in Slots
      BY <3>1, IndexIsSlot
    <3>5. Len(got') <= mine[p]
      BY <2>2, <2>3, <3>1, <3>2, Counters
    <3> QED
      BY <1>0, <2>1, <3>3, <3>4, <3>5
  <2> QED
    BY <1>old, <2>1, <2>4
<1>7. CASE Release
  <2>1. /\ UNCHANGED <<head, data, log, got, ppc, mine, sends>>
        /\ cpc = "release" /\ free < pos /\ Released = free /\ Released' = free + 1
        /\ sequence' = [sequence EXCEPT ![Index(free)] = free + Cap]
    BY <1>7 DEF Release, Released, producer
  <2>2. Len(got) = pos
    BY <2>1 DEF QueueInv, CountInv
  <2>3. ASSUME ppc[p] \in {"write", "publish"}
        PROVE  sequence'[Index(mine[p])] = sequence[Index(mine[p])]
    <3>1. /\ mine[p] \in Nat /\ Released <= mine[p] /\ mine[p] < Released + Cap
          /\ Len(got) <= mine[p]
      BY <2>3, OwnerAt DEF Owns
    <3>2. mine[p] # free /\ free < Released + Cap
      BY <2>1, <2>2, <3>1, Counters
    <3>3. Index(mine[p]) # Index(free)
      BY <2>1, <3>1, <3>2, Counters, WindowInjective
    <3>4. Index(mine[p]) \in Slots
      BY <3>1, IndexIsSlot
    <3> QED
      BY <1>0, <2>1, <3>3, <3>4
  <2>4. mine[p] < Released + Cap => mine[p] < Released' + Cap
    BY <1>0, <2>1, Counters
  <2> QED
    BY <1>old, <2>1, <2>3, <2>4
<1> HIDE DEF Mine
<1> QED
  BY <1>1, <1>2, <1>3, <1>4, <1>5, <1>6, <1>7, StepKinds

-----------------------------------------------------------------------------
(***************************************************************************)
(* The item that is about to be read.                                      *)
(***************************************************************************)
LEMMA TakeStep ==
    ASSUME QueueInv, [Next]_vars
    PROVE  TakeInv'
<1> SUFFICES ASSUME cpc' = "take"
             PROVE  pos' < head' /\ sequence'[Index(pos')] = pos' + 1
  BY DEF TakeInv, Index
<1>0. sequence \in [Slots -> Nat]
  BY DEF QueueInv, TypeOK
<1>1. CASE cpc # "take"
  <2>1. PeekReady
    BY <1>1, StepKinds, ProducerLeaves, OtherLeaves
       DEF ConsumerQuiet, Dequeue, PeekEnd, Empty, Wait, RecheckClosed, LenOfClosed, Commit,
           Return, Take, Release, Claim, Write, Publish, consumer
  <2>2. /\ cpc = "peek" /\ sequence[Index(pos)] = pos + 1
        /\ UNCHANGED <<head, sequence, pos>>
    BY <2>1 DEF PeekReady, ring
  <2>3. Len(got) = pos /\ pos <= head /\ head <= Released + Cap
    BY <2>2 DEF QueueInv, CountInv
  <2>4. ASSUME pos = head
        PROVE  FALSE
    <3>1. CASE head = Released + Cap
      <4>1. pos + 1 = Released \/ pos + 1 = Released + 1
        BY <2>2, <2>4, <3>1, FullWindow
      <4> QED
        BY <2>4, <3>1, <4>1, Counters
    <3>2. CASE head # Released + Cap
      <4>1. Released <= pos /\ pos < Released + Cap
        BY <2>3, <2>4, <3>2, Counters
      <4>2. sequence[Index(pos)] = pos
        BY <2>4, <4>1, Counters, WindowAt
      <4> QED
        BY <2>2, <4>2, Counters
    <3> QED
      BY <3>1, <3>2
  <2>5. pos < head
    BY <2>3, <2>4, Counters
  <2> QED
    BY <2>2, <2>5
<1>2. CASE cpc = "take"
  <2>0. pos \in Nat /\ Len(got) = pos /\ Released <= pos /\ pos < head /\ pos < Released + Cap
        /\ sequence[Index(pos)] = pos + 1
    BY <1>2, TakeAt, Counters
  <2>1. ~Take /\ ~Release /\ ~ConsumerQuiet
    BY <1>2 DEF Take, Release, ConsumerQuiet, Dequeue, PeekReady, PeekEnd, Empty, Wait,
                RecheckClosed, LenOfClosed, Commit, Return
  <2>2. CASE (\E p \in Producers : ProducerQuiet(p)) \/ OtherQuiet
    <3>1. UNCHANGED <<head, sequence, pos>>
      BY <2>2, ProducerLeaves, OtherLeaves DEF Contents, consumer, ring
    <3> QED
      BY <2>0, <3>1
  <2>3. ASSUME NEW p \in Producers, Claim(p)
        PROVE  pos' < head' /\ sequence'[Index(pos')] = pos' + 1
    <3>1. UNCHANGED <<sequence, pos>> /\ head' = head + 1
      BY <2>3 DEF Claim, consumer
    <3> QED
      BY <2>0, <3>1, Counters
  <2>4. ASSUME NEW p \in Producers, Write(p)
        PROVE  pos' < head' /\ sequence'[Index(pos')] = pos' + 1
    <3>1. UNCHANGED <<head, sequence, pos>>
      BY <2>4 DEF Write, consumer
    <3> QED
      BY <2>0, <3>1
  <2>5. ASSUME NEW p \in Producers, Publish(p)
        PROVE  pos' < head' /\ sequence'[Index(pos')] = pos' + 1
    <3>1. /\ UNCHANGED <<head, pos>>
          /\ sequence' = [sequence EXCEPT ![Index(mine[p])] = mine[p] + 1]
      BY <2>5 DEF Publish, consumer
    <3>2. /\ mine[p] \in Nat /\ Released <= mine[p] /\ mine[p] < Released + Cap
          /\ sequence[Index(mine[p])] = mine[p]
      BY <2>5, OwnerAt DEF Publish, Owns
    <3>3. Index(mine[p]) # Index(pos)
      <4> SUFFICES ASSUME Index(mine[p]) = Index(pos)
                   PROVE  FALSE
        OBVIOUS
      <4>1. mine[p] = pos
        BY <2>0, <3>2, WindowInjective
      <4> QED
        BY <2>0, <3>2, <4>1
    <3>4. Index(pos) \in Slots
      BY <2>0, IndexIsSlot
    <3> QED
      BY <1>0, <2>0, <3>1, <3>3, <3>4
  <2> QED
    BY <2>1, <2>2, <2>3, <2>4, <2>5, StepKinds
<1> QED
  BY <1>1, <1>2

-----------------------------------------------------------------------------
(***************************************************************************)
(* The theorems.                                                           *)
(***************************************************************************)
\* The invariant behind the results below: which position a slot stands for, what its
\* sequence number and its data are, and who may touch it.
THEOREM QueueInvariant == Spec => []QueueInv
<1>1. QueueInv /\ [Next]_vars => QueueInv'
  BY TypeStep, CountStep, PrefixStep, WindowStep, OwnerStep, TakeStep DEF QueueInv
<1> QED
  BY <1>1, InitInv, PTL DEF Spec

\* The variables of the ring, of Enqueue, TryEnqueue, Dequeue and Close have their types.
THEOREM TypeCorrect == Spec => []TypeOK
<1>1. QueueInv => TypeOK
  BY DEF QueueInv
<1> QED
  BY <1>1, QueueInvariant, PTL

\* The plain memory of a slot is never touched by two goroutines at once: two producers
\* that write, or a producer that writes and the consumer that reads, are in different
\* slots.
THEOREM NoDataRaceTheorem == Spec => []NoDataRace
<1>1. ASSUME QueueInv
      PROVE  NoDataRace
  <2> SUFFICES ASSUME NEW p \in Producers, ppc[p] = "write"
               PROVE  /\ cpc = "take" => Index(pos) # Index(mine[p])
                      /\ \A q \in Producers \ {p} :
                            ppc[q] = "write" => Index(mine[q]) # Index(mine[p])
    BY DEF NoDataRace
  <2>1. /\ Owns(p)
        /\ mine[p] \in Nat /\ Released <= mine[p] /\ mine[p] < Released + Cap
        /\ sequence[Index(mine[p])] = mine[p]
    BY <1>1, OwnerAt DEF Owns
  <2>2. ASSUME cpc = "take", Index(pos) = Index(mine[p])
        PROVE  FALSE
    <3>1. /\ pos \in Nat /\ Released <= pos /\ pos < Released + Cap
          /\ sequence[Index(pos)] = pos + 1
      BY <1>1, <2>2, TakeAt, Counters
    <3>2. pos = mine[p]
      BY <1>1, <2>1, <2>2, <3>1, WindowInjective
    <3> QED
      BY <2>1, <3>1, <3>2
  <2>3. ASSUME NEW q \in Producers \ {p}, ppc[q] = "write", Index(mine[q]) = Index(mine[p])
        PROVE  FALSE
    <3>1. /\ Owns(q)
          /\ mine[q] \in Nat /\ Released <= mine[q] /\ mine[q] < Released + Cap
      BY <1>1, <2>3, OwnerAt DEF Owns
    <3>2. mine[q] = mine[p]
      BY <1>1, <2>1, <2>3, <3>1, WindowInjective
    <3> QED
      BY <1>1, <2>1, <2>3, <3>1, <3>2 DEF QueueInv, OwnerInv
  <2> QED
    BY <2>2, <2>3
<1> QED
  BY <1>1, QueueInvariant, PTL

\* Every step of the ring is a step of the bounded queue, or none.
LEMMA RefinementStep ==
    ASSUME QueueInv, [Next]_vars
    PROVE  [FifoQueue!Next]_(FifoQueue!vars)
<1>0. log \in Seq(Items) /\ got \in Seq(Items) /\ PrefixInv /\ Len(got) <= Len(log)
  BY DEF QueueInv, TypeOK, CountInv
<1>1. CASE UNCHANGED <<log, got, closed>> /\ (cpc' = "done" <=> cpc = "done")
  BY <1>1 DEF FifoQueue!vars
<1>2. ASSUME NEW p \in Producers, Claim(p)
      PROVE  FifoQueue!Next
  <2>1. sends[p] # 0 /\ mine[p] < Released + Cap
    BY <1>2 DEF Claim, QueueInv, OwnerInv
  <2>2. Item(p) \in Items
    BY <2>1, QueueAssumption DEF QueueInv, TypeOK, Item, Items
  <2>3. Len(log) = head /\ head = mine[p]
    BY <1>2 DEF Claim, QueueInv, CountInv
  <2>4. Len(log) - Len(got) < Cap
    BY <2>1, <2>3, Counters
  <2>5. log' = Append(log, Item(p)) /\ UNCHANGED <<got, closed, cpc>>
    BY <1>2 DEF Claim, consumer
  <2>6. FifoQueue!Put(Item(p))
    BY <2>4, <2>5 DEF FifoQueue!Put
  <2> QED
    BY <2>2, <2>6 DEF FifoQueue!Next
<1>3. CASE Take
  <2>1. Len(got) = pos /\ pos < head /\ data[Index(pos)] = log[pos + 1] /\ head = Len(log)
    BY <1>3, TakeAt DEF Take, QueueInv, CountInv
  <2>2. /\ cpc = "take" /\ cpc' = "peek" /\ UNCHANGED <<log, closed>>
        /\ got' = Append(got, log[Len(got) + 1])
    BY <1>3, <2>1 DEF Take
  <2>3. FifoQueue!Get
    BY <2>1, <2>2 DEF FifoQueue!Get
  <2> QED
    BY <2>3 DEF FifoQueue!Next
<1>4. CASE LenOfClosed
  <2>1. UNCHANGED <<log, got, closed>> /\ cpc = "len" /\ (cpc' = "done" => head <= tail)
    BY <1>4, Counters DEF LenOfClosed
  <2>2. CASE cpc' = "done"
    <3>1. closed /\ Len(got) = pos /\ pos = tail + count /\ count = 0 /\ head = Len(log)
      BY <2>1 DEF QueueInv, CountInv
    <3>2. Len(got) = Len(log)
      BY <1>0, <2>1, <2>2, <3>1, Counters
    <3>3. got = log
      BY <1>0, <3>2 DEF PrefixInv
    <3>4. FifoQueue!End
      BY <2>1, <2>2, <3>1, <3>3 DEF FifoQueue!End
    <3> QED
      BY <3>4 DEF FifoQueue!Next
  <2> QED
    BY <1>1, <2>1, <2>2
<1>5. CASE OtherQuiet
  <2>1. CASE Close
    <3>1. FifoQueue!Shut
      BY <2>1 DEF Close, FifoQueue!Shut, consumer
    <3> QED
      BY <3>1 DEF FifoQueue!Next
  <2>2. CASE CloseNotify \/ UNCHANGED vars
    <3>1. UNCHANGED <<log, got, closed, cpc>>
      BY <2>2 DEF CloseNotify, vars, consumer
    <3> QED
      BY <1>1, <3>1
  <2> QED
    BY <1>5, <2>1, <2>2 DEF OtherQuiet
<1>6. CASE ConsumerQuiet /\ ~LenOfClosed
  <2>1. UNCHANGED <<log, got, closed>>
    BY <1>6, ConsumerLeaves DEF Contents
  <2>2. cpc # "done" /\ cpc' # "done"
    BY <1>6 DEF ConsumerQuiet, Dequeue, PeekReady, PeekEnd, Empty, Wait, RecheckClosed, Commit,
                Return
  <2> QED
    BY <1>1, <2>1, <2>2
<1>7. ASSUME NEW p \in Producers, ProducerQuiet(p) \/ Write(p) \/ Publish(p)
      PROVE  UNCHANGED <<log, got, closed, cpc>>
  BY <1>7, ProducerLeaves DEF Write, Publish, Contents, consumer
<1>8. Release => UNCHANGED <<log, got, closed, cpc>>
  BY DEF Release
<1> QED
  BY <1>1, <1>2, <1>3, <1>4, <1>5, <1>6, <1>7, <1>8, StepKinds

\* The ring implements the bounded queue: what Dequeue returns is what Enqueue and
\* TryEnqueue accepted, in the order of the claims, nothing lost, doubled or made up; at
\* most Cap items wait; and Dequeue returns 0 only from a queue that is closed and empty.
THEOREM Refinement == Spec => ImplementsFIFO
<1>1. Init => FifoQueue!Init
  BY DEF Init, FifoQueue!Init
<1> QED
  BY <1>1, RefinementStep, QueueInvariant, PTL DEF Spec, ImplementsFIFO, FifoQueue!Spec

=============================================================================
