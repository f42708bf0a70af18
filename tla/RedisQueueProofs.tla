-------------------------- MODULE RedisQueueProofs --------------------------
(***************************************************************************)
(* Proofs about RedisQueue, for every set of senders and packets, every    *)
(* capacity, every number of messages and of retries: a packet has one     *)
(* owner, the metrics are right, and batches keep their order.             *)
(***************************************************************************)
EXTENDS RedisQueue, FiniteSetTheorems, TLAPS

PacketsOf(t) == Range(t.packets)
AllTasks == tasks \cup returning

\* The places of packets have none in common.
ApartInv ==
    /\ \A p \in pool : p \notin InQueue /\ p \notin InLoop
    /\ \A p \in InQueue : p \notin InLoop
    /\ \A s \in Senders : \A p \in held[s] :
        /\ p \notin pool /\ p \notin InQueue /\ p \notin InLoop
        /\ \A r \in Senders : p \in held[r] => r = s
    /\ \A t \in AllTasks : \A p \in PacketsOf(t) :
        /\ p \notin pool /\ p \notin InQueue /\ p \notin InLoop
        /\ \A s \in Senders : p \notin held[s]
        /\ \A u \in AllTasks : p \in PacketsOf(u) => u = t

\* Neither sendCh nor the batch has a packet twice; loopSend is at a packet of its batch.
LoopInv ==
    /\ IsInjective(sendCh)
    /\ IsInjective(batch)
    /\ loop \in {"dequeue", "gone"} => batch = << >>
    /\ loop = "submit" => batch # << >>
    /\ loop = "single" => next <= Len(batch)

\* A task has at least one packet, each once, and one only in single mode; clean are commands.
WellFormed(t) ==
    /\ IsInjective(t.packets)
    /\ t.packets # << >>
    /\ t.mode = "single" => Len(t.packets) = 1
    /\ t.clean \subseteq Commands(t)

TaskInv ==
    /\ tasks \cap returning = {}
    /\ \A t \in AllTasks : WellFormed(t)

\* Once a reply was read, or an error given to all, the commands without error are stored.
CleanInv ==
    \A t \in tasks : t.clean # Commands(t) =>
        \A i \in t.clean : content[t.packets[i]] \in Range(redis)

\* The packets out of the pool have messages, each its own.
ContentInv ==
    /\ \A p \in Packets : content[p] = NoMessage <=> p \in pool
    /\ \A p \in Packets \ pool : content[p] <= sends
    /\ \A p, q \in Packets \ pool : content[p] = content[q] => p = q

\* The packets whose message may still be pushed or fail.
Waiting(p) ==
    \/ p \in InQueue \cup InLoop
    \/ \E s \in Senders : spc[s] \in {"check", "enqueue"} /\ p \in held[s]
Pushing(p) == \E t \in tasks : p \in PacketsOf(t)

Counted(m) == succeedCount[m] + failedCount[m]

\* Their messages are not counted yet; every other one at most once.
CountInv ==
    /\ \A m \in Messages :
        /\ Counted(m) <= 1
        /\ m > sends => Counted(m) = 0
        /\ succeedCount[m] = 1 => m \in Range(redis) \/ m \in unanswered
        /\ succeedByte[m] = IF succeedCount[m] = 1 THEN Size[m] ELSE 0
    /\ \A p \in Packets : Waiting(p) \/ Pushing(p) => Counted(content[p]) = 0

\* What sendCh took while loopSend ran is counted, or still on its way.
AcceptedInv ==
    \A m \in accepted :
        \/ Counted(m) = 1
        \/ \E p \in Packets : Pushing(p) /\ content[p] = m
        \/ loop # "gone" /\ \E p \in InQueue \cup InLoop : content[p] = m

\* A message is pushed by its task only; what is in redis before was pushed by a lost attempt.
PushedInv ==
    /\ \A m \in Range(redis) : m <= sends
    /\ \A p \in Packets : /\ Waiting(p) => content[p] \notin Range(redis)
                          /\ Pushing(p) /\ content[p] \in Range(redis) => content[p] \in retried

\* The messages of a batch are those of one task, in the same order, or of none.
GroupInv ==
    \A g \in grouped :
        /\ IsInjective(g)
        /\ \A m \in Range(g) : m <= sends
        /\ \A p \in Packets : Waiting(p) => content[p] \notin Range(g)
        /\ \A t \in tasks : \/ MessagesOf(t.packets) = g
                            \/ \A p \in PacketsOf(t) : content[p] \notin Range(g)

RedisInv ==
    /\ TypeOK
    /\ ApartInv
    /\ LoopInv
    /\ TaskInv
    /\ CleanInv
    /\ ContentInv
    /\ CountInv
    /\ AcceptedInv
    /\ PushedInv
    /\ GroupInv
    /\ ConsumedInOrder

-----------------------------------------------------------------------------
(***************************************************************************)
(* Sequences, types.                                                       *)
(***************************************************************************)
LEMMA Constants ==
    /\ Cap \in Nat \ {0} /\ DequeueSize \in Nat \ {0}
    /\ MaxSends \in Nat /\ MaxRetries \in Nat
    /\ Size \in [Messages -> Nat \ {0}]
    /\ NoMessage \notin Messages
    /\ Messages = 1 .. MaxSends
    /\ Messages \subseteq Nat
BY RedisAssumption DEF Messages

LEMMA RangeOf ==
    ASSUME NEW S, NEW q \in Seq(S)
    PROVE  /\ Range(q) = {q[i] : i \in 1 .. Len(q)}
           /\ Range(q) \subseteq S
BY DEF Range

LEMMA RangeMember ==
    ASSUME NEW S, NEW q \in Seq(S), NEW x
    PROVE  x \in Range(q) <=> \E i \in 1 .. Len(q) : q[i] = x
BY DEF Range

LEMMA AppendRange ==
    ASSUME NEW S, NEW q \in Seq(S), NEW x \in S
    PROVE  /\ Append(q, x) \in Seq(S)
           /\ Range(Append(q, x)) = Range(q) \cup {x}
           /\ IsInjective(q) /\ x \notin Range(q) => IsInjective(Append(q, x))
<1> DEFINE n == Len(q)
           a == Append(q, x)
<1>1. a \in Seq(S) /\ n \in Nat /\ Len(a) = n + 1
  OBVIOUS
<1>2. a[n + 1] = x /\ \A i \in 1 .. n : a[i] = q[i]
  OBVIOUS
<1>3. DOMAIN a = 1 .. n + 1 /\ DOMAIN q = 1 .. n
  BY <1>1
<1> HIDE DEF a
<1>4. Range(a) = Range(q) \cup {x}
  <2>1. ASSUME NEW y PROVE y \in Range(a) <=> y \in Range(q) \cup {x}
    <3>1. ASSUME y \in Range(a) PROVE y \in Range(q) \cup {x}
      <4>1. PICK i \in 1 .. n + 1 : y = a[i]
        BY <1>3, <3>1 DEF Range
      <4>2. i = n + 1 \/ i \in 1 .. n
        BY <1>1
      <4> QED
        BY <1>2, <1>3, <4>1, <4>2 DEF Range
    <3>2. ASSUME y \in Range(q) PROVE y \in Range(a)
      <4>1. PICK i \in 1 .. n : y = q[i]
        BY <1>3, <3>2 DEF Range
      <4>2. i \in 1 .. n + 1
        BY <1>1
      <4> QED
        BY <1>2, <1>3, <4>1, <4>2 DEF Range
    <3>3. x \in Range(a)
      <4>1. n + 1 \in 1 .. n + 1
        BY <1>1
      <4> QED
        BY <1>2, <1>3, <4>1 DEF Range
    <3> QED
      BY <3>1, <3>2, <3>3
  <2> QED
    BY <2>1
<1>5. ASSUME IsInjective(q), x \notin Range(q) PROVE IsInjective(a)
  <2>1. \A i \in 1 .. n : q[i] # x
    BY <1>3, <1>5 DEF Range
  <2>2. \A i, j \in 1 .. n : q[i] = q[j] => i = j
    BY <1>3, <1>5 DEF IsInjective
  <2>3. \A i \in 1 .. n + 1 : i = n + 1 \/ i \in 1 .. n
    BY <1>1
  <2>4. \A i, j \in 1 .. n + 1 : a[i] = a[j] => i = j
    BY <1>2, <2>1, <2>2, <2>3
  <2> QED
    BY <1>3, <2>4 DEF IsInjective
<1> QED
  BY <1>1, <1>4, <1>5 DEF a

\* Dequeue cuts sendCh in two.
LEMMA Cut ==
    ASSUME NEW S, NEW q \in Seq(S), NEW n \in 1 .. Len(q), IsInjective(q)
    PROVE  LET b == SubSeq(q, 1, n)
               c == SubSeq(q, n + 1, Len(q))
           IN  /\ b \in Seq(S) /\ c \in Seq(S)
               /\ Len(b) = n /\ Len(c) <= Len(q)
               /\ IsInjective(b) /\ IsInjective(c)
               /\ Range(b) \cup Range(c) = Range(q)
               /\ Range(b) \cap Range(c) = {}
<1> DEFINE b == SubSeq(q, 1, n)
           c == SubSeq(q, n + 1, Len(q))
           m == Len(q) - n
<1>0. Len(q) \in Nat /\ n \in Nat /\ m \in Nat /\ Len(q) = m + n
  OBVIOUS
<1>1. b \in Seq(S) /\ Len(b) = n /\ \A i \in 1 .. n : b[i] = q[i]
  BY <1>0
<1>2. c \in Seq(S) /\ Len(c) = Len(q) - n /\ \A i \in 1 .. Len(q) - n : c[i] = q[i + n]
  <2>1. Len(q) \in Nat /\ n \in Nat /\ n <= Len(q) /\ \A i \in 1 .. Len(q) : q[i] \in S
    OBVIOUS
  <2>2. c \in Seq(S) /\ Len(c) = Len(q) - n
    BY <2>1
  <2>3. ASSUME NEW i \in 1 .. Len(q) - n PROVE c[i] = q[i + n]
    BY <2>1
  <2> QED
    BY <2>2, <2>3
<1> HIDE DEF b, c
<1>3. DOMAIN b = 1 .. n /\ DOMAIN c = 1 .. m /\ DOMAIN q = 1 .. m + n
  BY <1>0, <1>1, <1>2
<1>4. \A i, j \in 1 .. m + n : q[i] = q[j] => i = j
  BY <1>3 DEF IsInjective
<1>5. /\ \A i \in 1 .. n : i \in 1 .. m + n
      /\ \A i \in 1 .. m : i + n \in 1 .. m + n /\ i + n \notin 1 .. n
      /\ \A i \in 1 .. m + n : i \in 1 .. n \/ (i - n \in 1 .. m /\ (i - n) + n = i)
      /\ \A i, j \in 1 .. m : i + n = j + n => i = j
  BY <1>0
<1>6. IsInjective(b)
  BY <1>1, <1>3, <1>4, <1>5 DEF IsInjective
<1>7. IsInjective(c)
  <2> SUFFICES ASSUME NEW i \in 1 .. m, NEW j \in 1 .. m, c[i] = c[j]
               PROVE  i = j
    BY <1>3 DEF IsInjective
  <2>1. i + n = j + n
    BY <1>2, <1>4, <1>5
  <2> QED
    BY <1>0, <2>1
<1>8. Range(b) \cup Range(c) = Range(q)
  <2>1. ASSUME NEW y \in Range(b) PROVE y \in Range(q)
    BY <1>1, <1>3, <1>5 DEF Range
  <2>2. ASSUME NEW y \in Range(c) PROVE y \in Range(q)
    <3>1. PICK i \in 1 .. m : y = c[i]
      BY <1>3 DEF Range
    <3> QED
      BY <1>2, <1>3, <1>5, <3>1 DEF Range
  <2>3. ASSUME NEW y \in Range(q) PROVE y \in Range(b) \/ y \in Range(c)
    <3>1. PICK i \in 1 .. m + n : y = q[i]
      BY <1>3 DEF Range
    <3>2. CASE i \in 1 .. n
      BY <1>1, <1>3, <3>1, <3>2 DEF Range
    <3>3. CASE i - n \in 1 .. m /\ (i - n) + n = i
      <4>1. c[i - n] = y
        BY <1>2, <3>1, <3>3
      <4> QED
        BY <1>3, <3>3, <4>1 DEF Range
    <3> QED
      BY <1>5, <3>2, <3>3
  <2> QED
    BY <2>1, <2>2, <2>3
<1>9. Range(b) \cap Range(c) = {}
  <2> SUFFICES ASSUME NEW y, y \in Range(b), y \in Range(c)
               PROVE  FALSE
    OBVIOUS
  <2>1. PICK i \in 1 .. n : y = q[i]
    BY <1>1, <1>3 DEF Range
  <2>2. PICK j \in 1 .. m : y = c[j]
    BY <1>3 DEF Range
  <2>3. y = q[j + n] /\ j + n \in 1 .. m + n /\ j + n \notin 1 .. n
    BY <1>2, <1>5, <2>2
  <2> QED
    BY <1>4, <1>5, <2>1, <2>3
<1>10. Len(c) <= Len(q)
  BY <1>0, <1>2
<1> QED
  BY <1>1, <1>2, <1>6, <1>7, <1>8, <1>9, <1>10 DEF b, c

\* The packets of a task that were stored: indices in order, none left out.
LEMMA ChosenFacts ==
    ASSUME NEW t \in Tasks, NEW is \in SUBSET (1 .. Len(t.packets))
    PROVE  /\ Cardinality(is) \in Nat
           /\ \E at \in [1 .. Cardinality(is) -> is] :
                /\ \A k, l \in 1 .. Cardinality(is) : k < l => at[k] < at[l]
                /\ \A i \in is : \E k \in 1 .. Cardinality(is) : at[k] = i
                /\ Chosen(t, is) = [k \in 1 .. Cardinality(is) |-> t.packets[at[k]]]
<1> DEFINE K == Cardinality(is)
           below(i) == {j \in is : j <= i}
           rank == [i \in is |-> Cardinality(below(i))]
           at == [k \in 1 .. K |-> CHOOSE i \in is : Cardinality(below(i)) = k]
<1>1. Len(t.packets) \in Nat
  BY DEF Tasks
<1>2. IsFiniteSet(1 .. Len(t.packets))
  BY <1>1, FS_Interval
<1>3. IsFiniteSet(is) /\ K \in Nat
  BY <1>2, FS_Subset, FS_CardinalityType
<1>4. \A i \in is : i \in Nat
  BY <1>1
<1>5. ASSUME NEW i \in is
      PROVE  IsFiniteSet(below(i)) /\ Cardinality(below(i)) \in 1 .. K
  <2>1. below(i) \in SUBSET is /\ below(i) # {}
    BY <1>4
  <2>2. IsFiniteSet(below(i)) /\ Cardinality(below(i)) <= K
    BY <1>3, <2>1, FS_Subset
  <2>3. Cardinality(below(i)) \in Nat /\ Cardinality(below(i)) # 0
    BY <2>1, <2>2, FS_CardinalityType, FS_EmptySet
  <2> QED
    BY <1>3, <2>2, <2>3
<1>6. ASSUME NEW i \in is, NEW j \in is, i < j
      PROVE  Cardinality(below(i)) < Cardinality(below(j))
  <2>0. i \in Nat /\ j \in Nat /\ i < j
    BY <1>4, <1>6
  <2>1. ASSUME NEW m \in below(i) PROVE m \in below(j)
    <3>1. m \in Nat /\ m \in is /\ m <= i
      BY <1>4
    <3>2. m <= j
      BY <2>0, <3>1
    <3> QED
      BY <3>1, <3>2
  <2>2. j \in below(j) /\ j \notin below(i)
    BY <2>0
  <2>3. Cardinality(below(i)) <= Cardinality(below(j)) /\ Cardinality(below(i)) # Cardinality(below(j))
    BY <1>5, <2>1, <2>2, FS_Subset
  <2>4. Cardinality(below(i)) \in Nat /\ Cardinality(below(j)) \in Nat
    BY <1>5, FS_CardinalityType
  <2> HIDE DEF below
  <2> QED
    BY <2>3, <2>4
<1> HIDE DEF below
<1>7. \A i, j \in is : Cardinality(below(i)) = Cardinality(below(j)) => i = j
  <2> SUFFICES ASSUME NEW i \in is, NEW j \in is, i # j
               PROVE  Cardinality(below(i)) # Cardinality(below(j))
    OBVIOUS
  <2>1. i < j \/ j < i
    BY <1>4
  <2> QED
    BY <1>5, <1>6, <2>1
<1>8. rank \in Injection(is, 1 .. K)
  BY <1>5, <1>7 DEF Injection, IsInjective
<1>9. IsFiniteSet(1 .. K) /\ Cardinality(1 .. K) = K
  <2>1. CASE K = 0
    BY <2>1, FS_Interval
  <2>2. CASE K # 0
    BY <1>3, <2>2, FS_Interval
  <2> QED
    BY <2>1, <2>2
<1>10. rank \in Surjection(is, 1 .. K)
  <2> HIDE DEF rank, K
  <2>1. Cardinality(is) = Cardinality(1 .. K)
    BY <1>9 DEF K
  <2> QED
    BY <1>8, <1>9, <2>1, FS_Injection
<1>11. \A k \in 1 .. K : \E i \in is : Cardinality(below(i)) = k
  BY <1>10 DEF Surjection
<1>12. ASSUME NEW k \in 1 .. K PROVE at[k] \in is /\ Cardinality(below(at[k])) = k
  BY <1>11
<1> HIDE DEF at
<1>13. at \in [1 .. K -> is]
  BY <1>12 DEF at
<1>14. ASSUME NEW k \in 1 .. K, NEW l \in 1 .. K, k < l PROVE at[k] < at[l]
  <2>0. at[k] \in Nat /\ at[l] \in Nat
    BY <1>4, <1>12
  <2> SUFFICES ASSUME at[l] <= at[k] PROVE FALSE
    BY <2>0
  <2>1. at[l] = at[k] \/ at[l] < at[k]
    BY <2>0
  <2>2. at[k] \in is /\ at[l] \in is /\ Cardinality(below(at[k])) = k /\ Cardinality(below(at[l])) = l
    BY <1>12
  <2> HIDE DEF K
  <2>3. CASE at[l] < at[k]
    <3>1. Cardinality(below(at[l])) < Cardinality(below(at[k]))
      BY <1>6, <2>2, <2>3
    <3>2. l < k
      BY <2>2, <3>1
    <3> QED
      BY <1>3, <1>14, <3>2
  <2>4. CASE at[l] = at[k]
    <3>1. l = k
      BY <2>2, <2>4
    <3> QED
      BY <1>3, <1>14, <3>1
  <2> QED
    BY <2>1, <2>3, <2>4
<1>15. ASSUME NEW i \in is PROVE \E k \in 1 .. K : at[k] = i
  BY <1>5, <1>7, <1>12
<1>16. Chosen(t, is) = [k \in 1 .. K |-> t.packets[at[k]]]
  BY DEF Chosen, at, below
<1> QED
  BY <1>3, <1>13, <1>14, <1>15, <1>16

LEMMA ConcatFacts ==
    ASSUME NEW S, NEW a \in Seq(S), NEW b \in Seq(S)
    PROVE  /\ a \o b \in Seq(S)
           /\ Len(a \o b) = Len(a) + Len(b)
           /\ \A i \in 1 .. Len(a) : (a \o b)[i] = a[i]
           /\ \A i \in 1 .. Len(b) : (a \o b)[Len(a) + i] = b[i]
           /\ Range(a \o b) = Range(a) \cup Range(b)
<1> DEFINE c == a \o b
<1>0. Len(a) \in Nat /\ Len(b) \in Nat
  OBVIOUS
<1>1. c \in Seq(S) /\ Len(c) = Len(a) + Len(b)
  OBVIOUS
<1>2. \A i \in 1 .. Len(a) : c[i] = a[i]
  OBVIOUS
<1>3. ASSUME NEW i \in 1 .. Len(b) PROVE c[Len(a) + i] = b[i] /\ Len(a) + i \in 1 .. Len(c)
  <2>1. Len(a) + i \in 1 .. Len(a) + Len(b) /\ Len(a) + i > Len(a) /\ (Len(a) + i) - Len(a) = i
    BY <1>0
  <2>2. c[Len(a) + i] = b[(Len(a) + i) - Len(a)]
    BY <1>0, <2>1
  <2> QED
    BY <1>1, <2>1, <2>2
<1> HIDE DEF c
<1>4. ASSUME NEW x PROVE x \in Range(c) <=> x \in Range(a) \cup Range(b)
  <2>1. ASSUME x \in Range(c) PROVE x \in Range(a) \cup Range(b)
    <3>1. PICK i \in 1 .. Len(c) : c[i] = x
      BY <1>1, <2>1, RangeMember
    <3>2. CASE i \in 1 .. Len(a)
      BY <1>2, <3>1, <3>2, RangeMember
    <3>3. CASE i \notin 1 .. Len(a)
      <4>1. i - Len(a) \in 1 .. Len(b) /\ Len(a) + (i - Len(a)) = i
        BY <1>0, <1>1, <3>3
      <4>2. b[i - Len(a)] = x
        BY <1>3, <3>1, <4>1
      <4> QED
        BY <4>1, <4>2, RangeMember
    <3> QED
      BY <3>2, <3>3
  <2>2. ASSUME x \in Range(a) PROVE x \in Range(c)
    <3>1. PICK i \in 1 .. Len(a) : a[i] = x
      BY <2>2, RangeMember
    <3>2. i \in 1 .. Len(c)
      BY <1>0, <1>1
    <3> QED
      BY <1>1, <1>2, <3>1, <3>2, RangeMember
  <2>3. ASSUME x \in Range(b) PROVE x \in Range(c)
    <3>1. PICK i \in 1 .. Len(b) : b[i] = x
      BY <2>3, RangeMember
    <3> QED
      BY <1>1, <1>3, <3>1, RangeMember
  <2> QED
    BY <2>1, <2>2, <2>3
<1> QED
  BY <1>1, <1>2, <1>3, <1>4 DEF c

LEMMA ReverseFacts ==
    ASSUME NEW S, NEW a \in Seq(S)
    PROVE  /\ Reverse(a) \in Seq(S)
           /\ Len(Reverse(a)) = Len(a)
           /\ \A i \in 1 .. Len(a) : /\ Reverse(a)[i] = a[(Len(a) - i) + 1]
                                     /\ (Len(a) - i) + 1 \in 1 .. Len(a)
                                     /\ (Len(a) - ((Len(a) - i) + 1)) + 1 = i
           /\ Range(Reverse(a)) = Range(a)
<1> DEFINE r == Reverse(a)
<1>0. Len(a) \in Nat
  OBVIOUS
<1>1. \A i \in 1 .. Len(a) : (Len(a) - i) + 1 \in 1 .. Len(a) /\ (Len(a) - ((Len(a) - i) + 1)) + 1 = i
  BY <1>0
<1>2. r = [i \in 1 .. Len(a) |-> a[(Len(a) - i) + 1]]
  BY DEF Reverse
<1>3. \A i \in 1 .. Len(a) : r[i] = a[(Len(a) - i) + 1] /\ r[i] \in S
  BY <1>1, <1>2
<1>4. r \in Seq(S) /\ Len(r) = Len(a)
  BY <1>0, <1>2, <1>3
<1> HIDE DEF r
<1>5. ASSUME NEW x PROVE x \in Range(r) <=> x \in Range(a)
  <2>1. ASSUME x \in Range(r) PROVE x \in Range(a)
    <3>1. PICK i \in 1 .. Len(a) : r[i] = x
      BY <1>4, <2>1, RangeMember
    <3> QED
      BY <1>1, <1>3, <3>1, RangeMember
  <2>2. ASSUME x \in Range(a) PROVE x \in Range(r)
    <3>1. PICK i \in 1 .. Len(a) : a[i] = x
      BY <2>2, RangeMember
    <3>2. r[(Len(a) - i) + 1] = x /\ (Len(a) - i) + 1 \in 1 .. Len(r)
      BY <1>1, <1>3, <1>4, <3>1
    <3> QED
      BY <1>4, <3>2, RangeMember
  <2> QED
    BY <2>1, <2>2
<1> QED
  BY <1>1, <1>3, <1>4, <1>5 DEF r

\* Whatever the key, what is pushed comes after all the consumer could get so far.
LEMMA PushedFacts ==
    ASSUME redis \in Seq(Messages), keyType' = keyType, NEW ms \in Seq(Messages), redis' = Pushed(ms)
    PROVE  /\ redis' \in Seq(Messages)
           /\ Len(redis') = Len(redis) + Len(ms)
           /\ Range(redis') = Range(redis) \cup Range(ms)
           /\ \A i \in 1 .. Len(redis) : Consumed'[i] = Consumed[i]
           /\ \A i \in 1 .. Len(ms) : Consumed'[Len(redis) + i] = ms[i]
<1>0. Len(redis) \in Nat /\ Len(ms) \in Nat
  OBVIOUS
<1>1. CASE keyType = "list"
  <2> DEFINE v == Reverse(ms)
             c == v \o redis
  <2>1. redis' = c /\ Consumed = Reverse(redis) /\ Consumed' = Reverse(c)
    BY <1>1 DEF Pushed, LPush, Consumed
  <2>2. /\ v \in Seq(Messages) /\ Len(v) = Len(ms) /\ Range(v) = Range(ms)
        /\ \A i \in 1 .. Len(ms) : v[i] = ms[(Len(ms) - i) + 1]
    BY ReverseFacts
  <2> HIDE DEF v
  <2>3. /\ c \in Seq(Messages) /\ Len(c) = Len(ms) + Len(redis) /\ Range(c) = Range(ms) \cup Range(redis)
        /\ \A i \in 1 .. Len(ms) : c[i] = v[i]
        /\ \A i \in 1 .. Len(redis) : c[Len(ms) + i] = redis[i]
    <3>1. /\ c \in Seq(Messages) /\ Len(c) = Len(v) + Len(redis) /\ Range(c) = Range(v) \cup Range(redis)
          /\ \A i \in 1 .. Len(v) : c[i] = v[i]
          /\ \A i \in 1 .. Len(redis) : c[Len(v) + i] = redis[i]
      <4>1. v \in Seq(Messages) /\ redis \in Seq(Messages)
        BY <2>2
      <4>2. /\ (v \o redis) \in Seq(Messages) /\ Len(v \o redis) = Len(v) + Len(redis)
            /\ \A i \in 1 .. Len(v) : (v \o redis)[i] = v[i]
            /\ \A i \in 1 .. Len(redis) : (v \o redis)[Len(v) + i] = redis[i]
        BY <4>1, ConcatFacts
      <4>3. Range(v \o redis) = Range(v) \cup Range(redis)
        BY <4>1, ConcatFacts
      <4> QED
        BY <4>2, <4>3
    <3> HIDE DEF c
    <3> QED
      BY <2>2, <3>1
  <2> HIDE DEF c
  <2>4. \A i \in 1 .. Len(c) : Reverse(c)[i] = c[(Len(c) - i) + 1]
    BY <2>3, ReverseFacts
  <2>5. \A i \in 1 .. Len(redis) : Reverse(redis)[i] = redis[(Len(redis) - i) + 1]
    BY ReverseFacts
  <2>6. ASSUME NEW i \in 1 .. Len(redis) PROVE Reverse(c)[i] = Reverse(redis)[i]
    <3>1. /\ i \in 1 .. Len(c) /\ (Len(c) - i) + 1 = Len(ms) + ((Len(redis) - i) + 1)
          /\ (Len(redis) - i) + 1 \in 1 .. Len(redis)
      BY <1>0, <2>3
    <3> QED
      BY <2>3, <2>4, <2>5, <3>1
  <2>7. ASSUME NEW i \in 1 .. Len(ms) PROVE Reverse(c)[Len(redis) + i] = ms[i]
    <3>1. /\ Len(redis) + i \in 1 .. Len(c) /\ (Len(c) - (Len(redis) + i)) + 1 = (Len(ms) - i) + 1
          /\ (Len(ms) - i) + 1 \in 1 .. Len(ms) /\ (Len(ms) - ((Len(ms) - i) + 1)) + 1 = i
      BY <1>0, <2>3
    <3>2. Reverse(c)[Len(redis) + i] = v[(Len(ms) - i) + 1]
      BY <2>3, <2>4, <3>1
    <3>3. v[(Len(ms) - i) + 1] = ms[(Len(ms) - ((Len(ms) - i) + 1)) + 1]
      BY <2>2, <3>1
    <3> QED
      BY <3>1, <3>2, <3>3
  <2>8. Len(c) = Len(redis) + Len(ms)
    BY <1>0, <2>3
  <2> QED
    BY <2>1, <2>3, <2>6, <2>7, <2>8
<1>2. CASE keyType # "list"
  <2> DEFINE c == redis \o ms
  <2>1. redis' = c /\ Consumed = redis /\ Consumed' = c
    BY <1>2 DEF Pushed, XAdd, Consumed
  <2>2. /\ c \in Seq(Messages) /\ Len(c) = Len(redis) + Len(ms) /\ Range(c) = Range(redis) \cup Range(ms)
        /\ \A i \in 1 .. Len(redis) : c[i] = redis[i]
        /\ \A i \in 1 .. Len(ms) : c[Len(redis) + i] = ms[i]
    BY ConcatFacts
  <2> HIDE DEF c
  <2> QED
    BY <2>1, <2>2
<1> QED
  BY <1>1, <1>2

-----------------------------------------------------------------------------
(***************************************************************************)
(* Packets and their messages.                                             *)
(***************************************************************************)
LEMMA TaskTypes ==
    ASSUME TypeOK, NEW t \in AllTasks
    PROVE  /\ t \in Tasks /\ t.packets \in Seq(Packets)
           /\ t.mode \in {"batch", "single"} /\ t.tries \in 0 .. MaxRetries
           /\ t.clean \in SUBSET Nat
           /\ PacketsOf(t) = {t.packets[i] : i \in 1 .. Len(t.packets)}
           /\ PacketsOf(t) \subseteq Packets
<1>1. t \in Tasks
  BY DEF TypeOK, AllTasks
<1>2. /\ t.packets \in Seq(Packets) /\ t.mode \in {"batch", "single"} /\ t.tries \in 0 .. MaxRetries
      /\ t.clean \in SUBSET Nat
  BY <1>1 DEF Tasks
<1> QED
  BY <1>1, <1>2, RangeOf DEF PacketsOf

LEMMA LoopTypes ==
    ASSUME TypeOK
    PROVE  /\ InQueue \subseteq Packets
           /\ InLoop \subseteq Range(batch)
           /\ Range(batch) \subseteq Packets
           /\ Len(batch) \in Nat /\ next \in Nat /\ next >= 1
<1>1. sendCh \in Seq(Packets) /\ batch \in Seq(Packets) /\ Len(batch) \in Nat /\ next \in Nat /\ next >= 1
  BY Constants DEF TypeOK
<1>2. \A i \in next .. Len(batch) : i \in 1 .. Len(batch)
  BY <1>1
<1>3. InLoop \subseteq Range(batch)
  BY <1>1, <1>2, RangeOf DEF InLoop
<1> QED
  BY <1>1, <1>3, RangeOf DEF InQueue

\* A packet in use has a message.
LEMMA InUse ==
    ASSUME TypeOK, ApartInv, ContentInv
    PROVE  /\ \A p \in InQueue \cup InLoop : p \in Packets \ pool
           /\ \A s \in Senders : \A p \in held[s] : p \in Packets \ pool
           /\ \A t \in AllTasks : \A p \in PacketsOf(t) : p \in Packets \ pool
           /\ \A p \in Packets \ pool : content[p] \in Messages /\ content[p] \in Nat /\ content[p] <= sends
<1>1. \A p \in InQueue \cup InLoop : p \in Packets \ pool
  BY LoopTypes DEF ApartInv
<1>2. \A s \in Senders : \A p \in held[s] : p \in Packets \ pool
  BY DEF ApartInv, TypeOK
<1>3. ASSUME NEW t \in AllTasks, NEW p \in PacketsOf(t) PROVE p \in Packets \ pool
  BY TaskTypes DEF ApartInv
<1>4. \A p \in Packets \ pool : content[p] \in Messages /\ content[p] \in Nat /\ content[p] <= sends
  BY Constants DEF ContentInv, TypeOK
<1> QED
  BY <1>1, <1>2, <1>3, <1>4

LEMMA MessagesFacts ==
    ASSUME NEW ps \in Seq(Packets), \A p \in Range(ps) : content[p] \in Messages
    PROVE  /\ MessagesOf(ps) \in Seq(Messages)
           /\ Len(MessagesOf(ps)) = Len(ps)
           /\ \A i \in 1 .. Len(ps) : MessagesOf(ps)[i] = content[ps[i]]
           /\ Range(MessagesOf(ps)) = {content[p] : p \in Range(ps)}
<1> DEFINE ms == MessagesOf(ps)
<1>1. Len(ps) \in Nat /\ \A i \in 1 .. Len(ps) : ps[i] \in Range(ps)
  BY RangeOf
<1>2. ms = [i \in 1 .. Len(ps) |-> content[ps[i]]]
  BY DEF MessagesOf
<1>3. \A i \in 1 .. Len(ps) : ms[i] = content[ps[i]] /\ ms[i] \in Messages
  BY <1>1, <1>2
<1>4. ms \in Seq(Messages) /\ Len(ms) = Len(ps)
  BY <1>1, <1>2, <1>3
<1> HIDE DEF ms
<1>5. ASSUME NEW x PROVE x \in Range(ms) <=> x \in {content[p] : p \in Range(ps)}
  <2>1. x \in Range(ms) <=> \E i \in 1 .. Len(ps) : ms[i] = x
    BY <1>4, RangeMember
  <2>2. \A p : p \in Range(ps) <=> \E i \in 1 .. Len(ps) : ps[i] = p
    BY RangeMember
  <2> QED
    BY <1>3, <2>1, <2>2
<1> QED
  BY <1>3, <1>4, <1>5 DEF ms

-----------------------------------------------------------------------------
(***************************************************************************)
(* What a step does to packets, messages and counts.                       *)
(***************************************************************************)
\* Nothing, but that packets may go from sendCh to loopSend.
Quiet ==
    /\ InQueue' \cup InLoop' = InQueue \cup InLoop
    /\ InQueue' \cap InLoop' = {}
    /\ sends' \in {sends, sends + 1}
    /\ \A r \in Senders : spc'[r] = spc[r] \/ (spc[r] = "check" /\ spc'[r] = "enqueue")
    /\ loop' = "gone" => loop = "gone" \/ InQueue \cup InLoop = {}
    /\ UNCHANGED <<pool, content, held, work, keyType, redis, metrics, history>>

\* The packet p goes from the sender s to sendCh.
Accepts(s, p) ==
    /\ spc[s] = "enqueue"
    /\ p \in held[s]
    /\ InQueue' = InQueue \cup {p} /\ InLoop' = InLoop
    /\ accepted' = IF loop = "gone" THEN accepted ELSE accepted \cup {content[p]}
    /\ held' = [held EXCEPT ![s] = {}]
    /\ spc' = [spc EXCEPT ![s] = "idle"]
    /\ UNCHANGED <<pool, content, sends, loop, work, keyType, redis, metrics, grouped, retried,
                   unanswered>>

\* Packets go from loopSend to the new task u.
Submits(u) ==
    /\ u \in Tasks /\ WellFormed(u) /\ u.clean = Commands(u)
    /\ PacketsOf(u) \subseteq InLoop
    /\ InQueue' = InQueue /\ InLoop' = InLoop \ PacketsOf(u)
    /\ tasks' = tasks \cup {u}
    /\ grouped' = grouped \/ grouped' = grouped \cup {MessagesOf(u.packets)}
    /\ loop # "gone" /\ loop' # "gone"
    /\ UNCHANGED <<pool, content, send, returning, keyType, redis, metrics, accepted, retried, unanswered>>

\* The packets ps go from loopSend back to the pool.
Refuses(ps) ==
    /\ ps \subseteq InLoop
    /\ InQueue' = InQueue /\ InLoop' = InLoop \ ps
    /\ PoolPut(ps)
    /\ failedCount' = Mark(failedCount, {content[p] : p \in ps})
    /\ loop # "gone" /\ loop' # "gone"
    /\ UNCHANGED <<send, work, keyType, redis, succeedCount, succeedByte, history>>

\* Messages of the task t are pushed in order.
Grows(t, ms) ==
    /\ ms \in Seq(Messages)
    /\ \A i \in 1 .. Len(ms) : \E a \in 1 .. Len(t.packets) : ms[i] = content[t.packets[a]]
    /\ \A i, j \in 1 .. Len(ms) : i < j =>
          \E a, b \in 1 .. Len(t.packets) :
             a < b /\ ms[i] = content[t.packets[a]] /\ ms[j] = content[t.packets[b]]
    /\ redis' = Pushed(ms)
    /\ keyType' = keyType

\* The task t will try again as u.
Loses(t, u, ms) ==
    /\ t \in tasks
    /\ u \in Tasks /\ u # t /\ u.packets = t.packets /\ WellFormed(u)
    /\ Grows(t, ms)
    /\ u.clean # Commands(u) => \A i \in u.clean : content[u.packets[i]] \in Range(redis')
    /\ \/ retried' = retried \cup {content[p] : p \in PacketsOf(t)}
       \/ retried' = retried /\ redis' = redis
    /\ tasks' = (tasks \ {t}) \cup {u}
    /\ InQueue' = InQueue /\ InLoop' = InLoop
    /\ UNCHANGED <<pool, content, send, loop, returning, metrics, accepted, grouped, unanswered>>

\* The task t is through, and returns as u: the packets good succeeded, the packets bad failed.
Executes(t, u, ms, good, bad) ==
    /\ t \in tasks
    /\ u.packets = t.packets /\ WellFormed(u)
    /\ Grows(t, ms)
    /\ good \cup bad = PacketsOf(t) /\ good \cap bad = {}
    /\ \A p \in good : content[p] \in Range(redis') \/ content[p] \in unanswered'
    /\ unanswered \subseteq unanswered'
    /\ Count(good, bad)
    /\ tasks' = tasks \ {t}
    /\ returning' = returning \cup {u}
    /\ InQueue' = InQueue /\ InLoop' = InLoop
    /\ UNCHANGED <<pool, content, send, loop, accepted, grouped, retried>>

LEMMA DequeueFacts ==
    ASSUME TypeOK, LoopInv, NEW n \in 1 .. DequeueSize, Dequeue(n)
    PROVE  /\ sendCh' \in Seq(Packets) /\ Len(sendCh') <= Cap /\ IsInjective(sendCh')
           /\ batch' \in Seq(Packets) /\ Len(batch') = n /\ IsInjective(batch')
           /\ loop' \in {"submit", "single"} /\ next' = 1
           /\ InQueue' \cup InLoop' = InQueue \cup InLoop
           /\ InQueue' \cap InLoop' = {}
<1> DEFINE b == SubSeq(sendCh, 1, n)
           c == SubSeq(sendCh, n + 1, Len(sendCh))
<1>1. batch' = b /\ sendCh' = c /\ next' = 1 /\ loop' \in {"submit", "single"} /\ loop = "dequeue"
  BY DEF Dequeue
<1>2. n \in Nat /\ Cap \in Nat /\ Len(sendCh) \in Nat
  BY Constants DEF TypeOK
<1>3. n \in 1 .. Len(sendCh) /\ sendCh \in Seq(Packets) /\ IsInjective(sendCh) /\ Len(sendCh) <= Cap
  BY <1>2 DEF Dequeue, TypeOK, LoopInv
<1>4. /\ b \in Seq(Packets) /\ c \in Seq(Packets)
      /\ Len(b) = n /\ Len(c) <= Len(sendCh)
      /\ IsInjective(b) /\ IsInjective(c)
      /\ Range(b) \cup Range(c) = Range(sendCh)
      /\ Range(b) \cap Range(c) = {}
  BY <1>3, Cut
<1> HIDE DEF b, c
<1>5. Len(c) <= Cap
  <2>1. Len(c) \in Nat
    BY <1>4
  <2> QED
    BY <1>2, <1>3, <1>4, <2>1
<1>6. InLoop = {}
  <2>1. batch = << >>
    BY <1>1 DEF LoopInv
  <2> QED
    BY <1>1, <2>1 DEF InLoop, Range
<1>7. InLoop' = Range(b)
  <2>1. Range(b) = {b[i] : i \in 1 .. Len(b)}
    BY <1>4, RangeOf
  <2>2. CASE loop' = "single"
    BY <1>1, <2>1, <2>2 DEF InLoop
  <2>3. CASE loop' # "single"
    BY <1>1, <2>3 DEF InLoop
  <2> QED
    BY <2>2, <2>3
<1>8. InQueue' = Range(c) /\ InQueue = Range(sendCh)
  BY <1>1 DEF InQueue
<1> QED
  BY <1>1, <1>4, <1>5, <1>6, <1>7, <1>8

LEMMA NextSingleFacts ==
    ASSUME TypeOK, LoopInv, loop = "single", NextSingle
    PROVE  /\ batch[next] \in InLoop
           /\ InLoop' = InLoop \ {batch[next]}
           /\ loop' \in {"single", "dequeue"}
           /\ batch' \in Seq(Packets) /\ Len(batch') <= DequeueSize /\ IsInjective(batch')
           /\ loop' = "single" => next' <= Len(batch')
           /\ loop' = "dequeue" => batch' = << >>
           /\ next' \in 1 .. DequeueSize + 1
<1> DEFINE n == Len(batch)
<1>1. /\ n \in Nat /\ next \in 1 .. n /\ DequeueSize \in Nat /\ n <= DequeueSize
      /\ batch \in Seq(Packets)
  BY LoopTypes, Constants DEF LoopInv, TypeOK
<1>2. InLoop = {batch[i] : i \in next .. n}
  BY DEF InLoop
<1>3. \A i, j \in 1 .. n : batch[i] = batch[j] => i = j
  <2>1. DOMAIN batch = 1 .. n
    BY <1>1
  <2> QED
    BY <2>1 DEF LoopInv, IsInjective
<1>4. next' = next + 1 /\ next + 1 \in 1 .. DequeueSize + 1
  BY <1>1 DEF NextSingle
<1>5. batch[next] \in InLoop
  BY <1>1, <1>2
<1>6. CASE next < n
  <2>1. loop' = "single" /\ batch' = batch
    BY <1>6 DEF NextSingle
  <2>2. InLoop' = {batch[i] : i \in next + 1 .. n}
    BY <1>4, <2>1 DEF InLoop
  <2>3. \A i : i \in next + 1 .. n <=> i \in next .. n /\ i # next
    BY <1>1
  <2>4. \A i \in next .. n : i \in 1 .. n
    BY <1>1
  <2>5. \A i \in next .. n : batch[i] = batch[next] <=> i = next
    BY <1>1, <1>3, <2>4
  <2>6. InLoop' = InLoop \ {batch[next]}
    BY <1>2, <2>2, <2>3, <2>5
  <2>7. next + 1 <= n
    BY <1>1, <1>6
  <2> QED
    BY <1>1, <1>4, <1>5, <2>1, <2>6, <2>7 DEF LoopInv
<1>7. CASE ~(next < n)
  <2>1. loop' = "dequeue" /\ batch' = << >>
    BY <1>7 DEF NextSingle
  <2>2. next = n /\ next .. n = {next}
    BY <1>1, <1>7
  <2>3. InLoop' = {}
    BY <2>1 DEF InLoop, Range
  <2>4. InLoop \ {batch[next]} = {}
    BY <1>2, <2>2
  <2>5. << >> \in Seq(Packets) /\ Len(<< >>) = 0 /\ IsInjective(<< >>)
    BY DEF IsInjective
  <2> QED
    BY <1>1, <1>4, <1>5, <2>1, <2>3, <2>4, <2>5
<1> QED
  BY <1>6, <1>7

LEMMA GrowFacts ==
    ASSUME TypeOK, ApartInv, ContentInv, NEW t \in tasks, NEW stored \in SUBSET (1 .. Len(t.packets)),
           redis' = Pushed(MessagesOf(Chosen(t, stored))), keyType' = keyType
    PROVE  \E ms : /\ Grows(t, ms)
                   /\ \A i \in stored : content[t.packets[i]] \in Range(ms)
<1> DEFINE K == Cardinality(stored)
           ps == Chosen(t, stored)
           ms == MessagesOf(ps)
<1>1. t \in AllTasks /\ t \in Tasks /\ t.packets \in Seq(Packets) /\ PacketsOf(t) = {t.packets[i] : i \in 1 .. Len(t.packets)}
  <2>1. t \in AllTasks
    BY DEF AllTasks
  <2> QED
    BY <2>1, TaskTypes
<1>2. \A i \in 1 .. Len(t.packets) : t.packets[i] \in Packets /\ content[t.packets[i]] \in Messages
  BY <1>1, InUse
<1>3. K \in Nat
  BY <1>1, ChosenFacts
<1>4. PICK at \in [1 .. K -> stored] :
        /\ \A k, l \in 1 .. K : k < l => at[k] < at[l]
        /\ \A i \in stored : \E k \in 1 .. K : at[k] = i
        /\ ps = [k \in 1 .. K |-> t.packets[at[k]]]
  BY <1>1, ChosenFacts
<1>5. \A k \in 1 .. K : at[k] \in stored /\ at[k] \in 1 .. Len(t.packets)
  BY <1>4
<1> HIDE DEF ps, K
<1>6. \A k \in 1 .. K : ps[k] = t.packets[at[k]] /\ ps[k] \in Packets /\ content[ps[k]] \in Messages
  BY <1>2, <1>4, <1>5
<1>7. ps \in Seq(Packets) /\ Len(ps) = K
  BY <1>3, <1>4, <1>6
<1>8. \A p \in Range(ps) : content[p] \in Messages
  BY <1>6, <1>7, RangeOf
<1>9. ms \in Seq(Messages) /\ Len(ms) = K /\ \A k \in 1 .. K : ms[k] = content[ps[k]]
  BY <1>7, <1>8, MessagesFacts
<1>10. redis' = Pushed(ms)
  BY DEF ps
<1> HIDE DEF ms
<1>11. Grows(t, ms)
  <2>1. \A k \in 1 .. K : ms[k] = content[t.packets[at[k]]]
    BY <1>6, <1>9
  <2>2. \A i \in 1 .. Len(ms) : \E a \in 1 .. Len(t.packets) : ms[i] = content[t.packets[a]]
    BY <1>5, <1>9, <2>1
  <2>3. \A i, j \in 1 .. Len(ms) : i < j =>
          \E a, b \in 1 .. Len(t.packets) :
             a < b /\ ms[i] = content[t.packets[a]] /\ ms[j] = content[t.packets[b]]
    <3> SUFFICES ASSUME NEW i \in 1 .. Len(ms), NEW j \in 1 .. Len(ms), i < j
                 PROVE  \E a, b \in 1 .. Len(t.packets) :
                          a < b /\ ms[i] = content[t.packets[a]] /\ ms[j] = content[t.packets[b]]
      OBVIOUS
    <3>1. i \in 1 .. K /\ j \in 1 .. K
      BY <1>9
    <3>2. at[i] < at[j]
      BY <1>4, <3>1
    <3>3. at[i] \in 1 .. Len(t.packets) /\ at[j] \in 1 .. Len(t.packets)
      BY <1>5, <3>1
    <3>4. ms[i] = content[t.packets[at[i]]] /\ ms[j] = content[t.packets[at[j]]]
      BY <2>1, <3>1
    <3> QED
      BY <3>2, <3>3, <3>4
  <2> QED
    BY <1>9, <1>10, <2>2, <2>3 DEF Grows
<1>12. ASSUME NEW i \in stored PROVE content[t.packets[i]] \in Range(ms)
  <2>1. PICK k \in 1 .. K : at[k] = i
    BY <1>4
  <2>2. ms[k] = content[t.packets[i]]
    BY <1>6, <1>9, <2>1
  <2> QED
    BY <1>9, <2>2, RangeMember
<1> QED
  BY <1>11, <1>12

-----------------------------------------------------------------------------
(***************************************************************************)
(* Types, sendCh and the batch.                                            *)
(***************************************************************************)
LEMMA MarkType ==
    ASSUME NEW meter \in [Messages -> Nat], NEW ms
    PROVE  Mark(meter, ms) \in [Messages -> Nat]
BY DEF Mark

LEMMA PoolPutType ==
    ASSUME TypeOK, NEW ps \in SUBSET Packets, PoolPut(ps)
    PROVE  pool' \in SUBSET Packets /\ content' \in [Packets -> Messages \cup {NoMessage}]
BY DEF TypeOK, PoolPut

LEMMA CountType ==
    ASSUME TypeOK, NEW good, NEW bad, Count(good, bad)
    PROVE  /\ succeedCount' \in [Messages -> Nat]
           /\ failedCount' \in [Messages -> Nat]
           /\ succeedByte' \in [Messages -> Nat]
<1> DEFINE ms == {content[p] : p \in good}
<1>1. /\ succeedCount' = Mark(succeedCount, ms)
      /\ failedCount' = Mark(failedCount, {content[p] : p \in bad})
      /\ succeedByte' = [m \in Messages |->
                           IF m \in ms THEN succeedByte[m] + Size[m] ELSE succeedByte[m]]
  BY DEF Count
<1>2. succeedByte \in [Messages -> Nat] /\ Size \in [Messages -> Nat]
  BY Constants DEF TypeOK
<1> HIDE DEF ms
<1>3. succeedByte' \in [Messages -> Nat]
  BY <1>1, <1>2
<1>4. succeedCount \in [Messages -> Nat] /\ failedCount \in [Messages -> Nat]
  BY DEF TypeOK
<1> QED
  BY <1>1, <1>3, <1>4, MarkType

LEMMA RejectType ==
    ASSUME TypeOK, NEW s \in Senders, Reject(s)
    PROVE  TypeOK'
<1>1. failedCount' \in [Messages -> Nat]
  BY MarkType DEF Reject, TypeOK
<1>2. spc' \in [Senders -> {"idle", "check", "enqueue", "return"}]
  BY DEF Reject, TypeOK
<1> QED
  BY <1>1, <1>2 DEF Reject, TypeOK, loopSend, work, history

\* The messages of a task.
LEMMA MessagesType ==
    ASSUME TypeOK, ApartInv, ContentInv, NEW t \in tasks
    PROVE  Range(MessagesOf(t.packets)) \subseteq Messages
<1>1. t \in AllTasks
  BY DEF AllTasks
<1>2. t.packets \in Seq(Packets) /\ \A p \in PacketsOf(t) : content[p] \in Messages
  BY <1>1, TaskTypes, InUse
<1>3. MessagesOf(t.packets) \in Seq(Messages)
  BY <1>2, MessagesFacts DEF PacketsOf
<1> QED
  BY <1>3, RangeOf

\* What a task is when its commands have been tried anew, or are through.
LEMMA TriedType ==
    ASSUME TypeOK, NEW t \in AllTasks, NEW ok \in SUBSET Commands(t)
    PROVE  /\ Task(t.mode, t.packets) \in Tasks
           /\ Task(t.mode, t.packets).mode = t.mode
           /\ Task(t.mode, t.packets).packets = t.packets
           /\ Task(t.mode, t.packets).clean = Commands(t)
           /\ t.tries < MaxRetries =>
                LET u == [t EXCEPT !.tries = @ + 1, !.clean = ok]
                IN  /\ u \in Tasks /\ u # t /\ u.packets = t.packets /\ u.mode = t.mode /\ u.clean = ok
<1> DEFINE u == [t EXCEPT !.tries = @ + 1, !.clean = ok]
<1>1. /\ t \in Tasks /\ t.packets \in Seq(Packets) /\ t.mode \in {"batch", "single"}
      /\ t.tries \in Nat /\ MaxRetries \in Nat /\ Commands(t) \in SUBSET Nat
  BY TaskTypes, Constants DEF Commands
<1>2. ASSUME t.tries < MaxRetries
      PROVE  u \in Tasks /\ u # t /\ u.packets = t.packets /\ u.mode = t.mode /\ u.clean = ok
  <2>1. t.tries + 1 \in 0 .. MaxRetries /\ t.tries + 1 # t.tries
    BY <1>1, <1>2
  <2>2. ok \in SUBSET Nat
    BY <1>1
  <2>3. u \in Tasks /\ u.packets = t.packets /\ u.mode = t.mode /\ u.clean = ok /\ u.tries = t.tries + 1
    BY <1>1, <2>1, <2>2 DEF Tasks
  <2> HIDE DEF u
  <2> QED
    BY <2>1, <2>3
<1>3. Task(t.mode, t.packets) \in Tasks
  <2>1. 0 \in 0 .. MaxRetries /\ 1 .. Len(t.packets) \in SUBSET Nat
    BY <1>1 DEF Commands
  <2> QED
    BY <1>1, <2>1 DEF Task, Tasks
<1> QED
  BY <1>2, <1>3 DEF Task, Commands

LEMMA ExecType ==
    ASSUME TypeOK, ApartInv, ContentInv, NEW t \in tasks,
           NEW stored \in SUBSET Commands(t), NEW ok \in SUBSET Commands(t),
           Exec(t, stored, ok), NEW good, NEW bad, Count(good, bad)
    PROVE  TypeOK'
<1>0. t \in AllTasks
  BY DEF AllTasks
<1>1. /\ redis' = Pushed(MessagesOf(Chosen(t, stored))) /\ keyType' = keyType
      /\ tasks' = tasks \ {t} /\ returning' = returning \cup {Task(t.mode, t.packets)}
      /\ UNCHANGED <<pool, content, sendCh, chClosed, closeLock, send, loopSend, quit,
                     accepted, grouped, retried>>
  BY DEF Exec
<1>2. PICK ms : Grows(t, ms)
  BY <1>1, GrowFacts DEF Commands
<1>3. redis' \in Seq(Messages)
  <2>1. ms \in Seq(Messages) /\ redis' = Pushed(ms) /\ redis \in Seq(Messages)
    BY <1>2 DEF Grows, TypeOK
  <2> QED
    BY <1>1, <2>1, PushedFacts
<1>4. tasks' \subseteq Tasks /\ returning' \subseteq Tasks
  <2>1. Task(t.mode, t.packets) \in Tasks
    BY <1>0, TriedType
  <2>2. tasks \subseteq Tasks /\ returning \subseteq Tasks
    BY DEF TypeOK
  <2> QED
    BY <1>1, <2>1, <2>2
<1>5. unanswered' \in SUBSET Messages
  <2>1. unanswered' = unanswered \/ unanswered' = unanswered \cup Range(MessagesOf(t.packets))
    BY DEF Exec
  <2> QED
    BY <2>1, MessagesType DEF TypeOK
<1> QED
  BY <1>1, <1>3, <1>4, <1>5, CountType DEF TypeOK, send, loopSend

LEMMA LostType ==
    ASSUME TypeOK, ApartInv, ContentInv, NEW t \in tasks,
           NEW stored \in SUBSET Commands(t), NEW ok \in SUBSET Commands(t), AttemptLost(t, stored, ok)
    PROVE  TypeOK'
<1> DEFINE u == [t EXCEPT !.tries = @ + 1, !.clean = ok]
<1>1. /\ redis' = Pushed(MessagesOf(Chosen(t, stored))) /\ keyType' = keyType
      /\ tasks' = (tasks \ {t}) \cup {u} /\ t.tries < MaxRetries
      /\ retried' = retried \/ retried' = retried \cup Range(MessagesOf(t.packets))
      /\ UNCHANGED <<pool, content, sendCh, chClosed, closeLock, send, loopSend, returning, quit,
                     metrics, accepted, grouped, unanswered>>
  BY DEF AttemptLost
<1>2. PICK ms : Grows(t, ms)
  BY <1>1, GrowFacts DEF Commands
<1>3. redis' \in Seq(Messages)
  <2>1. ms \in Seq(Messages) /\ redis' = Pushed(ms) /\ redis \in Seq(Messages)
    BY <1>2 DEF Grows, TypeOK
  <2> QED
    BY <1>1, <2>1, PushedFacts
<1>4. u \in Tasks
  <2>1. t \in AllTasks
    BY DEF AllTasks
  <2> QED
    BY <1>1, <2>1, TriedType
<1> HIDE DEF u
<1>5. tasks' \subseteq Tasks /\ retried' \in SUBSET Messages
  BY <1>1, <1>4, MessagesType DEF TypeOK
<1> QED
  BY <1>1, <1>3, <1>5 DEF TypeOK, send, loopSend, metrics

Divided(t, ok, good, bad) ==
    /\ good \cup bad = PacketsOf(t) /\ good \cap bad = {}
    /\ \A p \in good : \E i \in ok : p = t.packets[i]

\* In each of the four modes the packets of a task are divided into those that succeeded, whose
\* command has no error, and those that failed.
LEMMA ExecCases ==
    ASSUME TypeOK, TaskInv, NEW t \in tasks,
           NEW stored \in SUBSET Commands(t), NEW ok \in SUBSET Commands(t),
           \/ SendListBatchMode(t, stored, ok)
           \/ SendStreamBatchMode(t, stored, ok)
           \/ SendListSingleMode(t, stored, ok)
           \/ SendStreamSingleMode(t, stored, ok)
    PROVE  /\ Exec(t, stored, ok)
           /\ \E good, bad : /\ Count(good, bad)
                             /\ Divided(t, ok, good, bad)
<1> USE DEF Divided, Commands
<1> DEFINE n == Len(t.packets)
<1>1. /\ t \in AllTasks /\ t.packets \in Seq(Packets) /\ n \in Nat
      /\ PacketsOf(t) = {t.packets[i] : i \in 1 .. n}
      /\ t.mode \in {"batch", "single"}
  <2>1. t \in AllTasks
    BY DEF AllTasks
  <2> QED
    BY <2>1, TaskTypes
<1>2. Exec(t, stored, ok)
  BY DEF SendListBatchMode, SendStreamBatchMode, SendListSingleMode, SendStreamSingleMode
<1>3. CASE t.mode = "batch"
  <2> DEFINE good == {t.packets[i] : i \in ok}
             bad == {t.packets[i] : i \in (1 .. n) \ ok}
  <2>1. Count(good, bad)
    BY <1>3 DEF SendListBatchMode, SendStreamBatchMode, SendListSingleMode, SendStreamSingleMode, CountBatch
  <2>2. good \cup bad = PacketsOf(t)
    BY <1>1
  <2>3. good \cap bad = {}
    <3>1. \A i, j \in 1 .. n : t.packets[i] = t.packets[j] => i = j
      <4>1. DOMAIN t.packets = 1 .. n
        BY <1>1
      <4> QED
        BY <1>1, <4>1 DEF TaskInv, WellFormed, IsInjective
    <3> QED
      BY <3>1
  <2>4. \A p \in good : \E i \in ok : p = t.packets[i]
    OBVIOUS
  <2> HIDE DEF good, bad
  <2> QED
    BY <1>2, <2>1, <2>2, <2>3, <2>4
<1>4. CASE t.mode = "single"
  <2>1. n = 1 /\ Range(t.packets) = PacketsOf(t)
    BY <1>1, <1>4 DEF TaskInv, WellFormed, PacketsOf
  <2>2. IF ok = {} THEN Count({}, PacketsOf(t)) ELSE Count(PacketsOf(t), {})
    BY <1>4, <2>1 DEF SendListBatchMode, SendStreamBatchMode, SendListSingleMode, SendStreamSingleMode
  <2>3. CASE ok = {}
    BY <1>2, <2>2, <2>3
  <2>4. CASE ok # {}
    <3>0. 1 .. n = {1}
      BY <2>1
    <3>1. ok = 1 .. n
      <4> HIDE DEF n
      <4> QED
        BY <2>4, <3>0 DEF n
    <3>2. \A p \in PacketsOf(t) : \E i \in ok : p = t.packets[i]
      BY <1>1, <3>1
    <3>3. Count(PacketsOf(t), {}) /\ PacketsOf(t) \cup {} = PacketsOf(t) /\ PacketsOf(t) \cap {} = {}
      BY <2>2, <2>4
    <3> QED
      BY <1>2, <3>2, <3>3
  <2> QED
    BY <2>3, <2>4
<1> QED
  BY <1>1, <1>3, <1>4

LEMMA TypeStep ==
    ASSUME TypeOK, ApartInv, LoopInv, TaskInv, ContentInv, [Next]_vars
    PROVE  TypeOK'
<1>1. ASSUME NEW s \in Senders, NEW p \in Packets, SendSet(s, p) PROVE TypeOK'
  <2>1. sends + 1 \in Messages /\ sends + 1 \in 0 .. MaxSends
    BY <1>1, Constants DEF SendSet, TypeOK
  <2>2. content' \in [Packets -> Messages \cup {NoMessage}] /\ sends' \in 0 .. MaxSends
    BY <1>1, <2>1 DEF SendSet, TypeOK
  <2>3. pool' \in SUBSET Packets /\ held' \in [Senders -> SUBSET Packets]
        /\ spc' \in [Senders -> {"idle", "check", "enqueue", "return"}]
    BY <1>1 DEF SendSet, TypeOK
  <2> QED
    BY <1>1, <2>2, <2>3 DEF SendSet, TypeOK, loopSend, work, metrics, history
<1>2. ASSUME NEW s \in Senders, SendSetFailed(s) PROVE TypeOK'
  <2>1. sends' \in 0 .. MaxSends
    BY <1>2, Constants DEF SendSetFailed, TypeOK
  <2> QED
    BY <1>2, <2>1 DEF SendSetFailed, TypeOK, loopSend, work, metrics, history
<1>3. ASSUME NEW s \in Senders, SendCheck(s) PROVE TypeOK'
  <2>1. CASE chClosed
    BY <1>3, <2>1, RejectType DEF SendCheck
  <2>2. CASE ~chClosed
    <3>1. spc' \in [Senders -> {"idle", "check", "enqueue", "return"}]
      BY <1>3, <2>2 DEF SendCheck, TypeOK
    <3> QED
      BY <1>3, <2>2, <3>1 DEF SendCheck, TypeOK, loopSend, work, metrics, history
  <2> QED
    BY <2>1, <2>2
<1>4. ASSUME NEW s \in Senders, SendEnqueue(s) PROVE TypeOK'
  <2>1. CASE Len(sendCh) < Cap
    <3>1. PICK p \in held[s] : Accept(p)
      BY <1>4, <2>1 DEF SendEnqueue
    <3>2. p \in Packets /\ content[p] \in Messages
      BY InUse
    <3>3. sendCh' \in Seq(Packets) /\ Len(sendCh') <= Cap
      BY <2>1, <3>1, <3>2, Constants DEF Accept, TypeOK
    <3>4. accepted' \in SUBSET Messages
      BY <3>1, <3>2 DEF Accept, TypeOK
    <3>5. spc' \in [Senders -> {"idle", "check", "enqueue", "return"}] /\ held' \in [Senders -> SUBSET Packets]
      BY <1>4, <2>1 DEF SendEnqueue, TypeOK
    <3> QED
      BY <1>4, <2>1, <3>3, <3>4, <3>5 DEF SendEnqueue, TypeOK, loopSend, work, metrics
  <2>2. CASE ~(Len(sendCh) < Cap)
    BY <1>4, <2>2, RejectType DEF SendEnqueue
  <2> QED
    BY <2>1, <2>2
<1>5. ASSUME NEW s \in Senders, SendReturn(s) PROVE TypeOK'
  <2>1. held[s] \in SUBSET Packets /\ PoolPut(held[s])
    BY <1>5 DEF SendReturn, TypeOK
  <2>2. pool' \in SUBSET Packets /\ content' \in [Packets -> Messages \cup {NoMessage}]
    BY <2>1, PoolPutType
  <2>3. spc' \in [Senders -> {"idle", "check", "enqueue", "return"}] /\ held' \in [Senders -> SUBSET Packets]
    BY <1>5 DEF SendReturn, TypeOK
  <2> QED
    BY <1>5, <2>2, <2>3 DEF SendReturn, TypeOK, loopSend, work, metrics, history
<1>6. ASSUME Close \/ CloseTimer \/ Quit \/ DequeueEnd \/ UNCHANGED vars PROVE TypeOK'
  BY <1>6 DEF Close, CloseTimer, Quit, DequeueEnd, vars, TypeOK, send, loopSend, work, metrics, history
<1>7. ASSUME NEW n \in 1 .. DequeueSize, Dequeue(n) PROVE TypeOK'
  <2>1. sendCh' \in Seq(Packets) /\ Len(sendCh') <= Cap /\ batch' \in Seq(Packets) /\ Len(batch') <= DequeueSize
        /\ loop' \in {"dequeue", "submit", "single", "gone"} /\ next' \in 1 .. DequeueSize + 1
    BY <1>7, DequeueFacts, Constants
  <2> QED
    BY <1>7, <2>1 DEF Dequeue, TypeOK, send, work, metrics, history
<1>8. ASSUME SubmitBatch PROVE TypeOK'
  <2>1. Task("batch", batch) \in Tasks
    BY Constants DEF TypeOK, Task, Tasks
  <2>2. MessagesOf(batch) \in Seq(Messages)
    <3>1. InLoop = Range(batch) /\ batch \in Seq(Packets)
      BY <1>8 DEF SubmitBatch, InLoop, TypeOK
    <3>2. \A p \in Range(batch) : content[p] \in Messages
      BY <3>1, InUse
    <3> QED
      BY <3>1, <3>2, MessagesFacts
  <2>3. tasks' \subseteq Tasks /\ grouped' \in SUBSET Seq(Messages) /\ batch' \in Seq(Packets)
        /\ Len(batch') <= DequeueSize /\ loop' \in {"dequeue", "submit", "single", "gone"}
    BY <1>8, <2>1, <2>2, Constants DEF SubmitBatch, TypeOK
  <2> QED
    BY <1>8, <2>3 DEF SubmitBatch, TypeOK, send, metrics
<1>9. ASSUME SubmitBatchRefused PROVE TypeOK'
  <2>1. Range(batch) \in SUBSET Packets
    BY LoopTypes
  <2>2. pool' \in SUBSET Packets /\ content' \in [Packets -> Messages \cup {NoMessage}]
    BY <1>9, <2>1, PoolPutType DEF SubmitBatchRefused
  <2>3. failedCount' \in [Messages -> Nat]
    BY <1>9, MarkType DEF SubmitBatchRefused, TypeOK
  <2>4. batch' \in Seq(Packets) /\ Len(batch') <= DequeueSize /\ loop' \in {"dequeue", "submit", "single", "gone"}
    BY <1>9, Constants DEF SubmitBatchRefused
  <2> QED
    BY <1>9, <2>2, <2>3, <2>4 DEF SubmitBatchRefused, TypeOK, send, work, history
<1>10. ASSUME SubmitSingle PROVE TypeOK'
  <2>1. loop = "single" /\ NextSingle
    BY <1>10 DEF SubmitSingle
  <2>2. /\ batch[next] \in Packets /\ batch' \in Seq(Packets) /\ Len(batch') <= DequeueSize
        /\ loop' \in {"dequeue", "submit", "single", "gone"} /\ next' \in 1 .. DequeueSize + 1
    BY <2>1, NextSingleFacts, LoopTypes
  <2>3. Task("single", <<batch[next]>>) \in Tasks
    BY <2>2, Constants DEF Task, Tasks
  <2>4. tasks' \subseteq Tasks
    BY <1>10, <2>3 DEF SubmitSingle, TypeOK
  <2> QED
    BY <1>10, <2>2, <2>4 DEF SubmitSingle, TypeOK, send, metrics, history
<1>11. ASSUME SubmitSingleRefused PROVE TypeOK'
  <2>1. loop = "single" /\ NextSingle
    BY <1>11 DEF SubmitSingleRefused
  <2>2. /\ batch[next] \in Packets /\ batch' \in Seq(Packets) /\ Len(batch') <= DequeueSize
        /\ loop' \in {"dequeue", "submit", "single", "gone"} /\ next' \in 1 .. DequeueSize + 1
    BY <2>1, NextSingleFacts, LoopTypes
  <2>3. {batch[next]} \in SUBSET Packets /\ PoolPut({batch[next]})
    BY <1>11, <2>2 DEF SubmitSingleRefused
  <2>4. pool' \in SUBSET Packets /\ content' \in [Packets -> Messages \cup {NoMessage}]
    BY <2>3, PoolPutType
  <2>5. failedCount' \in [Messages -> Nat]
    BY <1>11, MarkType DEF SubmitSingleRefused, TypeOK
  <2> QED
    BY <1>11, <2>2, <2>4, <2>5 DEF SubmitSingleRefused, TypeOK, send, work, history
<1>12. ASSUME NEW t \in tasks, Push(t) PROVE TypeOK'
  <2>1. PICK stored \in SUBSET Commands(t), ok \in SUBSET Commands(t) :
          \/ AttemptLost(t, stored, ok)
          \/ SendListBatchMode(t, stored, ok)
          \/ SendStreamBatchMode(t, stored, ok)
          \/ SendListSingleMode(t, stored, ok)
          \/ SendStreamSingleMode(t, stored, ok)
    BY <1>12 DEF Push
  <2>2. CASE AttemptLost(t, stored, ok)
    BY <2>2, LostType
  <2>3. ASSUME \/ SendListBatchMode(t, stored, ok)
               \/ SendStreamBatchMode(t, stored, ok)
               \/ SendListSingleMode(t, stored, ok)
               \/ SendStreamSingleMode(t, stored, ok)
        PROVE  TypeOK'
    <3>1. Exec(t, stored, ok)
      BY <2>3, ExecCases
    <3>2. PICK good, bad : Count(good, bad)
      BY <2>3, ExecCases
    <3> QED
      BY <3>1, <3>2, ExecType
  <2> QED
    BY <2>1, <2>2, <2>3
<1>13. ASSUME NEW t \in returning, TaskReturn(t) PROVE TypeOK'
  <2>1. t \in AllTasks
    BY DEF AllTasks
  <2>2. Range(t.packets) \in SUBSET Packets /\ PoolPut(Range(t.packets))
    BY <1>13, <2>1, TaskTypes DEF PacketsOf, TaskReturn
  <2>3. pool' \in SUBSET Packets /\ content' \in [Packets -> Messages \cup {NoMessage}]
    BY <2>2, PoolPutType
  <2>4. returning' \subseteq Tasks
    BY <1>13 DEF TaskReturn, TypeOK
  <2> QED
    BY <1>13, <2>3, <2>4 DEF TaskReturn, TypeOK, send, loopSend, metrics, history
<1> QED
  BY <1>1, <1>2, <1>3, <1>4, <1>5, <1>6, <1>7, <1>8, <1>9, <1>10, <1>11, <1>12, <1>13
  DEF Next, Send, LoopSend, WorkerPool

LEMMA LoopStep ==
    ASSUME TypeOK, ApartInv, LoopInv, TaskInv, ContentInv, [Next]_vars
    PROVE  LoopInv'
<1>1. ASSUME UNCHANGED <<sendCh, loop, batch, next>> PROVE LoopInv'
  BY <1>1 DEF LoopInv
<1>2. ASSUME NEW s \in Senders, SendEnqueue(s) PROVE LoopInv'
  <2>1. CASE Len(sendCh) < Cap
    <3>1. PICK p \in held[s] : Accept(p)
      BY <1>2, <2>1 DEF SendEnqueue
    <3>2. p \in Packets /\ p \notin Range(sendCh)
      BY InUse DEF ApartInv, InQueue
    <3>3. IsInjective(sendCh')
      BY <3>1, <3>2, AppendRange DEF Accept, TypeOK, LoopInv
    <3> QED
      BY <1>2, <2>1, <3>3 DEF SendEnqueue, LoopInv, loopSend
  <2>2. CASE ~(Len(sendCh) < Cap)
    BY <1>1, <1>2, <2>2 DEF SendEnqueue, Reject, loopSend
  <2> QED
    BY <2>1, <2>2
<1>3. ASSUME NEW n \in 1 .. DequeueSize, Dequeue(n) PROVE LoopInv'
  <2>1. /\ IsInjective(sendCh') /\ IsInjective(batch') /\ batch' \in Seq(Packets) /\ Len(batch') = n
        /\ loop' \in {"submit", "single"} /\ next' = 1
    BY <1>3, DequeueFacts
  <2>2. n \in Nat /\ 1 <= n /\ n # 0
    BY Constants
  <2>3. batch' # << >> /\ next' <= Len(batch')
    BY <2>1, <2>2
  <2> QED
    BY <2>1, <2>3 DEF LoopInv
<1>4. ASSUME DequeueEnd PROVE LoopInv'
  BY <1>4 DEF DequeueEnd, LoopInv
<1>5. ASSUME SubmitBatch \/ SubmitBatchRefused PROVE LoopInv'
  <2>1. sendCh' = sendCh /\ loop' = "dequeue" /\ batch' = << >>
    BY <1>5 DEF SubmitBatch, SubmitBatchRefused
  <2>2. IsInjective(<< >>)
    BY DEF IsInjective
  <2> QED
    BY <2>1, <2>2 DEF LoopInv
<1>6. ASSUME SubmitSingle \/ SubmitSingleRefused PROVE LoopInv'
  <2>1. sendCh' = sendCh /\ loop = "single" /\ NextSingle
    BY <1>6 DEF SubmitSingle, SubmitSingleRefused
  <2> QED
    BY <2>1, NextSingleFacts DEF LoopInv
<1>7. ASSUME NEW s \in Senders, NEW p \in Packets, SendSet(s, p) PROVE LoopInv'
  BY <1>1, <1>7 DEF SendSet, loopSend
<1>8. ASSUME NEW s \in Senders, SendSetFailed(s) \/ SendCheck(s) \/ SendReturn(s) PROVE LoopInv'
  BY <1>1, <1>8 DEF SendSetFailed, SendCheck, SendReturn, Reject, loopSend
<1>9. ASSUME Close \/ CloseTimer \/ Quit \/ UNCHANGED vars PROVE LoopInv'
  BY <1>1, <1>9 DEF Close, CloseTimer, Quit, vars, loopSend
<1>10. ASSUME NEW t \in tasks, Push(t) PROVE LoopInv'
  BY <1>1, <1>10 DEF Push, AttemptLost, SendListBatchMode, SendStreamBatchMode, SendListSingleMode,
     SendStreamSingleMode, Exec, loopSend
<1>11. ASSUME NEW t \in returning, TaskReturn(t) PROVE LoopInv'
  BY <1>1, <1>11 DEF TaskReturn, loopSend
<1> QED
  BY <1>2, <1>3, <1>4, <1>5, <1>6, <1>7, <1>8, <1>9, <1>10, <1>11 DEF Next, Send, LoopSend, WorkerPool

-----------------------------------------------------------------------------
LEMMA SamePlaces ==
    ASSUME UNCHANGED <<sendCh, loopSend>>
    PROVE  InQueue' = InQueue /\ InLoop' = InLoop
BY DEF InQueue, InLoop, loopSend

LEMMA SubmitKinds ==
    ASSUME TypeOK, LoopInv, SubmitBatch \/ SubmitSingle
    PROVE  \E u : Submits(u)
<1>1. CASE SubmitBatch
  <2> DEFINE u == Task("batch", batch)
  <2>1. u.packets = batch /\ u.mode = "batch" /\ u \in Tasks /\ u.clean = Commands(u)
    BY Constants DEF Task, Tasks, TypeOK, Commands
  <2>2. batch # << >> /\ IsInjective(batch) /\ loop = "submit" /\ loop' = "dequeue" /\ batch' = << >>
    BY <1>1 DEF SubmitBatch, LoopInv
  <2>3. InLoop = Range(batch) /\ InLoop' = {}
    BY <2>2 DEF InLoop, Range
  <2>4. tasks' = tasks \cup {u} /\ grouped' = grouped \cup {MessagesOf(batch)} /\ sendCh' = sendCh
        /\ UNCHANGED <<pool, content, send, returning, keyType, redis, metrics, accepted, retried, unanswered>>
    BY <1>1 DEF SubmitBatch
  <2> HIDE DEF u
  <2>5. WellFormed(u) /\ PacketsOf(u) = InLoop
    BY <2>1, <2>2, <2>3 DEF WellFormed, PacketsOf
  <2>6. InQueue' = InQueue
    BY <2>4 DEF InQueue
  <2>7. Submits(u)
    BY <2>1, <2>2, <2>3, <2>4, <2>5, <2>6 DEF Submits
  <2> QED
    BY <2>7
<1>2. CASE SubmitSingle
  <2> DEFINE b == batch[next]
             u == Task("single", <<b>>)
  <2>1. loop = "single" /\ NextSingle
    BY <1>2 DEF SubmitSingle
  <2>2. b \in InLoop /\ InLoop' = InLoop \ {b} /\ loop' # "gone" /\ b \in Packets
    BY <2>1, NextSingleFacts, LoopTypes
  <2>3. tasks' = tasks \cup {u} /\ grouped' = grouped /\ sendCh' = sendCh
        /\ UNCHANGED <<pool, content, send, returning, keyType, redis, metrics, accepted, retried, unanswered>>
    BY <1>2 DEF SubmitSingle, history
  <2> HIDE DEF b
  <2>4. u.packets = <<b>> /\ u.mode = "single" /\ u \in Tasks /\ u.clean = Commands(u)
    BY <2>2, Constants DEF Task, Tasks, Commands
  <2>5. IsInjective(<<b>>) /\ <<b>> # << >> /\ Len(<<b>>) = 1 /\ Range(<<b>>) = {b}
    BY DEF IsInjective, Range
  <2> HIDE DEF u
  <2>6. WellFormed(u) /\ PacketsOf(u) = {b}
    BY <2>4, <2>5 DEF WellFormed, PacketsOf
  <2>7. InQueue' = InQueue
    BY <2>3 DEF InQueue
  <2>8. Submits(u)
    BY <2>1, <2>2, <2>3, <2>4, <2>6, <2>7 DEF Submits
  <2> QED
    BY <2>8
<1> QED
  BY <1>1, <1>2

LEMMA RefuseKinds ==
    ASSUME TypeOK, ApartInv, ContentInv, LoopInv, SubmitBatchRefused \/ SubmitSingleRefused
    PROVE  \E ps : Refuses(ps)
<1>1. CASE SubmitBatchRefused
  <2>1. loop = "submit" /\ loop' = "dequeue" /\ batch' = << >> /\ sendCh' = sendCh /\ PoolPut(Range(batch))
        /\ failedCount' = Mark(failedCount, Range(MessagesOf(batch)))
        /\ UNCHANGED <<send, work, keyType, redis, succeedCount, succeedByte, history>>
    BY <1>1 DEF SubmitBatchRefused
  <2>2. InLoop = Range(batch) /\ InLoop' = {} /\ InQueue' = InQueue
    BY <2>1 DEF InLoop, Range, InQueue
  <2>3. Range(MessagesOf(batch)) = {content[p] : p \in InLoop}
    <3>1. batch \in Seq(Packets) /\ \A p \in Range(batch) : content[p] \in Messages
      BY <2>2, InUse DEF TypeOK
    <3> QED
      BY <2>2, <3>1, MessagesFacts
  <2>4. Refuses(InLoop)
    BY <2>1, <2>2, <2>3 DEF Refuses
  <2> QED
    BY <2>4
<1>2. CASE SubmitSingleRefused
  <2> DEFINE b == batch[next]
  <2>1. loop = "single" /\ NextSingle
    BY <1>2 DEF SubmitSingleRefused
  <2>2. b \in InLoop /\ InLoop' = InLoop \ {b} /\ loop' # "gone"
    BY <2>1, NextSingleFacts
  <2>3. sendCh' = sendCh /\ PoolPut({b}) /\ failedCount' = Mark(failedCount, {content[b]})
        /\ UNCHANGED <<send, work, keyType, redis, succeedCount, succeedByte, history>>
    BY <1>2 DEF SubmitSingleRefused
  <2> HIDE DEF b
  <2>4. InQueue' = InQueue /\ {content[b]} = {content[p] : p \in {b}}
    BY <2>3 DEF InQueue
  <2>5. Refuses({b})
    BY <2>1, <2>2, <2>3, <2>4 DEF Refuses
  <2> QED
    BY <2>5
<1> QED
  BY <1>1, <1>2

\* What a task pushes are messages of its packets.
LEMMA GrowsFacts ==
    ASSUME TypeOK, NEW t \in tasks, NEW ms, Grows(t, ms)
    PROVE  /\ Range(redis') = Range(redis) \cup Range(ms)
           /\ \A m \in Range(ms) : \E p \in PacketsOf(t) : content[p] = m
<1>1. ms \in Seq(Messages) /\ redis' = Pushed(ms) /\ keyType' = keyType /\ redis \in Seq(Messages)
  BY DEF Grows, TypeOK
<1>2. Range(redis') = Range(redis) \cup Range(ms)
  BY <1>1, PushedFacts
<1>3. PacketsOf(t) = {t.packets[i] : i \in 1 .. Len(t.packets)}
  BY TaskTypes DEF AllTasks
<1>4. ASSUME NEW m \in Range(ms) PROVE \E p \in PacketsOf(t) : content[p] = m
  <2>1. PICK i \in 1 .. Len(ms) : ms[i] = m
    BY <1>1, RangeMember
  <2>2. PICK a \in 1 .. Len(t.packets) : ms[i] = content[t.packets[a]]
    BY DEF Grows
  <2> QED
    BY <1>3, <2>1, <2>2
<1> QED
  BY <1>2, <1>4

\* An attempt that stores nothing leaves redis as it is.
LEMMA PushNothing ==
    ASSUME TypeOK, NEW t
    PROVE  Pushed(MessagesOf(Chosen(t, {}))) = redis
<1>1. Chosen(t, {}) = << >>
  <2>1. Cardinality({}) = 0
    BY FS_EmptySet
  <2> QED
    BY <2>1 DEF Chosen
<1>2. MessagesOf(<< >>) = << >>
  BY DEF MessagesOf
<1>3. redis \in Seq(Messages) /\ << >> \o redis = redis /\ redis \o << >> = redis
  BY DEF TypeOK
<1>4. Reverse(<< >>) = << >>
  BY DEF Reverse
<1> QED
  BY <1>1, <1>2, <1>3, <1>4 DEF Pushed, LPush, XAdd

LEMMA LosesKind ==
    ASSUME TypeOK, ApartInv, ContentInv, TaskInv, CleanInv, NEW t \in tasks,
           NEW stored \in SUBSET Commands(t), NEW ok \in SUBSET Commands(t), AttemptLost(t, stored, ok)
    PROVE  \E u, ms : Loses(t, u, ms)
<1> DEFINE u == [t EXCEPT !.tries = @ + 1, !.clean = ok]
<1>0. /\ t \in AllTasks /\ t.packets \in Seq(Packets)
      /\ \A p \in PacketsOf(t) : content[p] \in Messages
  <2>1. t \in AllTasks
    BY DEF AllTasks
  <2> QED
    BY <2>1, TaskTypes, InUse
<1>1. /\ redis' = Pushed(MessagesOf(Chosen(t, stored))) /\ keyType' = keyType
      /\ tasks' = (tasks \ {t}) \cup {u} /\ t.tries < MaxRetries
      /\ retried' = IF stored = {} THEN retried ELSE retried \cup Range(MessagesOf(t.packets))
      /\ Silent(t, ok) \/ (ok \subseteq stored /\ ok # Commands(t))
      /\ UNCHANGED <<pool, content, sendCh, send, loopSend, returning, metrics, accepted, grouped, unanswered>>
  BY DEF AttemptLost
<1>2. PICK ms : Grows(t, ms) /\ \A i \in stored : content[t.packets[i]] \in Range(ms)
  BY <1>1, GrowFacts DEF Commands
<1>3. u \in Tasks /\ u # t /\ u.packets = t.packets /\ u.mode = t.mode /\ u.clean = ok
  BY <1>0, <1>1, TriedType
<1> HIDE DEF u
<1>4. WellFormed(u)
  <2>1. WellFormed(t)
    BY <1>0 DEF TaskInv
  <2> QED
    BY <1>3, <2>1 DEF WellFormed, Commands
<1>5. Range(MessagesOf(t.packets)) = {content[p] : p \in PacketsOf(t)}
  BY <1>0, MessagesFacts DEF PacketsOf
<1>6. InQueue' = InQueue /\ InLoop' = InLoop /\ loop' = loop
  BY <1>1, SamePlaces DEF loopSend
<1>7. Range(redis') = Range(redis) \cup Range(ms)
  BY <1>2, GrowsFacts
<1>8. Commands(u) = Commands(t)
  BY <1>3 DEF Commands
<1>9. ASSUME u.clean # Commands(u), NEW i \in u.clean PROVE content[u.packets[i]] \in Range(redis')
  <2>1. CASE Silent(t, ok)
    BY <1>3, <1>7, <1>8, <1>9, <2>1 DEF Silent, CleanInv
  <2>2. CASE ok \subseteq stored
    BY <1>2, <1>3, <1>7, <1>9, <2>2
  <2> QED
    BY <1>1, <2>1, <2>2
<1>10. \/ retried' = retried \cup {content[p] : p \in PacketsOf(t)}
       \/ retried' = retried /\ redis' = redis
  <2>1. CASE stored = {}
    BY <1>1, <2>1, PushNothing
  <2>2. CASE stored # {}
    BY <1>1, <1>5, <2>2
  <2> QED
    BY <2>1, <2>2
<1>11. Loses(t, u, ms)
  BY <1>1, <1>2, <1>3, <1>4, <1>6, <1>9, <1>10 DEF Loses
<1> QED
  BY <1>11

\* The packets that are counted as succeeded are stored, or no attempt has read a reply.
LEMMA ExecutesKind ==
    ASSUME TypeOK, ApartInv, ContentInv, TaskInv, CleanInv, NEW t \in tasks,
           NEW stored \in SUBSET Commands(t), NEW ok \in SUBSET Commands(t),
           \/ SendListBatchMode(t, stored, ok)
           \/ SendStreamBatchMode(t, stored, ok)
           \/ SendListSingleMode(t, stored, ok)
           \/ SendStreamSingleMode(t, stored, ok)
    PROVE  \E u, ms, good, bad : Executes(t, u, ms, good, bad)
<1> DEFINE u == Task(t.mode, t.packets)
<1>0. /\ t \in AllTasks /\ t.packets \in Seq(Packets)
      /\ \A p \in PacketsOf(t) : content[p] \in Messages
  <2>1. t \in AllTasks
    BY DEF AllTasks
  <2> QED
    BY <2>1, TaskTypes, InUse
<1>1. Exec(t, stored, ok)
  BY ExecCases
<1>2. PICK good, bad : Count(good, bad) /\ Divided(t, ok, good, bad)
  BY ExecCases
<1>3. /\ redis' = Pushed(MessagesOf(Chosen(t, stored))) /\ keyType' = keyType
      /\ tasks' = tasks \ {t} /\ returning' = returning \cup {u}
      /\ UNCHANGED <<pool, content, sendCh, send, loopSend, accepted, grouped, retried>>
  BY <1>1 DEF Exec
<1>4. PICK ms : Grows(t, ms) /\ \A i \in stored : content[t.packets[i]] \in Range(ms)
  BY <1>3, GrowFacts DEF Commands
<1>5. u.packets = t.packets /\ u.mode = t.mode /\ u.clean = Commands(t)
  BY <1>0, TriedType
<1> HIDE DEF u
<1>6. WellFormed(u)
  <2>1. WellFormed(t)
    BY <1>0 DEF TaskInv
  <2> QED
    BY <1>5, <2>1 DEF WellFormed, Commands
<1>7. Range(redis') = Range(redis) \cup Range(ms)
  BY <1>4, GrowsFacts
<1>8. unanswered \subseteq unanswered'
  BY <1>1 DEF Exec
<1>9. ASSUME NEW i \in ok
      PROVE  content[t.packets[i]] \in Range(redis') \/ content[t.packets[i]] \in unanswered'
  <2>1. CASE ok \subseteq stored
    BY <1>4, <1>7, <2>1
  <2>2. CASE Silent(t, ok) /\ ok # Commands(t)
    BY <1>7, <2>2 DEF Silent, CleanInv
  <2>3. ASSUME ok = Commands(t), unanswered' = unanswered \cup Range(MessagesOf(t.packets))
        PROVE  content[t.packets[i]] \in unanswered'
    <3>1. Range(MessagesOf(t.packets)) = {content[p] : p \in PacketsOf(t)}
      BY <1>0, MessagesFacts DEF PacketsOf
    <3>2. t.packets[i] \in PacketsOf(t)
      BY <1>0, TaskTypes DEF Commands
    <3> QED
      BY <2>3, <3>1, <3>2
  <2> QED
    BY <1>1, <2>1, <2>2, <2>3 DEF Exec
<1>10. \A p \in good : content[p] \in Range(redis') \/ content[p] \in unanswered'
  BY <1>2, <1>9 DEF Divided
<1>11. InQueue' = InQueue /\ InLoop' = InLoop /\ loop' = loop
  BY <1>3, SamePlaces DEF loopSend
<1>12. Executes(t, u, ms, good, bad)
  BY <1>2, <1>3, <1>4, <1>5, <1>6, <1>8, <1>10, <1>11 DEF Executes, Divided
<1> QED
  BY <1>12

LEMMA PushKinds ==
    ASSUME TypeOK, ApartInv, ContentInv, TaskInv, CleanInv, NEW t \in tasks, Push(t)
    PROVE  \/ \E u, ms : Loses(t, u, ms)
           \/ \E u, ms, good, bad : Executes(t, u, ms, good, bad)
BY LosesKind, ExecutesKind DEF Push

\* A step is of one of these kinds.
Kinds ==
    \/ Quiet
    \/ \E s \in Senders : \E p \in Packets : SendSet(s, p)
    \/ \E s \in Senders : spc[s] \in {"check", "enqueue"} /\ Reject(s)
    \/ \E s \in Senders : \E p : Accepts(s, p)
    \/ \E s \in Senders : SendReturn(s)
    \/ \E u : Submits(u)
    \/ \E ps : Refuses(ps)
    \/ \E t, u, ms : Loses(t, u, ms)
    \/ \E t, u, ms, good, bad : Executes(t, u, ms, good, bad)
    \/ \E t \in returning : TaskReturn(t)

LEMMA StepKinds ==
    ASSUME TypeOK, ApartInv, LoopInv, TaskInv, CleanInv, ContentInv, [Next]_vars
    PROVE  Kinds
<1>0. InQueue \cap InLoop = {}
  BY DEF ApartInv
<1>1. ASSUME NEW s \in Senders, SendSetFailed(s) PROVE Kinds
  <2>1. InQueue' = InQueue /\ InLoop' = InLoop
    BY <1>1, SamePlaces DEF SendSetFailed
  <2>2. Quiet
    BY <1>0, <1>1, <2>1 DEF SendSetFailed, Quiet, loopSend
  <2> QED
    BY <2>2 DEF Kinds
<1>2. ASSUME NEW s \in Senders, SendCheck(s) PROVE Kinds
  <2>1. CASE chClosed
    BY <1>2, <2>1 DEF SendCheck, Kinds
  <2>2. CASE ~chClosed
    <3>1. InQueue' = InQueue /\ InLoop' = InLoop
      BY <1>2, <2>2, SamePlaces DEF SendCheck
    <3>2. \A r \in Senders : spc'[r] = spc[r] \/ (spc[r] = "check" /\ spc'[r] = "enqueue")
      BY <1>2, <2>2 DEF SendCheck, TypeOK
    <3>3. Quiet
      BY <1>0, <1>2, <2>2, <3>1, <3>2 DEF SendCheck, Quiet, loopSend
    <3> QED
      BY <3>3 DEF Kinds
  <2> QED
    BY <2>1, <2>2
<1>3. ASSUME NEW s \in Senders, SendEnqueue(s) PROVE Kinds
  <2>1. CASE Len(sendCh) < Cap
    <3>1. PICK p \in held[s] : Accept(p)
      BY <1>3, <2>1 DEF SendEnqueue
    <3>2. p \in Packets /\ sendCh \in Seq(Packets)
      BY InUse DEF TypeOK
    <3>3. InQueue' = InQueue \cup {p}
      BY <3>1, <3>2, AppendRange DEF InQueue, Accept
    <3>4. InLoop' = InLoop /\ loop' = loop
      BY <1>3, <2>1 DEF SendEnqueue, InLoop, loopSend
    <3>5. Accepts(s, p)
      BY <1>3, <2>1, <3>1, <3>3, <3>4 DEF SendEnqueue, Accepts, Accept
    <3> QED
      BY <3>5 DEF Kinds
  <2>2. CASE ~(Len(sendCh) < Cap)
    BY <1>3, <2>2 DEF SendEnqueue, Kinds
  <2> QED
    BY <2>1, <2>2
<1>4. ASSUME Close \/ CloseTimer \/ Quit \/ UNCHANGED vars PROVE Kinds
  <2>1. UNCHANGED <<sendCh, send, loopSend, pool, content, work, keyType, redis, metrics, history>>
    BY <1>4 DEF Close, CloseTimer, Quit, vars
  <2>2. InQueue' = InQueue /\ InLoop' = InLoop
    BY <2>1, SamePlaces
  <2>3. Quiet
    BY <1>0, <2>1, <2>2 DEF Quiet, send, loopSend
  <2> QED
    BY <2>3 DEF Kinds
<1>5. ASSUME DequeueEnd PROVE Kinds
  <2>1. batch = << >> /\ sendCh = << >> /\ batch' = batch /\ sendCh' = sendCh /\ loop' = "gone" /\ loop = "dequeue"
    BY <1>5 DEF DequeueEnd, LoopInv
  <2>2. InQueue = {} /\ InLoop = {} /\ InQueue' = {} /\ InLoop' = {}
    <3>1. Range(<< >>) = {}
      BY DEF Range
    <3> QED
      BY <2>1, <3>1 DEF InQueue, InLoop
  <2>3. Quiet
    BY <1>5, <2>2 DEF DequeueEnd, Quiet, send
  <2> QED
    BY <2>3 DEF Kinds
<1>6. ASSUME NEW n \in 1 .. DequeueSize, Dequeue(n) PROVE Kinds
  <2>1. /\ InQueue' \cup InLoop' = InQueue \cup InLoop /\ InQueue' \cap InLoop' = {}
        /\ loop' # "gone"
    BY <1>6, DequeueFacts
  <2>2. Quiet
    BY <1>6, <2>1 DEF Dequeue, Quiet, send
  <2> QED
    BY <2>2 DEF Kinds
<1>7. ASSUME SubmitBatch \/ SubmitSingle PROVE Kinds
  BY <1>7, SubmitKinds DEF Kinds
<1>8. ASSUME SubmitBatchRefused \/ SubmitSingleRefused PROVE Kinds
  BY <1>8, RefuseKinds DEF Kinds
<1>9. ASSUME NEW t \in tasks, Push(t) PROVE Kinds
  BY <1>9, PushKinds DEF Kinds
<1>10. ASSUME NEW s \in Senders, NEW p \in Packets, SendSet(s, p) PROVE Kinds
  BY <1>10 DEF Kinds
<1>11. ASSUME NEW s \in Senders, SendReturn(s) PROVE Kinds
  BY <1>11 DEF Kinds
<1>12. ASSUME NEW t \in returning, TaskReturn(t) PROVE Kinds
  BY <1>12 DEF Kinds
<1> QED
  BY <1>1, <1>2, <1>3, <1>4, <1>5, <1>6, <1>7, <1>8, <1>9, <1>10, <1>11, <1>12
  DEF Next, Send, LoopSend, WorkerPool

-----------------------------------------------------------------------------
(***************************************************************************)
(* One owner.                                                              *)
(***************************************************************************)
LEMMA ApartStep ==
    ASSUME TypeOK, ApartInv, TaskInv, Kinds
    PROVE  ApartInv'
<1>1. ASSUME Quiet PROVE ApartInv'
  <2>1. pool' = pool /\ held' = held /\ AllTasks' = AllTasks
    BY <1>1 DEF Quiet, AllTasks, work
  <2>2. \A p : p \in InQueue \/ p \in InLoop <=> p \in InQueue' \/ p \in InLoop'
    BY <1>1 DEF Quiet
  <2>3. \A p \in InQueue' : p \notin InLoop'
    BY <1>1 DEF Quiet
  <2> QED
    BY <2>1, <2>2, <2>3 DEF ApartInv
<1>2. ASSUME NEW s \in Senders, NEW p \in Packets, SendSet(s, p) PROVE ApartInv'
  <2>1. /\ p \in pool /\ pool' = pool \ {p} /\ AllTasks' = AllTasks
        /\ held'[s] = {p} /\ \A r \in Senders \ {s} : held'[r] = held[r]
    BY <1>2 DEF SendSet, AllTasks, work, TypeOK
  <2>2. InQueue' = InQueue /\ InLoop' = InLoop
    BY <1>2, SamePlaces DEF SendSet
  <2> QED
    BY <2>1, <2>2 DEF ApartInv
<1>3. ASSUME NEW s \in Senders, Reject(s) PROVE ApartInv'
  <2>1. pool' = pool /\ held' = held /\ AllTasks' = AllTasks
    BY <1>3 DEF Reject, AllTasks, work
  <2>2. InQueue' = InQueue /\ InLoop' = InLoop
    BY <1>3, SamePlaces DEF Reject
  <2> QED
    BY <2>1, <2>2 DEF ApartInv
<1>4. ASSUME NEW s \in Senders, NEW p, Accepts(s, p) PROVE ApartInv'
  <2>1. /\ pool' = pool /\ AllTasks' = AllTasks /\ p \in held[s]
        /\ InQueue' = InQueue \cup {p} /\ InLoop' = InLoop
        /\ held'[s] = {} /\ \A r \in Senders \ {s} : held'[r] = held[r]
    BY <1>4 DEF Accepts, AllTasks, work, TypeOK
  <2> QED
    BY <2>1 DEF ApartInv
<1>5. ASSUME NEW s \in Senders, SendReturn(s) PROVE ApartInv'
  <2>1. /\ pool' = pool \cup held[s] /\ AllTasks' = AllTasks
        /\ held'[s] = {} /\ \A r \in Senders \ {s} : held'[r] = held[r]
    BY <1>5 DEF SendReturn, PoolPut, AllTasks, work, TypeOK
  <2>2. InQueue' = InQueue /\ InLoop' = InLoop
    BY <1>5, SamePlaces DEF SendReturn
  <2> QED
    BY <2>1, <2>2 DEF ApartInv
<1>6. ASSUME NEW u, Submits(u) PROVE ApartInv'
  <2>1. /\ pool' = pool /\ held' = held /\ AllTasks' = AllTasks \cup {u}
        /\ InQueue' = InQueue /\ InLoop' = InLoop \ PacketsOf(u) /\ PacketsOf(u) \subseteq InLoop
    BY <1>6 DEF Submits, AllTasks, send
  <2> QED
    BY <2>1 DEF ApartInv
<1>7. ASSUME NEW ps, Refuses(ps) PROVE ApartInv'
  <2>1. /\ pool' = pool \cup ps /\ held' = held /\ AllTasks' = AllTasks
        /\ InQueue' = InQueue /\ InLoop' = InLoop \ ps /\ ps \subseteq InLoop
    BY <1>7 DEF Refuses, PoolPut, AllTasks, send, work
  <2> QED
    BY <2>1 DEF ApartInv
<1>8. ASSUME NEW t, NEW u, NEW ms, Loses(t, u, ms) PROVE ApartInv'
  <2>1. /\ pool' = pool /\ held' = held
        /\ t \in AllTasks /\ \A v \in AllTasks' : v = u \/ (v \in AllTasks /\ v # t) \/ v \in returning
        /\ InQueue' = InQueue /\ InLoop' = InLoop /\ PacketsOf(u) = PacketsOf(t)
    BY <1>8 DEF Loses, AllTasks, send, PacketsOf
  <2>2. \A v \in AllTasks' : v = u \/ (v \in AllTasks /\ v # t)
    BY <1>8, <2>1 DEF TaskInv, AllTasks, Loses
  <2> QED
    BY <2>1, <2>2 DEF ApartInv
<1>9. ASSUME NEW t, NEW u, NEW ms, NEW good, NEW bad, Executes(t, u, ms, good, bad) PROVE ApartInv'
  <2>1. /\ pool' = pool /\ held' = held /\ t \in tasks /\ t \in AllTasks
        /\ tasks' = tasks \ {t} /\ returning' = returning \cup {u}
        /\ InQueue' = InQueue /\ InLoop' = InLoop /\ PacketsOf(u) = PacketsOf(t)
    BY <1>9 DEF Executes, AllTasks, send, PacketsOf
  <2>2. \A v \in AllTasks' : v = u \/ (v \in AllTasks /\ v # t)
    BY <2>1 DEF TaskInv, AllTasks
  <2> QED
    BY <2>1, <2>2 DEF ApartInv
<1>10. ASSUME NEW t \in returning, TaskReturn(t) PROVE ApartInv'
  <2>1. /\ pool' = pool \cup PacketsOf(t) /\ held' = held
        /\ t \in AllTasks /\ \A v \in AllTasks' : v \in AllTasks /\ v # t
    BY <1>10 DEF TaskReturn, PoolPut, AllTasks, send, PacketsOf, TaskInv
  <2>2. InQueue' = InQueue /\ InLoop' = InLoop
    BY <1>10, SamePlaces DEF TaskReturn
  <2> QED
    BY <2>1, <2>2 DEF ApartInv
<1> QED
  BY <1>1, <1>2, <1>3, <1>4, <1>5, <1>6, <1>7, <1>8, <1>9, <1>10 DEF Kinds

LEMMA TaskStep ==
    ASSUME TypeOK, ApartInv, TaskInv, Kinds
    PROVE  TaskInv'
<1>0. \A t \in AllTasks : PacketsOf(t) # {}
  <2> SUFFICES ASSUME NEW t \in AllTasks PROVE PacketsOf(t) # {}
    OBVIOUS
  <2>1. t.packets \in Seq(Packets) /\ t.packets # << >>
    BY TaskTypes DEF TaskInv, WellFormed
  <2>2. 1 \in 1 .. Len(t.packets)
    BY <2>1
  <2>3. PacketsOf(t) = {t.packets[i] : i \in 1 .. Len(t.packets)}
    BY TaskTypes
  <2>4. t.packets[1] \in PacketsOf(t)
    BY <2>2, <2>3
  <2> QED
    BY <2>4
<1>1. ASSUME UNCHANGED <<tasks, returning>> PROVE TaskInv'
  BY <1>1 DEF TaskInv, AllTasks
<1>2. ASSUME NEW u, Submits(u) PROVE TaskInv'
  <2>1. tasks' = tasks \cup {u} /\ returning' = returning /\ WellFormed(u) /\ PacketsOf(u) \subseteq InLoop
    BY <1>2 DEF Submits
  <2>2. u \notin returning
    BY <1>0, <2>1 DEF ApartInv, AllTasks
  <2> QED
    BY <2>1, <2>2 DEF TaskInv, AllTasks
<1>3. ASSUME NEW t, NEW u, NEW ms, Loses(t, u, ms) PROVE TaskInv'
  <2>1. /\ tasks' = (tasks \ {t}) \cup {u} /\ returning' = returning /\ t \in tasks
        /\ u # t /\ PacketsOf(u) = PacketsOf(t) /\ WellFormed(u)
    BY <1>3 DEF Loses, PacketsOf
  <2>2. u \notin returning
    <3>1. t \in AllTasks
      BY <2>1 DEF AllTasks
    <3>2. PICK p : p \in PacketsOf(t)
      BY <1>0, <3>1
    <3> QED
      BY <2>1, <3>1, <3>2 DEF ApartInv, AllTasks
  <2> QED
    BY <2>1, <2>2 DEF TaskInv, AllTasks
<1>4. ASSUME NEW t, NEW u, NEW ms, NEW good, NEW bad, Executes(t, u, ms, good, bad) PROVE TaskInv'
  <2>1. /\ tasks' = tasks \ {t} /\ returning' = returning \cup {u} /\ t \in tasks
        /\ PacketsOf(u) = PacketsOf(t) /\ WellFormed(u)
    BY <1>4 DEF Executes, PacketsOf
  <2>2. u \notin tasks \ {t}
    <3>1. t \in AllTasks
      BY <2>1 DEF AllTasks
    <3>2. PICK p : p \in PacketsOf(t)
      BY <1>0, <3>1
    <3> QED
      BY <2>1, <3>1, <3>2 DEF ApartInv, AllTasks
  <2> QED
    BY <2>1, <2>2 DEF TaskInv, AllTasks
<1>5. ASSUME NEW t \in returning, TaskReturn(t) PROVE TaskInv'
  BY <1>5 DEF TaskReturn, TaskInv, AllTasks
<1>6. ASSUME \/ Quiet
             \/ \E s \in Senders : \E p \in Packets : SendSet(s, p)
             \/ \E s \in Senders : Reject(s)
             \/ \E s \in Senders : \E p : Accepts(s, p)
             \/ \E s \in Senders : SendReturn(s)
             \/ \E ps : Refuses(ps)
      PROVE  TaskInv'
  BY <1>1, <1>6 DEF Quiet, SendSet, Reject, Accepts, SendReturn, Refuses, work
<1> QED
  BY <1>2, <1>3, <1>4, <1>5, <1>6 DEF Kinds

\* The packets out of the pool keep messages of their own.
LEMMA ContentStep ==
    ASSUME TypeOK, ContentInv, Kinds
    PROVE  ContentInv'
<1>0. /\ sends \in Nat /\ MaxSends \in Nat /\ content \in [Packets -> Messages \cup {NoMessage}]
      /\ pool \subseteq Packets
      /\ \A p \in Packets \ pool : content[p] \in Nat /\ content[p] \in Messages
  BY Constants DEF TypeOK, ContentInv
<1>1. ASSUME pool' = pool, content' = content, sends' \in {sends, sends + 1}
      PROVE  ContentInv'
  <2>1. \A p \in Packets \ pool : content[p] <= sends'
    BY <1>0, <1>1 DEF ContentInv
  <2> QED
    BY <1>1, <2>1 DEF ContentInv
<1>2. ASSUME NEW s \in Senders, NEW p \in Packets, SendSet(s, p)
      PROVE  ContentInv'
  <2>1. /\ p \in pool /\ sends' = sends + 1 /\ sends + 1 \in Messages
        /\ pool' = pool \ {p} /\ content' = [content EXCEPT ![p] = sends + 1]
    BY <1>0, <1>2, Constants DEF SendSet
  <2>2. sends + 1 # NoMessage
    BY <2>1, Constants
  <2>3. content'[p] = sends + 1 /\ \A q \in Packets \ {p} : content'[q] = content[q]
    BY <1>0, <2>1
  <2>4. \A q \in Packets \ pool : content[q] <= sends' /\ content[q] # sends + 1 /\ q # p
    BY <1>0, <2>1 DEF ContentInv
  <2>5. \A q \in Packets : content'[q] = NoMessage <=> q \in pool'
    BY <2>1, <2>2, <2>3 DEF ContentInv
  <2>6. \A q \in Packets \ pool' : content'[q] <= sends'
    BY <1>0, <2>1, <2>3, <2>4
  <2>7. \A q, r \in Packets \ pool' : content'[q] = content'[r] => q = r
    BY <2>1, <2>3, <2>4 DEF ContentInv
  <2> QED
    BY <2>5, <2>6, <2>7 DEF ContentInv
<1>3. ASSUME NEW ps, PoolPut(ps), sends' = sends
      PROVE  ContentInv'
  <2>1. /\ pool' = pool \cup ps
        /\ \A q \in Packets : content'[q] = IF q \in ps THEN NoMessage ELSE content[q]
    BY <1>3 DEF PoolPut
  <2> QED
    BY <1>3, <2>1 DEF ContentInv
<1>4. CASE Quiet
  BY <1>1, <1>4 DEF Quiet
<1>5. ASSUME NEW s \in Senders, Reject(s) PROVE ContentInv'
  BY <1>1, <1>5 DEF Reject
<1>6. ASSUME NEW s \in Senders, NEW p, Accepts(s, p) PROVE ContentInv'
  BY <1>1, <1>6 DEF Accepts
<1>7. ASSUME NEW s \in Senders, SendReturn(s) PROVE ContentInv'
  BY <1>3, <1>7 DEF SendReturn
<1>8. ASSUME NEW u, Submits(u) PROVE ContentInv'
  BY <1>1, <1>8 DEF Submits, send
<1>9. ASSUME NEW ps, Refuses(ps) PROVE ContentInv'
  BY <1>3, <1>9 DEF Refuses, send
<1>10. ASSUME NEW t, NEW u, NEW ms, Loses(t, u, ms) PROVE ContentInv'
  BY <1>1, <1>10 DEF Loses, send
<1>11. ASSUME NEW t, NEW u, NEW ms, NEW good, NEW bad, Executes(t, u, ms, good, bad) PROVE ContentInv'
  BY <1>1, <1>11 DEF Executes, send
<1>12. ASSUME NEW t \in returning, TaskReturn(t) PROVE ContentInv'
  BY <1>3, <1>12 DEF TaskReturn, send
<1> QED
  BY <1>2, <1>4, <1>5, <1>6, <1>7, <1>8, <1>9, <1>10, <1>11, <1>12 DEF Kinds

-----------------------------------------------------------------------------
(***************************************************************************)
(* How packets and messages flow in a step.                                *)
(***************************************************************************)
\* The packets whose message is not counted yet.
Live(p) == Waiting(p) \/ Pushing(p)

\* The messages of the packets good succeed, those of bad fail.
CountFlow(good, bad) ==
    /\ \A p \in good \cup bad : p \in Packets /\ Live(p)
    /\ good \cap bad = {}
    /\ Count(good, bad)
    /\ sends' \in {sends, sends + 1}

\* A packet waits from the message it is given until it is submitted or fails.
WaitFlow(good, bad) ==
    \A p \in Packets : Waiting(p)' =>
        \/ Waiting(p) /\ p \notin good /\ p \notin bad /\ content'[p] = content[p]
        \/ content'[p] = sends + 1 /\ sends' = sends + 1

\* A packet is pushed from there on, until it is counted.
PushFlow(good, bad) ==
    /\ \A p \in Packets : Pushing(p)' =>
        Live(p) /\ p \notin good /\ p \notin bad /\ content'[p] = content[p]
    /\ \A p \in Packets : Pushing(p) =>
        \/ p \in good \cup bad
        \/ Pushing(p)' /\ content'[p] = content[p]

\* Messages come to redis from tasks that are through or try again.
StoreFlow(good, bad) ==
    /\ \A m \in Range(redis) : m \in Range(redis')
    /\ \A p \in good : content[p] \in Range(redis') \/ content[p] \in unanswered'
    /\ retried \subseteq retried'
    /\ unanswered \subseteq unanswered'
    /\ \A m \in Range(redis') : m \notin Range(redis) =>
        \E p \in Packets : Pushing(p) /\ content[p] = m /\ (p \in good \cup bad \/ m \in retried')

\* What loopSend has to do it leaves to nobody.
AcceptFlow(good, bad) ==
    /\ \A p \in InQueue \cup InLoop :
        \/ p \in good \cup bad
        \/ content'[p] = content[p] /\ (Pushing(p)' \/ p \in InQueue' \cup InLoop')
    /\ loop' = "gone" => loop = "gone" \/ InQueue \cup InLoop = {}
    /\ \A m \in accepted' :
        m \in accepted \/ (loop' # "gone" /\ \E p \in InQueue' \cup InLoop' : content'[p] = m)

Flow(good, bad) ==
    /\ CountFlow(good, bad)
    /\ WaitFlow(good, bad)
    /\ PushFlow(good, bad)
    /\ StoreFlow(good, bad)
    /\ AcceptFlow(good, bad)

LEMMA CountFailed ==
    ASSUME TypeOK, NEW ps, failedCount' = Mark(failedCount, {content[p] : p \in ps}),
           succeedCount' = succeedCount, succeedByte' = succeedByte
    PROVE  Count({}, ps)
<1>1. {content[p] : p \in {}} = {}
  OBVIOUS
<1>2. succeedCount' = Mark(succeedCount, {})
  BY DEF TypeOK, Mark
<1>3. succeedByte' = [m \in Messages |-> IF m \in {} THEN succeedByte[m] + Size[m] ELSE succeedByte[m]]
  BY DEF TypeOK
<1> QED
  BY <1>1, <1>2, <1>3 DEF Count

LEMMA CountNothing ==
    ASSUME TypeOK, UNCHANGED metrics
    PROVE  Count({}, {})
<1>1. failedCount' = Mark(failedCount, {})
  BY DEF TypeOK, Mark, metrics
<1>2. {content[p] : p \in {}} = {}
  OBVIOUS
<1> QED
  BY <1>1, <1>2, CountFailed DEF metrics

LEMMA StoreNothing ==
    ASSUME redis' = redis, retried' = retried, unanswered' = unanswered, NEW ps
    PROVE  StoreFlow({}, ps)
BY DEF StoreFlow

\* The owners of a packet that waits or is pushed.
LEMMA LiveFacts ==
    ASSUME TypeOK, ApartInv, ContentInv
    PROVE  /\ \A p \in Packets : Waiting(p) => ~ Pushing(p) /\ p \notin pool
           /\ \A p \in Packets : Pushing(p) => p \notin pool /\ p \notin InQueue /\ p \notin InLoop
           /\ \A t \in tasks : \A p \in PacketsOf(t) : Pushing(p) /\ p \in Packets
           /\ \A p \in InQueue \cup InLoop : Waiting(p) /\ p \in Packets
           /\ \A t \in returning : \A p \in PacketsOf(t) : p \in Packets /\ ~ Waiting(p)
           /\ \A s \in Senders : \A p \in held[s] : ~ Pushing(p) /\ p \in Packets
<1>1. \A t \in AllTasks : PacketsOf(t) \subseteq Packets
  BY TaskTypes
<1>2. tasks \subseteq AllTasks /\ returning \subseteq AllTasks
  BY DEF AllTasks
<1>3. \A p \in InQueue \cup InLoop : p \in Packets
  BY LoopTypes
<1>4. \A s \in Senders : held[s] \subseteq Packets
  BY DEF TypeOK
<1>5. \A p \in Packets : Pushing(p) =>
        p \notin pool /\ p \notin InQueue /\ p \notin InLoop /\ \A s \in Senders : p \notin held[s]
  BY <1>2 DEF Pushing, ApartInv
<1>6. \A p \in Packets : Waiting(p) => p \notin pool /\ (p \in InQueue \cup InLoop \/ \E s \in Senders : p \in held[s])
  BY DEF Waiting, ApartInv
<1>7. \A t \in returning : \A p \in PacketsOf(t) : p \in Packets /\ ~ Waiting(p)
  BY <1>1, <1>2 DEF Waiting, ApartInv
<1>8. \A t \in tasks : \A p \in PacketsOf(t) : Pushing(p) /\ p \in Packets
  BY <1>1, <1>2 DEF Pushing
<1>9. \A s \in Senders : \A p \in held[s] : ~ Pushing(p) /\ p \in Packets
  BY <1>4, <1>5
<1> QED
  BY <1>3, <1>5, <1>6, <1>7, <1>8, <1>9 DEF Waiting

LEMMA QuietFlow ==
    ASSUME TypeOK, ApartInv, ContentInv, Quiet
    PROVE  Flow({}, {})
<1>1. \A p \in Packets : Pushing(p)' <=> Pushing(p)
  BY DEF Quiet, Pushing, work
<1>2. \A p \in Packets : Waiting(p)' => Waiting(p)
  <2>1. InQueue' \cup InLoop' = InQueue \cup InLoop /\ held' = held
    BY DEF Quiet
  <2>2. \A s \in Senders : spc'[s] \in {"check", "enqueue"} => spc[s] \in {"check", "enqueue"}
    BY DEF Quiet
  <2> QED
    BY <2>1, <2>2 DEF Waiting
<1>3. /\ content' = content /\ redis' = redis /\ retried' = retried /\ unanswered' = unanswered /\ accepted' = accepted
      /\ UNCHANGED metrics /\ sends' \in {sends, sends + 1}
      /\ InQueue' \cup InLoop' = InQueue \cup InLoop
      /\ loop' = "gone" => loop = "gone" \/ InQueue \cup InLoop = {}
  BY DEF Quiet, history, metrics
<1>4. CountFlow({}, {})
  BY <1>3, CountNothing DEF CountFlow
<1>5. WaitFlow({}, {}) /\ PushFlow({}, {})
  BY <1>1, <1>2, <1>3 DEF WaitFlow, PushFlow, Live
<1>6. StoreFlow({}, {})
  BY <1>3, StoreNothing
<1>7. AcceptFlow({}, {})
  BY <1>3 DEF AcceptFlow
<1> QED
  BY <1>4, <1>5, <1>6, <1>7 DEF Flow

LEMMA SetFlow ==
    ASSUME TypeOK, ApartInv, ContentInv, NEW s \in Senders, NEW p \in Packets, SendSet(s, p)
    PROVE  Flow({}, {})
<1>1. InQueue' = InQueue /\ InLoop' = InLoop
  BY SamePlaces DEF SendSet
<1>2. \A q \in Packets : Pushing(q)' <=> Pushing(q)
  BY DEF SendSet, Pushing, work
<1>3. /\ p \in pool /\ sends' = sends + 1 /\ content' = [content EXCEPT ![p] = sends + 1]
      /\ held' = [held EXCEPT ![s] = {p}] /\ spc' = [spc EXCEPT ![s] = "check"]
      /\ redis' = redis /\ retried' = retried /\ unanswered' = unanswered /\ accepted' = accepted /\ loop' = loop
      /\ UNCHANGED metrics
  BY DEF SendSet, history, loopSend
<1>4. content'[p] = sends + 1 /\ \A q \in Packets : q # p => content'[q] = content[q]
  BY <1>3 DEF TypeOK
<1>5. \A q \in Packets : Waiting(q)' => q = p \/ Waiting(q)
  <2>1. held'[s] = {p} /\ \A r \in Senders \ {s} : held'[r] = held[r] /\ spc'[r] = spc[r]
    BY <1>3 DEF TypeOK
  <2> QED
    BY <1>1, <2>1 DEF Waiting
<1>6. \A q \in Packets : Pushing(q) \/ q \in InQueue \cup InLoop => q # p
  BY <1>3, LiveFacts DEF ApartInv
<1>7. CountFlow({}, {})
  BY <1>3, CountNothing DEF CountFlow
<1>8. WaitFlow({}, {})
  BY <1>3, <1>4, <1>5 DEF WaitFlow
<1>9. PushFlow({}, {})
  BY <1>2, <1>4, <1>6 DEF PushFlow, Live
<1>10. StoreFlow({}, {})
  BY <1>3, StoreNothing
<1>11. AcceptFlow({}, {})
  <2>1. \A q \in InQueue \cup InLoop : q \in Packets
    BY LoopTypes
  <2> QED
    BY <1>1, <1>3, <1>4, <1>6, <2>1 DEF AcceptFlow
<1> QED
  BY <1>7, <1>8, <1>9, <1>10, <1>11 DEF Flow

LEMMA RejectFlow ==
    ASSUME TypeOK, ApartInv, ContentInv, NEW s \in Senders, spc[s] \in {"check", "enqueue"}, Reject(s)
    PROVE  Flow({}, held[s])
<1>1. InQueue' = InQueue /\ InLoop' = InLoop
  BY SamePlaces DEF Reject
<1>2. \A q \in Packets : Pushing(q)' <=> Pushing(q)
  BY DEF Reject, Pushing, work
<1>3. /\ failedCount' = Mark(failedCount, {content[p] : p \in held[s]})
      /\ succeedCount' = succeedCount /\ succeedByte' = succeedByte
      /\ spc' = [spc EXCEPT ![s] = "return"] /\ content' = content /\ held' = held /\ sends' = sends
      /\ redis' = redis /\ retried' = retried /\ unanswered' = unanswered /\ accepted' = accepted /\ loop' = loop
  BY DEF Reject, history, loopSend
<1>4. spc'[s] = "return" /\ \A r \in Senders \ {s} : spc'[r] = spc[r]
  BY <1>3 DEF TypeOK
<1>5. \A q \in Packets : Waiting(q)' => Waiting(q) /\ q \notin held[s]
  <2>1. \A r \in Senders : \A q \in held[r] : q \in held[s] => r = s
    BY DEF ApartInv
  <2>2. \A q \in InQueue \cup InLoop : q \notin held[s]
    BY DEF ApartInv
  <2> QED
    BY <1>1, <1>3, <1>4, <2>1, <2>2 DEF Waiting
<1>6. CountFlow({}, held[s])
  <2>1. \A p \in held[s] : p \in Packets /\ Live(p)
    BY DEF TypeOK, Live, Waiting
  <2> QED
    BY <1>3, <2>1, CountFailed DEF CountFlow
<1>7. WaitFlow({}, held[s])
  BY <1>3, <1>5 DEF WaitFlow
<1>8. PushFlow({}, held[s])
  BY <1>2, <1>3, LiveFacts DEF PushFlow, Live
<1>9. StoreFlow({}, held[s])
  BY <1>3, StoreNothing
<1>10. AcceptFlow({}, held[s])
  BY <1>1, <1>3 DEF AcceptFlow
<1> QED
  BY <1>6, <1>7, <1>8, <1>9, <1>10 DEF Flow

LEMMA AcceptsFlow ==
    ASSUME TypeOK, ApartInv, ContentInv, NEW s \in Senders, NEW p, Accepts(s, p)
    PROVE  Flow({}, {})
<1>1. \A q \in Packets : Pushing(q)' <=> Pushing(q)
  BY DEF Accepts, Pushing, work
<1>2. /\ InQueue' = InQueue \cup {p} /\ InLoop' = InLoop /\ spc[s] = "enqueue" /\ p \in held[s]
      /\ held' = [held EXCEPT ![s] = {}] /\ content' = content /\ sends' = sends
      /\ redis' = redis /\ retried' = retried /\ unanswered' = unanswered /\ loop' = loop /\ UNCHANGED metrics
      /\ spc' = [spc EXCEPT ![s] = "idle"]
  BY DEF Accepts
<1>3. \A q \in Packets : Waiting(q)' => Waiting(q)
  <2>1. held'[s] = {} /\ \A r \in Senders \ {s} : held'[r] = held[r] /\ spc'[r] = spc[r]
    BY <1>2 DEF TypeOK
  <2> QED
    BY <1>2, <2>1 DEF Waiting
<1>4. \A m \in accepted' : m \in accepted \/ (loop # "gone" /\ m = content[p])
  BY DEF Accepts
<1>5. CountFlow({}, {})
  BY <1>2, CountNothing DEF CountFlow
<1>6. WaitFlow({}, {}) /\ PushFlow({}, {})
  BY <1>1, <1>2, <1>3 DEF WaitFlow, PushFlow, Live
<1>7. StoreFlow({}, {})
  BY <1>2, StoreNothing
<1>8. AcceptFlow({}, {})
  BY <1>2, <1>4 DEF AcceptFlow
<1> QED
  BY <1>5, <1>6, <1>7, <1>8 DEF Flow

LEMMA ReturnFlow ==
    ASSUME TypeOK, ApartInv, ContentInv, NEW s \in Senders, SendReturn(s)
    PROVE  Flow({}, {})
<1>1. InQueue' = InQueue /\ InLoop' = InLoop
  BY SamePlaces DEF SendReturn
<1>2. \A q \in Packets : Pushing(q)' <=> Pushing(q)
  BY DEF SendReturn, Pushing, work
<1>3. /\ spc[s] = "return" /\ held' = [held EXCEPT ![s] = {}] /\ spc' = [spc EXCEPT ![s] = "idle"]
      /\ sends' = sends /\ redis' = redis /\ retried' = retried /\ unanswered' = unanswered /\ accepted' = accepted
      /\ loop' = loop /\ UNCHANGED metrics
      /\ \A q \in Packets : q \notin held[s] => content'[q] = content[q]
  BY DEF SendReturn, PoolPut, history, loopSend
<1>4. \A q \in Packets : Waiting(q)' => Waiting(q) /\ q \notin held[s]
  <2>1. held'[s] = {} /\ \A r \in Senders \ {s} : held'[r] = held[r] /\ spc'[r] = spc[r]
    BY <1>3 DEF TypeOK
  <2>2. \A r \in Senders : \A q \in held[r] : q \in held[s] => r = s
    BY DEF ApartInv
  <2>3. \A q \in InQueue \cup InLoop : q \notin held[s]
    BY DEF ApartInv
  <2> QED
    BY <1>1, <2>1, <2>2, <2>3 DEF Waiting
<1>5. \A q \in Packets : Pushing(q) \/ q \in InQueue \cup InLoop => q \notin held[s]
  BY LiveFacts DEF ApartInv
<1>6. CountFlow({}, {})
  BY <1>3, CountNothing DEF CountFlow
<1>7. WaitFlow({}, {}) /\ PushFlow({}, {})
  BY <1>2, <1>3, <1>4, <1>5 DEF WaitFlow, PushFlow, Live
<1>8. StoreFlow({}, {})
  BY <1>3, StoreNothing
<1>9. AcceptFlow({}, {})
  <2>1. \A q \in InQueue \cup InLoop : q \in Packets
    BY LoopTypes
  <2> QED
    BY <1>1, <1>3, <1>5, <2>1 DEF AcceptFlow
<1> QED
  BY <1>6, <1>7, <1>8, <1>9 DEF Flow

LEMMA SubmitsFlow ==
    ASSUME TypeOK, ApartInv, ContentInv, NEW u, Submits(u)
    PROVE  Flow({}, {})
<1>1. /\ InQueue' = InQueue /\ InLoop' = InLoop \ PacketsOf(u) /\ PacketsOf(u) \subseteq InLoop
      /\ tasks' = tasks \cup {u} /\ content' = content /\ spc' = spc /\ held' = held /\ sends' = sends
      /\ redis' = redis /\ retried' = retried /\ unanswered' = unanswered /\ accepted' = accepted
      /\ loop # "gone" /\ loop' # "gone" /\ UNCHANGED metrics
  BY DEF Submits, send
<1>2. \A q \in Packets : Pushing(q)' <=> Pushing(q) \/ q \in PacketsOf(u)
  BY <1>1 DEF Pushing
<1>3. \A q \in Packets : Waiting(q)' => Waiting(q)
  BY <1>1 DEF Waiting
<1>4. \A q \in PacketsOf(u) : Waiting(q)
  BY <1>1 DEF Waiting
<1>5. CountFlow({}, {})
  BY <1>1, CountNothing DEF CountFlow
<1>6. WaitFlow({}, {}) /\ PushFlow({}, {})
  BY <1>1, <1>2, <1>3, <1>4 DEF WaitFlow, PushFlow, Live
<1>7. StoreFlow({}, {})
  BY <1>1, StoreNothing
<1>8. AcceptFlow({}, {})
  <2>1. \A q \in InQueue \cup InLoop : q \in Packets
    BY LoopTypes
  <2> QED
    BY <1>1, <1>2, <2>1 DEF AcceptFlow
<1> QED
  BY <1>5, <1>6, <1>7, <1>8 DEF Flow

LEMMA RefusesFlow ==
    ASSUME TypeOK, ApartInv, ContentInv, NEW ps, Refuses(ps)
    PROVE  Flow({}, ps)
<1>1. /\ InQueue' = InQueue /\ InLoop' = InLoop \ ps /\ ps \subseteq InLoop
      /\ spc' = spc /\ held' = held /\ sends' = sends
      /\ redis' = redis /\ retried' = retried /\ unanswered' = unanswered /\ accepted' = accepted
      /\ loop # "gone" /\ loop' # "gone"
      /\ failedCount' = Mark(failedCount, {content[p] : p \in ps})
      /\ succeedCount' = succeedCount /\ succeedByte' = succeedByte
      /\ \A q \in Packets : q \notin ps => content'[q] = content[q]
  BY DEF Refuses, send, PoolPut, history
<1>2. \A q \in Packets : Pushing(q)' <=> Pushing(q)
  BY DEF Refuses, Pushing, work
<1>3. \A q \in Packets : Waiting(q)' => Waiting(q) /\ q \notin ps
  <2>1. \A r \in Senders : \A q \in held[r] : q \notin InLoop
    BY DEF ApartInv
  <2>2. \A q \in InQueue : q \notin InLoop
    BY DEF ApartInv
  <2> QED
    BY <1>1, <2>1, <2>2 DEF Waiting
<1>4. \A q \in ps : Waiting(q) /\ q \in Packets
  BY <1>1, LiveFacts
<1>5. \A q \in Packets : Pushing(q) => q \notin ps
  BY <1>1, LiveFacts
<1>6. CountFlow({}, ps)
  BY <1>1, <1>4, CountFailed DEF CountFlow, Live
<1>7. WaitFlow({}, ps) /\ PushFlow({}, ps)
  BY <1>1, <1>2, <1>3, <1>5 DEF WaitFlow, PushFlow, Live
<1>8. StoreFlow({}, ps)
  BY <1>1, StoreNothing
<1>9. AcceptFlow({}, ps)
  <2>1. \A q \in InQueue \cup InLoop : q \in Packets
    BY LoopTypes
  <2> QED
    BY <1>1, <2>1 DEF AcceptFlow
<1> QED
  BY <1>6, <1>7, <1>8, <1>9 DEF Flow

LEMMA LosesFlow ==
    ASSUME TypeOK, ApartInv, ContentInv, NEW t, NEW u, NEW ms, Loses(t, u, ms)
    PROVE  Flow({}, {})
<1>1. /\ t \in tasks /\ u.packets = t.packets /\ tasks' = (tasks \ {t}) \cup {u}
      /\ InQueue' = InQueue /\ InLoop' = InLoop /\ spc' = spc /\ held' = held /\ sends' = sends
      /\ content' = content /\ loop' = loop /\ accepted' = accepted /\ UNCHANGED metrics
      /\ \/ retried' = retried \cup {content[p] : p \in PacketsOf(t)}
         \/ retried' = retried /\ redis' = redis
      /\ unanswered' = unanswered /\ Grows(t, ms)
  BY DEF Loses, send
<1>2. \A q \in Packets : Pushing(q)' <=> Pushing(q)
  BY <1>1 DEF Pushing, PacketsOf
<1>3. \A q \in Packets : Waiting(q)' <=> Waiting(q)
  BY <1>1 DEF Waiting
<1>4. CountFlow({}, {})
  BY <1>1, CountNothing DEF CountFlow
<1>5. WaitFlow({}, {}) /\ PushFlow({}, {})
  BY <1>1, <1>2, <1>3 DEF WaitFlow, PushFlow, Live
<1>6. StoreFlow({}, {})
  <2>1. /\ Range(redis') = Range(redis) \cup Range(ms)
        /\ \A m \in Range(ms) : \E p \in PacketsOf(t) : content[p] = m
    BY <1>1, GrowsFacts
  <2>2. \A m \in Range(redis') : m \notin Range(redis) =>
            \E p \in Packets : Pushing(p) /\ content[p] = m /\ m \in retried'
    BY <1>1, <2>1, LiveFacts
  <2> QED
    BY <1>1, <2>1, <2>2 DEF StoreFlow
<1>7. AcceptFlow({}, {})
  BY <1>1 DEF AcceptFlow
<1> QED
  BY <1>4, <1>5, <1>6, <1>7 DEF Flow

LEMMA ExecutesFlow ==
    ASSUME TypeOK, ApartInv, ContentInv, NEW t, NEW u, NEW ms, NEW good, NEW bad, Executes(t, u, ms, good, bad)
    PROVE  Flow(good, bad)
<1>1. /\ t \in tasks /\ tasks' = tasks \ {t} /\ good \cup bad = PacketsOf(t) /\ good \cap bad = {}
      /\ InQueue' = InQueue /\ InLoop' = InLoop /\ spc' = spc /\ held' = held /\ sends' = sends
      /\ content' = content /\ loop' = loop /\ accepted' = accepted /\ retried' = retried
      /\ Grows(t, ms) /\ Count(good, bad) /\ unanswered \subseteq unanswered'
      /\ \A p \in good : content[p] \in Range(redis') \/ content[p] \in unanswered'
  BY DEF Executes, send
<1>2. \A q \in PacketsOf(t) : q \in Packets /\ Pushing(q) /\ ~ Waiting(q)
  BY <1>1, LiveFacts
<1>3. \A q \in Packets : Pushing(q)' <=> Pushing(q) /\ q \notin PacketsOf(t)
  <2>1. \A v \in tasks : \A q \in PacketsOf(v) : q \in PacketsOf(t) => v = t
    BY <1>1 DEF ApartInv, AllTasks
  <2> QED
    BY <1>1, <2>1 DEF Pushing
<1>4. \A q \in Packets : Waiting(q)' <=> Waiting(q)
  BY <1>1 DEF Waiting
<1>5. CountFlow(good, bad)
  BY <1>1, <1>2 DEF CountFlow, Live
<1>6. WaitFlow(good, bad)
  BY <1>1, <1>2, <1>4 DEF WaitFlow
<1>7. PushFlow(good, bad)
  BY <1>1, <1>3 DEF PushFlow, Live
<1>8. StoreFlow(good, bad)
  <2>1. /\ Range(redis') = Range(redis) \cup Range(ms)
        /\ \A m \in Range(ms) : \E p \in PacketsOf(t) : content[p] = m
    BY <1>1, GrowsFacts
  <2>2. \A m \in Range(redis') : m \notin Range(redis) =>
            \E p \in Packets : Pushing(p) /\ content[p] = m /\ p \in good \cup bad
    BY <1>1, <1>2, <2>1
  <2> QED
    BY <1>1, <2>1, <2>2 DEF StoreFlow
<1>9. AcceptFlow(good, bad)
  BY <1>1 DEF AcceptFlow
<1> QED
  BY <1>5, <1>6, <1>7, <1>8, <1>9 DEF Flow

LEMMA TaskReturnFlow ==
    ASSUME TypeOK, ApartInv, TaskInv, ContentInv, NEW t \in returning, TaskReturn(t)
    PROVE  Flow({}, {})
<1>1. InQueue' = InQueue /\ InLoop' = InLoop
  BY SamePlaces DEF TaskReturn
<1>2. /\ tasks' = tasks /\ spc' = spc /\ held' = held /\ sends' = sends
      /\ redis' = redis /\ retried' = retried /\ unanswered' = unanswered /\ accepted' = accepted
      /\ loop' = loop /\ UNCHANGED metrics
      /\ \A q \in Packets : q \notin PacketsOf(t) => content'[q] = content[q]
  BY DEF TaskReturn, PoolPut, history, loopSend, send, PacketsOf
<1>3. \A q \in Packets : Waiting(q)' <=> Waiting(q)
  BY <1>1, <1>2 DEF Waiting
<1>4. \A q \in Packets : Pushing(q)' <=> Pushing(q)
  BY <1>2 DEF Pushing
<1>5. \A q \in Packets : Waiting(q) \/ Pushing(q) \/ q \in InQueue \cup InLoop => q \notin PacketsOf(t)
  <2>1. \A v \in tasks : \A q \in PacketsOf(v) : q \notin PacketsOf(t)
    BY DEF ApartInv, AllTasks, TaskInv
  <2>2. \A q \in Packets : Pushing(q) => q \notin PacketsOf(t)
    BY <2>1 DEF Pushing
  <2> QED
    BY <2>2, LiveFacts
<1>6. CountFlow({}, {})
  BY <1>2, CountNothing DEF CountFlow
<1>7. WaitFlow({}, {}) /\ PushFlow({}, {})
  BY <1>2, <1>3, <1>4, <1>5 DEF WaitFlow, PushFlow, Live
<1>8. StoreFlow({}, {})
  BY <1>2, StoreNothing
<1>9. AcceptFlow({}, {})
  <2>1. \A q \in InQueue \cup InLoop : q \in Packets
    BY LoopTypes
  <2> QED
    BY <1>1, <1>2, <1>5, <2>1 DEF AcceptFlow
<1> QED
  BY <1>6, <1>7, <1>8, <1>9 DEF Flow

LEMMA FlowStep ==
    ASSUME TypeOK, ApartInv, TaskInv, ContentInv, Kinds
    PROVE  \E good, bad : Flow(good, bad)
<1>1. ASSUME NEW s \in Senders, NEW p \in Packets, SendSet(s, p) PROVE Flow({}, {})
  BY <1>1, SetFlow
<1>2. ASSUME NEW s \in Senders, spc[s] \in {"check", "enqueue"}, Reject(s) PROVE Flow({}, held[s])
  BY <1>2, RejectFlow
<1>3. ASSUME NEW s \in Senders, NEW p, Accepts(s, p) PROVE Flow({}, {})
  BY <1>3, AcceptsFlow
<1>4. ASSUME NEW s \in Senders, SendReturn(s) PROVE Flow({}, {})
  BY <1>4, ReturnFlow
<1>5. ASSUME NEW u, Submits(u) PROVE Flow({}, {})
  BY <1>5, SubmitsFlow
<1>6. ASSUME NEW ps, Refuses(ps) PROVE Flow({}, ps)
  BY <1>6, RefusesFlow
<1>7. ASSUME NEW t, NEW u, NEW ms, Loses(t, u, ms) PROVE Flow({}, {})
  BY <1>7, LosesFlow
<1>8. ASSUME NEW t, NEW u, NEW ms, NEW good, NEW bad, Executes(t, u, ms, good, bad) PROVE Flow(good, bad)
  BY <1>8, ExecutesFlow
<1>9. ASSUME NEW t \in returning, TaskReturn(t) PROVE Flow({}, {})
  BY <1>9, TaskReturnFlow
<1> QED
  BY <1>1, <1>2, <1>3, <1>4, <1>5, <1>6, <1>7, <1>8, <1>9, QuietFlow DEF Kinds

\* The metrics of a message after Count.
LEMMA CountFacts ==
    ASSUME NEW good, NEW bad, Count(good, bad), NEW m \in Messages
    PROVE  /\ m \in {content[p] : p \in good} =>
                succeedCount'[m] = succeedCount[m] + 1 /\ succeedByte'[m] = succeedByte[m] + Size[m]
           /\ m \notin {content[p] : p \in good} =>
                succeedCount'[m] = succeedCount[m] /\ succeedByte'[m] = succeedByte[m]
           /\ m \in {content[p] : p \in bad} => failedCount'[m] = failedCount[m] + 1
           /\ m \notin {content[p] : p \in bad} => failedCount'[m] = failedCount[m]
BY DEF Count, Mark

\* Only a message that is not counted yet is counted, in one way, and only what is in redis, or
\* never had a reply, has succeeded.
LEMMA CountStep ==
    ASSUME TypeOK, TypeOK', ApartInv, ContentInv, CountInv, NEW good, NEW bad, Flow(good, bad)
    PROVE  CountInv'
<1> DEFINE GM == {content[p] : p \in good}
           BM == {content[p] : p \in bad}
<1>0. CountFlow(good, bad) /\ WaitFlow(good, bad) /\ PushFlow(good, bad) /\ StoreFlow(good, bad)
  BY DEF Flow
<1>1. \A p \in Packets : Live(p) => p \notin pool
  BY LiveFacts DEF Live
<1>2. \A p \in Packets \ pool : content[p] \in Messages /\ content[p] <= sends
  BY InUse
<1>3. ASSUME NEW p, p \in good \/ p \in bad
      PROVE  p \in Packets /\ p \notin pool /\ content[p] \in Messages /\ Counted(content[p]) = 0
  <2>1. p \in Packets /\ Live(p)
    BY <1>0, <1>3 DEF CountFlow
  <2> QED
    BY <1>1, <1>2, <2>1 DEF CountInv, Live
<1>4. \A m \in GM : m \in Messages /\ Counted(m) = 0 /\ m <= sends
  BY <1>2, <1>3
<1>5. \A m \in BM : m \in Messages /\ Counted(m) = 0 /\ m <= sends
  BY <1>2, <1>3
<1>6. \A m \in GM : m \notin BM
  BY <1>0, <1>3 DEF CountFlow, ContentInv
<1>7. \A p \in Packets \ pool : p \notin good /\ p \notin bad => content[p] \notin GM /\ content[p] \notin BM
  BY <1>3 DEF ContentInv
<1>8. \A m \in GM : m \in Range(redis') \/ m \in unanswered'
  BY <1>0 DEF StoreFlow
<1>9. \A m \in Messages :
        /\ m \in GM => succeedCount'[m] = succeedCount[m] + 1 /\ succeedByte'[m] = succeedByte[m] + Size[m]
        /\ m \notin GM => succeedCount'[m] = succeedCount[m] /\ succeedByte'[m] = succeedByte[m]
        /\ m \in BM => failedCount'[m] = failedCount[m] + 1
        /\ m \notin BM => failedCount'[m] = failedCount[m]
  BY <1>0, CountFacts DEF CountFlow
<1> HIDE DEF GM, BM
<1>10. \A m \in Messages : /\ succeedCount[m] \in Nat /\ failedCount[m] \in Nat /\ succeedByte[m] \in Nat
                           /\ Size[m] \in Nat /\ m \in Nat
  BY Constants DEF TypeOK
<1>11. sends \in Nat /\ sends' \in Nat /\ sends' \in {sends, sends + 1}
  BY <1>0, Constants DEF TypeOK, CountFlow
<1>12. \A m \in Messages : m \notin GM /\ m \notin BM => Counted(m)' = Counted(m)
  BY <1>9 DEF Counted
<1>13. ASSUME NEW m \in Messages
       PROVE  /\ Counted(m)' <= 1
              /\ m > sends' => Counted(m)' = 0
              /\ succeedCount'[m] = 1 => m \in Range(redis') \/ m \in unanswered'
              /\ succeedByte'[m] = IF succeedCount'[m] = 1 THEN Size[m] ELSE 0
  <2>0. /\ Counted(m) <= 1 /\ (m > sends => Counted(m) = 0)
        /\ succeedCount[m] = 1 => m \in Range(redis) \/ m \in unanswered
        /\ succeedByte[m] = IF succeedCount[m] = 1 THEN Size[m] ELSE 0
    BY DEF CountInv
  <2>1. CASE m \in GM
    <3>1. succeedCount[m] = 0 /\ failedCount[m] = 0 /\ succeedByte[m] = 0 /\ m <= sends
      BY <1>4, <1>10, <2>0, <2>1 DEF Counted
    <3>2. succeedCount'[m] = 1 /\ failedCount'[m] = 0 /\ succeedByte'[m] = Size[m]
      BY <1>6, <1>9, <1>10, <2>1, <3>1
    <3> QED
      BY <1>8, <1>10, <1>11, <2>1, <3>1, <3>2 DEF Counted
  <2>2. CASE m \in BM
    <3>1. succeedCount[m] = 0 /\ failedCount[m] = 0 /\ succeedByte[m] = 0 /\ m <= sends
      BY <1>5, <1>10, <2>0, <2>2 DEF Counted
    <3>2. succeedCount'[m] = 0 /\ failedCount'[m] = 1 /\ succeedByte'[m] = 0
      BY <1>6, <1>9, <1>10, <2>2, <3>1
    <3> QED
      BY <1>10, <1>11, <3>1, <3>2 DEF Counted
  <2>3. CASE m \notin GM /\ m \notin BM
    <3>1. Counted(m)' = Counted(m) /\ succeedCount'[m] = succeedCount[m] /\ succeedByte'[m] = succeedByte[m]
      BY <1>9, <1>12, <2>3
    <3>2. m > sends' => m > sends
      BY <1>10, <1>11
    <3>3. (m \in Range(redis) => m \in Range(redis')) /\ (m \in unanswered => m \in unanswered')
      BY <1>0 DEF StoreFlow
    <3> QED
      BY <2>0, <3>1, <3>2, <3>3
  <2> QED
    BY <2>1, <2>2, <2>3
<1>14. ASSUME NEW p \in Packets, Waiting(p)' \/ Pushing(p)'
       PROVE  succeedCount'[content'[p]] + failedCount'[content'[p]] = 0
  <2>1. CASE Live(p) /\ p \notin good /\ p \notin bad /\ content'[p] = content[p]
    <3>1. content[p] \in Messages /\ content[p] \notin GM /\ content[p] \notin BM /\ Counted(content[p]) = 0
      BY <1>1, <1>2, <1>7, <2>1 DEF CountInv, Live
    <3> QED
      BY <1>12, <2>1, <3>1 DEF Counted
  <2>2. CASE content'[p] = sends + 1 /\ sends' = sends + 1
    <3>1. sends + 1 \in Messages /\ sends + 1 > sends
      BY <1>11, <2>2, Constants DEF TypeOK
    <3>2. sends + 1 \notin GM /\ sends + 1 \notin BM
      BY <1>4, <1>5, <1>11
    <3>3. Counted(sends + 1) = 0
      BY <3>1 DEF CountInv
    <3> QED
      BY <1>12, <2>2, <3>1, <3>2, <3>3 DEF Counted
  <2> QED
    BY <1>0, <1>14, <2>1, <2>2 DEF WaitFlow, PushFlow, Live
<1> QED
  BY <1>13, <1>14 DEF CountInv, Counted

\* What sendCh took while loopSend ran is counted in the end.
LEMMA AcceptedStep ==
    ASSUME TypeOK, ApartInv, ContentInv, CountInv, AcceptedInv, CountInv', TypeOK', NEW good, NEW bad,
           Flow(good, bad)
    PROVE  AcceptedInv'
<1>0. CountFlow(good, bad) /\ PushFlow(good, bad) /\ AcceptFlow(good, bad)
  BY DEF Flow
<1>1. \A m \in Messages : /\ succeedCount[m] \in Nat /\ failedCount[m] \in Nat
                          /\ succeedCount'[m] \in Nat /\ failedCount'[m] \in Nat
                          /\ Counted(m)' <= 1 /\ Counted(m) <= 1
  BY DEF TypeOK, CountInv
<1>2. ASSUME NEW p, p \in good \/ p \in bad
      PROVE  content[p] \in Messages /\ Counted(content[p])  = 0
  <2>1. p \in Packets /\ Live(p)
    BY <1>0, <1>2 DEF CountFlow
  <2>2. content[p] \in Messages
    BY <2>1, InUse, LiveFacts DEF Live
  <2> QED
    BY <2>1, <2>2 DEF CountInv, Live
<1>3. ASSUME NEW p, p \in good \/ p \in bad
      PROVE  succeedCount'[content[p]] + failedCount'[content[p]] = 1
  <2>1. content[p] \in Messages /\ content[p] \in {content[q] : q \in good} \cup {content[q] : q \in bad}
    BY <1>2, <1>3
  <2>2. Count(good, bad)
    BY <1>0 DEF CountFlow
  <2>3. succeedCount[content[p]] = 0 /\ failedCount[content[p]] = 0
    BY <1>1, <1>2, <1>3, <2>1 DEF Counted
  <2>4. succeedCount'[content[p]] = 1 \/ failedCount'[content[p]] = 1
    BY <2>1, <2>2, <2>3, CountFacts
  <2> QED
    BY <1>1, <2>1, <2>4 DEF Counted
<1>4. ASSUME NEW m \in Messages, Counted(m) = 1 PROVE Counted(m)' = 1
  <2>1. Count(good, bad)
    BY <1>0 DEF CountFlow
  <2>2. succeedCount'[m] >= succeedCount[m] /\ failedCount'[m] >= failedCount[m]
    BY <1>1, <2>1, CountFacts
  <2> QED
    BY <1>1, <1>4, <2>2 DEF Counted
<1>5. accepted \subseteq Messages
  BY DEF TypeOK
<1> SUFFICES ASSUME NEW m \in accepted'
             PROVE  \/ Counted(m)' = 1
                    \/ \E p \in Packets : Pushing(p)' /\ content'[p] = m
                    \/ loop' # "gone" /\ \E p \in InQueue' \cup InLoop' : content'[p] = m
  BY DEF AcceptedInv
<1>6. CASE m \notin accepted
  BY <1>0, <1>6 DEF AcceptFlow
<1>7. CASE m \in accepted /\ Counted(m) = 1
  BY <1>4, <1>5, <1>7
<1>8. ASSUME NEW p \in Packets, Pushing(p), content[p] = m
      PROVE  Counted(m)' = 1 \/ (Pushing(p)' /\ content'[p] = m)
  BY <1>0, <1>3, <1>8 DEF PushFlow, Counted
<1>9. ASSUME loop # "gone", NEW p \in InQueue \cup InLoop, content[p] = m
      PROVE  \/ Counted(m)' = 1
             \/ Pushing(p)' /\ content'[p] = m /\ p \in Packets
             \/ loop' # "gone" /\ p \in InQueue' \cup InLoop' /\ content'[p] = m
  <2>1. loop' # "gone" /\ p \in Packets
    BY <1>0, <1>9, LoopTypes DEF AcceptFlow
  <2> QED
    BY <1>0, <1>3, <1>9, <2>1 DEF AcceptFlow, Counted
<1> QED
  BY <1>6, <1>7, <1>8, <1>9 DEF AcceptedInv

\* A message comes to redis by its task only.
LEMMA PushedStep ==
    ASSUME TypeOK, TypeOK', ApartInv, ContentInv, PushedInv, NEW good, NEW bad, Flow(good, bad)
    PROVE  PushedInv'
<1>0. CountFlow(good, bad) /\ WaitFlow(good, bad) /\ PushFlow(good, bad) /\ StoreFlow(good, bad)
  BY DEF Flow
<1>1. \A p \in Packets : Live(p) => p \notin pool /\ content[p] \in Nat /\ content[p] <= sends
  BY InUse, LiveFacts DEF Live
<1>2. sends \in Nat /\ sends' \in {sends, sends + 1}
  BY <1>0, Constants DEF TypeOK, CountFlow
<1>3. \A m \in Range(redis') : m \in Nat /\ m <= sends
  <2>1. \A m \in Range(redis) : m \in Nat /\ m <= sends
    <3>1. Range(redis) \subseteq Messages
      BY RangeOf DEF TypeOK
    <3> QED
      BY <3>1, Constants DEF PushedInv
  <2> QED
    BY <1>0, <1>1, <2>1 DEF StoreFlow, Live
<1>4. \A m \in Range(redis') : m <= sends'
  BY <1>2, <1>3
<1>5. ASSUME NEW p \in Packets, Waiting(p)' PROVE content'[p] \notin Range(redis')
  <2>1. CASE Waiting(p) /\ content'[p] = content[p]
    <3>1. content[p] \notin Range(redis)
      BY <2>1 DEF PushedInv
    <3>2. \A q \in Packets : Pushing(q) => content[q] # content[p]
      BY <1>1, <2>1, LiveFacts DEF ContentInv, Live
    <3> QED
      BY <1>0, <2>1, <3>1, <3>2 DEF StoreFlow
  <2>2. CASE content'[p] = sends + 1
    BY <1>2, <1>3, <2>2
  <2> QED
    BY <1>0, <1>5, <2>1, <2>2 DEF WaitFlow
<1>6. ASSUME NEW p \in Packets, Pushing(p)', content'[p] \in Range(redis')
      PROVE  content'[p] \in retried'
  <2>1. Live(p) /\ p \notin good /\ p \notin bad /\ content'[p] = content[p]
    BY <1>0, <1>6 DEF PushFlow
  <2>2. CASE content[p] \in Range(redis)
    BY <1>0, <2>1, <2>2 DEF PushedInv, Live, StoreFlow
  <2>3. CASE content[p] \notin Range(redis)
    <3>1. PICK q \in Packets : Pushing(q) /\ content[q] = content[p] /\ (q \in good \cup bad \/ content[p] \in retried')
      BY <1>0, <1>6, <2>1, <2>3 DEF StoreFlow
    <3>2. q = p
      BY <1>1, <2>1, <3>1 DEF ContentInv, Live
    <3> QED
      BY <2>1, <3>1, <3>2
  <2> QED
    BY <2>2, <2>3
<1> QED
  BY <1>4, <1>5, <1>6 DEF PushedInv

\* Where the tasks and the batches of a step come from.
LEMMA TaskFlow ==
    ASSUME TypeOK, TaskInv, Kinds
    PROVE  /\ \A t \in tasks' : \/ \E v \in tasks : v.packets = t.packets
                                \/ \A p \in PacketsOf(t) : Waiting(p)
           /\ \/ grouped' = grouped
              \/ \E u : Submits(u) /\ grouped' = grouped \cup {MessagesOf(u.packets)}
<1> DEFINE From == \A t \in tasks' : \/ \E v \in tasks : v.packets = t.packets
                                     \/ \A p \in PacketsOf(t) : Waiting(p)
           Batches == \/ grouped' = grouped
                      \/ \E u : Submits(u) /\ grouped' = grouped \cup {MessagesOf(u.packets)}
<1>0. ASSUME tasks' = tasks, grouped' = grouped PROVE From /\ Batches
  BY <1>0
<1>1. ASSUME Quiet PROVE From /\ Batches
  BY <1>0, <1>1 DEF Quiet, work, history
<1>2. ASSUME NEW s \in Senders, NEW p \in Packets, SendSet(s, p) PROVE From /\ Batches
  BY <1>0, <1>2 DEF SendSet, work, history
<1>3. ASSUME NEW s \in Senders, Reject(s) PROVE From /\ Batches
  BY <1>0, <1>3 DEF Reject, work, history
<1>4. ASSUME NEW s \in Senders, NEW p, Accepts(s, p) PROVE From /\ Batches
  BY <1>0, <1>4 DEF Accepts, work
<1>5. ASSUME NEW s \in Senders, SendReturn(s) PROVE From /\ Batches
  BY <1>0, <1>5 DEF SendReturn, work, history
<1>6. ASSUME NEW u, Submits(u) PROVE From /\ Batches
  <2>1. tasks' = tasks \cup {u} /\ PacketsOf(u) \subseteq InLoop
    BY <1>6 DEF Submits
  <2>2. From
    BY <2>1 DEF Waiting
  <2>3. Batches
    BY <1>6 DEF Submits
  <2> QED
    BY <2>2, <2>3
<1>7. ASSUME NEW ps, Refuses(ps) PROVE From /\ Batches
  BY <1>0, <1>7 DEF Refuses, work, history
<1>8. ASSUME NEW t, NEW u, NEW ms, Loses(t, u, ms) PROVE From /\ Batches
  BY <1>8 DEF Loses
<1>9. ASSUME NEW t, NEW u, NEW ms, NEW good, NEW bad, Executes(t, u, ms, good, bad) PROVE From /\ Batches
  BY <1>9 DEF Executes
<1>10. ASSUME NEW t \in returning, TaskReturn(t) PROVE From /\ Batches
  BY <1>0, <1>10 DEF TaskReturn, history
<1> HIDE DEF From, Batches
<1>11. From /\ Batches
  BY <1>1, <1>2, <1>3, <1>4, <1>5, <1>6, <1>7, <1>8, <1>9, <1>10 DEF Kinds
<1> QED
  BY <1>11 DEF From, Batches

\* The commands without error stay in redis, and keep their messages.
LEMMA CleanStep ==
    ASSUME TypeOK, TypeOK', TaskInv', CleanInv, Kinds, NEW good, NEW bad, Flow(good, bad)
    PROVE  CleanInv'
<1> DEFINE Sound(t) == t.clean # Commands(t) => \A i \in t.clean : content[t.packets[i]] \in Range(redis')
<1>1. \A m \in Range(redis) : m \in Range(redis')
  BY DEF Flow, StoreFlow
<1>2. ASSUME NEW t \in tasks PROVE Sound(t)
  BY <1>1 DEF CleanInv
<1>3. \A t \in tasks' : t \in tasks \/ Sound(t)
  <2>1. ASSUME tasks' = tasks PROVE \A t \in tasks' : t \in tasks \/ Sound(t)
    BY <2>1
  <2>2. ASSUME NEW u, Submits(u) PROVE \A t \in tasks' : t \in tasks \/ Sound(t)
    BY <2>2 DEF Submits
  <2>3. ASSUME NEW t, NEW u, NEW ms, Loses(t, u, ms) PROVE \A v \in tasks' : v \in tasks \/ Sound(v)
    BY <2>3 DEF Loses
  <2>4. ASSUME NEW t, NEW u, NEW ms, NEW g, NEW b, Executes(t, u, ms, g, b)
        PROVE  \A v \in tasks' : v \in tasks \/ Sound(v)
    BY <2>4 DEF Executes
  <2>5. ASSUME \/ Quiet
               \/ \E s \in Senders : \E p \in Packets : SendSet(s, p)
               \/ \E s \in Senders : Reject(s)
               \/ \E s \in Senders : \E p : Accepts(s, p)
               \/ \E s \in Senders : SendReturn(s)
               \/ \E ps : Refuses(ps)
               \/ \E t \in returning : TaskReturn(t)
        PROVE  tasks' = tasks
    BY <2>5 DEF Quiet, SendSet, Reject, Accepts, SendReturn, Refuses, TaskReturn, work
  <2> HIDE DEF Sound
  <2> QED
    BY <2>1, <2>2, <2>3, <2>4, <2>5 DEF Kinds
<1>4. ASSUME NEW t \in tasks', NEW i \in t.clean, t.clean # Commands(t)
      PROVE  content'[t.packets[i]] \in Range(redis')
  <2>1. t.packets \in Seq(Packets)
    BY DEF TypeOK, Tasks
  <2>2. i \in 1 .. Len(t.packets)
    BY DEF TaskInv, AllTasks, WellFormed, Commands
  <2>3. t.packets[i] \in Range(t.packets) /\ t.packets[i] \in Packets
    BY <2>1, <2>2, RangeOf
  <2>4. Pushing(t.packets[i])'
    BY <2>3 DEF Pushing, PacketsOf
  <2>5. content'[t.packets[i]] = content[t.packets[i]]
    BY <2>3, <2>4 DEF Flow, PushFlow
  <2> QED
    BY <1>2, <1>3, <1>4, <2>5
<1> QED
  BY <1>4 DEF CleanInv

\* The messages of a task as a sequence.
LEMMA TaskMessages ==
    ASSUME TypeOK, ApartInv, ContentInv, NEW ps \in Seq(Packets), \A p \in Range(ps) : p \notin pool
    PROVE  /\ MessagesOf(ps) \in Seq(Messages)
           /\ Range(MessagesOf(ps)) = {content[p] : p \in Range(ps)}
           /\ \A m \in Range(MessagesOf(ps)) : m <= sends
           /\ IsInjective(ps) => IsInjective(MessagesOf(ps))
<1>1. Range(ps) \subseteq Packets /\ Range(ps) = {ps[i] : i \in 1 .. Len(ps)}
  BY RangeOf
<1>2. \A p \in Range(ps) : content[p] \in Messages /\ content[p] <= sends
  BY <1>1, InUse
<1>3. /\ MessagesOf(ps) \in Seq(Messages) /\ Len(MessagesOf(ps)) = Len(ps)
      /\ \A i \in 1 .. Len(ps) : MessagesOf(ps)[i] = content[ps[i]]
      /\ Range(MessagesOf(ps)) = {content[p] : p \in Range(ps)}
  BY <1>2, MessagesFacts
<1>4. ASSUME IsInjective(ps) PROVE IsInjective(MessagesOf(ps))
  <2> SUFFICES ASSUME NEW i \in 1 .. Len(ps), NEW j \in 1 .. Len(ps), MessagesOf(ps)[i] = MessagesOf(ps)[j]
               PROVE  i = j
    BY <1>3 DEF IsInjective
  <2>1. ps[i] \in Range(ps) /\ ps[j] \in Range(ps) /\ content[ps[i]] = content[ps[j]]
    BY <1>1, <1>3
  <2>2. ps[i] = ps[j]
    BY <1>1, <2>1 DEF ContentInv
  <2> QED
    BY <1>4, <2>2 DEF IsInjective
<1> QED
  BY <1>2, <1>3, <1>4

\* A batch keeps to its task: for the batches there are ...
LEMMA OldGroupStep ==
    ASSUME TypeOK, TypeOK', ApartInv, TaskInv, ContentInv, GroupInv, Kinds, NEW good, NEW bad,
           Flow(good, bad), NEW g \in grouped
    PROVE  /\ IsInjective(g)
           /\ \A m \in Range(g) : m <= sends'
           /\ \A p \in Packets : Waiting(p)' => content'[p] \notin Range(g)
           /\ \A t \in tasks' : \/ MessagesOf(t.packets)' = g
                                \/ \A p \in PacketsOf(t) : content'[p] \notin Range(g)
<1>0. CountFlow(good, bad) /\ WaitFlow(good, bad) /\ PushFlow(good, bad)
  BY DEF Flow
<1>1. /\ IsInjective(g)
      /\ \A m \in Range(g) : m <= sends
      /\ \A p \in Packets : Waiting(p) => content[p] \notin Range(g)
      /\ \A t \in tasks : \/ MessagesOf(t.packets) = g
                          \/ \A p \in PacketsOf(t) : content[p] \notin Range(g)
  BY DEF GroupInv
<1>2. sends \in Nat /\ sends' \in {sends, sends + 1}
  BY <1>0, Constants DEF TypeOK, CountFlow
<1>3. \A m \in Range(g) : m \in Nat
  <2>1. g \in Seq(Messages)
    BY DEF TypeOK
  <2> QED
    BY <2>1, RangeOf, Constants
<1>4. \A m \in Range(g) : m <= sends'
  BY <1>1, <1>2, <1>3
<1>5. sends + 1 \notin Range(g)
  BY <1>1, <1>2, <1>3
<1>6. \A p \in Packets : Waiting(p)' => content'[p] \notin Range(g)
  BY <1>0, <1>1, <1>5 DEF WaitFlow
<1>7. ASSUME NEW t \in tasks'
      PROVE  \/ MessagesOf(t.packets)' = g
             \/ \A p \in PacketsOf(t) : content'[p] \notin Range(g)
  <2>1. t \in Tasks /\ t.packets \in Seq(Packets)
    BY DEF TypeOK, Tasks
  <2>2. PacketsOf(t) \subseteq Packets /\ PacketsOf(t) = {t.packets[i] : i \in 1 .. Len(t.packets)}
    BY <2>1, RangeOf DEF PacketsOf
  <2>3. \A p \in PacketsOf(t) : content'[p] = content[p]
    BY <1>0, <2>2 DEF PushFlow, Pushing
  <2>4. CASE \A p \in PacketsOf(t) : Waiting(p)
    BY <1>1, <2>2, <2>3, <2>4
  <2>5. ASSUME NEW v \in tasks, v.packets = t.packets
        PROVE  \/ MessagesOf(t.packets)' = g
               \/ \A p \in PacketsOf(t) : content'[p] \notin Range(g)
    <3>1. PacketsOf(v) = PacketsOf(t)
      BY <2>5 DEF PacketsOf
    <3>2. CASE \A p \in PacketsOf(v) : content[p] \notin Range(g)
      BY <2>3, <3>1, <3>2
    <3>3. CASE MessagesOf(v.packets) = g
      <4>1. \A i \in 1 .. Len(t.packets) : content'[t.packets[i]] = content[t.packets[i]]
        BY <2>2, <2>3
      <4>2. [i \in 1 .. Len(t.packets) |-> content'[t.packets[i]]]
              = [i \in 1 .. Len(t.packets) |-> content[t.packets[i]]]
        BY <4>1
      <4>3. MessagesOf(t.packets)' = [i \in 1 .. Len(t.packets) |-> content'[t.packets[i]]]
        BY DEF MessagesOf
      <4>4. g = [i \in 1 .. Len(t.packets) |-> content[t.packets[i]]]
        BY <2>5, <3>3 DEF MessagesOf
      <4> QED
        BY <4>2, <4>3, <4>4
    <3> QED
      BY <1>1, <3>2, <3>3
  <2> QED
    BY <2>4, <2>5, TaskFlow
<1> QED
  BY <1>1, <1>4, <1>6, <1>7

\* ... and for the one that is submitted.
LEMMA NewGroupStep ==
    ASSUME TypeOK, ApartInv, ContentInv, NEW u, Submits(u), NEW g, g = MessagesOf(u.packets)
    PROVE  /\ IsInjective(g)
           /\ \A m \in Range(g) : m <= sends'
           /\ \A p \in Packets : Waiting(p)' => content'[p] \notin Range(g)
           /\ \A t \in tasks' : \/ MessagesOf(t.packets)' = g
                                \/ \A p \in PacketsOf(t) : content'[p] \notin Range(g)
           /\ \A m \in Range(g) : \E p \in Packets : Waiting(p) /\ content[p] = m
<1>1. /\ u \in Tasks /\ IsInjective(u.packets) /\ PacketsOf(u) \subseteq InLoop
      /\ InQueue' = InQueue /\ InLoop' = InLoop \ PacketsOf(u) /\ tasks' = tasks \cup {u}
      /\ content' = content /\ sends' = sends /\ spc' = spc /\ held' = held
  BY DEF Submits, send, WellFormed
<1>2. u.packets \in Seq(Packets)
  BY <1>1 DEF Tasks
<1>3. \A p \in PacketsOf(u) : p \in Packets /\ p \notin pool /\ Waiting(p)
  BY <1>1, LiveFacts
<1>4. /\ Range(g) = {content[p] : p \in PacketsOf(u)}
      /\ \A m \in Range(g) : m <= sends
      /\ IsInjective(g)
  BY <1>1, <1>2, <1>3, TaskMessages DEF PacketsOf
<1>5. \A p \in Packets \ pool : p \notin PacketsOf(u) => content[p] \notin Range(g)
  BY <1>3, <1>4 DEF ContentInv
<1>6. ASSUME NEW p \in Packets, Waiting(p)' PROVE content[p] \notin Range(g)
  <2>1. p \in InQueue \/ (p \in InLoop /\ p \notin PacketsOf(u)) \/ \E s \in Senders : p \in held[s]
    BY <1>1, <1>6 DEF Waiting
  <2>2. p \notin pool /\ p \notin PacketsOf(u)
    BY <1>1, <2>1 DEF ApartInv
  <2> QED
    BY <1>5, <2>2
<1>7. ASSUME NEW t \in tasks PROVE \A p \in PacketsOf(t) : content[p] \notin Range(g)
  <2>1. \A p \in PacketsOf(t) : p \in Packets /\ p \notin pool /\ p \notin PacketsOf(u)
    BY <1>1, LiveFacts
  <2> QED
    BY <1>5, <2>1
<1>8. MessagesOf(u.packets)' = g
  BY <1>1 DEF MessagesOf
<1>9. \A t \in tasks' : \/ MessagesOf(t.packets)' = g
                        \/ \A p \in PacketsOf(t) : content'[p] \notin Range(g)
  BY <1>1, <1>7, <1>8
<1>10. \A p \in Packets : Waiting(p)' => content'[p] \notin Range(g)
  BY <1>1, <1>6
<1> QED
  BY <1>1, <1>3, <1>4, <1>9, <1>10

LEMMA GroupStep ==
    ASSUME TypeOK, TypeOK', ApartInv, TaskInv, ContentInv, GroupInv, Kinds, NEW good, NEW bad,
           Flow(good, bad)
    PROVE  GroupInv'
<1> DEFINE Keeps(g) == /\ IsInjective(g)
                       /\ \A m \in Range(g) : m <= sends'
                       /\ \A p \in Packets : Waiting(p)' => content'[p] \notin Range(g)
                       /\ \A t \in tasks' : \/ MessagesOf(t.packets)' = g
                                            \/ \A p \in PacketsOf(t) : content'[p] \notin Range(g)
<1>1. ASSUME NEW g \in grouped PROVE Keeps(g)
  BY OldGroupStep
<1>2. ASSUME NEW u, Submits(u), NEW g, g = MessagesOf(u.packets) PROVE Keeps(g)
  BY <1>2, NewGroupStep
<1>3. ASSUME NEW g \in grouped' PROVE Keeps(g)
  <2> HIDE DEF Keeps
  <2> QED
    BY <1>1, <1>2, TaskFlow
<1> QED
  BY <1>3 DEF GroupInv

\* What the consumer gets is what is in redis.
LEMMA ConsumedFacts ==
    ASSUME TypeOK
    PROVE  \A i \in 1 .. Len(redis) : Consumed[i] \in Range(redis)
<1> SUFFICES ASSUME NEW i \in 1 .. Len(redis) PROVE Consumed[i] \in Range(redis)
  OBVIOUS
<1>1. redis \in Seq(Messages) /\ Len(redis) \in Nat
  BY DEF TypeOK
<1>2. CASE keyType = "list"
  <2>1. (Len(redis) - i) + 1 \in 1 .. Len(redis)
    BY <1>1
  <2>2. Consumed[i] = redis[(Len(redis) - i) + 1]
    BY <1>1, <1>2 DEF Consumed, Reverse
  <2> QED
    BY <1>1, <2>1, <2>2, RangeMember
<1>3. CASE keyType # "list"
  BY <1>1, <1>3, RangeMember DEF Consumed
<1> QED
  BY <1>2, <1>3

InOrder(g) ==
    \A i, j \in 1 .. Len(redis) :
        i < j /\ Consumed[i] \in Range(g) /\ Consumed[j] \in Range(g) =>
            \E a, b \in 1 .. Len(g) : a < b /\ g[a] = Consumed[i] /\ g[b] = Consumed[j]

\* Pushing messages of other tasks does not disturb a batch.
LEMMA GrowOthers ==
    ASSUME TypeOK, NEW ms \in Seq(Messages), redis' = Pushed(ms), keyType' = keyType,
           NEW g, InOrder(g), \A m \in Range(ms) : m \notin Range(g)
    PROVE  InOrder(g)'
<1>0. redis \in Seq(Messages) /\ Len(redis) \in Nat /\ Len(ms) \in Nat
  BY DEF TypeOK
<1>1. /\ Len(redis') = Len(redis) + Len(ms)
      /\ \A i \in 1 .. Len(redis) : Consumed'[i] = Consumed[i]
      /\ \A i \in 1 .. Len(ms) : Consumed'[Len(redis) + i] = ms[i]
  BY <1>0, PushedFacts
<1>2. ASSUME NEW i \in 1 .. Len(redis'), Consumed'[i] \in Range(g) PROVE i \in 1 .. Len(redis)
  <2> SUFFICES ASSUME i \notin 1 .. Len(redis) PROVE FALSE
    OBVIOUS
  <2>1. i - Len(redis) \in 1 .. Len(ms) /\ Len(redis) + (i - Len(redis)) = i
    BY <1>0, <1>1
  <2>2. Consumed'[i] = ms[i - Len(redis)]
    BY <1>1, <2>1
  <2>3. ms[i - Len(redis)] \in Range(ms)
    BY <2>1, RangeMember
  <2> QED
    BY <1>2, <2>2, <2>3
<1> SUFFICES ASSUME NEW i \in 1 .. Len(redis'), NEW j \in 1 .. Len(redis'), i < j,
                    Consumed'[i] \in Range(g), Consumed'[j] \in Range(g)
             PROVE  \E a, b \in 1 .. Len(g) : a < b /\ g[a] = Consumed'[i] /\ g[b] = Consumed'[j]
  BY DEF InOrder
<1>3. i \in 1 .. Len(redis) /\ j \in 1 .. Len(redis)
  BY <1>2
<1>4. Consumed'[i] = Consumed[i] /\ Consumed'[j] = Consumed[j]
  BY <1>1, <1>3
<1> QED
  BY <1>3, <1>4 DEF InOrder

\* Nor does the push of the batch itself, when none of it is in redis before.
LEMMA GrowBatch ==
    ASSUME TypeOK, NEW t \in tasks, NEW ms, Grows(t, ms),
           NEW g, g = MessagesOf(t.packets), \A m \in Range(g) : m \notin Range(redis)
    PROVE  InOrder(g)'
<1>0. redis \in Seq(Messages) /\ Len(redis) \in Nat /\ ms \in Seq(Messages) /\ Len(ms) \in Nat
  BY DEF TypeOK, Grows
<1>1. /\ Len(redis') = Len(redis) + Len(ms)
      /\ \A i \in 1 .. Len(redis) : Consumed'[i] = Consumed[i]
      /\ \A i \in 1 .. Len(ms) : Consumed'[Len(redis) + i] = ms[i]
  BY <1>0, PushedFacts DEF Grows
<1>2. ASSUME NEW i \in 1 .. Len(redis'), Consumed'[i] \in Range(g)
      PROVE  i - Len(redis) \in 1 .. Len(ms) /\ Consumed'[i] = ms[i - Len(redis)]
  <2>1. i \notin 1 .. Len(redis)
    BY <1>1, <1>2, ConsumedFacts
  <2>2. i - Len(redis) \in 1 .. Len(ms) /\ Len(redis) + (i - Len(redis)) = i
    BY <1>0, <1>1, <2>1
  <2> QED
    BY <1>1, <2>2
<1>3. t.packets \in Seq(Packets) /\ Len(t.packets) \in Nat
  BY TaskTypes DEF AllTasks
<1>4. Len(g) = Len(t.packets) /\ \A a \in 1 .. Len(t.packets) : g[a] = content[t.packets[a]]
  BY <1>3 DEF MessagesOf
<1> SUFFICES ASSUME NEW i \in 1 .. Len(redis'), NEW j \in 1 .. Len(redis'), i < j,
                    Consumed'[i] \in Range(g), Consumed'[j] \in Range(g)
             PROVE  \E a, b \in 1 .. Len(g) : a < b /\ g[a] = Consumed'[i] /\ g[b] = Consumed'[j]
  BY DEF InOrder
<1>5. /\ i - Len(redis) \in 1 .. Len(ms) /\ Consumed'[i] = ms[i - Len(redis)]
      /\ j - Len(redis) \in 1 .. Len(ms) /\ Consumed'[j] = ms[j - Len(redis)]
  BY <1>2
<1>6. i - Len(redis) < j - Len(redis)
  BY <1>0, <1>1
<1>7. PICK a \in 1 .. Len(t.packets), b \in 1 .. Len(t.packets) :
        a < b /\ ms[i - Len(redis)] = content[t.packets[a]] /\ ms[j - Len(redis)] = content[t.packets[b]]
  BY <1>5, <1>6 DEF Grows
<1> QED
  BY <1>4, <1>5, <1>7

\* The batches keep their order in redis.
LEMMA ConsumedStep ==
    ASSUME TypeOK, ApartInv, TaskInv, ContentInv, PushedInv, GroupInv, ConsumedInOrder, Kinds
    PROVE  ConsumedInOrder'
<1>0. \A g \in grouped : Range(g) \cap retried = {} => InOrder(g)
  BY DEF ConsumedInOrder, InOrder
<1>1. ASSUME redis' = redis, keyType' = keyType, retried' = retried, grouped' = grouped
      PROVE  ConsumedInOrder'
  BY <1>1 DEF ConsumedInOrder, Consumed
<1>2. ASSUME NEW s \in Senders, NEW p \in Packets, SendSet(s, p) PROVE ConsumedInOrder'
  BY <1>1, <1>2 DEF SendSet, history
<1>3. ASSUME NEW s \in Senders, Reject(s) PROVE ConsumedInOrder'
  BY <1>1, <1>3 DEF Reject, history
<1>4. ASSUME NEW s \in Senders, NEW p, Accepts(s, p) PROVE ConsumedInOrder'
  BY <1>1, <1>4 DEF Accepts
<1>5. ASSUME NEW s \in Senders, SendReturn(s) PROVE ConsumedInOrder'
  BY <1>1, <1>5 DEF SendReturn, history
<1>6. ASSUME NEW u, Submits(u) PROVE ConsumedInOrder'
  <2>1. /\ redis' = redis /\ keyType' = keyType /\ retried' = retried
        /\ grouped' = grouped \/ grouped' = grouped \cup {MessagesOf(u.packets)}
    BY <1>6 DEF Submits
  <2>2. \A m \in Range(MessagesOf(u.packets)) : m \notin Range(redis)
    BY <1>6, NewGroupStep DEF PushedInv
  <2>3. InOrder(MessagesOf(u.packets))
    BY <2>2, ConsumedFacts DEF InOrder
  <2>4. \A g \in grouped' : Range(g) \cap retried = {} => InOrder(g)
    BY <1>0, <2>1, <2>3
  <2>5. Consumed' = Consumed
    BY <2>1 DEF Consumed
  <2> QED
    BY <2>1, <2>4, <2>5 DEF ConsumedInOrder, InOrder
<1>7. ASSUME NEW ps, Refuses(ps) PROVE ConsumedInOrder'
  BY <1>1, <1>7 DEF Refuses, history
<1>8. ASSUME NEW t, NEW u, NEW ms, Loses(t, u, ms) PROVE ConsumedInOrder'
  <2>0. CASE retried' = retried /\ redis' = redis
    BY <1>1, <1>8, <2>0 DEF Loses, Grows
  <2> SUFFICES ASSUME retried' = retried \cup {content[p] : p \in PacketsOf(t)}
               PROVE  ConsumedInOrder'
    BY <1>8, <2>0 DEF Loses
  <2>1. /\ t \in tasks /\ Grows(t, ms) /\ grouped' = grouped
        /\ retried' = retried \cup {content[p] : p \in PacketsOf(t)}
    BY <1>8 DEF Loses
  <2>2. ms \in Seq(Messages) /\ redis' = Pushed(ms) /\ keyType' = keyType
    BY <2>1 DEF Grows
  <2>3. ASSUME NEW g \in grouped, Range(g) \cap retried' = {} PROVE InOrder(g)'
    <3>1. Range(g) \cap retried = {} /\ \A p \in PacketsOf(t) : content[p] \notin Range(g)
      BY <2>1, <2>3
    <3>2. \A m \in Range(ms) : m \notin Range(g)
      BY <2>1, <3>1, GrowsFacts
    <3> QED
      BY <1>0, <2>2, <3>1, <3>2, GrowOthers
  <2> QED
    BY <2>1, <2>3 DEF ConsumedInOrder, InOrder
<1>9. ASSUME NEW t, NEW u, NEW ms, NEW good, NEW bad, Executes(t, u, ms, good, bad) PROVE ConsumedInOrder'
  <2>1. t \in tasks /\ Grows(t, ms) /\ grouped' = grouped /\ retried' = retried
    BY <1>9 DEF Executes
  <2>2. ms \in Seq(Messages) /\ redis' = Pushed(ms) /\ keyType' = keyType
    BY <2>1 DEF Grows
  <2>3. ASSUME NEW g \in grouped, Range(g) \cap retried = {} PROVE InOrder(g)'
    <3>1. CASE \A p \in PacketsOf(t) : content[p] \notin Range(g)
      <4>1. \A m \in Range(ms) : m \notin Range(g)
        BY <2>1, <3>1, GrowsFacts
      <4> QED
        BY <1>0, <2>2, <2>3, <4>1, GrowOthers
    <3>2. CASE MessagesOf(t.packets) = g
      <4>1. t.packets \in Seq(Packets)
        BY <2>1, TaskTypes DEF AllTasks
      <4>2. \A p \in PacketsOf(t) : p \in Packets /\ p \notin pool /\ Pushing(p)
        BY <2>1, LiveFacts
      <4>3. Range(g) = {content[p] : p \in PacketsOf(t)}
        BY <3>2, <4>1, <4>2, TaskMessages DEF PacketsOf
      <4>4. \A m \in Range(g) : m \notin Range(redis)
        BY <2>3, <4>2, <4>3 DEF PushedInv
      <4> QED
        BY <2>1, <3>2, <4>4, GrowBatch
    <3> QED
      BY <2>1, <3>1, <3>2 DEF GroupInv
  <2> QED
    BY <2>1, <2>3 DEF ConsumedInOrder, InOrder
<1>10. ASSUME NEW t \in returning, TaskReturn(t) PROVE ConsumedInOrder'
  BY <1>1, <1>10 DEF TaskReturn, history
<1>11. ASSUME Quiet PROVE ConsumedInOrder'
  BY <1>1, <1>11 DEF Quiet, history
<1> QED
  BY <1>2, <1>3, <1>4, <1>5, <1>6, <1>7, <1>8, <1>9, <1>10, <1>11 DEF Kinds

-----------------------------------------------------------------------------
(***************************************************************************)
(* The theorems.                                                           *)
(***************************************************************************)
LEMMA RedisInit ==
    ASSUME Init
    PROVE  RedisInv
<1>0. Range(<< >>) = {}
  BY DEF Range
<1>1. TypeOK
  <2>1. /\ sendCh = << >> /\ batch = << >> /\ redis = << >>
        /\ sendCh \in Seq(Packets) /\ batch \in Seq(Packets) /\ redis \in Seq(Messages)
        /\ Len(sendCh) = 0 /\ Len(batch) = 0
    BY DEF Init
  <2>2. Cap \in Nat /\ DequeueSize \in Nat /\ 1 \in 1 .. DequeueSize + 1 /\ 0 \in 0 .. MaxSends
    BY Constants
  <2>3. /\ Len(sendCh) <= Cap /\ Len(batch) <= DequeueSize
        /\ next \in 1 .. DequeueSize + 1 /\ sends \in 0 .. MaxSends
    BY <2>1, <2>2 DEF Init
  <2>4. chClosed \in BOOLEAN /\ closeLock \in BOOLEAN /\ quit \in BOOLEAN
    BY DEF Init
  <2> QED
    BY <2>1, <2>3, <2>4 DEF Init, TypeOK
<1>2. InQueue = {} /\ InLoop = {} /\ AllTasks = {} /\ tasks = {} /\ \A s \in Senders : held[s] = {}
  BY <1>0 DEF Init, InQueue, InLoop, AllTasks
<1>3. ApartInv
  BY <1>2 DEF ApartInv
<1>4. LoopInv
  BY DEF Init, LoopInv, IsInjective
<1>5. TaskInv
  BY <1>2 DEF TaskInv, Init
<1>6. ContentInv
  BY DEF Init, ContentInv
<1>7. \A p \in Packets : ~ Waiting(p) /\ ~ Pushing(p)
  BY <1>2 DEF Waiting, Pushing
<1>8. CountInv
  BY <1>7, Constants DEF Init, CountInv, Counted
<1>9. AcceptedInv /\ GroupInv /\ ConsumedInOrder /\ CleanInv
  BY DEF Init, AcceptedInv, GroupInv, ConsumedInOrder, CleanInv
<1>10. PushedInv
  BY <1>0, <1>7 DEF Init, PushedInv
<1> QED
  BY <1>1, <1>3, <1>4, <1>5, <1>6, <1>8, <1>9, <1>10 DEF RedisInv

LEMMA RedisStep ==
    ASSUME RedisInv, [Next]_vars
    PROVE  RedisInv'
<1>0. /\ TypeOK /\ ApartInv /\ LoopInv /\ TaskInv /\ CleanInv /\ ContentInv /\ CountInv
      /\ AcceptedInv /\ PushedInv /\ GroupInv /\ ConsumedInOrder
  BY DEF RedisInv
<1>1. TypeOK' /\ LoopInv' /\ Kinds
  BY <1>0, TypeStep, LoopStep, StepKinds
<1>2. ApartInv' /\ TaskInv' /\ ContentInv' /\ ConsumedInOrder'
  BY <1>0, <1>1, ApartStep, TaskStep, ContentStep, ConsumedStep
<1>3. PICK good, bad : Flow(good, bad)
  BY <1>0, <1>1, FlowStep
<1>4. CountInv' /\ CleanInv'
  BY <1>0, <1>1, <1>2, <1>3, CountStep, CleanStep
<1>5. AcceptedInv' /\ PushedInv' /\ GroupInv'
  BY <1>0, <1>1, <1>3, <1>4, AcceptedStep, PushedStep, GroupStep
<1> QED
  BY <1>1, <1>2, <1>4, <1>5 DEF RedisInv

\* The invariant of the redis queue: whatever Send, Close, loopSend, the tasks of the worker
\* pool and the retries of the library do, the places of a packet are apart, a packet out of
\* the pool has a message of its own, and a message is counted when its packet is through.
THEOREM RedisInvariant == Spec => []RedisInv
<1>1. Init => RedisInv
  BY RedisInit
<1>2. RedisInv /\ [Next]_vars => RedisInv'
  BY RedisStep
<1> QED
  BY <1>1, <1>2, PTL DEF Spec

\* The variables of Send, loopSend and the tasks keep their types; loopSend is never beyond
\* the end of its batch, and sendCh never over its capacity.
THEOREM TypeCorrect == Spec => []TypeOK
<1>1. RedisInv => TypeOK
  BY DEF RedisInv
<1> QED
  BY <1>1, RedisInvariant, PTL

\* No packet is with two of PacketObjPool, the calls of Send, sendCh, loopSend and the tasks:
\* none is put back twice or used after it was put back.
THEOREM OneOwnerTheorem == Spec => []OneOwner
<1>1. ASSUME RedisInv PROVE OneOwner
  <2>0. ApartInv /\ LoopInv
    BY <1>1 DEF RedisInv
  <2>1. /\ pool \cap (InQueue \cup InLoop) = {}
        /\ InQueue \cap InLoop = {}
    BY <2>0 DEF ApartInv
  <2>2. IsInjective(sendCh)
    BY <2>0 DEF LoopInv
  <2>3. ASSUME NEW s \in Senders
        PROVE  /\ held[s] \cap (pool \cup InQueue \cup InLoop) = {}
               /\ \A r \in Senders \ {s} : held[s] \cap held[r] = {}
    BY <2>0 DEF ApartInv
  <2>4. ASSUME NEW t \in tasks \cup returning
        PROVE  /\ Range(t.packets) \cap (pool \cup InQueue \cup InLoop) = {}
               /\ \A s \in Senders : held[s] \cap Range(t.packets) = {}
               /\ \A u \in (tasks \cup returning) \ {t} : Range(t.packets) \cap Range(u.packets) = {}
    BY <2>0 DEF ApartInv, AllTasks, PacketsOf
  <2> QED
    BY <2>1, <2>2, <2>3, <2>4 DEF OneOwner
<1> QED
  BY <1>1, RedisInvariant, PTL

\* A message is counted at most once, as succeeded only when it is in redis, or in a pipeline
\* that ended without a reply to any attempt, and with its own size, however the library loses
\* attempts and leaves errors of earlier ones in place; and every message that sendCh took
\* while loopSend ran is counted when loopSend and its tasks are through.
THEOREM CountedOnceTheorem == Spec => []CountedOnce
<1>1. ASSUME RedisInv PROVE CountedOnce
  <2>0. TypeOK /\ ApartInv /\ CountInv /\ AcceptedInv
    BY <1>1 DEF RedisInv
  <2>1. ASSUME NEW m \in Messages
        PROVE  /\ succeedCount[m] + failedCount[m] <= 1
               /\ succeedCount[m] = 1 => m \in Range(redis) \cup unanswered
               /\ succeedByte[m] = IF succeedCount[m] = 1 THEN Size[m] ELSE 0
    BY <2>0 DEF CountInv, Counted
  <2>2. ASSUME loop = "gone", tasks = {}, NEW m \in accepted
        PROVE  succeedCount[m] + failedCount[m] >= 1
    <3>1. succeedCount[m] + failedCount[m] = 1
      BY <2>0, <2>2 DEF AcceptedInv, Pushing, Counted
    <3> QED
      BY <3>1
  <2> QED
    BY <2>1, <2>2 DEF CountedOnce
<1> QED
  BY <1>1, RedisInvariant, PTL

\* The messages of a batch that was pushed in one pipeline, by LPush or XAdd, reach the
\* consumer in the order in which they were sent and each at most once, unless an attempt that
\* stored some of them was lost and the library sent the pipeline again.
THEOREM ConsumedInOrderTheorem == Spec => []ConsumedInOrder
<1>1. RedisInv => ConsumedInOrder
  BY DEF RedisInv
<1> QED
  BY <1>1, RedisInvariant, PTL

=============================================================================
