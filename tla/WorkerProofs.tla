---------------------------- MODULE WorkerProofs ----------------------------
(***************************************************************************)
(* Proofs about Worker, for every set of connections, senders, events and  *)
(* packets and every capacity and batch size: a packet has one owner, the  *)
(* answer to Register comes before any event, and a connection that is     *)
(* gone is not listed.                                                     *)
(***************************************************************************)
EXTENDS Worker, TLAPS, FiniteSetTheorems

\* Who may be asked for: a connection that is listed, or that a sender has got, was
\* registered.
KnownInv ==
    /\ \A w \in Workers :
        /\ recv[w] = "list" => events[w] # {}
        /\ \A e \in Events : w \in collect[e] => events[w] # {}
    /\ \A s \in Senders : spc[s] # "idle" => to[s] \in Workers /\ events[to[s]] # {}

\* Close and the list: what Close still has to delete, who runs it, and who has ended.
CloseInv ==
    \A w \in Workers :
        /\ toDel[w] # {} => closer[w] # "nobody"
        /\ closer[w] # "nobody" => closeLock[w]
        /\ recv[w] \in {"close", "hangup", "gone"} => closeLock[w]
        /\ closeLock[w] /\ ~late[w] => \A e \in Events : w \in collect[e] => e \in toDel[w]

\* loopSend has a batch only while it writes it.
LoopInv ==
    \A w \in Workers :
        /\ next[w] # 0
        /\ loop[w] \in {"dequeue", "done"} => batch[w] = << >>

\* A sender has one packet between SendSet and SendEnqueue, and none otherwise.
HeldInv ==
    \A s \in Senders :
        IF spc[s] = "held" THEN \E k \in Packets : held[s] = {k} ELSE held[s] = {}

\* The owners of the packets, place by place.
PacketInv ==
    /\ \A w \in Workers : \A i \in 1 .. Len(sendCh[w]) :
        /\ sendCh[w][i] \notin pool
        /\ \A s \in Senders : sendCh[w][i] \notin held[s]
        /\ \A v \in Workers : \A j \in 1 .. Len(sendCh[v]) :
              sendCh[w][i] = sendCh[v][j] => w = v /\ i = j
        /\ \A v \in Workers : \A j \in 1 .. Len(batch[v]) : sendCh[w][i] # batch[v][j]
    /\ \A w \in Workers : \A i \in 1 .. Len(batch[w]) :
        /\ batch[w][i] \notin pool
        /\ \A s \in Senders : batch[w][i] \notin held[s]
        /\ \A v \in Workers : \A j \in 1 .. Len(batch[v]) :
              batch[w][i] = batch[v][j] => w = v /\ i = j
    /\ \A s \in Senders : \A k \in held[s] :
        /\ k \notin pool
        /\ \A r \in Senders : k \in held[r] => r = s

\* "registered" is on the wire, in what is left of the batch, or in sendCh.
OnWire(w) == \E j \in 1 .. Len(wire[w]) : wire[w][j] = "registered"
InRest(w) == \E j \in next[w] .. Len(batch[w]) : content[batch[w][j]] = "registered"
InSendCh(w) == \E j \in 1 .. Len(sendCh[w]) : content[sendCh[w][j]] = "registered"

\* An event has "registered" before it, wherever it is.
Ordered(w) ==
    /\ events[w] # {} => OnWire(w) \/ InRest(w) \/ InSendCh(w)
    /\ \A i \in 1 .. Len(wire[w]) : wire[w][i] = "event" =>
          \E j \in 1 .. i - 1 : wire[w][j] = "registered"
    /\ \A i \in next[w] .. Len(batch[w]) : content[batch[w][i]] = "event" =>
          \/ OnWire(w)
          \/ \E j \in next[w] .. i - 1 : content[batch[w][j]] = "registered"
    /\ \A i \in 1 .. Len(sendCh[w]) : content[sendCh[w][i]] = "event" =>
          \/ OnWire(w) \/ InRest(w)
          \/ \E j \in 1 .. i - 1 : content[sendCh[w][j]] = "registered"

\* As long as nothing was lost.
OrderInv == \A w \in Workers : ~lost[w] => Ordered(w)

WorkerInv ==
    /\ TypeOK
    /\ KnownInv
    /\ CloseInv
    /\ LoopInv
    /\ HeldInv
    /\ PacketInv
    /\ OrderInv

-----------------------------------------------------------------------------
(***************************************************************************)
(* Sequences and sets.                                                     *)
(***************************************************************************)
\* A sequence without repetition has as many elements as places.
LEMMA DistinctCardinality ==
    ASSUME NEW q \in Seq(Packets),
           \A i, j \in 1 .. Len(q) : q[i] = q[j] => i = j
    PROVE  Cardinality({q[i] : i \in 1 .. Len(q)}) = Len(q)
<1> DEFINE D == 1 .. Len(q)
           R == {q[i] : i \in 1 .. Len(q)}
           f == [i \in D |-> q[i]]
<1>1. f \in [D -> R]
  OBVIOUS
<1>2. f \in Injection(D, R)
  BY <1>1 DEF Injection, IsInjective
<1>3. f \in Surjection(D, R)
  BY <1>1 DEF Surjection
<1>4. ExistsBijection(D, R)
  BY <1>2, <1>3 DEF ExistsBijection, Bijection
<1>5. Len(q) \in Nat
  OBVIOUS
<1>6. /\ IsFiniteSet(D)
      /\ Cardinality(D) = IF 1 > Len(q) THEN 0 ELSE Len(q) - 1 + 1
  BY <1>5, FS_Interval
<1>7. Cardinality(D) = Len(q)
  BY <1>5, <1>6
<1> HIDE DEF D, R
<1>8. Cardinality(R) = Cardinality(D)
  BY <1>4, <1>6, FS_Bijection
<1> USE DEF R
<1> QED
  BY <1>7, <1>8

\* What is in a sequence after Append.
LEMMA AppendFacts ==
    ASSUME NEW S, NEW q \in Seq(S), NEW x \in S
    PROVE  /\ Append(q, x) \in Seq(S)
           /\ Len(Append(q, x)) = Len(q) + 1
           /\ Append(q, x)[Len(q) + 1] = x
           /\ \A i \in 1 .. Len(q) : Append(q, x)[i] = q[i]
           /\ \A i \in 1 .. Len(q) + 1 : i \in 1 .. Len(q) \/ i = Len(q) + 1
OBVIOUS

\* The two parts Dequeue cuts sendCh into.
LEMMA CutFacts ==
    ASSUME NEW S, NEW q \in Seq(S), NEW n \in 0 .. Len(q)
    PROVE  /\ SubSeq(q, 1, n) \in Seq(S)
           /\ Len(SubSeq(q, 1, n)) = n
           /\ \A i \in 1 .. n : SubSeq(q, 1, n)[i] = q[i]
           /\ SubSeq(q, n + 1, Len(q)) \in Seq(S)
           /\ Len(SubSeq(q, n + 1, Len(q))) = Len(q) - n
           /\ \A i \in 1 .. Len(q) - n : SubSeq(q, n + 1, Len(q))[i] = q[n + i]
<1>1. Len(q) \in Nat /\ n \in Nat /\ n <= Len(q)
  OBVIOUS
<1>2. \A i \in 1 .. Len(q) : q[i] \in S
  OBVIOUS
<1>3. /\ SubSeq(q, 1, n) \in Seq(S)
      /\ Len(SubSeq(q, 1, n)) = n
      /\ \A i \in 1 .. n : SubSeq(q, 1, n)[i] = q[i]
  BY <1>1, <1>2
<1>4. /\ SubSeq(q, n + 1, Len(q)) \in Seq(S)
      /\ Len(SubSeq(q, n + 1, Len(q))) = Len(q) - n
  BY <1>1, <1>2
<1>5. ASSUME NEW i \in 1 .. Len(q) - n
      PROVE  SubSeq(q, n + 1, Len(q))[i] = q[n + i]
  BY <1>1
<1> QED
  BY <1>3, <1>4, <1>5

\* What Answer does: the answer is lost, or a packet of the pool goes to the end of sendCh.
LEMMA AnswerCases ==
    ASSUME TypeOK, NEW w \in Workers, NEW a, Answer(w, a)
    PROVE  \/ /\ lost' = [lost EXCEPT ![w] = TRUE]
              /\ UNCHANGED <<sendCh, pool, content>>
           \/ \E k \in pool :
                /\ Len(sendCh[w]) < Cap
                /\ content' = [content EXCEPT ![k] = a]
                /\ pool' = pool \ {k}
                /\ sendCh' = [sendCh EXCEPT ![w] = Append(@, k)]
                /\ UNCHANGED lost
<1>1. Len(sendCh[w]) \in Nat /\ Cap \in Nat
  BY WorkerAssumption DEF TypeOK
<1> QED
  BY <1>1 DEF Answer

\* What Answer does to the types.
LEMMA AnswerTypes ==
    ASSUME TypeOK, NEW w \in Workers, NEW a \in Contents, Answer(w, a)
    PROVE  /\ sendCh' \in [Workers -> Seq(Packets)] /\ \A u \in Workers : Len(sendCh'[u]) <= Cap
           /\ pool' \in SUBSET Packets /\ content' \in [Packets -> Contents]
           /\ lost' \in [Workers -> BOOLEAN]
<1>1. CASE lost' = [lost EXCEPT ![w] = TRUE] /\ UNCHANGED <<sendCh, pool, content>>
  BY <1>1 DEF TypeOK
<1>2. ASSUME NEW k \in pool,
             Len(sendCh[w]) < Cap,
             content' = [content EXCEPT ![k] = a],
             pool' = pool \ {k},
             sendCh' = [sendCh EXCEPT ![w] = Append(@, k)],
             UNCHANGED lost
      PROVE  /\ sendCh' \in [Workers -> Seq(Packets)]
             /\ \A u \in Workers : Len(sendCh'[u]) <= Cap
             /\ pool' \in SUBSET Packets /\ content' \in [Packets -> Contents]
             /\ lost' \in [Workers -> BOOLEAN]
  <2>0. k \in Packets /\ sendCh[w] \in Seq(Packets) /\ Cap \in Nat /\ Len(sendCh[w]) \in Nat
    BY WorkerAssumption DEF TypeOK
  <2>1. /\ Append(sendCh[w], k) \in Seq(Packets)
        /\ Len(Append(sendCh[w], k)) = Len(sendCh[w]) + 1
    BY <2>0, AppendFacts
  <2>2. Len(Append(sendCh[w], k)) <= Cap
    BY <1>2, <2>0, <2>1
  <2>3. sendCh' \in [Workers -> Seq(Packets)] /\ \A u \in Workers : Len(sendCh'[u]) <= Cap
    BY <1>2, <2>1, <2>2 DEF TypeOK
  <2>4. pool' \in SUBSET Packets /\ content' \in [Packets -> Contents]
    BY <1>2 DEF TypeOK
  <2>5. lost' \in [Workers -> BOOLEAN]
    BY <1>2 DEF TypeOK
  <2> QED
    BY <2>3, <2>4, <2>5
<1> QED
  BY <1>1, <1>2, AnswerCases

\* The packets of the batch that the next write stands for.
LEMMA LastFacts ==
    ASSUME TypeOK, LoopInv, NEW w \in Workers, next[w] <= Len(batch[w])
    PROVE  /\ Last(w) \in Nat /\ next[w] \in Nat /\ 1 <= next[w]
           /\ next[w] <= Last(w) /\ Last(w) <= Len(batch[w])
BY DEF TypeOK, LoopInv, Last

LEMMA SaidFacts ==
    ASSUME TypeOK, LoopInv, NEW w \in Workers, NEW j \in Nat,
           next[w] - 1 <= j, j <= Len(batch[w])
    PROVE  /\ Said(w, next[w], j) \in Seq(Contents)
           /\ Len(Said(w, next[w], j)) = j - next[w] + 1
           /\ \A n \in 1 .. j - next[w] + 1 :
                Said(w, next[w], j)[n] = content[batch[w][next[w] + n - 1]]
<1>1. /\ next[w] \in Nat /\ 1 <= next[w] /\ batch[w] \in Seq(Packets)
      /\ content \in [Packets -> Contents]
  BY DEF TypeOK, LoopInv
<1>2. j - next[w] + 1 \in Nat
  BY <1>1
<1>3. \A n \in 1 .. j - next[w] + 1 : next[w] + n - 1 \in 1 .. Len(batch[w])
  BY <1>1
<1>4. \A n \in 1 .. j - next[w] + 1 : content[batch[w][next[w] + n - 1]] \in Contents
  BY <1>1, <1>3
<1> DEFINE m == j - next[w] + 1
           F(n) == content[batch[w][next[w] + n - 1]]
<1>5. Said(w, next[w], j) = [n \in 1 .. m |-> F(n)]
  BY DEF Said
<1>6. m \in Nat /\ \A n \in 1 .. m : F(n) \in Contents
  BY <1>2, <1>4
<1> HIDE DEF m, F
<1>7. [n \in 1 .. m |-> F(n)] \in Seq(Contents) /\ Len([n \in 1 .. m |-> F(n)]) = m
  BY <1>6
<1>8. \A n \in 1 .. m : [i \in 1 .. m |-> F(i)][n] = F(n)
  OBVIOUS
<1> QED
  BY <1>5, <1>7, <1>8 DEF m, F

-----------------------------------------------------------------------------
(***************************************************************************)
(* Types.                                                                  *)
(***************************************************************************)
LEMMA InitInv ==
    ASSUME Init
    PROVE  WorkerInv
<1>0. Cap \in Nat /\ MaxRequests \in Nat /\ MaxForwards \in Nat
  BY WorkerAssumption
<1>1. TypeOK
  <2>1. /\ recv \in [Workers -> {"none", "read", "list", "unlist", "close", "hangup", "gone"}]
        /\ closer \in [Workers -> {"nobody", "recv", "send"}]
        /\ loop \in [Workers -> {"dequeue", "write", "close", "done"}]
        /\ spc \in [Senders -> {"idle", "got", "held"}]
        /\ content \in [Packets -> Contents]
    BY DEF Init, Contents
  <2>2. /\ events \in [Workers -> SUBSET Events]
        /\ listing \in [Workers -> SUBSET Events]
        /\ target \in [Workers -> Workers \cup {NoWorker}]
        /\ collect \in [Events -> SUBSET Workers]
        /\ toDel \in [Workers -> SUBSET Events]
        /\ pool \in SUBSET Packets
        /\ to \in [Senders -> Workers \cup {NoWorker}]
        /\ held \in [Senders -> SUBSET Packets]
    BY DEF Init
  <2>3. /\ closeLock \in [Workers -> BOOLEAN] /\ tcp \in [Workers -> BOOLEAN]
        /\ timer \in [Workers -> BOOLEAN] /\ chClosed \in [Workers -> BOOLEAN]
        /\ bulk \in [Workers -> BOOLEAN] /\ late \in [Workers -> BOOLEAN]
        /\ lost \in [Workers -> BOOLEAN]
    BY DEF Init
  <2>4. /\ requests \in [Workers -> 0 .. MaxRequests] /\ forwards \in [Senders -> 0 .. MaxForwards]
        /\ next \in [Workers -> Nat]
    BY <1>0 DEF Init
  <2>5. /\ sendCh \in [Workers -> Seq(Packets)] /\ \A w \in Workers : Len(sendCh[w]) <= Cap
        /\ batch \in [Workers -> Seq(Packets)] /\ wire \in [Workers -> Seq(Contents \cup {"part"})]
    BY <1>0 DEF Init
  <2> QED
    BY <2>1, <2>2, <2>3, <2>4, <2>5 DEF TypeOK
<1>2. KnownInv /\ LoopInv /\ HeldInv
  BY DEF Init, KnownInv, LoopInv, HeldInv
<1>3. CloseInv
  BY DEF Init, CloseInv
<1>4. \A w \in Workers :
        /\ sendCh[w] = << >> /\ batch[w] = << >> /\ wire[w] = << >>
        /\ events[w] = {} /\ next[w] = 1
  BY DEF Init
<1>5. PacketInv
  <2>1. \A s \in Senders : held[s] = {}
    BY DEF Init
  <2> QED
    BY <1>4, <2>1 DEF PacketInv
<1>6. OrderInv
  BY <1>4 DEF OrderInv, Ordered
<1> QED
  BY <1>1, <1>2, <1>3, <1>5, <1>6 DEF WorkerInv

LEMMA TypeStep ==
    ASSUME WorkerInv, [Next]_vars
    PROVE  TypeOK'
<1>0. /\ TypeOK /\ LoopInv /\ HeldInv /\ KnownInv
      /\ Cap \in Nat /\ DequeueSize \in Nat /\ MaxRequests \in Nat /\ MaxForwards \in Nat
  BY WorkerAssumption DEF WorkerInv
<1>1. ASSUME NEW w \in Workers, Accept(w)
      PROVE  TypeOK'
  <2>1. tcp' \in [Workers -> BOOLEAN]
    BY <1>0, <1>1 DEF TypeOK, Accept
  <2>2. recv' \in [Workers -> {"none", "read", "list", "unlist", "close", "hangup", "gone"}]
    BY <1>0, <1>1 DEF TypeOK, Accept
  <2> QED
    BY <1>0, <1>1, <2>1, <2>2 DEF TypeOK, Accept, closing, loopSend, sender, history
<1>2. ASSUME NEW w \in Workers, NEW es \in (SUBSET Events) \ {{}}, Register(w, es)
      PROVE  TypeOK'
  <2>1. /\ sendCh' \in [Workers -> Seq(Packets)] /\ \A u \in Workers : Len(sendCh'[u]) <= Cap
        /\ pool' \in SUBSET Packets /\ content' \in [Packets -> Contents]
        /\ lost' \in [Workers -> BOOLEAN]
    BY <1>0, <1>2, AnswerTypes DEF Register, Contents, Answers
  <2>2. /\ recv' \in [Workers -> {"none", "read", "list", "unlist", "close", "hangup", "gone"}]
        /\ events' \in [Workers -> SUBSET Events]
        /\ requests' \in [Workers -> 0 .. MaxRequests]
        /\ listing' \in [Workers -> SUBSET Events]
    BY <1>0, <1>2 DEF TypeOK, Register, Request
  <2> QED
    BY <1>0, <1>2, <2>1, <2>2 DEF TypeOK, Register, Request, closing, loopSend, sender
<1>3. ASSUME NEW w \in Workers, RegisterRefused(w)
      PROVE  TypeOK'
  <2>1. /\ sendCh' \in [Workers -> Seq(Packets)] /\ \A u \in Workers : Len(sendCh'[u]) <= Cap
        /\ pool' \in SUBSET Packets /\ content' \in [Packets -> Contents]
        /\ lost' \in [Workers -> BOOLEAN]
    BY <1>0, <1>3, AnswerTypes DEF RegisterRefused, Contents, Answers
  <2>2. requests' \in [Workers -> 0 .. MaxRequests]
    BY <1>0, <1>3 DEF TypeOK, RegisterRefused, Request
  <2> QED
    BY <1>0, <1>3, <2>1, <2>2 DEF TypeOK, RegisterRefused, Request, closing, loopSend, sender
<1>4. ASSUME NEW w \in Workers, NEW e \in Events, Set(w, e)
      PROVE  TypeOK'
  <2>1. late' \in [Workers -> BOOLEAN]
    BY <1>0, <1>4 DEF TypeOK, Set
  <2>2. /\ collect' \in [Events -> SUBSET Workers]
        /\ listing' \in [Workers -> SUBSET Events]
    BY <1>0, <1>4 DEF TypeOK, Set
  <2> QED
    BY <1>0, <1>4, <2>1, <2>2 DEF TypeOK, Set, closing, loopSend, sender
<1>5. ASSUME NEW w \in Workers, SetEnd(w)
      PROVE  TypeOK'
  <2>1. recv' \in [Workers -> {"none", "read", "list", "unlist", "close", "hangup", "gone"}]
    BY <1>0, <1>5 DEF TypeOK, SetEnd
  <2> QED
    BY <1>0, <1>5, <2>1 DEF TypeOK, SetEnd, closing, loopSend, sender, history
<1>6. ASSUME NEW w \in Workers, NEW v \in Workers, Unregister(w, v)
      PROVE  TypeOK'
  <2>1. /\ recv' \in [Workers -> {"none", "read", "list", "unlist", "close", "hangup", "gone"}]
        /\ requests' \in [Workers -> 0 .. MaxRequests]
        /\ listing' \in [Workers -> SUBSET Events]
        /\ target' \in [Workers -> Workers \cup {NoWorker}]
    BY <1>0, <1>6 DEF TypeOK, Unregister, Request
  <2> QED
    BY <1>0, <1>6, <2>1 DEF TypeOK, Unregister, Request, closing, loopSend, sender, history
<1>7. ASSUME NEW w \in Workers, NEW e \in Events, Unset(w, e)
      PROVE  TypeOK'
  <2>1. /\ collect' \in [Events -> SUBSET Workers]
        /\ listing' \in [Workers -> SUBSET Events]
    BY <1>0, <1>7 DEF TypeOK, Unset
  <2> QED
    BY <1>0, <1>7, <2>1 DEF TypeOK, Unset, closing, loopSend, sender, history
<1>8. ASSUME NEW w \in Workers, UnsetEnd(w)
      PROVE  TypeOK'
  <2>1. /\ sendCh' \in [Workers -> Seq(Packets)] /\ \A u \in Workers : Len(sendCh'[u]) <= Cap
        /\ pool' \in SUBSET Packets /\ content' \in [Packets -> Contents]
        /\ lost' \in [Workers -> BOOLEAN]
    BY <1>0, <1>8, AnswerTypes DEF UnsetEnd, Contents, Answers
  <2>2. /\ recv' \in [Workers -> {"none", "read", "list", "unlist", "close", "hangup", "gone"}]
        /\ target' \in [Workers -> Workers \cup {NoWorker}]
    BY <1>0, <1>8 DEF TypeOK, UnsetEnd
  <2> QED
    BY <1>0, <1>8, <2>1, <2>2 DEF TypeOK, UnsetEnd, closing, loopSend, sender
<1>9. ASSUME NEW w \in Workers, RecvEnd(w)
      PROVE  TypeOK'
  <2>1. closeLock' \in [Workers -> BOOLEAN]
    BY <1>0, <1>9 DEF TypeOK, RecvEnd
  <2>2. /\ recv' \in [Workers -> {"none", "read", "list", "unlist", "close", "hangup", "gone"}]
        /\ closer' \in [Workers -> {"nobody", "recv", "send"}]
        /\ toDel' \in [Workers -> SUBSET Events]
    <3>1. CASE closeLock[w]
      BY <1>0, <1>9, <3>1 DEF TypeOK, RecvEnd
    <3>2. CASE ~closeLock[w]
      <4>1. /\ recv' = [recv EXCEPT ![w] = "close"]
            /\ closer' = [closer EXCEPT ![w] = "recv"]
            /\ toDel' = [toDel EXCEPT ![w] = Events]
        BY <1>9, <3>2 DEF RecvEnd
      <4> QED
        BY <1>0, <4>1 DEF TypeOK
    <3> QED
      BY <3>1, <3>2
  <2> QED
    BY <1>0, <1>9, <2>1, <2>2 DEF TypeOK, RecvEnd, loopSend, sender, history
<1>10. ASSUME NEW w \in Workers, Hangup(w)
      PROVE  TypeOK'
  <2>1. tcp' \in [Workers -> BOOLEAN]
    BY <1>0, <1>10 DEF TypeOK, Hangup
  <2>2. recv' \in [Workers -> {"none", "read", "list", "unlist", "close", "hangup", "gone"}]
    BY <1>0, <1>10 DEF TypeOK, Hangup
  <2> QED
    BY <1>0, <1>10, <2>1, <2>2 DEF TypeOK, Hangup, closing, loopSend, sender, history
<1>11. ASSUME NEW w \in Workers, NEW e \in Events, CloseDel(w, e)
      PROVE  TypeOK'
  <2>1. /\ collect' \in [Events -> SUBSET Workers]
        /\ toDel' \in [Workers -> SUBSET Events]
    BY <1>0, <1>11 DEF TypeOK, CloseDel
  <2> QED
    BY <1>0, <1>11, <2>1 DEF TypeOK, CloseDel, process, loopSend, sender, history
<1>12. ASSUME NEW w \in Workers, CloseConn(w)
      PROVE  TypeOK'
  <2>1. /\ tcp' \in [Workers -> BOOLEAN]
        /\ timer' \in [Workers -> BOOLEAN]
    BY <1>0, <1>12 DEF TypeOK, CloseConn
  <2>2. /\ recv' \in [Workers -> {"none", "read", "list", "unlist", "close", "hangup", "gone"}]
        /\ loop' \in [Workers -> {"dequeue", "write", "close", "done"}]
        /\ closer' \in [Workers -> {"nobody", "recv", "send"}]
    BY <1>0, <1>12 DEF TypeOK, CloseConn
  <2> QED
    BY <1>0, <1>12, <2>1, <2>2 DEF TypeOK, CloseConn, sender, history
<1>13. ASSUME NEW w \in Workers, CloseSendCh(w)
      PROVE  TypeOK'
  <2>1. /\ timer' \in [Workers -> BOOLEAN]
        /\ chClosed' \in [Workers -> BOOLEAN]
    BY <1>0, <1>13 DEF TypeOK, CloseSendCh
  <2> QED
    BY <1>0, <1>13, <2>1 DEF TypeOK, CloseSendCh, process, loopSend, sender, history
<1>14. ASSUME NEW w \in Workers, NEW n \in 1 .. DequeueSize, NEW b \in BOOLEAN, Dequeue(w, n, b)
      PROVE  TypeOK'
  <2>0. /\ SubSeq(sendCh[w], 1, n) \in Seq(Packets)
        /\ SubSeq(sendCh[w], n + 1, Len(sendCh[w])) \in Seq(Packets)
        /\ Len(SubSeq(sendCh[w], n + 1, Len(sendCh[w]))) <= Cap
    <3>1. sendCh[w] \in Seq(Packets) /\ Len(sendCh[w]) <= Cap /\ n \in 0 .. Len(sendCh[w])
      BY <1>0, <1>14 DEF TypeOK, Dequeue
    <3>2. Len(SubSeq(sendCh[w], n + 1, Len(sendCh[w]))) = Len(sendCh[w]) - n
      BY <3>1, CutFacts
    <3> QED
      BY <1>0, <3>1, <3>2, CutFacts
  <2>1. batch' \in [Workers -> Seq(Packets)]
    BY <1>0, <1>14, <2>0 DEF TypeOK, Dequeue
  <2>2. sendCh' \in [Workers -> Seq(Packets)] /\ \A u \in Workers : Len(sendCh'[u]) <= Cap
    BY <1>0, <1>14, <2>0 DEF TypeOK, Dequeue
  <2>3. bulk' \in [Workers -> BOOLEAN]
    BY <1>0, <1>14 DEF TypeOK, Dequeue
  <2>4. /\ next' \in [Workers -> Nat]
        /\ loop' \in [Workers -> {"dequeue", "write", "close", "done"}]
    BY <1>0, <1>14 DEF TypeOK, Dequeue
  <2> QED
    BY <1>0, <1>14, <2>1, <2>2, <2>3, <2>4 DEF TypeOK, Dequeue, process, closing, sender, history
<1>15. ASSUME NEW w \in Workers, DequeueEnd(w)
      PROVE  TypeOK'
  <2>1. loop' \in [Workers -> {"dequeue", "write", "close", "done"}]
    BY <1>0, <1>15 DEF TypeOK, DequeueEnd
  <2> QED
    BY <1>0, <1>15, <2>1 DEF TypeOK, DequeueEnd, process, closing, sender, history
<1>16. ASSUME NEW w \in Workers, Write(w)
      PROVE  TypeOK'
  <2>1. wire' \in [Workers -> Seq(Contents \cup {"part"})]
    <3>1. Said(w, next[w], Last(w)) \in Seq(Contents)
      BY <1>0, <1>16, LastFacts, SaidFacts DEF Write
    <3>2. wire[w] \o Said(w, next[w], Last(w)) \in Seq(Contents \cup {"part"})
      BY <1>0, <3>1 DEF TypeOK
    <3> QED
      BY <1>0, <1>16, <3>2 DEF TypeOK, Write
  <2>2. next' \in [Workers -> Nat]
    BY <1>0, <1>16, LastFacts, SMTT(30) DEF TypeOK, Write
  <2> QED
    BY <1>0, <1>16, <2>1, <2>2 DEF TypeOK, Write, process, closing, sender, history
<1>17. ASSUME NEW w \in Workers, WriteNothing(w)
      PROVE  TypeOK'
  <2>1. lost' \in [Workers -> BOOLEAN]
    BY <1>0, <1>17 DEF TypeOK, WriteNothing
  <2>2. next' \in [Workers -> Nat]
    BY <1>0, <1>17, LastFacts, SMTT(30) DEF TypeOK, WriteNothing
  <2> QED
    BY <1>0, <1>17, <2>1, <2>2 DEF TypeOK, WriteNothing, process, closing, sender
<1>18. ASSUME NEW w \in Workers, NEW n \in 0 .. DequeueSize, WritePart(w, n)
      PROVE  TypeOK'
  <2>1. wire' \in [Workers -> Seq(Contents \cup {"part"})]
    <3>1. n <= Len(batch[w])
      BY <1>0, <1>18, LastFacts DEF WritePart, NoDeadline, CloseBySend
    <3>2. Said(w, next[w], n) \in Seq(Contents)
      BY <1>0, <1>18, <3>1, SaidFacts DEF WritePart, NoDeadline, CloseBySend
    <3>3. Append(wire[w] \o Said(w, next[w], n), "part") \in Seq(Contents \cup {"part"})
      BY <1>0, <3>2 DEF TypeOK
    <3> QED
      BY <1>0, <1>18, <3>3 DEF TypeOK, WritePart, NoDeadline, CloseBySend
  <2>2. /\ lost' \in [Workers -> BOOLEAN]
        /\ closeLock' \in [Workers -> BOOLEAN]
    BY <1>0, <1>18, ZenonT(40) DEF TypeOK, WritePart, NoDeadline, CloseBySend
  <2>3. /\ next' \in [Workers -> Nat]
        /\ closer' \in [Workers -> {"nobody", "recv", "send"}]
        /\ toDel' \in [Workers -> SUBSET Events]
        /\ loop' \in [Workers -> {"dequeue", "write", "close", "done"}]
    <3>1. next' \in [Workers -> Nat]
      <4>1. Last(w) + 1 \in Nat /\ next' = [next EXCEPT ![w] = Last(w) + 1]
        BY <1>0, <1>18, LastFacts DEF WritePart, NoDeadline, CloseBySend
      <4> QED
        BY <1>0, <4>1 DEF TypeOK
    <3>2. CASE closeLock[w]
      <4>1. UNCHANGED <<closer, toDel, loop>>
        BY <1>18, <3>2 DEF WritePart, NoDeadline, CloseBySend
      <4> QED
        BY <1>0, <3>1, <4>1 DEF TypeOK
    <3>3. CASE ~closeLock[w]
      <4>1. /\ loop' = [loop EXCEPT ![w] = "close"]
            /\ closer' = [closer EXCEPT ![w] = "send"]
            /\ toDel' = [toDel EXCEPT ![w] = Events]
        BY <1>18, <3>3 DEF WritePart, NoDeadline, CloseBySend
      <4> QED
        BY <1>0, <3>1, <4>1 DEF TypeOK
    <3> QED
      BY <3>2, <3>3
  <2> QED
    BY <1>0, <1>18, <2>1, <2>2, <2>3 DEF TypeOK, WritePart, NoDeadline, CloseBySend, process, sender
<1>19. ASSUME NEW w \in Workers, WriteEnd(w)
      PROVE  TypeOK'
  <2>1. batch' \in [Workers -> Seq(Packets)]
    BY <1>0, <1>19 DEF TypeOK, WriteEnd
  <2>2. /\ pool' \in SUBSET Packets
        /\ loop' \in [Workers -> {"dequeue", "write", "close", "done"}]
    BY <1>0, <1>19 DEF TypeOK, WriteEnd
  <2> QED
    BY <1>0, <1>19, <2>1, <2>2 DEF TypeOK, WriteEnd, process, closing, sender, history
<1>20. ASSUME NEW s \in Senders, NEW e \in Events, NEW w \in Workers, Get(s, e, w)
      PROVE  TypeOK'
  <2>1. /\ spc' \in [Senders -> {"idle", "got", "held"}]
        /\ to' \in [Senders -> Workers \cup {NoWorker}]
        /\ forwards' \in [Senders -> 0 .. MaxForwards]
    BY <1>0, <1>20 DEF TypeOK, Get
  <2> QED
    BY <1>0, <1>20, <2>1 DEF TypeOK, Get, process, closing, loopSend, history
<1>21. ASSUME NEW s \in Senders, SendClosed(s)
      PROVE  TypeOK'
  <2>1. /\ spc' \in [Senders -> {"idle", "got", "held"}]
        /\ to' \in [Senders -> Workers \cup {NoWorker}]
    BY <1>0, <1>21 DEF TypeOK, SendClosed
  <2> QED
    BY <1>0, <1>21, <2>1 DEF TypeOK, SendClosed, process, closing, loopSend, history
<1>22. ASSUME NEW s \in Senders, NEW k \in Packets, SendSet(s, k)
      PROVE  TypeOK'
  <2>1. /\ pool' \in SUBSET Packets
        /\ content' \in [Packets -> Contents]
        /\ held' \in [Senders -> SUBSET Packets]
        /\ spc' \in [Senders -> {"idle", "got", "held"}]
    BY <1>0, <1>22 DEF TypeOK, SendSet, Contents
  <2> QED
    BY <1>0, <1>22, <2>1 DEF TypeOK, SendSet, process, closing, loopSend, history
<1>23. ASSUME NEW s \in Senders, SendEnqueue(s)
      PROVE  TypeOK'
  <2>1. sendCh' \in [Workers -> Seq(Packets)] /\ \A u \in Workers : Len(sendCh'[u]) <= Cap
    <3>1. CASE Len(sendCh[to[s]]) < Cap
      <4>1. PICK k \in held[s] : sendCh' = [sendCh EXCEPT ![to[s]] = Append(@, k)]
        BY <1>23, <3>1 DEF SendEnqueue
      <4>2. k \in Packets /\ to[s] \in Workers
        BY <1>0, <1>23 DEF TypeOK, KnownInv, SendEnqueue
      <4>3. /\ Append(sendCh[to[s]], k) \in Seq(Packets)
            /\ Len(Append(sendCh[to[s]], k)) <= Cap
        BY <1>0, <3>1, <4>2, AppendFacts DEF TypeOK
      <4> QED
        BY <1>0, <4>1, <4>2, <4>3 DEF TypeOK
    <3>2. CASE ~(Len(sendCh[to[s]]) < Cap)
      BY <1>0, <1>23, <3>2 DEF TypeOK, SendEnqueue
    <3> QED
      BY <3>1, <3>2
  <2>2. /\ pool' \in SUBSET Packets
        /\ held' \in [Senders -> SUBSET Packets]
        /\ spc' \in [Senders -> {"idle", "got", "held"}]
        /\ to' \in [Senders -> Workers \cup {NoWorker}]
    BY <1>0, <1>23 DEF TypeOK, SendEnqueue
  <2> QED
    BY <1>0, <1>23, <2>1, <2>2 DEF TypeOK, SendEnqueue, process, closing, loopSend, history
<1>24. ASSUME NEW w \in Workers, NoDeadline(w)
      PROVE  TypeOK'
  <2>1. /\ lost' \in [Workers -> BOOLEAN]
        /\ closeLock' \in [Workers -> BOOLEAN]
    BY <1>0, <1>24, ZenonT(40) DEF TypeOK, NoDeadline, CloseBySend
  <2>2. /\ next' \in [Workers -> Nat]
        /\ closer' \in [Workers -> {"nobody", "recv", "send"}]
        /\ toDel' \in [Workers -> SUBSET Events]
        /\ loop' \in [Workers -> {"dequeue", "write", "close", "done"}]
    <3>1. next' \in [Workers -> Nat]
      <4>1. Last(w) + 1 \in Nat /\ next' = [next EXCEPT ![w] = Last(w) + 1]
        BY <1>0, <1>24, LastFacts DEF NoDeadline, CloseBySend
      <4> QED
        BY <1>0, <4>1 DEF TypeOK
    <3>2. CASE closeLock[w]
      <4>1. UNCHANGED <<closer, toDel, loop>>
        BY <1>24, <3>2 DEF NoDeadline, CloseBySend
      <4> QED
        BY <1>0, <3>1, <4>1 DEF TypeOK
    <3>3. CASE ~closeLock[w]
      <4>1. /\ loop' = [loop EXCEPT ![w] = "close"]
            /\ closer' = [closer EXCEPT ![w] = "send"]
            /\ toDel' = [toDel EXCEPT ![w] = Events]
        BY <1>24, <3>3 DEF NoDeadline, CloseBySend
      <4> QED
        BY <1>0, <3>1, <4>1 DEF TypeOK
    <3> QED
      BY <3>2, <3>3
  <2> QED
    BY <1>0, <1>24, <2>1, <2>2 DEF TypeOK, NoDeadline, CloseBySend, process, sender
<1>25. CASE UNCHANGED vars
  BY <1>0, <1>25 DEF TypeOK, vars, process, closing, loopSend, sender, history
<1> QED
  BY <1>1, <1>2, <1>3, <1>4, <1>5, <1>6, <1>7, <1>8, <1>9, <1>10, <1>11, <1>12, <1>13, <1>14, <1>15, <1>16, <1>17, <1>18, <1>19, <1>20, <1>21, <1>22, <1>23, <1>24,
     <1>25
     DEF Next, Process, CloseSteps, LoopSend, Forward

-----------------------------------------------------------------------------
(***************************************************************************)
(* The list and Close.                                                     *)
(***************************************************************************)
\* The steps of loopSend and of the senders that touch neither the requests nor the list
\* nor Close.
Aside ==
    \/ \E w \in Workers :
        \/ RegisterRefused(w)
        \/ CloseSendCh(w)
        \/ \E n \in 1 .. DequeueSize, b \in BOOLEAN : Dequeue(w, n, b)
        \/ DequeueEnd(w)
        \/ Write(w)
        \/ WriteNothing(w)
        \/ WriteEnd(w)
    \/ \E s \in Senders :
        \/ \E e \in Events, w \in Workers : Get(s, e, w)
        \/ SendClosed(s)
        \/ \E k \in Packets : SendSet(s, k)
        \/ SendEnqueue(s)
    \/ UNCHANGED vars

\* The steps of process and of Close.
Control(w) ==
    \/ Accept(w)
    \/ \E es \in (SUBSET Events) \ {{}} : Register(w, es)
    \/ \E e \in Events : Set(w, e)
    \/ SetEnd(w)
    \/ \E v \in Workers : Unregister(w, v)
    \/ \E e \in Events : Unset(w, e)
    \/ UnsetEnd(w)
    \/ RecvEnd(w)
    \/ Hangup(w)
    \/ \E e \in Events : CloseDel(w, e)
    \/ CloseConn(w)
    \/ \E n \in 0 .. DequeueSize : WritePart(w, n)
    \/ NoDeadline(w)

LEMMA StepKinds ==
    ASSUME [Next]_vars
    PROVE  Aside \/ \E w \in Workers : Control(w)
BY DEF Next, Process, CloseSteps, LoopSend, Forward, Aside, Control

LEMMA AsideLeaves ==
    ASSUME Aside
    PROVE  UNCHANGED <<recv, events, listing, target, collect, closeLock, closer, toDel, late>>
<1>1. ASSUME NEW w \in Workers, RegisterRefused(w)
      PROVE  UNCHANGED <<recv, events, listing, target, collect, closeLock, closer, toDel, late>>
  BY <1>1 DEF RegisterRefused, Request, closing
<1>2. ASSUME NEW w \in Workers,
             \/ CloseSendCh(w)
             \/ \E n \in 1 .. DequeueSize, b \in BOOLEAN : Dequeue(w, n, b)
             \/ DequeueEnd(w)
             \/ Write(w)
             \/ WriteNothing(w)
             \/ WriteEnd(w)
      PROVE  UNCHANGED <<recv, events, listing, target, collect, closeLock, closer, toDel, late>>
  BY <1>2 DEF CloseSendCh, Dequeue, DequeueEnd, Write, WriteNothing, WriteEnd, process, closing,
              history
<1>3. ASSUME NEW s \in Senders,
             \/ \E e \in Events, w \in Workers : Get(s, e, w)
             \/ SendClosed(s)
             \/ \E k \in Packets : SendSet(s, k)
             \/ SendEnqueue(s)
      PROVE  UNCHANGED <<recv, events, listing, target, collect, closeLock, closer, toDel, late>>
  BY <1>3 DEF Get, SendClosed, SendSet, SendEnqueue, process, closing, history
<1>4. ASSUME UNCHANGED vars
      PROVE  UNCHANGED <<recv, events, listing, target, collect, closeLock, closer, toDel, late>>
  BY <1>4 DEF vars, process, closing, history
<1> QED
  BY <1>1, <1>2, <1>3, <1>4 DEF Aside

LEMMA CloseStep ==
    ASSUME WorkerInv, [Next]_vars
    PROVE  CloseInv'
<1> SUFFICES ASSUME NEW u \in Workers
             PROVE  /\ toDel'[u] # {} => closer'[u] # "nobody"
                    /\ closer'[u] # "nobody" => closeLock'[u]
                    /\ recv'[u] \in {"close", "hangup", "gone"} => closeLock'[u]
                    /\ closeLock'[u] /\ ~late'[u] =>
                          \A e \in Events : u \in collect'[e] => e \in toDel'[u]
  BY DEF CloseInv
<1> DEFINE G == /\ toDel'[u] # {} => closer'[u] # "nobody"
                /\ closer'[u] # "nobody" => closeLock'[u]
                /\ recv'[u] \in {"close", "hangup", "gone"} => closeLock'[u]
                /\ closeLock'[u] /\ ~late'[u] =>
                      \A e \in Events : u \in collect'[e] => e \in toDel'[u]
<1> SUFFICES G
  OBVIOUS
<1>0. /\ recv \in [Workers -> {"none", "read", "list", "unlist", "close", "hangup", "gone"}]
      /\ collect \in [Events -> SUBSET Workers]
      /\ closer \in [Workers -> {"nobody", "recv", "send"}]
      /\ toDel \in [Workers -> SUBSET Events]
      /\ closeLock \in [Workers -> BOOLEAN] /\ late \in [Workers -> BOOLEAN]
      /\ TypeOK'
  BY TypeStep DEF WorkerInv, TypeOK
<1>old. \A w \in Workers :
          /\ toDel[w] # {} => closer[w] # "nobody"
          /\ closer[w] # "nobody" => closeLock[w]
          /\ recv[w] \in {"close", "hangup", "gone"} => closeLock[w]
          /\ closeLock[w] /\ ~late[w] => \A e \in Events : w \in collect[e] => e \in toDel[w]
  BY DEF WorkerInv, CloseInv
<1>1. CASE Aside
  BY <1>1, <1>old, AsideLeaves
<1>2. ASSUME NEW w \in Workers,
             \/ Accept(w)
             \/ \E es \in (SUBSET Events) \ {{}} : Register(w, es)
             \/ SetEnd(w)
             \/ \E v \in Workers : Unregister(w, v)
             \/ UnsetEnd(w)
      PROVE  G
  <2>1. UNCHANGED <<collect, closeLock, closer, toDel, late>>
    BY <1>2 DEF Accept, Register, SetEnd, Unregister, UnsetEnd, closing, history
  <2>2. recv'[u] = recv[u] \/ recv'[u] \in {"read", "list", "unlist"}
    BY <1>0, <1>2 DEF Accept, Register, SetEnd, Unregister, UnsetEnd
  <2> QED
    BY <1>old, <2>1, <2>2
<1>3. ASSUME NEW w \in Workers, NEW e \in Events, Set(w, e)
      PROVE  G
  <2>1. UNCHANGED <<recv, closeLock, closer, toDel>>
    BY <1>3 DEF Set, closing
  <2>2. late'[w] = (late[w] \/ closeLock[w]) /\ (u # w => late'[u] = late[u])
    BY <1>0, <1>3 DEF Set
  <2>3. u # w => \A d \in Events : u \in collect'[d] => u \in collect[d]
    BY <1>0, <1>3 DEF Set
  <2>4. CASE u = w
    BY <1>old, <2>1, <2>2, <2>4
  <2>5. CASE u # w
    BY <1>old, <2>1, <2>2, <2>3, <2>5
  <2> QED
    BY <2>4, <2>5
<1>4. ASSUME NEW w \in Workers, NEW e \in Events, Unset(w, e)
      PROVE  G
  <2>1. UNCHANGED <<recv, closeLock, closer, toDel, late>>
    BY <1>4 DEF Unset, closing, history
  <2>2. \A d \in Events : u \in collect'[d] => u \in collect[d]
    BY <1>0, <1>4 DEF Unset
  <2> QED
    BY <1>old, <2>1, <2>2
<1>5. ASSUME NEW w \in Workers, RecvEnd(w)
      PROVE  G
  <2>1. UNCHANGED <<collect, late>>
    BY <1>5 DEF RecvEnd, history
  <2>2. CASE u # w
    <3>1. recv'[u] = recv[u] /\ closeLock'[u] = closeLock[u] /\ closer'[u] = closer[u]
          /\ toDel'[u] = toDel[u]
      BY <1>0, <1>5, <2>2 DEF RecvEnd
    <3> QED
      BY <1>old, <2>1, <3>1
  <2>3. CASE u = w /\ closeLock[w]
    <3>1. UNCHANGED <<closeLock, closer, toDel>>
      BY <1>5, <2>3 DEF RecvEnd
    <3> QED
      BY <1>old, <2>1, <2>3, <3>1
  <2>4. CASE u = w /\ ~closeLock[w]
    <3>1. /\ closeLock' = [closeLock EXCEPT ![w] = TRUE]
          /\ closer' = [closer EXCEPT ![w] = "recv"]
          /\ toDel' = [toDel EXCEPT ![w] = Events]
      BY <1>5, <2>4 DEF RecvEnd
    <3>2. closeLock'[u] /\ closer'[u] = "recv" /\ toDel'[u] = Events
      BY <1>0, <2>4, <3>1
    <3> QED
      BY <3>2
  <2> QED
    BY <2>2, <2>3, <2>4
<1>6. ASSUME NEW w \in Workers, Hangup(w)
      PROVE  G
  <2>1. UNCHANGED <<collect, closeLock, closer, toDel, late>>
    BY <1>6 DEF Hangup, closing, history
  <2>2. recv[w] = "hangup" /\ (recv'[u] = recv[u] \/ u = w)
    BY <1>0, <1>6 DEF Hangup
  <2> QED
    BY <1>old, <2>1, <2>2
<1>7. ASSUME NEW w \in Workers, NEW e \in Events, CloseDel(w, e)
      PROVE  G
  <2>1. UNCHANGED <<recv, closeLock, closer, late>>
    BY <1>7 DEF CloseDel, process, history
  <2>2. CASE u = w
    <3>1. \A d \in Events : u \in collect'[d] => u \in collect[d] /\ d # e
      BY <1>0, <1>7, <2>2 DEF CloseDel
    <3>2. toDel'[u] = toDel[u] \ {e}
      BY <1>0, <1>7, <2>2 DEF CloseDel
    <3> QED
      BY <1>old, <2>1, <3>1, <3>2
  <2>3. CASE u # w
    <3>1. toDel'[u] = toDel[u] /\ \A d \in Events : u \in collect'[d] => u \in collect[d]
      BY <1>0, <1>7, <2>3 DEF CloseDel
    <3> QED
      BY <1>old, <2>1, <3>1
  <2> QED
    BY <2>2, <2>3
<1>8. ASSUME NEW w \in Workers, CloseConn(w)
      PROVE  G
  <2>1. UNCHANGED <<collect, closeLock, toDel, late>> /\ closer[w] # "nobody" /\ toDel[w] = {}
    BY <1>8 DEF CloseConn, history
  <2>2. u # w => recv'[u] = recv[u] /\ closer'[u] = closer[u]
    BY <1>0, <1>8 DEF CloseConn
  <2>3. closeLock[w]
    BY <1>old, <2>1
  <2> QED
    BY <1>old, <2>1, <2>2, <2>3
<1>9. ASSUME NEW w \in Workers, NoDeadline(w) \/ \E n \in 0 .. DequeueSize : WritePart(w, n)
      PROVE  G
  <2>1. UNCHANGED <<recv, collect, late>>
    BY <1>9 DEF WritePart, NoDeadline, CloseBySend, process
  <2>2. CASE closeLock[w]
    <3>1. UNCHANGED <<closeLock, closer, toDel>>
      BY <1>9, <2>2 DEF WritePart, NoDeadline, CloseBySend
    <3> QED
      BY <1>old, <2>1, <3>1
  <2>3. CASE ~closeLock[w]
    <3>1. /\ closeLock' = [closeLock EXCEPT ![w] = TRUE]
          /\ closer' = [closer EXCEPT ![w] = "send"]
          /\ toDel' = [toDel EXCEPT ![w] = Events]
      BY <1>9, <2>3 DEF WritePart, NoDeadline, CloseBySend
    <3>2. CASE u = w
      <4>1. closeLock'[u] /\ closer'[u] = "send" /\ toDel'[u] = Events
        BY <1>0, <3>1, <3>2
      <4> QED
        BY <4>1
    <3>3. CASE u # w
      <4>1. closeLock'[u] = closeLock[u] /\ closer'[u] = closer[u] /\ toDel'[u] = toDel[u]
        BY <1>0, <3>1, <3>3
      <4> QED
        BY <1>old, <2>1, <4>1
    <3> QED
      BY <3>2, <3>3
  <2> QED
    BY <2>2, <2>3
<1> HIDE DEF G
<1> QED
  BY <1>1, <1>2, <1>3, <1>4, <1>5, <1>6, <1>7, <1>8, <1>9, StepKinds DEF Control

-----------------------------------------------------------------------------
(***************************************************************************)
(* Who is known.                                                           *)
(***************************************************************************)
\* A registered connection stays registered.
LEMMA EventsStay ==
    ASSUME WorkerInv, [Next]_vars, NEW u \in Workers, events[u] # {}
    PROVE  events'[u] = events[u]
<1>0. events \in [Workers -> SUBSET Events]
  BY DEF WorkerInv, TypeOK
<1>1. ASSUME NEW w \in Workers, NEW es \in (SUBSET Events) \ {{}}, Register(w, es)
      PROVE  events'[u] = events[u]
  BY <1>0, <1>1 DEF Register
<1>2. ASSUME NEW w \in Workers, Control(w), ~\E es \in (SUBSET Events) \ {{}} : Register(w, es)
      PROVE  events' = events
  BY <1>2 DEF Control, Accept, Set, SetEnd, Unregister, Unset, UnsetEnd, RecvEnd, Hangup, CloseDel,
              CloseConn, WritePart, NoDeadline, CloseBySend, process
<1> QED
  BY <1>1, <1>2, StepKinds, AsideLeaves

LEMMA KnownStep ==
    ASSUME WorkerInv, [Next]_vars
    PROVE  KnownInv'
<1>0. /\ recv \in [Workers -> {"none", "read", "list", "unlist", "close", "hangup", "gone"}]
      /\ events \in [Workers -> SUBSET Events]
      /\ collect \in [Events -> SUBSET Workers]
      /\ spc \in [Senders -> {"idle", "got", "held"}]
      /\ to \in [Senders -> Workers \cup {NoWorker}]
  BY DEF WorkerInv, TypeOK
<1>old. KnownInv
  BY DEF WorkerInv
<1>1. ASSUME NEW u \in Workers, recv'[u] = "list"
      PROVE  events'[u] # {}
  <2>1. CASE recv[u] = "list"
    BY <1>old, <2>1, EventsStay DEF KnownInv
  <2>2. CASE recv[u] # "list"
    <3>1. \E es \in (SUBSET Events) \ {{}} : Register(u, es)
      <4>1. CASE Aside
        BY <1>1, <2>2, <4>1, AsideLeaves
      <4>2. ASSUME NEW w \in Workers, Control(w)
            PROVE  \E es \in (SUBSET Events) \ {{}} : Register(u, es)
        BY <1>0, <1>1, <2>2, <4>2, ZenonT(40)
           DEF Control, Accept, Register, Set, SetEnd, Unregister, Unset, UnsetEnd, RecvEnd, Hangup,
               CloseDel, CloseConn, WritePart, NoDeadline, CloseBySend, process
      <4> QED
        BY <4>1, <4>2, StepKinds
    <3>2. PICK es \in (SUBSET Events) \ {{}} : Register(u, es)
      BY <3>1
    <3>3. events' = [events EXCEPT ![u] = es] /\ es # {}
      BY <3>2 DEF Register
    <3> QED
      BY <1>0, <3>3
  <2> QED
    BY <2>1, <2>2
<1>2. ASSUME NEW u \in Workers, NEW d \in Events, u \in collect'[d]
      PROVE  events'[u] # {}
  <2>1. CASE u \in collect[d]
    BY <1>old, <2>1, EventsStay DEF KnownInv
  <2>2. CASE u \notin collect[d]
    <3>1. recv[u] = "list"
      <4>1. CASE Aside
        BY <1>2, <2>2, <4>1, AsideLeaves
      <4>2. ASSUME NEW w \in Workers, Control(w)
            PROVE  recv[u] = "list"
        <5>1. \E e \in Events : Set(w, e)
          BY <1>0, <1>2, <2>2, <4>2, ZenonT(40)
             DEF Control, Accept, Register, SetEnd, Unregister, Unset, UnsetEnd, RecvEnd, Hangup,
                 CloseDel, CloseConn, WritePart, NoDeadline, CloseBySend
        <5> QED
          BY <1>0, <1>2, <2>2, <5>1 DEF Set
      <4> QED
        BY <4>1, <4>2, StepKinds
    <3> QED
      BY <1>old, <3>1, EventsStay DEF KnownInv
  <2> QED
    BY <2>1, <2>2
<1>3. ASSUME NEW s \in Senders, spc'[s] # "idle"
      PROVE  to'[s] \in Workers /\ events'[to'[s]] # {}
  <2>1. CASE to'[s] = to[s] /\ spc[s] # "idle"
    BY <1>old, <2>1, EventsStay DEF KnownInv
  <2>2. ASSUME NEW e \in Events, NEW w \in Workers, Get(s, e, w)
        PROVE  to'[s] \in Workers /\ events'[to'[s]] # {}
    <3>1. to'[s] = w /\ w \in collect[e]
      BY <1>0, <2>2 DEF Get
    <3> QED
      BY <1>old, <3>1, EventsStay DEF KnownInv
  <2>3. CASE Aside
    <3>1. ASSUME NEW r \in Senders,
                 \/ \E e \in Events, w \in Workers : Get(r, e, w)
                 \/ SendClosed(r)
                 \/ \E k \in Packets : SendSet(r, k)
                 \/ SendEnqueue(r)
          PROVE  \/ to'[s] = to[s] /\ spc[s] # "idle"
                 \/ \E e \in Events, w \in Workers : Get(s, e, w)
      BY <1>0, <1>3, <3>1 DEF Get, SendClosed, SendSet, SendEnqueue
    <3>2. ASSUME \/ UNCHANGED vars
                 \/ \E w \in Workers :
                      \/ RegisterRefused(w)
                      \/ CloseSendCh(w)
                      \/ \E n \in 1 .. DequeueSize, b \in BOOLEAN : Dequeue(w, n, b)
                      \/ DequeueEnd(w)
                      \/ Write(w)
                      \/ WriteNothing(w)
                      \/ WriteEnd(w)
          PROVE  UNCHANGED <<spc, to>>
      BY <3>2 DEF RegisterRefused, CloseSendCh, Dequeue, DequeueEnd, Write, WriteNothing, WriteEnd,
                  sender, vars
    <3> QED
      BY <1>3, <2>1, <2>2, <2>3, <3>1, <3>2 DEF Aside
  <2>4. ASSUME NEW w \in Workers, Control(w)
        PROVE  UNCHANGED <<spc, to>>
    BY <2>4 DEF Control, Accept, Register, Set, SetEnd, Unregister, Unset, UnsetEnd, RecvEnd, Hangup,
                CloseDel, CloseConn, WritePart, NoDeadline, CloseBySend, sender
  <2> QED
    BY <1>3, <2>1, <2>3, <2>4, StepKinds
<1> QED
  BY <1>1, <1>2, <1>3 DEF KnownInv

-----------------------------------------------------------------------------
(***************************************************************************)
(* loopSend and the senders.                                               *)
(***************************************************************************)
\* The steps that move no packet.
Still ==
    \/ \E w \in Workers :
        \/ Accept(w)
        \/ \E e \in Events : Set(w, e) \/ Unset(w, e) \/ CloseDel(w, e)
        \/ SetEnd(w)
        \/ \E v \in Workers : Unregister(w, v)
        \/ RecvEnd(w)
        \/ Hangup(w)
        \/ CloseConn(w)
        \/ CloseSendCh(w)
        \/ DequeueEnd(w)
        \/ Write(w)
        \/ WriteNothing(w)
        \/ \E n \in 0 .. DequeueSize : WritePart(w, n)
        \/ NoDeadline(w)
    \/ \E s \in Senders :
        \/ \E e \in Events, w \in Workers : Get(s, e, w)
        \/ SendClosed(s)
    \/ UNCHANGED vars

\* The steps that answer a request.
Answering(w) ==
    \/ \E es \in (SUBSET Events) \ {{}} : Register(w, es)
    \/ RegisterRefused(w)
    \/ UnsetEnd(w)

LEMMA PacketKinds ==
    ASSUME [Next]_vars
    PROVE  \/ Still
           \/ \E w \in Workers :
                \/ Answering(w)
                \/ \E n \in 1 .. DequeueSize, b \in BOOLEAN : Dequeue(w, n, b)
                \/ WriteEnd(w)
           \/ \E s \in Senders : SendEnqueue(s) \/ \E k \in Packets : SendSet(s, k)
BY DEF Next, Process, CloseSteps, LoopSend, Forward, Still, Answering

LEMMA StillLeaves ==
    ASSUME Still
    PROVE  UNCHANGED <<sendCh, batch, pool, content, held>>
<1>1. ASSUME NEW w \in Workers,
             \/ Accept(w)
             \/ \E e \in Events : Set(w, e) \/ Unset(w, e) \/ CloseDel(w, e)
             \/ SetEnd(w)
             \/ \E v \in Workers : Unregister(w, v)
             \/ RecvEnd(w)
             \/ Hangup(w)
      PROVE  UNCHANGED <<sendCh, batch, pool, content, held>>
  BY <1>1 DEF Accept, Set, Unset, CloseDel, SetEnd, Unregister, RecvEnd, Hangup, loopSend, sender
<1>2. ASSUME NEW w \in Workers,
             \/ CloseConn(w)
             \/ CloseSendCh(w)
             \/ DequeueEnd(w)
             \/ Write(w)
             \/ WriteNothing(w)
             \/ \E n \in 0 .. DequeueSize : WritePart(w, n)
             \/ NoDeadline(w)
      PROVE  UNCHANGED <<sendCh, batch, pool, content, held>>
  BY <1>2 DEF CloseConn, CloseSendCh, DequeueEnd, Write, WriteNothing, WritePart, NoDeadline, CloseBySend, loopSend, sender
<1>3. ASSUME NEW s \in Senders,
             \/ \E e \in Events, w \in Workers : Get(s, e, w)
             \/ SendClosed(s)
      PROVE  UNCHANGED <<sendCh, batch, pool, content, held>>
  BY <1>3 DEF Get, SendClosed, loopSend
<1>4. UNCHANGED vars => UNCHANGED <<sendCh, batch, pool, content, held>>
  BY DEF vars, loopSend, sender
<1> QED
  BY <1>1, <1>2, <1>3, <1>4 DEF Still

\* An answer is one of the contents, and nothing else of the queues moves.
LEMMA AnsweringFacts ==
    ASSUME NEW w \in Workers, Answering(w)
    PROVE  /\ \E a \in Answers : Answer(w, a)
           /\ UNCHANGED <<loop, batch, next, bulk, wire, spc, to, held>>
BY DEF Answering, Register, RegisterRefused, UnsetEnd, Answers, loopSend, sender

LEMMA LoopStep ==
    ASSUME WorkerInv, [Next]_vars
    PROVE  LoopInv'
<1> SUFFICES ASSUME NEW u \in Workers
             PROVE  /\ next'[u] # 0
                    /\ loop'[u] \in {"dequeue", "done"} => batch'[u] = << >>
  BY DEF LoopInv
<1> DEFINE G == /\ next'[u] # 0
                /\ loop'[u] \in {"dequeue", "done"} => batch'[u] = << >>
<1> SUFFICES G
  OBVIOUS
<1>0. /\ loop \in [Workers -> {"dequeue", "write", "close", "done"}]
      /\ batch \in [Workers -> Seq(Packets)] /\ next \in [Workers -> Nat]
      /\ TypeOK /\ LoopInv
  BY DEF WorkerInv, TypeOK
<1>old. next[u] # 0 /\ (loop[u] \in {"dequeue", "done"} => batch[u] = << >>)
  BY <1>0 DEF LoopInv
<1>1. CASE Still
  <2>1. ASSUME NEW w \in Workers, Write(w) \/ WriteNothing(w) \/ NoDeadline(w) \/ \E n \in 0 .. DequeueSize : WritePart(w, n)
        PROVE  G
    <3>1. next' = [next EXCEPT ![w] = Last(w) + 1] /\ next[w] <= Len(batch[w]) /\ batch' = batch
      BY <2>1 DEF Write, WriteNothing, WritePart, NoDeadline, CloseBySend
    <3>2. Last(w) + 1 \in Nat \ {0}
      BY <1>0, <3>1, LastFacts
    <3>3. next'[u] # 0
      BY <1>0, <1>old, <3>1, <3>2
    <3>4. loop'[u] = loop[u] \/ loop'[u] = "close"
      BY <1>0, <2>1 DEF Write, WriteNothing, WritePart, NoDeadline, CloseBySend
    <3> QED
      BY <1>old, <3>1, <3>3, <3>4
  <2>2. ASSUME NEW w \in Workers, CloseConn(w) \/ DequeueEnd(w)
        PROVE  G
    <3>1. UNCHANGED <<next, batch>>
      BY <2>2 DEF CloseConn, DequeueEnd
    <3>2. loop'[u] = loop[u] \/ loop'[u] = "write" \/ (loop'[u] = "done" /\ loop[u] = "dequeue")
      BY <1>0, <2>2 DEF CloseConn, DequeueEnd
    <3> QED
      BY <1>old, <3>1, <3>2
  <2>3. ASSUME NEW w \in Workers,
               \/ Accept(w)
               \/ \E e \in Events : Set(w, e) \/ Unset(w, e) \/ CloseDel(w, e)
               \/ SetEnd(w)
               \/ \E v \in Workers : Unregister(w, v)
               \/ RecvEnd(w)
               \/ Hangup(w)
               \/ CloseSendCh(w)
        PROVE  UNCHANGED <<loop, next, batch>>
    BY <2>3 DEF Accept, Set, Unset, CloseDel, SetEnd, Unregister, RecvEnd, Hangup, CloseSendCh, loopSend
  <2>4. ASSUME \/ \E s \in Senders :
                    \/ \E e \in Events, w \in Workers : Get(s, e, w)
                    \/ SendClosed(s)
               \/ UNCHANGED vars
        PROVE  UNCHANGED <<loop, next, batch>>
    BY <2>4 DEF Get, SendClosed, vars, loopSend
  <2>5. UNCHANGED <<loop, next, batch>> => G
    BY <1>old
  <2> HIDE DEF G
  <2> QED
    BY <1>1, <2>1, <2>2, <2>3, <2>4, <2>5 DEF Still
<1>2. ASSUME NEW w \in Workers, Answering(w)
      PROVE  G
  BY <1>2, <1>old, AnsweringFacts
<1>3. ASSUME NEW w \in Workers, NEW n \in 1 .. DequeueSize, NEW b \in BOOLEAN, Dequeue(w, n, b)
      PROVE  G
  <2>1. next' = [next EXCEPT ![w] = 1] /\ loop' = [loop EXCEPT ![w] = "write"]
        /\ \A v \in Workers \ {w} : batch'[v] = batch[v]
    BY <1>0, <1>3 DEF Dequeue
  <2> QED
    BY <1>0, <1>old, <2>1
<1>4. ASSUME NEW w \in Workers, WriteEnd(w)
      PROVE  G
  <2>1. next' = next /\ loop' = [loop EXCEPT ![w] = "dequeue"] /\ batch' = [batch EXCEPT ![w] = << >>]
    BY <1>4 DEF WriteEnd
  <2> QED
    BY <1>0, <1>old, <2>1
<1>5. ASSUME NEW s \in Senders, SendEnqueue(s) \/ \E k \in Packets : SendSet(s, k)
      PROVE  G
  <2>1. UNCHANGED <<loop, next, batch>>
    BY <1>5 DEF SendEnqueue, SendSet, loopSend
  <2> QED
    BY <1>old, <2>1
<1> HIDE DEF G
<1> QED
  BY <1>1, <1>2, <1>3, <1>4, <1>5, PacketKinds

LEMMA HeldStep ==
    ASSUME WorkerInv, [Next]_vars
    PROVE  HeldInv'
<1>0. /\ spc \in [Senders -> {"idle", "got", "held"}]
      /\ held \in [Senders -> SUBSET Packets]
      /\ HeldInv
  BY DEF WorkerInv, TypeOK
<1>1. ASSUME NEW s \in Senders, NEW k \in Packets, SendSet(s, k)
      PROVE  HeldInv'
  <2>1. spc' = [spc EXCEPT ![s] = "held"] /\ held' = [held EXCEPT ![s] = {k}]
    BY <1>1 DEF SendSet
  <2> QED
    BY <1>0, <2>1 DEF HeldInv
<1>2. ASSUME NEW s \in Senders, SendEnqueue(s)
      PROVE  HeldInv'
  <2>1. spc' = [spc EXCEPT ![s] = "idle"] /\ held' = [held EXCEPT ![s] = {}]
    BY <1>2 DEF SendEnqueue
  <2> QED
    BY <1>0, <2>1 DEF HeldInv
<1>3. ASSUME NEW s \in Senders,
             (\E e \in Events, w \in Workers : Get(s, e, w)) \/ SendClosed(s)
      PROVE  HeldInv'
  <2>1. held' = held /\ spc[s] # "held" /\ \E x \in {"idle", "got"} : spc' = [spc EXCEPT ![s] = x]
    BY <1>3 DEF Get, SendClosed
  <2> QED
    BY <1>0, <2>1 DEF HeldInv
<1>4. CASE UNCHANGED <<spc, held>>
  BY <1>0, <1>4 DEF HeldInv
<1>5. ASSUME NEW w \in Workers, Control(w)
      PROVE  UNCHANGED <<spc, held>>
  BY <1>5 DEF Control, Accept, Register, Set, SetEnd, Unregister, Unset, UnsetEnd, RecvEnd, Hangup,
              CloseDel, CloseConn, WritePart, NoDeadline, CloseBySend, sender
<1>6. ASSUME \/ UNCHANGED vars
             \/ \E w \in Workers :
                  \/ RegisterRefused(w)
                  \/ CloseSendCh(w)
                  \/ \E n \in 1 .. DequeueSize, b \in BOOLEAN : Dequeue(w, n, b)
                  \/ DequeueEnd(w)
                  \/ Write(w)
                  \/ WriteNothing(w)
                  \/ WriteEnd(w)
      PROVE  UNCHANGED <<spc, held>>
  BY <1>6 DEF RegisterRefused, CloseSendCh, Dequeue, DequeueEnd, Write, WriteNothing, WriteEnd,
              sender, vars
<1> QED
  BY <1>1, <1>2, <1>3, <1>4, <1>5, <1>6, StepKinds DEF Aside

-----------------------------------------------------------------------------
(***************************************************************************)
(* The packets.                                                            *)
(***************************************************************************)
\* A packet that nobody has any more is put at the end of a sendCh.
LEMMA PutAtEnd ==
    ASSUME TypeOK, PacketInv, NEW w \in Workers, NEW k \in Packets,
           sendCh' = [sendCh EXCEPT ![w] = Append(@, k)],
           batch' = batch,
           pool' \subseteq pool,
           \A s \in Senders : held'[s] \subseteq held[s],
           k \notin pool',
           \A s \in Senders : k \notin held'[s],
           \A v \in Workers : \A i \in 1 .. Len(sendCh[v]) : sendCh[v][i] # k,
           \A v \in Workers : \A i \in 1 .. Len(batch[v]) : batch[v][i] # k
    PROVE  PacketInv'
<1>0. sendCh \in [Workers -> Seq(Packets)] /\ Len(sendCh[w]) \in Nat
  BY DEF TypeOK
<1>1. /\ Len(sendCh'[w]) = Len(sendCh[w]) + 1
      /\ sendCh'[w][Len(sendCh[w]) + 1] = k
      /\ \A i \in 1 .. Len(sendCh[w]) : sendCh'[w][i] = sendCh[w][i]
  BY <1>0, AppendFacts
<1>2. ASSUME NEW v \in Workers, NEW i \in 1 .. Len(sendCh'[v])
      PROVE  \/ i \in 1 .. Len(sendCh[v]) /\ sendCh'[v][i] = sendCh[v][i]
             \/ v = w /\ i = Len(sendCh[w]) + 1 /\ sendCh'[v][i] = k
  <2>1. CASE v = w
    BY <1>0, <1>1, <2>1
  <2>2. CASE v # w
    <3>1. sendCh'[v] = sendCh[v]
      BY <1>0, <2>2
    <3> QED
      BY <1>2, <3>1
  <2> QED
    BY <2>1, <2>2
<1>3. ASSUME NEW v \in Workers, NEW i \in 1 .. Len(sendCh'[v])
      PROVE  /\ sendCh'[v][i] \notin pool'
             /\ \A s \in Senders : sendCh'[v][i] \notin held'[s]
             /\ \A u \in Workers : \A j \in 1 .. Len(sendCh'[u]) :
                  sendCh'[v][i] = sendCh'[u][j] => v = u /\ i = j
             /\ \A u \in Workers : \A j \in 1 .. Len(batch'[u]) : sendCh'[v][i] # batch'[u][j]
  <2>1. CASE i \in 1 .. Len(sendCh[v]) /\ sendCh'[v][i] = sendCh[v][i]
    BY <1>2, <2>1 DEF PacketInv
  <2>2. CASE v = w /\ i = Len(sendCh[w]) + 1 /\ sendCh'[v][i] = k
    BY <1>2, <2>2
  <2> QED
    BY <1>2, <1>3, <2>1, <2>2
<1> QED
  BY <1>3 DEF PacketInv

LEMMA PacketStep ==
    ASSUME WorkerInv, [Next]_vars
    PROVE  PacketInv'
<1>0. /\ TypeOK /\ PacketInv /\ HeldInv /\ KnownInv
      /\ sendCh \in [Workers -> Seq(Packets)] /\ batch \in [Workers -> Seq(Packets)]
      /\ pool \in SUBSET Packets
      /\ held \in [Senders -> SUBSET Packets]
  BY DEF WorkerInv, TypeOK
<1>qq. \A v, u \in Workers : \A i \in 1 .. Len(sendCh[v]) : \A j \in 1 .. Len(sendCh[u]) :
         sendCh[v][i] = sendCh[u][j] => v = u /\ i = j
  BY <1>0 DEF PacketInv
<1>qb. \A v, u \in Workers : \A i \in 1 .. Len(sendCh[v]) : \A j \in 1 .. Len(batch[u]) :
         sendCh[v][i] # batch[u][j]
  BY <1>0 DEF PacketInv
<1>bb. \A v, u \in Workers : \A i \in 1 .. Len(batch[v]) : \A j \in 1 .. Len(batch[u]) :
         batch[v][i] = batch[u][j] => v = u /\ i = j
  BY <1>0 DEF PacketInv
<1>1. CASE UNCHANGED <<sendCh, batch, pool, held>>
  BY <1>0, <1>1 DEF PacketInv
<1>2. ASSUME NEW w \in Workers, Answering(w)
      PROVE  PacketInv'
  <2>1. PICK a \in Answers : Answer(w, a)
    BY <1>2, AnsweringFacts
  <2>2. UNCHANGED <<batch, held>>
    BY <1>2, AnsweringFacts
  <2>3. CASE UNCHANGED <<sendCh, pool, content>>
    BY <1>1, <2>2, <2>3
  <2>4. ASSUME NEW k \in pool,
               pool' = pool \ {k},
               sendCh' = [sendCh EXCEPT ![w] = Append(@, k)]
        PROVE  PacketInv'
    <3>1. /\ k \in Packets /\ pool' \subseteq pool /\ k \notin pool'
          /\ \A s \in Senders : held'[s] \subseteq held[s] /\ k \notin held'[s]
          /\ \A v \in Workers : \A i \in 1 .. Len(sendCh[v]) : sendCh[v][i] # k
          /\ \A v \in Workers : \A i \in 1 .. Len(batch[v]) : batch[v][i] # k
      BY <1>0, <2>2, <2>4 DEF PacketInv
    <3> QED
      BY <1>0, <2>2, <2>4, <3>1, PutAtEnd
  <2> QED
    BY <1>0, <2>1, <2>3, <2>4, AnswerCases
<1>3. ASSUME NEW w \in Workers, NEW n \in 1 .. DequeueSize, NEW b \in BOOLEAN, Dequeue(w, n, b)
      PROVE  PacketInv'
  <2>1. /\ batch' = [batch EXCEPT ![w] = SubSeq(sendCh[w], 1, n)]
        /\ sendCh' = [sendCh EXCEPT ![w] = SubSeq(@, n + 1, Len(@))]
        /\ n <= Len(sendCh[w])
        /\ UNCHANGED <<pool, held>>
    BY <1>3 DEF Dequeue, sender
  <2>2. sendCh[w] \in Seq(Packets) /\ n \in 0 .. Len(sendCh[w]) /\ n \in Nat /\ Len(sendCh[w]) \in Nat
    BY <1>0, <2>1
  <2>3. /\ Len(batch'[w]) = n
        /\ \A i \in 1 .. n : batch'[w][i] = sendCh[w][i]
        /\ Len(sendCh'[w]) = Len(sendCh[w]) - n
        /\ \A i \in 1 .. Len(sendCh[w]) - n : sendCh'[w][i] = sendCh[w][n + i]
    BY <1>0, <2>1, <2>2, CutFacts
  <2>4. ASSUME NEW v \in Workers, NEW i \in 1 .. Len(sendCh'[v])
        PROVE  \/ v # w /\ i \in 1 .. Len(sendCh[v]) /\ sendCh'[v][i] = sendCh[v][i]
               \/ v = w /\ n + i \in 1 .. Len(sendCh[w]) /\ sendCh'[v][i] = sendCh[w][n + i]
    <3>1. CASE v = w
      BY <2>2, <2>3, <3>1
    <3>2. CASE v # w
      <4>1. sendCh'[v] = sendCh[v]
        BY <1>0, <2>1, <3>2
      <4> QED
        BY <2>4, <3>2, <4>1
    <3> QED
      BY <3>1, <3>2
  <2>5. ASSUME NEW v \in Workers, NEW i \in 1 .. Len(batch'[v])
        PROVE  \/ v # w /\ i \in 1 .. Len(batch[v]) /\ batch'[v][i] = batch[v][i]
               \/ v = w /\ i \in 1 .. Len(sendCh[w]) /\ i <= n /\ batch'[v][i] = sendCh[w][i]
    <3>1. CASE v = w
      BY <2>2, <2>3, <3>1
    <3>2. CASE v # w
      <4>1. batch'[v] = batch[v]
        BY <1>0, <2>1, <3>2
      <4> QED
        BY <2>5, <3>2, <4>1
    <3> QED
      BY <3>1, <3>2
  <2>6. \A i \in Nat \ {0} : n + i # n /\ ~(n + i <= n)
    BY <2>2
  <2>7. ASSUME NEW v \in Workers, NEW i \in 1 .. Len(sendCh'[v])
        PROVE  /\ sendCh'[v][i] \notin pool'
               /\ \A s \in Senders : sendCh'[v][i] \notin held'[s]
    <3>1. \E u \in Workers : \E j \in 1 .. Len(sendCh[u]) : sendCh'[v][i] = sendCh[u][j]
      BY <2>4, <2>7
    <3> QED
      BY <1>0, <2>1, <3>1 DEF PacketInv
  <2>8. ASSUME NEW v \in Workers, NEW i \in 1 .. Len(sendCh'[v]),
               NEW u \in Workers, NEW j \in 1 .. Len(sendCh'[u]),
               sendCh'[v][i] = sendCh'[u][j]
        PROVE  v = u /\ i = j
    <3>1. CASE v # w /\ u # w
      BY <1>0, <2>4, <2>8, <3>1 DEF PacketInv
    <3>2. CASE v = w /\ u = w
      <4>1. sendCh[w][n + i] = sendCh[w][n + j] /\ n + i \in 1 .. Len(sendCh[w])
            /\ n + j \in 1 .. Len(sendCh[w])
        BY <2>4, <2>8, <3>2
      <4>2. n + i = n + j
        BY <1>0, <4>1 DEF PacketInv
      <4> QED
        BY <2>2, <3>2, <4>2
    <3>3. CASE v = w /\ u # w
      <4>1. n + i \in 1 .. Len(sendCh[w]) /\ sendCh'[v][i] = sendCh[w][n + i]
        BY <2>4, <3>3
      <4>2. j \in 1 .. Len(sendCh[u]) /\ sendCh'[u][j] = sendCh[u][j]
        BY <2>4, <3>3
      <4> QED
        BY <1>qq, <2>8, <3>3, <4>1, <4>2
    <3>4. CASE v # w /\ u = w
      <4>1. n + j \in 1 .. Len(sendCh[w]) /\ sendCh'[u][j] = sendCh[w][n + j]
        BY <2>4, <3>4
      <4>2. i \in 1 .. Len(sendCh[v]) /\ sendCh'[v][i] = sendCh[v][i]
        BY <2>4, <3>4
      <4> QED
        BY <1>qq, <2>8, <3>4, <4>1, <4>2
    <3> QED
      BY <3>1, <3>2, <3>3, <3>4
  <2>9. ASSUME NEW v \in Workers, NEW i \in 1 .. Len(sendCh'[v]),
               NEW u \in Workers, NEW j \in 1 .. Len(batch'[u])
        PROVE  sendCh'[v][i] # batch'[u][j]
    <3>1. CASE u # w
      <4>1. j \in 1 .. Len(batch[u]) /\ batch'[u][j] = batch[u][j]
        BY <2>5, <3>1
      <4>2. CASE v = w
        <5>1. n + i \in 1 .. Len(sendCh[w]) /\ sendCh'[v][i] = sendCh[w][n + i]
          BY <2>4, <4>2
        <5> QED
          BY <1>qb, <4>1, <5>1
      <4>3. CASE v # w
        <5>1. i \in 1 .. Len(sendCh[v]) /\ sendCh'[v][i] = sendCh[v][i]
          BY <2>4, <4>3
        <5> QED
          BY <1>qb, <4>1, <5>1
      <4> QED
        BY <4>2, <4>3
    <3>2. CASE u = w /\ v # w
      <4>1. j \in 1 .. Len(sendCh[w]) /\ batch'[u][j] = sendCh[w][j]
        BY <2>5, <3>2
      <4>2. i \in 1 .. Len(sendCh[v]) /\ sendCh'[v][i] = sendCh[v][i]
        BY <2>4, <3>2
      <4> QED
        BY <1>0, <3>2, <4>1, <4>2 DEF PacketInv
    <3>3. CASE u = w /\ v = w
      <4>1. j \in 1 .. Len(sendCh[w]) /\ j <= n /\ batch'[u][j] = sendCh[w][j]
        BY <2>5, <3>3
      <4>2. n + i \in 1 .. Len(sendCh[w]) /\ sendCh'[v][i] = sendCh[w][n + i]
        BY <2>4, <3>3
      <4>3. n + i # j
        BY <2>2, <4>1
      <4> QED
        BY <1>0, <4>1, <4>2, <4>3 DEF PacketInv
    <3> QED
      BY <3>1, <3>2, <3>3
  <2>10. ASSUME NEW v \in Workers, NEW i \in 1 .. Len(batch'[v])
         PROVE  /\ batch'[v][i] \notin pool'
                /\ \A s \in Senders : batch'[v][i] \notin held'[s]
    <3>1. CASE v # w
      BY <1>0, <2>1, <2>5, <3>1 DEF PacketInv
    <3>2. CASE v = w
      BY <1>0, <2>1, <2>5, <3>2 DEF PacketInv
    <3> QED
      BY <3>1, <3>2
  <2>11. ASSUME NEW v \in Workers, NEW i \in 1 .. Len(batch'[v]),
                NEW u \in Workers, NEW j \in 1 .. Len(batch'[u]),
                batch'[v][i] = batch'[u][j]
         PROVE  v = u /\ i = j
    <3>1. CASE v # w /\ u # w
      BY <1>0, <2>5, <2>11, <3>1 DEF PacketInv
    <3>2. CASE v = w /\ u = w
      <4>1. i \in 1 .. Len(sendCh[w]) /\ batch'[v][i] = sendCh[w][i]
        BY <2>5, <3>2
      <4>2. j \in 1 .. Len(sendCh[w]) /\ batch'[u][j] = sendCh[w][j]
        BY <2>5, <3>2
      <4> QED
        BY <1>qq, <2>11, <3>2, <4>1, <4>2
    <3>3. CASE v = w /\ u # w
      <4>1. i \in 1 .. Len(sendCh[w]) /\ batch'[v][i] = sendCh[w][i]
        BY <2>5, <3>3
      <4>2. j \in 1 .. Len(batch[u]) /\ batch'[u][j] = batch[u][j]
        BY <2>5, <3>3
      <4> QED
        BY <1>qb, <2>11, <4>1, <4>2
    <3>4. CASE v # w /\ u = w
      <4>1. j \in 1 .. Len(sendCh[w]) /\ batch'[u][j] = sendCh[w][j]
        BY <2>5, <3>4
      <4>2. i \in 1 .. Len(batch[v]) /\ batch'[v][i] = batch[v][i]
        BY <2>5, <3>4
      <4> QED
        BY <1>qb, <2>11, <4>1, <4>2
    <3> QED
      BY <3>1, <3>2, <3>3, <3>4
  <2>12. \A s \in Senders : \A k \in held'[s] : k \notin pool' /\ \A r \in Senders : k \in held'[r] => r = s
    BY <1>0, <2>1 DEF PacketInv
  <2> QED
    BY <2>7, <2>8, <2>9, <2>10, <2>11, <2>12 DEF PacketInv
<1>4. ASSUME NEW w \in Workers, WriteEnd(w)
      PROVE  PacketInv'
  <2>1. /\ pool' = pool \cup {batch[w][i] : i \in 1 .. Len(batch[w])}
        /\ batch' = [batch EXCEPT ![w] = << >>]
        /\ UNCHANGED <<sendCh, held>>
    BY <1>4 DEF WriteEnd, sender
  <2>2. Len(batch'[w]) = 0
    BY <1>0, <2>1
  <2>3. ASSUME NEW v \in Workers, NEW i \in 1 .. Len(batch'[v])
        PROVE  v # w /\ i \in 1 .. Len(batch[v]) /\ batch'[v][i] = batch[v][i]
    <3>1. v # w
      BY <2>2
    <3>2. batch'[v] = batch[v]
      BY <1>0, <2>1, <3>1
    <3> QED
      BY <3>1, <3>2
  <2>4. \A k : k \in pool' => k \in pool \/ \E j \in 1 .. Len(batch[w]) : k = batch[w][j]
    BY <2>1
  <2>5. ASSUME NEW v \in Workers, NEW i \in 1 .. Len(sendCh[v])
        PROVE  /\ sendCh[v][i] \notin pool'
               /\ \A u \in Workers : \A j \in 1 .. Len(batch'[u]) : sendCh[v][i] # batch'[u][j]
    <3>1. sendCh[v][i] \notin pool
      BY <1>0 DEF PacketInv
    <3>2. sendCh[v][i] \notin pool'
      BY <1>qb, <2>4, <3>1
    <3>3. ASSUME NEW u \in Workers, NEW j \in 1 .. Len(batch'[u])
          PROVE  sendCh[v][i] # batch'[u][j]
      <4>1. j \in 1 .. Len(batch[u]) /\ batch'[u][j] = batch[u][j]
        BY <2>3
      <4> QED
        BY <1>qb, <4>1
    <3> QED
      BY <3>2, <3>3
  <2>6. ASSUME NEW v \in Workers, NEW i \in 1 .. Len(batch'[v])
        PROVE  /\ batch'[v][i] \notin pool'
               /\ \A s \in Senders : batch'[v][i] \notin held[s]
               /\ \A u \in Workers : \A j \in 1 .. Len(batch'[u]) :
                    batch'[v][i] = batch'[u][j] => v = u /\ i = j
    <3>1. v # w /\ i \in 1 .. Len(batch[v]) /\ batch'[v][i] = batch[v][i]
      BY <2>3
    <3>2. batch[v][i] \notin pool /\ \A s \in Senders : batch[v][i] \notin held[s]
      BY <1>0, <3>1 DEF PacketInv
    <3>3. batch[v][i] \notin pool'
      BY <1>bb, <2>4, <3>1, <3>2
    <3>4. ASSUME NEW u \in Workers, NEW j \in 1 .. Len(batch'[u]), batch'[v][i] = batch'[u][j]
          PROVE  v = u /\ i = j
      <4>1. j \in 1 .. Len(batch[u]) /\ batch'[u][j] = batch[u][j]
        BY <2>3
      <4>2. batch[v][i] = batch[u][j] /\ i \in 1 .. Len(batch[v])
        BY <3>1, <3>4, <4>1
      <4> HIDE <3>4, <3>1, <2>6
      <4> QED
        BY <1>bb, <4>1, <4>2
    <3> QED
      BY <3>1, <3>2, <3>3, <3>4
  <2>7. \A s \in Senders : \A k \in held[s] : k \notin pool'
    BY <1>0, <2>4 DEF PacketInv
  <2>8. \A v \in Workers : \A i \in 1 .. Len(sendCh'[v]) :
          /\ sendCh'[v][i] \notin pool'
          /\ \A s \in Senders : sendCh'[v][i] \notin held'[s]
          /\ \A u \in Workers : \A j \in 1 .. Len(sendCh'[u]) :
                sendCh'[v][i] = sendCh'[u][j] => v = u /\ i = j
          /\ \A u \in Workers : \A j \in 1 .. Len(batch'[u]) : sendCh'[v][i] # batch'[u][j]
    <3>1. \A v \in Workers : \A i \in 1 .. Len(sendCh[v]) : \A s \in Senders : sendCh[v][i] \notin held[s]
      BY <1>0 DEF PacketInv
    <3> QED
      BY <1>qq, <2>1, <2>5, <3>1
  <2>9. \A s \in Senders : \A k \in held'[s] :
          k \notin pool' /\ \A q \in Senders : k \in held'[q] => q = s
    BY <1>0, <2>1, <2>7 DEF PacketInv
  <2>10. \A v \in Workers : \A i \in 1 .. Len(batch'[v]) :
          /\ batch'[v][i] \notin pool'
          /\ \A s \in Senders : batch'[v][i] \notin held'[s]
          /\ \A u \in Workers : \A j \in 1 .. Len(batch'[u]) :
                batch'[v][i] = batch'[u][j] => v = u /\ i = j
    BY <2>1, <2>6
  <2> QED
    BY <2>8, <2>9, <2>10 DEF PacketInv
<1>5. ASSUME NEW s \in Senders, NEW k \in Packets, SendSet(s, k)
      PROVE  PacketInv'
  <2>1. /\ k \in pool /\ pool' = pool \ {k} /\ held' = [held EXCEPT ![s] = {k}]
        /\ UNCHANGED <<sendCh, batch>>
    BY <1>5 DEF SendSet, loopSend
  <2>2. \A r \in Senders : \A x \in held'[r] : x \in held[r] \/ (r = s /\ x = k)
    BY <1>0, <2>1
  <2>3. \A r \in Senders : k \in held'[r] => r = s
    BY <1>0, <2>1 DEF PacketInv
  <2> QED
    BY <1>0, <2>1, <2>2, <2>3 DEF PacketInv
<1>6. ASSUME NEW s \in Senders, SendEnqueue(s)
      PROVE  PacketInv'
  <2>1. spc[s] = "held" /\ held' = [held EXCEPT ![s] = {}] /\ batch' = batch
    BY <1>6 DEF SendEnqueue, loopSend
  <2>2. \A r \in Senders : held'[r] \subseteq held[r] /\ (r = s => held'[r] = {})
    BY <1>0, <2>1
  <2>3. CASE Len(sendCh[to[s]]) < Cap
    <3>1. pool' = pool
      BY <1>6, <2>3 DEF SendEnqueue
    <3>2. PICK k \in held[s] : sendCh' = [sendCh EXCEPT ![to[s]] = Append(@, k)]
      BY <1>6, <2>3 DEF SendEnqueue
    <3>3. k \in Packets /\ to[s] \in Workers
      BY <1>0, <2>1 DEF KnownInv
    <3>4. /\ k \notin pool' /\ pool' \subseteq pool
          /\ \A r \in Senders : k \notin held'[r]
          /\ \A v \in Workers : \A i \in 1 .. Len(sendCh[v]) : sendCh[v][i] # k
          /\ \A v \in Workers : \A i \in 1 .. Len(batch[v]) : batch[v][i] # k
      BY <1>0, <2>2, <3>1 DEF PacketInv
    <3> QED
      BY <1>0, <2>1, <2>2, <3>2, <3>3, <3>4, PutAtEnd
  <2>4. CASE ~(Len(sendCh[to[s]]) < Cap)
    <3>1. pool' = pool \cup held[s] /\ sendCh' = sendCh
      BY <1>6, <2>4 DEF SendEnqueue
    <3>2. \A r \in Senders : \A x \in held'[r] : x \in held[r] /\ x \notin held[s]
      BY <1>0, <2>2 DEF PacketInv
    <3> QED
      BY <1>0, <2>1, <2>2, <3>1, <3>2 DEF PacketInv
  <2> QED
    BY <2>3, <2>4
<1>7. Still => UNCHANGED <<sendCh, batch, pool, held>>
  BY StillLeaves
<1> QED
  BY <1>1, <1>2, <1>3, <1>4, <1>5, <1>6, <1>7, PacketKinds

-----------------------------------------------------------------------------
(***************************************************************************)
(* The order of the answers and the events.                                *)
(***************************************************************************)
\* What is queued is not overwritten: only packets of the pool get a new content.
LEMMA ContentStays ==
    ASSUME WorkerInv, [Next]_vars, NEW u \in Workers
    PROVE  /\ \A i \in 1 .. Len(sendCh[u]) : content'[sendCh[u][i]] = content[sendCh[u][i]]
           /\ \A i \in 1 .. Len(batch[u]) : content'[batch[u][i]] = content[batch[u][i]]
<1>0. /\ TypeOK /\ content \in [Packets -> Contents] /\ pool \in SUBSET Packets
      /\ sendCh[u] \in Seq(Packets) /\ batch[u] \in Seq(Packets)
  BY DEF WorkerInv, TypeOK
<1>1. /\ \A i \in 1 .. Len(sendCh[u]) : sendCh[u][i] \in Packets /\ sendCh[u][i] \notin pool
      /\ \A i \in 1 .. Len(batch[u]) : batch[u][i] \in Packets /\ batch[u][i] \notin pool
  BY <1>0 DEF WorkerInv, PacketInv
<1>2. ASSUME NEW k \in pool, NEW a, content' = [content EXCEPT ![k] = a]
      PROVE  \A x \in Packets : x \notin pool => content'[x] = content[x]
  BY <1>0, <1>2
<1>3. CASE content' = content
  BY <1>3
<1>4. ASSUME NEW w \in Workers, Answering(w)
      PROVE  \A x \in Packets : x \notin pool => content'[x] = content[x]
  <2>1. PICK a \in Answers : Answer(w, a)
    BY <1>4, AnsweringFacts
  <2> QED
    BY <1>0, <1>2, <2>1, AnswerCases
<1>5. ASSUME NEW s \in Senders, NEW k \in Packets, SendSet(s, k)
      PROVE  \A x \in Packets : x \notin pool => content'[x] = content[x]
  BY <1>2, <1>5 DEF SendSet
<1>6. ASSUME \/ Still
             \/ \E w \in Workers :
                  \/ \E n \in 1 .. DequeueSize, b \in BOOLEAN : Dequeue(w, n, b)
                  \/ WriteEnd(w)
             \/ \E s \in Senders : SendEnqueue(s)
      PROVE  content' = content
  BY <1>6, StillLeaves DEF Dequeue, WriteEnd, SendEnqueue
<1> QED
  BY <1>1, <1>3, <1>4, <1>5, <1>6, PacketKinds

\* A step that leaves the queues of the connection alone.
LEMMA OrderedStays ==
    ASSUME WorkerInv, [Next]_vars, NEW u \in Workers, Ordered(u),
           wire'[u] = wire[u], next'[u] = next[u], batch'[u] = batch[u], sendCh'[u] = sendCh[u],
           events'[u] = events[u]
    PROVE  Ordered(u)'
<1>0. next[u] \in Nat /\ next[u] # 0 /\ sendCh[u] \in Seq(Packets) /\ batch[u] \in Seq(Packets)
  BY DEF WorkerInv, TypeOK, LoopInv
<1>1. /\ \A i \in 1 .. Len(sendCh[u]) : content'[sendCh[u][i]] = content[sendCh[u][i]]
      /\ \A i \in next[u] .. Len(batch[u]) : content'[batch[u][i]] = content[batch[u][i]]
  BY <1>0, ContentStays
<1>2. OnWire(u)' <=> OnWire(u)
  BY DEF OnWire
<1>3. InRest(u)' <=> InRest(u)
  BY <1>1 DEF InRest
<1>4. InSendCh(u)' <=> InSendCh(u)
  BY <1>1 DEF InSendCh
<1>5. events'[u] # {} => OnWire(u)' \/ InRest(u)' \/ InSendCh(u)'
  BY <1>2, <1>3, <1>4 DEF Ordered
<1>6. \A i \in 1 .. Len(wire'[u]) : wire'[u][i] = "event" =>
        \E j \in 1 .. i - 1 : wire'[u][j] = "registered"
  BY DEF Ordered
<1>7. ASSUME NEW i \in next[u] .. Len(batch[u]), content'[batch[u][i]] = "event"
      PROVE  OnWire(u)' \/ \E j \in next[u] .. i - 1 : content'[batch[u][j]] = "registered"
  <2>1. \A j \in next[u] .. i - 1 : j \in next[u] .. Len(batch[u])
    BY <1>0
  <2> QED
    BY <1>1, <1>2, <1>7, <2>1 DEF Ordered
<1>8. ASSUME NEW i \in 1 .. Len(sendCh[u]), content'[sendCh[u][i]] = "event"
      PROVE  OnWire(u)' \/ InRest(u)' \/ \E j \in 1 .. i - 1 : content'[sendCh[u][j]] = "registered"
  <2>1. \A j \in 1 .. i - 1 : j \in 1 .. Len(sendCh[u])
    BY <1>0
  <2> QED
    BY <1>1, <1>2, <1>3, <1>8, <2>1 DEF Ordered
<1> QED
  BY <1>5, <1>6, <1>7, <1>8 DEF Ordered

\* A packet is put at the end of sendCh: it is no event, or "registered" is before it.
LEMMA OrderedPut ==
    ASSUME WorkerInv, [Next]_vars, NEW u \in Workers, Ordered(u), NEW k \in Packets,
           wire'[u] = wire[u], next'[u] = next[u], batch'[u] = batch[u],
           sendCh'[u] = Append(sendCh[u], k),
           content'[k] = "event" => OnWire(u) \/ InRest(u) \/ InSendCh(u),
           events'[u] # {} => events[u] # {} \/ content'[k] = "registered"
    PROVE  Ordered(u)'
<1>0. next[u] \in Nat /\ next[u] # 0 /\ sendCh[u] \in Seq(Packets) /\ batch[u] \in Seq(Packets)
      /\ Len(sendCh[u]) \in Nat
  BY DEF WorkerInv, TypeOK, LoopInv
<1>1. /\ \A i \in 1 .. Len(sendCh[u]) : content'[sendCh[u][i]] = content[sendCh[u][i]]
      /\ \A i \in next[u] .. Len(batch[u]) : content'[batch[u][i]] = content[batch[u][i]]
  BY <1>0, ContentStays
<1>2. /\ Len(sendCh'[u]) = Len(sendCh[u]) + 1
      /\ sendCh'[u][Len(sendCh[u]) + 1] = k
      /\ \A i \in 1 .. Len(sendCh[u]) : sendCh'[u][i] = sendCh[u][i]
  BY <1>0, AppendFacts
<1>3. OnWire(u)' <=> OnWire(u)
  BY DEF OnWire
<1>4. InRest(u)' <=> InRest(u)
  BY <1>1 DEF InRest
<1>5. InSendCh(u) => InSendCh(u)'
  <2> SUFFICES ASSUME NEW j \in 1 .. Len(sendCh[u]), content[sendCh[u][j]] = "registered"
               PROVE  InSendCh(u)'
    BY DEF InSendCh
  <2>1. j \in 1 .. Len(sendCh'[u]) /\ content'[sendCh'[u][j]] = "registered"
    BY <1>0, <1>1, <1>2
  <2> QED
    BY <2>1 DEF InSendCh
<1>6. content'[k] = "registered" => InSendCh(u)'
  <2>1. Len(sendCh[u]) + 1 \in 1 .. Len(sendCh'[u])
    BY <1>0, <1>2
  <2> QED
    BY <1>2, <2>1 DEF InSendCh
<1>7. events'[u] # {} => OnWire(u)' \/ InRest(u)' \/ InSendCh(u)'
  BY <1>3, <1>4, <1>5, <1>6 DEF Ordered
<1>8. \A i \in 1 .. Len(wire'[u]) : wire'[u][i] = "event" =>
        \E j \in 1 .. i - 1 : wire'[u][j] = "registered"
  BY DEF Ordered
<1>9. ASSUME NEW i \in next[u] .. Len(batch[u]), content'[batch[u][i]] = "event"
      PROVE  OnWire(u)' \/ \E j \in next[u] .. i - 1 : content'[batch[u][j]] = "registered"
  <2>1. \A j \in next[u] .. i - 1 : j \in next[u] .. Len(batch[u])
    BY <1>0
  <2> QED
    BY <1>1, <1>3, <1>9, <2>1 DEF Ordered
<1>10. ASSUME NEW i \in 1 .. Len(sendCh'[u]), content'[sendCh'[u][i]] = "event"
       PROVE  OnWire(u)' \/ InRest(u)' \/ \E j \in 1 .. i - 1 : content'[sendCh'[u][j]] = "registered"
  <2>1. CASE i \in 1 .. Len(sendCh[u])
    <3>1. \A j \in 1 .. i - 1 : j \in 1 .. Len(sendCh[u])
      BY <1>0, <2>1
    <3>2. content[sendCh[u][i]] = "event"
      BY <1>1, <1>2, <1>10, <2>1
    <3>3. OnWire(u) \/ InRest(u) \/ \E j \in 1 .. i - 1 : content[sendCh[u][j]] = "registered"
      BY <2>1, <3>2 DEF Ordered
    <3> QED
      BY <1>1, <1>2, <1>3, <1>4, <3>1, <3>3
  <2>2. CASE i = Len(sendCh[u]) + 1
    <3>1. OnWire(u) \/ InRest(u) \/ InSendCh(u)
      BY <1>2, <1>10, <2>2
    <3>2. \A j \in 1 .. Len(sendCh[u]) : j \in 1 .. i - 1
      BY <1>0, <2>2
    <3>3. InSendCh(u) => \E j \in 1 .. i - 1 : content'[sendCh'[u][j]] = "registered"
      BY <1>1, <1>2, <3>2 DEF InSendCh
    <3> QED
      BY <1>3, <1>4, <3>1, <3>3
  <2> QED
    BY <1>0, <1>2, <2>1, <2>2
<1> QED
  BY <1>7, <1>8, <1>9, <1>10 DEF Ordered

\* Dequeue: the first packets of sendCh become the batch, which was empty.
LEMMA OrderedDequeue ==
    ASSUME WorkerInv, [Next]_vars, NEW u \in Workers, Ordered(u),
           NEW n \in 1 .. DequeueSize, NEW b \in BOOLEAN, Dequeue(u, n, b)
    PROVE  Ordered(u)'
<1> DEFINE q == sendCh[u]
<1>0. /\ q \in Seq(Packets) /\ Len(q) \in Nat /\ batch[u] = << >> /\ next[u] \in Nat /\ next[u] # 0
      /\ n \in Nat /\ n # 0 /\ n <= Len(q)
  BY WorkerAssumption DEF WorkerInv, TypeOK, LoopInv, Dequeue
<1>1. /\ batch'[u] = SubSeq(q, 1, n) /\ sendCh'[u] = SubSeq(q, n + 1, Len(q))
      /\ next'[u] = 1
      /\ wire' = wire /\ events' = events /\ content' = content
  BY DEF WorkerInv, TypeOK, Dequeue, process
<1>2. n \in 0 .. Len(q)
  BY <1>0
<1>3. /\ Len(batch'[u]) = n
      /\ \A i \in 1 .. n : batch'[u][i] = q[i]
      /\ Len(sendCh'[u]) = Len(q) - n
      /\ \A i \in 1 .. Len(q) - n : sendCh'[u][i] = q[n + i]
  <2>1. /\ Len(SubSeq(q, 1, n)) = n
        /\ \A i \in 1 .. n : SubSeq(q, 1, n)[i] = q[i]
        /\ Len(SubSeq(q, n + 1, Len(q))) = Len(q) - n
        /\ \A i \in 1 .. Len(q) - n : SubSeq(q, n + 1, Len(q))[i] = q[n + i]
    <3>1. q \in Seq(Packets)
      BY <1>0
    <3> HIDE DEF q
    <3> QED
      BY <1>2, <3>1, CutFacts
  <2> QED
    BY <1>1, <2>1, Zenon
<1>4. ~InRest(u)
  BY <1>0 DEF InRest
<1>5. OnWire(u)' <=> OnWire(u)
  BY <1>1 DEF OnWire
<1>6. ASSUME NEW j \in 1 .. Len(q), content[q[j]] = "registered"
      PROVE  InRest(u)' \/ (j > n /\ InSendCh(u)')
  <2>1. CASE j <= n
    <3>1. j \in 1 .. n /\ j \in next'[u] .. Len(batch'[u])
      BY <1>0, <1>1, <1>3, <2>1
    <3>2. content'[batch'[u][j]] = "registered"
      BY <1>1, <1>3, <1>6, <3>1
    <3> QED
      BY <3>1, <3>2 DEF InRest
  <2>2. CASE j > n
    <3>1. j - n \in 1 .. Len(q) - n /\ n + (j - n) = j
      BY <1>0, <2>2
    <3>2. sendCh'[u][j - n] = q[j]
      BY <1>3, <3>1
    <3>3. j - n \in 1 .. Len(sendCh'[u]) /\ content'[sendCh'[u][j - n]] = "registered"
      BY <1>1, <1>3, <1>6, <3>1, <3>2
    <3> QED
      BY <2>2, <3>3 DEF InSendCh
  <2> QED
    BY <1>0, <2>1, <2>2
<1>7. events'[u] # {} => OnWire(u)' \/ InRest(u)' \/ InSendCh(u)'
  BY <1>1, <1>4, <1>5, <1>6 DEF Ordered, InSendCh
<1>8. \A i \in 1 .. Len(wire'[u]) : wire'[u][i] = "event" =>
        \E j \in 1 .. i - 1 : wire'[u][j] = "registered"
  BY <1>1 DEF Ordered
<1>9. \A i \in 1 .. Len(q) : content[q[i]] = "event" =>
        OnWire(u)' \/ \E j \in 1 .. i - 1 : content[q[j]] = "registered"
  BY <1>4, <1>5 DEF Ordered
<1>10. ASSUME NEW i \in next'[u] .. Len(batch'[u]), content'[batch'[u][i]] = "event"
       PROVE  OnWire(u)' \/ \E j \in next'[u] .. i - 1 : content'[batch'[u][j]] = "registered"
  <2>1. i \in 1 .. n /\ i \in 1 .. Len(q)
    BY <1>0, <1>1, <1>3
  <2>2. content[q[i]] = "event"
    BY <1>1, <1>3, <1>10, <2>1
  <2>3. \A j \in 1 .. i - 1 : j \in 1 .. n
    BY <1>0, <2>1
  <2>4. ASSUME NEW j \in 1 .. i - 1, content[q[j]] = "registered"
        PROVE  \E m \in next'[u] .. i - 1 : content'[batch'[u][m]] = "registered"
    <3>1. j \in next'[u] .. i - 1 /\ batch'[u][j] = q[j]
      BY <1>1, <1>3, <2>3
    <3> QED
      BY <1>1, <2>4, <3>1
  <2> QED
    BY <1>9, <2>1, <2>2, <2>4
<1>11. ASSUME NEW i \in 1 .. Len(sendCh'[u]), content'[sendCh'[u][i]] = "event"
       PROVE  OnWire(u)' \/ InRest(u)' \/ \E j \in 1 .. i - 1 : content'[sendCh'[u][j]] = "registered"
  <2>1. i \in 1 .. Len(q) - n /\ n + i \in 1 .. Len(q)
    BY <1>0, <1>3
  <2>2. content[q[n + i]] = "event"
    BY <1>1, <1>3, <1>11, <2>1
  <2>3. CASE OnWire(u)'
    BY <2>3
  <2>4. ASSUME NEW j \in 1 .. (n + i) - 1, content[q[j]] = "registered"
        PROVE  InRest(u)' \/ \E m \in 1 .. i - 1 : content'[sendCh'[u][m]] = "registered"
    <3>1. j \in 1 .. Len(q)
      BY <1>0, <2>1
    <3>2. CASE j <= n
      BY <1>0, <1>6, <2>4, <3>1, <3>2
    <3>3. CASE j > n
      <4>1. j - n \in 1 .. i - 1 /\ j - n \in 1 .. Len(q) - n /\ n + (j - n) = j
        BY <1>0, <2>1, <3>3
      <4>2. content'[sendCh'[u][j - n]] = "registered"
        BY <1>1, <1>3, <2>4, <4>1
      <4> QED
        BY <4>1, <4>2
    <3> QED
      BY <1>0, <3>2, <3>3
  <2> QED
    BY <1>9, <2>1, <2>2, <2>3, <2>4
<1> QED
  BY <1>7, <1>8, <1>10, <1>11 DEF Ordered

\* WriteEnd: the whole batch was written.
LEMMA OrderedWriteEnd ==
    ASSUME WorkerInv, [Next]_vars, NEW u \in Workers, Ordered(u), WriteEnd(u)
    PROVE  Ordered(u)'
<1>0. /\ next[u] \in Nat /\ Len(batch[u]) \in Nat /\ next[u] > Len(batch[u])
      /\ sendCh[u] \in Seq(Packets)
  BY DEF WorkerInv, TypeOK, WriteEnd
<1>1. /\ batch'[u] = << >> /\ next' = next /\ sendCh' = sendCh /\ wire' = wire
      /\ events' = events /\ content' = content
  BY DEF WorkerInv, TypeOK, WriteEnd, process
<1>2. ~InRest(u) /\ next'[u] .. Len(batch'[u]) = {}
  <2>1. next[u] .. Len(batch[u]) = {}
    BY <1>0
  <2>2. Len(batch'[u]) = 0 /\ next'[u] # 0
    BY <1>1 DEF WorkerInv, LoopInv
  <2> QED
    BY <1>0, <1>1, <2>1, <2>2 DEF InRest
<1>3. (OnWire(u)' <=> OnWire(u)) /\ (InSendCh(u)' <=> InSendCh(u))
  BY <1>1 DEF OnWire, InSendCh
<1>4. events'[u] # {} => OnWire(u)' \/ InRest(u)' \/ InSendCh(u)'
  BY <1>1, <1>2, <1>3 DEF Ordered
<1>5. \A i \in 1 .. Len(wire'[u]) : wire'[u][i] = "event" =>
        \E j \in 1 .. i - 1 : wire'[u][j] = "registered"
  BY <1>1 DEF Ordered
<1>6. ASSUME NEW i \in 1 .. Len(sendCh'[u]), content'[sendCh'[u][i]] = "event"
      PROVE  OnWire(u)' \/ \E j \in 1 .. i - 1 : content'[sendCh'[u][j]] = "registered"
  BY <1>1, <1>2, <1>3, <1>6 DEF Ordered
<1> QED
  BY <1>2, <1>4, <1>5, <1>6 DEF Ordered

\* What the wire holds after more was written.
LEMMA ConcatFacts ==
    ASSUME NEW S, NEW q \in Seq(S), NEW r \in Seq(S)
    PROVE  /\ q \o r \in Seq(S)
           /\ Len(q \o r) = Len(q) + Len(r)
           /\ \A i \in 1 .. Len(q) : (q \o r)[i] = q[i]
           /\ \A i \in 1 .. Len(r) : (q \o r)[Len(q) + i] = r[i]
<1>1. q \o r \in Seq(S) /\ Len(q \o r) = Len(q) + Len(r) /\ Len(q) \in Nat /\ Len(r) \in Nat
  OBVIOUS
<1>2. \A i \in 1 .. Len(q) : (q \o r)[i] = q[i]
  OBVIOUS
<1>3. ASSUME NEW i \in 1 .. Len(r)
      PROVE  (q \o r)[Len(q) + i] = r[i]
  BY <1>1
<1> QED
  BY <1>1, <1>2, <1>3

\* Write: the next packets of the batch go to the wire, in their order.
LEMMA OrderedWrite ==
    ASSUME WorkerInv, [Next]_vars, NEW u \in Workers, Ordered(u), Write(u)
    PROVE  Ordered(u)'
<1> DEFINE f == next[u]
           l == Last(u)
           W == Len(wire[u])
<1>0. /\ TypeOK /\ LoopInv /\ next[u] <= Len(batch[u]) /\ wire[u] \in Seq(Contents \cup {"part"})
      /\ Len(batch[u]) \in Nat /\ W \in Nat /\ sendCh[u] \in Seq(Packets)
  BY SMTT(30) DEF WorkerInv, TypeOK, Write
<1>1. /\ f \in Nat /\ 1 <= f /\ l \in Nat /\ f <= l /\ l <= Len(batch[u])
  BY <1>0, LastFacts
<1>2. /\ wire'[u] = wire[u] \o Said(u, f, l) /\ next'[u] = l + 1
      /\ batch' = batch /\ sendCh' = sendCh /\ events' = events /\ content' = content
  BY <1>0 DEF TypeOK, Write, process
<1>3. /\ Said(u, f, l) \in Seq(Contents)
      /\ Len(Said(u, f, l)) = l - f + 1
      /\ \A n \in 1 .. l - f + 1 : Said(u, f, l)[n] = content[batch[u][f + n - 1]]
  BY <1>0, <1>1, SaidFacts
<1>4. Said(u, f, l) \in Seq(Contents \cup {"part"})
  BY <1>3
<1> HIDE DEF f, l
<1>5. /\ Len(wire'[u]) = W + (l - f + 1)
      /\ \A i \in 1 .. W : wire'[u][i] = wire[u][i]
      /\ \A n \in 1 .. l - f + 1 : wire'[u][W + n] = content[batch[u][f + n - 1]]
  <2>1. /\ Len(wire[u] \o Said(u, f, l)) = W + Len(Said(u, f, l))
        /\ \A i \in 1 .. W : (wire[u] \o Said(u, f, l))[i] = wire[u][i]
        /\ \A n \in 1 .. Len(Said(u, f, l)) : (wire[u] \o Said(u, f, l))[W + n] = Said(u, f, l)[n]
    BY <1>0, <1>4, ConcatFacts
  <2> QED
    BY <1>2, <1>3, <2>1
<1>n. f \in Nat /\ 1 <= f /\ l \in Nat /\ f <= l /\ W \in Nat
  BY <1>0, <1>1
<1>len. Len(wire'[u]) = W + (l - f + 1)
  BY <1>5
<1>w. ASSUME NEW j \in f .. l
      PROVE  /\ W + (j - f + 1) \in 1 .. Len(wire'[u])
             /\ wire'[u][W + (j - f + 1)] = content[batch[u][j]]
  <2>1. j - f + 1 \in 1 .. l - f + 1 /\ f + (j - f + 1) - 1 = j
    BY <1>1
  <2>2. W + (j - f + 1) \in 1 .. Len(wire'[u])
    <3> HIDE DEF W
    <3> QED
      BY <1>n, <1>len, <2>1
  <2>3. wire'[u][W + (j - f + 1)] = content[batch[u][f + (j - f + 1) - 1]]
    BY <1>5, <2>1
  <2> QED
    BY <2>1, <2>2, <2>3
<1>6. OnWire(u) => OnWire(u)'
  <2> SUFFICES ASSUME NEW j \in 1 .. W, wire[u][j] = "registered"
               PROVE  OnWire(u)'
    BY DEF OnWire
  <2>1. j \in 1 .. Len(wire'[u])
    <3> HIDE DEF W
    <3> QED
      BY <1>n, <1>len
  <2>2. wire'[u][j] = "registered"
    BY <1>5
  <2> QED
    BY <2>1, <2>2 DEF OnWire
<1>7. ASSUME NEW j \in f .. l, content[batch[u][j]] = "registered"
      PROVE  OnWire(u)'
  BY <1>w, <1>7 DEF OnWire
<1>8. InRest(u) => OnWire(u)' \/ InRest(u)'
  <2> SUFFICES ASSUME NEW j \in f .. Len(batch[u]), content[batch[u][j]] = "registered"
               PROVE  OnWire(u)' \/ InRest(u)'
    BY DEF InRest, f
  <2>1. CASE j <= l
    <3>1. j \in f .. l
      BY <1>0, <1>1, <2>1
    <3> QED
      BY <1>7, <3>1
  <2>2. CASE j > l
    <3>1. j \in next'[u] .. Len(batch'[u]) /\ content'[batch'[u][j]] = "registered"
      BY <1>0, <1>1, <1>2, <2>2
    <3> QED
      BY <3>1 DEF InRest
  <2> QED
    BY <1>0, <1>1, <2>1, <2>2
<1>9. InSendCh(u)' <=> InSendCh(u)
  BY <1>2 DEF InSendCh
<1>10. events'[u] # {} => OnWire(u)' \/ InRest(u)' \/ InSendCh(u)'
  BY <1>2, <1>6, <1>8, <1>9 DEF Ordered
<1>11. ASSUME NEW i \in 1 .. Len(wire'[u]), wire'[u][i] = "event"
       PROVE  \E j \in 1 .. i - 1 : wire'[u][j] = "registered"
  <2>1. CASE i \in 1 .. W
    <3>1. wire[u][i] = "event"
      BY <1>5, <1>11, <2>1
    <3>2. PICK j \in 1 .. i - 1 : wire[u][j] = "registered"
      BY <2>1, <3>1 DEF Ordered
    <3>3. j \in 1 .. W
      BY <1>0, <2>1
    <3> QED
      BY <1>5, <3>2, <3>3
  <2>2. CASE i \notin 1 .. W
    <3> DEFINE m == i - W
               k == f + m - 1
    <3>1. i \in Int /\ m \in 1 .. l - f + 1 /\ W + m = i
      <4> HIDE DEF W
      <4> QED
        BY <1>n, <1>len, <2>2
    <3> HIDE DEF m
    <3>k. k \in Int /\ k = f + m - 1
      BY <1>n, <3>1
    <3>2. k \in f .. Len(batch[u]) /\ k \in f .. l
      <4> HIDE DEF k
      <4>1. k \in f .. l
        BY <1>n, <3>1, <3>k
      <4> QED
        BY <1>0, <1>1, <4>1
    <3>3. content[batch[u][k]] = "event"
      BY <1>5, <1>11, <3>1
    <3>4. \/ OnWire(u)
          \/ \E j \in f .. k - 1 : content[batch[u][j]] = "registered"
      <4> HIDE DEF k
      <4> QED
        BY <3>2, <3>3 DEF Ordered, f
    <3>5. CASE OnWire(u)
      <4>1. PICK j \in 1 .. W : wire[u][j] = "registered"
        BY <3>5 DEF OnWire
      <4>2. j \in 1 .. i - 1
        BY <1>0, <3>1
      <4> QED
        BY <1>5, <4>1, <4>2
    <3>6. ASSUME NEW j \in f .. k - 1, content[batch[u][j]] = "registered"
          PROVE  \E n \in 1 .. i - 1 : wire'[u][n] = "registered"
      <4>0. j \in f .. k - 1
        OBVIOUS
      <4> HIDE DEF k, W
      <4>1. j \in f .. l
        BY <1>n, <3>2, <3>k, <4>0
      <4>2. W + (j - f + 1) \in 1 .. i - 1
        BY <1>n, <3>1, <3>k, <4>0
      <4>3. wire'[u][W + (j - f + 1)] = "registered"
        BY <1>w, <3>6, <4>1
      <4> QED
        BY <4>2, <4>3
    <3> QED
      BY <3>4, <3>5, <3>6
  <2> QED
    BY <2>1, <2>2
<1>12. ASSUME NEW i \in next'[u] .. Len(batch'[u]), content'[batch'[u][i]] = "event"
       PROVE  OnWire(u)' \/ \E j \in next'[u] .. i - 1 : content'[batch'[u][j]] = "registered"
  <2>1. i \in f .. Len(batch[u]) /\ content[batch[u][i]] = "event"
    BY <1>0, <1>1, <1>2, <1>12
  <2>2. OnWire(u) \/ \E j \in f .. i - 1 : content[batch[u][j]] = "registered"
    BY <2>1 DEF Ordered, f
  <2>3. ASSUME NEW j \in f .. i - 1, content[batch[u][j]] = "registered"
        PROVE  OnWire(u)' \/ \E m \in next'[u] .. i - 1 : content'[batch'[u][m]] = "registered"
    <3>1. CASE j <= l
      <4>1. j \in f .. l
        BY <1>1, <2>1, <3>1
      <4> QED
        BY <1>7, <2>3, <4>1
    <3>2. CASE j > l
      <4>1. j \in next'[u] .. i - 1 /\ content'[batch'[u][j]] = "registered"
        BY <1>1, <1>2, <2>1, <2>3, <3>2
      <4> QED
        BY <4>1
    <3> QED
      BY <1>1, <2>1, <3>1, <3>2
  <2> QED
    BY <1>6, <2>2, <2>3
<1>13. ASSUME NEW i \in 1 .. Len(sendCh'[u]), content'[sendCh'[u][i]] = "event"
       PROVE  OnWire(u)' \/ InRest(u)' \/ \E j \in 1 .. i - 1 : content'[sendCh'[u][j]] = "registered"
  <2>1. i \in 1 .. Len(sendCh[u]) /\ content[sendCh[u][i]] = "event"
    BY <1>2, <1>13
  <2>2. OnWire(u) \/ InRest(u) \/ \E j \in 1 .. i - 1 : content[sendCh[u][j]] = "registered"
    BY <2>1 DEF Ordered
  <2> QED
    BY <1>2, <1>6, <1>8, <2>2
<1> QED
  BY <1>10, <1>11, <1>12, <1>13 DEF Ordered

\* A loss is not forgotten.
LEMMA LostStays ==
    ASSUME WorkerInv, [Next]_vars, NEW u \in Workers, ~lost'[u]
    PROVE  ~lost[u]
<1>0. TypeOK /\ lost \in [Workers -> BOOLEAN]
  BY DEF WorkerInv, TypeOK
<1>1. ASSUME NEW w \in Workers, lost' = [lost EXCEPT ![w] = TRUE]
      PROVE  ~lost[u]
  BY <1>0, <1>1
<1>2. ASSUME NEW w \in Workers, Answering(w)
      PROVE  ~lost[u]
  <2>1. PICK a \in Answers : Answer(w, a)
    BY <1>2, AnsweringFacts
  <2> QED
    BY <1>0, <1>1, <2>1, AnswerCases
<1>3. ASSUME NEW w \in Workers, WriteNothing(w) \/ NoDeadline(w) \/ \E n \in 0 .. DequeueSize : WritePart(w, n)
      PROVE  ~lost[u]
  BY <1>1, <1>3 DEF WriteNothing, WritePart, NoDeadline, CloseBySend
<1>4. ASSUME \/ \E w \in Workers :
                  \/ Accept(w)
                  \/ \E e \in Events : Set(w, e) \/ Unset(w, e) \/ CloseDel(w, e)
                  \/ SetEnd(w)
                  \/ \E v \in Workers : Unregister(w, v)
                  \/ RecvEnd(w)
                  \/ Hangup(w)
                  \/ CloseConn(w)
                  \/ CloseSendCh(w)
             \/ UNCHANGED vars
      PROVE  lost' = lost
  BY <1>4 DEF Accept, Set, Unset, CloseDel, SetEnd, Unregister, RecvEnd, Hangup, CloseConn, CloseSendCh,
              history, vars
<1>5. ASSUME \/ \E w \in Workers :
                  \/ DequeueEnd(w)
                  \/ Write(w)
                  \/ \E n \in 1 .. DequeueSize, b \in BOOLEAN : Dequeue(w, n, b)
                  \/ WriteEnd(w)
             \/ \E s \in Senders :
                  \/ \E e \in Events, w \in Workers : Get(s, e, w)
                  \/ SendClosed(s)
                  \/ \E k \in Packets : SendSet(s, k)
                  \/ SendEnqueue(s)
      PROVE  lost' = lost
  BY <1>5 DEF DequeueEnd, Write, Dequeue, WriteEnd, Get, SendClosed, SendSet, SendEnqueue, history
<1> QED
  BY <1>2, <1>3, <1>4, <1>5, PacketKinds DEF Still

LEMMA OrderStep ==
    ASSUME WorkerInv, [Next]_vars
    PROVE  OrderInv'
<1> SUFFICES ASSUME NEW u \in Workers, ~lost'[u]
             PROVE  Ordered(u)'
  BY DEF OrderInv
<1>0. /\ TypeOK /\ KnownInv /\ events \in [Workers -> SUBSET Events]
      /\ sendCh \in [Workers -> Seq(Packets)] /\ batch \in [Workers -> Seq(Packets)]
      /\ next \in [Workers -> Nat] /\ wire \in [Workers -> Seq(Contents \cup {"part"})]
      /\ content \in [Packets -> Contents] /\ pool \in SUBSET Packets
      /\ lost \in [Workers -> BOOLEAN]
  BY DEF WorkerInv, TypeOK
<1>old. Ordered(u)
  BY LostStays DEF WorkerInv, OrderInv
<1>1. ASSUME UNCHANGED <<wire, next, batch, sendCh, events>>
      PROVE  Ordered(u)'
  BY <1>old, <1>1, OrderedStays
<1>2. ASSUME NEW w \in Workers,
             \/ Accept(w)
             \/ \E e \in Events : Set(w, e) \/ Unset(w, e) \/ CloseDel(w, e)
             \/ SetEnd(w)
             \/ \E v \in Workers : Unregister(w, v)
             \/ RecvEnd(w)
             \/ Hangup(w)
             \/ CloseConn(w)
             \/ CloseSendCh(w)
             \/ DequeueEnd(w)
      PROVE  UNCHANGED <<wire, next, batch, sendCh, events>>
  BY <1>2 DEF Accept, Set, Unset, CloseDel, SetEnd, Unregister, RecvEnd, Hangup, CloseConn, CloseSendCh,
              DequeueEnd, loopSend, process
<1>3. ASSUME \/ \E s \in Senders :
                  \/ \E e \in Events, w \in Workers : Get(s, e, w)
                  \/ SendClosed(s)
                  \/ \E k \in Packets : SendSet(s, k)
             \/ UNCHANGED vars
      PROVE  UNCHANGED <<wire, next, batch, sendCh, events>>
  BY <1>3 DEF Get, SendClosed, SendSet, loopSend, process, vars
<1>4. ASSUME NEW w \in Workers, WriteNothing(w) \/ NoDeadline(w) \/ \E n \in 0 .. DequeueSize : WritePart(w, n)
      PROVE  Ordered(u)'
  <2>1. w # u
    BY <1>0, <1>4 DEF WriteNothing, WritePart, NoDeadline, CloseBySend
  <2>2. /\ wire'[u] = wire[u] /\ next'[u] = next[u] /\ batch' = batch
        /\ sendCh' = sendCh /\ events' = events
    BY <1>0, <1>4, <2>1 DEF WriteNothing, WritePart, NoDeadline, CloseBySend, process
  <2> QED
    BY <1>old, <2>2, OrderedStays
<1>5. ASSUME NEW w \in Workers, Write(w)
      PROVE  Ordered(u)'
  <2>1. CASE w = u
    BY <1>old, <1>5, <2>1, OrderedWrite
  <2>2. CASE w # u
    <3>1. /\ wire'[u] = wire[u] /\ next'[u] = next[u] /\ batch' = batch
          /\ sendCh' = sendCh /\ events' = events
      BY <1>0, <1>5, <2>2 DEF Write, process
    <3> QED
      BY <1>old, <3>1, OrderedStays
  <2> QED
    BY <2>1, <2>2
<1>6. ASSUME NEW w \in Workers, WriteEnd(w)
      PROVE  Ordered(u)'
  <2>1. CASE w = u
    BY <1>old, <1>6, <2>1, OrderedWriteEnd
  <2>2. CASE w # u
    <3>1. /\ wire' = wire /\ next' = next /\ batch'[u] = batch[u]
          /\ sendCh' = sendCh /\ events' = events
      BY <1>0, <1>6, <2>2 DEF WriteEnd, process
    <3> QED
      BY <1>old, <3>1, OrderedStays
  <2> QED
    BY <2>1, <2>2
<1>7. ASSUME NEW w \in Workers, NEW n \in 1 .. DequeueSize, NEW b \in BOOLEAN, Dequeue(w, n, b)
      PROVE  Ordered(u)'
  <2>1. CASE w = u
    BY <1>old, <1>7, <2>1, OrderedDequeue
  <2>2. CASE w # u
    <3>1. /\ wire' = wire /\ next'[u] = next[u] /\ batch'[u] = batch[u]
          /\ sendCh'[u] = sendCh[u] /\ events' = events
      BY <1>0, <1>7, <2>2 DEF Dequeue, process
    <3> QED
      BY <1>old, <3>1, OrderedStays
  <2> QED
    BY <2>1, <2>2
<1>8. ASSUME NEW w \in Workers, Answering(w)
      PROVE  Ordered(u)'
  <2>1. PICK a \in Answers :
          /\ Answer(w, a)
          /\ \/ events' = events
             \/ a = "registered" /\ \E es \in SUBSET Events : events' = [events EXCEPT ![w] = es]
    BY <1>8 DEF Answering, Register, RegisterRefused, UnsetEnd, Answers
  <2>2. UNCHANGED <<batch, next, wire>>
    BY <1>8, AnsweringFacts
  <2>3. CASE w # u
    <3>1. events'[u] = events[u]
      BY <1>0, <2>1, <2>3
    <3>2. sendCh'[u] = sendCh[u]
      <4>1. sendCh' = sendCh \/ \E k \in pool : sendCh' = [sendCh EXCEPT ![w] = Append(@, k)]
        BY <1>0, <2>1, AnswerCases
      <4> QED
        BY <1>0, <2>3, <4>1
    <3> QED
      BY <1>old, <2>2, <3>1, <3>2, OrderedStays
  <2>4. CASE w = u
    <3>1. ~(lost' = [lost EXCEPT ![u] = TRUE])
      BY <1>0
    <3>2. PICK k \in pool :
            /\ content' = [content EXCEPT ![k] = a]
            /\ sendCh' = [sendCh EXCEPT ![u] = Append(@, k)]
      BY <1>0, <2>1, <2>4, <3>1, AnswerCases
    <3>3. k \in Packets /\ content'[k] = a /\ a # "event" /\ sendCh'[u] = Append(sendCh[u], k)
      BY <1>0, <3>2 DEF Answers
    <3>4. events'[u] # {} => events[u] # {} \/ content'[k] = "registered"
      BY <2>1, <3>3
    <3> QED
      BY <1>old, <2>2, <3>3, <3>4, OrderedPut
  <2> QED
    BY <2>3, <2>4
<1>9. ASSUME NEW s \in Senders, SendEnqueue(s)
      PROVE  Ordered(u)'
  <2>1. to[s] \in Workers /\ events[to[s]] # {}
    BY <1>0, <1>9 DEF KnownInv, SendEnqueue
  <2>2. UNCHANGED <<wire, next, batch, events>>
    BY <1>9 DEF SendEnqueue, loopSend, process
  <2>3. CASE sendCh'[u] = sendCh[u]
    BY <1>old, <2>2, <2>3, OrderedStays
  <2>4. CASE sendCh'[u] # sendCh[u]
    <3>1. PICK k \in held[s] : sendCh' = [sendCh EXCEPT ![to[s]] = Append(@, k)]
      BY <1>9, <2>4 DEF SendEnqueue
    <3>2. to[s] = u
      BY <1>0, <2>1, <2>4, <3>1
    <3>3. k \in Packets /\ sendCh'[u] = Append(sendCh[u], k)
      BY <1>0, <3>1, <3>2 DEF TypeOK
    <3>4. OnWire(u) \/ InRest(u) \/ InSendCh(u)
      BY <1>old, <2>1, <3>2 DEF Ordered
    <3> QED
      BY <1>old, <2>2, <3>3, <3>4, OrderedPut
  <2> QED
    BY <2>3, <2>4
<1> QED
  BY <1>1, <1>2, <1>3, <1>4, <1>5, <1>6, <1>7, <1>8, <1>9, PacketKinds DEF Still

-----------------------------------------------------------------------------
(***************************************************************************)
(* The theorems.                                                           *)
(***************************************************************************)
\* The inductive invariant: the types, who is registered, what Close has left to do, where
\* every packet is, and that "registered" is ahead of every event.
THEOREM WorkerInvariant == Spec => []WorkerInv
<1>1. WorkerInv /\ [Next]_vars => WorkerInv'
  <2> SUFFICES ASSUME WorkerInv, [Next]_vars
               PROVE  WorkerInv'
    OBVIOUS
  <2>1. TypeOK' /\ KnownInv' /\ CloseInv' /\ LoopInv'
    BY TypeStep, KnownStep, CloseStep, LoopStep
  <2>2. HeldInv' /\ PacketInv' /\ OrderInv'
    BY HeldStep, PacketStep, OrderStep
  <2> QED
    BY <2>1, <2>2 DEF WorkerInv
<1> QED
  BY <1>1, InitInv, PTL DEF Spec

\* The variables of process, Close, loopSend and the senders keep their types; sendCh never
\* holds more than its capacity.
THEOREM TypeCorrect == Spec => []TypeOK
<1>1. WorkerInv => TypeOK
  BY DEF WorkerInv
<1> QED
  BY <1>1, WorkerInvariant, PTL

\* A packet has one owner, so the double Put that the comment in Send warns of never
\* happens: the pool, a sender, one place of one sendCh or of one batch.
THEOREM OneOwnerTheorem == Spec => []OneOwner
<1>1. WorkerInv => OneOwner
  <2> SUFFICES ASSUME WorkerInv
               PROVE  OneOwner
    OBVIOUS
  <2>0. /\ PacketInv
        /\ \A w \in Workers : sendCh[w] \in Seq(Packets) /\ batch[w] \in Seq(Packets)
    BY DEF WorkerInv, TypeOK
  <2>1. ASSUME NEW w \in Workers
        PROVE  /\ Cardinality(InQueue(w)) = Len(sendCh[w])
               /\ Cardinality(InBatch(w)) = Len(batch[w])
    <3>1. /\ \A i, j \in 1 .. Len(sendCh[w]) : sendCh[w][i] = sendCh[w][j] => i = j
          /\ \A i, j \in 1 .. Len(batch[w]) : batch[w][i] = batch[w][j] => i = j
      BY <2>0 DEF PacketInv
    <3> QED
      BY <2>0, <3>1, DistinctCardinality DEF InQueue, InBatch
  <2>2. ASSUME NEW w \in Workers
        PROVE  /\ (InQueue(w) \cup InBatch(w)) \cap pool = {}
               /\ InQueue(w) \cap InBatch(w) = {}
               /\ \A s \in Senders : held[s] \cap (InQueue(w) \cup InBatch(w)) = {}
    BY <2>0 DEF PacketInv, InQueue, InBatch
  <2>3. ASSUME NEW w \in Workers, NEW v \in Workers \ {w}
        PROVE  (InQueue(w) \cup InBatch(w)) \cap (InQueue(v) \cup InBatch(v)) = {}
    BY <2>0 DEF PacketInv, InQueue, InBatch
  <2>4. \A s \in Senders :
          /\ held[s] \cap pool = {}
          /\ \A r \in Senders \ {s} : held[r] \cap held[s] = {}
    BY <2>0 DEF PacketInv
  <2> QED
    BY <2>1, <2>2, <2>3, <2>4 DEF OneOwner
<1> QED
  BY <1>1, WorkerInvariant, PTL

\* The comment in register: the business receives the result of Register before any event,
\* whatever the senders do meanwhile, unless an answer or a write was lost.
THEOREM GreetedFirstTheorem == Spec => []GreetedFirst
<1>1. WorkerInv => GreetedFirst
  BY DEF WorkerInv, OrderInv, Ordered, GreetedFirst
<1> QED
  BY <1>1, WorkerInvariant, PTL

\* After both goroutines are through with Close no event lists the connection, unless
\* its own Register was still listing it when Close began.
THEOREM GoneIsUnlistedTheorem == Spec => []GoneIsUnlisted
<1>1. WorkerInv => GoneIsUnlisted
  BY DEF WorkerInv, CloseInv, GoneIsUnlisted
<1> QED
  BY <1>1, WorkerInvariant, PTL

=============================================================================
