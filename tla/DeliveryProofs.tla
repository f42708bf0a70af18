--------------------------- MODULE DeliveryProofs ---------------------------
(***************************************************************************)
(* Proof that the invariants of Delivery hold for any connections,         *)
(* commands, messages and Frames.  All of them are about Sent(c), which    *)
(* only grows at its end until the connection is closed.                   *)
(***************************************************************************)
EXTENDS Delivery, SequenceTheorems, TLAPS

\* The steps at which a command goes through the connections of a leg.
Visiting == {"each", "write", "flag", "close"}

\* The goroutine of a command: where its leg, its target and its Frame are set.
CmdOK(k) ==
    /\ pc[k] = "none" <=> k > count
    /\ pc[k] \in {"none", "start"} => leg[k] = 1
    /\ pc[k] \notin {"none", "done"} => leg[k] \in 1 .. Len(Legs(k))
    /\ target[k] = NoConn <=> pc[k] \notin {"write", "flag", "close"}
    /\ pc[k] \notin Visiting => todo[k] = {}
    /\ target[k] \notin todo[k]
    /\ pc[k] \in {"none", "start", "done"} => frame[k] = NoFrame
    /\ pc[k] \in Visiting => (frame[k] = NoFrame <=> Here(k).msg = NoMsg)
    /\ pc[k] = "write" => frame[k] # NoFrame
    /\ pc[k] \in {"flag", "close"} => Op(k).closes

CmdInv == \A k \in Cmds : CmdOK(k)

\* A Frame belongs to one command, holds the message of its leg and encodings of that
\* message only; a free Frame is empty.
FrameInv ==
    /\ \A j, k \in Cmds : frame[j] = frame[k] /\ frame[j] # NoFrame => j = k
    /\ \A k \in Cmds : frame[k] # NoFrame =>
        /\ data[frame[k]] = Here(k).msg /\ Here(k).msg # NoMsg
        /\ compressed[frame[k]] \in {NoMsg, Here(k).msg}
        /\ uncompressed[frame[k]] \in {NoMsg, Here(k).msg}
    /\ \A f \in Frames : (\A k \in Cmds : frame[k] # f) =>
        data[f] = NoMsg /\ compressed[f] = NoMsg /\ uncompressed[f] = NoMsg

\* A command visits the connections its leg addresses.
TargetInv ==
    \A k \in Cmds : \A c \in Conns :
        c \in todo[k] \/ target[k] = c => Addresses(k, leg[k], c)

\* A connection that is gone has its flag up and gets nothing more; only such a
\* connection is unlisted.
ConnInv ==
    \A c \in Conns :
        /\ ~opened[c] => closed[c] /\ queue[c] = <<>>
        /\ c \notin listed => ~opened[c]

\* What was looked up once has every connection that was open then and is now.
ListInv ==
    \A k \in 1 .. count : \A n \in DOMAIN Legs(k) : \A c \in Conns :
        Op(k).listedOnce /\ pc[k] # "start" /\ Addresses(k, n, c) /\ opened[c] => c \in list[k]

\* WriteTo has seen that c is open, and not yet handed its bytes over.
Writing(k, c) == pc[k] = "write" /\ target[k] = c

\* Leg n of command k is through with c, but for the target of the current leg.
Passed(k, n, c) ==
    \/ n < leg[k]
    \/ pc[k] = "done"
    \/ n = leg[k] /\ pc[k] \in Visiting /\ c \notin todo[k]

\* The data entry of leg n of command k is in Sent(c).
HasData(c, k, n) ==
    \E i \in DOMAIN Sent(c) : Sent(c)[i].kind = "data" /\ Sent(c)[i].cmd = k /\ Sent(c)[i].leg = n

\* A connection that is open has the message of every leg that is through with it.
Served(k, n, c) ==
    \/ n = leg[k] /\ Writing(k, c)
    \/ HasData(c, k, n)
    \/ <<n, c>> \in failed[k]
    \/ Op(k) = singleCastBulk /\ failed[k] # {}

ReachedInv ==
    \A k \in 1 .. count : \A n \in DOMAIN Legs(k) : \A c \in Conns :
        Addresses(k, n, c) /\ opened[c] /\ Legs(k)[n].msg # NoMsg /\ Passed(k, n, c) => Served(k, n, c)

\* A forced close raises the flag of every connection it has visited.
Shut(k, n, c) ==
    \/ n = leg[k] /\ pc[k] \in {"write", "flag"} /\ target[k] = c
    \/ closed[c]

CloseInv ==
    \A k \in 1 .. count : \A n \in DOMAIN Legs(k) : \A c \in Conns :
        Op(k).closes /\ Addresses(k, n, c) /\ Passed(k, n, c) => Shut(k, n, c)

\* A command that its task connection runs itself is over before the next one comes.
BusyInv ==
    \A j, k \in 1 .. count : j < k /\ by[j] = by[k] /\ ~Op(j).pooled => pc[j] = "done"

\* Command j is a forced close of c before k on the same task connection.
ClosedBefore(j, k, c) ==
    /\ j < k /\ by[j] = by[k]
    /\ Op(j).closes /\ ~Op(j).pooled
    /\ \E n \in DOMAIN Legs(j) : Addresses(j, n, c)

FinalInv ==
    \A j, k \in 1 .. count : \A c \in Conns : ClosedBefore(j, k, c) =>
        /\ ~Writing(k, c)
        /\ \A i \in DOMAIN Sent(c) : Sent(c)[i].kind = "data" => Sent(c)[i].cmd # k

\* Every data entry is what its command has for the connection ...
DataInv ==
    \A c \in Conns : \A i \in DOMAIN Sent(c) :
        LET e == Sent(c)[i] IN
        e.kind = "data" =>
            /\ e.cmd \in 1 .. count
            /\ Addresses(e.cmd, e.leg, c)
            /\ e.msg = Legs(e.cmd)[e.leg].msg
            /\ e.z = (c \in Deflate /\ e.msg \in Big)

\* ... and its command has gone past it.
Gone(k, n, c) ==
    /\ pc[k] \notin {"none", "start"}
    /\ Passed(k, n, c)
    /\ ~(n = leg[k] /\ Writing(k, c))

OrderInv ==
    /\ CastInOrder
    /\ \A c \in Conns : \A i \in DOMAIN Sent(c) :
        Sent(c)[i].kind = "data" => Gone(Sent(c)[i].cmd, Sent(c)[i].leg, c)

\* Nothing follows an answer to the client; after a close frame every command has at most
\* one message left.
LateInv ==
    \A c \in Conns : \A i \in DOMAIN Sent(c) :
        /\ Sent(c)[i].kind \in {"echo", "error"} => i = Len(Sent(c)) /\ ~opened[c]
        /\ Sent(c)[i].kind \in {"close", "echo"} => closed[c]
        /\ Sent(c)[i].kind = "close" =>
            \A j \in (i + 1) .. Len(Sent(c)) : Sent(c)[j].kind = "data" =>
                /\ ~Writing(Sent(c)[j].cmd, c)
                /\ \A m \in (j + 1) .. Len(Sent(c)) :
                    Sent(c)[m].kind = "data" => Sent(c)[m].cmd # Sent(c)[j].cmd

\* The winner of the flag sends the only close frame.
FlagInv ==
    /\ \A c \in Conns : \A i, j \in DOMAIN Sent(c) :
        Sent(c)[i].kind \in {"close", "echo"} /\ Sent(c)[j].kind \in {"close", "echo"} => i = j
    /\ \A k \in Cmds : pc[k] = "close" =>
        /\ closed[target[k]]
        /\ \A i \in DOMAIN Sent(target[k]) : Sent(target[k])[i].kind \notin {"close", "echo"}
        /\ \A j \in Cmds : pc[j] = "close" /\ target[j] = target[k] => j = k

\* It sends its message first.
FirstInv ==
    /\ \A k \in Cmds : \A c \in Conns :
        pc[k] \in {"flag", "close"} /\ frame[k] # NoFrame /\ target[k] = c /\ opened[c] =>
            \/ \E i \in DOMAIN Sent(c) : Sent(c)[i].kind = "data" /\ Sent(c)[i].cmd = k
            \/ \E n \in DOMAIN Legs(k) : <<n, c>> \in failed[k]
    /\ \A c \in Conns : \A i \in DOMAIN Sent(c) : Sent(c)[i].kind = "close" =>
        LET k == Sent(c)[i].cmd IN
        /\ k \in 1 .. count
        /\ (\E n \in DOMAIN Legs(k) : Legs(k)[n].msg # NoMsg) =>
               \/ \E j \in 1 .. (i - 1) : Sent(c)[j].kind = "data" /\ Sent(c)[j].cmd = k
               \/ \E n \in DOMAIN Legs(k) : <<n, c>> \in failed[k]

\* The inductive invariant.
DeliveryInv ==
    /\ TypeOK
    /\ CmdInv /\ FrameInv /\ ConnInv /\ ListInv /\ TargetInv /\ BusyInv /\ CloseInv
    /\ DataInv /\ OrderInv /\ LateInv /\ FlagInv /\ FirstInv /\ FinalInv /\ ReachedInv
-----------------------------------------------------------------------------
(***************************************************************************)
(* The commands.                                                           *)
(***************************************************************************)
\* What the kinds of command have in common.
LEMMA CallbackFacts ==
    ASSUME NEW o \in Callbacks
    PROVE  /\ o.closes \in BOOLEAN /\ o.pooled \in BOOLEAN /\ o.guests \in BOOLEAN
           /\ o.givesUp \in BOOLEAN /\ o.listedOnce \in BOOLEAN /\ o.perWrite \in BOOLEAN
           /\ o.closes => ~o.givesUp
           /\ o.givesUp => o = singleCastBulk
           /\ o.guests => ~o.listedOnce
           /\ o = broadcastBulk => o.listedOnce
           /\ o.closes /\ o # forceOfflineGuest(TRUE) => ~o.pooled
<1> USE DEF singleCastBulk, broadcastBulk, forceOfflineGuest
<1>1. CASE o = singleCastBulk
  BY <1>1 DEF singleCastBulk
<1>2. CASE o = singleCastBulkByCustomerId
  BY <1>2 DEF singleCastBulkByCustomerId
<1>3. CASE o = topicPublishBulk
  BY <1>3 DEF topicPublishBulk
<1>4. CASE o = broadcastBulk
  BY <1>4 DEF broadcastBulk
<1>5. CASE o = forceOffline
  BY <1>5 DEF forceOffline
<1>6. CASE o = forceOfflineByCustomerId
  BY <1>6 DEF forceOfflineByCustomerId
<1>7. CASE o = forceOfflineGuest(TRUE)
  BY <1>7
<1>8. CASE o = forceOfflineGuest(FALSE)
  BY <1>8
<1>9. CASE o = connInfoUpdate
  BY <1>9 DEF connInfoUpdate
<1>10. CASE o = topicDelete
  BY <1>10 DEF topicDelete
<1> HIDE DEF singleCastBulk, broadcastBulk, forceOfflineGuest
<1> QED
  BY <1>1, <1>2, <1>3, <1>4, <1>5, <1>6, <1>7, <1>8, <1>9, <1>10
     DEF Callbacks, connInfoDelete, topicSubscribe, topicUnsubscribe

\* A command that was received is one of Requests, with legs as RequestsAssumption says.
LEMMA RequestFacts ==
    ASSUME TypeOK, NEW k \in 1 .. count
    PROVE  /\ k \in Cmds
           /\ Op(k) \in Callbacks
           /\ Legs(k) \in Seq(Leg)
           /\ Len(Legs(k)) \in Nat /\ Len(Legs(k)) >= 1
           /\ DOMAIN Legs(k) = 1 .. Len(Legs(k))
           /\ \A n \in 1 .. Len(Legs(k)) :
                /\ Legs(k)[n].msg \in Messages \cup {NoMsg}
                /\ Legs(k)[n].to \in Conns \cup Topics \cup Customers \cup {All}
                /\ Op(k).closes => \A m \in 1 .. Len(Legs(k)) : Legs(k)[m].msg = Legs(k)[n].msg
                /\ ~Op(k).closes => Legs(k)[n].msg # NoMsg
                /\ Op(k).listedOnce => Legs(k)[n].to \notin Conns
<1>1. k \in Cmds
  BY ConstantsAssumption DEF TypeOK, Cmds
<1>2. req[k] \in Requests
  BY DEF TypeOK
<1>3. Op(k) \in Callbacks /\ Legs(k) \in Seq(Leg) \ {<<>>}
  BY <1>2, ConstantsAssumption DEF Op, Legs
<1>4. Len(Legs(k)) \in Nat /\ Len(Legs(k)) >= 1 /\ DOMAIN Legs(k) = 1 .. Len(Legs(k))
  BY <1>3, EmptySeq, LenProperties
<1>5. \A n \in 1 .. Len(Legs(k)) : Legs(k)[n] \in Leg
  BY <1>3, ElementOfSeq
<1>6. \A n \in 1 .. Len(Legs(k)) :
         /\ Legs(k)[n].msg \in Messages \cup {NoMsg}
         /\ Legs(k)[n].to \in Conns \cup Topics \cup Customers \cup {All}
  BY <1>5 DEF Leg
<1>7. \A n \in DOMAIN Legs(k) :
         /\ Op(k).closes => \A m \in DOMAIN Legs(k) : Legs(k)[m].msg = Legs(k)[n].msg
         /\ ~Op(k).closes => Legs(k)[n].msg # NoMsg
         /\ Op(k).listedOnce => Legs(k)[n].to \notin Conns
  BY <1>2, RequestsAssumption DEF Op, Legs
<1> QED
  BY <1>1, <1>3, <1>4, <1>6, <1>7

\* A command that is under way was received.
LEMMA Underway ==
    ASSUME TypeOK, CmdInv, NEW k \in Cmds, pc[k] # "none"
    PROVE  k \in 1 .. count
  BY ConstantsAssumption DEF TypeOK, CmdInv, CmdOK, Cmds

\* The leg of a command under way.
LEMMA HereFacts ==
    ASSUME TypeOK, CmdInv, NEW k \in Cmds, pc[k] \notin {"none", "done"}
    PROVE  /\ k \in 1 .. count
           /\ leg[k] \in 1 .. Len(Legs(k))
           /\ Here(k).msg \in Messages \cup {NoMsg}
           /\ ~Op(k).closes => Here(k).msg # NoMsg
<1>1. k \in 1 .. count
  BY Underway
<1>2. leg[k] \in 1 .. Len(Legs(k))
  BY DEF CmdInv, CmdOK
<1> QED
  BY <1>1, <1>2, RequestFacts DEF Here

\* What a command at "write" hands over.
LEMMA EncodedFacts ==
    ASSUME TypeOK, CmdInv, FrameInv, NEW k \in Cmds, pc[k] = "write"
    PROVE  /\ k \in 1 .. count /\ frame[k] \in Frames /\ target[k] \in Conns
           /\ Here(k).msg \in Messages /\ data[frame[k]] = Here(k).msg
           /\ Encoded(k) = [kind |-> "data", msg |-> Here(k).msg,
                            z |-> target[k] \in Deflate /\ Here(k).msg \in Big,
                            cmd |-> k, leg |-> leg[k]]
           /\ Encoded(k) \in Entry
<1>1. k \in 1 .. count /\ frame[k] \in Frames /\ target[k] \in Conns /\ leg[k] \in Nat
  BY HereFacts DEF CmdInv, CmdOK, TypeOK
<1>2. data[frame[k]] = Here(k).msg /\ Here(k).msg \in Messages
  BY <1>1, HereFacts DEF FrameInv, CmdInv, CmdOK
<1>3. Cached(k) \in {NoMsg, Here(k).msg}
  BY <1>1 DEF Cached, FrameInv, CmdInv, CmdOK
<1>4. Encoded(k) = [kind |-> "data", msg |-> Here(k).msg,
                    z |-> target[k] \in Deflate /\ Here(k).msg \in Big,
                    cmd |-> k, leg |-> leg[k]]
  BY <1>2, <1>3 DEF Encoded, Deflated
<1>5. Encoded(k) \in [kind : {"data"}, msg : Messages, z : BOOLEAN, cmd : Cmds, leg : Nat]
  BY <1>1, <1>2, <1>4
<1> QED
  BY <1>1, <1>2, <1>4, <1>5 DEF Entry

\* Handing well-formed entries over keeps the queues well formed.
LEMMA HandType ==
    ASSUME TypeOK, NEW c \in Conns, NEW es \in Seq(Entry), Hand(c, es)
    PROVE  queue' \in [Conns -> Seq(Entry)]
<1>1. queue[c] \o es \in Seq(Entry)
  BY ConcatProperties DEF TypeOK
<1> QED
  BY <1>1 DEF TypeOK, Hand

LEMMA CloseType ==
    ASSUME TypeOK, NEW c \in Conns, CloseOnSafe(c), queue' \in [Conns -> Seq(Entry)]
    PROVE  ends' \in [Conns -> SUBSET Nat]
<1>1. Len(wire[c]) \in Nat /\ Len(queue'[c]) \in Nat
  BY LenProperties DEF TypeOK
<1>2. Len(wire[c]) + Len(queue'[c]) \in Nat
  BY <1>1
<1> QED
  BY <1>2 DEF TypeOK, CloseOnSafe

\* The entries other than data.
LEMMA EntryAnswer ==
    [kind |-> "echo"] \in Entry /\ [kind |-> "error"] \in Entry
<1>1. /\ [kind |-> "echo"] \in [kind : {"echo", "error"}]
      /\ [kind |-> "error"] \in [kind : {"echo", "error"}]
  OBVIOUS
<1> QED
  BY <1>1, Zenon DEF Entry

LEMMA EntryFacts ==
    ASSUME NEW k \in Cmds
    PROVE  << [kind |-> "close", cmd |-> k] >> \in Seq(Entry)
<1>1. [kind |-> "close", cmd |-> k] \in [kind : {"close"}, cmd : Cmds]
  OBVIOUS
<1>2. [kind |-> "close", cmd |-> k] \in Entry
  BY <1>1, Zenon DEF Entry
<1> QED
  BY <1>2, EntryAnswer

\* The lookups find connections.
LEMMA FoundType ==
    ASSUME TypeOK, NEW to
    PROVE  Found(to) \in SUBSET listed /\ Found(to) \in SUBSET Conns
  BY DEF TypeOK, Found, Get, GetConnections, GetConnListByTopic, GetConnListByCustomerId

LEMMA LookupType ==
    ASSUME TypeOK, NEW k \in Cmds, Lookup(k)
    PROVE  todo' \in [Cmds -> SUBSET Conns]
  BY FoundType DEF TypeOK, Lookup

\* The fields of the Frames stay messages.
LEMMA PutFrameType ==
    ASSUME TypeOK, NEW k \in Cmds, PutFrame(k)
    PROVE  /\ frame' \in [Cmds -> Frames \cup {NoFrame}]
           /\ data' \in [Frames -> Messages \cup {NoMsg}]
           /\ compressed' \in [Frames -> Messages \cup {NoMsg}]
           /\ uncompressed' \in [Frames -> Messages \cup {NoMsg}]
  BY DEF TypeOK, PutFrame, Reset, frames

LEMMA EncodeType ==
    ASSUME TypeOK, NEW k \in Cmds, Encode(k), frame[k] \in Frames
    PROVE  /\ compressed' \in [Frames -> Messages \cup {NoMsg}]
           /\ uncompressed' \in [Frames -> Messages \cup {NoMsg}]
  BY ZenonT(40) DEF TypeOK, Encode

LEMMA WriteFailedType ==
    ASSUME TypeOK, NEW k \in Cmds, NEW c \in Conns, WriteFailed(k, c)
    PROVE  /\ pc' \in [Cmds -> Steps]
           /\ todo' \in [Cmds -> SUBSET Conns]
           /\ target' \in [Cmds -> Conns \cup {NoConn}]
           /\ failed' \in [Cmds -> SUBSET (Nat \X Conns)]
           /\ frame' \in [Cmds -> Frames \cup {NoFrame}]
           /\ data' \in [Frames -> Messages \cup {NoMsg}]
           /\ compressed' \in [Frames -> Messages \cup {NoMsg}]
           /\ uncompressed' \in [Frames -> Messages \cup {NoMsg}]
<1>1. failed' \in [Cmds -> SUBSET (Nat \X Conns)]
  BY DEF TypeOK, WriteFailed
<1>2. /\ pc' \in [Cmds -> Steps]
      /\ todo' \in [Cmds -> SUBSET Conns]
      /\ target' \in [Cmds -> Conns \cup {NoConn}]
  <2>1. CASE GivesUp(k)
    BY <2>1 DEF TypeOK, WriteFailed, Steps
  <2>2. CASE ~GivesUp(k)
    <3>1. Written(k, c) /\ todo' = [todo EXCEPT ![k] = @ \ {c}]
      BY <2>2 DEF WriteFailed
    <3> QED
      BY <3>1 DEF TypeOK, Written, Steps
  <2> QED
    BY <2>1, <2>2
<1>3. CASE GivesUp(k)
  BY <1>1, <1>2, <1>3, PutFrameType DEF WriteFailed
<1>4. CASE ~GivesUp(k)
  BY <1>1, <1>2, <1>4 DEF WriteFailed, TypeOK, frames
<1> QED
  BY <1>3, <1>4

\* Every step keeps every variable in its type.
LEMMA TypeStep ==
    TypeOK /\ CmdInv /\ FrameInv /\ [Next]_vars => TypeOK'
<1> SUFFICES ASSUME TypeOK, CmdInv, FrameInv, [Next]_vars PROVE TypeOK'
  OBVIOUS
<1> USE DEF exec, work, frames, conn
<1>1. ASSUME NEW t \in Tasks, NEW r \in Requests, Receive(t, r) PROVE TypeOK'
  <2>1. count + 1 \in Cmds /\ count + 1 \in 0 .. MaxCommands
    BY <1>1, ConstantsAssumption DEF TypeOK, Receive, Cmds
  <2>2. req' \in Seq(Requests) /\ Len(req') = count' /\ by' \in Seq(Tasks) /\ Len(by') = count'
    BY <1>1, AppendProperties DEF TypeOK, Receive
  <2> QED
    BY <1>1, <2>1, <2>2 DEF TypeOK, Receive, Steps
<1>2. ASSUME NEW k \in Cmds, Start(k) PROVE TypeOK'
  <2>1. UNION {Found(x) : x \in Targets(k)} \in SUBSET Conns
    BY FoundType
  <2>2. list' \in [Cmds -> SUBSET Conns]
    BY <1>2, <2>1 DEF TypeOK, Start
  <2> QED
    BY <1>2, <2>2 DEF TypeOK, Start, Steps
<1>3. ASSUME NEW k \in Cmds, NEW f \in Frames, GetFrame(k, f) PROVE TypeOK'
  <2>1. Here(k).msg \in Messages \cup {NoMsg}
    BY <1>3, HereFacts DEF GetFrame
  <2>2. todo' \in [Cmds -> SUBSET Conns]
    BY <1>3, LookupType DEF GetFrame
  <2> QED
    BY <1>3, <2>1, <2>2 DEF TypeOK, GetFrame, Steps
<1>4. ASSUME NEW k \in Cmds, KeepFrame(k) PROVE TypeOK'
  <2>1. todo' \in [Cmds -> SUBSET Conns]
    BY <1>4, LookupType DEF KeepFrame
  <2> QED
    BY <1>4, <2>1 DEF TypeOK, KeepFrame, Steps
<1>5. ASSUME NEW k \in Cmds, NextLeg(k) PROVE TypeOK'
  <2>1. leg' \in [Cmds -> Nat] /\ pc' \in [Cmds -> Steps]
    BY <1>5 DEF TypeOK, NextLeg, Steps
  <2>2. CASE SameFrame(k)
    BY <1>5, <2>1, <2>2 DEF TypeOK, NextLeg
  <2>3. CASE ~SameFrame(k)
    BY <1>5, <2>1, <2>3, PutFrameType DEF TypeOK, NextLeg
  <2> QED
    BY <2>2, <2>3
<1>6. ASSUME NEW k \in Cmds, NEW c \in Conns, Visit(k, c) PROVE TypeOK'
  BY <1>6 DEF TypeOK, Visit, Steps
<1>7. ASSUME NEW k \in Cmds, NEW c \in Conns, LookOpen(k, c) PROVE TypeOK'
  BY <1>7 DEF TypeOK, LookOpen, Steps
<1>8. ASSUME NEW k \in Cmds, NEW c \in Conns, LookClosed(k, c) PROVE TypeOK'
  BY <1>8, WriteFailedType DEF TypeOK, LookClosed
<1>9. ASSUME NEW k \in Cmds, Write(k) PROVE TypeOK'
  <2>1. << Encoded(k) >> \in Seq(Entry) /\ target[k] \in Conns /\ frame[k] \in Frames
    BY <1>9, EncodedFacts DEF Write
  <2>2. queue' \in [Conns -> Seq(Entry)]
    BY <1>9, <2>1, HandType DEF Write
  <2> QED
    BY <1>9, <2>1, <2>2, EncodeType DEF TypeOK, Write, Written, Steps
<1>10. ASSUME NEW k \in Cmds, WriteError(k) PROVE TypeOK'
  <2>1. << Encoded(k) >> \in Seq(Entry) /\ target[k] \in Conns /\ frame[k] \in Frames
    BY <1>10, EncodedFacts DEF WriteError
  <2>2. queue' \in [Conns -> Seq(Entry)]
    BY <1>10, <2>1, HandType DEF WriteError
  <2>3. failed' \in [Cmds -> SUBSET (Nat \X Conns)] /\ fails' \in 0 .. MaxFails
    BY <1>10, <2>1, ConstantsAssumption DEF TypeOK, WriteError
  <2>4. CASE GivesUp(k)
    BY <1>10, <2>2, <2>3, <2>4, PutFrameType DEF TypeOK, WriteError, Steps
  <2>5. CASE ~GivesUp(k)
    BY <1>10, <2>1, <2>2, <2>3, <2>5, EncodeType DEF TypeOK, WriteError, Written, Steps
  <2> QED
    BY <2>4, <2>5
<1>11. ASSUME NEW k \in Cmds, CompressError(k) PROVE TypeOK'
  <2>1. target[k] \in Conns
    BY <1>11, EncodedFacts DEF CompressError
  <2>2. fails' \in 0 .. MaxFails
    BY <1>11, ConstantsAssumption DEF TypeOK, CompressError
  <2> QED
    BY <1>11, <2>1, <2>2, WriteFailedType DEF TypeOK, CompressError
<1>12. ASSUME NEW k \in Cmds, FlagLost(k) PROVE TypeOK'
  BY <1>12 DEF TypeOK, FlagLost, Steps, Closed
<1>13. ASSUME NEW k \in Cmds, FlagWon(k) PROVE TypeOK'
  BY <1>13 DEF TypeOK, FlagWon, Steps
<1>14. ASSUME NEW k \in Cmds, SendClose(k) PROVE TypeOK'
  <2>1. target[k] \in Conns
    BY <1>14 DEF SendClose, CmdInv, CmdOK, TypeOK
  <2>2. queue' \in [Conns -> Seq(Entry)]
    BY <1>14, <2>1, HandType, EntryFacts DEF SendClose
  <2> QED
    BY <1>14, <2>1, <2>2, ConstantsAssumption DEF TypeOK, SendClose, Closed, Steps
<1>15. ASSUME NEW k \in Cmds, SendCloseError(k) PROVE TypeOK'
  <2>1. target[k] \in Conns
    BY <1>15 DEF SendCloseError, CmdInv, CmdOK, TypeOK
  <2>2. queue' \in [Conns -> Seq(Entry)]
    BY <1>15, <2>1, HandType, EntryFacts DEF SendCloseError
  <2>3. ends' \in [Conns -> SUBSET Nat]
    BY <1>15, <2>1, <2>2, CloseType DEF SendCloseError
  <2> QED
    BY <1>15, <2>1, <2>2, <2>3, ConstantsAssumption DEF TypeOK, SendCloseError, Closed, Steps
<1>16. ASSUME NEW c \in Conns, Timer(c) PROVE TypeOK'
  <2>1. ends' \in [Conns -> SUBSET Nat]
    BY <1>16, CloseType DEF Timer, TypeOK
  <2> QED
    BY <1>16, <2>1 DEF TypeOK, Timer
<1>17. ASSUME NEW c \in Conns, Run(c) PROVE TypeOK'
  <2>1. Head(queue[c]) \in Entry /\ Tail(queue[c]) \in Seq(Entry)
    BY <1>17, HeadTailProperties DEF TypeOK, Run
  <2>2. Append(wire[c], Head(queue[c])) \in Seq(Entry)
    BY <2>1, AppendProperties DEF TypeOK
  <2> QED
    BY <1>17, <2>1, <2>2 DEF TypeOK, Run
<1>18. ASSUME NEW c \in Conns, End(c) PROVE TypeOK'
  BY <1>18 DEF TypeOK, End, Close
<1>19. ASSUME NEW c \in Conns, Hangup(c) PROVE TypeOK'
  BY <1>19 DEF TypeOK, Hangup, Close
<1>20. ASSUME NEW c \in Conns, ClientClose(c) PROVE TypeOK'
  <2>1. Append(wire[c], [kind |-> "echo"]) \in Seq(Entry)
    BY EntryAnswer, AppendProperties DEF TypeOK
  <2> QED
    BY <1>20, <2>1 DEF TypeOK, ClientClose, Close
<1>21. ASSUME NEW c \in Conns, IllegalFrame(c) PROVE TypeOK'
  <2>1. Append(wire[c], [kind |-> "error"]) \in Seq(Entry)
    BY EntryAnswer, AppendProperties DEF TypeOK
  <2> QED
    BY <1>21, <2>1 DEF TypeOK, IllegalFrame, Close
<1>22. ASSUME NEW c \in Conns, Unlist(c) PROVE TypeOK'
  BY <1>22 DEF TypeOK, Unlist
<1>23. CASE UNCHANGED vars
  BY <1>23 DEF TypeOK, vars
<1> QED
  BY <1>1, <1>2, <1>3, <1>4, <1>5, <1>6, <1>7, <1>8, <1>9, <1>10, <1>11, <1>12,
     <1>13, <1>14, <1>15, <1>16, <1>17, <1>18, <1>19, <1>20, <1>21, <1>22, <1>23 DEF Next, Command, Loop

\* A new command leaves the others as they are.
LEMMA ReceiveFacts ==
    ASSUME TypeOK, CmdInv, NEW t \in Tasks, NEW r \in Requests, Receive(t, r)
    PROVE  /\ count + 1 \in Cmds /\ count' = count + 1 /\ count \in Nat
           /\ pc[count + 1] = "none"
           /\ \A k \in 1 .. count : req'[k] = req[k] /\ by'[k] = by[k]
           /\ req'[count + 1] = r /\ by'[count + 1] = t
           /\ r.legs \in Seq(Leg) /\ Len(r.legs) \in Nat /\ Len(r.legs) >= 1
<1>1. count + 1 \in Cmds /\ count' = count + 1 /\ count \in Nat
  BY ConstantsAssumption DEF TypeOK, Receive, Cmds
<1>2. pc[count + 1] = "none"
  BY <1>1 DEF CmdInv, CmdOK
<1>3. r.legs \in Seq(Leg) /\ Len(r.legs) \in Nat /\ Len(r.legs) >= 1
  BY ConstantsAssumption, EmptySeq
<1> QED
  BY <1>1, <1>2, <1>3, AppendProperties DEF TypeOK, Receive

\* The goroutine of a command keeps its books.
LEMMA CmdStep ==
    TypeOK /\ CmdInv /\ FrameInv /\ [Next]_vars => CmdInv'
<1> SUFFICES ASSUME TypeOK, CmdInv, FrameInv, [Next]_vars PROVE CmdInv'
  OBVIOUS
<1> USE ConstantsAssumption DEF exec, work, frames, conn, Legs, Here, Op, Visiting
<1>1. ASSUME NEW t \in Tasks, NEW r \in Requests, Receive(t, r) PROVE CmdInv'
  <2> USE <1>1 DEF Receive, TypeOK
  <2>1. /\ count + 1 \in Cmds /\ count' = count + 1 /\ count \in Nat
        /\ pc[count + 1] = "none"
        /\ \A k \in 1 .. count : req'[k] = req[k]
        /\ req'[count + 1] = r /\ Len(r.legs) \in Nat /\ Len(r.legs) >= 1
    BY ReceiveFacts
  <2>2. ASSUME NEW k \in Cmds, k # count + 1
        PROVE  /\ pc[k] # "none" => req'[k] = req[k]
               /\ pc'[k] = pc[k] /\ (k > count <=> k > count')
    <3>1. pc'[k] = pc[k]
      BY <2>2
    <3>2. k \in Nat /\ k >= 1
      BY DEF Cmds
    <3>3. k > count <=> k > count'
      BY <2>1, <2>2, <3>2
    <3>4. pc[k] # "none" => k \in 1 .. count
      BY <2>1, <3>2 DEF CmdInv, CmdOK
    <3> QED
      BY <2>1, <3>1, <3>3, <3>4
  <2>3. pc' = [pc EXCEPT ![count + 1] = "start"]
    OBVIOUS
  <2> SUFFICES ASSUME NEW k \in Cmds PROVE CmdOK(k)'
    BY DEF CmdInv
  <2>4. CASE k = count + 1
    <3>1. pc'[k] = "start"
      BY <2>1, <2>3, <2>4
    <3>2. leg[k] = 1 /\ todo[k] = {} /\ target[k] = NoConn /\ frame[k] = NoFrame
      BY <2>1, <2>4 DEF CmdInv, CmdOK
    <3>3. ~(k > count') /\ 1 \in 1 .. Len(req'[k].legs)
      BY <2>1, <2>4
    <3> QED
      BY <3>1, <3>2, <3>3 DEF CmdOK
  <2>5. CASE k # count + 1
    BY <2>1, <2>2, <2>5 DEF CmdInv, CmdOK
  <2> QED
    BY <2>4, <2>5
<1>2. ASSUME NEW k \in Cmds, Start(k) PROVE CmdInv'
  BY <1>2 DEF TypeOK, Start, CmdInv, CmdOK
<1>3. ASSUME NEW k \in Cmds, NEW f \in Frames, GetFrame(k, f) PROVE CmdInv'
  <2>1. target[k] = NoConn /\ target' = target /\ todo'[k] \subseteq Conns
    BY <1>3, LookupType DEF GetFrame, CmdInv, CmdOK
  <2>2. \A j \in Cmds : j # k => todo'[j] = todo[j]
    BY <1>3 DEF TypeOK, GetFrame, Lookup
  <2> QED
    BY <1>3, <2>1, <2>2 DEF TypeOK, GetFrame, CmdInv, CmdOK
<1>4. ASSUME NEW k \in Cmds, KeepFrame(k) PROVE CmdInv'
  <2>1. target[k] = NoConn /\ target' = target /\ todo'[k] \subseteq Conns
    BY <1>4, LookupType DEF KeepFrame, CmdInv, CmdOK
  <2>2. \A j \in Cmds : j # k => todo'[j] = todo[j]
    BY <1>4 DEF TypeOK, KeepFrame, Lookup
  <2> QED
    BY <1>4, <2>1, <2>2 DEF TypeOK, KeepFrame, CmdInv, CmdOK, FrameInv
<1>5. ASSUME NEW k \in Cmds, NextLeg(k) PROVE CmdInv'
  BY <1>5 DEF TypeOK, NextLeg, SameFrame, PutFrame, CmdInv, CmdOK
<1>6. ASSUME NEW k \in Cmds, NEW c \in Conns, Visit(k, c) PROVE CmdInv'
  <2>1. Op(k).closes
    BY <1>6, HereFacts DEF Visit, CmdInv, CmdOK
  <2> QED
    BY <1>6, <2>1 DEF TypeOK, Visit, CmdInv, CmdOK
<1>7. ASSUME NEW k \in Cmds, NEW c \in Conns, LookOpen(k, c) PROVE CmdInv'
  BY <1>7 DEF TypeOK, LookOpen, CmdInv, CmdOK
<1>8. ASSUME NEW k \in Cmds, NEW c \in Conns, LookClosed(k, c) PROVE CmdInv'
  BY <1>8 DEF TypeOK, LookClosed, WriteFailed, Written, PutFrame, CmdInv, CmdOK
<1>9. ASSUME NEW k \in Cmds, Write(k) PROVE CmdInv'
  BY <1>9 DEF TypeOK, Write, Written, CmdInv, CmdOK
<1>10. ASSUME NEW k \in Cmds, WriteError(k) PROVE CmdInv'
  BY <1>10 DEF TypeOK, WriteError, Written, PutFrame, CmdInv, CmdOK
<1>11. ASSUME NEW k \in Cmds, CompressError(k) PROVE CmdInv'
  BY <1>11 DEF TypeOK, CompressError, WriteFailed, Written, PutFrame, CmdInv, CmdOK
<1>12. ASSUME NEW k \in Cmds, FlagLost(k) PROVE CmdInv'
  BY <1>12 DEF TypeOK, FlagLost, Closed, CmdInv, CmdOK
<1>13. ASSUME NEW k \in Cmds, FlagWon(k) PROVE CmdInv'
  BY <1>13 DEF TypeOK, FlagWon, CmdInv, CmdOK
<1>14. ASSUME NEW k \in Cmds, SendClose(k) PROVE CmdInv'
  BY <1>14 DEF TypeOK, SendClose, Closed, CmdInv, CmdOK
<1>15. ASSUME NEW k \in Cmds, SendCloseError(k) PROVE CmdInv'
  BY <1>15 DEF TypeOK, SendCloseError, Closed, CmdInv, CmdOK
<1>16. ASSUME NEW c \in Conns, Timer(c) PROVE CmdInv'
  BY <1>16 DEF TypeOK, Timer, CmdInv, CmdOK
<1>17. ASSUME NEW c \in Conns, Run(c) PROVE CmdInv'
  BY <1>17 DEF TypeOK, Run, CmdInv, CmdOK
<1>18. ASSUME NEW c \in Conns, End(c) PROVE CmdInv'
  BY <1>18 DEF TypeOK, End, CmdInv, CmdOK
<1>19. ASSUME NEW c \in Conns, Hangup(c) PROVE CmdInv'
  BY <1>19 DEF TypeOK, Hangup, CmdInv, CmdOK
<1>20. ASSUME NEW c \in Conns, ClientClose(c) PROVE CmdInv'
  BY <1>20 DEF TypeOK, ClientClose, CmdInv, CmdOK
<1>21. ASSUME NEW c \in Conns, IllegalFrame(c) PROVE CmdInv'
  BY <1>21 DEF TypeOK, IllegalFrame, CmdInv, CmdOK
<1>22. ASSUME NEW c \in Conns, Unlist(c) PROVE CmdInv'
  BY <1>22 DEF TypeOK, Unlist, CmdInv, CmdOK
<1>23. CASE UNCHANGED vars
  BY <1>23 DEF TypeOK, vars, CmdInv, CmdOK
<1> QED
  BY <1>1, <1>2, <1>3, <1>4, <1>5, <1>6, <1>7, <1>8, <1>9, <1>10, <1>11, <1>12,
     <1>13, <1>14, <1>15, <1>16, <1>17, <1>18, <1>19, <1>20, <1>21, <1>22, <1>23 DEF Next, Command, Loop

\* A Frame that goes back to the pool is empty.
LEMMA PutFrameStep ==
    ASSUME TypeOK, FrameInv, NEW k \in Cmds, PutFrame(k), req' = req, \A j \in Cmds \ {k} : leg'[j] = leg[j]
    PROVE  FrameInv'
<1>1. frame' = [frame EXCEPT ![k] = NoFrame]
  BY DEF PutFrame
<1>2. CASE frame[k] = NoFrame
  <2>1. data' = data /\ compressed' = compressed /\ uncompressed' = uncompressed /\ frame' = frame
    BY <1>1, <1>2 DEF PutFrame, frames, TypeOK
  <2> QED
    BY <1>2, <2>1 DEF FrameInv, Here, Legs
<1>3. CASE frame[k] # NoFrame
  <2> DEFINE g == frame[k]
  <2>1. /\ data' = [data EXCEPT ![g] = NoMsg]
        /\ compressed' = [compressed EXCEPT ![g] = NoMsg]
        /\ uncompressed' = [uncompressed EXCEPT ![g] = NoMsg]
    BY <1>3 DEF PutFrame, Reset
  <2>2. g \in Frames /\ \A j \in Cmds : frame[j] = g => j = k
    BY <1>3 DEF FrameInv, TypeOK
  <2> HIDE DEF g
  <2>3. \A j \in Cmds : frame'[j] # NoFrame => j # k /\ frame'[j] = frame[j] /\ frame[j] # g
    BY <1>1, <2>2 DEF TypeOK
  <2>4. \A f \in Frames : (\A j \in Cmds : frame'[j] # f) => f = g \/ (\A j \in Cmds : frame[j] # f)
    BY <1>1, <2>2 DEF TypeOK, g
  <2>5. \A j \in Cmds : frame'[j] # NoFrame => Here(j)' = Here(j)
    BY <2>3 DEF Here, Legs
  <2>6. \A f \in Frames : f # g => data'[f] = data[f] /\ compressed'[f] = compressed[f]
                                    /\ uncompressed'[f] = uncompressed[f]
    BY <2>1, <2>2 DEF TypeOK
  <2>7. data'[g] = NoMsg /\ compressed'[g] = NoMsg /\ uncompressed'[g] = NoMsg
    BY <2>1, <2>2 DEF TypeOK
  <2>8. \A j \in Cmds : frame[j] # NoFrame => frame[j] \in Frames
    BY DEF TypeOK
  <2> QED
    BY <2>3, <2>4, <2>5, <2>6, <2>7, <2>8 DEF FrameInv
<1> QED
  BY <1>2, <1>3

\* An encoding comes from the message of the Frame.
LEMMA EncodeStep ==
    ASSUME TypeOK, FrameInv, NEW k \in Cmds, Encode(k), frame[k] # NoFrame,
           UNCHANGED <<frame, data, leg, req>>
    PROVE  FrameInv'
<1>1. frame[k] \in Frames /\ data[frame[k]] = Here(k).msg
  BY DEF TypeOK, FrameInv
<1>2. /\ compressed' \in {compressed, [compressed EXCEPT ![frame[k]] = Here(k).msg]}
      /\ uncompressed' \in {uncompressed, [uncompressed EXCEPT ![frame[k]] = Here(k).msg]}
  BY <1>1 DEF Encode
<1> QED
  BY <1>1, <1>2 DEF FrameInv, Here, Legs, TypeOK

\* Frames are not shared, and what a Frame caches belongs to its message.
LEMMA FrameStep ==
    TypeOK /\ CmdInv /\ FrameInv /\ [Next]_vars => FrameInv'
<1> SUFFICES ASSUME TypeOK, CmdInv, FrameInv, [Next]_vars PROVE FrameInv'
  OBVIOUS
<1> USE DEF exec, work, frames, conn
<1>s. ASSUME UNCHANGED <<frame, frames, leg, req>> PROVE FrameInv'
  BY <1>s DEF FrameInv, Here, Legs
<1>1. ASSUME NEW t \in Tasks, NEW r \in Requests, Receive(t, r) PROVE FrameInv'
  <2>1. \A k \in Cmds : frame[k] # NoFrame => k \in 1 .. count
    BY Underway DEF CmdInv, CmdOK
  <2>2. \A k \in Cmds : frame[k] # NoFrame => req'[k] = req[k]
    BY <1>1, <2>1, ReceiveFacts
  <2> QED
    BY <1>1, <2>2 DEF Receive, FrameInv, Here, Legs
<1>2. ASSUME NEW k \in Cmds, Start(k) PROVE FrameInv'
  BY <1>2, <1>s DEF Start
<1>3. ASSUME NEW k \in Cmds, NEW f \in Frames, GetFrame(k, f) PROVE FrameInv'
  <2>1. Here(k).msg # NoMsg /\ frame[k] = NoFrame /\ \A j \in Cmds : frame[j] # f
    BY <1>3 DEF GetFrame
  <2>2. \A j \in Cmds : Here(j)' = Here(j)
    BY <1>3 DEF GetFrame, Here, Legs
  <2> QED
    BY <1>3, <2>1, <2>2, ConstantsAssumption DEF GetFrame, FrameInv, TypeOK
<1>4. ASSUME NEW k \in Cmds, KeepFrame(k) PROVE FrameInv'
  BY <1>4, <1>s DEF KeepFrame
<1>5. ASSUME NEW k \in Cmds, NextLeg(k) PROVE FrameInv'
  <2>1. CASE SameFrame(k)
    <3>1. Here(k)'.msg = Here(k).msg /\ \A j \in Cmds \ {k} : Here(j)' = Here(j)
      BY <1>5, <2>1 DEF NextLeg, SameFrame, Here, Legs, TypeOK
    <3> QED
      BY <1>5, <2>1, <3>1 DEF NextLeg, FrameInv
  <2>2. CASE ~SameFrame(k)
    BY <1>5, <2>2, PutFrameStep DEF NextLeg, TypeOK
  <2> QED
    BY <2>1, <2>2
<1>6. ASSUME NEW k \in Cmds, NEW c \in Conns, Visit(k, c) PROVE FrameInv'
  BY <1>6, <1>s DEF Visit
<1>7. ASSUME NEW k \in Cmds, NEW c \in Conns, LookOpen(k, c) PROVE FrameInv'
  BY <1>7, <1>s DEF LookOpen
<1>8. ASSUME NEW k \in Cmds, NEW c \in Conns, LookClosed(k, c) PROVE FrameInv'
  <2>1. CASE GivesUp(k)
    BY <1>8, <2>1, PutFrameStep DEF LookClosed, WriteFailed
  <2>2. CASE ~GivesUp(k)
    BY <1>8, <2>2, <1>s DEF LookClosed, WriteFailed
  <2> QED
    BY <2>1, <2>2
<1>9. ASSUME NEW k \in Cmds, Write(k) PROVE FrameInv'
  BY <1>9, EncodeStep DEF Write, CmdInv, CmdOK
<1>10. ASSUME NEW k \in Cmds, WriteError(k) PROVE FrameInv'
  <2>1. CASE GivesUp(k)
    BY <1>10, <2>1, PutFrameStep DEF WriteError
  <2>2. CASE ~GivesUp(k)
    BY <1>10, <2>2, EncodeStep DEF WriteError, CmdInv, CmdOK
  <2> QED
    BY <2>1, <2>2
<1>11. ASSUME NEW k \in Cmds, CompressError(k) PROVE FrameInv'
  <2>1. CASE GivesUp(k)
    BY <1>11, <2>1, PutFrameStep DEF CompressError, WriteFailed
  <2>2. CASE ~GivesUp(k)
    BY <1>11, <2>2, <1>s DEF CompressError, WriteFailed
  <2> QED
    BY <2>1, <2>2
<1>12. ASSUME NEW k \in Cmds, FlagLost(k) PROVE FrameInv'
  BY <1>12, <1>s DEF FlagLost
<1>13. ASSUME NEW k \in Cmds, FlagWon(k) PROVE FrameInv'
  BY <1>13, <1>s DEF FlagWon
<1>14. ASSUME NEW k \in Cmds, SendClose(k) PROVE FrameInv'
  BY <1>14, <1>s DEF SendClose
<1>15. ASSUME NEW k \in Cmds, SendCloseError(k) PROVE FrameInv'
  BY <1>15, <1>s DEF SendCloseError
<1>16. ASSUME NEW c \in Conns, Timer(c) PROVE FrameInv'
  BY <1>16, <1>s DEF Timer
<1>17. ASSUME NEW c \in Conns, Run(c) PROVE FrameInv'
  BY <1>17, <1>s DEF Run
<1>18. ASSUME NEW c \in Conns, End(c) PROVE FrameInv'
  BY <1>18, <1>s DEF End
<1>19. ASSUME NEW c \in Conns, Hangup(c) PROVE FrameInv'
  BY <1>19, <1>s DEF Hangup
<1>20. ASSUME NEW c \in Conns, ClientClose(c) PROVE FrameInv'
  BY <1>20, <1>s DEF ClientClose
<1>21. ASSUME NEW c \in Conns, IllegalFrame(c) PROVE FrameInv'
  BY <1>21, <1>s DEF IllegalFrame
<1>22. ASSUME NEW c \in Conns, Unlist(c) PROVE FrameInv'
  BY <1>22, <1>s DEF Unlist
<1>23. CASE UNCHANGED vars
  BY <1>23, <1>s DEF vars
<1> QED
  BY <1>1, <1>2, <1>3, <1>4, <1>5, <1>6, <1>7, <1>8, <1>9, <1>10, <1>11, <1>12,
     <1>13, <1>14, <1>15, <1>16, <1>17, <1>18, <1>19, <1>20, <1>21, <1>22, <1>23 DEF Next, Command, Loop

-----------------------------------------------------------------------------
(***************************************************************************)
(* The lookups find what a leg addresses, and nothing else.                *)
(***************************************************************************)
LEMMA FoundFacts ==
    ASSUME TypeOK, NEW k \in 1 .. count, NEW n \in DOMAIN Legs(k), NEW c \in Conns
    PROVE  /\ c \in Found(Legs(k)[n].to) /\ (Op(k).guests => c \notin LoggedIn) => Addresses(k, n, c)
           /\ c \in listed /\ Addresses(k, n, c) => c \in Found(Legs(k)[n].to)
<1>1. Legs(k)[n].to \in Conns \cup Topics \cup Customers \cup {All}
  BY RequestFacts
<1>2. DOMAIN Members = Topics \cup Customers /\ Conns \cap (Topics \cup Customers) = {}
      /\ All \notin Conns \cup Topics \cup Customers
  BY ConstantsAssumption
<1>3. Op(k).guests \in BOOLEAN
  BY CallbackFacts, RequestFacts
<1> DEFINE y == Legs(k)[n].to
           named == y = All \/ y = c \/ (y \in DOMAIN Members /\ c \in Members[y])
<1>4. Addresses(k, n, c) <=> named /\ (Op(k).guests => c \notin LoggedIn)
  BY <1>3 DEF Addresses
<1>5. c \in Found(y) => named /\ c \in listed
  BY <1>2 DEF Found, Get, GetConnections, GetConnListByTopic, GetConnListByCustomerId
<1>6. c \in listed /\ named => c \in Found(y)
  BY <1>1, <1>2 DEF Found, Get, GetConnections, GetConnListByTopic, GetConnListByCustomerId
<1> QED
  BY <1>4, <1>5, <1>6

\* A leg is about to visit every connection that is open and that it addresses.
LEMMA LookupFacts ==
    ASSUME TypeOK, CmdInv, ConnInv, ListInv, NEW k \in Cmds, pc[k] = "leg", Lookup(k), NEW c \in Conns
    PROVE  /\ c \in todo'[k] => Addresses(k, leg[k], c)
           /\ Addresses(k, leg[k], c) /\ opened[c] => c \in todo'[k]
<1>1. k \in 1 .. count /\ leg[k] \in DOMAIN Legs(k) /\ Here(k) = Legs(k)[leg[k]] /\ Op(k) \in Callbacks
  BY HereFacts, RequestFacts DEF Here
<1>2. todo'[k] = IF Op(k).listedOnce
                 THEN {d \in list[k] : Here(k).to = All \/ d \in Members[Here(k).to]}
                 ELSE Found(Here(k).to) \ (IF Op(k).guests THEN LoggedIn ELSE {})
  BY DEF Lookup, TypeOK
<1>3. opened[c] => c \in listed
  BY DEF ConnInv
<1>4. CASE Op(k).listedOnce
  <2>1. ~Op(k).guests /\ Here(k).to \in {All} \cup DOMAIN Members /\ Here(k).to # c
    <3>1. ~Op(k).guests
      BY <1>1, <1>4, CallbackFacts
    <3>2. Here(k).to \in Topics \cup Customers \cup {All} /\ Here(k).to \notin Conns
      BY <1>1, <1>4, RequestFacts
    <3>3. DOMAIN Members = Topics \cup Customers
      BY ConstantsAssumption
    <3> QED
      BY <3>1, <3>2, <3>3
  <2>2. Addresses(k, leg[k], c) <=> Here(k).to = All \/ c \in Members[Here(k).to]
    BY <1>1, <2>1, ConstantsAssumption DEF Addresses
  <2>3. Addresses(k, leg[k], c) /\ opened[c] => c \in list[k]
    BY <1>1, <1>4 DEF ListInv
  <2> QED
    BY <1>2, <1>4, <2>2, <2>3
<1>5. CASE ~Op(k).listedOnce
  <2>1. c \in todo'[k] <=> c \in Found(Here(k).to) /\ (Op(k).guests => c \notin LoggedIn)
    BY <1>2, <1>5
  <2>2. Addresses(k, leg[k], c) => (Op(k).guests => c \notin LoggedIn)
    BY DEF Addresses
  <2> QED
    BY <1>1, <1>3, <2>1, <2>2, FoundFacts
<1> QED
  BY <1>4, <1>5

\* A request is not changed once received.
LEMMA RequestStays ==
    ASSUME TypeOK, CmdInv, [Next]_vars, NEW k \in 1 .. count
    PROVE  /\ req'[k] = req[k] /\ by'[k] = by[k] /\ Legs(k)' = Legs(k) /\ Op(k)' = Op(k)
           /\ \A n, c : Addresses(k, n, c)' <=> Addresses(k, n, c)
           /\ k \in 1 .. count'
<1>1. CASE \E t \in Tasks, r \in Requests : Receive(t, r)
  <2>1. PICK t \in Tasks, r \in Requests : Receive(t, r)
    BY <1>1
  <2>2. req'[k] = req[k] /\ by'[k] = by[k] /\ k \in 1 .. count'
    BY <2>1, ReceiveFacts
  <2> QED
    BY <2>2 DEF Addresses, Legs, Op
<1>2. CASE ~ \E t \in Tasks, r \in Requests : Receive(t, r)
  <2>1. req' = req /\ by' = by /\ count' = count
    BY <1>2 DEF Next, Command, Loop, vars, exec, Start, GetFrame, KeepFrame, NextLeg, Visit, LookOpen,
           LookClosed, Write, WriteError, CompressError, FlagLost, FlagWon, SendClose, SendCloseError,
           Timer, Run, End, Hangup, ClientClose, IllegalFrame, Unlist
  <2> QED
    BY <2>1 DEF Addresses, Legs, Op
<1> QED
  BY <1>1, <1>2

\* Connections close for good, and leave the indexes afterwards.
LEMMA ConnStep ==
    TypeOK /\ CmdInv /\ ConnInv /\ [Next]_vars => ConnInv'
<1> SUFFICES ASSUME TypeOK, CmdInv, ConnInv, [Next]_vars PROVE ConnInv'
  OBVIOUS
<1> USE DEF exec, work, frames, conn
<1>s. ASSUME UNCHANGED <<opened, closed, queue, listed>> PROVE ConnInv'
  BY <1>s DEF ConnInv
<1>1. ASSUME NEW t \in Tasks, NEW r \in Requests, Receive(t, r) PROVE ConnInv'
  BY <1>1, <1>s DEF Receive
<1>2. ASSUME NEW k \in Cmds, Start(k) PROVE ConnInv'
  BY <1>2, <1>s DEF Start
<1>3. ASSUME NEW k \in Cmds, NEW f \in Frames, GetFrame(k, f) PROVE ConnInv'
  BY <1>3, <1>s DEF GetFrame
<1>4. ASSUME NEW k \in Cmds, KeepFrame(k) PROVE ConnInv'
  BY <1>4, <1>s DEF KeepFrame
<1>5. ASSUME NEW k \in Cmds, NextLeg(k) PROVE ConnInv'
  BY <1>5, <1>s DEF NextLeg
<1>6. ASSUME NEW k \in Cmds, NEW c \in Conns, Visit(k, c) PROVE ConnInv'
  BY <1>6, <1>s DEF Visit
<1>7. ASSUME NEW k \in Cmds, NEW c \in Conns, LookOpen(k, c) PROVE ConnInv'
  BY <1>7, <1>s DEF LookOpen
<1>8. ASSUME NEW k \in Cmds, NEW c \in Conns, LookClosed(k, c) PROVE ConnInv'
  BY <1>8, <1>s DEF LookClosed, WriteFailed
<1>9. ASSUME NEW k \in Cmds, Write(k) PROVE ConnInv'
  BY <1>9 DEF Write, Hand, ConnInv, TypeOK
<1>10. ASSUME NEW k \in Cmds, WriteError(k) PROVE ConnInv'
  BY <1>10 DEF WriteError, Hand, ConnInv, TypeOK
<1>11. ASSUME NEW k \in Cmds, CompressError(k) PROVE ConnInv'
  BY <1>11, <1>s DEF CompressError, WriteFailed
<1>12. ASSUME NEW k \in Cmds, FlagLost(k) PROVE ConnInv'
  BY <1>12, <1>s DEF FlagLost
<1>13. ASSUME NEW k \in Cmds, FlagWon(k) PROVE ConnInv'
  BY <1>13 DEF FlagWon, ConnInv, TypeOK
<1>14. ASSUME NEW k \in Cmds, SendClose(k) PROVE ConnInv'
  BY <1>14 DEF SendClose, Hand, ConnInv, TypeOK
<1>15. ASSUME NEW k \in Cmds, SendCloseError(k) PROVE ConnInv'
  BY <1>15 DEF SendCloseError, Hand, ConnInv, TypeOK
<1>16. ASSUME NEW c \in Conns, Timer(c) PROVE ConnInv'
  BY <1>16 DEF Timer, Hand, ConnInv, TypeOK
<1>17. ASSUME NEW c \in Conns, Run(c) PROVE ConnInv'
  BY <1>17 DEF Run, ConnInv, TypeOK
<1>18. ASSUME NEW c \in Conns, End(c) PROVE ConnInv'
  <2>1. Close(c) /\ listed' = listed
    BY <1>18 DEF End
  <2> QED
    BY <2>1 DEF Close, ConnInv, TypeOK
<1>19. ASSUME NEW c \in Conns, Hangup(c) PROVE ConnInv'
  <2>1. Close(c) /\ listed' = listed
    BY <1>19 DEF Hangup
  <2> QED
    BY <2>1 DEF Close, ConnInv, TypeOK
<1>20. ASSUME NEW c \in Conns, ClientClose(c) PROVE ConnInv'
  <2>1. Close(c) /\ listed' = listed
    BY <1>20 DEF ClientClose
  <2> QED
    BY <2>1 DEF Close, ConnInv, TypeOK
<1>21. ASSUME NEW c \in Conns, IllegalFrame(c) PROVE ConnInv'
  <2>1. Close(c) /\ listed' = listed
    BY <1>21 DEF IllegalFrame
  <2> QED
    BY <2>1 DEF Close, ConnInv, TypeOK
<1>22. ASSUME NEW c \in Conns, Unlist(c) PROVE ConnInv'
  BY <1>22 DEF Unlist, ConnInv, TypeOK
<1>23. CASE UNCHANGED vars
  BY <1>23, <1>s DEF vars
<1> QED
  BY <1>1, <1>2, <1>3, <1>4, <1>5, <1>6, <1>7, <1>8, <1>9, <1>10, <1>11, <1>12,
     <1>13, <1>14, <1>15, <1>16, <1>17, <1>18, <1>19, <1>20, <1>21, <1>22, <1>23 DEF Next, Command, Loop

\* No connection comes back, and no flag comes down.
LEMMA Forever ==
    ASSUME TypeOK, [Next]_vars, NEW c \in Conns
    PROVE  (opened'[c] => opened[c]) /\ (closed[c] => closed'[c])
<1> USE DEF vars, exec, work, frames, conn, TypeOK
<1>1. CASE \E d \in Conns : Timer(d) \/ Loop(d)
  BY <1>1, ZenonT(40) DEF Timer, Loop, Run, End, Hangup, ClientClose, IllegalFrame, Unlist, Close
<1>2. CASE \E k \in Cmds : Command(k)
  BY <1>2, ZenonT(40) DEF Command, Start, GetFrame, KeepFrame, NextLeg, Visit, LookOpen, LookClosed, Write, WriteError,
         CompressError, FlagLost, FlagWon, SendClose, SendCloseError
<1>3. CASE \E t \in Tasks, r \in Requests : Receive(t, r)
  BY <1>3 DEF Receive
<1>4. CASE UNCHANGED vars
  BY <1>4
<1> QED
  BY <1>1, <1>2, <1>3, <1>4 DEF Next

\* Only the commands in their first step make a list.
LEMMA ListStep ==
    TypeOK /\ CmdInv /\ ConnInv /\ ListInv /\ [Next]_vars => ListInv'
<1> SUFFICES ASSUME TypeOK, CmdInv, ConnInv, ListInv, [Next]_vars PROVE ListInv'
  OBVIOUS
<1> USE DEF exec, work, frames, conn
<1>s. ASSUME list' = list, count' = count,
             \A k \in 1 .. count : pc[k] = "start" => pc'[k] = "start"
      PROVE  ListInv'
  BY <1>s, Forever, RequestStays DEF ListInv
<1>r. \A k \in 1 .. count : k \in Cmds /\ pc[k] \in Steps
  BY RequestFacts DEF TypeOK
<1>1. ASSUME NEW t \in Tasks, NEW r \in Requests, Receive(t, r) PROVE ListInv'
  <2>1. \A k \in 1 .. count : k # count + 1 /\ pc'[k] = pc[k]
    BY <1>1, <1>r DEF Receive, TypeOK
  <2>2. pc'[count + 1] = "start" /\ \A k \in 1 .. count' : k \in 1 .. count \/ k = count + 1
    BY <1>1, ReceiveFacts DEF Receive, TypeOK
  <2>3. \A k \in 1 .. count : Legs(k)' = Legs(k) /\ Op(k)' = Op(k)
                              /\ \A n, c : Addresses(k, n, c)' <=> Addresses(k, n, c)
    BY RequestStays
  <2> QED
    BY <1>1, <2>1, <2>2, <2>3 DEF Receive, ListInv
<1>2. ASSUME NEW k \in Cmds, Start(k) PROVE ListInv'
  <2>1. count' = count /\ \A j \in 1 .. count : j # k => list'[j] = list[j] /\ pc'[j] = pc[j]
    BY <1>2, <1>r DEF Start, TypeOK
  <2>2. k \in 1 .. count
    BY <1>2, Underway DEF Start
  <2>3. ASSUME NEW n \in DOMAIN Legs(k), NEW c \in Conns,
               Op(k).listedOnce, Addresses(k, n, c), opened[c]
        PROVE  c \in list'[k]
    <3>1. c \in Found(Legs(k)[n].to)
      BY <2>2, <2>3, FoundFacts DEF ConnInv
    <3>2. Legs(k)[n].to \in Targets(k)
      BY DEF Targets
    <3> QED
      BY <1>2, <2>3, <3>1, <3>2 DEF Start, TypeOK
  <2> QED
    BY <1>2, <2>1, <2>2, <2>3, Forever, RequestStays DEF ListInv
<1>3. ASSUME NEW k \in Cmds, NEW f \in Frames, GetFrame(k, f) PROVE ListInv'
  BY <1>3, <1>s, <1>r DEF GetFrame, TypeOK
<1>4. ASSUME NEW k \in Cmds, KeepFrame(k) PROVE ListInv'
  BY <1>4, <1>s, <1>r DEF KeepFrame, TypeOK
<1>5. ASSUME NEW k \in Cmds, NextLeg(k) PROVE ListInv'
  BY <1>5, <1>s, <1>r DEF NextLeg, TypeOK
<1>6. ASSUME NEW k \in Cmds, NEW c \in Conns, Visit(k, c) PROVE ListInv'
  BY <1>6, <1>s, <1>r DEF Visit, TypeOK
<1>7. ASSUME NEW k \in Cmds, NEW c \in Conns, LookOpen(k, c) PROVE ListInv'
  BY <1>7, <1>s, <1>r DEF LookOpen, TypeOK
<1>8. ASSUME NEW k \in Cmds, NEW c \in Conns, LookClosed(k, c) PROVE ListInv'
  BY <1>8, <1>s, <1>r DEF LookClosed, WriteFailed, Written, TypeOK
<1>9. ASSUME NEW k \in Cmds, Write(k) PROVE ListInv'
  BY <1>9, <1>s, <1>r DEF Write, Written, TypeOK
<1>10. ASSUME NEW k \in Cmds, WriteError(k) PROVE ListInv'
  BY <1>10, <1>s, <1>r DEF WriteError, Written, TypeOK
<1>11. ASSUME NEW k \in Cmds, CompressError(k) PROVE ListInv'
  BY <1>11, <1>s, <1>r DEF CompressError, WriteFailed, Written, TypeOK
<1>12. ASSUME NEW k \in Cmds, FlagLost(k) PROVE ListInv'
  BY <1>12, <1>s, <1>r DEF FlagLost, Closed, TypeOK
<1>13. ASSUME NEW k \in Cmds, FlagWon(k) PROVE ListInv'
  BY <1>13, <1>s, <1>r DEF FlagWon, TypeOK
<1>14. ASSUME NEW k \in Cmds, SendClose(k) PROVE ListInv'
  BY <1>14, <1>s, <1>r DEF SendClose, Closed, TypeOK
<1>15. ASSUME NEW k \in Cmds, SendCloseError(k) PROVE ListInv'
  BY <1>15, <1>s, <1>r DEF SendCloseError, Closed, TypeOK
<1>16. ASSUME NEW c \in Conns, Timer(c) PROVE ListInv'
  BY <1>16, <1>s, <1>r DEF Timer, TypeOK
<1>17. ASSUME NEW c \in Conns, Run(c) PROVE ListInv'
  BY <1>17, <1>s, <1>r DEF Run, TypeOK
<1>18. ASSUME NEW c \in Conns, End(c) PROVE ListInv'
  BY <1>18, <1>s, <1>r DEF End, TypeOK
<1>19. ASSUME NEW c \in Conns, Hangup(c) PROVE ListInv'
  BY <1>19, <1>s, <1>r DEF Hangup, TypeOK
<1>20. ASSUME NEW c \in Conns, ClientClose(c) PROVE ListInv'
  BY <1>20, <1>s, <1>r DEF ClientClose, TypeOK
<1>21. ASSUME NEW c \in Conns, IllegalFrame(c) PROVE ListInv'
  BY <1>21, <1>s, <1>r DEF IllegalFrame, TypeOK
<1>22. ASSUME NEW c \in Conns, Unlist(c) PROVE ListInv'
  BY <1>22, <1>s, <1>r DEF Unlist, TypeOK
<1>23. CASE UNCHANGED vars
  BY <1>23, <1>s, <1>r DEF vars, TypeOK
<1> QED
  BY <1>1, <1>2, <1>3, <1>4, <1>5, <1>6, <1>7, <1>8, <1>9, <1>10, <1>11, <1>12,
     <1>13, <1>14, <1>15, <1>16, <1>17, <1>18, <1>19, <1>20, <1>21, <1>22, <1>23 DEF Next, Command, Loop

\* A command takes its target from what the lookup left to do.
LEMMA TargetStep ==
    TypeOK /\ CmdInv /\ ConnInv /\ ListInv /\ TargetInv /\ [Next]_vars => TargetInv'
<1> SUFFICES ASSUME TypeOK, CmdInv, ConnInv, ListInv, TargetInv, [Next]_vars PROVE TargetInv'
  OBVIOUS
<1> USE DEF exec, work, frames, conn
<1>r. ASSUME NEW k \in Cmds, NEW c \in Conns, c \in todo[k] \/ target[k] = c
      PROVE  /\ leg'[k] = leg[k] => Addresses(k, leg[k], c)'
             /\ Addresses(k, leg[k], c)
  <2>0. pc[k] # "none"
    BY <1>r, ConstantsAssumption DEF CmdInv, CmdOK, Visiting
  <2>1. k \in 1 .. count /\ Addresses(k, leg[k], c)
    BY <1>r, <2>0, Underway DEF TargetInv
  <2> QED
    BY <2>1, RequestStays
<1>s. ASSUME leg' = leg,
             \A k \in Cmds : todo'[k] \subseteq todo[k] /\ target'[k] \in {target[k], NoConn} \cup todo[k]
      PROVE  TargetInv'
  <2> SUFFICES ASSUME NEW k \in Cmds, NEW c \in Conns, c \in todo'[k] \/ target'[k] = c
               PROVE  Addresses(k, leg[k], c)'
    BY DEF TargetInv
  <2>1. c \in todo[k] \/ target[k] = c
    BY <1>s, ConstantsAssumption
  <2> QED
    BY <1>r, <1>s, <2>1
<1>l. ASSUME leg' = leg, target' = target, NEW k \in Cmds, pc[k] = "leg", Lookup(k), k \in 1 .. count
      PROVE  TargetInv'
  <2> SUFFICES ASSUME NEW j \in Cmds, NEW c \in Conns, c \in todo'[j] \/ target'[j] = c
               PROVE  Addresses(j, leg[j], c)'
    BY DEF TargetInv
  <2>1. CASE j = k
    <3>1. Addresses(k, leg[k], c)
      BY <1>l, <1>r, <2>1, LookupFacts
    <3> QED
      BY <1>l, <2>1, <3>1, RequestStays
  <2>2. CASE j # k
    BY <1>l, <1>r, <2>2 DEF Lookup, TypeOK
  <2> QED
    BY <2>1, <2>2
<1>1. ASSUME NEW t \in Tasks, NEW r \in Requests, Receive(t, r) PROVE TargetInv'
  BY <1>1, <1>s DEF Receive, TypeOK
<1>2. ASSUME NEW k \in Cmds, Start(k) PROVE TargetInv'
  BY <1>2, <1>s DEF Start, TypeOK
<1>3. ASSUME NEW k \in Cmds, NEW f \in Frames, GetFrame(k, f) PROVE TargetInv'
  BY <1>3, <1>l, Underway DEF GetFrame
<1>4. ASSUME NEW k \in Cmds, KeepFrame(k) PROVE TargetInv'
  BY <1>4, <1>l, Underway DEF KeepFrame
<1>5. ASSUME NEW k \in Cmds, NextLeg(k) PROVE TargetInv'
  <2> SUFFICES ASSUME NEW j \in Cmds, NEW c \in Conns, c \in todo'[j] \/ target'[j] = c
               PROVE  Addresses(j, leg[j], c)'
    BY DEF TargetInv
  <2>1. todo[k] = {} /\ target[k] = NoConn /\ c # NoConn
    BY <1>5, ConstantsAssumption DEF NextLeg, CmdInv, CmdOK
  <2>2. j # k /\ leg'[j] = leg[j]
    BY <1>5, <2>1 DEF NextLeg, TypeOK
  <2> QED
    BY <1>5, <1>r, <2>2 DEF NextLeg
<1>6. ASSUME NEW k \in Cmds, NEW c \in Conns, Visit(k, c) PROVE TargetInv'
  BY <1>6, <1>s DEF Visit, TypeOK
<1>7. ASSUME NEW k \in Cmds, NEW c \in Conns, LookOpen(k, c) PROVE TargetInv'
  BY <1>7, <1>s DEF LookOpen, TypeOK
<1>8. ASSUME NEW k \in Cmds, NEW c \in Conns, LookClosed(k, c) PROVE TargetInv'
  <2>1. CASE GivesUp(k)
    BY <1>8, <1>s, <2>1 DEF LookClosed, WriteFailed, Written, TypeOK
  <2>2. CASE ~GivesUp(k)
    BY <1>8, <1>s, <2>2 DEF LookClosed, WriteFailed, Written, TypeOK
  <2> QED
    BY <2>1, <2>2
<1>9. ASSUME NEW k \in Cmds, Write(k) PROVE TargetInv'
  BY <1>9, <1>s DEF Write, Written, TypeOK
<1>10. ASSUME NEW k \in Cmds, WriteError(k) PROVE TargetInv'
  <2>1. CASE GivesUp(k)
    BY <1>10, <1>s, <2>1 DEF WriteError, Written, TypeOK
  <2>2. CASE ~GivesUp(k)
    BY <1>10, <1>s, <2>2 DEF WriteError, Written, TypeOK
  <2> QED
    BY <2>1, <2>2
<1>11. ASSUME NEW k \in Cmds, CompressError(k) PROVE TargetInv'
  <2>1. CASE GivesUp(k)
    BY <1>11, <1>s, <2>1 DEF CompressError, WriteFailed, Written, TypeOK
  <2>2. CASE ~GivesUp(k)
    BY <1>11, <1>s, <2>2 DEF CompressError, WriteFailed, Written, TypeOK
  <2> QED
    BY <2>1, <2>2
<1>12. ASSUME NEW k \in Cmds, FlagLost(k) PROVE TargetInv'
  BY <1>12, <1>s DEF FlagLost, Closed, TypeOK
<1>13. ASSUME NEW k \in Cmds, FlagWon(k) PROVE TargetInv'
  BY <1>13, <1>s DEF FlagWon, TypeOK
<1>14. ASSUME NEW k \in Cmds, SendClose(k) PROVE TargetInv'
  BY <1>14, <1>s DEF SendClose, Closed, TypeOK
<1>15. ASSUME NEW k \in Cmds, SendCloseError(k) PROVE TargetInv'
  BY <1>15, <1>s DEF SendCloseError, Closed, TypeOK
<1>16. ASSUME NEW c \in Conns, Timer(c) PROVE TargetInv'
  BY <1>16, <1>s DEF Timer, TypeOK
<1>17. ASSUME NEW c \in Conns, Run(c) PROVE TargetInv'
  BY <1>17, <1>s DEF Run, TypeOK
<1>18. ASSUME NEW c \in Conns, End(c) PROVE TargetInv'
  BY <1>18, <1>s DEF End, TypeOK
<1>19. ASSUME NEW c \in Conns, Hangup(c) PROVE TargetInv'
  BY <1>19, <1>s DEF Hangup, TypeOK
<1>20. ASSUME NEW c \in Conns, ClientClose(c) PROVE TargetInv'
  BY <1>20, <1>s DEF ClientClose, TypeOK
<1>21. ASSUME NEW c \in Conns, IllegalFrame(c) PROVE TargetInv'
  BY <1>21, <1>s DEF IllegalFrame, TypeOK
<1>22. ASSUME NEW c \in Conns, Unlist(c) PROVE TargetInv'
  BY <1>22, <1>s DEF Unlist, TypeOK
<1>23. CASE UNCHANGED vars
  BY <1>23, <1>s DEF vars, TypeOK
<1> QED
  BY <1>1, <1>2, <1>3, <1>4, <1>5, <1>6, <1>7, <1>8, <1>9, <1>10, <1>11, <1>12,
     <1>13, <1>14, <1>15, <1>16, <1>17, <1>18, <1>19, <1>20, <1>21, <1>22, <1>23 DEF Next, Command, Loop

\* A task connection reads on only when the command it runs itself is over.
LEMMA BusyStep ==
    TypeOK /\ CmdInv /\ BusyInv /\ [Next]_vars => BusyInv'
<1> SUFFICES ASSUME TypeOK, CmdInv, BusyInv, [Next]_vars PROVE BusyInv'
  OBVIOUS
<1> USE DEF exec, work, frames, conn
<1>r. \A k \in 1 .. count : k \in Cmds /\ req'[k] = req[k] /\ by'[k] = by[k]
  BY RequestFacts, RequestStays
<1>s. ASSUME count' = count, \A k \in Cmds : pc[k] = "done" => pc'[k] = "done" PROVE BusyInv'
  BY <1>r, <1>s DEF BusyInv, Op
<1>1. ASSUME NEW t \in Tasks, NEW r \in Requests, Receive(t, r) PROVE BusyInv'
  <2>1. \A k \in 1 .. count : k # count + 1 /\ pc'[k] = pc[k]
    BY <1>1, <1>r DEF Receive, TypeOK
  <2>2. by'[count + 1] = t /\ count \in Nat /\ \A k \in 1 .. count' : k \in 1 .. count \/ k = count + 1
    BY <1>1, ReceiveFacts
  <2>3. \A k \in 1 .. count : by[k] = t /\ ~req[k].op.pooled => pc[k] = "done"
    BY <1>1 DEF Receive, Busy
  <2>4. ASSUME NEW j \in 1 .. count', NEW k \in 1 .. count', j < k, by'[j] = by'[k], ~req'[j].op.pooled
        PROVE  pc'[j] = "done"
    <3>1. j \in 1 .. count
      BY <2>2, <2>4
    <3>2. CASE k = count + 1
      BY <1>r, <2>1, <2>2, <2>3, <2>4, <3>1, <3>2
    <3>3. CASE k \in 1 .. count
      BY <1>r, <2>1, <2>4, <3>1, <3>3 DEF BusyInv, Op
    <3> QED
      BY <2>2, <3>2, <3>3
  <2> QED
    BY <2>4 DEF BusyInv, Op
<1>2. ASSUME NEW k \in Cmds, Start(k) PROVE BusyInv'
  BY <1>2, <1>s DEF Start, TypeOK
<1>3. ASSUME NEW k \in Cmds, NEW f \in Frames, GetFrame(k, f) PROVE BusyInv'
  BY <1>3, <1>s DEF GetFrame, TypeOK
<1>4. ASSUME NEW k \in Cmds, KeepFrame(k) PROVE BusyInv'
  BY <1>4, <1>s DEF KeepFrame, TypeOK
<1>5. ASSUME NEW k \in Cmds, NextLeg(k) PROVE BusyInv'
  BY <1>5, <1>s DEF NextLeg, TypeOK
<1>6. ASSUME NEW k \in Cmds, NEW c \in Conns, Visit(k, c) PROVE BusyInv'
  BY <1>6, <1>s DEF Visit, TypeOK
<1>7. ASSUME NEW k \in Cmds, NEW c \in Conns, LookOpen(k, c) PROVE BusyInv'
  BY <1>7, <1>s DEF LookOpen, TypeOK
<1>8. ASSUME NEW k \in Cmds, NEW c \in Conns, LookClosed(k, c) PROVE BusyInv'
  BY <1>8, <1>s DEF LookClosed, WriteFailed, Written, TypeOK
<1>9. ASSUME NEW k \in Cmds, Write(k) PROVE BusyInv'
  BY <1>9, <1>s DEF Write, Written, TypeOK
<1>10. ASSUME NEW k \in Cmds, WriteError(k) PROVE BusyInv'
  BY <1>10, <1>s DEF WriteError, Written, TypeOK
<1>11. ASSUME NEW k \in Cmds, CompressError(k) PROVE BusyInv'
  BY <1>11, <1>s DEF CompressError, WriteFailed, Written, TypeOK
<1>12. ASSUME NEW k \in Cmds, FlagLost(k) PROVE BusyInv'
  BY <1>12, <1>s DEF FlagLost, Closed, TypeOK
<1>13. ASSUME NEW k \in Cmds, FlagWon(k) PROVE BusyInv'
  BY <1>13, <1>s DEF FlagWon, TypeOK
<1>14. ASSUME NEW k \in Cmds, SendClose(k) PROVE BusyInv'
  BY <1>14, <1>s DEF SendClose, Closed, TypeOK
<1>15. ASSUME NEW k \in Cmds, SendCloseError(k) PROVE BusyInv'
  BY <1>15, <1>s DEF SendCloseError, Closed, TypeOK
<1>16. ASSUME NEW c \in Conns, Timer(c) PROVE BusyInv'
  BY <1>16, <1>s DEF Timer, TypeOK
<1>17. ASSUME NEW c \in Conns, Run(c) PROVE BusyInv'
  BY <1>17, <1>s DEF Run, TypeOK
<1>18. ASSUME NEW c \in Conns, End(c) PROVE BusyInv'
  BY <1>18, <1>s DEF End, TypeOK
<1>19. ASSUME NEW c \in Conns, Hangup(c) PROVE BusyInv'
  BY <1>19, <1>s DEF Hangup, TypeOK
<1>20. ASSUME NEW c \in Conns, ClientClose(c) PROVE BusyInv'
  BY <1>20, <1>s DEF ClientClose, TypeOK
<1>21. ASSUME NEW c \in Conns, IllegalFrame(c) PROVE BusyInv'
  BY <1>21, <1>s DEF IllegalFrame, TypeOK
<1>22. ASSUME NEW c \in Conns, Unlist(c) PROVE BusyInv'
  BY <1>22, <1>s DEF Unlist, TypeOK
<1>23. CASE UNCHANGED vars
  BY <1>23, <1>s DEF vars, TypeOK
<1> QED
  BY <1>1, <1>2, <1>3, <1>4, <1>5, <1>6, <1>7, <1>8, <1>9, <1>10, <1>11, <1>12,
     <1>13, <1>14, <1>15, <1>16, <1>17, <1>18, <1>19, <1>20, <1>21, <1>22, <1>23 DEF Next, Command, Loop

\* A new command has passed nothing, and the others have passed what they had.
LEMMA ReceivePassed ==
    ASSUME TypeOK, CmdInv, NEW t \in Tasks, NEW r \in Requests, Receive(t, r), NEW k \in 1 .. count'
    PROVE  \/ /\ k \in 1 .. count /\ pc'[k] = pc[k]
              /\ \A n, c : Passed(k, n, c)' <=> Passed(k, n, c)
           \/ /\ k = count + 1 /\ pc'[k] = "start"
              /\ \A n \in DOMAIN Legs(k)' : \A c : ~Passed(k, n, c)'
<1>1. count \in Nat /\ count' = count + 1 /\ count + 1 \in Cmds /\ pc[count + 1] = "none"
  BY ReceiveFacts
<1>2. CASE k \in 1 .. count
  <2>1. k \in Cmds /\ k # count + 1
    BY <1>1, <1>2, RequestFacts
  <2>2. pc'[k] = pc[k] /\ leg' = leg /\ todo' = todo
    BY <2>1 DEF Receive, TypeOK, work
  <2> QED
    BY <1>2, <2>2 DEF Passed
<1>3. CASE k = count + 1
  <2>1. pc'[k] = "start" /\ leg'[k] = 1
    BY <1>1, <1>3 DEF Receive, TypeOK, CmdInv, CmdOK
  <2>2. Legs(k)' \in Seq(Leg)
    BY <1>3, ReceiveFacts DEF Legs
  <2>3. \A n \in DOMAIN Legs(k)' : n \in Nat /\ n >= 1
    BY <2>2, LenProperties
  <2> QED
    BY <1>3, <2>1, <2>3 DEF Passed, Visiting
<1> QED
  BY <1>1, <1>2, <1>3

\* A forced close passes no connection without its flag.
LEMMA CloseStep ==
    TypeOK /\ CmdInv /\ ConnInv /\ ListInv /\ CloseInv /\ [Next]_vars => CloseInv'
<1> SUFFICES ASSUME TypeOK, CmdInv, ConnInv, ListInv, CloseInv, [Next]_vars PROVE CloseInv'
  OBVIOUS
<1> USE DEF exec, work, frames, conn
<1>r. ASSUME NEW k \in 1 .. count
      PROVE  /\ Legs(k)' = Legs(k) /\ Op(k)' = Op(k) /\ k \in Cmds /\ leg[k] \in Nat /\ DOMAIN Legs(k) \subseteq Nat
             /\ \A n, c : Addresses(k, n, c)' <=> Addresses(k, n, c)
  BY RequestFacts, RequestStays DEF TypeOK
<1>s. ASSUME UNCHANGED <<count, leg, pc, todo, target>> PROVE CloseInv'
  <2>1. \A k \in 1 .. count : \A n \in DOMAIN Legs(k) : \A c \in Conns :
          (Passed(k, n, c)' <=> Passed(k, n, c)) /\ (Shut(k, n, c) => Shut(k, n, c)')
    BY <1>s, Forever DEF Passed, Shut
  <2> QED
    BY <1>s, <1>r, <2>1 DEF CloseInv
<1>k. ASSUME NEW k \in Cmds, pc[k] # "none", count' = count,
             \A j \in Cmds \ {k} : /\ leg'[j] = leg[j] /\ pc'[j] = pc[j]
                                    /\ todo'[j] = todo[j] /\ target'[j] = target[j],
             \A n \in DOMAIN Legs(k) : \A c \in Conns :
                Op(k).closes /\ Addresses(k, n, c) /\ Passed(k, n, c)' => Shut(k, n, c)'
      PROVE  CloseInv'
  <2>1. ASSUME NEW j \in 1 .. count, j # k, NEW n \in DOMAIN Legs(j), NEW c \in Conns
        PROVE  (Passed(j, n, c)' <=> Passed(j, n, c)) /\ (Shut(j, n, c) => Shut(j, n, c)')
    BY <1>k, <1>r, <2>1, Forever DEF Passed, Shut
  <2> QED
    BY <1>k, <1>r, <2>1 DEF CloseInv
<1>1. ASSUME NEW t \in Tasks, NEW r \in Requests, Receive(t, r) PROVE CloseInv'
  <2> SUFFICES ASSUME NEW k \in 1 .. count', NEW n \in DOMAIN Legs(k)', NEW c \in Conns,
                      Op(k)'.closes, Addresses(k, n, c)', Passed(k, n, c)'
               PROVE  Shut(k, n, c)'
    BY DEF CloseInv
  <2>1. k \in 1 .. count /\ pc'[k] = pc[k] /\ Passed(k, n, c)
    BY <1>1, ReceivePassed
  <2>2. Shut(k, n, c)
    BY <1>r, <2>1 DEF CloseInv
  <2> QED
    BY <1>1, <2>1, <2>2 DEF Shut, Receive
<1>2. ASSUME NEW k \in Cmds, Start(k) PROVE CloseInv'
  <2>1. k \in 1 .. count
    BY <1>2, Underway DEF Start
  <2> SUFFICES ASSUME NEW n \in DOMAIN Legs(k), NEW c \in Conns,
                      Op(k).closes, Addresses(k, n, c), Passed(k, n, c)'
               PROVE  Shut(k, n, c)'
    BY <1>2, <1>k DEF Start, TypeOK
  <2>2. Op(k) # broadcastBulk
    BY DEF broadcastBulk
  <2>3. leg'[k] = 1 /\ pc'[k] = "leg"
    BY <1>2, <2>2 DEF Start, TypeOK, CmdInv, CmdOK
  <2>4. n \in Nat /\ n >= 1
    BY <2>1, RequestFacts
  <2> QED
    BY <2>3, <2>4 DEF Passed, Visiting
<1>3. ASSUME NEW k \in Cmds, NEW f \in Frames, GetFrame(k, f) PROVE CloseInv'
  <2>1. k \in 1 .. count
    BY <1>3, Underway DEF GetFrame
  <2> SUFFICES ASSUME NEW n \in DOMAIN Legs(k), NEW c \in Conns,
                      Op(k).closes, Addresses(k, n, c), Passed(k, n, c)'
               PROVE  Shut(k, n, c)'
    BY <1>3, <1>k DEF GetFrame, Lookup, TypeOK
  <2>2. pc[k] = "leg" /\ Lookup(k) /\ pc'[k] = "each" /\ leg' = leg /\ closed' = closed
    BY <1>3 DEF GetFrame, TypeOK
  <2>3. CASE n < leg[k]
    BY <1>r, <2>1, <2>2, <2>3 DEF CloseInv, Passed, Shut
  <2>4. CASE ~(n < leg[k])
    <3>1. n = leg[k] /\ c \notin todo'[k]
      BY <2>2, <2>4 DEF Passed
    <3>2. ~opened[c]
      BY <2>2, <3>1, LookupFacts
    <3> QED
      BY <2>2, <3>2 DEF ConnInv, Shut
  <2> QED
    BY <2>3, <2>4
<1>4. ASSUME NEW k \in Cmds, KeepFrame(k) PROVE CloseInv'
  <2>1. k \in 1 .. count
    BY <1>4, Underway DEF KeepFrame
  <2> SUFFICES ASSUME NEW n \in DOMAIN Legs(k), NEW c \in Conns,
                      Op(k).closes, Addresses(k, n, c), Passed(k, n, c)'
               PROVE  Shut(k, n, c)'
    BY <1>4, <1>k DEF KeepFrame, Lookup, TypeOK
  <2>2. pc[k] = "leg" /\ Lookup(k) /\ pc'[k] = "each" /\ leg' = leg /\ closed' = closed
    BY <1>4 DEF KeepFrame, TypeOK
  <2>3. CASE n < leg[k]
    BY <1>r, <2>1, <2>2, <2>3 DEF CloseInv, Passed, Shut
  <2>4. CASE ~(n < leg[k])
    <3>1. n = leg[k] /\ c \notin todo'[k]
      BY <2>2, <2>4 DEF Passed
    <3>2. ~opened[c]
      BY <2>2, <3>1, LookupFacts
    <3> QED
      BY <2>2, <3>2 DEF ConnInv, Shut
  <2> QED
    BY <2>3, <2>4
<1>5. ASSUME NEW k \in Cmds, NextLeg(k) PROVE CloseInv'
  <2>1. k \in 1 .. count
    BY <1>5, Underway DEF NextLeg
  <2> SUFFICES ASSUME NEW n \in DOMAIN Legs(k), NEW c \in Conns,
                      Op(k).closes, Addresses(k, n, c), Passed(k, n, c)'
               PROVE  Shut(k, n, c)'
    BY <1>5, <1>k DEF NextLeg, TypeOK
  <2>2. pc[k] = "each" /\ todo[k] = {} /\ closed' = closed /\ leg'[k] = leg[k] + 1
        /\ pc'[k] = IF leg[k] < Len(Legs(k)) THEN "leg" ELSE "done"
    BY <1>5 DEF NextLeg, TypeOK
  <2>3. n \in Nat /\ n <= Len(Legs(k)) /\ Len(Legs(k)) \in Nat /\ leg[k] \in Nat
    BY <1>r, <2>1, RequestFacts
  <2>4. n < leg[k] \/ n = leg[k]
    BY <2>2, <2>3 DEF Passed, Visiting
  <2>5. Passed(k, n, c)
    BY <2>2, <2>4 DEF Passed, Visiting
  <2> QED
    BY <2>1, <2>2, <2>5 DEF CloseInv, Shut
<1>6. ASSUME NEW k \in Cmds, NEW c \in Conns, Visit(k, c) PROVE CloseInv'
  <2>1. k \in 1 .. count
    BY <1>6, Underway DEF Visit
  <2> SUFFICES ASSUME NEW n \in DOMAIN Legs(k), NEW d \in Conns,
                      Op(k).closes, Addresses(k, n, d), Passed(k, n, d)'
               PROVE  Shut(k, n, d)'
    BY <1>6, <1>k DEF Visit, TypeOK
  <2>2. ~GivesUp(k)
    BY <2>1, RequestFacts, CallbackFacts DEF GivesUp
  <2>3. pc'[k] \in {"flag", "write"} /\ target'[k] = c /\ todo'[k] = todo[k] \ {c} /\ leg' = leg
        /\ closed' = closed /\ pc[k] = "each"
    BY <1>6, <2>2 DEF Visit, TypeOK
  <2>4. n < leg[k] \/ (n = leg[k] /\ (d \notin todo[k] \/ d = c))
    BY <2>3 DEF Passed
  <2>5. CASE n = leg[k] /\ d = c
    BY <2>3, <2>5 DEF Shut
  <2>6. CASE n < leg[k] \/ (n = leg[k] /\ d \notin todo[k])
    <3>1. Passed(k, n, d)
      BY <2>3, <2>6 DEF Passed, Visiting
    <3> QED
      BY <2>1, <2>3, <3>1 DEF CloseInv, Shut
  <2> QED
    BY <2>4, <2>5, <2>6
<1>7. ASSUME NEW k \in Cmds, NEW c \in Conns, LookOpen(k, c) PROVE CloseInv'
  <2>1. k \in 1 .. count
    BY <1>7, Underway DEF LookOpen
  <2> SUFFICES ASSUME NEW n \in DOMAIN Legs(k), NEW d \in Conns,
                      Op(k).closes, Addresses(k, n, d), Passed(k, n, d)'
               PROVE  Shut(k, n, d)'
    BY <1>7, <1>k DEF LookOpen, TypeOK
  <2>2. ~GivesUp(k)
    BY <2>1, RequestFacts, CallbackFacts DEF GivesUp
  <2>3. pc'[k] \in {"flag", "write"} /\ target'[k] = c /\ todo'[k] = todo[k] \ {c} /\ leg' = leg
        /\ closed' = closed /\ pc[k] = "each"
    BY <1>7, <2>2 DEF LookOpen, TypeOK
  <2>4. n < leg[k] \/ (n = leg[k] /\ (d \notin todo[k] \/ d = c))
    BY <2>3 DEF Passed
  <2>5. CASE n = leg[k] /\ d = c
    BY <2>3, <2>5 DEF Shut
  <2>6. CASE n < leg[k] \/ (n = leg[k] /\ d \notin todo[k])
    <3>1. Passed(k, n, d)
      BY <2>3, <2>6 DEF Passed, Visiting
    <3> QED
      BY <2>1, <2>3, <3>1 DEF CloseInv, Shut
  <2> QED
    BY <2>4, <2>5, <2>6
<1>8. ASSUME NEW k \in Cmds, NEW c \in Conns, LookClosed(k, c) PROVE CloseInv'
  <2>1. k \in 1 .. count
    BY <1>8, Underway DEF LookClosed
  <2> SUFFICES ASSUME NEW n \in DOMAIN Legs(k), NEW d \in Conns,
                      Op(k).closes, Addresses(k, n, d), Passed(k, n, d)'
               PROVE  Shut(k, n, d)'
    BY <1>8, <1>k DEF LookClosed, WriteFailed, Written, TypeOK
  <2>2. ~GivesUp(k)
    BY <2>1, RequestFacts, CallbackFacts DEF GivesUp
  <2>3. pc'[k] \in {"flag", "write"} /\ target'[k] = c /\ todo'[k] = todo[k] \ {c} /\ leg' = leg
        /\ closed' = closed /\ pc[k] = "each"
    BY <1>8, <2>2 DEF LookClosed, WriteFailed, Written, TypeOK
  <2>4. n < leg[k] \/ (n = leg[k] /\ (d \notin todo[k] \/ d = c))
    BY <2>3 DEF Passed
  <2>5. CASE n = leg[k] /\ d = c
    BY <2>3, <2>5 DEF Shut
  <2>6. CASE n < leg[k] \/ (n = leg[k] /\ d \notin todo[k])
    <3>1. Passed(k, n, d)
      BY <2>3, <2>6 DEF Passed, Visiting
    <3> QED
      BY <2>1, <2>3, <3>1 DEF CloseInv, Shut
  <2> QED
    BY <2>4, <2>5, <2>6
<1>9. ASSUME NEW k \in Cmds, Write(k) PROVE CloseInv'
  <2>1. k \in 1 .. count
    BY <1>9, Underway DEF Write
  <2> SUFFICES ASSUME NEW n \in DOMAIN Legs(k), NEW c \in Conns,
                      Op(k).closes, Addresses(k, n, c), Passed(k, n, c)'
               PROVE  Shut(k, n, c)'
    BY <1>9, <1>k DEF Write, Written, TypeOK
  <2>3. pc[k] = "write" /\ pc'[k] = "flag" /\ target'[k] = target[k] /\ leg' = leg
        /\ closed' = closed /\ todo'[k] = todo[k]
    BY <1>9 DEF Write, Written, TypeOK
  <2>4. Passed(k, n, c)
    BY <2>3 DEF Passed, Visiting
  <2> QED
    BY <2>1, <2>3, <2>4 DEF CloseInv, Shut
<1>10. ASSUME NEW k \in Cmds, WriteError(k) PROVE CloseInv'
  <2>1. k \in 1 .. count
    BY <1>10, Underway DEF WriteError
  <2> SUFFICES ASSUME NEW n \in DOMAIN Legs(k), NEW c \in Conns,
                      Op(k).closes, Addresses(k, n, c), Passed(k, n, c)'
               PROVE  Shut(k, n, c)'
    BY <1>10, <1>k DEF WriteError, Written, TypeOK
  <2>2. ~GivesUp(k)
    BY <2>1, RequestFacts, CallbackFacts DEF GivesUp
  <2>3. pc[k] = "write" /\ pc'[k] = "flag" /\ target'[k] = target[k] /\ leg' = leg
        /\ closed' = closed /\ todo'[k] = todo[k]
    BY <1>10, <2>2 DEF WriteError, Written, TypeOK
  <2>4. Passed(k, n, c)
    BY <2>3 DEF Passed, Visiting
  <2> QED
    BY <2>1, <2>3, <2>4 DEF CloseInv, Shut
<1>11. ASSUME NEW k \in Cmds, CompressError(k) PROVE CloseInv'
  <2>1. k \in 1 .. count
    BY <1>11, Underway DEF CompressError
  <2> SUFFICES ASSUME NEW n \in DOMAIN Legs(k), NEW c \in Conns,
                      Op(k).closes, Addresses(k, n, c), Passed(k, n, c)'
               PROVE  Shut(k, n, c)'
    BY <1>11, <1>k DEF CompressError, WriteFailed, Written, TypeOK
  <2>2. ~GivesUp(k)
    BY <2>1, RequestFacts, CallbackFacts DEF GivesUp
  <2>3. pc[k] = "write" /\ pc'[k] = "flag" /\ target'[k] = target[k] /\ leg' = leg /\ closed' = closed
        /\ todo'[k] = todo[k] \ {target[k]}
    BY <1>11, <2>2 DEF CompressError, WriteFailed, Written, TypeOK
  <2>4. Passed(k, n, c) \/ (n = leg[k] /\ c = target[k])
    BY <2>3 DEF Passed, Visiting
  <2> QED
    BY <2>1, <2>3, <2>4 DEF CloseInv, Shut
<1>12. ASSUME NEW k \in Cmds, FlagLost(k) PROVE CloseInv'
  <2>1. k \in 1 .. count
    BY <1>12, Underway DEF FlagLost
  <2> SUFFICES ASSUME NEW n \in DOMAIN Legs(k), NEW c \in Conns,
                      Op(k).closes, Addresses(k, n, c), Passed(k, n, c)'
               PROVE  Shut(k, n, c)'
    BY <1>12, <1>k DEF FlagLost, Closed, TypeOK
  <2>3. pc[k] = "flag" /\ pc'[k] = "each"  /\ leg' = leg
        /\ closed' = closed /\ closed[target[k]] /\ todo'[k] = todo[k]
    BY <1>12 DEF FlagLost, Closed, TypeOK
  <2>4. Passed(k, n, c)
    BY <2>3 DEF Passed, Visiting
  <2> QED
    BY <2>1, <2>3, <2>4 DEF CloseInv, Shut
<1>13. ASSUME NEW k \in Cmds, FlagWon(k) PROVE CloseInv'
  <2>1. k \in 1 .. count
    BY <1>13, Underway DEF FlagWon
  <2> SUFFICES ASSUME NEW n \in DOMAIN Legs(k), NEW c \in Conns,
                      Op(k).closes, Addresses(k, n, c), Passed(k, n, c)'
               PROVE  Shut(k, n, c)'
    BY <1>13, <1>k DEF FlagWon, TypeOK
  <2>3. pc[k] = "flag" /\ pc'[k] = "close"  /\ leg' = leg
        /\ (closed[c] \/ c = target[k] => closed'[c]) /\ todo'[k] = todo[k]
    BY <1>13 DEF FlagWon, TypeOK
  <2>4. Passed(k, n, c)
    BY <2>3 DEF Passed, Visiting
  <2> QED
    BY <2>1, <2>3, <2>4 DEF CloseInv, Shut
<1>14. ASSUME NEW k \in Cmds, SendClose(k) PROVE CloseInv'
  <2>1. k \in 1 .. count
    BY <1>14, Underway DEF SendClose
  <2> SUFFICES ASSUME NEW n \in DOMAIN Legs(k), NEW c \in Conns,
                      Op(k).closes, Addresses(k, n, c), Passed(k, n, c)'
               PROVE  Shut(k, n, c)'
    BY <1>14, <1>k DEF SendClose, Closed, TypeOK
  <2>3. pc[k] = "close" /\ pc'[k] = "each"  /\ leg' = leg
        /\ closed' = closed /\ todo'[k] = todo[k]
    BY <1>14 DEF SendClose, Closed, TypeOK
  <2>4. Passed(k, n, c)
    BY <2>3 DEF Passed, Visiting
  <2> QED
    BY <2>1, <2>3, <2>4 DEF CloseInv, Shut
<1>15. ASSUME NEW k \in Cmds, SendCloseError(k) PROVE CloseInv'
  <2>1. k \in 1 .. count
    BY <1>15, Underway DEF SendCloseError
  <2> SUFFICES ASSUME NEW n \in DOMAIN Legs(k), NEW c \in Conns,
                      Op(k).closes, Addresses(k, n, c), Passed(k, n, c)'
               PROVE  Shut(k, n, c)'
    BY <1>15, <1>k DEF SendCloseError, Closed, TypeOK
  <2>3. pc[k] = "close" /\ pc'[k] = "each"  /\ leg' = leg
        /\ closed' = closed /\ todo'[k] = todo[k]
    BY <1>15 DEF SendCloseError, Closed, TypeOK
  <2>4. Passed(k, n, c)
    BY <2>3 DEF Passed, Visiting
  <2> QED
    BY <2>1, <2>3, <2>4 DEF CloseInv, Shut
<1>16. ASSUME NEW c \in Conns, Timer(c) PROVE CloseInv'
  BY <1>16, <1>s DEF Timer
<1>17. ASSUME NEW c \in Conns, Run(c) PROVE CloseInv'
  BY <1>17, <1>s DEF Run
<1>18. ASSUME NEW c \in Conns, End(c) PROVE CloseInv'
  BY <1>18, <1>s DEF End
<1>19. ASSUME NEW c \in Conns, Hangup(c) PROVE CloseInv'
  BY <1>19, <1>s DEF Hangup
<1>20. ASSUME NEW c \in Conns, ClientClose(c) PROVE CloseInv'
  BY <1>20, <1>s DEF ClientClose
<1>21. ASSUME NEW c \in Conns, IllegalFrame(c) PROVE CloseInv'
  BY <1>21, <1>s DEF IllegalFrame
<1>22. ASSUME NEW c \in Conns, Unlist(c) PROVE CloseInv'
  BY <1>22, <1>s DEF Unlist
<1>23. CASE UNCHANGED vars
  BY <1>23, <1>s DEF vars
<1> QED
  BY <1>1, <1>2, <1>3, <1>4, <1>5, <1>6, <1>7, <1>8, <1>9, <1>10, <1>11, <1>12,
     <1>13, <1>14, <1>15, <1>16, <1>17, <1>18, <1>19, <1>20, <1>21, <1>22, <1>23 DEF Next, Command, Loop

-----------------------------------------------------------------------------
(***************************************************************************)
(* What a step does to Sent(c): it stays, or it keeps its first n entries  *)
(* and gets new ones behind them, each with a cause.                       *)
(***************************************************************************)
Wrote(k, c) == (Write(k) \/ WriteError(k)) /\ target[k] = c

SentClose(k, c) == (SendClose(k) \/ SendCloseError(k)) /\ target[k] = c

NewEntry(c, n, i) ==
    \/ i = n + 1 /\ Len(Sent(c)') = n + 1 /\ opened'[c]
       /\ \E k \in Cmds : Wrote(k, c) /\ Sent(c)'[i] = Encoded(k)
    \/ i = n + 1 /\ opened'[c]
       /\ \E k \in Cmds : SentClose(k, c) /\ Sent(c)'[i] = [kind |-> "close", cmd |-> k]
    \/ /\ i = n + 1 /\ Len(Sent(c)') = n + 1 /\ ~opened'[c] /\ closed'[c]
       /\ \/ Sent(c)'[i] = [kind |-> "error"]
          \/ Sent(c)'[i] = [kind |-> "echo"] /\ ~closed[c]

SentMoves(c, n) ==
    /\ n \in 0 .. Len(Sent(c)) /\ n <= Len(Sent(c)')
    /\ n = Len(Sent(c)) \/ ~opened'[c]
    /\ \A i \in 1 .. n : Sent(c)'[i] = Sent(c)[i]
    /\ \A i \in (n + 1) .. Len(Sent(c)') : NewEntry(c, n, i)

LEMMA SentShape ==
    ASSUME TypeOK, NEW c \in Conns
    PROVE  /\ Sent(c) \in Seq(Entry) /\ Len(Sent(c)) \in Nat /\ DOMAIN Sent(c) = 1 .. Len(Sent(c))
           /\ Len(Sent(c)) = Len(wire[c]) + Len(queue[c]) /\ Len(wire[c]) \in Nat /\ Len(queue[c]) \in Nat
           /\ \A i \in 1 .. Len(Sent(c)) :
                /\ Sent(c)[i] \in Entry
                /\ Sent(c)[i] = IF i <= Len(wire[c]) THEN wire[c][i] ELSE queue[c][i - Len(wire[c])]
<1>1. wire[c] \in Seq(Entry) /\ queue[c] \in Seq(Entry)
  BY DEF TypeOK
<1>2. Sent(c) \in Seq(Entry)
  BY <1>1, ConcatProperties DEF Sent
<1> QED
  BY <1>1, <1>2, ConcatProperties, LenProperties, ElementOfSeq, ZenonT(40) DEF Sent

LEMMA SentShapeNext ==
    ASSUME TypeOK', NEW c \in Conns
    PROVE  /\ Sent(c)' \in Seq(Entry) /\ Len(Sent(c)') \in Nat /\ DOMAIN Sent(c)' = 1 .. Len(Sent(c)')
           /\ Len(Sent(c)') = Len(wire'[c]) + Len(queue'[c])
           /\ Len(wire'[c]) \in Nat /\ Len(queue'[c]) \in Nat
           /\ \A i \in 1 .. Len(Sent(c)') :
                /\ Sent(c)'[i] \in Entry
                /\ Sent(c)'[i] = IF i <= Len(wire'[c]) THEN wire'[c][i] ELSE queue'[c][i - Len(wire'[c])]
<1>1. wire'[c] \in Seq(Entry) /\ queue'[c] \in Seq(Entry)
  BY DEF TypeOK
<1>2. Sent(c)' \in Seq(Entry)
  BY <1>1, ConcatProperties DEF Sent
<1> QED
  BY <1>1, <1>2, ConcatProperties, LenProperties, ElementOfSeq, ZenonT(40) DEF Sent

\* What is handed to an open connection comes after everything else.
LEMMA HandSent ==
    ASSUME TypeOK, NEW c \in Conns, NEW es \in Seq(Entry), Hand(c, es), wire' = wire,
           NEW d \in Conns
    PROVE  Sent(d)' = IF d = c /\ opened[c] THEN Sent(d) \o es ELSE Sent(d)
<1>1. CASE d = c /\ opened[c]
  <2>1. queue'[c] = queue[c] \o es
    BY <1>1 DEF Hand, TypeOK
  <2>2. queue[c] \in Seq(Entry) /\ wire[c] \in Seq(Entry)
    BY DEF TypeOK
  <2>3. \A w, q \in Seq(Entry) : (w \o q) \o es = w \o (q \o es)
    BY ConcatAssociative
  <2>4. (wire[c] \o queue[c]) \o es = wire[c] \o (queue[c] \o es)
    BY <2>2, <2>3
  <2> QED
    BY <1>1, <2>1, <2>4 DEF Sent
<1>2. CASE ~(d = c /\ opened[c])
  BY <1>2 DEF Hand, TypeOK, Sent
<1> QED
  BY <1>1, <1>2

\* Closing drops what waits in the queue.
LEMMA CloseSent ==
    ASSUME TypeOK, NEW c \in Conns, Close(c), wire'[c] \in Seq(Entry)
    PROVE  Sent(c)' = wire'[c] /\ ~opened'[c] /\ closed'[c]
<1>1. queue'[c] = <<>> /\ ~opened'[c] /\ closed'[c]
  BY DEF Close, TypeOK
<1>2. wire'[c] \o <<>> = wire'[c]
  BY ConcatEmptySeq
<1> QED
  BY <1>1, <1>2 DEF Sent

\* Writing what is next in the queue does not change what is sent.
LEMMA HeadThenTail ==
    ASSUME NEW S, NEW w \in Seq(S), NEW q \in Seq(S), q # <<>>
    PROVE  Append(w, Head(q)) \o Tail(q) = w \o q
<1>1. Head(q) \in S /\ Tail(q) \in Seq(S) /\ Len(Tail(q)) = Len(q) - 1
      /\ \A i \in 1 .. Len(Tail(q)) : Tail(q)[i] = q[i + 1]
  BY HeadTailProperties
<1>2. Len(q) \in Nat \ {0} /\ Head(q) = q[1]
  BY EmptySeq
<1>3. <<Head(q)>> \in Seq(S) /\ Len(<<Head(q)>>) = 1 /\ <<Head(q)>>[1] = q[1]
  BY <1>1, <1>2
<1>4. <<Head(q)>> \o Tail(q) = q
  <2> DEFINE t == <<Head(q)>> \o Tail(q)
  <2>1. t \in Seq(S) /\ Len(t) = Len(q)
    BY <1>1, <1>2, <1>3, ConcatProperties
  <2>2. \A i \in 1 .. Len(q) : t[i] = IF i <= 1 THEN <<Head(q)>>[i] ELSE Tail(q)[i - 1]
    BY <1>1, <1>2, <1>3, ConcatProperties
  <2>3. ASSUME NEW i \in 1 .. Len(q) PROVE t[i] = q[i]
    <3>1. CASE i = 1
      BY <1>2, <1>3, <2>2, <3>1
    <3>2. CASE i # 1
      <4>1. i - 1 \in 1 .. Len(Tail(q)) /\ ~(i <= 1) /\ (i - 1) + 1 = i
        BY <1>1, <1>2, <3>2
      <4>2. Tail(q)[i - 1] = q[(i - 1) + 1]
        BY <1>1, <4>1
      <4> QED
        BY <2>2, <4>1, <4>2
    <3> QED
      BY <3>1, <3>2
  <2> HIDE DEF t
  <2>4. t = q
    BY <2>1, <2>3, SeqEqual
  <2> QED
    BY <2>4 DEF t
<1>5. Append(w, Head(q)) = w \o <<Head(q)>>
  BY <1>1, AppendIsConcat
<1>6. (w \o <<Head(q)>>) \o Tail(q) = w \o (<<Head(q)>> \o Tail(q))
  BY <1>1, <1>3, ConcatAssociative
<1> QED
  BY <1>4, <1>5, <1>6

LEMMA RunSent ==
    ASSUME TypeOK, NEW c \in Conns, queue[c] # <<>>, NEW d \in Conns,
           queue' = [queue EXCEPT ![c] = Tail(@)],
           wire' = [wire EXCEPT ![c] = Append(@, Head(queue[c]))]
    PROVE  Sent(d)' = Sent(d)
<1>1. CASE d # c
  BY <1>1 DEF TypeOK, Sent
<1>2. CASE d = c
  <2>1. queue[c] \in Seq(Entry) /\ wire[c] \in Seq(Entry)
    BY DEF TypeOK
  <2>2. Append(wire[c], Head(queue[c])) \o Tail(queue[c]) = wire[c] \o queue[c]
    BY <2>1, HeadThenTail
  <2>3. wire'[c] = Append(wire[c], Head(queue[c])) /\ queue'[c] = Tail(queue[c])
    BY DEF TypeOK
  <2> QED
    BY <1>2, <2>2, <2>3 DEF Sent
<1> QED
  BY <1>1, <1>2

LEMMA OneMore ==
    ASSUME NEW S, NEW s \in Seq(S), NEW e, <<e>> \in Seq(S), NEW t, t = s \o <<e>>
    PROVE  /\ Len(t) = Len(s) + 1 /\ t[Len(s) + 1] = e
           /\ \A i \in 1 .. Len(s) : t[i] = s[i]
<1>1. Len(<<e>>) = 1 /\ <<e>>[1] = e /\ Len(s) \in Nat
  OBVIOUS
<1>2. Len(t) = Len(s) + 1
  BY <1>1, ConcatProperties
<1>3. \A i \in 1 .. Len(s) + 1 : t[i] = IF i <= Len(s) THEN s[i] ELSE <<e>>[i - Len(s)]
  BY <1>1, ConcatProperties
<1>4. t[Len(s) + 1] = e
  <2>1. Len(s) + 1 \in 1 .. Len(s) + 1 /\ ~(Len(s) + 1 <= Len(s)) /\ (Len(s) + 1) - Len(s) = 1
    BY <1>1
  <2> QED
    BY <1>1, <1>3, <2>1
<1>5. ASSUME NEW i \in 1 .. Len(s) PROVE t[i] = s[i]
  BY <1>1, <1>3
<1> QED
  BY <1>2, <1>4, <1>5

\* The event loop closes the connection ...
LEMMA CutFacts ==
    ASSUME TypeOK, NEW c \in Conns, Close(c), wire' = wire
    PROVE  \E n \in 0 .. Len(Sent(c)) : SentMoves(c, n)
<1>1. Sent(c)' = wire[c] /\ ~opened'[c] /\ wire[c] \in Seq(Entry)
  BY CloseSent DEF TypeOK
<1>2. Len(wire[c]) \in Nat /\ Len(wire[c]) <= Len(Sent(c)) /\ Len(Sent(c)) \in Nat
  <2>1. Len(wire[c]) \in Nat /\ Len(queue[c]) \in Nat /\ Len(Sent(c)) \in Nat
    BY SentShape
  <2>2. Len(Sent(c)) = Len(wire[c]) + Len(queue[c])
    BY SentShape
  <2>3. \A x, y, z \in Nat : x = y + z => y <= x
    OBVIOUS
  <2> QED
    BY <2>1, <2>2, <2>3
<1>3. \A i \in 1 .. Len(wire[c]) : wire[c][i] = Sent(c)[i]
  <2>1. \A i \in 1 .. Len(Sent(c)) :
           Sent(c)[i] = IF i <= Len(wire[c]) THEN wire[c][i] ELSE queue[c][i - Len(wire[c])]
    BY SentShape
  <2> QED
    BY <1>2, <2>1
<1>4. Len(Sent(c)') = Len(wire[c])
  BY <1>1
<1>5. SentMoves(c, Len(wire[c]))
  BY <1>1, <1>2, <1>3, <1>4 DEF SentMoves
<1> QED
  BY <1>2, <1>5

\* ... and may answer the client.
LEMMA AnswerFacts ==
    ASSUME TypeOK, NEW c \in Conns, Close(c), NEW e,
           e = [kind |-> "error"] \/ (e = [kind |-> "echo"] /\ ~closed[c]),
           wire'[c] = Append(wire[c], e)
    PROVE  \E n \in 0 .. Len(Sent(c)) : SentMoves(c, n)
<1>1. e \in Entry /\ wire[c] \in Seq(Entry)
  BY EntryAnswer DEF TypeOK
<1>2. /\ wire'[c] \in Seq(Entry) /\ Len(wire'[c]) = Len(wire[c]) + 1
      /\ wire'[c][Len(wire[c]) + 1] = e
      /\ \A i \in 1 .. Len(wire[c]) : wire'[c][i] = wire[c][i]
  BY <1>1, AppendProperties
<1>3. Sent(c)' = wire'[c] /\ ~opened'[c] /\ closed'[c]
  BY <1>2, CloseSent
<1>4. Len(wire[c]) \in Nat /\ Len(wire[c]) <= Len(Sent(c)) /\ Len(Sent(c)) \in Nat
  <2>1. Len(wire[c]) \in Nat /\ Len(queue[c]) \in Nat /\ Len(Sent(c)) \in Nat
    BY SentShape
  <2>2. Len(Sent(c)) = Len(wire[c]) + Len(queue[c])
    BY SentShape
  <2>3. \A x, y, z \in Nat : x = y + z => y <= x
    OBVIOUS
  <2> QED
    BY <2>1, <2>2, <2>3
<1>5. \A i \in 1 .. Len(wire[c]) : wire[c][i] = Sent(c)[i]
  <2>1. \A i \in 1 .. Len(Sent(c)) :
           Sent(c)[i] = IF i <= Len(wire[c]) THEN wire[c][i] ELSE queue[c][i - Len(wire[c])]
    BY SentShape
  <2> QED
    BY <1>4, <2>1
<1>6. Len(Sent(c)') = Len(wire[c]) + 1 /\ Sent(c)'[Len(wire[c]) + 1] = e
  BY <1>2, <1>3
<1>7. NewEntry(c, Len(wire[c]), Len(wire[c]) + 1)
  BY <1>3, <1>6 DEF NewEntry
<1>8. \A i \in (Len(wire[c]) + 1) .. Len(Sent(c)') : i = Len(wire[c]) + 1
  BY <1>4, <1>6
<1>9. \A i \in 1 .. Len(wire[c]) : Sent(c)'[i] = Sent(c)[i]
  BY <1>2, <1>3, <1>5
<1>10. SentMoves(c, Len(wire[c]))
  BY <1>3, <1>4, <1>6, <1>7, <1>8, <1>9 DEF SentMoves
<1> QED
  BY <1>4, <1>10

LEMMA SentStep ==
    ASSUME TypeOK, CmdInv, FrameInv, ConnInv, [Next]_vars, NEW c \in Conns
    PROVE  Sent(c)' = Sent(c) \/ (opened[c] /\ \E n \in 0 .. Len(Sent(c)) : SentMoves(c, n))
<1> DEFINE Same == Sent(c)' = Sent(c)
           Moves == opened[c] /\ \E n \in 0 .. Len(Sent(c)) : SentMoves(c, n)
<1>s. Sent(c) \in Seq(Entry) /\ Len(Sent(c)) \in Nat
  BY SentShape
<1>m. ASSUME Len(Sent(c)') = Len(Sent(c)) + 1, NewEntry(c, Len(Sent(c)), Len(Sent(c)) + 1),
             \A i \in 1 .. Len(Sent(c)) : Sent(c)'[i] = Sent(c)[i]
      PROVE  \E n \in 0 .. Len(Sent(c)) : SentMoves(c, n)
  <2>1. \A i \in (Len(Sent(c)) + 1) .. Len(Sent(c)') : i = Len(Sent(c)) + 1
    BY <1>s, <1>m
  <2>2. SentMoves(c, Len(Sent(c)))
    BY <1>s, <1>m, <2>1 DEF SentMoves
  <2> QED
    BY <1>s, <2>2
<1> USE DEF exec, work, frames, conn
<1> SUFFICES Same \/ Moves
  OBVIOUS
<1>1. ASSUME NEW t \in Tasks, NEW r \in Requests, Receive(t, r) PROVE Same \/ Moves
  BY <1>1 DEF Receive, Sent
<1>2. ASSUME NEW k \in Cmds, Start(k) PROVE Same \/ Moves
  BY <1>2 DEF Start, Sent
<1>3. ASSUME NEW k \in Cmds, NEW f \in Frames, GetFrame(k, f) PROVE Same \/ Moves
  BY <1>3 DEF GetFrame, Sent
<1>4. ASSUME NEW k \in Cmds, KeepFrame(k) PROVE Same \/ Moves
  BY <1>4 DEF KeepFrame, Sent
<1>5. ASSUME NEW k \in Cmds, NextLeg(k) PROVE Same \/ Moves
  BY <1>5 DEF NextLeg, Sent
<1>6. ASSUME NEW k \in Cmds, NEW d \in Conns, Visit(k, d) PROVE Same \/ Moves
  BY <1>6 DEF Visit, Sent
<1>7. ASSUME NEW k \in Cmds, NEW d \in Conns, LookOpen(k, d) PROVE Same \/ Moves
  BY <1>7 DEF LookOpen, Sent
<1>8. ASSUME NEW k \in Cmds, NEW d \in Conns, LookClosed(k, d) PROVE Same \/ Moves
  BY <1>8 DEF LookClosed, Sent
<1>9. ASSUME NEW k \in Cmds, Write(k) PROVE Same \/ Moves
  <2>1. target[k] \in Conns /\ <<Encoded(k)>> \in Seq(Entry)
    BY <1>9, EncodedFacts DEF Write
  <2>2. Sent(c)' = IF c = target[k] /\ opened[target[k]] THEN Sent(c) \o <<Encoded(k)>> ELSE Sent(c)
    BY <1>9, <2>1, HandSent DEF Write
  <2>3. CASE c = target[k] /\ opened[c]
    <3>1. Len(Sent(c)') = Len(Sent(c)) + 1 /\ Sent(c)'[Len(Sent(c)) + 1] = Encoded(k)
          /\ \A i \in 1 .. Len(Sent(c)) : Sent(c)'[i] = Sent(c)[i]
      BY <2>1, <2>2, <2>3, <1>s, OneMore
    <3>2. opened'[c] /\ Wrote(k, c)
      BY <1>9, <2>3 DEF Write, Wrote
    <3>3. NewEntry(c, Len(Sent(c)), Len(Sent(c)) + 1)
      BY <3>1, <3>2 DEF NewEntry
    <3> QED
      BY <2>3, <3>1, <3>3, <1>s, <1>m
  <2> QED
    BY <2>2, <2>3
<1>10. ASSUME NEW k \in Cmds, WriteError(k) PROVE Same \/ Moves
  <2>1. target[k] \in Conns /\ <<Encoded(k)>> \in Seq(Entry)
    BY <1>10, EncodedFacts DEF WriteError
  <2>2. Sent(c)' = IF c = target[k] /\ opened[target[k]] THEN Sent(c) \o <<Encoded(k)>> ELSE Sent(c)
    BY <1>10, <2>1, HandSent DEF WriteError
  <2>3. CASE c = target[k] /\ opened[c]
    <3>1. Len(Sent(c)') = Len(Sent(c)) + 1 /\ Sent(c)'[Len(Sent(c)) + 1] = Encoded(k)
          /\ \A i \in 1 .. Len(Sent(c)) : Sent(c)'[i] = Sent(c)[i]
      BY <2>1, <2>2, <2>3, <1>s, OneMore
    <3>2. opened'[c] /\ Wrote(k, c)
      BY <1>10, <2>3 DEF WriteError, Wrote
    <3>3. NewEntry(c, Len(Sent(c)), Len(Sent(c)) + 1)
      BY <3>1, <3>2 DEF NewEntry
    <3> QED
      BY <2>3, <3>1, <3>3, <1>s, <1>m
  <2> QED
    BY <2>2, <2>3
<1>11. ASSUME NEW k \in Cmds, CompressError(k) PROVE Same \/ Moves
  BY <1>11 DEF CompressError, Sent
<1>12. ASSUME NEW k \in Cmds, FlagLost(k) PROVE Same \/ Moves
  BY <1>12 DEF FlagLost, Sent
<1>13. ASSUME NEW k \in Cmds, FlagWon(k) PROVE Same \/ Moves
  BY <1>13 DEF FlagWon, Sent
<1>14. ASSUME NEW k \in Cmds, SendClose(k) PROVE Same \/ Moves
  <2>1. target[k] \in Conns /\ <<[kind |-> "close", cmd |-> k]>> \in Seq(Entry)
    BY <1>14, EntryFacts DEF SendClose, TypeOK, CmdInv, CmdOK
  <2>2. Sent(c)' = IF c = target[k] /\ opened[target[k]]
                   THEN Sent(c) \o <<[kind |-> "close", cmd |-> k]>> ELSE Sent(c)
    BY <1>14, <2>1, HandSent DEF SendClose
  <2>3. CASE c = target[k] /\ opened[c]
    <3>1. Len(Sent(c)') = Len(Sent(c)) + 1 /\ Sent(c)'[Len(Sent(c)) + 1] = [kind |-> "close", cmd |-> k]
          /\ \A i \in 1 .. Len(Sent(c)) : Sent(c)'[i] = Sent(c)[i]
      BY <2>1, <2>2, <2>3, <1>s, OneMore
    <3>2. opened'[c] /\ SentClose(k, c)
      BY <1>14, <2>3 DEF SendClose, SentClose
    <3>3. NewEntry(c, Len(Sent(c)), Len(Sent(c)) + 1)
      BY <3>1, <3>2 DEF NewEntry
    <3> QED
      BY <2>3, <3>1, <3>3, <1>s, <1>m
  <2> QED
    BY <2>2, <2>3
<1>15. ASSUME NEW k \in Cmds, SendCloseError(k) PROVE Same \/ Moves
  <2>1. target[k] \in Conns /\ <<[kind |-> "close", cmd |-> k]>> \in Seq(Entry)
    BY <1>15, EntryFacts DEF SendCloseError, TypeOK, CmdInv, CmdOK
  <2>2. Sent(c)' = IF c = target[k] /\ opened[target[k]]
                   THEN Sent(c) \o <<[kind |-> "close", cmd |-> k]>> ELSE Sent(c)
    BY <1>15, <2>1, HandSent DEF SendCloseError
  <2>3. CASE c = target[k] /\ opened[c]
    <3>1. Len(Sent(c)') = Len(Sent(c)) + 1 /\ Sent(c)'[Len(Sent(c)) + 1] = [kind |-> "close", cmd |-> k]
          /\ \A i \in 1 .. Len(Sent(c)) : Sent(c)'[i] = Sent(c)[i]
      BY <2>1, <2>2, <2>3, <1>s, OneMore
    <3>2. opened'[c] /\ SentClose(k, c)
      BY <1>15, <2>3 DEF SendCloseError, SentClose
    <3>3. NewEntry(c, Len(Sent(c)), Len(Sent(c)) + 1)
      BY <3>1, <3>2 DEF NewEntry
    <3> QED
      BY <2>3, <3>1, <3>3, <1>s, <1>m
  <2> QED
    BY <2>2, <2>3
<1>16. ASSUME NEW d \in Conns, Timer(d) PROVE Same \/ Moves
  BY <1>16 DEF Timer, Sent
<1>17. ASSUME NEW d \in Conns, Run(d) PROVE Same \/ Moves
  BY <1>17, RunSent DEF Run
<1>18. ASSUME NEW d \in Conns, End(d) PROVE Same \/ Moves
  <2>1. CASE c = d
    BY <1>18, <2>1, CutFacts DEF End
  <2>2. CASE c # d
    BY <1>18, <2>2 DEF End, Close, TypeOK, Sent
  <2> QED
    BY <2>1, <2>2
<1>19. ASSUME NEW d \in Conns, Hangup(d) PROVE Same \/ Moves
  <2>1. CASE c = d
    BY <1>19, <2>1, CutFacts DEF Hangup
  <2>2. CASE c # d
    BY <1>19, <2>2 DEF Hangup, Close, TypeOK, Sent
  <2> QED
    BY <2>1, <2>2
<1>20. ASSUME NEW d \in Conns, ClientClose(d) PROVE Same \/ Moves
  <2>1. CASE c = d /\ closed[c]
    BY <1>20, <2>1, CutFacts DEF ClientClose
  <2>2. CASE c = d /\ ~closed[c]
    <3>1. wire'[c] = Append(wire[c], [kind |-> "echo"])
      BY <1>20, <2>2 DEF ClientClose, TypeOK
    <3> QED
      BY <1>20, <2>2, <3>1, AnswerFacts DEF ClientClose
  <2>3. CASE c # d
    BY <1>20, <2>3 DEF ClientClose, Close, TypeOK, Sent
  <2> QED
    BY <2>1, <2>2, <2>3
<1>21. ASSUME NEW d \in Conns, IllegalFrame(d) PROVE Same \/ Moves
  <2>1. CASE c = d
    <3>1. wire'[c] = Append(wire[c], [kind |-> "error"])
      BY <1>21, <2>1 DEF IllegalFrame, TypeOK
    <3> QED
      BY <1>21, <2>1, <3>1, AnswerFacts DEF IllegalFrame
  <2>2. CASE c # d
    BY <1>21, <2>2 DEF IllegalFrame, Close, TypeOK, Sent
  <2> QED
    BY <2>1, <2>2
<1>22. ASSUME NEW d \in Conns, Unlist(d) PROVE Same \/ Moves
  BY <1>22 DEF Unlist, Sent
<1>23. CASE UNCHANGED vars
  BY <1>23 DEF vars, Sent
<1> QED
  BY <1>1, <1>2, <1>3, <1>4, <1>5, <1>6, <1>7, <1>8, <1>9, <1>10, <1>11, <1>12,
     <1>13, <1>14, <1>15, <1>16, <1>17, <1>18, <1>19, <1>20, <1>21, <1>22, <1>23 DEF Next, Command, Loop

LEMMA SentCases ==
    ASSUME TypeOK, TypeOK', CmdInv, FrameInv, ConnInv, [Next]_vars, NEW c \in Conns
    PROVE  \E n \in 0 .. Len(Sent(c)) :
             /\ SentMoves(c, n)
             /\ n < Len(Sent(c)') => opened[c]
             /\ n = Len(Sent(c)) \/ opened[c]
<1>1. Len(Sent(c)) \in Nat /\ Len(Sent(c)') \in Nat
  BY SentShape, SentShapeNext
<1>2. CASE Sent(c)' = Sent(c)
  <2>1. SentMoves(c, Len(Sent(c)))
    BY <1>1, <1>2 DEF SentMoves
  <2> QED
    BY <1>1, <1>2, <2>1
<1>3. CASE opened[c] /\ \E n \in 0 .. Len(Sent(c)) : SentMoves(c, n)
  BY <1>3
<1> QED
  BY <1>2, <1>3, SentStep

\* The new entries, and what becomes of the others.
LEMMA EntryStep ==
    ASSUME TypeOK, TypeOK', CmdInv, FrameInv, ConnInv, [Next]_vars, NEW c \in Conns,
           NEW i \in DOMAIN Sent(c)'
    PROVE  \/ i \in DOMAIN Sent(c) /\ Sent(c)'[i] = Sent(c)[i]
              /\ \A j \in 1 .. i : Sent(c)'[j] = Sent(c)[j]
           \/ /\ i = Len(Sent(c)) + 1 /\ i = Len(Sent(c)') /\ opened[c] /\ opened'[c]
              /\ \A j \in 1 .. Len(Sent(c)) : Sent(c)'[j] = Sent(c)[j]
              /\ \E k \in Cmds : Wrote(k, c) /\ Sent(c)'[i] = Encoded(k)
           \/ /\ i = Len(Sent(c)) + 1 /\ opened[c] /\ opened'[c]
              /\ \A j \in 1 .. Len(Sent(c)) : Sent(c)'[j] = Sent(c)[j]
              /\ \E k \in Cmds : SentClose(k, c) /\ Sent(c)'[i] = [kind |-> "close", cmd |-> k]
           \/ /\ i = Len(Sent(c)') /\ i <= Len(Sent(c)) + 1 /\ opened[c] /\ ~opened'[c] /\ closed'[c]
              /\ \A j \in 1 .. (i - 1) : Sent(c)'[j] = Sent(c)[j]
              /\ \/ Sent(c)'[i] = [kind |-> "error"]
                 \/ Sent(c)'[i] = [kind |-> "echo"] /\ ~closed[c]
<1>1. PICK n \in 0 .. Len(Sent(c)) : SentMoves(c, n) /\ (n < Len(Sent(c)') => opened[c])
  BY SentCases
<1>2. /\ Len(Sent(c)) \in Nat /\ Len(Sent(c)') \in Nat
      /\ DOMAIN Sent(c) = 1 .. Len(Sent(c)) /\ DOMAIN Sent(c)' = 1 .. Len(Sent(c)')
  BY SentShape, SentShapeNext
<1>3. CASE i <= n
  <2>1. i \in DOMAIN Sent(c) /\ i \in 1 .. i /\ \A j \in 1 .. i : j \in 1 .. n
    BY <1>1, <1>2, <1>3
  <2>2. \A j \in 1 .. n : Sent(c)'[j] = Sent(c)[j]
    BY <1>1 DEF SentMoves
  <2>3. \A j \in 1 .. i : Sent(c)'[j] = Sent(c)[j]
    BY <2>1, <2>2
  <2> QED
    BY <2>1, <2>3
<1>4. CASE ~(i <= n)
  <2>1. i \in (n + 1) .. Len(Sent(c)') /\ opened[c]
    BY <1>1, <1>2, <1>4
  <2>2. NewEntry(c, n, i) /\ (n = Len(Sent(c)) \/ ~opened'[c])
    BY <1>1, <2>1 DEF SentMoves
  <2>3. \A j \in 1 .. n : Sent(c)'[j] = Sent(c)[j]
    BY <1>1 DEF SentMoves
  <2>4. n <= Len(Sent(c)) /\ (i = n + 1 => i <= Len(Sent(c)) + 1 /\ n = i - 1)
    BY <1>1, <1>2
  <2>5. CASE i = n + 1 /\ opened'[c]
    <3>1. n = Len(Sent(c)) /\ i = Len(Sent(c)) + 1 /\ \A j \in 1 .. Len(Sent(c)) : Sent(c)'[j] = Sent(c)[j]
      BY <2>2, <2>3, <2>5
    <3> QED
      BY <2>1, <2>2, <2>5, <3>1 DEF NewEntry
  <2>6. CASE i = n + 1 /\ ~opened'[c]
    <3>1. i <= Len(Sent(c)) + 1 /\ \A j \in 1 .. (i - 1) : Sent(c)'[j] = Sent(c)[j]
      BY <2>3, <2>4, <2>6
    <3> QED
      BY <2>1, <2>2, <2>6, <3>1 DEF NewEntry
  <2>7. CASE i # n + 1
    BY <2>2, <2>7 DEF NewEntry
  <2> QED
    BY <2>5, <2>6, <2>7
<1> QED
  BY <1>1, <1>2, <1>3, <1>4

\* What an open connection was sent stays.
LEMMA SentStays ==
    ASSUME TypeOK, TypeOK', CmdInv, FrameInv, ConnInv, [Next]_vars, NEW c \in Conns, opened'[c],
           NEW i \in DOMAIN Sent(c)
    PROVE  i \in DOMAIN Sent(c)' /\ Sent(c)'[i] = Sent(c)[i]
<1>1. PICK n \in 0 .. Len(Sent(c)) : SentMoves(c, n)
  BY SentCases
<1>2. n = Len(Sent(c)) /\ n <= Len(Sent(c)') /\ \A j \in 1 .. n : Sent(c)'[j] = Sent(c)[j]
  BY <1>1 DEF SentMoves
<1>3. /\ Len(Sent(c)) \in Nat /\ Len(Sent(c)') \in Nat
      /\ DOMAIN Sent(c) = 1 .. Len(Sent(c)) /\ DOMAIN Sent(c)' = 1 .. Len(Sent(c)')
  BY SentShape, SentShapeNext
<1> QED
  BY <1>2, <1>3

\* A command that has written to c is through with it in this leg.
LEMMA WroteFacts ==
    ASSUME TypeOK, CmdInv, FrameInv, NEW k \in Cmds, NEW c \in Conns, Wrote(k, c)
    PROVE  /\ k \in 1 .. count /\ Writing(k, c) /\ ~Writing(k, c)' /\ leg' = leg
           /\ leg[k] \in DOMAIN Legs(k) /\ Gone(k, leg[k], c)' /\ opened' = opened
           /\ Encoded(k) = [kind |-> "data", msg |-> Legs(k)[leg[k]].msg,
                            z |-> c \in Deflate /\ Legs(k)[leg[k]].msg \in Big,
                            cmd |-> k, leg |-> leg[k]]
<1>1. pc[k] = "write" /\ target[k] = c
  BY DEF Wrote, Write, WriteError
<1>2. leg' = leg /\ pc'[k] \in {"flag", "each", "done"} /\ todo'[k] \subseteq todo[k] /\ opened' = opened
  BY DEF Wrote, Write, WriteError, Written, TypeOK, exec
<1>3. c \notin todo[k] /\ leg[k] \in DOMAIN Legs(k) /\ k \in 1 .. count
  BY <1>1, HereFacts, RequestFacts DEF CmdInv, CmdOK
<1>4. Gone(k, leg[k], c)' /\ Writing(k, c) /\ ~Writing(k, c)'
  BY <1>1, <1>2, <1>3 DEF Gone, Passed, Visiting, Writing
<1> QED
  BY <1>1, <1>2, <1>3, <1>4, EncodedFacts DEF Here

-----------------------------------------------------------------------------
(***************************************************************************)
(* The invariants about what was sent.                                     *)
(***************************************************************************)
\* WriteTo looks at the flag first, and a command never comes back to a connection in the
\* same leg.
LEMMA ControlStep ==
    ASSUME TypeOK, CmdInv, [Next]_vars, NEW k \in Cmds, NEW c \in Conns
    PROVE  /\ Writing(k, c)' => Writing(k, c) \/ ~closed[c]
           /\ \A n \in Nat : Gone(k, n, c) => Gone(k, n, c)'
           /\ failed[k] \subseteq failed'[k]
<1> DEFINE Onset == Writing(k, c)' => Writing(k, c) \/ ~closed[c]
           Stays == (\A n \in Nat : Gone(k, n, c) => Gone(k, n, c)') /\ failed[k] \subseteq failed'[k]
<1> SUFFICES Onset /\ Stays
  OBVIOUS
<1> USE DEF exec, work, frames, conn, IsClosed
<1>s. ASSUME leg'[k] = leg[k], pc'[k] = pc[k], todo'[k] = todo[k], target'[k] = target[k],
             failed'[k] = failed[k]
      PROVE  Onset /\ Stays
  BY <1>s DEF Gone, Passed, Writing
<1> HIDE DEF Onset, Stays
<1>1. ASSUME NEW t \in Tasks, NEW r \in Requests, Receive(t, r) PROVE Onset /\ Stays
  <2>1. leg' = leg /\ todo' = todo /\ target' = target /\ failed' = failed
    BY <1>1 DEF Receive
  <2>2. pc'[k] = pc[k] \/ (pc[k] = "none" /\ pc'[k] = "start")
    BY <1>1, ReceiveFacts DEF Receive, TypeOK
  <2> QED
    BY <2>1, <2>2 DEF Onset, Stays, Gone, Passed, Writing
<1>2. ASSUME NEW j \in Cmds, Start(j) PROVE Onset /\ Stays
  <2>1. CASE j # k
    BY <1>2, <2>1, <1>s DEF Start, TypeOK
  <2>2. CASE j = k
    BY <1>2, <2>2 DEF Onset, Stays, Gone, Passed, Writing, Visiting, Start, TypeOK, CmdInv, CmdOK
  <2> QED
    BY <2>1, <2>2
<1>3. ASSUME NEW j \in Cmds, NEW f \in Frames, GetFrame(j, f) PROVE Onset /\ Stays
  <2>1. CASE j # k
    BY <1>3, <2>1, <1>s DEF GetFrame, Lookup, TypeOK
  <2>2. CASE j = k
    BY <1>3, <2>2 DEF Onset, Stays, Gone, Passed, Writing, Visiting, GetFrame, Lookup, TypeOK, CmdInv, CmdOK
  <2> QED
    BY <2>1, <2>2
<1>4. ASSUME NEW j \in Cmds, KeepFrame(j) PROVE Onset /\ Stays
  <2>1. CASE j # k
    BY <1>4, <2>1, <1>s DEF KeepFrame, Lookup, TypeOK
  <2>2. CASE j = k
    BY <1>4, <2>2 DEF Onset, Stays, Gone, Passed, Writing, Visiting, KeepFrame, Lookup, TypeOK, CmdInv, CmdOK
  <2> QED
    BY <2>1, <2>2
<1>5. ASSUME NEW j \in Cmds, NextLeg(j) PROVE Onset /\ Stays
  <2>1. CASE j # k
    BY <1>5, <2>1, <1>s DEF NextLeg, TypeOK
  <2>2. CASE j = k
    BY <1>5, <2>2 DEF Onset, Stays, Gone, Passed, Writing, Visiting, NextLeg, TypeOK, CmdInv, CmdOK
  <2> QED
    BY <2>1, <2>2
<1>6. ASSUME NEW j \in Cmds, NEW d \in Conns, Visit(j, d) PROVE Onset /\ Stays
  <2>1. CASE j # k
    BY <1>6, <2>1, <1>s DEF Visit, TypeOK
  <2>2. CASE j = k
    BY <1>6, <2>2 DEF Onset, Stays, Gone, Passed, Writing, Visiting, Visit, TypeOK, CmdInv, CmdOK
  <2> QED
    BY <2>1, <2>2
<1>7. ASSUME NEW j \in Cmds, NEW d \in Conns, LookOpen(j, d) PROVE Onset /\ Stays
  <2>1. CASE j # k
    BY <1>7, <2>1, <1>s DEF LookOpen, TypeOK
  <2>2. CASE j = k
    BY <1>7, <2>2 DEF Onset, Stays, Gone, Passed, Writing, Visiting, LookOpen, TypeOK, CmdInv, CmdOK
  <2> QED
    BY <2>1, <2>2
<1>8. ASSUME NEW j \in Cmds, NEW d \in Conns, LookClosed(j, d) PROVE Onset /\ Stays
  <2>1. CASE j # k
    BY <1>8, <2>1, <1>s DEF LookClosed, WriteFailed, Written, TypeOK
  <2>2. CASE j = k
    BY <1>8, <2>2 DEF Onset, Stays, Gone, Passed, Writing, Visiting, LookClosed, WriteFailed, Written, TypeOK, CmdInv, CmdOK
  <2> QED
    BY <2>1, <2>2
<1>9. ASSUME NEW j \in Cmds, Write(j) PROVE Onset /\ Stays
  <2>1. CASE j # k
    BY <1>9, <2>1, <1>s DEF Write, Written, TypeOK
  <2>2. CASE j = k
    BY <1>9, <2>2 DEF Onset, Stays, Gone, Passed, Writing, Visiting, Write, Written, TypeOK, CmdInv, CmdOK
  <2> QED
    BY <2>1, <2>2
<1>10. ASSUME NEW j \in Cmds, WriteError(j) PROVE Onset /\ Stays
  <2>1. CASE j # k
    BY <1>10, <2>1, <1>s DEF WriteError, Written, TypeOK
  <2>2. CASE j = k
    BY <1>10, <2>2 DEF Onset, Stays, Gone, Passed, Writing, Visiting, WriteError, Written, TypeOK, CmdInv, CmdOK
  <2> QED
    BY <2>1, <2>2
<1>11. ASSUME NEW j \in Cmds, CompressError(j) PROVE Onset /\ Stays
  <2>1. CASE j # k
    BY <1>11, <2>1, <1>s DEF CompressError, WriteFailed, Written, TypeOK
  <2>2. CASE j = k
    BY <1>11, <2>2 DEF Onset, Stays, Gone, Passed, Writing, Visiting, CompressError, WriteFailed, Written, TypeOK, CmdInv, CmdOK
  <2> QED
    BY <2>1, <2>2
<1>12. ASSUME NEW j \in Cmds, FlagLost(j) PROVE Onset /\ Stays
  <2>1. CASE j # k
    BY <1>12, <2>1, <1>s DEF FlagLost, Closed, TypeOK
  <2>2. CASE j = k
    BY <1>12, <2>2 DEF Onset, Stays, Gone, Passed, Writing, Visiting, FlagLost, Closed, TypeOK, CmdInv, CmdOK
  <2> QED
    BY <2>1, <2>2
<1>13. ASSUME NEW j \in Cmds, FlagWon(j) PROVE Onset /\ Stays
  <2>1. CASE j # k
    BY <1>13, <2>1, <1>s DEF FlagWon, TypeOK
  <2>2. CASE j = k
    BY <1>13, <2>2 DEF Onset, Stays, Gone, Passed, Writing, Visiting, FlagWon, TypeOK, CmdInv, CmdOK
  <2> QED
    BY <2>1, <2>2
<1>14. ASSUME NEW j \in Cmds, SendClose(j) PROVE Onset /\ Stays
  <2>1. CASE j # k
    BY <1>14, <2>1, <1>s DEF SendClose, Closed, TypeOK
  <2>2. CASE j = k
    BY <1>14, <2>2 DEF Onset, Stays, Gone, Passed, Writing, Visiting, SendClose, Closed, TypeOK, CmdInv, CmdOK
  <2> QED
    BY <2>1, <2>2
<1>15. ASSUME NEW j \in Cmds, SendCloseError(j) PROVE Onset /\ Stays
  <2>1. CASE j # k
    BY <1>15, <2>1, <1>s DEF SendCloseError, Closed, TypeOK
  <2>2. CASE j = k
    BY <1>15, <2>2 DEF Onset, Stays, Gone, Passed, Writing, Visiting, SendCloseError, Closed, TypeOK, CmdInv, CmdOK
  <2> QED
    BY <2>1, <2>2
<1>16. ASSUME NEW d \in Conns, Timer(d) PROVE Onset /\ Stays
  BY <1>16, <1>s DEF Timer
<1>17. ASSUME NEW d \in Conns, Run(d) PROVE Onset /\ Stays
  BY <1>17, <1>s DEF Run
<1>18. ASSUME NEW d \in Conns, End(d) PROVE Onset /\ Stays
  BY <1>18, <1>s DEF End
<1>19. ASSUME NEW d \in Conns, Hangup(d) PROVE Onset /\ Stays
  BY <1>19, <1>s DEF Hangup
<1>20. ASSUME NEW d \in Conns, ClientClose(d) PROVE Onset /\ Stays
  BY <1>20, <1>s DEF ClientClose
<1>21. ASSUME NEW d \in Conns, IllegalFrame(d) PROVE Onset /\ Stays
  BY <1>21, <1>s DEF IllegalFrame
<1>22. ASSUME NEW d \in Conns, Unlist(d) PROVE Onset /\ Stays
  BY <1>22, <1>s DEF Unlist
<1>23. CASE UNCHANGED vars
  BY <1>23, <1>s DEF vars
<1> QED
  BY <1>1, <1>2, <1>3, <1>4, <1>5, <1>6, <1>7, <1>8, <1>9, <1>10, <1>11, <1>12,
     <1>13, <1>14, <1>15, <1>16, <1>17, <1>18, <1>19, <1>20, <1>21, <1>22, <1>23 DEF Next, Command, Loop

\* A client is sent what its commands have for it.
LEMMA DataStep ==
    ASSUME TypeOK, TypeOK', CmdInv, FrameInv, ConnInv, TargetInv, DataInv, [Next]_vars
    PROVE  DataInv'
<1> SUFFICES ASSUME NEW c \in Conns, NEW i \in DOMAIN Sent(c)', NEW e, e = Sent(c)'[i], e.kind = "data"
             PROVE  /\ e.cmd \in 1 .. count'
                    /\ Addresses(e.cmd, e.leg, c)'
                    /\ e.msg = Legs(e.cmd)'[e.leg].msg
                    /\ e.z = (c \in Deflate /\ e.msg \in Big)
  BY DEF DataInv, Addresses, Legs, Op
<1>1. CASE i \in DOMAIN Sent(c) /\ e = Sent(c)[i]
  <2>1. /\ e.cmd \in 1 .. count /\ Addresses(e.cmd, e.leg, c)
        /\ e.msg = Legs(e.cmd)[e.leg].msg
        /\ e.z = (c \in Deflate /\ e.msg \in Big)
    BY <1>1 DEF DataInv
  <2>2. /\ Legs(e.cmd)' = Legs(e.cmd) /\ e.cmd \in 1 .. count'
        /\ Addresses(e.cmd, e.leg, c)' <=> Addresses(e.cmd, e.leg, c)
    BY <2>1, RequestStays
  <2> QED
    BY <2>1, <2>2
<1>2. ASSUME NEW k \in Cmds, Wrote(k, c), e = Encoded(k)
      PROVE  /\ e.cmd \in 1 .. count'
             /\ Addresses(e.cmd, e.leg, c)'
             /\ e.msg = Legs(e.cmd)'[e.leg].msg
             /\ e.z = (c \in Deflate /\ e.msg \in Big)
  <2>1. /\ k \in 1 .. count /\ target[k] = c
        /\ e = [kind |-> "data", msg |-> Legs(k)[leg[k]].msg,
                z |-> c \in Deflate /\ Legs(k)[leg[k]].msg \in Big, cmd |-> k, leg |-> leg[k]]
    BY <1>2, WroteFacts DEF Writing
  <2>2. Addresses(k, leg[k], c)
    BY <1>2, <2>1 DEF TargetInv
  <2>3. e.cmd = k /\ e.leg = leg[k] /\ e.msg = Legs(k)[e.leg].msg /\ e.z = (c \in Deflate /\ e.msg \in Big)
    BY <2>1
  <2>4. /\ Legs(e.cmd)' = Legs(e.cmd) /\ e.cmd \in 1 .. count'
        /\ Addresses(e.cmd, e.leg, c)' <=> Addresses(e.cmd, e.leg, c)
    BY <2>1, <2>3, RequestStays
  <2> QED
    BY <2>2, <2>3, <2>4
<1> QED
  BY <1>1, <1>2, EntryStep

\* A command goes on in the order of its legs.
LEMMA OrderStep ==
    ASSUME TypeOK, TypeOK', CmdInv, FrameInv, ConnInv, DataInv, OrderInv, [Next]_vars
    PROVE  OrderInv'
<1>1. ASSUME NEW c \in Conns, NEW i \in DOMAIN Sent(c)', NEW e, e = Sent(c)'[i], e.kind = "data"
      PROVE  Gone(e.cmd, e.leg, c)'
  <2>1. CASE i \in DOMAIN Sent(c) /\ e = Sent(c)[i]
    <3>1. e.cmd \in Cmds /\ e.leg \in Nat
      <4>1. e.cmd \in 1 .. count /\ Addresses(e.cmd, e.leg, c)
        BY <1>1, <2>1 DEF DataInv
      <4> QED
        BY <4>1, RequestFacts DEF Addresses
    <3>2. Gone(e.cmd, e.leg, c)
      BY <1>1, <2>1 DEF OrderInv
    <3> QED
      BY <3>1, <3>2, ControlStep
  <2>2. ASSUME NEW k \in Cmds, Wrote(k, c), e = Encoded(k) PROVE Gone(e.cmd, e.leg, c)'
    <3>1. e.cmd = k /\ e.leg = leg[k] /\ Gone(k, leg[k], c)' /\ leg' = leg
      BY <2>2, WroteFacts
    <3> QED
      BY <3>1 DEF Gone, Passed, Writing
  <2> QED
    BY <1>1, <2>1, <2>2, EntryStep
<1>2. ASSUME NEW c \in Conns, NEW i \in DOMAIN Sent(c)', NEW j \in DOMAIN Sent(c)', i < j,
             Sent(c)'[i].kind = "data", Sent(c)'[j].kind = "data", Sent(c)'[i].cmd = Sent(c)'[j].cmd
      PROVE  Sent(c)'[i].leg < Sent(c)'[j].leg
  <2>1. DOMAIN Sent(c)' = 1 .. Len(Sent(c)') /\ DOMAIN Sent(c) = 1 .. Len(Sent(c))
        /\ Len(Sent(c)) \in Nat /\ Len(Sent(c)') \in Nat
    BY SentShape, SentShapeNext
  <2>2. CASE j \in DOMAIN Sent(c) /\ \A m \in 1 .. j : Sent(c)'[m] = Sent(c)[m]
    <3>1. i \in DOMAIN Sent(c) /\ Sent(c)'[i] = Sent(c)[i] /\ Sent(c)'[j] = Sent(c)[j]
      BY <1>2, <2>1, <2>2
    <3> QED
      BY <1>2, <2>2, <3>1 DEF OrderInv, CastInOrder
  <2>3. ASSUME j = Len(Sent(c)) + 1, \A m \in 1 .. Len(Sent(c)) : Sent(c)'[m] = Sent(c)[m],
               NEW k \in Cmds, Wrote(k, c), Sent(c)'[j] = Encoded(k)
        PROVE  Sent(c)'[i].leg < Sent(c)'[j].leg
    <3>1. i \in DOMAIN Sent(c) /\ Sent(c)'[i] = Sent(c)[i]
      BY <1>2, <2>1, <2>3
    <3>2. Sent(c)'[j].cmd = k /\ Sent(c)'[j].leg = leg[k] /\ pc[k] = "write" /\ target[k] = c
      BY <2>3, WroteFacts DEF Writing
    <3>3. Gone(Sent(c)[i].cmd, Sent(c)[i].leg, c)
      BY <1>2, <3>1 DEF OrderInv
    <3>4. Sent(c)[i].cmd = k
      BY <1>2, <3>1, <3>2
    <3> QED
      BY <3>1, <3>2, <3>3, <3>4 DEF Gone, Passed, Writing
  <2> QED
    BY <1>2, <2>2, <2>3, EntryStep
<1>3. CastInOrder'
  BY <1>2 DEF CastInOrder
<1>4. \A c \in Conns : \A i \in DOMAIN Sent(c)' :
         Sent(c)'[i].kind = "data" =>
            /\ pc'[Sent(c)'[i].cmd] \notin {"none", "start"}
            /\ \/ Sent(c)'[i].leg < leg'[Sent(c)'[i].cmd]
               \/ pc'[Sent(c)'[i].cmd] = "done"
               \/ /\ Sent(c)'[i].leg = leg'[Sent(c)'[i].cmd] /\ pc'[Sent(c)'[i].cmd] \in Visiting
                  /\ c \notin todo'[Sent(c)'[i].cmd]
            /\ ~(/\ Sent(c)'[i].leg = leg'[Sent(c)'[i].cmd]
                 /\ pc'[Sent(c)'[i].cmd] = "write" /\ target'[Sent(c)'[i].cmd] = c)
  BY <1>1 DEF Gone, Passed, Writing
<1> QED
  BY <1>3, <1>4 DEF OrderInv, Gone, Passed, Writing

\* Only Receive makes commands.
LEMMA OnlyReceive ==
    ASSUME [Next]_vars, count' # count
    PROVE  \E t \in Tasks, r \in Requests : Receive(t, r)
  BY ZenonT(40) DEF Next, Command, Loop, vars, exec, Start, GetFrame, KeepFrame, NextLeg, Visit, LookOpen,
     LookClosed, Write, WriteError, CompressError, FlagLost, FlagWon, SendClose, SendCloseError,
     Timer, Run, End, Hangup, ClientClose, IllegalFrame, Unlist

\* The last command of a task connection that closed c is over: its flag is up.
LEMMA FinalStep ==
    ASSUME TypeOK, TypeOK', CmdInv, FrameInv, ConnInv, DataInv, CloseInv, BusyInv, FinalInv, [Next]_vars
    PROVE  FinalInv'
<1> SUFFICES ASSUME NEW j \in 1 .. count', NEW k \in 1 .. count', NEW c \in Conns, ClosedBefore(j, k, c)'
             PROVE  /\ ~Writing(k, c)'
                    /\ \A i \in DOMAIN Sent(c)' : Sent(c)'[i].kind = "data" => Sent(c)'[i].cmd # k
  BY DEF FinalInv
<1>1. CASE k \in 1 .. count
  <2>1. j \in 1 .. count /\ j \in Cmds /\ k \in Cmds
    <3>1. j < k
      BY DEF ClosedBefore
    <3>2. j \in 1 .. count
      BY <1>1, <3>1 DEF TypeOK
    <3> QED
      BY <1>1, <3>2, RequestFacts
  <2>2. ClosedBefore(j, k, c)
    BY <1>1, <2>1, RequestStays DEF ClosedBefore
  <2>3. pc[j] = "done" /\ Op(j).closes /\ \E n \in DOMAIN Legs(j) : Addresses(j, n, c)
    BY <1>1, <2>1, <2>2 DEF BusyInv, ClosedBefore
  <2>4. closed[c]
    BY <2>1, <2>3 DEF CloseInv, Passed, Shut
  <2>5. ~Writing(k, c)
    BY <1>1, <2>1, <2>2 DEF FinalInv
  <2>6. ~Writing(k, c)'
    BY <2>1, <2>4, <2>5, ControlStep
  <2>7. ASSUME NEW i \in DOMAIN Sent(c)', Sent(c)'[i].kind = "data" PROVE Sent(c)'[i].cmd # k
    <3>1. CASE i \in DOMAIN Sent(c) /\ Sent(c)'[i] = Sent(c)[i]
      BY <1>1, <2>1, <2>2, <2>7, <3>1 DEF FinalInv
    <3>2. ASSUME NEW m \in Cmds, Wrote(m, c), Sent(c)'[i] = Encoded(m) PROVE Sent(c)'[i].cmd # k
      BY <2>5, <3>2, WroteFacts
    <3> QED
      BY <2>7, <3>1, <3>2, EntryStep
  <2> QED
    BY <2>6, <2>7
<1>2. CASE k \notin 1 .. count
  <2>1. PICK t \in Tasks, r \in Requests : Receive(t, r)
    <3>1. count' # count
      BY <1>2
    <3> QED
      BY <3>1, OnlyReceive
  <2>2. pc'[k] = "start"
    BY <1>2, <2>1, ReceivePassed
  <2>3. Sent(c)' = Sent(c)
    BY <2>1 DEF Receive, conn, Sent
  <2>4. ASSUME NEW i \in DOMAIN Sent(c)', Sent(c)'[i].kind = "data" PROVE Sent(c)'[i].cmd # k
    BY <1>2, <2>3, <2>4 DEF DataInv
  <2> QED
    BY <2>2, <2>4 DEF Writing
<1> QED
  BY <1>1, <1>2

\* How a command comes to WriteCloseFrame, and how it leaves WriteTo.
LEMMA CloserStep ==
    ASSUME TypeOK, CmdInv, FrameInv, [Next]_vars, NEW k \in Cmds
    PROVE  /\ pc'[k] = "close" =>
                \/ pc[k] = "close" /\ target'[k] = target[k] /\ ~SendClose(k) /\ ~SendCloseError(k)
                \/ /\ pc[k] = "flag" /\ target'[k] = target[k] /\ ~closed[target[k]] /\ closed'[target[k]]
                   /\ opened' = opened /\ \A j \in Cmds \ {k} : pc'[j] = pc[j]
           /\ pc'[k] \in {"flag", "close"} =>
                \/ pc[k] \in {"flag", "close"} /\ target'[k] = target[k] /\ frame'[k] = frame[k]
                \/ frame'[k] = NoFrame
                \/ Wrote(k, target'[k])
                \/ <<leg[k], target'[k]>> \in failed'[k] /\ leg[k] \in DOMAIN Legs(k) /\ pc[k] # "none"
           /\ \A c \in Conns : Writing(k, c) =>
                \/ Writing(k, c)' /\ leg'[k] = leg[k]
                \/ Wrote(k, c)
                \/ <<leg[k], c>> \in failed'[k]
<1> DEFINE Raising == pc'[k] = "close" =>
                \/ pc[k] = "close" /\ target'[k] = target[k] /\ ~SendClose(k) /\ ~SendCloseError(k)
                \/ /\ pc[k] = "flag" /\ target'[k] = target[k] /\ ~closed[target[k]] /\ closed'[target[k]]
                   /\ opened' = opened /\ \A j \in Cmds \ {k} : pc'[j] = pc[j]
           Sending == pc'[k] \in {"flag", "close"} =>
                \/ pc[k] \in {"flag", "close"} /\ target'[k] = target[k] /\ frame'[k] = frame[k]
                \/ frame'[k] = NoFrame
                \/ Wrote(k, target'[k])
                \/ <<leg[k], target'[k]>> \in failed'[k] /\ leg[k] \in DOMAIN Legs(k) /\ pc[k] # "none"
           Ending == \A c \in Conns : Writing(k, c) =>
                \/ Writing(k, c)' /\ leg'[k] = leg[k]
                \/ Wrote(k, c)
                \/ <<leg[k], c>> \in failed'[k]
<1> SUFFICES Raising /\ Sending /\ Ending
  OBVIOUS
<1> USE DEF exec, work, frames, conn
<1>h. pc[k] \in Visiting => leg[k] \in DOMAIN Legs(k)
  BY HereFacts, RequestFacts DEF Visiting
<1>x. pc'[k] = "close" => ~SendClose(k) /\ ~SendCloseError(k)
  BY DEF SendClose, SendCloseError, Closed, TypeOK
<1>s. ASSUME leg'[k] = leg[k], pc'[k] = pc[k], target'[k] = target[k], frame'[k] = frame[k]
      PROVE  Raising /\ Sending /\ Ending
  BY <1>s, <1>x DEF Writing
<1>1. ASSUME NEW t \in Tasks, NEW r \in Requests, Receive(t, r) PROVE Raising /\ Sending /\ Ending
  <2>1. target' = target /\ frame' = frame /\ failed' = failed /\ leg' = leg
    BY <1>1 DEF Receive
  <2>2. pc'[k] = pc[k] \/ (pc[k] = "none" /\ pc'[k] = "start")
    BY <1>1, ReceiveFacts DEF Receive, TypeOK
  <2> QED
    BY <2>1, <2>2, <1>x DEF Raising, Sending, Ending, Writing
<1>2. ASSUME NEW j \in Cmds, Start(j) PROVE Raising /\ Sending /\ Ending
  <2>1. CASE j # k
    BY <1>2, <2>1, <1>s DEF Start, TypeOK
  <2>2. CASE j = k
    BY <1>2, <2>2, <1>h DEF Raising, Sending, Ending, Writing, Start, TypeOK, CmdInv, CmdOK
  <2> QED
    BY <2>1, <2>2
<1>3. ASSUME NEW j \in Cmds, NEW f \in Frames, GetFrame(j, f) PROVE Raising /\ Sending /\ Ending
  <2>1. CASE j # k
    BY <1>3, <2>1, <1>s DEF GetFrame, Lookup, TypeOK
  <2>2. CASE j = k
    BY <1>3, <2>2, <1>h DEF Raising, Sending, Ending, Writing, GetFrame, Lookup, TypeOK, CmdInv, CmdOK
  <2> QED
    BY <2>1, <2>2
<1>4. ASSUME NEW j \in Cmds, KeepFrame(j) PROVE Raising /\ Sending /\ Ending
  <2>1. CASE j # k
    BY <1>4, <2>1, <1>s DEF KeepFrame, Lookup, TypeOK
  <2>2. CASE j = k
    BY <1>4, <2>2, <1>h DEF Raising, Sending, Ending, Writing, KeepFrame, Lookup, TypeOK, CmdInv, CmdOK
  <2> QED
    BY <2>1, <2>2
<1>5. ASSUME NEW j \in Cmds, NextLeg(j) PROVE Raising /\ Sending /\ Ending
  <2>1. CASE j # k
    BY <1>5, <2>1, <1>s DEF NextLeg, PutFrame, TypeOK
  <2>2. CASE j = k
    BY <1>5, <2>2, <1>h DEF Raising, Sending, Ending, Writing, NextLeg, PutFrame, TypeOK, CmdInv, CmdOK
  <2> QED
    BY <2>1, <2>2
<1>6. ASSUME NEW j \in Cmds, NEW d \in Conns, Visit(j, d) PROVE Raising /\ Sending /\ Ending
  <2>1. CASE j # k
    BY <1>6, <2>1, <1>s DEF Visit, TypeOK
  <2>2. CASE j = k
    BY <1>6, <2>2, <1>h DEF Raising, Sending, Ending, Writing, Visit, TypeOK, CmdInv, CmdOK
  <2> QED
    BY <2>1, <2>2
<1>7. ASSUME NEW j \in Cmds, NEW d \in Conns, LookOpen(j, d) PROVE Raising /\ Sending /\ Ending
  <2>1. CASE j # k
    BY <1>7, <2>1, <1>s DEF LookOpen, TypeOK
  <2>2. CASE j = k
    BY <1>7, <2>2, <1>h DEF Raising, Sending, Ending, Writing, LookOpen, TypeOK, CmdInv, CmdOK
  <2> QED
    BY <2>1, <2>2
<1>8. ASSUME NEW j \in Cmds, NEW d \in Conns, LookClosed(j, d) PROVE Raising /\ Sending /\ Ending
  <2>1. CASE j # k
    BY <1>8, <2>1, <1>s DEF LookClosed, WriteFailed, Written, PutFrame, TypeOK
  <2>2. CASE j = k
    BY <1>8, <2>2, <1>h DEF Raising, Sending, Ending, Writing, LookClosed, WriteFailed, Written, PutFrame, TypeOK, CmdInv, CmdOK
  <2> QED
    BY <2>1, <2>2
<1>9. ASSUME NEW j \in Cmds, Write(j) PROVE Raising /\ Sending /\ Ending
  <2>1. CASE j # k
    BY <1>9, <2>1, <1>s DEF Write, Written, TypeOK
  <2>2. CASE j = k
    BY <1>9, <2>2, <1>h DEF Raising, Sending, Ending, Writing, Write, Written, Wrote, TypeOK, CmdInv, CmdOK
  <2> QED
    BY <2>1, <2>2
<1>10. ASSUME NEW j \in Cmds, WriteError(j) PROVE Raising /\ Sending /\ Ending
  <2>1. CASE j # k
    BY <1>10, <2>1, <1>s DEF WriteError, Written, PutFrame, TypeOK
  <2>2. CASE j = k
    BY <1>10, <2>2, <1>h DEF Raising, Sending, Ending, Writing, WriteError, Written, PutFrame, Wrote, TypeOK, CmdInv, CmdOK
  <2> QED
    BY <2>1, <2>2
<1>11. ASSUME NEW j \in Cmds, CompressError(j) PROVE Raising /\ Sending /\ Ending
  <2>1. CASE j # k
    BY <1>11, <2>1, <1>s DEF CompressError, WriteFailed, Written, PutFrame, TypeOK
  <2>2. CASE j = k
    BY <1>11, <2>2, <1>h DEF Raising, Sending, Ending, Writing, CompressError, WriteFailed, Written, PutFrame, TypeOK, CmdInv, CmdOK
  <2> QED
    BY <2>1, <2>2
<1>12. ASSUME NEW j \in Cmds, FlagLost(j) PROVE Raising /\ Sending /\ Ending
  <2>1. CASE j # k
    BY <1>12, <2>1, <1>s DEF FlagLost, Closed, TypeOK
  <2>2. CASE j = k
    BY <1>12, <2>2, <1>h DEF Raising, Sending, Ending, Writing, FlagLost, Closed, TypeOK, CmdInv, CmdOK
  <2> QED
    BY <2>1, <2>2
<1>13. ASSUME NEW j \in Cmds, FlagWon(j) PROVE Raising /\ Sending /\ Ending
  <2>1. CASE j # k
    BY <1>13, <2>1, <1>s DEF FlagWon, TypeOK
  <2>2. CASE j = k
    BY <1>13, <2>2, <1>h DEF Raising, Sending, Ending, Writing, FlagWon, TypeOK, CmdInv, CmdOK
  <2> QED
    BY <2>1, <2>2
<1>14. ASSUME NEW j \in Cmds, SendClose(j) PROVE Raising /\ Sending /\ Ending
  <2>1. CASE j # k
    BY <1>14, <2>1, <1>s DEF SendClose, Closed, TypeOK
  <2>2. CASE j = k
    BY <1>14, <2>2, <1>h DEF Raising, Sending, Ending, Writing, SendClose, Closed, TypeOK, CmdInv, CmdOK
  <2> QED
    BY <2>1, <2>2
<1>15. ASSUME NEW j \in Cmds, SendCloseError(j) PROVE Raising /\ Sending /\ Ending
  <2>1. CASE j # k
    BY <1>15, <2>1, <1>s DEF SendCloseError, Closed, TypeOK
  <2>2. CASE j = k
    BY <1>15, <2>2, <1>h DEF Raising, Sending, Ending, Writing, SendCloseError, Closed, TypeOK, CmdInv, CmdOK
  <2> QED
    BY <2>1, <2>2
<1>16. ASSUME NEW d \in Conns, Timer(d) PROVE Raising /\ Sending /\ Ending
  BY <1>16, <1>s DEF Timer
<1>17. ASSUME NEW d \in Conns, Run(d) PROVE Raising /\ Sending /\ Ending
  BY <1>17, <1>s DEF Run
<1>18. ASSUME NEW d \in Conns, End(d) PROVE Raising /\ Sending /\ Ending
  BY <1>18, <1>s DEF End
<1>19. ASSUME NEW d \in Conns, Hangup(d) PROVE Raising /\ Sending /\ Ending
  BY <1>19, <1>s DEF Hangup
<1>20. ASSUME NEW d \in Conns, ClientClose(d) PROVE Raising /\ Sending /\ Ending
  BY <1>20, <1>s DEF ClientClose
<1>21. ASSUME NEW d \in Conns, IllegalFrame(d) PROVE Raising /\ Sending /\ Ending
  BY <1>21, <1>s DEF IllegalFrame
<1>22. ASSUME NEW d \in Conns, Unlist(d) PROVE Raising /\ Sending /\ Ending
  BY <1>22, <1>s DEF Unlist
<1>23. CASE UNCHANGED vars
  BY <1>23, <1>s DEF vars
<1> QED
  BY <1>1, <1>2, <1>3, <1>4, <1>5, <1>6, <1>7, <1>8, <1>9, <1>10, <1>11, <1>12,
     <1>13, <1>14, <1>15, <1>16, <1>17, <1>18, <1>19, <1>20, <1>21, <1>22, <1>23 DEF Next, Command, Loop

\* The flag is raised before the close frame is sent.
LEMMA LateStep ==
    ASSUME TypeOK, TypeOK', CmdInv, FrameInv, ConnInv, DataInv, FlagInv, LateInv, [Next]_vars
    PROVE  LateInv'
<1>1. ASSUME NEW c \in Conns, NEW i \in DOMAIN Sent(c)'
      PROVE  /\ Sent(c)'[i].kind \in {"echo", "error"} => i = Len(Sent(c)') /\ ~opened'[c]
             /\ Sent(c)'[i].kind \in {"close", "echo"} => closed'[c]
  <2>1. CASE i \in DOMAIN Sent(c) /\ Sent(c)'[i] = Sent(c)[i]
    <3>1. Sent(c)[i].kind \in {"echo", "error"} => i = Len(Sent(c)) /\ ~opened[c]
      BY <2>1 DEF LateInv
    <3>2. ~opened[c] => Sent(c)' = Sent(c) /\ ~opened'[c]
      BY SentStep, Forever
    <3>3. Sent(c)[i].kind \in {"close", "echo"} => closed'[c]
      BY <2>1, Forever DEF LateInv
    <3> QED
      BY <2>1, <3>1, <3>2, <3>3
  <2>2. ASSUME NEW k \in Cmds, Wrote(k, c), Sent(c)'[i] = Encoded(k) PROVE Sent(c)'[i].kind = "data"
    BY <2>2, WroteFacts
  <2>3. ASSUME NEW k \in Cmds, SentClose(k, c), Sent(c)'[i] = [kind |-> "close", cmd |-> k]
        PROVE  closed'[c] /\ Sent(c)'[i].kind = "close"
    <3>1. pc[k] = "close" /\ target[k] = c
      BY <2>3 DEF SentClose, SendClose, SendCloseError
    <3> QED
      BY <2>3, <3>1, Forever DEF FlagInv
  <2> QED
    BY <2>1, <2>2, <2>3, EntryStep
<1>2. ASSUME NEW c \in Conns, NEW i \in DOMAIN Sent(c)', Sent(c)'[i].kind = "close",
             NEW j \in (i + 1) .. Len(Sent(c)'), NEW e, e = Sent(c)'[j], e.kind = "data"
      PROVE  /\ ~Writing(e.cmd, c)'
             /\ \A m \in (j + 1) .. Len(Sent(c)') : Sent(c)'[m].kind = "data" => Sent(c)'[m].cmd # e.cmd
  <2>1. DOMAIN Sent(c)' = 1 .. Len(Sent(c)') /\ DOMAIN Sent(c) = 1 .. Len(Sent(c))
        /\ Len(Sent(c)) \in Nat /\ Len(Sent(c)') \in Nat
    BY SentShape, SentShapeNext
  <2>2. j \in DOMAIN Sent(c)'
    BY <2>1
  <2>3. CASE j \in DOMAIN Sent(c) /\ e = Sent(c)[j] /\ \A m \in 1 .. j : Sent(c)'[m] = Sent(c)[m]
    <3>1. i \in DOMAIN Sent(c) /\ Sent(c)'[i] = Sent(c)[i] /\ j \in (i + 1) .. Len(Sent(c))
      BY <2>1, <2>3
    <3>2. /\ closed[c] /\ ~Writing(e.cmd, c)
          /\ \A m \in (j + 1) .. Len(Sent(c)) : Sent(c)[m].kind = "data" => Sent(c)[m].cmd # e.cmd
      BY <1>2, <2>3, <3>1 DEF LateInv
    <3>3. e.cmd \in Cmds
      BY <1>2, <2>3, RequestFacts DEF DataInv
    <3>4. ~Writing(e.cmd, c)'
      BY <3>2, <3>3, ControlStep
    <3>5. ASSUME NEW m \in (j + 1) .. Len(Sent(c)'), Sent(c)'[m].kind = "data" PROVE Sent(c)'[m].cmd # e.cmd
      <4>1. m \in DOMAIN Sent(c)'
        BY <2>1, <3>1, <3>5
      <4>2. CASE m \in DOMAIN Sent(c) /\ Sent(c)'[m] = Sent(c)[m]
        <5>1. m \in (j + 1) .. Len(Sent(c))
          BY <2>1, <3>1, <4>2
        <5> QED
          BY <3>2, <3>5, <4>2, <5>1
      <4>3. ASSUME NEW k \in Cmds, Wrote(k, c), Sent(c)'[m] = Encoded(k) PROVE Sent(c)'[m].cmd # e.cmd
        BY <3>2, <4>3, WroteFacts
      <4> QED
        BY <3>5, <4>1, <4>2, <4>3, EntryStep
    <3> QED
      BY <3>4, <3>5
  <2>4. ASSUME j = Len(Sent(c)'), NEW k \in Cmds, Wrote(k, c), e = Encoded(k)
        PROVE  /\ ~Writing(e.cmd, c)'
               /\ \A m \in (j + 1) .. Len(Sent(c)') : Sent(c)'[m].kind = "data" => Sent(c)'[m].cmd # e.cmd
    <3>1. e.cmd = k /\ ~Writing(k, c)'
      BY <2>4, WroteFacts
    <3>2. ~Writing(e.cmd, c)'
      BY <3>1 DEF Writing
    <3>3. (j + 1) .. Len(Sent(c)') = {}
      BY <2>1, <2>4
    <3> QED
      BY <3>2, <3>3
  <2> QED
    BY <1>2, <2>2, <2>3, <2>4, EntryStep
<1>3. ASSUME NEW c \in Conns, NEW i \in DOMAIN Sent(c)', Sent(c)'[i].kind = "close",
             NEW j \in (i + 1) .. Len(Sent(c)'), Sent(c)'[j].kind = "data"
      PROVE  /\ ~(pc'[Sent(c)'[j].cmd] = "write" /\ target'[Sent(c)'[j].cmd] = c)
             /\ \A m \in (j + 1) .. Len(Sent(c)') :
                    Sent(c)'[m].kind = "data" => Sent(c)'[m].cmd # Sent(c)'[j].cmd
  BY <1>2, <1>3 DEF Writing
<1> QED
  BY <1>1, <1>3 DEF LateInv, Writing

\* Only the winner of the flag sends a close frame.
LEMMA FlagStep ==
    ASSUME TypeOK, TypeOK', CmdInv, FrameInv, ConnInv, FlagInv, LateInv, [Next]_vars
    PROVE  FlagInv'
<1> DEFINE Bye(e) == e.kind \in {"close", "echo"}
<1>n. ASSUME NEW c \in Conns, NEW i \in DOMAIN Sent(c)', Bye(Sent(c)'[i])
      PROVE  \/ i \in DOMAIN Sent(c) /\ Sent(c)'[i] = Sent(c)[i] /\ closed[c]
             \/ /\ i = Len(Sent(c)) + 1 /\ opened'[c]
                /\ \E k \in Cmds : SentClose(k, c) /\ pc[k] = "close" /\ target[k] = c
             \/ i = Len(Sent(c)') /\ opened[c] /\ ~opened'[c] /\ ~closed[c]
  <2>1. CASE i \in DOMAIN Sent(c) /\ Sent(c)'[i] = Sent(c)[i]
    BY <1>n, <2>1 DEF LateInv
  <2>2. ASSUME NEW k \in Cmds, Wrote(k, c), Sent(c)'[i] = Encoded(k) PROVE Sent(c)'[i].kind = "data"
    BY <2>2, WroteFacts
  <2>3. ASSUME NEW k \in Cmds, SentClose(k, c) PROVE pc[k] = "close" /\ target[k] = c
    BY <2>3 DEF SentClose, SendClose, SendCloseError
  <2> QED
    BY <1>n, <2>1, <2>2, <2>3, EntryStep
<1>o. ASSUME NEW c \in Conns, NEW i \in DOMAIN Sent(c)', Bye(Sent(c)'[i]), NEW j \in DOMAIN Sent(c)', Bye(Sent(c)'[j]),
             i \in DOMAIN Sent(c) /\ Sent(c)'[i] = Sent(c)[i]
      PROVE  i = j
  <2>1. closed[c]
    BY <1>o DEF LateInv
  <2>2. CASE j \in DOMAIN Sent(c) /\ Sent(c)'[j] = Sent(c)[j]
    BY <1>o, <2>2 DEF FlagInv
  <2>3. ASSUME NEW k \in Cmds, pc[k] = "close", target[k] = c PROVE FALSE
    BY <1>o, <2>3 DEF FlagInv
  <2> QED
    BY <1>n, <1>o, <2>1, <2>2, <2>3
<1>1. ASSUME NEW c \in Conns, NEW i \in DOMAIN Sent(c)', NEW j \in DOMAIN Sent(c)',
             Bye(Sent(c)'[i]), Bye(Sent(c)'[j])
      PROVE  i = j
  <2>1. CASE i \in DOMAIN Sent(c) /\ Sent(c)'[i] = Sent(c)[i]
    BY <1>1, <1>o, <2>1
  <2>2. CASE j \in DOMAIN Sent(c) /\ Sent(c)'[j] = Sent(c)[j]
    BY <1>1, <1>o, <2>2
  <2> QED
    BY <1>1, <1>n, <2>1, <2>2
<1>2. ASSUME NEW k \in Cmds, pc'[k] = "close"
      PROVE  /\ target'[k] = target[k] /\ target[k] \in Conns /\ closed'[target[k]]
             /\ \A i \in DOMAIN Sent(target[k])' : ~Bye(Sent(target[k])'[i])
             /\ \A j \in Cmds : pc'[j] = "close" /\ target'[j] = target'[k] => j = k
  <2>1. target'[k] = target[k] /\ target[k] \in Conns
    BY <1>2, CloserStep DEF TypeOK, CmdInv, CmdOK
  <2> DEFINE c == target[k]
  <2>2. CASE pc[k] = "close" /\ ~SendClose(k) /\ ~SendCloseError(k)
    <3>1. closed[c] /\ closed'[c]
      BY <2>1, <2>2, Forever DEF FlagInv
    <3>2. ASSUME NEW i \in DOMAIN Sent(c)' PROVE ~Bye(Sent(c)'[i])
      <4>1. ~(i \in DOMAIN Sent(c) /\ Sent(c)'[i] = Sent(c)[i] /\ Bye(Sent(c)'[i]))
        BY <2>2 DEF FlagInv
      <4>2. \A j \in Cmds : pc[j] = "close" /\ target[j] = c => ~SentClose(j, c)
        BY <2>2 DEF FlagInv, SentClose
      <4> QED
        BY <1>n, <2>1, <3>1, <4>1, <4>2
    <3>3. ASSUME NEW j \in Cmds, pc'[j] = "close", target'[j] = target'[k] PROVE j = k
      <4>1. pc[j] = "close" /\ target[j] = target[k]
        BY <2>1, <3>1, <3>3, CloserStep
      <4> QED
        BY <2>2, <4>1 DEF FlagInv
    <3> QED
      BY <2>1, <3>1, <3>2, <3>3
  <2>3. CASE /\ pc[k] = "flag" /\ ~closed[c] /\ closed'[c] /\ opened' = opened
             /\ \A j \in Cmds \ {k} : pc'[j] = pc[j]
    <3>1. ASSUME NEW i \in DOMAIN Sent(c)' PROVE ~Bye(Sent(c)'[i])
      <4>1. \A j \in Cmds : ~(pc[j] = "close" /\ target[j] = c)
        BY <2>3 DEF FlagInv
      <4> QED
        BY <1>n, <2>1, <2>3, <4>1
    <3>2. ASSUME NEW j \in Cmds, pc'[j] = "close", target'[j] = target'[k] PROVE j = k
      <4>1. CASE j # k
        <5>1. pc[j] = "close" /\ target'[j] = target[j]
          BY <2>3, <3>2, <4>1, CloserStep
        <5> QED
          BY <2>1, <2>3, <3>2, <5>1 DEF FlagInv
      <4> QED
        BY <4>1
    <3> QED
      BY <2>1, <2>3, <3>1, <3>2
  <2> QED
    BY <1>2, <2>1, <2>2, <2>3, CloserStep
<1>3. ASSUME NEW k \in Cmds, pc'[k] = "close"
      PROVE  /\ closed'[target'[k]]
             /\ \A i \in DOMAIN (wire'[target'[k]] \o queue'[target'[k]]) :
                    (wire'[target'[k]] \o queue'[target'[k]])[i].kind \notin {"close", "echo"}
             /\ \A j \in Cmds : pc'[j] = "close" /\ target'[j] = target'[k] => j = k
  BY <1>2, <1>3 DEF Sent
<1>4. \A c \in Conns : \A i, j \in DOMAIN (wire'[c] \o queue'[c]) :
        (wire'[c] \o queue'[c])[i].kind \in {"close", "echo"}
        /\ (wire'[c] \o queue'[c])[j].kind \in {"close", "echo"} => i = j
  BY <1>1 DEF Sent
<1> QED
  BY <1>3, <1>4 DEF FlagInv, Sent

\* What a command writes to an open connection is there for it.
LEMMA WroteSent ==
    ASSUME TypeOK, TypeOK', CmdInv, FrameInv, ConnInv, [Next]_vars, NEW k \in Cmds, NEW c \in Conns,
           Wrote(k, c), opened[c]
    PROVE  /\ Len(Sent(c)) + 1 \in DOMAIN Sent(c)'
           /\ Sent(c)'[Len(Sent(c)) + 1] = Encoded(k)
           /\ HasData(c, k, leg[k])'
<1>1. <<Encoded(k)>> \in Seq(Entry)
  BY WroteFacts, EncodedFacts DEF Writing
<1>2. Sent(c)' = Sent(c) \o <<Encoded(k)>>
  <2>1. Hand(c, <<Encoded(k)>>) /\ wire' = wire
    BY DEF Wrote, Write, WriteError
  <2> QED
    BY <1>1, <2>1, HandSent
<1>3. Sent(c) \in Seq(Entry) /\ Len(Sent(c)) \in Nat
  BY SentShape
<1>4. Len(Sent(c)') = Len(Sent(c)) + 1 /\ Sent(c)'[Len(Sent(c)) + 1] = Encoded(k)
  BY <1>1, <1>2, <1>3, OneMore
<1>5. Len(Sent(c)) + 1 \in DOMAIN Sent(c)'
  BY <1>3, <1>4, SentShapeNext
<1>6. Encoded(k).kind = "data" /\ Encoded(k).cmd = k /\ Encoded(k).leg = leg[k] /\ leg' = leg
  BY WroteFacts
<1> QED
  BY <1>4, <1>5, <1>6 DEF HasData

\* A forced close sends its message first, or the write fails.
LEMMA FirstStep ==
    ASSUME TypeOK, TypeOK', CmdInv, FrameInv, ConnInv, FirstInv, [Next]_vars
    PROVE  FirstInv'
<1> DEFINE Told(c, k) == \E i \in DOMAIN Sent(c) : Sent(c)[i].kind = "data" /\ Sent(c)[i].cmd = k
           Missed(c, k) == \E n \in DOMAIN Legs(k) : <<n, c>> \in failed[k]
<1>m. ASSUME NEW c \in Conns, NEW k \in 1 .. count, Missed(c, k) PROVE Missed(c, k)'
  BY <1>m, RequestFacts, RequestStays, ControlStep
<1>1. ASSUME NEW k \in Cmds, NEW c \in Conns, pc'[k] \in {"flag", "close"}, frame'[k] # NoFrame,
             target'[k] = c, opened'[c]
      PROVE  Told(c, k)' \/ Missed(c, k)'
  <2>1. CASE pc[k] \in {"flag", "close"} /\ target'[k] = target[k] /\ frame'[k] = frame[k]
    <3>1. k \in 1 .. count /\ opened[c]
      BY <1>1, <2>1, Underway, Forever
    <3>2. Told(c, k) \/ Missed(c, k)
      BY <1>1, <2>1, <3>1 DEF FirstInv
    <3>3. Told(c, k) => Told(c, k)'
      BY <1>1, SentStays
    <3> QED
      BY <1>m, <3>1, <3>2, <3>3
  <2>2. CASE Wrote(k, c)
    <3>1. opened[c]
      BY <1>1, Forever
    <3>2. HasData(c, k, leg[k])'
      BY <2>2, <3>1, WroteSent
    <3> QED
      BY <3>2 DEF HasData
  <2>3. CASE <<leg[k], c>> \in failed'[k] /\ leg[k] \in DOMAIN Legs(k) /\ pc[k] # "none"
    <3>1. k \in 1 .. count
      BY <2>3, Underway
    <3>2. Legs(k)' = Legs(k)
      BY <3>1, RequestStays
    <3> QED
      BY <2>3, <3>2
  <2> QED
    BY <1>1, <2>1, <2>2, <2>3, CloserStep
<1>2. ASSUME NEW c \in Conns, NEW i \in DOMAIN Sent(c)', NEW e, e = Sent(c)'[i], e.kind = "close"
      PROVE  /\ e.cmd \in 1 .. count'
             /\ (\E n \in DOMAIN Legs(e.cmd)' : Legs(e.cmd)'[n].msg # NoMsg) =>
                  \/ \E j \in 1 .. (i - 1) : Sent(c)'[j].kind = "data" /\ Sent(c)'[j].cmd = e.cmd
                  \/ Missed(c, e.cmd)'
  <2> DEFINE G == /\ e.cmd \in 1 .. count'
                  /\ (\E n \in DOMAIN Legs(e.cmd)' : Legs(e.cmd)'[n].msg # NoMsg) =>
                        \/ \E j \in 1 .. (i - 1) : Sent(c)'[j].kind = "data" /\ Sent(c)'[j].cmd = e.cmd
                        \/ Missed(c, e.cmd)'
  <2>s. DOMAIN Sent(c)' = 1 .. Len(Sent(c)') /\ DOMAIN Sent(c) = 1 .. Len(Sent(c))
        /\ Len(Sent(c)) \in Nat /\ Len(Sent(c)') \in Nat
    BY SentShape, SentShapeNext
  <2>1. ASSUME i \in DOMAIN Sent(c) /\ e = Sent(c)[i] /\ \A j \in 1 .. i : Sent(c)'[j] = Sent(c)[j]
        PROVE  G
    <3>1. e.cmd \in 1 .. count
      BY <1>2, <2>1 DEF FirstInv
    <3>2. e.cmd \in 1 .. count' /\ Legs(e.cmd)' = Legs(e.cmd)
      BY <3>1, RequestStays
    <3>3. (\E n \in DOMAIN Legs(e.cmd) : Legs(e.cmd)[n].msg # NoMsg) =>
             \/ \E j \in 1 .. (i - 1) : Sent(c)[j].kind = "data" /\ Sent(c)[j].cmd = e.cmd
             \/ Missed(c, e.cmd)
      BY <1>2, <2>1 DEF FirstInv
    <3>4. \A j \in 1 .. (i - 1) : j \in 1 .. i
      BY <2>s
    <3> QED
      BY <1>m, <2>1, <3>1, <3>2, <3>3, <3>4
  <2>2. ASSUME NEW k \in Cmds, SentClose(k, c), e = [kind |-> "close", cmd |-> k], opened[c],
               i = Len(Sent(c)) + 1, \A j \in 1 .. Len(Sent(c)) : Sent(c)'[j] = Sent(c)[j]
        PROVE  G
    <3>1. e.cmd = k /\ pc[k] = "close" /\ target[k] = c
      BY <2>2 DEF SentClose, SendClose, SendCloseError
    <3>2. k \in 1 .. count /\ leg[k] \in 1 .. Len(Legs(k)) /\ Op(k).closes
      BY <3>1, HereFacts DEF CmdInv, CmdOK
    <3>3. Legs(k)' = Legs(k) /\ k \in 1 .. count'
      BY <3>2, RequestStays
    <3>4. ASSUME \E n \in DOMAIN Legs(k) : Legs(k)[n].msg # NoMsg PROVE frame[k] # NoFrame
      <4>1. Legs(k)[leg[k]].msg # NoMsg
        BY <3>2, <3>4, RequestFacts
      <4> QED
        BY <3>1, <4>1 DEF CmdInv, CmdOK, Visiting, Here
    <3>5. frame[k] # NoFrame => Told(c, k) \/ Missed(c, k)
      BY <2>2, <3>1 DEF FirstInv
    <3>6. i - 1 = Len(Sent(c))
      BY <2>2, <2>s
    <3>7. Told(c, k) => \E j \in 1 .. (i - 1) : Sent(c)'[j].kind = "data" /\ Sent(c)'[j].cmd = k
      BY <2>2, <2>s, <3>6
    <3>8. Missed(c, k) => Missed(c, k)'
      BY <1>m, <3>2
    <3>9. (\E n \in DOMAIN Legs(k) : Legs(k)[n].msg # NoMsg) =>
             \/ \E j \in 1 .. (i - 1) : Sent(c)'[j].kind = "data" /\ Sent(c)'[j].cmd = k
             \/ Missed(c, k)'
      BY <3>4, <3>5, <3>7, <3>8
    <3> QED
      BY <3>1, <3>3, <3>9
  <2>3. ASSUME NEW k \in Cmds, Wrote(k, c), e = Encoded(k) PROVE e.kind = "data"
    BY <2>3, WroteFacts
  <2> HIDE DEF G
  <2>4. G
    BY <1>2, <2>1, <2>2, <2>3, EntryStep
  <2> QED
    BY <2>4 DEF G
<1>3. \A k \in Cmds : \A c \in Conns :
        pc'[k] \in {"flag", "close"} /\ frame'[k] # NoFrame /\ target'[k] = c /\ opened'[c] =>
            \/ \E i \in DOMAIN Sent(c)' : Sent(c)'[i].kind = "data" /\ Sent(c)'[i].cmd = k
            \/ \E n \in DOMAIN req'[k].legs : <<n, c>> \in failed'[k]
  BY <1>1 DEF Legs
<1>4. \A c \in Conns : \A i \in DOMAIN Sent(c)' : Sent(c)'[i].kind = "close" =>
        /\ Sent(c)'[i].cmd \in 1 .. count'
        /\ (\E n \in DOMAIN req'[Sent(c)'[i].cmd].legs : req'[Sent(c)'[i].cmd].legs[n].msg # NoMsg) =>
             \/ \E j \in 1 .. (i - 1) : Sent(c)'[j].kind = "data" /\ Sent(c)'[j].cmd = Sent(c)'[i].cmd
             \/ \E n \in DOMAIN req'[Sent(c)'[i].cmd].legs : <<n, c>> \in failed'[Sent(c)'[i].cmd]
  BY <1>2 DEF Legs
<1> QED
  BY <1>3, <1>4 DEF FirstInv, Legs

\* How a command comes past a connection.
LEMMA PassedStep ==
    ASSUME TypeOK, CmdInv, ConnInv, ListInv, ListInv', [Next]_vars,
           NEW k \in 1 .. count, NEW n \in DOMAIN Legs(k), NEW c \in Conns
    PROVE  Passed(k, n, c)' =>
             \/ Passed(k, n, c)
             \/ ~(Addresses(k, n, c) /\ opened'[c])
             \/ n = leg'[k] /\ Writing(k, c)'
             \/ <<n, c>> \in failed'[k]
             \/ Op(k) = singleCastBulk /\ failed'[k] # {}
             \/ Legs(k)[n].msg = NoMsg
<1> DEFINE Goal == Passed(k, n, c)' =>
             \/ Passed(k, n, c)
             \/ ~(Addresses(k, n, c) /\ opened'[c])
             \/ n = leg'[k] /\ Writing(k, c)'
             \/ <<n, c>> \in failed'[k]
             \/ Op(k) = singleCastBulk /\ failed'[k] # {}
             \/ Legs(k)[n].msg = NoMsg
<1> SUFFICES Goal
  OBVIOUS
<1> USE DEF exec, work, frames, conn
<1>t. k \in Cmds /\ n \in Nat /\ n >= 1 /\ n <= Len(Legs(k)) /\ Len(Legs(k)) \in Nat /\ Op(k) \in Callbacks
  BY RequestFacts
<1>s. ASSUME leg'[k] = leg[k], pc'[k] = pc[k], todo'[k] = todo[k] PROVE Goal
  BY <1>s DEF Passed
<1>1. ASSUME NEW t \in Tasks, NEW r \in Requests, Receive(t, r) PROVE Goal
  <2>1. k \in 1 .. count' /\ k # count + 1
    BY RequestStays DEF TypeOK
  <2> QED
    BY <1>1, <2>1, ReceivePassed
<1>2. ASSUME NEW j \in Cmds, Start(j) PROVE Goal
  <2>1. CASE j # k
    <3>1. leg'[k] = leg[k] /\ pc'[k] = pc[k] /\ todo'[k] = todo[k]
      BY <1>2, <2>1, <1>t DEF Start, TypeOK
    <3> QED
      BY <3>1, <1>s
  <2>2. CASE j = k
    <3>1. leg'[k] = 1 /\ pc'[k] \in {"leg", "done"}
      BY <1>2, <2>2 DEF Start, TypeOK, CmdInv, CmdOK
    <3>2. CASE pc'[k] = "leg"
      BY <1>t, <3>1, <3>2 DEF Passed, Visiting
    <3>3. CASE pc'[k] # "leg"
      <4>1. Op(k) = broadcastBulk /\ list'[k] = {} /\ pc'[k] # "start" /\ opened' = opened
        BY <1>2, <2>2, <3>1, <3>3 DEF Start, TypeOK
      <4>2. Op(k).listedOnce
        BY <4>1, <1>t, CallbackFacts
      <4>3. ~(Addresses(k, n, c)' /\ opened'[c])
        BY <4>1, <4>2, RequestStays DEF ListInv
      <4> QED
        BY <4>1, <4>3, RequestStays
    <3> QED
      BY <3>2, <3>3
  <2> QED
    BY <2>1, <2>2
<1>3. ASSUME NEW j \in Cmds, NEW f \in Frames, GetFrame(j, f) PROVE Goal
  <2>1. CASE j # k
    <3>1. leg'[k] = leg[k] /\ pc'[k] = pc[k] /\ todo'[k] = todo[k]
      BY <1>3, <2>1, <1>t DEF GetFrame, Lookup, TypeOK
    <3> QED
      BY <3>1, <1>s
  <2>2. CASE j = k
    <3>1. pc[k] = "leg" /\ Lookup(k) /\ pc'[k] = "each" /\ leg' = leg
      BY <1>3, <2>2 DEF GetFrame, TypeOK
    <3>2. CASE n = leg[k] /\ c \notin todo'[k]
      <4>1. ~(Addresses(k, n, c) /\ opened[c])
        BY <1>t, <3>1, <3>2, LookupFacts
      <4> QED
        BY <4>1, Forever
    <3>3. CASE ~(n = leg[k] /\ c \notin todo'[k])
      BY <3>1, <3>3 DEF Passed
    <3> QED
      BY <3>2, <3>3
  <2> QED
    BY <2>1, <2>2
<1>4. ASSUME NEW j \in Cmds, KeepFrame(j) PROVE Goal
  <2>1. CASE j # k
    <3>1. leg'[k] = leg[k] /\ pc'[k] = pc[k] /\ todo'[k] = todo[k]
      BY <1>4, <2>1, <1>t DEF KeepFrame, Lookup, TypeOK
    <3> QED
      BY <3>1, <1>s
  <2>2. CASE j = k
    <3>1. pc[k] = "leg" /\ Lookup(k) /\ pc'[k] = "each" /\ leg' = leg
      BY <1>4, <2>2 DEF KeepFrame, TypeOK
    <3>2. CASE n = leg[k] /\ c \notin todo'[k]
      <4>1. ~(Addresses(k, n, c) /\ opened[c])
        BY <1>t, <3>1, <3>2, LookupFacts
      <4> QED
        BY <4>1, Forever
    <3>3. CASE ~(n = leg[k] /\ c \notin todo'[k])
      BY <3>1, <3>3 DEF Passed
    <3> QED
      BY <3>2, <3>3
  <2> QED
    BY <2>1, <2>2
<1>5. ASSUME NEW j \in Cmds, NextLeg(j) PROVE Goal
  <2>1. CASE j # k
    <3>1. leg'[k] = leg[k] /\ pc'[k] = pc[k] /\ todo'[k] = todo[k]
      BY <1>5, <2>1, <1>t DEF NextLeg, TypeOK
    <3> QED
      BY <3>1, <1>s
  <2>2. CASE j = k
    <3>1. pc[k] = "each" /\ todo[k] = {} /\ leg'[k] = leg[k] + 1 /\ leg[k] \in Nat
          /\ pc'[k] = IF leg[k] < Len(Legs(k)) THEN "leg" ELSE "done"
      BY <1>5, <2>2 DEF NextLeg, TypeOK
    <3>2. n < leg[k] \/ n = leg[k] \/ ~Passed(k, n, c)'
      BY <1>t, <3>1 DEF Passed, Visiting
    <3> QED
      BY <3>1, <3>2 DEF Passed, Visiting
  <2> QED
    BY <2>1, <2>2
<1>6. ASSUME NEW j \in Cmds, NEW d \in Conns, Visit(j, d) PROVE Goal
  <2>1. CASE j # k
    <3>1. leg'[k] = leg[k] /\ pc'[k] = pc[k] /\ todo'[k] = todo[k]
      BY <1>6, <2>1, <1>t DEF Visit, TypeOK
    <3> QED
      BY <3>1, <1>s
  <2>2. CASE j = k
    <3>1. pc[k] = "each" /\ pc'[k] = "flag" /\ leg' = leg /\ todo'[k] = todo[k] \ {d} /\ frame[k] = NoFrame
      BY <1>6, <2>2 DEF Visit, TypeOK
    <3>2. Legs(k)[leg[k]].msg = NoMsg
      BY <3>1, <1>t DEF CmdInv, CmdOK, Visiting, Here
    <3> QED
      BY <3>1, <3>2 DEF Passed, Visiting
  <2> QED
    BY <2>1, <2>2
<1>7. ASSUME NEW j \in Cmds, NEW d \in Conns, LookOpen(j, d) PROVE Goal
  <2>1. CASE j # k
    <3>1. leg'[k] = leg[k] /\ pc'[k] = pc[k] /\ todo'[k] = todo[k]
      BY <1>7, <2>1, <1>t DEF LookOpen, TypeOK
    <3> QED
      BY <3>1, <1>s
  <2>2. CASE j = k
    <3>1. pc[k] = "each" /\ pc'[k] = "write" /\ leg' = leg /\ todo'[k] = todo[k] \ {d} /\ target'[k] = d
      BY <1>7, <2>2 DEF LookOpen, TypeOK
    <3> QED
      BY <3>1 DEF Passed, Visiting, Writing
  <2> QED
    BY <2>1, <2>2
<1>8. ASSUME NEW j \in Cmds, NEW d \in Conns, LookClosed(j, d) PROVE Goal
  <2>1. CASE j # k
    <3>1. leg'[k] = leg[k] /\ pc'[k] = pc[k] /\ todo'[k] = todo[k]
      BY <1>8, <2>1, <1>t DEF LookClosed, WriteFailed, Written, TypeOK
    <3> QED
      BY <3>1, <1>s
  <2>2. CASE j = k
    <3>1. pc[k] = "each" /\ leg' = leg /\ <<leg[k], d>> \in failed'[k]
      BY <1>8, <2>2 DEF LookClosed, WriteFailed, TypeOK
    <3>2. CASE GivesUp(k)
      BY <1>t, <3>1, <3>2, CallbackFacts DEF GivesUp
    <3>3. CASE ~GivesUp(k)
      <4>1. pc'[k] \in {"flag", "each"} /\ todo'[k] = todo[k] \ {d}
        BY <1>8, <2>2, <3>3 DEF LookClosed, WriteFailed, Written, TypeOK
      <4> QED
        BY <3>1, <4>1 DEF Passed, Visiting
    <3> QED
      BY <3>2, <3>3
  <2> QED
    BY <2>1, <2>2
<1>9. ASSUME NEW j \in Cmds, Write(j) PROVE Goal
  <2>1. CASE j # k
    <3>1. leg'[k] = leg[k] /\ pc'[k] = pc[k] /\ todo'[k] = todo[k]
      BY <1>9, <2>1, <1>t DEF Write, Written, TypeOK
    <3> QED
      BY <3>1, <1>s
  <2>2. CASE j = k
    BY <1>9, <2>2 DEF Passed, Visiting, Write, Written, TypeOK
  <2> QED
    BY <2>1, <2>2
<1>10. ASSUME NEW j \in Cmds, WriteError(j) PROVE Goal
  <2>1. CASE j # k
    <3>1. leg'[k] = leg[k] /\ pc'[k] = pc[k] /\ todo'[k] = todo[k]
      BY <1>10, <2>1, <1>t DEF WriteError, Written, TypeOK
    <3> QED
      BY <3>1, <1>s
  <2>2. CASE j = k
    <3>1. pc[k] = "write" /\ leg' = leg /\ failed'[k] # {}
      BY <1>10, <2>2 DEF WriteError, TypeOK
    <3>2. CASE GivesUp(k)
      BY <1>t, <3>1, <3>2, CallbackFacts DEF GivesUp
    <3>3. CASE ~GivesUp(k)
      <4>1. pc'[k] \in {"flag", "each"} /\ todo'[k] = todo[k]
        BY <1>10, <2>2, <3>3 DEF WriteError, Written, TypeOK
      <4> QED
        BY <3>1, <4>1 DEF Passed, Visiting
    <3> QED
      BY <3>2, <3>3
  <2> QED
    BY <2>1, <2>2
<1>11. ASSUME NEW j \in Cmds, CompressError(j) PROVE Goal
  <2>1. CASE j # k
    <3>1. leg'[k] = leg[k] /\ pc'[k] = pc[k] /\ todo'[k] = todo[k]
      BY <1>11, <2>1, <1>t DEF CompressError, WriteFailed, Written, TypeOK
    <3> QED
      BY <3>1, <1>s
  <2>2. CASE j = k
    <3>1. pc[k] = "write" /\ leg' = leg /\ <<leg[k], target[k]>> \in failed'[k]
      BY <1>11, <2>2 DEF CompressError, WriteFailed, TypeOK
    <3>2. CASE GivesUp(k)
      BY <1>t, <3>1, <3>2, CallbackFacts DEF GivesUp
    <3>3. CASE ~GivesUp(k)
      <4>1. pc'[k] \in {"flag", "each"} /\ todo'[k] = todo[k] \ {target[k]}
        BY <1>11, <2>2, <3>3 DEF CompressError, WriteFailed, Written, TypeOK
      <4> QED
        BY <3>1, <4>1 DEF Passed, Visiting
    <3> QED
      BY <3>2, <3>3
  <2> QED
    BY <2>1, <2>2
<1>12. ASSUME NEW j \in Cmds, FlagLost(j) PROVE Goal
  <2>1. CASE j # k
    <3>1. leg'[k] = leg[k] /\ pc'[k] = pc[k] /\ todo'[k] = todo[k]
      BY <1>12, <2>1, <1>t DEF FlagLost, Closed, TypeOK
    <3> QED
      BY <3>1, <1>s
  <2>2. CASE j = k
    BY <1>12, <2>2 DEF Passed, Visiting, FlagLost, Closed, TypeOK
  <2> QED
    BY <2>1, <2>2
<1>13. ASSUME NEW j \in Cmds, FlagWon(j) PROVE Goal
  <2>1. CASE j # k
    <3>1. leg'[k] = leg[k] /\ pc'[k] = pc[k] /\ todo'[k] = todo[k]
      BY <1>13, <2>1, <1>t DEF FlagWon, TypeOK
    <3> QED
      BY <3>1, <1>s
  <2>2. CASE j = k
    BY <1>13, <2>2 DEF Passed, Visiting, FlagWon, TypeOK
  <2> QED
    BY <2>1, <2>2
<1>14. ASSUME NEW j \in Cmds, SendClose(j) PROVE Goal
  <2>1. CASE j # k
    <3>1. leg'[k] = leg[k] /\ pc'[k] = pc[k] /\ todo'[k] = todo[k]
      BY <1>14, <2>1, <1>t DEF SendClose, Closed, TypeOK
    <3> QED
      BY <3>1, <1>s
  <2>2. CASE j = k
    BY <1>14, <2>2 DEF Passed, Visiting, SendClose, Closed, TypeOK
  <2> QED
    BY <2>1, <2>2
<1>15. ASSUME NEW j \in Cmds, SendCloseError(j) PROVE Goal
  <2>1. CASE j # k
    <3>1. leg'[k] = leg[k] /\ pc'[k] = pc[k] /\ todo'[k] = todo[k]
      BY <1>15, <2>1, <1>t DEF SendCloseError, Closed, TypeOK
    <3> QED
      BY <3>1, <1>s
  <2>2. CASE j = k
    BY <1>15, <2>2 DEF Passed, Visiting, SendCloseError, Closed, TypeOK
  <2> QED
    BY <2>1, <2>2
<1>16. ASSUME NEW d \in Conns, Timer(d) PROVE Goal
  BY <1>16, <1>s DEF Timer
<1>17. ASSUME NEW d \in Conns, Run(d) PROVE Goal
  BY <1>17, <1>s DEF Run
<1>18. ASSUME NEW d \in Conns, End(d) PROVE Goal
  BY <1>18, <1>s DEF End
<1>19. ASSUME NEW d \in Conns, Hangup(d) PROVE Goal
  BY <1>19, <1>s DEF Hangup
<1>20. ASSUME NEW d \in Conns, ClientClose(d) PROVE Goal
  BY <1>20, <1>s DEF ClientClose
<1>21. ASSUME NEW d \in Conns, IllegalFrame(d) PROVE Goal
  BY <1>21, <1>s DEF IllegalFrame
<1>22. ASSUME NEW d \in Conns, Unlist(d) PROVE Goal
  BY <1>22, <1>s DEF Unlist
<1>23. CASE UNCHANGED vars
  BY <1>23, <1>s DEF vars
<1> QED
  BY <1>1, <1>2, <1>3, <1>4, <1>5, <1>6, <1>7, <1>8, <1>9, <1>10, <1>11, <1>12,
     <1>13, <1>14, <1>15, <1>16, <1>17, <1>18, <1>19, <1>20, <1>21, <1>22, <1>23 DEF Next, Command, Loop

\* Every leg serves the connections it passes.
LEMMA ReachedStep ==
    ASSUME TypeOK, TypeOK', CmdInv, FrameInv, ConnInv, ListInv, ListInv', ReachedInv, [Next]_vars
    PROVE  ReachedInv'
<1> SUFFICES ASSUME NEW k \in 1 .. count', NEW n \in DOMAIN Legs(k)', NEW c \in Conns,
                    Addresses(k, n, c)', opened'[c], Legs(k)'[n].msg # NoMsg, Passed(k, n, c)'
             PROVE  Served(k, n, c)'
  BY DEF ReachedInv
<1>1. CASE k \in 1 .. count
  <2>1. Legs(k)' = Legs(k) /\ Op(k)' = Op(k) /\ Addresses(k, n, c) /\ n \in DOMAIN Legs(k) /\ k \in Cmds
    BY <1>1, RequestStays, RequestFacts
  <2>2. opened[c] /\ failed[k] \subseteq failed'[k]
    BY <2>1, Forever, ControlStep
  <2>3. CASE Passed(k, n, c)
    <3>1. Served(k, n, c)
      BY <1>1, <2>1, <2>2, <2>3 DEF ReachedInv
    <3>2. HasData(c, k, n) => HasData(c, k, n)'
      BY SentStays DEF HasData
    <3>3. CASE n = leg[k] /\ Writing(k, c)
      <4>1. CASE Writing(k, c)' /\ leg'[k] = leg[k]
        BY <3>3, <4>1 DEF Served
      <4>2. CASE Wrote(k, c)
        <5>1. HasData(c, k, leg[k])' /\ leg' = leg
          BY <2>1, <2>2, <4>2, WroteSent, WroteFacts
        <5> QED
          BY <3>3, <5>1 DEF Served, HasData
      <4>3. CASE <<leg[k], c>> \in failed'[k]
        BY <3>3, <4>3 DEF Served
      <4> QED
        BY <2>1, <3>3, <4>1, <4>2, <4>3, CloserStep
    <3> QED
      BY <2>1, <2>2, <3>1, <3>2, <3>3 DEF Served
  <2>4. CASE ~Passed(k, n, c)
    BY <1>1, <2>1, <2>4, PassedStep DEF Served
  <2> QED
    BY <2>3, <2>4
<1>2. CASE k \notin 1 .. count
  <2>1. PICK t \in Tasks, r \in Requests : Receive(t, r)
    <3>1. count' # count
      BY <1>2
    <3> QED
      BY <3>1, OnlyReceive
  <2> QED
    BY <1>2, <2>1, ReceivePassed
<1> QED
  BY <1>1, <1>2

-----------------------------------------------------------------------------
(***************************************************************************)
(* The theorems.                                                           *)
(***************************************************************************)
\* A behaviour starts with nothing received and nothing sent.
LEMMA InitInv == Init => DeliveryInv
<1> SUFFICES ASSUME Init PROVE DeliveryInv
  OBVIOUS
<1>1. TypeOK
  <2>1. req \in Seq(Requests) /\ Len(req) = 0 /\ by \in Seq(Tasks) /\ Len(by) = 0
    BY EmptySeq DEF Init
  <2>2. queue \in [Conns -> Seq(Entry)] /\ wire \in [Conns -> Seq(Entry)]
    BY EmptySeq DEF Init
  <2>3. count \in 0 .. MaxCommands /\ fails \in 0 .. MaxFails
    BY ConstantsAssumption DEF Init
  <2> QED
    BY <2>1, <2>2, <2>3 DEF Init, TypeOK, Steps
<1>2. CmdInv
  BY ConstantsAssumption DEF Init, CmdInv, CmdOK, Cmds, Visiting
<1>3. FrameInv
  BY DEF Init, FrameInv
<1>4. ConnInv
  BY DEF Init, ConnInv
<1>5. TargetInv
  BY ConstantsAssumption DEF Init, TargetInv
<1>6. \A c \in Conns : DOMAIN Sent(c) = {}
  <2> SUFFICES ASSUME NEW c \in Conns PROVE DOMAIN Sent(c) = {}
    OBVIOUS
  <2>1. Len(wire[c]) = 0 /\ Len(queue[c]) = 0
    BY DEF Init
  <2>2. Len(Sent(c)) = Len(wire[c]) + Len(queue[c]) /\ DOMAIN Sent(c) = 1 .. Len(Sent(c))
    BY <1>1, SentShape
  <2> QED
    BY <2>1, <2>2
<1>7. 1 .. count = {}
  BY DEF Init
<1>8. ListInv /\ BusyInv /\ CloseInv /\ FinalInv /\ ReachedInv
  BY <1>7 DEF ListInv, BusyInv, CloseInv, FinalInv, ReachedInv
<1>9. DataInv /\ OrderInv /\ LateInv
  BY <1>6 DEF DataInv, OrderInv, CastInOrder, LateInv
<1>10. FlagInv /\ FirstInv
  BY <1>6 DEF Init, FlagInv, FirstInv
<1> QED
  BY <1>1, <1>2, <1>3, <1>4, <1>5, <1>8, <1>9, <1>10 DEF DeliveryInv

\* The inductive invariant holds whatever the commands, the pace of their goroutines and of
\* the event loops, and the writes that fail.
THEOREM DeliveryInvariant == Spec => []DeliveryInv
<1>1. DeliveryInv /\ [Next]_vars => DeliveryInv'
  <2> SUFFICES ASSUME DeliveryInv, [Next]_vars PROVE DeliveryInv'
    OBVIOUS
  <2> USE DEF DeliveryInv
  <2>1. TypeOK' /\ CmdInv' /\ FrameInv' /\ ConnInv'
    BY TypeStep, CmdStep, FrameStep, ConnStep
  <2>2. ListInv' /\ TargetInv' /\ BusyInv' /\ CloseInv'
    BY ListStep, TargetStep, BusyStep, CloseStep
  <2>3. DataInv' /\ OrderInv'
    BY <2>1, DataStep, OrderStep
  <2>4. LateInv' /\ FlagInv' /\ FirstInv'
    BY <2>1, LateStep, FlagStep, FirstStep
  <2>5. FinalInv' /\ ReachedInv'
    BY <2>1, <2>2, FinalStep, ReachedStep
  <2> QED
    BY <2>1, <2>2, <2>3, <2>4, <2>5
<1> QED
  BY <1>1, InitInv, PTL DEF Spec

\* The variables of the commands, the Frames and the connections keep their types; a command
\* has at most one Frame out of FrameObjPool.
THEOREM TypeCorrect == Spec => []TypeOK
<1>1. DeliveryInv => TypeOK
  BY DEF DeliveryInv
<1> QED
  BY <1>1, DeliveryInvariant, PTL

\* A client is sent only what a command has for it, in the form it negotiated, whoever used
\* the Frame before and whatever failed (Frame.WriteTo, FrameObjPool).
THEOREM IntactTheorem == Spec => []Intact
<1>1. DeliveryInv => Intact
  BY DEF DeliveryInv, DataInv, Intact
<1> QED
  BY <1>1, DeliveryInvariant, PTL

\* The messages of one command reach a client in their order and none of them twice (the
\* loops of the cast commands).
THEOREM CastInOrderTheorem == Spec => []CastInOrder
<1>1. DeliveryInv => CastInOrder
  BY DEF DeliveryInv, OrderInv
<1> QED
  BY <1>1, DeliveryInvariant, PTL

\* A command that is over has sent each of its messages to each open connection it addresses,
\* unless that write failed, or singleCastBulk stopped at a failure.
THEOREM ReachedTheorem == Spec => []Reached
<1>1. DeliveryInv => Reached
  <2> SUFFICES ASSUME DeliveryInv, NEW k \in 1 .. count, NEW n \in DOMAIN Legs(k), NEW c \in Conns,
                      pc[k] = "done", opened[c], Addresses(k, n, c), Legs(k)[n].msg # NoMsg
               PROVE  HasData(c, k, n) \/ <<n, c>> \in failed[k] \/ (Op(k) = singleCastBulk /\ failed[k] # {})
    BY DEF Reached, HasData
  <2>1. Served(k, n, c)
    BY DEF DeliveryInv, ReachedInv, Passed
  <2> QED
    BY <2>1 DEF Served, Writing
<1> QED
  BY <1>1, DeliveryInvariant, PTL

\* The wire is the part of Sent that the event loop has written.
LEMMA WireIsSent ==
    ASSUME TypeOK, NEW c \in Conns
    PROVE  /\ Len(wire[c]) \in Nat /\ Len(Sent(c)) \in Nat /\ Len(wire[c]) <= Len(Sent(c))
           /\ DOMAIN wire[c] = 1 .. Len(wire[c]) /\ DOMAIN Sent(c) = 1 .. Len(Sent(c))
           /\ \A i \in 1 .. Len(wire[c]) : Sent(c)[i] = wire[c][i]
<1>1. Len(wire[c]) \in Nat /\ Len(queue[c]) \in Nat /\ Len(Sent(c)) \in Nat
  BY SentShape
<1>2. Len(Sent(c)) = Len(wire[c]) + Len(queue[c])
  BY SentShape
<1>3. \A x, y, z \in Nat : x = y + z => y <= x
  OBVIOUS
<1>4. Len(wire[c]) <= Len(Sent(c))
  BY <1>1, <1>2, <1>3
<1>5. \A i \in 1 .. Len(Sent(c)) :
        Sent(c)[i] = IF i <= Len(wire[c]) THEN wire[c][i] ELSE queue[c][i - Len(wire[c])]
  BY SentShape
<1>6. DOMAIN wire[c] = 1 .. Len(wire[c]) /\ DOMAIN Sent(c) = 1 .. Len(Sent(c))
  BY SentShape DEF TypeOK
<1> QED
  BY <1>1, <1>4, <1>5, <1>6

\* No command sends more than one message after a close frame, and nothing follows the close
\* frame with which the event loop answers the client (WriteTo, OnTraffic).
THEOREM LateFramesTheorem == Spec => []LateFrames
<1>1. DeliveryInv => LateFrames
  <2> SUFFICES ASSUME DeliveryInv, NEW c \in Conns, NEW i \in DOMAIN wire[c], NEW j \in DOMAIN wire[c], i < j
               PROVE  /\ wire[c][i].kind \notin {"echo", "error"}
                      /\ wire[c][i].kind = "close" /\ wire[c][j].kind = "data" =>
                            \A m \in (j + 1) .. Len(wire[c]) :
                                wire[c][m].kind = "data" => wire[c][m].cmd # wire[c][j].cmd
    BY DEF LateFrames
  <2>1. /\ Len(wire[c]) \in Nat /\ Len(Sent(c)) \in Nat /\ Len(wire[c]) <= Len(Sent(c))
        /\ DOMAIN wire[c] = 1 .. Len(wire[c]) /\ DOMAIN Sent(c) = 1 .. Len(Sent(c))
        /\ \A m \in 1 .. Len(wire[c]) : Sent(c)[m] = wire[c][m]
    BY WireIsSent DEF DeliveryInv
  <2>2. i \in DOMAIN Sent(c) /\ j \in (i + 1) .. Len(Sent(c)) /\ i # Len(Sent(c))
        /\ Sent(c)[i] = wire[c][i] /\ Sent(c)[j] = wire[c][j]
    BY <2>1
  <2>3. Sent(c)[i].kind \notin {"echo", "error"}
    BY <2>2 DEF DeliveryInv, LateInv
  <2>4. ASSUME Sent(c)[i].kind = "close", Sent(c)[j].kind = "data"
        PROVE  \A m \in (j + 1) .. Len(Sent(c)) :
                    Sent(c)[m].kind = "data" => Sent(c)[m].cmd # Sent(c)[j].cmd
    BY <2>2, <2>4 DEF DeliveryInv, LateInv
  <2>5. \A m \in (j + 1) .. Len(wire[c]) : m \in (j + 1) .. Len(Sent(c)) /\ Sent(c)[m] = wire[c][m]
    BY <2>1
  <2> QED
    BY <2>2, <2>3, <2>4, <2>5
<1> QED
  BY <1>1, DeliveryInvariant, PTL

\* A client gets one close frame, whoever wins the flag, and before it the message of the
\* forced close, unless a write to this client failed (WriteCloseFrame, forceOffline).
THEOREM FarewellTheorem == Spec => []Farewell
<1>1. DeliveryInv => Farewell
  <2> SUFFICES ASSUME DeliveryInv, NEW c \in Conns
               PROVE  /\ \A i, j \in DOMAIN wire[c] :
                            wire[c][i].kind \in {"close", "echo"} /\ wire[c][j].kind \in {"close", "echo"} => i = j
                      /\ \A i \in DOMAIN wire[c] : wire[c][i].kind = "close" =>
                            LET k == wire[c][i].cmd IN
                            /\ \E n \in DOMAIN Legs(k) : Legs(k)[n].msg # NoMsg
                            /\ \A n \in DOMAIN Legs(k) : <<n, c>> \notin failed[k]
                            => \E j \in 1 .. (i - 1) : wire[c][j].kind = "data" /\ wire[c][j].cmd = k
    BY DEF Farewell
  <2>1. /\ Len(wire[c]) \in Nat /\ Len(Sent(c)) \in Nat /\ Len(wire[c]) <= Len(Sent(c))
        /\ DOMAIN wire[c] = 1 .. Len(wire[c]) /\ DOMAIN Sent(c) = 1 .. Len(Sent(c))
        /\ \A m \in 1 .. Len(wire[c]) : Sent(c)[m] = wire[c][m]
    BY WireIsSent DEF DeliveryInv
  <2>2. \A i \in DOMAIN wire[c] : i \in DOMAIN Sent(c) /\ Sent(c)[i] = wire[c][i]
    BY <2>1
  <2>3. ASSUME NEW i \in DOMAIN wire[c], NEW j \in DOMAIN wire[c],
               wire[c][i].kind \in {"close", "echo"}, wire[c][j].kind \in {"close", "echo"}
        PROVE  i = j
    BY <2>2, <2>3 DEF DeliveryInv, FlagInv
  <2>4. ASSUME NEW i \in DOMAIN wire[c], wire[c][i].kind = "close", NEW k, k = wire[c][i].cmd,
               \E n \in DOMAIN Legs(k) : Legs(k)[n].msg # NoMsg,
               \A n \in DOMAIN Legs(k) : <<n, c>> \notin failed[k]
        PROVE  \E j \in 1 .. (i - 1) : wire[c][j].kind = "data" /\ wire[c][j].cmd = k
    <3>1. i \in DOMAIN Sent(c) /\ Sent(c)[i].kind = "close" /\ Sent(c)[i].cmd = k
      BY <2>2, <2>4
    <3>2. \E j \in 1 .. (i - 1) : Sent(c)[j].kind = "data" /\ Sent(c)[j].cmd = k
      BY <2>4, <3>1 DEF DeliveryInv, FirstInv
    <3>3. \A j \in 1 .. (i - 1) : j \in DOMAIN wire[c]
      BY <2>1
    <3> QED
      BY <2>2, <3>2, <3>3
  <2> QED
    BY <2>3, <2>4
<1> QED
  BY <1>1, DeliveryInvariant, PTL

\* What a task connection sends after a forced close of c does not reach c (forceOffline,
\* forceOfflineByCustomerId, forceOfflineGuest without delay).
THEOREM OfflineIsFinalTheorem == Spec => []OfflineIsFinal
<1>1. DeliveryInv => OfflineIsFinal
  <2> SUFFICES ASSUME DeliveryInv, NEW k1 \in 1 .. count, NEW k2 \in 1 .. count, NEW c \in Conns,
                      k1 < k2, by[k1] = by[k2], Op(k1).closes, Op(k1) # forceOfflineGuest(TRUE),
                      \E n \in DOMAIN Legs(k1) : Addresses(k1, n, c)
               PROVE  \A i \in DOMAIN Sent(c) : Sent(c)[i].kind = "data" => Sent(c)[i].cmd # k2
    BY DEF OfflineIsFinal
  <2>1. ~Op(k1).pooled
    BY CallbackFacts, RequestFacts DEF DeliveryInv
  <2>2. ClosedBefore(k1, k2, c)
    BY <2>1 DEF ClosedBefore
  <2> QED
    BY <2>2 DEF DeliveryInv, FinalInv
<1> QED
  BY <1>1, DeliveryInvariant, PTL
=============================================================================
