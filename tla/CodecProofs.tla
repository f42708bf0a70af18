---------------------------- MODULE CodecProofs ----------------------------
(***************************************************************************)
(* Proofs about Codec, for every set of frames and streams of any length:  *)
(* the decoder lets through what is legal and nothing else, and puts the   *)
(* messages together from exactly their frames, however the frames arrive  *)
(* and wherever control frames come in between.                            *)
(***************************************************************************)
EXTENDS Codec, FiniteSetTheorems, TLAPS

\* The frames of the message that is not complete yet, as the stream has them ...
Pending ==
    {j \in 1 .. consumed : IsData(j) /\ ~\E k \in j .. consumed : IsData(k) /\ sent[k].fin}

\* ... and as the decoder has them, put aside or not.
OpenOp == IF preOp # None THEN preOp ELSE IF currOp \in DataOps THEN currOp ELSE None
OpenBody == IF preOp # None THEN preBody ELSE IF currOp \in DataOps THEN currBody ELSE << >>

\* b has the frames of S, in order.
Lists(b, S) ==
    /\ {b[k] : k \in 1 .. Len(b)} = S
    /\ \A j, k \in 1 .. Len(b) : j < k => b[j] < b[k]

\* A message is put aside only for a control frame, which is on its way or has not ended.
ShapeInv ==
    /\ sent # << >> => upgraded
    /\ preOp # None => currOp \notin DataOps
    /\ currOp = None => currBody = << >>
    /\ currOp \in DataOps => currBody # << >>
    /\ preOp # None => preBody # << >>
    /\ preOp # None /\ currOp = None /\ ~gone =>
          consumed < Len(sent) /\ stage > 0 /\ Header.op \in ControlOps
    /\ currOp \in ControlOps => consumed >= 1 /\ sent[consumed].op = currOp /\ ~sent[consumed].fin

\* The decoder has the frames of the message, and its opcode.
BodyInv ==
    /\ Lists(OpenBody, Pending)
    /\ OpenOp # None => sent[OpenBody[1]].op = OpenOp

\* It remembers whether the message is compressed, until a control frame comes.
RsvInv ==
    currOp \in DataOps =>
        \/ messageRsv = sent[currBody[1]].rsv
        \/ /\ sent[currBody[1]].rsv = 4
           /\ \E k \in 1 .. consumed : currBody[1] < k /\ sent[k].op \in ControlOps

\* An error of decode is the end, and has a reason.
Refused(r) ==
    \/ \E i \in 1 .. r : ~Legal(i)
    \/ ~GoodAt(r)
    \/ CompressedAndInterrupted(r)

RejectInv == \A r \in {rejected} : r # 0 => gone /\ r <= Len(sent) /\ Refused(r)

\* The n-th message has the frames b, the opcode op, and was decompressed if z.
MessageOK(n, b, op, z) ==
    /\ b # << >>
    /\ Lists(b, MessageOf(b[Len(b)]))
    /\ b[Len(b)] \in Ends
    /\ Cardinality({i \in Ends : i <= b[Len(b)]}) = n
    /\ op = sent[b[1]].op
    /\ z = (sent[b[1]].rsv = 4) \/ CompressedAndInterrupted(b[Len(b)])

MessageInv ==
    /\ Len(messages) = Cardinality(Ends)
    /\ \A n \in 1 .. Len(messages) :
          \A b \in {messages[n].body}, op \in {messages[n].op}, z \in {messages[n].inflated} :
              MessageOK(n, b, op, z)

CodecInv ==
    /\ TypeOK
    /\ ShapeInv
    /\ BodyInv
    /\ RsvInv
    /\ RejectInv
    /\ AcceptsOnlyLegal
    /\ MessageInv

-----------------------------------------------------------------------------
(***************************************************************************)
(* Streams: what is said of the frames up to consumed, and of the next.    *)
(***************************************************************************)
\* The frames of the client are frames.
LEMMA FrameAt ==
    ASSUME TypeOK, NEW i \in 1 .. Len(sent)
    PROVE  sent[i] \in Frame
BY CodecAssumption DEF TypeOK

\* The kinds of frames exclude each other.
LEMMA Kinds ==
    ASSUME NEW f \in Frame
    PROVE  /\ f.op \in DataOps => f.op \notin ControlOps /\ f.op # "continuation" /\ f.op # "reserved"
           /\ f.op \in ControlOps => f.op # "continuation" /\ f.op # "reserved"
           /\ f.op \in DataOps \/ f.op \in ControlOps \/ f.op = "continuation" \/ f.op = "reserved"
           /\ f.op # None
           /\ f.fin \in BOOLEAN /\ f.masked \in BOOLEAN /\ f.length \in {"short", "long", "msb"} /\ f.good \in BOOLEAN
           /\ f.rsv \in {0, 1, 4}
BY CodecAssumption DEF Frame, Ops, DataOps, ControlOps

\* What is said of a frame does not change when the client sends more.
LEMMA Kept ==
    ASSUME TypeOK,
           sent' = sent \/ (\E f \in Frames : sent' = Append(sent, f)),
           compress' = compress,
           NEW i \in 1 .. Len(sent)
    PROVE  /\ sent'[i] = sent[i]
           /\ IsData(i)' <=> IsData(i)
           /\ MessageOf(i)' = MessageOf(i)
           /\ Legal(i)' <=> Legal(i)
           /\ GoodAt(i)' <=> GoodAt(i)
           /\ CompressedAndInterrupted(i)' <=> CompressedAndInterrupted(i)
<1>1. \A j \in 1 .. Len(sent) : sent'[j] = sent[j]
    BY DEF TypeOK
<1>2. sent \in Seq(Frames) /\ Len(sent) \in Nat
    BY DEF TypeOK
<1>3. \A j \in 1 .. Len(sent) : IsData(j)' <=> IsData(j)
    BY <1>1 DEF IsData
<1>4. MessageOf(i)' = MessageOf(i)
    BY <1>1, <1>2, <1>3, i \in Int DEF MessageOf
<1>5. DataBefore(i)' = DataBefore(i)
    BY <1>2, <1>3 DEF DataBefore
<1>6. DataBefore(i) \subseteq 1 .. Len(sent)
    BY <1>2 DEF DataBefore
<1>7. OpenBefore(i)' <=> OpenBefore(i)
    BY <1>1, <1>5, <1>6 DEF OpenBefore
<1>8. Legal(i)' <=> Legal(i)
    BY <1>1, <1>7 DEF Legal
<1>9. MessageOf(i) \subseteq 1 .. Len(sent)
    BY <1>2 DEF MessageOf
<1>10. GoodAt(i)' <=> GoodAt(i)
    BY <1>1, <1>3, <1>4, <1>9 DEF GoodAt
<1>11. Interrupted(i)' <=> Interrupted(i)
    BY <1>1, <1>2, <1>4 DEF Interrupted
<1>12. CompressedAndInterrupted(i)' <=> CompressedAndInterrupted(i)
    BY <1>1, <1>4, <1>9, <1>11 DEF CompressedAndInterrupted
<1> QED
    BY <1>1, <1>3, <1>4, <1>8, <1>10, <1>12

\* The frames of the message that a data frame continues or begins.
LEMMA MessageAt ==
    ASSUME TypeOK, consumed < Len(sent), IsData(consumed + 1)
    PROVE  MessageOf(consumed + 1) = Pending \cup {consumed + 1}
<1>1. consumed \in Nat /\ Len(sent) \in Nat
    BY DEF TypeOK
<1>2. \A j \in 1 .. consumed : j .. (consumed + 1) - 1 = j .. consumed
    BY <1>1
<1>3. ASSUME NEW j PROVE j \in MessageOf(consumed + 1) <=> j \in Pending \cup {consumed + 1}
    <2>1. CASE j = consumed + 1
        BY <2>1, <1>1 DEF MessageOf
    <2>2. CASE j \in 1 .. consumed
        BY <2>2, <1>1, <1>2 DEF MessageOf, Pending
    <2>3. CASE j \notin 1 .. consumed + 1
        BY <2>3, <1>1 DEF MessageOf, Pending
    <2> QED
        BY <2>1, <2>2, <2>3, <1>1
<1> QED
    BY <1>3

\* The frames of a message that is not complete end with the last data frame.
LEMMA OpenAt ==
    ASSUME TypeOK, BodyInv, consumed < Len(sent)
    PROVE  OpenBefore(consumed + 1) <=> Pending # {}
<1>1. consumed \in Nat /\ Len(sent) \in Nat
    BY DEF TypeOK
<1>2. DataBefore(consumed + 1) = {j \in 1 .. consumed : IsData(j)}
    BY <1>1 DEF DataBefore
<1>3. ASSUME OpenBefore(consumed + 1) PROVE Pending # {}
    <2>1. PICK j \in DataBefore(consumed + 1) : ~sent[j].fin /\ \A k \in DataBefore(consumed + 1) : k <= j
        BY <1>3 DEF OpenBefore
    <2>2. j \in Pending
        BY <2>1, <1>1, <1>2 DEF Pending
    <2> QED
        BY <2>2
<1>4. ASSUME Pending # {} PROVE OpenBefore(consumed + 1)
    <2> DEFINE b == OpenBody
    <2>1. b \in Seq(Indexes) /\ Lists(b, Pending)
        BY DEF TypeOK, BodyInv, OpenBody
    <2> HIDE DEF b
    <2>2. Len(b) \in Nat /\ Len(b) # 0
        BY <2>1, <1>4 DEF Lists
    <2>3. b[Len(b)] \in Pending
        BY <2>1, <2>2 DEF Lists
    <2>4. \A k \in Pending : k <= b[Len(b)]
        <3>1. TAKE k \in Pending
        <3>2. PICK m \in 1 .. Len(b) : b[m] = k
            BY <2>1 DEF Lists
        <3>3. k \in Nat /\ b[Len(b)] \in Nat
            BY <2>3, <1>1 DEF Pending
        <3> QED
            BY <3>2, <3>3, <2>1, <2>2 DEF Lists
    <2> DEFINE j == b[Len(b)]
    <2>5. j \in 1 .. consumed /\ IsData(j) /\ ~sent[j].fin /\ \A k \in j .. consumed : ~(IsData(k) /\ sent[k].fin)
        BY <2>3, <1>1 DEF Pending
    <2>6. ASSUME NEW k \in 1 .. consumed, IsData(k), ~(k <= j) PROVE FALSE
        <3>1. k \in Pending
            BY <2>5, <2>6, <1>1 DEF Pending
        <3> QED
            BY <3>1, <2>4, <2>6
    <2> QED
        BY <2>5, <2>6, <1>2 DEF OpenBefore
<1> QED
    BY <1>3, <1>4

\* The client's next frame leaves the message that is open, and the messages that have ended.
LEMMA StreamKept ==
    ASSUME TypeOK,
           sent' = sent \/ (\E f \in Frames : sent' = Append(sent, f)),
           compress' = compress,
           consumed' = consumed
    PROVE  Pending' = Pending /\ Ends' = Ends
<1>1. consumed \in Nat /\ Len(sent) \in Nat /\ consumed <= Len(sent)
    BY DEF TypeOK
<1>2. \A j \in 1 .. consumed : sent'[j] = sent[j] /\ (IsData(j)' <=> IsData(j))
    BY <1>1, Kept
<1>3. Ends' = Ends
    BY <1>1, <1>2 DEF Ends
<1>4. Pending' = Pending
    BY <1>1, <1>2 DEF Pending
<1> QED
    BY <1>3, <1>4

\* What a frame that decode consumes does to them.
LEMMA StreamConsumed ==
    ASSUME TypeOK, consumed < Len(sent), sent' = sent, consumed' = consumed + 1
    PROVE  /\ ~IsData(consumed + 1) => Pending' = Pending /\ Ends' = Ends
           /\ IsData(consumed + 1) /\ ~sent[consumed + 1].fin =>
                 Pending' = Pending \cup {consumed + 1} /\ Ends' = Ends
           /\ IsData(consumed + 1) /\ sent[consumed + 1].fin =>
                 Pending' = {} /\ Ends' = Ends \cup {consumed + 1}
<1>1. consumed \in Nat
    BY DEF TypeOK
<1>2. \A j : IsData(j)' <=> IsData(j)
    BY DEF IsData
<1>3. \A j : j \in 1 .. consumed' <=> j \in 1 .. consumed \/ j = consumed + 1
    BY <1>1
<1>4. \A j \in 1 .. consumed : \A k : k \in j .. consumed' <=> k \in j .. consumed \/ k = consumed + 1
    BY <1>1
<1>5. \A k : k \in (consumed + 1) .. consumed' <=> k = consumed + 1
    BY <1>1
<1>6. consumed + 1 \notin 1 .. consumed
    BY <1>1
<1>7. Ends' = {i \in 1 .. consumed' : IsData(i) /\ sent[i].fin}
    BY <1>2 DEF Ends
<1>8. Pending' = {j \in 1 .. consumed' : IsData(j) /\ ~\E k \in j .. consumed' : IsData(k) /\ sent[k].fin}
    BY <1>2 DEF Pending
<1>9. ASSUME ~IsData(consumed + 1) PROVE Pending' = Pending /\ Ends' = Ends
    BY <1>3, <1>4, <1>5, <1>6, <1>7, <1>8, <1>9 DEF Pending, Ends
<1>10. ASSUME IsData(consumed + 1), ~sent[consumed + 1].fin
       PROVE  Pending' = Pending \cup {consumed + 1} /\ Ends' = Ends
    BY <1>3, <1>4, <1>5, <1>6, <1>7, <1>8, <1>10 DEF Pending, Ends
<1>11. ASSUME IsData(consumed + 1), sent[consumed + 1].fin
       PROVE  Pending' = {} /\ Ends' = Ends \cup {consumed + 1}
    BY <1>3, <1>4, <1>5, <1>6, <1>7, <1>8, <1>11 DEF Pending, Ends
<1> QED
    BY <1>9, <1>10, <1>11

\* The messages that have ended are finitely many.
LEMMA EndsFinite ==
    ASSUME TypeOK
    PROVE  Ends \subseteq 1 .. consumed /\ IsFiniteSet(Ends)
<1>1. consumed \in Nat
    BY DEF TypeOK
<1>2. Ends \subseteq 1 .. consumed
    BY DEF Ends
<1>3. IsFiniteSet(1 .. consumed)
    BY <1>1, FS_Interval
<1> QED
    BY <1>2, <1>3, FS_Subset

-----------------------------------------------------------------------------
(***************************************************************************)
(* The messages that were delivered.                                       *)
(***************************************************************************)
\* The frames of a message are named by their places.
LEMMA BodyType ==
    ASSUME TypeOK, NEW n \in 1 .. Len(messages)
    PROVE  messages[n].body \in Seq(Indexes)
<1> DEFINE M == [op : DataOps, body : Seq(Indexes), inflated : BOOLEAN]
<1>1. messages \in Seq(M)
    BY DEF TypeOK
<1>2. \A r \in M : r.body \in Seq(Indexes)
    OBVIOUS
<1> HIDE DEF M
<1>3. messages[n] \in M
    BY <1>1
<1> QED
    BY <1>2, <1>3

\* A message stays as it was delivered, whatever comes after its last frame.
LEMMA OneMessageKept ==
    ASSUME TypeOK,
           sent' = sent \/ (\E f \in Frames : sent' = Append(sent, f)),
           compress' = compress,
           Ends' = Ends \/ Ends' = Ends \cup {consumed + 1},
           NEW n, NEW b \in Seq(Indexes), NEW op, NEW z,
           MessageOK(n, b, op, z)
    PROVE  MessageOK(n, b, op, z)'
<1> DEFINE e == b[Len(b)]
<1>1. Len(b) \in Nat /\ Len(b) >= 1 /\ b # << >>
    BY DEF MessageOK
<1>2. e \in Ends /\ Lists(b, MessageOf(e)) /\ Cardinality({i \in Ends : i <= e}) = n
      /\ op = sent[b[1]].op
    BY DEF MessageOK
<1>3. z = (sent[b[1]].rsv = 4) \/ CompressedAndInterrupted(e)
    BY Zenon DEF MessageOK
<1>4. e \in 1 .. consumed /\ consumed \in Nat /\ consumed <= Len(sent)
    BY <1>2, EndsFinite DEF TypeOK
<1>5. e \in 1 .. Len(sent)
    BY <1>4
<1>6. MessageOf(e) \subseteq 1 .. e
    BY <1>4 DEF MessageOf
<1>7. b[1] \in 1 .. Len(sent)
    BY <1>1, <1>2, <1>4, <1>6 DEF Lists
<1> HIDE DEF e
<1>8. MessageOf(e)' = MessageOf(e) /\ (CompressedAndInterrupted(e)' <=> CompressedAndInterrupted(e))
    BY <1>5, Kept
<1>9. sent'[b[1]] = sent[b[1]]
    BY <1>7, Kept
<1>10. {i \in Ends' : i <= e} = {i \in Ends : i <= e}
    BY <1>4
<1>11. e \in Ends'
    BY <1>2
<1>12. Lists(b, MessageOf(e)')
    BY <1>2, <1>8
<1>13. z = (sent'[b[1]].rsv = 4) \/ CompressedAndInterrupted(e)'
    BY <1>3, <1>8, <1>9, Zenon
<1>14. op = sent'[b[1]].op /\ Cardinality({i \in Ends' : i <= e}) = n
    BY <1>2, <1>9, <1>10
<1> QED
    BY <1>1, <1>11, <1>12, <1>13, <1>14, Zenon DEF MessageOK, e

\* A step that delivers nothing and consumes no end of a message.
LEMMA MessagesKept ==
    ASSUME TypeOK, MessageInv,
           sent' = sent \/ (\E f \in Frames : sent' = Append(sent, f)),
           compress' = compress,
           Ends' = Ends,
           messages' = messages
    PROVE  MessageInv'
<1>1. Len(messages') = Cardinality(Ends')
    BY DEF MessageInv
<1>2. ASSUME NEW n \in 1 .. Len(messages'),
             NEW b \in {messages'[n].body}, NEW op \in {messages'[n].op}, NEW z \in {messages'[n].inflated}
      PROVE  MessageOK(n, b, op, z)'
    <2>1. MessageOK(n, b, op, z)
        BY <1>2 DEF MessageInv
    <2>2. b \in Seq(Indexes)
        BY <1>2, BodyType
    <2> QED
        BY <2>1, <2>2, OneMessageKept
<1> QED
    BY <1>1, <1>2 DEF MessageInv

\* A step that delivers the message the next frame ends.
LEMMA MessagesGrow ==
    ASSUME TypeOK, MessageInv,
           sent' = sent, compress' = compress,
           Ends' = Ends \cup {consumed + 1},
           NEW m \in [op : DataOps, body : Seq(Indexes), inflated : BOOLEAN],
           messages' = Append(messages, m),
           NEW k, NEW b, NEW op, NEW z, k = Len(messages) + 1, b = m.body, op = m.op, z = m.inflated,
           MessageOK(k, b, op, z)'
    PROVE  MessageInv'
<1>1. consumed \in Nat /\ Len(messages) \in Nat /\ Len(messages) = Cardinality(Ends)
    BY DEF TypeOK, MessageInv
<1>2. consumed + 1 \notin Ends
    BY <1>1, EndsFinite
<1>3. Cardinality(Ends') = Cardinality(Ends) + 1
    BY <1>2, EndsFinite, FS_AddElement
<1>4. Len(messages') = Len(messages) + 1
    BY DEF TypeOK
<1>5. messages'[Len(messages) + 1] = m
      /\ \A n \in 1 .. Len(messages) : messages'[n] = messages[n]
    BY DEF TypeOK
<1>6. ASSUME NEW n \in 1 .. Len(messages'),
             NEW c \in {messages'[n].body}, NEW o \in {messages'[n].op}, NEW y \in {messages'[n].inflated}
      PROVE  MessageOK(n, c, o, y)'
    <2>1. CASE n = Len(messages) + 1
        <3>1. n = k /\ c = b /\ o = op /\ y = z
            BY <2>1, <1>5, <1>6
        <3> QED
            BY <2>1, <3>1
    <2>2. CASE n \in 1 .. Len(messages)
        <3>1. MessageOK(n, c, o, y)
            BY <1>5, <1>6, <2>2 DEF MessageInv
        <3>2. c \in Seq(Indexes)
            BY <1>5, <1>6, <2>2, BodyType
        <3> QED
            BY <3>1, <3>2, OneMessageKept
    <2> QED
        BY <2>1, <2>2, <1>1, <1>4
<1> QED
    BY <1>1, <1>3, <1>4, <1>6 DEF MessageInv

-----------------------------------------------------------------------------
(***************************************************************************)
(* What decode knows of the next frame.                                    *)
(***************************************************************************)
\* The next frame, and its place.
LEMMA NextFrame ==
    ASSUME TypeOK, consumed < Len(sent)
    PROVE  /\ consumed \in Nat /\ Len(sent) \in Nat
           /\ consumed + 1 \in 1 .. Len(sent)
           /\ consumed + 1 \in Indexes
           /\ Header \in Frame
           /\ Header = sent[consumed + 1]
           /\ IsData(consumed + 1) <=> Header.op \in DataOps \/ Header.op = "continuation"
           /\ Header.op \in ControlOps => ~IsData(consumed + 1)
<1>1. consumed \in Nat /\ Len(sent) \in Nat /\ consumed + 1 \in 1 .. Len(sent) /\ consumed + 1 \in Indexes
    BY CodecAssumption DEF TypeOK, Indexes
<1>2. Header = sent[consumed + 1]
    BY DEF Header
<1>3. Header \in Frame
    BY <1>1, <1>2, FrameAt
<1>4. IsData(consumed + 1) <=> Header.op \in DataOps \/ Header.op = "continuation"
    BY <1>2 DEF IsData
<1>5. Header.op \in ControlOps => ~IsData(consumed + 1)
    BY <1>3, <1>4, Kinds
<1> QED
    BY <1>1, <1>2, <1>3, <1>4, <1>5

\* The opcodes of the decoder.
LEMMA Opcodes ==
    ASSUME TypeOK
    PROVE  /\ currOp \in DataOps \/ currOp \in ControlOps \/ currOp = None
           /\ currOp \in DataOps => currOp \notin ControlOps /\ currOp # None
           /\ currOp \in ControlOps => currOp # None
           /\ preOp \in DataOps \/ preOp = None
           /\ preOp \in DataOps => preOp # None
BY CodecAssumption DEF TypeOK, DataOps, ControlOps, Ops

\* No message is open, but in the decoder.
LEMMA OpenCases ==
    ASSUME TypeOK, ShapeInv, BodyInv
    PROVE  /\ preOp = None /\ currOp \notin DataOps => Pending = {}
           /\ currOp \in DataOps =>
                 /\ preOp = None
                 /\ Lists(currBody, Pending) /\ currBody # << >> /\ Pending # {}
                 /\ sent[currBody[1]].op = currOp
           /\ preOp # None =>
                 Lists(preBody, Pending) /\ preBody # << >> /\ sent[preBody[1]].op = preOp
<1>1. ASSUME preOp = None, currOp \notin DataOps PROVE Pending = {}
    <2>1. OpenBody = << >>
        BY <1>1 DEF OpenBody
    <2>2. Lists(<< >>, Pending)
        BY <2>1 DEF BodyInv
    <2> QED
        BY <2>2 DEF Lists
<1>2. ASSUME currOp \in DataOps
      PROVE  /\ preOp = None
             /\ Lists(currBody, Pending) /\ currBody # << >> /\ Pending # {}
             /\ sent[currBody[1]].op = currOp
    <2>1. preOp = None /\ currBody # << >>
        BY <1>2 DEF ShapeInv
    <2>2. OpenBody = currBody /\ OpenOp = currOp
        BY <1>2, <2>1 DEF OpenBody, OpenOp
    <2>3. currOp # None
        BY <1>2, Opcodes
    <2>4. Lists(currBody, Pending) /\ sent[currBody[1]].op = currOp
        BY <2>2, <2>3 DEF BodyInv
    <2>5. currBody \in Seq(Indexes)
        BY DEF TypeOK
    <2>6. currBody[1] \in Pending
        BY <2>1, <2>4, <2>5 DEF Lists
    <2> QED
        BY <2>1, <2>4, <2>6
<1>3. ASSUME preOp # None
      PROVE  Lists(preBody, Pending) /\ preBody # << >> /\ sent[preBody[1]].op = preOp
    BY <1>3 DEF ShapeInv, OpenBody, OpenOp, BodyInv
<1> QED
    BY <1>1, <1>2, <1>3

\* A frame that decode accepts is a control frame, which may interrupt a message, ...
LEMMA ControlFrame ==
    ASSUME TypeOK, ShapeInv, BodyInv, Complete, Header.op \in ControlOps
    PROVE  /\ Op = None /\ NewOp = Header.op /\ NewOp \notin DataOps
           /\ NewBody = <<consumed + 1>>
           /\ NewRsv = 0
           /\ NewPreOp = OpenOp
           /\ OpenOp # None => NewPreBody = OpenBody
           /\ currOp \notin ControlOps
           /\ ~Header.fin \/ Legal(consumed + 1)
<1>1. Traffic /\ ~Invalid /\ stage = 3 /\ consumed < Len(sent)
    BY DEF Complete, Traffic
<1>2. Header \in Frame /\ Header = sent[consumed + 1]
    BY <1>1, NextFrame
<1>3. ~HeaderInvalid /\ ~LengthInvalid
    BY <1>1 DEF Invalid
<1>4. Header.rsv = 0 /\ currOp \notin ControlOps /\ Header.masked /\ Header.length = "short"
    BY <1>3, Zenon DEF HeaderInvalid, LengthInvalid
<1>5. Header.op \notin DataOps /\ Header.op # "continuation" /\ Header.op # "reserved"
    BY <1>2, Kinds
<1>6. Interleaves <=> currOp \in DataOps
    BY DEF Interleaves
<1>7. Op = None
    BY <1>4, <1>6, Opcodes DEF Op
<1>8. NewOp = Header.op /\ NewRsv = 0
    BY <1>4, <1>7 DEF NewOp, NewRsv
<1>9. Interleaves \/ currBody = << >>
    BY <1>4, <1>6, Opcodes DEF ShapeInv
<1>10. NewBody = <<consumed + 1>>
    <2>1. NewBody = Append(<< >>, consumed + 1)
        BY <1>9, Zenon DEF NewBody
    <2> QED
        BY <2>1
<1>11. NewPreOp = OpenOp
    BY <1>6, Opcodes, OpenCases DEF NewPreOp, OpenOp
<1>12. OpenOp # None => NewPreBody = OpenBody
    BY <1>6, Opcodes, OpenCases DEF NewPreBody, OpenBody, OpenOp
<1>13. ~Header.fin \/ Legal(consumed + 1)
    BY <1>2, <1>4, <1>5 DEF Legal
<1> QED
    BY <1>4, <1>5, <1>7, <1>8, <1>10, <1>11, <1>12, <1>13

\* ... the first frame of a message, or a continuation.
LEMMA DataFrame ==
    ASSUME TypeOK, ShapeInv, BodyInv, Complete, Header.op \notin ControlOps
    PROVE  /\ ~Interleaves /\ Op = currOp /\ preOp = None /\ NewPreOp = None
           /\ currOp \notin ControlOps
           /\ IsData(consumed + 1) /\ Legal(consumed + 1)
           /\ \/ /\ Header.op \in DataOps /\ currOp = None /\ Pending = {}
                 /\ NewOp = Header.op /\ NewRsv = Header.rsv /\ NewBody = <<consumed + 1>>
              \/ /\ Header.op = "continuation" /\ currOp \in DataOps
                 /\ NewOp = currOp /\ NewRsv = messageRsv /\ NewBody = Append(currBody, consumed + 1)
<1>1. Traffic /\ ~Invalid /\ stage = 3 /\ ~gone /\ consumed < Len(sent)
    BY DEF Complete, Traffic
<1>2. Header \in Frame /\ Header = sent[consumed + 1]
    BY <1>1, NextFrame
<1>3. ~HeaderInvalid /\ ~FirstInvalid /\ Header.length # "msb"
    BY <1>1 DEF Invalid, LengthInvalid
<1>4. Header.op # "reserved" /\ currOp \notin ControlOps /\ Header.masked /\ (Header.rsv # 0 => compress)
      /\ (currOp \in DataOps => Header.op = "continuation" /\ Header.rsv = 0)
    BY <1>3 DEF HeaderInvalid
<1>5. ~Interleaves /\ Op = currOp
    BY DEF Interleaves, Op
<1>6. preOp = None
    BY <1>1, <1>4, Opcodes DEF ShapeInv
<1>7. NewPreOp = None
    BY <1>5, <1>6 DEF NewPreOp
<1>8. Header.op \in DataOps \/ Header.op = "continuation"
    BY <1>2, <1>4, Kinds
<1>9. IsData(consumed + 1)
    BY <1>1, <1>8, NextFrame
<1>10. CASE currOp = None
    <2>1. Header.op # "continuation" /\ (compress => Header.rsv \in {0, 4})
        BY <1>3, <1>5, <1>10 DEF FirstInvalid
    <2>2. Header.op \in DataOps
        BY <2>1, <1>8
    <2>3. Pending = {}
        BY <1>6, <1>10, Opcodes, OpenCases
    <2>4. ~OpenBefore(consumed + 1)
        BY <1>1, <2>3, OpenAt
    <2>5. Legal(consumed + 1)
        BY <1>2, <1>3, <1>4, <2>1, <2>2, <2>4, Kinds DEF Legal
    <2>6. NewOp = Header.op /\ NewRsv = Header.rsv
        BY <1>5, <1>10 DEF NewOp, NewRsv
    <2>7. currBody = << >>
        BY <1>10 DEF ShapeInv
    <2>8. NewBody = <<consumed + 1>>
        BY <1>5, <2>7 DEF NewBody
    <2> QED
        BY <1>4, <1>5, <1>6, <1>7, <1>9, <1>10, <2>2, <2>3, <2>5, <2>6, <2>8
<1>11. CASE currOp \in DataOps
    <2>1. Header.op = "continuation" /\ Header.rsv = 0
        BY <1>4, <1>11
    <2>2. Pending # {}
        BY <1>11, OpenCases
    <2>3. OpenBefore(consumed + 1)
        BY <1>1, <2>2, OpenAt
    <2>4. Legal(consumed + 1)
        BY <1>2, <1>3, <1>4, <2>1, <2>3, Kinds DEF Legal
    <2>5. currOp # None
        BY <1>11, Opcodes
    <2>6. NewOp = currOp /\ NewRsv = messageRsv /\ NewBody = Append(currBody, consumed + 1)
        BY <1>5, <2>5 DEF NewOp, NewRsv, NewBody
    <2> QED
        BY <1>4, <1>5, <1>6, <1>7, <1>9, <1>11, <2>1, <2>4, <2>6
<1> QED
    BY <1>4, <1>10, <1>11, Opcodes

\* The message that the decoder has when a data frame is appended is that of the stream.
LEMMA NewMessage ==
    ASSUME TypeOK, ShapeInv, BodyInv, RsvInv, AcceptsOnlyLegal, Complete, Header.op \notin ControlOps
    PROVE  /\ NewBody \in Seq(Indexes) /\ NewBody # << >> /\ NewBody[Len(NewBody)] = consumed + 1
           /\ Lists(NewBody, MessageOf(consumed + 1))
           /\ NewBody[1] \in 1 .. consumed + 1
           /\ NewOp \in DataOps /\ sent[NewBody[1]].op = NewOp
           /\ NewRsv \in {0, 4}
           /\ sent[NewBody[1]].rsv = 4 => compress
           /\ \/ NewRsv = sent[NewBody[1]].rsv
              \/ /\ sent[NewBody[1]].rsv = 4
                 /\ \E k \in 1 .. consumed : NewBody[1] < k /\ sent[k].op \in ControlOps
<1>1. Traffic /\ consumed < Len(sent)
    BY DEF Complete, Traffic
<1>2. /\ consumed \in Nat /\ Len(sent) \in Nat /\ consumed + 1 \in 1 .. Len(sent) /\ consumed + 1 \in Indexes
      /\ Header \in Frame /\ Header = sent[consumed + 1]
    BY <1>1, NextFrame
<1>3. IsData(consumed + 1) /\ Legal(consumed + 1)
    BY DataFrame
<1>4. MessageOf(consumed + 1) = Pending \cup {consumed + 1}
    BY <1>1, <1>3, MessageAt
<1>5. Pending \subseteq 1 .. consumed
    BY DEF Pending
<1>6. CASE Header.op \in DataOps
    <2>1. Pending = {} /\ NewOp = Header.op /\ NewRsv = Header.rsv /\ NewBody = <<consumed + 1>>
        BY <1>2, <1>6, DataFrame, Kinds
    <2>2. NewBody \in Seq(Indexes) /\ Len(NewBody) = 1 /\ NewBody[1] = consumed + 1
        BY <1>2, <2>1
    <2>3. {NewBody[k] : k \in 1 .. Len(NewBody)} = {consumed + 1}
        BY <2>2
    <2>4. Lists(NewBody, MessageOf(consumed + 1))
        BY <1>4, <2>1, <2>2, <2>3 DEF Lists
    <2>5. Header.rsv = 0 \/ (compress /\ Header.rsv = 4)
        BY <1>2, <1>3, <1>6 DEF Legal
    <2>6. NewBody # << >> /\ NewBody[1] \in 1 .. consumed + 1
        BY <1>2, <2>2
    <2> QED
        BY <1>2, <1>6, <2>1, <2>2, <2>4, <2>5, <2>6
<1>7. CASE Header.op \notin DataOps
    <2>1. /\ currOp \in DataOps
          /\ NewOp = currOp /\ NewRsv = messageRsv /\ NewBody = Append(currBody, consumed + 1)
        BY <1>7, DataFrame
    <2>2. Lists(currBody, Pending) /\ currBody # << >> /\ sent[currBody[1]].op = currOp
        BY <2>1, OpenCases
    <2>3. currBody \in Seq(Indexes) /\ messageRsv \in {0, 4}
        BY DEF TypeOK
    <2>4. /\ NewBody \in Seq(Indexes) /\ Len(NewBody) = Len(currBody) + 1 /\ Len(currBody) \in Nat
          /\ NewBody[Len(currBody) + 1] = consumed + 1
          /\ \A k \in 1 .. Len(currBody) : NewBody[k] = currBody[k]
        BY <1>2, <2>1, <2>3
    <2>5. Len(currBody) >= 1
        BY <2>2, <2>3
    <2>6. NewBody[1] = currBody[1] /\ currBody[1] \in Pending
        BY <2>2, <2>4, <2>5 DEF Lists
    <2>7. \A k \in 1 .. Len(currBody) : NewBody[k] \in 1 .. consumed
        BY <1>5, <2>2, <2>4 DEF Lists
    <2>8. {NewBody[k] : k \in 1 .. Len(NewBody)} = Pending \cup {consumed + 1}
        <3>1. {currBody[k] : k \in 1 .. Len(currBody)} = Pending
            BY <2>2 DEF Lists
        <3>2. \A k : k \in 1 .. Len(NewBody) <=> k \in 1 .. Len(currBody) \/ k = Len(currBody) + 1
            BY <2>4
        <3> QED
            BY <2>4, <3>1, <3>2
    <2>9. \A j, k \in 1 .. Len(NewBody) : j < k => NewBody[j] < NewBody[k]
        <3>1. TAKE j, k \in 1 .. Len(NewBody)
        <3>2. CASE k \in 1 .. Len(currBody)
            BY <2>2, <2>4, <3>2 DEF Lists
        <3>3. CASE k = Len(currBody) + 1
            <4>1. j < k => j \in 1 .. Len(currBody)
                BY <2>4, <3>3
            <4>2. j < k => NewBody[j] \in 1 .. consumed
                BY <4>1, <2>7
            <4> QED
                BY <4>2, <3>3, <2>4, <1>2
        <3> QED
            BY <2>4, <3>2, <3>3
    <2>10. Lists(NewBody, MessageOf(consumed + 1))
        BY <1>4, <2>8, <2>9 DEF Lists
    <2>11. currBody[1] \in 1 .. consumed
        BY <2>6, <1>5
    <2>12. Legal(currBody[1])
        BY <2>1, <2>2, <2>11, Opcodes DEF AcceptsOnlyLegal
    <2>13. sent[currBody[1]].rsv = 4 => compress
        BY <2>1, <2>2, <2>12 DEF Legal
    <2>14. NewBody # << >> /\ NewBody[Len(NewBody)] = consumed + 1 /\ NewBody[1] \in 1 .. consumed + 1
        BY <1>2, <2>4, <2>6, <2>11
    <2>15. \/ messageRsv = sent[currBody[1]].rsv
           \/ /\ sent[currBody[1]].rsv = 4
              /\ \E k \in 1 .. consumed : currBody[1] < k /\ sent[k].op \in ControlOps
        BY <2>1 DEF RsvInv
    <2> QED
        BY <2>1, <2>2, <2>3, <2>4, <2>6, <2>10, <2>13, <2>14, <2>15
<1> QED
    BY <1>6, <1>7

\* It is decompressed if it is compressed, but for the known exception.
LEMMA NewInflates ==
    ASSUME TypeOK, ShapeInv, BodyInv, RsvInv, AcceptsOnlyLegal, Complete, Header.op \notin ControlOps
    PROVE  (Inflates <=> sent[NewBody[1]].rsv = 4) \/ CompressedAndInterrupted(consumed + 1)
<1>1. NewBody \in Seq(Indexes) /\ NewBody # << >> /\ Lists(NewBody, MessageOf(consumed + 1))
    BY NewMessage
<1>2. consumed \in Nat
    BY DEF TypeOK
<1>3. NewBody[1] \in MessageOf(consumed + 1)
    BY <1>1 DEF Lists
<1>4. CASE NewRsv = sent[NewBody[1]].rsv
    BY <1>4, NewMessage DEF Inflates
<1>5. CASE NewRsv # sent[NewBody[1]].rsv
    <2>1. PICK k \in 1 .. consumed : NewBody[1] < k /\ sent[k].op \in ControlOps
        BY <1>5, NewMessage
    <2>2. sent[NewBody[1]].rsv = 4
        BY <1>5, NewMessage
    <2>3. Interrupted(consumed + 1)
        BY <1>2, <1>3, <2>1 DEF Interrupted
    <2> QED
        BY <1>3, <2>2, <2>3 DEF CompressedAndInterrupted
<1> QED
    BY <1>4, <1>5

-----------------------------------------------------------------------------
(***************************************************************************)
(* The steps that leave the decoder alone.                                 *)
(***************************************************************************)
\* The reason stays when the client sends more.
LEMMA RefusedKept ==
    ASSUME TypeOK,
           sent' = sent \/ (\E f \in Frames : sent' = Append(sent, f)),
           compress' = compress,
           NEW r \in 1 .. Len(sent), Refused(r)
    PROVE  Refused(r)'
<1>1. \A i \in 1 .. r : i \in 1 .. Len(sent)
    BY DEF TypeOK
<1>2. \A i \in 1 .. r : Legal(i)' <=> Legal(i)
    BY <1>1, Kept
<1>3. (GoodAt(r)' <=> GoodAt(r)) /\ (CompressedAndInterrupted(r)' <=> CompressedAndInterrupted(r))
    BY Kept
<1> QED
    BY <1>2, <1>3, Zenon DEF Refused

\* The handshake, the end of the connection and WriteCloseFrame.
LEMMA QuietStep ==
    ASSUME CodecInv, TypeOK',
           UNCHANGED <<stream, decoder, messages>>,
           rejected' = rejected \/ RejectInv',
           compress' = compress \/ ~upgraded,
           upgraded' = upgraded \/ upgraded' = TRUE,
           gone' = gone \/ gone' = TRUE
    PROVE  CodecInv'
<1>1. /\ TypeOK /\ ShapeInv /\ BodyInv /\ RsvInv /\ RejectInv /\ AcceptsOnlyLegal /\ MessageInv
    BY DEF CodecInv
<1>2. /\ sent' = sent /\ consumed' = consumed /\ stage' = stage /\ currOp' = currOp /\ currBody' = currBody
      /\ preOp' = preOp /\ preBody' = preBody /\ messageRsv' = messageRsv
      /\ messages' = messages
    BY DEF stream, decoder
<1>3. \A i : /\ IsData(i)' <=> IsData(i)
             /\ MessageOf(i)' = MessageOf(i)
             /\ CompressedAndInterrupted(i)' <=> CompressedAndInterrupted(i)
    <2>1. \A i : IsData(i)' <=> IsData(i)
        BY <1>2 DEF IsData
    <2>2. \A i : MessageOf(i)' = MessageOf(i)
        BY <1>2, <2>1 DEF MessageOf
    <2>3. \A i : Interrupted(i)' <=> Interrupted(i)
        BY <1>2, <2>2 DEF Interrupted
    <2>4. \A i : CompressedAndInterrupted(i)' <=> CompressedAndInterrupted(i)
        BY <1>2, <2>2, <2>3 DEF CompressedAndInterrupted
    <2> QED
        BY <2>1, <2>2, <2>4
<1>4. Pending' = Pending /\ Ends' = Ends
    BY <1>2, <1>3 DEF Pending, Ends
<1>5. ShapeInv'
    <2>1. Header' = Header
        BY <1>2 DEF Header
    <2> QED
        BY <1>1, <1>2, <2>1 DEF ShapeInv
<1>6. BodyInv'
    <2>1. OpenBody' = OpenBody /\ OpenOp' = OpenOp
        BY <1>2 DEF OpenBody, OpenOp
    <2> QED
        BY <1>1, <1>2, <1>4, <2>1 DEF BodyInv, Lists
<1>7. RsvInv'
    BY <1>1, <1>2 DEF RsvInv
<1>8. MessageInv'
    <2>1. \A n, b, op, z : MessageOK(n, b, op, z) => MessageOK(n, b, op, z)'
        BY <1>2, <1>3, <1>4 DEF MessageOK
    <2> QED
        BY <1>1, <1>2, <1>4, <2>1 DEF MessageInv
<1>9. CASE compress' = compress
    <2>1. RejectInv'
        <3>1. ASSUME rejected' = rejected, NEW r \in {rejected'}, r # 0
              PROVE  gone' /\ r <= Len(sent') /\ Refused(r)'
            <4>1. gone /\ r <= Len(sent) /\ Refused(r)
                BY <1>1, <3>1 DEF RejectInv
            <4>2. r \in 1 .. Len(sent)
                BY <1>1, <3>1, <4>1 DEF TypeOK
            <4> QED
                BY <1>1, <1>2, <1>9, <4>1, <4>2, RefusedKept
        <3> QED
            BY <3>1 DEF RejectInv
    <2>2. AcceptsOnlyLegal'
        <3>1. \A i \in 1 .. consumed : Legal(i)' <=> Legal(i)
            BY <1>1, <1>2, <1>9, Kept DEF TypeOK
        <3> QED
            BY <1>1, <1>2, <3>1 DEF AcceptsOnlyLegal
    <2> QED
        BY <1>5, <1>6, <1>7, <1>8, <2>1, <2>2 DEF CodecInv
<1>10. CASE ~upgraded
    <2>1. sent = << >>
        BY <1>1, <1>10 DEF ShapeInv
    <2>2. Len(sent) = 0 /\ consumed = 0
        BY <1>1, <2>1 DEF TypeOK
    <2>3. rejected = 0
        BY <1>1, <2>2 DEF TypeOK, RejectInv
    <2>4. RejectInv'
        BY <2>3 DEF RejectInv
    <2>5. AcceptsOnlyLegal'
        BY <1>2, <2>2 DEF AcceptsOnlyLegal
    <2> QED
        BY <1>5, <1>6, <1>7, <1>8, <2>4, <2>5 DEF CodecInv
<1> QED
    BY <1>9, <1>10

\* What the server writes.
LEMMA OutGrows ==
    ASSUME TypeOK, NEW x \in {"pong", "echo", "fail", "kick"}
    PROVE  Append(out, x) \in Seq({"pong", "echo", "fail", "kick"})
<1> DEFINE O == {"pong", "echo", "fail", "kick"}
<1>1. out \in Seq(O) /\ x \in O
    BY DEF TypeOK
<1> HIDE DEF O
<1>2. Append(out, x) \in Seq(O)
    BY <1>1
<1> QED
    BY <1>2 DEF O

LEMMA QuietTypes ==
    ASSUME TypeOK,
           \/ Upgrade \/ UpgradeRefuse \/ OpenRefuse \/ Disconnect \/ Kick \/ KickWrite \/ KickFail \/ KickTimer
    PROVE  /\ TypeOK'
           /\ UNCHANGED <<stream, decoder, messages, rejected>>
           /\ compress' = compress \/ ~upgraded
           /\ upgraded' = upgraded \/ upgraded' = TRUE
           /\ gone' = gone \/ gone' = TRUE
<1>1. CASE Upgrade
    BY <1>1 DEF Upgrade, TypeOK, stream, decoder
<1>2. CASE UpgradeRefuse
    BY <1>2 DEF UpgradeRefuse, TypeOK, stream, decoder
<1>3. CASE OpenRefuse
    BY <1>3, OutGrows DEF OpenRefuse, TypeOK, stream, decoder
<1>4. CASE Disconnect
    BY <1>4 DEF Disconnect, TypeOK, stream, decoder
<1>5. CASE Kick
    BY <1>5 DEF Kick, TypeOK, stream, decoder
<1>6. CASE KickWrite
    BY <1>6, OutGrows DEF KickWrite, TypeOK, stream, decoder
<1>7. CASE KickFail
    BY <1>7 DEF KickFail, TypeOK, stream, decoder
<1>8. CASE KickTimer
    BY <1>8 DEF KickTimer, TypeOK, stream, decoder
<1> QED
    BY <1>1, <1>2, <1>3, <1>4, <1>5, <1>6, <1>7, <1>8

\* The client sends a frame, or bytes of one arrive.
LEMMA ClientStep ==
    ASSUME CodecInv, (\E f \in Frames : Send(f)) \/ (\E n \in 1 .. 3 : Arrive(n))
    PROVE  CodecInv'
<1>1. /\ TypeOK /\ ShapeInv /\ BodyInv /\ RsvInv /\ RejectInv /\ AcceptsOnlyLegal /\ MessageInv
    BY DEF CodecInv
<1>2. /\ consumed' = consumed /\ currOp' = currOp /\ currBody' = currBody
      /\ preOp' = preOp /\ preBody' = preBody /\ messageRsv' = messageRsv
      /\ messages' = messages /\ rejected' = rejected
      /\ compress' = compress /\ upgraded' = upgraded /\ gone' = gone
      /\ stage' = stage \/ stage' > 0
      /\ sent' = sent \/ upgraded
    BY DEF Send, Arrive, decoder
<1>3. sent' = sent \/ (\E f \in Frames : sent' = Append(sent, f))
    BY DEF Send, Arrive
<1>4. TypeOK'
    <2>1. CASE \E f \in Frames : Send(f)
        BY <1>1, <2>1, CodecAssumption DEF Send, TypeOK, decoder
    <2>2. CASE \E n \in 1 .. 3 : Arrive(n)
        BY <1>1, <2>2 DEF Arrive, TypeOK, decoder
    <2> QED
        BY <2>1, <2>2
<1>5. consumed \in Nat /\ Len(sent) \in Nat /\ Len(sent') \in Nat /\ consumed <= Len(sent)
      /\ Len(sent) <= Len(sent')
    BY <1>1, <1>3 DEF TypeOK
<1>6. \A i \in 1 .. Len(sent) : sent'[i] = sent[i] /\ (Legal(i)' <=> Legal(i))
    BY <1>1, <1>2, <1>3, Kept
<1>7. Pending' = Pending /\ Ends' = Ends
    BY <1>1, <1>2, <1>3, StreamKept
<1>8. Pending \subseteq 1 .. Len(sent)
    BY <1>5 DEF Pending
<1>9. ShapeInv'
    <2>1. consumed < Len(sent) => Header' = Header
        BY <1>2, <1>5, <1>6 DEF Header
    <2>2. consumed >= 1 => sent'[consumed] = sent[consumed]
        BY <1>5, <1>6
    <2>3. sent' # << >> => upgraded'
        BY <1>1, <1>2 DEF ShapeInv
    <2>4. preOp' # None /\ currOp' = None /\ ~gone' =>
              consumed' < Len(sent') /\ stage' > 0 /\ Header'.op \in ControlOps
        BY <1>1, <1>2, <1>5, <2>1 DEF ShapeInv, TypeOK
    <2> QED
        BY <1>1, <1>2, <2>2, <2>3, <2>4 DEF ShapeInv
<1>10. BodyInv'
    <2>1. OpenBody' = OpenBody /\ OpenOp' = OpenOp
        BY <1>2 DEF OpenBody, OpenOp
    <2>2. ASSUME OpenOp # None PROVE sent'[OpenBody[1]].op = OpenOp
        <3>1. CASE preOp # None
            <4>1. OpenBody = preBody /\ preBody # << >> /\ Lists(preBody, Pending) /\ preBody \in Seq(Indexes)
                BY <1>1, <3>1, OpenCases DEF OpenBody, TypeOK
            <4>2. preBody[1] \in Pending
                BY <4>1 DEF Lists
            <4> QED
                BY <1>1, <1>6, <1>8, <2>2, <4>1, <4>2 DEF BodyInv
        <3>2. CASE preOp = None
            <4>1. currOp \in DataOps
                BY <2>2, <3>2 DEF OpenOp
            <4>2. OpenBody = currBody /\ currBody # << >> /\ Lists(currBody, Pending) /\ currBody \in Seq(Indexes)
                BY <1>1, <3>2, <4>1, OpenCases DEF OpenBody, TypeOK
            <4>3. currBody[1] \in Pending
                BY <4>2 DEF Lists
            <4> QED
                BY <1>1, <1>6, <1>8, <2>2, <4>2, <4>3 DEF BodyInv
        <3> QED
            BY <3>1, <3>2
    <2>3. Lists(OpenBody', Pending')
        BY <1>1, <1>7, <2>1 DEF BodyInv
    <2> QED
        BY <2>1, <2>2, <2>3 DEF BodyInv, Lists
<1>11. RsvInv'
    <2>1. SUFFICES ASSUME currOp \in DataOps
          PROVE  \/ messageRsv = sent'[currBody[1]].rsv
                 \/ /\ sent'[currBody[1]].rsv = 4
                    /\ \E k \in 1 .. consumed : currBody[1] < k /\ sent'[k].op \in ControlOps
        BY <1>2 DEF RsvInv
    <2>2. currBody # << >> /\ Lists(currBody, Pending) /\ currBody \in Seq(Indexes)
        BY <1>1, <2>1, OpenCases DEF TypeOK
    <2>3. currBody[1] \in Pending
        BY <2>2 DEF Lists
    <2>4. sent'[currBody[1]] = sent[currBody[1]]
        BY <1>6, <1>8, <2>3
    <2>5. \A k \in 1 .. consumed : sent'[k] = sent[k]
        BY <1>5, <1>6
    <2> QED
        BY <1>1, <2>1, <2>4, <2>5 DEF RsvInv
<1>12. MessageInv'
    BY <1>1, <1>2, <1>3, <1>7, MessagesKept
<1>13. RejectInv'
    <2>1. ASSUME NEW r \in {rejected'}, r # 0 PROVE gone' /\ r <= Len(sent') /\ Refused(r)'
        <3>1. gone /\ r <= Len(sent) /\ Refused(r)
            BY <1>1, <1>2, <2>1 DEF RejectInv
        <3>2. r \in 1 .. Len(sent)
            BY <1>1, <1>2, <2>1, <3>1 DEF TypeOK
        <3>3. Refused(r)'
            BY <1>1, <1>2, <1>3, <3>1, <3>2, RefusedKept
        <3> QED
            BY <1>2, <1>5, <3>1, <3>2, <3>3
    <2> QED
        BY <2>1 DEF RejectInv
<1>14. AcceptsOnlyLegal'
    <2>1. \A i \in 1 .. consumed : sent'[i] = sent[i] /\ (Legal(i)' <=> Legal(i))
        BY <1>5, <1>6
    <2> QED
        BY <1>1, <1>2, <2>1 DEF AcceptsOnlyLegal
<1> QED
    BY <1>4, <1>9, <1>10, <1>11, <1>12, <1>13, <1>14 DEF CodecInv

-----------------------------------------------------------------------------
(***************************************************************************)
(* The errors of decode.                                                   *)
(***************************************************************************)
\* What decode refuses by its header is illegal, or follows something illegal.
LEMMA InvalidIsIllegal ==
    ASSUME CodecInv, Traffic, Invalid
    PROVE  \E i \in 1 .. consumed + 1 : ~Legal(i)
<1>1. /\ TypeOK /\ ShapeInv /\ BodyInv
      /\ ~gone /\ consumed < Len(sent) /\ stage > 0
    BY DEF CodecInv, Traffic
<1>2. /\ consumed \in Nat /\ Header \in Frame /\ Header = sent[consumed + 1]
    BY <1>1, NextFrame
<1>3. SUFFICES ASSUME Legal(consumed + 1), \A i \in 1 .. consumed : Legal(i)
      PROVE  FALSE
    BY <1>2
<1>4. /\ Header.op # "reserved" /\ Header.masked /\ Header.length # "msb"
      /\ Header.op \in ControlOps => Header.fin /\ Header.length = "short" /\ Header.rsv = 0
      /\ Header.op \in DataOps => ~OpenBefore(consumed + 1) /\ (Header.rsv = 0 \/ (compress /\ Header.rsv = 4))
      /\ Header.op = "continuation" => OpenBefore(consumed + 1) /\ Header.rsv = 0
    BY <1>2, <1>3, Zenon DEF Legal
<1>5. currOp \notin ControlOps
    <2>1. SUFFICES ASSUME currOp \in ControlOps PROVE FALSE
        OBVIOUS
    <2>2. consumed >= 1 /\ sent[consumed].op \in ControlOps /\ ~sent[consumed].fin
        BY <1>1, <2>1 DEF ShapeInv
    <2>3. Legal(consumed)
        BY <1>2, <1>3, <2>2
    <2> QED
        BY <2>2, <2>3 DEF Legal
<1>6. OpenBefore(consumed + 1) <=> Pending # {}
    BY <1>1, OpenAt
<1>7. ~HeaderInvalid
    <2>1. Header.rsv # 0 => compress /\ Header.op \notin ControlOps
        BY <1>2, <1>4, Kinds
    <2>2. currOp \in DataOps => OpenBefore(consumed + 1)
        BY <1>1, <1>6, OpenCases
    <2>3. currOp \in DataOps /\ Header.op \notin ControlOps => Header.op = "continuation" /\ Header.rsv = 0
        BY <1>2, <1>4, <2>2, Kinds
    <2> QED
        BY <1>4, <1>5, <2>1, <2>3, Zenon DEF HeaderInvalid
<1>8. ~LengthInvalid
    BY <1>4 DEF LengthInvalid
<1>9. ~FirstInvalid
    <2>1. SUFFICES ASSUME Op = None, Header.op = "continuation" PROVE FALSE
        BY <1>2, <1>4, Kinds DEF FirstInvalid
    <2>2. Header.op \notin ControlOps
        BY <1>2, <2>1, Kinds
    <2>3. currOp = None
        BY <2>1, <2>2 DEF Op, Interleaves
    <2>4. preOp = None
        BY <1>1, <2>2, <2>3 DEF ShapeInv
    <2>5. Pending = {}
        BY <1>1, <2>3, <2>4, Opcodes, OpenCases
    <2> QED
        BY <1>4, <1>6, <2>1, <2>5
<1> QED
    BY <1>7, <1>8, <1>9 DEF Invalid

\* What it refuses by its payload is bad, or a compressed message taken for a plain one.
LEMMA GarbageIsBad ==
    ASSUME CodecInv, Complete, MayFail \/ (NewOp = "close" /\ ~Header.good)
    PROVE  ~GoodAt(consumed + 1) \/ CompressedAndInterrupted(consumed + 1)
<1>1. /\ TypeOK /\ ShapeInv /\ BodyInv /\ RsvInv /\ AcceptsOnlyLegal
      /\ consumed < Len(sent)
    BY DEF CodecInv, Complete, Traffic
<1>2. /\ Header \in Frame /\ Header = sent[consumed + 1]
    BY <1>1, NextFrame
<1>3. CASE Header.op \in ControlOps
    <2>1. NewOp \notin DataOps
        BY <1>1, <1>3, ControlFrame
    <2>2. ~MayFail
        BY <2>1 DEF MayFail, DataOps
    <2>3. ~Header.good
        BY <2>2
    <2>4. ~IsData(consumed + 1)
        BY <1>1, <1>3, NextFrame
    <2> QED
        BY <1>2, <2>3, <2>4 DEF GoodAt
<1>4. CASE Header.op \notin ControlOps
    <2>1. IsData(consumed + 1) /\ NewOp \in DataOps /\ NewBody \in Seq(Indexes)
          /\ Lists(NewBody, MessageOf(consumed + 1))
        BY <1>1, <1>4, DataFrame, NewMessage
    <2>2. MayFail
        BY <2>1 DEF DataOps
    <2>3. CASE ~Good(NewBody)
        <3>1. PICK k \in 1 .. Len(NewBody) : ~sent[NewBody[k]].good
            BY <2>3 DEF Good
        <3>2. NewBody[k] \in MessageOf(consumed + 1)
            BY <2>1, <3>1 DEF Lists
        <3> QED
            BY <2>1, <3>1, <3>2 DEF GoodAt
    <2>4. CASE Good(NewBody)
        <3>1. sent[NewBody[1]].rsv = 4 /\ ~Inflates
            BY <2>2, <2>4 DEF MayFail
        <3> QED
            BY <1>1, <1>4, <3>1, NewInflates
    <2> QED
        BY <2>3, <2>4
<1> QED
    BY <1>3, <1>4

LEMMA FailStep ==
    ASSUME CodecInv, Reject \/ Garbage
    PROVE  CodecInv'
<1>1. /\ Traffic /\ consumed < Len(sent)
      /\ gone' = TRUE /\ rejected' = consumed + 1
      /\ closed' = TRUE /\ out' = Append(out, "fail")
      /\ UNCHANGED <<stream, decoder, messages>> /\ compress' = compress /\ upgraded' = upgraded
      /\ kick' = kick
    BY DEF Reject, Garbage, Complete, Traffic, Fail
<1>2. TypeOK /\ consumed \in Nat /\ consumed + 1 \in 1 .. Len(sent) /\ consumed + 1 \in Indexes
      /\ sent' = sent
    BY <1>1, NextFrame DEF CodecInv, stream
<1>3. PICK r \in 1 .. Len(sent) : r = consumed + 1
    BY <1>2
<1>4. Refused(r)
    <2>1. CASE Reject
        BY <1>3, <2>1, InvalidIsIllegal DEF Reject, Refused
    <2>2. CASE Garbage
        BY <1>3, <2>2, GarbageIsBad DEF Garbage, Refused
    <2> QED
        BY <2>1, <2>2
<1>5. Refused(r)'
    BY <1>1, <1>2, <1>4, RefusedKept
<1>6. RejectInv'
    BY <1>1, <1>2, <1>3, <1>5 DEF RejectInv
<1>7. TypeOK'
    <2>1. out' \in Seq({"pong", "echo", "fail", "kick"})
        BY <1>1, <1>2, OutGrows
    <2>2. rejected' \in 0 .. MaxFrames
        BY <1>1, <1>2, CodecAssumption DEF Indexes
    <2> QED
        BY <1>1, <1>2, <2>1, <2>2 DEF TypeOK, stream, decoder
<1> QED
    BY <1>1, <1>6, <1>7, QuietStep

-----------------------------------------------------------------------------
(***************************************************************************)
(* The steps of decode that go on.                                         *)
(***************************************************************************)
\* The message that is open, wherever the decoder has it.
LEMMA OpenFacts ==
    ASSUME TypeOK, ShapeInv, BodyInv, AcceptsOnlyLegal
    PROVE  /\ OpenOp \in DataOps \/ OpenOp = None
           /\ OpenBody \in Seq(Indexes)
           /\ OpenOp = None => OpenBody = << >>
           /\ OpenOp # None =>
                 /\ OpenBody # << >>
                 /\ OpenBody[1] \in 1 .. consumed
                 /\ sent[OpenBody[1]].rsv \in {0, 4}
<1>1. OpenBody \in Seq(Indexes)
    BY DEF TypeOK, OpenBody
<1>2. OpenOp \in DataOps \/ OpenOp = None
    BY Opcodes DEF OpenOp
<1>3. OpenOp = None => OpenBody = << >>
    BY Opcodes DEF OpenOp, OpenBody
<1>4. ASSUME OpenOp # None
      PROVE  OpenBody # << >> /\ OpenBody[1] \in 1 .. consumed /\ sent[OpenBody[1]].rsv \in {0, 4}
    <2>1. OpenBody # << >>
        BY <1>4, OpenCases DEF OpenOp, OpenBody
    <2>2. Lists(OpenBody, Pending)
        BY DEF BodyInv
    <2>3. OpenBody[1] \in Pending
        BY <1>1, <2>1, <2>2 DEF Lists
    <2>4. OpenBody[1] \in 1 .. consumed
        BY <2>3 DEF Pending
    <2>5. sent[OpenBody[1]].op \in DataOps
        BY <1>2, <1>4 DEF BodyInv
    <2>6. sent[OpenBody[1]].op \notin ControlOps
        BY <2>5 DEF DataOps, ControlOps
    <2>7. Legal(OpenBody[1])
        BY <2>4, <2>6 DEF AcceptsOnlyLegal
    <2>8. sent[OpenBody[1]].rsv = 0 \/ sent[OpenBody[1]].rsv = 4
        BY <2>5, <2>7 DEF Legal
    <2> QED
        BY <2>1, <2>4, <2>8
<1> QED
    BY <1>1, <1>2, <1>3, <1>4

\* A control frame is on its way: the message it interrupts is put aside.
LEMMA PutAsideStep ==
    ASSUME CodecInv, PutAside
    PROVE  CodecInv'
<1>1. /\ TypeOK /\ ShapeInv /\ BodyInv /\ RsvInv /\ RejectInv /\ AcceptsOnlyLegal /\ MessageInv
    BY DEF CodecInv
<1>2. /\ consumed < Len(sent) /\ ~gone /\ stage > 0 /\ currOp \in DataOps /\ Header.op \in ControlOps
      /\ preOp' = currOp /\ preBody' = currBody /\ currOp' = None /\ currBody' = << >>
      /\ sent' = sent /\ consumed' = consumed /\ stage' = stage /\ upgraded' = upgraded
      /\ compress' = compress /\ messageRsv' = messageRsv /\ closed' = closed /\ gone' = gone
      /\ messages' = messages /\ out' = out /\ kick' = kick /\ rejected' = rejected
    BY DEF PutAside, Traffic, Interleaves, stream
<1>3. /\ preOp = None /\ currBody # << >> /\ currOp # None /\ currOp \notin ControlOps
    BY <1>1, <1>2, OpenCases, Opcodes
<1>4. TypeOK'
    BY <1>1, <1>2 DEF TypeOK
<1>5. ShapeInv'
    <2>1. Header' = Header
        BY <1>2 DEF Header
    <2>2. None \notin DataOps \cup ControlOps
        BY CodecAssumption DEF Ops
    <2> QED
        BY <1>1, <1>2, <1>3, <2>1, <2>2 DEF ShapeInv
<1>6. Pending' = Pending /\ Ends' = Ends
    BY <1>1, <1>2, StreamKept
<1>7. BodyInv'
    <2>1. OpenBody' = OpenBody /\ OpenOp' = OpenOp
        BY <1>2, <1>3 DEF OpenBody, OpenOp
    <2> QED
        BY <1>1, <1>2, <1>6, <2>1 DEF BodyInv, Lists
<1>8. RsvInv'
    BY <1>2, CodecAssumption DEF RsvInv, Ops
<1>9. RejectInv'
    BY <1>1, <1>2 DEF RejectInv
<1>10. AcceptsOnlyLegal'
    <2>1. \A i \in 1 .. consumed : Legal(i)' <=> Legal(i)
        BY <1>1, <1>2, Kept DEF TypeOK
    <2> QED
        BY <1>1, <1>2, <1>3, <2>1 DEF AcceptsOnlyLegal
<1>11. MessageInv'
    BY <1>1, <1>2, <1>6, MessagesKept
<1> QED
    BY <1>4, <1>5, <1>7, <1>8, <1>9, <1>10, <1>11 DEF CodecInv

\* A frame is consumed: it is legal, or a control frame that is held back.
LEMMA ConsumeKeeps ==
    ASSUME CodecInv, Complete, Consume, compress' = compress, rejected' = rejected,
           Header.fin \/ Header.op \notin ControlOps \/ currOp' = Header.op
    PROVE  RejectInv' /\ AcceptsOnlyLegal'
<1>1. /\ TypeOK /\ ShapeInv /\ BodyInv /\ RejectInv /\ AcceptsOnlyLegal
      /\ ~gone /\ consumed < Len(sent) /\ sent' = sent /\ consumed' = consumed + 1
    BY DEF CodecInv, Complete, Traffic, Consume
<1>2. consumed \in Nat /\ Header = sent[consumed + 1] /\ consumed + 1 \in 1 .. Len(sent)
    BY <1>1, NextFrame
<1>3. RejectInv'
    BY <1>1 DEF RejectInv
<1>4. currOp \notin ControlOps
    BY <1>1, ControlFrame, DataFrame
<1>5. \A i \in 1 .. consumed + 1 : Legal(i)' <=> Legal(i)
    BY <1>1, <1>2, Kept
<1>6. \A i \in 1 .. consumed : Legal(i)
    BY <1>1, <1>4 DEF AcceptsOnlyLegal
<1>7. Legal(consumed + 1) \/ (Header.op \in ControlOps /\ currOp' = Header.op)
    BY <1>1, ControlFrame, DataFrame
<1>8. ASSUME NEW i \in 1 .. consumed'
      PROVE  Legal(i)' \/ (i = consumed' /\ sent'[i].op \in ControlOps /\ currOp' = sent'[i].op)
    <2>1. CASE i \in 1 .. consumed
        BY <1>2, <1>5, <1>6, <2>1
    <2>2. CASE i = consumed + 1
        BY <1>1, <1>2, <1>5, <1>7, <2>2
    <2> QED
        BY <1>1, <1>2, <2>1, <2>2
<1> QED
    BY <1>3, <1>8 DEF AcceptsOnlyLegal

\* A frame of a message that is to go on, or of a control message.
LEMMA FragmentStep ==
    ASSUME CodecInv, Fragment
    PROVE  CodecInv'
<1>1. /\ TypeOK /\ ShapeInv /\ BodyInv /\ RsvInv /\ AcceptsOnlyLegal /\ MessageInv
    BY DEF CodecInv
<1>2. /\ Complete /\ consumed < Len(sent) /\ ~gone /\ ~Header.fin /\ Consume
      /\ currOp' = NewOp /\ currBody' = NewBody /\ messageRsv' = NewRsv
      /\ preOp' = NewPreOp /\ preBody' = NewPreBody
      /\ sent' = sent /\ consumed' = consumed + 1 /\ stage' = 0 /\ upgraded' = upgraded
      /\ compress' = compress /\ closed' = closed /\ gone' = gone
      /\ messages' = messages /\ out' = out /\ kick' = kick /\ rejected' = rejected
    BY DEF Fragment, Complete, Traffic, Consume
<1>3. /\ consumed \in Nat /\ consumed + 1 \in 1 .. Len(sent) /\ consumed + 1 \in Indexes
      /\ Header \in Frame /\ Header = sent[consumed + 1]
    BY <1>1, <1>2, NextFrame
<1>4. NewPreBody \in Seq(Indexes)
    BY <1>1 DEF NewPreBody, TypeOK
<1>5. CASE Header.op \in ControlOps
    <2>1. /\ NewOp = Header.op /\ NewBody = <<consumed + 1>> /\ NewRsv = 0
          /\ NewPreOp = OpenOp /\ (OpenOp # None => NewPreBody = OpenBody)
        BY <1>1, <1>2, <1>5, ControlFrame
    <2>2. /\ OpenOp \in DataOps \/ OpenOp = None
          /\ OpenOp = None => OpenBody = << >>
          /\ OpenOp # None => OpenBody # << >>
        BY <1>1, OpenFacts
    <2>3. /\ Pending' = Pending /\ Ends' = Ends
        BY <1>1, <1>2, <1>5, NextFrame, StreamConsumed
    <2>4. Header.op \notin DataOps /\ Header.op # None
        BY <1>3, <1>5, Kinds
    <2>5. TypeOK'
        <3>1. currOp' \in DataOps \cup ControlOps \cup {None}
            BY <1>2, <1>5, <2>1
        <3>2. currBody' \in Seq(Indexes)
            BY <1>2, <1>3, <2>1
        <3>3. preOp' \in DataOps \cup {None}
            BY <1>2, <2>1, <2>2
        <3> QED
            BY <1>1, <1>2, <1>3, <1>4, <2>1, <3>1, <3>2, <3>3 DEF TypeOK
    <2>6. ShapeInv'
        <3>1. currOp' \in ControlOps => consumed' >= 1 /\ sent'[consumed'].op = currOp' /\ ~sent'[consumed'].fin
            BY <1>2, <1>3, <2>1
        <3> QED
            BY <1>1, <1>2, <1>5, <2>1, <2>2, <2>4, <3>1 DEF ShapeInv
    <2>7. BodyInv'
        <3>1. OpenBody' = OpenBody /\ OpenOp' = OpenOp
            BY <1>2, <2>1, <2>2, <2>4 DEF OpenBody, OpenOp
        <3> QED
            BY <1>1, <1>2, <2>3, <3>1 DEF BodyInv, Lists
    <2>8. RsvInv'
        BY <1>2, <2>1, <2>4 DEF RsvInv
    <2>9. RejectInv' /\ AcceptsOnlyLegal'
        BY <1>2, <2>1, ConsumeKeeps
    <2>10. MessageInv'
        BY <1>1, <1>2, <2>3, MessagesKept
    <2> QED
        BY <2>5, <2>6, <2>7, <2>8, <2>9, <2>10 DEF CodecInv
<1>6. CASE Header.op \notin ControlOps
    <2>1. /\ NewPreOp = None /\ IsData(consumed + 1)
        BY <1>1, <1>2, <1>6, DataFrame
    <2>2. /\ NewBody \in Seq(Indexes) /\ NewBody # << >>
          /\ Lists(NewBody, MessageOf(consumed + 1))
          /\ NewBody[1] \in 1 .. consumed + 1
          /\ NewOp \in DataOps /\ sent[NewBody[1]].op = NewOp
          /\ NewRsv \in {0, 4}
        BY <1>1, <1>2, <1>6, NewMessage
    <2>3. \/ NewRsv = sent[NewBody[1]].rsv
          \/ /\ sent[NewBody[1]].rsv = 4
             /\ \E k \in 1 .. consumed : NewBody[1] < k /\ sent[k].op \in ControlOps
        BY <1>1, <1>2, <1>6, NewMessage
    <2>4. /\ Pending' = Pending \cup {consumed + 1} /\ Ends' = Ends
        BY <1>1, <1>2, <1>3, <2>1, StreamConsumed
    <2>5. Pending' = MessageOf(consumed + 1)
        BY <1>1, <1>2, <2>1, <2>4, MessageAt
    <2>6. NewOp # None /\ NewOp \notin ControlOps
        BY <2>2, CodecAssumption DEF DataOps, ControlOps, Ops
    <2>7. TypeOK'
        BY <1>1, <1>2, <1>3, <1>4, <2>1, <2>2 DEF TypeOK
    <2>8. ShapeInv'
        BY <1>1, <1>2, <2>1, <2>2, <2>6 DEF ShapeInv
    <2>9. BodyInv'
        <3>1. OpenBody' = NewBody /\ OpenOp' = NewOp
            BY <1>2, <2>1, <2>2 DEF OpenBody, OpenOp
        <3>2. Lists(OpenBody', Pending')
            BY <2>2, <2>5, <3>1
        <3>3. sent'[OpenBody'[1]].op = OpenOp'
            BY <1>2, <2>2, <3>1
        <3> QED
            BY <3>2, <3>3 DEF BodyInv, Lists
    <2>10. RsvInv'
        <3>1. \A k \in 1 .. consumed : k \in 1 .. consumed'
            BY <1>2, <1>3
        <3> QED
            BY <1>2, <2>3, <3>1 DEF RsvInv
    <2>11. RejectInv' /\ AcceptsOnlyLegal'
        BY <1>2, <1>6, ConsumeKeeps
    <2>12. MessageInv'
        BY <1>1, <1>2, <2>4, MessagesKept
    <2> QED
        BY <2>7, <2>8, <2>9, <2>10, <2>11, <2>12 DEF CodecInv
<1> QED
    BY <1>5, <1>6

\* The last frame of a message.
LEMMA MessageStep ==
    ASSUME CodecInv, Message
    PROVE  CodecInv'
<1>1. /\ TypeOK /\ ShapeInv /\ BodyInv /\ RsvInv /\ AcceptsOnlyLegal /\ MessageInv
    BY DEF CodecInv
<1>2. /\ Complete /\ consumed < Len(sent) /\ ~gone /\ Header.fin /\ NewOp \in DataOps /\ Consume
      /\ sent' = sent /\ consumed' = consumed + 1 /\ stage' = 0 /\ upgraded' = upgraded
      /\ compress' = compress /\ closed' = closed /\ gone' = gone
      /\ out' = out /\ kick' = kick /\ rejected' = rejected
    BY DEF Message, Complete, Traffic, Consume
<1>3. /\ consumed \in Nat /\ consumed + 1 \in 1 .. Len(sent) /\ consumed + 1 \in Indexes
      /\ Header \in Frame /\ Header = sent[consumed + 1]
    BY <1>1, <1>2, NextFrame
<1>4. Header.op \notin ControlOps
    BY <1>1, <1>2, ControlFrame
<1>5. /\ NewPreOp = None /\ IsData(consumed + 1)
    BY <1>1, <1>2, <1>4, DataFrame
<1>6. currOp' = None /\ currBody' = << >> /\ messageRsv' = 0 /\ preOp' = None /\ preBody' = << >>
    BY <1>5 DEF Message, ResetCurrMessage
<1>7. Pending' = {} /\ Ends' = Ends \cup {consumed + 1}
    BY <1>1, <1>2, <1>3, <1>5, StreamConsumed
<1>8. PICK b, op, z : b = NewBody /\ op = NewOp /\ z = Inflates
    OBVIOUS
<1> DEFINE m == [op |-> op, body |-> b, inflated |-> z]
           M == [op : DataOps, body : Seq(Indexes), inflated : BOOLEAN]
<1>9. messages' = Append(messages, m)
    BY <1>8 DEF Message
<1>10. /\ b \in Seq(Indexes) /\ b # << >> /\ b[Len(b)] = consumed + 1
       /\ Lists(b, MessageOf(consumed + 1)) /\ b[1] \in 1 .. consumed + 1
       /\ op \in DataOps /\ sent[b[1]].op = op
    BY <1>1, <1>2, <1>4, <1>8, NewMessage
<1>11. z \in BOOLEAN
    BY <1>8 DEF Inflates
<1>12. z = (sent[b[1]].rsv = 4) \/ CompressedAndInterrupted(consumed + 1)
    <2>1. (Inflates <=> sent[NewBody[1]].rsv = 4) \/ CompressedAndInterrupted(consumed + 1)
        BY <1>1, <1>2, <1>4, NewInflates
    <2> QED
        BY <1>8, <1>11, <2>1 DEF Inflates
<1>13. m \in M /\ m.body = b /\ m.op = op /\ m.inflated = z
    BY <1>10, <1>11
<1>14. Len(messages) \in Nat /\ messages \in Seq(M)
    BY <1>1 DEF TypeOK
<1> HIDE DEF m, M
<1>15. messages' \in Seq(M)
    BY <1>9, <1>13, <1>14
<1>16. PICK k, e : k = Len(messages) + 1 /\ e = consumed + 1
    OBVIOUS
<1>17. MessageOK(k, b, op, z)'
    <2>1. /\ MessageOf(e)' = MessageOf(e)
          /\ CompressedAndInterrupted(e)' <=> CompressedAndInterrupted(e)
        BY <1>1, <1>2, <1>3, <1>16, Kept
    <2>2. b[Len(b)] = e /\ e \in Ends'
        BY <1>7, <1>10, <1>16
    <2>3. {i \in Ends' : i <= e} = Ends'
        BY <1>1, <1>3, <1>7, <1>16, EndsFinite
    <2>4. Cardinality(Ends') = Cardinality(Ends) + 1
        <3>1. consumed + 1 \notin Ends
            BY <1>1, <1>3, EndsFinite
        <3> QED
            BY <1>1, <1>7, <3>1, EndsFinite, FS_AddElement
    <2>5. Cardinality({i \in Ends' : i <= e}) = k
        BY <1>1, <1>16, <2>3, <2>4 DEF MessageInv
    <2>6. Lists(b, MessageOf(e)')
        BY <1>10, <1>16, <2>1
    <2>7. op = sent'[b[1]].op
        BY <1>2, <1>10
    <2>8. z = (sent'[b[1]].rsv = 4) \/ CompressedAndInterrupted(e)'
        BY <1>2, <1>12, <1>16, <2>1, Zenon
    <2> QED
        BY <1>10, <2>2, <2>5, <2>6, <2>7, <2>8, Zenon DEF MessageOK
<1>18. MessageInv'
    BY <1>1, <1>2, <1>7, <1>9, <1>13, <1>16, <1>17, MessagesGrow DEF M
<1>19. TypeOK'
    BY <1>1, <1>2, <1>3, <1>6, <1>15 DEF TypeOK, M
<1>20. None \notin DataOps \cup ControlOps
    BY CodecAssumption DEF Ops
<1>21. ShapeInv'
    BY <1>1, <1>2, <1>6, <1>20 DEF ShapeInv
<1>22. BodyInv'
    <2>1. OpenBody' = << >> /\ OpenOp' = None
        BY <1>6, <1>20 DEF OpenBody, OpenOp
    <2> QED
        BY <1>7, <2>1 DEF BodyInv, Lists
<1>23. RsvInv'
    BY <1>6, <1>20 DEF RsvInv
<1>24. RejectInv' /\ AcceptsOnlyLegal'
    BY <1>2, <1>4, ConsumeKeeps
<1> QED
    BY <1>18, <1>19, <1>21, <1>22, <1>23, <1>24 DEF CodecInv

\* A ping or a pong: the message it interrupts, if any, is taken up again.
LEMMA ControlStep ==
    ASSUME CodecInv, Ping \/ Pong
    PROVE  CodecInv'
<1>1. /\ TypeOK /\ ShapeInv /\ BodyInv /\ RsvInv /\ AcceptsOnlyLegal /\ MessageInv
    BY DEF CodecInv
<1>2. /\ Complete /\ consumed < Len(sent) /\ ~gone /\ Header.fin /\ NewOp \in {"ping", "pong"} /\ Consume
      /\ sent' = sent /\ consumed' = consumed + 1 /\ stage' = 0 /\ upgraded' = upgraded
      /\ compress' = compress /\ closed' = closed /\ gone' = gone
      /\ messages' = messages /\ kick' = kick /\ rejected' = rejected
      /\ out' = out \/ out' = Append(out, "pong")
      /\ ResetCurrMessage
    BY DEF Ping, Pong, Complete, Traffic, Consume
<1>3. /\ consumed \in Nat /\ consumed + 1 \in 1 .. Len(sent) /\ consumed + 1 \in Indexes
      /\ Header \in Frame /\ Header = sent[consumed + 1]
    BY <1>1, <1>2, NextFrame
<1>4. Header.op \in ControlOps
    <2>1. NewOp \notin DataOps
        BY <1>2 DEF DataOps
    <2> QED
        BY <1>1, <1>2, <2>1, NewMessage
<1>5. NewPreOp = OpenOp /\ (OpenOp # None => NewPreBody = OpenBody) /\ NewRsv = 0
    BY <1>1, <1>2, <1>4, ControlFrame
<1>6. /\ OpenOp \in DataOps \/ OpenOp = None
      /\ OpenBody \in Seq(Indexes)
      /\ OpenOp = None => OpenBody = << >>
      /\ OpenOp # None => /\ OpenBody # << >> /\ OpenBody[1] \in 1 .. consumed
                          /\ sent[OpenBody[1]].rsv \in {0, 4}
    BY <1>1, OpenFacts
<1>7. currOp' = OpenOp /\ currBody' = OpenBody /\ messageRsv' = 0 /\ preOp' = None /\ preBody' = << >>
    BY <1>2, <1>5, <1>6 DEF ResetCurrMessage
<1>8. Pending' = Pending /\ Ends' = Ends
    BY <1>1, <1>2, <1>4, NextFrame, StreamConsumed
<1>9. None \notin DataOps \cup ControlOps /\ DataOps \cap ControlOps = {}
    BY CodecAssumption DEF Ops, DataOps, ControlOps
<1>10. TypeOK'
    <2>1. out' \in Seq({"pong", "echo", "fail", "kick"})
        <3>1. out \in Seq({"pong", "echo", "fail", "kick"})
            BY <1>1 DEF TypeOK
        <3> QED
            BY <1>1, <1>2, <3>1, OutGrows
    <2>2. currOp' \in DataOps \cup ControlOps \cup {None}
        BY <1>6, <1>7
    <2>3. preBody' \in Seq(Indexes) /\ currBody' \in Seq(Indexes)
        BY <1>6, <1>7
    <2> QED
        BY <1>1, <1>2, <1>3, <1>7, <2>1, <2>2, <2>3 DEF TypeOK
<1>11. ShapeInv'
    BY <1>1, <1>2, <1>6, <1>7, <1>9 DEF ShapeInv
<1>12. BodyInv'
    <2>1. OpenBody' = OpenBody /\ OpenOp' = OpenOp
        <3>1. OpenOp' = IF OpenOp \in DataOps THEN OpenOp ELSE None
            BY <1>7 DEF OpenOp
        <3>2. OpenBody' = IF OpenOp \in DataOps THEN OpenBody ELSE << >>
            BY <1>7 DEF OpenBody
        <3> QED
            BY <1>6, <1>9, <3>1, <3>2
    <2> QED
        BY <1>1, <1>2, <1>8, <2>1 DEF BodyInv, Lists
<1>13. RsvInv'
    <2>1. SUFFICES ASSUME OpenOp \in DataOps
          PROVE  \/ 0 = sent[OpenBody[1]].rsv
                 \/ /\ sent[OpenBody[1]].rsv = 4
                    /\ \E k \in 1 .. consumed + 1 : OpenBody[1] < k /\ sent[k].op \in ControlOps
        BY <1>2, <1>7 DEF RsvInv
    <2>2. OpenBody[1] \in 1 .. consumed /\ sent[OpenBody[1]].rsv \in {0, 4}
        BY <1>6, <1>9, <2>1
    <2>3. consumed + 1 \in 1 .. consumed + 1 /\ OpenBody[1] < consumed + 1
        BY <1>3, <2>2
    <2> QED
        BY <1>3, <1>4, <2>2, <2>3
<1>14. RejectInv' /\ AcceptsOnlyLegal'
    BY <1>2, ConsumeKeeps
<1>15. MessageInv'
    BY <1>1, <1>2, <1>8, MessagesKept
<1> QED
    BY <1>10, <1>11, <1>12, <1>13, <1>14, <1>15 DEF CodecInv

\* A close frame ends the connection; the decoder stays as it is.
LEMMA CloseFrameStep ==
    ASSUME CodecInv, CloseFrame
    PROVE  CodecInv'
<1>1. /\ TypeOK /\ ShapeInv /\ BodyInv /\ RsvInv /\ AcceptsOnlyLegal /\ MessageInv
    BY DEF CodecInv
<1>2. /\ Complete /\ consumed < Len(sent) /\ Header.fin /\ NewOp = "close" /\ Consume
      /\ sent' = sent /\ consumed' = consumed + 1 /\ stage' = 0 /\ upgraded' = upgraded
      /\ compress' = compress /\ closed' = TRUE /\ gone' = TRUE
      /\ messages' = messages /\ kick' = kick /\ rejected' = rejected
      /\ out' = out \/ out' = Append(out, "echo")
      /\ currOp' = currOp /\ currBody' = currBody /\ preOp' = preOp /\ preBody' = preBody
      /\ messageRsv' = messageRsv
    BY DEF CloseFrame, Complete, Traffic, Consume, decoder
<1>3. consumed \in Nat /\ consumed + 1 \in 1 .. Len(sent)
    BY <1>1, <1>2, NextFrame
<1>4. Header.op \in ControlOps
    <2>1. NewOp \notin DataOps
        BY <1>2 DEF DataOps
    <2> QED
        BY <1>1, <1>2, <2>1, NewMessage
<1>5. currOp \notin ControlOps
    BY <1>1, <1>2, <1>4, ControlFrame
<1>6. Pending' = Pending /\ Ends' = Ends
    BY <1>1, <1>2, <1>4, NextFrame, StreamConsumed
<1>7. TypeOK'
    <2>1. out' \in Seq({"pong", "echo", "fail", "kick"})
        <3>1. out \in Seq({"pong", "echo", "fail", "kick"})
            BY <1>1 DEF TypeOK
        <3> QED
            BY <1>1, <1>2, <3>1, OutGrows
    <2> QED
        BY <1>1, <1>2, <1>3, <2>1 DEF TypeOK
<1>8. ShapeInv'
    BY <1>1, <1>2, <1>5 DEF ShapeInv
<1>9. BodyInv'
    <2>1. OpenBody' = OpenBody /\ OpenOp' = OpenOp
        BY <1>2 DEF OpenBody, OpenOp
    <2> QED
        BY <1>1, <1>2, <1>6, <2>1 DEF BodyInv, Lists
<1>10. RsvInv'
    <2>1. \A k \in 1 .. consumed : k \in 1 .. consumed'
        BY <1>2, <1>3
    <2> QED
        BY <1>1, <1>2, <2>1 DEF RsvInv
<1>11. RejectInv' /\ AcceptsOnlyLegal'
    BY <1>2, ConsumeKeeps
<1>12. MessageInv'
    BY <1>1, <1>2, <1>6, MessagesKept
<1> QED
    BY <1>7, <1>8, <1>9, <1>10, <1>11, <1>12 DEF CodecInv

-----------------------------------------------------------------------------
(***************************************************************************)
(* The theorems.                                                           *)
(***************************************************************************)
LEMMA InitHolds ==
    ASSUME Init
    PROVE  CodecInv
<1>1. /\ sent = << >> /\ consumed = 0 /\ Len(sent) = 0
      /\ currOp = None /\ currBody = << >> /\ preOp = None /\ rejected = 0 /\ messages = << >>
    BY DEF Init
<1>2. None \notin DataOps \cup ControlOps
    BY CodecAssumption DEF Ops
<1>3. TypeOK
    <2>1. messages \in Seq([op : DataOps, body : Seq(Indexes), inflated : BOOLEAN])
        <3> DEFINE M == [op : DataOps, body : Seq(Indexes), inflated : BOOLEAN]
        <3> HIDE DEF M
        <3>1. << >> \in Seq(M)
            OBVIOUS
        <3> QED
            BY <1>1, <3>1 DEF M
    <2>2. sent \in Seq(Frames) /\ out \in Seq({"pong", "echo", "fail", "kick"})
        BY DEF Init
    <2>3. currBody \in Seq(Indexes) /\ preBody \in Seq(Indexes)
        BY DEF Init
    <2>4. /\ currOp \in DataOps \cup ControlOps \cup {None} /\ preOp \in DataOps \cup {None}
          /\ upgraded \in BOOLEAN /\ compress \in BOOLEAN /\ closed \in BOOLEAN /\ gone \in BOOLEAN
        BY DEF Init
    <2>5. /\ Len(sent) <= MaxFrames /\ consumed \in 0 .. Len(sent) /\ stage \in 0 .. 3
          /\ messageRsv \in {0, 4} /\ rejected \in 0 .. MaxFrames
          /\ kick \in {"idle", "write", "timer", "done"}
        BY <1>1, CodecAssumption DEF Init
    <2> QED
        BY <2>1, <2>2, <2>3, <2>4, <2>5 DEF TypeOK
<1>4. Pending = {} /\ Ends = {}
    BY <1>1 DEF Pending, Ends
<1>5. ShapeInv
    BY <1>1, <1>2 DEF ShapeInv
<1>6. BodyInv
    <2>1. OpenBody = << >> /\ OpenOp = None
        BY <1>1, <1>2 DEF OpenBody, OpenOp
    <2> QED
        BY <1>4, <2>1 DEF BodyInv, Lists
<1>7. RsvInv /\ RejectInv /\ AcceptsOnlyLegal
    BY <1>1, <1>2 DEF RsvInv, RejectInv, AcceptsOnlyLegal
<1>8. MessageInv
    BY <1>1, <1>4, FS_EmptySet DEF MessageInv
<1> QED
    BY <1>3, <1>5, <1>6, <1>7, <1>8 DEF CodecInv

LEMMA NextHolds ==
    ASSUME CodecInv, [Next]_vars
    PROVE  CodecInv'
<1>1. CASE UNCHANGED vars
    <2>1. TypeOK'
        BY <1>1 DEF CodecInv, TypeOK, vars, stream, decoder
    <2> QED
        BY <1>1, <2>1, QuietStep DEF vars
<1>2. CASE Upgrade \/ UpgradeRefuse \/ OpenRefuse \/ Disconnect \/ Kick \/ KickWrite \/ KickFail \/ KickTimer
    <2>1. TypeOK
        BY DEF CodecInv
    <2>2. /\ TypeOK'
          /\ UNCHANGED <<stream, decoder, messages, rejected>>
          /\ compress' = compress \/ ~upgraded
          /\ upgraded' = upgraded \/ upgraded' = TRUE
          /\ gone' = gone \/ gone' = TRUE
        BY <1>2, <2>1, QuietTypes
    <2> QED
        BY <2>2, QuietStep
<1>3. CASE (\E f \in Frames : Send(f)) \/ (\E n \in 1 .. 3 : Arrive(n))
    BY <1>3, ClientStep
<1>4. CASE OnTraffic
    BY <1>4, FailStep, PutAsideStep, FragmentStep, MessageStep, ControlStep, CloseFrameStep DEF OnTraffic
<1> QED
    BY <1>1, <1>2, <1>3, <1>4 DEF Next

\* The decoder's view of the stream and the stream agree in every state: which message is open,
\* its frames, whether it is compressed, and what was delivered and refused.
THEOREM CodecInvariant == Spec => []CodecInv
<1>1. Init => CodecInv
    BY InitHolds
<1>2. CodecInv /\ [Next]_vars => CodecInv'
    BY NextHolds
<1> QED
    BY <1>1, <1>2, PTL DEF Spec

\* The fields of the codec and what OnTraffic and WriteCloseFrame write keep their types.
THEOREM TypeCorrect == Spec => []TypeOK
<1>1. CodecInv => TypeOK
    BY DEF CodecInv
<1> QED
    BY <1>1, CodecInvariant, PTL

\* decode lets through nothing but legal frames, in streams of any length.
THEOREM AcceptsOnlyLegalTheorem == Spec => []AcceptsOnlyLegal
<1>1. CodecInv => AcceptsOnlyLegal
    BY DEF CodecInv
<1> QED
    BY <1>1, CodecInvariant, PTL

\* decode and OnTraffic refuse nothing that is legal, whatever the stages in which the frames
\* arrive, but for compressed messages that a control frame interrupts.
THEOREM RejectsOnlyIllegalTheorem == Spec => []RejectsOnlyIllegal
<1>1. CodecInv => RejectsOnlyIllegal
    BY DEF CodecInv, RejectInv, Refused, RejectsOnlyIllegal
<1> QED
    BY <1>1, CodecInvariant, PTL

\* OnWebsocketMessage gets every message of the stream once, in order, with exactly its frames,
\* and decompressed if it was compressed, with the same exception.
THEOREM ReassembledTheorem == Spec => []Reassembled
<1>1. ASSUME CodecInv PROVE Reassembled
    <2>1. TypeOK /\ MessageInv
        BY <1>1 DEF CodecInv
    <2>2. SUFFICES ASSUME NEW n \in 1 .. Len(messages), NEW b, b = messages[n].body
          PROVE  LET last == b[Len(b)] IN
                 /\ {b[k] : k \in 1 .. Len(b)} = MessageOf(last)
                 /\ \A k \in 1 .. Len(b) - 1 : b[k] < b[k + 1]
                 /\ Cardinality({i \in Ends : i <= last}) = n
                 /\ last \in Ends
                 /\ messages[n].op = sent[b[1]].op
                 /\ messages[n].inflated = (sent[b[1]].rsv = 4) \/ CompressedAndInterrupted(last)
        BY <2>1 DEF Reassembled, MessageInv
    <2>3. b \in Seq(Indexes)
        BY <2>1, <2>2, BodyType
    <2>4. MessageOK(n, b, messages[n].op, messages[n].inflated)
        BY <2>1, <2>2 DEF MessageInv
    <2>5. Len(b) \in Nat /\ Lists(b, MessageOf(b[Len(b)]))
        BY <2>3, <2>4 DEF MessageOK
    <2>6. \A k \in 1 .. Len(b) - 1 : b[k] < b[k + 1]
        BY <2>5 DEF Lists
    <2>7. {b[k] : k \in 1 .. Len(b)} = MessageOf(b[Len(b)])
        BY <2>5 DEF Lists
    <2> QED
        BY <2>4, <2>6, <2>7, Zenon DEF MessageOK
<1> QED
    BY <1>1, CodecInvariant, PTL

=============================================================================
