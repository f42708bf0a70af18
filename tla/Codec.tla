------------------------------- MODULE Codec -------------------------------
(***************************************************************************)
(* One customer connection on the wire: the handshake, the decoder that    *)
(* puts the frames of the client together into messages, and the frames    *)
(* the server writes back (OnTraffic), while another goroutine may close   *)
(* the connection (WriteCloseFrame).                                       *)
(*                                                                         *)
(* A frame is what its header says and whether its payload is good; the    *)
(* bytes are left out.  A frame arrives in stages, because decode looks at *)
(* the buffer whenever bytes come in: stage 1 is two bytes, stage 2 the    *)
(* whole header, stage 3 the whole frame.                                  *)
(***************************************************************************)
EXTENDS Naturals, Sequences, FiniteSets

CONSTANTS Frames,      \* the frames a client may send
          MaxFrames,   \* bound: how many it sends
          None         \* opcode 255: no message

DataOps == {"text", "binary"}
ControlOps == {"ping", "pong", "close"}
Ops == DataOps \cup ControlOps \cup {"continuation", "reserved"}

\* rsv is 0, 4 (RSV1, compressed) or 1 (any other bits); good: the payload passes the checks
\* made on it (deflate stream, utf8, close code).  Of the length counts whether it is more
\* than 125 bytes, and in 8 bytes whether the most significant bit is set; a shorter one is
\* small enough for the arithmetic of decode (int(head.Length)+4 is not modelled).
Frame == [op : Ops, fin : BOOLEAN, rsv : {0, 1, 4}, masked : BOOLEAN,
          length : {"short", "long", "msb"}, good : BOOLEAN]

ASSUME CodecAssumption ==
    /\ Frames \subseteq Frame
    /\ MaxFrames \in Nat
    /\ None \notin Ops

VARIABLES
    upgraded, compress,      \* the flags of the codec
    sent,                    \* frames of the client, in order
    consumed, stage,         \* frames decoded, and how much of the next has arrived
    currOp, currBody,        \* currMessageOpCode, currMessagePayload (indexes into sent)
    preOp, preBody,          \* preMessageOpCode, preMessagePayload
    messageRsv,
    closed,                  \* the closed flag
    gone,                    \* gnet has closed the connection
    messages,                \* messages given to OnWebsocketMessage
    out,                     \* frames the server has written
    kick,                    \* the goroutine that runs WriteCloseFrame
    rejected                 \* history: the frame decode refused, 0 if none

stream == <<sent, consumed, stage>>
decoder == <<currOp, currBody, preOp, preBody, messageRsv>>
vars == <<upgraded, compress, stream, decoder, closed, gone, messages, out, kick, rejected>>

Indexes == 1 .. MaxFrames

TypeOK ==
    /\ upgraded \in BOOLEAN
    /\ compress \in BOOLEAN
    /\ sent \in Seq(Frames)
    /\ Len(sent) <= MaxFrames
    /\ consumed \in 0 .. Len(sent)
    /\ stage \in 0 .. 3
    /\ currOp \in DataOps \cup ControlOps \cup {None}
    /\ preOp \in DataOps \cup {None}
    /\ currBody \in Seq(Indexes)
    /\ preBody \in Seq(Indexes)
    /\ messageRsv \in {0, 4}
    /\ closed \in BOOLEAN
    /\ gone \in BOOLEAN
    /\ messages \in Seq([op : DataOps, body : Seq(Indexes), inflated : BOOLEAN])
    /\ out \in Seq({"pong", "echo", "fail", "kick"})
    /\ kick \in {"idle", "write", "timer", "done"}
    /\ rejected \in 0 .. MaxFrames

Init ==
    /\ upgraded = FALSE
    /\ compress = FALSE
    /\ sent = << >>
    /\ consumed = 0
    /\ stage = 0
    /\ currOp = None
    /\ currBody = << >>
    /\ preOp = None
    /\ preBody = << >>
    /\ messageRsv = 0
    /\ closed = FALSE
    /\ gone = FALSE
    /\ messages = << >>
    /\ out = << >>
    /\ kick = "idle"
    /\ rejected = 0

-----------------------------------------------------------------------------
(***************************************************************************)
(* The handshake.                                                          *)
(***************************************************************************)
\* upgrade answers 101, with compression if the client offers it, and OnWebsocketOpen
\* accepts.
Upgrade ==
    /\ ~upgraded
    /\ ~gone
    /\ upgraded' = TRUE
    /\ compress' \in BOOLEAN
    /\ UNCHANGED <<stream, decoder, closed, gone, messages, out, kick, rejected>>

\* upgrade answers something else (400, 405, 426, 200 without an Upgrade header, or what
\* OnUpgradeCheck says) and the connection is closed.
UpgradeRefuse ==
    /\ ~upgraded
    /\ ~gone
    /\ gone' = TRUE
    /\ compress' \in BOOLEAN
    /\ UNCHANGED <<upgraded, stream, decoder, closed, messages, out, kick, rejected>>

\* OnWebsocketOpen refuses: a close frame, and the connection is closed.
OpenRefuse ==
    /\ ~upgraded
    /\ ~gone
    /\ upgraded' = TRUE
    /\ compress' \in BOOLEAN
    /\ closed' = TRUE
    /\ out' = Append(out, "fail")
    /\ gone' = TRUE
    /\ UNCHANGED <<stream, decoder, messages, kick, rejected>>

-----------------------------------------------------------------------------
(***************************************************************************)
(* The client and the network.                                             *)
(***************************************************************************)
Send(f) ==
    /\ upgraded
    /\ ~gone
    /\ Len(sent) < MaxFrames
    /\ sent' = Append(sent, f)
    /\ UNCHANGED <<upgraded, compress, consumed, stage, decoder, closed, gone, messages, out, kick, rejected>>

Arrive(n) ==
    /\ ~gone
    /\ consumed < Len(sent)
    /\ stage < n
    /\ stage' = n
    /\ UNCHANGED <<upgraded, compress, sent, consumed, decoder, closed, gone, messages, out, kick, rejected>>

-----------------------------------------------------------------------------
(***************************************************************************)
(* decode and OnTraffic, one frame per step.                               *)
(***************************************************************************)
Traffic == ~gone /\ consumed < Len(sent) /\ stage > 0

Header == sent[consumed + 1]

\* A control frame between the fragments of a message: the message is put aside.
Interleaves == currOp \in DataOps /\ Header.op \in ControlOps

Op == IF Interleaves THEN None ELSE currOp

\* Mutant: a client that does not mask its frames is let through.
HeaderInvalidUnmasked ==
    \/ Header.op = "reserved"
    \/ Header.rsv # 0 /\ (~compress \/ Header.op \in ControlOps)
    \/ currOp \in ControlOps
    \/ currOp \in DataOps /\ Header.op \notin ControlOps /\ (Header.op # "continuation" \/ Header.rsv # 0)

\* What decode refuses as soon as it sees two bytes, ...
HeaderInvalid ==
    \/ Header.op = "reserved"
    \/ Header.rsv # 0 /\ (~compress \/ Header.op \in ControlOps)
    \/ currOp \in ControlOps
    \/ currOp \in DataOps /\ Header.op \notin ControlOps /\ (Header.op # "continuation" \/ Header.rsv # 0)
    \/ ~Header.masked

\* ... when it has the whole header, ...
LengthInvalid ==
    \/ Header.length = "msb"
    \/ Header.op \in ControlOps /\ Header.length # "short"

\* ... and the whole frame.
FirstInvalid ==
    /\ Op = None
    /\ \/ compress /\ Header.rsv \notin {0, 4}
       \/ Header.op = "continuation"

Invalid ==
    \/ HeaderInvalid
    \/ stage >= 2 /\ LengthInvalid
    \/ stage = 3 /\ FirstInvalid

\* OnTraffic on an error of decode: the flag, a close frame, and the connection is closed.
Fail ==
    /\ closed' = TRUE
    /\ out' = Append(out, "fail")
    /\ gone' = TRUE
    /\ rejected' = consumed + 1

Reject ==
    /\ Traffic
    /\ Invalid
    /\ Fail
    /\ UNCHANGED <<upgraded, compress, stream, decoder, messages, kick>>

\* The frame is not complete, but the message it interrupts is put aside already.
PutAside ==
    /\ Traffic
    /\ ~Invalid
    /\ stage < 3
    /\ Interleaves
    /\ preOp' = currOp
    /\ preBody' = currBody
    /\ currOp' = None
    /\ currBody' = << >>
    /\ UNCHANGED <<upgraded, compress, stream, messageRsv, closed, gone, messages, out, kick, rejected>>

\* Mutant: the fragments of the message put aside are not saved.
NewPreBodyLost == preBody

\* The state of the decoder once the frame is appended.
NewOp == IF Op = None THEN Header.op ELSE currOp
NewBody == Append(IF Interleaves THEN << >> ELSE currBody, consumed + 1)
NewRsv == IF Op = None THEN Header.rsv ELSE messageRsv
NewPreOp == IF Interleaves THEN currOp ELSE preOp
NewPreBody == IF Interleaves THEN currBody ELSE preBody

Complete == Traffic /\ ~Invalid /\ stage = 3

Consume ==
    /\ consumed' = consumed + 1
    /\ stage' = 0
    /\ UNCHANGED sent

Fragment ==
    /\ Complete
    /\ ~Header.fin
    /\ Consume
    /\ currOp' = NewOp
    /\ currBody' = NewBody
    /\ messageRsv' = NewRsv
    /\ preOp' = NewPreOp
    /\ preBody' = NewPreBody
    /\ UNCHANGED <<upgraded, compress, closed, gone, messages, out, kick, rejected>>

\* Mutant: the message put aside is forgotten.
ResetAll ==
    /\ currOp' = None
    /\ currBody' = << >>
    /\ messageRsv' = 0
    /\ preOp' = None
    /\ preBody' = << >>

\* resetCurrMessage: the message put aside is taken up again.
ResetCurrMessage ==
    /\ IF NewPreOp = None
       THEN /\ currOp' = None
            /\ currBody' = << >>
            /\ messageRsv' = 0
       ELSE /\ currOp' = NewPreOp
            /\ currBody' = NewPreBody
            /\ messageRsv' = NewRsv
    /\ preOp' = None
    /\ preBody' = << >>

\* The message is decompressed if the first frame said so, as messageRsv remembers it.
Inflates == compress /\ NewRsv = 4

Good(body) == \A i \in 1 .. Len(body) : sent[body[i]].good

\* The payload check may only fail on what it looks at: a deflate stream, a text.  A
\* deflate stream taken for a text may or may not pass for utf8.
MayPass ==
    \/ Good(NewBody)
    \/ NewOp = "binary" /\ ~Inflates
    \/ sent[NewBody[1]].rsv = 4 /\ ~Inflates

MayFail ==
    \/ NewOp \in DataOps /\ (NewOp = "text" \/ Inflates) /\ ~Good(NewBody)
    \/ NewOp = "text" /\ sent[NewBody[1]].rsv = 4 /\ ~Inflates

Message ==
    /\ Complete
    /\ Header.fin
    /\ NewOp \in DataOps
    /\ MayPass
    /\ Consume
    /\ messages' = Append(messages, [op |-> NewOp, body |-> NewBody, inflated |-> Inflates])
    /\ ResetCurrMessage
    /\ UNCHANGED <<upgraded, compress, closed, gone, out, kick, rejected>>

\* A message that fails the payload check, or a close frame with a bad code or reason.
Garbage ==
    /\ Complete
    /\ Header.fin
    /\ MayFail \/ (NewOp = "close" /\ ~Header.good)
    /\ Fail
    /\ UNCHANGED <<upgraded, compress, stream, decoder, messages, kick>>

Ping ==
    /\ Complete
    /\ Header.fin
    /\ NewOp = "ping"
    /\ Consume
    /\ out' = Append(out, "pong")
    /\ ResetCurrMessage
    /\ UNCHANGED <<upgraded, compress, closed, gone, messages, kick, rejected>>

Pong ==
    /\ Complete
    /\ Header.fin
    /\ NewOp = "pong"
    /\ Consume
    /\ ResetCurrMessage
    /\ UNCHANGED <<upgraded, compress, closed, gone, messages, out, kick, rejected>>

\* A close frame of the client is echoed, unless the server has sent one.
CloseFrame ==
    /\ Complete
    /\ Header.fin
    /\ NewOp = "close"
    /\ Header.good
    /\ Consume
    /\ closed' = TRUE
    /\ out' = IF closed THEN out ELSE Append(out, "echo")
    /\ gone' = TRUE
    /\ UNCHANGED <<upgraded, compress, decoder, messages, kick, rejected>>

\* The client or the network ends the connection: OnClose sets the flag of an upgraded
\* connection.
Disconnect ==
    /\ ~gone
    /\ gone' = TRUE
    /\ closed' = (closed \/ upgraded)
    /\ UNCHANGED <<upgraded, compress, stream, decoder, messages, out, kick, rejected>>

-----------------------------------------------------------------------------
(***************************************************************************)
(* WriteCloseFrame, by a goroutine of the server (kicked by the business,  *)
(* heartbeat timeout, open task): the flag, the frame, and 2 seconds later *)
(* the end; an end at once if the frame cannot be queued.                  *)
(***************************************************************************)
Kick ==
    /\ upgraded
    /\ kick = "idle"
    /\ ~closed
    /\ closed' = TRUE
    /\ kick' = "write"
    /\ UNCHANGED <<upgraded, compress, stream, decoder, gone, messages, out, rejected>>

KickWrite ==
    /\ kick = "write"
    /\ kick' = "timer"
    /\ out' = IF gone THEN out ELSE Append(out, "kick")
    /\ UNCHANGED <<upgraded, compress, stream, decoder, closed, gone, messages, rejected>>

\* The frame cannot be queued: CloseOnSafe.
KickFail ==
    /\ kick = "write"
    /\ kick' = "done"
    /\ gone' = TRUE
    /\ UNCHANGED <<upgraded, compress, stream, decoder, closed, messages, out, rejected>>

\* Mutant: no timer.
KickForget ==
    /\ kick = "timer"
    /\ kick' = "done"
    /\ UNCHANGED <<upgraded, compress, stream, decoder, closed, gone, messages, out, rejected>>

KickTimer ==
    /\ kick = "timer"
    /\ kick' = "done"
    /\ gone' = TRUE
    /\ UNCHANGED <<upgraded, compress, stream, decoder, closed, messages, out, rejected>>

-----------------------------------------------------------------------------
OnTraffic ==
    \/ Reject
    \/ PutAside
    \/ Fragment
    \/ Message
    \/ Garbage
    \/ Ping
    \/ Pong
    \/ CloseFrame

Next ==
    \/ Upgrade
    \/ UpgradeRefuse
    \/ OpenRefuse
    \/ \E f \in Frames : Send(f)
    \/ \E n \in 1 .. 3 : Arrive(n)
    \/ OnTraffic
    \/ Disconnect
    \/ Kick
    \/ KickWrite
    \/ KickFail
    \/ KickTimer

Spec == Init /\ [][Next]_vars

\* The server's goroutines and timers run; the client owes nothing.
Fairness == WF_vars(OnTraffic) /\ WF_vars(KickWrite \/ KickFail) /\ WF_vars(KickTimer)

FairSpec == Spec /\ Fairness

-----------------------------------------------------------------------------
(***************************************************************************)
(* The reference: which streams of frames are legal, and what they say.    *)
(***************************************************************************)
IsData(i) == sent[i].op \in DataOps \cup {"continuation"}

\* Data frames before i, and the last of them.
DataBefore(i) == {j \in 1 .. i - 1 : IsData(j)}

\* A message is open before frame i: the last data frame was not its end.
OpenBefore(i) ==
    \E j \in DataBefore(i) : ~sent[j].fin /\ \A k \in DataBefore(i) : k <= j

Legal(i) ==
    /\ sent[i].op # "reserved"
    /\ sent[i].masked
    /\ sent[i].length # "msb"
    /\ sent[i].op \in ControlOps => sent[i].fin /\ sent[i].length = "short" /\ sent[i].rsv = 0
    /\ sent[i].op \in DataOps => ~OpenBefore(i) /\ (sent[i].rsv = 0 \/ (compress /\ sent[i].rsv = 4))
    /\ sent[i].op = "continuation" => OpenBefore(i) /\ sent[i].rsv = 0

\* The frames of the message that the data frame i belongs to, up to i.
MessageOf(i) ==
    {j \in 1 .. i : IsData(j) /\ ~\E k \in j .. i - 1 : IsData(k) /\ sent[k].fin}

Interrupted(i) == \E j \in MessageOf(i), k \in 1 .. i : j < k /\ sent[k].op \in ControlOps

\* The payload of what frame i completes is as it should be.
GoodAt(i) ==
    IF IsData(i) THEN \A j \in MessageOf(i) : sent[j].good ELSE sent[i].good

(***************************************************************************)
(* The decoder lets through nothing but legal frames.  (A fragmented       *)
(* control frame is refused only at the frame after it; until then it is   *)
(* held back.)                                                             *)
(***************************************************************************)
AcceptsOnlyLegal ==
    \A i \in 1 .. consumed :
        Legal(i) \/ (i = consumed /\ sent[i].op \in ControlOps /\ currOp = sent[i].op)

(***************************************************************************)
(* It refuses nothing that is legal, whatever the stages in which the      *)
(* frames arrive, except where a control frame came between the fragments  *)
(* of a compressed message.                                                *)
(***************************************************************************)
CompressedAndInterrupted(i) ==
    Interrupted(i) /\ \E j \in MessageOf(i) : sent[j].rsv = 4

RejectsOnlyIllegal ==
    rejected # 0 =>
        \/ \E i \in 1 .. rejected : ~Legal(i)
        \/ ~GoodAt(rejected)
        \/ CompressedAndInterrupted(rejected)

(***************************************************************************)
(* Every message of the stream is delivered once, in order, with exactly   *)
(* its frames, and decompressed exactly if it was compressed (with the     *)
(* same exception).                                                        *)
(***************************************************************************)
Ends == {i \in 1 .. consumed : IsData(i) /\ sent[i].fin}

Reassembled ==
    /\ Len(messages) = Cardinality(Ends)
    /\ \A n \in 1 .. Len(messages) :
        LET b == messages[n].body
            last == b[Len(b)]
        IN  /\ {b[k] : k \in 1 .. Len(b)} = MessageOf(last)
            /\ \A k \in 1 .. Len(b) - 1 : b[k] < b[k + 1]
            /\ Cardinality({i \in Ends : i <= last}) = n
            /\ last \in Ends
            /\ messages[n].op = sent[b[1]].op
            /\ messages[n].inflated = (sent[b[1]].rsv = 4) \/ CompressedAndInterrupted(last)

\* A connection whose flag is set is closed in the end, even if the client never answers.
ClosedIsGone == closed ~> gone

-----------------------------------------------------------------------------
(***************************************************************************)
(* What the comments say and the code does not keep.                       *)
(***************************************************************************)
\* messageRsv need not be saved when a control frame comes in between (codec).
InterruptionIsHarmless ==
    /\ rejected # 0 => (\E i \in 1 .. rejected : ~Legal(i)) \/ ~GoodAt(rejected)
    /\ \A n \in 1 .. Len(messages) : messages[n].inflated = (sent[messages[n].body[1]].rsv = 4)
=============================================================================
