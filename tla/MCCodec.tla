------------------------------ MODULE MCCodec ------------------------------
(***************************************************************************)
(* Instances of Codec for TLC.                                             *)
(***************************************************************************)
EXTENDS Codec

F(op, fin, rsv) ==
    [op |-> op, fin |-> fin, rsv |-> rsv, masked |-> TRUE, length |-> "short", good |-> TRUE]

\* Well formed frames, whole and fragmented, compressed and not.
PlainFrames ==
    {F("text", TRUE, 0), F("text", FALSE, 4), F("binary", FALSE, 0), F("binary", FALSE, 4),
     F("continuation", FALSE, 0), F("continuation", TRUE, 0),
     F("ping", TRUE, 0), F("pong", TRUE, 0), F("close", TRUE, 0)}

\* With one frame for each way to be wrong.
AllFrames ==
    PlainFrames \cup
    {F("reserved", TRUE, 0), F("ping", FALSE, 0), F("ping", TRUE, 4), F("text", TRUE, 1),
     F("continuation", TRUE, 4),
     [F("text", FALSE, 0) EXCEPT !.masked = FALSE],
     [F("ping", TRUE, 0) EXCEPT !.length = "long"],
     [F("text", TRUE, 0) EXCEPT !.length = "msb"],
     [F("close", TRUE, 0) EXCEPT !.good = FALSE],
     [F("text", TRUE, 0) EXCEPT !.good = FALSE],
     [F("binary", TRUE, 4) EXCEPT !.good = FALSE]}
=============================================================================
