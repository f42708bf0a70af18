------------------------------ MODULE Delivery ------------------------------
(***************************************************************************)
(* From a command of the business to the wire of its customers.            *)
(*                                                                         *)
(* A task connection reads its commands one by one.  It runs the forced    *)
(* closes itself (forceOfflineGuest with a delay: the timer does), and the *)
(* commands that change the registry and tell the client; it hands casts   *)
(* (singlecast, publish, broadcast) to goroutines of a pool, where they    *)
(* run side by side.  Each of them takes Frames from a pool, encodes a     *)
(* message at most once per form (deflate or plain) and hands              *)
(* the bytes to the event loop of each connection; WriteCloseFrame raises  *)
(* the closed flag, sends a close frame and arms a timer.  The event loop  *)
(* writes what it is handed in order, and closes the connection when told  *)
(* to (which it may put behind later writes), when the client hangs up or  *)
(* when it has sent a close frame.                                         *)
(*                                                                         *)
(* Connections are registered when a behaviour starts and leave the        *)
(* indexes after OnClose.  How they get there, and what connInfoUpdate,    *)
(* topicDelete and their kind change in the indexes, is the subject of     *)
(* Registry: here Members stays as it is, and such a command is the data   *)
(* it sends along.                                                         *)
(* Messages are names; the bytes are left out.                             *)
(***************************************************************************)
EXTENDS Naturals, Sequences

CONSTANTS Conns,        \* customer connections
          Deflate,      \* those that negotiated permessage-deflate
          LoggedIn,     \* those with a session or a customerId
          Topics, Customers,
          Members,      \* topic or customerId -> the connections registered under it
          Tasks,        \* task connections of the business
          Frames,       \* the Frame objects
          Messages,     \* payloads
          Big,          \* those longer than compressingValue
          NoMsg, NoConn, NoFrame, All,
          Requests,     \* the commands the business may send
          MaxCommands,  \* bound: commands of a behaviour
          MaxFails      \* bound: failing calls of AsyncWrite and CompressTo

\* How the commands differ:
\*   pooled      a goroutine of the pool (or a timer) runs it
\*   closes      each connection is closed, after it was sent the message if there is one
\*   listedOnce  the connections are looked up once, before the first message
\*   perWrite    each write has a Frame of its own, else each message has
\*   givesUp     the first write that fails ends the command
\*   guests      connections that are logged in are passed over
singleCastBulk == [pooled |-> TRUE, closes |-> FALSE, listedOnce |-> FALSE,
                   perWrite |-> TRUE, givesUp |-> TRUE, guests |-> FALSE]

singleCastBulkByCustomerId == [pooled |-> TRUE, closes |-> FALSE, listedOnce |-> FALSE,
                               perWrite |-> FALSE, givesUp |-> FALSE, guests |-> FALSE]

topicPublishBulk == [pooled |-> TRUE, closes |-> FALSE, listedOnce |-> FALSE,
                     perWrite |-> FALSE, givesUp |-> FALSE, guests |-> FALSE]

broadcastBulk == [pooled |-> TRUE, closes |-> FALSE, listedOnce |-> TRUE,
                  perWrite |-> FALSE, givesUp |-> FALSE, guests |-> FALSE]

forceOffline == [pooled |-> FALSE, closes |-> TRUE, listedOnce |-> FALSE,
                 perWrite |-> FALSE, givesUp |-> FALSE, guests |-> FALSE]

forceOfflineByCustomerId == [pooled |-> FALSE, closes |-> TRUE, listedOnce |-> TRUE,
                             perWrite |-> FALSE, givesUp |-> FALSE, guests |-> FALSE]

\* With a delay the timer runs it.
forceOfflineGuest(delayed) == [pooled |-> delayed, closes |-> TRUE, listedOnce |-> FALSE,
                               perWrite |-> FALSE, givesUp |-> FALSE, guests |-> TRUE]

\* One connection, which is told if it is not closed.
connInfoUpdate == [pooled |-> FALSE, closes |-> FALSE, listedOnce |-> FALSE,
                   perWrite |-> TRUE, givesUp |-> FALSE, guests |-> FALSE]

connInfoDelete == connInfoUpdate
topicSubscribe == connInfoUpdate
topicUnsubscribe == connInfoUpdate

\* The connections that Topic.Del took out of the index.
topicDelete == [pooled |-> FALSE, closes |-> FALSE, listedOnce |-> TRUE,
                perWrite |-> FALSE, givesUp |-> FALSE, guests |-> FALSE]

\* The tables postNonBlockingCallback and postBlockingCallback of Process.
Callbacks == {singleCastBulk, singleCastBulkByCustomerId, topicPublishBulk, broadcastBulk,
              forceOffline, forceOfflineByCustomerId, connInfoUpdate, connInfoDelete,
              topicSubscribe, topicUnsubscribe, topicDelete}
             \cup {forceOfflineGuest(delayed) : delayed \in BOOLEAN}

\* A payload, flattened: its loops over items, data and targets visit one leg after the
\* other.  A leg without a message belongs to a forced close without data.  (A payload
\* without legs is done at once.)
Leg == [msg : Messages \cup {NoMsg}, to : Conns \cup Topics \cup Customers \cup {All}]

ASSUME ConstantsAssumption ==
    /\ Deflate \subseteq Conns /\ LoggedIn \subseteq Conns
    /\ Members \in [Topics \cup Customers -> SUBSET Conns]
    /\ Big \subseteq Messages
    /\ \A r \in Requests : r.op \in Callbacks /\ r.legs \in Seq(Leg) \ {<<>>}
    /\ MaxCommands \in Nat /\ MaxFails \in Nat
    /\ NoMsg \notin Messages /\ NoConn \notin Conns /\ NoFrame \notin Frames
    /\ Conns \cap (Topics \cup Customers) = {} /\ All \notin Conns \cup Topics \cup Customers

\* A cast sends a message with each leg, a forced close the same data or none with all of
\* them; what is looked up once is looked up by index.  connInfoUpdate and its kind have one
\* connection; the topics of a topicDelete are one target, for each connection is told once.
ASSUME RequestsAssumption ==
    \A r \in Requests : \A n \in DOMAIN r.legs :
        /\ r.op.closes => \A m \in DOMAIN r.legs : r.legs[m].msg = r.legs[n].msg
        /\ ~r.op.closes => r.legs[n].msg # NoMsg
        /\ r.op.listedOnce => r.legs[n].to \notin Conns
        /\ r.op \in {connInfoUpdate, topicDelete} => Len(r.legs) = 1

Cmds == 1..MaxCommands

VARIABLES
    count,     \* commands received so far; command k is the k-th
    req, by,   \* per command: what it is, the task connection it came from
    pc,        \* per command: the step of the goroutine that runs it
    leg,       \* per command: the leg it is at
    list,      \* per command: the connections found at its start (broadcast, forced by id)
    todo,      \* per command: connections of this leg still to be visited
    target,    \* per command: the connection it works on from "write" to "close"
    frame,     \* per command: the Frame it has
    failed,    \* per command: <<leg, connection>> pairs whose WriteTo returned false
    data, compressed, uncompressed,   \* per Frame: its fields
    closed,    \* per connection: the closed flag
    armed,     \* per connection: the 2 second timer of WriteCloseFrame
    queue,     \* per connection: the writes its event loop was handed and has not run
    ends,      \* per connection: how many writes came before each call of CloseOnSafe
    wire,      \* per connection: what was written to the client
    opened,    \* per connection: gnet has it
    listed,    \* the connections still in the indexes
    fails      \* failed calls so far

exec == <<count, req, by, leg, list>>
work == <<todo, target, frame, failed>>
frames == <<data, compressed, uncompressed>>
conn == <<closed, armed, queue, ends, wire, opened, listed>>
vars == <<exec, pc, work, frames, conn, fails>>

Steps == {"none", "start", "leg", "each", "write", "flag", "close", "done"}

\* What goes to the client: data with the command and the leg it comes from, a close
\* frame of the server, the echo of the client's close frame, the close frame that
\* answers a frame decode refuses.
Entry == [kind : {"data"}, msg : Messages, z : BOOLEAN, cmd : Cmds, leg : Nat]
         \cup [kind : {"close"}, cmd : Cmds] \cup [kind : {"echo", "error"}]

TypeOK ==
    /\ count \in 0..MaxCommands
    /\ req \in Seq(Requests) /\ Len(req) = count
    /\ by \in Seq(Tasks) /\ Len(by) = count
    /\ pc \in [Cmds -> Steps]
    /\ leg \in [Cmds -> Nat]
    /\ list \in [Cmds -> SUBSET Conns]
    /\ todo \in [Cmds -> SUBSET Conns]
    /\ target \in [Cmds -> Conns \cup {NoConn}]
    /\ frame \in [Cmds -> Frames \cup {NoFrame}]
    /\ failed \in [Cmds -> SUBSET (Nat \X Conns)]
    /\ data \in [Frames -> Messages \cup {NoMsg}]
    /\ compressed \in [Frames -> Messages \cup {NoMsg}]
    /\ uncompressed \in [Frames -> Messages \cup {NoMsg}]
    /\ closed \in [Conns -> BOOLEAN] /\ armed \in [Conns -> BOOLEAN]
    /\ queue \in [Conns -> Seq(Entry)] /\ wire \in [Conns -> Seq(Entry)]
    /\ ends \in [Conns -> SUBSET Nat]
    /\ opened \in [Conns -> BOOLEAN]
    /\ listed \subseteq Conns
    /\ fails \in 0..MaxFails

Init ==
    /\ count = 0 /\ req = <<>> /\ by = <<>>
    /\ pc = [k \in Cmds |-> "none"]
    /\ leg = [k \in Cmds |-> 1]
    /\ list = [k \in Cmds |-> {}]
    /\ todo = [k \in Cmds |-> {}]
    /\ target = [k \in Cmds |-> NoConn]
    /\ frame = [k \in Cmds |-> NoFrame]
    /\ failed = [k \in Cmds |-> {}]
    /\ data = [f \in Frames |-> NoMsg]
    /\ compressed = [f \in Frames |-> NoMsg]
    /\ uncompressed = [f \in Frames |-> NoMsg]
    /\ closed = [c \in Conns |-> FALSE]
    /\ armed = [c \in Conns |-> FALSE]
    /\ queue = [c \in Conns |-> <<>>]
    /\ ends = [c \in Conns |-> {}]
    /\ wire = [c \in Conns |-> <<>>]
    /\ opened = [c \in Conns |-> TRUE]
    /\ listed = Conns
    /\ fails = 0

-----------------------------------------------------------------------------
(***************************************************************************)
(* Process: the task connections.                                          *)
(***************************************************************************)
\* Mutant: the task connection always reads on.
NeverBusy(t) == FALSE

\* The task connection runs a command itself, and reads no other.  (A pool that refuses a
\* command makes Process start a goroutine for it.)
Busy(t) == \E k \in 1..count : by[k] = t /\ ~req[k].op.pooled /\ pc[k] # "done"

Receive(t, r) ==
    /\ count < MaxCommands
    /\ ~Busy(t)
    /\ count' = count + 1
    /\ req' = Append(req, r)
    /\ by' = Append(by, t)
    /\ pc' = [pc EXCEPT ![count + 1] = "start"]
    /\ UNCHANGED <<leg, list, work, frames, conn, fails>>

-----------------------------------------------------------------------------
(***************************************************************************)
(* The commands.                                                           *)
(***************************************************************************)
Legs(k) == req[k].legs
Here(k) == Legs(k)[leg[k]]
Op(k) == req[k].op

\* The indexes.
Get(c) == listed \cap {c}
GetConnections == listed
GetConnListByTopic(p) == listed \cap Members[p]
GetConnListByCustomerId(x) == listed \cap Members[x]

Found(to) ==
    IF to = All THEN GetConnections
    ELSE IF to \in Topics THEN GetConnListByTopic(to)
    ELSE IF to \in Customers THEN GetConnListByCustomerId(to)
    ELSE Get(to)

Targets(k) == {Legs(k)[n].to : n \in DOMAIN Legs(k)}

\* A broadcast to nobody is over.
Start(k) ==
    /\ pc[k] = "start"
    /\ list' = [list EXCEPT ![k] = IF Op(k).listedOnce THEN UNION {Found(x) : x \in Targets(k)} ELSE {}]
    /\ pc' = [pc EXCEPT ![k] = IF Op(k) = broadcastBulk /\ list'[k] = {} THEN "done" ELSE "leg"]
    /\ UNCHANGED <<count, req, by, leg, work, frames, conn, fails>>

\* The connections of this leg.
Lookup(k) ==
    todo' = [todo EXCEPT ![k] =
                IF Op(k).listedOnce THEN {c \in list[k] : Here(k).to = All \/ c \in Members[Here(k).to]}
                ELSE Found(Here(k).to) \ (IF Op(k).guests THEN LoggedIn ELSE {})]

\* FrameObjPool.Get: some Frame nobody has.  Only data is set: what the Frame caches was
\* cleared when it was put back.
GetFrame(k, f) ==
    /\ pc[k] = "leg"
    /\ frame[k] = NoFrame
    /\ Here(k).msg # NoMsg
    /\ \A j \in Cmds : frame[j] # f
    /\ frame' = [frame EXCEPT ![k] = f]
    /\ data' = [data EXCEPT ![f] = Here(k).msg]
    /\ Lookup(k)
    /\ pc' = [pc EXCEPT ![k] = "each"]
    /\ UNCHANGED <<exec, target, failed, compressed, uncompressed, conn, fails>>

\* The Frame of the last leg is still the right one, or there is no data to send.
KeepFrame(k) ==
    /\ pc[k] = "leg"
    /\ frame[k] # NoFrame \/ Here(k).msg = NoMsg
    /\ Lookup(k)
    /\ pc' = [pc EXCEPT ![k] = "each"]
    /\ UNCHANGED <<exec, target, frame, failed, frames, conn, fails>>

\* Mutant: the caches stay.
ResetData(f) ==
    /\ data' = [data EXCEPT ![f] = NoMsg]
    /\ UNCHANGED <<compressed, uncompressed>>

\* Frame.reset
Reset(f) ==
    /\ data' = [data EXCEPT ![f] = NoMsg]
    /\ compressed' = [compressed EXCEPT ![f] = NoMsg]
    /\ uncompressed' = [uncompressed EXCEPT ![f] = NoMsg]

\* FrameObjPool.Put
PutFrame(k) ==
    /\ frame' = [frame EXCEPT ![k] = NoFrame]
    /\ IF frame[k] # NoFrame THEN Reset(frame[k]) ELSE UNCHANGED frames

\* The same message goes on to the next target in the same Frame; WriteMessage takes one
\* for each write.
SameFrame(k) ==
    /\ ~Op(k).perWrite
    /\ leg[k] < Len(Legs(k))
    /\ Legs(k)[leg[k] + 1].msg = Here(k).msg

NextLeg(k) ==
    /\ pc[k] = "each"
    /\ todo[k] = {}
    /\ leg' = [leg EXCEPT ![k] = @ + 1]
    /\ pc' = [pc EXCEPT ![k] = IF leg[k] < Len(Legs(k)) THEN "leg" ELSE "done"]
    /\ IF SameFrame(k) THEN UNCHANGED <<frame, frames>> ELSE PutFrame(k)
    /\ UNCHANGED <<count, req, by, list, todo, target, failed, conn, fails>>

-----------------------------------------------------------------------------
(***************************************************************************)
(* Frame.WriteTo.  It returned TRUE, or FALSE.                             *)
(***************************************************************************)
\* A forced close goes on to WriteCloseFrame whatever it returned.
Written(k, c) ==
    /\ pc' = [pc EXCEPT ![k] = IF Op(k).closes THEN "flag" ELSE "each"]
    /\ target' = [target EXCEPT ![k] = IF Op(k).closes THEN c ELSE NoConn]

\* Mutant: publish and broadcast give up as singleCastBulk does.
GiveUpAlways(k) == ~Op(k).closes

GivesUp(k) == Op(k).givesUp

WriteFailed(k, c) ==
    /\ failed' = [failed EXCEPT ![k] = @ \cup {<<leg[k], c>>}]
    /\ IF GivesUp(k)
       THEN /\ pc' = [pc EXCEPT ![k] = "done"]
            /\ target' = [target EXCEPT ![k] = NoConn]
            /\ todo' = [todo EXCEPT ![k] = {}]
            /\ PutFrame(k)
       ELSE /\ Written(k, c)
            /\ todo' = [todo EXCEPT ![k] = @ \ {c}]
            /\ UNCHANGED <<frame, frames>>

\* A forced close without data goes straight to WriteCloseFrame.
Visit(k, c) ==
    /\ pc[k] = "each"
    /\ c \in todo[k]
    /\ frame[k] = NoFrame
    /\ todo' = [todo EXCEPT ![k] = @ \ {c}]
    /\ target' = [target EXCEPT ![k] = c]
    /\ pc' = [pc EXCEPT ![k] = "flag"]
    /\ UNCHANGED <<exec, frame, failed, frames, conn, fails>>

\* Mutant: WriteTo does not look at the flag.
LookNot(c) == FALSE

\* conn.IsClosedOnSafe()
IsClosed(c) == closed[c]

LookOpen(k, c) ==
    /\ pc[k] = "each"
    /\ c \in todo[k]
    /\ frame[k] # NoFrame
    /\ ~IsClosed(c)
    /\ todo' = [todo EXCEPT ![k] = @ \ {c}]
    /\ target' = [target EXCEPT ![k] = c]
    /\ pc' = [pc EXCEPT ![k] = "write"]
    /\ UNCHANGED <<exec, frame, failed, frames, conn, fails>>

LookClosed(k, c) ==
    /\ pc[k] = "each"
    /\ c \in todo[k]
    /\ frame[k] # NoFrame
    /\ IsClosed(c)
    /\ WriteFailed(k, c)
    /\ UNCHANGED <<exec, conn, fails>>

\* The form the connection gets the message in.
Deflated(k) == target[k] \in Deflate /\ data[frame[k]] \in Big

\* What the Frame has encoded in that form.
Cached(k) == IF Deflated(k) THEN compressed[frame[k]] ELSE uncompressed[frame[k]]

\* Encode, unless it was done for an earlier connection.
Encode(k) ==
    IF Cached(k) # NoMsg
    THEN UNCHANGED <<compressed, uncompressed>>
    ELSE IF Deflated(k)
         THEN /\ compressed' = [compressed EXCEPT ![frame[k]] = data[frame[k]]]
              /\ UNCHANGED uncompressed
         ELSE /\ uncompressed' = [uncompressed EXCEPT ![frame[k]] = data[frame[k]]]
              /\ UNCHANGED compressed

Encoded(k) ==
    [kind |-> "data", msg |-> IF Cached(k) # NoMsg THEN Cached(k) ELSE data[frame[k]],
     z |-> Deflated(k), cmd |-> k, leg |-> leg[k]]

\* AsyncWrite and Close of gnet: tasks for the event loop.  On a connection that is closed
\* they do nothing when their turn comes.
Hand(c, es) == queue' = [queue EXCEPT ![c] = IF opened[c] THEN @ \o es ELSE @]

CloseOnSafe(c) ==
    ends' = [ends EXCEPT ![c] = IF opened[c] THEN @ \cup {Len(wire[c]) + Len(queue'[c])} ELSE @]

Write(k) ==
    /\ pc[k] = "write"
    /\ Encode(k)
    /\ Hand(target[k], <<Encoded(k)>>)
    /\ Written(k, target[k])
    /\ UNCHANGED <<exec, todo, frame, failed, data, closed, armed, ends, wire, opened, listed, fails>>

\* Mutant: a write that failed is tried again.
WriteAgain(k) ==
    /\ pc[k] = "write"
    /\ fails < MaxFails
    /\ fails' = fails + 1
    /\ Encode(k)
    /\ Hand(target[k], <<Encoded(k)>>)
    /\ UNCHANGED <<exec, pc, work, data, closed, armed, ends, wire, opened, listed>>

\* AsyncWrite hands the bytes over, but cannot wake the event loop and returns an error.
WriteError(k) ==
    /\ pc[k] = "write"
    /\ fails < MaxFails
    /\ fails' = fails + 1
    /\ Hand(target[k], <<Encoded(k)>>)
    /\ failed' = [failed EXCEPT ![k] = @ \cup {<<leg[k], target[k]>>}]
    /\ IF GivesUp(k)
       THEN /\ pc' = [pc EXCEPT ![k] = "done"]
            /\ target' = [target EXCEPT ![k] = NoConn]
            /\ todo' = [todo EXCEPT ![k] = {}]
            /\ PutFrame(k)
       ELSE /\ Written(k, target[k])
            /\ Encode(k)
            /\ UNCHANGED <<todo, frame, data>>
    /\ UNCHANGED <<exec, closed, armed, ends, wire, opened, listed>>

\* CompressTo fails: nothing is sent.
CompressError(k) ==
    /\ pc[k] = "write"
    /\ Deflated(k) /\ Cached(k) = NoMsg
    /\ fails < MaxFails
    /\ fails' = fails + 1
    /\ WriteFailed(k, target[k])
    /\ UNCHANGED <<exec, conn>>

-----------------------------------------------------------------------------
(***************************************************************************)
(* WriteCloseFrame.                                                        *)
(***************************************************************************)
\* Mutant: a close frame is sent all the same.
FlagIgnored(k) ==
    /\ pc[k] = "flag"
    /\ closed[target[k]]
    /\ pc' = [pc EXCEPT ![k] = "close"]
    /\ UNCHANGED <<exec, work, frames, conn, fails>>

\* WriteCloseFrame returns.
Closed(k) ==
    /\ pc' = [pc EXCEPT ![k] = "each"]
    /\ target' = [target EXCEPT ![k] = NoConn]

\* SetClosedFlagOnSafe: the flag was up already.
FlagLost(k) ==
    /\ pc[k] = "flag"
    /\ closed[target[k]]
    /\ Closed(k)
    /\ UNCHANGED <<exec, todo, frame, failed, frames, conn, fails>>

FlagWon(k) ==
    /\ pc[k] = "flag"
    /\ ~closed[target[k]]
    /\ closed' = [closed EXCEPT ![target[k]] = TRUE]
    /\ pc' = [pc EXCEPT ![k] = "close"]
    /\ UNCHANGED <<exec, work, frames, armed, queue, ends, wire, opened, listed, fails>>

SendClose(k) ==
    /\ pc[k] = "close"
    /\ Hand(target[k], <<[kind |-> "close", cmd |-> k]>>)
    /\ armed' = [armed EXCEPT ![target[k]] = opened[target[k]]]
    /\ Closed(k)
    /\ UNCHANGED <<exec, todo, frame, failed, frames, closed, ends, wire, opened, listed, fails>>

\* The close frame could not be handed over: CloseOnSafe at once.
SendCloseError(k) ==
    /\ pc[k] = "close"
    /\ fails < MaxFails
    /\ fails' = fails + 1
    /\ Hand(target[k], <<[kind |-> "close", cmd |-> k]>>)
    /\ CloseOnSafe(target[k])
    /\ Closed(k)
    /\ UNCHANGED <<exec, todo, frame, failed, frames, closed, armed, wire, opened, listed>>

\* The 2 second timer calls CloseOnSafe.
Timer(c) ==
    /\ armed[c]
    /\ armed' = [armed EXCEPT ![c] = FALSE]
    /\ UNCHANGED <<exec, pc, work, frames, closed, queue, wire, opened, listed, fails>>
    /\ CloseOnSafe(c)

-----------------------------------------------------------------------------
(***************************************************************************)
(* The event loop of a connection.                                         *)
(***************************************************************************)
\* OnClose: the flag is up from now on, whoever closes.  The tasks and the timer that are
\* left have no effect any more.
Close(c) ==
    /\ opened' = [opened EXCEPT ![c] = FALSE]
    /\ closed' = [closed EXCEPT ![c] = TRUE]
    /\ queue' = [queue EXCEPT ![c] = <<>>]
    /\ ends' = [ends EXCEPT ![c] = {}]
    /\ armed' = [armed EXCEPT ![c] = FALSE]

\* The next write.  They are run in order: they have the high priority.
Run(c) ==
    /\ queue[c] # <<>>
    /\ queue' = [queue EXCEPT ![c] = Tail(@)]
    /\ wire' = [wire EXCEPT ![c] = Append(@, Head(queue[c]))]
    /\ UNCHANGED <<exec, pc, work, frames, closed, armed, ends, opened, listed, fails>>

\* A call of CloseOnSafe takes effect.  The writes handed over before it have been run; a
\* loop with many tasks waiting runs later ones as well, for a close has the low priority.
End(c) ==
    /\ opened[c]
    /\ \E n \in ends[c] : n <= Len(wire[c])
    /\ Close(c)
    /\ UNCHANGED <<exec, pc, work, frames, wire, listed, fails>>

\* The connection breaks, or the client goes away.
Hangup(c) ==
    /\ opened[c]
    /\ Close(c)
    /\ UNCHANGED <<exec, pc, work, frames, wire, listed, fails>>

\* The client's close frame: it is echoed unless the flag is up, past the tasks that
\* wait, and the connection is closed.
ClientClose(c) ==
    /\ opened[c]
    /\ wire' = IF closed[c] THEN wire ELSE [wire EXCEPT ![c] = Append(@, [kind |-> "echo"])]
    /\ Close(c)
    /\ UNCHANGED <<exec, pc, work, frames, listed, fails>>

\* decode refuses a frame: a close frame, whether or not one was sent, and the end.
IllegalFrame(c) ==
    /\ opened[c]
    /\ wire' = [wire EXCEPT ![c] = Append(@, [kind |-> "error"])]
    /\ Close(c)
    /\ UNCHANGED <<exec, pc, work, frames, listed, fails>>

\* OnWebsocketClose takes the connection out of the indexes.
Unlist(c) ==
    /\ ~opened[c]
    /\ c \in listed
    /\ listed' = listed \ {c}
    /\ UNCHANGED <<exec, pc, work, frames, closed, armed, queue, ends, wire, opened, fails>>

-----------------------------------------------------------------------------
Command(k) ==
    \/ Start(k)
    \/ \E f \in Frames : GetFrame(k, f)
    \/ KeepFrame(k)
    \/ NextLeg(k)
    \/ \E c \in Conns : Visit(k, c) \/ LookOpen(k, c) \/ LookClosed(k, c)
    \/ Write(k)
    \/ WriteError(k)
    \/ CompressError(k)
    \/ FlagLost(k)
    \/ FlagWon(k)
    \/ SendClose(k)
    \/ SendCloseError(k)

Loop(c) == Run(c) \/ End(c) \/ Hangup(c) \/ ClientClose(c) \/ IllegalFrame(c) \/ Unlist(c)

Next ==
    \/ \E t \in Tasks, r \in Requests : Receive(t, r)
    \/ \E k \in Cmds : Command(k)
    \/ \E c \in Conns : Timer(c) \/ Loop(c)

Spec == Init /\ [][Next]_vars

-----------------------------------------------------------------------------
(***************************************************************************)
(* Properties.                                                             *)
(***************************************************************************)
\* What the client of c has been sent, or will be if the connection lasts.
Sent(c) == wire[c] \o queue[c]

\* Leg n of command k is meant for c.
Addresses(k, n, c) ==
    /\ n \in DOMAIN Legs(k)
    /\ LET y == Legs(k)[n].to IN y = All \/ y = c \/ (y \in DOMAIN Members /\ c \in Members[y])
    /\ Op(k).guests => c \notin LoggedIn

\* A client is sent only what a command has for it, in the form it negotiated: the bytes
\* a Frame keeps for the next connection never come from another message or another
\* form, whoever used the Frame before and whichever write or compression failed
\* (Frame.WriteTo, reset, FrameObjPool).
Intact ==
    \A c \in Conns : \A i \in DOMAIN Sent(c) :
        LET e == Sent(c)[i] IN
        e.kind = "data" =>
            /\ Addresses(e.cmd, e.leg, c)
            /\ e.msg = Legs(e.cmd)[e.leg].msg
            /\ e.z = (c \in Deflate /\ e.msg \in Big)

\* The messages of one command reach a client in the order of the command and none of
\* them twice, also when a write failed (the loops of the cast commands; AsyncWrite
\* keeps the order of its calls).
CastInOrder ==
    \A c \in Conns : \A i, j \in DOMAIN Sent(c) :
        /\ i < j
        /\ Sent(c)[i].kind = "data" /\ Sent(c)[j].kind = "data"
        /\ Sent(c)[i].cmd = Sent(c)[j].cmd
        => Sent(c)[i].leg < Sent(c)[j].leg

\* A command that is over has sent each of its messages to each connection it addresses
\* that is still open, unless that write failed.  Of singleCastBulk this is true
\* only if none failed: it stops at the first failure, also for the other connections.
Reached ==
    \A k \in 1..count : \A n \in DOMAIN Legs(k) : \A c \in Conns :
        /\ pc[k] = "done"
        /\ opened[c]
        /\ Addresses(k, n, c)
        /\ Legs(k)[n].msg # NoMsg
        => \/ \E i \in DOMAIN Sent(c) : Sent(c)[i].kind = "data" /\ Sent(c)[i].cmd = k /\ Sent(c)[i].leg = n
           \/ <<n, c>> \in failed[k]
           \/ Op(k) = singleCastBulk /\ failed[k] # {}

\* WriteTo looks at the flag before it hands its bytes over, so data may follow the close
\* frame; but no command sends more than one message late, and nothing follows the close
\* frame with which the event loop answers the client.
LateFrames ==
    \A c \in Conns : \A i, j \in DOMAIN wire[c] :
        i < j =>
            /\ wire[c][i].kind \notin {"echo", "error"}
            /\ wire[c][i].kind = "close" /\ wire[c][j].kind = "data" =>
                   \A m \in (j+1)..Len(wire[c]) :
                       wire[c][m].kind = "data" => wire[c][m].cmd # wire[c][j].cmd

\* A client gets one close frame, a close of the server or the echo of its own, whoever
\* wins the flag; a forced close that has a message sends the message first, unless a
\* write to this client failed (forceOffline, WriteCloseFrame, OnTraffic).  Only the
\* answer to an illegal frame may come on top of it.
Farewell ==
    \A c \in Conns :
        /\ \A i, j \in DOMAIN wire[c] :
               wire[c][i].kind \in {"close", "echo"} /\ wire[c][j].kind \in {"close", "echo"} => i = j
        /\ \A i \in DOMAIN wire[c] : wire[c][i].kind = "close" =>
               LET k == wire[c][i].cmd IN
               /\ \E n \in DOMAIN Legs(k) : Legs(k)[n].msg # NoMsg
               /\ \A n \in DOMAIN Legs(k) : <<n, c>> \notin failed[k]
               => \E j \in 1..(i-1) : wire[c][j].kind = "data" /\ wire[c][j].cmd = k

\* What a task connection sends after a forced close of c does not reach c any more, for
\* it runs the close itself before it reads on.  (What it sent before may be late, or
\* refused: casts run in the pool.)
OfflineIsFinal ==
    \A k1, k2 \in 1..count : \A c \in Conns :
        /\ k1 < k2 /\ by[k1] = by[k2]
        /\ Op(k1).closes /\ Op(k1) # forceOfflineGuest(TRUE)
        /\ \E n \in DOMAIN Legs(k1) : Addresses(k1, n, c)
        => \A i \in DOMAIN Sent(c) : Sent(c)[i].kind = "data" => Sent(c)[i].cmd # k2
=============================================================================
