------------------------------- MODULE Inbound -------------------------------
(***************************************************************************)
(* From the clients to the business, and the clock.                        *)
(*                                                                         *)
(* An event loop of gnet runs the handlers of its connections one at a     *)
(* time.  OnWebsocketOpen counts the connections of all loops, asks the    *)
(* limiter of OnOpen and submits the open task, which asks the callback,   *)
(* starts the heartbeat check and forwards OnOpen.  OnWebsocketMessage     *)
(* notes the time, asks the connection's own limiter and submits a job     *)
(* that drops the message or forwards it.  OnWebsocketClose submits the    *)
(* job that forwards OnClose.  Tasks and jobs run in any order.            *)
(*                                                                         *)
(* Time is in seconds, as the code has it (Unix()).  What the open task    *)
(* registers is the subject of Registry, what happens to the forwarded     *)
(* event that of Worker, RedisQueue and AmqpPublish.                       *)
(***************************************************************************)
EXTENDS Integers, Sequences, FiniteSets

CONSTANTS Conns,
          NumLoops,     \* event loops
          LoopOf,       \* connection -> its event loop
          Plans,        \* what the outside may do in one behaviour, see Plan
          MaxOnline,    \* Customer.MaxOnlineNum
          Interval,     \* Customer.HeartbeatInterval, a whole number of seconds
          Size,         \* Customer.LimitWindowSizeSeconds
          WindowMax,    \* Customer.LimitWindowMaxRequests
          ZeroMax,      \* Customer.LimitZeroWindowMaxRequests
          Burst,        \* Limit.OnOpen and Limit.OnMessage; 0: no limiter
          Width,        \* the clock of the heartbeat check wraps here: 2^32 in the code
          Late,         \* bound: how late a timer may run its callback
          Pause,        \* bound: how long the callback may be off the processor
          Epoch,        \* the time when a behaviour starts
          MaxMessages   \* bound: messages that are not heartbeats

Events == {"OnOpen", "OnMessage"}
Loops == 1..NumLoops
Kinds == {"beat", "text", "big"}
Answers == {"allow", "deny", "none"}     \* "none": there is no callback

\* Who connects and what the callback answers them (an empty set: they never come), what
\* their clients send, whether the process is told to end, the rates the business asks
\* for (0: leave it), and how long it lasts.
Plan == [answers : [Conns -> SUBSET Answers], inputs : [Conns -> SUBSET Kinds],
         quits : BOOLEAN, rates : SUBSET [Events -> Nat], until : Nat]

ASSUME ConstantsAssumption ==
    /\ IsFiniteSet(Conns)
    /\ NumLoops \in Nat \ {0}
    /\ LoopOf \in [Conns -> Loops]
    /\ \A p \in Plans :
          /\ p.answers \in [Conns -> SUBSET Answers]
          /\ p.inputs \in [Conns -> SUBSET Kinds]
          /\ p.quits \in BOOLEAN
          /\ \A r \in p.rates : r \in [Events -> Nat]
          /\ p.until \in Nat /\ Epoch <= p.until /\ p.until < Width
    /\ Burst \in [Events -> Nat]
    /\ {MaxOnline, Interval, Size, WindowMax, ZeroMax, Late, Pause, MaxMessages} \subseteq Nat
    /\ Width \in Nat
    /\ Epoch \in Nat /\ Epoch > Size
    /\ Late + Pause < Interval     \* a callback is over before the next one

VARIABLES
    plan,      \* the plan of this behaviour
    now,       \* the time
    quitting,  \* quit.Ctx is done
    rate,      \* event -> the limiter's rate
    tokens,    \* event -> the tokens in the limiter's bucket
    phase,     \* connection -> where it is
    counted,   \* connection -> loops OnlineNum has read
    sum,       \* connection -> what it has read there
    task,      \* connection -> the step of its open task
    why,       \* connection -> who raised the closed flag first; "open": nobody
    last,      \* connection -> lastActiveTime
    quiet,     \* connection -> its longest silence before last
    start,     \* connection -> limitWindowStart
    requests,  \* connection -> limitWindowRequests
    due,       \* connection -> when the heartbeat check is due
    since,     \* connection -> when the check was started
    check,     \* connection -> the step of the check
    seen,      \* connection -> what the check has read: lastActiveTime, and when
    leaving,   \* connections whose OnClose is to be forwarded
    msgs,      \* the messages so far: sender, kind, time, what Allow said
    fate       \* message -> what its job did

limits == <<quitting, rate, tokens>>
opening == <<phase, counted, sum, task>>
window == <<start, requests>>
beat == <<due, since, check, seen>>
messages == <<msgs, fate>>
vars == <<plan, now, limits, opening, why, last, quiet, window, beat, leaving, messages>>

Phases == {"none", "tcp", "counting", "up", "gone"}
Tasks == {"none", "queued", "asked", "allowed", "tell", "end"}
Reasons == {"open", "refused", "denied", "heartbeat", "tooBig", "client"}
Checks == {"off", "on", "loaded"}
Fates == {"job", "tooBig", "limited", "dropped", "forwarded"}

TypeOK ==
    /\ plan \in Plans
    /\ now \in Epoch..plan.until
    /\ quitting \in BOOLEAN
    /\ rate \in [Events -> Nat]
    /\ tokens \in [Events -> Nat]
    /\ phase \in [Conns -> Phases]
    /\ counted \in [Conns -> 0..NumLoops]
    /\ sum \in [Conns -> Nat]
    /\ task \in [Conns -> Tasks]
    /\ why \in [Conns -> Reasons]
    /\ last \in [Conns -> Nat] /\ quiet \in [Conns -> Nat]
    /\ start \in [Conns -> Nat] /\ requests \in [Conns -> Int]
    /\ due \in [Conns -> Nat] /\ since \in [Conns -> Nat]
    /\ check \in [Conns -> Checks]
    /\ seen \in [Conns -> [last : Nat, at : Nat]]
    /\ leaving \subseteq Conns
    /\ msgs \in Seq([conn : Conns, kind : Kinds, at : Nat, ok : BOOLEAN])
    /\ fate \in Seq(Fates) /\ Len(fate) = Len(msgs)

Init ==
    /\ plan \in Plans
    /\ now = Epoch
    /\ quitting = FALSE
    /\ rate = Burst /\ tokens = Burst
    /\ phase = [c \in Conns |-> "none"]
    /\ counted = [c \in Conns |-> 0] /\ sum = [c \in Conns |-> 0]
    /\ task = [c \in Conns |-> "none"]
    /\ why = [c \in Conns |-> "open"]
    /\ last = [c \in Conns |-> 0] /\ quiet = [c \in Conns |-> 0]
    /\ start = [c \in Conns |-> 0] /\ requests = [c \in Conns |-> 0]
    /\ due = [c \in Conns |-> 0] /\ since = [c \in Conns |-> 0]
    /\ check = [c \in Conns |-> "off"]
    /\ seen = [c \in Conns |-> [last |-> 0, at |-> 0]]
    /\ leaving = {}
    /\ msgs = <<>> /\ fate = <<>>

-----------------------------------------------------------------------------
(***************************************************************************)
(* The clock, and what is outside the program.                             *)
(***************************************************************************)
Lesser(a, b) == IF a < b THEN a ELSE b
Greater(a, b) == IF a > b THEN a ELSE b

\* golang.org/x/time/rate refills its buckets as time passes.  The timer wheel runs every
\* callback in a goroutine of its own: a heartbeat check is not
\* delayed by more than Late, nor stopped half-way for more than Pause, until the signal
\* that ends the process: it stops the timer, sooner or later.
Tick ==
    /\ now < plan.until
    /\ \A c \in Conns : check[c] = "on" /\ ~quitting => now < due[c] + Late
    /\ \A c \in Conns : check[c] = "loaded" => now < seen[c].at + Pause
    /\ now' = now + 1
    /\ tokens' = [e \in Events |-> Lesser(Burst[e], tokens[e] + rate[e])]
    /\ UNCHANGED <<plan, quitting, rate, opening, why, last, quiet, window, beat, leaving, messages>>

\* The signal that ends the process: quit.Ctx is done, and the timer stops.
Quit ==
    /\ plan.quits /\ ~quitting
    /\ quitting' = TRUE
    /\ UNCHANGED <<plan, now, rate, tokens, opening, why, last, quiet, window, beat, leaving, messages>>

\* Is there a token?  Without a limiter always.
Allows(e) == Burst[e] = 0 \/ tokens[e] > 0
Take(e) == tokens' = [tokens EXCEPT ![e] = IF Burst[e] = 0 THEN @ ELSE @ - 1]

\* The command limit: manager.Update.  SetLimit leaves the size of the bucket, and does
\* nothing where there is no limiter.
Limit(r) ==
    /\ rate' = [e \in Events |-> IF r[e] > 0 /\ Burst[e] > 0 THEN r[e] ELSE rate[e]]
    /\ UNCHANGED <<plan, now, quitting, tokens, opening, why, last, quiet, window, beat, leaving, messages>>

-----------------------------------------------------------------------------
(***************************************************************************)
(* The event loops.                                                        *)
(***************************************************************************)
LoopFree(c) == \A d \in Conns : LoopOf[d] = LoopOf[c] => phase[d] # "counting"

\* What a loop adds to CountConnections: those it has, upgraded or not.  (The engine
\* answers -1 once its loops have ended, when no handler runs any more.)
OnLoop(l) == {c \in Conns : LoopOf[c] = l /\ phase[c] \notin {"none", "gone"}}

\* SetClosedFlagOnSafe: the first reason counts.
Flag(c, reason) == why' = [why EXCEPT ![c] = IF @ = "open" THEN reason ELSE @]

\* A client connects; newInfo.
Connect(c) ==
    /\ phase[c] = "none" /\ plan.answers[c] # {}
    /\ LoopFree(c)
    /\ phase' = [phase EXCEPT ![c] = "tcp"]
    /\ last' = [last EXCEPT ![c] = now]
    /\ requests' = [requests EXCEPT ![c] = 0 - ZeroMax]
    /\ UNCHANGED <<plan, now, limits, counted, sum, task, why, quiet, start, beat, leaving, messages>>

\* gnet closes it and runs OnClose, which forwards the event if the connection was
\* upgraded.  The pool may refuse the job: it has a goroutine of its own then.
Gone(c, reason) ==
    /\ phase' = [phase EXCEPT ![c] = "gone"]
    /\ Flag(c, reason)
    /\ leaving' = leaving \cup {c}

\* OnWebsocketOpen returned an error: the flag, a close frame, the end.
Refuse(c) ==
    /\ Gone(c, "refused")
    /\ UNCHANGED <<tokens, task>>

\* The handshake is over; the process may be about to end.
Upgrade(c) ==
    /\ phase[c] = "tcp"
    /\ LoopFree(c)
    /\ \/ /\ quitting
          /\ Refuse(c)
       \/ /\ ~quitting
          /\ phase' = [phase EXCEPT ![c] = "counting"]
          /\ UNCHANGED <<tokens, task, why, leaving>>
    /\ UNCHANGED <<plan, now, quitting, rate, counted, sum, last, quiet, window, beat, messages>>

\* OnlineNum reads the counts of the loops one after the other.
Count(c) ==
    /\ phase[c] = "counting"
    /\ counted[c] < NumLoops
    /\ counted' = [counted EXCEPT ![c] = @ + 1]
    /\ sum' = [sum EXCEPT ![c] = @ + Cardinality(OnLoop(counted[c] + 1))]
    /\ UNCHANGED <<plan, now, limits, phase, task, why, last, quiet, window, beat, leaving, messages>>

\* Mutant: the connection itself is not counted.
OthersOver(n) == n - 1 > MaxOnline

Over(n) == n > MaxOnline

\* The limiter is asked only if there is room; a pool that refuses the open task costs
\* the token all the same.
Admit(c) ==
    /\ phase[c] = "counting"
    /\ counted[c] = NumLoops
    /\ \/ /\ Over(sum[c]) \/ ~Allows("OnOpen")
          /\ Refuse(c)
       \/ /\ ~Over(sum[c]) /\ Allows("OnOpen")
          /\ Take("OnOpen")
          /\ \/ /\ phase' = [phase EXCEPT ![c] = "up"]
                /\ task' = [task EXCEPT ![c] = "queued"]
                /\ UNCHANGED <<why, leaving>>
             \/ /\ Gone(c, "refused")
                /\ UNCHANGED task
    /\ UNCHANGED <<plan, now, quitting, rate, counted, sum, last, quiet, window, beat, messages>>

\* The client hangs up, or answers a close frame, or sends one; or the timer of
\* WriteCloseFrame is over.
Hangup(c) ==
    /\ phase[c] \in {"tcp", "up"}
    /\ LoopFree(c)
    /\ IF phase[c] = "up" THEN Gone(c, "client")
       ELSE phase' = [phase EXCEPT ![c] = "gone"] /\ UNCHANGED <<why, leaving>>
    /\ UNCHANGED <<plan, now, limits, counted, sum, task, last, quiet, window, beat, messages>>

\* UpdateLastActiveTimeOnSafe
Active(c) ==
    /\ last' = [last EXCEPT ![c] = now]
    /\ quiet' = [quiet EXCEPT ![c] = Greater(@, now - last[c])]

\* OnWebsocketPing, and OnWebsocketMessage with the heartbeat string.
Beat(c) ==
    /\ phase[c] = "up"
    /\ LoopFree(c)
    /\ "beat" \in plan.inputs[c]
    /\ Active(c)
    /\ UNCHANGED <<plan, now, limits, opening, why, window, beat, leaving, messages>>

\* Mutant: the window is not moved.
NewWindowOnly(c) == [start |-> start[c], requests |-> 0]

NewWindow(c) == [start |-> now, requests |-> 0]

\* info.Allow: the first ZeroMax messages are free; then WindowMax in each window.
Window(c) == IF now - start[c] > Size THEN NewWindow(c) ELSE [start |-> start[c], requests |-> requests[c]]

\* Mutant: a message that is refused counts as well, and starts the window anew.
AllowCounting(c) ==
    LET w == Window(c) IN
    IF requests[c] < 0
    THEN [ok |-> TRUE, start |-> start[c], requests |-> requests[c] + 1]
    ELSE [ok |-> w.requests < WindowMax, start |-> IF w.requests < WindowMax THEN w.start ELSE now,
          requests |-> w.requests + 1]

Allow(c) ==
    LET w == Window(c) IN
    IF requests[c] < 0
    THEN [ok |-> TRUE, start |-> start[c], requests |-> requests[c] + 1]
    ELSE [ok |-> w.requests < WindowMax, start |-> w.start,
          requests |-> IF w.requests < WindowMax THEN w.requests + 1 ELSE w.requests]

\* OnWebsocketMessage.  If the pool refuses the job it has a goroutine of its own.
Message(c, kind) ==
    /\ phase[c] = "up"
    /\ LoopFree(c)
    /\ kind \in plan.inputs[c] \ {"beat"}
    /\ Len(msgs) < MaxMessages
    /\ Active(c)
    /\ LET a == Allow(c) IN
       /\ start' = [start EXCEPT ![c] = a.start]
       /\ requests' = [requests EXCEPT ![c] = a.requests]
       /\ msgs' = Append(msgs, [conn |-> c, kind |-> kind, at |-> now, ok |-> a.ok])
    /\ fate' = Append(fate, "job")
    /\ UNCHANGED <<plan, now, limits, opening, why, beat, leaving>>

-----------------------------------------------------------------------------
(***************************************************************************)
(* Tasks and jobs.                                                         *)
(***************************************************************************)
IsClosed(c) == why[c] # "open"

\* The open task asks the callback, unless the connection is gone already.
OpenStart(c) ==
    /\ task[c] = "queued"
    /\ task' = [task EXCEPT ![c] = IF IsClosed(c) THEN "end" ELSE "asked"]
    /\ UNCHANGED <<plan, now, limits, phase, counted, sum, why, last, quiet, window, beat, leaving, messages>>

\* The answer comes when it comes, and the connection may be gone by then.  "deny" stands
\* for an error of the callback as well.  Without a callback nobody looks again.
OpenAnswer(c, answer) ==
    /\ task[c] = "asked"
    /\ answer \in plan.answers[c]
    /\ IF answer # "none" /\ (IsClosed(c) \/ answer = "deny")
       THEN /\ task' = [task EXCEPT ![c] = "end"]
            /\ Flag(c, "denied")
       ELSE /\ task' = [task EXCEPT ![c] = "allowed"]
            /\ UNCHANGED why
    /\ UNCHANGED <<plan, now, limits, phase, counted, sum, last, quiet, window, beat, leaving, messages>>

\* The connection is registered (Registry) and its check started.
OpenSchedule(c) ==
    /\ task[c] = "allowed"
    /\ task' = [task EXCEPT ![c] = "tell"]
    /\ check' = [check EXCEPT ![c] = "on"]
    /\ since' = [since EXCEPT ![c] = now]
    /\ due' = [due EXCEPT ![c] = now + Interval]
    /\ UNCHANGED <<plan, now, limits, phase, counted, sum, why, last, quiet, window, seen, leaving, messages>>

\* OnOpen is forwarded.
OpenTell(c) ==
    /\ task[c] = "tell"
    /\ task' = [task EXCEPT ![c] = "end"]
    /\ UNCHANGED <<plan, now, limits, phase, counted, sum, why, last, quiet, window, beat, leaving, messages>>

\* OnClose is forwarded.
CloseTell(c) ==
    /\ c \in leaving
    /\ leaving' = leaving \ {c}
    /\ UNCHANGED <<plan, now, limits, opening, why, last, quiet, window, beat, messages>>

\* The job of message m.  A message too big ends the connection.
JobTooBig(m) ==
    /\ fate[m] = "job"
    /\ msgs[m].kind = "big"
    /\ Flag(msgs[m].conn, "tooBig")
    /\ fate' = [fate EXCEPT ![m] = "tooBig"]
    /\ UNCHANGED <<plan, now, limits, opening, last, quiet, window, beat, leaving, msgs>>

JobLimited(m) ==
    /\ fate[m] = "job"
    /\ msgs[m].kind # "big" /\ ~msgs[m].ok
    /\ fate' = [fate EXCEPT ![m] = "limited"]
    /\ UNCHANGED <<plan, now, limits, opening, why, last, quiet, window, beat, leaving, msgs>>

JobDropped(m) ==
    /\ fate[m] = "job"
    /\ msgs[m].kind # "big" /\ msgs[m].ok
    /\ ~Allows("OnMessage")
    /\ fate' = [fate EXCEPT ![m] = "dropped"]
    /\ UNCHANGED <<plan, now, limits, opening, why, last, quiet, window, beat, leaving, msgs>>

JobForward(m) ==
    /\ fate[m] = "job"
    /\ msgs[m].kind # "big" /\ msgs[m].ok
    /\ Allows("OnMessage")
    /\ Take("OnMessage")
    /\ fate' = [fate EXCEPT ![m] = "forwarded"]
    /\ UNCHANGED <<plan, now, quitting, rate, opening, why, last, quiet, window, beat, leaving, msgs>>

-----------------------------------------------------------------------------
(***************************************************************************)
(* The heartbeat check: a callback of the timer every Interval.            *)
(***************************************************************************)
\* The connection is closed: the last call.
CheckStop(c) ==
    /\ check[c] = "on"
    /\ now >= due[c]
    /\ IsClosed(c)
    /\ check' = [check EXCEPT ![c] = "off"]
    /\ UNCHANGED <<plan, now, limits, opening, why, last, quiet, window, due, since, seen, leaving, messages>>

\* lastActiveTime is read first, ...
CheckLoad(c) ==
    /\ check[c] = "on"
    /\ now >= due[c]
    /\ ~IsClosed(c)
    /\ check' = [check EXCEPT ![c] = "loaded"]
    /\ seen' = [seen EXCEPT ![c] = [last |-> last[c], at |-> now]]
    /\ due' = [due EXCEPT ![c] = @ + Interval]
    /\ UNCHANGED <<plan, now, limits, opening, why, last, quiet, window, since, leaving, messages>>

\* Mutant: ... the clock was read before it.
SilenceClockFirst(c) == (seen[c].at - last[c]) % Width

\* ... the clock second; the difference is one of uint32.
Silence(c) == (now - seen[c].last) % Width

\* Mutant: the timer is stopped whatever the silence.
CheckJudgeOnce(c) ==
    /\ check[c] = "loaded"
    /\ check' = [check EXCEPT ![c] = "off"]
    /\ IF Silence(c) > Interval THEN Flag(c, "heartbeat") ELSE UNCHANGED why
    /\ UNCHANGED <<plan, now, limits, opening, last, quiet, window, due, since, seen, leaving, messages>>

\* Silent for longer than HeartbeatIntervalSecond, which is HeartbeatInterval without its
\* fraction of a second; the timer's period has it.  They are one Interval here.
CheckJudge(c) ==
    /\ check[c] = "loaded"
    /\ IF Silence(c) > Interval
       THEN /\ Flag(c, "heartbeat")
            /\ check' = [check EXCEPT ![c] = "off"]
       ELSE /\ check' = [check EXCEPT ![c] = "on"]
            /\ UNCHANGED why
    /\ UNCHANGED <<plan, now, limits, opening, last, quiet, window, due, since, seen, leaving, messages>>

-----------------------------------------------------------------------------
EventLoop(c) ==
    \/ Connect(c)
    \/ Upgrade(c)
    \/ Count(c)
    \/ Admit(c)
    \/ Hangup(c)
    \/ Beat(c)
    \/ \E kind \in Kinds : Message(c, kind)

Pool(c) ==
    \/ OpenStart(c)
    \/ \E answer \in Answers : OpenAnswer(c, answer)
    \/ OpenSchedule(c)
    \/ OpenTell(c)
    \/ CloseTell(c)

Job(m) == JobTooBig(m) \/ JobLimited(m) \/ JobDropped(m) \/ JobForward(m)

Timer(c) == CheckStop(c) \/ CheckLoad(c) \/ CheckJudge(c)

Next ==
    \/ Tick
    \/ Quit
    \/ \E r \in plan.rates : Limit(r)
    \/ \E c \in Conns : EventLoop(c) \/ Pool(c) \/ Timer(c)
    \/ \E m \in DOMAIN msgs : Job(m)

Spec == Init /\ [][Next]_vars

-----------------------------------------------------------------------------
(***************************************************************************)
(* Properties.                                                             *)
(***************************************************************************)
\* No more than MaxOnlineNum clients are let in, although the loops are counted one by
\* one while connections come and go on the others (OnlineNum in OnWebsocketOpen).
OnlineBound == Cardinality({c \in Conns : phase[c] = "up"}) <= MaxOnline

\* The messages of c, from the i-th to the j-th of all, that Allow let pass.
Passed(c, i, j) == {k \in i..j : msgs[k].conn = c /\ msgs[k].ok}

\* After the free messages, 2 * WindowMax + 1 messages in a row take more than a window:
\* a burst at the end of one and the start of the next is all a client can get.
WithinLimit ==
    \A c \in Conns : \A j \in DOMAIN msgs : \A i \in Passed(c, 1, j) :
        /\ Cardinality(Passed(c, 1, i - 1)) >= ZeroMax
        /\ Cardinality(Passed(c, i, j)) > 2 * WindowMax
        => msgs[j].at - msgs[i].at > Size

\* A message is refused only if the client has had WindowMax messages in the last Size
\* seconds (and its free ones): Allow never loses count of the window.
RefusedFairly ==
    \A n \in DOMAIN msgs : ~msgs[n].ok =>
        LET before == Passed(msgs[n].conn, 1, n - 1) IN
        /\ Cardinality(before) >= ZeroMax + WindowMax
        /\ Cardinality({i \in before : msgs[n].at - msgs[i].at <= Size}) >= WindowMax

\* A client that is never silent for Interval - Pause seconds is never closed by the
\* heartbeat check, although its message may come between the two reads of the check.
ActiveIsKept ==
    \A c \in Conns : why[c] = "heartbeat" =>
        Greater(quiet[c], now - last[c]) > Interval - Pause

\* Unless the process is told to end, a client that is let in and falls silent is closed
\* within two intervals, and within one of the start of the check.
SilentIsClosed ==
    \A c \in Conns : task[c] \in {"tell", "end"} /\ ~IsClosed(c) /\ ~quitting =>
        now <= Greater(last[c] + 2 * Interval, since[c] + Interval) + Late + Pause
=============================================================================
