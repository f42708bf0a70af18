--------------------------- MODULE InboundProofs ---------------------------
(***************************************************************************)
(* Proofs about Inbound, for every set of connections, every number of     *)
(* event loops, every configuration of the limits and every plan: the      *)
(* limits hold and are fair, and the heartbeat check closes the silent and *)
(* only them.                                                              *)
(***************************************************************************)
EXTENDS Inbound, TLAPS, FiniteSetTheorems

\* Where a connection is: what it has not done yet, and what it was let in for.
PhaseInv ==
    \A c \in Conns :
        /\ phase[c] = "none" => why[c] = "open"
        /\ phase[c] \in {"none", "tcp", "counting"} => task[c] = "none"
        /\ phase[c] \in {"none", "tcp"} => counted[c] = 0
        /\ phase[c] = "up" => counted[c] = NumLoops /\ sum[c] <= MaxOnline
        /\ task[c] \in {"none", "queued", "asked", "allowed"} => check[c] = "off"
        /\ task[c] \in {"tell", "end"} /\ check[c] = "off" => why[c] # "open"

\* Messages come from connections that came, and are not of tomorrow.
MessageInv ==
    \A m \in DOMAIN msgs : phase[msgs[m].conn] # "none" /\ msgs[m].at <= now

\* What the heartbeat check has read may be old: a message since then has left its silence
\* in quiet.
SeenInv ==
    \A c \in Conns :
        /\ last[c] <= now
        /\ check[c] = "loaded" =>
              /\ seen[c].last <= last[c]
              /\ seen[c].last <= seen[c].at /\ seen[c].at <= now /\ now <= seen[c].at + Pause
              /\ last[c] = seen[c].last \/ quiet[c] >= seen[c].at - seen[c].last

\* When the check closes a silent connection, if it is not late.
Deadline(c) == Greater(last[c] + 2 * Interval, since[c] + Interval)

\* The check of an open connection is due before the deadline.
DueInv ==
    \A c \in Conns : why[c] = "open" =>
        /\ check[c] = "on" =>
              /\ due[c] <= Deadline(c)
              /\ ~quitting => now <= due[c] + Late
        /\ check[c] = "loaded" =>
              /\ due[c] - Interval <= Deadline(c)
              /\ due[c] - Interval <= seen[c].at
              /\ ~quitting => seen[c].at <= due[c] - Interval + Late

\* The connections a loop counts.
Alive == {c \in Conns : phase[c] \notin {"none", "gone"}}

\* Of any connections that are there together, one has counted all the others on the loops
\* it has read: the one that came last.
CountInv ==
    \A U \in SUBSET Alive : U # {} =>
        \E x \in U : Cardinality({d \in U : LoopOf[d] <= counted[x]}) <= sum[x]

\* The messages of c that passed, in a sequence q of messages.
PassedOf(q, c, i, j) == {k \in i .. j : q[k].conn = c /\ q[k].ok}

\* A message after the free ones.
Paid(q, c, i) == Cardinality(PassedOf(q, c, 1, i - 1)) >= ZeroMax

\* The window of connection c, with its start s and its count r: the count is that of the
\* messages since s, the window before it had at most WindowMax, and what is older is more
\* than Size away.
WindowOf(q, c, s, r) ==
    /\ r <= WindowMax
    /\ r < 0 => Cardinality(PassedOf(q, c, 1, Len(q))) = ZeroMax + r
    /\ r >= 0 =>
          /\ Cardinality(PassedOf(q, c, 1, Len(q))) >= ZeroMax + r
          /\ Cardinality({i \in PassedOf(q, c, 1, Len(q)) : s <= q[i].at}) >= r
    /\ \A i \in PassedOf(q, c, 1, Len(q)) : Paid(q, c, i) =>
          /\ r >= 0
          /\ q[i].at <= s + Size
          /\ \/ s <= q[i].at /\ Cardinality(PassedOf(q, c, i, Len(q))) <= r
             \/ q[i].at < s /\ Cardinality(PassedOf(q, c, i, Len(q))) <= WindowMax + r
             \/ s - q[i].at > Size

WindowInv ==
    \A c \in Conns :
        start[c] <= now /\ (phase[c] # "none" => WindowOf(msgs, c, start[c], requests[c]))

InboundInv ==
    /\ TypeOK
    /\ PhaseInv
    /\ MessageInv
    /\ SeenInv
    /\ DueInv
    /\ CountInv
    /\ WindowInv
    /\ WithinLimit
    /\ RefusedFairly
    /\ ActiveIsKept

-----------------------------------------------------------------------------
(***************************************************************************)
(* Constants, and types.                                                   *)
(***************************************************************************)
LEMMA Constants ==
    /\ NumLoops \in Nat /\ NumLoops >= 1
    /\ \A c \in Conns : LoopOf[c] \in 1 .. NumLoops
    /\ MaxOnline \in Nat /\ Interval \in Nat /\ Size \in Nat /\ WindowMax \in Nat /\ ZeroMax \in Nat
    /\ Late \in Nat /\ Pause \in Nat /\ MaxMessages \in Nat /\ Width \in Nat /\ Epoch \in Nat
    /\ Late + Pause < Interval
    /\ Burst \in [Events -> Nat]
    /\ \A p \in Plans : p.until \in Nat /\ Epoch <= p.until /\ p.until < Width
    /\ \A p \in Plans : \A r \in p.rates : r \in [Events -> Nat]
BY ConstantsAssumption DEF Loops

\* The clock of a behaviour does not reach the place where that of the check wraps.
LEMMA ClockType ==
    ASSUME TypeOK
    PROVE  now \in Nat /\ Epoch <= now /\ now < Width
<1>1. plan \in Plans /\ now \in Epoch .. plan.until
  BY DEF TypeOK
<1>2. plan.until \in Nat /\ plan.until < Width /\ Epoch \in Nat /\ Width \in Nat
  BY <1>1, Constants
<1> QED
  BY <1>1, <1>2

\* A loop counts finitely many.
LEMMA LoopCount ==
    ASSUME NEW l
    PROVE  IsFiniteSet(OnLoop(l)) /\ Cardinality(OnLoop(l)) \in Nat
<1>1. OnLoop(l) \subseteq Conns
  BY DEF OnLoop
<1> QED
  BY <1>1, ConstantsAssumption, FS_Subset, FS_CardinalityType

\* What a step does to the flag and to the bucket.
LEMMA FlagType ==
    ASSUME TypeOK, NEW c \in Conns, NEW r \in Reasons, Flag(c, r)
    PROVE  /\ why' \in [Conns -> Reasons]
           /\ \A d \in Conns : why[d] # "open" => why'[d] = why[d]
           /\ why'[c] = IF why[c] = "open" THEN r ELSE why[c]
           /\ \A d \in Conns : d # c => why'[d] = why[d]
BY DEF TypeOK, Flag

LEMMA TakeType ==
    ASSUME TypeOK, NEW e \in Events, Allows(e), Take(e)
    PROVE  tokens' \in [Events -> Nat]
<1>1. tokens \in [Events -> Nat] /\ Burst \in [Events -> Nat]
  BY Constants DEF TypeOK
<1>2. CASE Burst[e] = 0
  <2>1. tokens' = [tokens EXCEPT ![e] = tokens[e]]
    BY <1>2 DEF Take
  <2> QED
    BY <1>1, <2>1
<1>3. CASE Burst[e] # 0
  <2>1. tokens[e] - 1 \in Nat
    BY <1>1, <1>3 DEF Allows
  <2>2. tokens' = [tokens EXCEPT ![e] = tokens[e] - 1]
    BY <1>3 DEF Take
  <2> QED
    BY <1>1, <2>1, <2>2
<1> QED
  BY <1>2, <1>3

\* What Allow says: a free message, one more in the window, none, the first of a window,
\* or none although it is new, when the window has no room at all.
LEMMA AllowCases ==
    ASSUME TypeOK, NEW c \in Conns
    PROVE  /\ Allow(c).ok \in BOOLEAN /\ Allow(c).start \in Nat /\ Allow(c).requests \in Int
           /\ \/ /\ requests[c] < 0
                 /\ Allow(c) = [ok |-> TRUE, start |-> start[c], requests |-> requests[c] + 1]
              \/ /\ requests[c] >= 0 /\ now - start[c] <= Size /\ requests[c] < WindowMax
                 /\ Allow(c) = [ok |-> TRUE, start |-> start[c], requests |-> requests[c] + 1]
              \/ /\ requests[c] >= 0 /\ now - start[c] <= Size /\ requests[c] >= WindowMax
                 /\ Allow(c) = [ok |-> FALSE, start |-> start[c], requests |-> requests[c]]
              \/ /\ requests[c] >= 0 /\ now - start[c] > Size /\ 0 < WindowMax
                 /\ Allow(c) = [ok |-> TRUE, start |-> now, requests |-> 1]
              \/ /\ requests[c] >= 0 /\ now - start[c] > Size /\ 0 = WindowMax
                 /\ Allow(c) = [ok |-> FALSE, start |-> now, requests |-> 0]
<1>0. /\ requests[c] \in Int /\ start[c] \in Nat /\ now \in Nat /\ Size \in Nat /\ WindowMax \in Nat
  BY Constants DEF TypeOK
<1>1. CASE requests[c] < 0
  <2>1. Allow(c) = [ok |-> TRUE, start |-> start[c], requests |-> requests[c] + 1]
    BY <1>1 DEF Allow
  <2> QED
    BY <1>0, <1>1, <2>1
<1>2. CASE ~(requests[c] < 0) /\ now - start[c] > Size
  <2>1. Window(c) = [start |-> now, requests |-> 0]
    BY <1>2 DEF Window, NewWindow
  <2>2. Allow(c) = [ok |-> 0 < WindowMax, start |-> now,
                    requests |-> IF 0 < WindowMax THEN 0 + 1 ELSE 0]
    BY <1>2, <2>1 DEF Allow
  <2>3. CASE 0 < WindowMax
    <3>1. Allow(c) = [ok |-> TRUE, start |-> now, requests |-> 1]
      <4>1. (0 < WindowMax) = TRUE /\ (IF 0 < WindowMax THEN 0 + 1 ELSE 0) = 1
        BY <2>3
      <4> QED
        BY <2>2, <4>1, Zenon
    <3> QED
      BY <1>0, <1>2, <2>3, <3>1
  <2>4. CASE ~(0 < WindowMax)
    <3>1. Allow(c) = [ok |-> FALSE, start |-> now, requests |-> 0]
      <4>1. (0 < WindowMax) = FALSE /\ (IF 0 < WindowMax THEN 0 + 1 ELSE 0) = 0
        BY <2>4
      <4> QED
        BY <2>2, <4>1, Zenon
    <3>2. 0 = WindowMax
      BY <1>0, <2>4
    <3> QED
      BY <1>0, <1>2, <3>1, <3>2
  <2> QED
    BY <2>3, <2>4
<1>3. CASE ~(requests[c] < 0) /\ ~(now - start[c] > Size)
  <2>1. Window(c) = [start |-> start[c], requests |-> requests[c]]
    BY <1>3 DEF Window
  <2>2. Allow(c) = [ok |-> requests[c] < WindowMax, start |-> start[c],
                    requests |-> IF requests[c] < WindowMax THEN requests[c] + 1 ELSE requests[c]]
    BY <1>3, <2>1 DEF Allow
  <2>3. CASE requests[c] < WindowMax
    <3>1. Allow(c) = [ok |-> TRUE, start |-> start[c], requests |-> requests[c] + 1]
      BY <2>2, <2>3
    <3> QED
      BY <1>0, <1>3, <2>3, <3>1
  <2>4. CASE ~(requests[c] < WindowMax)
    <3>1. Allow(c) = [ok |-> FALSE, start |-> start[c], requests |-> requests[c]]
      <4>1. /\ (requests[c] < WindowMax) = FALSE
            /\ (IF requests[c] < WindowMax THEN requests[c] + 1 ELSE requests[c]) = requests[c]
        BY <2>4
      <4> QED
        BY <2>2, <4>1, Zenon
    <3> QED
      BY <1>0, <1>3, <2>4, <3>1
  <2> QED
    BY <2>3, <2>4
<1> QED
  BY <1>1, <1>2, <1>3

\* The steps that leave the clock, the messages and what Allow counts alone.
Quietly ==
    \/ Quit
    \/ \E r \in plan.rates : Limit(r)
    \/ \E c \in Conns :
        \/ Upgrade(c) \/ Count(c) \/ Admit(c) \/ Hangup(c)
        \/ Pool(c) \/ Timer(c)
    \/ \E m \in DOMAIN msgs : Job(m)
    \/ UNCHANGED vars

LEMMA StepKinds ==
    ASSUME [Next]_vars
    PROVE  \/ Quietly
           \/ Tick
           \/ \E c \in Conns : Connect(c) \/ Beat(c) \/ \E kind \in Kinds : Message(c, kind)
BY DEF Next, EventLoop, Quietly

LEMMA QuietlyLeaves ==
    ASSUME Quietly
    PROVE  UNCHANGED <<plan, now, last, quiet, start, requests, msgs>>
<1>1. ASSUME Quit \/ (\E r \in plan.rates : Limit(r)) \/ UNCHANGED vars
      PROVE  UNCHANGED <<plan, now, last, quiet, start, requests, msgs>>
  BY <1>1 DEF Quit, Limit, window, messages, vars
<1>2. ASSUME NEW c \in Conns, Upgrade(c) \/ Count(c) \/ Admit(c) \/ Hangup(c)
      PROVE  UNCHANGED <<plan, now, last, quiet, start, requests, msgs>>
  BY <1>2 DEF Upgrade, Count, Admit, Hangup, window, messages
<1>3. ASSUME NEW c \in Conns, Pool(c)
      PROVE  UNCHANGED <<plan, now, last, quiet, start, requests, msgs>>
  BY <1>3 DEF Pool, OpenStart, OpenAnswer, OpenSchedule, OpenTell, CloseTell, window, messages
<1>4. ASSUME NEW c \in Conns, Timer(c)
      PROVE  UNCHANGED <<plan, now, last, quiet, start, requests, msgs>>
  BY <1>4 DEF Timer, CheckStop, CheckLoad, CheckJudge, window, messages
<1>5. ASSUME NEW m \in DOMAIN msgs, Job(m)
      PROVE  UNCHANGED <<plan, now, last, quiet, start, requests, msgs>>
  BY <1>5 DEF Job, JobTooBig, JobLimited, JobDropped, JobForward, window
<1> QED
  BY <1>1, <1>2, <1>3, <1>4, <1>5 DEF Quietly

LEMMA MessageTypes ==
    ASSUME TypeOK
    PROVE  /\ Len(msgs) \in Nat /\ DOMAIN msgs = 1 .. Len(msgs)
           /\ \A m \in DOMAIN msgs :
                msgs[m].conn \in Conns /\ msgs[m].at \in Nat /\ msgs[m].ok \in BOOLEAN
<1> DEFINE M == [conn : Conns, kind : Kinds, at : Nat, ok : BOOLEAN]
<1>1. msgs \in Seq(M)
  BY DEF TypeOK
<1>2. \A x \in M : x.conn \in Conns /\ x.at \in Nat /\ x.ok \in BOOLEAN
  OBVIOUS
<1> HIDE DEF M
<1>3. Len(msgs) \in Nat /\ DOMAIN msgs = 1 .. Len(msgs) /\ \A m \in 1 .. Len(msgs) : msgs[m] \in M
  BY <1>1
<1> QED
  BY <1>2, <1>3

\* What a message adds.
LEMMA MessageFacts ==
    ASSUME TypeOK, NEW c \in Conns, NEW kind \in Kinds, Message(c, kind)
    PROVE  /\ start' = [start EXCEPT ![c] = Allow(c).start]
           /\ requests' = [requests EXCEPT ![c] = Allow(c).requests]
           /\ msgs' = Append(msgs, [conn |-> c, kind |-> kind, at |-> now, ok |-> Allow(c).ok])
           /\ fate' = Append(fate, "job")
           /\ Active(c)
           /\ phase[c] = "up"
           /\ UNCHANGED <<plan, now, quitting, rate, tokens, phase, counted, sum, task, why, due, since,
                          check, seen, leaving>>
BY DEF Message, limits, opening, beat

LEMMA TypeStep ==
    ASSUME TypeOK, [Next]_vars
    PROVE  TypeOK'
<1>0. /\ now \in Nat /\ Interval \in Nat /\ NumLoops \in Nat /\ ZeroMax \in Nat /\ plan \in Plans
      /\ plan.until \in Nat /\ Epoch \in Nat
  BY Constants DEF TypeOK
<1>1. ASSUME Tick
      PROVE  TypeOK'
  <2>1. now' \in Epoch .. plan.until /\ plan' = plan
    BY <1>0, <1>1 DEF Tick, TypeOK
  <2>2. tokens' \in [Events -> Nat]
    <3>1. \A e \in Events : Lesser(Burst[e], tokens[e] + rate[e]) \in Nat
      BY Constants DEF TypeOK, Lesser
    <3> QED
      BY <1>1, <3>1 DEF Tick
  <2> QED
    BY <1>1, <2>1, <2>2 DEF Tick, TypeOK, opening, window, beat, messages
<1>2. ASSUME Quit
      PROVE  TypeOK'
  BY <1>2 DEF Quit, TypeOK, opening, window, beat, messages
<1>3. ASSUME NEW r \in plan.rates, Limit(r)
      PROVE  TypeOK'
  <2>1. r \in [Events -> Nat]
    BY <1>0, Constants
  <2>2. rate' \in [Events -> Nat]
    BY <1>3, <2>1 DEF Limit, TypeOK
  <2> QED
    BY <1>3, <2>2 DEF Limit, TypeOK, opening, window, beat, messages
<1>4. ASSUME NEW c \in Conns, Connect(c)
      PROVE  TypeOK'
  <2>1. /\ phase' \in [Conns -> Phases] /\ last' \in [Conns -> Nat] /\ requests' \in [Conns -> Int]
    BY <1>0, <1>4, SMTT(30) DEF Connect, TypeOK, Phases
  <2> QED
    BY <1>4, <2>1 DEF Connect, TypeOK, limits, beat, messages
<1>5. ASSUME NEW c \in Conns, Gone(c, "refused") \/ Gone(c, "client")
      PROVE  phase' \in [Conns -> Phases] /\ why' \in [Conns -> Reasons] /\ leaving' \subseteq Conns
  <2>1. why' \in [Conns -> Reasons]
    BY <1>5, FlagType DEF Gone, Reasons
  <2> QED
    BY <1>5, <2>1 DEF Gone, TypeOK, Phases
<1>6. ASSUME NEW c \in Conns, Upgrade(c)
      PROVE  TypeOK'
  <2>1. phase' \in [Conns -> Phases] /\ why' \in [Conns -> Reasons] /\ leaving' \subseteq Conns
    <3>1. CASE Refuse(c)
      BY <1>5, <3>1 DEF Refuse
    <3>2. CASE ~Refuse(c)
      BY <1>6, <3>2 DEF Upgrade, TypeOK, Phases
    <3> QED
      BY <3>1, <3>2
  <2>2. UNCHANGED <<tokens, task>>
    BY <1>6 DEF Upgrade, Refuse
  <2> QED
    BY <1>6, <2>1, <2>2 DEF Upgrade, TypeOK, window, beat, messages
<1>7. ASSUME NEW c \in Conns, Count(c)
      PROVE  TypeOK'
  <2>1. /\ counted' \in [Conns -> 0 .. NumLoops] /\ sum' \in [Conns -> Nat]
    <3>1. Cardinality(OnLoop(counted[c] + 1)) \in Nat
      BY LoopCount
    <3>2. /\ counted[c] \in 0 .. NumLoops /\ sum[c] \in Nat
          /\ counted \in [Conns -> 0 .. NumLoops] /\ sum \in [Conns -> Nat]
      BY DEF TypeOK
    <3>3. /\ counted[c] < NumLoops /\ counted' = [counted EXCEPT ![c] = counted[c] + 1]
          /\ sum' = [sum EXCEPT ![c] = sum[c] + Cardinality(OnLoop(counted[c] + 1))]
      BY <1>7 DEF Count
    <3>4. counted[c] + 1 \in 0 .. NumLoops
      BY <1>0, <3>2, <3>3
    <3>5. sum[c] + Cardinality(OnLoop(counted[c] + 1)) \in Nat
      BY <3>1, <3>2
    <3> QED
      BY <3>2, <3>3, <3>4, <3>5
  <2> QED
    BY <1>7, <2>1 DEF Count, TypeOK, limits, window, beat, messages
<1>8. ASSUME NEW c \in Conns, Admit(c)
      PROVE  TypeOK'
  <2>1. CASE Refuse(c)
    <3>1. phase' \in [Conns -> Phases] /\ why' \in [Conns -> Reasons] /\ leaving' \subseteq Conns
      BY <1>5, <2>1 DEF Refuse
    <3> QED
      BY <1>8, <2>1, <3>1 DEF Admit, Refuse, TypeOK, window, beat, messages
  <2>2. CASE ~Refuse(c)
    <3>1. Allows("OnOpen") /\ Take("OnOpen")
      BY <1>8, <2>2 DEF Admit
    <3>2. tokens' \in [Events -> Nat]
      BY <3>1, TakeType DEF Events
    <3>3. CASE Gone(c, "refused") /\ UNCHANGED task
      <4>1. phase' \in [Conns -> Phases] /\ why' \in [Conns -> Reasons] /\ leaving' \subseteq Conns
        BY <1>5, <3>3
      <4> QED
        BY <1>8, <3>2, <3>3, <4>1 DEF Admit, TypeOK, window, beat, messages
    <3>4. CASE /\ phase' = [phase EXCEPT ![c] = "up"]
               /\ task' = [task EXCEPT ![c] = "queued"]
               /\ UNCHANGED <<why, leaving>>
      <4>1. phase' \in [Conns -> Phases] /\ task' \in [Conns -> Tasks]
        BY <3>4 DEF TypeOK, Phases, Tasks
      <4> QED
        BY <1>8, <3>2, <3>4, <4>1 DEF Admit, TypeOK, window, beat, messages
    <3> QED
      BY <1>8, <2>2, <3>3, <3>4 DEF Admit
  <2> QED
    BY <2>1, <2>2
<1>9. ASSUME NEW c \in Conns, Hangup(c)
      PROVE  TypeOK'
  <2>1. phase' \in [Conns -> Phases] /\ why' \in [Conns -> Reasons] /\ leaving' \subseteq Conns
    <3>1. CASE phase[c] = "up"
      BY <1>5, <1>9, <3>1 DEF Hangup
    <3>2. CASE phase[c] # "up"
      BY <1>9, <3>2 DEF Hangup, TypeOK, Phases
    <3> QED
      BY <3>1, <3>2
  <2> QED
    BY <1>9, <2>1 DEF Hangup, TypeOK, limits, window, beat, messages
<1>10. ASSUME NEW c \in Conns, Active(c)
       PROVE  last' \in [Conns -> Nat] /\ quiet' \in [Conns -> Nat]
  <2>1. Greater(quiet[c], now - last[c]) \in Nat
    BY <1>0 DEF TypeOK, Greater
  <2> QED
    BY <1>0, <1>10, <2>1 DEF Active, TypeOK
<1>11. ASSUME NEW c \in Conns, Beat(c)
       PROVE  TypeOK'
  BY <1>10, <1>11 DEF Beat, TypeOK, limits, opening, window, beat, messages
<1>12. ASSUME NEW c \in Conns, NEW kind \in Kinds, Message(c, kind)
       PROVE  TypeOK'
  <2> DEFINE M == [conn : Conns, kind : Kinds, at : Nat, ok : BOOLEAN]
             m == [conn |-> c, kind |-> kind, at |-> now, ok |-> Allow(c).ok]
  <2>1. m \in M
    BY <1>0, AllowCases
  <2>2. msgs' \in Seq(M) /\ Len(msgs') = Len(msgs) + 1
    <3> HIDE DEF m
    <3>1. msgs' = Append(msgs, m) /\ msgs \in Seq(M)
      BY <1>12, MessageFacts DEF m, TypeOK
    <3> HIDE DEF M
    <3> QED
      BY <2>1, <3>1
  <2>3. fate' \in Seq(Fates) /\ Len(fate') = Len(fate) + 1
    <3>1. fate' = Append(fate, "job") /\ fate \in Seq(Fates) /\ "job" \in Fates
      BY <1>12, MessageFacts DEF TypeOK, Fates
    <3> QED
      BY <3>1
  <2>4. start' \in [Conns -> Nat] /\ requests' \in [Conns -> Int]
    BY <1>12, MessageFacts, AllowCases, ZenonT(40) DEF TypeOK
  <2>5. last' \in [Conns -> Nat] /\ quiet' \in [Conns -> Nat]
    BY <1>10, <1>12, MessageFacts
  <2>6. Len(fate') = Len(msgs')
    BY <2>2, <2>3 DEF TypeOK
  <2>7. UNCHANGED <<plan, now, quitting, rate, tokens, phase, counted, sum, task, why, due, since,
                    check, seen, leaving>>
    BY <1>12, MessageFacts
  <2> QED
    BY <2>2, <2>3, <2>4, <2>5, <2>6, <2>7 DEF TypeOK
<1>13. ASSUME NEW c \in Conns, Pool(c)
       PROVE  TypeOK'
  <2>1. ASSUME NEW answer \in Answers, OpenAnswer(c, answer)
        PROVE  TypeOK'
    <3>1. task' \in [Conns -> Tasks]
      BY <2>1 DEF OpenAnswer, TypeOK, Tasks
    <3>2. why' \in [Conns -> Reasons]
      <4>1. why' = why \/ Flag(c, "denied")
        BY <2>1 DEF OpenAnswer
      <4> QED
        BY <4>1, FlagType DEF TypeOK, Reasons
    <3> QED
      BY <2>1, <3>1, <3>2 DEF OpenAnswer, TypeOK, limits, window, beat, messages
  <2>2. ASSUME OpenSchedule(c)
        PROVE  TypeOK'
    <3>1. task' \in [Conns -> Tasks] /\ check' \in [Conns -> Checks]
      BY <2>2 DEF OpenSchedule, TypeOK, Tasks, Checks
    <3>2. since' \in [Conns -> Nat] /\ due' \in [Conns -> Nat]
      BY <1>0, <2>2 DEF OpenSchedule, TypeOK
    <3> QED
      BY <2>2, <3>1, <3>2 DEF OpenSchedule, TypeOK, limits, window, messages
  <2>3. ASSUME OpenStart(c) \/ OpenTell(c)
        PROVE  TypeOK'
    <3>1. task' \in [Conns -> Tasks]
      BY <2>3 DEF OpenStart, OpenTell, TypeOK, Tasks
    <3> QED
      BY <2>3, <3>1 DEF OpenStart, OpenTell, TypeOK, limits, window, beat, messages
  <2>4. ASSUME CloseTell(c)
        PROVE  TypeOK'
    BY <2>4 DEF CloseTell, TypeOK, limits, opening, window, beat, messages
  <2> QED
    BY <1>13, <2>1, <2>2, <2>3, <2>4 DEF Pool
<1>14. ASSUME NEW c \in Conns, Timer(c)
       PROVE  TypeOK'
  <2>1. ASSUME CheckStop(c)
        PROVE  TypeOK'
    <3>1. check' \in [Conns -> Checks]
      BY <2>1 DEF CheckStop, TypeOK, Checks
    <3> QED
      BY <2>1, <3>1 DEF CheckStop, TypeOK, limits, opening, window, messages
  <2>2. ASSUME CheckLoad(c)
        PROVE  TypeOK'
    <3>1. check' \in [Conns -> Checks]
      BY <2>2 DEF CheckLoad, TypeOK, Checks
    <3>2. seen' \in [Conns -> [last : Nat, at : Nat]]
      BY <1>0, <2>2 DEF CheckLoad, TypeOK
    <3>3. due' \in [Conns -> Nat]
      BY <1>0, <2>2 DEF CheckLoad, TypeOK
    <3> QED
      BY <2>2, <3>1, <3>2, <3>3 DEF CheckLoad, TypeOK, limits, opening, window, messages
  <2>3. ASSUME CheckJudge(c)
        PROVE  TypeOK'
    <3>1. check' \in [Conns -> Checks]
      BY <2>3 DEF CheckJudge, TypeOK, Checks
    <3>2. why' \in [Conns -> Reasons]
      <4>1. why' = why \/ Flag(c, "heartbeat")
        BY <2>3 DEF CheckJudge
      <4> QED
        BY <4>1, FlagType DEF TypeOK, Reasons
    <3> QED
      BY <2>3, <3>1, <3>2 DEF CheckJudge, TypeOK, limits, opening, window, messages
  <2> QED
    BY <1>14, <2>1, <2>2, <2>3 DEF Timer
<1>15. ASSUME NEW m \in DOMAIN msgs, Job(m)
       PROVE  TypeOK'
  <2>0. /\ fate \in Seq(Fates) /\ Len(fate) = Len(msgs) /\ m \in 1 .. Len(fate)
        /\ msgs[m].conn \in Conns
    BY MessageTypes DEF TypeOK
  <2>1. ASSUME NEW f \in Fates, fate' = [fate EXCEPT ![m] = f]
        PROVE  fate' \in Seq(Fates) /\ Len(fate') = Len(fate)
    BY <2>0, <2>1
  <2>2. fate' \in Seq(Fates) /\ Len(fate') = Len(fate)
    BY <1>15, <2>1 DEF Job, JobTooBig, JobLimited, JobDropped, JobForward, Fates
  <2>3. tokens' \in [Events -> Nat]
    <3>1. CASE JobForward(m)
      BY <3>1, TakeType DEF JobForward, Events
    <3>2. CASE ~JobForward(m)
      BY <1>15, <3>2 DEF Job, JobTooBig, JobLimited, JobDropped, limits, TypeOK
    <3> QED
      BY <3>1, <3>2
  <2>4. why' \in [Conns -> Reasons]
    <3>1. CASE JobTooBig(m)
      BY <2>0, <3>1, FlagType DEF JobTooBig, Reasons
    <3>2. CASE ~JobTooBig(m)
      BY <1>15, <3>2 DEF Job, JobLimited, JobDropped, JobForward, TypeOK
    <3> QED
      BY <3>1, <3>2
  <2>5. UNCHANGED <<plan, now, quitting, rate, opening, last, quiet, window, beat, leaving, msgs>>
    BY <1>15 DEF Job, JobTooBig, JobLimited, JobDropped, JobForward, limits
  <2> QED
    BY <2>2, <2>3, <2>4, <2>5 DEF TypeOK, opening, window, beat
<1>16. ASSUME UNCHANGED vars
       PROVE  TypeOK'
  BY <1>16 DEF TypeOK, vars, limits, opening, window, beat, messages
<1> HIDE DEF TypeOK
<1> QED
  BY <1>1, <1>2, <1>3, <1>4, <1>6, <1>7, <1>8, <1>9, <1>11, <1>12, <1>13, <1>14, <1>15, <1>16
  DEF Next, EventLoop

LEMMA InitInv ==
    ASSUME Init
    PROVE  InboundInv
<1>1. TypeOK
  <2>1. /\ plan \in Plans /\ now \in Epoch .. plan.until /\ quitting \in BOOLEAN
        /\ rate \in [Events -> Nat] /\ tokens \in [Events -> Nat]
    <3>1. plan \in Plans /\ now = Epoch /\ quitting = FALSE /\ rate = Burst /\ tokens = Burst
      BY DEF Init
    <3>2. plan.until \in Nat /\ Epoch <= plan.until /\ Epoch \in Nat
      BY <3>1, Constants
    <3>3. now \in Epoch .. plan.until
      BY <3>1, <3>2
    <3>4. rate \in [Events -> Nat] /\ tokens \in [Events -> Nat]
      BY <3>1, Constants
    <3> QED
      BY <3>1, <3>3, <3>4
  <2>2. /\ phase \in [Conns -> Phases] /\ task \in [Conns -> Tasks] /\ why \in [Conns -> Reasons]
        /\ check \in [Conns -> Checks]
    BY DEF Init, Phases, Tasks, Reasons, Checks
  <2>3. /\ counted \in [Conns -> 0 .. NumLoops] /\ sum \in [Conns -> Nat]
        /\ last \in [Conns -> Nat] /\ quiet \in [Conns -> Nat]
        /\ start \in [Conns -> Nat] /\ requests \in [Conns -> Int]
        /\ due \in [Conns -> Nat] /\ since \in [Conns -> Nat]
    BY Constants DEF Init
  <2>4. seen \in [Conns -> [last : Nat, at : Nat]] /\ leaving \subseteq Conns
    BY DEF Init
  <2>5. /\ msgs \in Seq([conn : Conns, kind : Kinds, at : Nat, ok : BOOLEAN])
        /\ fate \in Seq(Fates) /\ Len(fate) = Len(msgs)
    BY DEF Init
  <2> QED
    BY <2>1, <2>2, <2>3, <2>4, <2>5 DEF TypeOK
<1>2. /\ \A c \in Conns : phase[c] = "none" /\ task[c] = "none" /\ why[c] = "open" /\ counted[c] = 0
                          /\ check[c] = "off" /\ last[c] = 0 /\ start[c] = 0
      /\ msgs = << >> /\ now \in Nat
  BY Constants DEF Init
<1>3. PhaseInv
  BY <1>2 DEF PhaseInv
<1>4. MessageInv /\ WithinLimit /\ RefusedFairly
  BY <1>2 DEF MessageInv, WithinLimit, RefusedFairly
<1>5. SeenInv
  BY <1>2 DEF SeenInv
<1>6. DueInv
  BY <1>2 DEF DueInv
<1>7. CountInv
  <2>1. Alive = {}
    BY <1>2 DEF Alive
  <2> QED
    BY <2>1 DEF CountInv
<1>8. WindowInv
  BY <1>2 DEF WindowInv
<1>9. ActiveIsKept
  BY <1>2 DEF ActiveIsKept
<1> QED
  BY <1>1, <1>3, <1>4, <1>5, <1>6, <1>7, <1>8, <1>9 DEF InboundInv

-----------------------------------------------------------------------------
(***************************************************************************)
(* Connections and their tasks.                                            *)
(***************************************************************************)
\* A connection that came is not "none" again.
LEMMA CameStays ==
    ASSUME TypeOK, [Next]_vars, NEW d \in Conns, phase'[d] = "none"
    PROVE  phase[d] = "none"
<1>0. phase \in [Conns -> Phases]
  BY DEF TypeOK
<1>1. ASSUME NEW c \in Conns, Connect(c) \/ Upgrade(c) \/ Admit(c) \/ Hangup(c)
      PROVE  phase[d] = "none"
  BY <1>0, <1>1 DEF Connect, Upgrade, Admit, Hangup, Refuse, Gone
<1>2. ASSUME NEW c \in Conns, Count(c) \/ Beat(c) \/ (\E kind \in Kinds : Message(c, kind)) \/ Pool(c) \/ Timer(c)
      PROVE  phase' = phase
  BY <1>2 DEF Count, Beat, Message, Pool, OpenStart, OpenAnswer, OpenSchedule, OpenTell, CloseTell,
              Timer, CheckStop, CheckLoad, CheckJudge, opening
<1>3. ASSUME Tick \/ Quit \/ (\E r \in plan.rates : Limit(r)) \/ (\E m \in DOMAIN msgs : Job(m)) \/ UNCHANGED vars
      PROVE  phase' = phase
  BY <1>3 DEF Tick, Quit, Limit, Job, JobTooBig, JobLimited, JobDropped, JobForward, opening, vars
<1> QED
  BY <1>1, <1>2, <1>3 DEF Next, EventLoop

LEMMA MessageStep ==
    ASSUME InboundInv, [Next]_vars
    PROVE  MessageInv'
<1>t. TypeOK /\ MessageInv
  BY DEF InboundInv
<1>0. TypeOK /\ TypeOK' /\ MessageInv /\ now \in Nat
  BY <1>t, TypeStep, ClockType
<1>1. now' \in Nat /\ now' >= now
  <2>1. now' = now \/ now' = now + 1
    BY QuietlyLeaves, StepKinds DEF Tick, Connect, Beat, Message
  <2> QED
    BY <1>0, <2>1
<1>2. ASSUME msgs' = msgs
      PROVE  MessageInv'
  <2>1. ASSUME NEW m \in DOMAIN msgs
        PROVE  phase'[msgs[m].conn] # "none" /\ msgs[m].at <= now'
    <3>1. msgs[m].conn \in Conns /\ msgs[m].at \in Nat
      BY <1>0, MessageTypes
    <3>2. phase[msgs[m].conn] # "none" /\ msgs[m].at <= now
      BY <1>0 DEF MessageInv
    <3> QED
      BY <1>0, <1>1, <3>1, <3>2, CameStays
  <2> QED
    BY <1>2, <2>1 DEF MessageInv
<1>3. ASSUME NEW c \in Conns, NEW kind \in Kinds, Message(c, kind)
      PROVE  MessageInv'
  <2> DEFINE x == [conn |-> c, kind |-> kind, at |-> now, ok |-> Allow(c).ok]
  <2>1. msgs' = Append(msgs, x) /\ phase' = phase /\ now' = now /\ phase[c] = "up"
    BY <1>0, <1>3, MessageFacts
  <2>2. x.conn = c /\ x.at = now
    OBVIOUS
  <2>3. Len(msgs) \in Nat /\ DOMAIN msgs = 1 .. Len(msgs)
    BY <1>0, MessageTypes
  <2>s. msgs \in Seq([conn : Conns, kind : Kinds, at : Nat, ok : BOOLEAN])
    BY <1>0 DEF TypeOK
  <2> HIDE DEF x
  <2>4. ASSUME NEW m \in DOMAIN msgs'
        PROVE  phase'[msgs'[m].conn] # "none" /\ msgs'[m].at <= now'
    <3>1. CASE m \in 1 .. Len(msgs)
      <4>1. msgs'[m] = msgs[m]
        BY <2>1, <2>s, <3>1
      <4> QED
        BY <1>0, <2>1, <2>3, <3>1, <4>1 DEF MessageInv
    <3>2. CASE m \notin 1 .. Len(msgs)
      <4>1. m = Len(msgs) + 1 /\ msgs'[m] = x
        BY <2>1, <2>3, <2>s, <3>2
      <4> QED
        BY <1>0, <2>1, <2>2, <4>1
    <3> QED
      BY <3>1, <3>2
  <2> QED
    BY <2>4 DEF MessageInv
<1> QED
  BY <1>2, <1>3, QuietlyLeaves, StepKinds DEF Tick, Connect, Beat, messages

LEMMA PhaseStep ==
    ASSUME InboundInv, [Next]_vars
    PROVE  PhaseInv'
<1> SUFFICES ASSUME NEW d \in Conns
             PROVE  /\ phase'[d] = "none" => why'[d] = "open"
                    /\ phase'[d] \in {"none", "tcp", "counting"} => task'[d] = "none"
                    /\ phase'[d] \in {"none", "tcp"} => counted'[d] = 0
                    /\ phase'[d] = "up" => counted'[d] = NumLoops /\ sum'[d] <= MaxOnline
                    /\ task'[d] \in {"none", "queued", "asked", "allowed"} => check'[d] = "off"
                    /\ task'[d] \in {"tell", "end"} /\ check'[d] = "off" => why'[d] # "open"
  BY DEF PhaseInv
<1> DEFINE G == /\ phase'[d] = "none" => why'[d] = "open"
                /\ phase'[d] \in {"none", "tcp", "counting"} => task'[d] = "none"
                /\ phase'[d] \in {"none", "tcp"} => counted'[d] = 0
                /\ phase'[d] = "up" => counted'[d] = NumLoops /\ sum'[d] <= MaxOnline
                /\ task'[d] \in {"none", "queued", "asked", "allowed"} => check'[d] = "off"
                /\ task'[d] \in {"tell", "end"} /\ check'[d] = "off" => why'[d] # "open"
<1> SUFFICES G
  OBVIOUS
<1>0. TypeOK /\ PhaseInv /\ MessageInv
  BY DEF InboundInv
<1>t. /\ phase \in [Conns -> Phases] /\ counted \in [Conns -> 0 .. NumLoops] /\ sum \in [Conns -> Nat]
      /\ task \in [Conns -> Tasks] /\ why \in [Conns -> Reasons] /\ check \in [Conns -> Checks]
  BY <1>0 DEF TypeOK
<1>n. MaxOnline \in Nat /\ NumLoops \in Nat
  BY Constants
<1>old. /\ phase[d] = "none" => why[d] = "open"
        /\ phase[d] \in {"none", "tcp", "counting"} => task[d] = "none"
        /\ phase[d] \in {"none", "tcp"} => counted[d] = 0
        /\ phase[d] = "up" => counted[d] = NumLoops /\ sum[d] <= MaxOnline
        /\ task[d] \in {"none", "queued", "asked", "allowed"} => check[d] = "off"
        /\ task[d] \in {"tell", "end"} /\ check[d] = "off" => why[d] # "open"
  BY <1>0 DEF PhaseInv
<1>1. ASSUME UNCHANGED <<phase, counted, sum, task, why, check>>
      PROVE  G
  BY <1>1, <1>old
<1>2. ASSUME NEW c \in Conns, Connect(c)
      PROVE  G
  <2>1. /\ phase[c] = "none" /\ phase' = [phase EXCEPT ![c] = "tcp"]
        /\ UNCHANGED <<counted, sum, task, why, check>>
    BY <1>2 DEF Connect, beat
  <2> QED
    BY <1>t, <1>old, <2>1
<1>3. ASSUME NEW c \in Conns, NEW r \in Reasons \ {"open"}, phase[c] # "none", Gone(c, r),
             UNCHANGED <<counted, sum, task, check>>
      PROVE  G
  <2>1. phase' = [phase EXCEPT ![c] = "gone"] /\ Flag(c, r)
    BY <1>3 DEF Gone
  <2>2. /\ d # c => phase'[d] = phase[d] /\ why'[d] = why[d]
        /\ why[d] # "open" => why'[d] # "open"
    BY <1>0, <1>t, <2>1, FlagType
  <2>3. d = c => phase'[d] = "gone"
    BY <1>t, <2>1
  <2> QED
    BY <1>3, <1>old, <2>2, <2>3
<1>4. ASSUME NEW c \in Conns, Upgrade(c)
      PROVE  G
  <2>1. phase[c] = "tcp" /\ UNCHANGED <<counted, sum, check>>
    BY <1>4 DEF Upgrade, beat
  <2>2. CASE Refuse(c)
    BY <1>3, <2>1, <2>2 DEF Refuse, Reasons
  <2>3. CASE ~Refuse(c)
    <3>1. phase' = [phase EXCEPT ![c] = "counting"] /\ UNCHANGED <<task, why>>
      BY <1>4, <2>3 DEF Upgrade
    <3> QED
      BY <1>t, <1>old, <2>1, <3>1
  <2> QED
    BY <2>2, <2>3
<1>5. ASSUME NEW c \in Conns, Count(c)
      PROVE  G
  <2>1. /\ phase[c] = "counting" /\ UNCHANGED <<phase, task, why, check>>
        /\ d # c => counted'[d] = counted[d] /\ sum'[d] = sum[d]
    BY <1>t, <1>5 DEF Count, beat
  <2> QED
    BY <1>old, <2>1
<1>6. ASSUME NEW c \in Conns, Admit(c)
      PROVE  G
  <2>1. phase[c] = "counting" /\ counted[c] = NumLoops /\ UNCHANGED <<counted, sum, check>>
    BY <1>6 DEF Admit, beat
  <2>2. CASE Gone(c, "refused") /\ UNCHANGED task
    BY <1>3, <2>1, <2>2 DEF Reasons
  <2>3. CASE ~(Gone(c, "refused") /\ UNCHANGED task)
    <3>1. /\ ~Over(sum[c]) /\ phase' = [phase EXCEPT ![c] = "up"]
          /\ task' = [task EXCEPT ![c] = "queued"] /\ UNCHANGED why
      BY <1>6, <2>3 DEF Admit, Refuse
    <3>2. sum[c] <= MaxOnline
      BY <1>n, <1>t, <3>1 DEF Over
    <3>3. check[c] = "off" /\ task[c] = "none"
      BY <1>0, <2>1 DEF PhaseInv
    <3>4. d # c => phase'[d] = phase[d] /\ task'[d] = task[d]
      BY <1>t, <3>1
    <3>5. phase'[c] = "up" /\ task'[c] = "queued"
      BY <1>t, <3>1
    <3> QED
      BY <1>old, <2>1, <3>1, <3>2, <3>3, <3>4, <3>5
  <2> QED
    BY <2>2, <2>3
<1>7. ASSUME NEW c \in Conns, Hangup(c)
      PROVE  G
  <2>1. phase[c] \in {"tcp", "up"} /\ UNCHANGED <<counted, sum, task, check>>
    BY <1>7 DEF Hangup, beat
  <2>2. CASE phase[c] = "up"
    BY <1>3, <1>7, <2>1, <2>2 DEF Hangup, Reasons
  <2>3. CASE phase[c] # "up"
    <3>1. phase' = [phase EXCEPT ![c] = "gone"] /\ why' = why
      BY <1>7, <2>3 DEF Hangup
    <3> QED
      BY <1>t, <1>old, <2>1, <3>1
  <2> QED
    BY <2>2, <2>3
<1>8. ASSUME NEW c \in Conns, Pool(c)
      PROVE  G
  <2>0. UNCHANGED <<phase, counted, sum>>
    BY <1>8 DEF Pool, OpenStart, OpenAnswer, OpenSchedule, OpenTell, CloseTell, opening
  <2>1. CASE CloseTell(c)
    BY <1>1, <2>1 DEF CloseTell, opening, beat
  <2>2. ASSUME NEW t \in Tasks, task[c] # "none", task' = [task EXCEPT ![c] = t],
               d # c => why'[d] = why[d] /\ check'[d] = check[d],
               why'[c] = "open" => why[c] = "open",
               t \in {"none", "queued", "asked", "allowed"} => check'[c] = "off",
               t \in {"tell", "end"} /\ check'[c] = "off" => why'[c] # "open"
        PROVE  G
    <3>1. d # c => task'[d] = task[d]
      BY <1>t, <2>2
    <3>2. task'[c] = t
      BY <1>t, <2>2
    <3>3. phase[c] \notin {"none", "tcp", "counting"}
      BY <1>0, <2>2 DEF PhaseInv
    <3> QED
      BY <1>old, <2>0, <2>2, <3>1, <3>2, <3>3
  <2>3. ASSUME OpenStart(c)
        PROVE  G
    <3>1. /\ task[c] = "queued" /\ UNCHANGED <<why, check>>
          /\ task' = [task EXCEPT ![c] = IF IsClosed(c) THEN "end" ELSE "asked"]
      BY <2>3 DEF OpenStart, beat
    <3>2. check[c] = "off"
      BY <1>0, <3>1 DEF PhaseInv
    <3> HIDE DEF G
    <3>3. CASE IsClosed(c)
      <4>1. task' = [task EXCEPT ![c] = "end"]
        BY <3>1, <3>3
      <4> QED
        BY <2>2, <3>1, <3>2, <3>3, <4>1 DEF IsClosed, Tasks
    <3>4. CASE ~IsClosed(c)
      <4>1. task' = [task EXCEPT ![c] = "asked"]
        BY <3>1, <3>4
      <4> QED
        BY <2>2, <3>1, <3>2, <3>4, <4>1 DEF IsClosed, Tasks
    <3> QED
      BY <3>3, <3>4
  <2>4. ASSUME NEW answer \in Answers, OpenAnswer(c, answer)
        PROVE  G
    <3>1. task[c] = "asked" /\ UNCHANGED check
      BY <2>4 DEF OpenAnswer, beat
    <3>2. check[c] = "off"
      BY <1>0, <3>1 DEF PhaseInv
    <3> HIDE DEF G
    <3>3. CASE task' = [task EXCEPT ![c] = "end"] /\ Flag(c, "denied")
      <4>1. /\ d # c => why'[d] = why[d]
            /\ why'[c] # "open"
        BY <1>0, <3>3, FlagType DEF Reasons
      <4> QED
        BY <2>2, <3>1, <3>2, <3>3, <4>1 DEF Tasks
    <3>4. CASE task' = [task EXCEPT ![c] = "allowed"] /\ UNCHANGED why
      BY <2>2, <3>1, <3>2, <3>4 DEF Tasks
    <3> QED
      BY <2>4, <3>3, <3>4 DEF OpenAnswer
  <2>5. ASSUME OpenSchedule(c)
        PROVE  G
    <3>1. /\ task[c] = "allowed" /\ task' = [task EXCEPT ![c] = "tell"] /\ UNCHANGED why
          /\ check' = [check EXCEPT ![c] = "on"]
      BY <2>5 DEF OpenSchedule
    <3>2. check'[c] = "on" /\ (d # c => check'[d] = check[d])
      BY <1>t, <3>1
    <3> HIDE DEF G
    <3> QED
      BY <2>2, <3>1, <3>2 DEF Tasks
  <2>6. ASSUME OpenTell(c)
        PROVE  G
    <3>1. /\ task[c] = "tell" /\ task' = [task EXCEPT ![c] = "end"] /\ UNCHANGED <<why, check>>
      BY <2>6 DEF OpenTell, beat
    <3>2. check[c] = "off" => why[c] # "open"
      BY <1>0, <3>1 DEF PhaseInv
    <3> HIDE DEF G
    <3> QED
      BY <2>2, <3>1, <3>2 DEF Tasks
  <2> HIDE DEF G
  <2> QED
    BY <1>8, <2>1, <2>3, <2>4, <2>5, <2>6 DEF Pool
<1>9. ASSUME NEW c \in Conns, Timer(c)
      PROVE  G
  <2>1. check[c] # "off" /\ UNCHANGED <<phase, counted, sum, task>>
    BY <1>9 DEF Timer, CheckStop, CheckLoad, CheckJudge, opening
  <2>2. task[c] \in {"tell", "end"}
    BY <1>0, <1>t, <2>1 DEF PhaseInv, Tasks
  <2>3. phase[c] # "none"
    BY <1>0, <2>2 DEF PhaseInv
  <2>4. ASSUME d # c => why'[d] = why[d] /\ check'[d] = check[d],
               check'[c] = "off" => why'[c] # "open"
        PROVE  G
    BY <1>old, <2>1, <2>2, <2>3, <2>4
  <2> HIDE DEF G
  <2>5. CASE CheckStop(c)
    <3>1. why' = why /\ why[c] # "open" /\ (d # c => check'[d] = check[d])
      BY <1>t, <2>5 DEF CheckStop, IsClosed
    <3> QED
      BY <2>4, <3>1
  <2>6. CASE CheckLoad(c)
    <3>1. why' = why /\ check'[c] = "loaded" /\ (d # c => check'[d] = check[d])
      BY <1>t, <2>6 DEF CheckLoad
    <3> QED
      BY <2>4, <3>1
  <2>7. CASE CheckJudge(c)
    <3>1. CASE Silence(c) > Interval
      <4>1. Flag(c, "heartbeat") /\ check' = [check EXCEPT ![c] = "off"]
        BY <2>7, <3>1 DEF CheckJudge
      <4>2. why'[c] # "open" /\ (d # c => why'[d] = why[d])
        BY <1>0, <4>1, FlagType DEF Reasons
      <4>3. d # c => check'[d] = check[d]
        BY <1>t, <4>1
      <4> QED
        BY <2>4, <4>2, <4>3
    <3>2. CASE ~(Silence(c) > Interval)
      <4>1. UNCHANGED why /\ check' = [check EXCEPT ![c] = "on"]
        BY <2>7, <3>2 DEF CheckJudge
      <4>2. check'[c] = "on" /\ (d # c => check'[d] = check[d])
        BY <1>t, <4>1
      <4> QED
        BY <2>4, <4>1, <4>2
    <3> QED
      BY <3>1, <3>2
  <2> QED
    BY <1>9, <2>5, <2>6, <2>7 DEF Timer
<1>10. ASSUME NEW m \in DOMAIN msgs, Job(m)
       PROVE  G
  <2>1. UNCHANGED <<phase, counted, sum, task, check>>
    BY <1>10 DEF Job, JobTooBig, JobLimited, JobDropped, JobForward, opening, beat
  <2>2. CASE why' = why
    BY <1>1, <2>1, <2>2
  <2>3. CASE JobTooBig(m)
    <3>1. msgs[m].conn \in Conns /\ phase[msgs[m].conn] # "none" /\ Flag(msgs[m].conn, "tooBig")
      BY <1>0, <2>3, MessageTypes DEF MessageInv, JobTooBig
    <3>2. /\ why[d] # "open" => why'[d] # "open"
          /\ d # msgs[m].conn => why'[d] = why[d]
      BY <1>0, <3>1, FlagType DEF Reasons
    <3> QED
      BY <1>old, <2>1, <3>1, <3>2
  <2> HIDE DEF G
  <2> QED
    BY <1>10, <2>2, <2>3 DEF Job, JobLimited, JobDropped, JobForward
<1>11. ASSUME \/ Tick \/ Quit \/ (\E r \in plan.rates : Limit(r)) \/ UNCHANGED vars
              \/ \E c \in Conns : Beat(c) \/ \E kind \in Kinds : Message(c, kind)
       PROVE  G
  <2>1. UNCHANGED <<phase, counted, sum, task, why, check>>
    BY <1>11 DEF Tick, Quit, Limit, Beat, Message, opening, beat, vars
  <2> QED
    BY <1>1, <2>1
<1> HIDE DEF G
<1> QED
  BY <1>2, <1>4, <1>5, <1>6, <1>7, <1>8, <1>9, <1>10, <1>11 DEF Next, EventLoop

-----------------------------------------------------------------------------
(***************************************************************************)
(* The heartbeat check.                                                    *)
(***************************************************************************)
SameBeat(d) ==
    /\ quiet'[d] = quiet[d] /\ check'[d] = check[d] /\ seen'[d] = seen[d]
    /\ due'[d] = due[d] /\ since'[d] = since[d]

\* A step in which somebody else moves, or connection d is closed for another reason.
Elsewhere(d) ==
    /\ SameBeat(d) /\ last'[d] = last[d] /\ now' = now
    /\ quitting => quitting'
    /\ why'[d] = why[d] \/ why'[d] \notin {"open", "heartbeat"}

\* Connection d is active.
Lively(d) ==
    /\ check'[d] = check[d] /\ seen'[d] = seen[d] /\ due'[d] = due[d] /\ since'[d] = since[d]
    /\ last'[d] = now /\ quiet'[d] = Greater(quiet[d], now - last[d])
    /\ UNCHANGED <<now, why, quitting>>

\* The clock, seen from connection d.
Ticks(d) ==
    /\ SameBeat(d) /\ last'[d] = last[d] /\ now' = now + 1
    /\ check[d] = "on" /\ ~quitting => now < due[d] + Late
    /\ check[d] = "loaded" => now < seen[d].at + Pause
    /\ UNCHANGED <<why, quitting>>

LEMMA BeatKinds ==
    ASSUME InboundInv, [Next]_vars, NEW d \in Conns
    PROVE  \/ Elsewhere(d) \/ Lively(d) \/ Ticks(d)
           \/ Connect(d) \/ OpenSchedule(d) \/ CheckStop(d) \/ CheckLoad(d) \/ CheckJudge(d)
<1> DEFINE G == \/ Elsewhere(d) \/ Lively(d) \/ Ticks(d)
                \/ Connect(d) \/ OpenSchedule(d) \/ CheckStop(d) \/ CheckLoad(d) \/ CheckJudge(d)
<1> SUFFICES G
  OBVIOUS
<1>0. TypeOK
  BY DEF InboundInv
<1>t. /\ last \in [Conns -> Nat] /\ quiet \in [Conns -> Nat]
      /\ due \in [Conns -> Nat] /\ since \in [Conns -> Nat]
      /\ check \in [Conns -> Checks] /\ why \in [Conns -> Reasons]
      /\ seen \in [Conns -> [last : Nat, at : Nat]]
  BY <1>0 DEF TypeOK
<1>1. ASSUME UNCHANGED <<beat, last, quiet, now>>, quitting => quitting',
             why' = why \/ \E c \in Conns, r \in Reasons \ {"open", "heartbeat"} : Flag(c, r)
      PROVE  Elsewhere(d)
  <2>1. why'[d] = why[d] \/ why'[d] \notin {"open", "heartbeat"}
    <3>1. ASSUME NEW c \in Conns, NEW r \in Reasons \ {"open", "heartbeat"}, Flag(c, r)
          PROVE  why'[d] = why[d] \/ why'[d] \notin {"open", "heartbeat"}
      BY <1>0, <3>1, FlagType
    <3> QED
      BY <1>1, <3>1
  <2>2. SameBeat(d) /\ last'[d] = last[d] /\ now' = now
    BY <1>1 DEF beat, SameBeat
  <2> QED
    BY <1>1, <2>1, <2>2 DEF Elsewhere
<1>2. CASE Tick
  BY <1>2 DEF Tick, Ticks, SameBeat, beat
<1>3. ASSUME Quit \/ (\E r \in plan.rates : Limit(r)) \/ UNCHANGED vars
      PROVE  Elsewhere(d)
  BY <1>1, <1>3 DEF Quit, Limit, vars, limits
<1>4. ASSUME NEW c \in Conns, Connect(c)
      PROVE  G
  <2>1. CASE c = d
    BY <1>4, <2>1
  <2>2. CASE c # d
    BY <1>t, <1>4, <2>2 DEF Connect, Elsewhere, SameBeat, beat, limits
  <2> QED
    BY <2>1, <2>2
<1>5. ASSUME NEW c \in Conns, Upgrade(c) \/ Count(c) \/ Admit(c) \/ Hangup(c)
      PROVE  Elsewhere(d)
  <2>1. UNCHANGED <<beat, last, quiet, now, quitting>>
    BY <1>5 DEF Upgrade, Count, Admit, Hangup, limits
  <2>2. why' = why \/ Flag(c, "refused") \/ Flag(c, "client")
    BY <1>5 DEF Upgrade, Count, Admit, Hangup, Refuse, Gone
  <2>3. why' = why \/ \E b \in Conns, r \in Reasons \ {"open", "heartbeat"} : Flag(b, r)
    BY <2>2 DEF Reasons
  <2> QED
    BY <1>1, <2>1, <2>3
<1>6. ASSUME NEW c \in Conns, Active(c), UNCHANGED <<beat, now, why, quitting>>
      PROVE  G
  <2>1. CASE c = d
    BY <1>t, <1>6, <2>1 DEF Active, Lively, beat
  <2>2. CASE c # d
    BY <1>t, <1>6, <2>2 DEF Active, Elsewhere, SameBeat, beat
  <2> QED
    BY <2>1, <2>2
<1>7. ASSUME NEW c \in Conns, Beat(c) \/ \E kind \in Kinds : Message(c, kind)
      PROVE  G
  BY <1>6, <1>7 DEF Beat, Message, limits
<1>8. ASSUME NEW c \in Conns, Pool(c)
      PROVE  G
  <2>1. CASE OpenSchedule(c)
    <3>1. CASE c = d
      BY <2>1, <3>1
    <3>2. CASE c # d
      BY <1>t, <2>1, <3>2 DEF OpenSchedule, Elsewhere, SameBeat, limits
    <3> QED
      BY <3>1, <3>2
  <2>2. ASSUME OpenStart(c) \/ OpenTell(c) \/ CloseTell(c)
        PROVE  Elsewhere(d)
    BY <1>1, <2>2 DEF OpenStart, OpenTell, CloseTell, limits
  <2>3. ASSUME NEW answer \in Answers, OpenAnswer(c, answer)
        PROVE  Elsewhere(d)
    <3>1. UNCHANGED <<beat, last, quiet, now, quitting>> /\ (why' = why \/ Flag(c, "denied"))
      BY <2>3 DEF OpenAnswer, limits
    <3>2. why' = why \/ \E b \in Conns, r \in Reasons \ {"open", "heartbeat"} : Flag(b, r)
      BY <3>1 DEF Reasons
    <3> QED
      BY <1>1, <3>1, <3>2
  <2> QED
    BY <1>8, <2>1, <2>2, <2>3 DEF Pool
<1>9. ASSUME NEW c \in Conns, Timer(c)
      PROVE  G
  <2>1. CASE c = d
    BY <1>9, <2>1 DEF Timer
  <2>2. CASE c # d
    <3>1. UNCHANGED <<last, quiet, now, quitting>>
      BY <1>9 DEF Timer, CheckStop, CheckLoad, CheckJudge, limits
    <3>2. SameBeat(d)
      BY <1>t, <1>9, <2>2 DEF Timer, CheckStop, CheckLoad, CheckJudge, SameBeat
    <3>3. why' = why \/ Flag(c, "heartbeat")
      BY <1>9 DEF Timer, CheckStop, CheckLoad, CheckJudge
    <3>4. why'[d] = why[d]
      BY <1>0, <2>2, <3>3, FlagType DEF Reasons
    <3> QED
      BY <3>1, <3>2, <3>4 DEF Elsewhere
  <2> QED
    BY <2>1, <2>2
<1>10. ASSUME NEW m \in DOMAIN msgs, Job(m)
       PROVE  Elsewhere(d)
  <2>1. UNCHANGED <<beat, last, quiet, now, quitting>> /\ (why' = why \/ Flag(msgs[m].conn, "tooBig"))
    BY <1>10 DEF Job, JobTooBig, JobLimited, JobDropped, JobForward, limits
  <2>2. why' = why \/ \E b \in Conns, r \in Reasons \ {"open", "heartbeat"} : Flag(b, r)
    BY <1>0, <2>1, MessageTypes DEF Reasons
  <2> QED
    BY <1>1, <2>1, <2>2
<1> HIDE DEF G
<1>11. Elsewhere(d) \/ Ticks(d) => G
  BY DEF G
<1> QED
  BY <1>2, <1>3, <1>4, <1>5, <1>7, <1>8, <1>9, <1>10, <1>11 DEF Next, EventLoop

\* The numbers of the check of a connection.
LEMMA BeatTypes ==
    ASSUME TypeOK, NEW d \in Conns
    PROVE  /\ now \in Nat /\ last[d] \in Nat /\ quiet[d] \in Nat /\ due[d] \in Nat /\ since[d] \in Nat
           /\ seen[d].last \in Nat /\ seen[d].at \in Nat
           /\ Interval \in Nat /\ Late \in Nat /\ Pause \in Nat /\ Late + Pause < Interval
BY ClockType, Constants DEF TypeOK

\* What CheckLoad and CheckJudge do to the connection they look at.
LEMMA LoadFacts ==
    ASSUME TypeOK, NEW d \in Conns, CheckLoad(d)
    PROVE  /\ check[d] = "on" /\ now >= due[d] /\ why[d] = "open"
           /\ check'[d] = "loaded" /\ seen'[d].last = last[d] /\ seen'[d].at = now
           /\ due'[d] = due[d] + Interval
           /\ UNCHANGED <<now, why, last, quiet, since, quitting>>
BY DEF TypeOK, CheckLoad, IsClosed, limits

LEMMA JudgeFacts ==
    ASSUME TypeOK, NEW d \in Conns, CheckJudge(d)
    PROVE  /\ check[d] = "loaded"
           /\ UNCHANGED <<now, last, quiet, due, since, seen, quitting>>
           /\ \/ /\ Silence(d) > Interval /\ Flag(d, "heartbeat") /\ check'[d] = "off"
              \/ /\ ~(Silence(d) > Interval) /\ UNCHANGED why /\ check'[d] = "on"
<1>1. CASE Silence(d) > Interval
  <2>1. Flag(d, "heartbeat") /\ check'[d] = "off"
    BY <1>1 DEF TypeOK, CheckJudge
  <2> QED
    BY <1>1, <2>1 DEF CheckJudge, limits
<1>2. CASE ~(Silence(d) > Interval)
  <2>1. UNCHANGED why /\ check'[d] = "on"
    BY <1>2 DEF TypeOK, CheckJudge
  <2> QED
    BY <1>2, <2>1 DEF CheckJudge, limits
<1> QED
  BY <1>1, <1>2

\* What a check in the middle knows.
SeenAt(d) ==
    /\ seen[d].last <= last[d]
    /\ seen[d].last <= seen[d].at /\ seen[d].at <= now /\ now <= seen[d].at + Pause
    /\ last[d] = seen[d].last \/ quiet[d] >= seen[d].at - seen[d].last

\* The difference of uint32 is the silence since the last message the check knows of: the
\* clock did not wrap.
LEMMA SilenceFacts ==
    ASSUME TypeOK, NEW d \in Conns, SeenAt(d)
    PROVE  Silence(d) = now - seen[d].last
<1>1. /\ now \in Nat /\ now < Width /\ Width \in Nat /\ seen[d].last \in Nat
      /\ seen[d].at \in Nat
  BY ClockType, BeatTypes, Constants
<1>2. seen[d].last <= now
  BY <1>1 DEF SeenAt
<1>3. now - seen[d].last \in Nat /\ now - seen[d].last < Width
  BY <1>1, <1>2
<1>4. \A n \in Nat : n < Width => (n % Width) = n
  BY <1>1
<1> QED
  BY <1>3, <1>4 DEF Silence

LEMMA SeenStep ==
    ASSUME InboundInv, [Next]_vars
    PROVE  SeenInv'
<1>0. TypeOK /\ TypeOK' /\ SeenInv /\ PhaseInv
  BY TypeStep DEF InboundInv
<1> SUFFICES ASSUME NEW d \in Conns
             PROVE  last'[d] <= now' /\ (check'[d] = "loaded" => SeenAt(d)')
  BY DEF SeenInv, SeenAt
<1> DEFINE G == last'[d] <= now' /\ (check'[d] = "loaded" => SeenAt(d)')
<1> SUFFICES G
  OBVIOUS
<1>old. last[d] <= now /\ (check[d] = "loaded" => SeenAt(d))
  BY <1>0 DEF SeenInv, SeenAt
<1>n. /\ now \in Nat /\ last[d] \in Nat /\ quiet[d] \in Nat /\ due[d] \in Nat /\ since[d] \in Nat
      /\ seen[d].last \in Nat /\ seen[d].at \in Nat
      /\ Interval \in Nat /\ Late \in Nat /\ Pause \in Nat
  BY <1>0, BeatTypes
<1>1. CASE Elsewhere(d)
  BY <1>old, <1>1 DEF Elsewhere, SameBeat, SeenAt
<1>2. CASE Lively(d)
  <2>1. /\ check'[d] = check[d] /\ seen'[d] = seen[d] /\ last'[d] = now /\ now' = now
        /\ quiet'[d] = Greater(quiet[d], now - last[d])
    BY <1>2 DEF Lively
  <2>2. quiet'[d] >= quiet[d] /\ quiet'[d] >= now - last[d] /\ quiet'[d] \in Int
    BY <1>n, <2>1 DEF Greater
  <2>3. ASSUME check'[d] = "loaded"
        PROVE  SeenAt(d)'
    <3>1. /\ seen[d].last <= last[d]
          /\ seen[d].last <= seen[d].at /\ seen[d].at <= now /\ now <= seen[d].at + Pause
          /\ last[d] = seen[d].last \/ quiet[d] >= seen[d].at - seen[d].last
      BY <1>old, <2>1, <2>3 DEF SeenAt
    <3>2. quiet'[d] >= seen[d].at - seen[d].last /\ seen[d].last <= now
      BY <1>n, <2>2, <3>1
    <3> QED
      BY <2>1, <3>1, <3>2 DEF SeenAt
  <2> QED
    BY <1>n, <2>1, <2>3
<1>3. CASE Ticks(d)
  <2>1. /\ check'[d] = check[d] /\ seen'[d] = seen[d] /\ last'[d] = last[d] /\ now' = now + 1
        /\ quiet'[d] = quiet[d]
        /\ check[d] = "loaded" => now < seen[d].at + Pause
    BY <1>3 DEF Ticks, SameBeat
  <2>2. ASSUME check[d] = "loaded"
        PROVE  SeenAt(d)'
    <3>1. /\ seen[d].last <= last[d]
          /\ seen[d].last <= seen[d].at /\ seen[d].at <= now /\ now <= seen[d].at + Pause
          /\ last[d] = seen[d].last \/ quiet[d] >= seen[d].at - seen[d].last
      BY <1>old, <2>2 DEF SeenAt
    <3>2. seen[d].at <= now + 1 /\ now + 1 <= seen[d].at + Pause
      BY <1>n, <2>1, <2>2, <3>1
    <3> QED
      BY <2>1, <3>1, <3>2 DEF SeenAt
  <2> QED
    BY <1>n, <1>old, <2>1, <2>2
<1>4. CASE Connect(d)
  <2>1. phase[d] = "none" /\ last' = [last EXCEPT ![d] = now] /\ now' = now /\ check' = check
    BY <1>4 DEF Connect, beat
  <2>2. check[d] = "off"
    BY <1>0, <2>1 DEF PhaseInv
  <2>3. last'[d] = now
    BY <1>0, <2>1 DEF TypeOK
  <2> QED
    BY <1>n, <2>1, <2>2, <2>3
<1>5. CASE OpenSchedule(d) \/ CheckStop(d)
  <2>1. last' = last /\ now' = now
    BY <1>5 DEF OpenSchedule, CheckStop
  <2>2. check'[d] # "loaded"
    BY <1>0, <1>5 DEF OpenSchedule, CheckStop, TypeOK
  <2> QED
    BY <1>old, <2>1, <2>2
<1>6. CASE CheckLoad(d)
  <2>1. /\ seen'[d].last = last[d] /\ seen'[d].at = now
        /\ UNCHANGED <<now, last>>
    BY <1>0, <1>6, LoadFacts
  <2>2. SeenAt(d)'
    BY <1>n, <1>old, <2>1 DEF SeenAt
  <2> QED
    BY <1>old, <2>1, <2>2
<1>7. CASE CheckJudge(d)
  BY <1>0, <1>old, <1>7, JudgeFacts
<1> HIDE DEF G
<1> QED
  BY <1>1, <1>2, <1>3, <1>4, <1>5, <1>6, <1>7, BeatKinds

\* The check closes only who was silent, and what it knew then stays true: the longest
\* silence of a connection does not shrink.
LEMMA KeptStep ==
    ASSUME InboundInv, [Next]_vars
    PROVE  ActiveIsKept'
<1>0. TypeOK /\ SeenInv /\ PhaseInv /\ ActiveIsKept
  BY DEF InboundInv
<1> SUFFICES ASSUME NEW d \in Conns, why'[d] = "heartbeat"
             PROVE  Greater(quiet'[d], now' - last'[d]) > Interval - Pause
  BY DEF ActiveIsKept
<1> DEFINE G == Greater(quiet'[d], now' - last'[d]) > Interval - Pause
<1> SUFFICES G
  OBVIOUS
<1>old. last[d] <= now /\ (check[d] = "loaded" => SeenAt(d))
  BY <1>0 DEF SeenInv, SeenAt
<1>kept. why[d] = "heartbeat" => quiet[d] > Interval - Pause \/ now - last[d] > Interval - Pause
  BY <1>0 DEF ActiveIsKept, Greater
<1>n. /\ now \in Nat /\ last[d] \in Nat /\ quiet[d] \in Nat
      /\ seen[d].last \in Nat /\ seen[d].at \in Nat
      /\ Interval \in Nat /\ Pause \in Nat
  BY <1>0, BeatTypes
<1>1. CASE Elsewhere(d)
  <2>1. why[d] = "heartbeat" /\ quiet'[d] = quiet[d] /\ last'[d] = last[d] /\ now' = now
    BY <1>1 DEF Elsewhere, SameBeat
  <2> QED
    BY <1>n, <1>kept, <2>1 DEF Greater
<1>2. CASE Lively(d)
  <2>1. /\ last'[d] = now /\ now' = now /\ quiet'[d] = Greater(quiet[d], now - last[d])
        /\ why[d] = "heartbeat"
    BY <1>2 DEF Lively
  <2>2. quiet'[d] > Interval - Pause /\ quiet'[d] \in Int
    BY <1>n, <1>kept, <2>1 DEF Greater
  <2> QED
    BY <1>n, <2>1, <2>2 DEF Greater
<1>3. CASE Ticks(d)
  <2>1. why[d] = "heartbeat" /\ quiet'[d] = quiet[d] /\ last'[d] = last[d] /\ now' = now + 1
    BY <1>3 DEF Ticks, SameBeat
  <2> QED
    BY <1>n, <1>kept, <2>1 DEF Greater
<1>4. CASE Connect(d)
  <2>1. phase[d] = "none" /\ why' = why
    BY <1>4 DEF Connect
  <2> QED
    BY <1>0, <2>1 DEF PhaseInv
<1>5. CASE OpenSchedule(d) \/ CheckStop(d)
  <2>1. UNCHANGED <<why, quiet, last, now>>
    BY <1>5 DEF OpenSchedule, CheckStop
  <2> QED
    BY <1>n, <1>kept, <2>1 DEF Greater
<1>6. CASE CheckLoad(d)
  <2>1. UNCHANGED <<why, quiet, last, now>>
    BY <1>6 DEF CheckLoad
  <2> QED
    BY <1>n, <1>kept, <2>1 DEF Greater
<1>7. CASE CheckJudge(d)
  <2>1. /\ check[d] = "loaded" /\ UNCHANGED <<now, last, quiet>>
        /\ why' = why \/ (Silence(d) > Interval)
    BY <1>0, <1>7, JudgeFacts
  <2>2. CASE why' = why
    BY <1>n, <1>kept, <2>1, <2>2 DEF Greater
  <2>3. CASE Silence(d) > Interval
    <3>1. SeenAt(d)
      BY <1>old, <2>1
    <3>2. now - seen[d].last > Interval
      BY <1>0, <2>3, <3>1, SilenceFacts
    <3>3. /\ now <= seen[d].at + Pause /\ seen[d].at <= now
          /\ last[d] = seen[d].last \/ quiet[d] >= seen[d].at - seen[d].last
      BY <3>1 DEF SeenAt
    <3>4. quiet[d] > Interval - Pause \/ now - last[d] > Interval - Pause
      BY <1>n, <3>2, <3>3
    <3> QED
      BY <1>n, <2>1, <3>4 DEF Greater
  <2> QED
    BY <2>1, <2>2, <2>3
<1> HIDE DEF G
<1> QED
  BY <1>1, <1>2, <1>3, <1>4, <1>5, <1>6, <1>7, BeatKinds

\* The deadline only moves on.
LEMMA DeadlineFacts ==
    ASSUME TypeOK, NEW d \in Conns
    PROVE  /\ Deadline(d) \in Nat
           /\ last[d] + 2 * Interval <= Deadline(d)
           /\ since[d] + Interval <= Deadline(d)
<1>1. last[d] \in Nat /\ since[d] \in Nat /\ Interval \in Nat
  BY BeatTypes
<1> QED
  BY <1>1 DEF Deadline, Greater

LEMMA DeadlineMoves ==
    ASSUME TypeOK, TypeOK', NEW d \in Conns, last'[d] >= last[d], since'[d] = since[d]
    PROVE  Deadline(d)' >= Deadline(d)
<1>1. last[d] \in Nat /\ last'[d] \in Nat /\ since[d] \in Nat /\ Interval \in Nat
  BY BeatTypes DEF TypeOK
<1>2. Deadline(d)' = Greater(last'[d] + 2 * Interval, since[d] + Interval)
  BY DEF Deadline
<1> QED
  BY <1>1, <1>2 DEF Deadline, Greater

LEMMA DueStep ==
    ASSUME InboundInv, [Next]_vars
    PROVE  DueInv'
<1>0. TypeOK /\ TypeOK' /\ SeenInv /\ PhaseInv /\ DueInv
  BY TypeStep DEF InboundInv
<1> SUFFICES ASSUME NEW d \in Conns, why'[d] = "open"
             PROVE  /\ check'[d] = "on" =>
                          /\ due'[d] <= Deadline(d)'
                          /\ ~quitting' => now' <= due'[d] + Late
                    /\ check'[d] = "loaded" =>
                          /\ due'[d] - Interval <= Deadline(d)'
                          /\ due'[d] - Interval <= seen'[d].at
                          /\ ~quitting' => seen'[d].at <= due'[d] - Interval + Late
  BY DEF DueInv
<1> DEFINE G == /\ check'[d] = "on" =>
                      /\ due'[d] <= Deadline(d)'
                      /\ ~quitting' => now' <= due'[d] + Late
                /\ check'[d] = "loaded" =>
                      /\ due'[d] - Interval <= Deadline(d)'
                      /\ due'[d] - Interval <= seen'[d].at
                      /\ ~quitting' => seen'[d].at <= due'[d] - Interval + Late
<1> SUFFICES G
  OBVIOUS
<1>seen. last[d] <= now /\ (check[d] = "loaded" => SeenAt(d))
  BY <1>0 DEF SeenInv, SeenAt
<1>n. /\ now \in Nat /\ last[d] \in Nat /\ quiet[d] \in Nat /\ due[d] \in Nat /\ since[d] \in Nat
      /\ seen[d].last \in Nat /\ seen[d].at \in Nat
      /\ Interval \in Nat /\ Late \in Nat /\ Pause \in Nat /\ Late + Pause < Interval
  BY <1>0, BeatTypes
<1>d. Deadline(d) \in Nat /\ Deadline(d)' \in Nat
  <2>1. last'[d] \in Nat /\ since'[d] \in Nat
    BY <1>0 DEF TypeOK
  <2>2. Deadline(d)' = Greater(last'[d] + 2 * Interval, since'[d] + Interval)
    BY DEF Deadline
  <2>3. Deadline(d)' \in Nat
    BY <1>n, <2>1, <2>2 DEF Greater
  <2> QED
    BY <1>0, <2>3, DeadlineFacts
<1>open. ASSUME why[d] = "open"
         PROVE  /\ check[d] = "on" =>
                      /\ due[d] <= Deadline(d)
                      /\ ~quitting => now <= due[d] + Late
                /\ check[d] = "loaded" =>
                      /\ due[d] - Interval <= Deadline(d)
                      /\ due[d] - Interval <= seen[d].at
                      /\ ~quitting => seen[d].at <= due[d] - Interval + Late
  BY <1>0, <1>open DEF DueInv
<1>1. ASSUME SameBeat(d) \/ Lively(d), why'[d] = why[d], last'[d] >= last[d],
             quitting => quitting', now' = now
      PROVE  G
  <2>1. /\ check'[d] = check[d] /\ seen'[d] = seen[d] /\ due'[d] = due[d] /\ since'[d] = since[d]
    BY <1>1 DEF SameBeat, Lively
  <2>2. Deadline(d)' >= Deadline(d)
    BY <1>0, <1>1, <2>1, DeadlineMoves
  <2>3. CASE check[d] = "on"
    <3>1. due[d] <= Deadline(d) /\ (~quitting => now <= due[d] + Late)
      BY <1>1, <1>open, <2>3
    <3>2. due[d] <= Deadline(d)'
      BY <1>n, <1>d, <2>2, <3>1
    <3> QED
      BY <1>1, <2>1, <2>3, <3>1, <3>2
  <2>4. CASE check[d] = "loaded"
    <3>1. /\ due[d] - Interval <= Deadline(d)
          /\ due[d] - Interval <= seen[d].at
          /\ ~quitting => seen[d].at <= due[d] - Interval + Late
      BY <1>1, <1>open, <2>4
    <3>2. due[d] - Interval <= Deadline(d)'
      BY <1>n, <1>d, <2>2, <3>1
    <3> QED
      BY <1>1, <2>1, <2>4, <3>1, <3>2
  <2> QED
    BY <2>1, <2>3, <2>4
<1>2. CASE Elsewhere(d)
  BY <1>1, <1>2, <1>n DEF Elsewhere
<1>3. CASE Lively(d)
  <2>1. last'[d] >= last[d] /\ why'[d] = why[d] /\ (quitting => quitting') /\ now' = now
    BY <1>3, <1>n, <1>seen DEF Lively
  <2> QED
    BY <1>1, <1>3, <2>1
<1>4. CASE Ticks(d)
  <2>1. /\ check'[d] = check[d] /\ seen'[d] = seen[d] /\ due'[d] = due[d] /\ since'[d] = since[d]
        /\ last'[d] = last[d] /\ now' = now + 1 /\ why[d] = "open" /\ quitting' = quitting
        /\ check[d] = "on" /\ ~quitting => now < due[d] + Late
    BY <1>4 DEF Ticks, SameBeat
  <2>2. Deadline(d)' = Deadline(d)
    BY <2>1 DEF Deadline
  <2>3. check[d] = "on" /\ ~quitting => now + 1 <= due[d] + Late
    BY <1>n, <2>1
  <2> QED
    BY <1>open, <2>1, <2>2, <2>3
<1>5. CASE Connect(d)
  <2>1. phase[d] = "none" /\ check' = check
    BY <1>5 DEF Connect, beat
  <2>2. check[d] = "off"
    BY <1>0, <2>1 DEF PhaseInv
  <2> QED
    BY <2>1, <2>2
<1>6. CASE OpenSchedule(d)
  <2>1. check'[d] = "on" /\ since'[d] = now /\ due'[d] = now + Interval /\ now' = now
    BY <1>0, <1>6 DEF OpenSchedule, TypeOK
  <2>2. since'[d] + Interval <= Deadline(d)'
    <3>1. last'[d] \in Nat
      BY <1>0 DEF TypeOK
    <3>2. Deadline(d)' = Greater(last'[d] + 2 * Interval, since'[d] + Interval)
      BY DEF Deadline
    <3> QED
      BY <1>n, <2>1, <3>1, <3>2 DEF Greater
  <2> QED
    BY <1>n, <2>1, <2>2
<1>7. CASE CheckStop(d)
  <2>1. check'[d] = "off"
    BY <1>0, <1>7 DEF CheckStop, TypeOK
  <2> QED
    BY <2>1
<1>8. CASE CheckLoad(d)
  <2>1. /\ check[d] = "on" /\ now >= due[d] /\ why[d] = "open"
        /\ check'[d] = "loaded" /\ seen'[d].at = now
        /\ due'[d] = due[d] + Interval
        /\ UNCHANGED <<now, last, since, quitting>>
    BY <1>0, <1>8, LoadFacts
  <2>2. Deadline(d)' = Deadline(d)
    BY <2>1 DEF Deadline
  <2>3. due[d] <= Deadline(d) /\ (~quitting => now <= due[d] + Late)
    BY <1>open, <2>1
  <2>4. due'[d] - Interval = due[d]
    BY <1>n, <2>1
  <2>5. due[d] - 0 <= now /\ due[d] <= now
    BY <1>n, <2>1
  <2> QED
    BY <2>1, <2>2, <2>3, <2>4, <2>5
<1>9. CASE CheckJudge(d)
  <2>1. check[d] = "loaded" /\ UNCHANGED <<now, last, quiet, due, since, seen, quitting>>
    BY <1>0, <1>9, JudgeFacts
  <2>2. ~(Silence(d) > Interval) /\ why[d] = "open" /\ check'[d] = "on"
    <3>1. CASE Silence(d) > Interval /\ Flag(d, "heartbeat")
      BY <1>0, <3>1, FlagType DEF Reasons
    <3> QED
      BY <1>0, <1>9, <3>1, JudgeFacts
  <2>3. /\ due[d] - Interval <= seen[d].at
        /\ ~quitting => seen[d].at <= due[d] - Interval + Late
    BY <1>open, <2>1, <2>2
  <2>4. SeenAt(d)
    BY <1>seen, <2>1
  <2>5. now - seen[d].last <= Interval
    <3>1. Silence(d) = now - seen[d].last
      BY <1>0, <2>4, SilenceFacts
    <3> QED
      BY <1>n, <2>2, <3>1
  <2>6. seen[d].last <= last[d] /\ seen[d].at <= now /\ now <= seen[d].at + Pause
    BY <2>4 DEF SeenAt
  <2>7. Deadline(d)' = Deadline(d)
    BY <2>1 DEF Deadline
  <2>8. last[d] + 2 * Interval <= Deadline(d)
    BY <1>0, DeadlineFacts
  <2>9. due[d] <= last[d] + 2 * Interval
    BY <1>n, <2>3, <2>5, <2>6
  <2>10. due[d] <= Deadline(d)
    BY <1>n, <1>d, <2>8, <2>9
  <2>11. ~quitting => now <= due[d] + Late
    BY <1>n, <2>3, <2>6
  <2> QED
    BY <2>1, <2>2, <2>7, <2>10, <2>11
<1> HIDE DEF G
<1> QED
  BY <1>2, <1>3, <1>4, <1>5, <1>6, <1>7, <1>8, <1>9, BeatKinds

\* An open connection has its check, and the check is never late.
LEMMA ClosedInTime ==
    ASSUME InboundInv
    PROVE  SilentIsClosed
<1>0. TypeOK /\ SeenInv /\ PhaseInv /\ DueInv
  BY DEF InboundInv
<1> SUFFICES ASSUME NEW d \in Conns, task[d] \in {"tell", "end"}, ~IsClosed(d), ~quitting
             PROVE  now <= Deadline(d) + Late + Pause
  BY DEF SilentIsClosed, Deadline
<1>n. /\ now \in Nat /\ due[d] \in Nat /\ seen[d].at \in Nat
      /\ Interval \in Nat /\ Late \in Nat /\ Pause \in Nat
  BY <1>0, BeatTypes
<1>d. Deadline(d) \in Nat
  BY <1>0, DeadlineFacts
<1>1. why[d] = "open"
  BY DEF IsClosed
<1>2. check[d] \in {"on", "loaded"}
  BY <1>0, <1>1 DEF PhaseInv, TypeOK, Checks
<1>3. CASE check[d] = "on"
  <2>1. due[d] <= Deadline(d) /\ now <= due[d] + Late
    BY <1>0, <1>1, <1>3 DEF DueInv
  <2> QED
    BY <1>n, <1>d, <2>1
<1>4. CASE check[d] = "loaded"
  <2>1. /\ due[d] - Interval <= Deadline(d)
        /\ seen[d].at <= due[d] - Interval + Late
    BY <1>0, <1>1, <1>4 DEF DueInv
  <2>2. now <= seen[d].at + Pause
    BY <1>0, <1>4 DEF SeenInv
  <2> QED
    BY <1>n, <1>d, <2>1, <2>2
<1> QED
  BY <1>2, <1>3, <1>4

-----------------------------------------------------------------------------
(***************************************************************************)
(* The places.                                                             *)
(***************************************************************************)
\* A loop that is read shows at least those of U that are on it.
LEMMA CountedMore ==
    ASSUME TypeOK, NEW U \in SUBSET Alive, NEW n \in Nat
    PROVE  /\ IsFiniteSet({d \in U : LoopOf[d] <= n})
           /\ Cardinality({d \in U : LoopOf[d] <= n + 1})
                <= Cardinality({d \in U : LoopOf[d] <= n}) + Cardinality(OnLoop(n + 1))
           /\ Cardinality({d \in U : LoopOf[d] <= n}) \in Nat
           /\ Cardinality({d \in U : LoopOf[d] <= n + 1}) \in Nat
<1> DEFINE A == {d \in U : LoopOf[d] <= n}
           B == {d \in U : LoopOf[d] <= n + 1}
           L == OnLoop(n + 1)
<1>1. A \subseteq Conns /\ B \subseteq Conns /\ L \subseteq Conns
  BY DEF Alive, OnLoop
<1>2. IsFiniteSet(A) /\ IsFiniteSet(B) /\ IsFiniteSet(L)
  BY <1>1, ConstantsAssumption, FS_Subset
<1>3. \A d \in U : d \in Conns /\ LoopOf[d] \in Nat /\ phase[d] \notin {"none", "gone"}
  BY Constants DEF Alive
<1>4. B \subseteq A \cup L
  <2>1. ASSUME NEW d \in B, d \notin A
        PROVE  d \in L
    <3>1. d \in U /\ LoopOf[d] <= n + 1 /\ ~(LoopOf[d] <= n)
      BY <2>1
    <3>2. LoopOf[d] = n + 1
      BY <1>3, <3>1
    <3> QED
      BY <1>3, <3>1, <3>2 DEF OnLoop
  <2> QED
    BY <2>1
<1>5. /\ Cardinality(A) \in Nat /\ Cardinality(B) \in Nat /\ Cardinality(L) \in Nat
  BY <1>2, FS_CardinalityType
<1> HIDE DEF A, B, L
<1>6. IsFiniteSet(A \cup L) /\ Cardinality(A \cup L) = Cardinality(A) + Cardinality(L) - Cardinality(A \cap L)
  BY <1>2, FS_Union
<1>7. Cardinality(B) <= Cardinality(A \cup L)
  BY <1>4, <1>6, FS_Subset
<1>8. Cardinality(A \cap L) \in Nat
  BY <1>2, FS_Intersection, FS_CardinalityType
<1>9. Cardinality(B) <= Cardinality(A) + Cardinality(L)
  BY <1>5, <1>6, <1>7, <1>8
<1> QED
  BY <1>2, <1>5, <1>9 DEF A, B, L

\* The steps after which a connection is there that was not, or one has counted more.
LEMMA CountKinds ==
    ASSUME TypeOK, [Next]_vars
    PROVE  \/ \E c \in Conns : Connect(c) \/ Count(c)
           \/ /\ UNCHANGED <<counted, sum>>
              /\ \A d \in Conns : phase[d] \in {"none", "gone"} => phase'[d] \in {"none", "gone"}
<1> DEFINE G == /\ UNCHANGED <<counted, sum>>
                /\ \A d \in Conns : phase[d] \in {"none", "gone"} => phase'[d] \in {"none", "gone"}
<1>t. phase \in [Conns -> Phases]
  BY DEF TypeOK
<1>1. ASSUME UNCHANGED <<phase, counted, sum>>
      PROVE  G
  BY <1>1
<1>2. ASSUME NEW c \in Conns, Upgrade(c) \/ Admit(c) \/ Hangup(c)
      PROVE  G
  <2>1. UNCHANGED <<counted, sum>> /\ phase[c] \notin {"none", "gone"}
    BY <1>2 DEF Upgrade, Admit, Hangup
  <2>2. \A d \in Conns : d # c => phase'[d] = phase[d]
    BY <1>t, <1>2 DEF Upgrade, Admit, Hangup, Refuse, Gone
  <2> QED
    BY <2>1, <2>2
<1>3. ASSUME \/ \E c \in Conns : Beat(c) \/ (\E kind \in Kinds : Message(c, kind)) \/ Pool(c) \/ Timer(c)
             \/ Tick \/ Quit \/ (\E r \in plan.rates : Limit(r)) \/ (\E m \in DOMAIN msgs : Job(m))
             \/ UNCHANGED vars
      PROVE  UNCHANGED <<phase, counted, sum>>
  <2>1. ASSUME NEW c \in Conns, Beat(c) \/ (\E kind \in Kinds : Message(c, kind)) \/ Pool(c) \/ Timer(c)
        PROVE  UNCHANGED <<phase, counted, sum>>
    BY <2>1 DEF Beat, Message, Pool, OpenStart, OpenAnswer, OpenSchedule, OpenTell, CloseTell,
                Timer, CheckStop, CheckLoad, CheckJudge, opening
  <2>2. ASSUME \/ Tick \/ Quit \/ (\E r \in plan.rates : Limit(r)) \/ (\E m \in DOMAIN msgs : Job(m))
               \/ UNCHANGED vars
        PROVE  UNCHANGED <<phase, counted, sum>>
    BY <2>2 DEF Tick, Quit, Limit, Job, JobTooBig, JobLimited, JobDropped, JobForward, opening, vars
  <2> QED
    BY <1>3, <2>1, <2>2
<1> HIDE DEF G
<1>4. G \/ \E c \in Conns : Connect(c) \/ Count(c)
  BY <1>1, <1>2, <1>3 DEF Next, EventLoop
<1> QED
  BY <1>4 DEF G

LEMMA CountStep ==
    ASSUME InboundInv, [Next]_vars
    PROVE  CountInv'
<1>0. TypeOK /\ TypeOK' /\ CountInv /\ PhaseInv
  BY TypeStep DEF InboundInv
<1>t. /\ counted \in [Conns -> 0 .. NumLoops] /\ sum \in [Conns -> Nat] /\ phase \in [Conns -> Phases]
      /\ \A c \in Conns : counted[c] \in Nat /\ sum[c] \in Nat /\ LoopOf[c] \in Nat /\ LoopOf[c] >= 1
  <2>1. /\ counted \in [Conns -> 0 .. NumLoops] /\ sum \in [Conns -> Nat] /\ phase \in [Conns -> Phases]
    BY <1>0 DEF TypeOK
  <2>2. NumLoops \in Nat /\ \A c \in Conns : LoopOf[c] \in 1 .. NumLoops
    BY Constants
  <2> QED
    BY <2>1, <2>2
<1> SUFFICES ASSUME NEW U \in SUBSET Alive', U # {}
             PROVE  \E x \in U : Cardinality({d \in U : LoopOf[d] <= counted'[x]}) <= sum'[x]
  BY DEF CountInv
<1>c. U \subseteq Conns
  BY DEF Alive
<1>old. ASSUME U \subseteq Alive
        PROVE  \E x \in U : Cardinality({d \in U : LoopOf[d] <= counted[x]}) <= sum[x]
  BY <1>0, <1>old DEF CountInv
<1>1. ASSUME NEW c \in Conns, Connect(c)
      PROVE  \E x \in U : Cardinality({d \in U : LoopOf[d] <= counted'[x]}) <= sum'[x]
  <2>1. /\ phase[c] = "none" /\ phase' = [phase EXCEPT ![c] = "tcp"] /\ UNCHANGED <<counted, sum>>
    BY <1>1 DEF Connect
  <2>2. CASE c \in U
    <3>1. counted[c] = 0
      BY <1>0, <2>1 DEF PhaseInv
    <3>2. {d \in U : LoopOf[d] <= counted'[c]} = {}
      BY <1>c, <1>t, <2>1, <3>1
    <3>3. Cardinality({d \in U : LoopOf[d] <= counted'[c]}) = 0
      BY <3>2, FS_EmptySet
    <3>4. sum'[c] >= 0
      BY <1>t, <2>1
    <3>5. Cardinality({d \in U : LoopOf[d] <= counted'[c]}) <= sum'[c]
      BY <1>t, <2>1, <3>3, <3>4
    <3> QED
      BY <2>2, <3>5
  <2>3. CASE c \notin U
    <3>1. U \subseteq Alive
      BY <1>t, <2>1, <2>3 DEF Alive
    <3> QED
      BY <1>old, <2>1, <3>1
  <2> QED
    BY <2>2, <2>3
<1>2. ASSUME NEW c \in Conns, Count(c)
      PROVE  \E x \in U : Cardinality({d \in U : LoopOf[d] <= counted'[x]}) <= sum'[x]
  <2>1. /\ phase' = phase
        /\ counted' = [counted EXCEPT ![c] = counted[c] + 1]
        /\ sum' = [sum EXCEPT ![c] = sum[c] + Cardinality(OnLoop(counted[c] + 1))]
    BY <1>2 DEF Count
  <2>2. U \subseteq Alive
    BY <2>1 DEF Alive
  <2>3. PICK x \in U : Cardinality({d \in U : LoopOf[d] <= counted[x]}) <= sum[x]
    BY <1>old, <2>2
  <2>4. CASE x # c
    <3>1. counted'[x] = counted[x] /\ sum'[x] = sum[x]
      BY <1>c, <1>t, <2>1, <2>4
    <3> QED
      BY <2>3, <3>1
  <2>5. CASE x = c
    <3>1. counted'[c] = counted[c] + 1 /\ sum'[c] = sum[c] + Cardinality(OnLoop(counted[c] + 1))
      BY <1>t, <2>1
    <3> DEFINE n == counted[c]
               a == Cardinality({d \in U : LoopOf[d] <= n})
               b == Cardinality({d \in U : LoopOf[d] <= n + 1})
               l == Cardinality(OnLoop(n + 1))
    <3>2. n \in Nat /\ sum[c] \in Nat
      BY <1>t
    <3> HIDE DEF n
    <3>3. b <= a + l /\ a \in Nat /\ b \in Nat /\ l \in Nat
      BY <1>0, <2>2, <3>2, CountedMore, LoopCount
    <3>4. a <= sum[c]
      BY <2>3, <2>5 DEF n
    <3> HIDE DEF a, b, l
    <3>5. b <= sum[c] + l
      BY <3>2, <3>3, <3>4
    <3>6. Cardinality({d \in U : LoopOf[d] <= counted'[c]}) <= sum'[c]
      BY <3>1, <3>5 DEF n, b, l
    <3> QED
      BY <2>5, <3>6
  <2> QED
    BY <2>4, <2>5
<1>3. ASSUME UNCHANGED <<counted, sum>>,
             \A d \in Conns : phase[d] \in {"none", "gone"} => phase'[d] \in {"none", "gone"}
      PROVE  \E x \in U : Cardinality({d \in U : LoopOf[d] <= counted'[x]}) <= sum'[x]
  <2>1. U \subseteq Alive
    BY <1>3 DEF Alive
  <2> QED
    BY <1>3, <1>old, <2>1
<1> QED
  BY <1>0, <1>1, <1>2, <1>3, CountKinds

\* Of those that are up, one has counted them all, and was let in.
LEMMA WithinPlaces ==
    ASSUME InboundInv
    PROVE  OnlineBound
<1>0. TypeOK /\ CountInv /\ PhaseInv
  BY DEF InboundInv
<1> DEFINE U == {c \in Conns : phase[c] = "up"}
<1>1. U \in SUBSET Alive
  BY DEF Alive
<1>2. CASE U = {}
  <2>1. Cardinality(U) = 0
    BY <1>2, FS_EmptySet
  <2> QED
    BY <2>1, Constants DEF OnlineBound
<1>3. CASE U # {}
  <2>1. PICK x \in U : Cardinality({d \in U : LoopOf[d] <= counted[x]}) <= sum[x]
    BY <1>0, <1>1, <1>3 DEF CountInv
  <2>2. x \in Conns /\ counted[x] = NumLoops /\ sum[x] <= MaxOnline
    BY <1>0 DEF PhaseInv
  <2>3. \A d \in U : LoopOf[d] <= NumLoops
    BY Constants
  <2>4. {d \in U : LoopOf[d] <= counted[x]} = U
    BY <2>2, <2>3
  <2>5. Cardinality(U) \in Nat
    <3>1. U \subseteq Conns
      OBVIOUS
    <3> HIDE DEF U
    <3> QED
      BY <3>1, ConstantsAssumption, FS_Subset, FS_CardinalityType
  <2>6. sum[x] \in Nat /\ MaxOnline \in Nat
    BY <1>0, <2>2, Constants DEF TypeOK
  <2>7. Cardinality(U) <= sum[x]
    BY <2>1, <2>4
  <2>8. Cardinality(U) <= MaxOnline
    <3> HIDE DEF U
    <3> QED
      BY <2>2, <2>5, <2>6, <2>7
  <2> QED
    BY <2>8 DEF OnlineBound
<1> QED
  BY <1>2, <1>3

-----------------------------------------------------------------------------
(***************************************************************************)
(* The window of a connection.                                             *)
(***************************************************************************)
Record == [conn : Conns, kind : Kinds, at : Nat, ok : BOOLEAN]

LEMMA PassedCount ==
    ASSUME NEW q, NEW c, NEW i \in Int, NEW j \in Int
    PROVE  /\ IsFiniteSet(PassedOf(q, c, i, j))
           /\ Cardinality(PassedOf(q, c, i, j)) \in Nat
           /\ \A S \in SUBSET PassedOf(q, c, i, j) :
                /\ IsFiniteSet(S) /\ Cardinality(S) \in Nat
                /\ Cardinality(S) <= Cardinality(PassedOf(q, c, i, j))
<1>1. PassedOf(q, c, i, j) \subseteq i .. j
  BY DEF PassedOf
<1>2. IsFiniteSet(i .. j)
  BY FS_Interval
<1>3. IsFiniteSet(PassedOf(q, c, i, j))
  BY <1>1, <1>2, FS_Subset
<1> QED
  BY <1>3, FS_Subset, FS_CardinalityType

\* One more message at the end, that did not pass or is somebody else's, ...
LEMMA PassedBefore ==
    ASSUME NEW q \in Seq(Record), NEW x \in Record, NEW c, NEW i \in Nat \ {0}, NEW j \in 0 .. Len(q)
    PROVE  PassedOf(Append(q, x), c, i, j) = PassedOf(q, c, i, j)
<1>1. Len(q) \in Nat /\ \A k \in 1 .. Len(q) : Append(q, x)[k] = q[k]
  OBVIOUS
<1>2. \A k \in i .. j : k \in 1 .. Len(q)
  BY <1>1
<1> HIDE DEF Record
<1> QED
  BY <1>1, <1>2 DEF PassedOf

LEMMA PassedNone ==
    ASSUME NEW q \in Seq(Record), NEW x \in Record, NEW c, ~(x.conn = c /\ x.ok),
           NEW i \in 1 .. Len(q) + 1
    PROVE  PassedOf(Append(q, x), c, i, Len(q) + 1) = PassedOf(q, c, i, Len(q))
<1>1. /\ Len(q) \in Nat /\ \A k \in 1 .. Len(q) : Append(q, x)[k] = q[k]
      /\ Append(q, x)[Len(q) + 1] = x
  OBVIOUS
<1>2. /\ \A k \in i .. Len(q) : k \in 1 .. Len(q) /\ k \in i .. Len(q) + 1
      /\ \A k \in i .. Len(q) + 1 : k \in i .. Len(q) \/ k = Len(q) + 1
  BY <1>1
<1> HIDE DEF Record
<1> QED
  BY <1>1, <1>2 DEF PassedOf

\* ... or one that passed.
LEMMA PassedOne ==
    ASSUME NEW q \in Seq(Record), NEW x \in Record, NEW c, x.conn = c, x.ok,
           NEW i \in 1 .. Len(q) + 1
    PROVE  /\ PassedOf(Append(q, x), c, i, Len(q) + 1) = PassedOf(q, c, i, Len(q)) \cup {Len(q) + 1}
           /\ Cardinality(PassedOf(Append(q, x), c, i, Len(q) + 1))
                = Cardinality(PassedOf(q, c, i, Len(q))) + 1
<1>1. /\ Len(q) \in Nat /\ \A k \in 1 .. Len(q) : Append(q, x)[k] = q[k]
      /\ Append(q, x)[Len(q) + 1] = x
  OBVIOUS
<1>2. /\ \A k \in i .. Len(q) : k \in 1 .. Len(q) /\ k \in i .. Len(q) + 1
      /\ \A k \in i .. Len(q) + 1 : k \in i .. Len(q) \/ k = Len(q) + 1
      /\ Len(q) + 1 \in i .. Len(q) + 1
      /\ Len(q) + 1 \notin i .. Len(q)
  BY <1>1
<1> HIDE DEF Record
<1>3. PassedOf(Append(q, x), c, i, Len(q) + 1) = PassedOf(q, c, i, Len(q)) \cup {Len(q) + 1}
  <2>1. ASSUME NEW k \in PassedOf(Append(q, x), c, i, Len(q) + 1)
        PROVE  k \in PassedOf(q, c, i, Len(q)) \cup {Len(q) + 1}
    BY <1>1, <1>2 DEF PassedOf
  <2>2. ASSUME NEW k \in PassedOf(q, c, i, Len(q)) \cup {Len(q) + 1}
        PROVE  k \in PassedOf(Append(q, x), c, i, Len(q) + 1)
    BY <1>1, <1>2 DEF PassedOf
  <2> QED
    BY <2>1, <2>2
<1>4. Len(q) + 1 \notin PassedOf(q, c, i, Len(q))
  BY <1>2 DEF PassedOf
<1>5. IsFiniteSet(PassedOf(q, c, i, Len(q)))
  BY <1>1, PassedCount
<1> QED
  BY <1>3, <1>4, <1>5, FS_AddElement

\* Whether a message is free does not change.
LEMMA PaidStays ==
    ASSUME NEW q \in Seq(Record), NEW x \in Record, NEW c, NEW i \in 1 .. Len(q) + 1
    PROVE  /\ Paid(Append(q, x), c, i) <=> Paid(q, c, i)
           /\ Cardinality(PassedOf(q, c, 1, i - 1)) <= Cardinality(PassedOf(q, c, 1, Len(q)))
<1>1. i - 1 \in 0 .. Len(q) /\ 1 \in Nat \ {0} /\ Len(q) \in Nat
  OBVIOUS
<1> HIDE DEF Record
<1>2. PassedOf(Append(q, x), c, 1, i - 1) = PassedOf(q, c, 1, i - 1)
  BY <1>1, PassedBefore
<1>3. \A k \in 1 .. i - 1 : k \in 1 .. Len(q)
  BY <1>1
<1>4. PassedOf(q, c, 1, i - 1) \subseteq PassedOf(q, c, 1, Len(q))
  BY <1>3 DEF PassedOf
<1>5. Cardinality(PassedOf(q, c, 1, i - 1)) <= Cardinality(PassedOf(q, c, 1, Len(q)))
  BY <1>1, <1>4, PassedCount
<1> QED
  BY <1>2, <1>5 DEF Paid

\* A sequence with one message more.
LEMMA OneMore ==
    ASSUME NEW q \in Seq(Record), NEW x \in Record
    PROVE  /\ Len(q) \in Nat /\ Len(Append(q, x)) = Len(q) + 1
           /\ \A k \in 1 .. Len(q) : Append(q, x)[k] = q[k] /\ q[k].at \in Nat
           /\ Append(q, x)[Len(q) + 1] = x
           /\ x.at \in Nat
<1>1. \A y \in Record : y.at \in Nat
  BY DEF Record
<1> HIDE DEF Record
<1>2. Len(q) \in Nat /\ \A k \in 1 .. Len(q) : q[k] \in Record
  OBVIOUS
<1> QED
  BY <1>1, <1>2

LEMMA WindowOther ==
    ASSUME NEW q \in Seq(Record), NEW x \in Record, NEW c, NEW s \in Nat, NEW r \in Int,
           WindowOf(q, c, s, r), ~(x.conn = c /\ x.ok)
    PROVE  WindowOf(Append(q, x), c, s, r)
<1> DEFINE t == Append(q, x)
           N == Len(q)
<1> HIDE DEF Record
<1>1. N \in Nat /\ Len(t) = N + 1 /\ \A k \in 1 .. N : t[k] = q[k]
  BY OneMore
<1>2. \A i \in 1 .. N + 1 : PassedOf(t, c, i, N + 1) = PassedOf(q, c, i, N)
  BY PassedNone
<1>3. \A i \in 1 .. N + 1 : Paid(t, c, i) <=> Paid(q, c, i)
  BY PaidStays
<1> HIDE DEF t, N
<1>4. PassedOf(t, c, 1, Len(t)) = PassedOf(q, c, 1, N)
  <2>1. 1 \in 1 .. N + 1
    BY <1>1
  <2> QED
    BY <1>1, <1>2, <2>1
<1>5. \A i \in PassedOf(q, c, 1, N) : i \in 1 .. N /\ i \in 1 .. N + 1
  BY <1>1 DEF PassedOf
<1>6. {i \in PassedOf(t, c, 1, Len(t)) : s <= t[i].at} = {i \in PassedOf(q, c, 1, N) : s <= q[i].at}
  BY <1>1, <1>4, <1>5
<1>7. \A i \in PassedOf(q, c, 1, N) :
        /\ t[i] = q[i] /\ PassedOf(t, c, i, Len(t)) = PassedOf(q, c, i, N)
        /\ Paid(t, c, i) <=> Paid(q, c, i)
  BY <1>1, <1>2, <1>3, <1>5
<1>8. WindowOf(q, c, s, r) /\ N = Len(q)
  BY DEF N
<1>9. WindowOf(t, c, s, r)
  BY <1>4, <1>6, <1>7, <1>8 DEF WindowOf
<1> QED
  BY <1>9 DEF t

\* What a message of c that passed changes.
LEMMA WindowGrows ==
    ASSUME NEW q \in Seq(Record), NEW x \in Record, NEW c, x.conn = c, x.ok
    PROVE  /\ PassedOf(Append(q, x), c, 1, Len(Append(q, x))) = PassedOf(q, c, 1, Len(q)) \cup {Len(q) + 1}
           /\ Cardinality(PassedOf(Append(q, x), c, 1, Len(Append(q, x))))
                = Cardinality(PassedOf(q, c, 1, Len(q))) + 1
           /\ Cardinality(PassedOf(Append(q, x), c, Len(q) + 1, Len(Append(q, x)))) = 1
           /\ Paid(Append(q, x), c, Len(q) + 1) <=> Cardinality(PassedOf(q, c, 1, Len(q))) >= ZeroMax
<1> DEFINE t == Append(q, x)
           N == Len(q)
<1> HIDE DEF Record
<1>1. N \in Nat /\ Len(t) = N + 1 /\ \A k \in 1 .. N : t[k] = q[k] /\ q[k].at \in Nat
  BY OneMore
<1>2. \A i \in 1 .. N + 1 :
        /\ PassedOf(t, c, i, N + 1) = PassedOf(q, c, i, N) \cup {N + 1}
        /\ Cardinality(PassedOf(t, c, i, N + 1)) = Cardinality(PassedOf(q, c, i, N)) + 1
  BY PassedOne
<1>3. \A i \in 1 .. N + 1 : Paid(t, c, i) <=> Paid(q, c, i)
  BY PaidStays
<1> HIDE DEF t, N
<1>5. 1 \in 1 .. N + 1 /\ N + 1 \in 1 .. N + 1 /\ (N + 1) - 1 = N
  BY <1>1
<1>7. PassedOf(q, c, N + 1, N) = {}
  <2>1. N + 1 .. N = {}
    BY <1>1
  <2> QED
    BY <2>1 DEF PassedOf
<1>8. Cardinality(PassedOf(q, c, N + 1, N)) = 0
  BY <1>7, FS_EmptySet
<1>9. Cardinality(PassedOf(t, c, N + 1, Len(t))) = 1
  BY <1>1, <1>2, <1>5, <1>8
<1>10. Paid(t, c, N + 1) <=> Cardinality(PassedOf(q, c, 1, N)) >= ZeroMax
  <2>1. Paid(q, c, N + 1) <=> Cardinality(PassedOf(q, c, 1, (N + 1) - 1)) >= ZeroMax
    BY Zenon DEF Paid
  <2> QED
    BY <1>3, <1>5, <2>1, Zenon
<1>11. /\ PassedOf(t, c, 1, Len(t)) = PassedOf(q, c, 1, N) \cup {N + 1}
       /\ Cardinality(PassedOf(t, c, 1, Len(t))) = Cardinality(PassedOf(q, c, 1, N)) + 1
  BY <1>1, <1>2, <1>5
<1> QED
  BY <1>9, <1>10, <1>11 DEF t, N

LEMMA WindowGrowsAt ==
    ASSUME NEW q \in Seq(Record), NEW x \in Record, NEW c, x.conn = c, x.ok,
           NEW i \in PassedOf(q, c, 1, Len(q))
    PROVE  /\ Append(q, x)[i] = q[i] /\ q[i].at \in Nat
           /\ Cardinality(PassedOf(q, c, i, Len(q))) \in Nat
           /\ Cardinality(PassedOf(Append(q, x), c, i, Len(Append(q, x))))
                = Cardinality(PassedOf(q, c, i, Len(q))) + 1
           /\ Paid(Append(q, x), c, i) <=> Paid(q, c, i)
<1> DEFINE t == Append(q, x)
           N == Len(q)
<1>0. N \in Nat /\ i \in 1 .. N /\ i \in 1 .. N + 1 /\ i \in Int
  BY DEF PassedOf
<1> HIDE DEF Record
<1>1. Len(t) = N + 1 /\ t[i] = q[i] /\ q[i].at \in Nat
  BY <1>0, OneMore
<1>2. Cardinality(PassedOf(t, c, i, N + 1)) = Cardinality(PassedOf(q, c, i, N)) + 1
  BY <1>0, PassedOne
<1>3. Paid(t, c, i) <=> Paid(q, c, i)
  BY <1>0, PaidStays
<1>4. Cardinality(PassedOf(q, c, i, N)) \in Nat
  BY <1>0, PassedCount
<1> HIDE DEF t, N
<1>5. Cardinality(PassedOf(t, c, i, Len(t))) = Cardinality(PassedOf(q, c, i, N)) + 1
  BY <1>1, <1>2
<1> QED
  BY <1>1, <1>3, <1>4, <1>5 DEF t, N

\* A free message.
LEMMA WindowFree ==
    ASSUME NEW q \in Seq(Record), NEW x \in Record, NEW c, NEW s \in Nat, NEW r \in Int,
           WindowOf(q, c, s, r), x.conn = c, x.ok, r < 0
    PROVE  WindowOf(Append(q, x), c, s, r + 1)
<1> DEFINE t == Append(q, x)
           N == Len(q)
           P == PassedOf(q, c, 1, N)
           Q == PassedOf(t, c, 1, Len(t))
<1> HIDE DEF Record
<1>0. WindowMax \in Nat /\ ZeroMax \in Nat
  BY Constants
<1>1. Q = P \cup {N + 1} /\ Cardinality(Q) = Cardinality(P) + 1
  BY WindowGrows
<1>2. \A i \in P : Paid(t, c, i) <=> Paid(q, c, i)
  BY WindowGrowsAt
<1>3. Paid(t, c, N + 1) <=> Cardinality(P) >= ZeroMax
  BY WindowGrows
<1>4. Cardinality(P) = ZeroMax + r /\ \A i \in P : ~Paid(q, c, i)
  BY DEF WindowOf
<1>5. N \in Nat
  BY OneMore
<1> HIDE DEF t, N, P, Q
<1>6. \A i \in Q : ~Paid(t, c, i)
  BY <1>0, <1>1, <1>2, <1>3, <1>4
<1>7. Cardinality(Q) = ZeroMax + (r + 1) /\ r + 1 <= WindowMax
  BY <1>0, <1>1, <1>4
<1>8. ASSUME r + 1 >= 0
      PROVE  Cardinality(Q) >= ZeroMax + (r + 1) /\ Cardinality({i \in Q : s <= t[i].at}) >= r + 1
  <2>1. {i \in Q : s <= t[i].at} \in SUBSET Q
    OBVIOUS
  <2>2. Len(t) \in Int
    BY <1>5, OneMore DEF t
  <2>3. Cardinality({i \in Q : s <= t[i].at}) \in Nat
    BY <2>1, <2>2, PassedCount DEF Q
  <2> QED
    BY <1>0, <1>7, <1>8, <2>3
<1>9. WindowOf(t, c, s, r + 1)
  BY <1>6, <1>7, <1>8 DEF WindowOf, Q
<1> QED
  BY <1>9 DEF t

\* One more in the window.
LEMMA WindowSame ==
    ASSUME NEW q \in Seq(Record), NEW x \in Record, NEW c, NEW s \in Nat, NEW r \in Int,
           WindowOf(q, c, s, r), x.conn = c, x.ok, r >= 0, s <= x.at, x.at - s <= Size, r < WindowMax
    PROVE  WindowOf(Append(q, x), c, s, r + 1)
<1> DEFINE t == Append(q, x)
           N == Len(q)
           P == PassedOf(q, c, 1, N)
           Q == PassedOf(t, c, 1, Len(t))
           now0 == x.at
           old(i) == Cardinality(PassedOf(q, c, i, N))
           new(i) == Cardinality(PassedOf(t, c, i, Len(t)))
<1> HIDE DEF Record
<1>0. WindowMax \in Nat /\ ZeroMax \in Nat /\ Size \in Nat
  BY Constants
<1>1. Q = P \cup {N + 1} /\ Cardinality(Q) = Cardinality(P) + 1
  BY WindowGrows
<1>2. \A i \in P :
        /\ t[i] = q[i] /\ q[i].at \in Nat /\ old(i) \in Nat /\ new(i) = old(i) + 1
        /\ Paid(t, c, i) <=> Paid(q, c, i)
  BY WindowGrowsAt
<1>3. new(N + 1) = 1
  BY WindowGrows
<1>4. /\ Cardinality(P) >= ZeroMax + r
      /\ Cardinality({i \in P : s <= q[i].at}) >= r
      /\ \A i \in P : Paid(q, c, i) =>
            /\ q[i].at <= s + Size
            /\ \/ s <= q[i].at /\ old(i) <= r
               \/ q[i].at < s /\ old(i) <= WindowMax + r
               \/ s - q[i].at > Size
  BY DEF WindowOf
<1>5. N \in Nat /\ t[N + 1].at = now0 /\ now0 \in Nat /\ Len(t) = N + 1
  BY OneMore
<1>6. s <= now0 /\ now0 - s <= Size
  OBVIOUS
<1>7. \A i \in P : i \in 1 .. N
  BY DEF PassedOf
<1>8. Cardinality(P) \in Nat /\ \A S \in SUBSET P : IsFiniteSet(S) /\ Cardinality(S) \in Nat
  <2>1. 1 \in Int /\ N \in Int
    BY <1>5
  <2> QED
    BY <2>1, PassedCount, Zenon
<1> HIDE DEF t, N, P, Q, now0, old, new
<1>9. Cardinality({i \in Q : s <= t[i].at}) >= r + 1
  <2> DEFINE R == {i \in P : s <= q[i].at}
             T == {i \in Q : s <= t[i].at}
  <2>1. T = R \cup {N + 1}
    BY <1>1, <1>2, <1>5, <1>6
  <2>2. N + 1 \notin R
    BY <1>5, <1>7
  <2>3. IsFiniteSet(R) /\ Cardinality(R) \in Nat /\ Cardinality(R) >= r
    BY <1>4, <1>8
  <2> HIDE DEF R, T
  <2>4. Cardinality(R \cup {N + 1}) = Cardinality(R) + 1
    BY <2>2, <2>3, FS_AddElement
  <2>5. Cardinality(T) >= r + 1
    BY <2>1, <2>3, <2>4
  <2> QED
    BY <2>5 DEF T
<1>10. ASSUME NEW i \in Q, Paid(t, c, i)
       PROVE  /\ t[i].at <= s + Size
              /\ \/ s <= t[i].at /\ new(i) <= r + 1
                 \/ t[i].at < s /\ new(i) <= WindowMax + (r + 1)
                 \/ s - t[i].at > Size
  <2>1. CASE i \in P
    <3>1. t[i] = q[i] /\ q[i].at \in Nat /\ old(i) \in Nat /\ new(i) = old(i) + 1 /\ Paid(q, c, i)
      BY <1>2, <1>10, <2>1
    <3>2. /\ q[i].at <= s + Size
          /\ \/ s <= q[i].at /\ old(i) <= r
             \/ q[i].at < s /\ old(i) <= WindowMax + r
             \/ s - q[i].at > Size
      BY <1>4, <2>1, <3>1
    <3> QED
      BY <1>0, <3>1, <3>2
  <2>2. CASE i = N + 1
    BY <1>0, <1>3, <1>5, <1>6, <2>2
  <2> QED
    BY <1>1, <2>1, <2>2
<1>11. Cardinality(Q) >= ZeroMax + (r + 1) /\ r + 1 <= WindowMax /\ r + 1 >= 0 /\ ~(r + 1 < 0)
  BY <1>0, <1>1, <1>4, <1>8
<1>12. WindowOf(t, c, s, r + 1)
  BY <1>9, <1>10, <1>11 DEF WindowOf, Q, new
<1> QED
  BY <1>12 DEF t

\* The first of a new window.
LEMMA WindowNew ==
    ASSUME NEW q \in Seq(Record), NEW x \in Record, NEW c, NEW s \in Nat, NEW r \in Int,
           WindowOf(q, c, s, r), x.conn = c, x.ok, r >= 0, x.at - s > Size, 0 < WindowMax
    PROVE  WindowOf(Append(q, x), c, x.at, 1)
<1> DEFINE t == Append(q, x)
           N == Len(q)
           P == PassedOf(q, c, 1, N)
           Q == PassedOf(t, c, 1, Len(t))
           now0 == x.at
           old(i) == Cardinality(PassedOf(q, c, i, N))
           new(i) == Cardinality(PassedOf(t, c, i, Len(t)))
<1> HIDE DEF Record
<1>0. WindowMax \in Nat /\ ZeroMax \in Nat /\ Size \in Nat
  BY Constants
<1>1. Q = P \cup {N + 1} /\ Cardinality(Q) = Cardinality(P) + 1
  BY WindowGrows
<1>2. \A i \in P :
        /\ t[i] = q[i] /\ q[i].at \in Nat /\ old(i) \in Nat /\ new(i) = old(i) + 1
        /\ Paid(t, c, i) <=> Paid(q, c, i)
  BY WindowGrowsAt
<1>3. new(N + 1) = 1
  BY WindowGrows
<1>4. /\ Cardinality(P) >= ZeroMax + r /\ r <= WindowMax
      /\ \A i \in P : Paid(q, c, i) =>
            /\ q[i].at <= s + Size
            /\ \/ s <= q[i].at /\ old(i) <= r
               \/ q[i].at < s /\ old(i) <= WindowMax + r
               \/ s - q[i].at > Size
  BY DEF WindowOf
<1>5. N \in Nat /\ t[N + 1].at = now0 /\ now0 \in Nat /\ Len(t) = N + 1
  BY OneMore
<1>6. now0 - s > Size
  OBVIOUS
<1>7. Cardinality(P) \in Nat
  <2>1. 1 \in Int /\ N \in Int
    BY <1>5
  <2> QED
    BY <2>1, PassedCount, Zenon
<1>8. \A S \in SUBSET Q : IsFiniteSet(S) /\ Cardinality(S) \in Nat
  <2>1. 1 \in Int /\ Len(t) \in Int
    BY <1>5
  <2> QED
    BY <2>1, PassedCount, Zenon
<1> HIDE DEF t, N, P, Q, now0, old, new
<1>9. Cardinality({i \in Q : now0 <= t[i].at}) >= 1
  <2> DEFINE T == {i \in Q : now0 <= t[i].at}
  <2>1. N + 1 \in T /\ T \in SUBSET Q
    BY <1>1, <1>5
  <2>2. IsFiniteSet(T) /\ Cardinality(T) \in Nat
    BY <1>8, <2>1
  <2> HIDE DEF T
  <2>3. Cardinality(T) # 0
    BY <2>1, <2>2, FS_EmptySet
  <2>4. Cardinality(T) >= 1
    BY <2>2, <2>3
  <2> QED
    BY <2>4 DEF T
<1>10. ASSUME NEW i \in Q, Paid(t, c, i)
       PROVE  /\ t[i].at <= now0 + Size
              /\ \/ now0 <= t[i].at /\ new(i) <= 1
                 \/ t[i].at < now0 /\ new(i) <= WindowMax + 1
                 \/ now0 - t[i].at > Size
  <2>1. CASE i \in P
    <3>1. t[i] = q[i] /\ q[i].at \in Nat /\ old(i) \in Nat /\ new(i) = old(i) + 1 /\ Paid(q, c, i)
      BY <1>2, <1>10, <2>1
    <3>2. /\ q[i].at <= s + Size
          /\ \/ s <= q[i].at /\ old(i) <= r
             \/ q[i].at < s /\ old(i) <= WindowMax + r
             \/ s - q[i].at > Size
      BY <1>4, <2>1, <3>1
    <3>3. r <= WindowMax
      BY <1>4
    <3>4. s <= q[i].at => q[i].at < now0 /\ (old(i) <= r => new(i) <= WindowMax + 1)
      BY <1>0, <1>5, <1>6, <3>1, <3>2, <3>3
    <3>5. q[i].at < s => now0 - q[i].at > Size
      BY <1>0, <1>5, <1>6, <3>1
    <3> QED
      BY <1>0, <1>5, <1>6, <3>1, <3>2, <3>4, <3>5, SMTT(30)
  <2>2. CASE i = N + 1
    BY <1>0, <1>3, <1>5, <2>2
  <2> QED
    BY <1>1, <2>1, <2>2
<1>11. Cardinality(Q) >= ZeroMax + 1 /\ 1 <= WindowMax
  BY <1>0, <1>1, <1>4, <1>7
<1>12. ~(1 < 0) /\ 1 >= 0
  OBVIOUS
<1>13. WindowOf(t, c, now0, 1)
  BY <1>12, <1>9, <1>10, <1>11 DEF WindowOf, Q, new
<1> QED
  BY <1>13 DEF t, now0

\* A new window without room.
LEMMA WindowNone ==
    ASSUME NEW q \in Seq(Record), NEW x \in Record, NEW c, NEW s \in Nat, NEW r \in Int,
           WindowOf(q, c, s, r), ~x.ok, r >= 0, x.at - s > Size, 0 = WindowMax
    PROVE  WindowOf(Append(q, x), c, x.at, 0)
<1> DEFINE t == Append(q, x)
           Q == PassedOf(t, c, 1, Len(t))
           now0 == x.at
           num(i) == Cardinality(PassedOf(t, c, i, Len(t)))
<1>t. ~(x.conn = c /\ x.ok)
  OBVIOUS
<1> HIDE DEF Record
<1>0. ZeroMax \in Nat /\ Size \in Nat
  BY Constants
<1>1. WindowOf(t, c, s, r)
  BY <1>t, WindowOther
<1>2. /\ r <= WindowMax
      /\ Cardinality(Q) >= ZeroMax + r
      /\ \A i \in Q : Paid(t, c, i) =>
            /\ t[i].at <= s + Size
            /\ \/ s <= t[i].at /\ num(i) <= r
               \/ t[i].at < s /\ num(i) <= WindowMax + r
               \/ s - t[i].at > Size
  BY <1>1 DEF WindowOf
<1>3. r = 0 /\ WindowMax = 0
  BY <1>2
<1>4. now0 \in Nat /\ now0 - s > Size
  BY OneMore
<1>5. \A i \in Q : t[i].at \in Nat /\ num(i) \in Nat
  <2>1. Len(q) \in Nat /\ Len(t) = Len(q) + 1 /\ \A k \in 1 .. Len(q) : t[k] = q[k] /\ q[k].at \in Nat
    BY OneMore
  <2>2. t[Len(q) + 1].at \in Nat
    BY OneMore
  <2>3. ASSUME NEW i \in Q PROVE t[i].at \in Nat /\ num(i) \in Nat
    <3>1. i \in 1 .. Len(t)
      BY DEF PassedOf
    <3> HIDE DEF t, Q
    <3>2. (i \in 1 .. Len(q) \/ i = Len(q) + 1) /\ i \in Int /\ Len(t) \in Int
      BY <2>1, <3>1
    <3>3. t[i].at \in Nat
      BY <2>1, <2>2, <3>2
    <3> QED
      BY <3>2, <3>3, PassedCount
  <2> QED
    BY <2>3
<1>6. Cardinality({i \in Q : now0 <= t[i].at}) >= 0
  <2> DEFINE T == {i \in Q : now0 <= t[i].at}
  <2>1. T \in SUBSET Q
    OBVIOUS
  <2>2. 1 \in Int /\ Len(t) \in Int
    BY OneMore
  <2>3. Cardinality(T) \in Nat
    BY <2>1, <2>2, PassedCount
  <2> HIDE DEF T
  <2>4. Cardinality(T) >= 0
    BY <2>3
  <2> QED
    BY <2>4 DEF T
<1> HIDE DEF t, Q, now0, num
<1>7. ASSUME NEW i \in Q, Paid(t, c, i)
      PROVE  /\ t[i].at <= now0 + Size
             /\ \/ now0 <= t[i].at /\ num(i) <= 0
                \/ t[i].at < now0 /\ num(i) <= WindowMax + 0
                \/ now0 - t[i].at > Size
  <2>1. t[i].at \in Nat /\ num(i) \in Nat
    BY <1>5
  <2>2. /\ t[i].at <= s + Size
        /\ \/ s <= t[i].at /\ num(i) <= r
           \/ t[i].at < s /\ num(i) <= WindowMax + r
           \/ s - t[i].at > Size
    BY <1>2, <1>7
  <2> QED
    BY <1>0, <1>3, <1>4, <2>1, <2>2
<1>8. ~(0 < 0) /\ 0 >= 0 /\ 0 <= WindowMax /\ Cardinality(Q) >= ZeroMax + 0
  <2>1. Cardinality(Q) >= ZeroMax + r /\ r = 0
    BY <1>2, <1>3
  <2>2. Cardinality(Q) >= ZeroMax + 0
    BY <2>1, Zenon
  <2> QED
    BY <1>3, <2>2
<1>9. WindowOf(t, c, now0, 0)
  BY <1>6, <1>7, <1>8 DEF WindowOf, Q, num
<1> QED
  BY <1>9 DEF t, now0

\* The new message of c.
LEMMA NewMessage ==
    ASSUME TypeOK, NEW c \in Conns, NEW kind \in Kinds, Message(c, kind)
    PROVE  \E x \in Record :
              /\ x.conn = c /\ x.at = now /\ x.ok = Allow(c).ok
              /\ msgs \in Seq(Record) /\ msgs' = Append(msgs, x)
<1> DEFINE x == [conn |-> c, kind |-> kind, at |-> now, ok |-> Allow(c).ok]
<1>1. now \in Nat /\ Allow(c).ok \in BOOLEAN
  BY ClockType, AllowCases
<1>2. x \in Record /\ x.conn = c /\ x.at = now /\ x.ok = Allow(c).ok
  BY <1>1 DEF Record
<1>3. msgs \in Seq(Record)
  BY DEF TypeOK, Record
<1>4. msgs' = Append(msgs, x)
  BY MessageFacts
<1> HIDE DEF x
<1> QED
  BY <1>2, <1>3, <1>4

LEMMA WindowOfMessage ==
    ASSUME InboundInv, NEW c \in Conns, NEW kind \in Kinds, Message(c, kind)
    PROVE  start'[c] <= now /\ WindowOf(msgs', c, start'[c], requests'[c])
<1>0. TypeOK /\ WindowInv /\ now \in Nat /\ start[c] \in Nat /\ requests[c] \in Int
  <2>1. TypeOK /\ WindowInv
    BY DEF InboundInv
  <2> QED
    BY <2>1, ClockType DEF TypeOK
<1>1. /\ start' = [start EXCEPT ![c] = Allow(c).start]
      /\ requests' = [requests EXCEPT ![c] = Allow(c).requests]
      /\ phase[c] = "up"
  BY <1>0, MessageFacts
<1>2. start'[c] = Allow(c).start /\ requests'[c] = Allow(c).requests
  BY <1>0, <1>1 DEF TypeOK
<1>3. PICK x \in Record :
         /\ x.conn = c /\ x.at = now /\ x.ok = Allow(c).ok
         /\ msgs \in Seq(Record) /\ msgs' = Append(msgs, x)
  BY <1>0, NewMessage
<1>4. start[c] <= now /\ WindowOf(msgs, c, start[c], requests[c])
  BY <1>0, <1>1 DEF WindowInv
<1> HIDE DEF Record
<1>5. CASE requests[c] < 0 /\ Allow(c) = [ok |-> TRUE, start |-> start[c], requests |-> requests[c] + 1]
  <2>1. x.ok /\ start'[c] = start[c] /\ requests'[c] = requests[c] + 1
    BY <1>2, <1>3, <1>5
  <2>2. WindowOf(Append(msgs, x), c, start[c], requests[c] + 1)
    BY <1>0, <1>3, <1>4, <1>5, <2>1, WindowFree
  <2> QED
    BY <1>3, <1>4, <2>1, <2>2
<1>6. CASE /\ requests[c] >= 0 /\ now - start[c] <= Size /\ requests[c] < WindowMax
           /\ Allow(c) = [ok |-> TRUE, start |-> start[c], requests |-> requests[c] + 1]
  <2>1. x.ok /\ start'[c] = start[c] /\ requests'[c] = requests[c] + 1
    BY <1>2, <1>3, <1>6
  <2>2. WindowOf(Append(msgs, x), c, start[c], requests[c] + 1)
    BY <1>0, <1>3, <1>4, <1>6, <2>1, WindowSame
  <2> QED
    BY <1>3, <1>4, <2>1, <2>2
<1>7. CASE /\ requests[c] >= 0 /\ now - start[c] <= Size /\ requests[c] >= WindowMax
           /\ Allow(c) = [ok |-> FALSE, start |-> start[c], requests |-> requests[c]]
  <2>1. ~x.ok /\ start'[c] = start[c] /\ requests'[c] = requests[c]
    BY <1>2, <1>3, <1>7
  <2>2. WindowOf(Append(msgs, x), c, start[c], requests[c])
    BY <1>0, <1>3, <1>4, <2>1, WindowOther
  <2> QED
    BY <1>3, <1>4, <2>1, <2>2
<1>8. CASE /\ requests[c] >= 0 /\ now - start[c] > Size /\ 0 < WindowMax
           /\ Allow(c) = [ok |-> TRUE, start |-> now, requests |-> 1]
  <2>1. x.ok /\ start'[c] = now /\ requests'[c] = 1
    BY <1>2, <1>3, <1>8
  <2>2. WindowOf(Append(msgs, x), c, x.at, 1)
    BY <1>0, <1>3, <1>4, <1>8, <2>1, WindowNew
  <2> QED
    BY <1>0, <1>3, <1>4, <2>1, <2>2
<1>9. CASE /\ requests[c] >= 0 /\ now - start[c] > Size /\ 0 = WindowMax
           /\ Allow(c) = [ok |-> FALSE, start |-> now, requests |-> 0]
  <2>1. ~x.ok /\ start'[c] = now /\ requests'[c] = 0
    BY <1>2, <1>3, <1>9
  <2>2. WindowOf(Append(msgs, x), c, x.at, 0)
    BY <1>0, <1>3, <1>4, <1>9, <2>1, WindowNone
  <2> QED
    BY <1>0, <1>3, <1>4, <2>1, <2>2
<1> QED
  BY <1>0, <1>5, <1>6, <1>7, <1>8, <1>9, AllowCases

LEMMA WindowStep ==
    ASSUME InboundInv, [Next]_vars
    PROVE  WindowInv'
<1>t. TypeOK /\ WindowInv /\ MessageInv
  BY DEF InboundInv
<1>0. now \in Nat /\ now' \in Nat /\ now <= now' /\ TypeOK'
  <2>1. now' = now \/ now' = now + 1
    BY QuietlyLeaves, StepKinds DEF Tick, Connect, Beat, Message
  <2>2. now \in Nat /\ TypeOK'
    BY <1>t, ClockType, TypeStep
  <2> QED
    BY <2>1, <2>2
<1>s. \A d \in Conns : start[d] \in Nat /\ requests[d] \in Int
  BY <1>t DEF TypeOK
<1>w. \A d \in Conns : start'[d] <= now'
  <2>1. ASSUME start' = start
        PROVE  \A d \in Conns : start'[d] <= now'
    <3>1. \A d \in Conns : start[d] <= now /\ start[d] \in Nat
      BY <1>t, <1>s DEF WindowInv
    <3> QED
      BY <1>0, <2>1, <3>1
  <2>2. ASSUME NEW c \in Conns, NEW kind \in Kinds, Message(c, kind), NEW d \in Conns
        PROVE  start'[d] <= now'
    <3>1. start' = [start EXCEPT ![c] = Allow(c).start] /\ now' = now
      BY <1>t, <2>2, MessageFacts
    <3>2. d # c => start'[d] = start[d]
      BY <1>t, <3>1 DEF TypeOK
    <3> QED
      BY <1>t, <2>2, <3>1, <3>2, WindowOfMessage DEF WindowInv
  <2> QED
    BY <2>1, <2>2, QuietlyLeaves, StepKinds DEF Tick, Connect, Beat, window
<1> SUFFICES ASSUME NEW d \in Conns, phase'[d] # "none"
             PROVE  WindowOf(msgs', d, start'[d], requests'[d])
  BY <1>w DEF WindowInv
<1>1. ASSUME phase[d] # "none", start'[d] = start[d], requests'[d] = requests[d], msgs' = msgs
      PROVE  WindowOf(msgs', d, start'[d], requests'[d])
  <2>1. WindowOf(msgs, d, start[d], requests[d])
    BY <1>t, <1>1 DEF WindowInv
  <2> QED
    BY <1>1, <2>1
<1>2. CASE Quietly
  <2>1. start' = start /\ requests' = requests /\ msgs' = msgs
    BY <1>2, QuietlyLeaves
  <2>2. phase[d] # "none"
    <3>1. ASSUME NEW c \in Conns, Upgrade(c) \/ Admit(c) \/ Hangup(c), phase[d] = "none"
          PROVE  phase'[d] = "none"
      <4>1. phase[c] # "none" /\ phase \in [Conns -> Phases]
        BY <1>t, <3>1 DEF TypeOK, Upgrade, Admit, Hangup
      <4>2. c # d
        BY <3>1, <4>1
      <4> QED
        BY <3>1, <4>1, <4>2 DEF Upgrade, Admit, Hangup, Refuse, Gone
    <3>2. ASSUME NEW c \in Conns, Count(c) \/ Pool(c) \/ Timer(c)
          PROVE  phase' = phase
      BY <3>2 DEF Count, Pool, OpenStart, OpenAnswer, OpenSchedule, OpenTell, CloseTell,
                  Timer, CheckStop, CheckLoad, CheckJudge, opening
    <3>3. ASSUME Quit \/ (\E r \in plan.rates : Limit(r)) \/ (\E m \in DOMAIN msgs : Job(m)) \/ UNCHANGED vars
          PROVE  phase' = phase
      BY <3>3 DEF Quit, Limit, Job, JobTooBig, JobLimited, JobDropped, JobForward, opening, vars
    <3> QED
      BY <1>2, <3>1, <3>2, <3>3 DEF Quietly
  <2> QED
    BY <1>1, <2>1, <2>2
<1>3. CASE Tick
  <2>1. start' = start /\ requests' = requests /\ msgs' = msgs /\ phase' = phase
    BY <1>3 DEF Tick, window, messages, opening
  <2> QED
    BY <1>1, <2>1
<1>4. ASSUME NEW c \in Conns, Connect(c)
      PROVE  WindowOf(msgs', d, start'[d], requests'[d])
  <2>1. /\ phase' = [phase EXCEPT ![c] = "tcp"] /\ phase[c] = "none"
        /\ requests' = [requests EXCEPT ![c] = 0 - ZeroMax]
        /\ start' = start /\ msgs' = msgs /\ now' = now
    BY <1>4 DEF Connect, messages
  <2>2. phase \in [Conns -> Phases] /\ requests \in [Conns -> Int]
    BY <1>t DEF TypeOK
  <2>3. CASE d # c
    <3>1. phase'[d] = phase[d] /\ requests'[d] = requests[d]
      BY <2>1, <2>2, <2>3
    <3> QED
      BY <1>1, <2>1, <3>1
  <2>4. CASE d = c
    <3>1. requests'[d] = 0 - ZeroMax
      BY <2>1, <2>2, <2>4
    <3>2. PassedOf(msgs, d, 1, Len(msgs)) = {}
      <4>1. Len(msgs) \in Nat /\ DOMAIN msgs = 1 .. Len(msgs)
        BY <1>t, MessageTypes
      <4>2. \A k \in 1 .. Len(msgs) : msgs[k].conn # d
        BY <1>t, <2>1, <2>4, <4>1 DEF MessageInv
      <4> QED
        BY <4>2 DEF PassedOf
    <3>3. Cardinality(PassedOf(msgs, d, 1, Len(msgs))) = 0
      BY <3>2, FS_EmptySet
    <3>4. WindowMax \in Nat /\ ZeroMax \in Nat
      BY Constants
    <3>5. /\ 0 - ZeroMax <= WindowMax
          /\ 0 = ZeroMax + (0 - ZeroMax)
          /\ 0 - ZeroMax >= 0 => 0 >= 0 - ZeroMax /\ 0 >= ZeroMax + (0 - ZeroMax)
      BY <3>4
    <3>6. {i \in {} : start[d] <= msgs[i].at} = {}
      OBVIOUS
    <3>7. Cardinality({}) = 0
      BY FS_EmptySet
    <3>8. WindowOf(msgs, d, start[d], 0 - ZeroMax)
      BY <3>2, <3>5, <3>6, <3>7 DEF WindowOf
    <3> QED
      BY <2>1, <3>1, <3>8
  <2> QED
    BY <2>3, <2>4
<1>5. ASSUME NEW c \in Conns, Beat(c)
      PROVE  WindowOf(msgs', d, start'[d], requests'[d])
  <2>1. start' = start /\ requests' = requests /\ msgs' = msgs /\ phase' = phase
    BY <1>5 DEF Beat, window, messages, opening
  <2> QED
    BY <1>1, <2>1
<1>6. ASSUME NEW c \in Conns, NEW kind \in Kinds, Message(c, kind)
      PROVE  WindowOf(msgs', d, start'[d], requests'[d])
  <2>1. /\ start' = [start EXCEPT ![c] = Allow(c).start]
        /\ requests' = [requests EXCEPT ![c] = Allow(c).requests]
        /\ phase' = phase /\ now' = now
    BY <1>t, <1>6, MessageFacts
  <2>2. CASE d = c
    BY <1>6, <2>1, <2>2, WindowOfMessage
  <2>3. CASE d # c
    <3>1. start'[d] = start[d] /\ requests'[d] = requests[d]
      BY <1>t, <2>1, <2>3 DEF TypeOK
    <3>2. PICK x \in Record : x.conn = c /\ msgs \in Seq(Record) /\ msgs' = Append(msgs, x)
      BY <1>t, <1>6, NewMessage
    <3>3. WindowOf(msgs, d, start[d], requests[d])
      BY <1>t, <2>1 DEF WindowInv
    <3> HIDE DEF Record
    <3>4. WindowOf(Append(msgs, x), d, start[d], requests[d])
      BY <1>s, <2>3, <3>2, <3>3, WindowOther
    <3> QED
      BY <2>1, <3>1, <3>2, <3>3, <3>4
  <2> QED
    BY <2>2, <2>3
<1> QED
  BY <1>2, <1>3, <1>4, <1>5, <1>6, StepKinds

-----------------------------------------------------------------------------
(***************************************************************************)
(* What the limiter lets pass, and what it refuses.                        *)
(***************************************************************************)
LEMMA WithinStep ==
    ASSUME InboundInv, [Next]_vars
    PROVE  WithinLimit'
<1>t. TypeOK /\ WithinLimit
  BY DEF InboundInv
<1>1. ASSUME msgs' = msgs
      PROVE  WithinLimit'
  BY <1>t, <1>1 DEF WithinLimit, Passed
<1>2. ASSUME NEW c \in Conns, NEW kind \in Kinds, Message(c, kind)
      PROVE  WithinLimit'
  <2> SUFFICES ASSUME NEW d \in Conns, NEW j \in DOMAIN msgs', NEW i \in PassedOf(msgs', d, 1, j),
                      Cardinality(PassedOf(msgs', d, 1, i - 1)) >= ZeroMax,
                      Cardinality(PassedOf(msgs', d, i, j)) > 2 * WindowMax
               PROVE  msgs'[j].at - msgs'[i].at > Size
    BY DEF WithinLimit, Passed, PassedOf
  <2> DEFINE N == Len(msgs)
             num == Cardinality(PassedOf(msgs', d, i, j))
  <2>1. PICK x \in Record : x.at = now /\ msgs \in Seq(Record) /\ msgs' = Append(msgs, x)
    BY <1>t, <1>2, NewMessage
  <2>2. TypeOK' /\ MessageInv' /\ WindowInv' /\ now' = now /\ now \in Nat
    BY <1>t, <1>2, TypeStep, MessageStep, WindowStep, MessageFacts, ClockType
  <2>3. Len(msgs') \in Nat /\ DOMAIN msgs' = 1 .. Len(msgs')
    BY <2>1
  <2> HIDE DEF Record
  <2>4. /\ N \in Nat /\ Len(msgs') = N + 1 /\ msgs'[N + 1] = x
        /\ \A k \in 1 .. N : msgs'[k] = msgs[k] /\ msgs[k].at \in Nat
    BY <2>1, OneMore
  <2>5. DOMAIN msgs = 1 .. N
    BY <2>1
  <2>6. i \in 1 .. j /\ msgs'[i].conn = d /\ j \in 1 .. N + 1
    BY <2>3, <2>4 DEF PassedOf
  <2>7. CASE j \in 1 .. N
    <3>1. j \in 0 .. N /\ i - 1 \in 0 .. N /\ 1 \in Nat \ {0} /\ i \in Nat \ {0} /\ i \in 1 .. N
      BY <2>4, <2>6, <2>7
    <3>2. /\ PassedOf(msgs', d, 1, j) = PassedOf(msgs, d, 1, j)
          /\ PassedOf(msgs', d, 1, i - 1) = PassedOf(msgs, d, 1, i - 1)
          /\ PassedOf(msgs', d, i, j) = PassedOf(msgs, d, i, j)
      BY <2>1, <3>1, PassedBefore
    <3>3. msgs[j].at - msgs[i].at > Size
      <4>1. /\ i \in PassedOf(msgs, d, 1, j)
            /\ Cardinality(PassedOf(msgs, d, 1, i - 1)) >= ZeroMax
            /\ Cardinality(PassedOf(msgs, d, i, j)) > 2 * WindowMax
        BY <3>2
      <4> QED
        BY <1>t, <2>5, <2>7, <4>1 DEF WithinLimit, Passed, PassedOf
    <3> QED
      BY <2>4, <2>7, <3>1, <3>3
  <2>8. CASE j = N + 1
    <3> DEFINE s == start'[d]
               r == requests'[d]
               u == msgs'[i].at
    <3>1. phase'[d] # "none"
      <4>1. i \in DOMAIN msgs'
        BY <2>3, <2>4, <2>6, <2>8
      <4> QED
        BY <2>2, <2>6, <4>1 DEF MessageInv
    <3>2. s <= now /\ WindowOf(msgs', d, s, r) /\ s \in Nat /\ r \in Int
      <4>1. s \in Nat /\ r \in Int
        BY <2>2 DEF TypeOK
      <4> QED
        BY <2>2, <3>1, <4>1 DEF WindowInv
    <3>3. i \in PassedOf(msgs', d, 1, Len(msgs')) /\ Paid(msgs', d, i)
      BY <2>4, <2>8 DEF Paid
    <3>4. num = Cardinality(PassedOf(msgs', d, i, Len(msgs')))
      BY <2>4, <2>8
    <3>5. /\ r <= WindowMax
          /\ \/ s <= u /\ num <= r
             \/ u < s /\ num <= WindowMax + r
             \/ s - u > Size
      BY <3>2, <3>3, <3>4 DEF WindowOf
    <3>6. u \in Nat
      <4>1. i \in 1 .. N \/ i = N + 1
        BY <2>4, <2>6, <2>8
      <4> QED
        BY <2>1, <2>2, <2>4, <4>1
    <3>7. num \in Nat
      <4>1. i \in Int /\ j \in Int
        BY <2>4, <2>6
      <4> QED
        BY <4>1, PassedCount
    <3>8. num > 2 * WindowMax /\ WindowMax \in Nat /\ Size \in Nat
      BY Constants
    <3>9. msgs'[j].at = now
      BY <2>1, <2>4, <2>8
    <3> HIDE DEF s, r, u, num
    <3>10. s - u > Size
      BY <3>2, <3>5, <3>6, <3>7, <3>8
    <3>11. now - u > Size
      BY <2>2, <3>2, <3>6, <3>8, <3>10
    <3> QED
      BY <3>9, <3>11 DEF u
  <2> QED
    BY <2>4, <2>6, <2>7, <2>8
<1> QED
  BY <1>1, <1>2, QuietlyLeaves, StepKinds DEF Tick, Connect, Beat, messages

LEMMA FairStep ==
    ASSUME InboundInv, [Next]_vars
    PROVE  RefusedFairly'
<1>t. TypeOK /\ RefusedFairly /\ WindowInv
  BY DEF InboundInv
<1>1. ASSUME msgs' = msgs
      PROVE  RefusedFairly'
  BY <1>t, <1>1 DEF RefusedFairly, Passed
<1>2. ASSUME NEW c \in Conns, NEW kind \in Kinds, Message(c, kind)
      PROVE  RefusedFairly'
  <2> DEFINE before(q, n) == PassedOf(q, q[n].conn, 1, n - 1)
             recent(q, n) == {i \in before(q, n) : q[n].at - q[i].at <= Size}
             N == Len(msgs)
  <2> SUFFICES ASSUME NEW n \in DOMAIN msgs', ~msgs'[n].ok
               PROVE  /\ Cardinality(before(msgs', n)) >= ZeroMax + WindowMax
                      /\ Cardinality(recent(msgs', n)) >= WindowMax
    BY DEF RefusedFairly, Passed, PassedOf
  <2>1. PICK x \in Record :
           /\ x.conn = c /\ x.at = now /\ x.ok = Allow(c).ok
           /\ msgs \in Seq(Record) /\ msgs' = Append(msgs, x)
    BY <1>t, <1>2, NewMessage
  <2>2. Len(msgs') \in Nat /\ DOMAIN msgs' = 1 .. Len(msgs') /\ DOMAIN msgs = 1 .. N
    BY <2>1
  <2> HIDE DEF Record
  <2>3. /\ N \in Nat /\ Len(msgs') = N + 1 /\ msgs'[N + 1] = x
        /\ \A k \in 1 .. N : msgs'[k] = msgs[k] /\ msgs[k].at \in Nat
    BY <2>1, OneMore
  <2>4. n \in 1 .. N + 1 /\ n - 1 \in 0 .. N /\ 1 \in Nat \ {0}
    BY <2>2, <2>3
  <2>5. \A d : PassedOf(msgs', d, 1, n - 1) = PassedOf(msgs, d, 1, n - 1)
    BY <2>1, <2>4, PassedBefore
  <2>6. \A d : \A k \in PassedOf(msgs, d, 1, n - 1) : k \in 1 .. N
    BY <2>3, <2>4 DEF PassedOf
  <2>7. CASE n \in 1 .. N
    <3>1. msgs'[n] = msgs[n]
      BY <2>3, <2>7
    <3>2. before(msgs', n) = before(msgs, n)
      BY <2>5, <3>1
    <3>3. recent(msgs', n) = recent(msgs, n)
      <4>1. \A k \in before(msgs, n) : msgs'[k] = msgs[k]
        BY <2>3, <2>6
      <4> HIDE DEF before
      <4> QED
        BY <3>1, <3>2, <4>1
    <3>4. ~msgs[n].ok /\ n \in DOMAIN msgs
      BY <2>2, <2>7, <3>1
    <3>5. Cardinality(before(msgs, n)) >= ZeroMax + WindowMax /\ Cardinality(recent(msgs, n)) >= WindowMax
      BY <1>t, <3>4 DEF RefusedFairly, Passed, PassedOf
    <3> HIDE DEF before, recent
    <3> QED
      BY <3>2, <3>3, <3>5
  <2>8. CASE n = N + 1
    <3> DEFINE P == PassedOf(msgs, c, 1, N)
               s == start[c]
               r == requests[c]
               W == {i \in P : s <= msgs[i].at}
               R == {i \in P : now - msgs[i].at <= Size}
    <3>1. msgs'[n] = x /\ (N + 1) - 1 = N
      BY <2>3, <2>8
    <3>2. before(msgs', n) = P
      BY <2>1, <2>5, <2>8, <3>1
    <3>3. recent(msgs', n) = R
      <4>1. \A k \in P : msgs'[k] = msgs[k]
        BY <2>3, <2>6, <2>8, <3>1
      <4> HIDE DEF before, P
      <4> QED
        BY <2>1, <3>1, <3>2, <4>1
    <3>4. Allow(c).ok = FALSE
      <4>1. Allow(c).ok \in BOOLEAN
        BY <1>t, AllowCases
      <4> QED
        BY <2>1, <3>1, <4>1
    <3>5. s \in Nat /\ r \in Int /\ now \in Nat /\ WindowMax \in Nat /\ Size \in Nat /\ ZeroMax \in Nat
      <4>1. s \in Nat /\ r \in Int
        BY <1>t DEF TypeOK
      <4> QED
        BY <1>t, <4>1, ClockType, Constants
    <3>6. \/ r >= 0 /\ now - s <= Size /\ r >= WindowMax
          \/ r >= 0 /\ 0 = WindowMax
      BY <1>t, <3>4, AllowCases
    <3>7. WindowOf(msgs, c, s, r)
      <4>1. phase[c] = "up"
        BY <1>t, <1>2, MessageFacts
      <4> QED
        BY <1>t, <4>1 DEF WindowInv
    <3>8. Cardinality(P) >= ZeroMax + r /\ Cardinality(W) >= r /\ r <= WindowMax
      BY <3>6, <3>7 DEF WindowOf
    <3>9. W \in SUBSET P /\ R \in SUBSET P
      OBVIOUS
    <3>10. /\ Cardinality(P) \in Nat
           /\ \A S \in SUBSET P : IsFiniteSet(S) /\ Cardinality(S) \in Nat
      <4>1. 1 \in Int /\ N \in Int
        BY <2>3
      <4> QED
        BY <4>1, PassedCount, Zenon
    <3>11. \A k \in P : msgs[k].at \in Nat
      BY <2>3, <2>6, <2>8, <3>1
    <3>12. IsFiniteSet(R) /\ Cardinality(R) \in Nat /\ Cardinality(W) \in Nat
      BY <3>9, <3>10
    <3>13. CASE now - s <= Size
      <4>1. W \subseteq R
        <5> HIDE DEF P, s
        <5> QED
          BY <3>5, <3>11, <3>13
      <4> HIDE DEF P, W, R, s, r
      <4>2. Cardinality(W) <= Cardinality(R)
        BY <3>12, <4>1, FS_Subset
      <4>3. r >= WindowMax
        BY <3>5, <3>6
      <4>4. Cardinality(P) >= ZeroMax + WindowMax /\ Cardinality(R) >= WindowMax
        BY <3>5, <3>8, <3>10, <3>12, <4>2, <4>3
      <4> HIDE DEF before, recent
      <4> QED
        BY <3>2, <3>3, <4>4
    <3>14. CASE ~(now - s <= Size)
      <4> HIDE DEF P, W, R, s, r
      <4>1. r >= 0 /\ 0 = WindowMax
        BY <3>6, <3>14
      <4>2. Cardinality(P) >= ZeroMax + WindowMax /\ Cardinality(R) >= WindowMax
        BY <3>5, <3>8, <3>10, <3>12, <4>1
      <4> HIDE DEF before, recent
      <4> QED
        BY <3>2, <3>3, <4>2
    <3> QED
      BY <3>13, <3>14
  <2> QED
    BY <2>3, <2>4, <2>7, <2>8
<1> QED
  BY <1>1, <1>2, QuietlyLeaves, StepKinds DEF Tick, Connect, Beat, messages

-----------------------------------------------------------------------------
(***************************************************************************)
(* The theorems.                                                           *)
(***************************************************************************)
LEMMA InvStep ==
    ASSUME InboundInv, [Next]_vars
    PROVE  InboundInv'
<1>1. TypeOK'
  BY TypeStep DEF InboundInv
<1> QED
  BY <1>1, PhaseStep, MessageStep, SeenStep, DueStep, CountStep, WindowStep, WithinStep, FairStep,
     KeptStep
  DEF InboundInv

\* The inductive invariant: where the connections are, what the check has read, what
\* OnlineNum has counted and what Allow has counted fit together in every state.
THEOREM InboundInvariant == Spec => []InboundInv
<1>1. Init => InboundInv
  BY InitInv
<1>2. InboundInv /\ [Next]_vars => InboundInv'
  BY InvStep
<1> QED
  BY <1>1, <1>2, PTL DEF Spec

\* The variables of admission, the limiters, Allow and the heartbeat check keep their types.
THEOREM TypeCorrect == Spec => []TypeOK
<1>1. InboundInv => TypeOK
  BY DEF InboundInv
<1> QED
  BY <1>1, InboundInvariant, PTL

\* OnWebsocketOpen lets in at most MaxOnlineNum clients, although OnlineNum reads the
\* loops one after the other while connections come and go.
THEOREM OnlineBoundTheorem == Spec => []OnlineBound
<1>1. InboundInv => OnlineBound
  BY WithinPlaces
<1> QED
  BY <1>1, InboundInvariant, PTL

\* info.Allow: more than two full windows of messages take longer than a window.
THEOREM WithinLimitTheorem == Spec => []WithinLimit
<1>1. InboundInv => WithinLimit
  BY DEF InboundInv
<1> QED
  BY <1>1, InboundInvariant, PTL

\* info.Allow refuses only a client that has had its free messages and a full window.
THEOREM RefusedFairlyTheorem == Spec => []RefusedFairly
<1>1. InboundInv => RefusedFairly
  BY DEF InboundInv
<1> QED
  BY <1>1, InboundInvariant, PTL

\* The heartbeat check never closes a client that was not silent for Interval - Pause,
\* whatever it reads first.
THEOREM ActiveIsKeptTheorem == Spec => []ActiveIsKept
<1>1. InboundInv => ActiveIsKept
  BY DEF InboundInv
<1> QED
  BY <1>1, InboundInvariant, PTL

\* The heartbeat check closes a silent client within two intervals, if its timer is not
\* later than Late.
THEOREM SilentIsClosedTheorem == Spec => []SilentIsClosed
<1>1. InboundInv => SilentIsClosed
  BY ClosedInTime
<1> QED
  BY <1>1, InboundInvariant, PTL

=============================================================================
