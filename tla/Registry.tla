------------------------------ MODULE Registry ------------------------------
(***************************************************************************)
(* Who is online, as whom, and subscribed to what.                         *)
(*                                                                         *)
(* A customer connection carries its own info (customerId, session,        *)
(* topics), guarded by a lock of its own; three global indexes repeat it:  *)
(* manager (the connections), binder (customerId -> connections) and topic *)
(* (topic -> connections).  Three kinds of goroutine keep them in step:    *)
(*                                                                         *)
(*   - the open task of a connection (the closure OnWebsocketOpen submits),*)
(*   - the event loop running OnClose / OnWebsocketClose for it,           *)
(*   - the task connections of the business, one command at a time each.   *)
(*                                                                         *)
(* Every operation of an index is atomic (it runs under one shard lock);   *)
(* a list of topics takes one step per topic, because topics live in       *)
(* different shards.  The info is read and written only under the lock of  *)
(* the connection, so a command's writes to it are one step, the one that  *)
(* takes the lock.  A string that may be empty is NoCustomer, FALSE        *)
(* (session) or {} (topics).                                               *)
(***************************************************************************)
EXTENDS Naturals, FiniteSets

CONSTANTS Conns,        \* customer connections; each lives once (uniqIds are never reused)
          Tasks,        \* task connections of the business processes
          Customers,    \* customerIds
          Topics,       \* topics
          NoCustomer,   \* the empty customerId
          NoTask,       \* nobody holds the lock of a connection
          NoCommand,    \* a task between two commands
          OnOpenApi,    \* configs.Config.Callback.OnOpenApi # ""
          Replies,      \* what the OnOpen callback may answer when it allows the connection
          Commands      \* the commands the business may send

CustomerIds == Customers \cup {NoCustomer}

\* ConnOpenResp: the fields the open task reads.
ConnOpenResp == [customerId : CustomerIds, session : BOOLEAN, topics : SUBSET Topics]

NoReply == [customerId |-> NoCustomer, session |-> FALSE, topics |-> {}]

\* The commands that change the registry, with the payload fields they read.
\* connInfoDelete reads three flags: the fields it deletes.
Ops == {"connInfoUpdate", "connInfoDelete", "topicSubscribe", "topicUnsubscribe",
        "topicDelete", "forceOffline", "forceOfflineByCustomerId", "forceOfflineGuest"}

Fields == {"topics", "session", "customerId"}

Command == [op : Ops, conn : Conns, customerId : CustomerIds, session : BOOLEAN,
            topics : SUBSET Topics, del : SUBSET Fields]

ASSUME ConstantsAssumption ==
    /\ NoCustomer \notin Customers
    /\ NoTask \notin Tasks
    /\ NoCommand \notin Command
    /\ OnOpenApi \in BOOLEAN
    /\ Replies \subseteq ConnOpenResp
    /\ Commands \subseteq Command

VARIABLES
    loop,        \* per connection: how far its event loop is with its life
    open,        \* per connection: how far its open task is
    reply,       \* per connection: what the OnOpen callback answered
    closed,      \* per connection: the closed flag of the codec
    customerId, session, topics,   \* per connection: its info
    lock,        \* per connection: the task that holds its lock
    manager,     \* the registered connections
    binder,      \* customerId -> connections
    topic,       \* topic -> connections
    pc, cmd,     \* per task: its step and the command it runs
    kick,        \* per task: connections it still has to close
    rest,        \* per task: topics topicDelete still has to take out of the index
    victims,     \* per task: <<topic, connection>> pairs topicDelete still has to unsubscribe
    taskUnbind, taskBind, taskDrop, taskAdd,
                 \* per connection: relations the task that holds its lock still has to
                 \* delete from and set in binder, delete from and set in topic
    openBind, openAdd,       \* per connection: relations its open task still has to set
    closeUnbind, closeDrop,  \* per connection: relations its closer still has to delete
    overlap      \* history: the open task was overtaken between its last check and its end

info == <<customerId, session, topics>>
index == <<manager, binder, topic>>
taskWork == <<taskUnbind, taskBind, taskDrop, taskAdd>>
openWork == <<openBind, openAdd>>
closeWork == <<closeUnbind, closeDrop>>
work == <<taskWork, openWork, closeWork>>
task == <<pc, cmd, kick, rest, victims>>
vars == <<loop, open, reply, closed, info, lock, index, task, work, overlap>>

LoopSteps == {"none", "up", "flagged", "unlisted", "cleaning", "gone"}
OpenSteps == {"none", "queued", "callback", "checked", "stored", "relating", "done"}
TaskSteps == {"idle", "lock", "hold", "kick", "delete"}

TypeOK ==
    /\ loop \in [Conns -> LoopSteps]
    /\ open \in [Conns -> OpenSteps]
    /\ reply \in [Conns -> ConnOpenResp]
    /\ closed \in [Conns -> BOOLEAN]
    /\ customerId \in [Conns -> CustomerIds]
    /\ session \in [Conns -> BOOLEAN]
    /\ topics \in [Conns -> SUBSET Topics]
    /\ lock \in [Conns -> Tasks \cup {NoTask}]
    /\ manager \in SUBSET Conns
    /\ binder \in [Customers -> SUBSET Conns]
    /\ topic \in [Topics -> SUBSET Conns]
    /\ pc \in [Tasks -> TaskSteps]
    /\ cmd \in [Tasks -> Command \cup {NoCommand}]
    /\ \A t \in Tasks : pc[t] # "idle" => cmd[t] \in Command
    /\ kick \in [Tasks -> SUBSET Conns]
    /\ rest \in [Tasks -> SUBSET Topics]
    /\ victims \in [Tasks -> SUBSET (Topics \X Conns)]
    /\ taskUnbind \in [Conns -> CustomerIds]
    /\ taskBind \in [Conns -> CustomerIds]
    /\ openBind \in [Conns -> CustomerIds]
    /\ closeUnbind \in [Conns -> CustomerIds]
    /\ taskDrop \in [Conns -> SUBSET Topics]
    /\ taskAdd \in [Conns -> SUBSET Topics]
    /\ openAdd \in [Conns -> SUBSET Topics]
    /\ closeDrop \in [Conns -> SUBSET Topics]
    /\ overlap \in [Conns -> BOOLEAN]

Init ==
    /\ loop = [c \in Conns |-> "none"]
    /\ open = [c \in Conns |-> "none"]
    /\ reply = [c \in Conns |-> NoReply]
    /\ closed = [c \in Conns |-> FALSE]
    /\ customerId = [c \in Conns |-> NoCustomer]
    /\ session = [c \in Conns |-> FALSE]
    /\ topics = [c \in Conns |-> {}]
    /\ lock = [c \in Conns |-> NoTask]
    /\ manager = {}
    /\ binder = [x \in Customers |-> {}]
    /\ topic = [p \in Topics |-> {}]
    /\ pc = [t \in Tasks |-> "idle"]
    /\ cmd = [t \in Tasks |-> NoCommand]
    /\ kick = [t \in Tasks |-> {}]
    /\ rest = [t \in Tasks |-> {}]
    /\ victims = [t \in Tasks |-> {}]
    /\ taskUnbind = [c \in Conns |-> NoCustomer]
    /\ taskBind = [c \in Conns |-> NoCustomer]
    /\ openBind = [c \in Conns |-> NoCustomer]
    /\ closeUnbind = [c \in Conns |-> NoCustomer]
    /\ taskDrop = [c \in Conns |-> {}]
    /\ taskAdd = [c \in Conns |-> {}]
    /\ openAdd = [c \in Conns |-> {}]
    /\ closeDrop = [c \in Conns |-> {}]
    /\ overlap = [c \in Conns |-> FALSE]

-----------------------------------------------------------------------------

(***************************************************************************)
(* Operations of the three indexes.                                        *)
(***************************************************************************)
\* binder.SetRelation / DelRelation
BinderSet(x, c) == binder' = [binder EXCEPT ![x] = @ \cup {c}]
BinderDel(x, c) == binder' = [binder EXCEPT ![x] = @ \ {c}]

\* topic.SetRelation / DelRelationByMap / DelRelationBySlice, one topic of the list
TopicSet(p, c) == topic' = [topic EXCEPT ![p] = @ \cup {c}]
TopicDel(p, c) == topic' = [topic EXCEPT ![p] = @ \ {c}]

-----------------------------------------------------------------------------
(***************************************************************************)
(* The relations an agent has to set or delete, one operation of an index  *)
(* per step.  Open task and connInfoUpdate do binder before topic and      *)
(* deletions before insertions; connInfoDelete does topic first.           *)
(***************************************************************************)
TopicFirst(c) == lock[c] \in Tasks /\ cmd[lock[c]].op = "connInfoDelete"

TaskUnbind(c) ==
    /\ taskUnbind[c] # NoCustomer
    /\ TopicFirst(c) => taskDrop[c] = {}
    /\ BinderDel(taskUnbind[c], c)
    /\ taskUnbind' = [taskUnbind EXCEPT ![c] = NoCustomer]
    /\ UNCHANGED <<loop, open, reply, closed, info, lock, manager, topic, task,
                   taskBind, taskDrop, taskAdd, openWork, closeWork, overlap>>

\* Mutant: the new relation is set without waiting for the old one to be deleted.
TaskBindFirst(c) ==
    /\ taskBind[c] # NoCustomer
    /\ BinderSet(taskBind[c], c)
    /\ taskBind' = [taskBind EXCEPT ![c] = NoCustomer]
    /\ UNCHANGED <<loop, open, reply, closed, info, lock, manager, topic, task,
                   taskUnbind, taskDrop, taskAdd, openWork, closeWork, overlap>>

TaskBind(c) ==
    /\ taskUnbind[c] = NoCustomer
    /\ taskBind[c] # NoCustomer
    /\ BinderSet(taskBind[c], c)
    /\ taskBind' = [taskBind EXCEPT ![c] = NoCustomer]
    /\ UNCHANGED <<loop, open, reply, closed, info, lock, manager, topic, task,
                   taskUnbind, taskDrop, taskAdd, openWork, closeWork, overlap>>

TaskDrop(c, p) ==
    /\ taskUnbind[c] = NoCustomer \/ TopicFirst(c)
    /\ taskBind[c] = NoCustomer
    /\ p \in taskDrop[c]
    /\ TopicDel(p, c)
    /\ taskDrop' = [taskDrop EXCEPT ![c] = @ \ {p}]
    /\ UNCHANGED <<loop, open, reply, closed, info, lock, manager, binder, task,
                   taskUnbind, taskBind, taskAdd, openWork, closeWork, overlap>>

\* Mutant: the new topics are set before the old ones are deleted.
TaskAddFirst(c, p) ==
    /\ p \in taskAdd[c]
    /\ TopicSet(p, c)
    /\ taskAdd' = [taskAdd EXCEPT ![c] = @ \ {p}]
    /\ UNCHANGED <<loop, open, reply, closed, info, lock, manager, binder, task,
                   taskUnbind, taskBind, taskDrop, openWork, closeWork, overlap>>

TaskAdd(c, p) ==
    /\ taskUnbind[c] = NoCustomer
    /\ taskBind[c] = NoCustomer
    /\ taskDrop[c] = {}
    /\ p \in taskAdd[c]
    /\ TopicSet(p, c)
    /\ taskAdd' = [taskAdd EXCEPT ![c] = @ \ {p}]
    /\ UNCHANGED <<loop, open, reply, closed, info, lock, manager, binder, task,
                   taskUnbind, taskBind, taskDrop, openWork, closeWork, overlap>>

OpenBind(c) ==
    /\ openBind[c] # NoCustomer
    /\ BinderSet(openBind[c], c)
    /\ openBind' = [openBind EXCEPT ![c] = NoCustomer]
    /\ UNCHANGED <<loop, open, reply, closed, info, lock, manager, topic, task,
                   taskWork, openAdd, closeWork, overlap>>

OpenAdd(c, p) ==
    /\ openBind[c] = NoCustomer
    /\ p \in openAdd[c]
    /\ TopicSet(p, c)
    /\ openAdd' = [openAdd EXCEPT ![c] = @ \ {p}]
    /\ UNCHANGED <<loop, open, reply, closed, info, lock, manager, binder, task,
                   taskWork, openBind, closeWork, overlap>>

CloseUnbind(c) ==
    /\ closeUnbind[c] # NoCustomer
    /\ BinderDel(closeUnbind[c], c)
    /\ closeUnbind' = [closeUnbind EXCEPT ![c] = NoCustomer]
    /\ UNCHANGED <<loop, open, reply, closed, info, lock, manager, topic, task,
                   taskWork, openWork, closeDrop, overlap>>

CloseDrop(c, p) ==
    /\ closeUnbind[c] = NoCustomer
    /\ p \in closeDrop[c]
    /\ TopicDel(p, c)
    /\ closeDrop' = [closeDrop EXCEPT ![c] = @ \ {p}]
    /\ UNCHANGED <<loop, open, reply, closed, info, lock, manager, binder, task,
                   taskWork, openWork, closeUnbind, overlap>>

NoTaskWork(c) ==
    /\ taskUnbind[c] = NoCustomer
    /\ taskBind[c] = NoCustomer
    /\ taskDrop[c] = {}
    /\ taskAdd[c] = {}

-----------------------------------------------------------------------------
(***************************************************************************)
(* The event loop of a connection and its open task.                       *)
(***************************************************************************)
\* The handshake succeeded and OnWebsocketOpen submitted the open task.
Accept(c) ==
    /\ loop[c] = "none"
    /\ loop' = [loop EXCEPT ![c] = "up"]
    /\ open' = [open EXCEPT ![c] = "queued"]
    /\ UNCHANGED <<reply, closed, info, lock, index, task, work, overlap>>

\* OnWebsocketOpen returned an error (shutting down, too many connections, rate
\* limited, pool exhausted): OnTraffic sets the flag and gnet closes the connection.
Refuse(c) ==
    /\ loop[c] = "none"
    /\ loop' = [loop EXCEPT ![c] = "up"]
    /\ closed' = [closed EXCEPT ![c] = TRUE]
    /\ UNCHANGED <<open, reply, info, lock, index, task, work, overlap>>

\* The closure starts; without a callback there is nothing to wait for.
OpenStart(c) ==
    /\ open[c] = "queued"
    /\ open' = [open EXCEPT ![c] = IF closed[c] THEN "done"
                                   ELSE IF OnOpenApi THEN "callback" ELSE "checked"]
    /\ UNCHANGED <<loop, reply, closed, info, lock, index, task, work, overlap>>

\* callback.OnOpen returned and the connection is closed by now.
OpenAbandon(c) ==
    /\ open[c] = "callback"
    /\ closed[c]
    /\ open' = [open EXCEPT ![c] = "done"]
    /\ UNCHANGED <<loop, reply, closed, info, lock, index, task, work, overlap>>

\* callback.OnOpen failed or refused: WriteClose, which sets the flag.
OpenDeny(c) ==
    /\ open[c] = "callback"
    /\ ~closed[c]
    /\ open' = [open EXCEPT ![c] = "done"]
    /\ closed' = [closed EXCEPT ![c] = TRUE]
    /\ UNCHANGED <<loop, reply, info, lock, index, task, work, overlap>>

\* callback.OnOpen allowed the connection, with values for its info.
OpenAllow(c, r) ==
    /\ open[c] = "callback"
    /\ ~closed[c]
    /\ open' = [open EXCEPT ![c] = "checked"]
    /\ reply' = [reply EXCEPT ![c] = r]
    /\ UNCHANGED <<loop, closed, info, lock, index, task, work, overlap>>

\* The answer goes into the info, under the lock (but without looking at the flag).
OpenStore(c) ==
    /\ open[c] = "checked"
    /\ lock[c] = NoTask
    /\ open' = [open EXCEPT ![c] = "stored"]
    /\ customerId' = [customerId EXCEPT ![c] = IF reply[c].customerId # NoCustomer
                                               THEN reply[c].customerId ELSE @]
    /\ session' = [session EXCEPT ![c] = @ \/ reply[c].session]
    /\ topics' = [topics EXCEPT ![c] = @ \cup reply[c].topics]
    /\ UNCHANGED <<loop, reply, closed, lock, index, task, work, overlap>>

\* manager.Set; the relations of the answer follow, without the lock.
OpenRegister(c) ==
    /\ open[c] = "stored"
    /\ open' = [open EXCEPT ![c] = "relating"]
    /\ manager' = manager \cup {c}
    /\ openBind' = [openBind EXCEPT ![c] = reply[c].customerId]
    /\ openAdd' = [openAdd EXCEPT ![c] = reply[c].topics]
    /\ UNCHANGED <<loop, reply, closed, info, lock, binder, topic, task, taskWork, closeWork, overlap>>

OpenEnd(c) ==
    /\ open[c] = "relating"
    /\ openBind[c] = NoCustomer
    /\ openAdd[c] = {}
    /\ open' = [open EXCEPT ![c] = "done"]
    /\ UNCHANGED <<loop, reply, closed, info, lock, index, task, work, overlap>>

\* SetClosedFlagOnSafe outside OnClose: WriteCloseFrame (heartbeat timeout, oversized
\* message) or OnTraffic (close frame of the client, undecodable data).
FlagClosed(c) ==
    /\ loop[c] = "up"
    /\ ~closed[c]
    /\ closed' = [closed EXCEPT ![c] = TRUE]
    /\ UNCHANGED <<loop, open, reply, info, lock, index, task, work, overlap>>

\* Mutant: OnClose does not set the flag before it cleans up.
CloseUnflagged(c) ==
    /\ loop[c] = "up"
    /\ loop' = [loop EXCEPT ![c] = "flagged"]
    /\ overlap' = [overlap EXCEPT ![c] = @ \/ open[c] \in {"checked", "stored", "relating"}]
    /\ UNCHANGED <<open, reply, closed, info, lock, index, task, work>>

\* gnet reports the connection closed: OnClose sets the flag before anything else.
CloseFlag(c) ==
    /\ loop[c] = "up"
    /\ loop' = [loop EXCEPT ![c] = "flagged"]
    /\ closed' = [closed EXCEPT ![c] = TRUE]
    /\ overlap' = [overlap EXCEPT ![c] = @ \/ open[c] \in {"checked", "stored", "relating"}]
    /\ UNCHANGED <<open, reply, info, lock, index, task, work>>

\* OnWebsocketClose: manager.Del
CloseUnlist(c) ==
    /\ loop[c] = "flagged"
    /\ loop' = [loop EXCEPT ![c] = "unlisted"]
    /\ manager' = manager \ {c}
    /\ UNCHANGED <<open, reply, closed, info, lock, binder, topic, task, work, overlap>>

\* Mutant: the snapshot does not wait for the lock.
CloseSnapshotUnlocked(c) ==
    /\ loop[c] = "unlisted"
    /\ loop' = [loop EXCEPT ![c] = "cleaning"]
    /\ closeUnbind' = [closeUnbind EXCEPT ![c] = customerId[c]]
    /\ closeDrop' = [closeDrop EXCEPT ![c] = topics[c]]
    /\ UNCHANGED <<open, reply, closed, info, lock, index, task, taskWork, openWork, overlap>>

\* OnWebsocketClose: SnapshotOnSafe says which relations to delete.
CloseSnapshot(c) ==
    /\ loop[c] = "unlisted"
    /\ lock[c] = NoTask
    /\ loop' = [loop EXCEPT ![c] = "cleaning"]
    /\ closeUnbind' = [closeUnbind EXCEPT ![c] = customerId[c]]
    /\ closeDrop' = [closeDrop EXCEPT ![c] = topics[c]]
    /\ UNCHANGED <<open, reply, closed, info, lock, index, task, taskWork, openWork, overlap>>

CloseEnd(c) ==
    /\ loop[c] = "cleaning"
    /\ closeUnbind[c] = NoCustomer
    /\ closeDrop[c] = {}
    /\ loop' = [loop EXCEPT ![c] = "gone"]
    /\ UNCHANGED <<open, reply, closed, info, lock, index, task, work, overlap>>

-----------------------------------------------------------------------------
(***************************************************************************)
(* The commands.  A command that finds nothing to do (unknown uniqId, no    *)
(* topics) returns at once: it is not a step.                               *)
(***************************************************************************)
Target(t) == cmd[t].conn

\* manager.Get found the connection; its lock comes next.
Get(t, m) ==
    /\ pc[t] = "idle"
    /\ \/ m.op \in {"connInfoUpdate", "connInfoDelete", "forceOfflineGuest"}
       \/ m.op \in {"topicSubscribe", "topicUnsubscribe"} /\ m.topics # {}
    /\ m.conn \in manager
    /\ pc' = [pc EXCEPT ![t] = "lock"]
    /\ cmd' = [cmd EXCEPT ![t] = m]
    /\ UNCHANGED <<loop, open, reply, closed, info, lock, index, kick, rest, victims, work, overlap>>

\* conn.Lock() succeeded and the connection is not closed.
Enter(t, op) ==
    /\ pc[t] = "lock"
    /\ cmd[t].op = op
    /\ lock[Target(t)] = NoTask
    /\ ~closed[Target(t)]
    /\ pc' = [pc EXCEPT ![t] = "hold"]
    /\ lock' = [lock EXCEPT ![Target(t)] = t]

\* Mutant: the early return calls Lock() where it should call UnLock().
LeaveClosedLocked(t) ==
    /\ pc[t] = "lock"
    /\ cmd[t].op # "forceOfflineGuest"
    /\ lock[Target(t)] = NoTask
    /\ closed[Target(t)]
    /\ lock' = [lock EXCEPT ![Target(t)] = t]
    /\ UNCHANGED <<loop, open, reply, closed, info, index, task, work, overlap>>

\* conn.Lock() succeeded but the connection is closed: nothing is done.
LeaveClosed(t) ==
    /\ pc[t] = "lock"
    /\ cmd[t].op # "forceOfflineGuest"
    /\ lock[Target(t)] = NoTask
    /\ closed[Target(t)]
    /\ pc' = [pc EXCEPT ![t] = "idle"]
    /\ cmd' = [cmd EXCEPT ![t] = NoCommand]
    /\ UNCHANGED <<loop, open, reply, closed, info, lock, index, kick, rest, victims, work, overlap>>

\* The open task has set the info but not yet all the relations of its answer.
Overtake(c) == overlap' = [overlap EXCEPT ![c] = @ \/ open[c] = "relating"]

ConnInfoUpdate(t) ==
    LET c == Target(t)
        m == cmd[t]
    IN  /\ Enter(t, "connInfoUpdate")
        /\ session' = [session EXCEPT ![c] = @ \/ m.session]
        /\ IF m.customerId # NoCustomer
           THEN /\ customerId' = [customerId EXCEPT ![c] = m.customerId]
                /\ taskUnbind' = [taskUnbind EXCEPT ![c] = customerId[c]]
                /\ taskBind' = [taskBind EXCEPT ![c] = m.customerId]
           ELSE UNCHANGED <<customerId, taskUnbind, taskBind>>
        /\ IF m.topics # {}
           THEN /\ topics' = [topics EXCEPT ![c] = m.topics]
                /\ taskDrop' = [taskDrop EXCEPT ![c] = topics[c]]
                /\ taskAdd' = [taskAdd EXCEPT ![c] = m.topics]
           ELSE UNCHANGED <<topics, taskDrop, taskAdd>>
        /\ Overtake(c)
        /\ UNCHANGED <<loop, open, reply, closed, index, cmd, kick, rest, victims, openWork, closeWork>>

ConnInfoDelete(t) ==
    LET c == Target(t)
        m == cmd[t]
    IN  /\ Enter(t, "connInfoDelete")
        /\ IF "topics" \in m.del
           THEN /\ topics' = [topics EXCEPT ![c] = {}]
                /\ taskDrop' = [taskDrop EXCEPT ![c] = topics[c]]
           ELSE UNCHANGED <<topics, taskDrop>>
        /\ session' = [session EXCEPT ![c] = @ /\ "session" \notin m.del]
        /\ IF "customerId" \in m.del
           THEN /\ customerId' = [customerId EXCEPT ![c] = NoCustomer]
                /\ taskUnbind' = [taskUnbind EXCEPT ![c] = customerId[c]]
           ELSE UNCHANGED <<customerId, taskUnbind>>
        /\ Overtake(c)
        /\ UNCHANGED <<loop, open, reply, closed, index, cmd, kick, rest, victims,
                       taskBind, taskAdd, openWork, closeWork>>

TopicSubscribe(t) ==
    LET c == Target(t)
    IN  /\ Enter(t, "topicSubscribe")
        /\ topics' = [topics EXCEPT ![c] = @ \cup cmd[t].topics]
        /\ taskAdd' = [taskAdd EXCEPT ![c] = cmd[t].topics]
        /\ UNCHANGED <<loop, open, reply, closed, customerId, session, index, cmd, kick, rest, victims,
                       taskUnbind, taskBind, taskDrop, openWork, closeWork, overlap>>

TopicUnsubscribe(t) ==
    LET c == Target(t)
    IN  /\ Enter(t, "topicUnsubscribe")
        /\ topics' = [topics EXCEPT ![c] = @ \ cmd[t].topics]
        /\ taskDrop' = [taskDrop EXCEPT ![c] = cmd[t].topics]
        /\ Overtake(c)
        /\ UNCHANGED <<loop, open, reply, closed, customerId, session, index, cmd, kick, rest, victims,
                       taskUnbind, taskBind, taskAdd, openWork, closeWork>>

\* Mutant: the lock is released before the relations are updated.
UnlockEarly(t) ==
    /\ pc[t] = "hold"
    /\ lock' = [lock EXCEPT ![Target(t)] = NoTask]
    /\ pc' = [pc EXCEPT ![t] = "idle"]
    /\ cmd' = [cmd EXCEPT ![t] = NoCommand]
    /\ UNCHANGED <<loop, open, reply, closed, info, index, kick, rest, victims, work, overlap>>

Unlock(t) ==
    /\ pc[t] = "hold"
    /\ NoTaskWork(Target(t))
    /\ lock' = [lock EXCEPT ![Target(t)] = NoTask]
    /\ pc' = [pc EXCEPT ![t] = "idle"]
    /\ cmd' = [cmd EXCEPT ![t] = NoCommand]
    /\ UNCHANGED <<loop, open, reply, closed, info, index, kick, rest, victims, work, overlap>>

\* topicDelete: topic.Del takes the topics out of the index one by one and returns
\* their connections, ...
TopicDelete(t, m) ==
    /\ pc[t] = "idle"
    /\ m.op = "topicDelete"
    /\ m.topics # {}
    /\ pc' = [pc EXCEPT ![t] = "delete"]
    /\ cmd' = [cmd EXCEPT ![t] = m]
    /\ rest' = [rest EXCEPT ![t] = m.topics]
    /\ UNCHANGED <<loop, open, reply, closed, info, lock, index, kick, victims, work, overlap>>

TopicDeleteTake(t, p) ==
    /\ pc[t] = "delete"
    /\ p \in rest[t]
    /\ topic' = [topic EXCEPT ![p] = {}]
    /\ victims' = [victims EXCEPT ![t] = @ \cup ({p} \X topic[p])]
    /\ rest' = [rest EXCEPT ![t] = @ \ {p}]
    /\ UNCHANGED <<loop, open, reply, closed, info, lock, manager, binder, pc, cmd, kick, work, overlap>>

\* ... then UnsubscribeTopicOnSafe locks each connection and deletes the topic from its info.
TopicDeleteUnsubscribe(t, p, c) ==
    /\ pc[t] = "delete"
    /\ rest[t] = {}
    /\ <<p, c>> \in victims[t]
    /\ lock[c] = NoTask
    /\ topics' = [topics EXCEPT ![c] = @ \ {p}]
    /\ victims' = [victims EXCEPT ![t] = @ \ {<<p, c>>}]
    /\ UNCHANGED <<loop, open, reply, closed, customerId, session, lock, index, pc, cmd, kick, rest, work, overlap>>

TopicDeleteEnd(t) ==
    /\ pc[t] = "delete"
    /\ rest[t] = {}
    /\ victims[t] = {}
    /\ pc' = [pc EXCEPT ![t] = "idle"]
    /\ cmd' = [cmd EXCEPT ![t] = NoCommand]
    /\ UNCHANGED <<loop, open, reply, closed, info, lock, index, kick, rest, victims, work, overlap>>

\* forceOffline and forceOfflineByCustomerId: the connections to close.
ForceOffline(t, m) ==
    /\ pc[t] = "idle"
    /\ m.op = "forceOffline"
    /\ m.conn \in manager
    /\ pc' = [pc EXCEPT ![t] = "kick"]
    /\ cmd' = [cmd EXCEPT ![t] = m]
    /\ kick' = [kick EXCEPT ![t] = {m.conn}]
    /\ UNCHANGED <<loop, open, reply, closed, info, lock, index, rest, victims, work, overlap>>

ForceOfflineByCustomerId(t, m) ==
    /\ pc[t] = "idle"
    /\ m.op = "forceOfflineByCustomerId"
    /\ m.customerId \in Customers
    /\ pc' = [pc EXCEPT ![t] = "kick"]
    /\ cmd' = [cmd EXCEPT ![t] = m]
    /\ kick' = [kick EXCEPT ![t] = binder[m.customerId]]
    /\ UNCHANGED <<loop, open, reply, closed, info, lock, index, rest, victims, work, overlap>>

\* forceOfflineGuest: IsLoginOnSafe, under the read lock, spares a logged in connection.
IsLogin(c) == session[c] \/ customerId[c] # NoCustomer

ForceOfflineGuest(t) ==
    /\ pc[t] = "lock"
    /\ cmd[t].op = "forceOfflineGuest"
    /\ lock[Target(t)] = NoTask
    /\ pc' = [pc EXCEPT ![t] = "kick"]
    /\ kick' = [kick EXCEPT ![t] = IF IsLogin(Target(t)) THEN {} ELSE {Target(t)}]
    /\ UNCHANGED <<loop, open, reply, closed, info, lock, index, cmd, rest, victims, work, overlap>>

\* WriteCloseFrame: SetClosedFlagOnSafe, a no-op on a connection already closed.
WriteCloseFrame(t, c) ==
    /\ pc[t] = "kick"
    /\ c \in kick[t]
    /\ closed' = [closed EXCEPT ![c] = TRUE]
    /\ kick' = [kick EXCEPT ![t] = @ \ {c}]
    /\ UNCHANGED <<loop, open, reply, info, lock, index, pc, cmd, rest, victims, work, overlap>>

KickEnd(t) ==
    /\ pc[t] = "kick"
    /\ kick[t] = {}
    /\ pc' = [pc EXCEPT ![t] = "idle"]
    /\ cmd' = [cmd EXCEPT ![t] = NoCommand]
    /\ UNCHANGED <<loop, open, reply, closed, info, lock, index, kick, rest, victims, work, overlap>>

-----------------------------------------------------------------------------
TaskRelate(c) ==
    \/ TaskUnbind(c)
    \/ TaskBind(c)
    \/ \E p \in Topics : TaskDrop(c, p) \/ TaskAdd(c, p)

OpenTask(c) ==
    \/ OpenStart(c)
    \/ OpenAbandon(c)
    \/ OpenDeny(c)
    \/ \E r \in Replies : OpenAllow(c, r)
    \/ OpenStore(c)
    \/ OpenRegister(c)
    \/ OpenBind(c)
    \/ \E p \in Topics : OpenAdd(c, p)
    \/ OpenEnd(c)

OnClose(c) ==
    \/ CloseUnlist(c)
    \/ CloseSnapshot(c)
    \/ CloseUnbind(c)
    \/ \E p \in Topics : CloseDrop(c, p)
    \/ CloseEnd(c)

Start(t) ==
    \E m \in Commands :
        Get(t, m) \/ TopicDelete(t, m) \/ ForceOffline(t, m) \/ ForceOfflineByCustomerId(t, m)

Process(t) ==
    \/ LeaveClosed(t)
    \/ ConnInfoUpdate(t)
    \/ ConnInfoDelete(t)
    \/ TopicSubscribe(t)
    \/ TopicUnsubscribe(t)
    \/ Unlock(t)
    \/ \E p \in Topics : TopicDeleteTake(t, p)
    \/ \E p \in Topics, c \in Conns : TopicDeleteUnsubscribe(t, p, c)
    \/ TopicDeleteEnd(t)
    \/ ForceOfflineGuest(t)
    \/ \E c \in Conns : WriteCloseFrame(t, c)
    \/ KickEnd(t)

Next ==
    \/ \E c \in Conns :
        \/ Accept(c)
        \/ Refuse(c)
        \/ OpenTask(c)
        \/ FlagClosed(c)
        \/ CloseFlag(c)
        \/ OnClose(c)
        \/ TaskRelate(c)
    \/ \E t \in Tasks : Start(t) \/ Process(t)

Spec == Init /\ [][Next]_vars

\* Every goroutine that runs gets its turn, the callback has a timeout, and a
\* connection whose flag is set is closed: by gnet.Close, or by the 2 second timer of
\* WriteCloseFrame.  Customers and the business owe nothing.
Fairness ==
    /\ \A c \in Conns :
        /\ WF_vars(OpenTask(c))
        /\ WF_vars(closed[c] /\ CloseFlag(c))
        /\ WF_vars(OnClose(c))
        /\ WF_vars(TaskRelate(c))
    /\ \A t \in Tasks : WF_vars(Process(t))

FairSpec == Spec /\ Fairness

-----------------------------------------------------------------------------
\* SnapshotOnSafe has been taken: what is in the indexes is what OnClose will delete.
Snapshotted(c) == loop[c] \in {"cleaning", "gone"}

\* A connection nobody works on: open, its open task over, its lock free.
Settled(c) ==
    /\ loop[c] = "up"
    /\ open[c] = "done"
    /\ lock[c] = NoTask

(***************************************************************************)
(* The index never misses a connection.  Whatever the open task, the       *)
(* commands and their interleavings do, a settled connection that says it  *)
(* is customer x is found under x, and one that says it is subscribed to p *)
(* is found under p, unless a topicDelete of p is about to unsubscribe it: *)
(* a singlecast by customerId or a publish reaches it.                     *)
(***************************************************************************)
IndexComplete ==
    \A c \in Conns : Settled(c) =>
        /\ customerId[c] # NoCustomer => c \in binder[customerId[c]] /\ c \in manager
        /\ \A p \in topics[c] :
              c \in topic[p] \/ \E t \in Tasks : <<p, c>> \in victims[t]

(***************************************************************************)
(* No command works on a connection once OnWebsocketClose has taken its    *)
(* snapshot: a relation it added would never be deleted (the scenario the  *)
(* comment in OnClose describes).  It rests on OnClose setting the flag    *)
(* before the snapshot waits for the lock.                                 *)
(***************************************************************************)
NoLateCommand ==
    \A c \in Conns : Snapshotted(c) =>
        /\ lock[c] = NoTask
        /\ NoTaskWork(c)

\* No command of the business deletes the topic: topicDelete is not atomic and races
\* with a new subscription to the topics it deletes.
NeverDeleted(p) == \A m \in Commands : m.op = "topicDelete" => p \notin m.topics

(***************************************************************************)
(* A connection that is gone has left manager, binder and the topics the   *)
(* business does not delete, unless OnClose or a command overtook its open *)
(* task between the task's last look at the flag and its end.              *)
(***************************************************************************)
NoResidue ==
    \A c \in Conns : loop[c] = "gone" /\ ~overlap[c] =>
        /\ c \notin manager
        /\ \A x \in Customers : c \notin binder[x]
        /\ \A p \in Topics : NeverDeleted(p) => c \notin topic[p]

(***************************************************************************)
(* The indexes never name a stranger.  A settled connection is found only  *)
(* under the customerId it has and, of the topics the business does not    *)
(* delete, under those it is subscribed to: no message for a customer goes *)
(* to the connection of another.                                           *)
(***************************************************************************)
IndexSound ==
    \A c \in Conns : Settled(c) /\ ~overlap[c] =>
        /\ \A x \in Customers : c \in binder[x] => x = customerId[c]
        /\ \A p \in Topics : NeverDeleted(p) /\ c \in topic[p] => p \in topics[c]

(***************************************************************************)
(* Once its flag is set, a connection is sooner or later removed by        *)
(* OnWebsocketClose: its wait for the lock in SnapshotOnSafe ends.         *)
(***************************************************************************)
ClosedIsCleaned == \A c \in Conns : closed[c] ~> loop[c] = "gone"

-----------------------------------------------------------------------------
(***************************************************************************)
(* What the comments of the code promise and the code does not keep.       *)
(***************************************************************************)
\* No goroutine will touch the connection any more.
Finished(c) ==
    /\ loop[c] = "gone"
    /\ open[c] \in {"none", "done"}
    /\ \A t \in Tasks : c \notin {v[2] : v \in victims[t]}

\* "guarantees that a closed connection is cleaned up properly" (OnWebsocketClose):
\* a connection nobody works on any more is in no index.
ClosedConnIsUnlisted == \A c \in Conns : Finished(c) => c \notin manager

=============================================================================
