--------------------------- MODULE RegistryProofs ---------------------------
(***************************************************************************)
(* Proof that RegistryInv is an invariant of Registry, and of the safety   *)
(* properties that follow from it, for any number of connections, tasks,   *)
(* customers and topics.                                                   *)
(***************************************************************************)
EXTENDS RegistryInvariant, TLAPS

\* A running task has a well-formed command.
LEMMA CommandType ==
    ASSUME TypeOK, NEW t \in Tasks, pc[t] # "idle"
    PROVE  /\ cmd[t].conn \in Conns
           /\ cmd[t].customerId \in CustomerIds
           /\ cmd[t].session \in BOOLEAN
           /\ cmd[t].topics \in SUBSET Topics
  BY DEF TypeOK, Command

\* The connection whose lock a task has just taken is in nobody's hands: the closer is
\* not past its snapshot.
LEMMA EnterFacts ==
    ASSUME TypeOK, LockInv, AgentInv, FlagInv, NEW t \in Tasks, NEW op, Enter(t, op)
    PROVE  LET d == cmd[t].conn
           IN  /\ d \in Conns
               /\ cmd[t].customerId \in CustomerIds
               /\ cmd[t].topics \in SUBSET Topics
               /\ NoTaskWork(d)
               /\ ~Snapshotted(d)
               /\ closeUnbind[d] = NoCustomer
               /\ closeDrop[d] = {}
<1>1. cmd[t].conn \in Conns /\ cmd[t].customerId \in CustomerIds /\ cmd[t].topics \in SUBSET Topics
  BY CommandType DEF Enter
<1>2. lock[cmd[t].conn] = NoTask /\ ~closed[cmd[t].conn]
  BY DEF Enter, Target
<1>3. NoTaskWork(cmd[t].conn)
  BY <1>1, <1>2 DEF LockInv
<1>4. loop[cmd[t].conn] \in {"none", "up"}
  BY <1>1, <1>2 DEF FlagInv
<1> QED
  BY <1>1, <1>3, <1>4 DEF AgentInv, Snapshotted

\* A command that did not overtake the open task of c found nothing left for it to do.
LEMMA OvertakeFacts ==
    ASSUME TypeOK, AgentInv, NEW c \in Conns, Overtake(c), ~overlap'[c]
    PROVE  ~overlap[c] /\ openBind[c] = NoCustomer /\ openAdd[c] = {}
<1>1. overlap'[c] = (overlap[c] \/ open[c] = "relating")
  BY Zenon DEF TypeOK, Overtake
<1> QED
  BY <1>1 DEF AgentInv

\* Every step keeps every variable in its type.
LEMMA TypeStep ==
    TypeOK /\ [Next]_vars => TypeOK'
<1> SUFFICES ASSUME TypeOK, [Next]_vars PROVE TypeOK'
  OBVIOUS
<1> USE ConstantsAssumption DEF TypeOK, LoopSteps, OpenSteps, TaskSteps, CustomerIds
<1>f. ASSUME UNCHANGED <<loop, open, reply, closed, customerId, session, topics, lock, manager,
                         binder, topic, pc, cmd, kick, rest, victims, taskUnbind, taskBind,
                         taskDrop, taskAdd, openBind, openAdd, closeUnbind, closeDrop, overlap>>
      PROVE  TypeOK'
  BY <1>f
<1>1. ASSUME NEW c \in Conns, Accept(c) PROVE TypeOK'
  BY <1>1 DEF Accept, info, index, work, task, taskWork, openWork, closeWork
<1>2. ASSUME NEW c \in Conns, Refuse(c) PROVE TypeOK'
  BY <1>2 DEF Refuse, info, index, work, task, taskWork, openWork, closeWork
<1>3. ASSUME NEW c \in Conns, OpenStart(c) PROVE TypeOK'
  BY <1>3 DEF OpenStart, info, index, work, task, taskWork, openWork, closeWork
<1>4. ASSUME NEW c \in Conns, OpenAbandon(c) PROVE TypeOK'
  BY <1>4 DEF OpenAbandon, info, index, work, task, taskWork, openWork, closeWork
<1>5. ASSUME NEW c \in Conns, OpenDeny(c) PROVE TypeOK'
  BY <1>5 DEF OpenDeny, info, index, work, task, taskWork, openWork, closeWork
<1>6. ASSUME NEW c \in Conns, NEW r \in Replies, OpenAllow(c, r) PROVE TypeOK'
  BY <1>6 DEF OpenAllow, info, index, work, task, taskWork, openWork, closeWork
<1>7. ASSUME NEW c \in Conns, OpenStore(c) PROVE TypeOK'
  BY <1>7 DEF OpenStore, info, index, work, task, taskWork, openWork, closeWork, ConnOpenResp
<1>8. ASSUME NEW c \in Conns, OpenRegister(c) PROVE TypeOK'
  BY <1>8 DEF OpenRegister, info, index, work, task, taskWork, openWork, closeWork, ConnOpenResp
<1>9. ASSUME NEW c \in Conns, OpenEnd(c) PROVE TypeOK'
  BY <1>9 DEF OpenEnd, info, index, work, task, taskWork, openWork, closeWork
<1>10. ASSUME NEW c \in Conns, FlagClosed(c) PROVE TypeOK'
  BY <1>10 DEF FlagClosed, info, index, work, task, taskWork, openWork, closeWork
<1>11. ASSUME NEW c \in Conns, CloseFlag(c) PROVE TypeOK'
  BY <1>11 DEF CloseFlag, info, index, work, task, taskWork, openWork, closeWork
<1>12. ASSUME NEW c \in Conns, CloseUnlist(c) PROVE TypeOK'
  BY <1>12 DEF CloseUnlist, info, index, work, task, taskWork, openWork, closeWork
<1>13. ASSUME NEW c \in Conns, CloseSnapshot(c) PROVE TypeOK'
  BY <1>13 DEF CloseSnapshot, info, index, work, task, taskWork, openWork, closeWork
<1>14. ASSUME NEW c \in Conns, CloseEnd(c) PROVE TypeOK'
  BY <1>14 DEF CloseEnd, info, index, work, task, taskWork, openWork, closeWork
<1>15. ASSUME NEW c \in Conns, TaskUnbind(c) PROVE TypeOK'
  BY <1>15 DEF TaskUnbind, BinderDel, info, index, work, task, taskWork, openWork, closeWork
<1>16. ASSUME NEW c \in Conns, TaskBind(c) PROVE TypeOK'
  BY <1>16 DEF TaskBind, BinderSet, info, index, work, task, taskWork, openWork, closeWork
<1>17. ASSUME NEW c \in Conns, NEW p \in Topics, TaskDrop(c, p) PROVE TypeOK'
  BY <1>17 DEF TaskDrop, TopicDel, info, index, work, task, taskWork, openWork, closeWork
<1>18. ASSUME NEW c \in Conns, NEW p \in Topics, TaskAdd(c, p) PROVE TypeOK'
  BY <1>18 DEF TaskAdd, TopicSet, info, index, work, task, taskWork, openWork, closeWork
<1>19. ASSUME NEW c \in Conns, OpenBind(c) PROVE TypeOK'
  BY <1>19 DEF OpenBind, BinderSet, info, index, work, task, taskWork, openWork, closeWork
<1>20. ASSUME NEW c \in Conns, NEW p \in Topics, OpenAdd(c, p) PROVE TypeOK'
  BY <1>20 DEF OpenAdd, TopicSet, info, index, work, task, taskWork, openWork, closeWork
<1>21. ASSUME NEW c \in Conns, CloseUnbind(c) PROVE TypeOK'
  BY <1>21 DEF CloseUnbind, BinderDel, info, index, work, task, taskWork, openWork, closeWork
<1>22. ASSUME NEW c \in Conns, NEW p \in Topics, CloseDrop(c, p) PROVE TypeOK'
  BY <1>22 DEF CloseDrop, TopicDel, info, index, work, task, taskWork, openWork, closeWork
<1>23. ASSUME NEW t \in Tasks, NEW m \in Commands, Get(t, m) PROVE TypeOK'
  BY <1>23 DEF Get, info, index, work, task, taskWork, openWork, closeWork
<1>24. ASSUME NEW t \in Tasks, LeaveClosed(t) PROVE TypeOK'
  BY <1>24, CommandType DEF LeaveClosed, Target, info, index, work, task, taskWork, openWork, closeWork
<1>25. ASSUME NEW t \in Tasks, ConnInfoUpdate(t) PROVE TypeOK'
  <2> DEFINE c == cmd[t].conn
             m == cmd[t]
  <2>1. c \in Conns /\ m.customerId \in CustomerIds /\ m.topics \in SUBSET Topics
    BY <1>25, CommandType DEF ConnInfoUpdate, Enter
  <2>a. customerId[c] \in CustomerIds /\ topics[c] \in SUBSET Topics
    BY <2>1
  <2>2. pc' \in [Tasks -> TaskSteps] /\ lock' \in [Conns -> Tasks \cup {NoTask}]
    BY <1>25, <2>1 DEF ConnInfoUpdate, Enter, Target
  <2>3. session' \in [Conns -> BOOLEAN] /\ overlap' \in [Conns -> BOOLEAN]
    BY <1>25, <2>1, Zenon DEF ConnInfoUpdate, Overtake
  <2>4. customerId' \in [Conns -> CustomerIds] /\ topics' \in [Conns -> SUBSET Topics]
    BY <1>25, <2>1 DEF ConnInfoUpdate, Target
  <2>5. taskUnbind' \in [Conns -> CustomerIds] /\ taskBind' \in [Conns -> CustomerIds]
    BY <1>25, <2>1, <2>a DEF ConnInfoUpdate, Target
  <2>6. taskDrop' \in [Conns -> SUBSET Topics] /\ taskAdd' \in [Conns -> SUBSET Topics]
    BY <1>25, <2>1, <2>a, ZenonT(40) DEF ConnInfoUpdate, Target
  <2>7. UNCHANGED <<loop, open, reply, closed, manager, binder, topic, cmd, kick, rest, victims,
                    openBind, openAdd, closeUnbind, closeDrop>>
    BY <1>25 DEF ConnInfoUpdate, index, openWork, closeWork
  <2>8. \A u \in Tasks : pc'[u] # "idle" => cmd'[u] \in Command
    BY <1>25, <2>7 DEF ConnInfoUpdate, Enter
  <2> QED
    BY <2>2, <2>3, <2>4, <2>5, <2>6, <2>7, <2>8
<1>26. ASSUME NEW t \in Tasks, ConnInfoDelete(t) PROVE TypeOK'
  <2> DEFINE c == cmd[t].conn
             m == cmd[t]
  <2>1. c \in Conns /\ m.customerId \in CustomerIds /\ m.topics \in SUBSET Topics
    BY <1>26, CommandType DEF ConnInfoDelete, Enter
  <2>a. customerId[c] \in CustomerIds /\ topics[c] \in SUBSET Topics
    BY <2>1
  <2>2. pc' \in [Tasks -> TaskSteps] /\ lock' \in [Conns -> Tasks \cup {NoTask}]
    BY <1>26, <2>1 DEF ConnInfoDelete, Enter, Target
  <2>3. session' \in [Conns -> BOOLEAN] /\ overlap' \in [Conns -> BOOLEAN]
    BY <1>26, <2>1, Zenon DEF ConnInfoDelete, Overtake
  <2>4. customerId' \in [Conns -> CustomerIds] /\ topics' \in [Conns -> SUBSET Topics]
    BY <1>26, <2>1 DEF ConnInfoDelete, Target
  <2>5. taskUnbind' \in [Conns -> CustomerIds] /\ taskBind' \in [Conns -> CustomerIds]
    BY <1>26, <2>1, <2>a DEF ConnInfoDelete, Target
  <2>6. taskDrop' \in [Conns -> SUBSET Topics] /\ taskAdd' \in [Conns -> SUBSET Topics]
    BY <1>26, <2>1, <2>a DEF ConnInfoDelete, Target
  <2>7. UNCHANGED <<loop, open, reply, closed, manager, binder, topic, cmd, kick, rest, victims,
                    openBind, openAdd, closeUnbind, closeDrop>>
    BY <1>26 DEF ConnInfoDelete, index, openWork, closeWork
  <2>8. \A u \in Tasks : pc'[u] # "idle" => cmd'[u] \in Command
    BY <1>26, <2>7 DEF ConnInfoDelete, Enter
  <2> QED
    BY <2>2, <2>3, <2>4, <2>5, <2>6, <2>7, <2>8
<1>27. ASSUME NEW t \in Tasks, TopicSubscribe(t) PROVE TypeOK'
  BY <1>27, CommandType DEF TopicSubscribe, Enter, Target, Overtake, info, index, work, task, taskWork, openWork,
    closeWork
<1>28. ASSUME NEW t \in Tasks, TopicUnsubscribe(t) PROVE TypeOK'
  BY <1>28, CommandType DEF TopicUnsubscribe, Enter, Target, Overtake, info, index, work, task, taskWork,
    openWork, closeWork
<1>29. ASSUME NEW t \in Tasks, Unlock(t) PROVE TypeOK'
  BY <1>29, CommandType DEF Unlock, Target, info, index, work, task, taskWork, openWork, closeWork
<1>30. ASSUME NEW t \in Tasks, NEW m \in Commands, TopicDelete(t, m) PROVE TypeOK'
  BY <1>30 DEF TopicDelete, info, index, work, task, taskWork, openWork, closeWork, Command
<1>31. ASSUME NEW t \in Tasks, NEW p \in Topics, TopicDeleteTake(t, p) PROVE TypeOK'
  BY <1>31 DEF TopicDeleteTake, info, index, work, task, taskWork, openWork, closeWork
<1>32. ASSUME NEW t \in Tasks, NEW p \in Topics, NEW c \in Conns, TopicDeleteUnsubscribe(t, p, c) PROVE TypeOK'
  BY <1>32 DEF TopicDeleteUnsubscribe, info, index, work, task, taskWork, openWork, closeWork
<1>33. ASSUME NEW t \in Tasks, TopicDeleteEnd(t) PROVE TypeOK'
  BY <1>33 DEF TopicDeleteEnd, info, index, work, task, taskWork, openWork, closeWork
<1>34. ASSUME NEW t \in Tasks, NEW m \in Commands, ForceOffline(t, m) PROVE TypeOK'
  BY <1>34 DEF ForceOffline, info, index, work, task, taskWork, openWork, closeWork, Command
<1>35. ASSUME NEW t \in Tasks, NEW m \in Commands, ForceOfflineByCustomerId(t, m) PROVE TypeOK'
  BY <1>35 DEF ForceOfflineByCustomerId, info, index, work, task, taskWork, openWork, closeWork,
    Command
<1>36. ASSUME NEW t \in Tasks, ForceOfflineGuest(t) PROVE TypeOK'
  BY <1>36, CommandType DEF ForceOfflineGuest, Target, info, index, work, task, taskWork, openWork, closeWork
<1>37. ASSUME NEW t \in Tasks, NEW c \in Conns, WriteCloseFrame(t, c) PROVE TypeOK'
  BY <1>37 DEF WriteCloseFrame, info, index, work, task, taskWork, openWork, closeWork
<1>38. ASSUME NEW t \in Tasks, KickEnd(t) PROVE TypeOK'
  BY <1>38 DEF KickEnd, info, index, work, task, taskWork, openWork, closeWork
<1>s. CASE UNCHANGED vars
  BY <1>s, <1>f DEF vars, info, index, work, task, taskWork, openWork, closeWork
<1> QED
  BY <1>f, <1>1, <1>2, <1>3, <1>4, <1>5, <1>6, <1>7, <1>8, <1>9, <1>10, <1>11, <1>12, <1>13,
     <1>14, <1>15, <1>16, <1>17, <1>18, <1>19, <1>20, <1>21, <1>22, <1>23, <1>24, <1>25,
     <1>26, <1>27, <1>28, <1>29, <1>30, <1>31, <1>32, <1>33, <1>34, <1>35, <1>36, <1>37,
     <1>38, <1>s
  DEF Next, OpenTask, OnClose, TaskRelate, Start, Process

\* A task takes the lock when it is free and gives it back when its work is done.
LEMMA LockStep ==
    TypeOK /\ LockInv /\ [Next]_vars => LockInv'
<1> SUFFICES ASSUME TypeOK, LockInv, [Next]_vars PROVE LockInv'
  OBVIOUS
<1> USE ConstantsAssumption DEF TypeOK, LockInv, NoTaskWork
<1>f. ASSUME UNCHANGED <<lock, pc, cmd, taskUnbind, taskBind, taskDrop, taskAdd>>
      PROVE  LockInv'
  BY <1>f
<1>1. ASSUME NEW c \in Conns,
         \/ Accept(c)
         \/ Refuse(c)
         \/ OpenStart(c)
         \/ OpenAbandon(c)
         \/ OpenDeny(c)
         \/ \E r \in Replies : OpenAllow(c, r)
         \/ OpenStore(c)
         \/ OpenRegister(c)
         \/ OpenEnd(c)
         \/ FlagClosed(c)
         \/ CloseFlag(c)
         \/ CloseUnlist(c)
         \/ CloseSnapshot(c)
         \/ CloseEnd(c)
         \/ OpenBind(c)
         \/ \E p \in Topics : OpenAdd(c, p)
         \/ CloseUnbind(c)
         \/ \E p \in Topics : CloseDrop(c, p)
      PROVE  UNCHANGED <<lock, pc, cmd, taskUnbind, taskBind, taskDrop, taskAdd>>
  BY <1>1 DEF Accept, Refuse, OpenStart, OpenAbandon, OpenDeny, OpenAllow, OpenStore, OpenRegister,
    OpenEnd, FlagClosed, CloseFlag, CloseUnlist, CloseSnapshot, CloseEnd, OpenBind,
    OpenAdd, CloseUnbind, CloseDrop, info, index, work, task, taskWork, openWork,
    closeWork
<1>2. ASSUME NEW t \in Tasks,
         \/ \E p \in Topics : TopicDeleteTake(t, p)
         \/ \E p \in Topics, c \in Conns : TopicDeleteUnsubscribe(t, p, c)
         \/ \E c \in Conns : WriteCloseFrame(t, c)
      PROVE  UNCHANGED <<lock, pc, cmd, taskUnbind, taskBind, taskDrop, taskAdd>>
  BY <1>2 DEF TopicDeleteTake, TopicDeleteUnsubscribe, WriteCloseFrame, info, index, work, task,
    taskWork, openWork, closeWork
<1>3. ASSUME NEW c \in Conns, TaskUnbind(c) PROVE LockInv'
  BY <1>3 DEF TaskUnbind, BinderDel, info, index, work, task, taskWork, openWork, closeWork
<1>4. ASSUME NEW c \in Conns, TaskBind(c) PROVE LockInv'
  BY <1>4 DEF TaskBind, BinderSet, info, index, work, task, taskWork, openWork, closeWork
<1>5. ASSUME NEW c \in Conns, NEW p \in Topics, TaskDrop(c, p) PROVE LockInv'
  BY <1>5 DEF TaskDrop, TopicDel, info, index, work, task, taskWork, openWork, closeWork
<1>6. ASSUME NEW c \in Conns, NEW p \in Topics, TaskAdd(c, p) PROVE LockInv'
  BY <1>6 DEF TaskAdd, TopicSet, info, index, work, task, taskWork, openWork, closeWork
<1>7. ASSUME NEW t \in Tasks, NEW m \in Commands, Get(t, m) PROVE LockInv'
  BY <1>7 DEF Get, info, index, work, task, taskWork, openWork, closeWork
<1>8. ASSUME NEW t \in Tasks, LeaveClosed(t) PROVE LockInv'
  BY <1>8, CommandType DEF LeaveClosed, Target, info, index, work, task, taskWork, openWork, closeWork
<1>9. ASSUME NEW t \in Tasks, ConnInfoUpdate(t) PROVE LockInv'
  BY <1>9, CommandType DEF ConnInfoUpdate, Enter, Target, Overtake, info, index, work, task, taskWork, openWork,
    closeWork
<1>10. ASSUME NEW t \in Tasks, ConnInfoDelete(t) PROVE LockInv'
  BY <1>10, CommandType DEF ConnInfoDelete, Enter, Target, Overtake, info, index, work, task, taskWork, openWork,
    closeWork
<1>11. ASSUME NEW t \in Tasks, TopicSubscribe(t) PROVE LockInv'
  BY <1>11, CommandType DEF TopicSubscribe, Enter, Target, Overtake, info, index, work, task, taskWork, openWork,
    closeWork
<1>12. ASSUME NEW t \in Tasks, TopicUnsubscribe(t) PROVE LockInv'
  BY <1>12, CommandType DEF TopicUnsubscribe, Enter, Target, Overtake, info, index, work, task, taskWork,
    openWork, closeWork
<1>13. ASSUME NEW t \in Tasks, Unlock(t) PROVE LockInv'
  BY <1>13, CommandType DEF Unlock, Target, info, index, work, task, taskWork, openWork, closeWork
<1>14. ASSUME NEW t \in Tasks, NEW m \in Commands, TopicDelete(t, m) PROVE LockInv'
  BY <1>14 DEF TopicDelete, info, index, work, task, taskWork, openWork, closeWork
<1>15. ASSUME NEW t \in Tasks, TopicDeleteEnd(t) PROVE LockInv'
  BY <1>15 DEF TopicDeleteEnd, info, index, work, task, taskWork, openWork, closeWork
<1>16. ASSUME NEW t \in Tasks, NEW m \in Commands, ForceOffline(t, m) PROVE LockInv'
  BY <1>16 DEF ForceOffline, info, index, work, task, taskWork, openWork, closeWork
<1>17. ASSUME NEW t \in Tasks, NEW m \in Commands, ForceOfflineByCustomerId(t, m) PROVE LockInv'
  BY <1>17 DEF ForceOfflineByCustomerId, info, index, work, task, taskWork, openWork, closeWork
<1>18. ASSUME NEW t \in Tasks, ForceOfflineGuest(t) PROVE LockInv'
  BY <1>18, CommandType DEF ForceOfflineGuest, Target, info, index, work, task, taskWork, openWork, closeWork
<1>19. ASSUME NEW t \in Tasks, KickEnd(t) PROVE LockInv'
  BY <1>19 DEF KickEnd, info, index, work, task, taskWork, openWork, closeWork
<1>s. CASE UNCHANGED vars
  BY <1>s, <1>f DEF vars, info, index, work, task, taskWork, openWork, closeWork
<1> QED
  BY <1>f, <1>1, <1>2, <1>3, <1>4, <1>5, <1>6, <1>7, <1>8, <1>9, <1>10, <1>11, <1>12, <1>13,
     <1>14, <1>15, <1>16, <1>17, <1>18, <1>19, <1>s
  DEF Next, OpenTask, OnClose, TaskRelate, Start, Process

\* Open task and closer get their work when they start on the indexes.
LEMMA AgentStep ==
    TypeOK /\ FlagInv /\ AgentInv /\ [Next]_vars => AgentInv'
<1> SUFFICES ASSUME TypeOK, FlagInv, AgentInv, [Next]_vars PROVE AgentInv'
  OBVIOUS
<1> USE ConstantsAssumption DEF TypeOK, FlagInv, AgentInv
<1>f. ASSUME UNCHANGED <<open, loop, openBind, openAdd, closeUnbind, closeDrop>>
      PROVE  AgentInv'
  BY <1>f
<1>1. ASSUME NEW c \in Conns,
         \/ FlagClosed(c)
         \/ TaskUnbind(c)
         \/ TaskBind(c)
         \/ \E p \in Topics : TaskDrop(c, p)
         \/ \E p \in Topics : TaskAdd(c, p)
      PROVE  UNCHANGED <<open, loop, openBind, openAdd, closeUnbind, closeDrop>>
  BY <1>1 DEF FlagClosed, TaskUnbind, TaskBind, TaskDrop, TaskAdd, info, index, work, task,
    taskWork, openWork, closeWork
<1>2. ASSUME NEW t \in Tasks,
         \/ \E m \in Commands : Get(t, m)
         \/ LeaveClosed(t)
         \/ ConnInfoUpdate(t)
         \/ ConnInfoDelete(t)
         \/ TopicSubscribe(t)
         \/ TopicUnsubscribe(t)
         \/ Unlock(t)
         \/ \E m \in Commands : TopicDelete(t, m)
         \/ \E p \in Topics : TopicDeleteTake(t, p)
         \/ \E p \in Topics, c \in Conns : TopicDeleteUnsubscribe(t, p, c)
         \/ TopicDeleteEnd(t)
         \/ \E m \in Commands : ForceOffline(t, m)
         \/ \E m \in Commands : ForceOfflineByCustomerId(t, m)
         \/ ForceOfflineGuest(t)
         \/ \E c \in Conns : WriteCloseFrame(t, c)
         \/ KickEnd(t)
      PROVE  UNCHANGED <<open, loop, openBind, openAdd, closeUnbind, closeDrop>>
  BY <1>2 DEF Get, LeaveClosed, ConnInfoUpdate, ConnInfoDelete, TopicSubscribe, TopicUnsubscribe,
    Unlock, TopicDelete, TopicDeleteTake, TopicDeleteUnsubscribe, TopicDeleteEnd,
    ForceOffline, ForceOfflineByCustomerId, ForceOfflineGuest, WriteCloseFrame, KickEnd,
    Target, info, index, work, task, taskWork, openWork, closeWork
<1>3. ASSUME NEW c \in Conns, Accept(c) PROVE AgentInv'
  BY <1>3 DEF Accept, info, index, work, task, taskWork, openWork, closeWork
<1>4. ASSUME NEW c \in Conns, Refuse(c) PROVE AgentInv'
  BY <1>4 DEF Refuse, info, index, work, task, taskWork, openWork, closeWork
<1>5. ASSUME NEW c \in Conns, OpenStart(c) PROVE AgentInv'
  BY <1>5 DEF OpenStart, info, index, work, task, taskWork, openWork, closeWork
<1>6. ASSUME NEW c \in Conns, OpenAbandon(c) PROVE AgentInv'
  BY <1>6 DEF OpenAbandon, info, index, work, task, taskWork, openWork, closeWork
<1>7. ASSUME NEW c \in Conns, OpenDeny(c) PROVE AgentInv'
  BY <1>7 DEF OpenDeny, info, index, work, task, taskWork, openWork, closeWork
<1>8. ASSUME NEW c \in Conns, NEW r \in Replies, OpenAllow(c, r) PROVE AgentInv'
  BY <1>8 DEF OpenAllow, info, index, work, task, taskWork, openWork, closeWork
<1>9. ASSUME NEW c \in Conns, OpenStore(c) PROVE AgentInv'
  BY <1>9 DEF OpenStore, info, index, work, task, taskWork, openWork, closeWork
<1>10. ASSUME NEW c \in Conns, OpenRegister(c) PROVE AgentInv'
  BY <1>10 DEF OpenRegister, info, index, work, task, taskWork, openWork, closeWork
<1>11. ASSUME NEW c \in Conns, OpenEnd(c) PROVE AgentInv'
  BY <1>11 DEF OpenEnd, info, index, work, task, taskWork, openWork, closeWork
<1>12. ASSUME NEW c \in Conns, CloseFlag(c) PROVE AgentInv'
  BY <1>12 DEF CloseFlag, info, index, work, task, taskWork, openWork, closeWork
<1>13. ASSUME NEW c \in Conns, CloseUnlist(c) PROVE AgentInv'
  BY <1>13 DEF CloseUnlist, info, index, work, task, taskWork, openWork, closeWork
<1>14. ASSUME NEW c \in Conns, CloseSnapshot(c) PROVE AgentInv'
  BY <1>14 DEF CloseSnapshot, info, index, work, task, taskWork, openWork, closeWork
<1>15. ASSUME NEW c \in Conns, CloseEnd(c) PROVE AgentInv'
  BY <1>15 DEF CloseEnd, info, index, work, task, taskWork, openWork, closeWork
<1>16. ASSUME NEW c \in Conns, OpenBind(c) PROVE AgentInv'
  BY <1>16 DEF OpenBind, BinderSet, info, index, work, task, taskWork, openWork, closeWork
<1>17. ASSUME NEW c \in Conns, NEW p \in Topics, OpenAdd(c, p) PROVE AgentInv'
  BY <1>17 DEF OpenAdd, TopicSet, info, index, work, task, taskWork, openWork, closeWork
<1>18. ASSUME NEW c \in Conns, CloseUnbind(c) PROVE AgentInv'
  BY <1>18 DEF CloseUnbind, BinderDel, info, index, work, task, taskWork, openWork, closeWork
<1>19. ASSUME NEW c \in Conns, NEW p \in Topics, CloseDrop(c, p) PROVE AgentInv'
  BY <1>19 DEF CloseDrop, TopicDel, info, index, work, task, taskWork, openWork, closeWork
<1>s. CASE UNCHANGED vars
  BY <1>s, <1>f DEF vars, info, index, work, task, taskWork, openWork, closeWork
<1> QED
  BY <1>f, <1>1, <1>2, <1>3, <1>4, <1>5, <1>6, <1>7, <1>8, <1>9, <1>10, <1>11, <1>12, <1>13,
     <1>14, <1>15, <1>16, <1>17, <1>18, <1>19, <1>s
  DEF Next, OpenTask, OnClose, TaskRelate, Start, Process

\* No task takes the lock of a connection whose flag is set.
LEMMA FlagStep ==
    TypeOK /\ FlagInv /\ [Next]_vars => FlagInv'
<1> SUFFICES ASSUME TypeOK, FlagInv, [Next]_vars PROVE FlagInv'
  OBVIOUS
<1> USE ConstantsAssumption DEF TypeOK, FlagInv, Snapshotted
<1>f. ASSUME UNCHANGED <<loop, open, closed, lock>>
      PROVE  FlagInv'
  BY <1>f
<1>1. ASSUME NEW c \in Conns,
         \/ TaskUnbind(c)
         \/ TaskBind(c)
         \/ \E p \in Topics : TaskDrop(c, p)
         \/ \E p \in Topics : TaskAdd(c, p)
         \/ OpenBind(c)
         \/ \E p \in Topics : OpenAdd(c, p)
         \/ CloseUnbind(c)
         \/ \E p \in Topics : CloseDrop(c, p)
      PROVE  UNCHANGED <<loop, open, closed, lock>>
  BY <1>1 DEF TaskUnbind, TaskBind, TaskDrop, TaskAdd, OpenBind, OpenAdd, CloseUnbind, CloseDrop,
    info, index, work, task, taskWork, openWork, closeWork
<1>2. ASSUME NEW t \in Tasks,
         \/ \E m \in Commands : Get(t, m)
         \/ LeaveClosed(t)
         \/ \E m \in Commands : TopicDelete(t, m)
         \/ \E p \in Topics : TopicDeleteTake(t, p)
         \/ \E p \in Topics, c \in Conns : TopicDeleteUnsubscribe(t, p, c)
         \/ TopicDeleteEnd(t)
         \/ \E m \in Commands : ForceOffline(t, m)
         \/ \E m \in Commands : ForceOfflineByCustomerId(t, m)
         \/ ForceOfflineGuest(t)
         \/ KickEnd(t)
      PROVE  UNCHANGED <<loop, open, closed, lock>>
  BY <1>2 DEF Get, LeaveClosed, TopicDelete, TopicDeleteTake, TopicDeleteUnsubscribe,
    TopicDeleteEnd, ForceOffline, ForceOfflineByCustomerId, ForceOfflineGuest, KickEnd,
    Target, info, index, work, task, taskWork, openWork, closeWork
<1>3. ASSUME NEW c \in Conns, Accept(c) PROVE FlagInv'
  BY <1>3 DEF Accept, info, index, work, task, taskWork, openWork, closeWork
<1>4. ASSUME NEW c \in Conns, Refuse(c) PROVE FlagInv'
  BY <1>4 DEF Refuse, info, index, work, task, taskWork, openWork, closeWork
<1>5. ASSUME NEW c \in Conns, OpenStart(c) PROVE FlagInv'
  BY <1>5 DEF OpenStart, info, index, work, task, taskWork, openWork, closeWork
<1>6. ASSUME NEW c \in Conns, OpenAbandon(c) PROVE FlagInv'
  BY <1>6 DEF OpenAbandon, info, index, work, task, taskWork, openWork, closeWork
<1>7. ASSUME NEW c \in Conns, OpenDeny(c) PROVE FlagInv'
  BY <1>7 DEF OpenDeny, info, index, work, task, taskWork, openWork, closeWork
<1>8. ASSUME NEW c \in Conns, NEW r \in Replies, OpenAllow(c, r) PROVE FlagInv'
  BY <1>8 DEF OpenAllow, info, index, work, task, taskWork, openWork, closeWork
<1>9. ASSUME NEW c \in Conns, OpenStore(c) PROVE FlagInv'
  BY <1>9 DEF OpenStore, info, index, work, task, taskWork, openWork, closeWork
<1>10. ASSUME NEW c \in Conns, OpenRegister(c) PROVE FlagInv'
  BY <1>10 DEF OpenRegister, info, index, work, task, taskWork, openWork, closeWork
<1>11. ASSUME NEW c \in Conns, OpenEnd(c) PROVE FlagInv'
  BY <1>11 DEF OpenEnd, info, index, work, task, taskWork, openWork, closeWork
<1>12. ASSUME NEW c \in Conns, FlagClosed(c) PROVE FlagInv'
  BY <1>12 DEF FlagClosed, info, index, work, task, taskWork, openWork, closeWork
<1>13. ASSUME NEW c \in Conns, CloseFlag(c) PROVE FlagInv'
  BY <1>13 DEF CloseFlag, info, index, work, task, taskWork, openWork, closeWork
<1>14. ASSUME NEW c \in Conns, CloseUnlist(c) PROVE FlagInv'
  BY <1>14 DEF CloseUnlist, info, index, work, task, taskWork, openWork, closeWork
<1>15. ASSUME NEW c \in Conns, CloseSnapshot(c) PROVE FlagInv'
  BY <1>15 DEF CloseSnapshot, info, index, work, task, taskWork, openWork, closeWork
<1>16. ASSUME NEW c \in Conns, CloseEnd(c) PROVE FlagInv'
  BY <1>16 DEF CloseEnd, info, index, work, task, taskWork, openWork, closeWork
<1>17. ASSUME NEW t \in Tasks, ConnInfoUpdate(t) PROVE FlagInv'
  BY <1>17, CommandType DEF ConnInfoUpdate, Enter, Target, Overtake, info, index, work, task, taskWork, openWork,
    closeWork
<1>18. ASSUME NEW t \in Tasks, ConnInfoDelete(t) PROVE FlagInv'
  BY <1>18, CommandType DEF ConnInfoDelete, Enter, Target, Overtake, info, index, work, task, taskWork, openWork,
    closeWork
<1>19. ASSUME NEW t \in Tasks, TopicSubscribe(t) PROVE FlagInv'
  BY <1>19, CommandType DEF TopicSubscribe, Enter, Target, Overtake, info, index, work, task, taskWork, openWork,
    closeWork
<1>20. ASSUME NEW t \in Tasks, TopicUnsubscribe(t) PROVE FlagInv'
  BY <1>20, CommandType DEF TopicUnsubscribe, Enter, Target, Overtake, info, index, work, task, taskWork,
    openWork, closeWork
<1>21. ASSUME NEW t \in Tasks, Unlock(t) PROVE FlagInv'
  BY <1>21, CommandType DEF Unlock, Target, info, index, work, task, taskWork, openWork, closeWork
<1>22. ASSUME NEW t \in Tasks, NEW c \in Conns, WriteCloseFrame(t, c) PROVE FlagInv'
  BY <1>22 DEF WriteCloseFrame, info, index, work, task, taskWork, openWork, closeWork
<1>s. CASE UNCHANGED vars
  BY <1>s, <1>f DEF vars, info, index, work, task, taskWork, openWork, closeWork
<1> QED
  BY <1>f, <1>1, <1>2, <1>3, <1>4, <1>5, <1>6, <1>7, <1>8, <1>9, <1>10, <1>11, <1>12, <1>13,
     <1>14, <1>15, <1>16, <1>17, <1>18, <1>19, <1>20, <1>21, <1>22, <1>s
  DEF Next, OpenTask, OnClose, TaskRelate, Start, Process

\* Only the open task itself makes a connection known.
LEMMA UnregisteredStep ==
    TypeOK /\ LockInv /\ AgentInv /\ FlagInv /\ UnregisteredInv /\ [Next]_vars => UnregisteredInv'
<1> SUFFICES ASSUME TypeOK, LockInv, AgentInv, FlagInv, UnregisteredInv, [Next]_vars PROVE UnregisteredInv'
  OBVIOUS
<1> USE ConstantsAssumption DEF TypeOK, LockInv, AgentInv, FlagInv, UnregisteredInv, Unregistered, NoTaskWork
<1>f. ASSUME UNCHANGED <<open, reply, manager, lock, binder, topic, pc, cmd, victims,
                         customerId, topics>>
      PROVE  UnregisteredInv'
  BY <1>f
<1>1. ASSUME NEW c \in Conns,
         \/ Refuse(c)
         \/ FlagClosed(c)
         \/ CloseFlag(c)
         \/ CloseSnapshot(c)
         \/ CloseEnd(c)
      PROVE  UNCHANGED <<open, reply, manager, lock, binder, topic, pc, cmd, victims,
                         customerId, topics>>
  BY <1>1 DEF Refuse, FlagClosed, CloseFlag, CloseSnapshot, CloseEnd, info, index, work, task,
    taskWork, openWork, closeWork
<1>2. ASSUME NEW t \in Tasks,
         \/ \E c \in Conns : WriteCloseFrame(t, c)
      PROVE  UNCHANGED <<open, reply, manager, lock, binder, topic, pc, cmd, victims,
                         customerId, topics>>
  BY <1>2 DEF WriteCloseFrame, info, index, work, task, taskWork, openWork, closeWork
<1>3. ASSUME NEW c \in Conns, Accept(c) PROVE UnregisteredInv'
  BY <1>3 DEF Accept, info, index, work, task, taskWork, openWork, closeWork
<1>4. ASSUME NEW c \in Conns, OpenStart(c) PROVE UnregisteredInv'
  BY <1>4 DEF OpenStart, info, index, work, task, taskWork, openWork, closeWork
<1>5. ASSUME NEW c \in Conns, OpenAbandon(c) PROVE UnregisteredInv'
  BY <1>5 DEF OpenAbandon, info, index, work, task, taskWork, openWork, closeWork
<1>6. ASSUME NEW c \in Conns, OpenDeny(c) PROVE UnregisteredInv'
  BY <1>6 DEF OpenDeny, info, index, work, task, taskWork, openWork, closeWork
<1>7. ASSUME NEW c \in Conns, NEW r \in Replies, OpenAllow(c, r) PROVE UnregisteredInv'
  BY <1>7 DEF OpenAllow, info, index, work, task, taskWork, openWork, closeWork
<1>8. ASSUME NEW c \in Conns, OpenStore(c) PROVE UnregisteredInv'
  <2>1. customerId[c] = NoCustomer /\ topics[c] = {}
    BY <1>8 DEF OpenStore
  <2>2. customerId'[c] = reply[c].customerId
    BY <1>8, <2>1 DEF OpenStore
  <2>3. topics'[c] = reply[c].topics
    BY <1>8, <2>1 DEF OpenStore
  <2>4. \A d \in Conns : d # c => open'[d] = open[d] /\ customerId'[d] = customerId[d] /\ topics'[d] = topics[d]
    BY <1>8 DEF OpenStore
  <2>5. open'[c] = "stored" /\ UNCHANGED <<reply, lock, manager, binder, topic, pc, cmd, victims>>
    BY <1>8 DEF OpenStore, index, task
  <2> SUFFICES ASSUME NEW d \in Conns, Unregistered(d)'
               PROVE  /\ d \notin manager /\ lock[d] = NoTask
                      /\ \A x \in Customers : d \notin binder[x]
                      /\ \A p \in Topics : d \notin topic[p]
                      /\ \A t \in Tasks : pc[t] = "lock" => cmd[t].conn # d
                      /\ \A t \in Tasks, p \in Topics : <<p, d>> \notin victims[t]
                      /\ IF open'[d] = "stored"
                         THEN customerId'[d] = reply[d].customerId /\ topics'[d] = reply[d].topics
                         ELSE customerId'[d] = NoCustomer /\ topics'[d] = {}
    BY <2>5
  <2>6. CASE d = c
    BY <1>8, <2>2, <2>3, <2>5, <2>6 DEF OpenStore
  <2>7. CASE d # c
    BY <2>4, <2>7
  <2> QED
    BY <2>6, <2>7
<1>9. ASSUME NEW c \in Conns, OpenRegister(c) PROVE UnregisteredInv'
  BY <1>9 DEF OpenRegister, info, index, work, task, taskWork, openWork, closeWork
<1>10. ASSUME NEW c \in Conns, OpenEnd(c) PROVE UnregisteredInv'
  BY <1>10 DEF OpenEnd, info, index, work, task, taskWork, openWork, closeWork
<1>11. ASSUME NEW c \in Conns, CloseUnlist(c) PROVE UnregisteredInv'
  BY <1>11 DEF CloseUnlist, info, index, work, task, taskWork, openWork, closeWork
<1>12. ASSUME NEW c \in Conns, TaskUnbind(c) PROVE UnregisteredInv'
  BY <1>12 DEF TaskUnbind, BinderDel, info, index, work, task, taskWork, openWork, closeWork
<1>13. ASSUME NEW c \in Conns, TaskBind(c) PROVE UnregisteredInv'
  BY <1>13 DEF TaskBind, BinderSet, info, index, work, task, taskWork, openWork, closeWork
<1>14. ASSUME NEW c \in Conns, NEW p \in Topics, TaskDrop(c, p) PROVE UnregisteredInv'
  BY <1>14 DEF TaskDrop, TopicDel, info, index, work, task, taskWork, openWork, closeWork
<1>15. ASSUME NEW c \in Conns, NEW p \in Topics, TaskAdd(c, p) PROVE UnregisteredInv'
  BY <1>15 DEF TaskAdd, TopicSet, info, index, work, task, taskWork, openWork, closeWork
<1>16. ASSUME NEW c \in Conns, OpenBind(c) PROVE UnregisteredInv'
  BY <1>16 DEF OpenBind, BinderSet, info, index, work, task, taskWork, openWork, closeWork
<1>17. ASSUME NEW c \in Conns, NEW p \in Topics, OpenAdd(c, p) PROVE UnregisteredInv'
  BY <1>17, SMTT(30) DEF OpenAdd, TopicSet, info, index, work, task, taskWork, openWork, closeWork
<1>18. ASSUME NEW c \in Conns, CloseUnbind(c) PROVE UnregisteredInv'
  BY <1>18 DEF CloseUnbind, BinderDel, info, index, work, task, taskWork, openWork, closeWork
<1>19. ASSUME NEW c \in Conns, NEW p \in Topics, CloseDrop(c, p) PROVE UnregisteredInv'
  BY <1>19 DEF CloseDrop, TopicDel, info, index, work, task, taskWork, openWork, closeWork
<1>20. ASSUME NEW t \in Tasks, NEW m \in Commands, Get(t, m) PROVE UnregisteredInv'
  BY <1>20 DEF Get, info, index, work, task, taskWork, openWork, closeWork
<1>21. ASSUME NEW t \in Tasks, LeaveClosed(t) PROVE UnregisteredInv'
  BY <1>21, CommandType DEF LeaveClosed, Target, info, index, work, task, taskWork, openWork, closeWork
<1>22. ASSUME NEW t \in Tasks, ConnInfoUpdate(t) PROVE UnregisteredInv'
  BY <1>22, CommandType DEF ConnInfoUpdate, Enter, Target, Overtake, info, index, work, task, taskWork, openWork,
    closeWork
<1>23. ASSUME NEW t \in Tasks, ConnInfoDelete(t) PROVE UnregisteredInv'
  BY <1>23, CommandType DEF ConnInfoDelete, Enter, Target, Overtake, info, index, work, task, taskWork, openWork,
    closeWork
<1>24. ASSUME NEW t \in Tasks, TopicSubscribe(t) PROVE UnregisteredInv'
  BY <1>24, CommandType DEF TopicSubscribe, Enter, Target, Overtake, info, index, work, task, taskWork, openWork,
    closeWork
<1>25. ASSUME NEW t \in Tasks, TopicUnsubscribe(t) PROVE UnregisteredInv'
  BY <1>25, CommandType DEF TopicUnsubscribe, Enter, Target, Overtake, info, index, work, task, taskWork,
    openWork, closeWork
<1>26. ASSUME NEW t \in Tasks, Unlock(t) PROVE UnregisteredInv'
  BY <1>26, CommandType DEF Unlock, Target, info, index, work, task, taskWork, openWork, closeWork
<1>27. ASSUME NEW t \in Tasks, NEW m \in Commands, TopicDelete(t, m) PROVE UnregisteredInv'
  BY <1>27 DEF TopicDelete, info, index, work, task, taskWork, openWork, closeWork
<1>28. ASSUME NEW t \in Tasks, NEW p \in Topics, TopicDeleteTake(t, p) PROVE UnregisteredInv'
  BY <1>28 DEF TopicDeleteTake, info, index, work, task, taskWork, openWork, closeWork
<1>29. ASSUME NEW t \in Tasks, NEW p \in Topics, NEW c \in Conns, TopicDeleteUnsubscribe(t, p, c) PROVE UnregisteredInv'
  BY <1>29 DEF TopicDeleteUnsubscribe, info, index, work, task, taskWork, openWork, closeWork
<1>30. ASSUME NEW t \in Tasks, TopicDeleteEnd(t) PROVE UnregisteredInv'
  BY <1>30 DEF TopicDeleteEnd, info, index, work, task, taskWork, openWork, closeWork
<1>31. ASSUME NEW t \in Tasks, NEW m \in Commands, ForceOffline(t, m) PROVE UnregisteredInv'
  BY <1>31 DEF ForceOffline, info, index, work, task, taskWork, openWork, closeWork
<1>32. ASSUME NEW t \in Tasks, NEW m \in Commands, ForceOfflineByCustomerId(t, m) PROVE UnregisteredInv'
  BY <1>32 DEF ForceOfflineByCustomerId, info, index, work, task, taskWork, openWork, closeWork
<1>33. ASSUME NEW t \in Tasks, ForceOfflineGuest(t) PROVE UnregisteredInv'
  BY <1>33, CommandType DEF ForceOfflineGuest, Target, info, index, work, task, taskWork, openWork, closeWork
<1>34. ASSUME NEW t \in Tasks, KickEnd(t) PROVE UnregisteredInv'
  BY <1>34 DEF KickEnd, info, index, work, task, taskWork, openWork, closeWork
<1>s. CASE UNCHANGED vars
  BY <1>s, <1>f DEF vars, info, index, work, task, taskWork, openWork, closeWork
<1> QED
  BY <1>f, <1>1, <1>2, <1>3, <1>4, <1>5, <1>6, <1>7, <1>8, <1>9, <1>10, <1>11, <1>12, <1>13,
     <1>14, <1>15, <1>16, <1>17, <1>18, <1>19, <1>20, <1>21, <1>22, <1>23, <1>24, <1>25,
     <1>26, <1>27, <1>28, <1>29, <1>30, <1>31, <1>32, <1>33, <1>34, <1>s
  DEF Next, OpenTask, OnClose, TaskRelate, Start, Process

\* A task finds connections in manager, and only the closer takes them out.
LEMMA ListedStep ==
    TypeOK /\ LockInv /\ FlagInv /\ UnregisteredInv /\ ListedInv /\ [Next]_vars => ListedInv'
<1> SUFFICES ASSUME TypeOK, LockInv, FlagInv, UnregisteredInv, ListedInv, [Next]_vars PROVE ListedInv'
  OBVIOUS
<1> USE ConstantsAssumption DEF TypeOK, LockInv, FlagInv, UnregisteredInv, Unregistered, ListedInv
<1>f. ASSUME UNCHANGED <<loop, pc, cmd, manager, lock, customerId, open>>
      PROVE  ListedInv'
  BY <1>f
<1>1. ASSUME NEW c \in Conns,
         \/ FlagClosed(c)
         \/ TaskUnbind(c)
         \/ TaskBind(c)
         \/ \E p \in Topics : TaskDrop(c, p)
         \/ \E p \in Topics : TaskAdd(c, p)
         \/ OpenBind(c)
         \/ \E p \in Topics : OpenAdd(c, p)
         \/ CloseUnbind(c)
         \/ \E p \in Topics : CloseDrop(c, p)
      PROVE  UNCHANGED <<loop, pc, cmd, manager, lock, customerId, open>>
  BY <1>1 DEF FlagClosed, TaskUnbind, TaskBind, TaskDrop, TaskAdd, OpenBind, OpenAdd, CloseUnbind,
    CloseDrop, info, index, work, task, taskWork, openWork, closeWork
<1>2. ASSUME NEW t \in Tasks,
         \/ \E p \in Topics : TopicDeleteTake(t, p)
         \/ \E p \in Topics, c \in Conns : TopicDeleteUnsubscribe(t, p, c)
         \/ \E c \in Conns : WriteCloseFrame(t, c)
      PROVE  UNCHANGED <<loop, pc, cmd, manager, lock, customerId, open>>
  BY <1>2 DEF TopicDeleteTake, TopicDeleteUnsubscribe, WriteCloseFrame, info, index, work, task,
    taskWork, openWork, closeWork
<1>3. ASSUME NEW c \in Conns, Accept(c) PROVE ListedInv'
  BY <1>3 DEF Accept, info, index, work, task, taskWork, openWork, closeWork
<1>4. ASSUME NEW c \in Conns, Refuse(c) PROVE ListedInv'
  BY <1>4 DEF Refuse, info, index, work, task, taskWork, openWork, closeWork
<1>5. ASSUME NEW c \in Conns, OpenStart(c) PROVE ListedInv'
  BY <1>5 DEF OpenStart, info, index, work, task, taskWork, openWork, closeWork
<1>6. ASSUME NEW c \in Conns, OpenAbandon(c) PROVE ListedInv'
  BY <1>6 DEF OpenAbandon, info, index, work, task, taskWork, openWork, closeWork
<1>7. ASSUME NEW c \in Conns, OpenDeny(c) PROVE ListedInv'
  BY <1>7 DEF OpenDeny, info, index, work, task, taskWork, openWork, closeWork
<1>8. ASSUME NEW c \in Conns, NEW r \in Replies, OpenAllow(c, r) PROVE ListedInv'
  BY <1>8 DEF OpenAllow, info, index, work, task, taskWork, openWork, closeWork
<1>9. ASSUME NEW c \in Conns, OpenStore(c) PROVE ListedInv'
  BY <1>9 DEF OpenStore, info, index, work, task, taskWork, openWork, closeWork
<1>10. ASSUME NEW c \in Conns, OpenRegister(c) PROVE ListedInv'
  BY <1>10 DEF OpenRegister, info, index, work, task, taskWork, openWork, closeWork
<1>11. ASSUME NEW c \in Conns, OpenEnd(c) PROVE ListedInv'
  BY <1>11 DEF OpenEnd, info, index, work, task, taskWork, openWork, closeWork
<1>12. ASSUME NEW c \in Conns, CloseFlag(c) PROVE ListedInv'
  BY <1>12 DEF CloseFlag, info, index, work, task, taskWork, openWork, closeWork
<1>13. ASSUME NEW c \in Conns, CloseUnlist(c) PROVE ListedInv'
  BY <1>13 DEF CloseUnlist, info, index, work, task, taskWork, openWork, closeWork
<1>14. ASSUME NEW c \in Conns, CloseSnapshot(c) PROVE ListedInv'
  BY <1>14 DEF CloseSnapshot, info, index, work, task, taskWork, openWork, closeWork
<1>15. ASSUME NEW c \in Conns, CloseEnd(c) PROVE ListedInv'
  BY <1>15 DEF CloseEnd, info, index, work, task, taskWork, openWork, closeWork
<1>16. ASSUME NEW t \in Tasks, NEW m \in Commands, Get(t, m) PROVE ListedInv'
  BY <1>16 DEF Get, info, index, work, task, taskWork, openWork, closeWork
<1>17. ASSUME NEW t \in Tasks, LeaveClosed(t) PROVE ListedInv'
  BY <1>17, CommandType DEF LeaveClosed, Target, info, index, work, task, taskWork, openWork, closeWork
<1>18. ASSUME NEW t \in Tasks, ConnInfoUpdate(t) PROVE ListedInv'
  BY <1>18, CommandType DEF ConnInfoUpdate, Enter, Target, Overtake, info, index, work, task, taskWork, openWork,
    closeWork
<1>19. ASSUME NEW t \in Tasks, ConnInfoDelete(t) PROVE ListedInv'
  BY <1>19, CommandType DEF ConnInfoDelete, Enter, Target, Overtake, info, index, work, task, taskWork, openWork,
    closeWork
<1>20. ASSUME NEW t \in Tasks, TopicSubscribe(t) PROVE ListedInv'
  BY <1>20, CommandType DEF TopicSubscribe, Enter, Target, Overtake, info, index, work, task, taskWork, openWork,
    closeWork
<1>21. ASSUME NEW t \in Tasks, TopicUnsubscribe(t) PROVE ListedInv'
  BY <1>21, CommandType DEF TopicUnsubscribe, Enter, Target, Overtake, info, index, work, task, taskWork,
    openWork, closeWork
<1>22. ASSUME NEW t \in Tasks, Unlock(t) PROVE ListedInv'
  BY <1>22, CommandType DEF Unlock, Target, info, index, work, task, taskWork, openWork, closeWork
<1>23. ASSUME NEW t \in Tasks, NEW m \in Commands, TopicDelete(t, m) PROVE ListedInv'
  BY <1>23 DEF TopicDelete, info, index, work, task, taskWork, openWork, closeWork
<1>24. ASSUME NEW t \in Tasks, TopicDeleteEnd(t) PROVE ListedInv'
  BY <1>24 DEF TopicDeleteEnd, info, index, work, task, taskWork, openWork, closeWork
<1>25. ASSUME NEW t \in Tasks, NEW m \in Commands, ForceOffline(t, m) PROVE ListedInv'
  BY <1>25 DEF ForceOffline, info, index, work, task, taskWork, openWork, closeWork
<1>26. ASSUME NEW t \in Tasks, NEW m \in Commands, ForceOfflineByCustomerId(t, m) PROVE ListedInv'
  BY <1>26 DEF ForceOfflineByCustomerId, info, index, work, task, taskWork, openWork, closeWork
<1>27. ASSUME NEW t \in Tasks, ForceOfflineGuest(t) PROVE ListedInv'
  BY <1>27, CommandType DEF ForceOfflineGuest, Target, info, index, work, task, taskWork, openWork, closeWork
<1>28. ASSUME NEW t \in Tasks, KickEnd(t) PROVE ListedInv'
  BY <1>28 DEF KickEnd, info, index, work, task, taskWork, openWork, closeWork
<1>s. CASE UNCHANGED vars
  BY <1>s, <1>f DEF vars, info, index, work, task, taskWork, openWork, closeWork
<1> QED
  BY <1>f, <1>1, <1>2, <1>3, <1>4, <1>5, <1>6, <1>7, <1>8, <1>9, <1>10, <1>11, <1>12, <1>13,
     <1>14, <1>15, <1>16, <1>17, <1>18, <1>19, <1>20, <1>21, <1>22, <1>23, <1>24, <1>25,
     <1>26, <1>27, <1>28, <1>s
  DEF Next, OpenTask, OnClose, TaskRelate, Start, Process

\* Whoever changes a customerId also has the new relation to set.
LEMMA BinderStep ==
    TypeOK /\ LockInv /\ AgentInv /\ FlagInv /\ UnregisteredInv /\ BinderInv /\ [Next]_vars => BinderInv'
<1> SUFFICES ASSUME TypeOK, LockInv, AgentInv, FlagInv, UnregisteredInv, BinderInv, [Next]_vars PROVE BinderInv'
  OBVIOUS
<1> USE ConstantsAssumption DEF TypeOK, LockInv, AgentInv, FlagInv, UnregisteredInv, Unregistered, NoTaskWork,
    BinderInv, BinderComplete, Snapshotted, CustomerIds
<1>f. ASSUME UNCHANGED <<customerId, loop, open, binder, taskUnbind, taskBind, openBind>>
      PROVE  BinderInv'
  BY <1>f
<1>1. ASSUME NEW c \in Conns,
         \/ FlagClosed(c)
         \/ \E p \in Topics : TaskDrop(c, p)
         \/ \E p \in Topics : TaskAdd(c, p)
         \/ \E p \in Topics : OpenAdd(c, p)
         \/ \E p \in Topics : CloseDrop(c, p)
      PROVE  UNCHANGED <<customerId, loop, open, binder, taskUnbind, taskBind, openBind>>
  BY <1>1 DEF FlagClosed, TaskDrop, TaskAdd, OpenAdd, CloseDrop, info, index, work, task, taskWork,
    openWork, closeWork
<1>2. ASSUME NEW t \in Tasks,
         \/ \E m \in Commands : Get(t, m)
         \/ LeaveClosed(t)
         \/ TopicSubscribe(t)
         \/ TopicUnsubscribe(t)
         \/ Unlock(t)
         \/ \E m \in Commands : TopicDelete(t, m)
         \/ \E p \in Topics : TopicDeleteTake(t, p)
         \/ \E p \in Topics, c \in Conns : TopicDeleteUnsubscribe(t, p, c)
         \/ TopicDeleteEnd(t)
         \/ \E m \in Commands : ForceOffline(t, m)
         \/ \E m \in Commands : ForceOfflineByCustomerId(t, m)
         \/ ForceOfflineGuest(t)
         \/ \E c \in Conns : WriteCloseFrame(t, c)
         \/ KickEnd(t)
      PROVE  UNCHANGED <<customerId, loop, open, binder, taskUnbind, taskBind, openBind>>
  BY <1>2 DEF Get, LeaveClosed, TopicSubscribe, TopicUnsubscribe, Unlock, TopicDelete,
    TopicDeleteTake, TopicDeleteUnsubscribe, TopicDeleteEnd, ForceOffline,
    ForceOfflineByCustomerId, ForceOfflineGuest, WriteCloseFrame, KickEnd, Target, info,
    index, work, task, taskWork, openWork, closeWork
<1>3. ASSUME NEW c \in Conns, Accept(c) PROVE BinderInv'
  BY <1>3 DEF Accept, info, index, work, task, taskWork, openWork, closeWork
<1>4. ASSUME NEW c \in Conns, Refuse(c) PROVE BinderInv'
  BY <1>4 DEF Refuse, info, index, work, task, taskWork, openWork, closeWork
<1>5. ASSUME NEW c \in Conns, OpenStart(c) PROVE BinderInv'
  BY <1>5 DEF OpenStart, info, index, work, task, taskWork, openWork, closeWork
<1>6. ASSUME NEW c \in Conns, OpenAbandon(c) PROVE BinderInv'
  BY <1>6 DEF OpenAbandon, info, index, work, task, taskWork, openWork, closeWork
<1>7. ASSUME NEW c \in Conns, OpenDeny(c) PROVE BinderInv'
  BY <1>7 DEF OpenDeny, info, index, work, task, taskWork, openWork, closeWork
<1>8. ASSUME NEW c \in Conns, NEW r \in Replies, OpenAllow(c, r) PROVE BinderInv'
  BY <1>8 DEF OpenAllow, info, index, work, task, taskWork, openWork, closeWork
<1>9. ASSUME NEW c \in Conns, OpenStore(c) PROVE BinderInv'
  BY <1>9 DEF OpenStore, info, index, work, task, taskWork, openWork, closeWork
<1>10. ASSUME NEW c \in Conns, OpenRegister(c) PROVE BinderInv'
  BY <1>10 DEF OpenRegister, info, index, work, task, taskWork, openWork, closeWork
<1>11. ASSUME NEW c \in Conns, OpenEnd(c) PROVE BinderInv'
  BY <1>11 DEF OpenEnd, info, index, work, task, taskWork, openWork, closeWork
<1>12. ASSUME NEW c \in Conns, CloseFlag(c) PROVE BinderInv'
  BY <1>12 DEF CloseFlag, info, index, work, task, taskWork, openWork, closeWork
<1>13. ASSUME NEW c \in Conns, CloseUnlist(c) PROVE BinderInv'
  BY <1>13 DEF CloseUnlist, info, index, work, task, taskWork, openWork, closeWork
<1>14. ASSUME NEW c \in Conns, CloseSnapshot(c) PROVE BinderInv'
  BY <1>14 DEF CloseSnapshot, info, index, work, task, taskWork, openWork, closeWork
<1>15. ASSUME NEW c \in Conns, CloseEnd(c) PROVE BinderInv'
  BY <1>15 DEF CloseEnd, info, index, work, task, taskWork, openWork, closeWork
<1>16. ASSUME NEW c \in Conns, TaskUnbind(c) PROVE BinderInv'
  BY <1>16 DEF TaskUnbind, BinderDel, info, index, work, task, taskWork, openWork, closeWork
<1>17. ASSUME NEW c \in Conns, TaskBind(c) PROVE BinderInv'
  BY <1>17 DEF TaskBind, BinderSet, info, index, work, task, taskWork, openWork, closeWork
<1>18. ASSUME NEW c \in Conns, OpenBind(c) PROVE BinderInv'
  BY <1>18 DEF OpenBind, BinderSet, info, index, work, task, taskWork, openWork, closeWork
<1>19. ASSUME NEW c \in Conns, CloseUnbind(c) PROVE BinderInv'
  BY <1>19 DEF CloseUnbind, BinderDel, info, index, work, task, taskWork, openWork, closeWork
<1>20. ASSUME NEW t \in Tasks, ConnInfoUpdate(t) PROVE BinderInv'
  <2> DEFINE d == cmd[t].conn
  <2>1. /\ d \in Conns /\ cmd[t].customerId \in CustomerIds /\ cmd[t].topics \in SUBSET Topics
        /\ ~Snapshotted(d)
        /\ NoTaskWork(d) /\ closeUnbind[d] = NoCustomer /\ closeDrop[d] = {}
    BY <1>20, EnterFacts DEF ConnInfoUpdate
  <2>3. SUFFICES ASSUME NEW c \in Conns PROVE BinderComplete(c)'
    OBVIOUS
  <2>4. UNCHANGED <<loop, open, binder, topic, openBind, openAdd, closeUnbind, closeDrop>>
    BY <1>20 DEF ConnInfoUpdate, index, openWork, closeWork
  <2>5. CASE c # d
    <3>1. UNCHANGED <<customerId[c], topics[c], taskUnbind[c], taskBind[c], taskDrop[c], taskAdd[c], overlap[c]>>
      BY <1>20, <2>1, <2>5 DEF ConnInfoUpdate, Enter, Target, Overtake, taskWork
    <3> QED
      BY <2>3, <2>4, <3>1
  <2>6. CASE c = d
    <3>1. taskUnbind[c] = NoCustomer /\ taskBind[c] = NoCustomer
      BY <2>1, <2>6
    <3> QED
      BY <1>20, <2>1, <2>4, <2>6, <3>1 DEF ConnInfoUpdate, Target, taskWork
  <2> QED
    BY <2>5, <2>6
<1>21. ASSUME NEW t \in Tasks, ConnInfoDelete(t) PROVE BinderInv'
  <2> DEFINE d == cmd[t].conn
  <2>1. /\ d \in Conns /\ cmd[t].customerId \in CustomerIds /\ cmd[t].topics \in SUBSET Topics
        /\ ~Snapshotted(d)
        /\ NoTaskWork(d) /\ closeUnbind[d] = NoCustomer /\ closeDrop[d] = {}
    BY <1>21, EnterFacts DEF ConnInfoDelete
  <2>3. SUFFICES ASSUME NEW c \in Conns PROVE BinderComplete(c)'
    OBVIOUS
  <2>4. UNCHANGED <<loop, open, binder, topic, openBind, openAdd, closeUnbind, closeDrop>>
    BY <1>21 DEF ConnInfoDelete, index, openWork, closeWork
  <2>5. CASE c # d
    <3>1. UNCHANGED <<customerId[c], topics[c], taskUnbind[c], taskBind[c], taskDrop[c], taskAdd[c], overlap[c]>>
      BY <1>21, <2>1, <2>5 DEF ConnInfoDelete, Enter, Target, Overtake, taskWork
    <3> QED
      BY <2>3, <2>4, <3>1
  <2>6. CASE c = d
    <3>1. taskUnbind[c] = NoCustomer /\ taskBind[c] = NoCustomer
      BY <2>1, <2>6
    <3> QED
      BY <1>21, <2>1, <2>4, <2>6, <3>1 DEF ConnInfoDelete, Target, taskWork
  <2> QED
    BY <2>5, <2>6
<1>s. CASE UNCHANGED vars
  BY <1>s, <1>f DEF vars, info, index, work, task, taskWork, openWork, closeWork
<1> QED
  BY <1>f, <1>1, <1>2, <1>3, <1>4, <1>5, <1>6, <1>7, <1>8, <1>9, <1>10, <1>11, <1>12, <1>13,
     <1>14, <1>15, <1>16, <1>17, <1>18, <1>19, <1>20, <1>21, <1>s
  DEF Next, OpenTask, OnClose, TaskRelate, Start, Process

\* Whoever subscribes also has the relation to set, and what topicDelete takes out of
\* the index it goes on to take out of the info.
LEMMA TopicStep ==
    TypeOK /\ LockInv /\ AgentInv /\ FlagInv /\ UnregisteredInv /\ TopicInv /\ [Next]_vars => TopicInv'
<1> SUFFICES ASSUME TypeOK, LockInv, AgentInv, FlagInv, UnregisteredInv, TopicInv, [Next]_vars PROVE TopicInv'
  OBVIOUS
<1> USE ConstantsAssumption DEF TypeOK, LockInv, AgentInv, FlagInv, UnregisteredInv, Unregistered, NoTaskWork,
    TopicInv, Snapshotted
<1>f. ASSUME UNCHANGED <<topics, loop, open, topic, taskDrop, taskAdd, openAdd, victims>>
      PROVE  TopicInv'
  BY <1>f
<1>1. ASSUME NEW c \in Conns,
         \/ FlagClosed(c)
         \/ TaskUnbind(c)
         \/ TaskBind(c)
         \/ OpenBind(c)
         \/ CloseUnbind(c)
      PROVE  UNCHANGED <<topics, loop, open, topic, taskDrop, taskAdd, openAdd, victims>>
  BY <1>1 DEF FlagClosed, TaskUnbind, TaskBind, OpenBind, CloseUnbind, info, index, work, task,
    taskWork, openWork, closeWork
<1>2. ASSUME NEW t \in Tasks,
         \/ \E m \in Commands : Get(t, m)
         \/ LeaveClosed(t)
         \/ Unlock(t)
         \/ \E m \in Commands : TopicDelete(t, m)
         \/ TopicDeleteEnd(t)
         \/ \E m \in Commands : ForceOffline(t, m)
         \/ \E m \in Commands : ForceOfflineByCustomerId(t, m)
         \/ ForceOfflineGuest(t)
         \/ \E c \in Conns : WriteCloseFrame(t, c)
         \/ KickEnd(t)
      PROVE  UNCHANGED <<topics, loop, open, topic, taskDrop, taskAdd, openAdd, victims>>
  BY <1>2 DEF Get, LeaveClosed, Unlock, TopicDelete, TopicDeleteEnd, ForceOffline,
    ForceOfflineByCustomerId, ForceOfflineGuest, WriteCloseFrame, KickEnd, Target, info,
    index, work, task, taskWork, openWork, closeWork
<1>3. ASSUME NEW c \in Conns, Accept(c) PROVE TopicInv'
  BY <1>3 DEF Accept, info, index, work, task, taskWork, openWork, closeWork
<1>4. ASSUME NEW c \in Conns, Refuse(c) PROVE TopicInv'
  BY <1>4 DEF Refuse, info, index, work, task, taskWork, openWork, closeWork
<1>5. ASSUME NEW c \in Conns, OpenStart(c) PROVE TopicInv'
  BY <1>5 DEF OpenStart, info, index, work, task, taskWork, openWork, closeWork
<1>6. ASSUME NEW c \in Conns, OpenAbandon(c) PROVE TopicInv'
  BY <1>6 DEF OpenAbandon, info, index, work, task, taskWork, openWork, closeWork
<1>7. ASSUME NEW c \in Conns, OpenDeny(c) PROVE TopicInv'
  BY <1>7 DEF OpenDeny, info, index, work, task, taskWork, openWork, closeWork
<1>8. ASSUME NEW c \in Conns, NEW r \in Replies, OpenAllow(c, r) PROVE TopicInv'
  BY <1>8 DEF OpenAllow, info, index, work, task, taskWork, openWork, closeWork
<1>9. ASSUME NEW c \in Conns, OpenStore(c) PROVE TopicInv'
  BY <1>9 DEF OpenStore, info, index, work, task, taskWork, openWork, closeWork
<1>10. ASSUME NEW c \in Conns, OpenRegister(c) PROVE TopicInv'
  BY <1>10 DEF OpenRegister, info, index, work, task, taskWork, openWork, closeWork
<1>11. ASSUME NEW c \in Conns, OpenEnd(c) PROVE TopicInv'
  BY <1>11 DEF OpenEnd, info, index, work, task, taskWork, openWork, closeWork
<1>12. ASSUME NEW c \in Conns, CloseFlag(c) PROVE TopicInv'
  BY <1>12 DEF CloseFlag, info, index, work, task, taskWork, openWork, closeWork
<1>13. ASSUME NEW c \in Conns, CloseUnlist(c) PROVE TopicInv'
  BY <1>13 DEF CloseUnlist, info, index, work, task, taskWork, openWork, closeWork
<1>14. ASSUME NEW c \in Conns, CloseSnapshot(c) PROVE TopicInv'
  BY <1>14 DEF CloseSnapshot, info, index, work, task, taskWork, openWork, closeWork
<1>15. ASSUME NEW c \in Conns, CloseEnd(c) PROVE TopicInv'
  BY <1>15 DEF CloseEnd, info, index, work, task, taskWork, openWork, closeWork
<1>16. ASSUME NEW c \in Conns, NEW p \in Topics, TaskDrop(c, p) PROVE TopicInv'
  BY <1>16 DEF TaskDrop, TopicDel, info, index, work, task, taskWork, openWork, closeWork
<1>17. ASSUME NEW c \in Conns, NEW p \in Topics, TaskAdd(c, p) PROVE TopicInv'
  BY <1>17 DEF TaskAdd, TopicSet, info, index, work, task, taskWork, openWork, closeWork
<1>18. ASSUME NEW c \in Conns, NEW p \in Topics, OpenAdd(c, p) PROVE TopicInv'
  BY <1>18 DEF OpenAdd, TopicSet, info, index, work, task, taskWork, openWork, closeWork
<1>19. ASSUME NEW c \in Conns, NEW p \in Topics, CloseDrop(c, p) PROVE TopicInv'
  BY <1>19 DEF CloseDrop, TopicDel, info, index, work, task, taskWork, openWork, closeWork
<1>20. ASSUME NEW t \in Tasks, ConnInfoUpdate(t) PROVE TopicInv'
  BY <1>20, CommandType DEF ConnInfoUpdate, Enter, Target, Overtake, info, index, work, task, taskWork, openWork,
    closeWork
<1>21. ASSUME NEW t \in Tasks, ConnInfoDelete(t) PROVE TopicInv'
  BY <1>21, CommandType DEF ConnInfoDelete, Enter, Target, Overtake, info, index, work, task, taskWork, openWork,
    closeWork
<1>22. ASSUME NEW t \in Tasks, TopicSubscribe(t) PROVE TopicInv'
  BY <1>22, CommandType DEF TopicSubscribe, Enter, Target, Overtake, info, index, work, task, taskWork, openWork,
    closeWork
<1>23. ASSUME NEW t \in Tasks, TopicUnsubscribe(t) PROVE TopicInv'
  BY <1>23, CommandType DEF TopicUnsubscribe, Enter, Target, Overtake, info, index, work, task, taskWork,
    openWork, closeWork
<1>24. ASSUME NEW t \in Tasks, NEW p \in Topics, TopicDeleteTake(t, p) PROVE TopicInv'
  BY <1>24 DEF TopicDeleteTake, info, index, work, task, taskWork, openWork, closeWork
<1>25. ASSUME NEW t \in Tasks, NEW p \in Topics, NEW c \in Conns, TopicDeleteUnsubscribe(t, p, c) PROVE TopicInv'
  BY <1>25 DEF TopicDeleteUnsubscribe, info, index, work, task, taskWork, openWork, closeWork
<1>s. CASE UNCHANGED vars
  BY <1>s, <1>f DEF vars, info, index, work, task, taskWork, openWork, closeWork
<1> QED
  BY <1>f, <1>1, <1>2, <1>3, <1>4, <1>5, <1>6, <1>7, <1>8, <1>9, <1>10, <1>11, <1>12, <1>13,
     <1>14, <1>15, <1>16, <1>17, <1>18, <1>19, <1>20, <1>21, <1>22, <1>23, <1>24, <1>25, <1>s
  DEF Next, OpenTask, OnClose, TaskRelate, Start, Process

\* The history variable records the closer overtaking the open task.
LEMMA NotOvertakenStep ==
    TypeOK /\ FlagInv /\ NotOvertakenInv /\ [Next]_vars => NotOvertakenInv'
<1> SUFFICES ASSUME TypeOK, FlagInv, NotOvertakenInv, [Next]_vars PROVE NotOvertakenInv'
  OBVIOUS
<1> USE ConstantsAssumption DEF TypeOK, FlagInv, NotOvertakenInv
<1>f. ASSUME UNCHANGED <<overlap, loop, open, manager>>
      PROVE  NotOvertakenInv'
  BY <1>f
<1>1. ASSUME NEW c \in Conns,
         \/ FlagClosed(c)
         \/ TaskUnbind(c)
         \/ TaskBind(c)
         \/ \E p \in Topics : TaskDrop(c, p)
         \/ \E p \in Topics : TaskAdd(c, p)
         \/ OpenBind(c)
         \/ \E p \in Topics : OpenAdd(c, p)
         \/ CloseUnbind(c)
         \/ \E p \in Topics : CloseDrop(c, p)
      PROVE  UNCHANGED <<overlap, loop, open, manager>>
  BY <1>1 DEF FlagClosed, TaskUnbind, TaskBind, TaskDrop, TaskAdd, OpenBind, OpenAdd, CloseUnbind,
    CloseDrop, info, index, work, task, taskWork, openWork, closeWork
<1>2. ASSUME NEW t \in Tasks,
         \/ \E m \in Commands : Get(t, m)
         \/ LeaveClosed(t)
         \/ TopicSubscribe(t)
         \/ Unlock(t)
         \/ \E m \in Commands : TopicDelete(t, m)
         \/ \E p \in Topics : TopicDeleteTake(t, p)
         \/ \E p \in Topics, c \in Conns : TopicDeleteUnsubscribe(t, p, c)
         \/ TopicDeleteEnd(t)
         \/ \E m \in Commands : ForceOffline(t, m)
         \/ \E m \in Commands : ForceOfflineByCustomerId(t, m)
         \/ ForceOfflineGuest(t)
         \/ \E c \in Conns : WriteCloseFrame(t, c)
         \/ KickEnd(t)
      PROVE  UNCHANGED <<overlap, loop, open, manager>>
  BY <1>2 DEF Get, LeaveClosed, TopicSubscribe, Unlock, TopicDelete, TopicDeleteTake,
    TopicDeleteUnsubscribe, TopicDeleteEnd, ForceOffline, ForceOfflineByCustomerId,
    ForceOfflineGuest, WriteCloseFrame, KickEnd, Target, info, index, work, task,
    taskWork, openWork, closeWork
<1>3. ASSUME NEW c \in Conns, Accept(c) PROVE NotOvertakenInv'
  BY <1>3 DEF Accept, info, index, work, task, taskWork, openWork, closeWork
<1>4. ASSUME NEW c \in Conns, Refuse(c) PROVE NotOvertakenInv'
  BY <1>4 DEF Refuse, info, index, work, task, taskWork, openWork, closeWork
<1>5. ASSUME NEW c \in Conns, OpenStart(c) PROVE NotOvertakenInv'
  BY <1>5 DEF OpenStart, info, index, work, task, taskWork, openWork, closeWork
<1>6. ASSUME NEW c \in Conns, OpenAbandon(c) PROVE NotOvertakenInv'
  BY <1>6 DEF OpenAbandon, info, index, work, task, taskWork, openWork, closeWork
<1>7. ASSUME NEW c \in Conns, OpenDeny(c) PROVE NotOvertakenInv'
  BY <1>7 DEF OpenDeny, info, index, work, task, taskWork, openWork, closeWork
<1>8. ASSUME NEW c \in Conns, NEW r \in Replies, OpenAllow(c, r) PROVE NotOvertakenInv'
  BY <1>8 DEF OpenAllow, info, index, work, task, taskWork, openWork, closeWork
<1>9. ASSUME NEW c \in Conns, OpenStore(c) PROVE NotOvertakenInv'
  BY <1>9 DEF OpenStore, info, index, work, task, taskWork, openWork, closeWork
<1>10. ASSUME NEW c \in Conns, OpenRegister(c) PROVE NotOvertakenInv'
  BY <1>10 DEF OpenRegister, info, index, work, task, taskWork, openWork, closeWork
<1>11. ASSUME NEW c \in Conns, OpenEnd(c) PROVE NotOvertakenInv'
  BY <1>11 DEF OpenEnd, info, index, work, task, taskWork, openWork, closeWork
<1>12. ASSUME NEW c \in Conns, CloseFlag(c) PROVE NotOvertakenInv'
  BY <1>12 DEF CloseFlag, info, index, work, task, taskWork, openWork, closeWork
<1>13. ASSUME NEW c \in Conns, CloseUnlist(c) PROVE NotOvertakenInv'
  BY <1>13 DEF CloseUnlist, info, index, work, task, taskWork, openWork, closeWork
<1>14. ASSUME NEW c \in Conns, CloseSnapshot(c) PROVE NotOvertakenInv'
  BY <1>14 DEF CloseSnapshot, info, index, work, task, taskWork, openWork, closeWork
<1>15. ASSUME NEW c \in Conns, CloseEnd(c) PROVE NotOvertakenInv'
  BY <1>15 DEF CloseEnd, info, index, work, task, taskWork, openWork, closeWork
<1>16. ASSUME NEW t \in Tasks, ConnInfoUpdate(t) PROVE NotOvertakenInv'
  BY <1>16, CommandType DEF ConnInfoUpdate, Enter, Target, Overtake, info, index, work, task, taskWork, openWork,
    closeWork
<1>17. ASSUME NEW t \in Tasks, ConnInfoDelete(t) PROVE NotOvertakenInv'
  BY <1>17, CommandType DEF ConnInfoDelete, Enter, Target, Overtake, info, index, work, task, taskWork, openWork,
    closeWork
<1>18. ASSUME NEW t \in Tasks, TopicUnsubscribe(t) PROVE NotOvertakenInv'
  BY <1>18, CommandType DEF TopicUnsubscribe, Enter, Target, Overtake, info, index, work, task, taskWork,
    openWork, closeWork
<1>s. CASE UNCHANGED vars
  BY <1>s, <1>f DEF vars, info, index, work, task, taskWork, openWork, closeWork
<1> QED
  BY <1>f, <1>1, <1>2, <1>3, <1>4, <1>5, <1>6, <1>7, <1>8, <1>9, <1>10, <1>11, <1>12, <1>13,
     <1>14, <1>15, <1>16, <1>17, <1>18, <1>s
  DEF Next, OpenTask, OnClose, TaskRelate, Start, Process

\* Whoever changes a customerId also has the old relation to delete.
LEMMA BinderSoundStep ==
    TypeOK /\ LockInv /\ AgentInv /\ FlagInv /\ UnregisteredInv /\ BinderInv /\ NotOvertakenInv /\ BinderSoundInv /\ [Next]_vars => BinderSoundInv'
<1> SUFFICES ASSUME TypeOK, LockInv, AgentInv, FlagInv, UnregisteredInv, BinderInv, NotOvertakenInv, BinderSoundInv, [Next]_vars PROVE BinderSoundInv'
  OBVIOUS
<1> USE ConstantsAssumption DEF TypeOK, LockInv, AgentInv, FlagInv, UnregisteredInv, Unregistered, NoTaskWork,
    BinderInv, BinderComplete, NotOvertakenInv, BinderSoundInv, BinderSound, Snapshotted,
    CustomerIds
<1>f. ASSUME UNCHANGED <<overlap, binder, customerId, loop, openBind, taskUnbind, closeUnbind>>
      PROVE  BinderSoundInv'
  BY <1>f
<1>1. ASSUME NEW c \in Conns,
         \/ OpenStart(c)
         \/ OpenAbandon(c)
         \/ OpenDeny(c)
         \/ \E r \in Replies : OpenAllow(c, r)
         \/ OpenEnd(c)
         \/ FlagClosed(c)
         \/ \E p \in Topics : TaskDrop(c, p)
         \/ \E p \in Topics : TaskAdd(c, p)
         \/ \E p \in Topics : OpenAdd(c, p)
         \/ \E p \in Topics : CloseDrop(c, p)
      PROVE  UNCHANGED <<overlap, binder, customerId, loop, openBind, taskUnbind, closeUnbind>>
  BY <1>1 DEF OpenStart, OpenAbandon, OpenDeny, OpenAllow, OpenEnd, FlagClosed, TaskDrop, TaskAdd,
    OpenAdd, CloseDrop, info, index, work, task, taskWork, openWork, closeWork
<1>2. ASSUME NEW t \in Tasks,
         \/ \E m \in Commands : Get(t, m)
         \/ LeaveClosed(t)
         \/ TopicSubscribe(t)
         \/ Unlock(t)
         \/ \E m \in Commands : TopicDelete(t, m)
         \/ \E p \in Topics : TopicDeleteTake(t, p)
         \/ \E p \in Topics, c \in Conns : TopicDeleteUnsubscribe(t, p, c)
         \/ TopicDeleteEnd(t)
         \/ \E m \in Commands : ForceOffline(t, m)
         \/ \E m \in Commands : ForceOfflineByCustomerId(t, m)
         \/ ForceOfflineGuest(t)
         \/ \E c \in Conns : WriteCloseFrame(t, c)
         \/ KickEnd(t)
      PROVE  UNCHANGED <<overlap, binder, customerId, loop, openBind, taskUnbind, closeUnbind>>
  BY <1>2 DEF Get, LeaveClosed, TopicSubscribe, Unlock, TopicDelete, TopicDeleteTake,
    TopicDeleteUnsubscribe, TopicDeleteEnd, ForceOffline, ForceOfflineByCustomerId,
    ForceOfflineGuest, WriteCloseFrame, KickEnd, Target, info, index, work, task,
    taskWork, openWork, closeWork
<1>3. ASSUME NEW c \in Conns, Accept(c) PROVE BinderSoundInv'
  BY <1>3 DEF Accept, info, index, work, task, taskWork, openWork, closeWork
<1>4. ASSUME NEW c \in Conns, Refuse(c) PROVE BinderSoundInv'
  BY <1>4 DEF Refuse, info, index, work, task, taskWork, openWork, closeWork
<1>5. ASSUME NEW c \in Conns, OpenStore(c) PROVE BinderSoundInv'
  BY <1>5 DEF OpenStore, info, index, work, task, taskWork, openWork, closeWork
<1>6. ASSUME NEW c \in Conns, OpenRegister(c) PROVE BinderSoundInv'
  BY <1>6 DEF OpenRegister, info, index, work, task, taskWork, openWork, closeWork
<1>7. ASSUME NEW c \in Conns, CloseFlag(c) PROVE BinderSoundInv'
  BY <1>7 DEF CloseFlag, info, index, work, task, taskWork, openWork, closeWork
<1>8. ASSUME NEW c \in Conns, CloseUnlist(c) PROVE BinderSoundInv'
  BY <1>8 DEF CloseUnlist, info, index, work, task, taskWork, openWork, closeWork
<1>9. ASSUME NEW c \in Conns, CloseSnapshot(c) PROVE BinderSoundInv'
  BY <1>9 DEF CloseSnapshot, info, index, work, task, taskWork, openWork, closeWork
<1>10. ASSUME NEW c \in Conns, CloseEnd(c) PROVE BinderSoundInv'
  BY <1>10 DEF CloseEnd, info, index, work, task, taskWork, openWork, closeWork
<1>11. ASSUME NEW c \in Conns, TaskUnbind(c) PROVE BinderSoundInv'
  BY <1>11 DEF TaskUnbind, BinderDel, info, index, work, task, taskWork, openWork, closeWork
<1>12. ASSUME NEW c \in Conns, TaskBind(c) PROVE BinderSoundInv'
  BY <1>12 DEF TaskBind, BinderSet, info, index, work, task, taskWork, openWork, closeWork
<1>13. ASSUME NEW c \in Conns, OpenBind(c) PROVE BinderSoundInv'
  BY <1>13 DEF OpenBind, BinderSet, info, index, work, task, taskWork, openWork, closeWork
<1>14. ASSUME NEW c \in Conns, CloseUnbind(c) PROVE BinderSoundInv'
  BY <1>14 DEF CloseUnbind, BinderDel, info, index, work, task, taskWork, openWork, closeWork
<1>15. ASSUME NEW t \in Tasks, ConnInfoUpdate(t) PROVE BinderSoundInv'
  <2> DEFINE d == cmd[t].conn
  <2>1. /\ d \in Conns /\ cmd[t].customerId \in CustomerIds /\ cmd[t].topics \in SUBSET Topics
        /\ ~Snapshotted(d)
        /\ NoTaskWork(d) /\ closeUnbind[d] = NoCustomer /\ closeDrop[d] = {}
    BY <1>15, EnterFacts DEF ConnInfoUpdate
  <2>3. SUFFICES ASSUME NEW c \in Conns, ~overlap'[c] PROVE BinderSound(c)'
    OBVIOUS
  <2>4. UNCHANGED <<loop, open, binder, topic, openBind, openAdd, closeUnbind, closeDrop>>
    BY <1>15 DEF ConnInfoUpdate, index, openWork, closeWork
  <2>5. CASE c # d
    <3>1. UNCHANGED <<customerId[c], topics[c], taskUnbind[c], taskBind[c], taskDrop[c], taskAdd[c], overlap[c]>>
      BY <1>15, <2>1, <2>5 DEF ConnInfoUpdate, Enter, Target, Overtake, taskWork
    <3> QED
      BY <2>3, <2>4, <3>1
  <2>6. CASE c = d
    <3>1. ~overlap[c] /\ openBind[c] = NoCustomer /\ openAdd[c] = {}
      BY <1>15, <2>1, <2>3, <2>6, OvertakeFacts DEF ConnInfoUpdate, Target
    <3> QED
      BY <1>15, <2>1, <2>3, <2>4, <2>6, <3>1 DEF ConnInfoUpdate, Target, taskWork
  <2> QED
    BY <2>5, <2>6
<1>16. ASSUME NEW t \in Tasks, ConnInfoDelete(t) PROVE BinderSoundInv'
  <2> DEFINE d == cmd[t].conn
  <2>1. /\ d \in Conns /\ cmd[t].customerId \in CustomerIds /\ cmd[t].topics \in SUBSET Topics
        /\ ~Snapshotted(d)
        /\ NoTaskWork(d) /\ closeUnbind[d] = NoCustomer /\ closeDrop[d] = {}
    BY <1>16, EnterFacts DEF ConnInfoDelete
  <2>3. SUFFICES ASSUME NEW c \in Conns, ~overlap'[c] PROVE BinderSound(c)'
    OBVIOUS
  <2>4. UNCHANGED <<loop, open, binder, topic, openBind, openAdd, closeUnbind, closeDrop>>
    BY <1>16 DEF ConnInfoDelete, index, openWork, closeWork
  <2>5. CASE c # d
    <3>1. UNCHANGED <<customerId[c], topics[c], taskUnbind[c], taskBind[c], taskDrop[c], taskAdd[c], overlap[c]>>
      BY <1>16, <2>1, <2>5 DEF ConnInfoDelete, Enter, Target, Overtake, taskWork
    <3> QED
      BY <2>3, <2>4, <3>1
  <2>6. CASE c = d
    <3>1. ~overlap[c] /\ openBind[c] = NoCustomer /\ openAdd[c] = {}
      BY <1>16, <2>1, <2>3, <2>6, OvertakeFacts DEF ConnInfoDelete, Target
    <3> QED
      BY <1>16, <2>1, <2>3, <2>4, <2>6, <3>1 DEF ConnInfoDelete, Target, taskWork
  <2> QED
    BY <2>5, <2>6
<1>17. ASSUME NEW t \in Tasks, TopicUnsubscribe(t) PROVE BinderSoundInv'
  BY <1>17, CommandType DEF TopicUnsubscribe, Enter, Target, Overtake, info, index, work, task, taskWork,
    openWork, closeWork
<1>s. CASE UNCHANGED vars
  BY <1>s, <1>f DEF vars, info, index, work, task, taskWork, openWork, closeWork
<1> QED
  BY <1>f, <1>1, <1>2, <1>3, <1>4, <1>5, <1>6, <1>7, <1>8, <1>9, <1>10, <1>11, <1>12, <1>13,
     <1>14, <1>15, <1>16, <1>17, <1>s
  DEF Next, OpenTask, OnClose, TaskRelate, Start, Process

\* Only topicDelete takes topics out of the index as a whole.
LEMMA VictimStep ==
    TypeOK /\ VictimInv /\ [Next]_vars => VictimInv'
<1> SUFFICES ASSUME TypeOK, VictimInv, [Next]_vars PROVE VictimInv'
  OBVIOUS
<1> USE ConstantsAssumption DEF TypeOK, VictimInv
<1>f. ASSUME UNCHANGED <<pc, rest, victims>>
      PROVE  VictimInv'
  BY <1>f
<1>1. ASSUME NEW c \in Conns,
         \/ Accept(c)
         \/ Refuse(c)
         \/ OpenStart(c)
         \/ OpenAbandon(c)
         \/ OpenDeny(c)
         \/ \E r \in Replies : OpenAllow(c, r)
         \/ OpenStore(c)
         \/ OpenRegister(c)
         \/ OpenEnd(c)
         \/ FlagClosed(c)
         \/ CloseFlag(c)
         \/ CloseUnlist(c)
         \/ CloseSnapshot(c)
         \/ CloseEnd(c)
         \/ TaskUnbind(c)
         \/ TaskBind(c)
         \/ \E p \in Topics : TaskDrop(c, p)
         \/ \E p \in Topics : TaskAdd(c, p)
         \/ OpenBind(c)
         \/ \E p \in Topics : OpenAdd(c, p)
         \/ CloseUnbind(c)
         \/ \E p \in Topics : CloseDrop(c, p)
      PROVE  UNCHANGED <<pc, rest, victims>>
  BY <1>1 DEF Accept, Refuse, OpenStart, OpenAbandon, OpenDeny, OpenAllow, OpenStore, OpenRegister,
    OpenEnd, FlagClosed, CloseFlag, CloseUnlist, CloseSnapshot, CloseEnd, TaskUnbind,
    TaskBind, TaskDrop, TaskAdd, OpenBind, OpenAdd, CloseUnbind, CloseDrop, info, index,
    work, task, taskWork, openWork, closeWork
<1>2. ASSUME NEW t \in Tasks,
         \/ \E c \in Conns : WriteCloseFrame(t, c)
      PROVE  UNCHANGED <<pc, rest, victims>>
  BY <1>2 DEF WriteCloseFrame, info, index, work, task, taskWork, openWork, closeWork
<1>3. ASSUME NEW t \in Tasks, NEW m \in Commands, Get(t, m) PROVE VictimInv'
  BY <1>3 DEF Get, info, index, work, task, taskWork, openWork, closeWork
<1>4. ASSUME NEW t \in Tasks, LeaveClosed(t) PROVE VictimInv'
  BY <1>4, CommandType DEF LeaveClosed, Target, info, index, work, task, taskWork, openWork, closeWork
<1>5. ASSUME NEW t \in Tasks, ConnInfoUpdate(t) PROVE VictimInv'
  BY <1>5, CommandType DEF ConnInfoUpdate, Enter, Target, Overtake, info, index, work, task, taskWork, openWork,
    closeWork
<1>6. ASSUME NEW t \in Tasks, ConnInfoDelete(t) PROVE VictimInv'
  BY <1>6, CommandType DEF ConnInfoDelete, Enter, Target, Overtake, info, index, work, task, taskWork, openWork,
    closeWork
<1>7. ASSUME NEW t \in Tasks, TopicSubscribe(t) PROVE VictimInv'
  BY <1>7, CommandType DEF TopicSubscribe, Enter, Target, Overtake, info, index, work, task, taskWork, openWork,
    closeWork
<1>8. ASSUME NEW t \in Tasks, TopicUnsubscribe(t) PROVE VictimInv'
  BY <1>8, CommandType DEF TopicUnsubscribe, Enter, Target, Overtake, info, index, work, task, taskWork,
    openWork, closeWork
<1>9. ASSUME NEW t \in Tasks, Unlock(t) PROVE VictimInv'
  BY <1>9, CommandType DEF Unlock, Target, info, index, work, task, taskWork, openWork, closeWork
<1>10. ASSUME NEW t \in Tasks, NEW m \in Commands, TopicDelete(t, m) PROVE VictimInv'
  <2>1. \A p \in m.topics : ~NeverDeleted(p)
    BY <1>10 DEF TopicDelete, NeverDeleted
  <2> QED
    BY <1>10, <2>1 DEF TopicDelete, info, index, work, task, taskWork, openWork, closeWork
<1>11. ASSUME NEW t \in Tasks, NEW p \in Topics, TopicDeleteTake(t, p) PROVE VictimInv'
  BY <1>11 DEF TopicDeleteTake, info, index, work, task, taskWork, openWork, closeWork
<1>12. ASSUME NEW t \in Tasks, NEW p \in Topics, NEW c \in Conns, TopicDeleteUnsubscribe(t, p, c) PROVE VictimInv'
  BY <1>12 DEF TopicDeleteUnsubscribe, info, index, work, task, taskWork, openWork, closeWork
<1>13. ASSUME NEW t \in Tasks, TopicDeleteEnd(t) PROVE VictimInv'
  BY <1>13 DEF TopicDeleteEnd, info, index, work, task, taskWork, openWork, closeWork
<1>14. ASSUME NEW t \in Tasks, NEW m \in Commands, ForceOffline(t, m) PROVE VictimInv'
  BY <1>14 DEF ForceOffline, info, index, work, task, taskWork, openWork, closeWork
<1>15. ASSUME NEW t \in Tasks, NEW m \in Commands, ForceOfflineByCustomerId(t, m) PROVE VictimInv'
  BY <1>15 DEF ForceOfflineByCustomerId, info, index, work, task, taskWork, openWork, closeWork
<1>16. ASSUME NEW t \in Tasks, ForceOfflineGuest(t) PROVE VictimInv'
  BY <1>16, CommandType DEF ForceOfflineGuest, Target, info, index, work, task, taskWork, openWork, closeWork
<1>17. ASSUME NEW t \in Tasks, KickEnd(t) PROVE VictimInv'
  BY <1>17 DEF KickEnd, info, index, work, task, taskWork, openWork, closeWork
<1>s. CASE UNCHANGED vars
  BY <1>s, <1>f DEF vars, info, index, work, task, taskWork, openWork, closeWork
<1> QED
  BY <1>f, <1>1, <1>2, <1>3, <1>4, <1>5, <1>6, <1>7, <1>8, <1>9, <1>10, <1>11, <1>12, <1>13,
     <1>14, <1>15, <1>16, <1>17, <1>s
  DEF Next, OpenTask, OnClose, TaskRelate, Start, Process

\* Whoever unsubscribes also has the relation to delete.
LEMMA TopicSoundStep ==
    TypeOK /\ LockInv /\ AgentInv /\ FlagInv /\ UnregisteredInv /\ TopicInv /\ NotOvertakenInv /\ VictimInv /\ TopicSoundInv /\ [Next]_vars => TopicSoundInv'
<1> SUFFICES ASSUME TypeOK, LockInv, AgentInv, FlagInv, UnregisteredInv, TopicInv, NotOvertakenInv, VictimInv, TopicSoundInv, [Next]_vars PROVE TopicSoundInv'
  OBVIOUS
<1> USE ConstantsAssumption DEF TypeOK, LockInv, AgentInv, FlagInv, UnregisteredInv, Unregistered, NoTaskWork,
    TopicInv, NotOvertakenInv, VictimInv, TopicSoundInv, TopicSound, Snapshotted
<1>f. ASSUME UNCHANGED <<overlap, topic, topics, loop, openAdd, taskDrop, closeDrop>>
      PROVE  TopicSoundInv'
  BY <1>f
<1>1. ASSUME NEW c \in Conns,
         \/ OpenStart(c)
         \/ OpenAbandon(c)
         \/ OpenDeny(c)
         \/ \E r \in Replies : OpenAllow(c, r)
         \/ OpenEnd(c)
         \/ FlagClosed(c)
         \/ TaskUnbind(c)
         \/ TaskBind(c)
         \/ OpenBind(c)
         \/ CloseUnbind(c)
      PROVE  UNCHANGED <<overlap, topic, topics, loop, openAdd, taskDrop, closeDrop>>
  BY <1>1 DEF OpenStart, OpenAbandon, OpenDeny, OpenAllow, OpenEnd, FlagClosed, TaskUnbind,
    TaskBind, OpenBind, CloseUnbind, info, index, work, task, taskWork, openWork,
    closeWork
<1>2. ASSUME NEW t \in Tasks,
         \/ \E m \in Commands : Get(t, m)
         \/ LeaveClosed(t)
         \/ Unlock(t)
         \/ \E m \in Commands : TopicDelete(t, m)
         \/ TopicDeleteEnd(t)
         \/ \E m \in Commands : ForceOffline(t, m)
         \/ \E m \in Commands : ForceOfflineByCustomerId(t, m)
         \/ ForceOfflineGuest(t)
         \/ \E c \in Conns : WriteCloseFrame(t, c)
         \/ KickEnd(t)
      PROVE  UNCHANGED <<overlap, topic, topics, loop, openAdd, taskDrop, closeDrop>>
  BY <1>2 DEF Get, LeaveClosed, Unlock, TopicDelete, TopicDeleteEnd, ForceOffline,
    ForceOfflineByCustomerId, ForceOfflineGuest, WriteCloseFrame, KickEnd, Target, info,
    index, work, task, taskWork, openWork, closeWork
<1>3. ASSUME NEW c \in Conns, Accept(c) PROVE TopicSoundInv'
  BY <1>3 DEF Accept, info, index, work, task, taskWork, openWork, closeWork
<1>4. ASSUME NEW c \in Conns, Refuse(c) PROVE TopicSoundInv'
  BY <1>4 DEF Refuse, info, index, work, task, taskWork, openWork, closeWork
<1>5. ASSUME NEW c \in Conns, OpenStore(c) PROVE TopicSoundInv'
  BY <1>5 DEF OpenStore, info, index, work, task, taskWork, openWork, closeWork
<1>6. ASSUME NEW c \in Conns, OpenRegister(c) PROVE TopicSoundInv'
  BY <1>6 DEF OpenRegister, info, index, work, task, taskWork, openWork, closeWork
<1>7. ASSUME NEW c \in Conns, CloseFlag(c) PROVE TopicSoundInv'
  BY <1>7 DEF CloseFlag, info, index, work, task, taskWork, openWork, closeWork
<1>8. ASSUME NEW c \in Conns, CloseUnlist(c) PROVE TopicSoundInv'
  BY <1>8 DEF CloseUnlist, info, index, work, task, taskWork, openWork, closeWork
<1>9. ASSUME NEW c \in Conns, CloseSnapshot(c) PROVE TopicSoundInv'
  BY <1>9 DEF CloseSnapshot, info, index, work, task, taskWork, openWork, closeWork
<1>10. ASSUME NEW c \in Conns, CloseEnd(c) PROVE TopicSoundInv'
  BY <1>10 DEF CloseEnd, info, index, work, task, taskWork, openWork, closeWork
<1>11. ASSUME NEW c \in Conns, NEW p \in Topics, TaskDrop(c, p) PROVE TopicSoundInv'
  BY <1>11 DEF TaskDrop, TopicDel, info, index, work, task, taskWork, openWork, closeWork
<1>12. ASSUME NEW c \in Conns, NEW p \in Topics, TaskAdd(c, p) PROVE TopicSoundInv'
  <2>1. p \in topics[c] /\ ~Snapshotted(c)
    BY <1>12 DEF TaskAdd
  <2>2. topic' = [topic EXCEPT ![p] = @ \cup {c}]
    BY <1>12 DEF TaskAdd, TopicSet
  <2>3. UNCHANGED <<overlap, topics, loop, openAdd, taskDrop, closeDrop>>
    BY <1>12 DEF TaskAdd, info, openWork, closeWork
  <2>4. ASSUME NEW d \in Conns, NEW q \in Topics, d \in topic'[q] PROVE d \in topic[q] \/ (d = c /\ q = p)
    BY <2>2, <2>4
  <2> QED
    BY <2>1, <2>3, <2>4
<1>13. ASSUME NEW c \in Conns, NEW p \in Topics, OpenAdd(c, p) PROVE TopicSoundInv'
  BY <1>13 DEF OpenAdd, TopicSet, info, index, work, task, taskWork, openWork, closeWork
<1>14. ASSUME NEW c \in Conns, NEW p \in Topics, CloseDrop(c, p) PROVE TopicSoundInv'
  BY <1>14 DEF CloseDrop, TopicDel, info, index, work, task, taskWork, openWork, closeWork
<1>15. ASSUME NEW t \in Tasks, ConnInfoUpdate(t) PROVE TopicSoundInv'
  <2> DEFINE d == cmd[t].conn
  <2>1. /\ d \in Conns /\ cmd[t].customerId \in CustomerIds /\ cmd[t].topics \in SUBSET Topics
        /\ ~Snapshotted(d)
        /\ NoTaskWork(d) /\ closeUnbind[d] = NoCustomer /\ closeDrop[d] = {}
    BY <1>15, EnterFacts DEF ConnInfoUpdate
  <2>3. SUFFICES ASSUME NEW c \in Conns, NEW p \in Topics, ~overlap'[c], NeverDeleted(p) PROVE TopicSound(c, p)'
    OBVIOUS
  <2>4. UNCHANGED <<loop, open, binder, topic, openBind, openAdd, closeUnbind, closeDrop>>
    BY <1>15 DEF ConnInfoUpdate, index, openWork, closeWork
  <2>5. CASE c # d
    <3>1. UNCHANGED <<customerId[c], topics[c], taskUnbind[c], taskBind[c], taskDrop[c], taskAdd[c], overlap[c]>>
      BY <1>15, <2>1, <2>5 DEF ConnInfoUpdate, Enter, Target, Overtake, taskWork
    <3> QED
      BY <2>3, <2>4, <3>1
  <2>6. CASE c = d
    <3>1. ~overlap[c] /\ openBind[c] = NoCustomer /\ openAdd[c] = {}
      BY <1>15, <2>1, <2>3, <2>6, OvertakeFacts DEF ConnInfoUpdate, Target
    <3> QED
      BY <1>15, <2>1, <2>3, <2>4, <2>6, <3>1 DEF ConnInfoUpdate, Target, taskWork
  <2> QED
    BY <2>5, <2>6
<1>16. ASSUME NEW t \in Tasks, ConnInfoDelete(t) PROVE TopicSoundInv'
  <2> DEFINE d == cmd[t].conn
  <2>1. /\ d \in Conns /\ cmd[t].customerId \in CustomerIds /\ cmd[t].topics \in SUBSET Topics
        /\ ~Snapshotted(d)
        /\ NoTaskWork(d) /\ closeUnbind[d] = NoCustomer /\ closeDrop[d] = {}
    BY <1>16, EnterFacts DEF ConnInfoDelete
  <2>3. SUFFICES ASSUME NEW c \in Conns, NEW p \in Topics, ~overlap'[c], NeverDeleted(p) PROVE TopicSound(c, p)'
    OBVIOUS
  <2>4. UNCHANGED <<loop, open, binder, topic, openBind, openAdd, closeUnbind, closeDrop>>
    BY <1>16 DEF ConnInfoDelete, index, openWork, closeWork
  <2>5. CASE c # d
    <3>1. UNCHANGED <<customerId[c], topics[c], taskUnbind[c], taskBind[c], taskDrop[c], taskAdd[c], overlap[c]>>
      BY <1>16, <2>1, <2>5 DEF ConnInfoDelete, Enter, Target, Overtake, taskWork
    <3> QED
      BY <2>3, <2>4, <3>1
  <2>6. CASE c = d
    <3>1. ~overlap[c] /\ openBind[c] = NoCustomer /\ openAdd[c] = {}
      BY <1>16, <2>1, <2>3, <2>6, OvertakeFacts DEF ConnInfoDelete, Target
    <3> QED
      BY <1>16, <2>1, <2>3, <2>4, <2>6, <3>1 DEF ConnInfoDelete, Target, taskWork
  <2> QED
    BY <2>5, <2>6
<1>17. ASSUME NEW t \in Tasks, TopicSubscribe(t) PROVE TopicSoundInv'
  BY <1>17, CommandType DEF TopicSubscribe, Enter, Target, Overtake, info, index, work, task, taskWork, openWork,
    closeWork
<1>18. ASSUME NEW t \in Tasks, TopicUnsubscribe(t) PROVE TopicSoundInv'
  <2> DEFINE d == cmd[t].conn
  <2>1. /\ d \in Conns /\ cmd[t].customerId \in CustomerIds /\ cmd[t].topics \in SUBSET Topics
        /\ ~Snapshotted(d)
        /\ NoTaskWork(d) /\ closeUnbind[d] = NoCustomer /\ closeDrop[d] = {}
    BY <1>18, EnterFacts DEF TopicUnsubscribe
  <2>3. SUFFICES ASSUME NEW c \in Conns, NEW p \in Topics, ~overlap'[c], NeverDeleted(p) PROVE TopicSound(c, p)'
    OBVIOUS
  <2>4. UNCHANGED <<loop, open, binder, topic, openBind, openAdd, closeUnbind, closeDrop>>
    BY <1>18 DEF TopicUnsubscribe, index, openWork, closeWork
  <2>5. CASE c # d
    <3>1. UNCHANGED <<customerId[c], topics[c], taskUnbind[c], taskBind[c], taskDrop[c], taskAdd[c], overlap[c]>>
      BY <1>18, <2>1, <2>5 DEF TopicUnsubscribe, Enter, Target, Overtake, taskWork
    <3> QED
      BY <2>3, <2>4, <3>1
  <2>6. CASE c = d
    <3>1. ~overlap[c] /\ openBind[c] = NoCustomer /\ openAdd[c] = {}
      BY <1>18, <2>1, <2>3, <2>6, OvertakeFacts DEF TopicUnsubscribe, Target
    <3> QED
      BY <1>18, <2>1, <2>3, <2>4, <2>6, <3>1 DEF TopicUnsubscribe, Target, taskWork
  <2> QED
    BY <2>5, <2>6
<1>19. ASSUME NEW t \in Tasks, NEW p \in Topics, TopicDeleteTake(t, p) PROVE TopicSoundInv'
  BY <1>19 DEF TopicDeleteTake, info, index, work, task, taskWork, openWork, closeWork
<1>20. ASSUME NEW t \in Tasks, NEW p \in Topics, NEW c \in Conns, TopicDeleteUnsubscribe(t, p, c) PROVE TopicSoundInv'
  BY <1>20 DEF TopicDeleteUnsubscribe, info, index, work, task, taskWork, openWork, closeWork
<1>s. CASE UNCHANGED vars
  BY <1>s, <1>f DEF vars, info, index, work, task, taskWork, openWork, closeWork
<1> QED
  BY <1>f, <1>1, <1>2, <1>3, <1>4, <1>5, <1>6, <1>7, <1>8, <1>9, <1>10, <1>11, <1>12, <1>13,
     <1>14, <1>15, <1>16, <1>17, <1>18, <1>19, <1>20, <1>s
  DEF Next, OpenTask, OnClose, TaskRelate, Start, Process

\* Initially nothing is registered, held or pending.
LEMMA InitInv == Init => RegistryInv
<1> SUFFICES ASSUME Init PROVE RegistryInv
  OBVIOUS
<1> USE ConstantsAssumption DEF Init
<1>1. TypeOK
  BY DEF TypeOK, LoopSteps, OpenSteps, TaskSteps, CustomerIds, ConnOpenResp, NoReply
<1>2. LockInv /\ AgentInv /\ FlagInv
  BY DEF LockInv, AgentInv, FlagInv, NoTaskWork, Snapshotted
<1>3. UnregisteredInv /\ ListedInv
  BY DEF UnregisteredInv, Unregistered, ListedInv
<1>4. BinderInv /\ TopicInv
  BY DEF BinderInv, BinderComplete, TopicInv
<1>5. NotOvertakenInv /\ BinderSoundInv /\ VictimInv /\ TopicSoundInv
  BY DEF NotOvertakenInv, BinderSoundInv, BinderSound, VictimInv, TopicSoundInv, TopicSound
<1> QED
  BY <1>1, <1>2, <1>3, <1>4, <1>5 DEF RegistryInv

\* RegistryInv holds in every reachable state, whatever the number of connections,
\* task connections, customers and topics and whatever commands and answers come: the
\* info of the connections and the three indexes agree up to the work in progress.
THEOREM RegistryInvariance == Spec => []RegistryInv
<1>1. RegistryInv /\ [Next]_vars => RegistryInv'
  BY TypeStep, LockStep, AgentStep, FlagStep, UnregisteredStep, ListedStep, BinderStep, TopicStep,
     NotOvertakenStep, BinderSoundStep, VictimStep, TopicSoundStep DEF RegistryInv
<1> QED
  BY InitInv, <1>1, PTL DEF Spec

\* Type correctness of Registry.
THEOREM TypeCorrectness == Spec => []TypeOK
<1>1. RegistryInv => TypeOK
  BY DEF RegistryInv
<1> QED
  BY <1>1, RegistryInvariance, PTL

\* A settled connection is found under its customerId and its topics: no interleaving of
\* open task and commands loses a recipient.
THEOREM IndexCompleteness == Spec => []IndexComplete
<1>1. RegistryInv => IndexComplete
  <2> SUFFICES ASSUME RegistryInv, NEW c \in Conns, Settled(c)
               PROVE  /\ customerId[c] # NoCustomer => c \in binder[customerId[c]] /\ c \in manager
                      /\ \A p \in topics[c] :
                            c \in topic[p] \/ \E t \in Tasks : <<p, c>> \in victims[t]
    BY DEF IndexComplete
  <2>1. NoTaskWork(c) /\ openBind[c] = NoCustomer /\ openAdd[c] = {} /\ ~Snapshotted(c)
    BY DEF RegistryInv, LockInv, AgentInv, Settled, Snapshotted
  <2>2. customerId[c] # NoCustomer => c \in binder[customerId[c]]
    BY <2>1 DEF RegistryInv, BinderInv, BinderComplete, Settled, NoTaskWork
  <2>3. customerId[c] # NoCustomer => c \in manager
    BY DEF RegistryInv, ListedInv, Settled
  <2>4. topics[c] \subseteq Topics
    BY DEF RegistryInv, TypeOK
  <2>5. \A p \in topics[c] : c \in topic[p] \/ \E t \in Tasks : <<p, c>> \in victims[t]
    BY <2>1, <2>4 DEF RegistryInv, TopicInv, Settled, NoTaskWork
  <2> QED
    BY <2>2, <2>3, <2>5
<1> QED
  BY <1>1, RegistryInvariance, PTL

\* No command works on a connection after OnWebsocketClose has taken its snapshot.
THEOREM NoLateCommands == Spec => []NoLateCommand
<1>1. RegistryInv => NoLateCommand
  BY DEF RegistryInv, FlagInv, LockInv, NoLateCommand
<1> QED
  BY <1>1, RegistryInvariance, PTL

\* What OnWebsocketClose leaves behind is nothing, but for connections whose open task
\* was overtaken and, in topic, for the race of topicDelete with a subscription.
THEOREM NoResidueLeft == Spec => []NoResidue
<1>1. RegistryInv => NoResidue
  <2> SUFFICES ASSUME RegistryInv, NEW c \in Conns, loop[c] = "gone", ~overlap[c]
               PROVE  /\ c \notin manager
                      /\ \A x \in Customers : c \notin binder[x]
                      /\ \A p \in Topics : NeverDeleted(p) => c \notin topic[p]
    BY DEF NoResidue
  <2>1. c \notin manager
    BY DEF RegistryInv, NotOvertakenInv
  <2>2. /\ taskUnbind[c] = NoCustomer /\ closeUnbind[c] = NoCustomer
        /\ taskDrop[c] = {} /\ closeDrop[c] = {}
        /\ Snapshotted(c)
    BY DEF RegistryInv, LockInv, FlagInv, AgentInv, NoTaskWork, Snapshotted
  <2>3. \A x \in Customers : c \notin binder[x]
    BY <2>2, ConstantsAssumption DEF RegistryInv, BinderSoundInv, BinderSound
  <2>4. \A p \in Topics : NeverDeleted(p) => c \notin topic[p]
    BY <2>2 DEF RegistryInv, TopicSoundInv, TopicSound
  <2> QED
    BY <2>1, <2>3, <2>4
<1> QED
  BY <1>1, RegistryInvariance, PTL

\* A settled connection that was not overtaken is found only under its own customerId
\* and, of the topics no command deletes, its own topics.
THEOREM IndexSoundness == Spec => []IndexSound
<1>1. RegistryInv => IndexSound
  <2> SUFFICES ASSUME RegistryInv, NEW c \in Conns, Settled(c), ~overlap[c]
               PROVE  /\ \A x \in Customers : c \in binder[x] => x = customerId[c]
                      /\ \A p \in Topics : NeverDeleted(p) /\ c \in topic[p] => p \in topics[c]
    BY DEF IndexSound
  <2>1. NoTaskWork(c) /\ closeUnbind[c] = NoCustomer /\ closeDrop[c] = {}
    BY DEF RegistryInv, LockInv, AgentInv, Settled
  <2>2. \A x \in Customers : c \in binder[x] => x = customerId[c]
    BY <2>1, ConstantsAssumption DEF RegistryInv, BinderSoundInv, BinderSound, NoTaskWork
  <2>3. \A p \in Topics : NeverDeleted(p) /\ c \in topic[p] => p \in topics[c]
    BY <2>1 DEF RegistryInv, TopicSoundInv, TopicSound, NoTaskWork
  <2> QED
    BY <2>2, <2>3
<1> QED
  BY <1>1, RegistryInvariance, PTL

=============================================================================
