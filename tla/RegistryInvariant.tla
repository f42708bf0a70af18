------------------------- MODULE RegistryInvariant -------------------------
(***************************************************************************)
(* The inductive invariant behind the safety properties of Registry, one   *)
(* part per idea.  TLC checks it as an invariant; RegistryProofs proves it. *)
(***************************************************************************)
EXTENDS Registry

\* Who holds a lock, and on whose behalf.  The lock of a connection is held exactly
\* by the task that works on it.
LockInv ==
    /\ \A t \in Tasks : pc[t] = "hold" => lock[cmd[t].conn] = t
    /\ \A c \in Conns : lock[c] # NoTask => pc[lock[c]] = "hold" /\ cmd[lock[c]].conn = c
    /\ \A c \in Conns : lock[c] = NoTask => NoTaskWork(c)

\* The open task and the closer have work on the indexes only in the middle of their
\* lives.
AgentInv ==
    \A c \in Conns :
        /\ open[c] # "relating" => openBind[c] = NoCustomer /\ openAdd[c] = {}
        /\ loop[c] # "cleaning" => closeUnbind[c] = NoCustomer /\ closeDrop[c] = {}

\* The flag is up before the closer begins, and a task that got past it was there
\* before the snapshot.
FlagInv ==
    \A c \in Conns :
        /\ loop[c] \notin {"none", "up"} => closed[c]
        /\ loop[c] = "none" => open[c] = "none"
        /\ Snapshotted(c) => lock[c] = NoTask

\* Until the open task registers it, nobody else knows the connection.
Unregistered(c) == open[c] \in {"none", "queued", "callback", "checked", "stored"}

UnregisteredInv ==
    \A c \in Conns : Unregistered(c) =>
        /\ c \notin manager
        /\ lock[c] = NoTask
        /\ \A x \in Customers : c \notin binder[x]
        /\ \A p \in Topics : c \notin topic[p]
        /\ \A t \in Tasks : pc[t] = "lock" => cmd[t].conn # c
        /\ \A t \in Tasks, p \in Topics : <<p, c>> \notin victims[t]
        /\ IF open[c] = "stored"
           THEN customerId[c] = reply[c].customerId /\ topics[c] = reply[c].topics
           ELSE customerId[c] = NoCustomer /\ topics[c] = {}

\* A connection a task is about to work on is listed until the closer unlists it.
ListedInv ==
    \A c \in Conns : loop[c] \in {"none", "up", "flagged"} =>
        /\ \A t \in Tasks : pc[t] = "lock" /\ cmd[t].conn = c => c \in manager
        /\ lock[c] # NoTask => c \in manager
        /\ customerId[c] # NoCustomer => c \in manager \/ open[c] = "stored"

\* Until the snapshot, whatever the info says is in the index or about to be.
BinderComplete(c) ==
    /\ customerId[c] # NoCustomer /\ ~Snapshotted(c) =>
          \/ c \in binder[customerId[c]]
          \/ taskBind[c] = customerId[c]
          \/ openBind[c] = customerId[c]
          \/ open[c] = "stored"
    /\ taskUnbind[c] # NoCustomer /\ taskUnbind[c] = customerId[c] => taskBind[c] = customerId[c]
    /\ taskBind[c] # NoCustomer => taskBind[c] = customerId[c]

BinderInv == \A c \in Conns : BinderComplete(c)

TopicInv ==
    \A c \in Conns, p \in Topics :
        /\ p \in topics[c] /\ ~Snapshotted(c) =>
              \/ c \in topic[p]
              \/ p \in taskAdd[c]
              \/ p \in openAdd[c]
              \/ open[c] = "stored"
              \/ \E t \in Tasks : <<p, c>> \in victims[t]
        /\ p \in taskDrop[c] /\ p \in topics[c] => p \in taskAdd[c]
        /\ p \in taskAdd[c] => p \in topics[c]

\* A connection whose open task was not overtaken is in the index only where its info
\* says, or where an agent is about to delete it.
NotOvertakenInv ==
    \A c \in Conns : ~overlap[c] =>
        /\ loop[c] \notin {"none", "up"} => open[c] \notin {"checked", "stored", "relating"}
        /\ loop[c] \in {"unlisted", "cleaning", "gone"} => c \notin manager

BinderSound(c) ==
    /\ openBind[c] # NoCustomer => openBind[c] = customerId[c]
    /\ \A x \in Customers : c \in binder[x] =>
          \/ x = customerId[c] /\ ~Snapshotted(c)
          \/ taskUnbind[c] = x
          \/ closeUnbind[c] = x

BinderSoundInv == \A c \in Conns : ~overlap[c] => BinderSound(c)

\* What topicDelete works on are topics some command deletes.
VictimInv ==
    \A t \in Tasks :
        /\ \A p \in rest[t] : ~NeverDeleted(p)
        /\ \A v \in victims[t] : ~NeverDeleted(v[1])
        /\ pc[t] # "delete" => victims[t] = {}

TopicSound(c, p) ==
    /\ p \in openAdd[c] => p \in topics[c]
    /\ c \in topic[p] =>
          \/ p \in topics[c] /\ ~Snapshotted(c)
          \/ p \in taskDrop[c]
          \/ p \in closeDrop[c]

TopicSoundInv ==
    \A c \in Conns, p \in Topics : ~overlap[c] /\ NeverDeleted(p) => TopicSound(c, p)

\* The registry is consistent: its parts agree in every reachable state, in the middle
\* of open tasks, commands and closes as well as between them.
RegistryInv ==
    /\ TypeOK
    /\ LockInv
    /\ AgentInv
    /\ FlagInv
    /\ UnregisteredInv
    /\ ListedInv
    /\ BinderInv
    /\ TopicInv
    /\ NotOvertakenInv
    /\ BinderSoundInv
    /\ VictimInv
    /\ TopicSoundInv
=============================================================================
