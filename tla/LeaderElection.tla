--------------------------- MODULE LeaderElection ---------------------------
(* Membership and leadership of the controller replicas over PostgreSQL      *)
(* (server/ha.js).  A replica that acquires a session-level advisory lock    *)
(* leads; the session is a pooled connection that it keeps as leaderClient.  *)
(*                                                                           *)
(* Each replica runs a heartbeat, runOnce, that never overlaps itself, and   *)
(* requests, drain, resume and the close of a shutdown, that overlap it and  *)
(* each other at every await.  A step here is what happens between two       *)
(* awaits.                                                                   *)
(*                                                                           *)
(* The server and the client learn separately that a connection is broken:   *)
(* until the server does, the lock stays taken; until the client does, the   *)
(* replica believes that it leads.  An unlock that fails on a connection that *)
(* works leaves the lock with a session in the pool of its replica.          *)
(*                                                                           *)
(* Abstracted: heartbeat times (a row is stale when its replica is down),    *)
(* the member count, error texts, and how long anything takes.               *)
EXTENDS Naturals, FiniteSets

CONSTANTS
    Controllers,    \* the replicas
    Requests,       \* drain, resume and close calls one replica can have in progress
    Faults          \* what may go wrong: "crash", "break", "statement"

ASSUME TasksAssumption == Requests \intersect {"heartbeat", "leader", "pool", "nowhere"} = {}

ASSUME FaultsAssumption == Faults \subseteq {"crash", "break", "statement"}

VARIABLES
    up,             \* the process runs
    draining,       \* this.draining
    closed,         \* this.closed
    leader,         \* this.leader: the replica acts as leader
    leaderClient,   \* this.leaderClient, and whether that connection works
    task,           \* the coroutines of each replica
    lock,           \* who holds the advisory lock, by the server's knowledge
    members         \* controller_instances

localVars == <<up, draining, closed, leader, leaderClient, task>>
vars == <<localVars, lock, members>>

Tasks == {"heartbeat"} \union Requests

\* severed: the connection is broken and the client has not noticed.
ClientStates == {"none", "good", "severed"}

\* The connection that holds the lock: the one a replica keeps as its leader
\* client, the one a coroutine is about to unlock, one that is back in the pool
\* still locked, or one whose client is gone.  A session that takes the lock
\* again must unlock it once more for each time (nested).
Holders == [by: Controllers, at: {"leader", "pool"} \union Tasks, nested: BOOLEAN]

FreeLock == [by |-> "nobody", at |-> "nowhere", nested |-> FALSE]
OrphanLock == [by |-> "orphan", at |-> "nowhere", nested |-> FALSE]

\* What register writes: the values when the statement was issued.
MemberRow == [state: {"ready", "draining"}, leader: BOOLEAN]
NoMember == [state |-> "absent", leader |-> FALSE]

Cleared(row) == [state |-> row.state, leader |-> FALSE]

Ops == {"init", "heartbeat", "drain", "resume", "close"}
Pcs == {"idle", "probing", "locking", "updating", "registering", "cleaning",
        "unlocking", "clearing", "deleting"}

\* client: the connection a release took over; row: what register will write.
TaskState == [op: Ops, pc: Pcs, client: ClientStates, row: MemberRow \union {NoMember}]

IdleTask == [op |-> "heartbeat", pc |-> "idle", client |-> "none", row |-> NoMember]

-----------------------------------------------------------------------------
Init ==
    /\ up = [c \in Controllers |-> FALSE]
    /\ draining = [c \in Controllers |-> FALSE]
    /\ closed = [c \in Controllers |-> FALSE]
    /\ leader = [c \in Controllers |-> FALSE]
    /\ leaderClient = [c \in Controllers |-> "none"]
    /\ task = [c \in Controllers |-> [t \in Tasks |-> IdleTask]]
    /\ lock = FreeLock
    /\ members = [c \in Controllers |-> NoMember]

At(c, t, pc) == up[c] /\ task[c][t].pc = pc

SetTask(c, t, state) == task' = [task EXCEPT ![c][t] = state]

Goto(c, t, op, pc) == SetTask(c, t, [IdleTask EXCEPT !.op = op, !.pc = pc])

Finish(c, t) == SetTask(c, t, IdleTask)

HeldAt(c, where) == lock.by = c /\ lock.at = where

\* A connection that c takes from the pool can have the lock: nobody has it, or
\* that very session does.
Available(c) == lock = FreeLock \/ HeldAt(c, "pool")

\* Mutant: a state that the column does not admit.
RegisterWith_UnknownState(c, t, op, isDraining, isLeader) ==
    SetTask(c, t, [IdleTask EXCEPT !.op = op, !.pc = "registering",
                       !.row = [state |-> IF isDraining THEN "drained" ELSE "ready",
                                leader |-> isLeader]])

\* register issues its statement with the flags of this moment.
RegisterWith(c, t, op, isDraining, isLeader) ==
    SetTask(c, t, [IdleTask EXCEPT !.op = op, !.pc = "registering",
                       !.row = [state |-> IF isDraining THEN "draining" ELSE "ready",
                                leader |-> isLeader]])

\* The guard of tryLeadership, which is tested once, before its first await.
MayTry(c, isDraining) == ~isDraining /\ ~leader[c] /\ ~closed[c]

\* Call tryLeadership, then register.
TryThenRegister(c, t, op, isDraining) ==
    IF MayTry(c, isDraining)
    THEN Goto(c, t, op, "locking")
    ELSE RegisterWith(c, t, op, isDraining, leader[c])

\* Mutant: the connection goes back to the pool with the lock.
BeginRelease_NoUnlock(c, t, op) ==
    /\ leader' = [leader EXCEPT ![c] = FALSE]
    /\ leaderClient' = [leaderClient EXCEPT ![c] = "none"]
    /\ SetTask(c, t, [IdleTask EXCEPT !.op = op, !.pc = "clearing"])
    /\ UNCHANGED lock

\* The synchronous part of releaseLeadership: the flag is cleared and the client
\* moves from the replica to the coroutine that unlocks it.
HandOver(c, t, op) ==
    /\ leader' = [leader EXCEPT ![c] = FALSE]
    /\ leaderClient' = [leaderClient EXCEPT ![c] = "none"]
    /\ SetTask(c, t, [IdleTask EXCEPT !.op = op, !.client = leaderClient[c],
                          !.pc = IF leaderClient[c] = "none" THEN "clearing" ELSE "unlocking"])

BeginRelease(c, t, op) ==
    /\ HandOver(c, t, op)
    /\ lock' = IF HeldAt(c, "leader") THEN [lock EXCEPT !.at = t] ELSE lock

\* The catch block of runOnce, and a request that fails.
Catch(c, t) ==
    IF t = "heartbeat" /\ leaderClient[c] # "none"
    THEN BeginRelease(c, t, task[c][t].op)
    ELSE Finish(c, t) /\ UNCHANGED <<leader, leaderClient, lock>>

-----------------------------------------------------------------------------
(* The heartbeat.                                                            *)

\* Mutant: a draining replica does not report.
HeartbeatBegin_OnlyReady(c) ==
    /\ At(c, "heartbeat", "idle")
    /\ ~closed[c] /\ ~draining[c]
    /\ IF leaderClient[c] # "none"
       THEN Goto(c, "heartbeat", "heartbeat", "probing")
       ELSE TryThenRegister(c, "heartbeat", "heartbeat", FALSE)
    /\ UNCHANGED <<up, draining, closed, leader, leaderClient, lock, members>>

HeartbeatBegin(c) ==
    /\ At(c, "heartbeat", "idle")
    /\ ~closed[c]
    /\ IF leaderClient[c] # "none"
       THEN Goto(c, "heartbeat", "heartbeat", "probing")
       ELSE TryThenRegister(c, "heartbeat", "heartbeat", draining[c])
    /\ UNCHANGED <<up, draining, closed, leader, leaderClient, lock, members>>

\* SELECT 1 on the leader connection.
ProbeSucceeds(c) ==
    /\ At(c, "heartbeat", "probing")
    /\ leaderClient[c] # "severed"
    /\ TryThenRegister(c, "heartbeat", "heartbeat", draining[c])
    /\ UNCHANGED <<up, draining, closed, leader, leaderClient, lock, members>>

ProbeFails(c) ==
    /\ At(c, "heartbeat", "probing")
    /\ leaderClient[c] # "good"
    /\ Catch(c, "heartbeat")
    /\ UNCHANGED <<up, draining, closed, members>>

\* A leader drops the rows of replicas that stopped reporting.
Cleanup(c) ==
    /\ At(c, "heartbeat", "cleaning")
    /\ members' = [d \in Controllers |-> IF d # c /\ ~up[d] THEN NoMember ELSE members[d]]
    /\ Finish(c, "heartbeat")
    /\ UNCHANGED <<up, draining, closed, leader, leaderClient, lock>>

-----------------------------------------------------------------------------
(* tryLeadership.                                                            *)

\* Mutant: the answer to pg_try_advisory_lock is not looked at.
LockAcquired_AnswerIgnored(c, t) ==
    /\ At(c, t, "locking")
    /\ lock' = IF lock = FreeLock THEN [by |-> c, at |-> "leader", nested |-> FALSE] ELSE lock
    /\ leaderClient' = [leaderClient EXCEPT ![c] = "good"]
    /\ Goto(c, t, task[c][t].op, "updating")
    /\ UNCHANGED <<up, draining, closed, leader, members>>

\* pg_try_advisory_lock on a connection of its own; on success the connection is
\* kept as leaderClient, whatever happened to the replica since the guard.
LockAcquired(c, t) ==
    /\ At(c, t, "locking")
    /\ Available(c)
    /\ lock' = [by |-> c, at |-> "leader", nested |-> HeldAt(c, "pool")]
    /\ leaderClient' = [leaderClient EXCEPT ![c] = "good"]
    /\ Goto(c, t, task[c][t].op, "updating")
    /\ UNCHANGED <<up, draining, closed, leader, members>>

LockRefused(c, t) ==
    /\ At(c, t, "locking")
    /\ lock # FreeLock
    /\ RegisterWith(c, t, task[c][t].op, draining[c], leader[c])
    /\ UNCHANGED <<up, draining, closed, leader, leaderClient, lock, members>>

\* The connection breaks between the lock and its answer, and leaves it to a
\* session without a client.
LockUnanswered(c, t) ==
    /\ "break" \in Faults
    /\ At(c, t, "locking")
    /\ Available(c)
    /\ lock' = OrphanLock
    /\ IF t = "heartbeat" /\ leaderClient[c] # "none"
       THEN HandOver(c, t, task[c][t].op)
       ELSE Finish(c, t) /\ UNCHANGED <<leader, leaderClient>>
    /\ UNCHANGED <<up, draining, closed, members>>

\* UPDATE the other rows, then setLeader(true), without looking again.
BecomeLeader(c, t) ==
    /\ At(c, t, "updating")
    /\ members' = [d \in Controllers |-> IF d = c THEN members[d]
                                                  ELSE Cleared(members[d])]
    /\ leader' = [leader EXCEPT ![c] = TRUE]
    /\ RegisterWith(c, t, task[c][t].op, draining[c], TRUE)
    /\ UNCHANGED <<up, draining, closed, leaderClient, lock>>

-----------------------------------------------------------------------------
(* register and releaseLeadership.                                           *)

Register(c, t) ==
    /\ At(c, t, "registering")
    /\ members' = [members EXCEPT ![c] = task[c][t].row]
    /\ IF t = "heartbeat" /\ leader[c]
       THEN Goto(c, t, task[c][t].op, "cleaning")
       ELSE Finish(c, t)
    /\ UNCHANGED <<up, draining, closed, leader, leaderClient, lock>>

\* The client goes back to the pool, whatever became of the unlock.
ReleaseClient(c, t) ==
    /\ At(c, t, "unlocking")
    /\ SetTask(c, t, [task[c][t] EXCEPT !.pc = "clearing", !.client = "none"])
    /\ UNCHANGED <<up, draining, closed, leader, leaderClient, members>>

\* The lock of a live session after its client went back without freeing it.
Pooled == {[lock EXCEPT !.at = "pool", !.nested = nested] : nested \in BOOLEAN}

\* pg_advisory_unlock.  It frees a lock that the session took once.  On a broken
\* connection it fails, and the session keeps the lock until the server notices.
Unlock(c, t) ==
    /\ ReleaseClient(c, t)
    /\ \/ ~HeldAt(c, t) /\ UNCHANGED lock
       \/ HeldAt(c, t) /\ task[c][t].client = "severed" /\ lock' = OrphanLock
       \/ HeldAt(c, t) /\ task[c][t].client = "good"
          /\ IF lock.nested THEN lock' \in Pooled ELSE lock' = FreeLock

\* It fails on a connection that works: the error is logged, and release, which is
\* not told of it, puts the session back into the pool with the lock.
UnlockFails(c, t) ==
    /\ "statement" \in Faults
    /\ task[c][t].client = "good"
    /\ ReleaseClient(c, t)
    /\ lock' = IF HeldAt(c, t) THEN [lock EXCEPT !.at = "pool"] ELSE lock

\* The replica's own row; a failure of this statement is ignored.
ClearOwnRow(c, t) ==
    /\ At(c, t, "clearing")
    /\ \/ members' = [members EXCEPT ![c] = Cleared(@)]
       \/ UNCHANGED members
    /\ CASE task[c][t].op = "drain" -> RegisterWith(c, t, "drain", draining[c], leader[c])
         [] task[c][t].op = "close" -> Goto(c, t, "close", "deleting")
         [] OTHER -> Finish(c, t)
    /\ UNCHANGED <<up, draining, closed, leader, leaderClient, lock>>

-----------------------------------------------------------------------------
(* Operators and shutdown.                                                   *)

\* Requests are served, and signals handled, once init has returned.
Serving(c) == up[c] /\ task[c]["heartbeat"].op # "init"

\* setDraining(true).
DrainBegin(c, r) ==
    /\ Serving(c)
    /\ At(c, r, "idle")
    /\ ~draining[c]
    /\ draining' = [draining EXCEPT ![c] = TRUE]
    /\ BeginRelease(c, r, "drain")
    /\ UNCHANGED <<up, closed, members>>

\* setDraining(false).
ResumeBegin(c, r) ==
    /\ Serving(c)
    /\ At(c, r, "idle")
    /\ draining[c]
    /\ ~closed[c]
    /\ draining' = [draining EXCEPT ![c] = FALSE]
    /\ TryThenRegister(c, r, "resume", FALSE)
    /\ UNCHANGED <<up, closed, leader, leaderClient, lock, members>>

\* close(), which a shutdown calls after it has drained the replica.
CloseBegin(c, r) ==
    /\ Serving(c)
    /\ At(c, r, "idle")
    /\ draining[c]
    /\ ~closed[c]
    /\ closed' = [closed EXCEPT ![c] = TRUE]
    /\ BeginRelease(c, r, "close")
    /\ UNCHANGED <<up, draining, members>>

CloseEnd(c, r) ==
    /\ At(c, r, "deleting")
    /\ \/ members' = [members EXCEPT ![c] = NoMember]
       \/ UNCHANGED members
    /\ Finish(c, r)
    /\ UNCHANGED <<up, draining, closed, leader, leaderClient, lock>>

-----------------------------------------------------------------------------
(* Processes and connections.                                                *)

\* init(): the first heartbeat runs before the timer is set.
Start(c) ==
    /\ ~up[c]
    /\ up' = [up EXCEPT ![c] = TRUE]
    /\ TryThenRegister(c, "heartbeat", "init", FALSE)
    /\ UNCHANGED <<draining, closed, leader, leaderClient, lock, members>>

\* The process ends: what it held in memory is gone, its sessions are orphans.
Stop(c) ==
    /\ up[c]
    /\ up' = [up EXCEPT ![c] = FALSE]
    /\ draining' = [draining EXCEPT ![c] = FALSE]
    /\ closed' = [closed EXCEPT ![c] = FALSE]
    /\ leader' = [leader EXCEPT ![c] = FALSE]
    /\ leaderClient' = [leaderClient EXCEPT ![c] = "none"]
    /\ task' = [task EXCEPT ![c] = [t \in Tasks |-> IdleTask]]
    /\ lock' = IF lock.by = c THEN OrphanLock ELSE lock
    /\ UNCHANGED members

Crash(c) == "crash" \in Faults /\ Stop(c)

Quiet(c) == \A t \in Tasks : task[c][t].pc = "idle"

\* The end of a shutdown.
Exit(c) == closed[c] /\ Quiet(c) /\ Stop(c)

\* A connection that holds the lock breaks, unnoticed at either end.
Break(c) ==
    /\ "break" \in Faults
    /\ \/ /\ leaderClient[c] = "good"
          /\ leaderClient' = [leaderClient EXCEPT ![c] = "severed"]
          /\ UNCHANGED <<task, lock>>
       \/ \E t \in Tasks :
             /\ task[c][t].client = "good"
             /\ SetTask(c, t, [task[c][t] EXCEPT !.client = "severed"])
             /\ UNCHANGED <<leaderClient, lock>>
       \/ /\ HeldAt(c, "pool")
          /\ lock' = OrphanLock
          /\ UNCHANGED <<task, leaderClient>>
    /\ UNCHANGED <<up, draining, closed, leader, members>>

\* The pool closes a connection that was idle for its limit, and the session ends.
PoolCloses(c) ==
    /\ HeldAt(c, "pool")
    /\ lock' = FreeLock
    /\ UNCHANGED <<localVars, members>>

\* The error listener: the replica gives up leadership with the connection.
ClientNotices(c) ==
    /\ leaderClient[c] = "severed"
    /\ leaderClient' = [leaderClient EXCEPT ![c] = "none"]
    /\ leader' = [leader EXCEPT ![c] = FALSE]
    /\ lock' = IF HeldAt(c, "leader") THEN OrphanLock ELSE lock
    /\ UNCHANGED <<up, draining, closed, task, members>>

\* The lock is held by a session whose connection is broken.
Abandoned ==
    \/ lock = OrphanLock
    \/ \E c \in Controllers :
          \/ HeldAt(c, "leader") /\ leaderClient[c] = "severed"
          \/ \E t \in Tasks : HeldAt(c, t) /\ task[c][t].client = "severed"

\* The server ends such a session, and its lock with it.
ServerNotices ==
    /\ Abandoned
    /\ lock' = FreeLock
    /\ UNCHANGED <<localVars, members>>

\* A statement of a coroutine fails: the exception reaches the end of runOnce or
\* of the request.
StatementFails(c, t) ==
    /\ "statement" \in Faults
    /\ up[c]
    /\ task[c][t].pc \in {"locking", "updating", "registering", "cleaning"}
          \union (IF leaderClient[c] # "none" THEN {"probing"} ELSE {})
    /\ Catch(c, t)
    /\ UNCHANGED <<up, draining, closed, members>>

-----------------------------------------------------------------------------
\* A step of a coroutine that is under way.
Continue(c, t) ==
    \/ LockAcquired(c, t) \/ LockRefused(c, t) \/ BecomeLeader(c, t)
    \/ Register(c, t) \/ Unlock(c, t) \/ ClearOwnRow(c, t)

Heartbeat(c) ==
    \/ HeartbeatBegin(c) \/ ProbeSucceeds(c) \/ ProbeFails(c) \/ Cleanup(c)
    \/ Continue(c, "heartbeat")

Operate(c) == \E r \in Requests : DrainBegin(c, r) \/ ResumeBegin(c, r) \/ CloseBegin(c, r)

Fail(c) ==
    \/ Crash(c) \/ Break(c)
    \/ \E t \in Tasks : StatementFails(c, t) \/ UnlockFails(c, t) \/ LockUnanswered(c, t)

Next ==
    \/ \E c \in Controllers :
          \/ Heartbeat(c) \/ Operate(c) \/ Fail(c)
          \/ \E r \in Requests : Continue(c, r) \/ CloseEnd(c, r)
          \/ Start(c) \/ Exit(c) \/ ClientNotices(c) \/ PoolCloses(c)
    \/ ServerNotices

\* Timers fire, statements are answered, both ends of a connection learn that it
\* is broken, and the process supervisor restarts what stopped.  Operators and
\* faults are not for ever.  (A statement that fails and would have changed
\* nothing is the same step as one that succeeds, and may recur.)  Nothing is
\* assumed of the pool: a connection that the heartbeats use is never idle.
Fairness ==
    /\ \A c \in Controllers :
          /\ WF_vars(Heartbeat(c))
          /\ \A r \in Requests : WF_vars(Continue(c, r) \/ CloseEnd(c, r))
          /\ WF_vars(Start(c))
          /\ WF_vars(Exit(c))
          /\ WF_vars(ClientNotices(c))
          /\ <>[][~Operate(c)]_vars
          /\ <>[][Fail(c) => Cleanup(c) \/ \E t \in Tasks : Register(c, t) \/ Unlock(c, t)]_vars
    /\ WF_vars(ServerNotices)

Spec == Init /\ [][Next]_vars

FairSpec == Spec /\ Fairness

-----------------------------------------------------------------------------
(* Properties.                                                               *)

\* Every variable holds a value of its kind.
TypeOK ==
    /\ {up, draining, closed, leader} \subseteq [Controllers -> BOOLEAN]
    /\ leaderClient \in [Controllers -> ClientStates]
    /\ task \in [Controllers -> [Tasks -> TaskState]]
    /\ lock \in Holders \union {FreeLock, OrphanLock}
    /\ members \in [Controllers -> MemberRow \union {NoMember}]

\* A replica whose leader connection works holds the lock with it, whatever
\* heartbeats, drains, resumes and lost connections overlap; so two replicas
\* that both lead with a working session do not exist (README.md:133).
SessionHoldsLock ==
    \A c \in Controllers : leaderClient[c] = "good" => HeldAt(c, "leader")

\* The lock is where no coroutine will look for it, or needs one unlock too many.
Stray == lock.at = "pool" \/ lock.nested

\* A replica that runs answers for its lock: as long as the server keeps it for
\* the replica, the connection that can release it is the leader client, or is with
\* a coroutine that is about to unlock.  The one way in which the code loses sight
\* of it is an unlock that failed (ha.js:134): only where statements may fail is
\* the lock ever with a pooled connection, or taken twice by one session.
LockIsHeldByItsClient ==
    /\ \A c \in Controllers :
          /\ HeldAt(c, "leader") => leaderClient[c] # "none"
          /\ \A t \in Tasks : HeldAt(c, t) => At(c, t, "unlocking") /\ task[c][t].client # "none"
    /\ Stray => "statement" \in Faults

\* What the proofs carry from step to step.
IInv == TypeOK /\ SessionHoldsLock /\ LockIsHeldByItsClient

Ready(c) == up[c] /\ ~draining[c]

Leaders == {c \in Controllers : leader[c]}

\* When operators and faults leave the replicas alone, exactly one of them leads
\* from some time on ("exactly one leader", README.md:133).
OneLeaderInTheEnd == <>[]((\E c \in Controllers : Ready(c)) => Cardinality(Leaders) = 1)

\* The same, while operators drain, resume and stop replicas: unless one of them
\* is left leading without a connection (as OneLeaderInTheEnd finds), the ready
\* replicas come to have exactly one leader, whatever the drains interrupt.
OneLeaderAmongConnected ==
    <>[](/\ \E c \in Controllers : Ready(c)
         /\ \A c \in Leaders : leaderClient[c] # "none"
         => Cardinality(Leaders) = 1)

\* And the topology that operators see comes to agree with the replicas, although
\* the statements that write it overtake each other.
TopologyConverges ==
    <>[](\A c \in Controllers : ~closed[c] =>
            members[c] = [state |-> IF draining[c] THEN "draining" ELSE "ready",
                          leader |-> leader[c]])
=============================================================================
