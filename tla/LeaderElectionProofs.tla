------------------------ MODULE LeaderElectionProofs ------------------------
(* Proofs about LeaderElection, for any number of replicas, requests and     *)
(* faults.  Type correctness, SessionHoldsLock and LockIsHeldByItsClient are *)
(* inductive together: a replica takes the lock for a connection when nobody *)
(* else has it, and a release moves both from the replica to the coroutine   *)
(* that unlocks, so that at every moment one place answers for the lock; an  *)
(* unlock that fails moves it on to the pool.                                *)
EXTENDS LeaderElection, TLAPS

USE DEF TasksAssumption

LockInv == SessionHoldsLock /\ LockIsHeldByItsClient

\* Where a replica can have the lock.
Places == {"leader", "pool"} \union Tasks

\* The task names, apart from the names of the other places.
LEMMA TaskNames ==
    /\ "heartbeat" \in Tasks /\ Requests \subseteq Tasks
    /\ {"leader", "pool"} \intersect Tasks = {}
    /\ {"leader", "pool"} \subseteq Places /\ Tasks \subseteq Places
BY TasksAssumption DEF Tasks, Places

\* Two places are never the same holder, and neither is one of the other values.
LEMMA HoldersDiffer ==
    ASSUME NEW c \in Controllers, NEW d \in Controllers,
           NEW t \in Places, NEW u \in Places
    PROVE  /\ HeldAt(c, t) /\ HeldAt(d, u) => c = d /\ t = u
           /\ HeldAt(c, t) => lock # FreeLock /\ lock # OrphanLock
BY TasksAssumption DEF HeldAt, FreeLock, OrphanLock, Tasks, Places

\* The lock of nobody, and that of a session without a client, are not stray.
LEMMA Astray ==
    /\ FreeLock.at # "pool" /\ ~FreeLock.nested
    /\ OrphanLock.at # "pool" /\ ~OrphanLock.nested
BY DEF FreeLock, OrphanLock

\* SetTask writes one coroutine of one replica.
LEMMA OneTask ==
    ASSUME task \in [Controllers -> [Tasks -> TaskState]],
           NEW c \in Controllers, NEW t \in Tasks, NEW state \in TaskState,
           SetTask(c, t, state)
    PROVE  /\ task' \in [Controllers -> [Tasks -> TaskState]]
           /\ task'[c][t] = state
           /\ \A d \in Controllers, u \in Tasks : d # c \/ u # t => task'[d][u] = task[d][u]
BY DEF SetTask

\* The states that the actions give to a coroutine.
LEMMA TaskStates ==
    /\ IdleTask \in TaskState
    /\ \A op \in Ops, pc \in Pcs : [IdleTask EXCEPT !.op = op, !.pc = pc] \in TaskState
    /\ \A op \in Ops, pc \in Pcs, client \in ClientStates :
          [IdleTask EXCEPT !.op = op, !.client = client, !.pc = pc] \in TaskState
    /\ \A op \in Ops, isLeader \in BOOLEAN, isDraining \in BOOLEAN :
          [IdleTask EXCEPT !.op = op, !.pc = "registering",
              !.row = [state |-> IF isDraining THEN "draining" ELSE "ready",
                       leader |-> isLeader]] \in TaskState
BY DEF IdleTask, TaskState, Ops, Pcs, ClientStates, NoMember, MemberRow

\* A step of a coroutine that is not about to unlock, which leaves the lock and
\* the leader connections alone.
LEMMA TaskStep ==
    ASSUME IInv, NEW c \in Controllers, NEW t \in Tasks, NEW state \in TaskState,
           SetTask(c, t, state), ~At(c, t, "unlocking"),
           \A d \in Controllers : up[d] => up'[d],
           UNCHANGED <<leaderClient, lock>>
    PROVE  /\ LockInv'
           /\ task' \in [Controllers -> [Tasks -> TaskState]]
<1>1. /\ task' \in [Controllers -> [Tasks -> TaskState]]
      /\ \A d \in Controllers, u \in Tasks : d # c \/ u # t => task'[d][u] = task[d][u]
  BY OneTask DEF IInv, TypeOK
<1>2. SessionHoldsLock'
  BY DEF IInv, SessionHoldsLock, HeldAt
<1>3. ASSUME NEW d \in Controllers PROVE HeldAt(d, "leader")' => leaderClient'[d] # "none"
  BY <1>3 DEF IInv, LockIsHeldByItsClient, HeldAt
<1>4. ASSUME NEW d \in Controllers, NEW u \in Tasks, HeldAt(d, u)'
      PROVE  At(d, u, "unlocking")' /\ task'[d][u].client # "none"
  <2>1. At(d, u, "unlocking") /\ task[d][u].client # "none"
    BY <1>4 DEF IInv, LockIsHeldByItsClient, HeldAt
  <2>2. d # c \/ u # t
    BY <2>1
  <2>. QED
    BY <1>1, <2>1, <2>2 DEF At
<1>5. Stray' => "statement" \in Faults
  BY DEF IInv, LockIsHeldByItsClient, Stray
<1>. QED
  BY <1>1, <1>2, <1>3, <1>4, <1>5 DEF LockInv, LockIsHeldByItsClient

\* A record of a lock that moves to another place.
LEMMA MovedLock ==
    ASSUME NEW t \in Places, lock \in Holders
    PROVE  /\ [lock EXCEPT !.at = t] \in Holders
           /\ [lock EXCEPT !.at = t].by = lock.by
           /\ [lock EXCEPT !.at = t].at = t
           /\ [lock EXCEPT !.at = t].nested = lock.nested
BY DEF Holders, Places

\* What a replica holds is one of the holders.
LEMMA HeldLock ==
    ASSUME IInv, NEW c \in Controllers, NEW t \in Places, HeldAt(c, t)
    PROVE  lock \in Holders
BY HoldersDiffer DEF IInv, TypeOK

\* A release hands the connection, and the lock if it has it, to the coroutine;
\* an unanswered attempt to lead may have left a lock behind on the way.
LEMMA ReleaseStep ==
    ASSUME IInv, NEW c \in Controllers, NEW t \in Tasks, NEW op \in Ops,
           \/ BeginRelease(c, t, op)
           \/ HandOver(c, t, op) /\ Available(c) /\ lock' = OrphanLock,
           up[c], ~At(c, t, "unlocking"), up' = up
    PROVE  /\ LockInv'
           /\ task' \in [Controllers -> [Tasks -> TaskState]]
           /\ leader' \in [Controllers -> BOOLEAN]
           /\ leaderClient' \in [Controllers -> ClientStates]
           /\ lock' \in Holders \union {FreeLock, OrphanLock}
<1> DEFINE state == [IdleTask EXCEPT !.op = op, !.client = leaderClient[c],
                         !.pc = IF leaderClient[c] = "none" THEN "clearing" ELSE "unlocking"]
<1>1. leaderClient[c] \in ClientStates
  BY DEF IInv, TypeOK
<1>2. /\ state \in TaskState
      /\ state.client = leaderClient[c]
      /\ leaderClient[c] # "none" => state.pc = "unlocking"
  BY <1>1 DEF IdleTask, TaskState, Ops, Pcs, ClientStates, NoMember, MemberRow
<1>3. HandOver(c, t, op) /\ SetTask(c, t, state)
  BY DEF BeginRelease, HandOver
<1> HIDE DEF state
<1>4. /\ task' \in [Controllers -> [Tasks -> TaskState]]
      /\ task'[c][t] = state
      /\ \A d \in Controllers, u \in Tasks : d # c \/ u # t => task'[d][u] = task[d][u]
  BY <1>2, <1>3, OneTask DEF IInv, TypeOK
<1>5. /\ leader' \in [Controllers -> BOOLEAN]
      /\ leaderClient' \in [Controllers -> ClientStates]
      /\ leaderClient'[c] = "none"
      /\ \A d \in Controllers : d # c => leaderClient'[d] = leaderClient[d]
  BY <1>3 DEF HandOver, IInv, TypeOK, ClientStates
<1>6. CASE HeldAt(c, "leader")
  <2>1. lock \in Holders /\ ~Available(c)
    BY <1>6, TaskNames, HeldLock, HoldersDiffer DEF Available
  <2>2. /\ lock' \in Holders
        /\ lock'.by = c /\ lock'.at = t
        /\ lock'.nested = lock.nested
    BY <1>6, <2>1, TaskNames, MovedLock DEF BeginRelease, HeldAt
  <2>3. leaderClient[c] # "none" /\ \A d \in Controllers : leaderClient[d] = "good" => d = c
    BY <1>6, TaskNames, HoldersDiffer DEF IInv, LockIsHeldByItsClient, SessionHoldsLock
  <2>4. SessionHoldsLock'
    BY <1>5, <2>3 DEF SessionHoldsLock
  <2>5. \A d \in Controllers, u \in Places : HeldAt(d, u)' => d = c /\ u = t
    BY <2>2 DEF HeldAt
  <2>6. task'[c][t].client # "none" /\ At(c, t, "unlocking")'
    BY <1>2, <1>4, <2>3 DEF At
  <2>7. Stray' => "statement" \in Faults
    BY <2>2, TaskNames DEF Stray, IInv, LockIsHeldByItsClient
  <2>8. LockIsHeldByItsClient'
    BY <2>5, <2>6, <2>7, TaskNames DEF LockIsHeldByItsClient
  <2>. QED
    BY <1>4, <1>5, <2>2, <2>4, <2>8 DEF LockInv
<1>7. CASE ~HeldAt(c, "leader")
  <2>1. lock' = lock \/ (lock' = OrphanLock /\ Available(c))
    <3>1. BeginRelease(c, t, op) => lock' = lock
      BY <1>7 DEF BeginRelease
    <3>. QED
      BY <3>1
  <2>2. lock' \in Holders \union {FreeLock, OrphanLock}
    BY <2>1 DEF IInv, TypeOK
  <2>3. \A d \in Controllers, u \in Places : HeldAt(d, u)' => HeldAt(d, u) /\ lock' = lock
    <3>1. ASSUME NEW d \in Controllers, NEW u \in Places, HeldAt(d, u)' PROVE lock' # OrphanLock
      BY <3>1, TasksAssumption DEF HeldAt, OrphanLock, Places, Tasks
    <3>. QED
      BY <2>1, <3>1 DEF HeldAt
  <2>4. SessionHoldsLock'
    <3> SUFFICES ASSUME NEW d \in Controllers, leaderClient'[d] = "good"
                 PROVE  HeldAt(d, "leader")'
      BY DEF SessionHoldsLock
    <3>1. HeldAt(d, "leader")
      BY <1>5 DEF IInv, SessionHoldsLock
    <3>2. ~Available(c)
      BY <3>1, TaskNames, HoldersDiffer DEF Available
    <3>. QED
      BY <2>1, <3>1, <3>2 DEF HeldAt
  <2>5. ASSUME NEW d \in Controllers, HeldAt(d, "leader")' PROVE leaderClient'[d] # "none"
    BY <1>5, <1>7, <2>3, <2>5, TaskNames DEF IInv, LockIsHeldByItsClient
  <2>6. ASSUME NEW d \in Controllers, NEW u \in Tasks, HeldAt(d, u)'
        PROVE  At(d, u, "unlocking")' /\ task'[d][u].client # "none"
    <3>1. At(d, u, "unlocking") /\ task[d][u].client # "none"
      BY <2>3, <2>6, TaskNames DEF IInv, LockIsHeldByItsClient
    <3>. QED
      BY <1>4, <3>1 DEF At
  <2>7. Stray' => "statement" \in Faults
    BY <2>1, Astray DEF Stray, IInv, LockIsHeldByItsClient
  <2>. QED
    BY <1>4, <1>5, <2>2, <2>4, <2>5, <2>6, <2>7 DEF LockInv, LockIsHeldByItsClient
<1>. QED
  BY <1>6, <1>7

\* A lock that no replica can use says nothing of any connection.
LEMMA NobodyHolds ==
    ASSUME lock' \in {FreeLock, OrphanLock}, \A d \in Controllers : leaderClient'[d] # "good"
    PROVE  LockInv'
<1>1. \A d \in Controllers, u \in Places : ~HeldAt(d, u)'
  BY TasksAssumption DEF HeldAt, FreeLock, OrphanLock, Places, Tasks
<1>2. ~Stray'
  BY Astray DEF Stray
<1>. QED
  BY <1>1, <1>2, TaskNames DEF LockInv, SessionHoldsLock, LockIsHeldByItsClient

\* While a replica could have the lock from its pool, no replica's session has it.
LEMMA NoSession ==
    ASSUME IInv, NEW c \in Controllers, Available(c) \/ lock = OrphanLock,
           NEW d \in Controllers
    PROVE  leaderClient[d] # "good"
<1>1. ~HeldAt(d, "leader")
  BY HoldersDiffer, TaskNames DEF Available
<1>. QED
  BY <1>1 DEF IInv, SessionHoldsLock

-----------------------------------------------------------------------------
(* The actions.                                                              *)

\* The flags and the table, which a step of a coroutine may also write.
FlagsOK ==
    /\ {up, draining, closed, leader} \subseteq [Controllers -> BOOLEAN]
    /\ members \in [Controllers -> MemberRow \union {NoMember}]

\* A coroutine's step, when it goes to some statement of its own or ends.
Moves(c, t) == \E state \in TaskState : SetTask(c, t, state)

\* Whatever a step goes on to, it leaves the coroutine in one of its states.
LEMMA MovesTyped ==
    ASSUME IInv, NEW c \in Controllers, NEW t \in Tasks
    PROVE  /\ task[c][t].op \in Ops
           /\ Finish(c, t) => Moves(c, t)
           /\ \A op \in Ops, pc \in Pcs : Goto(c, t, op, pc) => Moves(c, t)
           /\ \A op \in Ops, isDraining \in BOOLEAN, isLeader \in BOOLEAN :
                 RegisterWith(c, t, op, isDraining, isLeader) => Moves(c, t)
           /\ \A op \in Ops, isDraining \in BOOLEAN :
                 TryThenRegister(c, t, op, isDraining) => Moves(c, t)
<1>1. task[c][t].op \in Ops /\ leader[c] \in BOOLEAN
  BY DEF IInv, TypeOK, TaskState
<1>2. Finish(c, t) => Moves(c, t)
  BY TaskStates DEF Finish, Moves
<1>3. ASSUME NEW op \in Ops, NEW pc \in Pcs, Goto(c, t, op, pc) PROVE Moves(c, t)
  BY <1>3, TaskStates DEF Goto, Moves
<1>4. ASSUME NEW op \in Ops, NEW isDraining \in BOOLEAN, NEW isLeader \in BOOLEAN,
             RegisterWith(c, t, op, isDraining, isLeader)
      PROVE  Moves(c, t)
  BY <1>4, TaskStates DEF RegisterWith, Moves
<1>5. ASSUME NEW op \in Ops, NEW isDraining \in BOOLEAN, TryThenRegister(c, t, op, isDraining)
      PROVE  Moves(c, t)
  <2>1. Goto(c, t, op, "locking") \/ RegisterWith(c, t, op, isDraining, leader[c])
    BY <1>5 DEF TryThenRegister
  <2>2. "locking" \in Pcs
    BY DEF Pcs
  <2>. QED
    BY <1>1, <1>3, <1>4, <2>1, <2>2
<1>. QED
  BY <1>1, <1>2, <1>3, <1>4, <1>5

\* A coroutine that is not about to unlock moves, and the lock stays where it is.
LEMMA MoveStep ==
    ASSUME IInv, NEW c \in Controllers, NEW t \in Tasks, Moves(c, t),
           ~At(c, t, "unlocking"), \A d \in Controllers : up[d] => up'[d],
           FlagsOK', UNCHANGED <<leaderClient, lock>>
    PROVE  IInv'
<1>1. LockInv' /\ task' \in [Controllers -> [Tasks -> TaskState]]
  BY TaskStep DEF Moves
<1>. QED
  BY <1>1 DEF IInv, TypeOK, LockInv, FlagsOK

\* A row whose leader column is cleared is a row.
LEMMA ClearedRow ==
    \A row \in MemberRow \union {NoMember} :
        Cleared(row) \in MemberRow \union {NoMember}
<1>1. \A row \in MemberRow : Cleared(row) \in MemberRow
  BY DEF MemberRow, Cleared
<1>2. Cleared(NoMember) = NoMember
  BY DEF NoMember, Cleared
<1>. QED
  BY <1>1, <1>2

\* Steps that write neither flags nor rows.
LEMMA FlagsStay == IInv /\ UNCHANGED <<up, draining, closed, leader, members>> => FlagsOK'
BY DEF IInv, TypeOK, FlagsOK

\* The heartbeat, but for its catch.
LEMMA HeartbeatStep ==
    ASSUME IInv, NEW c \in Controllers,
           HeartbeatBegin(c) \/ ProbeSucceeds(c) \/ Cleanup(c)
    PROVE  IInv'
<1>1. draining[c] \in BOOLEAN /\ "heartbeat" \in Ops /\ "probing" \in Pcs
  BY DEF IInv, TypeOK, Ops, Pcs
<1>2. CASE HeartbeatBegin(c)
  <2>1. Moves(c, "heartbeat")
    BY <1>1, <1>2, TaskNames, MovesTyped DEF HeartbeatBegin
  <2>. QED
    BY <1>2, <2>1, TaskNames, FlagsStay, MoveStep DEF HeartbeatBegin, At
<1>3. CASE ProbeSucceeds(c)
  <2>1. Moves(c, "heartbeat")
    BY <1>1, <1>3, TaskNames, MovesTyped DEF ProbeSucceeds
  <2>. QED
    BY <1>3, <2>1, TaskNames, FlagsStay, MoveStep DEF ProbeSucceeds, At
<1>4. CASE Cleanup(c)
  <2>1. Moves(c, "heartbeat")
    BY <1>4, TaskNames, MovesTyped DEF Cleanup
  <2>2. FlagsOK'
    BY <1>4 DEF Cleanup, FlagsOK, IInv, TypeOK
  <2>. QED
    BY <1>4, <2>1, <2>2, TaskNames, MoveStep DEF Cleanup, At
<1>. QED
  BY <1>2, <1>3, <1>4

\* The catch of runOnce, and the end of a request whose statement failed.
LEMMA CatchStep ==
    ASSUME IInv, NEW c \in Controllers, NEW t \in Tasks, Catch(c, t),
           up[c], ~At(c, t, "unlocking"), UNCHANGED <<up, draining, closed, members>>
    PROVE  IInv'
<1>1. task[c][t].op \in Ops
  BY MovesTyped
<1>2. CASE BeginRelease(c, t, task[c][t].op)
  BY <1>1, <1>2, ReleaseStep DEF IInv, TypeOK, LockInv
<1>3. CASE Finish(c, t) /\ UNCHANGED <<leader, leaderClient, lock>>
  <2>1. Moves(c, t)
    BY <1>3, MovesTyped
  <2>. QED
    BY <1>3, <2>1, FlagsStay, MoveStep
<1>. QED
  BY <1>2, <1>3 DEF Catch

\* A failed probe, and any statement that fails.
LEMMA FailureStep ==
    ASSUME IInv, NEW c \in Controllers, NEW t \in Tasks,
           \/ t = "heartbeat" /\ ProbeFails(c)
           \/ StatementFails(c, t)
    PROVE  IInv'
<1>1. CASE t = "heartbeat" /\ ProbeFails(c)
  BY <1>1, CatchStep DEF ProbeFails, At
<1>2. CASE StatementFails(c, t)
  BY <1>2, CatchStep DEF StatementFails, At
<1>. QED
  BY <1>1, <1>2

\* The lock is taken when nobody else has it, so no other connection answers for it.
LEMMA LockAcquiredStep ==
    ASSUME IInv, NEW c \in Controllers, NEW t \in Tasks, LockAcquired(c, t)
    PROVE  IInv'
<1>1. /\ Available(c)
      /\ lock' = [by |-> c, at |-> "leader", nested |-> HeldAt(c, "pool")]
      /\ leaderClient' = [leaderClient EXCEPT ![c] = "good"]
      /\ UNCHANGED <<up, draining, closed, leader, members>>
  BY DEF LockAcquired
<1>2. task' \in [Controllers -> [Tasks -> TaskState]]
  <2>1. Moves(c, t)
    BY MovesTyped DEF LockAcquired, Pcs
  <2>. QED
    BY <2>1, OneTask DEF Moves, IInv, TypeOK
<1>3. lock' \in Holders /\ lock'.by = c /\ lock'.at = "leader" /\ (lock'.nested => HeldAt(c, "pool"))
  <2>1. HeldAt(c, "pool") \in BOOLEAN
    BY DEF HeldAt
  <2>. QED
    BY <1>1, <2>1 DEF Holders
<1>4. TypeOK'
  BY <1>1, <1>2, <1>3 DEF IInv, TypeOK, ClientStates
<1>5. \A d \in Controllers : leaderClient'[d] = "good" => d = c
  BY <1>1, NoSession DEF IInv, TypeOK
<1>6. leaderClient'[c] # "none" /\ HeldAt(c, "leader")'
  BY <1>1, <1>3 DEF IInv, TypeOK, HeldAt
<1>7. \A d \in Controllers, u \in Places : HeldAt(d, u)' => d = c /\ u = "leader"
  BY <1>3 DEF HeldAt
<1>8. SessionHoldsLock'
  BY <1>5, <1>6 DEF SessionHoldsLock
<1>9. Stray' => "statement" \in Faults
  BY <1>3 DEF Stray, HeldAt, IInv, LockIsHeldByItsClient
<1>10. LockIsHeldByItsClient'
  BY <1>6, <1>7, <1>9, TaskNames DEF LockIsHeldByItsClient
<1>. QED
  BY <1>4, <1>8, <1>10 DEF IInv

\* After a release has begun, only the coroutine that unlocks has the lock; what
\* it does not free stays with the session, in the pool or without a client.
LEMMA UnlockStep ==
    ASSUME IInv, NEW c \in Controllers, NEW t \in Tasks, Unlock(c, t) \/ UnlockFails(c, t)
    PROVE  IInv'
<1> DEFINE state == [task[c][t] EXCEPT !.pc = "clearing", !.client = "none"]
<1>1. state \in TaskState
  <2>1. task[c][t] \in TaskState
    BY DEF IInv, TypeOK
  <2>2. \A s \in TaskState : [s EXCEPT !.pc = "clearing", !.client = "none"] \in TaskState
    BY DEF TaskState, Pcs, ClientStates
  <2>. QED
    BY <2>1, <2>2
<1>2. SetTask(c, t, state) /\ UNCHANGED <<up, draining, closed, leader, leaderClient, members>>
  BY DEF Unlock, UnlockFails, ReleaseClient
<1> HIDE DEF state
<1>3. /\ task' \in [Controllers -> [Tasks -> TaskState]]
      /\ \A d \in Controllers, u \in Tasks : d # c \/ u # t => task'[d][u] = task[d][u]
  BY <1>1, <1>2, OneTask DEF IInv, TypeOK
<1>4. \/ lock' = lock /\ ~HeldAt(c, t)
      \/ lock' \in {FreeLock, OrphanLock} /\ HeldAt(c, t)
      \/ lock' \in Holders /\ lock'.at = "pool" /\ HeldAt(c, t) /\ "statement" \in Faults
  <2>1. CASE ~HeldAt(c, t)
    BY <2>1 DEF Unlock, UnlockFails
  <2>2. CASE HeldAt(c, t)
    <3>1. lock \in Holders
      BY <2>2, TaskNames, HeldLock
    <3>2. CASE Unlock(c, t) /\ lock.nested /\ lock' \in Pooled
      <4>1. /\ "statement" \in Faults
            /\ \A nested \in BOOLEAN : LET moved == [lock EXCEPT !.at = "pool", !.nested = nested]
                                       IN  moved \in Holders /\ moved.at = "pool"
        BY <3>1, <3>2 DEF Holders, Stray, IInv, LockIsHeldByItsClient
      <4>. QED
        BY <2>2, <3>2, <4>1 DEF Pooled
    <3>3. CASE Unlock(c, t) /\ lock' \in {FreeLock, OrphanLock}
      BY <2>2, <3>3
    <3>4. CASE UnlockFails(c, t)
      BY <2>2, <3>1, <3>4, TaskNames, MovedLock DEF UnlockFails
    <3>. QED
      BY <2>2, <3>2, <3>3, <3>4 DEF Unlock
  <2>. QED
    BY <2>1, <2>2
<1>5. TypeOK'
  BY <1>2, <1>3, <1>4 DEF IInv, TypeOK
<1>6. SessionHoldsLock'
  <2> SUFFICES ASSUME NEW d \in Controllers, leaderClient[d] = "good" PROVE HeldAt(d, "leader")'
    BY <1>2 DEF SessionHoldsLock
  <2>1. HeldAt(d, "leader")
    BY DEF IInv, SessionHoldsLock
  <2>2. ~HeldAt(c, t)
    BY <2>1, HoldersDiffer, TaskNames
  <2>. QED
    BY <1>4, <2>1, <2>2 DEF HeldAt
<1>7. ASSUME NEW d \in Controllers, NEW u \in {"leader"} \union Tasks, HeldAt(d, u)'
      PROVE  HeldAt(d, u) /\ (d # c \/ u # t)
  <2>1. lock' # FreeLock /\ lock' # OrphanLock /\ lock'.at # "pool"
    BY <1>7, TasksAssumption DEF HeldAt, FreeLock, OrphanLock, Tasks
  <2>. QED
    BY <1>4, <1>7, <2>1 DEF HeldAt
<1>8. Stray' => "statement" \in Faults
  BY <1>4, Astray DEF Stray, IInv, LockIsHeldByItsClient
<1>9. LockIsHeldByItsClient'
  <2>1. ASSUME NEW d \in Controllers, HeldAt(d, "leader")' PROVE leaderClient'[d] # "none"
    BY <1>2, <1>7, <2>1 DEF IInv, LockIsHeldByItsClient
  <2>2. ASSUME NEW d \in Controllers, NEW u \in Tasks, HeldAt(d, u)'
        PROVE  At(d, u, "unlocking")' /\ task'[d][u].client # "none"
    <3>1. /\ At(d, u, "unlocking") /\ task[d][u].client # "none"
          /\ task'[d][u] = task[d][u]
      BY <1>3, <1>7, <2>2 DEF IInv, LockIsHeldByItsClient
    <3>. QED
      BY <1>2, <3>1 DEF At
  <2>. QED
    BY <1>8, <2>1, <2>2 DEF LockIsHeldByItsClient
<1>. QED
  BY <1>5, <1>6, <1>9 DEF IInv

\* The connection that might have taken the lock breaks before it answers.
LEMMA UnansweredStep ==
    ASSUME IInv, NEW c \in Controllers, NEW t \in Tasks, LockUnanswered(c, t)
    PROVE  IInv'
<1>1. /\ task[c][t].op \in Ops
      /\ Available(c) /\ lock' = OrphanLock
      /\ up[c] /\ ~At(c, t, "unlocking")
      /\ UNCHANGED <<up, draining, closed, members>>
  BY MovesTyped DEF LockUnanswered, At
<1>2. CASE HandOver(c, t, task[c][t].op)
  BY <1>1, <1>2, ReleaseStep DEF IInv, TypeOK, LockInv
<1>3. CASE Finish(c, t) /\ UNCHANGED <<leader, leaderClient>>
  <2>1. task' \in [Controllers -> [Tasks -> TaskState]]
    BY <1>3, MovesTyped, OneTask DEF Moves, IInv, TypeOK
  <2>2. TypeOK'
    BY <1>1, <1>3, <2>1 DEF IInv, TypeOK
  <2>3. LockInv'
    BY <1>1, <1>3, NoSession, NobodyHolds
  <2>. QED
    BY <2>2, <2>3 DEF IInv, LockInv
<1>. QED
  BY <1>2, <1>3 DEF LockUnanswered

\* The statements of a coroutine that is under way.
LEMMA ContinueStep ==
    ASSUME IInv, NEW c \in Controllers, NEW t \in Tasks, Continue(c, t)
    PROVE  IInv'
<1>1. /\ task[c][t].op \in Ops /\ draining[c] \in BOOLEAN /\ leader[c] \in BOOLEAN
      /\ {"cleaning", "deleting"} \subseteq Pcs
      /\ {"drain", "close"} \subseteq Ops
  BY MovesTyped DEF IInv, TypeOK, Pcs, Ops
<1>2. CASE LockRefused(c, t)
  <2>1. Moves(c, t)
    BY <1>1, <1>2, MovesTyped DEF LockRefused
  <2>. QED
    BY <1>2, <2>1, FlagsStay, MoveStep DEF LockRefused, At
<1>3. CASE BecomeLeader(c, t)
  <2>1. Moves(c, t)
    BY <1>1, <1>3, MovesTyped DEF BecomeLeader
  <2>2. FlagsOK'
    BY <1>3, ClearedRow DEF BecomeLeader, FlagsOK, IInv, TypeOK
  <2>. QED
    BY <1>3, <2>1, <2>2, MoveStep DEF BecomeLeader, At
<1>4. CASE Register(c, t)
  <2>1. Moves(c, t)
    BY <1>1, <1>4, MovesTyped DEF Register
  <2>2. FlagsOK'
    BY <1>4 DEF Register, FlagsOK, IInv, TypeOK, TaskState
  <2>. QED
    BY <1>4, <2>1, <2>2, MoveStep DEF Register, At
<1>5. CASE ClearOwnRow(c, t)
  <2>1. Moves(c, t)
    BY <1>1, <1>5, MovesTyped DEF ClearOwnRow
  <2>2. FlagsOK'
    <3>1. members' \in [Controllers -> MemberRow \union {NoMember}]
      BY <1>5, ClearedRow DEF ClearOwnRow, IInv, TypeOK
    <3>. QED
      BY <1>5, <3>1 DEF ClearOwnRow, FlagsOK, IInv, TypeOK
  <2>. QED
    BY <1>5, <2>1, <2>2, MoveStep DEF ClearOwnRow, At
<1>. QED
  BY <1>2, <1>3, <1>4, <1>5, LockAcquiredStep, UnlockStep DEF Continue

\* Operators and shutdown.
LEMMA OperateStep ==
    ASSUME IInv, NEW c \in Controllers, NEW r \in Requests,
           \/ DrainBegin(c, r)
           \/ ResumeBegin(c, r)
           \/ CloseBegin(c, r)
           \/ CloseEnd(c, r)
    PROVE  IInv'
<1>1. r \in Tasks /\ {"drain", "resume", "close"} \subseteq Ops
  BY TaskNames DEF Ops
<1>2. CASE DrainBegin(c, r)
  <2>1. draining' \in [Controllers -> BOOLEAN]
    BY <1>2 DEF DrainBegin, IInv, TypeOK
  <2>. QED
    BY <1>1, <1>2, <2>1, ReleaseStep DEF DrainBegin, At, IInv, TypeOK, LockInv
<1>3. CASE CloseBegin(c, r)
  <2>1. closed' \in [Controllers -> BOOLEAN]
    BY <1>3 DEF CloseBegin, IInv, TypeOK
  <2>. QED
    BY <1>1, <1>3, <2>1, ReleaseStep DEF CloseBegin, At, IInv, TypeOK, LockInv
<1>4. CASE ResumeBegin(c, r)
  <2>1. Moves(c, r)
    BY <1>1, <1>4, MovesTyped DEF ResumeBegin
  <2>2. FlagsOK'
    BY <1>4 DEF ResumeBegin, FlagsOK, IInv, TypeOK
  <2>. QED
    BY <1>1, <1>4, <2>1, <2>2, MoveStep DEF ResumeBegin, At
<1>5. CASE CloseEnd(c, r)
  <2>1. Moves(c, r)
    BY <1>1, <1>5, MovesTyped DEF CloseEnd
  <2>2. FlagsOK'
    BY <1>5 DEF CloseEnd, FlagsOK, IInv, TypeOK
  <2>. QED
    BY <1>1, <1>5, <2>1, <2>2, MoveStep DEF CloseEnd, At
<1>. QED
  BY <1>2, <1>3, <1>4, <1>5

\* A process that starts takes up no lock, and one that stops leaves its lock
\* with a session that has no client.
LEMMA ProcessStep ==
    ASSUME IInv, NEW c \in Controllers, Start(c) \/ Stop(c)
    PROVE  IInv'
<1>1. CASE Start(c)
  <2>1. Moves(c, "heartbeat")
    BY <1>1, TaskNames, MovesTyped DEF Start, Ops
  <2>2. FlagsOK' /\ \A d \in Controllers : up[d] => up'[d]
    BY <1>1 DEF Start, FlagsOK, IInv, TypeOK
  <2>. QED
    BY <1>1, <2>1, <2>2, TaskNames, MoveStep DEF Start, At
<1>2. CASE Stop(c)
  <2>1. task' = [task EXCEPT ![c] = [t \in Tasks |-> IdleTask]]
    BY <1>2 DEF Stop
  <2>2. task' \in [Controllers -> [Tasks -> TaskState]]
    BY <2>1, TaskStates DEF IInv, TypeOK
  <2>3. FlagsOK'
    BY <1>2 DEF Stop, FlagsOK, IInv, TypeOK
  <2>4. /\ leaderClient' \in [Controllers -> ClientStates]
        /\ leaderClient'[c] = "none"
        /\ \A d \in Controllers : d # c => /\ leaderClient'[d] = leaderClient[d]
                                           /\ task'[d] = task[d]
                                           /\ up'[d] = up[d]
    BY <1>2, <2>1 DEF Stop, IInv, TypeOK, ClientStates
  <2>5. lock' \in {lock, OrphanLock} /\ (lock' = lock => lock.by # c \/ lock = OrphanLock)
    BY <1>2 DEF Stop
  <2>6. ASSUME NEW d \in Controllers, NEW u \in Places, HeldAt(d, u)'
        PROVE  HeldAt(d, u) /\ d # c
    <3>1. lock' # OrphanLock
      BY <2>6, TasksAssumption DEF HeldAt, OrphanLock, Places, Tasks
    <3>. QED
      BY <2>5, <2>6, <3>1 DEF HeldAt
  <2>7. ASSUME NEW d \in Controllers, HeldAt(d, "leader"), d # c PROVE HeldAt(d, "leader")'
    BY <1>2, <2>7 DEF Stop, HeldAt
  <2>8. SessionHoldsLock'
    BY <2>4, <2>7 DEF IInv, SessionHoldsLock
  <2>9. LockIsHeldByItsClient'
    <3>1. Stray' => "statement" \in Faults
      BY <2>5, Astray DEF Stray, IInv, LockIsHeldByItsClient
    <3>. QED
      BY <2>4, <2>6, <3>1, TaskNames DEF IInv, LockIsHeldByItsClient, At
  <2>10. TypeOK'
    BY <2>2, <2>3, <2>4, <2>5 DEF IInv, TypeOK, FlagsOK
  <2>. QED
    BY <2>8, <2>9, <2>10 DEF IInv
<1>. QED
  BY <1>1, <1>2

\* Connections break, and each end notices in its own time.
LEMMA ConnectionStep ==
    ASSUME IInv, \/ \E c \in Controllers : Break(c) \/ ClientNotices(c) \/ PoolCloses(c)
                 \/ ServerNotices
    PROVE  IInv'
<1>1. ASSUME NEW c \in Controllers, Break(c) PROVE IInv'
  <2>1. UNCHANGED <<up, draining, closed, leader, members>>
    BY <1>1 DEF Break
  <2>2. CASE leaderClient[c] = "good" /\ leaderClient' = [leaderClient EXCEPT ![c] = "severed"]
             /\ UNCHANGED <<task, lock>>
    BY <2>1, <2>2
    DEF IInv, TypeOK, ClientStates, SessionHoldsLock, LockIsHeldByItsClient, HeldAt, At, Stray
  <2>3. ASSUME NEW t \in Tasks, SetTask(c, t, [task[c][t] EXCEPT !.client = "severed"]),
               UNCHANGED <<leaderClient, lock>>
        PROVE  IInv'
    <3> DEFINE state == [task[c][t] EXCEPT !.client = "severed"]
    <3>1. task[c][t] \in TaskState
      BY DEF IInv, TypeOK
    <3>2. /\ state \in TaskState
          /\ state.client # "none"
          /\ state.pc = task[c][t].pc
      BY <3>1 DEF TaskState, ClientStates
    <3>3. SetTask(c, t, state)
      BY <2>3
    <3> HIDE DEF state
    <3>4. /\ task' \in [Controllers -> [Tasks -> TaskState]]
          /\ task'[c][t] = state
          /\ \A d \in Controllers, u \in Tasks : d # c \/ u # t => task'[d][u] = task[d][u]
      BY <3>2, <3>3, OneTask DEF IInv, TypeOK
    <3>5. TypeOK' /\ SessionHoldsLock'
      BY <2>1, <2>3, <3>4 DEF IInv, TypeOK, SessionHoldsLock, HeldAt
    <3>6. ASSUME NEW d \in Controllers, NEW u \in Tasks, HeldAt(d, u)'
          PROVE  At(d, u, "unlocking")' /\ task'[d][u].client # "none"
      <4>1. At(d, u, "unlocking") /\ task[d][u].client # "none"
        BY <2>3, <3>6 DEF IInv, LockIsHeldByItsClient, HeldAt
      <4>. QED
        BY <2>1, <3>2, <3>4, <4>1 DEF At
    <3>7. ASSUME NEW d \in Controllers, HeldAt(d, "leader")' PROVE leaderClient'[d] # "none"
      BY <2>1, <2>3, <3>7 DEF IInv, LockIsHeldByItsClient, HeldAt
    <3>8. Stray' => "statement" \in Faults
      BY <2>3 DEF Stray, IInv, LockIsHeldByItsClient
    <3>. QED
      BY <3>5, <3>6, <3>7, <3>8 DEF IInv, LockIsHeldByItsClient
  <2>4. CASE HeldAt(c, "pool") /\ lock' = OrphanLock /\ UNCHANGED <<task, leaderClient>>
    <3>1. LockInv'
      BY <2>4, NoSession, NobodyHolds DEF Available
    <3>. QED
      BY <2>1, <2>4, <3>1 DEF IInv, TypeOK, LockInv
  <2>. QED
    BY <1>1, <2>2, <2>3, <2>4 DEF Break
<1>2. ASSUME NEW c \in Controllers, ClientNotices(c) PROVE IInv'
  <2>1. /\ leaderClient' = [leaderClient EXCEPT ![c] = "none"]
        /\ lock' = IF HeldAt(c, "leader") THEN OrphanLock ELSE lock
        /\ leader' = [leader EXCEPT ![c] = FALSE]
        /\ UNCHANGED <<up, draining, closed, task, members>>
    BY <1>2 DEF ClientNotices
  <2>2. TypeOK'
    BY <2>1 DEF IInv, TypeOK, ClientStates
  <2>3. \A d \in Controllers : /\ leaderClient'[d] = IF d = c THEN "none" ELSE leaderClient[d]
    BY <2>1 DEF IInv, TypeOK
  <2>4. SessionHoldsLock'
    <3> SUFFICES ASSUME NEW d \in Controllers, leaderClient'[d] = "good" PROVE HeldAt(d, "leader")'
      BY DEF SessionHoldsLock
    <3>1. d # c /\ HeldAt(d, "leader")
      BY <2>3 DEF IInv, SessionHoldsLock
    <3>2. ~HeldAt(c, "leader")
      BY <3>1, HoldersDiffer, TaskNames
    <3>. QED
      BY <2>1, <3>1, <3>2 DEF HeldAt
  <2>5. ASSUME NEW d \in Controllers, NEW u \in Places, HeldAt(d, u)'
        PROVE  HeldAt(d, u) /\ ~HeldAt(c, "leader")
    <3>1. lock' # OrphanLock
      BY <2>5, TasksAssumption DEF HeldAt, OrphanLock, Places, Tasks
    <3>. QED
      BY <2>1, <2>5, <3>1 DEF HeldAt
  <2>6. LockIsHeldByItsClient'
    <3>1. Stray' => "statement" \in Faults
      BY <2>1, Astray DEF Stray, IInv, LockIsHeldByItsClient
    <3>. QED
      BY <2>1, <2>3, <2>5, <3>1, TaskNames DEF IInv, LockIsHeldByItsClient, At
  <2>. QED
    BY <2>2, <2>4, <2>6 DEF IInv
<1>3. ASSUME NEW c \in Controllers, PoolCloses(c) PROVE IInv'
  <2>1. LockInv'
    BY <1>3, NoSession, NobodyHolds DEF PoolCloses, localVars, Available
  <2>. QED
    BY <1>3, <2>1 DEF PoolCloses, localVars, IInv, TypeOK, LockInv
<1>4. CASE ServerNotices
  <2>1. lock' = FreeLock /\ UNCHANGED <<up, draining, closed, leader, leaderClient, task, members>>
    BY <1>4 DEF ServerNotices, localVars
  <2>2. ASSUME NEW d \in Controllers, leaderClient[d] = "good" PROVE FALSE
    <3>1. HeldAt(d, "leader")
      BY <2>2 DEF IInv, SessionHoldsLock
    <3>2. lock # OrphanLock
      BY <3>1, HoldersDiffer, TaskNames
    <3>3. ASSUME NEW e \in Controllers, HeldAt(e, "leader"), leaderClient[e] = "severed" PROVE FALSE
      BY <2>2, <3>1, <3>3, HoldersDiffer, TaskNames
    <3>4. ASSUME NEW e \in Controllers, NEW t \in Tasks, HeldAt(e, t) PROVE FALSE
      BY <3>1, <3>4, HoldersDiffer, TaskNames
    <3>. QED
      BY <1>4, <3>2, <3>3, <3>4 DEF ServerNotices, Abandoned
  <2>3. LockInv'
    BY <2>1, <2>2, NobodyHolds
  <2>. QED
    BY <2>1, <2>3 DEF IInv, TypeOK, LockInv
<1>. QED
  BY <1>1, <1>2, <1>3, <1>4

-----------------------------------------------------------------------------
(* The theorems.                                                             *)

LEMMA InitOK == Init => IInv
<1> SUFFICES ASSUME Init PROVE IInv
  OBVIOUS
<1>1. TypeOK
  BY TaskStates DEF Init, TypeOK, ClientStates, FreeLock
<1>2. \A c \in Controllers : leaderClient[c] # "good"
  BY DEF Init
<1>3. ~Stray /\ \A c \in Controllers, t \in Places : ~HeldAt(c, t)
  BY Astray, HoldersDiffer DEF Init, Stray
<1>. QED
  BY <1>1, <1>2, <1>3, TaskNames DEF IInv, SessionHoldsLock, LockIsHeldByItsClient

LEMMA NextOK == IInv /\ [Next]_vars => IInv'
<1> SUFFICES ASSUME IInv, [Next]_vars PROVE IInv'
  OBVIOUS
<1>1. ASSUME NEW c \in Controllers, Heartbeat(c) PROVE IInv'
  BY <1>1, TaskNames, HeartbeatStep, FailureStep, ContinueStep DEF Heartbeat
<1>2. ASSUME NEW c \in Controllers, Operate(c) PROVE IInv'
  BY <1>2, OperateStep DEF Operate
<1>3. ASSUME NEW c \in Controllers, Fail(c) PROVE IInv'
  BY <1>3, ProcessStep, ConnectionStep, FailureStep, UnlockStep, UnansweredStep DEF Fail, Crash
<1>4. ASSUME NEW c \in Controllers, NEW r \in Requests, Continue(c, r) \/ CloseEnd(c, r) PROVE IInv'
  BY <1>4, TaskNames, ContinueStep, OperateStep
<1>5. ASSUME NEW c \in Controllers, Start(c) \/ Exit(c) \/ ClientNotices(c) \/ PoolCloses(c) PROVE IInv'
  BY <1>5, ProcessStep, ConnectionStep DEF Exit
<1>6. CASE ServerNotices
  BY <1>6, ConnectionStep
<1>7. CASE UNCHANGED vars
  BY <1>7 DEF vars, localVars, IInv, TypeOK, SessionHoldsLock, LockIsHeldByItsClient, HeldAt, At, Stray
<1>. QED
  BY <1>1, <1>2, <1>3, <1>4, <1>5, <1>6, <1>7 DEF Next

\* The invariant that the others follow from, in every reachable state.
THEOREM LeadershipInductive == Spec => []IInv
BY InitOK, NextOK, PTL DEF Spec

\* Every variable always holds a value of its kind.
THEOREM LeadershipTyped == Spec => []TypeOK
<1>1. IInv => TypeOK
  BY DEF IInv
<1>. QED
  BY <1>1, LeadershipInductive, PTL

\* A replica whose leader connection works holds the lock with it.
THEOREM WorkingSessionHoldsLock == Spec => []SessionHoldsLock
<1>1. IInv => SessionHoldsLock
  BY DEF IInv
<1>. QED
  BY <1>1, LeadershipInductive, PTL

\* A replica that runs answers for its lock, unless an unlock may have failed.
THEOREM LocksAreAnsweredFor == Spec => []LockIsHeldByItsClient
<1>1. IInv => LockIsHeldByItsClient
  BY DEF IInv
<1>. QED
  BY <1>1, LeadershipInductive, PTL

\* Two replicas whose leader connections work are one replica, so two that lead
\* at once differ in that one of them has lost its connection.
AtMostOneSession ==
    \A c, d \in Controllers : leaderClient[c] = "good" /\ leaderClient[d] = "good" => c = d

\* So at any time at most one replica has a leader connection that works.
THEOREM OneWorkingSession == Spec => []AtMostOneSession
<1>1. IInv => AtMostOneSession
  BY HoldersDiffer, TaskNames DEF IInv, SessionHoldsLock, AtMostOneSession
<1>. QED
  BY <1>1, LeadershipInductive, PTL
=============================================================================
