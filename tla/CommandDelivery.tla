--------------------------- MODULE CommandDelivery ---------------------------
(* Delivery of signed commands to one projection sensor                      *)
(* (server/command-queue.js, server/sensor-api.js, server/store.js and the   *)
(* sensor's poll loop), in the configuration in which it is concurrent:      *)
(* several controller replicas over one PostgreSQL store.                    *)
(*                                                                           *)
(* A step is what happens between two awaits.  A request handler or a        *)
(* recovery sweep that has read a row keeps that copy, and what it writes    *)
(* later is decided by the copy.  PostgreSQL gives each statement atomicity, *)
(* and the claim transaction holds row locks between SELECT and COMMIT.      *)
(*                                                                           *)
(* Abstracted: command type and payload, signatures, error texts, the order  *)
(* of commands inside a poll and inside a sweep (any order here), and the    *)
(* Redis index, which the durable rows never depend on.                      *)
EXTENDS Integers, FiniteSets

CONSTANTS
    Commands,       \* identifiers the store may come to hold
    Handlers,       \* requests that can be in progress at once, on any replica
    Schedulers,     \* replicas whose recovery sweep may run
    NoCommand,      \* "no such command": an empty reference
    NoHandler,      \* the sensor has no poll outstanding
    MaxAttempts,    \* maxAttempts of every command, 1 to 10
    Ttl,            \* life of a command, five minutes in the code
    BaseDelay,      \* first retry delay
    DelayCap,       \* ceiling of the retry delay
    MaxIssued,      \* bound of the commands operators create, reissues aside
    MaxTime         \* bound of the clock

ASSUME NamesAssumption ==
    /\ NoCommand \notin Commands
    /\ NoHandler \notin Handlers

ASSUME BoundsAssumption ==
    /\ MaxAttempts \in 1..10
    /\ Ttl \in Nat \ {0}
    /\ BaseDelay \in Nat \ {0}
    /\ DelayCap \in Nat \ {0}
    /\ MaxIssued \in Nat
    /\ MaxTime \in Nat

VARIABLES
    now,          \* the clock the replicas and the sensor share
    rows,         \* control_plane_records of type sensorCommands
    handler,      \* request handlers in progress
    scheduler,    \* CommandScheduler of each replica
    poll,         \* the handler whose response the sensor is waiting for
    batch,        \* commands the sensor received and has not run yet
    acks,         \* acknowledgements the sensor sent, not yet read
    completed,    \* commands the sensor carried out successfully
    reissueOf     \* history: the command that each one was created to replace

vars == <<now, rows, handler, scheduler, poll, batch, acks, completed, reissueOf>>

storeVars  == <<rows, reissueOf>>
sensorVars == <<poll, batch, acks, completed>>

-----------------------------------------------------------------------------
(* The rows of the store.                                                    *)

DeliverableStatuses == {"queued", "retrying"}

\* Mutant: a late report applies to a dead letter.
AckableStatuses_DeadLetter == {"dispatched", "retrying", "dead_lettered"}

\* Statuses in which an acknowledgement or a failure report still applies.
AckableStatuses == {"dispatched", "retrying"}

\* Mutant: the sweep forgets the commands that were never delivered.
ExpirableStatuses_NotQueued == {"retrying", "dispatched"}

\* Statuses that the sweep moves to the dead-letter queue on expiry.
ExpirableStatuses == {"queued", "retrying", "dispatched"}

\* The dead-letter queue, and where an operator takes a command from it.
Resolvable == {"dead_lettered", "retried", "dismissed"}

Settled == {"acknowledged"} \union Resolvable

Statuses == {"absent"} \union ExpirableStatuses \union Settled

Reasons == {"none", "attempt_limit", "expired"}

Row == [status: Statuses, attempts: Nat, nextAttemptAt: Nat, expiresAt: Nat,
        deadLetterReason: Reasons, retriedAs: Commands \union {NoCommand}]

NoRow == [status |-> "absent", attempts |-> 0, nextAttemptAt |-> 0, expiresAt |-> 0,
          deadLetterReason |-> "none", retriedAs |-> NoCommand]

NewRow(t) == [NoRow EXCEPT !.status = "queued", !.nextAttemptAt = t, !.expiresAt = t + Ttl]

RetryDelay(attempts) ==
    LET doubled == BaseDelay * 2^(attempts - 1)
    IN  IF doubled \in 0..DelayCap THEN doubled ELSE DelayCap

IsDeliverable(row, t) ==
    /\ row.status \in DeliverableStatuses
    /\ row.expiresAt > t
    /\ row.nextAttemptAt <= t

DispatchedRow(row, t) ==
    [row EXCEPT !.status = "dispatched", !.attempts = @ + 1,
                !.nextAttemptAt = t + RetryDelay(row.attempts + 1)]

\* Mutant: the reason is stored as the status.
DeadLetteredRow_AsStatus(row, reason) == [row EXCEPT !.status = reason]

DeadLetteredRow(row, reason) ==
    [row EXCEPT !.status = "dead_lettered", !.deadLetterReason = reason]

AcknowledgedRow(row) == [row EXCEPT !.status = "acknowledged"]

RetriedRow(row, successor) == [row EXCEPT !.status = "retried", !.retriedAs = successor]

DismissedRow(row) == [row EXCEPT !.status = "dismissed"]

\* Mutant: the attempt under way is counted twice.
FailedRow_OneTooFew(row, snap, t) ==
    IF snap.attempts + 1 >= MaxAttempts \/ snap.expiresAt <= t
    THEN DeadLetteredRow(row, IF snap.attempts + 1 >= MaxAttempts THEN "attempt_limit" ELSE "expired")
    ELSE [row EXCEPT !.status = "retrying", !.nextAttemptAt = snap.nextAttemptAt]

\* SensorCommandQueue.fail: snap is the copy the caller read earlier, t the time
\* of the decision, and row the stored row that the changes are merged into.
FailedRow(row, snap, t) ==
    IF snap.attempts >= MaxAttempts \/ snap.expiresAt <= t
    THEN DeadLetteredRow(row, IF snap.attempts >= MaxAttempts THEN "attempt_limit" ELSE "expired")
    ELSE [row EXCEPT !.status = "retrying", !.nextAttemptAt = snap.nextAttemptAt]

-----------------------------------------------------------------------------
(* Request handlers and sweeps in progress.                                  *)

HandlerPcs == {"idle", "claiming", "claimed", "ack_success", "ack_failure",
               "retry_create", "retry_update", "dismiss_update"}

\* at: when the handler captured the time; cmd, snap: the row it read;
\* successor: what a retry created; locked: rows its transaction holds;
\* due: those of them that its poll dispatches.
HandlerState ==
    [pc: HandlerPcs, at: Nat, cmd: Commands \union {NoCommand}, snap: Row,
     successor: Commands \union {NoCommand}, locked: SUBSET Commands,
     due: SUBSET Commands]

IdleHandler == [pc |-> "idle", at |-> 0, cmd |-> NoCommand, snap |-> NoRow,
                successor |-> NoCommand, locked |-> {}, due |-> {}]

SchedulerState ==
    [pc: {"idle", "reading", "sweeping"}, at: Nat, readAt: Nat,
     todo: SUBSET Commands, snap: [Commands -> Row]]

IdleScheduler == [pc |-> "idle", at |-> 0, readAt |-> 0, todo |-> {},
                  snap |-> [c \in Commands |-> NoRow]]

Idle(h) == handler[h].pc = "idle"

Become(h, changes) == handler' = [handler EXCEPT ![h] = changes]

Return(h) == Become(h, IdleHandler)

\* A claim transaction holds the row.
Locked(c) == \E h \in Handlers : c \in handler[h].locked

\* An UPDATE of one row waits for the transaction that holds it.
CanWrite(c) == ~Locked(c)

\* UPDATE ... WHERE status = ANY(expected): the changes apply to the stored row
\* or to nothing.
UpdateIfStatus(c, expected, row) ==
    /\ CanWrite(c)
    /\ rows' = IF rows[c].status \in expected THEN [rows EXCEPT ![c] = row] ELSE rows

\* UPDATE ... WHERE record_id = c: nothing is written for a row that is gone.
Update(c, row) ==
    /\ CanWrite(c)
    /\ rows' = IF rows[c].status = "absent" THEN rows ELSE [rows EXCEPT ![c] = row]

-----------------------------------------------------------------------------
Init ==
    /\ now = 0
    /\ rows = [c \in Commands |-> NoRow]
    /\ handler = [h \in Handlers |-> IdleHandler]
    /\ scheduler = [s \in Schedulers |-> IdleScheduler]
    /\ poll = NoHandler
    /\ batch = {}
    /\ acks = {}
    /\ completed = {}
    /\ reissueOf = [c \in Commands |-> NoCommand]

Tick ==
    /\ now < MaxTime
    /\ now' = now + 1
    /\ UNCHANGED <<storeVars, handler, scheduler, sensorVars>>

\* Bound: only commands that expire before the clock stops are created.
Fresh(c) == rows[c].status = "absent" /\ now + Ttl <= MaxTime

Originals == {c \in Commands : rows[c].status # "absent" /\ reissueOf[c] = NoCommand}

\* createSensorCommand for an operator's request.
Issue(c) ==
    /\ Fresh(c)
    /\ Cardinality(Originals) < MaxIssued
    /\ rows' = [rows EXCEPT ![c] = NewRow(now)]
    /\ UNCHANGED <<now, handler, scheduler, sensorVars, reissueOf>>

-----------------------------------------------------------------------------
(* A poll of the sensor: SensorCommandQueue.dispatch and the store's claim.  *)

\* The sensor polls when it has run its last batch.  An earlier poll it gave
\* up on after its timeout may still be in progress on some replica.
ClaimBegin(h) ==
    /\ Idle(h)
    /\ batch = {}
    /\ Become(h, [IdleHandler EXCEPT !.pc = "claiming", !.at = now])
    /\ poll' = h
    /\ UNCHANGED <<now, storeVars, scheduler, batch, acks, completed>>

\* Mutant: SELECT ... FOR UPDATE is left out.
LockableRows_Shared == {c \in Commands : rows[c].status \in DeliverableStatuses}

\* SELECT ... FOR UPDATE SKIP LOCKED.
LockableRows == {c \in Commands : rows[c].status \in DeliverableStatuses /\ ~Locked(c)}

\* The predicate, applied to what the SELECT read: due at the time captured.
Claimable(h) == {c \in LockableRows : IsDeliverable(rows[c], handler[h].at)}

ClaimLock(h) ==
    /\ handler[h].pc = "claiming"
    /\ Become(h, [handler[h] EXCEPT !.pc = "claimed", !.locked = LockableRows,
                                    !.due = Claimable(h)])
    /\ UNCHANGED <<now, storeVars, scheduler, sensorVars>>

\* COMMIT and the response, which reaches the sensor only if it still waits
\* for this poll.
ClaimCommit(h) ==
    /\ handler[h].pc = "claimed"
    /\ rows' = [c \in Commands |->
                   IF c \in handler[h].due THEN DispatchedRow(rows[c], handler[h].at) ELSE rows[c]]
    /\ Return(h)
    /\ \/ poll = h /\ poll' = NoHandler /\ batch' = handler[h].due
       \/ UNCHANGED <<poll, batch>>
    /\ UNCHANGED <<now, reissueOf, scheduler, acks, completed>>

-----------------------------------------------------------------------------
(* The sensor and its acknowledgements.                                      *)

\* Run one command of the batch and send its acknowledgement once.  A command
\* past its expiry is refused and reported as failed, as is one whose work
\* fails.
RunUntil(c, expiresAt) ==
    /\ c \in batch
    /\ batch' = batch \ {c}
    /\ \/ /\ now <= expiresAt
          /\ completed' = completed \union {c}
          /\ acks' = acks \union {[cmd |-> c, outcome |-> "success"]}
       \/ /\ acks' = acks \union {[cmd |-> c, outcome |-> "failure"]}
          /\ UNCHANGED completed
    /\ UNCHANGED <<now, storeVars, handler, scheduler, poll>>

\* The copy that the sensor received has the expiry of the row.
Run(c) == RunUntil(c, rows[c].expiresAt)

\* The sensor process stops and starts again, with nothing but its identity.
SensorRestart ==
    /\ batch # {} \/ poll # NoHandler
    /\ batch' = {}
    /\ poll' = NoHandler
    /\ UNCHANGED <<now, storeVars, handler, scheduler, acks, completed>>

\* Mutant: the route takes every report for a success.
AckRead_OutcomeIgnored(h) ==
    /\ Idle(h)
    /\ \E m \in acks :
          /\ acks' = acks \ {m}
          /\ Become(h, [IdleHandler EXCEPT !.pc = "ack_success", !.at = now,
                                           !.cmd = m.cmd, !.snap = rows[m.cmd]])
    /\ UNCHANGED <<now, storeVars, scheduler, poll, batch, completed>>

\* The acknowledgement route reads the command.  An acknowledgement that is
\* never read was lost, or refused by a draining or restoring controller.
AckRead(h) ==
    /\ Idle(h)
    /\ \E m \in acks :
          /\ acks' = acks \ {m}
          /\ Become(h, [IdleHandler EXCEPT !.pc = IF m.outcome = "success" THEN "ack_success"
                                                                           ELSE "ack_failure",
                                           !.at = now, !.cmd = m.cmd, !.snap = rows[m.cmd]])
    /\ UNCHANGED <<now, storeVars, scheduler, poll, batch, completed>>

\* A success is compare-and-set; when it does not apply the answer is 409.
AckSuccess(h) ==
    /\ handler[h].pc = "ack_success"
    /\ LET c == handler[h].cmd
       IN  UpdateIfStatus(c, AckableStatuses, AcknowledgedRow(rows[c]))
    /\ Return(h)
    /\ UNCHANGED <<now, reissueOf, scheduler, sensorVars>>

\* A failure goes through SensorCommandQueue.fail, with the copy read before;
\* fail takes the time of its decision between that read and this write.
AckFailure(h) ==
    /\ handler[h].pc = "ack_failure"
    /\ LET c == handler[h].cmd
       IN  \E t \in handler[h].at..now :
              UpdateIfStatus(c, AckableStatuses, FailedRow(rows[c], handler[h].snap, t))
    /\ Return(h)
    /\ UNCHANGED <<now, reissueOf, scheduler, sensorVars>>

-----------------------------------------------------------------------------
(* The operator's routes on the dead-letter queue.                           *)

\* Mutant: the status of the command is not tested.
ReadDeadLetter_AnyStatus(h, c, pc) ==
    /\ Idle(h)
    /\ rows[c].status # "absent"
    /\ Become(h, [IdleHandler EXCEPT !.pc = pc, !.cmd = c])
    /\ UNCHANGED <<now, storeVars, scheduler, sensorVars>>

\* Both routes read the row and answer 409 unless it is dead-lettered.
ReadDeadLetter(h, c, pc) ==
    /\ Idle(h)
    /\ rows[c].status = "dead_lettered"
    /\ Become(h, [IdleHandler EXCEPT !.pc = pc, !.cmd = c])
    /\ UNCHANGED <<now, storeVars, scheduler, sensorVars>>

\* Mutant: the original is marked before its reissue exists.
RetryRead_UpdateFirst(h, c) == ReadDeadLetter(h, c, "retry_update")

RetryRead(h, c) == ReadDeadLetter(h, c, "retry_create")

DismissRead(h, c) == ReadDeadLetter(h, c, "dismiss_update")

\* The reissue is a new command with the same type, payload and limits.
RetryCreate(h) ==
    /\ handler[h].pc = "retry_create"
    /\ \E d \in Commands :
          /\ Fresh(d)
          /\ rows' = [rows EXCEPT ![d] = NewRow(now)]
          /\ reissueOf' = [reissueOf EXCEPT ![d] = handler[h].cmd]
          /\ Become(h, [handler[h] EXCEPT !.pc = "retry_update", !.successor = d])
    /\ UNCHANGED <<now, scheduler, sensorVars>>

\* Marking the original is a plain update, without a second look at its status.
RetryUpdate(h) ==
    /\ handler[h].pc = "retry_update"
    /\ LET c == handler[h].cmd
       IN  Update(c, RetriedRow(rows[c], handler[h].successor))
    /\ Return(h)
    /\ UNCHANGED <<now, reissueOf, scheduler, sensorVars>>

DismissUpdate(h) ==
    /\ handler[h].pc = "dismiss_update"
    /\ LET c == handler[h].cmd
       IN  Update(c, DismissedRow(rows[c]))
    /\ Return(h)
    /\ UNCHANGED <<now, reissueOf, scheduler, sensorVars>>

\* The replica dies, or its database session fails, between two steps of a
\* handler: an open transaction rolls back, finished statements stay.
HandlerCrash(h) ==
    /\ ~Idle(h)
    /\ Return(h)
    /\ poll' = IF poll = h THEN NoHandler ELSE poll
    /\ UNCHANGED <<now, storeVars, scheduler, batch, acks, completed>>

-----------------------------------------------------------------------------
(* The recovery sweep, CommandScheduler.runOnce.                             *)

SweepBegin(s) ==
    /\ scheduler[s].pc = "idle"
    /\ scheduler' = [scheduler EXCEPT ![s] = [@ EXCEPT !.pc = "reading", !.at = now]]
    /\ UNCHANGED <<now, storeVars, handler, sensorVars>>

\* Commands that a sweep acts on, by the copy it read: past their expiry, or
\* dispatched and past their delivery timeout.
ExpiredIn(row, t) == row.status \in ExpirableStatuses /\ row.expiresAt <= t

TimedOutIn(row, t) == row.status = "dispatched" /\ row.nextAttemptAt <= t

Sweepable(row, t) == ExpiredIn(row, t) \/ TimedOutIn(row, t)

\* One read of the whole collection serves the sweep to its end.
SweepRead(s) ==
    /\ scheduler[s].pc = "reading"
    /\ LET due == {c \in Commands : Sweepable(rows[c], scheduler[s].at)}
       IN  scheduler' = [scheduler EXCEPT ![s] =
               IF due = {} THEN IdleScheduler
               ELSE [@ EXCEPT !.pc = "sweeping", !.readAt = now, !.todo = due,
                              !.snap = [c \in Commands |-> IF c \in due THEN rows[c] ELSE NoRow]]]
    /\ UNCHANGED <<now, storeVars, handler, sensorVars>>

\* Mutant: expiry is written whatever has become of the command since the read.
SweepWrite_NotConditional(s, c) ==
    LET snap == scheduler[s].snap[c]
    IN  IF ExpiredIn(snap, scheduler[s].at)
        THEN Update(c, DeadLetteredRow(rows[c], "expired"))
        ELSE \E t \in scheduler[s].readAt..now :
                UpdateIfStatus(c, AckableStatuses, FailedRow(rows[c], snap, t))

\* The write for one command: expiry decided at the start of the sweep, a
\* failed attempt decided by fail at some moment since the read.
SweepWrite(s, c) ==
    LET snap == scheduler[s].snap[c]
    IN  IF ExpiredIn(snap, scheduler[s].at)
        THEN UpdateIfStatus(c, ExpirableStatuses, DeadLetteredRow(rows[c], "expired"))
        ELSE \E t \in scheduler[s].readAt..now :
                UpdateIfStatus(c, AckableStatuses, FailedRow(rows[c], snap, t))

\* The loop goes on with the other commands, or the sweep is over.
SweepRest(me, c) == [me EXCEPT !.todo = @ \ {c}, !.snap = [@ EXCEPT ![c] = NoRow]]

SweepCommand(s, c) ==
    /\ scheduler[s].pc = "sweeping"
    /\ c \in scheduler[s].todo
    /\ SweepWrite(s, c)
    /\ scheduler' = [scheduler EXCEPT ![s] =
           IF scheduler[s].todo = {c} THEN IdleScheduler ELSE SweepRest(scheduler[s], c)]
    /\ UNCHANGED <<now, reissueOf, handler, sensorVars>>

\* A statement of the sweep fails, or its replica dies: the rest is dropped.
SweepAbort(s) ==
    /\ scheduler[s].pc # "idle"
    /\ scheduler' = [scheduler EXCEPT ![s] = IdleScheduler]
    /\ UNCHANGED <<now, storeVars, handler, sensorVars>>

-----------------------------------------------------------------------------
HandlerNext(h) ==
    \/ ClaimBegin(h) \/ ClaimLock(h) \/ ClaimCommit(h)
    \/ AckRead(h) \/ AckSuccess(h) \/ AckFailure(h)
    \/ \E c \in Commands : RetryRead(h, c) \/ DismissRead(h, c)
    \/ RetryCreate(h) \/ RetryUpdate(h) \/ DismissUpdate(h)
    \/ HandlerCrash(h)

SchedulerNext(s) ==
    \/ SweepBegin(s) \/ SweepRead(s) \/ SweepAbort(s)
    \/ \E c \in Commands : SweepCommand(s, c)

Next ==
    \/ Tick
    \/ \E c \in Commands : Issue(c) \/ Run(c)
    \/ SensorRestart
    \/ \E h \in Handlers : HandlerNext(h)
    \/ \E s \in Schedulers : SchedulerNext(s)

\* Time passes, a request in progress ends, one way or the other, every sweep
\* timer fires, and a blocked UPDATE is granted the row in the end.  Sweeps may
\* fail any number of times, but not for ever; an abort that leaves nothing
\* undone is the same step as the end of a sweep, and may recur.  Nothing is
\* assumed of operators, of the sensor or of the network.
Fairness ==
    /\ WF_vars(Tick)
    /\ \A h \in Handlers : WF_vars(ClaimCommit(h) \/ HandlerCrash(h))
    /\ \A s \in Schedulers :
          /\ WF_vars(SweepBegin(s))
          /\ WF_vars(SweepRead(s))
          /\ \A c \in Commands : SF_vars(SweepCommand(s, c))
          /\ <>[][SweepAbort(s) => SweepRead(s) \/ \E c \in Commands : SweepCommand(s, c)]_vars

Spec == Init /\ [][Next]_vars

FairSpec == Spec /\ Fairness

-----------------------------------------------------------------------------
(* Properties.                                                               *)

\* Every variable holds a value of its kind.
TypeOK ==
    /\ now \in 0..MaxTime
    /\ rows \in [Commands -> Row]
    /\ handler \in [Handlers -> HandlerState]
    /\ scheduler \in [Schedulers -> SchedulerState]
    /\ poll \in Handlers \union {NoHandler}
    /\ batch \subseteq Commands
    /\ acks \subseteq [cmd: Commands, outcome: {"success", "failure"}]
    /\ completed \subseteq Commands
    /\ reissueOf \in [Commands -> Commands \union {NoCommand}]

\* A settled command never comes back: no late failure report, sweep or claim of
\* any replica makes it deliverable again, and an acknowledgement is final
\* ("cannot ... resurrect an acknowledged command", README.md:133).
NeverResurrected ==
    [][\A c \in Commands : rows[c].status \in Settled =>
          /\ rows'[c].status \in Settled
          /\ rows[c].status = "acknowledged" => rows'[c] = rows[c]]_vars

\* Two replicas never hand out the same delivery: an attempt is counted only for
\* a command that was waiting for one, and each counts once.
ClaimedOnce ==
    [][\A c \in Commands : rows'[c].attempts # rows[c].attempts =>
          /\ rows[c].status \in DeliverableStatuses
          /\ rows'[c].status = "dispatched"
          /\ rows'[c].attempts = rows[c].attempts + 1]_vars

\* A dead letter has its reason: the attempts were used up, or the time was,
\* although fail judges by the copy its caller read earlier.
DeadLetterJustified ==
    \A c \in Commands :
        /\ rows[c].deadLetterReason = "attempt_limit" => rows[c].attempts >= MaxAttempts
        /\ rows[c].deadLetterReason = "expired" => rows[c].expiresAt <= now

\* An acknowledged command was carried out by the sensor, although failure
\* reports and redeliveries of the same command are under way concurrently.
AcknowledgedWasCompleted ==
    \A c \in Commands : rows[c].status = "acknowledged" => c \in completed

\* A command and its reissue are never both alive: the original of a reissue
\* stays out of delivery whatever else is in progress on it.
ReissuedIsOutOfDelivery ==
    \A c, d \in Commands : reissueOf[d] = c => rows[c].status \in Resolvable

\* A command marked as retried names a command that exists and was created to
\* replace it, through crashes between the two writes and concurrent retries.
RetriedHasSuccessor ==
    \A c \in Commands : rows[c].status = "retried" =>
        /\ rows[c].retriedAs \in Commands
        /\ rows[rows[c].retriedAs].status # "absent"
        /\ reissueOf[rows[c].retriedAs] = c

\* The attempt limit: no command is handed out more often than its limit
\* ("commands that exhaust their attempt limit move to the dead-letter queue").
AttemptsWithinLimit == \A c \in Commands : rows[c].attempts <= MaxAttempts

\* Every issued command comes to rest, acknowledged or dead-lettered, whatever
\* polls, acknowledgements or replicas are lost.
EveryCommandSettles ==
    \A c \in Commands : (rows[c].status # "absent") ~> (rows[c].status \in Settled)

-----------------------------------------------------------------------------
(* The inductive invariant: what the copies and references that are in use   *)
(* still say of the rows, however old they are.                              *)

Begun(c) == rows[c].status # "absent"

\* A copy read earlier: the row has since gained attempts at most.
CopyOf(snap, c) ==
    /\ Begun(c)
    /\ snap.attempts <= rows[c].attempts
    /\ snap.expiresAt = rows[c].expiresAt

LocksOK ==
    /\ \A h \in Handlers : \A c \in handler[h].locked : rows[c].status \in DeliverableStatuses
    /\ \A g, h \in Handlers : g # h => handler[g].locked \intersect handler[h].locked = {}

\* What each handler may rely on at its next step.
HandlerOK(h) ==
    LET me == handler[h]
    IN  /\ me.at <= now
        /\ me.pc # "claimed" => me.locked = {}
        /\ me.due \subseteq me.locked
        /\ me.pc = "ack_success" => me.cmd \in completed /\ Begun(me.cmd)
        /\ me.pc = "ack_failure" => me.cmd \in Commands /\ CopyOf(me.snap, me.cmd)
        /\ me.pc \in {"retry_create", "retry_update", "dismiss_update"} =>
              me.cmd \in Commands /\ rows[me.cmd].status \in Resolvable
        /\ me.pc = "retry_update" =>
              me.successor \in Commands /\ Begun(me.successor) /\ reissueOf[me.successor] = me.cmd

SweepOK(s) ==
    /\ scheduler[s].at <= now
    /\ scheduler[s].readAt <= now
    /\ \A c \in scheduler[s].todo : CopyOf(scheduler[s].snap[c], c)

SensorOK ==
    /\ \A c \in batch : Begun(c)
    /\ \A m \in acks : Begun(m.cmd) /\ (m.outcome = "success" => m.cmd \in completed)

RowsOK ==
    /\ DeadLetterJustified
    /\ AcknowledgedWasCompleted
    /\ ReissuedIsOutOfDelivery
    /\ RetriedHasSuccessor
    /\ \A c \in Commands : ~Begun(c) => rows[c] = NoRow /\ reissueOf[c] = NoCommand

IInv ==
    /\ TypeOK
    /\ LocksOK
    /\ \A h \in Handlers : HandlerOK(h)
    /\ \A s \in Schedulers : SweepOK(s)
    /\ SensorOK
    /\ RowsOK

-----------------------------------------------------------------------------
\* The promise, with the columns of the rows that it is about.
Lifecycle == INSTANCE CommandLifecycle WITH
    status   <- [c \in Commands |-> rows[c].status],
    attempts <- [c \in Commands |-> rows[c].attempts]

\* The delivery of commands implements the lifecycle, fairness included.
ImplementsLifecycle == Lifecycle!Spec
=============================================================================
