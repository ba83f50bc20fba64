------------------------ MODULE CommandDeliveryProofs ------------------------
(* Theorems about CommandDelivery, for every number of commands, requests in *)
(* progress and sweeping replicas, and every limit and delay.                *)
EXTENDS CommandDelivery, TLAPS

USE NamesAssumption, BoundsAssumption DEF NamesAssumption, BoundsAssumption

-----------------------------------------------------------------------------
(* What the row operators return.                                            *)

\* The retry delay is a number of ticks, whatever the attempt.
LEMMA RetryDelayType == ASSUME NEW attempts PROVE RetryDelay(attempts) \in Nat
<1>1. CASE BaseDelay * 2^(attempts - 1) \in 0..DelayCap
  <2>1. 0..DelayCap \subseteq Nat
    OBVIOUS
  <2> QED BY <1>1, <2>1, Zenon DEF RetryDelay
<1>2. CASE BaseDelay * 2^(attempts - 1) \notin 0..DelayCap
  BY <1>2, Zenon DEF RetryDelay
<1> QED BY <1>1, <1>2

LEMMA NoRowType == NoRow \in Row /\ NoRow.status = "absent" /\ NoRow.attempts = 0
BY DEF NoRow, Row, Statuses, Reasons

\* A new command is queued, with no attempt counted.
LEMMA NewRowType ==
    ASSUME NEW t \in Nat
    PROVE  /\ NewRow(t) \in Row
           /\ NewRow(t).status = "queued"
           /\ NewRow(t).attempts = 0
           /\ NewRow(t).deadLetterReason = "none"
<1>1. t + Ttl \in Nat
  OBVIOUS
<1>2. PICK row \in Row : row = NoRow
  BY NoRowType
<1>3. NewRow(t) = [row EXCEPT !.status = "queued", !.nextAttemptAt = t, !.expiresAt = t + Ttl]
  BY <1>2 DEF NewRow
<1>4. row.attempts = 0 /\ row.deadLetterReason = "none"
  BY <1>2 DEF NoRow
<1> QED BY <1>1, <1>3, <1>4 DEF Row, Statuses, ExpirableStatuses

\* A claim counts one attempt and changes neither expiry nor reason.
LEMMA DispatchedRowType ==
    ASSUME NEW row \in Row, NEW t \in Nat
    PROVE  /\ DispatchedRow(row, t) \in Row
           /\ DispatchedRow(row, t).status = "dispatched"
           /\ DispatchedRow(row, t).attempts = row.attempts + 1
           /\ DispatchedRow(row, t).expiresAt = row.expiresAt
           /\ DispatchedRow(row, t).deadLetterReason = row.deadLetterReason
<1>1. RetryDelay(row.attempts + 1) \in Nat
  BY RetryDelayType
<1> DEFINE next == t + RetryDelay(row.attempts + 1)
<1>2. next \in Nat /\ row.attempts + 1 \in Nat
  BY <1>1 DEF Row
<1>3. DispatchedRow(row, t) = [row EXCEPT !.status = "dispatched",
                                         !.attempts = row.attempts + 1,
                                         !.nextAttemptAt = next]
  BY DEF DispatchedRow, Row
<1> HIDE DEF next
<1> QED BY <1>2, <1>3 DEF Row, Statuses, ExpirableStatuses

LEMMA DeadLetteredRowType ==
    ASSUME NEW row \in Row, NEW reason \in Reasons
    PROVE  /\ DeadLetteredRow(row, reason) \in Row
           /\ DeadLetteredRow(row, reason).status = "dead_lettered"
           /\ DeadLetteredRow(row, reason).attempts = row.attempts
           /\ DeadLetteredRow(row, reason).expiresAt = row.expiresAt
           /\ DeadLetteredRow(row, reason).deadLetterReason = reason
BY DEF DeadLetteredRow, Row, Statuses, Settled, Resolvable

LEMMA AcknowledgedRowType ==
    ASSUME NEW row \in Row
    PROVE  /\ AcknowledgedRow(row) \in Row
           /\ AcknowledgedRow(row).status = "acknowledged"
           /\ AcknowledgedRow(row).attempts = row.attempts
           /\ AcknowledgedRow(row).expiresAt = row.expiresAt
           /\ AcknowledgedRow(row).deadLetterReason = row.deadLetterReason
BY DEF AcknowledgedRow, Row, Statuses, Settled, Resolvable

LEMMA RetriedRowType ==
    ASSUME NEW row \in Row, NEW d \in Commands \union {NoCommand}
    PROVE  /\ RetriedRow(row, d) \in Row
           /\ RetriedRow(row, d).status = "retried"
           /\ RetriedRow(row, d).attempts = row.attempts
           /\ RetriedRow(row, d).expiresAt = row.expiresAt
           /\ RetriedRow(row, d).deadLetterReason = row.deadLetterReason
BY DEF RetriedRow, Row, Statuses, Settled, Resolvable

LEMMA DismissedRowType ==
    ASSUME NEW row \in Row
    PROVE  /\ DismissedRow(row) \in Row
           /\ DismissedRow(row).status = "dismissed"
           /\ DismissedRow(row).attempts = row.attempts
           /\ DismissedRow(row).expiresAt = row.expiresAt
           /\ DismissedRow(row).deadLetterReason = row.deadLetterReason
BY DEF DismissedRow, Row, Statuses, Settled, Resolvable

\* A failure report either dead-letters the row, for a reason its caller's copy
\* gives, or schedules a retry.
LEMMA FailedRowType ==
    ASSUME NEW row \in Row, NEW snap \in Row, NEW t \in Nat
    PROVE  /\ FailedRow(row, snap, t) \in Row
           /\ FailedRow(row, snap, t).attempts = row.attempts
           /\ FailedRow(row, snap, t).expiresAt = row.expiresAt
           /\ \/ /\ FailedRow(row, snap, t).status = "dead_lettered"
                 /\ \/ /\ FailedRow(row, snap, t).deadLetterReason = "attempt_limit"
                       /\ snap.attempts >= MaxAttempts
                    \/ /\ FailedRow(row, snap, t).deadLetterReason = "expired"
                       /\ snap.expiresAt <= t
              \/ /\ FailedRow(row, snap, t).status = "retrying"
                 /\ FailedRow(row, snap, t).deadLetterReason = row.deadLetterReason
BY DeadLetteredRowType
   DEF FailedRow, DeadLetteredRow, Row, Statuses, Settled, Resolvable, ExpirableStatuses, Reasons

-----------------------------------------------------------------------------
(* How a step may change a row, and what that leaves true of copies of it.   *)

\* What every step of the system does to the row of c.
RowAdvances(c) ==
    /\ rows'[c] \in Row
    /\ \/ rows'[c].attempts = rows[c].attempts
       \/ /\ rows[c].status \in DeliverableStatuses
          /\ rows'[c].status = "dispatched"
          /\ rows'[c].attempts = rows[c].attempts + 1
    /\ Begun(c) => /\ rows'[c].expiresAt = rows[c].expiresAt
                   /\ rows'[c].status # "absent"
                   /\ reissueOf'[c] = reissueOf[c]
    /\ rows[c].status \in Resolvable => rows'[c].status \in Resolvable
    /\ rows[c].status = "acknowledged" => rows'[c] = rows[c]

\* Every row advances, the clock does not go back, and completed work stays.
StoreAdvances ==
    /\ \A c \in Commands : RowAdvances(c)
    /\ rows' \in [Commands -> Row]
    /\ reissueOf' \in [Commands -> Commands \union {NoCommand}]
    /\ now' \in 0..MaxTime
    /\ now <= now'
    /\ completed' \subseteq Commands
    /\ completed \subseteq completed'

LEMMA UnchangedRowAdvances ==
    ASSUME IInv, NEW c \in Commands, rows'[c] = rows[c], reissueOf'[c] = reissueOf[c]
    PROVE  RowAdvances(c)
BY DEF RowAdvances, IInv, TypeOK, Row, Begun

LEMMA UnchangedStoreAdvances ==
    ASSUME IInv, UNCHANGED storeVars, now' \in 0..MaxTime, now <= now',
           completed' \subseteq Commands, completed \subseteq completed'
    PROVE  StoreAdvances
BY UnchangedRowAdvances DEF StoreAdvances, IInv, TypeOK, storeVars

\* One row is replaced, the others stay.
LEMMA OneRowAdvances ==
    ASSUME IInv, NEW c \in Commands, NEW row \in Row,
           rows' = [rows EXCEPT ![c] = row], UNCHANGED <<now, completed, reissueOf>>,
           row.attempts = rows[c].attempts,
           Begun(c) => row.expiresAt = rows[c].expiresAt /\ row.status # "absent",
           rows[c].status \in Resolvable => row.status \in Resolvable,
           rows[c].status # "acknowledged"
    PROVE  StoreAdvances
<1>1. \A d \in Commands : d # c => RowAdvances(d)
  BY UnchangedRowAdvances DEF IInv, TypeOK
<1>2. RowAdvances(c)
  BY DEF RowAdvances, IInv, TypeOK
<1>3. now \in 0..MaxTime /\ now <= now
  BY DEF IInv, TypeOK
<1> QED BY <1>1, <1>2, <1>3 DEF StoreAdvances, IInv, TypeOK

LEMMA CopyStays ==
    ASSUME IInv, StoreAdvances, NEW snap \in Row, NEW c \in Commands, CopyOf(snap, c)
    PROVE  CopyOf(snap, c)'
BY DEF StoreAdvances, RowAdvances, CopyOf, Begun, IInv, TypeOK, Row

\* A handler that does not move keeps what it relies on.
LEMMA HandlerStays ==
    ASSUME IInv, StoreAdvances, NEW h \in Handlers, handler'[h] = handler[h]
    PROVE  HandlerOK(h)'
<1> DEFINE me == handler[h]
<1>1. HandlerOK(h) /\ me \in HandlerState
  BY DEF IInv, TypeOK
<1>2. me.at <= now'
  BY <1>1 DEF HandlerOK, HandlerState, StoreAdvances, IInv, TypeOK
<1>3. me.pc = "ack_success" => me.cmd \in completed' /\ Begun(me.cmd)'
  BY <1>1 DEF HandlerOK, StoreAdvances, RowAdvances, Begun, IInv, TypeOK
<1>4. me.pc = "ack_failure" => me.cmd \in Commands /\ CopyOf(me.snap, me.cmd)'
  BY <1>1, CopyStays DEF HandlerOK, HandlerState
<1>5. me.pc \in {"retry_create", "retry_update", "dismiss_update"} =>
         me.cmd \in Commands /\ rows'[me.cmd].status \in Resolvable
  BY <1>1 DEF HandlerOK, StoreAdvances, RowAdvances
<1>6. me.pc = "retry_update" => me.successor \in Commands /\ Begun(me.successor)'
                                /\ reissueOf'[me.successor] = me.cmd
  BY <1>1 DEF HandlerOK, StoreAdvances, RowAdvances, Begun
<1> QED BY <1>1, <1>2, <1>3, <1>4, <1>5, <1>6, CopyStays DEF HandlerOK, CopyOf, Begun

LEMMA SweepStays ==
    ASSUME IInv, StoreAdvances, NEW s \in Schedulers, scheduler'[s] = scheduler[s]
    PROVE  SweepOK(s)'
<1>1. SweepOK(s) /\ scheduler[s] \in SchedulerState
  BY DEF IInv, TypeOK
<1>2. scheduler[s].at <= now' /\ scheduler[s].readAt <= now'
  BY <1>1 DEF SweepOK, SchedulerState, StoreAdvances, IInv, TypeOK
<1>3. \A c \in scheduler[s].todo : CopyOf(scheduler[s].snap[c], c)'
  BY <1>1, CopyStays DEF SweepOK, SchedulerState
<1> QED BY <1>2, <1>3 DEF SweepOK, CopyOf, Begun

LEMMA SensorStays ==
    ASSUME IInv, StoreAdvances, batch' \subseteq batch, acks' \subseteq acks
    PROVE  SensorOK'
<1>1. \A c \in batch : c \in Commands /\ Begun(c)
  BY DEF IInv, TypeOK, SensorOK
<1>2. \A m \in acks : m.cmd \in Commands /\ Begun(m.cmd) /\ (m.outcome = "success" => m.cmd \in completed)
  BY DEF IInv, TypeOK, SensorOK
<1> QED BY <1>1, <1>2 DEF SensorOK, StoreAdvances, RowAdvances, Begun

\* What a step that writes the row of c must make true of it.
RowJustified(c) ==
    /\ Begun(c)'
    /\ rows'[c].deadLetterReason = "attempt_limit" => rows'[c].attempts >= MaxAttempts
    /\ rows'[c].deadLetterReason = "expired" => rows'[c].expiresAt <= now'
    /\ rows'[c].status = "acknowledged" => c \in completed'
    /\ rows'[c].status = "retried" =>
          LET d == rows'[c].retriedAs
          IN  d \in Commands /\ rows'[d].status # "absent" /\ reissueOf'[d] = c

\* The row invariants follow when the rows that change are justified.
LEMMA RowsStay ==
    ASSUME IInv, StoreAdvances,
           \A c \in Commands : rows'[c] = rows[c] \/ RowJustified(c),
           \A c, d \in Commands : reissueOf'[d] = c =>
               reissueOf[d] = c \/ rows[c].status \in Resolvable,
           \A c \in Commands : ~Begun(c)' => reissueOf'[c] = reissueOf[c]
    PROVE  RowsOK'
<1>1. DeadLetterJustified'
  <2> SUFFICES ASSUME NEW c \in Commands
               PROVE  /\ rows'[c].deadLetterReason = "attempt_limit" => rows'[c].attempts >= MaxAttempts
                      /\ rows'[c].deadLetterReason = "expired" => rows'[c].expiresAt <= now'
    BY DEF DeadLetterJustified
  <2>1. CASE RowJustified(c)
    BY <2>1 DEF RowJustified
  <2>2. CASE rows'[c] = rows[c]
    BY <2>2 DEF IInv, RowsOK, DeadLetterJustified, StoreAdvances, TypeOK, Row
  <2> QED BY <2>1, <2>2
<1>2. AcknowledgedWasCompleted'
  BY DEF IInv, RowsOK, AcknowledgedWasCompleted, StoreAdvances, RowJustified
<1>3. ReissuedIsOutOfDelivery'
  BY DEF IInv, RowsOK, ReissuedIsOutOfDelivery, StoreAdvances, RowAdvances
<1>4. RetriedHasSuccessor'
  <2> SUFFICES ASSUME NEW c \in Commands, rows'[c].status = "retried"
               PROVE  /\ rows'[c].retriedAs \in Commands
                      /\ rows'[rows'[c].retriedAs].status # "absent"
                      /\ reissueOf'[rows'[c].retriedAs] = c
    BY DEF RetriedHasSuccessor
  <2>1. CASE RowJustified(c)
    BY <2>1 DEF RowJustified, Begun
  <2>2. CASE rows'[c] = rows[c]
    BY <2>2 DEF IInv, RowsOK, RetriedHasSuccessor, StoreAdvances, RowAdvances, Begun
  <2> QED BY <2>1, <2>2
<1>5. \A c \in Commands : ~Begun(c)' => rows'[c] = NoRow /\ reissueOf'[c] = NoCommand
  BY DEF RowJustified, RowsOK, IInv, Begun
<1> QED BY <1>1, <1>2, <1>3, <1>4, <1>5 DEF RowsOK, Begun

LEMMA UnchangedRowsStay ==
    ASSUME IInv, StoreAdvances, UNCHANGED storeVars
    PROVE  RowsOK'
BY RowsStay DEF storeVars

-----------------------------------------------------------------------------
(* Frames: what a step leaves to the processes that do not take it.          *)

LEMMA BecomeType ==
    ASSUME IInv, NEW h \in Handlers, NEW me \in HandlerState, Become(h, me)
    PROVE  /\ handler' \in [Handlers -> HandlerState]
           /\ handler'[h] = me
           /\ \A g \in Handlers : g # h => handler'[g] = handler[g]
BY DEF Become, IInv, TypeOK

LEMMA IdleHandlerType == IdleHandler \in HandlerState
BY NoRowType DEF IdleHandler, HandlerState, HandlerPcs

LEMMA IdleHandlerOK ==
    ASSUME IInv, StoreAdvances, NEW h \in Handlers, handler'[h] = IdleHandler
    PROVE  HandlerOK(h)'
BY DEF HandlerOK, IdleHandler, StoreAdvances

\* A step of one handler that ends without locks keeps the locks of the others,
\* provided it writes no row they hold.
LEMMA LocksStay ==
    ASSUME IInv, NEW h \in Handlers, handler'[h].locked = {},
           \A g \in Handlers : g # h => handler'[g] = handler[g],
           \A g \in Handlers : g # h => \A c \in handler[g].locked : rows'[c] = rows[c]
    PROVE  LocksOK'
BY DEF LocksOK, IInv

LEMMA UnmovedLocksStay ==
    ASSUME IInv, UNCHANGED handler,
           \A g \in Handlers : \A c \in handler[g].locked : rows'[c] = rows[c]
    PROVE  LocksOK'
BY DEF LocksOK, IInv

\* A step of one handler: its own obligations give the invariant.
LEMMA HandlerStep ==
    ASSUME IInv, StoreAdvances, RowsOK', SensorOK', LocksOK',
           NEW h \in Handlers, NEW me \in HandlerState, Become(h, me), HandlerOK(h)',
           UNCHANGED scheduler, poll' \in Handlers \union {NoHandler},
           batch' \subseteq Commands, acks' \subseteq acks
    PROVE  StoreAdvances /\ IInv'
<1>1. TypeOK'
  BY BecomeType DEF IInv, TypeOK, StoreAdvances
<1>2. \A g \in Handlers : HandlerOK(g)'
  <2> TAKE g \in Handlers
  <2>1. CASE g = h
    BY <2>1
  <2>2. CASE g # h
    BY <2>2, BecomeType, HandlerStays
  <2> QED BY <2>1, <2>2
<1>3. \A s \in Schedulers : SweepOK(s)'
  BY SweepStays
<1> QED BY <1>1, <1>2, <1>3 DEF IInv

\* A handler that returns has no obligations left.
LEMMA ReturnStep ==
    ASSUME IInv, StoreAdvances, RowsOK', NEW h \in Handlers, Return(h),
           \A g \in Handlers : g # h => \A c \in handler[g].locked : rows'[c] = rows[c],
           UNCHANGED scheduler, poll' \in Handlers \union {NoHandler},
           batch' \subseteq batch, acks' \subseteq acks
    PROVE  StoreAdvances /\ IInv'
<1>1. /\ handler'[h] = IdleHandler
      /\ \A g \in Handlers : g # h => handler'[g] = handler[g]
  BY IdleHandlerType, BecomeType DEF Return
<1>2. LocksOK'
  BY <1>1, LocksStay DEF IdleHandler
<1>3. HandlerOK(h)'
  BY <1>1, IdleHandlerOK
<1>4. SensorOK' /\ batch' \subseteq Commands
  BY SensorStays DEF IInv, TypeOK
<1> QED BY <1>2, <1>3, <1>4, IdleHandlerType, HandlerStep DEF Return

\* A step that moves no handler and no sweep.
LEMMA OutsideStep ==
    ASSUME IInv, StoreAdvances, RowsOK', SensorOK', UNCHANGED <<handler, scheduler>>,
           \A g \in Handlers : \A c \in handler[g].locked : rows'[c] = rows[c],
           poll' \in Handlers \union {NoHandler}, batch' \subseteq Commands,
           acks' \subseteq [cmd: Commands, outcome: {"success", "failure"}]
    PROVE  StoreAdvances /\ IInv'
<1>1. TypeOK'
  BY DEF IInv, TypeOK, StoreAdvances
<1>2. LocksOK'
  BY UnmovedLocksStay
<1>3. \A g \in Handlers : HandlerOK(g)'
  BY HandlerStays
<1>4. \A s \in Schedulers : SweepOK(s)'
  BY SweepStays
<1> QED BY <1>1, <1>2, <1>3, <1>4 DEF IInv

\* A step of one sweep.
LEMMA SchedulerStep ==
    ASSUME IInv, StoreAdvances, RowsOK', NEW s \in Schedulers,
           scheduler' \in [Schedulers -> SchedulerState],
           \A r \in Schedulers : r # s => scheduler'[r] = scheduler[r],
           SweepOK(s)', UNCHANGED <<handler, sensorVars>>,
           \A g \in Handlers : \A c \in handler[g].locked : rows'[c] = rows[c]
    PROVE  StoreAdvances /\ IInv'
<1>1. TypeOK'
  BY DEF IInv, TypeOK, StoreAdvances, sensorVars
<1>2. LocksOK'
  BY UnmovedLocksStay
<1>3. \A g \in Handlers : HandlerOK(g)'
  BY HandlerStays
<1>4. \A r \in Schedulers : SweepOK(r)'
  <2> TAKE r \in Schedulers
  <2>1. CASE r = s
    BY <2>1
  <2>2. CASE r # s
    BY <2>2, SweepStays
  <2> QED BY <2>1, <2>2
<1>5. SensorOK'
  BY SensorStays DEF sensorVars
<1> QED BY <1>1, <1>2, <1>3, <1>4, <1>5 DEF IInv

-----------------------------------------------------------------------------
(* The actions, one by one.                                                  *)

LEMMA InitIInv == ASSUME Init PROVE IInv
<1>1. IdleScheduler \in SchedulerState
  BY NoRowType DEF IdleScheduler, SchedulerState
<1>2. TypeOK
  BY <1>1, IdleHandlerType, NoRowType DEF Init, TypeOK
<1>3. LocksOK /\ \A h \in Handlers : HandlerOK(h)
  BY DEF Init, LocksOK, HandlerOK, IdleHandler
<1>4. \A s \in Schedulers : SweepOK(s)
  BY DEF Init, SweepOK, IdleScheduler
<1>5. SensorOK
  BY DEF Init, SensorOK
<1>6. RowsOK
  BY DEF Init, RowsOK, DeadLetterJustified, AcknowledgedWasCompleted,
         ReissuedIsOutOfDelivery, RetriedHasSuccessor, Begun, NoRow
<1> QED BY <1>2, <1>3, <1>4, <1>5, <1>6 DEF IInv

LEMMA TickIInv == ASSUME IInv, Tick PROVE StoreAdvances /\ IInv'
<1>1. now' \in 0..MaxTime /\ now <= now' /\ UNCHANGED completed
  BY DEF Tick, IInv, TypeOK, sensorVars
<1>2. StoreAdvances
  BY <1>1, UnchangedStoreAdvances DEF Tick, IInv, TypeOK
<1>3. RowsOK'
  BY <1>2, UnchangedRowsStay DEF Tick
<1>4. SensorOK'
  BY <1>2, SensorStays DEF Tick, sensorVars
<1> QED BY <1>2, <1>3, <1>4, OutsideStep DEF Tick, storeVars, sensorVars, IInv, TypeOK

\* A fresh row is nobody's: not locked, not copied, not referred to.
LEMMA IssueIInv == ASSUME IInv, NEW c \in Commands, Issue(c) PROVE StoreAdvances /\ IInv'
<1>1. /\ rows[c] = NoRow
      /\ rows[c].status = "absent"
      /\ rows[c].attempts = 0
      /\ now \in Nat
  BY NoRowType DEF Issue, Fresh, Begun, IInv, RowsOK, TypeOK
<1>2. StoreAdvances
  <2>1. UNCHANGED completed
    BY DEF Issue, sensorVars
  <2>2. NewRow(now).attempts = rows[c].attempts
    BY <1>1, NewRowType
  <2> QED BY <1>1, <2>1, <2>2, NewRowType, OneRowAdvances DEF Issue, Begun, Resolvable
<1>3. RowsOK'
  <2>1. RowJustified(c)
    BY <1>1, NewRowType DEF Issue, RowJustified, Begun, IInv, TypeOK
  <2>2. \A d \in Commands : rows'[d] = rows[d] \/ RowJustified(d)
    BY <2>1 DEF Issue, IInv, TypeOK
  <2> QED BY <1>2, <2>2, RowsStay DEF Issue
<1>4. SensorOK'
  BY <1>2, SensorStays DEF Issue, sensorVars
<1>5. \A g \in Handlers : \A d \in handler[g].locked : rows'[d] = rows[d]
  BY <1>1 DEF Issue, IInv, LocksOK, TypeOK, DeliverableStatuses
<1> QED BY <1>2, <1>3, <1>4, <1>5, OutsideStep DEF Issue, sensorVars, IInv, TypeOK

LEMMA RunIInv == ASSUME IInv, NEW c \in Commands, Run(c) PROVE StoreAdvances /\ IInv'
<1>1. /\ completed \subseteq completed'
      /\ completed' \subseteq Commands
      /\ batch' \subseteq batch
      /\ c \in batch
      /\ \A m \in acks' : m \in acks \/ (m.cmd = c /\ (m.outcome = "success" => c \in completed'))
      /\ acks' \subseteq [cmd: Commands, outcome: {"success", "failure"}]
  BY DEF Run, RunUntil, IInv, TypeOK
<1>2. StoreAdvances
  BY <1>1, UnchangedStoreAdvances DEF Run, RunUntil, IInv, TypeOK
<1>3. RowsOK'
  BY <1>2, UnchangedRowsStay DEF Run, RunUntil
<1>4. SensorOK'
  BY <1>1 DEF Run, RunUntil, storeVars, SensorOK, IInv, TypeOK, Begun
<1> QED BY <1>1, <1>2, <1>3, <1>4, OutsideStep DEF Run, RunUntil, storeVars, IInv, TypeOK

LEMMA SensorRestartIInv == ASSUME IInv, SensorRestart PROVE StoreAdvances /\ IInv'
<1>1. StoreAdvances
  BY UnchangedStoreAdvances DEF SensorRestart, IInv, TypeOK
<1>2. RowsOK'
  BY <1>1, UnchangedRowsStay DEF SensorRestart
<1>3. SensorOK'
  BY <1>1, SensorStays DEF SensorRestart
<1> QED BY <1>1, <1>2, <1>3, OutsideStep DEF SensorRestart, storeVars, IInv, TypeOK

LEMMA ClaimBeginIInv == ASSUME IInv, NEW h \in Handlers, ClaimBegin(h) PROVE StoreAdvances /\ IInv'
<1> DEFINE me == [IdleHandler EXCEPT !.pc = "claiming", !.at = now]
<1>1. me \in HandlerState /\ me.locked = {} /\ me.due = {} /\ me.at = now /\ me.pc = "claiming"
  <2>1. PICK idle \in HandlerState : idle = IdleHandler
    BY IdleHandlerType
  <2>2. idle.locked = {} /\ idle.due = {} /\ now \in Nat
    BY <2>1 DEF IdleHandler, IInv, TypeOK
  <2>3. me = [idle EXCEPT !.pc = "claiming", !.at = now]
    BY <2>1
  <2> QED BY <2>2, <2>3 DEF HandlerState, HandlerPcs
<1>2. StoreAdvances
  BY UnchangedStoreAdvances DEF ClaimBegin, IInv, TypeOK
<1>3. Become(h, me)
  BY DEF ClaimBegin
<1> HIDE DEF me
<1>4. handler'[h] = me /\ \A g \in Handlers : g # h => handler'[g] = handler[g]
  BY <1>1, <1>3, BecomeType
<1>5. LocksOK'
  BY <1>1, <1>4, LocksStay DEF ClaimBegin, storeVars
<1>6. HandlerOK(h)'
  BY <1>1, <1>4 DEF HandlerOK, ClaimBegin, IInv, TypeOK
<1>7. RowsOK' /\ SensorOK'
  BY <1>2, UnchangedRowsStay, SensorStays DEF ClaimBegin
<1> QED BY <1>1, <1>2, <1>3, <1>5, <1>6, <1>7, HandlerStep DEF ClaimBegin, IInv, TypeOK

\* The rows a transaction takes are deliverable and held by no other.
LEMMA ClaimLockIInv == ASSUME IInv, NEW h \in Handlers, ClaimLock(h) PROVE StoreAdvances /\ IInv'
<1> DEFINE me == [handler[h] EXCEPT !.pc = "claimed", !.locked = LockableRows,
                                  !.due = Claimable(h)]
<1>1. /\ me \in HandlerState
      /\ me.locked = LockableRows
      /\ me.due \subseteq LockableRows
      /\ me.at = handler[h].at
      /\ me.pc = "claimed"
  BY DEF LockableRows, Claimable, HandlerState, HandlerPcs, IInv, TypeOK
<1>2. StoreAdvances
  BY UnchangedStoreAdvances DEF ClaimLock, sensorVars, IInv, TypeOK
<1>3. Become(h, me)
  BY DEF ClaimLock
<1> HIDE DEF me
<1>4. handler'[h] = me /\ \A g \in Handlers : g # h => handler'[g] = handler[g]
  BY <1>1, <1>3, BecomeType
<1>5. LocksOK'
  BY <1>1, <1>4 DEF LocksOK, LockableRows, Locked, ClaimLock, storeVars, IInv
<1>6. HandlerOK(h)'
  BY <1>1, <1>4 DEF HandlerOK, ClaimLock, IInv
<1>7. RowsOK' /\ SensorOK'
  BY <1>2, UnchangedRowsStay, SensorStays DEF ClaimLock, sensorVars
<1> QED BY <1>1, <1>2, <1>3, <1>5, <1>6, <1>7, HandlerStep DEF ClaimLock, sensorVars, IInv, TypeOK

LEMMA ClaimCommitIInv == ASSUME IInv, NEW h \in Handlers, ClaimCommit(h) PROVE StoreAdvances /\ IInv'
<1> DEFINE taken == handler[h].due
<1>1. /\ handler[h] \in HandlerState
      /\ taken \subseteq handler[h].locked
      /\ taken \subseteq Commands
      /\ handler[h].at \in Nat
  BY DEF HandlerOK, HandlerState, IInv, TypeOK
<1>2. \A c \in taken : /\ rows[c] \in Row
                       /\ rows[c].status \in DeliverableStatuses
                       /\ rows'[c] = DispatchedRow(rows[c], handler[h].at)
  BY <1>1 DEF ClaimCommit, LocksOK, IInv, TypeOK
<1>3. \A c \in Commands : c \notin taken => rows'[c] = rows[c]
  BY DEF ClaimCommit
<1>4. \A c \in taken : RowAdvances(c) /\ RowJustified(c)
  <2> TAKE c \in taken
  <2>1. /\ rows'[c] \in Row
        /\ rows'[c].status = "dispatched"
        /\ rows'[c].attempts = rows[c].attempts + 1
        /\ rows'[c].expiresAt = rows[c].expiresAt
        /\ rows'[c].deadLetterReason = rows[c].deadLetterReason
    <3>1. rows[c] \in Row /\ handler[h].at \in Nat /\ rows'[c] = DispatchedRow(rows[c], handler[h].at)
      BY <1>1, <1>2
    <3> HIDE DEF taken
    <3> QED BY <3>1, DispatchedRowType
  <2>2. rows[c].attempts \in Nat /\ c \in Commands
    BY <1>1, <1>2 DEF Row
  <2>3. RowAdvances(c)
    BY <1>2, <2>1, <2>2 DEF RowAdvances, ClaimCommit, Resolvable, DeliverableStatuses
  <2>4. RowJustified(c)
    BY <2>1, <2>2, MaxAttempts \in Nat
       DEF RowJustified, Begun, ClaimCommit, IInv, RowsOK, DeadLetterJustified
  <2> QED BY <2>3, <2>4
<1>5. StoreAdvances
  <2>1. \A c \in Commands : RowAdvances(c)
    BY <1>3, <1>4, UnchangedRowAdvances DEF ClaimCommit
  <2>2. rows' \in [Commands -> Row]
    BY <2>1 DEF RowAdvances, ClaimCommit
  <2> QED BY <2>1, <2>2 DEF StoreAdvances, ClaimCommit, IInv, TypeOK
<1>6. RowsOK'
  <2>1. \A c \in Commands : rows'[c] = rows[c] \/ RowJustified(c)
    BY <1>3, <1>4
  <2> QED BY <1>5, <2>1, RowsStay DEF ClaimCommit
<1>7. \A g \in Handlers : g # h => \A c \in handler[g].locked : rows'[c] = rows[c]
  BY <1>1, <1>3 DEF LocksOK, IInv, TypeOK, HandlerState
<1>8. /\ handler'[h] = IdleHandler
      /\ \A g \in Handlers : g # h => handler'[g] = handler[g]
  BY IdleHandlerType, BecomeType DEF ClaimCommit, Return
<1>9. LocksOK'
  BY <1>7, <1>8, LocksStay DEF IdleHandler
<1>10. HandlerOK(h)'
  BY <1>5, <1>8, IdleHandlerOK
<1>11. /\ batch' = batch \/ batch' = taken
       /\ poll' \in Handlers \union {NoHandler}
       /\ acks' = acks
       /\ completed' = completed
  BY DEF ClaimCommit, IInv, TypeOK
<1>12. SensorOK' /\ batch' \subseteq Commands
  <2>1. \A c \in taken : rows'[c].status # "absent"
    BY <1>4 DEF RowJustified, Begun
  <2>2. \A c \in batch : c \in Commands /\ rows'[c].status # "absent"
    BY <1>5 DEF IInv, TypeOK, SensorOK, StoreAdvances, RowAdvances, Begun
  <2>3. \A m \in acks : rows'[m.cmd].status # "absent" /\ (m.outcome = "success" => m.cmd \in completed)
    BY <1>5 DEF IInv, TypeOK, SensorOK, StoreAdvances, RowAdvances, Begun
  <2> QED BY <1>1, <1>11, <2>1, <2>2, <2>3 DEF SensorOK, Begun
<1> QED BY <1>5, <1>6, <1>9, <1>10, <1>11, <1>12, IdleHandlerType, HandlerStep
        DEF ClaimCommit, Return

\* The copy a failure report will be judged by is the row itself.
LEMMA AckReadIInv == ASSUME IInv, NEW h \in Handlers, AckRead(h) PROVE StoreAdvances /\ IInv'
<1>1. PICK m \in acks :
        /\ acks' = acks \ {m}
        /\ Become(h, [IdleHandler EXCEPT !.pc = IF m.outcome = "success" THEN "ack_success"
                                                                        ELSE "ack_failure",
                                         !.at = now, !.cmd = m.cmd, !.snap = rows[m.cmd]])
  BY DEF AckRead
<1> DEFINE pc == IF m.outcome = "success" THEN "ack_success" ELSE "ack_failure"
           me == [IdleHandler EXCEPT !.pc = pc, !.at = now, !.cmd = m.cmd, !.snap = rows[m.cmd]]
<1>2. /\ pc \in {"ack_success", "ack_failure"}
      /\ pc = "ack_success" => m.outcome = "success"
      /\ m.cmd \in Commands
      /\ rows[m.cmd] \in Row
      /\ rows[m.cmd].attempts \in Nat
      /\ now \in Nat
      /\ Begun(m.cmd)
      /\ m.outcome = "success" => m.cmd \in completed
  BY DEF IInv, TypeOK, SensorOK, Row
<1> HIDE DEF pc
<1>3. /\ me \in HandlerState
      /\ me.pc = pc /\ me.at = now /\ me.cmd = m.cmd /\ me.snap = rows[m.cmd]
      /\ me.locked = {} /\ me.due = {}
  <2>1. PICK idle \in HandlerState : idle = IdleHandler
    BY IdleHandlerType
  <2>2. idle.locked = {} /\ idle.due = {}
    BY <2>1 DEF IdleHandler
  <2>3. me = [idle EXCEPT !.pc = pc, !.at = now, !.cmd = m.cmd, !.snap = rows[m.cmd]]
    BY <2>1
  <2> QED BY <1>2, <2>2, <2>3 DEF HandlerState, HandlerPcs
<1>4. Become(h, me)
  BY <1>1 DEF pc
<1> HIDE DEF me
<1>5. StoreAdvances
  BY UnchangedStoreAdvances DEF AckRead, IInv, TypeOK
<1>6. handler'[h] = me /\ \A g \in Handlers : g # h => handler'[g] = handler[g]
  BY <1>3, <1>4, BecomeType
<1>7. LocksOK'
  BY <1>3, <1>6, LocksStay DEF AckRead, storeVars
<1>8. HandlerOK(h)'
  BY <1>2, <1>3, <1>6 DEF HandlerOK, AckRead, storeVars, CopyOf, Begun
<1>9. RowsOK' /\ SensorOK'
  BY <1>1, <1>5, UnchangedRowsStay, SensorStays DEF AckRead
<1> QED BY <1>1, <1>3, <1>4, <1>5, <1>7, <1>8, <1>9, HandlerStep DEF AckRead, IInv, TypeOK
-----------------------------------------------------------------------------
(* Statements that write one row.                                            *)

\* A row that may be written in place of the row of c: it keeps the counts, and
\* its status and reason are justified.
Replaces(row, c) ==
    /\ row \in Row
    /\ row.attempts = rows[c].attempts
    /\ row.expiresAt = rows[c].expiresAt
    /\ row.status # "absent"
    /\ rows[c].status # "acknowledged"
    /\ rows[c].status \in Resolvable => row.status \in Resolvable
    /\ row.deadLetterReason = "attempt_limit" => row.attempts >= MaxAttempts
    /\ row.deadLetterReason = "expired" => row.expiresAt <= now
    /\ row.status = "acknowledged" => c \in completed
    /\ row.status = "retried" =>
          /\ row.retriedAs \in Commands
          /\ Begun(row.retriedAs)
          /\ reissueOf[row.retriedAs] = c

LEMMA WriteOne ==
    ASSUME IInv, NEW c \in Commands, NEW row, CanWrite(c),
           rows' = [rows EXCEPT ![c] = row], Replaces(row, c),
           UNCHANGED <<now, completed, reissueOf>>
    PROVE  /\ StoreAdvances
           /\ RowsOK'
           /\ \A g \in Handlers : \A d \in handler[g].locked : rows'[d] = rows[d]
<1>1. rows[c] \in Row /\ rows'[c] = row /\ \A d \in Commands : d # c => rows'[d] = rows[d]
  BY DEF IInv, TypeOK
<1>2. StoreAdvances
  <2>1. row \in Row /\ row.attempts = rows[c].attempts
    BY <1>1 DEF Replaces, Row
  <2>2. /\ Begun(c) => row.expiresAt = rows[c].expiresAt /\ row.status # "absent"
        /\ rows[c].status \in Resolvable => row.status \in Resolvable
        /\ rows[c].status # "acknowledged"
    BY DEF Replaces
  <2> QED BY <2>1, <2>2, OneRowAdvances
<1>3. \A d \in Commands : rows'[d] = rows[d] \/ RowJustified(d)
  BY <1>1 DEF Replaces, RowJustified, Begun
<1>4. RowsOK'
  BY <1>2, <1>3, RowsStay
<1>5. \A g \in Handlers : \A d \in handler[g].locked : rows'[d] = rows[d]
  BY DEF CanWrite, Locked, IInv, TypeOK
<1> QED BY <1>2, <1>4, <1>5

\* A statement that applies to no row leaves everything in place.
LEMMA WriteNone ==
    ASSUME IInv, rows' = rows, UNCHANGED <<now, completed, reissueOf>>
    PROVE  /\ StoreAdvances
           /\ RowsOK'
           /\ \A g \in Handlers : \A d \in handler[g].locked : rows'[d] = rows[d]
<1>1. StoreAdvances
  BY UnchangedStoreAdvances DEF storeVars, IInv, TypeOK
<1> QED BY <1>1, UnchangedRowsStay DEF storeVars

LEMMA WriteIfStatus ==
    ASSUME IInv, NEW c \in Commands, NEW expected, NEW row,
           UpdateIfStatus(c, expected, row),
           rows[c].status \in expected => Replaces(row, c),
           UNCHANGED <<now, completed, reissueOf>>
    PROVE  /\ StoreAdvances
           /\ RowsOK'
           /\ \A g \in Handlers : \A d \in handler[g].locked : rows'[d] = rows[d]
<1>1. CASE rows[c].status \in expected
  BY <1>1, WriteOne DEF UpdateIfStatus
<1>2. CASE rows[c].status \notin expected
  BY <1>2, WriteNone DEF UpdateIfStatus
<1> QED BY <1>1, <1>2

\* The reason of a row that is not dead-lettered may still be read off it.
LEMMA ReasonNow ==
    ASSUME IInv, NEW c \in Commands
    PROVE  /\ rows[c] \in Row
           /\ rows[c].deadLetterReason = "attempt_limit" => rows[c].attempts >= MaxAttempts
           /\ rows[c].deadLetterReason = "expired" => rows[c].expiresAt <= now
BY DEF IInv, TypeOK, RowsOK, DeadLetterJustified

\* fail writes a justified row as long as its caller's copy is one of the row,
\* however old.
LEMMA FailedRowReplaces ==
    ASSUME IInv, NEW c \in Commands, NEW snap \in Row, CopyOf(snap, c),
           NEW t \in Nat, t <= now, rows[c].status \in AckableStatuses
    PROVE  Replaces(FailedRow(rows[c], snap, t), c)
<1> DEFINE row == FailedRow(rows[c], snap, t)
<1>1. /\ row \in Row
      /\ row.attempts = rows[c].attempts
      /\ row.expiresAt = rows[c].expiresAt
      /\ \/ /\ row.status = "dead_lettered"
            /\ \/ row.deadLetterReason = "attempt_limit" /\ snap.attempts >= MaxAttempts
               \/ row.deadLetterReason = "expired" /\ snap.expiresAt <= t
         \/ row.status = "retrying" /\ row.deadLetterReason = rows[c].deadLetterReason
  BY ReasonNow, FailedRowType
<1> HIDE DEF row
<1>2. rows[c].attempts \in Nat /\ rows[c].expiresAt \in Nat /\ snap.attempts \in Nat /\ now \in Nat
  BY ReasonNow DEF Row, IInv, TypeOK
<1>3. row.deadLetterReason = "attempt_limit" => row.attempts >= MaxAttempts
  BY <1>1, <1>2, ReasonNow DEF CopyOf
<1>4. row.deadLetterReason = "expired" => row.expiresAt <= now
  BY <1>1, <1>2, ReasonNow DEF CopyOf
<1> QED BY <1>1, <1>3, <1>4 DEF Replaces, AckableStatuses, Resolvable, row
-----------------------------------------------------------------------------
(* The actions that write one row.                                           *)

LEMMA AckSuccessIInv == ASSUME IInv, NEW h \in Handlers, AckSuccess(h) PROVE StoreAdvances /\ IInv'
<1> DEFINE c == handler[h].cmd
<1>1. c \in completed /\ c \in Commands
  BY DEF AckSuccess, HandlerOK, IInv, TypeOK
<1>2. UpdateIfStatus(c, AckableStatuses, AcknowledgedRow(rows[c]))
  BY DEF AckSuccess
<1>3. rows[c].status \in AckableStatuses => Replaces(AcknowledgedRow(rows[c]), c)
  BY <1>1, ReasonNow, AcknowledgedRowType DEF Replaces, AckableStatuses, Resolvable
<1>4. UNCHANGED <<now, completed, reissueOf>>
  BY DEF AckSuccess, sensorVars
<1> HIDE DEF c
<1>5. /\ StoreAdvances
      /\ RowsOK'
      /\ \A g \in Handlers : \A d \in handler[g].locked : rows'[d] = rows[d]
  BY <1>1, <1>2, <1>3, <1>4, WriteIfStatus
<1> QED BY <1>5, ReturnStep DEF AckSuccess, sensorVars, IInv, TypeOK

LEMMA AckFailureIInv == ASSUME IInv, NEW h \in Handlers, AckFailure(h) PROVE StoreAdvances /\ IInv'
<1> DEFINE c == handler[h].cmd
           snap == handler[h].snap
<1>1. c \in Commands /\ snap \in Row /\ CopyOf(snap, c) /\ handler[h].at \in Nat /\ now \in Nat
  BY DEF AckFailure, HandlerOK, HandlerState, IInv, TypeOK
<1>2. PICK t \in handler[h].at..now :
        UpdateIfStatus(c, AckableStatuses, FailedRow(rows[c], snap, t))
  BY DEF AckFailure
<1>3. UNCHANGED <<now, completed, reissueOf>>
  BY DEF AckFailure, sensorVars
<1> HIDE DEF c, snap
<1>4. t \in Nat /\ t <= now
  BY <1>1
<1>5. rows[c].status \in AckableStatuses => Replaces(FailedRow(rows[c], snap, t), c)
  BY <1>1, <1>4, FailedRowReplaces
<1>6. /\ StoreAdvances
      /\ RowsOK'
      /\ \A g \in Handlers : \A d \in handler[g].locked : rows'[d] = rows[d]
  BY <1>1, <1>2, <1>3, <1>5, WriteIfStatus
<1> QED BY <1>6, ReturnStep DEF AckFailure, sensorVars, IInv, TypeOK

\* Both operator routes begin by remembering a dead-lettered command.
LEMMA ReadDeadLetterIInv ==
    ASSUME IInv, NEW h \in Handlers, NEW c \in Commands,
           NEW pc \in {"retry_create", "dismiss_update"}, ReadDeadLetter(h, c, pc)
    PROVE  StoreAdvances /\ IInv'
<1> DEFINE me == [IdleHandler EXCEPT !.pc = pc, !.cmd = c]
<1>1. me \in HandlerState /\ me.pc = pc /\ me.cmd = c /\ me.at = 0 /\ me.locked = {} /\ me.due = {}
  <2>1. PICK idle \in HandlerState : idle = IdleHandler
    BY IdleHandlerType
  <2>2. idle.locked = {} /\ idle.due = {} /\ idle.at = 0
    BY <2>1 DEF IdleHandler
  <2>3. me = [idle EXCEPT !.pc = pc, !.cmd = c]
    BY <2>1
  <2> QED BY <2>2, <2>3 DEF HandlerState, HandlerPcs
<1>2. StoreAdvances
  BY UnchangedStoreAdvances DEF ReadDeadLetter, sensorVars, IInv, TypeOK
<1>3. Become(h, me)
  BY DEF ReadDeadLetter
<1> HIDE DEF me
<1>4. handler'[h] = me /\ \A g \in Handlers : g # h => handler'[g] = handler[g]
  BY <1>1, <1>3, BecomeType
<1>5. LocksOK'
  BY <1>1, <1>4, LocksStay DEF ReadDeadLetter, storeVars
<1>6. HandlerOK(h)'
  BY <1>1, <1>4 DEF HandlerOK, ReadDeadLetter, storeVars, Resolvable, IInv, TypeOK
<1>7. RowsOK' /\ SensorOK'
  BY <1>2, UnchangedRowsStay, SensorStays DEF ReadDeadLetter, sensorVars
<1> QED BY <1>1, <1>2, <1>3, <1>5, <1>6, <1>7, HandlerStep
        DEF ReadDeadLetter, sensorVars, IInv, TypeOK

\* The reissue takes a fresh row; its original is resolvable and stays so.
LEMMA RetryCreateIInv == ASSUME IInv, NEW h \in Handlers, RetryCreate(h) PROVE StoreAdvances /\ IInv'
<1> DEFINE c == handler[h].cmd
<1>1. PICK d \in Commands :
        /\ Fresh(d)
        /\ rows' = [rows EXCEPT ![d] = NewRow(now)]
        /\ reissueOf' = [reissueOf EXCEPT ![d] = c]
        /\ Become(h, [handler[h] EXCEPT !.pc = "retry_update", !.successor = d])
  BY DEF RetryCreate
<1>2. /\ c \in Commands
      /\ rows[c].status \in Resolvable
      /\ handler[h] \in HandlerState
      /\ handler[h].locked = {} /\ handler[h].due = {}
      /\ handler[h].at <= now
      /\ handler[h].pc = "retry_create"
      /\ now \in 0..MaxTime /\ now \in Nat
  BY DEF RetryCreate, HandlerOK, IInv, TypeOK
<1>3. /\ rows[d] = NoRow
      /\ rows[d].status = "absent"
      /\ rows[d].attempts = 0
      /\ rows'[d] = NewRow(now)
      /\ reissueOf'[d] = c
      /\ \A e \in Commands : e # d => rows'[e] = rows[e] /\ reissueOf'[e] = reissueOf[e]
  BY <1>1, NoRowType DEF Fresh, Begun, IInv, RowsOK, TypeOK
<1>4. UNCHANGED <<now, completed, scheduler, poll, batch, acks>>
  BY DEF RetryCreate, sensorVars
<1> DEFINE me == [handler[h] EXCEPT !.pc = "retry_update", !.successor = d]
<1>5. /\ me \in HandlerState
      /\ me.pc = "retry_update" /\ me.cmd = c /\ me.at = handler[h].at
      /\ me.locked = {} /\ me.due = {} /\ me.successor = d
  BY <1>2 DEF HandlerState, HandlerPcs
<1>6. Become(h, me)
  BY <1>1
<1> HIDE DEF me, c
<1>7. RowAdvances(d) /\ RowJustified(d)
  <2>1. rows'[d].attempts = rows[d].attempts /\ rows'[d] \in Row
    BY <1>2, <1>3, NewRowType
  <2>2. RowAdvances(d)
    BY <1>3, <2>1 DEF RowAdvances, Begun, Resolvable
  <2> QED BY <1>2, <1>3, <2>2, NewRowType DEF RowJustified, Begun
<1>8. StoreAdvances
  <2>1. \A e \in Commands : RowAdvances(e)
    BY <1>3, <1>7, UnchangedRowAdvances
  <2>2. rows' \in [Commands -> Row]
    BY <1>1, <2>1 DEF RowAdvances, IInv, TypeOK
  <2>3. reissueOf' \in [Commands -> Commands \union {NoCommand}]
    BY <1>1, <1>2 DEF IInv, TypeOK
  <2>4. now <= now' /\ now' \in 0..MaxTime /\ completed' \subseteq Commands /\ completed \subseteq completed'
    BY <1>2, <1>4 DEF IInv, TypeOK
  <2> QED BY <2>1, <2>2, <2>3, <2>4 DEF StoreAdvances
<1>9. RowsOK'
  <2>1. \A e \in Commands : rows'[e] = rows[e] \/ RowJustified(e)
    BY <1>3, <1>7
  <2>2. \A a, b \in Commands : reissueOf'[b] = a => reissueOf[b] = a \/ rows[a].status \in Resolvable
    BY <1>2, <1>3
  <2>3. \A e \in Commands : ~Begun(e)' => reissueOf'[e] = reissueOf[e]
    BY <1>3, <1>7 DEF RowJustified
  <2> QED BY <1>8, <2>1, <2>2, <2>3, RowsStay
<1>10. handler'[h] = me /\ \A g \in Handlers : g # h => handler'[g] = handler[g]
  BY <1>5, <1>6, BecomeType
<1>11. \A g \in Handlers : \A e \in handler[g].locked : rows'[e] = rows[e]
  BY <1>3 DEF IInv, LocksOK, TypeOK, HandlerState, DeliverableStatuses
<1>12. LocksOK'
  BY <1>5, <1>10, <1>11, LocksStay
<1>13. HandlerOK(h)'
  <2>1. rows'[c].status \in Resolvable
    BY <1>2, <1>8 DEF StoreAdvances, RowAdvances
  <2>2. Begun(d)'
    BY <1>7 DEF RowJustified
  <2> QED BY <1>2, <1>3, <1>4, <1>5, <1>10, <2>1, <2>2 DEF HandlerOK, Begun
<1>14. SensorOK'
  BY <1>4, <1>8, SensorStays
<1> QED BY <1>4, <1>5, <1>6, <1>8, <1>9, <1>12, <1>13, <1>14, HandlerStep DEF IInv, TypeOK

LEMMA RetryUpdateIInv == ASSUME IInv, NEW h \in Handlers, RetryUpdate(h) PROVE StoreAdvances /\ IInv'
<1> DEFINE c == handler[h].cmd
           d == handler[h].successor
           row == RetriedRow(rows[c], d)
<1>1. /\ c \in Commands
      /\ rows[c].status \in Resolvable
      /\ d \in Commands /\ Begun(d) /\ reissueOf[d] = c
  BY DEF RetryUpdate, HandlerOK, IInv
<1>2. CanWrite(c) /\ rows' = [rows EXCEPT ![c] = row] /\ UNCHANGED <<now, completed, reissueOf>>
  BY <1>1 DEF RetryUpdate, Update, Resolvable, sensorVars
<1>3. Replaces(row, c)
  <2>1. /\ row \in Row
        /\ row.status = "retried"
        /\ row.attempts = rows[c].attempts
        /\ row.expiresAt = rows[c].expiresAt
        /\ row.deadLetterReason = rows[c].deadLetterReason
    BY <1>1, ReasonNow, RetriedRowType
  <2>2. row.retriedAs = d
    BY <1>1, ReasonNow DEF RetriedRow, Row
  <2> HIDE DEF row
  <2> QED BY <1>1, <2>1, <2>2, ReasonNow DEF Replaces, Resolvable
<1> HIDE DEF c, d, row
<1>4. /\ StoreAdvances
      /\ RowsOK'
      /\ \A g \in Handlers : \A e \in handler[g].locked : rows'[e] = rows[e]
  BY <1>1, <1>2, <1>3, WriteOne
<1> QED BY <1>4, ReturnStep DEF RetryUpdate, sensorVars, IInv, TypeOK

LEMMA DismissUpdateIInv == ASSUME IInv, NEW h \in Handlers, DismissUpdate(h) PROVE StoreAdvances /\ IInv'
<1> DEFINE c == handler[h].cmd
           row == DismissedRow(rows[c])
<1>1. c \in Commands /\ rows[c].status \in Resolvable
  BY DEF DismissUpdate, HandlerOK, IInv
<1>2. CanWrite(c) /\ rows' = [rows EXCEPT ![c] = row] /\ UNCHANGED <<now, completed, reissueOf>>
  BY <1>1 DEF DismissUpdate, Update, Resolvable, sensorVars
<1>3. Replaces(row, c)
  <2>1. /\ row \in Row
        /\ row.status = "dismissed"
        /\ row.attempts = rows[c].attempts
        /\ row.expiresAt = rows[c].expiresAt
        /\ row.deadLetterReason = rows[c].deadLetterReason
    BY <1>1, ReasonNow, DismissedRowType
  <2> HIDE DEF row
  <2> QED BY <1>1, <2>1, ReasonNow DEF Replaces, Resolvable
<1> HIDE DEF c, row
<1>4. /\ StoreAdvances
      /\ RowsOK'
      /\ \A g \in Handlers : \A e \in handler[g].locked : rows'[e] = rows[e]
  BY <1>1, <1>2, <1>3, WriteOne
<1> QED BY <1>4, ReturnStep DEF DismissUpdate, sensorVars, IInv, TypeOK

LEMMA HandlerCrashIInv == ASSUME IInv, NEW h \in Handlers, HandlerCrash(h) PROVE StoreAdvances /\ IInv'
<1>1. rows' = rows /\ UNCHANGED <<now, completed, reissueOf>>
  BY DEF HandlerCrash, storeVars
<1>2. poll' \in Handlers \union {NoHandler}
  BY DEF HandlerCrash, IInv, TypeOK
<1> QED BY <1>1, <1>2, WriteNone, ReturnStep DEF HandlerCrash
-----------------------------------------------------------------------------
(* The recovery sweep.                                                       *)

LEMMA SweepBeginIInv == ASSUME IInv, NEW s \in Schedulers, SweepBegin(s) PROVE StoreAdvances /\ IInv'
<1> DEFINE me == [scheduler[s] EXCEPT !.pc = "reading", !.at = now]
<1>1. /\ scheduler[s] \in SchedulerState
      /\ now \in Nat
      /\ scheduler[s].readAt <= now
      /\ \A c \in scheduler[s].todo : CopyOf(scheduler[s].snap[c], c)
  BY DEF IInv, TypeOK, SweepOK
<1>2. /\ me \in SchedulerState
      /\ me.at = now /\ me.readAt = scheduler[s].readAt
      /\ me.todo = scheduler[s].todo /\ me.snap = scheduler[s].snap
  BY <1>1 DEF SchedulerState
<1>3. scheduler' = [scheduler EXCEPT ![s] = me]
  BY DEF SweepBegin
<1> HIDE DEF me
<1>4. /\ scheduler' \in [Schedulers -> SchedulerState]
      /\ scheduler'[s] = me
      /\ \A r \in Schedulers : r # s => scheduler'[r] = scheduler[r]
  BY <1>2, <1>3 DEF IInv, TypeOK
<1>5. rows' = rows /\ UNCHANGED <<now, completed, reissueOf>>
  BY DEF SweepBegin, storeVars, sensorVars
<1>6. SweepOK(s)'
  BY <1>1, <1>2, <1>4, <1>5 DEF SweepOK, CopyOf, Begun
<1> QED BY <1>4, <1>5, <1>6, WriteNone, SchedulerStep DEF SweepBegin

LEMMA IdleSchedulerOK ==
    ASSUME IInv, StoreAdvances, NEW s \in Schedulers, scheduler'[s] = IdleScheduler
    PROVE  SweepOK(s)'
BY DEF SweepOK, IdleScheduler, StoreAdvances

LEMMA IdleSchedulerType == IdleScheduler \in SchedulerState
BY NoRowType DEF IdleScheduler, SchedulerState

\* The copies of a sweep are the rows at the moment of its read.
LEMMA SweepReadIInv == ASSUME IInv, NEW s \in Schedulers, SweepRead(s) PROVE StoreAdvances /\ IInv'
<1> DEFINE due == {c \in Commands : Sweepable(rows[c], scheduler[s].at)}
           copies == [c \in Commands |-> IF c \in due THEN rows[c] ELSE NoRow]
           me == [scheduler[s] EXCEPT !.pc = "sweeping", !.readAt = now, !.todo = due, !.snap = copies]
<1>1. scheduler[s] \in SchedulerState /\ now \in Nat /\ scheduler[s].at <= now
  BY DEF IInv, TypeOK, SweepOK
<1>2. copies \in [Commands -> Row] /\ \A c \in due : copies[c] = rows[c]
  BY NoRowType DEF IInv, TypeOK
<1>3. \A c \in due : CopyOf(rows[c], c)
  BY ReasonNow DEF Sweepable, ExpiredIn, TimedOutIn, ExpirableStatuses, CopyOf, Begun, Row
<1>4. due \subseteq Commands
  OBVIOUS
<1>5. scheduler' = [scheduler EXCEPT ![s] = IF due = {} THEN IdleScheduler ELSE me]
  BY DEF SweepRead
<1> HIDE DEF due, copies
<1>6. /\ me \in SchedulerState
      /\ me.at = scheduler[s].at /\ me.readAt = now /\ me.todo = due /\ me.snap = copies
  BY <1>1, <1>2, <1>4 DEF SchedulerState
<1> HIDE DEF me
<1>7. /\ scheduler' \in [Schedulers -> SchedulerState]
      /\ scheduler'[s] = IdleScheduler \/ scheduler'[s] = me
      /\ \A r \in Schedulers : r # s => scheduler'[r] = scheduler[r]
  BY <1>5, <1>6, IdleSchedulerType DEF IInv, TypeOK
<1>8. rows' = rows /\ UNCHANGED <<now, completed, reissueOf>>
  BY DEF SweepRead, storeVars, sensorVars
<1>9. SweepOK(s)'
  <2>1. CASE scheduler'[s] = me
    BY <1>1, <1>2, <1>3, <1>6, <1>8, <2>1 DEF SweepOK, CopyOf, Begun
  <2>2. CASE scheduler'[s] = IdleScheduler
    BY <1>8, <2>2, IdleSchedulerOK, WriteNone
  <2> QED BY <1>7, <2>1, <2>2
<1> QED BY <1>7, <1>8, <1>9, WriteNone, SchedulerStep DEF SweepRead

\* A sweep writes by its copy, and what it writes is justified by it.
LEMMA SweepCommandIInv ==
    ASSUME IInv, NEW s \in Schedulers, NEW c \in Commands, SweepCommand(s, c)
    PROVE  StoreAdvances /\ IInv'
<1> DEFINE snap == scheduler[s].snap[c]
           me == SweepRest(scheduler[s], c)
<1>1. /\ scheduler[s] \in SchedulerState
      /\ snap \in Row
      /\ CopyOf(snap, c)
      /\ now \in Nat
      /\ scheduler[s].at \in Nat /\ scheduler[s].at <= now
      /\ scheduler[s].readAt \in Nat /\ scheduler[s].readAt <= now
  BY DEF SweepCommand, SweepOK, SchedulerState, IInv, TypeOK
<1>2. UNCHANGED <<now, completed, reissueOf>>
  BY DEF SweepCommand, sensorVars
<1>3. /\ StoreAdvances
      /\ RowsOK'
      /\ \A g \in Handlers : \A e \in handler[g].locked : rows'[e] = rows[e]
  <2>1. CASE ExpiredIn(snap, scheduler[s].at)
    <3>1. UpdateIfStatus(c, ExpirableStatuses, DeadLetteredRow(rows[c], "expired"))
      BY <2>1 DEF SweepCommand, SweepWrite
    <3>2. rows[c].expiresAt <= now
      BY <1>1, <2>1, ReasonNow DEF ExpiredIn, CopyOf, Row
    <3>3. "expired" \in Reasons
      BY DEF Reasons
    <3>4. rows[c].status \in ExpirableStatuses => Replaces(DeadLetteredRow(rows[c], "expired"), c)
      BY <3>2, <3>3, ReasonNow, DeadLetteredRowType DEF Replaces, ExpirableStatuses, Resolvable
    <3> QED BY <1>2, <3>1, <3>4, WriteIfStatus
  <2>2. CASE ~ExpiredIn(snap, scheduler[s].at)
    <3>1. PICK t \in scheduler[s].readAt..now :
            UpdateIfStatus(c, AckableStatuses, FailedRow(rows[c], snap, t))
      BY <2>2 DEF SweepCommand, SweepWrite
    <3>2. t \in Nat /\ t <= now
      BY <1>1
    <3>3. rows[c].status \in AckableStatuses => Replaces(FailedRow(rows[c], snap, t), c)
      BY <1>1, <3>2, FailedRowReplaces
    <3> QED BY <1>2, <3>1, <3>3, WriteIfStatus
  <2> QED BY <2>1, <2>2
<1>4. scheduler' = [scheduler EXCEPT ![s] = IF scheduler[s].todo = {c} THEN IdleScheduler ELSE me]
  BY DEF SweepCommand
<1> HIDE DEF snap
<1>5. /\ me \in SchedulerState
      /\ me.at = scheduler[s].at /\ me.readAt = scheduler[s].readAt
      /\ me.todo = scheduler[s].todo \ {c}
      /\ \A e \in me.todo : me.snap[e] = scheduler[s].snap[e]
  BY <1>1, NoRowType DEF SweepRest, SchedulerState
<1> HIDE DEF me
<1>6. /\ scheduler' \in [Schedulers -> SchedulerState]
      /\ scheduler'[s] = IdleScheduler \/ scheduler'[s] = me
      /\ \A r \in Schedulers : r # s => scheduler'[r] = scheduler[r]
  BY <1>4, <1>5, IdleSchedulerType DEF IInv, TypeOK
<1>7. SweepOK(s)'
  <2>1. CASE scheduler'[s] = me
    <3>1. \A e \in scheduler[s].todo : e \in Commands /\ scheduler[s].snap[e] \in Row
                                      /\ CopyOf(scheduler[s].snap[e], e)
      BY <1>1 DEF IInv, SweepOK, SchedulerState
    <3>2. \A e \in me.todo : /\ rows'[e].status # "absent"
                             /\ me.snap[e].attempts <= rows'[e].attempts
                             /\ me.snap[e].expiresAt = rows'[e].expiresAt
      BY <1>5, <1>3, <3>1, CopyStays DEF CopyOf, Begun, StoreAdvances, RowAdvances, IInv, TypeOK, Row
    <3> QED BY <1>1, <1>2, <1>5, <2>1, <3>2 DEF SweepOK, CopyOf, Begun
  <2>2. CASE scheduler'[s] = IdleScheduler
    BY <1>3, <2>2, IdleSchedulerOK
  <2> QED BY <1>6, <2>1, <2>2
<1> QED BY <1>3, <1>6, <1>7, SchedulerStep DEF SweepCommand

LEMMA SweepAbortIInv == ASSUME IInv, NEW s \in Schedulers, SweepAbort(s) PROVE StoreAdvances /\ IInv'
<1>1. /\ scheduler' \in [Schedulers -> SchedulerState]
      /\ scheduler'[s] = IdleScheduler
      /\ \A r \in Schedulers : r # s => scheduler'[r] = scheduler[r]
  BY IdleSchedulerType DEF SweepAbort, IInv, TypeOK
<1>2. rows' = rows /\ UNCHANGED <<now, completed, reissueOf>>
  BY DEF SweepAbort, storeVars, sensorVars
<1> QED BY <1>1, <1>2, WriteNone, IdleSchedulerOK, SchedulerStep DEF SweepAbort
-----------------------------------------------------------------------------
(* The theorems.                                                             *)

LEMMA HandlerNextIInv == ASSUME IInv, NEW h \in Handlers, HandlerNext(h) PROVE StoreAdvances /\ IInv'
<1>1. \A c \in Commands : RetryRead(h, c) => StoreAdvances /\ IInv'
  BY ReadDeadLetterIInv DEF RetryRead
<1>2. \A c \in Commands : DismissRead(h, c) => StoreAdvances /\ IInv'
  BY ReadDeadLetterIInv DEF DismissRead
<1> QED
  BY <1>1, <1>2, ClaimBeginIInv, ClaimLockIInv, ClaimCommitIInv, AckReadIInv, AckSuccessIInv,
     AckFailureIInv, RetryCreateIInv, RetryUpdateIInv, DismissUpdateIInv, HandlerCrashIInv
  DEF HandlerNext

LEMMA SchedulerNextIInv == ASSUME IInv, NEW s \in Schedulers, SchedulerNext(s) PROVE StoreAdvances /\ IInv'
BY SweepBeginIInv, SweepReadIInv, SweepCommandIInv, SweepAbortIInv DEF SchedulerNext

LEMMA StutterIInv == ASSUME IInv, UNCHANGED vars PROVE StoreAdvances /\ IInv'
<1>1. /\ UNCHANGED <<now, rows, handler, scheduler>>
      /\ UNCHANGED <<poll, batch, acks, completed, reissueOf>>
  BY DEF vars
<1>2. StoreAdvances /\ RowsOK' /\ \A g \in Handlers : \A d \in handler[g].locked : rows'[d] = rows[d]
  BY <1>1, WriteNone
<1>3. SensorOK'
  BY <1>1, <1>2, SensorStays
<1> QED BY <1>1, <1>2, <1>3, OutsideStep DEF IInv, TypeOK

\* Every step, of whatever process, advances the store and keeps the invariant.
LEMMA NextStep == ASSUME IInv, [Next]_vars PROVE StoreAdvances /\ IInv'
<1>1. CASE Tick
  BY <1>1, TickIInv
<1>2. ASSUME NEW c \in Commands, Issue(c) \/ Run(c) PROVE StoreAdvances /\ IInv'
  BY <1>2, IssueIInv, RunIInv
<1>3. CASE SensorRestart
  BY <1>3, SensorRestartIInv
<1>4. ASSUME NEW h \in Handlers, HandlerNext(h) PROVE StoreAdvances /\ IInv'
  BY <1>4, HandlerNextIInv
<1>5. ASSUME NEW s \in Schedulers, SchedulerNext(s) PROVE StoreAdvances /\ IInv'
  BY <1>5, SchedulerNextIInv
<1>6. CASE UNCHANGED vars
  BY <1>6, StutterIInv
<1> QED BY <1>1, <1>2, <1>3, <1>4, <1>5, <1>6 DEF Next

\* The inductive invariant: every copy of a row that is in use is one of that
\* row, possibly with fewer attempts, and no two transactions hold one row.
THEOREM Inductive == Spec => []IInv
<1>1. Init => IInv
  BY InitIInv
<1>2. IInv /\ [Next]_vars => IInv'
  BY NextStep
<1> QED BY <1>1, <1>2, PTL DEF Spec

\* A settled command never becomes deliverable again and an acknowledged row is
\* never written again, by any of the concurrent handlers and sweeps.
THEOREM NothingResurrected == Spec => NeverResurrected
<1>1. IInv /\ [Next]_vars =>
        [\A c \in Commands : rows[c].status \in Settled =>
            /\ rows'[c].status \in Settled
            /\ rows[c].status = "acknowledged" => rows'[c] = rows[c]]_vars
  BY NextStep DEF StoreAdvances, RowAdvances, Settled
<1> QED BY <1>1, Inductive, PTL DEF Spec, NeverResurrected

\* However many replicas poll for the sensor, each delivery is claimed once: the
\* attempt count moves only from a waiting row, by one, to a dispatched row.
THEOREM EachDeliveryClaimedOnce == Spec => ClaimedOnce
<1>1. IInv /\ [Next]_vars =>
        [\A c \in Commands : rows'[c].attempts # rows[c].attempts =>
            /\ rows[c].status \in DeliverableStatuses
            /\ rows'[c].status = "dispatched"
            /\ rows'[c].attempts = rows[c].attempts + 1]_vars
  BY NextStep DEF StoreAdvances, RowAdvances
<1> QED BY <1>1, Inductive, PTL DEF Spec, ClaimedOnce

\* Every variable keeps to its kind: rows, handlers, sweeps and messages.
THEOREM TypeCorrect == Spec => []TypeOK
<1>1. IInv => TypeOK
  BY DEF IInv
<1> QED BY <1>1, Inductive, PTL

\* Every dead letter has the reason it names, although fail decides by a copy
\* read before other handlers and sweeps wrote the row.
THEOREM DeadLettersJustified == Spec => []DeadLetterJustified
<1>1. IInv => DeadLetterJustified
  BY DEF IInv, RowsOK
<1> QED BY <1>1, Inductive, PTL

\* Only what the sensor carried out is acknowledged.
THEOREM AcknowledgementsTrue == Spec => []AcknowledgedWasCompleted
<1>1. IInv => AcknowledgedWasCompleted
  BY DEF IInv, RowsOK
<1> QED BY <1>1, Inductive, PTL

\* The original of a reissue stays out of delivery, with concurrent operators
\* and crashes between the writes of a retry.
THEOREM ReissuesConsistent == Spec => []ReissuedIsOutOfDelivery
<1>1. IInv => ReissuedIsOutOfDelivery
  BY DEF IInv, RowsOK
<1> QED BY <1>1, Inductive, PTL

\* A command marked as retried names a reissue that was issued for it, although
\* the mark is written some awaits after the reissue was created.
THEOREM RetriesNamed == Spec => []RetriedHasSuccessor
<1>1. IInv => RetriedHasSuccessor
  BY DEF IInv, RowsOK
<1> QED BY <1>1, Inductive, PTL

-----------------------------------------------------------------------------
(* The refinement: every step of the code is a step of the lifecycle, or     *)
(* changes nothing that the lifecycle speaks of.                             *)

LifecycleStep == [Lifecycle!Next]_(Lifecycle!vars)

LEMMA SameRowsAreAStutter == ASSUME rows' = rows PROVE LifecycleStep
BY DEF LifecycleStep, Lifecycle!vars

\* One row is replaced by one with the same attempts: its command moves.
LEMMA OneRowMoves ==
    ASSUME IInv, NEW c \in Commands, NEW row \in Row, rows' = [rows EXCEPT ![c] = row],
           row.attempts = rows[c].attempts, NEW from, rows[c].status \in from
    PROVE  Lifecycle!Move(c, from, row.status)
<1>1. \A d \in Commands : rows'[d] = IF d = c THEN row ELSE rows[d]
  BY DEF IInv, TypeOK
<1>2. \A d \in Commands :
        /\ rows'[d].status = IF d = c THEN row.status ELSE rows[d].status
        /\ rows'[d].attempts = rows[d].attempts
  BY <1>1
<1>3. [d \in Commands |-> rows[d].status][c] \in from
  OBVIOUS
<1>4. [d \in Commands |-> rows[d].status]' = [[d \in Commands |-> rows[d].status] EXCEPT ![c] = row.status]
  BY <1>2
<1>5. UNCHANGED [d \in Commands |-> rows[d].attempts]
  BY <1>2
<1> QED BY <1>3, <1>4, <1>5 DEF Lifecycle!Move

LEMMA CommandMoves ==
    ASSUME NEW c \in Commands,
           Lifecycle!Issue(c) \/ Lifecycle!Reschedule(c) \/ Lifecycle!Settle(c) \/ Lifecycle!Resolve(c)
    PROVE  LifecycleStep
BY DEF LifecycleStep, Lifecycle!Next

\* createSensorCommand, for an operator or for a retry.
LEMMA NewRowIssues ==
    ASSUME IInv, NEW c \in Commands, Fresh(c), rows' = [rows EXCEPT ![c] = NewRow(now)]
    PROVE  LifecycleStep
<1>1. rows[c].status \in {"absent"} /\ rows[c].attempts = 0 /\ now \in Nat
  BY NoRowType DEF Fresh, Begun, IInv, RowsOK, TypeOK
<1>2. Lifecycle!Move(c, {"absent"}, "queued")
  <2>1. NewRow(now) \in Row /\ NewRow(now).status = "queued" /\ NewRow(now).attempts = 0
    BY <1>1, NewRowType
  <2> QED BY <1>1, <2>1, OneRowMoves
<1> QED BY <1>2, CommandMoves DEF Lifecycle!Issue

\* A claim that commits hands out the rows it had locked and found due.
LEMMA ClaimDelivers == ASSUME IInv, NEW h \in Handlers, ClaimCommit(h) PROVE LifecycleStep
<1>1. handler[h].due \in SUBSET Commands /\ handler[h].at \in Nat
  BY DEF HandlerState, IInv, TypeOK
<1> PICK taken \in SUBSET Commands : taken = handler[h].due
  BY <1>1
<1>2. \A c \in taken : rows[c].status \in DeliverableStatuses
  BY DEF HandlerOK, LocksOK, IInv
<1>3. \A c \in Commands :
        /\ rows[c] \in Row
        /\ rows'[c] = IF c \in taken THEN DispatchedRow(rows[c], handler[h].at) ELSE rows[c]
  BY DEF ClaimCommit, IInv, TypeOK
<1>4. \A c \in Commands :
        /\ rows'[c].status = IF c \in taken THEN "dispatched" ELSE rows[c].status
        /\ rows'[c].attempts = IF c \in taken THEN rows[c].attempts + 1 ELSE rows[c].attempts
  BY <1>1, <1>3, DispatchedRowType
<1>5. Lifecycle!Deliver(taken)
  BY <1>1, <1>2, <1>4 DEF Lifecycle!Deliver, Lifecycle!Deliverable, DeliverableStatuses
<1> QED BY <1>5 DEF LifecycleStep, Lifecycle!Next

\* A compare-and-set either moves its command or leaves the row alone.
LEMMA WriteIfStatusMoves ==
    ASSUME IInv, NEW c \in Commands, NEW expected, NEW row, UpdateIfStatus(c, expected, row),
           rows[c].status \in expected =>
              /\ row \in Row
              /\ row.attempts = rows[c].attempts
              /\ \/ expected \subseteq ExpirableStatuses /\ row.status = "dead_lettered"
                 \/ expected \subseteq AckableStatuses /\ row.status \in {"retrying", "acknowledged"}
    PROVE  LifecycleStep
<1>1. CASE rows[c].status \notin expected
  BY <1>1, SameRowsAreAStutter DEF UpdateIfStatus
<1>2. CASE rows[c].status \in expected
  <2>1. rows' = [rows EXCEPT ![c] = row]
    BY <1>2 DEF UpdateIfStatus
  <2>2. CASE expected \subseteq ExpirableStatuses /\ row.status = "dead_lettered"
    <3>1. rows[c].status \in Lifecycle!Live
      BY <1>2, <2>2 DEF ExpirableStatuses, Lifecycle!Live, Lifecycle!Deliverable, Lifecycle!Outstanding
    <3>2. Lifecycle!Move(c, Lifecycle!Live, "dead_lettered")
      BY <1>2, <2>1, <2>2, <3>1, OneRowMoves
    <3> QED BY <3>2, CommandMoves DEF Lifecycle!DeadLetter, Lifecycle!Settle
  <2>3. CASE expected \subseteq AckableStatuses /\ row.status \in {"retrying", "acknowledged"}
    <3>1. rows[c].status \in Lifecycle!Outstanding
      BY <1>2, <2>3 DEF AckableStatuses, Lifecycle!Outstanding
    <3>2. Lifecycle!Move(c, Lifecycle!Outstanding, row.status)
      BY <1>2, <2>1, <3>1, OneRowMoves
    <3> QED BY <2>3, <3>2, CommandMoves DEF Lifecycle!Reschedule, Lifecycle!Acknowledge, Lifecycle!Settle
  <2> QED BY <1>2, <2>2, <2>3
<1> QED BY <1>1, <1>2

LEMMA AckSuccessMoves == ASSUME IInv, NEW h \in Handlers, AckSuccess(h) PROVE LifecycleStep
<1> DEFINE c == handler[h].cmd
<1>1. c \in Commands /\ rows[c] \in Row
  BY DEF AckSuccess, HandlerOK, IInv, TypeOK
<1>2. UpdateIfStatus(c, AckableStatuses, AcknowledgedRow(rows[c]))
  BY DEF AckSuccess
<1> HIDE DEF c
<1>3. /\ AcknowledgedRow(rows[c]) \in Row
      /\ AcknowledgedRow(rows[c]).attempts = rows[c].attempts
      /\ AcknowledgedRow(rows[c]).status = "acknowledged"
  BY <1>1, AcknowledgedRowType
<1> QED BY <1>1, <1>2, <1>3, WriteIfStatusMoves

\* A failure report, of the sensor or of the sweep, through fail.
LEMMA FailMoves ==
    ASSUME IInv, NEW c \in Commands, NEW snap \in Row, NEW t \in Nat,
           UpdateIfStatus(c, AckableStatuses, FailedRow(rows[c], snap, t))
    PROVE  LifecycleStep
<1>1. /\ FailedRow(rows[c], snap, t) \in Row
      /\ FailedRow(rows[c], snap, t).attempts = rows[c].attempts
      /\ FailedRow(rows[c], snap, t).status \in {"dead_lettered", "retrying"}
  <2>1. rows[c] \in Row
    BY DEF IInv, TypeOK
  <2> QED BY <2>1, FailedRowType
<1>2. AckableStatuses \subseteq ExpirableStatuses
  BY DEF AckableStatuses, ExpirableStatuses
<1> QED BY <1>1, <1>2, WriteIfStatusMoves

LEMMA AckFailureMoves == ASSUME IInv, NEW h \in Handlers, AckFailure(h) PROVE LifecycleStep
<1> DEFINE c == handler[h].cmd
           snap == handler[h].snap
<1>1. c \in Commands /\ snap \in Row /\ handler[h].at \in Nat /\ now \in Nat
  BY DEF AckFailure, HandlerOK, HandlerState, IInv, TypeOK
<1>2. PICK t \in handler[h].at..now :
        UpdateIfStatus(c, AckableStatuses, FailedRow(rows[c], snap, t))
  BY DEF AckFailure
<1> HIDE DEF c, snap
<1>3. t \in Nat
  BY <1>1
<1> QED BY <1>1, <1>2, <1>3, FailMoves

LEMMA SweepCommandMoves ==
    ASSUME IInv, NEW s \in Schedulers, NEW c \in Commands, SweepCommand(s, c)
    PROVE  LifecycleStep
<1> DEFINE snap == scheduler[s].snap[c]
<1>1. snap \in Row /\ rows[c] \in Row /\ scheduler[s].readAt \in Nat /\ now \in Nat
  BY DEF SchedulerState, IInv, TypeOK
<1>2. CASE ExpiredIn(snap, scheduler[s].at)
  <2>1. UpdateIfStatus(c, ExpirableStatuses, DeadLetteredRow(rows[c], "expired"))
    BY <1>2 DEF SweepCommand, SweepWrite
  <2>2. "expired" \in Reasons
    BY DEF Reasons
  <2>3. /\ DeadLetteredRow(rows[c], "expired") \in Row
        /\ DeadLetteredRow(rows[c], "expired").attempts = rows[c].attempts
        /\ DeadLetteredRow(rows[c], "expired").status = "dead_lettered"
    BY <1>1, <2>2, DeadLetteredRowType
  <2> QED BY <2>1, <2>3, WriteIfStatusMoves
<1>3. CASE ~ExpiredIn(snap, scheduler[s].at)
  <2>1. PICK t \in scheduler[s].readAt..now :
          UpdateIfStatus(c, AckableStatuses, FailedRow(rows[c], snap, t))
    BY <1>3 DEF SweepCommand, SweepWrite
  <2>2. t \in Nat
    BY <1>1
  <2> QED BY <1>1, <2>1, <2>2, FailMoves
<1> QED BY <1>2, <1>3

\* The operators' second writes: whoever of two concurrent operators comes
\* last, the command was and stays in the dead-letter queue's keeping.
LEMMA ResolvedRowMoves ==
    ASSUME IInv, NEW c \in Commands, NEW row \in Row, rows' = [rows EXCEPT ![c] = row],
           rows[c].status \in Resolvable, row.attempts = rows[c].attempts,
           row.status \in {"retried", "dismissed"}
    PROVE  LifecycleStep
<1>1. Lifecycle!Move(c, {"dead_lettered", "retried", "dismissed"}, row.status)
  BY OneRowMoves DEF Resolvable
<1> QED BY <1>1, CommandMoves DEF Lifecycle!Resolve

LEMMA RetryUpdateMoves == ASSUME IInv, NEW h \in Handlers, RetryUpdate(h) PROVE LifecycleStep
<1> DEFINE c == handler[h].cmd
           row == RetriedRow(rows[c], handler[h].successor)
<1>1. c \in Commands /\ rows[c] \in Row /\ rows[c].status \in Resolvable /\ handler[h].successor \in Commands
  BY DEF RetryUpdate, HandlerOK, IInv, TypeOK
<1>2. rows' = [rows EXCEPT ![c] = row]
  BY <1>1 DEF RetryUpdate, Update, Resolvable
<1>3. row \in Row /\ row.attempts = rows[c].attempts /\ row.status = "retried"
  BY <1>1, RetriedRowType
<1> HIDE DEF c, row
<1> QED BY <1>1, <1>2, <1>3, ResolvedRowMoves

LEMMA DismissUpdateMoves == ASSUME IInv, NEW h \in Handlers, DismissUpdate(h) PROVE LifecycleStep
<1> DEFINE c == handler[h].cmd
           row == DismissedRow(rows[c])
<1>1. c \in Commands /\ rows[c] \in Row /\ rows[c].status \in Resolvable
  BY DEF DismissUpdate, HandlerOK, IInv, TypeOK
<1>2. rows' = [rows EXCEPT ![c] = row]
  BY <1>1 DEF DismissUpdate, Update, Resolvable
<1>3. row \in Row /\ row.attempts = rows[c].attempts /\ row.status = "dismissed"
  BY <1>1, DismissedRowType
<1> HIDE DEF c, row
<1> QED BY <1>1, <1>2, <1>3, ResolvedRowMoves

LEMMA HandlerMoves == ASSUME IInv, NEW h \in Handlers, HandlerNext(h) PROVE LifecycleStep
<1>1. CASE ClaimBegin(h) \/ ClaimLock(h) \/ AckRead(h) \/ HandlerCrash(h)
  BY <1>1, SameRowsAreAStutter DEF ClaimBegin, ClaimLock, AckRead, HandlerCrash, storeVars
<1>2. CASE \E c \in Commands : RetryRead(h, c) \/ DismissRead(h, c)
  BY <1>2, SameRowsAreAStutter DEF RetryRead, DismissRead, ReadDeadLetter, storeVars
<1>3. CASE RetryCreate(h)
  BY <1>3, NewRowIssues DEF RetryCreate
<1> QED
  BY <1>1, <1>2, <1>3, ClaimDelivers, AckSuccessMoves, AckFailureMoves, RetryUpdateMoves,
     DismissUpdateMoves
  DEF HandlerNext

LEMMA SchedulerMoves == ASSUME IInv, NEW s \in Schedulers, SchedulerNext(s) PROVE LifecycleStep
<1>1. CASE SweepBegin(s) \/ SweepRead(s) \/ SweepAbort(s)
  BY <1>1, SameRowsAreAStutter DEF SweepBegin, SweepRead, SweepAbort, storeVars
<1> QED BY <1>1, SweepCommandMoves DEF SchedulerNext

\* The handlers, the sweeps and the sensor implement the lifecycle: whatever
\* they interleave and however old their copies are, a command only makes the
\* moves that CommandLifecycle has.  (Its fairness is TLC's: liveness.)
THEOREM ImplementsLifecycleSafety ==
    Spec => Lifecycle!Init /\ [][Lifecycle!Next]_(Lifecycle!vars)
<1>1. Init => Lifecycle!Init
  BY NoRowType DEF Init, Lifecycle!Init
<1>2. IInv /\ [Next]_vars => [Lifecycle!Next]_(Lifecycle!vars)
  <2>1. SUFFICES ASSUME IInv, [Next]_vars PROVE LifecycleStep
    BY DEF LifecycleStep
  <2>2. CASE Tick \/ SensorRestart \/ UNCHANGED vars
    BY <2>2, SameRowsAreAStutter DEF Tick, SensorRestart, vars, storeVars
  <2>3. ASSUME NEW c \in Commands, Issue(c) PROVE LifecycleStep
    BY <2>1, <2>3, NewRowIssues DEF Issue
  <2>4. ASSUME NEW c \in Commands, Run(c) PROVE LifecycleStep
    BY <2>4, SameRowsAreAStutter DEF Run, RunUntil, storeVars
  <2> QED BY <2>1, <2>2, <2>3, <2>4, HandlerMoves, SchedulerMoves DEF Next
<1> QED BY <1>1, <1>2, Inductive, PTL DEF Spec
=============================================================================
