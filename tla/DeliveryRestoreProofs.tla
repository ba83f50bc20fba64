------------------------ MODULE DeliveryRestoreProofs ------------------------
(* Machine-checked proofs about DeliveryRestore: what the delivery of        *)
(* commands keeps of its promises while restores replace the rows under it.  *)
(* The invariant of CommandDelivery does not hold here, so each of its steps *)
(* is looked at again, from RestoreIInv; the lemmas about single rows are    *)
(* those of CommandDeliveryProofs.                                           *)
EXTENDS DeliveryRestore, CommandDeliveryProofs

-----------------------------------------------------------------------------
(* How a step of the delivery may change the rows, whichever they are.       *)

RowMoves(c) ==
    /\ rows'[c] \in Row
    /\ \/ rows'[c].attempts = rows[c].attempts
       \/ /\ rows[c].status \in DeliverableStatuses
          /\ rows'[c].status = "dispatched"
          /\ rows'[c].attempts = rows[c].attempts + 1
    /\ Begun(c) => /\ rows'[c].expiresAt = rows[c].expiresAt
                   /\ rows'[c].status # "absent"
                   /\ reissueOf'[c] = reissueOf[c]
    /\ rows[c].status \in Resolvable => rows'[c].status \in Resolvable
    /\ rows[c].status = "acknowledged" => rows'[c].status \in Settled

StoreMoves ==
    /\ \A c \in Commands : RowMoves(c)
    /\ rows' \in [Commands -> Row]
    /\ reissueOf' \in [Commands -> Commands \union {NoCommand}]
    /\ now' \in 0..MaxTime
    /\ now <= now'
    /\ completed' \subseteq Commands
    /\ completed \subseteq completed'

\* What a row that was written shows.
RowEarned(c) ==
    /\ rows'[c].status # "absent"
    /\ rows'[c].expiresAt # 0
    /\ rows'[c].status = "acknowledged" => c \in completed'
    /\ ~outlived =>
          /\ rows'[c].deadLetterReason = "attempt_limit" => rows'[c].attempts >= MaxAttempts
          /\ rows'[c].deadLetterReason = "expired" => rows'[c].expiresAt <= now'
          /\ rows'[c].status = "retried" =>
                /\ rows'[c].retriedAs \in Commands
                /\ Begun(rows'[c].retriedAs)
                /\ reissueOf[rows'[c].retriedAs] = c

\* A command is noted as a reissue of one that is out of delivery.
ReissuesEarned ==
    ~outlived => \A c, d \in Commands : reissueOf'[d] = c =>
                    reissueOf[d] = c \/ rows[c].status \in Resolvable

\* What a step of the delivery does to the store, in full.
StoreServed ==
    /\ StoreMoves
    /\ \A c \in Commands : (rows'[c] = rows[c] /\ reissueOf'[c] = reissueOf[c]) \/ RowEarned(c)
    /\ ReissuesEarned

LEMMA RowsTyped ==
    ASSUME RestoreIInv
    PROVE  /\ rows \in [Commands -> Row]
           /\ reissueOf \in [Commands -> Commands \union {NoCommand}]
           /\ \A c \in Commands : rows[c] \in Row /\ rows[c].attempts \in Nat /\ rows[c].expiresAt \in Nat
           /\ now \in 0..MaxTime /\ now \in Nat
           /\ completed \subseteq Commands
           /\ handler \in [Handlers -> HandlerState]
           /\ scheduler \in [Schedulers -> SchedulerState]
           /\ expiry \in [Commands -> Nat]
<1>1. TypeOK /\ expiry \in [Commands -> Nat]
  BY DEF RestoreIInv, RestoreTypeOK
<1>2. \A c \in Commands : rows[c] \in Row
  BY <1>1 DEF TypeOK
<1>3. \A c \in Commands : rows[c].attempts \in Nat /\ rows[c].expiresAt \in Nat
  BY <1>2 DEF Row
<1>4. now \in Nat
  BY <1>1 DEF TypeOK
<1> QED BY <1>1, <1>2, <1>3, <1>4 DEF TypeOK

LEMMA SameStoreServed ==
    ASSUME RestoreIInv, rows' = rows, reissueOf' = reissueOf, now' \in 0..MaxTime, now <= now',
           completed' \subseteq Commands, completed \subseteq completed'
    PROVE  StoreServed
<1>1. \A c \in Commands : RowMoves(c)
  BY RowsTyped DEF RowMoves, Begun, Settled
<1>2. ReissuesEarned
  BY DEF ReissuesEarned
<1> QED BY <1>1, <1>2, RowsTyped DEF StoreServed, StoreMoves

\* One row is written, the others stay.
LEMMA OneRowServed ==
    ASSUME RestoreIInv, NEW c \in Commands, NEW row \in Row, Begun(c),
           rows' = [rows EXCEPT ![c] = row], UNCHANGED <<now, completed, reissueOf>>,
           row.attempts = rows[c].attempts, row.expiresAt = rows[c].expiresAt,
           row.status # "absent",
           rows[c].status \in Resolvable => row.status \in Resolvable,
           rows[c].status = "acknowledged" => row.status \in Settled,
           row.status = "acknowledged" => c \in completed,
           ~outlived =>
              /\ row.deadLetterReason = "attempt_limit" => row.attempts >= MaxAttempts
              /\ row.deadLetterReason = "expired" => row.expiresAt <= now
              /\ row.status = "retried" =>
                    row.retriedAs \in Commands /\ Begun(row.retriedAs) /\ reissueOf[row.retriedAs] = c
    PROVE  StoreServed
<1>1. rows'[c] = row /\ \A d \in Commands : d # c => rows'[d] = rows[d]
  BY RowsTyped
<1>2. \A d \in Commands : d # c => RowMoves(d)
  BY <1>1, RowsTyped DEF RowMoves, Begun, Settled
<1>3. RowMoves(c)
  BY <1>1, RowsTyped DEF RowMoves
<1>4. rows' \in [Commands -> Row] /\ now <= now
  BY RowsTyped
<1>5. StoreMoves
  BY <1>2, <1>3, <1>4, RowsTyped DEF StoreMoves
<1>6. rows[c].expiresAt # 0
  BY DEF RestoreIInv, StoreSound, Begun
<1>7. RowEarned(c)
  BY <1>1, <1>6 DEF RowEarned
<1>8. ReissuesEarned
  BY DEF ReissuesEarned
<1> QED BY <1>1, <1>5, <1>7, <1>8 DEF StoreServed

-----------------------------------------------------------------------------
(* What a step that serves the store keeps.                                  *)

\* The expiry of a command that was ever issued is never noted anew.
LEMMA ExpiryStays ==
    ASSUME RestoreIInv, StoreMoves, Noted
    PROVE  /\ expiry' \in [Commands -> Nat]
           /\ \A c \in Commands : expiry[c] # 0 => expiry'[c] = expiry[c]
           /\ \A c \in Commands : rows'[c].status # "absent" => expiry'[c] = rows'[c].expiresAt
           /\ \A c \in Commands : Begun(c) => expiry[c] # 0
           /\ UNCHANGED <<archive, restoring, restores, outlived>>
<1>1. \A c \in Commands :
        expiry'[c] = IF rows'[c].status = "absent" THEN expiry[c] ELSE rows'[c].expiresAt
  BY DEF Noted
<1>2. \A c \in Commands : rows'[c].expiresAt \in Nat
  BY DEF StoreMoves, RowMoves, Row
<1>3. expiry' \in [Commands -> Nat]
  BY <1>2, RowsTyped DEF Noted
<1>4. \A c \in Commands : Begun(c) => expiry[c] # 0 /\ rows[c].expiresAt = expiry[c]
  BY DEF RestoreIInv, StoreSound, Begun
<1>5. \A c \in Commands : expiry[c] # 0 => expiry'[c] = expiry[c]
  <2> SUFFICES ASSUME NEW c \in Commands, expiry[c] # 0 PROVE expiry'[c] = expiry[c]
    OBVIOUS
  <2>1. CASE Begun(c)
    BY <1>1, <1>4, <2>1 DEF StoreMoves, RowMoves
  <2>2. CASE ~Begun(c)
    BY <1>1, <2>2 DEF Noted, NewNames, Begun
  <2> QED BY <2>1, <2>2
<1> QED BY <1>1, <1>3, <1>4, <1>5 DEF Noted, restoreVars

\* The archive is as good as before.
LEMMA ArchiveStays ==
    ASSUME RestoreIInv, StoreMoves, Noted
    PROVE  /\ StoreSound(archive.rows, archive.reissueOf)'
           /\ ~outlived => StoreConsistent(archive.rows, archive.reissueOf)'
<1>1. archive' = archive /\ \A c \in Commands : expiry[c] # 0 => expiry'[c] = expiry[c]
  BY ExpiryStays
<1>2. StoreSound(archive.rows, archive.reissueOf)'
  BY <1>1 DEF RestoreIInv, StoreSound, StoreMoves
<1>3. ASSUME ~outlived PROVE StoreConsistent(archive.rows, archive.reissueOf)'
  <2>1. StoreConsistent(archive.rows, archive.reissueOf)
    BY <1>3 DEF RestoreIInv, NothingOutlived
  <2>2. \A c \in Commands : archive.rows[c].expiresAt \in Nat
    BY DEF RestoreIInv, RestoreTypeOK, Row
  <2>3. now \in Nat /\ now' \in Nat /\ now <= now'
    BY RowsTyped DEF StoreMoves
  <2>4. \A c \in Commands : archive.rows[c].expiresAt <= now => archive.rows[c].expiresAt <= now'
    BY <2>2, <2>3
  <2> QED BY <1>1, <2>1, <2>4 DEF StoreConsistent
<1> QED BY <1>2, <1>3

\* So are the rows.
LEMMA StoreStays ==
    ASSUME RestoreIInv, StoreServed, Noted
    PROVE  /\ StoreSound(rows, reissueOf)'
           /\ ~outlived => StoreConsistent(rows, reissueOf)'
<1>1. StoreMoves
  BY DEF StoreServed
<1>2. \A c \in Commands : rows'[c].status # "absent" => expiry'[c] = rows'[c].expiresAt
  BY <1>1, ExpiryStays
<1>3. StoreSound(rows, reissueOf)
  BY DEF RestoreIInv
<1>4. StoreSound(rows, reissueOf)'
  <2> SUFFICES ASSUME NEW c \in Commands
               PROVE  /\ rows'[c].status = "absent" => rows'[c] = NoRow /\ reissueOf'[c] = NoCommand
                      /\ rows'[c].status # "absent" => expiry'[c] # 0 /\ rows'[c].expiresAt = expiry'[c]
                      /\ rows'[c].status = "acknowledged" => c \in completed'
    BY DEF StoreSound
  <2>1. CASE rows'[c] = rows[c] /\ reissueOf'[c] = reissueOf[c]
    BY <1>1, <1>2, <1>3, <2>1 DEF StoreSound, StoreMoves
  <2>2. CASE RowEarned(c)
    BY <1>2, <2>2 DEF RowEarned
  <2> QED BY <2>1, <2>2 DEF StoreServed
<1>5. ASSUME ~outlived PROVE StoreConsistent(rows, reissueOf)'
  <2>1. StoreConsistent(rows, reissueOf)
    BY <1>5 DEF RestoreIInv, NothingOutlived
  <2>2. ASSUME NEW c \in Commands
        PROVE  /\ rows'[c].deadLetterReason = "attempt_limit" => rows'[c].attempts >= MaxAttempts
               /\ rows'[c].deadLetterReason = "expired" => rows'[c].expiresAt <= now'
    <3>1. CASE rows'[c] = rows[c]
      <4>1. rows[c].expiresAt \in Nat /\ now \in Nat /\ now' \in Nat /\ now <= now'
        BY <1>1, RowsTyped DEF StoreMoves
      <4>2. rows[c].deadLetterReason = "expired" => rows[c].expiresAt <= now
        BY <2>1 DEF StoreConsistent
      <4>3. rows[c].deadLetterReason = "attempt_limit" => rows[c].attempts >= MaxAttempts
        BY <2>1 DEF StoreConsistent
      <4> QED BY <3>1, <4>1, <4>2, <4>3
    <3>2. CASE RowEarned(c)
      BY <1>5, <3>2 DEF RowEarned
    <3> QED BY <3>1, <3>2 DEF StoreServed
  <2>3. ASSUME NEW c \in Commands, NEW d \in Commands, reissueOf'[d] = c
        PROVE  rows'[c].status \in Resolvable
    <3>1. rows[c].status \in Resolvable
      BY <1>5, <2>1, <2>3 DEF StoreServed, ReissuesEarned, StoreConsistent
    <3> QED BY <1>1, <3>1 DEF StoreMoves, RowMoves
  <2>4. ASSUME NEW c \in Commands, rows'[c].status = "retried"
        PROVE  /\ rows'[c].retriedAs \in Commands
               /\ rows'[rows'[c].retriedAs].status # "absent"
               /\ reissueOf'[rows'[c].retriedAs] = c
    <3>1. PICK d \in Commands : d = rows'[c].retriedAs /\ Begun(d) /\ reissueOf[d] = c
      <4>1. CASE rows'[c] = rows[c]
        BY <2>1, <2>4, <4>1 DEF StoreConsistent, Begun
      <4>2. CASE RowEarned(c)
        BY <1>5, <2>4, <4>2 DEF RowEarned
      <4> QED BY <4>1, <4>2 DEF StoreServed
    <3> QED BY <1>1, <3>1 DEF StoreMoves, RowMoves
  <2> QED BY <2>2, <2>3, <2>4 DEF StoreConsistent
<1> QED BY <1>4, <1>5

-----------------------------------------------------------------------------
(* What a step leaves to the processes that do not take it.                  *)

\* A copy of a row stays one while the delivery goes on.
LEMMA CopyMoves ==
    ASSUME RestoreIInv, StoreMoves, NEW snap \in Row, NEW c \in Commands, CopyOf(snap, c)
    PROVE  CopyOf(snap, c)'
<1>1. snap.attempts \in Nat /\ rows[c].attempts \in Nat /\ rows'[c].attempts \in Nat
  BY RowsTyped DEF StoreMoves, Row
<1> QED BY <1>1 DEF StoreMoves, RowMoves, CopyOf, Begun

\* What a handler needs at its next step, and what a sweep needs.
HandlerReady(h) == HandlerKeeps(h) /\ (~outlived => HandlerCopies(h))

SweepReady(s) == SweepKeeps(s) /\ (~outlived => SweepCopies(s))

LEMMA HandlerWaits ==
    ASSUME RestoreIInv, StoreMoves, Noted, NEW h \in Handlers, handler'[h] = handler[h]
    PROVE  HandlerReady(h)'
<1> DEFINE me == handler[h]
<1>1. HandlerKeeps(h) /\ me \in HandlerState
  BY RowsTyped DEF RestoreIInv
<1>2. me.at <= now'
  BY <1>1, RowsTyped DEF HandlerKeeps, HandlerState, StoreMoves
<1>3. HandlerKeeps(h)'
  BY <1>1, <1>2 DEF HandlerKeeps, StoreMoves
<1>4. ASSUME ~outlived PROVE HandlerCopies(h)'
  <2>1. HandlerCopies(h)
    BY <1>4 DEF RestoreIInv, NothingOutlived
  <2>2. ASSUME me.pc = "ack_failure"
        PROVE  expiry'[me.cmd] # 0 /\ (Begun(me.cmd)' => CopyOf(me.snap, me.cmd)')
    <3>1. me.cmd \in Commands /\ me.snap \in Row
      BY <1>1, <2>2 DEF HandlerKeeps, HandlerState
    <3>2. expiry[me.cmd] # 0 /\ (Begun(me.cmd) => CopyOf(me.snap, me.cmd))
      BY <2>1, <2>2 DEF HandlerCopies
    <3>3. expiry'[me.cmd] # 0
      BY <3>1, <3>2, ExpiryStays
    <3>4. PICK c \in Commands, snap \in Row : c = me.cmd /\ snap = me.snap
      BY <3>1
    <3>5. rows'[c].status # "absent" => Begun(c)
      BY <3>2, <3>4 DEF Noted, NewNames, Begun
    <3>6. Begun(c) => CopyOf(snap, c)'
      BY <3>2, <3>4, CopyMoves
    <3>7. Begun(c)' => CopyOf(snap, c)'
      BY <3>5, <3>6 DEF Begun
    <3> QED BY <3>3, <3>4, <3>7 DEF Begun, CopyOf
  <2>3. me.pc \in {"retry_create", "retry_update"} => rows'[me.cmd].status \in Resolvable
    BY <1>1, <2>1 DEF HandlerKeeps, HandlerCopies, StoreMoves, RowMoves
  <2>4. me.pc = "retry_update" => rows'[me.successor].status # "absent" /\ reissueOf'[me.successor] = me.cmd
    BY <1>1, <2>1 DEF HandlerKeeps, HandlerCopies, StoreMoves, RowMoves
  <2> QED BY <2>2, <2>3, <2>4 DEF HandlerCopies, Begun
<1>5. outlived' = outlived
  BY ExpiryStays
<1> QED BY <1>3, <1>4, <1>5 DEF HandlerReady

LEMMA SweepWaits ==
    ASSUME RestoreIInv, StoreMoves, Noted, NEW s \in Schedulers, scheduler'[s] = scheduler[s]
    PROVE  SweepReady(s)'
<1>1. SweepKeeps(s) /\ scheduler[s] \in SchedulerState
  BY RowsTyped DEF RestoreIInv
<1>2. scheduler[s].at <= now' /\ scheduler[s].readAt <= now'
  BY <1>1, RowsTyped DEF SweepKeeps, SchedulerState, StoreMoves
<1>3. SweepKeeps(s)'
  BY <1>1, <1>2 DEF SweepKeeps
<1>4. ASSUME ~outlived PROVE SweepCopies(s)'
  <2>1. \A c \in scheduler[s].todo : c \in Commands /\ scheduler[s].snap[c] \in Row
    BY <1>1 DEF SchedulerState
  <2>2. \A c \in scheduler[s].todo : CopyOf(scheduler[s].snap[c], c)
    BY <1>4 DEF RestoreIInv, NothingOutlived, SweepCopies
  <2>3. ASSUME NEW c \in scheduler[s].todo PROVE CopyOf(scheduler[s].snap[c], c)'
    <3>1. PICK snap \in Row : snap = scheduler[s].snap[c]
      BY <2>1
    <3>2. CopyOf(snap, c)'
      BY <2>1, <2>2, <3>1, CopyMoves
    <3> QED BY <3>1, <3>2 DEF CopyOf, Begun
  <2> QED BY <2>3 DEF SweepCopies, CopyOf, Begun
<1>5. outlived' = outlived
  BY ExpiryStays
<1> QED BY <1>3, <1>4, <1>5 DEF SweepReady

\* What the sensor holds and sends: its commands were issued, and it reports as
\* done what it did.
LEMMA SensorGoesOn ==
    ASSUME RestoreIInv, StoreMoves, Noted, batch' \subseteq Commands,
           acks' \subseteq [cmd: Commands, outcome: {"success", "failure"}],
           \A c \in batch' : c \in batch \/ Begun(c),
           \A m \in acks' : m \in acks \/ (m.cmd \in batch /\ (m.outcome = "success" => m.cmd \in completed'))
    PROVE  SensorKeeps'
<1>1. /\ \A c \in Commands : expiry[c] # 0 => expiry'[c] # 0
      /\ \A c \in Commands : Begun(c) => expiry[c] # 0
  BY ExpiryStays
<1>2. /\ batch \subseteq Commands
      /\ acks \subseteq [cmd: Commands, outcome: {"success", "failure"}]
  BY DEF RestoreIInv, RestoreTypeOK, TypeOK
<1>3. /\ \A c \in batch : expiry[c] # 0
      /\ \A m \in acks : expiry[m.cmd] # 0 /\ (m.outcome = "success" => m.cmd \in completed)
  BY DEF RestoreIInv, SensorKeeps
<1>4. \A c \in batch' : expiry'[c] # 0
  BY <1>1, <1>3
<1>5. \A m \in acks' : expiry'[m.cmd] # 0 /\ (m.outcome = "success" => m.cmd \in completed')
  BY <1>1, <1>2, <1>3 DEF StoreMoves
<1> QED BY <1>4, <1>5 DEF SensorKeeps

\* The parts of a step of the delivery give the invariant.
LEMMA DeliveryStep ==
    ASSUME RestoreIInv, StoreServed, Noted, LocksOK', SensorKeeps',
           handler' \in [Handlers -> HandlerState], \A h \in Handlers : HandlerReady(h)',
           scheduler' \in [Schedulers -> SchedulerState], \A s \in Schedulers : SweepReady(s)',
           poll' \in Handlers \union {NoHandler}, batch' \subseteq Commands,
           acks' \subseteq [cmd: Commands, outcome: {"success", "failure"}]
    PROVE  StoreServed /\ RestoreIInv'
<1>1. StoreMoves
  BY DEF StoreServed
<1>2. /\ expiry' \in [Commands -> Nat]
      /\ UNCHANGED <<archive, restoring, restores, outlived>>
      /\ \A c \in Commands : rows'[c].status # "absent" => rows'[c].expiresAt = expiry'[c]
  BY <1>1, ExpiryStays
<1>3. TypeOK'
  BY <1>1 DEF TypeOK, StoreMoves
<1>4. RestoreTypeOK'
  BY <1>2, <1>3 DEF RestoreTypeOK, RestoreIInv, Begun
<1>5. /\ StoreSound(rows, reissueOf)'
      /\ StoreSound(archive.rows, archive.reissueOf)'
      /\ ~outlived => StoreConsistent(rows, reissueOf)' /\ StoreConsistent(archive.rows, archive.reissueOf)'
  BY <1>1, StoreStays, ArchiveStays
<1>6. (~outlived => NothingOutlived)'
  BY <1>2, <1>5 DEF NothingOutlived, HandlerReady, SweepReady
<1> QED BY <1>4, <1>5, <1>6 DEF RestoreIInv, HandlerReady, SweepReady

-----------------------------------------------------------------------------
(* Steps of one process, with the others waiting.                            *)

LEMMA BecomeMoves ==
    ASSUME RestoreIInv, NEW h \in Handlers, NEW me \in HandlerState, Become(h, me)
    PROVE  /\ handler' \in [Handlers -> HandlerState]
           /\ handler'[h] = me
           /\ \A g \in Handlers : g # h => handler'[g] = handler[g]
BY RowsTyped DEF Become

\* A handler that ends its step without locks leaves the locks of the others.
LEMMA LocksRemain ==
    ASSUME RestoreIInv, NEW h \in Handlers, handler'[h].locked = {},
           \A g \in Handlers : g # h => handler'[g] = handler[g],
           \A g \in Handlers : g # h => \A c \in handler[g].locked : rows'[c] = rows[c]
    PROVE  LocksOK'
<1>1. LocksOK
  BY DEF RestoreIInv
<1> QED BY <1>1 DEF LocksOK

LEMMA HandlerActs ==
    ASSUME RestoreIInv, StoreServed, Noted, LocksOK', SensorKeeps',
           NEW h \in Handlers, NEW me \in HandlerState, Become(h, me), HandlerReady(h)',
           UNCHANGED scheduler, poll' \in Handlers \union {NoHandler}, batch' \subseteq Commands,
           acks' \subseteq acks
    PROVE  StoreServed /\ RestoreIInv'
<1>1. /\ handler' \in [Handlers -> HandlerState]
      /\ \A g \in Handlers : g # h => handler'[g] = handler[g]
  BY BecomeMoves
<1>2. StoreMoves
  BY DEF StoreServed
<1>3. \A g \in Handlers : HandlerReady(g)'
  BY <1>1, <1>2, HandlerWaits
<1>4. scheduler' \in [Schedulers -> SchedulerState] /\ \A s \in Schedulers : SweepReady(s)'
  BY <1>2, SweepWaits, RowsTyped
<1>5. acks' \subseteq [cmd: Commands, outcome: {"success", "failure"}]
  BY DEF RestoreIInv, RestoreTypeOK, TypeOK
<1> QED BY <1>1, <1>3, <1>4, <1>5, DeliveryStep

\* The handler answers and is idle again.
LEMMA HandlerEnds ==
    ASSUME RestoreIInv, StoreServed, Noted, NEW h \in Handlers, Return(h),
           \A g \in Handlers : g # h => \A c \in handler[g].locked : rows'[c] = rows[c],
           UNCHANGED scheduler, poll' \in Handlers \union {NoHandler},
           batch' \subseteq Commands, \A c \in batch' : c \in batch \/ Begun(c),
           acks' \subseteq acks
    PROVE  StoreServed /\ RestoreIInv'
<1>1. /\ handler'[h] = IdleHandler
      /\ \A g \in Handlers : g # h => handler'[g] = handler[g]
  BY IdleHandlerType, BecomeMoves DEF Return
<1>2. LocksOK'
  BY <1>1, LocksRemain DEF IdleHandler
<1>3. StoreMoves
  BY DEF StoreServed
<1>4. 0 <= now'
  BY <1>3 DEF StoreMoves
<1>5. HandlerReady(h)'
  BY <1>1, <1>4 DEF HandlerReady, HandlerKeeps, HandlerCopies, IdleHandler
<1>6. acks \subseteq [cmd: Commands, outcome: {"success", "failure"}]
  BY DEF RestoreIInv, RestoreTypeOK, TypeOK
<1>7. SensorKeeps'
  BY <1>3, <1>6, SensorGoesOn
<1> QED BY <1>2, <1>5, <1>7, IdleHandlerType, HandlerActs DEF Return

\* A step of the sensor, of an operator or of the clock.
LEMMA OutsideActs ==
    ASSUME RestoreIInv, StoreServed, Noted, UNCHANGED <<handler, scheduler>>, SensorKeeps',
           \A g \in Handlers : \A c \in handler[g].locked : rows'[c] = rows[c],
           poll' \in Handlers \union {NoHandler}, batch' \subseteq Commands,
           acks' \subseteq [cmd: Commands, outcome: {"success", "failure"}]
    PROVE  StoreServed /\ RestoreIInv'
<1>1. StoreMoves
  BY DEF StoreServed
<1>2. (\A h \in Handlers : HandlerReady(h)') /\ (\A s \in Schedulers : SweepReady(s)')
  BY <1>1, HandlerWaits, SweepWaits
<1>3. LocksOK'
  <2>1. LocksOK
    BY DEF RestoreIInv
  <2> QED BY <2>1 DEF LocksOK
<1> QED BY <1>2, <1>3, RowsTyped, DeliveryStep

\* A step of one sweep.
LEMMA SweepActs ==
    ASSUME RestoreIInv, StoreServed, Noted, UNCHANGED <<handler, sensorVars>>,
           NEW s \in Schedulers, scheduler' \in [Schedulers -> SchedulerState],
           \A r \in Schedulers : r # s => scheduler'[r] = scheduler[r],
           SweepReady(s)',
           \A g \in Handlers : \A c \in handler[g].locked : rows'[c] = rows[c]
    PROVE  StoreServed /\ RestoreIInv'
<1>1. StoreMoves
  BY DEF StoreServed
<1>2. (\A h \in Handlers : HandlerReady(h)') /\ (\A r \in Schedulers : SweepReady(r)')
  BY <1>1, HandlerWaits, SweepWaits
<1>3. LocksOK'
  <2>1. LocksOK
    BY DEF RestoreIInv
  <2> QED BY <2>1 DEF LocksOK
<1>4. /\ UNCHANGED <<poll, batch, acks>>
      /\ poll \in Handlers \union {NoHandler}
      /\ batch \subseteq Commands
      /\ acks \subseteq [cmd: Commands, outcome: {"success", "failure"}]
  BY DEF sensorVars, RestoreIInv, RestoreTypeOK, TypeOK
<1>5. SensorKeeps'
  BY <1>1, <1>4, SensorGoesOn
<1> QED BY <1>2, <1>3, <1>4, <1>5, RowsTyped, DeliveryStep

\* A step of one sweep that ends it.
LEMMA SweepEnds ==
    ASSUME RestoreIInv, StoreServed, Noted, UNCHANGED <<handler, sensorVars>>,
           NEW s \in Schedulers, scheduler' = [scheduler EXCEPT ![s] = IdleScheduler],
           \A g \in Handlers : \A c \in handler[g].locked : rows'[c] = rows[c]
    PROVE  StoreServed /\ RestoreIInv'
<1>1. /\ scheduler' \in [Schedulers -> SchedulerState]
      /\ scheduler'[s] = IdleScheduler
      /\ \A r \in Schedulers : r # s => scheduler'[r] = scheduler[r]
  BY IdleSchedulerType, RowsTyped
<1>2. 0 <= now'
  BY DEF StoreServed, StoreMoves
<1>3. SweepReady(s)'
  BY <1>1, <1>2 DEF SweepReady, SweepKeeps, SweepCopies, IdleScheduler
<1> QED BY <1>1, <1>3, SweepActs

\* The sensor's variables when a step leaves them.
LEMMA SensorTyped ==
    ASSUME RestoreIInv
    PROVE  /\ poll \in Handlers \union {NoHandler}
           /\ batch \subseteq Commands
           /\ acks \subseteq [cmd: Commands, outcome: {"success", "failure"}]
BY DEF RestoreIInv, RestoreTypeOK, TypeOK

LEMMA SensorUnmoved ==
    ASSUME RestoreIInv, StoreServed, Noted, UNCHANGED batch, acks' \subseteq acks
    PROVE  SensorKeeps'
<1>1. StoreMoves
  BY DEF StoreServed
<1> QED BY <1>1, SensorTyped, SensorGoesOn

-----------------------------------------------------------------------------
(* The clock, the sensor, and an operator's new command.                     *)

LEMMA TickKeeps == ASSUME RestoreIInv, Tick, Noted PROVE StoreServed /\ RestoreIInv'
<1>1. now' \in 0..MaxTime /\ now <= now'
  BY RowsTyped, BoundsAssumption DEF Tick
<1>2. /\ UNCHANGED <<rows, reissueOf, handler, scheduler>>
      /\ UNCHANGED <<poll, batch, acks, completed>>
  BY DEF Tick, storeVars, sensorVars
<1>3. StoreServed
  BY <1>1, <1>2, RowsTyped, SameStoreServed
<1>4. SensorKeeps'
  BY <1>2, <1>3, SensorUnmoved
<1> QED BY <1>2, <1>3, <1>4, SensorTyped, OutsideActs

LEMMA SensorRestartKeeps == ASSUME RestoreIInv, SensorRestart, Noted PROVE StoreServed /\ RestoreIInv'
<1>1. /\ UNCHANGED <<now, rows, reissueOf, handler, scheduler, acks, completed>>
      /\ batch' = {} /\ poll' = NoHandler
  BY DEF SensorRestart, storeVars
<1>2. StoreServed
  BY <1>1, RowsTyped, SameStoreServed
<1>3. SensorKeeps'
  BY <1>1, <1>2, SensorGoesOn, SensorTyped DEF StoreServed
<1> QED BY <1>1, <1>2, <1>3, SensorTyped, OutsideActs

\* The row of the command that is run may be gone.
LEMMA RunCopyKeeps == ASSUME RestoreIInv, NEW c \in Commands, RunCopy(c), Noted PROVE StoreServed /\ RestoreIInv'
<1>1. /\ UNCHANGED <<now, rows, reissueOf, handler, scheduler, poll>>
      /\ c \in batch /\ batch' = batch \ {c}
      /\ completed' = completed \/ completed' = completed \union {c}
  BY DEF RunCopy, RunUntil, storeVars
<1>2. \A m \in acks' : m \in acks \/ (m.cmd = c /\ (m.outcome = "success" => c \in completed'))
  BY DEF RunCopy, RunUntil
<1>3. acks' \subseteq [cmd: Commands, outcome: {"success", "failure"}]
  BY SensorTyped DEF RunCopy, RunUntil
<1>4. StoreServed
  BY <1>1, RowsTyped, SameStoreServed
<1>5. SensorKeeps'
  BY <1>1, <1>2, <1>3, <1>4, SensorTyped, SensorGoesOn DEF StoreServed
<1> QED BY <1>1, <1>3, <1>4, <1>5, SensorTyped, OutsideActs

\* A new row, for an operator or for a retry.
LEMMA NewRowServed ==
    ASSUME RestoreIInv, NEW d \in Commands, Fresh(d), rows' = [rows EXCEPT ![d] = NewRow(now)],
           UNCHANGED <<now, completed>>,
           reissueOf' \in [Commands -> Commands \union {NoCommand}],
           \A e \in Commands : e # d => reissueOf'[e] = reissueOf[e],
           ReissuesEarned
    PROVE  /\ StoreServed
           /\ Begun(d)'
           /\ \A g \in Handlers : \A c \in handler[g].locked : rows'[c] = rows[c]
<1>1. /\ rows[d] = NoRow
      /\ rows[d].status = "absent"
      /\ rows[d].attempts = 0
  BY NoRowType DEF Fresh, RestoreIInv, StoreSound
<1>2. /\ NewRow(now) \in Row
      /\ NewRow(now).status = "queued"
      /\ NewRow(now).attempts = 0
      /\ NewRow(now).deadLetterReason = "none"
  BY NewRowType, RowsTyped
<1>3. NewRow(now).expiresAt # 0
  <2>1. NoRow \in Row /\ now + Ttl # 0
    BY NoRowType, RowsTyped, BoundsAssumption
  <2> QED BY <2>1 DEF NewRow, Row
<1>4. rows'[d] = NewRow(now) /\ \A e \in Commands : e # d => rows'[e] = rows[e]
  BY RowsTyped
<1>5. RowMoves(d) /\ RowEarned(d)
  BY <1>1, <1>2, <1>3, <1>4 DEF RowMoves, RowEarned, Begun, Resolvable
<1>6. \A e \in Commands : e # d => RowMoves(e)
  BY <1>4, RowsTyped DEF RowMoves, Begun, Settled
<1>7. rows' \in [Commands -> Row]
  BY <1>2, RowsTyped
<1>8. StoreServed
  BY <1>4, <1>5, <1>6, <1>7, RowsTyped DEF StoreServed, StoreMoves
<1>9. \A g \in Handlers : \A c \in handler[g].locked : c \in Commands /\ c # d
  BY <1>1, RowsTyped DEF RestoreIInv, LocksOK, HandlerState, DeliverableStatuses
<1>10. Begun(d)'
  BY <1>2, <1>4 DEF Begun
<1> QED BY <1>4, <1>8, <1>9, <1>10

LEMMA IssueKeeps == ASSUME RestoreIInv, NEW c \in Commands, Issue(c), Noted PROVE StoreServed /\ RestoreIInv'
<1>1. /\ Fresh(c) /\ rows' = [rows EXCEPT ![c] = NewRow(now)]
      /\ UNCHANGED <<now, handler, scheduler, reissueOf>>
      /\ UNCHANGED <<poll, batch, acks, completed>>
  BY DEF Issue, sensorVars
<1>2. ReissuesEarned
  BY <1>1 DEF ReissuesEarned
<1>3. StoreServed /\ \A g \in Handlers : \A d \in handler[g].locked : rows'[d] = rows[d]
  BY <1>1, <1>2, RowsTyped, NewRowServed
<1>4. SensorKeeps'
  BY <1>1, <1>3, SensorUnmoved
<1> QED BY <1>1, <1>3, <1>4, SensorTyped, OutsideActs

-----------------------------------------------------------------------------
(* The requests.                                                             *)

LEMMA ClaimBeginKeeps == ASSUME RestoreIInv, NEW h \in Handlers, ClaimBegin(h), Noted PROVE StoreServed /\ RestoreIInv'
<1> DEFINE me == [IdleHandler EXCEPT !.pc = "claiming", !.at = now]
<1>1. me \in HandlerState /\ me.locked = {} /\ me.due = {} /\ me.at = now /\ me.pc = "claiming"
  <2>1. PICK idle \in HandlerState : idle = IdleHandler
    BY IdleHandlerType
  <2>2. idle.locked = {} /\ idle.due = {} /\ now \in Nat
    BY <2>1, RowsTyped DEF IdleHandler
  <2>3. me = [idle EXCEPT !.pc = "claiming", !.at = now]
    BY <2>1
  <2> QED BY <2>2, <2>3 DEF HandlerState, HandlerPcs
<1>2. /\ UNCHANGED <<now, rows, reissueOf, scheduler, batch, acks, completed>>
      /\ poll' = h
      /\ Become(h, me)
  BY DEF ClaimBegin, storeVars
<1>3. StoreServed
  BY <1>2, RowsTyped, SameStoreServed
<1> HIDE DEF me
<1>4. handler'[h] = me /\ \A g \in Handlers : g # h => handler'[g] = handler[g]
  BY <1>1, <1>2, BecomeMoves
<1>5. LocksOK'
  BY <1>1, <1>2, <1>4, LocksRemain
<1>6. HandlerReady(h)'
  BY <1>1, <1>2, <1>4, RowsTyped DEF HandlerReady, HandlerKeeps, HandlerCopies
<1>7. SensorKeeps'
  BY <1>2, <1>3, SensorUnmoved
<1> QED BY <1>1, <1>2, <1>3, <1>5, <1>6, <1>7, SensorTyped, HandlerActs

\* The rows a transaction takes are held by no other.
LEMMA ClaimLockKeeps == ASSUME RestoreIInv, NEW h \in Handlers, ClaimLock(h), Noted PROVE StoreServed /\ RestoreIInv'
<1> DEFINE me == [handler[h] EXCEPT !.pc = "claimed", !.locked = LockableRows,
                                  !.due = Claimable(h)]
<1>1. /\ me \in HandlerState
      /\ me.locked = LockableRows
      /\ me.due \subseteq LockableRows
      /\ me.at = handler[h].at
      /\ me.pc = "claimed"
  BY RowsTyped DEF LockableRows, Claimable, HandlerState, HandlerPcs
<1>2. /\ UNCHANGED <<now, rows, reissueOf, scheduler, poll, batch, acks, completed>>
      /\ Become(h, me)
  BY DEF ClaimLock, storeVars, sensorVars
<1>3. StoreServed
  BY <1>2, RowsTyped, SameStoreServed
<1> HIDE DEF me
<1>4. handler'[h] = me /\ \A g \in Handlers : g # h => handler'[g] = handler[g]
  BY <1>1, <1>2, BecomeMoves
<1>5. LocksOK'
  <2>1. LocksOK
    BY DEF RestoreIInv
  <2> QED BY <1>1, <1>2, <1>4, <2>1 DEF LocksOK, LockableRows, Locked
<1>6. HandlerReady(h)'
  <2>1. HandlerKeeps(h)
    BY DEF RestoreIInv
  <2> QED BY <1>1, <1>2, <1>4, <2>1 DEF HandlerReady, HandlerKeeps, HandlerCopies
<1>7. SensorKeeps'
  BY <1>2, <1>3, SensorUnmoved
<1> QED BY <1>1, <1>2, <1>3, <1>5, <1>6, <1>7, SensorTyped, HandlerActs

\* The claim holds its rows, so no import came between its SELECT and COMMIT.
LEMMA ClaimCommitKeeps == ASSUME RestoreIInv, NEW h \in Handlers, ClaimCommit(h), Noted PROVE StoreServed /\ RestoreIInv'
<1> DEFINE taken == handler[h].due
<1>1. /\ handler[h] \in HandlerState
      /\ taken \subseteq handler[h].locked
      /\ taken \subseteq Commands
      /\ handler[h].at \in Nat
  BY RowsTyped DEF HandlerKeeps, HandlerState, RestoreIInv
<1>2. \A c \in taken : /\ rows[c] \in Row
                       /\ rows[c].status \in DeliverableStatuses
                       /\ rows'[c] = DispatchedRow(rows[c], handler[h].at)
  BY <1>1, RowsTyped DEF ClaimCommit, LocksOK, RestoreIInv
<1>3. \A c \in Commands : c \notin taken => rows'[c] = rows[c]
  BY DEF ClaimCommit
<1>4. UNCHANGED <<now, reissueOf, scheduler, acks, completed>> /\ Return(h)
  BY DEF ClaimCommit
<1>5. \A c \in taken : RowMoves(c) /\ RowEarned(c)
  <2> TAKE c \in taken
  <2>1. /\ rows'[c] \in Row
        /\ rows'[c].status = "dispatched"
        /\ rows'[c].attempts = rows[c].attempts + 1
        /\ rows'[c].expiresAt = rows[c].expiresAt
        /\ rows'[c].deadLetterReason = rows[c].deadLetterReason
    <3>1. rows[c] \in Row /\ handler[h].at \in Nat /\ rows'[c] = DispatchedRow(rows[c], handler[h].at)
      BY <1>1, <1>2
    <3> HIDE DEF taken
    <3> QED BY <3>1, DispatchedRowType
  <2>2. rows[c].attempts \in Nat /\ c \in Commands /\ Begun(c)
    BY <1>1, <1>2 DEF Row, Begun, DeliverableStatuses
  <2>3. RowMoves(c)
    BY <1>2, <1>4, <2>1, <2>2 DEF RowMoves, Resolvable, DeliverableStatuses
  <2>4. rows[c].expiresAt # 0
    BY <2>2 DEF RestoreIInv, StoreSound, Begun
  <2>5. ~outlived => /\ rows[c].deadLetterReason = "attempt_limit" => rows[c].attempts >= MaxAttempts
                     /\ rows[c].deadLetterReason = "expired" => rows[c].expiresAt <= now
    BY <2>2 DEF RestoreIInv, NothingOutlived, StoreConsistent
  <2>6. MaxAttempts \in Nat
    BY BoundsAssumption
  <2>7. RowEarned(c)
    BY <1>4, <2>1, <2>2, <2>4, <2>5, <2>6 DEF RowEarned
  <2> QED BY <2>3, <2>7
<1>6. StoreServed
  <2>1. \A c \in Commands : RowMoves(c)
    BY <1>3, <1>4, <1>5, RowsTyped DEF RowMoves, Begun, Settled
  <2>2. rows' \in [Commands -> Row]
    BY <2>1 DEF RowMoves, ClaimCommit
  <2>3. ReissuesEarned
    BY <1>4 DEF ReissuesEarned
  <2>4. StoreMoves
    BY <1>4, <2>1, <2>2, RowsTyped DEF StoreMoves
  <2> QED BY <1>3, <1>4, <1>5, <2>3, <2>4 DEF StoreServed
<1>7. \A g \in Handlers : g # h => \A c \in handler[g].locked : rows'[c] = rows[c]
  BY <1>1, <1>3, RowsTyped DEF LocksOK, RestoreIInv, HandlerState
<1>8. /\ batch' = batch \/ batch' = taken
      /\ poll' \in Handlers \union {NoHandler}
  BY SensorTyped DEF ClaimCommit
<1>9. \A c \in taken : Begun(c)
  BY <1>2 DEF Begun, DeliverableStatuses
<1> QED BY <1>1, <1>4, <1>6, <1>7, <1>8, <1>9, SensorTyped, HandlerEnds

\* The row that the report is about may be gone; it cannot come back but by an
\* import, for its identifier is not drawn again.
LEMMA AckReadKeeps == ASSUME RestoreIInv, NEW h \in Handlers, AckRead(h), Noted PROVE StoreServed /\ RestoreIInv'
<1>1. PICK m \in acks :
        /\ acks' = acks \ {m}
        /\ Become(h, [IdleHandler EXCEPT !.pc = IF m.outcome = "success" THEN "ack_success"
                                                                        ELSE "ack_failure",
                                         !.at = now, !.cmd = m.cmd, !.snap = rows[m.cmd]])
  BY DEF AckRead
<1> DEFINE pc == IF m.outcome = "success" THEN "ack_success" ELSE "ack_failure"
           me == [IdleHandler EXCEPT !.pc = pc, !.at = now, !.cmd = m.cmd, !.snap = rows[m.cmd]]
<1>2. /\ pc \in {"ack_success", "ack_failure"}
      /\ pc = "ack_success" => m.outcome = "success"
      /\ m.cmd \in Commands
      /\ rows[m.cmd] \in Row
      /\ rows[m.cmd].attempts \in Nat
      /\ now \in Nat
      /\ expiry[m.cmd] # 0
      /\ m.outcome = "success" => m.cmd \in completed
  BY SensorTyped, RowsTyped DEF RestoreIInv, SensorKeeps
<1> HIDE DEF pc
<1>3. /\ me \in HandlerState
      /\ me.pc = pc /\ me.at = now /\ me.cmd = m.cmd /\ me.snap = rows[m.cmd]
      /\ me.locked = {} /\ me.due = {}
  <2>1. PICK idle \in HandlerState : idle = IdleHandler
    BY IdleHandlerType
  <2>2. idle.locked = {} /\ idle.due = {}
    BY <2>1 DEF IdleHandler
  <2>3. me = [idle EXCEPT !.pc = pc, !.at = now, !.cmd = m.cmd, !.snap = rows[m.cmd]]
    BY <2>1
  <2> QED BY <1>2, <2>2, <2>3 DEF HandlerState, HandlerPcs
<1>4. Become(h, me)
  BY <1>1 DEF pc
<1> HIDE DEF me
<1>5. UNCHANGED <<now, rows, reissueOf, scheduler, poll, batch, completed>>
  BY DEF AckRead, storeVars
<1>6. StoreServed
  BY <1>5, RowsTyped, SameStoreServed
<1>7. handler'[h] = me /\ \A g \in Handlers : g # h => handler'[g] = handler[g]
  BY <1>3, <1>4, BecomeMoves
<1>8. LocksOK'
  BY <1>3, <1>5, <1>7, LocksRemain
<1>9. expiry'[m.cmd] # 0
  BY <1>2, <1>6, ExpiryStays DEF StoreServed
<1>10. HandlerReady(h)'
  BY <1>2, <1>3, <1>5, <1>7, <1>9 DEF HandlerReady, HandlerKeeps, HandlerCopies, CopyOf, Begun
<1>11. acks' \subseteq acks
  BY <1>1
<1>12. SensorKeeps'
  BY <1>5, <1>6, <1>11, SensorUnmoved
<1> QED BY <1>3, <1>4, <1>5, <1>6, <1>8, <1>10, <1>11, <1>12, SensorTyped, HandlerActs

-----------------------------------------------------------------------------
(* Statements that write one row, whatever has become of it.                 *)

\* A row that may be written in place of the row of c.
MayReplace(row, c) ==
    /\ row \in Row
    /\ row.attempts = rows[c].attempts
    /\ row.expiresAt = rows[c].expiresAt
    /\ row.status # "absent"
    /\ rows[c].status \in Resolvable => row.status \in Resolvable
    /\ rows[c].status = "acknowledged" => row.status \in Settled
    /\ row.status = "acknowledged" => c \in completed
    /\ ~outlived =>
          /\ row.deadLetterReason = "attempt_limit" => row.attempts >= MaxAttempts
          /\ row.deadLetterReason = "expired" => row.expiresAt <= now
          /\ row.status = "retried" =>
                row.retriedAs \in Commands /\ Begun(row.retriedAs) /\ reissueOf[row.retriedAs] = c

LEMMA StatementWrites ==
    ASSUME RestoreIInv, NEW c \in Commands, NEW row, NEW applies \in BOOLEAN,
           CanWrite(c), applies => Begun(c) /\ MayReplace(row, c),
           rows' = IF applies THEN [rows EXCEPT ![c] = row] ELSE rows,
           UNCHANGED <<now, completed, reissueOf>>
    PROVE  /\ StoreServed
           /\ \A g \in Handlers : \A d \in handler[g].locked : rows'[d] = rows[d]
<1>1. CASE applies
  <2>1. StoreServed
    BY <1>1, OneRowServed DEF MayReplace
  <2>2. \A g \in Handlers : \A d \in handler[g].locked : d \in Commands /\ d # c
    BY RowsTyped DEF CanWrite, Locked, HandlerState
  <2> QED BY <1>1, <2>1, <2>2, RowsTyped
<1>2. CASE ~applies
  BY <1>2, RowsTyped, SameStoreServed
<1> QED BY <1>1, <1>2

\* A compare-and-set of a status that a row has.
LEMMA ConditionalWrites ==
    ASSUME RestoreIInv, NEW c \in Commands, NEW expected, NEW row, "absent" \notin expected,
           UpdateIfStatus(c, expected, row), rows[c].status \in expected => MayReplace(row, c),
           UNCHANGED <<now, completed, reissueOf>>
    PROVE  /\ StoreServed
           /\ \A g \in Handlers : \A d \in handler[g].locked : rows'[d] = rows[d]
<1>1. PICK applies \in BOOLEAN : applies <=> rows[c].status \in expected
  BY TRUE \in BOOLEAN, FALSE \in BOOLEAN
<1>2. applies => Begun(c) /\ MayReplace(row, c)
  BY <1>1 DEF Begun
<1>3. CanWrite(c) /\ rows' = IF applies THEN [rows EXCEPT ![c] = row] ELSE rows
  BY <1>1 DEF UpdateIfStatus
<1> QED BY <1>2, <1>3, StatementWrites

\* An UPDATE by identifier alone.
LEMMA PlainWrites ==
    ASSUME RestoreIInv, NEW c \in Commands, NEW row, Update(c, row),
           Begun(c) => MayReplace(row, c), UNCHANGED <<now, completed, reissueOf>>
    PROVE  /\ StoreServed
           /\ \A g \in Handlers : \A d \in handler[g].locked : rows'[d] = rows[d]
<1>1. PICK applies \in BOOLEAN : applies <=> Begun(c)
  BY DEF Begun
<1>2. CanWrite(c) /\ rows' = IF applies THEN [rows EXCEPT ![c] = row] ELSE rows
  BY <1>1 DEF Update, Begun
<1> QED BY <1>1, <1>2, StatementWrites

\* The reason of a row that is there is justified, while nothing has outlived
\* an import.
LEMMA ReasonHeld ==
    ASSUME RestoreIInv, NEW c \in Commands
    PROVE  /\ rows[c] \in Row
           /\ ~outlived =>
                 /\ rows[c].deadLetterReason = "attempt_limit" => rows[c].attempts >= MaxAttempts
                 /\ rows[c].deadLetterReason = "expired" => rows[c].expiresAt <= now
BY RowsTyped DEF RestoreIInv, NothingOutlived, StoreConsistent

\* fail: whatever copy it judges by, the row that it writes is well-formed; by
\* a copy of the row, it is justified.
LEMMA FailedMayReplace ==
    ASSUME RestoreIInv, NEW c \in Commands, NEW snap \in Row, NEW t \in Nat, t <= now,
           ~outlived /\ Begun(c) => CopyOf(snap, c), rows[c].status \in AckableStatuses
    PROVE  MayReplace(FailedRow(rows[c], snap, t), c)
<1> DEFINE row == FailedRow(rows[c], snap, t)
<1>1. /\ row \in Row
      /\ row.attempts = rows[c].attempts
      /\ row.expiresAt = rows[c].expiresAt
      /\ \/ /\ row.status = "dead_lettered"
            /\ \/ row.deadLetterReason = "attempt_limit" /\ snap.attempts >= MaxAttempts
               \/ row.deadLetterReason = "expired" /\ snap.expiresAt <= t
         \/ row.status = "retrying" /\ row.deadLetterReason = rows[c].deadLetterReason
  BY FailedRowType, ReasonHeld
<1> HIDE DEF row
<1>2. Begun(c) /\ rows[c].status \notin Settled
  BY DEF AckableStatuses, Begun, Settled, Resolvable
<1>3. ASSUME ~outlived
      PROVE  /\ row.deadLetterReason = "attempt_limit" => row.attempts >= MaxAttempts
             /\ row.deadLetterReason = "expired" => row.expiresAt <= now
  <2>1. /\ snap.attempts \in Nat /\ snap.expiresAt \in Nat
        /\ rows[c].attempts \in Nat /\ rows[c].expiresAt \in Nat /\ now \in Nat
        /\ MaxAttempts \in Nat
    BY RowsTyped, BoundsAssumption DEF Row
  <2>2. snap.attempts <= rows[c].attempts /\ snap.expiresAt = rows[c].expiresAt
    BY <1>2, <1>3 DEF CopyOf
  <2> QED BY <1>1, <1>3, <2>1, <2>2, ReasonHeld
<1> QED BY <1>1, <1>2, <1>3 DEF MayReplace, Settled, row

LEMMA AckSuccessKeeps == ASSUME RestoreIInv, NEW h \in Handlers, AckSuccess(h), Noted PROVE StoreServed /\ RestoreIInv'
<1> DEFINE c == handler[h].cmd
<1>1. c \in completed /\ c \in Commands
  BY DEF AckSuccess, HandlerKeeps, RestoreIInv
<1>2. UpdateIfStatus(c, AckableStatuses, AcknowledgedRow(rows[c])) /\ Return(h)
  BY DEF AckSuccess
<1>3. UNCHANGED <<now, completed, reissueOf, scheduler, poll, batch, acks>>
  BY DEF AckSuccess, sensorVars
<1> HIDE DEF c
<1>4. rows[c].status \in AckableStatuses => MayReplace(AcknowledgedRow(rows[c]), c)
  BY <1>1, ReasonHeld, AcknowledgedRowType DEF MayReplace, AckableStatuses, Resolvable, Settled
<1>5. "absent" \notin AckableStatuses
  BY DEF AckableStatuses
<1>6. StoreServed /\ \A g \in Handlers : \A d \in handler[g].locked : rows'[d] = rows[d]
  BY <1>1, <1>2, <1>3, <1>4, <1>5, ConditionalWrites
<1> QED BY <1>2, <1>3, <1>6, SensorTyped, HandlerEnds

LEMMA AckFailureKeeps == ASSUME RestoreIInv, NEW h \in Handlers, AckFailure(h), Noted PROVE StoreServed /\ RestoreIInv'
<1> DEFINE c == handler[h].cmd
           snap == handler[h].snap
<1>1. c \in Commands /\ snap \in Row /\ handler[h].at \in Nat /\ now \in Nat
  BY RowsTyped DEF AckFailure, HandlerKeeps, HandlerState, RestoreIInv
<1>2. ~outlived /\ Begun(c) => CopyOf(snap, c)
  BY DEF AckFailure, HandlerCopies, NothingOutlived, RestoreIInv
<1>3. PICK t \in handler[h].at..now :
        UpdateIfStatus(c, AckableStatuses, FailedRow(rows[c], snap, t))
  BY DEF AckFailure
<1>4. UNCHANGED <<now, completed, reissueOf, scheduler, poll, batch, acks>> /\ Return(h)
  BY DEF AckFailure, sensorVars
<1> HIDE DEF c, snap
<1>5. t \in Nat /\ t <= now
  BY <1>1
<1>6. rows[c].status \in AckableStatuses => MayReplace(FailedRow(rows[c], snap, t), c)
  BY <1>1, <1>2, <1>5, FailedMayReplace
<1>7. "absent" \notin AckableStatuses
  BY DEF AckableStatuses
<1>8. StoreServed /\ \A g \in Handlers : \A d \in handler[g].locked : rows'[d] = rows[d]
  BY <1>1, <1>3, <1>4, <1>6, <1>7, ConditionalWrites
<1> QED BY <1>4, <1>8, SensorTyped, HandlerEnds

LEMMA ReadDeadLetterKeeps ==
    ASSUME RestoreIInv, NEW h \in Handlers, NEW c \in Commands,
           NEW pc \in {"retry_create", "dismiss_update"}, ReadDeadLetter(h, c, pc), Noted
    PROVE  StoreServed /\ RestoreIInv'
<1> DEFINE me == [IdleHandler EXCEPT !.pc = pc, !.cmd = c]
<1>1. me \in HandlerState /\ me.pc = pc /\ me.cmd = c /\ me.at = 0 /\ me.locked = {} /\ me.due = {}
  <2>1. PICK idle \in HandlerState : idle = IdleHandler
    BY IdleHandlerType
  <2>2. idle.locked = {} /\ idle.due = {} /\ idle.at = 0
    BY <2>1 DEF IdleHandler
  <2>3. me = [idle EXCEPT !.pc = pc, !.cmd = c]
    BY <2>1
  <2> QED BY <2>2, <2>3 DEF HandlerState, HandlerPcs
<1>2. /\ UNCHANGED <<now, rows, reissueOf, scheduler, poll, batch, acks, completed>>
      /\ Become(h, me)
      /\ rows[c].status = "dead_lettered"
  BY DEF ReadDeadLetter, storeVars, sensorVars
<1>3. StoreServed
  BY <1>2, RowsTyped, SameStoreServed
<1> HIDE DEF me
<1>4. handler'[h] = me /\ \A g \in Handlers : g # h => handler'[g] = handler[g]
  BY <1>1, <1>2, BecomeMoves
<1>5. LocksOK'
  BY <1>1, <1>2, <1>4, LocksRemain
<1>6. HandlerReady(h)'
  BY <1>1, <1>2, <1>4, RowsTyped DEF HandlerReady, HandlerKeeps, HandlerCopies, Resolvable
<1>7. SensorKeeps'
  BY <1>2, <1>3, SensorUnmoved
<1> QED BY <1>1, <1>2, <1>3, <1>5, <1>6, <1>7, SensorTyped, HandlerActs

\* The reissue is created although its original may be back in delivery; only
\* then has a copy outlived an import.
LEMMA RetryCreateKeeps == ASSUME RestoreIInv, NEW h \in Handlers, RetryCreate(h), Noted PROVE StoreServed /\ RestoreIInv'
<1> DEFINE c == handler[h].cmd
<1>1. PICK d \in Commands :
        /\ Fresh(d)
        /\ rows' = [rows EXCEPT ![d] = NewRow(now)]
        /\ reissueOf' = [reissueOf EXCEPT ![d] = c]
        /\ Become(h, [handler[h] EXCEPT !.pc = "retry_update", !.successor = d])
  BY DEF RetryCreate
<1>2. /\ c \in Commands
      /\ ~outlived => rows[c].status \in Resolvable
      /\ handler[h] \in HandlerState
      /\ handler[h].locked = {} /\ handler[h].due = {}
      /\ handler[h].at <= now
      /\ handler[h].pc = "retry_create"
  BY RowsTyped DEF RetryCreate, HandlerKeeps, HandlerCopies, NothingOutlived, RestoreIInv
<1>3. UNCHANGED <<now, completed, scheduler, poll, batch, acks>>
  BY DEF RetryCreate, sensorVars
<1> DEFINE me == [handler[h] EXCEPT !.pc = "retry_update", !.successor = d]
<1>4. /\ me \in HandlerState
      /\ me.pc = "retry_update" /\ me.cmd = c /\ me.at = handler[h].at
      /\ me.locked = {} /\ me.due = {} /\ me.successor = d
  BY <1>2 DEF HandlerState, HandlerPcs
<1>5. Become(h, me)
  BY <1>1
<1> HIDE DEF me, c
<1>6. /\ reissueOf' \in [Commands -> Commands \union {NoCommand}]
      /\ reissueOf'[d] = c
      /\ \A e \in Commands : e # d => reissueOf'[e] = reissueOf[e]
  BY <1>1, <1>2, RowsTyped
<1>7. ReissuesEarned
  BY <1>2, <1>6 DEF ReissuesEarned
<1>8. /\ StoreServed
      /\ Begun(d)'
      /\ \A g \in Handlers : \A e \in handler[g].locked : rows'[e] = rows[e]
  BY <1>1, <1>3, <1>6, <1>7, NewRowServed
<1>9. handler'[h] = me /\ \A g \in Handlers : g # h => handler'[g] = handler[g]
  BY <1>4, <1>5, BecomeMoves
<1>10. LocksOK'
  BY <1>4, <1>8, <1>9, LocksRemain
<1>11. HandlerReady(h)'
  <2>1. ~outlived => rows'[c].status \in Resolvable
    BY <1>2, <1>8 DEF StoreServed, StoreMoves, RowMoves
  <2>2. outlived' = outlived
    BY <1>8, ExpiryStays DEF StoreServed
  <2>3. HandlerKeeps(h)'
    BY <1>2, <1>3, <1>4, <1>9 DEF HandlerKeeps
  <2>4. ~outlived => HandlerCopies(h)'
    BY <1>4, <1>6, <1>8, <1>9, <2>1 DEF HandlerCopies, Begun
  <2> QED BY <2>2, <2>3, <2>4 DEF HandlerReady
<1>12. SensorKeeps'
  BY <1>3, <1>8, SensorUnmoved
<1> QED BY <1>3, <1>4, <1>5, <1>8, <1>10, <1>11, <1>12, SensorTyped, HandlerActs

LEMMA RetryUpdateKeeps == ASSUME RestoreIInv, NEW h \in Handlers, RetryUpdate(h), Noted PROVE StoreServed /\ RestoreIInv'
<1> DEFINE c == handler[h].cmd
           d == handler[h].successor
           row == RetriedRow(rows[c], d)
<1>1. /\ c \in Commands /\ d \in Commands
      /\ ~outlived => Begun(d) /\ reissueOf[d] = c
  BY DEF RetryUpdate, HandlerKeeps, HandlerCopies, NothingOutlived, RestoreIInv
<1>2. Update(c, row) /\ Return(h) /\ UNCHANGED <<now, completed, reissueOf, scheduler, poll, batch, acks>>
  BY DEF RetryUpdate, sensorVars
<1>3. rows[c] \in Row
  BY <1>1, RowsTyped
<1>4. /\ row \in Row
      /\ row.status = "retried"
      /\ row.attempts = rows[c].attempts
      /\ row.expiresAt = rows[c].expiresAt
      /\ row.deadLetterReason = rows[c].deadLetterReason
      /\ row.retriedAs = d
  <2>1. row.retriedAs = d
    BY <1>3 DEF RetriedRow, Row
  <2> HIDE DEF c, d
  <2> QED BY <1>1, <1>3, <2>1, RetriedRowType
<1> HIDE DEF c, d, row
<1>5. MayReplace(row, c)
  BY <1>1, <1>4, ReasonHeld DEF MayReplace, Resolvable, Settled
<1>6. StoreServed /\ \A g \in Handlers : \A e \in handler[g].locked : rows'[e] = rows[e]
  BY <1>1, <1>2, <1>5, PlainWrites
<1> QED BY <1>2, <1>6, SensorTyped, HandlerEnds

LEMMA DismissUpdateKeeps == ASSUME RestoreIInv, NEW h \in Handlers, DismissUpdate(h), Noted PROVE StoreServed /\ RestoreIInv'
<1> DEFINE c == handler[h].cmd
           row == DismissedRow(rows[c])
<1>1. c \in Commands
  BY DEF DismissUpdate, HandlerKeeps, RestoreIInv
<1>2. Update(c, row) /\ Return(h) /\ UNCHANGED <<now, completed, reissueOf, scheduler, poll, batch, acks>>
  BY DEF DismissUpdate, sensorVars
<1>3. rows[c] \in Row
  BY <1>1, RowsTyped
<1> HIDE DEF c
<1>4. MayReplace(row, c)
  BY <1>1, <1>3, ReasonHeld, DismissedRowType DEF MayReplace, Resolvable, Settled
<1> HIDE DEF row
<1>5. StoreServed /\ \A g \in Handlers : \A e \in handler[g].locked : rows'[e] = rows[e]
  BY <1>1, <1>2, <1>4, PlainWrites
<1> QED BY <1>2, <1>5, SensorTyped, HandlerEnds

LEMMA HandlerCrashKeeps == ASSUME RestoreIInv, NEW h \in Handlers, HandlerCrash(h), Noted PROVE StoreServed /\ RestoreIInv'
<1>1. UNCHANGED <<now, rows, reissueOf, scheduler, batch, acks, completed>> /\ Return(h)
  BY DEF HandlerCrash, storeVars
<1>2. poll' \in Handlers \union {NoHandler}
  BY SensorTyped DEF HandlerCrash
<1>3. StoreServed
  BY <1>1, RowsTyped, SameStoreServed
<1> QED BY <1>1, <1>2, <1>3, SensorTyped, HandlerEnds

LEMMA HandlerNextKeeps == ASSUME RestoreIInv, NEW h \in Handlers, HandlerNext(h), Noted PROVE StoreServed /\ RestoreIInv'
<1>1. \A c \in Commands : RetryRead(h, c) => StoreServed /\ RestoreIInv'
  BY ReadDeadLetterKeeps DEF RetryRead
<1>2. \A c \in Commands : DismissRead(h, c) => StoreServed /\ RestoreIInv'
  BY ReadDeadLetterKeeps DEF DismissRead
<1> QED
  BY <1>1, <1>2, ClaimBeginKeeps, ClaimLockKeeps, ClaimCommitKeeps, AckReadKeeps, AckSuccessKeeps,
     AckFailureKeeps, RetryCreateKeeps, RetryUpdateKeeps, DismissUpdateKeeps, HandlerCrashKeeps
  DEF HandlerNext

-----------------------------------------------------------------------------
(* The sweeps.                                                               *)

LEMMA SweepBeginKeeps == ASSUME RestoreIInv, NEW s \in Schedulers, SweepBegin(s), Noted PROVE StoreServed /\ RestoreIInv'
<1> DEFINE me == [scheduler[s] EXCEPT !.pc = "reading", !.at = now]
<1>1. /\ scheduler[s] \in SchedulerState
      /\ scheduler[s].readAt <= now
      /\ scheduler[s].todo = {}
      /\ now \in Nat
  BY RowsTyped DEF SweepBegin, SweepKeeps, RestoreIInv
<1>2. /\ me \in SchedulerState
      /\ me.at = now /\ me.readAt = scheduler[s].readAt /\ me.todo = {}
  BY <1>1 DEF SchedulerState
<1>3. /\ scheduler' = [scheduler EXCEPT ![s] = me]
      /\ UNCHANGED <<now, rows, reissueOf, completed, handler, sensorVars>>
  BY DEF SweepBegin, storeVars, sensorVars
<1> HIDE DEF me
<1>4. /\ scheduler' \in [Schedulers -> SchedulerState]
      /\ scheduler'[s] = me
      /\ \A r \in Schedulers : r # s => scheduler'[r] = scheduler[r]
  BY <1>2, <1>3, RowsTyped
<1>5. StoreServed
  BY <1>3, RowsTyped, SameStoreServed
<1>6. SweepReady(s)'
  BY <1>1, <1>2, <1>3, <1>4 DEF SweepReady, SweepKeeps, SweepCopies
<1>7. \A g \in Handlers : \A c \in handler[g].locked : rows'[c] = rows[c]
  BY <1>3
<1> QED BY <1>3, <1>4, <1>5, <1>6, <1>7, SweepActs

\* The copies of a sweep are the rows at the moment of its read.
LEMMA SweepReadKeeps == ASSUME RestoreIInv, NEW s \in Schedulers, SweepRead(s), Noted PROVE StoreServed /\ RestoreIInv'
<1> DEFINE due == {c \in Commands : Sweepable(rows[c], scheduler[s].at)}
           copies == [c \in Commands |-> IF c \in due THEN rows[c] ELSE NoRow]
           me == [scheduler[s] EXCEPT !.pc = "sweeping", !.readAt = now, !.todo = due, !.snap = copies]
<1>1. scheduler[s] \in SchedulerState /\ now \in Nat /\ scheduler[s].at <= now
  BY RowsTyped DEF SweepKeeps, RestoreIInv
<1>2. copies \in [Commands -> Row] /\ \A c \in due : copies[c] = rows[c]
  BY NoRowType, RowsTyped
<1>3. \A c \in due : CopyOf(rows[c], c)
  BY RowsTyped DEF Sweepable, ExpiredIn, TimedOutIn, ExpirableStatuses, CopyOf, Begun
<1>4. due \subseteq Commands
  OBVIOUS
<1>5. /\ scheduler' = [scheduler EXCEPT ![s] = IF due = {} THEN IdleScheduler ELSE me]
      /\ UNCHANGED <<now, rows, reissueOf, completed, handler, sensorVars>>
  BY DEF SweepRead, storeVars, sensorVars
<1> HIDE DEF due, copies
<1>6. /\ me \in SchedulerState
      /\ me.pc = "sweeping" /\ me.at = scheduler[s].at /\ me.readAt = now
      /\ me.todo = due /\ me.snap = copies
  BY <1>1, <1>2, <1>4 DEF SchedulerState
<1> HIDE DEF me
<1>7. StoreServed
  BY <1>5, RowsTyped, SameStoreServed
<1>8. \A g \in Handlers : \A c \in handler[g].locked : rows'[c] = rows[c]
  BY <1>5
<1>9. CASE due = {}
  BY <1>5, <1>7, <1>8, <1>9, SweepEnds
<1>10. CASE due # {}
  <2>1. /\ scheduler' \in [Schedulers -> SchedulerState]
        /\ scheduler'[s] = me
        /\ \A r \in Schedulers : r # s => scheduler'[r] = scheduler[r]
    BY <1>5, <1>6, <1>10, RowsTyped
  <2>2. SweepReady(s)'
    BY <1>1, <1>2, <1>3, <1>5, <1>6, <2>1 DEF SweepReady, SweepKeeps, SweepCopies, CopyOf, Begun
  <2> QED BY <1>5, <1>7, <1>8, <2>1, <2>2, SweepActs
<1> QED BY <1>9, <1>10

LEMMA SweepCommandServed ==
    ASSUME RestoreIInv, NEW s \in Schedulers, NEW c \in Commands, SweepCommand(s, c)
    PROVE  /\ StoreServed
           /\ \A g \in Handlers : \A d \in handler[g].locked : rows'[d] = rows[d]
<1> DEFINE snap == scheduler[s].snap[c]
<1>1. /\ snap \in Row
      /\ scheduler[s].at \in Nat /\ scheduler[s].at <= now
      /\ scheduler[s].readAt \in Nat
      /\ now \in Nat
  BY RowsTyped DEF SweepKeeps, SchedulerState, RestoreIInv
<1>2. ~outlived => CopyOf(snap, c)
  BY DEF SweepCommand, SweepCopies, NothingOutlived, RestoreIInv
<1>3. UNCHANGED <<now, completed, reissueOf>>
  BY DEF SweepCommand, sensorVars
<1>4. CASE ExpiredIn(snap, scheduler[s].at)
  <2>1. UpdateIfStatus(c, ExpirableStatuses, DeadLetteredRow(rows[c], "expired"))
    BY <1>4 DEF SweepCommand, SweepWrite
  <2>2. ~outlived => rows[c].expiresAt <= now
    BY <1>1, <1>2, <1>4, RowsTyped DEF ExpiredIn, CopyOf
  <2>3. "expired" \in Reasons /\ "absent" \notin ExpirableStatuses
    BY DEF Reasons, ExpirableStatuses
  <2>4. rows[c].status \in ExpirableStatuses => MayReplace(DeadLetteredRow(rows[c], "expired"), c)
    BY <2>2, <2>3, ReasonHeld, DeadLetteredRowType DEF MayReplace, Resolvable, Settled
  <2> QED BY <1>3, <2>1, <2>3, <2>4, ConditionalWrites
<1>5. CASE ~ExpiredIn(snap, scheduler[s].at)
  <2>1. PICK t \in scheduler[s].readAt..now :
          UpdateIfStatus(c, AckableStatuses, FailedRow(rows[c], snap, t))
    BY <1>5 DEF SweepCommand, SweepWrite
  <2>2. t \in Nat /\ t <= now
    BY <1>1
  <2> HIDE DEF snap
  <2>3. rows[c].status \in AckableStatuses => MayReplace(FailedRow(rows[c], snap, t), c)
    BY <1>1, <1>2, <2>2, FailedMayReplace
  <2>4. "absent" \notin AckableStatuses
    BY DEF AckableStatuses
  <2> QED BY <1>3, <2>1, <2>3, <2>4, ConditionalWrites
<1> QED BY <1>4, <1>5

LEMMA SweepCommandKeeps ==
    ASSUME RestoreIInv, NEW s \in Schedulers, NEW c \in Commands, SweepCommand(s, c), Noted
    PROVE  StoreServed /\ RestoreIInv'
<1> DEFINE me == SweepRest(scheduler[s], c)
<1>1. /\ scheduler[s] \in SchedulerState
      /\ scheduler[s].at <= now /\ scheduler[s].readAt <= now
      /\ scheduler[s].pc = "sweeping"
  BY RowsTyped DEF SweepCommand, SweepKeeps, RestoreIInv
<1>2. StoreServed /\ \A g \in Handlers : \A d \in handler[g].locked : rows'[d] = rows[d]
  BY SweepCommandServed
<1>3. /\ scheduler' = [scheduler EXCEPT ![s] = IF scheduler[s].todo = {c} THEN IdleScheduler ELSE me]
      /\ UNCHANGED <<now, handler, sensorVars>>
  BY DEF SweepCommand
<1>4. /\ me \in SchedulerState
      /\ me.pc = "sweeping"
      /\ me.at = scheduler[s].at /\ me.readAt = scheduler[s].readAt
      /\ me.todo = scheduler[s].todo \ {c}
      /\ \A e \in me.todo : me.snap[e] = scheduler[s].snap[e]
  BY <1>1, NoRowType DEF SweepRest, SchedulerState
<1> HIDE DEF me
<1>5. CASE scheduler[s].todo = {c}
  BY <1>2, <1>3, <1>5, SweepEnds
<1>6. CASE scheduler[s].todo # {c}
  <2>1. /\ scheduler' \in [Schedulers -> SchedulerState]
        /\ scheduler'[s] = me
        /\ \A r \in Schedulers : r # s => scheduler'[r] = scheduler[r]
    BY <1>3, <1>4, <1>6, RowsTyped
  <2>2. SweepKeeps(s)'
    BY <1>1, <1>3, <1>4, <2>1 DEF SweepKeeps
  <2>3. ASSUME ~outlived PROVE SweepCopies(s)'
    <3>1. \A e \in scheduler[s].todo : e \in Commands /\ scheduler[s].snap[e] \in Row
      BY <1>1 DEF SchedulerState
    <3>2. \A e \in scheduler[s].todo : CopyOf(scheduler[s].snap[e], e)
      BY <2>3 DEF RestoreIInv, NothingOutlived, SweepCopies
    <3>3. ASSUME NEW e \in me.todo
          PROVE  /\ rows'[e].status # "absent"
                 /\ me.snap[e].attempts <= rows'[e].attempts
                 /\ me.snap[e].expiresAt = rows'[e].expiresAt
      <4>1. PICK snap \in Row : snap = scheduler[s].snap[e]
        BY <1>4, <3>1
      <4>2. CopyOf(snap, e)'
        BY <1>2, <1>4, <3>1, <3>2, <4>1, CopyMoves DEF StoreServed
      <4> QED BY <1>4, <4>1, <4>2 DEF CopyOf, Begun
    <3> QED BY <2>1, <3>3 DEF SweepCopies, CopyOf, Begun
  <2>4. outlived' = outlived
    BY <1>2, ExpiryStays DEF StoreServed
  <2> QED BY <1>2, <1>3, <2>1, <2>2, <2>3, <2>4, SweepActs DEF SweepReady
<1> QED BY <1>5, <1>6

LEMMA SweepAbortKeeps == ASSUME RestoreIInv, NEW s \in Schedulers, SweepAbort(s), Noted PROVE StoreServed /\ RestoreIInv'
<1>1. /\ scheduler' = [scheduler EXCEPT ![s] = IdleScheduler]
      /\ UNCHANGED <<now, rows, reissueOf, completed, handler, sensorVars>>
  BY DEF SweepAbort, storeVars, sensorVars
<1>2. StoreServed
  BY <1>1, RowsTyped, SameStoreServed
<1> QED BY <1>1, <1>2, SweepEnds

-----------------------------------------------------------------------------
(* The restore.                                                              *)

LEMMA DeliverKeeps == ASSUME RestoreIInv, Deliver PROVE StoreServed /\ RestoreIInv'
<1>1. Noted
  BY DEF Deliver
<1>2. ASSUME NEW h \in Handlers, HandlerNext(h) PROVE StoreServed /\ RestoreIInv'
  BY <1>1, <1>2, HandlerNextKeeps
<1>3. ASSUME NEW s \in Schedulers, SchedulerNext(s) PROVE StoreServed /\ RestoreIInv'
  BY <1>1, <1>3, SweepBeginKeeps, SweepReadKeeps, SweepCommandKeeps, SweepAbortKeeps DEF SchedulerNext
<1>4. CASE Sensor
  BY <1>1, <1>4, SensorRestartKeeps, RunCopyKeeps DEF Sensor
<1> QED BY <1>1, <1>2, <1>3, <1>4, TickKeeps, IssueKeeps DEF Deliver

\* What the rows promise is promised by an archive of them.
LEMMA ExportKeeps == ASSUME RestoreIInv, Export PROVE RestoreIInv'
<1>1. archive' = [rows |-> rows, reissueOf |-> reissueOf]
  BY DEF Export
<1>2. /\ archive'.rows = rows /\ archive'.reissueOf = reissueOf
      /\ archive' \in [rows: [Commands -> Row], reissueOf: [Commands -> Commands \union {NoCommand}]]
  BY <1>1, RowsTyped
<1>3. /\ UNCHANGED <<now, rows, handler, scheduler, poll, batch, acks, completed, reissueOf>>
      /\ UNCHANGED <<expiry, restoring, restores, outlived>>
  BY DEF Export, vars
<1>4. RestoreTypeOK'
  BY <1>2, <1>3 DEF RestoreIInv, RestoreTypeOK, TypeOK, Begun
<1>5. /\ LocksOK' /\ SensorKeeps'
      /\ \A h \in Handlers : HandlerKeeps(h)'
      /\ \A s \in Schedulers : SweepKeeps(s)'
  BY <1>3 DEF RestoreIInv, LocksOK, SensorKeeps, HandlerKeeps, SweepKeeps
<1>6. StoreSound(rows, reissueOf)' /\ StoreSound(archive.rows, archive.reissueOf)'
  BY <1>2, <1>3 DEF RestoreIInv, StoreSound
<1>7. (~outlived => NothingOutlived)'
  <2>1. SUFFICES ASSUME ~outlived, NothingOutlived PROVE NothingOutlived'
    BY <1>3 DEF RestoreIInv
  <2>2. StoreConsistent(rows, reissueOf)' /\ StoreConsistent(archive.rows, archive.reissueOf)'
    BY <1>2, <1>3, <2>1 DEF NothingOutlived, StoreConsistent
  <2>3. \A h \in Handlers : HandlerCopies(h)'
    BY <1>3, <2>1 DEF NothingOutlived, HandlerCopies, CopyOf, Begun
  <2>4. \A s \in Schedulers : SweepCopies(s)'
    BY <1>3, <2>1 DEF NothingOutlived, SweepCopies, CopyOf, Begun
  <2> QED BY <2>2, <2>3, <2>4 DEF NothingOutlived
<1> QED BY <1>4, <1>5, <1>6, <1>7 DEF RestoreIInv

\* The route's bookkeeping touches neither the rows nor the archive.
LEMMA BookkeepingKeeps ==
    ASSUME RestoreIInv, UNCHANGED <<vars, expiry, archive, outlived>>,
           restoring' \in BOOLEAN, restores' \in 0..MaxRestores
    PROVE  RestoreIInv'
<1>1. /\ UNCHANGED <<now, rows, handler, scheduler, poll, batch, acks, completed, reissueOf>>
      /\ UNCHANGED <<expiry, archive, outlived>>
  BY DEF vars
<1>2. RestoreTypeOK'
  BY <1>1 DEF RestoreIInv, RestoreTypeOK, TypeOK, Begun
<1>3. /\ LocksOK' /\ SensorKeeps'
      /\ \A h \in Handlers : HandlerKeeps(h)'
      /\ \A s \in Schedulers : SweepKeeps(s)'
  BY <1>1 DEF RestoreIInv, LocksOK, SensorKeeps, HandlerKeeps, SweepKeeps
<1>4. StoreSound(rows, reissueOf)' /\ StoreSound(archive.rows, archive.reissueOf)'
  BY <1>1 DEF RestoreIInv, StoreSound
<1>5. (~outlived => NothingOutlived)'
  <2>1. SUFFICES ASSUME ~outlived, NothingOutlived PROVE NothingOutlived'
    BY <1>1 DEF RestoreIInv
  <2>2. StoreConsistent(rows, reissueOf)' /\ StoreConsistent(archive.rows, archive.reissueOf)'
    BY <1>1, <2>1 DEF NothingOutlived, StoreConsistent
  <2>3. \A h \in Handlers : HandlerCopies(h)'
    BY <1>1, <2>1 DEF NothingOutlived, HandlerCopies, CopyOf, Begun
  <2>4. \A s \in Schedulers : SweepCopies(s)'
    BY <1>1, <2>1 DEF NothingOutlived, SweepCopies, CopyOf, Begun
  <2> QED BY <2>2, <2>3, <2>4 DEF NothingOutlived
<1> QED BY <1>2, <1>3, <1>4, <1>5 DEF RestoreIInv

\* The rows of the archive take the place of the others.  No transaction holds
\* a row then; and where no copy is in use, none is out of date afterwards.
LEMMA ImportKeeps == ASSUME RestoreIInv, Import PROVE RestoreIInv'
<1>1. /\ rows' = archive.rows /\ reissueOf' = archive.reissueOf
      /\ TableLocked
      /\ restoring' = FALSE
      /\ outlived' = (outlived \/ CopiesInUse)
      /\ UNCHANGED <<now, handler, scheduler, expiry, archive, restores>>
      /\ UNCHANGED <<poll, batch, acks, completed>>
  BY DEF Import, sensorVars
<1>2. StoreSound(archive.rows, archive.reissueOf)
  BY DEF RestoreIInv
<1>3. outlived' \in BOOLEAN
  BY <1>1
<1>4. rows' \in [Commands -> Row] /\ reissueOf' \in [Commands -> Commands \union {NoCommand}]
  BY <1>1 DEF RestoreIInv, RestoreTypeOK
<1>5. TypeOK'
  BY <1>1, <1>4 DEF RestoreIInv, RestoreTypeOK, TypeOK
<1>6. \A c \in Commands : Begun(c)' => rows'[c].expiresAt = expiry'[c]
  BY <1>1, <1>2 DEF StoreSound, Begun
<1>7. RestoreTypeOK'
  BY <1>1, <1>3, <1>5, <1>6 DEF RestoreIInv, RestoreTypeOK
<1>8. LocksOK'
  <2>1. \A h \in Handlers : handler[h].locked = {}
    BY <1>1 DEF TableLocked, HandlerKeeps, RestoreIInv
  <2> QED BY <1>1, <2>1 DEF LocksOK
<1>9. /\ SensorKeeps'
      /\ \A h \in Handlers : HandlerKeeps(h)'
      /\ \A s \in Schedulers : SweepKeeps(s)'
  BY <1>1 DEF RestoreIInv, SensorKeeps, HandlerKeeps, SweepKeeps
<1>10. StoreSound(rows, reissueOf)' /\ StoreSound(archive.rows, archive.reissueOf)'
  BY <1>1, <1>2 DEF StoreSound
<1>11. (~outlived => NothingOutlived)'
  <2>1. SUFFICES ASSUME ~outlived, ~CopiesInUse PROVE NothingOutlived'
    BY <1>1
  <2>2. StoreConsistent(archive.rows, archive.reissueOf)
    BY <2>1 DEF RestoreIInv, NothingOutlived
  <2>3. StoreConsistent(rows, reissueOf)' /\ StoreConsistent(archive.rows, archive.reissueOf)'
    BY <1>1, <2>2 DEF StoreConsistent
  <2>4. \A h \in Handlers : HandlerCopies(h)'
    BY <1>1, <2>1 DEF CopiesInUse, HoldsCopy, HandlerCopies
  <2>5. \A s \in Schedulers : scheduler[s].todo = {}
    BY <2>1 DEF CopiesInUse, SweepKeeps, RestoreIInv
  <2>6. \A s \in Schedulers : SweepCopies(s)'
    BY <1>1, <2>5 DEF SweepCopies
  <2> QED BY <2>3, <2>4, <2>6 DEF NothingOutlived
<1> QED BY <1>7, <1>8, <1>9, <1>10, <1>11 DEF RestoreIInv

LEMMA RestoreNextKeeps == ASSUME RestoreIInv, [RestoreNext]_allVars PROVE RestoreIInv'
<1>1. restoring \in BOOLEAN /\ restores \in 0..MaxRestores
  BY DEF RestoreIInv, RestoreTypeOK
<1>2. CASE RestoreBegin
  <2>1. restores' \in 0..MaxRestores
    BY <1>1, <1>2, RestoreAssumption DEF RestoreBegin
  <2> QED BY <1>2, <2>1, BookkeepingKeeps DEF RestoreBegin
<1>3. CASE RestoreFail
  BY <1>1, <1>3, BookkeepingKeeps DEF RestoreFail
<1>4. CASE UNCHANGED allVars
  BY <1>1, <1>4, BookkeepingKeeps DEF allVars, restoreVars
<1> QED BY <1>2, <1>3, <1>4, DeliverKeeps, ExportKeeps, ImportKeeps DEF RestoreNext

LEMMA RestoreInitIInv == ASSUME RestoreInit PROVE RestoreIInv
<1>1. IInv
  BY InitIInv DEF RestoreInit
<1>2. \A c \in Commands : rows[c] = NoRow /\ rows[c].status = "absent" /\ reissueOf[c] = NoCommand
                          /\ rows[c].deadLetterReason = "none"
  BY NoRowType DEF RestoreInit, Init, NoRow
<1>3. archive.rows = rows /\ archive.reissueOf = reissueOf /\ outlived = FALSE
  BY DEF RestoreInit
<1>4. RestoreTypeOK
  <2>1. TypeOK /\ rows \in [Commands -> Row] /\ reissueOf \in [Commands -> Commands \union {NoCommand}]
    BY <1>1 DEF IInv, TypeOK
  <2>2. archive \in [rows: [Commands -> Row], reissueOf: [Commands -> Commands \union {NoCommand}]]
    BY <2>1 DEF RestoreInit
  <2>3. expiry \in [Commands -> Nat] /\ restoring \in BOOLEAN /\ outlived \in BOOLEAN
    BY DEF RestoreInit
  <2>4. restores \in 0..MaxRestores
    BY RestoreAssumption DEF RestoreInit
  <2> QED BY <1>2, <2>1, <2>2, <2>3, <2>4 DEF RestoreTypeOK, Begun
<1>5. StoreSound(rows, reissueOf) /\ StoreSound(archive.rows, archive.reissueOf)
  BY <1>2, <1>3 DEF StoreSound
<1>6. LocksOK /\ (\A h \in Handlers : HandlerKeeps(h)) /\ (\A s \in Schedulers : SweepKeeps(s)) /\ SensorKeeps
  BY <1>1 DEF RestoreInit, Init, IInv, HandlerKeeps, IdleHandler, SweepKeeps, IdleScheduler, SensorKeeps
<1>7. NothingOutlived
  <2>1. StoreConsistent(rows, reissueOf) /\ StoreConsistent(archive.rows, archive.reissueOf)
    BY <1>2, <1>3, NamesAssumption DEF StoreConsistent
  <2>2. (\A h \in Handlers : HandlerCopies(h)) /\ (\A s \in Schedulers : SweepCopies(s))
    BY DEF RestoreInit, Init, HandlerCopies, IdleHandler, SweepCopies, IdleScheduler
  <2> QED BY <2>1, <2>2 DEF NothingOutlived
<1> QED BY <1>4, <1>5, <1>6, <1>7 DEF RestoreIInv

-----------------------------------------------------------------------------
(* The theorems.                                                             *)

\* The inductive invariant: the rows and the archive are sound whatever was
\* restored, and consistent, with every copy in use, until one has outlived an
\* import.
THEOREM RestoreInductive == RestoreSpec => []RestoreIInv
<1>1. RestoreInit => RestoreIInv
  BY RestoreInitIInv
<1>2. RestoreIInv /\ [RestoreNext]_allVars => RestoreIInv'
  BY RestoreNextKeeps
<1> QED BY <1>1, <1>2, PTL DEF RestoreSpec

\* Through any restores, each delivery is claimed once: a step of the delivery
\* moves the attempts of a row only from a waiting row, by one, to a dispatched
\* one, and a command that has settled stays out of delivery.
THEOREM DeliveriesClaimedOnce ==
    RestoreSpec => [][Deliver => \A c \in Commands :
        /\ rows'[c].attempts # rows[c].attempts =>
              /\ rows[c].status \in DeliverableStatuses
              /\ rows'[c].status = "dispatched"
              /\ rows'[c].attempts = rows[c].attempts + 1
        /\ rows[c].status \in Settled => rows'[c].status \in Settled]_allVars
<1>1. RestoreIInv /\ [RestoreNext]_allVars =>
        [Deliver => \A c \in Commands :
            /\ rows'[c].attempts # rows[c].attempts =>
                  /\ rows[c].status \in DeliverableStatuses
                  /\ rows'[c].status = "dispatched"
                  /\ rows'[c].attempts = rows[c].attempts + 1
            /\ rows[c].status \in Settled => rows'[c].status \in Settled]_allVars
  BY DeliverKeeps DEF StoreServed, StoreMoves, RowMoves, Settled
<1> QED BY <1>1, RestoreInductive, PTL DEF RestoreSpec

\* Every variable keeps to its kind, and the rows of a command have one expiry,
\* before and after any restore.
THEOREM RestoreTypeCorrect == RestoreSpec => []RestoreTypeOK
<1>1. RestoreIInv => RestoreTypeOK
  BY DEF RestoreIInv
<1> QED BY <1>1, RestoreInductive, PTL

\* An acknowledged command was carried out, whatever is restored when; and a
\* restore that comes between a read and its write in no request and no sweep
\* leaves dead letters, retries and reissues as they were promised.
THEOREM RestoresKeepPromises == RestoreSpec => []RestoreKeepsPromises
<1>1. RestoreIInv => RestoreKeepsPromises
  <2> SUFFICES ASSUME RestoreIInv PROVE RestoreKeepsPromises
    OBVIOUS
  <2>1. AcknowledgedWasCompleted
    BY DEF RestoreIInv, StoreSound, AcknowledgedWasCompleted
  <2>2. ASSUME ~outlived PROVE DeadLetterJustified /\ ReissuedIsOutOfDelivery /\ RetriedHasSuccessor
    <3>1. StoreConsistent(rows, reissueOf)
      BY <2>2 DEF RestoreIInv, NothingOutlived
    <3> QED BY <3>1 DEF StoreConsistent, DeadLetterJustified, ReissuedIsOutOfDelivery, RetriedHasSuccessor
  <2> QED BY <2>1, <2>2 DEF RestoreKeepsPromises
<1> QED BY <1>1, RestoreInductive, PTL
=============================================================================
