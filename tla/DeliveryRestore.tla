--------------------------- MODULE DeliveryRestore ---------------------------
(* CommandDelivery with a restore of the store under it (server/backup.js,   *)
(* importSnapshot of server/store.js, the restore route of server/index.js). *)
(* An archive puts back the rows of an earlier moment, while the sensor, the *)
(* messages, and the handlers and sweeps of all replicas stay where they     *)
(* are.                                                                      *)
(*                                                                           *)
(* Abstracted: archives are Recovery's subject, here there is one, intact,   *)
(* and the sensor is registered in it.  The gate turns mutating requests     *)
(* away when they arrive at the replica that restores; those that arrived    *)
(* before or elsewhere, sweeps and polls, which are GET requests, go on.  So *)
(* no step of the delivery is excluded here.                                 *)
EXTENDS CommandDelivery

CONSTANT MaxRestores    \* bound of the restores

ASSUME RestoreAssumption == MaxRestores \in Nat

VARIABLES
    expiry,       \* expiresAt of each command ever issued, 0 of the others
    archive,      \* the rows of the archive, with their history
    restoring,    \* backupService.restoring
    restores,     \* restores begun
    outlived      \* history: a copy of a row read before an import was in use after it

restoreVars == <<archive, restoring, restores, outlived>>
allVars == <<vars, expiry, restoreVars>>

RestoreInit ==
    /\ Init
    /\ expiry = [c \in Commands |-> 0]
    /\ archive = [rows |-> rows, reissueOf |-> reissueOf]
    /\ restoring = FALSE
    /\ restores = 0
    /\ outlived = FALSE

-----------------------------------------------------------------------------
(* The delivery.                                                             *)

\* Identifiers are random: one that a restore removed is not drawn again.
NewNames == \A c \in Commands :
    rows[c].status = "absent" /\ rows'[c].status # "absent" => expiry[c] = 0

Noted ==
    /\ NewNames
    /\ expiry' = [c \in Commands |->
                     IF rows'[c].status = "absent" THEN expiry[c] ELSE rows'[c].expiresAt]
    /\ UNCHANGED restoreVars

\* The sensor goes by the expiry in its copy; the row may be gone.
RunCopy(c) == RunUntil(c, expiry[c])

Sensor == SensorRestart \/ \E c \in Commands : RunCopy(c)

Deliver ==
    /\ \/ Tick
       \/ \E c \in Commands : Issue(c)
       \/ Sensor
       \/ \E h \in Handlers : HandlerNext(h)
       \/ \E s \in Schedulers : SchedulerNext(s)
    /\ Noted

-----------------------------------------------------------------------------
(* The restore.                                                              *)

\* exportSnapshot, in one repeatable-read transaction: what is committed.
Export ==
    /\ ~restoring /\ restores < MaxRestores
    /\ archive' = [rows |-> rows, reissueOf |-> reissueOf]
    /\ UNCHANGED <<vars, expiry, restoring, restores, outlived>>

\* The route: its own sweep timer stops, a sweep in progress does not.
RestoreBegin ==
    /\ ~restoring /\ restores < MaxRestores
    /\ restoring' = TRUE /\ restores' = restores + 1
    /\ UNCHANGED <<vars, expiry, archive, outlived>>

\* Requests and sweeps whose next write is decided by a row read before.
HoldsCopy(h) == handler[h].pc \in {"ack_failure", "retry_create", "retry_update"}

CopiesInUse ==
    \/ \E h \in Handlers : HoldsCopy(h)
    \/ \E s \in Schedulers : scheduler[s].pc = "sweeping"

\* LOCK TABLE ... IN ACCESS EXCLUSIVE MODE waits for the claims in progress.
TableLocked == \A h \in Handlers : handler[h].pc # "claimed"

\* Mutant: the rows of the archive are written over those there are.
Import_NoDelete ==
    /\ restoring /\ TableLocked
    /\ rows' = [c \in Commands |->
                   IF archive.rows[c].status = "absent" THEN rows[c] ELSE archive.rows[c]]
    /\ reissueOf' = [c \in Commands |->
                   IF archive.rows[c].status = "absent" THEN reissueOf[c] ELSE archive.reissueOf[c]]
    /\ restoring' = FALSE
    /\ outlived' = (outlived \/ CopiesInUse)
    /\ UNCHANGED <<now, handler, scheduler, sensorVars, expiry, archive, restores>>

\* importSnapshot deletes what there is and inserts the archive.
Import ==
    /\ restoring /\ TableLocked
    /\ rows' = archive.rows /\ reissueOf' = archive.reissueOf
    /\ restoring' = FALSE
    /\ outlived' = (outlived \/ CopiesInUse)
    /\ UNCHANGED <<now, handler, scheduler, sensorVars, expiry, archive, restores>>

\* Validation, checkpoint or import fails, and the transaction rolls back.
RestoreFail ==
    /\ restoring
    /\ restoring' = FALSE
    /\ UNCHANGED <<vars, expiry, archive, restores, outlived>>

-----------------------------------------------------------------------------
RestoreNext == Deliver \/ Export \/ RestoreBegin \/ Import \/ RestoreFail

RestoreSpec == RestoreInit /\ [][RestoreNext]_allVars

-----------------------------------------------------------------------------
(* Properties.                                                               *)

\* Every variable holds a value of its kind, and a row has the expiry that its
\* command was issued with.
RestoreTypeOK ==
    /\ TypeOK
    /\ expiry \in [Commands -> Nat]
    /\ archive \in [rows: [Commands -> Row], reissueOf: [Commands -> Commands \union {NoCommand}]]
    /\ restoring \in BOOLEAN
    /\ restores \in 0..MaxRestores
    /\ outlived \in BOOLEAN
    /\ \A c \in Commands : Begun(c) => rows[c].expiresAt = expiry[c]

\* Whatever is restored, an acknowledged command was carried out.  And a restore
\* between the steps of the delivery keeps what dead letters, retries and
\* reissues promise, whatever the sensor holds and whatever messages are under
\* way, unless a handler or sweep goes on with a row read before it.
RestoreKeepsPromises ==
    /\ AcknowledgedWasCompleted
    /\ ~outlived => DeadLetterJustified /\ ReissuedIsOutOfDelivery /\ RetriedHasSuccessor

-----------------------------------------------------------------------------
(* The inductive invariant: what is true of the store and of the archive     *)
(* whatever was restored when, and what more is true of them, and of the     *)
(* copies in use, as long as no copy has outlived an import.                 *)

\* Of the rows rs with the history re, which were once those of the store.
StoreSound(rs, re) ==
    \A c \in Commands :
        /\ rs[c].status = "absent" => rs[c] = NoRow /\ re[c] = NoCommand
        /\ rs[c].status # "absent" => expiry[c] # 0 /\ rs[c].expiresAt = expiry[c]
        /\ rs[c].status = "acknowledged" => c \in completed

StoreConsistent(rs, re) ==
    \A c \in Commands :
        /\ rs[c].deadLetterReason = "attempt_limit" => rs[c].attempts >= MaxAttempts
        /\ rs[c].deadLetterReason = "expired" => rs[c].expiresAt <= now
        /\ \A d \in Commands : re[d] = c => rs[c].status \in Resolvable
        /\ rs[c].status = "retried" =>
              /\ rs[c].retriedAs \in Commands
              /\ rs[rs[c].retriedAs].status # "absent"
              /\ re[rs[c].retriedAs] = c

\* What a handler or a sweep may rely on although the rows were replaced.
HandlerKeeps(h) ==
    LET me == handler[h]
    IN  /\ me.at <= now
        /\ me.pc # "claimed" => me.locked = {}
        /\ me.due \subseteq me.locked
        /\ me.pc \in {"ack_success", "ack_failure", "retry_create", "retry_update", "dismiss_update"} =>
              me.cmd \in Commands
        /\ me.pc = "ack_success" => me.cmd \in completed
        /\ me.pc = "retry_update" => me.successor \in Commands

SweepKeeps(s) ==
    /\ scheduler[s].at <= now
    /\ scheduler[s].readAt <= now
    /\ scheduler[s].pc # "sweeping" => scheduler[s].todo = {}

\* What it may rely on when the rows are those it has read, and later.
HandlerCopies(h) ==
    LET me == handler[h]
    IN  /\ me.pc = "ack_failure" =>
              expiry[me.cmd] # 0 /\ (Begun(me.cmd) => CopyOf(me.snap, me.cmd))
        /\ me.pc \in {"retry_create", "retry_update"} => rows[me.cmd].status \in Resolvable
        /\ me.pc = "retry_update" => Begun(me.successor) /\ reissueOf[me.successor] = me.cmd

SweepCopies(s) == \A c \in scheduler[s].todo : CopyOf(scheduler[s].snap[c], c)

SensorKeeps ==
    /\ \A c \in batch : expiry[c] # 0
    /\ \A m \in acks : expiry[m.cmd] # 0 /\ (m.outcome = "success" => m.cmd \in completed)

NothingOutlived ==
    /\ StoreConsistent(rows, reissueOf)
    /\ StoreConsistent(archive.rows, archive.reissueOf)
    /\ \A h \in Handlers : HandlerCopies(h)
    /\ \A s \in Schedulers : SweepCopies(s)

RestoreIInv ==
    /\ RestoreTypeOK
    /\ LocksOK
    /\ StoreSound(rows, reissueOf)
    /\ StoreSound(archive.rows, archive.reissueOf)
    /\ \A h \in Handlers : HandlerKeeps(h)
    /\ \A s \in Schedulers : SweepKeeps(s)
    /\ SensorKeeps
    /\ ~outlived => NothingOutlived
=============================================================================
