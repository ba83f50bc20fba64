------------------------------ MODULE Recovery ------------------------------
(* Backups, restores and the audit trail (server/backup.js, audit.js, and    *)
(* the export, import and audit append of server/store.js), on one JSON      *)
(* controller or on several over PostgreSQL that share BACKUP_DIR.           *)
(*                                                                           *)
(* A step is what happens between two awaits, or one transaction.  Each      *)
(* mutation, backup and restore request is made once.                        *)
(*                                                                           *)
(* Abstracted: a record is the mutation that wrote it; the hash of an event  *)
(* is its identity (a digest covers the previous one); encryption, sizes and *)
(* keys, for which decoding an intact archive always succeeds.               *)
EXTENDS Naturals, Sequences, FiniteSets, SequencesExt

CONSTANTS
    Replicas,       \* the controllers
    Modes,          \* store modes to consider: "json", "postgresql"
    Writes,         \* administrative mutations
    Calls,          \* backups and restores
    NoCall,
    NoReplica,
    Genesis,        \* genesisHash
    Retention,      \* BACKUP_RETENTION_COUNT
    Faults          \* what may go wrong: "crash", "failure"

ASSUME RecoveryAssumption ==
    /\ NoCall \notin Calls
    /\ NoReplica \notin Replicas
    /\ Genesis \notin Writes \union Calls
    /\ Writes \intersect Calls = {}
    /\ Retention \in Nat \ {0}
    /\ Modes \subseteq {"json", "postgresql"}
    /\ Faults \subseteq {"crash", "failure"}

VARIABLES
    mode,           \* store.mode
    serving,        \* the controllers that run: one in JSON mode
    records,        \* the mutations whose records the store holds
    audit,          \* the audit chain, oldest first
    reader,         \* who holds the audit lock, and the head it read
    created,        \* the archives ever built, by createdAt
    archives,       \* what each file in BACKUP_DIR holds
    write,          \* progress of each mutation
    call,           \* progress of each backup and restore
    pending,        \* BackupService.pending: the calls, the first one running
    restoring,      \* BackupService.restoring
    trail,          \* AuditTrail.pending: events to append, in order
    lastEvent,      \* the last event put on that chain
    rejected        \* events whose append failed

storeVars == <<mode, serving, records, audit, reader, created, archives>>
serviceVars == <<pending, restoring>>
trailVars == <<trail, lastEvent, rejected>>
vars == <<storeVars, write, call, serviceVars, trailVars>>

Requests == Writes \union Calls
Event == [of: Requests, previousHash: Requests \union {Genesis}]
Snapshot == [records: SUBSET Writes, auditEvents: Seq(Event)]
NoSnapshot == [records |-> {}, auditEvents |-> <<>>]

Underway == {"waiting", "verifying", "archiving", "flushing", "sealing", "importing"}
Pcs == {"new", "admitted", "done", "failed"} \union Underway

\* snapshot: what a restore decrypted.  exported: what createInternal exported.
\* owed and inflight only record the past: the events on the replica's chain
\* when the flush began, and the mutations admitted when the restore did.
CallState == [op: {"backup", "scheduled", "restore"}, at: Replicas \union {NoReplica},
              pc: Pcs, target: Calls \union {NoCall}, snapshot: Snapshot,
              exported: Snapshot, awaits: Requests \union {Genesis},
              owed: SUBSET Requests, inflight: SUBSET Writes]

NewCall == [op |-> "backup", at |-> NoReplica, pc |-> "new", target |-> NoCall,
            snapshot |-> NoSnapshot, exported |-> NoSnapshot, awaits |-> Genesis,
            owed |-> {}, inflight |-> {}]

Directory == DOMAIN archives

\* What is left of a call that settled.
Settled(state, ok) ==
    IF ok THEN [NewCall EXCEPT !.pc = "done", !.op = state.op, !.at = state.at]
    ELSE [NewCall EXCEPT !.pc = "failed"]

NotReading == [locked |-> FALSE, head |-> Genesis]

-----------------------------------------------------------------------------
Init ==
    /\ mode \in Modes
    /\ serving \in IF mode = "json" THEN {{r} : r \in Replicas} ELSE {Replicas}
    /\ records = {}
    /\ audit = <<>>
    /\ reader = [r \in Replicas |-> NotReading]
    /\ created = <<>>
    /\ archives = [k \in {} |-> NoSnapshot]
    /\ write = [w \in Writes |-> [at |-> NoReplica, pc |-> "new"]]
    /\ call = [k \in Calls |-> NewCall]
    /\ pending = [r \in Replicas |-> <<>>]
    /\ restoring = [r \in Replicas |-> FALSE]
    /\ trail = [r \in Replicas |-> <<>>]
    /\ lastEvent = [r \in Replicas |-> Genesis]
    /\ rejected = {}

-----------------------------------------------------------------------------
(* The audit trail *)

\* append, from the finish of a response: after the appends already chained.
Chain(r, e) ==
    /\ trail' = [trail EXCEPT ![r] = Append(@, e)]
    /\ lastEvent' = [lastEvent EXCEPT ![r] = e]
    /\ UNCHANGED rejected

HeadOfChain == IF audit = <<>> THEN Genesis ELSE Last(audit).of

Locked == \E r \in Replicas : reader[r].locked

\* Mutant: the first event has no previous hash.
AppendRead_NoGenesis(r) ==
    /\ trail[r] # <<>> /\ ~Locked
    /\ reader' = [reader EXCEPT ![r] = [locked |-> TRUE,
                      head |-> IF audit = <<>> THEN NoReplica ELSE HeadOfChain]]
    /\ UNCHANGED <<mode, serving, records, audit, created, archives,
                   write, call, serviceVars, trailVars>>

\* Mutant: no advisory lock.
AppendRead_NoLock(r) ==
    /\ trail[r] # <<>> /\ ~reader[r].locked
    /\ reader' = [reader EXCEPT ![r] = [locked |-> TRUE, head |-> HeadOfChain]]
    /\ UNCHANGED <<mode, serving, records, audit, created, archives,
                   write, call, serviceVars, trailVars>>

\* appendAudit takes the lock and reads the newest event.
AppendRead(r) ==
    /\ trail[r] # <<>> /\ ~Locked
    /\ reader' = [reader EXCEPT ![r] = [locked |-> TRUE, head |-> HeadOfChain]]
    /\ UNCHANGED <<mode, serving, records, audit, created, archives,
                   write, call, serviceVars, trailVars>>

Unlock(r) == reader' = [reader EXCEPT ![r] = NotReading]

AppendCommit(r) ==
    /\ reader[r].locked
    /\ audit' = Append(audit, [of |-> Head(trail[r]), previousHash |-> reader[r].head])
    /\ Unlock(r)
    /\ trail' = [trail EXCEPT ![r] = Tail(@)]
    /\ UNCHANGED <<mode, serving, records, created, archives, write, call,
                   serviceVars, lastEvent, rejected>>

\* A failed append is reported on the console and the event is lost; the next
\* one is chained to its rejection.
AppendFail(r) ==
    /\ "failure" \in Faults
    /\ reader[r].locked
    /\ Unlock(r)
    /\ rejected' = rejected \union {Head(trail[r])}
    /\ trail' = [trail EXCEPT ![r] = Tail(@)]
    /\ UNCHANGED <<mode, serving, records, audit, created, archives, write,
                   call, serviceVars, lastEvent>>

VerifyEvents(events) ==
    \A i \in 2..Len(events) : events[i].previousHash = events[i - 1].of

-----------------------------------------------------------------------------
(* Mutations, and the gate *)

\* Mutant: mutations pass during a restore.
Admit_NoGate(w, r) ==
    /\ write[w].pc = "new" /\ r \in serving
    /\ write' = [write EXCEPT ![w] = [at |-> r, pc |-> "admitted"]]
    /\ UNCHANGED <<storeVars, call, serviceVars, trailVars>>

Admit(w, r) ==
    /\ write[w].pc = "new" /\ r \in serving
    /\ ~restoring[r]
    /\ write' = [write EXCEPT ![w] = [at |-> r, pc |-> "admitted"]]
    /\ UNCHANGED <<storeVars, call, serviceVars, trailVars>>

\* The 503 is audited too.
Refuse(w, r) ==
    /\ write[w].pc = "new" /\ r \in serving
    /\ restoring[r]
    /\ write' = [write EXCEPT ![w] = [at |-> r, pc |-> "done"]]
    /\ Chain(r, w)
    /\ UNCHANGED <<storeVars, call, serviceVars>>

\* The route writes its record and answers.
Store(w) ==
    /\ write[w].pc = "admitted"
    /\ records' = records \union {w}
    /\ write' = [write EXCEPT ![w].pc = "done"]
    /\ Chain(write[w].at, w)
    /\ UNCHANGED <<mode, serving, audit, reader, created, archives, call, serviceVars>>

-----------------------------------------------------------------------------
(* Backup and restore calls *)

Running(k, pc) ==
    call[k].pc = pc /\ pending[call[k].at] # <<>> /\ Head(pending[call[k].at]) = k

\* A backup or restore request passes the gate, like any mutation; a restore
\* names an archive that the operator was shown.
Request(k, op, r, target) ==
    /\ call[k].pc = "new" /\ r \in serving
    /\ ~restoring[r]
    /\ IF op = "restore" THEN target \in Directory ELSE target = NoCall
    /\ call' = [call EXCEPT ![k] = [NewCall EXCEPT !.op = op, !.at = r,
                                        !.target = target, !.pc = "admitted"]]
    /\ UNCHANGED <<storeVars, write, serviceVars, trailVars>>

\* The answer of a call that never reached the chain of calls: its 409.
Refused(k) ==
    /\ call[k].pc = "admitted" /\ call[k].op = "restore" /\ restoring[call[k].at]
    /\ call' = [call EXCEPT ![k] = Settled(@, FALSE)]
    /\ Chain(call[k].at, k)
    /\ UNCHANGED <<storeVars, write, serviceVars>>

\* create and restore: onto the chain of exclusive operations.
Enter(k) ==
    LET r == call[k].at IN
    /\ call[k].pc = "admitted"
    /\ call[k].op = "restore" => ~restoring[r]
    /\ restoring' = [restoring EXCEPT ![r] = @ \/ call[k].op = "restore"]
    /\ pending' = [pending EXCEPT ![r] = Append(@, k)]
    /\ call' = [call EXCEPT ![k].pc = "waiting",
                    ![k].inflight = {w \in Writes : write[w] = [at |-> r, pc |-> "admitted"]}]
    /\ UNCHANGED <<storeVars, write, trailVars>>

\* The backup timer of the leader calls create: no request, no gate.
Tick(k, r) ==
    /\ call[k].pc = "new" /\ r \in serving
    /\ pending' = [pending EXCEPT ![r] = Append(@, k)]
    /\ call' = [call EXCEPT ![k] = [NewCall EXCEPT !.op = "scheduled", !.at = r,
                                        !.pc = "waiting"]]
    /\ UNCHANGED <<storeVars, write, restoring, trailVars>>

\* Mutant: the flag is cleared only when a restore succeeds.
End_FlagKept(k, ok) ==
    LET r == call[k].at IN
    /\ pending' = [pending EXCEPT ![r] = Tail(@)]
    /\ restoring' = [restoring EXCEPT ![r] = @ /\ ~(ok /\ call[k].op = "restore")]
    /\ call' = [call EXCEPT ![k] = Settled(@, ok)]
    /\ IF call[k].op = "scheduled" THEN UNCHANGED trailVars ELSE Chain(r, k)

\* The operation settles; the next one on the chain runs, and a request is answered.
End(k, ok) ==
    LET r == call[k].at IN
    /\ pending' = [pending EXCEPT ![r] = Tail(@)]
    /\ restoring' = [restoring EXCEPT ![r] = @ /\ call[k].op # "restore"]
    /\ call' = [call EXCEPT ![k] = Settled(@, ok)]
    /\ IF call[k].op = "scheduled" THEN UNCHANGED trailVars ELSE Chain(r, k)

Present(k) == call[k].target \in Directory

Archived(k) == archives[call[k].target]

\* validateInternal reads and decrypts the archive.
Verify(k) ==
    /\ Running(k, "waiting") /\ call[k].op = "restore"
    /\ Present(k)
    /\ call' = [call EXCEPT ![k].pc = "verifying"]
    /\ UNCHANGED <<storeVars, write, serviceVars, trailVars>>

\* It checks the chain, and restore reads and decrypts the archive again.
Decrypt(k) ==
    /\ Running(k, "verifying")
    /\ Present(k) /\ VerifyEvents(Archived(k).auditEvents)
    /\ call' = [call EXCEPT ![k].pc = "archiving", ![k].snapshot = Archived(k)]
    /\ UNCHANGED <<storeVars, write, serviceVars, trailVars>>

\* Mutant: no flush.
Flush_Nothing(k) ==
    /\ \/ Running(k, "archiving")
       \/ Running(k, "waiting") /\ call[k].op # "restore"
    /\ call' = [call EXCEPT ![k].pc = "flushing", ![k].awaits = Genesis,
                    ![k].owed = ToSet(trail[call[k].at])]
    /\ UNCHANGED <<storeVars, write, serviceVars, trailVars>>

\* createInternal awaits the appends chained so far, by the last of them.
Flush(k) ==
    /\ \/ Running(k, "archiving")
       \/ Running(k, "waiting") /\ call[k].op # "restore"
    /\ call' = [call EXCEPT ![k].pc = "flushing", ![k].awaits = lastEvent[call[k].at],
                    ![k].owed = ToSet(trail[call[k].at])]
    /\ UNCHANGED <<storeVars, write, serviceVars, trailVars>>

Flushed(k) ==
    Running(k, "flushing") /\ call[k].awaits \notin ToSet(trail[call[k].at])

\* exportSnapshot: records and events of one moment; createdAt is taken next.
Export(k) ==
    /\ Flushed(k) /\ call[k].awaits \notin rejected
    /\ call' = [call EXCEPT ![k].pc = "sealing",
                    ![k].exported = [records |-> records, auditEvents |-> audit]]
    /\ created' = Append(created, k)
    /\ UNCHANGED <<mode, serving, records, audit, reader, archives, write,
                   serviceVars, trailVars>>

\* The archives of a directory, newest first, that prune keeps.
Newer(k) == {j \in Calls : \E m, n \in DOMAIN created :
                 m < n /\ created[m] = k /\ created[n] = j}

\* Mutant: prune keeps the oldest.
Kept_Oldest(files) == {k \in files : Cardinality(files \ Newer(k)) =< Retention}

Kept(files) == {k \in files : Cardinality(Newer(k) \intersect files) < Retention}

\* The archive is written and renamed into place, and old ones are pruned.
Seal(k) ==
    /\ Running(k, "sealing")
    /\ archives' = [j \in Kept(Directory \union {k}) |->
                        IF j = k THEN call[k].exported ELSE archives[j]]
    /\ IF call[k].op = "restore"
       THEN /\ call' = [call EXCEPT ![k].pc = "importing"]
            /\ UNCHANGED <<serviceVars, trailVars>>
       ELSE End(k, TRUE)
    /\ UNCHANGED <<mode, serving, records, audit, reader, created, write>>

Load(snapshot) ==
    /\ records' = snapshot.records
    /\ audit' = snapshot.auditEvents

\* importSnapshot: one transaction under table locks, which wait for an append
\* that has read the chain; in JSON mode two files, after the append in progress.
Import(k) ==
    /\ Running(k, "importing")
    /\ ~Locked
    /\ Load(call[k].snapshot)
    /\ End(k, TRUE)
    /\ UNCHANGED <<mode, serving, reader, created, archives, write>>

\* A step of the running call throws: the archive is gone, an awaited append
\* was rejected, a file or a statement fails.  The stores undo a failed import.
Fail(k) ==
    /\ \E pc \in Underway : Running(k, pc)
    /\ \/ "failure" \in Faults
       \/ call[k].op = "restore" /\ call[k].pc \in {"waiting", "verifying"} /\ ~Present(k)
       \/ Flushed(k) /\ call[k].awaits \in rejected
    /\ End(k, FALSE)
    /\ UNCHANGED <<storeVars, write>>

\* What is left of a controller that stops and starts again.
Forget(r) ==
    /\ Unlock(r)
    /\ write' = [w \in Writes |-> IF write[w].at = r THEN [write[w] EXCEPT !.pc = "done"]
                                  ELSE write[w]]
    /\ call' = [k \in Calls |-> IF call[k].at = r /\ call[k].pc # "done" THEN Settled(call[k], FALSE)
                                ELSE call[k]]
    /\ pending' = [pending EXCEPT ![r] = <<>>]
    /\ restoring' = [restoring EXCEPT ![r] = FALSE]
    /\ trail' = [trail EXCEPT ![r] = <<>>]
    /\ lastEvent' = [lastEvent EXCEPT ![r] = Genesis]
    /\ UNCHANGED <<mode, serving, created, archives, rejected>>

Restart(r) ==
    /\ "crash" \in Faults /\ r \in serving
    /\ Forget(r)
    /\ UNCHANGED <<records, audit>>

\* The JSON controller stops after it renamed state.json and before audit.ndjson.
TornImport(k) ==
    /\ "crash" \in Faults /\ mode = "json"
    /\ Running(k, "importing") /\ ~Locked
    /\ Forget(call[k].at)
    /\ records' = call[k].snapshot.records
    /\ UNCHANGED audit

-----------------------------------------------------------------------------
CallStep(k) ==
    \/ Refused(k) \/ Enter(k) \/ Verify(k) \/ Decrypt(k) \/ Flush(k)
    \/ Export(k) \/ Seal(k) \/ Import(k)

Append_(r) == AppendRead(r) \/ AppendCommit(r) \/ AppendFail(r)

Arrival ==
    \/ \E w \in Writes, r \in Replicas : Admit(w, r) \/ Refuse(w, r)
    \/ \E k \in Calls, r \in Replicas : Tick(k, r)
    \/ \E k \in Calls, r \in Replicas, target \in Calls \union {NoCall} :
           Request(k, "backup", r, target) \/ Request(k, "restore", r, target)

Next ==
    \/ Arrival
    \/ \E w \in Writes : Store(w)
    \/ \E k \in Calls : CallStep(k) \/ Fail(k) \/ TornImport(k)
    \/ \E r \in Replicas : Append_(r) \/ Restart(r)

Spec == Init /\ [][Next]_vars

-----------------------------------------------------------------------------
EventsOf(events) == {e.of : e \in ToSet(events)}

\* Every variable has its type; the chain of calls holds calls of its replica.
TypeOK ==
    /\ mode \in Modes /\ serving \subseteq Replicas
    /\ records \subseteq Writes
    /\ audit \in Seq(Event)
    /\ reader \in [Replicas -> [locked: BOOLEAN, head: Requests \union {Genesis}]]
    /\ created \in Seq(Calls)
    /\ Directory \subseteq Calls /\ archives \in [Directory -> Snapshot]
    /\ write \in [Writes -> [at: Replicas \union {NoReplica}, pc: {"new", "admitted", "done"}]]
    /\ call \in [Calls -> CallState]
    /\ pending \in [Replicas -> Seq(Calls)]
    /\ restoring \in [Replicas -> BOOLEAN]
    /\ trail \in [Replicas -> Seq(Requests)]
    /\ lastEvent \in [Replicas -> Requests \union {Genesis}]
    /\ rejected \subseteq Requests
    /\ \A r \in Replicas : \A i \in DOMAIN pending[r] : call[pending[r][i]].at = r

\* The audit chain verifies, in the store and in every archive, whatever the
\* replicas append at once, and across restores, torn ones included.
ChainVerifies ==
    /\ VerifyEvents(audit)
    /\ \A k \in Directory : VerifyEvents(archives[k].auditEvents)

\* The restore gate of a replica is closed exactly while one of its calls is a
\* restore that has not settled, and there is only one.
GateMatchesRestore ==
    \A r \in Replicas :
        Cardinality({k \in ToSet(pending[r]) : call[k].op = "restore"})
            = IF restoring[r] THEN 1 ELSE 0

\* A restore that is about to replace the store has left its checkpoint in the
\* directory, unless so many archives are newer that retention removed it.
CheckpointIsKept ==
    \A k \in Calls :
        call[k].pc = "importing" =>
            \/ k \in Directory
            \/ Cardinality(Newer(k) \ {j \in Calls : call[j].at = call[k].at}) >= Retention

RestoredElsewhere(k) ==
    \E j \in Calls : call[j].op = "restore" /\ call[j].pc = "done" /\ call[j].at # call[k].at

\* Whatever a replica had answered when it began an archive is in the archive
\* with its audit event, unless the event could not be appended or a restore of
\* another replica came in between.
ArchiveHoldsAnswered ==
    \A k \in Calls :
        call[k].pc \in {"sealing", "importing"} =>
            \A e \in call[k].owed :
                \/ e \in EventsOf(call[k].exported.auditEvents)
                \/ e \in rejected
                \/ RestoredElsewhere(k)

\* A mutation that a restore removes and its checkpoint does not hold was
\* admitted before the restore began, or by another replica.
OnlyInFlightIsLost ==
    [][\A k \in Calls :
           call[k].pc = "importing" /\ records' = call[k].snapshot.records =>
               \A w \in records \ (records' \union call[k].exported.records) :
                   \/ write[w].at # call[k].at
                   \/ w \in call[k].inflight
                   \/ RestoredElsewhere(k)]_vars

-----------------------------------------------------------------------------
(* The inductive invariant: what a call, an append or an archive may still   *)
(* rely on, of what it read some awaits ago.                                 *)

\* Requests whose answer was sent, or that were cut off by a restart.
Answered ==
    {w \in Writes : write[w].pc = "done"}
        \union {k \in Calls : call[k].pc \in {"done", "failed"}}

\* Where the calls are: one that is underway is in the chain of its replica.
PlacedOK ==
    /\ mode = "json" => \E r \in Replicas : serving = {r}
    /\ \A k \in Calls : call[k].pc \in Underway \union {"admitted"} => call[k].at \in serving

\* The chain of a replica holds what is underway there, and the first one runs.
QueueOK(r) ==
    /\ \A i \in DOMAIN pending[r] :
          /\ call[pending[r][i]].at = r /\ call[pending[r][i]].pc \in Underway
          /\ i # 1 => call[pending[r][i]].pc = "waiting"
    /\ \A i, j \in DOMAIN pending[r] : pending[r][i] = pending[r][j] => i = j
    /\ \A k \in Calls : call[k].at = r /\ call[k].pc \in Underway =>
          \E i \in DOMAIN pending[r] : pending[r][i] = k

Restores(k, r) == call[k].op = "restore" /\ call[k].at = r /\ call[k].pc \in Underway

GateOK(r) ==
    /\ restoring[r] <=> \E k \in Calls : Restores(k, r)
    /\ \A j, k \in Calls : Restores(j, r) /\ Restores(k, r) => j = k

\* Who holds the audit lock has an event to append, after the newest one.
LockOK(r) ==
    reader[r].locked =>
        /\ trail[r] # <<>> /\ reader[r].head = HeadOfChain
        /\ \A q \in Replicas : reader[q].locked => q = r

\* Whatever is or may come to be the content of the store.
SnapshotOK(snapshot) == VerifyEvents(snapshot.auditEvents) /\ snapshot.records \subseteq Answered

ContentOK ==
    /\ SnapshotOK([records |-> records, auditEvents |-> audit])
    /\ \A k \in Directory : SnapshotOK(archives[k])
    /\ \A k \in Calls : SnapshotOK(call[k].snapshot) /\ SnapshotOK(call[k].exported)

TrailOK(r) ==
    /\ ToSet(trail[r]) \subseteq Answered
    /\ trail[r] # <<>> => Last(trail[r]) = lastEvent[r]

\* The steps of createInternal, restores only for those that are theirs.
CallOK(k) ==
    /\ call[k].pc \in {"verifying", "archiving", "importing"} => call[k].op = "restore"
    /\ call[k].owed \subseteq Answered

\* An archive whose call runs is older than those of other replicas only, and
\* was in the directory from Seal on.
CreatedOK ==
    /\ \A i \in DOMAIN created : call[created[i]].pc \in {"sealing", "importing", "done", "failed"}
    /\ \A k \in Calls : call[k].pc \in {"sealing", "importing"} =>
          \A j \in Newer(k) : call[j].at # call[k].at
    /\ \A k \in Calls : call[k].pc = "importing" =>
          k \in Directory \/ Cardinality(Newer(k)) >= Retention

\* The awaited event is the last of the owed ones that is still to be appended.
FlushOK(k) ==
    /\ call[k].pc = "flushing" =>
          /\ \A e \in call[k].owed :
                \/ e \in ToSet(trail[call[k].at]) \/ e \in EventsOf(audit)
                \/ e \in rejected \/ RestoredElsewhere(k)
          /\ \A i \in DOMAIN trail[call[k].at] : trail[call[k].at][i] \in call[k].owed =>
                \E j \in DOMAIN trail[call[k].at] :
                    i =< j /\ trail[call[k].at][j] = call[k].awaits
    /\ call[k].pc \in {"sealing", "importing"} =>
          \A e \in call[k].owed :
              \/ e \in EventsOf(call[k].exported.auditEvents)
              \/ e \in rejected \/ RestoredElsewhere(k)

\* The gate let no mutation in since the restore began.
InFlightOK(k) ==
    call[k].op = "restore" /\ call[k].pc \in Underway =>
        /\ \A w \in Writes : write[w] = [at |-> call[k].at, pc |-> "admitted"] =>
              w \in call[k].inflight
        /\ call[k].pc \in {"sealing", "importing"} =>
              \A w \in records \ call[k].exported.records :
                  \/ write[w].at # call[k].at \/ w \in call[k].inflight
                  \/ RestoredElsewhere(k)

IInv ==
    /\ TypeOK /\ PlacedOK /\ ContentOK /\ CreatedOK
    /\ \A r \in Replicas : QueueOK(r) /\ GateOK(r) /\ LockOK(r) /\ TrailOK(r)
    /\ \A k \in Calls : CallOK(k) /\ FlushOK(k) /\ InFlightOK(k)
=============================================================================
