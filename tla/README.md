# A TLA+ model of AIDecepticon's control plane

AIDecepticon places decoys on networks through *projection sensors*. A control
plane (Node.js, `server/`) queues signed commands for the sensors, a sensor (Go,
`sensor/`) polls for them and reports what became of them, and an operator works
through a console (`src/`). The control plane may run as several replicas over
one PostgreSQL database; one of them leads. This directory models the parts of
the system in which order, concurrency and failure decide whether it is correct,
checks them with TLC, and proves their safety with TLAPS for every value of the
constants.

Paths are relative to the repository.

## How to run

    tlc -config delivery_core.cfg MCCommandDelivery.tla
    tlc -config leadership_safety.cfg MCLeaderElection.tla
    tlc -config services.cfg LeaderServices.tla
    tlc -config restore.cfg MCRecovery.tla
    tlc -config delivery_restore.cfg MCDeliveryRestore.tla
    tlc -config registry.cfg MCSensorRegistry.tla
    tlc -config access.cfg MCOperatorAccess.tla
    tlapm CommandDeliveryProofs.tla
    tlapm DeliveryRestoreProofs.tla
    tlapm LeaderElectionProofs.tla
    tlapm LeaderServicesProofs.tla
    tlapm RecoveryProofs.tla
    tlapm SensorRegistryProofs.tla
    tlapm OperatorAccessProofs.tla
    tlapm QueueFacts.tla

`PROJECT.json` lists every run with its module, configuration, expected outcome
and its properties, the source lines that each definition stands for, and the mutant
of the code model that each property is known to reject. A run that expects a
*violation* documents a place where the code does not do what its documentation
says; see *Findings*.

## Inventory of the system

| Component | State | Operations | Correct when |
|---|---|---|---|
| Sensor command queue, `server/command-queue.js:31-194` | durable command rows; a Redis index of due commands | `enqueue`, `remove`, `pending`, `dispatch`, `fail`, `acknowledge` | a due command is handed out once per attempt, never after it settled, at most `maxAttempts` times |
| Recovery sweep, `server/command-queue.js:196-262` | timer, `running`, a snapshot during a run | `runOnce`, `start`, `close` | every command settles; what expired or ran out of attempts is dead-lettered, and nothing else |
| Sensor API, `server/sensor-api.js` | command, sensor, token, event and incident rows | issue, poll, acknowledge, retry, dismiss, enroll, heartbeat, event | a reissue replaces its original; an enrollment token is used once; evidence stays in its organization |
| Stores, `server/store.js` | JSON files with a write chain; PostgreSQL rows | `add`, `update`, `updateIfStatus`, `claimSensorCommands`, `appendAudit`, `exportSnapshot`, `importSnapshot` | statements are atomic, a claim takes each row once, a snapshot is whole |
| HA coordinator, `server/ha.js` | flags `leader`, `draining`, `closed`, the leader connection, `controller_instances`, the advisory lock | `runOnce`, `tryLeadership`, `releaseLeadership`, `register`, `setDraining`, `close`, the error listener | exactly one ready replica leads; a drained one does not; a lost leader is replaced |
| Leader services, `server/index.js:32-50, 390-429` | scheduler and backup timers, a synchronisation chain | `synchronizeLeaderServices`, start, shutdown | the timers run on the leader and, in the end, nowhere else |
| Backup and restore, `server/backup.js` | archives, `restoring`, an operation chain, a timer | `create`, `validate`, `restore`, prune | a restore is all or nothing, what it replaces is in the checkpoint, mutations wait |
| Audit trail, `server/audit.js` | a hash chain of events, a chain of appends | `append`, `flush`, `verify`, the request middleware | one chain across replicas; what was answered before a backup is in it |
| Tenancy and roles, `server/tenancy.js`, `server/auth.js` | organizations, sessions | scope and permission checks, login, callback, logout | a request sees its own organization only and does what its role allows; a destroyed session stays out |
| Secret manager, `server/secret-manager.js`, `index.js:225-287` | sealed envelopes with fingerprints | seal, unseal, rotate, verify | what was sealed can be opened, where it was sealed for |
| Sensor, `sensor/cmd`, `sensor/internal` | identity file, listeners, an event callback | enroll, poll, run, acknowledge, heartbeat, deploy, stop | expired commands are refused, deploy and stop survive redelivery, the identity is saved once |
| Operator console, `src/App.tsx`, `src/api.ts` | the active organization, the lists shown | sign in and out, switch, load, mutate | the page shows the active organization, and changes what it names |

How they interact. Operators and sensors call the HTTP routes of any replica, and
every handler interleaves with the others at each `await`; replicas share nothing
but PostgreSQL, Redis and the backup directory. Handlers read rows, decide, and
write later: by a plain update, by compare-and-set on the status
(`updateIfStatus`), or in a claim transaction (`FOR UPDATE SKIP LOCKED`). The HA
coordinator calls back into `index.js` on each change of `leader`, which starts
or stops the sweep and the scheduled backups. A drain and a restore gate mutating
requests by method (`index.js:82-91`): a sensor's acknowledgement is a POST and is
refused, its poll is a GET and is not. The sensor executes a batch in order,
sends each acknowledgement once, and polls again.

What is hard, by line, is the `hazards` list of `PROJECT.json`: stale copies
(`command-queue.js:147`, `:214`, `sensor-api.js:235`), updates without a
condition after a check (`sensor-api.js:147`, `:187`, `:197`), lost requests and answers
(`main.go:112`, `:131`, `:51`), crashes between two writes (`sensor-api.js:146`,
`store.js:185`), awaits inside `tryLeadership` (`ha.js:99-118`), an unlock that
fails (`ha.js:134`), awaits in the synchronization of services (`index.js:34`),
the window of a restore (`backup.js:350`), and answers that arrive in a later
state of the browser (`App.tsx:798`, `:972`).

## What is modelled

### CommandLifecycle.tla: the promise

A command is issued, delivered, perhaps rescheduled, and settles; attempts count
deliveries; nothing settled becomes live again; and with fairness every issued
command settles. No clock, no replicas, no messages.

### CommandDelivery.tla: the code

One sensor's commands over the PostgreSQL store, with any number of concurrent
request handlers and of replicas whose sweep runs.

| State | In the code |
|---|---|
| `rows` | the `sensorCommands` payloads of `control_plane_records`: status, attempts, nextAttemptAt, expiresAt, deadLetterReason, retriedAs |
| `handler` | a request handler between two awaits: the time it captured, the row it read, the rows its transaction locks |
| `scheduler` | `CommandScheduler.runOnce` of a replica: its time, its snapshot, the commands it has left |
| `poll`, `batch`, `acks` | what the sensor waits for, holds, and has sent |
| `completed`, `reissueOf` | history: what the sensor carried out, and why a command was created |
| `now` | one clock for the replicas and the sensor |

Each action is the code between two awaits. `ClaimBegin`, `ClaimLock`,
`ClaimCommit` are a poll: the time is captured before the transaction, the rows
are locked with `SKIP LOCKED` and the due ones chosen on what that SELECT read
(`due`), and these are dispatched at the commit, whose response may reach nobody.
The row locks are therefore what keeps two polls from taking one delivery. `AckRead` with `AckSuccess` or `AckFailure` is
the acknowledgement route, `RetryRead`, `RetryCreate`, `RetryUpdate` and
`DismissRead`, `DismissUpdate` the operator's routes, `SweepBegin`, `SweepRead`,
`SweepCommand`, `SweepAbort` the sweep. `HandlerCrash` ends a handler between two
steps and rolls its transaction back. An update of a row waits while a claim
holds it (`CanWrite`).

Abstractions: type, payload and signature of a command (equal for all), error
texts, the order inside a batch and inside a sweep (any), the Redis index (never
read for a decision on the durable row: with a store that claims, `dispatch` does
not look at it). The retry delay keeps its formula and its ceiling. The window
between the read a decision rests on and its write is kept: `fail` takes the time
at any moment in between.

### LeaderElection.tla

Any number of replicas. `task` holds the coroutines of a replica, its heartbeat
and the requests under way; the heartbeat never overlaps itself (`running`), and
everything else does. `leader`, `draining`, `closed`, `leaderClient` are the
fields of the coordinator, `members` is `controller_instances`, and `lock` says
which connection holds the advisory lock *as the server sees it*, so a broken
connection keeps the lock until `ServerNotices`, and a replica keeps believing
until `ClientNotices`. The connection is the leader client, that of a coroutine
about to unlock, or one of the pool. The synchronous prefix of a handler is one step with what
precedes it: `DrainBegin` sets the flag and takes the connection from the replica
(`BeginRelease`), `Unlock` and `ClearOwnRow` are the awaits that follow.
`UnlockFails` is `ha.js:133-137`: the error is logged and `client.release()`, which
is not told of it, puts a working session back into the pool with the lock. There
a later attempt that draws the same connection takes the lock a second time
(`nested`; PostgreSQL counts), so that its next unlock leaves it taken, and
`PoolCloses` is the end of a pooled session that was idle. `LockUnanswered` is a
connection that breaks between the lock and its answer.
`register` writes the flags of the moment the statement was issued (`row`).
Faults are a constant: crashes, broken leader connections, statements that fail.

Abstractions: heartbeat times (the row of a replica is stale when its process is
down), the member count, pool sizes (a lock in the pool may or may not be on the
connection that is drawn next), `lastError`. Two connections of one replica
that the client has not yet found broken are not told apart. Single-instance mode
has no concurrency and is left out.

### LeaderServices.tla

One controller, over the interface of `LeaderElection`: `leader` changes at any
time, also while the controller drains (`tryLeadership` allows that). `chain` is
`serviceSynchronization`, with who asked for each synchronization; `sync` is
`sweeping` while its first one awaits `commandScheduler.runOnce()`. `SyncStop`,
`SyncSweep` and `SyncStart` are `synchronizeLeaderServices` before and after that
await; `runOnce` returns at once if the timer is already sweeping (`sweep`).
`restore`, `route` and `process` are the restore requests, a drain or resume
request, and start-up and shutdown, each up to the synchronization it awaits
(`Awaited`). A request passes the gate (`Admits`) one step before its route runs,
since its organization is read in between: two restores may both pass, the
second is refused by `backupService.restore`, and its `finally` synchronizes like
any other. `BeginDraining` is the part of `setDraining` before its first await.

Abstractions: one drain or resume at a time; statements of a drain that fail; `CloseCoordinator` announces once where `close` may announce
twice. A backup interval is configured. `runOnce` catches its own errors, so a
sweep always ends.

### Recovery.tla

`records`, `audit`, `archives` are the two tables, or the two JSON files, and
`BACKUP_DIR`, which replicas share as README.md:137 asks. `pending` and
`restoring` are fields of `BackupService`; `trail` is the chain of appends of
`AuditTrail`, `reader` who holds the advisory lock and the head it has read.
`call` is one backup or restore: `Enter` sets the flag and joins the chain,
`Verify` and `Decrypt` are the two times a restore reads the archive, `Flush`
awaits the appends chained so far, `Export` and `Seal` make the archive and prune
the directory, `Import` replaces both tables. A mutation is `Admit`, at the gate,
and `Store`; every answer, a refusal too, chains an audit event. `TornImport` is a
JSON controller that stops between the two renames. `Restart` forgets what was in
memory. `owed` and `inflight` only record the past, for the properties.

Abstractions: encryption, sizes and keys (an archive that is present decodes); a
failed import is rolled back; a prune that fails after the archive was renamed
into place; a record is the mutation that wrote it. A retention of one stands for
any: the bound is compared with a number of newer archives.

### DeliveryRestore.tla

`CommandDelivery` with a restore under it. `archive` holds the rows of an earlier
moment (`Export`, a repeatable-read transaction); `Import` deletes what there is
and puts them back once no claim transaction is open, since it takes the table in
`ACCESS EXCLUSIVE` mode; the sensor's batch, the messages, the handlers and the
sweeps stay where they are. `Deliver` is every step of the delivery: the gate
turns mutating requests away only when they arrive at the replica that restores,
so none of their later steps is excluded, and polls and sweeps pass anyway.
`expiry` is what the sensor's copies of commands say when their rows are gone;
`NewNames` keeps a removed identifier from being drawn again. `outlived` records
that a failure report, a retry or a sweep went on with a row read before an
import.

Abstractions: one archive, intact (archives are the subject of `Recovery`), in
which the sensor is registered; an acknowledgement for a command that is gone is
answered 404, which is here an update that applies to nothing.

### SensorRegistry.tla

Each row of the PostgreSQL store that these routes write, by resource: a request
takes one step per statement, and `Lose` ends it before any of them or loses its
answer. `EnrollCheck`, `EnrollConflict`, `EnrollAdd`, `EnrollMark` are the
enrollment route; `Authorize` keeps the row that `authorizeSensor` read, which
`Heartbeat`, `AddEvent` and `SensorIncident` use later. `AddedFor` is the
condition of the upsert. A host (`machine`, `file`) resumes or enrolls, saves its
identity and may stop at any point; a supervisor may then start it again while
the controller still works on the old request.

Abstractions: what an event says, the health of a sensor beyond "online".

### OperatorAccess.tla

The tabs of one browser share `cookie`; a `request` keeps the copy of the session
that the middleware read (`Identify`), the organization header of when it was
made (`Call`) and the organization that the tenancy middleware chose (`Scope`).
`Login`, `Callback` and `Logout` are the routes of `auth.js`; an answer sets the
cookie of the session it was made with again (`rolling`), and a request whose
session is gone has a new one. `Deliver` is what the
page does with an answer, in whatever order they come: `Activate` is the change
of `activeOrganizationId` with the load effect that follows, `Shows` the end of
that load. `Leave` is a page that is left: its requests go on and nobody gets the
answer. `Mutate` is a click of any moment: the console opens with sample incidents
whose identifiers are those of seeded rows (`App.tsx:756`, `data.ts:102`), drawers
and dialogs outlive a switch, and until `/organizations` is answered a request
names no organization (`api.ts:10`), so that `Selectable` chooses the default one
or, for a user without access to it, another (`tenancy.js:61-63`). Secrets are
read, sealed and written in three steps.

Abstractions: OIDC and SAML validation (the provider asserts any principal, once
per transaction), API keys, the wildcard organization, the origin check, the
uniqueness of slugs; `regenerate` destroys and saves in one step; one list stands
for the eleven of a load. Lists that a completed mutation adds to are not
modelled: `completeSecret` adds its record to the page whatever is active by then.

## What the runs check

| Run | Instance | Shows |
|---|---|---|
| `delivery_core` | 2 commands, an original and a reissue, 2 handlers, 1 sweep, 2 attempts, life 2, clock 0..3 | `TypeOK`; `ClaimedOnce`; `NeverResurrected`; `DeadLetterJustified`; `AcknowledgedWasCompleted`; `ReissuedIsOutOfDelivery`; `RetriedHasSuccessor`; and `IInv`, the inductive invariant |
| `delivery_restore` | 2 commands, 1 handler, 1 sweep, 1 attempt, 1 restore | `RestoreTypeOK`, `RestoreKeepsPromises` |
| `delivery_settles` | 1 command, 1 handler, 1 sweep, fairness | `EveryCommandSettles`; `ImplementsLifecycle` |
| `leadership_safety` | 2 replicas, 1 request each, every fault | `TypeOK`, `SessionHoldsLock`, `LockIsHeldByItsClient` |
| `leadership_settles` | 2 replicas, 1 request each, crashes, fairness | `OneLeaderAmongConnected`, `TopologyConverges` |
| `services` | 1 controller, 2 restore requests, 1 drain or resume, at most 3 synchronizations chained by leadership, fairness | `TypeOK`, `LateStartIsUndone`, `LeaderIsServed`, `ClosedIsQuiet`; `ServicesFollowLeadership`, `ShutdownEnds` |
| `restore` | 2 replicas or 1 JSON controller, 1 mutation, 3 backups or restores, retention 1, every fault | `TypeOK`, `ChainVerifies`, `GateMatchesRestore`, `CheckpointIsKept`, `ArchiveHoldsAnswered`, `OnlyInFlightIsLost` |
| `registry` | 2 hosts, 2 organizations, 2 enrollment tokens, 2 sensor identifiers and 1 incident identifier, 3 requests | `TypeOK`, `TokenIsSpent`, `SavedIdentityIsRegistered`, `EvidenceInItsOrganization`, `OrganizationIsKept`, `IdentityChangesByEnrollment` |
| `access` | 1 tab, 2 requests, 2 organizations, 2 session identifiers, every operation | `TypeOK`, `SecretsOpen`, `SignedOutShowsNothing`, `ChangesStayInScope`, `DestroyedSessionsStayOut` |
| `attempt_limit`, `one_leader`, `stale_console` | smallest that show it | violations, see *Findings* |

Bounds of the delivery and the election. `MaxTime` stops the clock and `Fresh`
creates only commands that expire before it does, so expiry always happens.
`MaxIssued` bounds what operators create. With life 2 and base delay 1 a command
can time out, be retried and delivered again before it expires, and expire in each
status; its last attempt fails by a report with two attempts and by a timeout with
one; two handlers are two of the same route or of any two routes, which is what
each race between requests needs. Two competing reissues of one original, longer
lives and more attempts are left to the proofs, which cover every property of
`delivery_core` for all of them. A second sweeping replica is left to the proofs, whose invariant is
about each sweep alone. Two replicas, each with a heartbeat and one request, give
every pair of coroutines.

One restore of an archive made at any earlier moment, the empty store included,
meets every state of the delivery; more than one is left to the proofs, which hold
for any number. An
original and one reissue are what the promises about restored rows relate, and
one handler and one sweep hold every kind of copy. With one attempt no row of this
run is ever `retrying`; a second attempt is beyond the run, and left to the proofs.

Bounds of the others. `MaxSyncs` stops leadership from changing while three
synchronizations wait: one runs and two differ in what they will read, and the
routes may still chain theirs. Three calls on two replicas are a restore with two
others before, behind or beside it, and with one archive kept every call prunes
the one before; in these runs each call is made once, so nothing repeats for
ever. Two identifiers for sensors, either of which any host may choose, are two
sensors on one token or two enrollments of one sensor, and one for incidents makes
every collision happen; three requests are two enrollments that race and one heartbeat or event
of either. One tab is enough for pages that differ: the requests of a page that
was left go on as those of another tab would. Symmetry is used in safety runs
only, over sets whose members no definition names. Two safety runs have a `VIEW`:
`leadership_safety` takes states for one that differ only in the topology table and
in what `register` is about to write there, which no guard reads and no lock depends
on (`TopologyConverges` is of another run, without it); `access` forgets of a
request what neither its later steps nor the properties look at, such as the page
of a mutation.

Fairness of the delivery: the clock, the sweep timer (`start`, which runs for ever
once the replica leads) and the sweep's statements, a blocked `UPDATE` in the end
(strong, since other claims may take the row lock again and again), and the end
of a request's transaction, by commit or by crash. A sweep may fail any number of
times but not for ever. Nothing is assumed of the sensor, the network or an
operator: expiry alone settles a command. Of the election: heartbeats fire
(`setInterval`), statements are answered, both ends of a broken connection notice
in the end (TCP), a stopped process is restarted (`restart: unless-stopped` in
`docker-compose.yml`), and operators and faults pause long enough to settle. An
"eventually no fault" condition exempts those fault steps that are, as steps,
equal to a normal one (a failed statement that would have changed nothing, an
abort at the end of a sweep); without the exemption it would also forbid the
normal step and the property would hold of nothing. Nothing is assumed of the
pool: no session of it has to end. Of the services: promises
settle, sweeps, backups and restores end, an interval fires; leadership, requests
and signals come as they will, so `ServicesFollowLeadership` speaks of leadership
that has settled. `Recovery`, `DeliveryRestore`, `SensorRegistry` and `OperatorAccess` state no
fairness: what they promise is safety, since nothing retries there.

## What is proved

Every safety invariant and every action property that a passing run checks is
also a theorem, for every value of the constants: any number of actors and rows,
any clock limit, retention and attempt limit. Each proof rests on an inductive invariant
that stands in a section of its own at the end of the module it is about, so that
TLC could check it on the instance of the run before it was proved: 1,169,730
states of `registry`, 2,337,277 of `restore`, 574,807 of `services`, 7,986,229 of
`access`, 6,720,915 of `leadership_safety` and 4,802,133 of `delivery_restore`. To
repeat one of these, add `INVARIANT IInv` (`RestoreIInv`) to the configuration and
take out its `VIEW`.

`CommandDeliveryProofs.tla`, for every number of commands, handlers and
schedulers and every limit the assumptions admit:

- `Inductive`: `Spec => []IInv`. `DeadLetterJustified` and its companions are not
  inductive: they speak of rows, while what is written is decided by copies. `IInv`
  adds what a copy still says of its row: since the read the row has gained
  attempts at most and kept its expiry (`CopyOf`), what the route that holds it
  has checked stays true (`HandlerOK`), locks are disjoint and on deliverable rows
  (`LocksOK`), and acknowledgements in flight are true (`SensorOK`).
- `TypeCorrect`, `DeadLettersJustified`, `AcknowledgementsTrue`,
  `ReissuesConsistent` and `RetriesNamed` follow from it, and the action properties
  `NothingResurrected` and `EachDeliveryClaimedOnce` from it and one step.
- `ImplementsLifecycleSafety`: with the invariant, each step of a handler, a sweep
  or the sensor is a step of `CommandLifecycle` under the mapping of the run, or
  changes nothing that the promise speaks of. Only its fairness stays with TLC.

The argument: each action changes rows in one of a few ways, each of which only
advances a row (`StoreAdvances`); a copy survives an advance; so every handler and
sweep that does not move keeps its part of the invariant, and each action owes
only the part of the process that moves.

`DeliveryRestoreProofs.tla`, for any number of restores. An import breaks the
argument above: a row may go back, so a copy need not survive. `RestoreIInv`
therefore has two layers. `StoreSound`, about rows and about archive alike, holds
whatever is restored when: types, one expiry for each command ever issued, and
"acknowledged" only for what the sensor carried out. `StoreConsistent` and what
each handler and sweep keeps of its copy (`HandlerKeeps`, `SweepKeeps`) hold
until a failure report, a retry or a sweep goes on with a row read before an import
(`outlived`). `RestoreInductive` proves both, `RestoreTypeCorrect` and
`RestoresKeepPromises` follow, and `DeliveriesClaimedOnce` says of every step of
the delivery, before, between and after restores, that attempts are counted by
claims only and that no settled command comes back. The last is no property of a
run: it is the composition of `ClaimedOnce` and `NeverResurrected` with restores.

`LeaderElectionProofs.tla`, for every number of replicas and requests and every
set of faults: `LeadershipTyped`, `WorkingSessionHoldsLock`, `LocksAreAnsweredFor`
and `OneWorkingSession`. The conjunction of the first three is inductive
(`LeadershipInductive`). `LocksAreAnsweredFor` says that the server keeps the lock
for a running replica only with its leader client, with a coroutine about to
unlock it, or in its pool, and that it is never in the pool, nor taken twice,
where statements do not fail. One lemma covers the steps that leave the lock and the
leader connection alone, one the hand-over of both to the coroutine that unlocks,
and each remaining action has its own.

`LeaderServicesProofs.tla`, for any number of restores and of synchronizations
chained. `LateStartIsUndone` and `LeaderIsServed`, which say that some later step
sees to what is wrong now, are inductive once no step of the shutdown can come
in between; `ClosedIsQuiet` is not. `IInv` adds that no request is left to undo the
second drain (`EndingOK`), and that until the synchronization this drain awaits
has stopped the timers it is still in the chain, unread (`StoppingOK`).
`LateStartsUndone`, `LeadersServed` and `ClosesQuiet` are proved of `Spec`, which the
run's `FairSpec` implies.

`RecoveryProofs.tla`, for any number of calls, replicas, mutations, crashes and
any retention. A chain verifies when each event names the one before, which a
single append cannot know: `IInv` adds that the one holder of the advisory lock
has read the head of the chain as it still is (`LockOK`), and that every archive
and every snapshot a call holds verifies (`ContentOK`). It also says where each
call stands in the chain of its replica (`QueueOK`, `GateOK`), from which
`GateIsExact` follows; which archives can be newer than that of a call underway
(`CreatedOK`), for `CheckpointsKept`; that a flush awaits the last event it owes
(`FlushOK`), for `AnsweredIsArchived`; and that the gate let nothing in since a
restore began (`InFlightOK`), for `RestoreLosesInFlightOnly`.

`SensorRegistryProofs.tla`, for any number of hosts, requests, tokens and
identifiers. `IInv` says what a request knows at each stage and that the others
cannot make it false: a token that was checked has an organization, and the sensor
that was added for it is of that organization; an authorized row is of the
organization its sensor still has, though its access token may be gone; an event
that was added stays for its incident; the token of an answered enrollment is used;
the identity a host asked for, and the one it saved, name their enrollment.
`SavedIdentities` and `EvidenceIsolated` follow; `TokensAreSpent`,
`OrganizationsKept` and `IdentityComesFromEnrollment` are about each step, and rest
on it since requests write what they have read before.

`OperatorAccessProofs.tla`, for any number of tabs, requests, sessions,
organizations and secrets. `IInv` says of each request that its page, if it waits
for the answer at all, is still the one that asked (`PageOK`); that it has the record
it was made for (`CallOK`); and that a scope, once given, is for an organization the
request is about (`About`) and its user has access to, and that what is sealed is
sealed for it (`ScopeOK`), whatever has become of the session and of the
cookie. For a request that names no organization this needs that the default one is
always there, the last conjunct. `SecretsStayOpen`, `SignedOutPagesAreEmpty`,
`ChangesInScope` and `DestroyedStaysOut` follow.

`QueueFacts.tla` has the facts about appending to a sequence and taking its head
that the chains of `Recovery` and `LeaderServices` need.

The proofs rest on the named assumptions of the modules only, all of which TLC
evaluates in a run. Most say that names are distinct (`NamesAssumption`,
`TasksAssumption`, `NoneAssumption`, and parts of the others) or give the range of a
limit (`BoundsAssumption`, `RestoreAssumption`, the retention of
`RecoveryAssumption`, which `backup.js:156` bounds). `FaultsAssumption`
and `RecoveryAssumption` name the kinds of faults and stores there are.
`AccessAssumption` says what a principal is, that the default organization exists
(the seed holds it), and that the console can ask for its organizations and lists,
which it always does on opening.

Only model-checked: the liveness properties (`EveryCommandSettles`,
`OneLeaderAmongConnected`, `TopologyConverges`, `ServicesFollowLeadership`,
`ShutdownEnds`) and the fairness that `ImplementsLifecycle` promises, which are
out of the prover's reach. TLC shows them on the instances above. The three
violations are counterexamples, which need no more than an instance.

## Findings

- **Attempt limit** (`attempt_limit`). `fail` judges by the attempts of a copy,
  and its compare-and-set tests the status only; a command redelivered meanwhile
  for its last attempt goes back to `retrying` and is delivered once more than
  `maxAttempts`. README.md:101 promises the dead-letter queue. With one request at
  a time and no sweep the limit holds.
- **Leader without a lock** (`one_leader`). A connection lost during the UPDATE of
  `tryLeadership` leaves `leader` set with no connection; no heartbeat repairs it,
  and another replica leads too. README.md:133: "exactly one leader".
- **Lists of another organization** (`stale_console`). The load effect of the
  console sets the lists from whatever load is answered; the load of the previous
  organization, answered after the switch, is on the page under the name of the
  next, and stays there if it is the last. What an operator does to those rows is
  refused, since a request names the active organization: `ChangesStayInScope`
  holds of the same module.

Other disagreements, met while modelling, which no run is kept for:

- Retry and dismiss check a copy and update without a condition
  (`sensor-api.js:147`, `:160`); both of two concurrent decisions on one dead
  letter succeed, where openapi.yaml:286 documents a 409.
- `tryLeadership` does not look at `draining` again after its awaits
  (`ha.js:117`): a drain in between leaves a drained leader, until it is resumed and
  drained again or closed. README.md:135: "immediately relinquishes leadership".
- A failing `pg_advisory_unlock` is logged and the connection released as if it had
  worked (`ha.js:131-137`). If the session lives, it keeps the lock in the pool: the
  replica that drained leads no more and no other can, until that session ends. The
  pool reuses its latest connection, which heartbeats keep from idling for the
  30 seconds of `store.js:211`. README.md:135: a drained controller "immediately
  relinquishes leadership".
- The UPDATE of `ha.js:116` failing in a resume leaves the lock with a replica
  that does not lead, whose own session then refuses every later attempt.
- Enrollment tokens are called single-use or one-time (sensor/README.md:7,
  README.md:37 and :190, openapi.yaml:304, ROADMAP.md:20, App.tsx:711, and the test of
  sensor-api.test.js:283, which reuses one after the answer). Two enrollments that
  overlap both find the token unused (`sensor-api.js:187`): both succeed, both sensors
  are registered, and the token names the one that was marked last. If they also chose
  the same identifier, the later access token replaces the earlier. An enrollment
  that stops between adding its sensor and marking the token leaves the token
  usable. `TokenIsSpent` is what remains: an answered enrollment admits no later one.
- The console takes clicks before `/organizations` is answered. A sample incident
  that is then closed, or a secret that is then stored, belongs to the default
  organization, or to the first the operator has, and not to the one the console
  remembers and switches to a moment later (`App.tsx:756`, `:771`,
  `tenancy.js:61-63`).
- `login` saves the session it read (`auth.js:405`): one that was signed out in
  another tab meanwhile is back, with its user.
- An incident whose drawn identifier is taken replaces the older one of its
  organization, triaged or not (`index.js:358`, `sensor-api.js:306`); if another
  organization has it, the event is kept and its incident is lost.
- A sensor with a configured identifier that loses its state file cannot enroll
  again: the controller answers 409 and has no route that deletes a sensor.
- A failed append rejects `flush` (`audit.js:147`), so the next backup fails
  although the store works.
- A JSON controller that stops between the two renames of an import leaves the
  restored records with the old audit chain (`store.js:185`); README.md:127 says
  the snapshot is applied transactionally.
- Polls are GET requests and pass the restore gate (`index.js:87`), so a command
  is claimed and handed out while its row is about to be replaced, and a command
  that was carried out may come back into the queue; README.md:127 says that a
  restore pauses command delivery. Only the sweep is paused, and a change of
  leadership or a second, refused restore starts it again before the first restore
  ends.
- A restore does not wait for sweeps and requests that have read rows
  (`command-queue.js:230`, `sensor-api.js:147`). One that goes on after the import
  can dead-letter a restored row for attempts it has not had, mark it retried
  with a reissue that is gone, or create a reissue beside an original that the
  restore has put back into delivery. `RestoreKeepsPromises` shows that without
  such a request or sweep no promise is lost.
- A redelivered `stop_decoy` whose first delivery worked is reported as failed,
  since the decoy is no longer there.

## What is left

The planned models are complete, as are the proofs of every safety and action
property that the runs check and of the safety part of the refinement. Beyond
them:

1. What the code gives in place of a promise it breaks is not a theorem: how far
   past `maxAttempts` a command can go (`attempt_limit`), and which steps can leave
   a replica leading without a lock (`one_leader`).
2. `TopologyConverges` is checked with crashes as the only fault. With an unlock
   that fails on a living session it cannot hold, as *Findings* says: nothing in the
   code ends that session.
3. A restore among several attempts of a command is proved and not checked.

## Not modelled, and why

- The decoy manager of the sensor. Its methods are called by the one goroutine of
  the poll loop, so its mutex never meets contention; its listeners belong to the
  network stack.
- The Redis index of the command queue. Both stores claim commands in the durable
  rows, so the index decides nothing and only feeds the counter of pending
  commands that a heartbeat is answered with.
- Single-instance mode of the coordinator, pool sizes, health and topology routes,
  which read.
- The rendering and the forms of the console, styles, seed data, build and
  deployment files, and the parsing of environment variables hold no protocol
  state.
- SAML, OIDC, encryption, hashing and signatures are library work, taken as
  correct; sessions that expire by age.

Argument validation, formatting, metrics and logging are left out. HTTP itself is
modelled by what it can do to a call: lose it, delay it, lose its answer.
