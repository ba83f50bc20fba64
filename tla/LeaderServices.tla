--------------------------- MODULE LeaderServices ---------------------------
(* What one controller runs while it leads: the command sweep and the        *)
(* scheduled backups (server/index.js, with the timers of command-queue.js   *)
(* and backup.js).  They are started and stopped by synchronizations, chained *)
(* on one promise, that each change of leadership, drain, resume, restore    *)
(* and shutdown adds to.  Leadership itself is LeaderElection: here it comes *)
(* and goes at any time, also while the controller drains.                   *)
EXTENDS Naturals, Sequences, SequencesExt

CONSTANTS
    Restores,       \* restore requests in progress at a time
    MaxSyncs        \* leadership does not change while so many are chained

ASSUME ServicesAssumption ==
    /\ MaxSyncs \in Nat \ {0}
    /\ Restores \intersect {"change", "startup", "route", "shutdown"} = {}

VARIABLES
    leader,         \* haCoordinator.leader
    draining,       \* haCoordinator.draining
    chain,          \* serviceSynchronization: who asked, the first one running
    sync,           \* "sweeping": the first one awaits its sweep
    sweep,          \* commandScheduler.running, and who called runOnce
    schedulerTimer, \* commandScheduler.timer
    backupTimer,    \* backupService.timer
    backup,         \* a scheduled backup is in progress
    restore,        \* the restore requests
    route,          \* a drain or resume request
    process         \* start-up and shutdown

flags == <<leader, draining>>
timers == <<schedulerTimer, backupTimer>>
work == <<sweep, backup>>
requests == <<restore, route, process>>
vars == <<flags, chain, sync, timers, work, requests>>

Callers == {"change", "startup", "route", "shutdown"} \union Restores

Processes == {"starting", "up", "draining", "drained", "unreachable", "redraining",
              "redrained", "backups", "closing", "closed"}

Init ==
    /\ leader \in BOOLEAN
    /\ draining = FALSE
    /\ chain = <<"change", "startup">>
    /\ sync = "idle" /\ sweep = "idle"
    /\ schedulerTimer = FALSE /\ backupTimer = FALSE
    /\ backup = FALSE
    /\ restore = [r \in Restores |-> "idle"]
    /\ route = "idle"
    /\ process = "starting"

Eligible == leader /\ ~draining

\* A caller that awaits the synchronization it asked for.
Awaited(caller) == caller \notin ToSet(chain)

\* Mutant: the loss of leadership is not announced.
SetLeader_Silent(value) ==
    /\ leader' = value
    /\ chain' = IF value /\ ~leader THEN Append(chain, "change") ELSE chain

\* setLeader: a change is announced, and onChange chains a synchronization.
SetLeader(value) ==
    /\ leader' = value
    /\ chain' = IF leader = value THEN chain ELSE Append(chain, "change")

-----------------------------------------------------------------------------
(* Leadership, as LeaderElection gives it *)

LeadershipChanges ==
    /\ process # "closed"
    /\ Len(chain) < MaxSyncs
    /\ SetLeader(~leader)
    /\ UNCHANGED <<draining, sync, work, timers, requests>>

-----------------------------------------------------------------------------
(* The timers, and what they run *)

\* runOnce: at most one sweep at a time.
Tick ==
    /\ schedulerTimer /\ sweep = "idle"
    /\ sweep' = "timer"
    /\ UNCHANGED <<flags, chain, sync, timers, backup, requests>>

SweepEnd ==
    /\ sweep # "idle"
    /\ sweep' = "idle"
    /\ UNCHANGED <<flags, chain, sync, timers, backup, requests>>

BackupTick ==
    /\ backupTimer /\ ~backup
    /\ backup' = TRUE
    /\ UNCHANGED <<flags, chain, sync, sweep, timers, requests>>

BackupEnd ==
    /\ backup
    /\ backup' = FALSE
    /\ UNCHANGED <<flags, chain, sync, sweep, timers, requests>>

-----------------------------------------------------------------------------
(* synchronizeLeaderServices *)

\* Mutant: only leadership counts, as in a controller that cannot drain.
SyncStop_LeaderOnly ==
    /\ chain # <<>> /\ sync = "idle"
    /\ ~leader
    /\ schedulerTimer' = FALSE /\ backupTimer' = FALSE
    /\ chain' = Tail(chain)
    /\ UNCHANGED <<flags, sync, work, requests>>

SyncStop ==
    /\ chain # <<>> /\ sync = "idle"
    /\ ~Eligible
    /\ schedulerTimer' = FALSE /\ backupTimer' = FALSE
    /\ chain' = Tail(chain)
    /\ UNCHANGED <<flags, sync, work, requests>>

\* The sweep comes first, unless the timer is already running one.
SyncSweep ==
    /\ chain # <<>> /\ sync = "idle"
    /\ Eligible
    /\ sync' = "sweeping"
    /\ sweep' = IF sweep = "idle" THEN "sync" ELSE sweep
    /\ UNCHANGED <<flags, chain, timers, backup, requests>>

\* Mutant: the synchronization never settles.
SyncStart_NotSettled ==
    /\ sync = "sweeping" /\ sweep # "sync"
    /\ schedulerTimer' = TRUE /\ backupTimer' = TRUE
    /\ chain' = Tail(chain)
    /\ UNCHANGED <<flags, sync, work, requests>>

\* Both timers start after the sweep, whatever leadership has become.
SyncStart ==
    /\ sync = "sweeping" /\ sweep # "sync"
    /\ schedulerTimer' = TRUE /\ backupTimer' = TRUE
    /\ chain' = Tail(chain)
    /\ sync' = "idle"
    /\ UNCHANGED <<flags, work, requests>>

-----------------------------------------------------------------------------
(* The restore route *)

Listening == process \in {"up", "draining", "drained"}

\* backupService.restoring.
Restoring == \E r \in Restores : restore[r] = "restoring"

\* The gate; the organization of a request is read between it and its route.
Admits == Listening /\ ~Restoring

RestoreAdmitted(r) ==
    /\ Admits /\ ~draining /\ restore[r] = "idle"
    /\ restore' = [restore EXCEPT ![r] = "admitted"]
    /\ UNCHANGED <<flags, chain, sync, work, timers, route, process>>

\* The sweep timer stops; a second restore is refused, which ends like any other.
RestoreBegin(r) ==
    /\ restore[r] = "admitted"
    /\ schedulerTimer' = FALSE
    /\ IF Restoring
       THEN /\ restore' = [restore EXCEPT ![r] = "resuming"]
            /\ chain' = Append(chain, r)
       ELSE restore' = [restore EXCEPT ![r] = "restoring"] /\ UNCHANGED chain
    /\ UNCHANGED <<flags, sync, work, backupTimer, route, process>>

\* Mutant: nothing starts the sweep again.
RestoreEnd_NoSync(r) ==
    /\ restore[r] = "restoring"
    /\ restore' = [restore EXCEPT ![r] = "idle"]
    /\ UNCHANGED <<flags, chain, sync, work, timers, route, process>>

RestoreEnd(r) ==
    /\ restore[r] = "restoring"
    /\ restore' = [restore EXCEPT ![r] = "resuming"]
    /\ chain' = Append(chain, r)
    /\ UNCHANGED <<flags, sync, work, timers, route, process>>

RestoreAnswer(r) ==
    /\ restore[r] = "resuming" /\ Awaited(r)
    /\ restore' = [restore EXCEPT ![r] = "idle"]
    /\ UNCHANGED <<flags, chain, sync, work, timers, route, process>>

-----------------------------------------------------------------------------
(* Drain and resume *)

\* setDraining up to its first await; a drain gives up leadership in it.
BeginDraining(value) ==
    /\ draining' = value
    /\ IF value THEN SetLeader(FALSE) ELSE UNCHANGED <<leader, chain>>

\* The gate lets a resume through while the controller drains.
RouteAdmitted(request) ==
    /\ Admits /\ route = "idle"
    /\ request = "drain" => ~draining
    /\ route' = request
    /\ UNCHANGED <<flags, chain, sync, work, timers, restore, process>>

RouteBegin ==
    /\ route \in {"drain", "resume"}
    /\ LET value == route = "drain" IN
       IF draining = value
       THEN /\ route' = "syncing" /\ chain' = Append(chain, "route")
            /\ UNCHANGED <<flags>>
       ELSE BeginDraining(value) /\ route' = "registering"
    /\ UNCHANGED <<sync, work, timers, restore, process>>

\* The end of setDraining is announced, and the route synchronizes.
RouteRegistered ==
    /\ route = "registering"
    /\ route' = "syncing"
    /\ chain' = chain \o <<"change", "route">>
    /\ UNCHANGED <<flags, sync, work, timers, restore, process>>

RouteAnswer ==
    /\ route = "syncing" /\ Awaited("route")
    /\ route' = "idle"
    /\ UNCHANGED <<flags, chain, sync, work, timers, restore, process>>

-----------------------------------------------------------------------------
(* Start-up and shutdown *)

Started ==
    /\ process = "starting" /\ Awaited("startup")
    /\ process' = "up"
    /\ UNCHANGED <<flags, chain, sync, work, timers, restore, route>>

\* setDraining(true), which returns at once when the controller drains already.
ProcessDrains(registering, registered) ==
    /\ IF draining
       THEN /\ process' = registered /\ chain' = Append(chain, "shutdown")
            /\ UNCHANGED flags
       ELSE /\ process' = registering /\ BeginDraining(TRUE)
    /\ UNCHANGED <<sync, timers, work, restore, route>>

ProcessRegistered ==
    /\ process \in {"draining", "redraining"}
    /\ process' = IF process = "draining" THEN "drained" ELSE "redrained"
    /\ chain' = chain \o <<"change", "shutdown">>
    /\ UNCHANGED <<flags, sync, timers, work, restore, route>>

\* SIGTERM.
Shutdown == process = "up" /\ ProcessDrains("draining", "drained")

\* server.close accepts no more requests and waits for those in progress.
ServerClose ==
    /\ process = "drained" /\ Awaited("shutdown")
    /\ process' = "unreachable"
    /\ UNCHANGED <<flags, chain, sync, timers, work, restore, route>>

NoRequests == route = "idle" /\ \A r \in Restores : restore[r] = "idle"

\* Mutant: the drain of the signal is thought to be enough.
Redrain_Skipped ==
    /\ process = "unreachable" /\ NoRequests
    /\ process' = "redrained"
    /\ UNCHANGED <<flags, chain, sync, timers, work, restore, route>>

\* closeInfrastructure drains again: a resume may have come in between.
Redrain ==
    /\ process = "unreachable" /\ NoRequests
    /\ ProcessDrains("redraining", "redrained")

StopBackups ==
    /\ process = "redrained" /\ Awaited("shutdown")
    /\ process' = "backups"
    /\ backupTimer' = FALSE
    /\ UNCHANGED <<flags, chain, sync, schedulerTimer, work, restore, route>>

\* The scheduled backup has ended; leadership is released for good.
CloseCoordinator ==
    /\ process = "backups" /\ ~backup
    /\ process' = "closing"
    /\ draining' = TRUE /\ leader' = FALSE
    /\ chain' = chain \o <<"change", "shutdown">>
    /\ UNCHANGED <<sync, timers, work, restore, route>>

Closed ==
    /\ process = "closing" /\ Awaited("shutdown")
    /\ process' = "closed"
    /\ UNCHANGED <<flags, chain, sync, timers, work, restore, route>>

-----------------------------------------------------------------------------
Synchronize == SyncStop \/ SyncSweep \/ SyncStart

Requested ==
    \/ \E r \in Restores : RestoreAdmitted(r)
    \/ \E request \in {"drain", "resume"} : RouteAdmitted(request)

Restore(r) == RestoreBegin(r) \/ RestoreEnd(r) \/ RestoreAnswer(r)

Route == RouteBegin \/ RouteRegistered \/ RouteAnswer

ShutdownStep == ServerClose \/ Redrain \/ StopBackups \/ CloseCoordinator \/ Closed

Next ==
    \/ LeadershipChanges
    \/ Tick \/ SweepEnd \/ BackupTick \/ BackupEnd
    \/ Synchronize
    \/ Requested
    \/ \E r \in Restores : Restore(r)
    \/ Route
    \/ Started \/ ProcessRegistered
    \/ Shutdown \/ ShutdownStep

\* Promises settle, sweeps, backups and restores end, and an interval fires.
\* Leadership, requests and signals come as they will.
Fairness ==
    /\ WF_vars(Synchronize) /\ WF_vars(SweepEnd) /\ WF_vars(BackupEnd)
    /\ WF_vars(Tick)
    /\ \A r \in Restores : WF_vars(Restore(r))
    /\ WF_vars(Route)
    /\ WF_vars(Started) /\ WF_vars(ProcessRegistered) /\ WF_vars(ShutdownStep)

Spec == Init /\ [][Next]_vars
FairSpec == Spec /\ Fairness

-----------------------------------------------------------------------------
\* Every variable holds a value of its kind, and a synchronization that sweeps
\* is the first one of the chain.
TypeOK ==
    /\ leader \in BOOLEAN /\ draining \in BOOLEAN
    /\ chain \in Seq(Callers)
    /\ sync \in {"idle", "sweeping"} /\ (sync = "sweeping" => chain # <<>>)
    /\ sweep \in {"idle", "timer", "sync"}
    /\ schedulerTimer \in BOOLEAN /\ backupTimer \in BOOLEAN /\ backup \in BOOLEAN
    /\ restore \in [Restores -> {"idle", "admitted", "restoring", "resuming"}]
    /\ route \in {"idle", "drain", "resume", "registering", "syncing"}
    /\ process \in Processes

\* The synchronizations that will still look at the flags.
Unread == IF sync = "sweeping" THEN Tail(chain) ELSE chain

\* A sweep or a backup timer that runs, or that a synchronization will start
\* after its sweep, on a controller that may not run it has a synchronization
\* behind it that stops it again.
LateStartIsUndone ==
    (~Eligible /\ (schedulerTimer \/ backupTimer \/ sync = "sweeping")) => Unread # <<>>

\* A leader without its timers has a synchronization, a restore or a
\* registration before it that starts them.
LeaderIsServed ==
    (Eligible /\ ~(schedulerTimer /\ backupTimer) /\ process # "backups") =>
        chain # <<>> \/ Restoring \/ route = "registering"
            \/ process \in {"draining", "redraining"}

\* When the store closes no timer is left and no backup is in progress.
ClosedIsQuiet ==
    /\ process \in {"closing", "closed"} => ~backupTimer /\ ~backup
    /\ process = "closed" => ~schedulerTimer

\* When leadership settles, and no more restores are made, the timers settle to
\* what leadership says.
Settles(value) ==
    <>[](Eligible = value /\ \A r \in Restores : restore[r] = "idle") => <>[](timers = <<value, value>>)

ServicesFollowLeadership == \A value \in BOOLEAN : Settles(value)

\* A signal ends the process.
ShutdownEnds == process = "drained" ~> process = "closed"

-----------------------------------------------------------------------------
(* The inductive invariant *)

\* A timer runs, or a synchronization is about to start it.
Running == schedulerTimer \/ backupTimer \/ sync = "sweeping"

\* Once the process drains for the second time no request is left to undo it.
Ending == process \in {"redraining", "redrained", "backups", "closing", "closed"}
EndingOK == Ending => draining /\ NoRequests

\* The synchronization that the second drain awaits is behind all that runs.
StoppingOK ==
    /\ process = "redrained" /\ Running => "shutdown" \in ToSet(Unread)
    /\ process \in {"backups", "closing", "closed"} => ~Running
    /\ process \in {"closing", "closed"} => ~backup

IInv == TypeOK /\ EndingOK /\ StoppingOK /\ LateStartIsUndone /\ LeaderIsServed
=============================================================================
