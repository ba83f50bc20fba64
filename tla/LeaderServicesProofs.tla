------------------------ MODULE LeaderServicesProofs ------------------------
(* Proofs about LeaderServices, for any number of restore requests and any   *)
(* bound of the chain.  The argument: whoever changes a flag, or stops a     *)
(* timer, leaves a synchronization in the chain (Adds), the step that takes  *)
(* one out has just set the timers, and nothing that could start them is     *)
(* left once the second drain of the process has been synchronized.          *)
EXTENDS LeaderServices, QueueFacts, TLAPS

-----------------------------------------------------------------------------
(* What steps do to the chain.                                               *)

\* The callers who ask in this step, behind all who have asked before.
Adds(callers) ==
    /\ chain' \in Seq(Callers)
    /\ ToSet(chain') = ToSet(chain) \union callers
    /\ ToSet(Unread') = ToSet(Unread) \union callers

LEMMA PushFacts ==
    ASSUME NEW S, NEW s \in Seq(S), NEW e \in S
    PROVE  /\ Append(s, e) \in Seq(S)
           /\ ToSet(Append(s, e)) = ToSet(s) \union {e}
           /\ s # <<>> => Append(s, e) # <<>> /\ Tail(Append(s, e)) = Append(Tail(s), e)
           /\ s # <<>> => ToSet(Tail(Append(s, e))) = ToSet(Tail(s)) \union {e}
<1>1. Append(s, e) \in Seq(S) /\ ToSet(Append(s, e)) = ToSet(s) \union {e}
  BY AppendFacts, AppendSet
<1>2. ASSUME s # <<>>
      PROVE  /\ Append(s, e) # <<>> /\ Tail(Append(s, e)) = Append(Tail(s), e)
             /\ ToSet(Tail(Append(s, e))) = ToSet(Tail(s)) \union {e}
  <2>1. Tail(s) \in Seq(S)
    BY <1>2, TailFacts
  <2>2. \A t \in Seq(S) : ToSet(Append(t, e)) = ToSet(t) \union {e}
    BY AppendSet
  <2>3. Append(s, e) # <<>> /\ Tail(Append(s, e)) = Append(Tail(s), e)
    BY <1>2
  <2> QED BY <2>1, <2>2, <2>3
<1> QED BY <1>1, <1>2

LEMMA NonEmpty ==
    ASSUME NEW S, NEW s \in Seq(S)
    PROVE  s # <<>> <=> ToSet(s) # {}
<1>1. s # <<>> => Last(s) \in ToSet(s)
  BY SetFacts
<1>2. s = <<>> => ToSet(s) = {}
  BY DEF ToSet
<1> QED BY <1>1, <1>2

\* One caller asks.
LEMMA OneAsks ==
    ASSUME TypeOK, NEW e \in Callers, chain' = Append(chain, e), sync' = sync
    PROVE  Adds({e})
BY PushFacts DEF TypeOK, Adds, Unread

\* The end of a registration is announced, and the one who awaited it asks.
LEMMA TwoAsk ==
    ASSUME TypeOK, NEW e \in Callers, chain' = chain \o <<"change", e>>, sync' = sync
    PROVE  Adds({"change", e})
<1> DEFINE once == Append(chain, "change")
<1>1. chain \in Seq(Callers) /\ "change" \in Callers
  BY DEF TypeOK, Callers
<1>2. chain' = Append(once, e)
  BY <1>1
<1>3. /\ once \in Seq(Callers) /\ ToSet(once) = ToSet(chain) \union {"change"}
      /\ chain # <<>> => once # <<>> /\ ToSet(Tail(once)) = ToSet(Tail(chain)) \union {"change"}
  BY <1>1, PushFacts
<1>4. /\ chain' \in Seq(Callers) /\ ToSet(chain') = ToSet(once) \union {e}
      /\ once # <<>> => ToSet(Tail(chain')) = ToSet(Tail(once)) \union {e}
  <2>1. \A s \in Seq(Callers) :
          /\ Append(s, e) \in Seq(Callers) /\ ToSet(Append(s, e)) = ToSet(s) \union {e}
          /\ s # <<>> => ToSet(Tail(Append(s, e))) = ToSet(Tail(s)) \union {e}
    BY PushFacts
  <2> HIDE DEF once
  <2> QED BY <1>2, <1>3, <2>1
<1>5. sync = "sweeping" => chain # <<>>
  BY DEF TypeOK
<1> QED BY <1>3, <1>4, <1>5 DEF Adds, Unread

LEMMA NobodyAsks ==
    ASSUME TypeOK, chain' = chain, sync' = sync
    PROVE  Adds({})
BY DEF TypeOK, Adds, Unread

\* setLeader: the change is announced.
LEMMA ChangeAsks ==
    ASSUME TypeOK, NEW value \in BOOLEAN, SetLeader(value), sync' = sync
    PROVE  /\ leader' = value
           /\ Adds(IF leader = value THEN {} ELSE {"change"})
<1>1. "change" \in Callers
  BY DEF Callers
<1> QED BY <1>1, OneAsks, NobodyAsks DEF SetLeader

\* What a step that adds to the chain must show.
LEMMA AddsFacts ==
    ASSUME TypeOK, NEW callers, Adds(callers)
    PROVE  /\ callers # {} => chain' # <<>> /\ Unread' # <<>>
           /\ chain # <<>> => chain' # <<>>
           /\ Unread # <<>> => Unread' # <<>>
<1>1. chain \in Seq(Callers) /\ Unread \in Seq(Callers)
  BY TailFacts DEF TypeOK, Unread
<1>2. chain' \in Seq(Callers)
  BY DEF Adds
<1>3. /\ chain # <<>> <=> ToSet(chain) # {}
      /\ Unread # <<>> <=> ToSet(Unread) # {}
      /\ chain' # <<>> <=> ToSet(chain') # {}
  BY <1>1, <1>2, NonEmpty
<1>4. (Unread = <<>>) => ToSet(Unread) = {}
  BY <1>3
<1>5. Unread' = <<>> => ToSet(Unread') = {}
  BY DEF ToSet
<1> QED BY <1>3, <1>5 DEF Adds

\* A step that starts no timer, and that asks when it may end a leader's right
\* to run them, leaves a synchronization behind all that runs.
LEMMA LateStep ==
    ASSUME TypeOK, LateStartIsUndone, NEW callers, Adds(callers), sync' = sync,
           schedulerTimer' => schedulerTimer, backupTimer' => backupTimer,
           callers # {} \/ (Eligible => Eligible')
    PROVE  LateStartIsUndone'
BY AddsFacts DEF LateStartIsUndone

\* A step that asks, or takes no reason away, leaves a leader who is served.
LEMMA ServedStep ==
    ASSUME TypeOK, LeaderIsServed, NEW callers, Adds(callers),
           \/ callers # {}
           \/ /\ UNCHANGED timers /\ (Eligible' => Eligible) /\ process' = process
              /\ (Restoring => Restoring') /\ (route = "registering" => route' = "registering")
    PROVE  LeaderIsServed'
BY AddsFacts DEF LeaderIsServed, timers

\* A step that starts no timer, and does not end the process, keeps what the
\* end of the process promises.
LEMMA EndStep ==
    ASSUME TypeOK, EndingOK, StoppingOK, NEW callers, Adds(callers), sync' = sync,
           schedulerTimer' => schedulerTimer, backupTimer' => backupTimer,
           process' = process, process \in {"closing", "closed"} => ~backup',
           Ending => draining' /\ NoRequests'
    PROVE  EndingOK' /\ StoppingOK'
BY DEF EndingOK, StoppingOK, Ending, Running, Adds

-----------------------------------------------------------------------------
(* Each action keeps the invariant.                                          *)

LEMMA LeadershipChangesIInv == ASSUME IInv, LeadershipChanges PROVE IInv'
<1>1. /\ leader \in BOOLEAN /\ SetLeader(~leader)
      /\ UNCHANGED <<draining, sync, work, timers, requests>>
  BY DEF LeadershipChanges, IInv, TypeOK
<1>2. leader' \in BOOLEAN /\ Adds({"change"})
  BY <1>1, ChangeAsks DEF IInv
<1>3. TypeOK'
  BY <1>1, <1>2, AddsFacts DEF IInv, TypeOK, Adds, work, timers, requests
<1>4. LateStartIsUndone' /\ LeaderIsServed'
  BY <1>1, <1>2, LateStep, ServedStep DEF IInv, timers
<1>5. EndingOK' /\ StoppingOK'
  BY <1>1, <1>2, EndStep DEF IInv, timers, requests, work, NoRequests, EndingOK, StoppingOK
<1> QED BY <1>3, <1>4, <1>5 DEF IInv

\* Sweeps and backups begin and end: nothing of the chain moves.
LEMMA WorkIInv ==
    ASSUME IInv, Tick \/ SweepEnd \/ BackupTick \/ BackupEnd PROVE IInv'
<1>1. /\ UNCHANGED <<flags, chain, sync, timers, requests>>
      /\ sweep' \in {"idle", "timer", "sync"} /\ backup' \in BOOLEAN
      /\ backup' => backup \/ backupTimer
  <2>1. sweep \in {"idle", "timer", "sync"} /\ backup \in BOOLEAN
    BY DEF IInv, TypeOK
  <2>2. CASE Tick \/ SweepEnd
    BY <2>1, <2>2 DEF Tick, SweepEnd
  <2>3. CASE BackupTick
    BY <2>1, <2>3 DEF BackupTick
  <2>4. CASE BackupEnd
    BY <2>1, <2>4 DEF BackupEnd
  <2> QED BY <2>2, <2>3, <2>4
<1>2. Adds({})
  BY <1>1, NobodyAsks DEF IInv
<1>3. TypeOK'
  BY <1>1 DEF IInv, TypeOK, flags, timers, requests
<1>4. LateStartIsUndone' /\ LeaderIsServed'
  BY <1>1 DEF IInv, LateStartIsUndone, LeaderIsServed, Eligible, Unread, Restoring, flags,
              timers, requests
<1>5. EndingOK' /\ StoppingOK'
  BY <1>1 DEF IInv, EndingOK, StoppingOK, Ending, Running, NoRequests, Unread, flags, timers,
              requests
<1> QED BY <1>3, <1>4, <1>5 DEF IInv

LEMMA SyncStopIInv == ASSUME IInv, SyncStop PROVE IInv'
<1>1. /\ chain # <<>> /\ sync = "idle" /\ ~Eligible /\ ~schedulerTimer' /\ ~backupTimer'
      /\ schedulerTimer' \in BOOLEAN /\ backupTimer' \in BOOLEAN
      /\ chain' = Tail(chain) /\ UNCHANGED <<flags, sync, work, requests>>
  BY DEF SyncStop
<1>2. TypeOK'
  BY <1>1, TailFacts DEF IInv, TypeOK, flags, work, requests
<1>3. EndingOK' /\ StoppingOK'
  BY <1>1 DEF IInv, EndingOK, StoppingOK, Ending, Running, NoRequests, flags, work, requests
<1>4. LateStartIsUndone' /\ LeaderIsServed'
  BY <1>1 DEF LateStartIsUndone, LeaderIsServed, Eligible, flags
<1> QED BY <1>2, <1>3, <1>4 DEF IInv

\* A controller that ends does not lead, so nothing new starts.
LEMMA SyncSweepIInv == ASSUME IInv, SyncSweep PROVE IInv'
<1>1. /\ chain # <<>> /\ Eligible /\ sync' = "sweeping"
      /\ sweep' = IF sweep = "idle" THEN "sync" ELSE sweep
      /\ UNCHANGED <<flags, chain, timers, backup, requests>>
  BY DEF SyncSweep
<1>2. TypeOK'
  BY <1>1 DEF IInv, TypeOK, flags, timers, requests
<1>3. ~Ending /\ ~Ending'
  BY <1>1 DEF IInv, EndingOK, Eligible, Ending, requests
<1>4. EndingOK' /\ StoppingOK'
  BY <1>3 DEF EndingOK, StoppingOK, Ending
<1>5. LateStartIsUndone' /\ LeaderIsServed'
  BY <1>1 DEF LateStartIsUndone, LeaderIsServed, Eligible, flags
<1> QED BY <1>2, <1>4, <1>5 DEF IInv

\* The synchronizations that will still look at the flags are the same.
LEMMA SyncStartIInv == ASSUME IInv, SyncStart PROVE IInv'
<1>1. /\ sync = "sweeping" /\ chain # <<>> /\ schedulerTimer' = TRUE /\ backupTimer' = TRUE
      /\ chain' = Tail(chain) /\ sync' = "idle" /\ UNCHANGED <<flags, work, requests>>
  BY DEF SyncStart, IInv, TypeOK
<1>2. TypeOK'
  BY <1>1, TailFacts DEF IInv, TypeOK, flags, work, requests
<1>3. Unread' = Unread /\ Running
  BY <1>1 DEF Unread, Running
<1>4. EndingOK' /\ StoppingOK'
  BY <1>1, <1>3 DEF IInv, EndingOK, StoppingOK, Ending, NoRequests, flags, work, requests
<1>5. LateStartIsUndone' /\ LeaderIsServed'
  BY <1>1, <1>3 DEF IInv, LateStartIsUndone, LeaderIsServed, Eligible, flags
<1> QED BY <1>2, <1>4, <1>5 DEF IInv

-----------------------------------------------------------------------------
(* Restores.                                                                 *)

\* A restore in progress is a request, and the process does not end before it.
LEMMA RestoreStep ==
    ASSUME IInv, NEW r \in Restores, restore[r] # "idle",
           UNCHANGED <<flags, sync, work, backupTimer, route, process>>,
           schedulerTimer' \in BOOLEAN, schedulerTimer' => schedulerTimer,
           restore' \in [Restores -> {"idle", "admitted", "restoring", "resuming"}],
           NEW callers, Adds(callers), LeaderIsServed'
    PROVE  IInv'
<1>1. ~Ending
  BY DEF IInv, EndingOK, NoRequests
<1>2. EndingOK' /\ StoppingOK'
  BY <1>1 DEF EndingOK, StoppingOK, Ending
<1>3. LateStartIsUndone'
  BY LateStep DEF IInv, Eligible, flags
<1>4. TypeOK'
  BY AddsFacts DEF IInv, TypeOK, Adds, flags, work
<1> QED BY <1>2, <1>3, <1>4 DEF IInv

LEMMA RestoreAdmittedIInv == ASSUME IInv, NEW r \in Restores, RestoreAdmitted(r) PROVE IInv'
<1>1. /\ Listening /\ restore[r] = "idle" /\ restore' = [restore EXCEPT ![r] = "admitted"]
      /\ UNCHANGED <<flags, chain, sync, work, timers, route, process>>
  BY DEF RestoreAdmitted, Admits
<1>2. restore' \in [Restores -> {"idle", "admitted", "restoring", "resuming"}]
      /\ (Restoring => Restoring') /\ Adds({})
  BY <1>1, NobodyAsks DEF IInv, TypeOK, Restoring
<1>3. ~Ending
  BY <1>1 DEF Listening, Ending
<1>4. EndingOK' /\ StoppingOK'
  BY <1>1, <1>3 DEF EndingOK, StoppingOK, Ending
<1>5. LateStartIsUndone' /\ LeaderIsServed'
  BY <1>1, <1>2, LateStep, ServedStep DEF IInv, Eligible, flags, timers
<1>6. TypeOK'
  BY <1>1, <1>2 DEF IInv, TypeOK, flags, work, timers
<1> QED BY <1>4, <1>5, <1>6 DEF IInv

\* The timer that stops is started again at the end of the restore, or by the
\* synchronization that a refused one asks for.
LEMMA RestoreBeginIInv == ASSUME IInv, NEW r \in Restores, RestoreBegin(r) PROVE IInv'
<1>1. /\ restore[r] = "admitted" /\ schedulerTimer' = FALSE /\ r \in Callers
      /\ UNCHANGED <<flags, sync, work, backupTimer, route, process>>
  BY DEF RestoreBegin, Callers
<1>2. CASE Restoring
  <2>1. restore' = [restore EXCEPT ![r] = "resuming"] /\ chain' = Append(chain, r)
    BY <1>2 DEF RestoreBegin
  <2>2. Adds({r}) /\ LeaderIsServed'
    BY <1>1, <2>1, OneAsks, ServedStep DEF IInv
  <2> QED BY <1>1, <2>1, <2>2, RestoreStep DEF IInv, TypeOK
<1>3. CASE ~Restoring
  <2>1. restore' = [restore EXCEPT ![r] = "restoring"] /\ chain' = chain
    BY <1>3 DEF RestoreBegin
  <2>2. Adds({}) /\ LeaderIsServed'
    BY <1>1, <2>1, NobodyAsks DEF IInv, TypeOK, LeaderIsServed, Restoring
  <2> QED BY <1>1, <2>1, <2>2, RestoreStep DEF IInv, TypeOK
<1> QED BY <1>2, <1>3

LEMMA RestoreEndIInv == ASSUME IInv, NEW r \in Restores, RestoreEnd(r) PROVE IInv'
<1>1. /\ restore[r] = "restoring" /\ restore' = [restore EXCEPT ![r] = "resuming"]
      /\ chain' = Append(chain, r) /\ r \in Callers
      /\ UNCHANGED <<flags, sync, work, timers, route, process>>
  BY DEF RestoreEnd, Callers
<1>2. Adds({r}) /\ LeaderIsServed'
  BY <1>1, OneAsks, ServedStep DEF IInv
<1> QED BY <1>1, <1>2, RestoreStep DEF IInv, TypeOK, timers

LEMMA RestoreAnswerIInv == ASSUME IInv, NEW r \in Restores, RestoreAnswer(r) PROVE IInv'
<1>1. /\ restore[r] = "resuming" /\ restore' = [restore EXCEPT ![r] = "idle"]
      /\ UNCHANGED <<flags, chain, sync, work, timers, route, process>>
  BY DEF RestoreAnswer
<1>2. Adds({}) /\ (Restoring => Restoring')
  BY <1>1, NobodyAsks DEF IInv, TypeOK, Restoring
<1>3. LeaderIsServed'
  BY <1>1, <1>2, ServedStep DEF IInv, Eligible, flags
<1> QED BY <1>1, <1>2, <1>3, RestoreStep DEF IInv, TypeOK, timers

-----------------------------------------------------------------------------
(* Drain and resume.                                                         *)

\* A drain or resume in progress is a request.
LEMMA RouteStep ==
    ASSUME IInv, route # "idle",
           UNCHANGED <<sync, work, timers, restore, process>>,
           route' \in {"idle", "drain", "resume", "registering", "syncing"},
           leader' \in BOOLEAN, draining' \in BOOLEAN,
           NEW callers, Adds(callers), callers # {} \/ (Eligible => Eligible'), LeaderIsServed'
    PROVE  IInv'
<1>1. ~Ending
  BY DEF IInv, EndingOK, NoRequests
<1>2. EndingOK' /\ StoppingOK'
  BY <1>1 DEF EndingOK, StoppingOK, Ending
<1>3. LateStartIsUndone'
  BY LateStep DEF IInv, timers
<1>4. TypeOK'
  BY AddsFacts DEF IInv, TypeOK, Adds, work, timers
<1> QED BY <1>2, <1>3, <1>4 DEF IInv

LEMMA RouteAdmittedIInv ==
    ASSUME IInv, NEW request \in {"drain", "resume"}, RouteAdmitted(request) PROVE IInv'
<1>1. /\ Listening /\ route = "idle" /\ route' = request
      /\ UNCHANGED <<flags, chain, sync, work, timers, restore, process>>
  BY DEF RouteAdmitted, Admits
<1>2. Adds({}) /\ Restoring' = Restoring
  BY <1>1, NobodyAsks DEF IInv, Restoring
<1>3. ~Ending
  BY <1>1 DEF Listening, Ending
<1>4. EndingOK' /\ StoppingOK'
  BY <1>1, <1>3 DEF EndingOK, StoppingOK, Ending
<1>5. LateStartIsUndone' /\ LeaderIsServed'
  BY <1>1, <1>2, LateStep, ServedStep DEF IInv, Eligible, flags, timers
<1>6. TypeOK'
  BY <1>1 DEF IInv, TypeOK, flags, work, timers
<1> QED BY <1>4, <1>5, <1>6 DEF IInv

\* A controller that starts to drain does not lead, or announces that it
\* stopped leading.
LEMMA DrainAsks ==
    ASSUME TypeOK, BeginDraining(TRUE), sync' = sync
    PROVE  /\ draining' = TRUE /\ leader' = FALSE /\ ~Eligible'
           /\ \E callers : Adds(callers) /\ (callers # {} \/ ~Eligible)
<1>1. draining' = TRUE /\ SetLeader(FALSE)
  BY DEF BeginDraining
<1>2. leader' = FALSE /\ Adds(IF leader = FALSE THEN {} ELSE {"change"})
  BY <1>1, ChangeAsks
<1>3. CASE leader = FALSE
  <2>1. Adds({}) /\ ~Eligible
    BY <1>2, <1>3 DEF Eligible
  <2> QED BY <1>1, <1>2, <2>1 DEF Eligible
<1>4. CASE leader # FALSE
  <2>1. Adds({"change"}) /\ {"change"} # {}
    BY <1>2, <1>4
  <2> QED BY <1>1, <1>2, <2>1 DEF Eligible
<1> QED BY <1>3, <1>4

LEMMA RouteBeginIInv == ASSUME IInv, RouteBegin PROVE IInv'
<1>1. route \in {"drain", "resume"} /\ UNCHANGED <<sync, work, timers, restore, process>>
  BY DEF RouteBegin
<1>2. CASE draining = (route = "drain")
  <2>1. route' = "syncing" /\ chain' = Append(chain, "route") /\ UNCHANGED flags
    BY <1>2 DEF RouteBegin
  <2>2. Adds({"route"}) /\ LeaderIsServed'
    BY <1>1, <2>1, OneAsks, ServedStep DEF IInv, Callers
  <2> QED BY <1>1, <2>1, <2>2, RouteStep DEF IInv, TypeOK, flags
<1>3. CASE draining # (route = "drain") /\ route = "drain"
  <2>1. route' = "registering" /\ BeginDraining(TRUE)
    BY <1>3 DEF RouteBegin
  <2>2. /\ draining' = TRUE /\ leader' = FALSE /\ ~Eligible'
        /\ \E callers : Adds(callers) /\ (callers # {} \/ ~Eligible)
    BY <1>1, <2>1, DrainAsks DEF IInv
  <2>3. LeaderIsServed'
    BY <2>2 DEF LeaderIsServed
  <2> QED BY <1>1, <2>1, <2>2, <2>3, RouteStep
<1>4. CASE draining # (route = "drain") /\ route = "resume"
  <2>1. route' = "registering" /\ draining' = FALSE /\ UNCHANGED <<leader, chain>>
    BY <1>4 DEF RouteBegin, BeginDraining
  <2>2. Adds({}) /\ LeaderIsServed' /\ (Eligible => Eligible')
    BY <1>1, <2>1, NobodyAsks DEF IInv, LeaderIsServed, Eligible
  <2> QED BY <1>1, <2>1, <2>2, RouteStep DEF IInv, TypeOK
<1> QED BY <1>1, <1>2, <1>3, <1>4

LEMMA RouteRegisteredIInv == ASSUME IInv, RouteRegistered PROVE IInv'
<1>1. /\ route = "registering" /\ route' = "syncing"
      /\ chain' = chain \o <<"change", "route">>
      /\ UNCHANGED <<flags, sync, work, timers, restore, process>>
  BY DEF RouteRegistered
<1>2. Adds({"change", "route"}) /\ LeaderIsServed'
  BY <1>1, TwoAsk, ServedStep DEF IInv, Callers
<1> QED BY <1>1, <1>2, RouteStep DEF IInv, TypeOK, flags

LEMMA RouteAnswerIInv == ASSUME IInv, RouteAnswer PROVE IInv'
<1>1. /\ route = "syncing" /\ route' = "idle"
      /\ UNCHANGED <<flags, chain, sync, work, timers, restore, process>>
  BY DEF RouteAnswer
<1>2. Adds({}) /\ Restoring' = Restoring
  BY <1>1, NobodyAsks DEF IInv, Restoring
<1>3. (Eligible => Eligible') /\ LeaderIsServed'
  BY <1>1, <1>2, ServedStep DEF IInv, Eligible, flags
<1> QED BY <1>1, <1>2, <1>3, RouteStep DEF IInv, TypeOK, flags

-----------------------------------------------------------------------------
(* Start-up and shutdown.                                                    *)

\* A step of the process that starts no timer.
LEMMA ProcessStep ==
    ASSUME IInv, UNCHANGED <<sync, work, restore, route>>,
           process' \in Processes, leader' \in BOOLEAN, draining' \in BOOLEAN,
           schedulerTimer' \in BOOLEAN, schedulerTimer' => schedulerTimer,
           backupTimer' \in BOOLEAN, backupTimer' => backupTimer,
           NEW callers, Adds(callers), callers # {} \/ (Eligible => Eligible'),
           EndingOK', StoppingOK', LeaderIsServed'
    PROVE  IInv'
<1>1. LateStartIsUndone'
  BY LateStep DEF IInv
<1>2. TypeOK'
  BY AddsFacts DEF IInv, TypeOK, Adds, work
<1> QED BY <1>1, <1>2 DEF IInv

LEMMA StartedIInv == ASSUME IInv, Started PROVE IInv'
<1>1. /\ process = "starting" /\ process' = "up"
      /\ UNCHANGED <<flags, chain, sync, work, timers, restore, route>>
  BY DEF Started
<1>2. Adds({}) /\ Restoring' = Restoring
  BY <1>1, NobodyAsks DEF IInv, Restoring
<1>3. EndingOK' /\ StoppingOK'
  BY <1>1 DEF EndingOK, StoppingOK, Ending
<1>4. LeaderIsServed'
  BY <1>1, <1>2 DEF IInv, LeaderIsServed, Eligible, flags, timers
<1> QED BY <1>1, <1>2, <1>3, <1>4, ProcessStep DEF IInv, TypeOK, Processes, Eligible, flags, timers

\* The process drains, from a state in which it has not begun to end.
LEMMA ProcessDrainsFacts ==
    ASSUME IInv, NEW registering \in {"draining", "redraining"},
           NEW registered \in {"drained", "redrained"}, ProcessDrains(registering, registered)
    PROVE  /\ UNCHANGED <<sync, timers, work, restore, route>>
           /\ draining' = TRUE /\ leader' \in BOOLEAN /\ ~Eligible' /\ LeaderIsServed'
           /\ \E callers : Adds(callers) /\ (callers # {} \/ ~Eligible)
           /\ \/ process' = registering
              \/ process' = registered /\ Adds({"shutdown"})
<1>1. /\ UNCHANGED <<sync, timers, work, restore, route>>
      /\ draining \in BOOLEAN /\ leader \in BOOLEAN
  BY DEF ProcessDrains, IInv, TypeOK
<1>2. CASE draining
  <2>1. process' = registered /\ chain' = Append(chain, "shutdown") /\ UNCHANGED flags
    BY <1>2 DEF ProcessDrains
  <2>2. Adds({"shutdown"}) /\ {"shutdown"} # {}
    BY <1>1, <2>1, OneAsks DEF IInv, Callers
  <2>3. draining' = TRUE /\ leader' \in BOOLEAN /\ ~Eligible' /\ LeaderIsServed'
    BY <1>1, <1>2, <2>1 DEF Eligible, LeaderIsServed, flags
  <2> QED BY <1>1, <2>1, <2>2, <2>3
<1>3. CASE ~draining
  <2>1. process' = registering /\ BeginDraining(TRUE)
    BY <1>3 DEF ProcessDrains
  <2>2. /\ draining' = TRUE /\ leader' = FALSE /\ ~Eligible'
        /\ \E callers : Adds(callers) /\ (callers # {} \/ ~Eligible)
    BY <1>1, <2>1, DrainAsks DEF IInv
  <2> QED BY <1>1, <2>1, <2>2 DEF LeaderIsServed
<1> QED BY <1>2, <1>3

LEMMA ShutdownIInv == ASSUME IInv, Shutdown PROVE IInv'
<1>1. ProcessDrains("draining", "drained")
  BY DEF Shutdown
<1>2. /\ UNCHANGED <<sync, timers, work, restore, route>> /\ process' \in {"draining", "drained"}
      /\ draining' = TRUE /\ leader' \in BOOLEAN /\ LeaderIsServed'
      /\ \E callers : Adds(callers) /\ (callers # {} \/ ~Eligible)
  BY <1>1, ProcessDrainsFacts
<1>3. EndingOK' /\ StoppingOK'
  BY <1>2 DEF EndingOK, StoppingOK, Ending
<1> QED BY <1>2, <1>3, ProcessStep DEF IInv, TypeOK, Processes, timers

\* No request is left, so the controller goes on draining.
LEMMA RedrainIInv == ASSUME IInv, Redrain PROVE IInv'
<1>1. NoRequests /\ ProcessDrains("redraining", "redrained")
  BY DEF Redrain
<1>2. /\ UNCHANGED <<sync, timers, work, restore, route>>
      /\ \/ process' = "redraining"
         \/ process' = "redrained" /\ Adds({"shutdown"})
      /\ draining' = TRUE /\ leader' \in BOOLEAN /\ LeaderIsServed'
      /\ \E callers : Adds(callers) /\ (callers # {} \/ ~Eligible)
  BY <1>1, ProcessDrainsFacts
<1>3. EndingOK'
  BY <1>1, <1>2 DEF EndingOK, NoRequests
<1>4. StoppingOK'
  BY <1>2 DEF StoppingOK, Adds
<1> QED BY <1>2, <1>3, <1>4, ProcessStep DEF IInv, TypeOK, Processes, timers

LEMMA ProcessRegisteredIInv == ASSUME IInv, ProcessRegistered PROVE IInv'
<1>1. /\ process \in {"draining", "redraining"}
      /\ process' = IF process = "draining" THEN "drained" ELSE "redrained"
      /\ chain' = chain \o <<"change", "shutdown">>
      /\ UNCHANGED <<flags, sync, timers, work, restore, route>>
  BY DEF ProcessRegistered
<1>2. Adds({"change", "shutdown"}) /\ LeaderIsServed'
  BY <1>1, TwoAsk, ServedStep DEF IInv, Callers
<1>3. EndingOK' /\ StoppingOK'
  BY <1>1, <1>2 DEF IInv, EndingOK, StoppingOK, Ending, NoRequests, Adds, flags
<1> QED BY <1>1, <1>2, <1>3, ProcessStep DEF IInv, TypeOK, Processes, flags, timers

LEMMA ServerCloseIInv == ASSUME IInv, ServerClose PROVE IInv'
<1>1. /\ process = "drained" /\ process' = "unreachable"
      /\ UNCHANGED <<flags, chain, sync, timers, work, restore, route>>
  BY DEF ServerClose
<1>2. Adds({}) /\ Restoring' = Restoring
  BY <1>1, NobodyAsks DEF IInv, Restoring
<1>3. EndingOK' /\ StoppingOK'
  BY <1>1 DEF EndingOK, StoppingOK, Ending
<1>4. LeaderIsServed'
  BY <1>1, <1>2 DEF IInv, LeaderIsServed, Eligible, flags, timers
<1> QED BY <1>1, <1>2, <1>3, <1>4, ProcessStep DEF IInv, TypeOK, Processes, Eligible, flags, timers

\* The synchronization of the second drain has been awaited: nothing runs.
LEMMA StopBackupsIInv == ASSUME IInv, StopBackups PROVE IInv'
<1>1. /\ process = "redrained" /\ Awaited("shutdown") /\ process' = "backups"
      /\ backupTimer' = FALSE
      /\ UNCHANGED <<flags, chain, sync, schedulerTimer, work, restore, route>>
  BY DEF StopBackups
<1>2. Adds({})
  BY <1>1, NobodyAsks DEF IInv
<1>3. ToSet(Unread) \subseteq ToSet(chain)
  BY TailSet DEF IInv, TypeOK, Unread
<1>4. ~Running
  BY <1>1, <1>3 DEF IInv, StoppingOK, Awaited
<1>5. EndingOK' /\ StoppingOK'
  BY <1>1, <1>4 DEF IInv, EndingOK, StoppingOK, Ending, NoRequests, Running, flags
<1>6. LeaderIsServed'
  BY <1>1 DEF LeaderIsServed
<1> QED BY <1>1, <1>2, <1>5, <1>6, ProcessStep DEF IInv, TypeOK, Processes, Eligible, flags

LEMMA CloseCoordinatorIInv == ASSUME IInv, CloseCoordinator PROVE IInv'
<1>1. /\ process = "backups" /\ ~backup /\ process' = "closing"
      /\ draining' = TRUE /\ leader' = FALSE
      /\ chain' = chain \o <<"change", "shutdown">>
      /\ UNCHANGED <<sync, timers, work, restore, route>>
  BY DEF CloseCoordinator
<1>2. Adds({"change", "shutdown"}) /\ {"change", "shutdown"} # {} /\ LeaderIsServed'
  BY <1>1, TwoAsk DEF IInv, Callers, LeaderIsServed, Eligible
<1>3. EndingOK'
  BY <1>1 DEF IInv, EndingOK, Ending, NoRequests
<1>4. StoppingOK'
  BY <1>1 DEF IInv, StoppingOK, Running, timers, work
<1> QED BY <1>1, <1>2, <1>3, <1>4, ProcessStep DEF IInv, TypeOK, Processes, timers

LEMMA ClosedIInv == ASSUME IInv, Closed PROVE IInv'
<1>1. /\ process = "closing" /\ process' = "closed"
      /\ UNCHANGED <<flags, chain, sync, timers, work, restore, route>>
  BY DEF Closed
<1>2. Adds({}) /\ draining
  BY <1>1, NobodyAsks DEF IInv, EndingOK, Ending
<1>3. EndingOK'
  BY <1>1 DEF IInv, EndingOK, Ending, NoRequests, flags
<1>4. StoppingOK'
  BY <1>1 DEF IInv, StoppingOK, Running, timers, work
<1>5. LeaderIsServed'
  BY <1>1, <1>2 DEF LeaderIsServed, Eligible, flags
<1> QED BY <1>1, <1>2, <1>3, <1>4, <1>5, ProcessStep
        DEF IInv, TypeOK, Processes, Eligible, flags, timers

-----------------------------------------------------------------------------
(* The theorems.                                                             *)

LEMMA InitIInv == Init => IInv
<1> SUFFICES ASSUME Init PROVE IInv
  OBVIOUS
<1>1. chain \in Seq(Callers) /\ chain # <<>>
  BY DEF Init, Callers
<1>2. TypeOK
  BY <1>1 DEF Init, TypeOK, Processes
<1> QED BY <1>1, <1>2 DEF Init, IInv, EndingOK, StoppingOK, Ending, LateStartIsUndone,
                          LeaderIsServed, Unread

LEMMA NextIInv == IInv /\ [Next]_vars => IInv'
<1> SUFFICES ASSUME IInv, [Next]_vars PROVE IInv'
  OBVIOUS
<1>1. CASE LeadershipChanges
  BY <1>1, LeadershipChangesIInv
<1>2. CASE Tick \/ SweepEnd \/ BackupTick \/ BackupEnd
  BY <1>2, WorkIInv
<1>3. CASE Synchronize
  BY <1>3, SyncStopIInv, SyncSweepIInv, SyncStartIInv DEF Synchronize
<1>4. CASE Requested
  BY <1>4, RestoreAdmittedIInv, RouteAdmittedIInv DEF Requested
<1>5. ASSUME NEW r \in Restores, Restore(r) PROVE IInv'
  BY <1>5, RestoreBeginIInv, RestoreEndIInv, RestoreAnswerIInv DEF Restore
<1>6. CASE Route
  BY <1>6, RouteBeginIInv, RouteRegisteredIInv, RouteAnswerIInv DEF Route
<1>7. CASE Started \/ ProcessRegistered \/ Shutdown
  BY <1>7, StartedIInv, ProcessRegisteredIInv, ShutdownIInv
<1>8. CASE ShutdownStep
  BY <1>8, ServerCloseIInv, RedrainIInv, StopBackupsIInv, CloseCoordinatorIInv, ClosedIInv
     DEF ShutdownStep
<1>9. CASE UNCHANGED vars
  BY <1>9 DEF vars, flags, timers, work, requests, IInv, TypeOK, EndingOK, StoppingOK, Ending,
              Running, NoRequests, LateStartIsUndone, LeaderIsServed, Eligible, Unread, Restoring
<1> QED BY <1>1, <1>2, <1>3, <1>4, <1>5, <1>6, <1>7, <1>8, <1>9 DEF Next

\* The invariant holds in every state of the services of a controller.
THEOREM Inductive == Spec => []IInv
<1> QED BY InitIInv, NextIInv, PTL DEF Spec

\* Every variable holds a value of its kind, whoever asks for synchronizations.
THEOREM TypeCorrect == Spec => []TypeOK
<1>1. IInv => TypeOK
  BY DEF IInv
<1> QED BY <1>1, Inductive, PTL

\* Timers that a synchronization starts after the controller has lost the lead
\* or drains are stopped by one that comes behind it.
THEOREM LateStartsUndone == Spec => []LateStartIsUndone
<1>1. IInv => LateStartIsUndone
  BY DEF IInv
<1> QED BY <1>1, Inductive, PTL

\* A leader whose timers do not run is about to start them: no interleaving of
\* restores, drains and changes of leadership leaves it without.
THEOREM LeadersServed == Spec => []LeaderIsServed
<1>1. IInv => LeaderIsServed
  BY DEF IInv
<1> QED BY <1>1, Inductive, PTL

\* The store closes under no timer and no backup, although a sweep that began
\* before the drain starts both timers after it.
THEOREM ClosesQuiet == Spec => []ClosedIsQuiet
<1>1. IInv => ClosedIsQuiet
  BY DEF IInv, StoppingOK, Running, ClosedIsQuiet
<1> QED BY <1>1, Inductive, PTL
=============================================================================
