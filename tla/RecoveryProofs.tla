--------------------------- MODULE RecoveryProofs ---------------------------
(* Proofs about Recovery, for any number of controllers, mutations, backups  *)
(* and restores, and any retention.  The argument: an answer stays an        *)
(* answer, a settled call stays as it is and a rejected event stays rejected *)
(* (Lasting), so what a call has noted stays true while it waits; the rest is   *)
(* what each action does to the call, the chain or the trail it moves.       *)
EXTENDS Recovery, QueueFacts, FiniteSetTheorems, TLAPS

-----------------------------------------------------------------------------
(* What steps have in common.                                                *)

Late == {"sealing", "importing", "done", "failed"}

\* What no step takes back.
Lasting ==
    /\ UNCHANGED <<mode, serving>>
    /\ Answered \subseteq Answered' /\ rejected \subseteq rejected'
    /\ \A k \in Calls : call[k].pc = "done" => call'[k] = call[k]
    /\ \A k \in Calls : call[k].pc \in Late =>
          call'[k].pc \in Late /\ call'[k].at \in {call[k].at, NoReplica}
    /\ \A w \in Writes : write[w].pc # "new" =>
          write'[w].at = write[w].at /\ write'[w].pc # "new"

LineOK == PlacedOK /\ \A r \in Replicas : QueueOK(r) /\ GateOK(r)

StoreOK ==
    /\ SnapshotOK([records |-> records, auditEvents |-> audit])
    /\ \A k \in Directory : SnapshotOK(archives[k])

OfCall(k) ==
    /\ CallOK(k) /\ FlushOK(k) /\ InFlightOK(k)
    /\ SnapshotOK(call[k].snapshot) /\ SnapshotOK(call[k].exported)

LEMMA IInvParts ==
    IInv <=> /\ TypeOK /\ LineOK /\ StoreOK /\ CreatedOK
             /\ \A r \in Replicas : LockOK(r) /\ TrailOK(r)
             /\ \A k \in Calls : OfCall(k)
BY DEF IInv, LineOK, StoreOK, OfCall, ContentOK

LEMMA CallTypes ==
    ASSUME TypeOK, NEW k \in Calls
    PROVE  /\ call \in [Calls -> CallState] /\ call[k] \in CallState
           /\ call[k].op \in {"backup", "scheduled", "restore"}
           /\ call[k].at \in Replicas \union {NoReplica} /\ call[k].pc \in Pcs
           /\ call[k].target \in Calls \union {NoCall}
           /\ call[k].snapshot \in Snapshot /\ call[k].exported \in Snapshot
           /\ call[k].awaits \in Requests \union {Genesis}
           /\ call[k].owed \subseteq Requests /\ call[k].inflight \subseteq Writes
BY DEF TypeOK, CallState

LEMMA NewCallType ==
    /\ NewCall \in CallState /\ NewCall.owed = {}
    /\ NewCall.snapshot = NoSnapshot /\ NewCall.exported = NoSnapshot
BY DEF NewCall, CallState, Pcs, NoSnapshot, Snapshot

LEMMA SettledType ==
    ASSUME NEW state \in CallState, NEW ok \in BOOLEAN
    PROVE  /\ Settled(state, ok) \in CallState
           /\ Settled(state, ok).pc = IF ok THEN "done" ELSE "failed"
           /\ Settled(state, ok).at = IF ok THEN state.at ELSE NoReplica
           /\ Settled(state, ok).op = IF ok THEN state.op ELSE "backup"
           /\ Settled(state, ok).owed = {} /\ Settled(state, ok).snapshot = NoSnapshot
           /\ Settled(state, ok).exported = NoSnapshot
BY NewCallType DEF Settled, CallState, NewCall, Pcs

\* The call that runs is the first of its replica, and the only one past waiting.
LEMMA RunningFacts ==
    ASSUME TypeOK, LineOK, NEW k \in Calls, NEW pc \in Underway, Running(k, pc)
    PROVE  /\ call[k].at \in Replicas /\ call[k].at \in serving
           /\ pending[call[k].at] \in Seq(Calls) /\ pending[call[k].at] # <<>>
           /\ Head(pending[call[k].at]) = k /\ pending[call[k].at][1] = k
           /\ \A j \in Calls : call[j].at = call[k].at /\ call[j].pc \in Underway \ {"waiting"} => j = k
           /\ call[k].op = "restore" => restoring[call[k].at]
<1> DEFINE r == call[k].at
<1>1. call[k].pc = pc /\ pending[r] # <<>> /\ Head(pending[r]) = k
  BY DEF Running
<1>2. r \in serving /\ r \in Replicas
  BY <1>1 DEF LineOK, PlacedOK, TypeOK
<1>3. pending[r] \in Seq(Calls)
  BY <1>2 DEF TypeOK
<1>4. pending[r][1] = k
  BY <1>1, <1>3, TailFacts
<1>5. ASSUME NEW j \in Calls, call[j].at = r, call[j].pc \in Underway \ {"waiting"} PROVE j = k
  BY <1>2, <1>4, <1>5 DEF LineOK, QueueOK
<1>6. call[k].op = "restore" => restoring[r]
  BY <1>1, <1>2 DEF LineOK, GateOK, Restores
<1> QED BY <1>1, <1>2, <1>3, <1>4, <1>5, <1>6

-----------------------------------------------------------------------------
(* The chain of calls and the gate.                                          *)

LEMMA LineStays ==
    ASSUME LineOK, UNCHANGED <<mode, serving, call, pending, restoring>>
    PROVE  LineOK'
BY DEF LineOK, PlacedOK, QueueOK, GateOK, Restores

\* The running call goes on.
LEMMA LineProgress ==
    ASSUME LineOK, NEW k \in Calls, UNCHANGED <<mode, serving, pending, restoring>>,
           \A j \in Calls : j # k => call'[j] = call[j],
           call[k].pc \in Underway, call'[k].pc \in Underway,
           call'[k].at = call[k].at, call'[k].op = call[k].op,
           TypeOK, pending[call[k].at] # <<>>, Head(pending[call[k].at]) = k
    PROVE  LineOK'
<1> DEFINE r == call[k].at
<1>1. r \in serving /\ r \in Replicas
  BY DEF LineOK, PlacedOK, TypeOK
<1>2. pending \in [Replicas -> Seq(Calls)]
  BY DEF TypeOK
<1>3. pending[r][1] = k /\ 1 \in DOMAIN pending[r]
  BY <1>1, <1>2, TailFacts
<1>4. PlacedOK'
  BY DEF LineOK, PlacedOK
<1>5. ASSUME NEW q \in Replicas PROVE QueueOK(q)'
  <2>1. \A i \in DOMAIN pending[q] : pending[q][i] \in Calls
    BY <1>2
  <2> QED BY <1>1, <1>3, <2>1 DEF LineOK, QueueOK
<1>6. ASSUME NEW q \in Replicas PROVE GateOK(q)'
  <2>1. \A j \in Calls : Restores(j, q)' <=> Restores(j, q)
    BY DEF Restores
  <2>2. (restoring[q])' = restoring[q]
    OBVIOUS
  <2> QED BY <2>1, <2>2 DEF LineOK, GateOK
<1> QED BY <1>4, <1>5, <1>6 DEF LineOK

\* A call that is not in the chain moves outside of it.
LEMMA LineAside ==
    ASSUME LineOK, TypeOK, NEW k \in Calls, UNCHANGED <<mode, serving, pending, restoring>>,
           \A j \in Calls : j # k => call'[j] = call[j],
           call[k].pc \notin Underway, call'[k].pc \notin Underway,
           call'[k].pc = "admitted" => call'[k].at \in serving
    PROVE  LineOK'
<1>1. PlacedOK'
  BY DEF LineOK, PlacedOK
<1>2. ASSUME NEW q \in Replicas PROVE QueueOK(q)'
  <2>1. \A i \in DOMAIN pending[q] : pending[q][i] \in Calls /\ pending[q][i] # k
    BY DEF LineOK, QueueOK, TypeOK
  <2> QED BY <2>1 DEF LineOK, QueueOK
<1>3. ASSUME NEW q \in Replicas PROVE GateOK(q)'
  <2>1. \A j \in Calls : Restores(j, q)' <=> Restores(j, q)
    BY DEF Restores
  <2>2. (restoring[q])' = restoring[q]
    OBVIOUS
  <2> QED BY <2>1, <2>2 DEF LineOK, GateOK
<1> QED BY <1>1, <1>2, <1>3 DEF LineOK

\* A call joins the chain of its replica, behind the others.
LEMMA LineJoin ==
    ASSUME LineOK, TypeOK, NEW k \in Calls, NEW r \in serving, UNCHANGED <<mode, serving>>,
           \A j \in Calls : j # k => call'[j] = call[j],
           call[k].pc \notin Underway, call'[k].pc = "waiting", call'[k].at = r,
           call'[k].op = "restore" => ~restoring[r],
           pending' = [pending EXCEPT ![r] = Append(@, k)],
           restoring' = [restoring EXCEPT ![r] = @ \/ call'[k].op = "restore"]
    PROVE  LineOK'
<1>1. r \in Replicas /\ pending \in [Replicas -> Seq(Calls)] /\ restoring \in [Replicas -> BOOLEAN]
  BY DEF TypeOK
<1>2. /\ DOMAIN pending'[r] = 1..(Len(pending[r]) + 1) /\ DOMAIN pending[r] = 1..Len(pending[r])
      /\ \A i \in DOMAIN pending[r] : pending'[r][i] = pending[r][i]
      /\ pending'[r][Len(pending[r]) + 1] = k /\ Len(pending[r]) \in Nat
      /\ \A q \in Replicas : q # r => pending'[q] = pending[q]
  BY <1>1, AppendFacts
<1>3. PlacedOK'
  BY DEF LineOK, PlacedOK, Underway
<1>4. ASSUME NEW q \in Replicas
      PROVE  \A i \in DOMAIN pending[q] : pending[q][i] \in Calls \ {k}
  BY <1>1 DEF LineOK, QueueOK
<1>5. ASSUME NEW q \in Replicas, q # r PROVE QueueOK(q)'
  BY <1>2, <1>4, <1>5 DEF LineOK, QueueOK
<1>6. QueueOK(r)'
  <2> DEFINE n == Len(pending[r]) + 1
  <2>1. \A i \in DOMAIN pending'[r] : i = n \/ (i # n /\ i \in DOMAIN pending[r])
    BY <1>2
  <2>2. ASSUME NEW i \in DOMAIN pending'[r]
        PROVE  /\ call'[pending'[r][i]].at = r /\ call'[pending'[r][i]].pc \in Underway
               /\ i # 1 => call'[pending'[r][i]].pc = "waiting"
    <3>1. CASE i = n
      BY <1>2, <3>1 DEF Underway
    <3>2. CASE i \in DOMAIN pending[r]
      <4>1. pending'[r][i] = pending[r][i] /\ call'[pending[r][i]] = call[pending[r][i]]
        BY <1>1, <1>2, <1>4, <3>2
      <4> QED BY <1>1, <3>2, <4>1 DEF LineOK, QueueOK
    <3> QED BY <2>1, <3>1, <3>2
  <2>3. ASSUME NEW i \in DOMAIN pending'[r], NEW j \in DOMAIN pending'[r],
               pending'[r][i] = pending'[r][j]
        PROVE  i = j
    <3>1. QueueOK(r) /\ n \notin DOMAIN pending[r]
      BY <1>1, <1>2 DEF LineOK
    <3>2. CASE i \in DOMAIN pending[r] /\ j \in DOMAIN pending[r]
      BY <1>2, <2>3, <3>1, <3>2 DEF QueueOK
    <3>3. CASE i = n \/ j = n
      BY <1>1, <1>2, <1>4, <2>1, <2>3, <3>3
    <3> QED BY <2>1, <3>2, <3>3
  <2>4. ASSUME NEW j \in Calls, call'[j].at = r, call'[j].pc \in Underway
        PROVE  \E i \in DOMAIN pending'[r] : pending'[r][i] = j
    <3>1. CASE j = k
      BY <1>2, <3>1
    <3>2. CASE j # k
      <4>1. PICK i \in DOMAIN pending[r] : pending[r][i] = j
        BY <1>1, <2>4, <3>2 DEF LineOK, QueueOK
      <4> QED BY <1>2, <4>1
    <3> QED BY <3>1, <3>2
  <2>5. (DOMAIN pending[r])' = DOMAIN pending'[r]
    OBVIOUS
  <2> QED BY <1>1, <2>2, <2>3, <2>4, <2>5 DEF QueueOK
<1>7. ASSUME NEW q \in Replicas PROVE GateOK(q)'
  <2>1. \A j \in Calls \ {k} : Restores(j, q)' <=> Restores(j, q)
    BY DEF Restores
  <2>2. ~Restores(k, q) /\ (Restores(k, q)' <=> q = r /\ call'[k].op = "restore")
    BY DEF Restores, Underway
  <2>3. restoring'[q] = IF q = r THEN restoring[r] \/ call'[k].op = "restore" ELSE restoring[q]
    BY <1>1
  <2> QED BY <1>1, <2>1, <2>2, <2>3 DEF LineOK, GateOK
<1> QED BY <1>3, <1>5, <1>6, <1>7 DEF LineOK

\* The running call settles; the next one becomes the first.
LEMMA LineLeave ==
    ASSUME LineOK, TypeOK, NEW k \in Calls, NEW pc \in Underway, Running(k, pc),
           UNCHANGED <<mode, serving>>,
           \A j \in Calls : j # k => call'[j] = call[j],
           call'[k].pc \in {"done", "failed"},
           pending' = [pending EXCEPT ![call[k].at] = Tail(@)],
           restoring' = [restoring EXCEPT ![call[k].at] = @ /\ call[k].op # "restore"]
    PROVE  LineOK'
<1> DEFINE r == call[k].at
<1>1. r \in Replicas /\ pending \in [Replicas -> Seq(Calls)] /\ restoring \in [Replicas -> BOOLEAN]
  BY RunningFacts DEF TypeOK
<1>2. /\ pending[r] # <<>> /\ pending[r][1] = k /\ call[k].pc \in Underway /\ QueueOK(r)
  BY <1>1, RunningFacts DEF LineOK, Running
<1>3. /\ DOMAIN pending'[r] = 1..(Len(pending[r]) - 1) /\ DOMAIN pending[r] = 1..Len(pending[r])
      /\ \A i \in 1..(Len(pending[r]) - 1) : pending'[r][i] = pending[r][i + 1]
      /\ Len(pending[r]) \in Nat \ {0}
      /\ \A q \in Replicas : q # r => pending'[q] = pending[q]
  BY <1>1, <1>2, TailFacts
<1>4. PlacedOK'
  BY DEF LineOK, PlacedOK, Underway
<1>5. ASSUME NEW q \in Replicas, q # r PROVE QueueOK(q)'
  <2>1. \A i \in DOMAIN pending[q] : pending[q][i] \in Calls \ {k}
    BY <1>1, <1>5 DEF LineOK, QueueOK
  <2> QED BY <1>3, <1>5, <2>1 DEF LineOK, QueueOK, Underway
<1>6. ASSUME NEW q \in Replicas, q = r PROVE QueueOK(q)'
  <2>1. ASSUME NEW i \in DOMAIN pending'[r]
        PROVE  /\ i + 1 \in DOMAIN pending[r] /\ i + 1 # 1 /\ pending'[r][i] = pending[r][i + 1]
               /\ pending[r][i + 1] \in Calls /\ pending[r][i + 1] # k
    <3>1. i + 1 \in DOMAIN pending[r] /\ i + 1 # 1 /\ pending'[r][i] = pending[r][i + 1]
      BY <1>3
    <3>2. 1 \in DOMAIN pending[r] /\ pending[r][i + 1] \in Calls
      BY <1>1, <1>3, <3>1
    <3> QED BY <1>2, <3>1, <3>2 DEF QueueOK
  <2>2. ASSUME NEW i \in DOMAIN pending'[r]
        PROVE  /\ call'[pending'[r][i]].at = r /\ call'[pending'[r][i]].pc = "waiting"
    BY <1>2, <2>1 DEF QueueOK
  <2>3. ASSUME NEW i \in DOMAIN pending'[r], NEW j \in DOMAIN pending'[r],
               pending'[r][i] = pending'[r][j]
        PROVE  i = j
    <3>1. i + 1 = j + 1
      BY <1>2, <2>1, <2>3 DEF QueueOK
    <3> QED BY <1>3, <3>1
  <2>4. ASSUME NEW j \in Calls, call'[j].at = r, call'[j].pc \in Underway
        PROVE  \E i \in DOMAIN pending'[r] : pending'[r][i] = j
    <3>1. j # k /\ call[j].at = r /\ call[j].pc \in Underway
      BY <2>4 DEF Underway
    <3>2. PICK i \in DOMAIN pending[r] : pending[r][i] = j
      BY <1>2, <3>1 DEF QueueOK
    <3>3. i # 1 /\ i - 1 \in 1..(Len(pending[r]) - 1) /\ (i - 1) + 1 = i
      BY <1>2, <1>3, <3>1, <3>2
    <3> QED BY <1>3, <3>2, <3>3
  <2> QED BY <1>6, <2>2, <2>3, <2>4 DEF QueueOK, Underway
<1>7. ASSUME NEW q \in Replicas PROVE GateOK(q)'
  <2>1. \A j \in Calls \ {k} : Restores(j, q)' <=> Restores(j, q)
    BY DEF Restores
  <2>2. ~Restores(k, q)' /\ (Restores(k, q) <=> q = r /\ call[k].op = "restore")
    BY <1>2 DEF Restores, Underway
  <2>3. restoring'[q] = IF q = r THEN restoring[r] /\ call[k].op # "restore" ELSE restoring[q]
    BY <1>1
  <2> QED BY <1>1, <2>1, <2>2, <2>3 DEF LineOK, GateOK
<1> QED BY <1>4, <1>5, <1>6, <1>7 DEF LineOK

\* A replica restarts: nothing is underway there any more.
LEMMA LineForget ==
    ASSUME LineOK, TypeOK, NEW r \in Replicas, Forget(r)
    PROVE  /\ LineOK' /\ call' \in [Calls -> CallState]
           /\ \A k \in Calls : call'[k] = call[k] \/ (call[k].at = r /\ call[k].pc # "done"
                                                     /\ call'[k] = Settled(call[k], FALSE))
           /\ \A k \in Calls : call'[k].at = r => call'[k].pc = "done" /\ call'[k] = call[k]
<1>1. /\ call' = [k \in Calls |-> IF call[k].at = r /\ call[k].pc # "done"
                                  THEN Settled(call[k], FALSE) ELSE call[k]]
      /\ pending' = [pending EXCEPT ![r] = <<>>]
      /\ restoring' = [restoring EXCEPT ![r] = FALSE]
      /\ UNCHANGED <<mode, serving>>
  BY DEF Forget
<1>2. /\ pending \in [Replicas -> Seq(Calls)] /\ restoring \in [Replicas -> BOOLEAN]
      /\ \A k \in Calls : call[k] \in CallState
  BY DEF TypeOK
<1>3. call' \in [Calls -> CallState]
  BY <1>1, <1>2, SettledType
<1>4. ASSUME NEW k \in Calls
      PROVE  \/ call'[k] = call[k] /\ (call[k].at = r => call[k].pc = "done")
             \/ /\ call[k].at = r /\ call[k].pc # "done" /\ call'[k] = Settled(call[k], FALSE)
                /\ call'[k].pc = "failed" /\ call'[k].at = NoReplica
  BY <1>1, <1>2, SettledType
<1>5. NoReplica # r
  BY RecoveryAssumption
<1>6. PlacedOK'
  BY <1>1, <1>4 DEF LineOK, PlacedOK, Underway
<1>7. QueueOK(r)' /\ GateOK(r)'
  <2>1. pending'[r] = <<>> /\ DOMAIN pending'[r] = {} /\ ~restoring'[r]
    BY <1>1, <1>2
  <2>2. \A j \in Calls : call'[j].at = r => call'[j].pc \notin Underway
    BY <1>4, <1>5 DEF Underway
  <2> QED BY <2>1, <2>2 DEF QueueOK, GateOK, Restores
<1>8. ASSUME NEW q \in Replicas, q # r PROVE QueueOK(q)'
  <2>1. pending'[q] = pending[q]
    BY <1>1, <1>2, <1>8
  <2>2. \A i \in DOMAIN pending[q] : pending[q][i] \in Calls /\ call[pending[q][i]].at = q
    BY <1>2 DEF LineOK, QueueOK
  <2>3. \A j \in Calls : call[j].at = q => call'[j] = call[j]
    BY <1>4, <1>8
  <2>4. \A j \in Calls : call'[j].at = q => call'[j] = call[j]
    BY <1>4, RecoveryAssumption
  <2> QED BY <2>1, <2>2, <2>3, <2>4 DEF LineOK, QueueOK
<1>9. ASSUME NEW q \in Replicas, q # r PROVE GateOK(q)'
  <2>1. restoring'[q] = restoring[q]
    BY <1>1, <1>2, <1>9
  <2>2. ASSUME NEW j \in Calls PROVE Restores(j, q)' <=> Restores(j, q)
    <3>1. CASE call'[j] = call[j]
      BY <3>1 DEF Restores
    <3>2. CASE call[j].at = r /\ call'[j].at = NoReplica
      BY <1>9, <3>2, RecoveryAssumption DEF Restores
    <3> QED BY <1>4, <3>1, <3>2
  <2> QED BY <2>1, <2>2 DEF LineOK, GateOK
<1> QED BY <1>3, <1>4, <1>5, <1>6, <1>7, <1>8, <1>9 DEF LineOK

-----------------------------------------------------------------------------
(* What does not move keeps its part of the invariant.                       *)

LEMMA Assemble ==
    ASSUME TypeOK', LineOK', StoreOK', CreatedOK',
           \A r \in Replicas : LockOK(r)' /\ TrailOK(r)', \A k \in Calls : OfCall(k)'
    PROVE  IInv'
BY DEF IInv, LineOK, StoreOK, OfCall, ContentOK

LEMMA ElsewhereKeeps ==
    ASSUME Lasting, NEW k \in Calls, call'[k].at = call[k].at, RestoredElsewhere(k)
    PROVE  RestoredElsewhere(k)'
BY DEF Lasting, RestoredElsewhere

LEMMA SnapshotKeeps ==
    ASSUME Lasting, NEW CONSTANT snapshot, SnapshotOK(snapshot)
    PROVE  SnapshotOK(snapshot)'
BY DEF Lasting, SnapshotOK, VerifyEvents

LEMMA StoreStays ==
    ASSUME StoreOK, Lasting, UNCHANGED <<records, audit, archives>>
    PROVE  StoreOK'
BY DEF StoreOK, Lasting, SnapshotOK, VerifyEvents, Directory

LEMMA CreatedStays ==
    ASSUME CreatedOK, Lasting, TypeOK, UNCHANGED <<created, archives>>,
           \A k \in Calls : call'[k].pc \in {"sealing", "importing"} => call'[k] = call[k],
           \A k \in Calls : call[k].pc \in Underway => call[k].at # NoReplica
    PROVE  CreatedOK'
<1>1. \A i \in DOMAIN created : created[i] \in Calls /\ call[created[i]].pc \in Late
  BY DEF CreatedOK, Late, TypeOK
<1>2. \A i \in DOMAIN created : call'[created[i]].pc \in Late
  BY <1>1 DEF Lasting
<1>3. \A k \in Calls : Newer(k)' = Newer(k)
  BY DEF Newer
<1>4. ASSUME NEW k \in Calls, call'[k].pc \in {"sealing", "importing"}, NEW j \in Newer(k)
      PROVE  call'[j].at # call'[k].at
  <2>1. j \in Calls /\ call[j].pc \in Late
    BY <1>1, <1>4 DEF Newer
  <2>2. call'[k] = call[k] /\ call[j].at # call[k].at /\ call[k].at # NoReplica
    BY <1>4 DEF CreatedOK, Underway
  <2> QED BY <2>1, <2>2 DEF Lasting
<1>5. ASSUME NEW k \in Calls, call'[k].pc = "importing"
      PROVE  k \in Directory' \/ Cardinality(Newer(k)') >= Retention
  BY <1>3, <1>5 DEF CreatedOK, Directory
<1> QED BY <1>2, <1>3, <1>4, <1>5 DEF CreatedOK, Late

LEMMA TrailStays ==
    ASSUME NEW r \in Replicas, LockOK(r), TrailOK(r), Lasting,
           UNCHANGED <<trail, lastEvent, reader>>, audit' = audit \/ ~Locked
    PROVE  LockOK(r)' /\ TrailOK(r)'
BY DEF Locked, LockOK, TrailOK, Lasting, HeadOfChain

\* How the events of one replica move: not, by the answer of a request that had
\* none yet, or because the oldest one was appended or rejected.
TrailMove(r) ==
    \/ trail'[r] = trail[r]
    \/ \E e \in Requests \ Answered : trail'[r] = Append(trail[r], e)
    \/ /\ trail[r] # <<>> /\ trail'[r] = Tail(trail[r])
       /\ Head(trail[r]) \in rejected' \union EventsOf(audit')

\* A call that does not move, whatever happens around it.
LEMMA CallKeeps ==
    ASSUME IInv, Lasting, NEW k \in Calls, call'[k] = call[k],
           call[k].pc = "flushing" => TrailMove(call[k].at),
           call[k].pc \in {"flushing", "sealing", "importing"} =>
              \/ RestoredElsewhere(k)'
              \/ /\ EventsOf(audit) \subseteq EventsOf(audit')
                 /\ \A w \in records' \ records : write[w].pc = "admitted",
           \A w \in Writes : write'[w].pc = "admitted" =>
              write'[w] = write[w] \/ ~restoring[write'[w].at],
           records' \subseteq Writes
    PROVE  OfCall(k)'
<1> DEFINE r == call[k].at
<1>0. TypeOK /\ LineOK /\ StoreOK /\ OfCall(k)
  BY IInvParts
<1>1. CallOK(k)' /\ SnapshotOK(call[k].snapshot)' /\ SnapshotOK(call[k].exported)'
  BY <1>0 DEF OfCall, CallOK, Lasting, SnapshotOK, VerifyEvents
<1>2. RestoredElsewhere(k) => RestoredElsewhere(k)'
  BY ElsewhereKeeps
<1>3. ASSUME call[k].pc = "flushing" PROVE r \in Replicas /\ trail[r] \in Seq(Requests)
  BY <1>0, <1>3 DEF TypeOK, LineOK, PlacedOK, Underway
<1>4. ASSUME call[k].pc = "flushing", NEW e \in call[k].owed
      PROVE  \/ e \in ToSet(trail'[r]) \/ e \in EventsOf(audit')
             \/ e \in rejected' \/ RestoredElsewhere(k)'
  <2>1. \/ e \in ToSet(trail[r]) \/ e \in EventsOf(audit')
        \/ e \in rejected' \/ RestoredElsewhere(k)'
    BY <1>0, <1>2, <1>4 DEF OfCall, FlushOK, Lasting
  <2>2. CASE trail'[r] = trail[r]
    BY <2>1, <2>2
  <2>3. CASE \E f \in Requests : trail'[r] = Append(trail[r], f)
    BY <1>3, <1>4, <2>1, <2>3, AppendSet
  <2>4. CASE /\ trail[r] # <<>> /\ trail'[r] = Tail(trail[r])
             /\ Head(trail[r]) \in rejected' \union EventsOf(audit')
    BY <1>3, <1>4, <2>1, <2>4, TailSet
  <2> QED BY <1>4, <2>2, <2>3, <2>4 DEF TrailMove
<1>5. ASSUME call[k].pc = "flushing", NEW i \in DOMAIN trail'[r], trail'[r][i] \in call[k].owed
      PROVE  \E j \in DOMAIN trail'[r] : i =< j /\ trail'[r][j] = call[k].awaits
  <2>1. ASSUME NEW n \in DOMAIN trail[r], trail[r][n] \in call[k].owed
        PROVE  \E j \in DOMAIN trail[r] : n =< j /\ trail[r][j] = call[k].awaits
    BY <1>0, <1>5, <2>1 DEF OfCall, FlushOK
  <2>2. CASE trail'[r] = trail[r]
    BY <1>5, <2>1, <2>2
  <2>3. ASSUME NEW f \in Requests \ Answered, trail'[r] = Append(trail[r], f)
        PROVE  \E j \in DOMAIN trail'[r] : i =< j /\ trail'[r][j] = call[k].awaits
    <3>1. /\ DOMAIN trail[r] = 1..Len(trail[r]) /\ DOMAIN trail'[r] = 1..(Len(trail[r]) + 1)
          /\ \A n \in DOMAIN trail[r] : trail'[r][n] = trail[r][n]
          /\ trail'[r][Len(trail[r]) + 1] = f /\ Len(trail[r]) \in Nat
      BY <1>3, <1>5, <2>3, AppendFacts
    <3>2. f \notin call[k].owed
      BY <1>0, <2>3 DEF OfCall, CallOK
    <3>3. i \in DOMAIN trail[r]
      BY <1>5, <3>1, <3>2
    <3> QED BY <1>5, <2>1, <3>1, <3>3
  <2>4. CASE trail[r] # <<>> /\ trail'[r] = Tail(trail[r])
    <3>1. /\ DOMAIN trail[r] = 1..Len(trail[r]) /\ DOMAIN trail'[r] = 1..(Len(trail[r]) - 1)
          /\ \A n \in 1..(Len(trail[r]) - 1) : trail'[r][n] = trail[r][n + 1]
          /\ Len(trail[r]) \in Nat
      BY <1>3, <1>5, <2>4, TailFacts
    <3>2. i + 1 \in DOMAIN trail[r] /\ trail[r][i + 1] \in call[k].owed
      BY <1>5, <3>1
    <3>3. PICK j \in DOMAIN trail[r] : i + 1 =< j /\ trail[r][j] = call[k].awaits
      BY <2>1, <3>2
    <3>4. j - 1 \in 1..(Len(trail[r]) - 1) /\ i =< j - 1 /\ (j - 1) + 1 = j
      BY <1>5, <3>1, <3>3
    <3> QED BY <3>1, <3>3, <3>4
  <2> QED BY <1>5, <2>2, <2>3, <2>4 DEF TrailMove
<1>6. FlushOK(k)'
  <2>1. ASSUME call[k].pc \in {"sealing", "importing"}, NEW e \in call[k].owed
        PROVE  \/ e \in EventsOf(call[k].exported.auditEvents)
               \/ e \in rejected' \/ RestoredElsewhere(k)'
    BY <1>0, <1>2, <2>1 DEF OfCall, FlushOK, Lasting
  <2> QED BY <1>4, <1>5, <2>1 DEF FlushOK, EventsOf
<1>7. InFlightOK(k)'
  <2>1. ASSUME call[k].op = "restore", call[k].pc \in Underway, NEW w \in Writes,
               write'[w] = [at |-> r, pc |-> "admitted"]
        PROVE  w \in call[k].inflight
    <3>1. restoring[r]
      BY <1>0, <2>1 DEF LineOK, PlacedOK, GateOK, Restores, TypeOK
    <3> QED BY <1>0, <2>1, <3>1 DEF OfCall, InFlightOK
  <2>2. ASSUME call[k].op = "restore", call[k].pc \in {"sealing", "importing"},
               NEW w \in records' \ call[k].exported.records
        PROVE  \/ write'[w].at # r \/ w \in call[k].inflight \/ RestoredElsewhere(k)'
    <3>0. w \in Writes /\ call[k].pc \in Underway
      BY <2>2 DEF Underway
    <3>1. CASE w \in records
      <4>1. write[w].pc = "done"
        BY <1>0, <3>0, <3>1, RecoveryAssumption DEF StoreOK, SnapshotOK, Answered
      <4>2. write'[w].at = write[w].at
        BY <3>0, <4>1 DEF Lasting
      <4> QED BY <1>0, <1>2, <2>2, <3>0, <3>1, <4>2 DEF OfCall, InFlightOK
    <3>2. CASE w \notin records
      <4>1. RestoredElsewhere(k)' \/ write[w].pc = "admitted"
        BY <2>2, <3>2
      <4>2. CASE write[w].pc = "admitted"
        <5>1. write'[w].at = write[w].at
          BY <3>0, <4>2 DEF Lasting
        <5>2. write[w].at = r => write[w] = [at |-> r, pc |-> "admitted"]
          BY <1>0, <3>0, <4>2 DEF TypeOK
        <5> QED BY <1>0, <2>2, <3>0, <5>1, <5>2 DEF OfCall, InFlightOK
      <4> QED BY <4>1, <4>2
    <3> QED BY <3>1, <3>2
  <2> QED BY <2>1, <2>2 DEF InFlightOK
<1> QED BY <1>1, <1>6, <1>7 DEF OfCall

-----------------------------------------------------------------------------
(* The audit trail and the mutations.                                        *)

LEMMA ChainFacts ==
    ASSUME IInv, Lasting, NEW r \in Replicas \union {NoReplica}, NEW e \in Requests, Chain(r, e),
           e \notin Answered, e \in Answered', UNCHANGED reader, audit' = audit \/ ~Locked
    PROVE  /\ trail' \in [Replicas -> Seq(Requests)]
           /\ lastEvent' \in [Replicas -> Requests \union {Genesis}]
           /\ rejected' = rejected
           /\ \A q \in Replicas : TrailMove(q) /\ LockOK(q)' /\ TrailOK(q)'
<1>1. /\ trail' = [trail EXCEPT ![r] = Append(@, e)]
      /\ lastEvent' = [lastEvent EXCEPT ![r] = e] /\ rejected' = rejected
  BY DEF Chain
<1>2. /\ trail \in [Replicas -> Seq(Requests)]
      /\ lastEvent \in [Replicas -> Requests \union {Genesis}]
  BY DEF IInv, TypeOK
<1>3. /\ trail' \in [Replicas -> Seq(Requests)]
      /\ lastEvent' \in [Replicas -> Requests \union {Genesis}]
  BY <1>1, <1>2, AppendFacts
<1>4. ASSUME NEW q \in Replicas PROVE TrailMove(q) /\ LockOK(q)' /\ TrailOK(q)'
  <2>1. LockOK(q) /\ TrailOK(q)
    BY DEF IInv
  <2>2. CASE q # r
    <3>1. trail'[q] = trail[q] /\ lastEvent'[q] = lastEvent[q]
      BY <1>1, <1>2, <2>2
    <3> QED BY <2>1, <3>1 DEF TrailMove, LockOK, TrailOK, Lasting, HeadOfChain, Locked
  <2>3. CASE q = r
    <3>1. trail'[q] = Append(trail[q], e) /\ lastEvent'[q] = e /\ trail[q] \in Seq(Requests)
      BY <1>1, <1>2, <2>3
    <3>2. trail'[q] # <<>> /\ ToSet(trail'[q]) = ToSet(trail[q]) \union {e} /\ Last(trail'[q]) = e
      BY <3>1, AppendFacts, AppendSet
    <3>3. TrailMove(q)
      BY <3>1 DEF TrailMove
    <3>4. TrailOK(q)'
      BY <2>1, <3>1, <3>2 DEF TrailOK, Lasting
    <3>5. LockOK(q)'
      BY <2>1, <3>2 DEF LockOK, HeadOfChain, Locked
    <3> QED BY <3>3, <3>4, <3>5
  <2> QED BY <2>2, <2>3
<1> QED BY <1>1, <1>3, <1>4

\* Nothing but the audit chain or the trails move.
LEMMA TrailStep ==
    ASSUME IInv, Lasting, UNCHANGED <<mode, serving, records, created, archives, write, call,
                                      serviceVars>>,
           TypeOK', VerifyEvents(audit'),
           EventsOf(audit) \subseteq EventsOf(audit'),
           \A q \in Replicas : TrailMove(q) /\ LockOK(q)' /\ TrailOK(q)'
    PROVE  IInv'
<1>1. LineOK'
  BY IInvParts, LineStays DEF serviceVars
<1>2. CreatedOK'
  BY CreatedStays, RecoveryAssumption DEF IInv, PlacedOK, TypeOK, Underway
<1>3. StoreOK'
  <2>1. records' = records /\ archives' = archives
    OBVIOUS
  <2>2. \A k \in Directory : SnapshotOK(archives[k])'
    BY IInvParts DEF StoreOK, SnapshotOK, VerifyEvents, Lasting
  <2>3. SnapshotOK([records |-> records, auditEvents |-> audit])'
    BY <2>1, IInvParts DEF StoreOK, SnapshotOK, Lasting
  <2> QED BY <2>1, <2>2, <2>3 DEF StoreOK, Directory
<1>4. ASSUME NEW k \in Calls PROVE OfCall(k)'
  <2>1. call[k].pc = "flushing" => call[k].at \in Replicas
    BY DEF IInv, PlacedOK, TypeOK, Underway
  <2> QED BY <2>1, CallKeeps DEF IInv, TypeOK
<1> QED BY <1>1, <1>2, <1>3, <1>4, Assemble

LEMMA AppendReadIInv == ASSUME IInv, NEW r \in Replicas, AppendRead(r) PROVE Lasting /\ IInv'
<1>1. /\ trail[r] # <<>> /\ \A q \in Replicas : ~reader[q].locked
      /\ reader' = [reader EXCEPT ![r] = [locked |-> TRUE, head |-> HeadOfChain]]
      /\ UNCHANGED <<mode, serving, records, audit, created, archives, write, call,
                     serviceVars, trailVars>>
  BY DEF AppendRead, Locked
<1>2. HeadOfChain \in Requests \union {Genesis}
  <2>1. audit \in Seq(Event)
    BY DEF IInv, TypeOK
  <2>2. audit # <<>> => Last(audit) \in Event
    BY <2>1, SetFacts
  <2> QED BY <2>2 DEF HeadOfChain, Event
<1>3. TypeOK'
  BY <1>1, <1>2 DEF IInv, TypeOK, serviceVars, trailVars, Directory
<1>4. Lasting
  BY <1>1 DEF Lasting, Answered, trailVars
<1>5. ASSUME NEW q \in Replicas PROVE TrailMove(q) /\ LockOK(q)' /\ TrailOK(q)'
  <2>1. reader'[q].locked => q = r /\ reader'[r].head = HeadOfChain
    BY <1>1 DEF IInv, TypeOK
  <2>2. \A p \in Replicas : reader'[p].locked => p = r
    BY <1>1 DEF IInv, TypeOK
  <2> QED BY <1>1, <1>4, <2>1, <2>2 DEF IInv, TrailMove, LockOK, TrailOK, trailVars, HeadOfChain, Lasting
<1>6. VerifyEvents(audit')
  BY <1>1, IInvParts DEF StoreOK, SnapshotOK
<1> QED BY <1>1, <1>3, <1>4, <1>5, <1>6, TrailStep

\* The oldest event of r leaves its trail, and r gives up the lock.
LEMMA PopFacts ==
    ASSUME IInv, Lasting, NEW r \in Replicas, reader[r].locked,
           Unlock(r), trail' = [trail EXCEPT ![r] = Tail(@)], lastEvent' = lastEvent,
           Head(trail[r]) \in rejected' \union EventsOf(audit')
    PROVE  /\ trail' \in [Replicas -> Seq(Requests)]
           /\ reader' \in [Replicas -> [locked: BOOLEAN, head: Requests \union {Genesis}]]
           /\ \A q \in Replicas : TrailMove(q) /\ LockOK(q)' /\ TrailOK(q)'
<1>1. /\ trail \in [Replicas -> Seq(Requests)]
      /\ reader \in [Replicas -> [locked: BOOLEAN, head: Requests \union {Genesis}]]
      /\ trail[r] # <<>> /\ \A q \in Replicas : reader[q].locked => q = r
  BY DEF IInv, TypeOK, LockOK
<1>2. trail' \in [Replicas -> Seq(Requests)]
  BY <1>1, TailFacts
<1>3. /\ reader' \in [Replicas -> [locked: BOOLEAN, head: Requests \union {Genesis}]]
      /\ \A q \in Replicas : ~reader'[q].locked
  BY <1>1 DEF Unlock, NotReading
<1>4. ASSUME NEW q \in Replicas PROVE TrailMove(q) /\ LockOK(q)' /\ TrailOK(q)'
  <2>1. LockOK(q)'
    BY <1>3 DEF LockOK
  <2>2. CASE q # r
    <3>1. trail'[q] = trail[q]
      BY <1>1, <2>2
    <3> QED BY <2>1, <3>1 DEF IInv, TrailMove, TrailOK, Lasting
  <2>3. CASE q = r
    <3>1. trail'[q] = Tail(trail[q]) /\ trail[q] \in Seq(Requests) /\ trail[q] # <<>>
      BY <1>1, <2>3
    <3>2. ToSet(trail'[q]) \subseteq ToSet(trail[q])
      BY <3>1, TailSet
    <3>3. trail'[q] # <<>> => Last(trail'[q]) = Last(trail[q])
      BY <3>1, TailSet
    <3>4. TrailOK(q)'
      BY <3>1, <3>2, <3>3 DEF IInv, TrailOK, Lasting
    <3> QED BY <2>1, <2>3, <3>1, <3>4 DEF TrailMove
  <2> QED BY <2>2, <2>3
<1> QED BY <1>2, <1>3, <1>4

LEMMA AppendCommitIInv == ASSUME IInv, NEW r \in Replicas, AppendCommit(r) PROVE Lasting /\ IInv'
<1> DEFINE event == [of |-> Head(trail[r]), previousHash |-> reader[r].head]
<1>1. /\ reader[r].locked /\ audit' = Append(audit, event) /\ Unlock(r)
      /\ trail' = [trail EXCEPT ![r] = Tail(@)]
      /\ UNCHANGED <<mode, serving, records, created, archives, write, call,
                     serviceVars, lastEvent, rejected>>
  BY DEF AppendCommit
<1>2. Lasting
  BY <1>1 DEF Lasting, Answered
<1>3. /\ trail[r] \in Seq(Requests) /\ trail[r] # <<>> /\ reader[r].head = HeadOfChain
      /\ reader[r].head \in Requests \union {Genesis}
  BY <1>1 DEF IInv, TypeOK, LockOK
<1>4. event \in Event /\ event.of = Head(trail[r]) /\ event.previousHash = HeadOfChain
  BY <1>3, TailFacts DEF Event
<1>5. /\ audit \in Seq(Event) /\ audit' \in Seq(Event)
      /\ DOMAIN audit = 1..Len(audit) /\ Len(audit') = Len(audit) + 1 /\ Len(audit) \in Nat
      /\ \A i \in 1..Len(audit) : audit'[i] = audit[i]
      /\ audit'[Len(audit) + 1] = event
      /\ ToSet(audit') = ToSet(audit) \union {event}
  <2>1. audit \in Seq(Event)
    BY DEF IInv, TypeOK
  <2>2. DOMAIN audit = 1..Len(audit)
    BY <2>1
  <2> QED BY <1>1, <1>4, <2>1, <2>2, AppendFacts, AppendSet
<1>6. EventsOf(audit) \subseteq EventsOf(audit') /\ Head(trail[r]) \in EventsOf(audit')
  BY <1>4, <1>5 DEF EventsOf
<1>7. VerifyEvents(audit')
  <2>1. VerifyEvents(audit)
    BY DEF IInv, ContentOK, SnapshotOK
  <2>2. ASSUME NEW i \in 2..Len(audit') PROVE audit'[i].previousHash = audit'[i - 1].of
    <3>1. CASE i = Len(audit) + 1
      <4>1. Len(audit) # 0 /\ i - 1 = Len(audit) /\ i - 1 \in 1..Len(audit)
        BY <1>5, <2>2, <3>1
      <4>2. audit # <<>> /\ HeadOfChain = audit[Len(audit)].of
        BY <1>5, <4>1 DEF HeadOfChain, Last
      <4> QED BY <1>4, <1>5, <3>1, <4>1, <4>2
    <3>2. CASE i # Len(audit) + 1
      <4>1. i \in 2..Len(audit) /\ i - 1 \in 1..Len(audit) /\ i \in 1..Len(audit)
        BY <1>5, <2>2, <3>2
      <4> QED BY <1>5, <2>1, <4>1 DEF VerifyEvents
    <3> QED BY <3>1, <3>2
  <2> QED BY <2>2 DEF VerifyEvents
<1>8. /\ trail' \in [Replicas -> Seq(Requests)]
      /\ reader' \in [Replicas -> [locked: BOOLEAN, head: Requests \union {Genesis}]]
      /\ \A q \in Replicas : TrailMove(q) /\ LockOK(q)' /\ TrailOK(q)'
  BY <1>1, <1>2, <1>6, PopFacts
<1>9. TypeOK'
  BY <1>1, <1>5, <1>8 DEF IInv, TypeOK, serviceVars, Directory
<1> QED BY <1>1, <1>2, <1>6, <1>7, <1>8, <1>9, TrailStep

LEMMA AppendFailIInv == ASSUME IInv, NEW r \in Replicas, AppendFail(r) PROVE Lasting /\ IInv'
<1>1. /\ reader[r].locked /\ Unlock(r) /\ rejected' = rejected \union {Head(trail[r])}
      /\ trail' = [trail EXCEPT ![r] = Tail(@)]
      /\ UNCHANGED <<mode, serving, records, audit, created, archives, write, call,
                     serviceVars, lastEvent>>
  BY DEF AppendFail
<1>2. Lasting
  BY <1>1 DEF Lasting, Answered
<1>3. Head(trail[r]) \in Requests
  BY <1>1, TailFacts DEF IInv, TypeOK, LockOK
<1>4. /\ trail' \in [Replicas -> Seq(Requests)]
      /\ reader' \in [Replicas -> [locked: BOOLEAN, head: Requests \union {Genesis}]]
      /\ \A q \in Replicas : TrailMove(q) /\ LockOK(q)' /\ TrailOK(q)'
  BY <1>1, <1>2, PopFacts
<1>5. TypeOK'
  BY <1>1, <1>3, <1>4 DEF IInv, TypeOK, serviceVars, Directory
<1>6. VerifyEvents(audit')
  BY <1>1, IInvParts DEF StoreOK, SnapshotOK
<1> QED BY <1>1, <1>2, <1>4, <1>5, <1>6, TrailStep

\* A mutation moves; it may write its record and may be answered.
LEMMA WriteStep ==
    ASSUME IInv, Lasting, UNCHANGED <<mode, serving, audit, created, archives, call, serviceVars>>,
           TypeOK', \A q \in Replicas : TrailMove(q) /\ LockOK(q)' /\ TrailOK(q)',
           records' \subseteq records \union Answered',
           \A w \in records' \ records : write[w].pc = "admitted",
           \A w \in Writes : write'[w].pc = "admitted" =>
              write'[w] = write[w] \/ ~restoring[write'[w].at]
    PROVE  IInv'
<1>1. LineOK'
  BY IInvParts, LineStays DEF serviceVars
<1>2. CreatedOK'
  BY CreatedStays, RecoveryAssumption DEF IInv, PlacedOK, TypeOK, Underway
<1>3. StoreOK'
  <2>1. SnapshotOK([records |-> records, auditEvents |-> audit])'
    BY IInvParts DEF StoreOK, SnapshotOK, VerifyEvents, Lasting
  <2>2. \A k \in Directory : SnapshotOK(archives[k])'
    BY IInvParts DEF StoreOK, SnapshotOK, VerifyEvents, Lasting
  <2> QED BY <2>1, <2>2 DEF StoreOK, Directory
<1>4. ASSUME NEW k \in Calls PROVE OfCall(k)'
  <2>1. call[k].pc = "flushing" => call[k].at \in Replicas
    BY DEF IInv, PlacedOK, TypeOK, Underway
  <2>2. records' \subseteq Writes
    BY DEF TypeOK
  <2> QED BY <2>1, <2>2, CallKeeps
<1> QED BY <1>1, <1>2, <1>3, <1>4, Assemble

LEMMA AdmitIInv ==
    ASSUME IInv, NEW w \in Writes, NEW r \in Replicas, Admit(w, r) PROVE Lasting /\ IInv'
<1>1. /\ write[w].pc = "new" /\ ~restoring[r]
      /\ write' = [write EXCEPT ![w] = [at |-> r, pc |-> "admitted"]]
      /\ UNCHANGED <<storeVars, call, serviceVars, trailVars>>
  BY DEF Admit
<1>2. /\ write' \in [Writes -> [at: Replicas \union {NoReplica}, pc: {"new", "admitted", "done"}]]
      /\ write'[w] = [at |-> r, pc |-> "admitted"]
      /\ \A v \in Writes : v # w => write'[v] = write[v]
  BY <1>1 DEF IInv, TypeOK
<1>3. Lasting
  BY <1>1, <1>2 DEF Lasting, Answered, storeVars, trailVars
<1>4. TypeOK'
  BY <1>1, <1>2 DEF IInv, TypeOK, storeVars, trailVars, serviceVars, Directory
<1>5. \A q \in Replicas : TrailMove(q) /\ LockOK(q)' /\ TrailOK(q)'
  BY <1>1, <1>3, TrailStays DEF IInv, TrailMove, storeVars, trailVars
<1> QED BY <1>1, <1>2, <1>3, <1>4, <1>5, WriteStep DEF storeVars

LEMMA RefuseIInv ==
    ASSUME IInv, NEW w \in Writes, NEW r \in Replicas, Refuse(w, r) PROVE Lasting /\ IInv'
<1>1. /\ write[w].pc = "new" /\ Chain(r, w)
      /\ write' = [write EXCEPT ![w] = [at |-> r, pc |-> "done"]]
      /\ UNCHANGED <<storeVars, call, serviceVars>>
  BY DEF Refuse
<1>2. /\ write' \in [Writes -> [at: Replicas \union {NoReplica}, pc: {"new", "admitted", "done"}]]
      /\ write'[w] = [at |-> r, pc |-> "done"]
      /\ \A v \in Writes : v # w => write'[v] = write[v]
  BY <1>1 DEF IInv, TypeOK
<1>3. Lasting
  BY <1>1, <1>2 DEF Lasting, Answered, storeVars, Chain
<1>4. w \notin Answered /\ w \in Answered' /\ w \in Requests
  BY <1>1, <1>2, RecoveryAssumption DEF Answered, Requests
<1>5. /\ trail' \in [Replicas -> Seq(Requests)]
      /\ lastEvent' \in [Replicas -> Requests \union {Genesis}]
      /\ rejected' = rejected
      /\ \A q \in Replicas : TrailMove(q) /\ LockOK(q)' /\ TrailOK(q)'
  BY <1>1, <1>3, <1>4, ChainFacts DEF storeVars
<1>6. TypeOK'
  BY <1>1, <1>2, <1>5 DEF IInv, TypeOK, storeVars, serviceVars, Directory
<1> QED BY <1>1, <1>2, <1>3, <1>5, <1>6, WriteStep DEF storeVars

LEMMA StoreIInv == ASSUME IInv, NEW w \in Writes, Store(w) PROVE Lasting /\ IInv'
<1>1. /\ write[w].pc = "admitted" /\ records' = records \union {w} /\ Chain(write[w].at, w)
      /\ write' = [write EXCEPT ![w].pc = "done"]
      /\ UNCHANGED <<mode, serving, audit, reader, created, archives, call, serviceVars>>
  BY DEF Store
<1>2. /\ write' \in [Writes -> [at: Replicas \union {NoReplica}, pc: {"new", "admitted", "done"}]]
      /\ write'[w].pc = "done" /\ write'[w].at = write[w].at
      /\ write[w].at \in Replicas \union {NoReplica}
      /\ \A v \in Writes : v # w => write'[v] = write[v]
  BY <1>1 DEF IInv, TypeOK
<1>3. Lasting
  BY <1>1, <1>2 DEF Lasting, Answered, Chain
<1>4. w \notin Answered /\ w \in Answered' /\ w \in Requests
  BY <1>1, <1>2, RecoveryAssumption DEF Answered, Requests
<1>5. /\ trail' \in [Replicas -> Seq(Requests)]
      /\ lastEvent' \in [Replicas -> Requests \union {Genesis}]
      /\ rejected' = rejected
      /\ \A q \in Replicas : TrailMove(q) /\ LockOK(q)' /\ TrailOK(q)'
  BY <1>1, <1>2, <1>3, <1>4, ChainFacts
<1>6. TypeOK'
  BY <1>1, <1>2, <1>5 DEF IInv, TypeOK, serviceVars, Directory
<1> QED BY <1>1, <1>2, <1>3, <1>4, <1>5, <1>6, WriteStep

-----------------------------------------------------------------------------
(* Backup and restore calls.                                                 *)

LEMMA CallUpdate ==
    ASSUME TypeOK, NEW k \in Calls, NEW c \in CallState, call' = [call EXCEPT ![k] = c]
    PROVE  /\ call' \in [Calls -> CallState] /\ call'[k] = c
           /\ \A j \in Calls : j # k => call'[j] = call[j]
BY DEF TypeOK

LEMMA LastingCall ==
    ASSUME TypeOK, NEW k \in Calls, UNCHANGED <<mode, serving, write, rejected>>,
           \A j \in Calls : j # k => call'[j] = call[j],
           call[k].pc \notin {"done", "failed"},
           call[k].pc \in Late => call'[k].pc \in Late /\ call'[k].at \in {call[k].at, NoReplica}
    PROVE  Lasting
BY DEF Lasting, Answered, Late

LEMMA NoSnapshotOK == SnapshotOK(NoSnapshot)
BY DEF SnapshotOK, NoSnapshot, VerifyEvents

\* A call moves, and neither the store nor the directory does.
LEMMA CallQuiet ==
    ASSUME IInv, Lasting, NEW k \in Calls, UNCHANGED <<storeVars, write>>,
           \A j \in Calls : j # k => call'[j] = call[j],
           call'[k].pc \notin {"sealing", "importing"}, TypeOK', LineOK',
           \A q \in Replicas : TrailMove(q) /\ LockOK(q)' /\ TrailOK(q)', OfCall(k)'
    PROVE  IInv'
<1>1. UNCHANGED <<mode, serving, records, audit, reader, created, archives>>
  BY DEF storeVars
<1>2. CreatedOK'
  <2>1. \A j \in Calls : call[j].pc \in Underway => call[j].at # NoReplica
    BY RecoveryAssumption DEF IInv, PlacedOK, TypeOK
  <2> QED BY <1>1, <2>1, CreatedStays DEF IInv
<1>3. StoreOK'
  BY <1>1, IInvParts, StoreStays
<1>4. ASSUME NEW j \in Calls, j # k PROVE OfCall(j)'
  <2>1. call[j].pc = "flushing" => call[j].at \in Replicas
    BY DEF IInv, PlacedOK, TypeOK, Underway
  <2>2. records' \subseteq Writes
    BY DEF TypeOK
  <2> QED BY <1>1, <1>4, <2>1, <2>2, CallKeeps
<1> QED BY <1>2, <1>3, <1>4, Assemble

\* The fields of a call in a stage that owes nothing to the store.
LEMMA OfCallPlain ==
    ASSUME Lasting, NEW k \in Calls, call'[k].pc \notin {"flushing", "sealing", "importing"},
           call'[k].pc \in {"verifying", "archiving"} => call'[k].op = "restore",
           call'[k].owed \subseteq Answered,
           SnapshotOK(call'[k].snapshot), SnapshotOK(call'[k].exported),
           call'[k].op = "restore" /\ call'[k].pc \in Underway =>
              \A w \in Writes : write'[w] = [at |-> call'[k].at, pc |-> "admitted"] =>
                 w \in call'[k].inflight
    PROVE  OfCall(k)'
BY DEF OfCall, CallOK, FlushOK, InFlightOK, SnapshotOK, VerifyEvents, Lasting

LEMMA RequestIInv ==
    ASSUME IInv, NEW k \in Calls, NEW op \in {"backup", "restore"}, NEW r \in Replicas,
           NEW target \in Calls \union {NoCall}, Request(k, op, r, target)
    PROVE  Lasting /\ IInv'
<1> DEFINE c == [NewCall EXCEPT !.op = op, !.at = r, !.target = target, !.pc = "admitted"]
<1>1. /\ call[k].pc = "new" /\ r \in serving /\ call' = [call EXCEPT ![k] = c]
      /\ UNCHANGED <<storeVars, write, serviceVars, trailVars>>
  BY DEF Request
<1>2. /\ c \in CallState /\ c.op = op /\ c.at = r /\ c.pc = "admitted" /\ c.owed = {}
      /\ c.snapshot = NoSnapshot /\ c.exported = NoSnapshot
  BY NewCallType DEF CallState, Pcs
<1>3. /\ call' \in [Calls -> CallState] /\ call'[k] = c
      /\ \A j \in Calls : j # k => call'[j] = call[j]
  BY <1>1, <1>2, CallUpdate DEF IInv
<1>4. Lasting
  BY <1>1, <1>3, LastingCall DEF IInv, storeVars, trailVars, Late
<1>5. LineOK'
  BY <1>1, <1>2, <1>3, LineAside, IInvParts DEF storeVars, serviceVars, Underway
<1>6. TypeOK'
  BY <1>1, <1>3, <1>5 DEF IInv, TypeOK, LineOK, QueueOK, storeVars, serviceVars, trailVars, Directory
<1>7. \A q \in Replicas : TrailMove(q) /\ LockOK(q)' /\ TrailOK(q)'
  BY <1>1, <1>4, TrailStays DEF IInv, TrailMove, storeVars, trailVars
<1>8. OfCall(k)'
  BY <1>2, <1>3, <1>4, NoSnapshotOK, OfCallPlain DEF Underway
<1> QED BY <1>1, <1>2, <1>3, <1>4, <1>5, <1>6, <1>7, <1>8, CallQuiet

LEMMA RefusedIInv == ASSUME IInv, NEW k \in Calls, Refused(k) PROVE Lasting /\ IInv'
<1>1. /\ call[k].pc = "admitted" /\ Chain(call[k].at, k)
      /\ call' = [call EXCEPT ![k] = Settled(call[k], FALSE)]
      /\ UNCHANGED <<storeVars, write, serviceVars>>
  BY DEF Refused, IInv, TypeOK
<1>2. /\ Settled(call[k], FALSE) \in CallState /\ Settled(call[k], FALSE).pc = "failed"
      /\ Settled(call[k], FALSE).owed = {} /\ Settled(call[k], FALSE).snapshot = NoSnapshot
      /\ Settled(call[k], FALSE).exported = NoSnapshot
      /\ call[k].at \in Replicas
  BY <1>1, CallTypes, SettledType DEF IInv, PlacedOK, TypeOK
<1>3. /\ call' \in [Calls -> CallState] /\ call'[k] = Settled(call[k], FALSE)
      /\ \A j \in Calls : j # k => call'[j] = call[j]
  BY <1>1, <1>2, CallUpdate DEF IInv
<1>4. Lasting
  BY <1>1, <1>3, LastingCall DEF IInv, storeVars, Chain, Late
<1>5. LineOK'
  BY <1>1, <1>2, <1>3, LineAside, IInvParts DEF storeVars, serviceVars, Underway
<1>6. k \notin Answered /\ k \in Answered' /\ k \in Requests
  BY <1>1, <1>2, <1>3, RecoveryAssumption DEF Answered, Requests
<1>7. /\ trail' \in [Replicas -> Seq(Requests)]
      /\ lastEvent' \in [Replicas -> Requests \union {Genesis}]
      /\ rejected' = rejected
      /\ \A q \in Replicas : TrailMove(q) /\ LockOK(q)' /\ TrailOK(q)'
  BY <1>1, <1>2, <1>4, <1>6, ChainFacts DEF storeVars
<1>8. TypeOK'
  BY <1>1, <1>3, <1>5, <1>7 DEF IInv, TypeOK, LineOK, QueueOK, storeVars, serviceVars, Directory
<1>9. OfCall(k)'
  BY <1>2, <1>3, <1>4, NoSnapshotOK, OfCallPlain DEF Underway
<1> QED BY <1>1, <1>2, <1>3, <1>4, <1>5, <1>7, <1>8, <1>9, CallQuiet

\* A call joins the chain of its replica: Enter and Tick.
LEMMA JoinIInv ==
    ASSUME IInv, NEW k \in Calls, NEW r \in serving, NEW c \in CallState,
           call[k].pc \in {"new", "admitted"}, c.pc = "waiting", c.at = r,
           c.owed = {} \/ c.owed = call[k].owed,
           c.snapshot \in {NoSnapshot, call[k].snapshot},
           c.exported \in {NoSnapshot, call[k].exported},
           c.op = "restore" =>
              /\ ~restoring[r]
              /\ \A w \in Writes : write[w] = [at |-> r, pc |-> "admitted"] => w \in c.inflight,
           call' = [call EXCEPT ![k] = c], pending' = [pending EXCEPT ![r] = Append(@, k)],
           restoring' = [restoring EXCEPT ![r] = @ \/ c.op = "restore"],
           UNCHANGED <<storeVars, write, trailVars>>
    PROVE  Lasting /\ IInv'
<1>1. /\ call' \in [Calls -> CallState] /\ call'[k] = c
      /\ \A j \in Calls : j # k => call'[j] = call[j]
  BY CallUpdate DEF IInv
<1>2. Lasting
  BY <1>1, LastingCall DEF IInv, storeVars, trailVars, Late
<1>3. LineOK'
  BY <1>1, LineJoin, IInvParts DEF storeVars, Underway
<1>4. /\ pending' \in [Replicas -> Seq(Calls)] /\ restoring' \in [Replicas -> BOOLEAN]
  BY AppendFacts DEF IInv, TypeOK
<1>5. TypeOK'
  BY <1>1, <1>3, <1>4 DEF IInv, TypeOK, LineOK, QueueOK, storeVars, trailVars, Directory
<1>6. \A q \in Replicas : TrailMove(q) /\ LockOK(q)' /\ TrailOK(q)'
  BY <1>2, TrailStays DEF IInv, TrailMove, storeVars, trailVars
<1>7. SnapshotOK(c.snapshot) /\ SnapshotOK(c.exported) /\ c.owed \subseteq Answered
  BY NoSnapshotOK DEF IInv, ContentOK, CallOK
<1>8. OfCall(k)'
  BY <1>1, <1>2, <1>7, OfCallPlain DEF Underway
<1> QED BY <1>1, <1>2, <1>3, <1>5, <1>6, <1>8, CallQuiet

LEMMA EnterIInv == ASSUME IInv, NEW k \in Calls, Enter(k) PROVE Lasting /\ IInv'
<1> DEFINE r == call[k].at
           c == [call[k] EXCEPT !.pc = "waiting",
                    !.inflight = {w \in Writes : write[w] = [at |-> r, pc |-> "admitted"]}]
<1>1. /\ call[k].pc = "admitted" /\ (call[k].op = "restore" => ~restoring[r])
      /\ restoring' = [restoring EXCEPT ![r] = @ \/ call[k].op = "restore"]
      /\ pending' = [pending EXCEPT ![r] = Append(@, k)]
      /\ UNCHANGED <<storeVars, write, trailVars>>
  BY DEF Enter
<1>2. call \in [Calls -> CallState] /\ call[k] \in CallState
  BY DEF IInv, TypeOK
<1>3. call' = [call EXCEPT ![k] = c]
  BY <1>2 DEF Enter
<1>4. /\ c \in CallState /\ c.pc = "waiting" /\ c.at = r /\ c.owed = call[k].owed
      /\ c.op = call[k].op /\ c.snapshot = call[k].snapshot /\ c.exported = call[k].exported
      /\ c.inflight = {w \in Writes : write[w] = [at |-> r, pc |-> "admitted"]}
  BY <1>2 DEF CallState, Pcs, Underway
<1>5. r \in serving
  BY <1>1 DEF IInv, PlacedOK
<1> HIDE DEF c
<1> QED BY <1>1, <1>3, <1>4, <1>5, JoinIInv

LEMMA TickIInv ==
    ASSUME IInv, NEW k \in Calls, NEW r \in Replicas, Tick(k, r) PROVE Lasting /\ IInv'
<1> DEFINE c == [NewCall EXCEPT !.op = "scheduled", !.at = r, !.pc = "waiting"]
<1>1. /\ call[k].pc = "new" /\ r \in serving /\ call' = [call EXCEPT ![k] = c]
      /\ pending' = [pending EXCEPT ![r] = Append(@, k)]
      /\ UNCHANGED <<storeVars, write, restoring, trailVars>>
  BY DEF Tick
<1>2. /\ c \in CallState /\ c.op = "scheduled" /\ c.at = r /\ c.pc = "waiting" /\ c.owed = {}
      /\ c.snapshot = NoSnapshot /\ c.exported = NoSnapshot
  BY NewCallType DEF CallState, Pcs, Underway
<1>3. restoring' = [restoring EXCEPT ![r] = @ \/ c.op = "restore"]
  BY <1>1, <1>2 DEF IInv, TypeOK
<1> HIDE DEF c
<1> QED BY <1>1, <1>2, <1>3, JoinIInv

\* The running call goes on, up to the export of its archive.
LEMMA ProgressIInv ==
    ASSUME IInv, NEW k \in Calls, NEW pc \in Underway \ {"sealing", "importing"}, Running(k, pc),
           NEW c \in CallState, call' = [call EXCEPT ![k] = c],
           c.pc \in Underway \ {"sealing", "importing"}, c.at = call[k].at, c.op = call[k].op,
           c.inflight = call[k].inflight, c.owed \subseteq Answered,
           SnapshotOK(c.snapshot), SnapshotOK(c.exported),
           c.pc \in {"verifying", "archiving"} => c.op = "restore",
           FlushOK(k)', UNCHANGED <<storeVars, write, serviceVars, trailVars>>
    PROVE  Lasting /\ IInv'
<1>1. /\ call' \in [Calls -> CallState] /\ call'[k] = c
      /\ \A j \in Calls : j # k => call'[j] = call[j]
  BY CallUpdate DEF IInv
<1>2. Lasting
  BY <1>1, LastingCall DEF IInv, storeVars, trailVars, Late, Running, Underway
<1>3. LineOK'
  <2>1. TypeOK /\ LineOK
    BY IInvParts
  <2>2. pending[call[k].at] # <<>> /\ Head(pending[call[k].at]) = k /\ call[k].pc \in Underway
    BY DEF Running
  <2> QED BY <1>1, <2>1, <2>2, LineProgress DEF storeVars, serviceVars
<1>4. TypeOK'
  BY <1>1, <1>3 DEF IInv, TypeOK, LineOK, QueueOK, storeVars, serviceVars, trailVars, Directory
<1>5. \A q \in Replicas : TrailMove(q) /\ LockOK(q)' /\ TrailOK(q)'
  BY <1>2, TrailStays DEF IInv, TrailMove, storeVars, trailVars
<1>6. OfCall(k)'
  <2>1. CallOK(k)' /\ SnapshotOK(call[k].snapshot)' /\ SnapshotOK(call[k].exported)'
    BY <1>1, <1>2, SnapshotKeeps DEF CallOK, Lasting, SnapshotOK, VerifyEvents, Underway
  <2>2. InFlightOK(k)'
    BY <1>1 DEF IInv, InFlightOK, Running
  <2> QED BY <2>1, <2>2 DEF OfCall
<1> QED BY <1>1, <1>2, <1>3, <1>4, <1>5, <1>6, CallQuiet

LEMMA VerifyIInv == ASSUME IInv, NEW k \in Calls, Verify(k) PROVE Lasting /\ IInv'
<1> DEFINE c == [call[k] EXCEPT !.pc = "verifying"]
<1>1. /\ Running(k, "waiting") /\ call[k].op = "restore" /\ call[k] \in CallState
      /\ call' = [call EXCEPT ![k] = c] /\ UNCHANGED <<storeVars, write, serviceVars, trailVars>>
  BY DEF Verify, IInv, TypeOK
<1>2. /\ c \in CallState /\ c.pc = "verifying" /\ c.at = call[k].at /\ c.op = call[k].op
      /\ c.inflight = call[k].inflight /\ c.owed = call[k].owed
      /\ c.snapshot = call[k].snapshot /\ c.exported = call[k].exported
  BY <1>1 DEF CallState, Pcs, Underway
<1>3. c.owed \subseteq Answered /\ SnapshotOK(c.snapshot) /\ SnapshotOK(c.exported)
  BY <1>2 DEF IInv, ContentOK, CallOK
<1>4. call'[k] = c
  BY <1>1, <1>2, CallUpdate DEF IInv
<1> HIDE DEF c
<1>5. FlushOK(k)'
  BY <1>2, <1>4 DEF FlushOK
<1> QED BY <1>1, <1>2, <1>3, <1>5, ProgressIInv DEF Underway

LEMMA DecryptIInv == ASSUME IInv, NEW k \in Calls, Decrypt(k) PROVE Lasting /\ IInv'
<1> DEFINE c == [call[k] EXCEPT !.pc = "archiving", !.snapshot = Archived(k)]
<1>1. /\ Running(k, "verifying") /\ Present(k) /\ call[k] \in CallState
      /\ call' = [call EXCEPT ![k] = c] /\ UNCHANGED <<storeVars, write, serviceVars, trailVars>>
  BY DEF Decrypt, IInv, TypeOK
<1>2. Archived(k) \in Snapshot /\ SnapshotOK(Archived(k)) /\ call[k].op = "restore"
  BY <1>1 DEF IInv, TypeOK, ContentOK, CallOK, Archived, Present, Running
<1>3. /\ c \in CallState /\ c.pc = "archiving" /\ c.at = call[k].at /\ c.op = call[k].op
      /\ c.inflight = call[k].inflight /\ c.owed = call[k].owed
      /\ c.snapshot = Archived(k) /\ c.exported = call[k].exported
  BY <1>1, <1>2 DEF CallState, Pcs, Underway
<1>4. c.owed \subseteq Answered /\ SnapshotOK(c.snapshot) /\ SnapshotOK(c.exported)
  BY <1>2, <1>3 DEF IInv, ContentOK, CallOK
<1>5. call'[k] = c
  BY <1>1, <1>3, CallUpdate DEF IInv
<1> HIDE DEF c
<1>6. FlushOK(k)'
  BY <1>3, <1>5 DEF FlushOK
<1> QED BY <1>1, <1>2, <1>3, <1>4, <1>6, ProgressIInv DEF Underway

LEMMA FlushIInv == ASSUME IInv, NEW k \in Calls, Flush(k) PROVE Lasting /\ IInv'
<1> DEFINE r == call[k].at
           c == [call[k] EXCEPT !.pc = "flushing", !.awaits = lastEvent[r],
                                !.owed = ToSet(trail[r])]
<1>1. PICK pc \in {"archiving", "waiting"} : Running(k, pc)
  BY DEF Flush
<1>2. /\ call[k] \in CallState /\ call' = [call EXCEPT ![k] = c]
      /\ UNCHANGED <<storeVars, write, serviceVars, trailVars>>
  BY DEF Flush, IInv, TypeOK
<1>3. /\ r \in Replicas /\ trail[r] \in Seq(Requests) /\ lastEvent[r] \in Requests \union {Genesis}
      /\ TrailOK(r)
  BY <1>1, RunningFacts, IInvParts DEF Underway, TypeOK
<1>4. ToSet(trail[r]) \subseteq Requests
  BY <1>3, SetFacts
<1>5. /\ c \in CallState /\ c.pc = "flushing" /\ c.at = r /\ c.op = call[k].op
      /\ c.inflight = call[k].inflight /\ c.owed = ToSet(trail[r]) /\ c.awaits = lastEvent[r]
      /\ c.snapshot = call[k].snapshot /\ c.exported = call[k].exported
  BY <1>2, <1>3, <1>4 DEF CallState, Pcs, Underway
<1>6. c.owed \subseteq Answered /\ SnapshotOK(c.snapshot) /\ SnapshotOK(c.exported)
  BY <1>3, <1>5 DEF IInv, ContentOK, TrailOK
<1>7. call'[k] = c
  BY <1>2, <1>5, CallUpdate DEF IInv
<1> HIDE DEF c
<1>8. ASSUME NEW i \in DOMAIN trail[r]
      PROVE  \E j \in DOMAIN trail[r] : i =< j /\ trail[r][j] = lastEvent[r]
  <2>1. trail[r] # <<>> /\ Len(trail[r]) \in DOMAIN trail[r] /\ i =< Len(trail[r])
    BY <1>3, <1>8
  <2>2. trail[r][Len(trail[r])] = lastEvent[r]
    BY <1>3, <2>1 DEF TrailOK, Last
  <2> QED BY <2>1, <2>2
<1>9. FlushOK(k)'
  BY <1>2, <1>5, <1>7, <1>8 DEF FlushOK, trailVars
<1> QED BY <1>1, <1>2, <1>5, <1>6, <1>9, ProgressIInv DEF Underway

-----------------------------------------------------------------------------
(* Archives by age.                                                          *)

LEMMA NewerFinite ==
    ASSUME created \in Seq(Calls), NEW k
    PROVE  IsFiniteSet(Newer(k))
<1> DEFINE n == Len(created)
           S == ToSet(created)
<1>1. n \in Nat /\ DOMAIN created = 1..n /\ created \in [1..n -> Calls]
  OBVIOUS
<1>2. created \in Surjection(1..n, S)
  BY <1>1 DEF Surjection, ToSet, Range
<1>3. IsFiniteSet(1..n)
  BY <1>1, FS_Interval
<1>4. IsFiniteSet(S)
  BY <1>2, <1>3, FS_Surjection
<1>5. Newer(k) \subseteq S
  BY SetFacts DEF Newer
<1> QED BY <1>4, <1>5, FS_Subset

\* What is newer stays newer when another archive is created.
LEMMA NewerGrows ==
    ASSUME created \in Seq(Calls), NEW k \in Calls, created' = Append(created, k),
           \A i \in DOMAIN created : created[i] # k
    PROVE  /\ created' \in Seq(Calls)
           /\ \A j \in Calls : Newer(j) \subseteq Newer(j)' /\ Newer(j)' \subseteq Newer(j) \union {k}
           /\ Newer(k)' = {}
           /\ \A j \in Calls : IsFiniteSet(Newer(j)') /\ Cardinality(Newer(j)) =< Cardinality(Newer(j)')
<1>1. /\ created' \in Seq(Calls) /\ DOMAIN created = 1..Len(created) /\ Len(created) \in Nat
      /\ DOMAIN created' = 1..(Len(created) + 1)
      /\ \A i \in DOMAIN created : created'[i] = created[i]
      /\ created'[Len(created) + 1] = k
  BY AppendFacts
<1>2. ASSUME NEW j \in Calls, NEW i \in Newer(j) PROVE i \in Newer(j)'
  <2>1. PICK m, n \in DOMAIN created : m < n /\ created[m] = j /\ created[n] = i
    BY <1>2 DEF Newer
  <2>2. m \in DOMAIN created' /\ n \in DOMAIN created' /\ created'[m] = j /\ created'[n] = i
    BY <1>1, <2>1
  <2> QED BY <1>2, <2>1, <2>2 DEF Newer
<1>3. ASSUME NEW j \in Calls, NEW i \in Newer(j)' PROVE i \in Newer(j) \union {k} /\ j # k
  <2>1. PICK m, n \in DOMAIN created' : m < n /\ created'[m] = j /\ created'[n] = i
    BY <1>3 DEF Newer
  <2>2. m \in DOMAIN created /\ created[m] = j /\ i \in Calls
    BY <1>1, <1>3, <2>1 DEF Newer
  <2>3. n = Len(created) + 1 \/ n \in DOMAIN created
    BY <1>1, <2>1
  <2>4. CASE n \in DOMAIN created
    BY <1>1, <2>1, <2>2, <2>4 DEF Newer
  <2> QED BY <1>1, <2>1, <2>2, <2>3, <2>4
<1>4. ASSUME NEW j \in Calls
      PROVE  IsFiniteSet(Newer(j)') /\ Cardinality(Newer(j)) =< Cardinality(Newer(j)')
  <2>1. IsFiniteSet(Newer(j))
    BY NewerFinite
  <2>2. IsFiniteSet(Newer(j) \union {k})
    BY <2>1, FS_AddElement
  <2>3. IsFiniteSet(Newer(j)')
    BY <1>3, <2>2, FS_Subset
  <2> QED BY <1>2, <2>3, FS_Subset
<1> QED BY <1>1, <1>2, <1>3, <1>4

\* What prune removes has at least as many newer archives as it keeps.
LEMMA PrunedIsOld ==
    ASSUME created \in Seq(Calls), NEW files \in SUBSET Calls, NEW k \in files \ Kept(files)
    PROVE  Cardinality(Newer(k)) >= Retention
<1>1. ~(Cardinality(Newer(k) \intersect files) < Retention)
  BY DEF Kept
<1>2. IsFiniteSet(Newer(k))
  BY NewerFinite
<1>3. /\ IsFiniteSet(Newer(k) \intersect files)
      /\ Cardinality(Newer(k) \intersect files) =< Cardinality(Newer(k))
  BY <1>2, FS_Subset
<1>4. Cardinality(Newer(k) \intersect files) \in Nat /\ Cardinality(Newer(k)) \in Nat
  BY <1>2, <1>3, FS_CardinalityType
<1> QED BY <1>1, <1>3, <1>4, RecoveryAssumption

LEMMA ExportIInv == ASSUME IInv, NEW k \in Calls, Export(k) PROVE Lasting /\ IInv'
<1> DEFINE r == call[k].at
           content == [records |-> records, auditEvents |-> audit]
           c == [call[k] EXCEPT !.pc = "sealing", !.exported = content]
<1>0. TypeOK /\ LineOK /\ CreatedOK /\ OfCall(k)
  BY IInvParts
<1>1. /\ Running(k, "flushing") /\ call[k].awaits \notin ToSet(trail[r])
      /\ call[k] \in CallState /\ call' = [call EXCEPT ![k] = c]
      /\ created' = Append(created, k)
      /\ UNCHANGED <<mode, serving, records, audit, reader, archives, write,
                     serviceVars, trailVars>>
  BY <1>0 DEF Export, Flushed, TypeOK
<1>2. content \in Snapshot /\ SnapshotOK(content)
  BY DEF IInv, TypeOK, Snapshot, ContentOK
<1>3. /\ c \in CallState /\ c.pc = "sealing" /\ c.at = r /\ c.op = call[k].op
      /\ c.inflight = call[k].inflight /\ c.owed = call[k].owed
      /\ c.snapshot = call[k].snapshot /\ c.exported = content
  BY <1>1, <1>2 DEF CallState, Pcs, Underway
<1>4. /\ call' \in [Calls -> CallState] /\ call'[k] = c
      /\ \A j \in Calls : j # k => call'[j] = call[j]
  BY <1>0, <1>1, <1>3, CallUpdate
<1>5. /\ call[k].pc = "flushing" /\ r \in Replicas
      /\ \A j \in Calls : call[j].at = r /\ call[j].pc \in Underway \ {"waiting"} => j = k
      /\ pending[r] # <<>> /\ Head(pending[r]) = k
  BY <1>0, <1>1, RunningFacts DEF Underway, Running
<1> HIDE DEF c, content
<1>6. Lasting
  BY <1>0, <1>1, <1>4, <1>5, LastingCall DEF trailVars, Late
<1>7. LineOK'
  BY <1>0, <1>1, <1>3, <1>4, <1>5, LineProgress DEF serviceVars, Underway
<1>8. created \in Seq(Calls) /\ \A i \in DOMAIN created : created[i] # k
  BY <1>0, <1>5 DEF CreatedOK, TypeOK
<1>9. /\ created' \in Seq(Calls)
      /\ \A j \in Calls : Newer(j) \subseteq Newer(j)' /\ Newer(j)' \subseteq Newer(j) \union {k}
      /\ Newer(k)' = {}
      /\ \A j \in Calls : IsFiniteSet(Newer(j)') /\ Cardinality(Newer(j)) =< Cardinality(Newer(j)')
  BY <1>1, <1>8, NewerGrows
<1>10. TypeOK'
  BY <1>0, <1>1, <1>4, <1>7, <1>9 DEF TypeOK, LineOK, QueueOK, serviceVars, trailVars, Directory
<1>11. CreatedOK'
  <2>1. \A i \in DOMAIN created' : call'[created'[i]].pc \in Late
    <3>1. /\ DOMAIN created = 1..Len(created) /\ Len(created) \in Nat
          /\ DOMAIN created' = 1..(Len(created) + 1)
          /\ \A i \in DOMAIN created : created'[i] = created[i] /\ created[i] \in Calls
          /\ created'[Len(created) + 1] = k
      BY <1>1, <1>8, AppendFacts
    <3>2. \A i \in DOMAIN created : call'[created'[i]].pc \in Late
      BY <1>0, <1>4, <1>8, <3>1 DEF CreatedOK, Late
    <3>3. call'[k].pc \in Late
      BY <1>3, <1>4 DEF Late
    <3> QED BY <3>1, <3>2, <3>3
  <2>2. ASSUME NEW i \in Calls, call'[i].pc \in {"sealing", "importing"}, NEW j \in Newer(i)'
        PROVE  call'[j].at # call'[i].at
    <3>1. i # k /\ call'[i] = call[i] /\ j \in Calls /\ call'[j].at = call[j].at
      BY <1>3, <1>4, <1>9, <2>2 DEF Newer
    <3>2. CASE j \in Newer(i)
      BY <1>0, <2>2, <3>1, <3>2 DEF CreatedOK
    <3>3. CASE j = k
      BY <1>5, <2>2, <3>1, <3>3 DEF Underway
    <3> QED BY <1>9, <2>2, <3>2, <3>3
  <2>3. ASSUME NEW i \in Calls, call'[i].pc = "importing"
        PROVE  i \in Directory' \/ Cardinality(Newer(i)') >= Retention
    <3>1. i \in Directory \/ Cardinality(Newer(i)) >= Retention
      BY <1>0, <1>3, <1>4, <2>3 DEF CreatedOK
    <3>2. Cardinality(Newer(i)) \in Nat /\ Cardinality(Newer(i)') \in Nat
      BY <1>8, <1>9, NewerFinite, FS_CardinalityType
    <3> QED BY <1>1, <1>9, <3>1, <3>2, RecoveryAssumption DEF Directory
  <2> QED BY <2>1, <2>2, <2>3 DEF CreatedOK, Late
<1>12. StoreOK'
  BY <1>1, <1>6, IInvParts, StoreStays
<1>13. \A q \in Replicas : TrailMove(q) /\ LockOK(q)' /\ TrailOK(q)'
  BY <1>1, <1>6, TrailStays DEF IInv, TrailMove, trailVars
<1>14. ASSUME NEW j \in Calls, j # k PROVE OfCall(j)'
  <2>1. call[j].pc = "flushing" => call[j].at \in Replicas
    BY DEF IInv, PlacedOK, TypeOK, Underway
  <2>2. records' \subseteq Writes
    BY <1>10 DEF TypeOK
  <2> QED BY <1>1, <1>4, <1>6, <1>13, <1>14, <2>1, <2>2, CallKeeps
<1>15. OfCall(k)'
  <2>1. CallOK(k)' /\ SnapshotOK(call[k].snapshot)' /\ SnapshotOK(call[k].exported)'
    BY <1>0, <1>2, <1>3, <1>4, <1>6 DEF OfCall, CallOK, Lasting, SnapshotOK, VerifyEvents, Underway
  <2>2. ASSUME NEW e \in call[k].owed
        PROVE  e \in EventsOf(audit) \/ e \in rejected' \/ RestoredElsewhere(k)'
    <3>1. e \notin ToSet(trail[r])
      <4>1. trail[r] \in Seq(Requests)
        BY <1>0, <1>5 DEF TypeOK
      <4> QED BY <1>0, <1>1, <1>5, <4>1, <2>2, SetFacts DEF OfCall, FlushOK
    <3>2. call'[k].at = call[k].at
      BY <1>3, <1>4
    <3> QED BY <1>0, <1>5, <1>6, <2>2, <3>1, <3>2, ElsewhereKeeps DEF OfCall, FlushOK, Lasting
  <2>3. call'[k].exported.auditEvents = audit /\ call'[k].exported.records = records'
    BY <1>1, <1>3, <1>4 DEF content
  <2>4. FlushOK(k)'
    BY <1>3, <1>4, <2>2, <2>3 DEF FlushOK
  <2>5. InFlightOK(k)'
    BY <1>0, <1>1, <1>3, <1>4, <1>5, <2>3 DEF OfCall, InFlightOK, Underway
  <2> QED BY <2>1, <2>4, <2>5 DEF OfCall
<1> QED BY <1>6, <1>7, <1>10, <1>11, <1>12, <1>13, <1>14, <1>15, Assemble

-----------------------------------------------------------------------------
(* A call settles.                                                           *)

LEMMA EndFacts ==
    ASSUME IInv, NEW k \in Calls, NEW ok \in BOOLEAN, NEW pc \in Underway, Running(k, pc),
           End(k, ok), UNCHANGED <<mode, serving, write, reader>>, audit' = audit \/ ~Locked
    PROVE  /\ call' \in [Calls -> CallState] /\ call'[k] = Settled(call[k], ok)
           /\ call'[k].pc = (IF ok THEN "done" ELSE "failed")
           /\ ok => call'[k].op = call[k].op /\ call'[k].at = call[k].at
           /\ \A j \in Calls : j # k => call'[j] = call[j]
           /\ pending' \in [Replicas -> Seq(Calls)] /\ restoring' \in [Replicas -> BOOLEAN]
           /\ trail' \in [Replicas -> Seq(Requests)]
           /\ lastEvent' \in [Replicas -> Requests \union {Genesis}]
           /\ rejected' = rejected /\ Lasting /\ LineOK' /\ OfCall(k)'
           /\ \A q \in Replicas : TrailMove(q) /\ LockOK(q)' /\ TrailOK(q)'
           /\ \A q \in Replicas : \A i \in DOMAIN pending'[q] : call'[pending'[q][i]].at = q
<1> DEFINE r == call[k].at
<1>0. TypeOK /\ LineOK /\ call[k] \in CallState
  BY IInvParts DEF TypeOK
<1>1. /\ pending' = [pending EXCEPT ![r] = Tail(@)]
      /\ restoring' = [restoring EXCEPT ![r] = @ /\ call[k].op # "restore"]
      /\ call' = [call EXCEPT ![k] = Settled(call[k], ok)]
      /\ IF call[k].op = "scheduled" THEN UNCHANGED trailVars ELSE Chain(r, k)
  BY <1>0 DEF End, TypeOK
<1>2. /\ Settled(call[k], ok) \in CallState
      /\ Settled(call[k], ok).pc = (IF ok THEN "done" ELSE "failed")
      /\ Settled(call[k], ok).at = (IF ok THEN r ELSE NoReplica)
      /\ Settled(call[k], ok).op = (IF ok THEN call[k].op ELSE "backup")
      /\ Settled(call[k], ok).owed = {} /\ Settled(call[k], ok).snapshot = NoSnapshot
      /\ Settled(call[k], ok).exported = NoSnapshot
  BY <1>0, SettledType
<1>3. /\ call' \in [Calls -> CallState] /\ call'[k] = Settled(call[k], ok)
      /\ \A j \in Calls : j # k => call'[j] = call[j]
  BY <1>0, <1>1, <1>2, CallUpdate
<1>4. /\ r \in Replicas /\ pending[r] # <<>> /\ call[k].pc \in Underway
      /\ pending \in [Replicas -> Seq(Calls)]
  BY <1>0, RunningFacts DEF Running, TypeOK
<1>5. pending' \in [Replicas -> Seq(Calls)] /\ restoring' \in [Replicas -> BOOLEAN]
  <2>1. Tail(pending[r]) \in Seq(Calls)
    BY <1>4, TailFacts
  <2> QED BY <1>0, <1>1, <1>4, <2>1 DEF TypeOK
<1>6. rejected' = rejected
  BY <1>1 DEF Chain, trailVars
<1>7. Lasting
  <2>1. call[k].pc \notin {"done", "failed"}
    BY <1>4 DEF Underway
  <2> QED BY <1>0, <1>2, <1>3, <1>6, <2>1, LastingCall DEF Late
<1>8. LineOK'
  BY <1>0, <1>1, <1>2, <1>3, LineLeave
<1>9. OfCall(k)'
  BY <1>2, <1>3, <1>7, NoSnapshotOK, OfCallPlain DEF Underway
<1>10. /\ trail' \in [Replicas -> Seq(Requests)]
       /\ lastEvent' \in [Replicas -> Requests \union {Genesis}]
       /\ \A q \in Replicas : TrailMove(q) /\ LockOK(q)' /\ TrailOK(q)'
  <2>1. CASE call[k].op = "scheduled"
    BY <1>1, <1>7, <2>1, TrailStays DEF IInv, TypeOK, TrailMove, trailVars
  <2>2. CASE call[k].op # "scheduled"
    <3>1. k \notin Answered /\ k \in Answered' /\ k \in Requests
      BY <1>2, <1>3, <1>4, RecoveryAssumption DEF Answered, Requests, Underway
    <3> QED BY <1>1, <1>4, <1>7, <2>2, <3>1, ChainFacts
  <2> QED BY <2>1, <2>2
<1>11. \A q \in Replicas : \A i \in DOMAIN pending'[q] : call'[pending'[q][i]].at = q
  BY <1>8 DEF LineOK, QueueOK
<1> QED BY <1>2, <1>3, <1>5, <1>6, <1>7, <1>8, <1>9, <1>10, <1>11

LEMMA FailIInv == ASSUME IInv, NEW k \in Calls, Fail(k) PROVE Lasting /\ IInv'
<1>1. PICK pc \in Underway : Running(k, pc)
  BY DEF Fail
<1>2. End(k, FALSE) /\ UNCHANGED <<storeVars, write>>
  BY DEF Fail
<1>3. /\ call' \in [Calls -> CallState] /\ call'[k].pc = "failed"
      /\ \A j \in Calls : j # k => call'[j] = call[j]
      /\ pending' \in [Replicas -> Seq(Calls)] /\ restoring' \in [Replicas -> BOOLEAN]
      /\ trail' \in [Replicas -> Seq(Requests)]
      /\ lastEvent' \in [Replicas -> Requests \union {Genesis}]
      /\ rejected' = rejected /\ Lasting /\ LineOK' /\ OfCall(k)'
      /\ \A q \in Replicas : TrailMove(q) /\ LockOK(q)' /\ TrailOK(q)'
      /\ \A q \in Replicas : \A i \in DOMAIN pending'[q] : call'[pending'[q][i]].at = q
  BY <1>1, <1>2, EndFacts DEF storeVars
<1>4. TypeOK'
  BY <1>2, <1>3 DEF IInv, TypeOK, storeVars, Directory
<1> QED BY <1>2, <1>3, <1>4, CallQuiet

\* The running restore replaces the content of the store.
LEMMA ImportIInv == ASSUME IInv, NEW k \in Calls, Import(k) PROVE Lasting /\ IInv'
<1>1. /\ Running(k, "importing") /\ ~Locked /\ End(k, TRUE)
      /\ records' = call[k].snapshot.records /\ audit' = call[k].snapshot.auditEvents
      /\ UNCHANGED <<mode, serving, reader, created, archives, write>>
  BY DEF Import, Load
<1>2. /\ call' \in [Calls -> CallState] /\ call'[k].pc = "done"
      /\ call'[k].op = call[k].op /\ call'[k].at = call[k].at
      /\ \A j \in Calls : j # k => call'[j] = call[j]
      /\ pending' \in [Replicas -> Seq(Calls)] /\ restoring' \in [Replicas -> BOOLEAN]
      /\ trail' \in [Replicas -> Seq(Requests)]
      /\ lastEvent' \in [Replicas -> Requests \union {Genesis}]
      /\ rejected' = rejected /\ Lasting /\ LineOK' /\ OfCall(k)'
      /\ \A q \in Replicas : TrailMove(q) /\ LockOK(q)' /\ TrailOK(q)'
      /\ \A q \in Replicas : \A i \in DOMAIN pending'[q] : call'[pending'[q][i]].at = q
  BY <1>1, EndFacts DEF Underway
<1>3. /\ call[k].op = "restore"
      /\ \A j \in Calls : call[j].at = call[k].at /\ call[j].pc \in Underway \ {"waiting"} => j = k
  BY <1>1, RunningFacts, IInvParts DEF OfCall, CallOK, Running, Underway
<1>4. call[k].snapshot \in Snapshot /\ SnapshotOK(call[k].snapshot)
  BY DEF IInv, TypeOK, CallState, ContentOK
<1>5. records' \subseteq Writes /\ audit' \in Seq(Event)
  BY <1>1, <1>4 DEF Snapshot
<1>6. TypeOK'
  BY <1>1, <1>2, <1>5 DEF IInv, TypeOK, Directory
<1>7. StoreOK'
  <2>1. SnapshotOK([records |-> records, auditEvents |-> audit])'
    BY <1>1, <1>2, <1>4 DEF SnapshotOK, VerifyEvents, Lasting
  <2>2. \A j \in Directory : SnapshotOK(archives[j])'
    BY <1>1, <1>2, IInvParts DEF StoreOK, SnapshotOK, VerifyEvents, Lasting
  <2> QED BY <1>1, <2>1, <2>2 DEF StoreOK, Directory
<1>8. CreatedOK'
  <2>1. \A j \in Calls : call[j].pc \in Underway => call[j].at # NoReplica
    BY RecoveryAssumption DEF IInv, PlacedOK, TypeOK
  <2> QED BY <1>1, <1>2, <2>1, CreatedStays DEF IInv
<1>9. ASSUME NEW j \in Calls, j # k PROVE OfCall(j)'
  <2>1. call[j].pc = "flushing" => call[j].at \in Replicas
    BY DEF IInv, PlacedOK, TypeOK, Underway
  <2>2. call[j].pc \in {"flushing", "sealing", "importing"} => RestoredElsewhere(j)'
    BY <1>2, <1>3, <1>9 DEF RestoredElsewhere, Underway
  <2> QED BY <1>1, <1>2, <1>5, <1>9, <2>1, <2>2, CallKeeps
<1> QED BY <1>2, <1>6, <1>7, <1>8, <1>9, Assemble

\* Seal: the archive is in the directory, or as many newer ones are.
LEMMA SealCreated ==
    ASSUME IInv, Lasting, NEW k \in Calls, call[k].pc = "sealing", created' = created,
           Directory' = Kept(Directory \union {k}), call'[k].pc \in {"importing", "done"},
           call'[k].at = call[k].at, \A j \in Calls : j # k => call'[j] = call[j]
    PROVE  CreatedOK'
<1>1. /\ CreatedOK /\ created \in Seq(Calls) /\ Directory \subseteq Calls
      /\ \A j \in Calls : Newer(j)' = Newer(j)
  BY DEF IInv, TypeOK, Newer
<1>2. \A j \in Calls : call'[j].at = call[j].at
  OBVIOUS
<1>3. \A i \in DOMAIN created' : call'[created'[i]].pc \in {"sealing", "importing", "done", "failed"}
  BY <1>1 DEF CreatedOK
<1>4. ASSUME NEW i \in Calls, call'[i].pc \in {"sealing", "importing"}, NEW j \in Newer(i)
      PROVE  call'[j].at # call'[i].at
  BY <1>1, <1>2, <1>4 DEF CreatedOK, Newer
<1>5. ASSUME NEW i \in Calls, call'[i].pc = "importing"
      PROVE  i \in Directory' \/ Cardinality(Newer(i)) >= Retention
  <2>1. i \in Directory \union {k} \/ Cardinality(Newer(i)) >= Retention
    BY <1>1, <1>5 DEF CreatedOK
  <2>2. ASSUME i \in (Directory \union {k}) \ Kept(Directory \union {k})
        PROVE  Cardinality(Newer(i)) >= Retention
    BY <1>1, <2>2, PrunedIsOld
  <2> QED BY <2>1, <2>2
<1> QED BY <1>1, <1>3, <1>4, <1>5 DEF CreatedOK

LEMMA SealIInv == ASSUME IInv, NEW k \in Calls, Seal(k) PROVE Lasting /\ IInv'
<1> DEFINE files == Kept(Directory \union {k})
<1>0. TypeOK /\ LineOK /\ StoreOK /\ OfCall(k)
  BY IInvParts
<1>1. /\ Running(k, "sealing")
      /\ archives' = [j \in files |-> IF j = k THEN call[k].exported ELSE archives[j]]
      /\ UNCHANGED <<mode, serving, records, audit, reader, created, write>>
  BY DEF Seal
<1>2. /\ Directory' = files /\ files \subseteq Directory \union {k} /\ files \subseteq Calls
      /\ call[k].exported \in Snapshot /\ SnapshotOK(call[k].exported)
  BY <1>0, <1>1, CallTypes DEF Directory, Kept, TypeOK, OfCall
<1>3. Directory' \subseteq Calls /\ archives' \in [Directory' -> Snapshot]
  BY <1>0, <1>1, <1>2 DEF TypeOK
<1>4. ASSUME Lasting PROVE StoreOK'
  <2>1. SnapshotOK([records |-> records, auditEvents |-> audit])'
    BY <1>0, <1>1, <1>4 DEF StoreOK, SnapshotOK, VerifyEvents, Lasting
  <2>2. ASSUME NEW j \in Directory' PROVE SnapshotOK(archives[j])'
    <3>1. CASE j = k
      BY <1>1, <1>2, <1>4, <2>2, <3>1 DEF SnapshotOK, VerifyEvents, Lasting
    <3>2. CASE j # k
      <4>1. archives'[j] = archives[j] /\ SnapshotOK(archives[j])
        BY <1>0, <1>1, <1>2, <2>2, <3>2 DEF StoreOK
      <4> QED BY <1>4, <4>1 DEF SnapshotOK, VerifyEvents, Lasting
    <3> QED BY <3>1, <3>2
  <2> QED BY <2>1, <2>2 DEF StoreOK
<1>5. ASSUME Lasting, TypeOK', \A q \in Replicas : TrailMove(q),
             \A j \in Calls : j # k => call'[j] = call[j]
      PROVE  \A j \in Calls : j # k => OfCall(j)'
  <2> SUFFICES ASSUME NEW j \in Calls, j # k PROVE OfCall(j)'
    OBVIOUS
  <2>1. call[j].pc = "flushing" => call[j].at \in Replicas
    BY <1>0 DEF IInv, PlacedOK, TypeOK, Underway
  <2>2. records' \subseteq Writes
    BY <1>5 DEF TypeOK
  <2> QED BY <1>1, <1>5, <2>1, <2>2, CallKeeps
<1>6. CASE call[k].op = "restore"
  <2> DEFINE c == [call[k] EXCEPT !.pc = "importing"]
  <2>1. call' = [call EXCEPT ![k] = c] /\ UNCHANGED <<serviceVars, trailVars>>
    BY <1>0, <1>6 DEF Seal, TypeOK
  <2>2. /\ c \in CallState /\ c.pc = "importing" /\ c.at = call[k].at /\ c.op = call[k].op
        /\ c.inflight = call[k].inflight /\ c.owed = call[k].owed
        /\ c.snapshot = call[k].snapshot /\ c.exported = call[k].exported
    BY <1>0, CallTypes DEF CallState, Pcs, Underway
  <2>3. /\ call' \in [Calls -> CallState] /\ call'[k] = c
        /\ \A j \in Calls : j # k => call'[j] = call[j]
    BY <1>0, <2>1, <2>2, CallUpdate
  <2> HIDE DEF c
  <2>4. Lasting
    BY <1>0, <1>1, <2>1, <2>2, <2>3, LastingCall DEF trailVars, Late, Running
  <2>5. LineOK'
    <3>1. pending[call[k].at] # <<>> /\ Head(pending[call[k].at]) = k /\ call[k].pc \in Underway
      BY <1>1 DEF Running, Underway
    <3> QED BY <1>0, <1>1, <2>1, <2>2, <2>3, <3>1, LineProgress DEF serviceVars, Underway
  <2>6. TypeOK'
    BY <1>0, <1>1, <1>3, <2>1, <2>3, <2>5 DEF TypeOK, LineOK, QueueOK, serviceVars, trailVars
  <2>7. \A q \in Replicas : TrailMove(q) /\ LockOK(q)' /\ TrailOK(q)'
    BY <1>1, <2>1, <2>4, TrailStays DEF IInv, TrailMove, trailVars
  <2>8. CreatedOK'
    BY <1>1, <1>2, <2>2, <2>3, <2>4, SealCreated DEF Running
  <2>9. OfCall(k)'
    <3>1. RestoredElsewhere(k) => RestoredElsewhere(k)'
      BY <2>2, <2>3, <2>4, ElsewhereKeeps
    <3>2. call[k].pc = "sealing"
      BY <1>1 DEF Running
    <3>3. CallOK(k)' /\ SnapshotOK(call[k].snapshot)' /\ SnapshotOK(call[k].exported)'
      BY <1>0, <1>6, <2>2, <2>3, <2>4 DEF OfCall, CallOK, Lasting, SnapshotOK, VerifyEvents
    <3>4. FlushOK(k)'
      BY <1>0, <2>2, <2>3, <2>4, <3>1, <3>2 DEF OfCall, FlushOK, Lasting
    <3>5. InFlightOK(k)'
      BY <1>0, <1>1, <1>6, <2>2, <2>3, <3>1, <3>2 DEF OfCall, InFlightOK, Underway
    <3> QED BY <3>3, <3>4, <3>5 DEF OfCall
  <2> QED BY <1>4, <1>5, <2>3, <2>4, <2>5, <2>6, <2>7, <2>8, <2>9, Assemble
<1>7. CASE call[k].op # "restore"
  <2>1. End(k, TRUE)
    BY <1>7 DEF Seal
  <2>2. /\ call' \in [Calls -> CallState] /\ call'[k].pc = "done" /\ call'[k].at = call[k].at
        /\ \A j \in Calls : j # k => call'[j] = call[j]
        /\ pending' \in [Replicas -> Seq(Calls)] /\ restoring' \in [Replicas -> BOOLEAN]
        /\ trail' \in [Replicas -> Seq(Requests)]
        /\ lastEvent' \in [Replicas -> Requests \union {Genesis}]
        /\ rejected' = rejected /\ Lasting /\ LineOK' /\ OfCall(k)'
        /\ \A q \in Replicas : TrailMove(q) /\ LockOK(q)' /\ TrailOK(q)'
        /\ \A q \in Replicas : \A i \in DOMAIN pending'[q] : call'[pending'[q][i]].at = q
    BY <1>1, <2>1, EndFacts DEF Underway
  <2>3. TypeOK'
    BY <1>0, <1>1, <1>3, <2>2 DEF TypeOK
  <2>4. CreatedOK'
    BY <1>1, <1>2, <2>2, SealCreated DEF Running
  <2> QED BY <1>4, <1>5, <2>2, <2>3, <2>4, Assemble
<1> QED BY <1>6, <1>7

-----------------------------------------------------------------------------
(* Restarts.                                                                 *)

\* What a restart of r leaves, whatever became of the records.
LEMMA ForgetIInv ==
    ASSUME IInv, NEW r \in Replicas, Forget(r), audit' = audit,
           records' \subseteq Writes, SnapshotOK([records |-> records', auditEvents |-> audit]),
           \/ records' = records
           \/ \A j \in Calls : call[j].pc \in Underway => call[j].at = r
    PROVE  Lasting /\ IInv'
<1>0. TypeOK /\ LineOK
  BY IInvParts
<1>1. /\ Unlock(r)
      /\ write' = [w \in Writes |-> IF write[w].at = r THEN [write[w] EXCEPT !.pc = "done"]
                                    ELSE write[w]]
      /\ pending' = [pending EXCEPT ![r] = <<>>]
      /\ restoring' = [restoring EXCEPT ![r] = FALSE]
      /\ trail' = [trail EXCEPT ![r] = <<>>]
      /\ lastEvent' = [lastEvent EXCEPT ![r] = Genesis]
      /\ UNCHANGED <<mode, serving, created, archives, rejected>>
  BY DEF Forget
<1>2. /\ write' \in [Writes -> [at: Replicas \union {NoReplica}, pc: {"new", "admitted", "done"}]]
      /\ \A w \in Writes : write'[w].at = write[w].at /\ write'[w].pc \in {write[w].pc, "done"}
  BY <1>0, <1>1 DEF TypeOK
<1>3. /\ LineOK' /\ call' \in [Calls -> CallState]
      /\ \A k \in Calls : call'[k] = call[k] \/ (call[k].at = r /\ call[k].pc # "done"
                                                /\ call'[k] = Settled(call[k], FALSE))
      /\ \A k \in Calls : call'[k].at = r => call'[k].pc = "done" /\ call'[k] = call[k]
  BY <1>0, LineForget
<1>4. ASSUME NEW k \in Calls, call'[k] # call[k]
      PROVE  /\ call[k].at = r /\ call[k].pc # "done" /\ call'[k].pc = "failed"
             /\ call'[k].at = NoReplica /\ call'[k].owed = {}
             /\ call'[k].snapshot = NoSnapshot /\ call'[k].exported = NoSnapshot
  <2>1. call[k] \in CallState
    BY <1>0 DEF TypeOK
  <2>2. call[k].at = r /\ call[k].pc # "done" /\ call'[k] = Settled(call[k], FALSE)
    BY <1>3, <1>4
  <2>3. /\ Settled(call[k], FALSE).pc = "failed" /\ Settled(call[k], FALSE).at = NoReplica
        /\ Settled(call[k], FALSE).owed = {}
        /\ Settled(call[k], FALSE).snapshot = NoSnapshot
        /\ Settled(call[k], FALSE).exported = NoSnapshot
    BY <2>1, SettledType
  <2> QED BY <2>2, <2>3
<1>5. Lasting
  <2>1. Answered \subseteq Answered'
    BY <1>2, <1>4 DEF Answered
  <2>2. \A k \in Calls : call[k].pc \in Late =>
          call'[k].pc \in Late /\ call'[k].at \in {call[k].at, NoReplica}
    BY <1>4 DEF Late
  <2> QED BY <1>1, <1>2, <1>4, <2>1, <2>2 DEF Lasting
<1>6. /\ trail' \in [Replicas -> Seq(Requests)]
      /\ lastEvent' \in [Replicas -> Requests \union {Genesis}]
      /\ reader' \in [Replicas -> [locked: BOOLEAN, head: Requests \union {Genesis}]]
      /\ pending' \in [Replicas -> Seq(Calls)] /\ restoring' \in [Replicas -> BOOLEAN]
  BY <1>0, <1>1 DEF TypeOK, Unlock, NotReading
<1>7. TypeOK'
  BY <1>0, <1>1, <1>2, <1>3, <1>6 DEF TypeOK, LineOK, QueueOK, Directory
<1>8. ASSUME NEW q \in Replicas PROVE LockOK(q)' /\ TrailOK(q)' /\ (q # r => trail'[q] = trail[q])
  <2>1. CASE q = r
    <3>1. trail'[q] = <<>> /\ ~reader'[q].locked
      BY <1>0, <1>1, <2>1 DEF TypeOK, Unlock, NotReading
    <3> QED BY <2>1, <3>1 DEF LockOK, TrailOK, ToSet
  <2>2. CASE q # r
    <3>1. /\ trail'[q] = trail[q] /\ reader'[q] = reader[q] /\ lastEvent'[q] = lastEvent[q]
          /\ \A p \in Replicas : reader'[p].locked => reader[p].locked
      BY <1>0, <1>1, <2>2 DEF TypeOK, Unlock, NotReading
    <3> QED BY <1>5, <3>1 DEF IInv, LockOK, TrailOK, HeadOfChain, Lasting
  <2> QED BY <2>1, <2>2
<1>9. StoreOK'
  <2>1. SnapshotOK([records |-> records, auditEvents |-> audit])'
    BY <1>5 DEF SnapshotOK, VerifyEvents, Lasting
  <2>2. \A k \in Directory : SnapshotOK(archives[k])'
    BY <1>1, <1>5, IInvParts DEF StoreOK, SnapshotOK, VerifyEvents, Lasting
  <2> QED BY <1>1, <2>1, <2>2 DEF StoreOK, Directory
<1>10. CreatedOK'
  <2>1. \A k \in Calls : call[k].pc \in Underway => call[k].at # NoReplica
    BY <1>0, RecoveryAssumption DEF LineOK, PlacedOK, TypeOK
  <2> QED BY <1>1, <1>4, <1>5, <2>1, CreatedStays DEF IInv
<1>11. ASSUME NEW k \in Calls, call'[k] # call[k] PROVE OfCall(k)'
  <2>1. call'[k].pc = "failed" /\ call'[k].owed \subseteq Answered
        /\ SnapshotOK(call'[k].snapshot) /\ SnapshotOK(call'[k].exported)
    BY <1>4, <1>11, NoSnapshotOK
  <2> QED BY <1>5, <2>1, OfCallPlain DEF Underway
<1>12. ASSUME NEW k \in Calls, call'[k] = call[k] PROVE OfCall(k)'
  <2>1. call[k].pc \in Underway => call[k].at # r /\ call[k].at \in Replicas
    BY <1>0, <1>3, <1>12 DEF Underway, LineOK, PlacedOK, TypeOK
  <2>2. call[k].pc = "flushing" => TrailMove(call[k].at)
    BY <1>8, <2>1 DEF TrailMove, Underway
  <2>3. call[k].pc \in {"flushing", "sealing", "importing"} => records' = records
    BY <2>1 DEF Underway
  <2>4. \A w \in Writes : write'[w].pc = "admitted" => write'[w] = write[w]
    BY <1>0, <1>1 DEF TypeOK
  <2> QED BY <1>5, <1>12, <2>2, <2>3, <2>4, CallKeeps
<1> QED BY <1>3, <1>5, <1>7, <1>8, <1>9, <1>10, <1>11, <1>12, Assemble

LEMMA RestartIInv == ASSUME IInv, NEW r \in Replicas, Restart(r) PROVE Lasting /\ IInv'
BY ForgetIInv DEF Restart, IInv, TypeOK, ContentOK

LEMMA TornImportIInv == ASSUME IInv, NEW k \in Calls, TornImport(k) PROVE Lasting /\ IInv'
<1> DEFINE r == call[k].at
<1>1. /\ mode = "json" /\ Running(k, "importing") /\ Forget(r)
      /\ records' = call[k].snapshot.records /\ audit' = audit
  BY DEF TornImport
<1>2. r \in Replicas /\ r \in serving
  BY <1>1, RunningFacts, IInvParts DEF Underway
<1>3. \A j \in Calls : call[j].pc \in Underway => call[j].at = r
  BY <1>1, <1>2 DEF IInv, PlacedOK
<1>4. call[k].snapshot \in Snapshot /\ SnapshotOK(call[k].snapshot)
  BY DEF IInv, TypeOK, CallState, ContentOK
<1>5. records' \subseteq Writes /\ SnapshotOK([records |-> records', auditEvents |-> audit])
  BY <1>1, <1>4 DEF Snapshot, SnapshotOK, IInv, ContentOK
<1> QED BY <1>1, <1>2, <1>3, <1>5, ForgetIInv

-----------------------------------------------------------------------------
(* The theorems.                                                             *)

LEMMA InitIInv == ASSUME Init PROVE IInv
<1>1. /\ mode \in Modes /\ serving \subseteq Replicas
      /\ mode = "json" => \E r \in Replicas : serving = {r}
      /\ records = {} /\ audit = <<>> /\ reader = [r \in Replicas |-> NotReading]
      /\ created = <<>> /\ archives = [k \in {} |-> NoSnapshot]
      /\ write = [w \in Writes |-> [at |-> NoReplica, pc |-> "new"]]
      /\ call = [k \in Calls |-> NewCall] /\ pending = [r \in Replicas |-> <<>>]
      /\ restoring = [r \in Replicas |-> FALSE] /\ trail = [r \in Replicas |-> <<>>]
      /\ lastEvent = [r \in Replicas |-> Genesis] /\ rejected = {}
  BY DEF Init
<1>2. Directory = {}
  BY <1>1 DEF Directory
<1>3. TypeOK
  <2>1. call \in [Calls -> CallState]
    BY <1>1, NewCallType
  <2>2. archives \in [Directory -> Snapshot]
    BY <1>1, <1>2
  <2> QED BY <1>1, <1>2, <2>1, <2>2 DEF TypeOK, NotReading
<1>4. \A k \in Calls : call[k].pc = "new" /\ call[k].owed = {}
                       /\ call[k].snapshot = NoSnapshot /\ call[k].exported = NoSnapshot
  BY <1>1, NewCallType DEF NewCall
<1>5. PlacedOK
  BY <1>1, <1>4 DEF PlacedOK, Underway
<1>6. ASSUME NEW r \in Replicas PROVE QueueOK(r) /\ GateOK(r) /\ LockOK(r) /\ TrailOK(r)
  BY <1>1, <1>4 DEF QueueOK, GateOK, Restores, LockOK, NotReading, TrailOK, ToSet, Underway
<1>7. ContentOK
  BY <1>1, <1>2, <1>4, NoSnapshotOK DEF ContentOK, SnapshotOK, VerifyEvents
<1>8. CreatedOK
  BY <1>1, <1>4 DEF CreatedOK
<1>9. ASSUME NEW k \in Calls PROVE CallOK(k) /\ FlushOK(k) /\ InFlightOK(k)
  BY <1>4 DEF CallOK, FlushOK, InFlightOK, Underway
<1> QED BY <1>3, <1>5, <1>6, <1>7, <1>8, <1>9 DEF IInv

LEMMA CallStepIInv == ASSUME IInv, NEW k \in Calls, CallStep(k) PROVE Lasting /\ IInv'
BY RefusedIInv, EnterIInv, VerifyIInv, DecryptIInv, FlushIInv, ExportIInv, SealIInv, ImportIInv
DEF CallStep

LEMMA ArrivalIInv == ASSUME IInv, Arrival PROVE Lasting /\ IInv'
BY AdmitIInv, RefuseIInv, TickIInv, RequestIInv DEF Arrival

LEMMA StutterIInv == ASSUME IInv, UNCHANGED vars PROVE IInv'
<1>1. /\ UNCHANGED <<mode, serving, records, audit, created, archives, call, serviceVars>>
      /\ UNCHANGED <<write, reader, trailVars>>
  BY DEF vars, storeVars
<1>2. Lasting
  BY <1>1 DEF Lasting, Answered, trailVars
<1>3. TypeOK'
  BY <1>1 DEF IInv, TypeOK, serviceVars, trailVars, Directory
<1>4. \A q \in Replicas : TrailMove(q) /\ LockOK(q)' /\ TrailOK(q)'
  BY <1>1, <1>2, TrailStays DEF IInv, TrailMove, trailVars
<1> QED BY <1>1, <1>2, <1>3, <1>4, WriteStep

LEMMA NextStep == ASSUME IInv, [Next]_vars PROVE IInv'
BY ArrivalIInv, StoreIInv, CallStepIInv, FailIInv, TornImportIInv, AppendReadIInv,
   AppendCommitIInv, AppendFailIInv, RestartIInv, StutterIInv
DEF Next, Append_

\* The inductive invariant: the events a call waits for end with the one it
\* awaits, an archive of a running call is older than those of other replicas
\* only, and no mutation was admitted behind a restore.
THEOREM Inductive == Spec => []IInv
<1>1. Init => IInv
  BY InitIInv
<1>2. IInv /\ [Next]_vars => IInv'
  BY NextStep
<1> QED BY <1>1, <1>2, PTL DEF Spec

\* Every variable keeps to its kind, and a chain of calls to its replica.
THEOREM TypeCorrect == Spec => []TypeOK
<1>1. IInv => TypeOK
  BY DEF IInv
<1> QED BY <1>1, Inductive, PTL

\* The audit chain of the store and of every archive verifies, with any number
\* of replicas that append, restore, fail and restart.
THEOREM ChainsVerify == Spec => []ChainVerifies
<1>1. IInv => ChainVerifies
  BY DEF IInv, ContentOK, SnapshotOK, ChainVerifies
<1> QED BY <1>1, Inductive, PTL

\* The gate of a replica is closed exactly while one restore of its is underway.
THEOREM GateIsExact == Spec => []GateMatchesRestore
<1>1. ASSUME IInv, NEW r \in Replicas
      PROVE  Cardinality({k \in ToSet(pending[r]) : call[k].op = "restore"})
                = IF restoring[r] THEN 1 ELSE 0
  <2> DEFINE restores == {k \in ToSet(pending[r]) : call[k].op = "restore"}
  <2>1. pending[r] \in Seq(Calls) /\ QueueOK(r) /\ GateOK(r)
    BY <1>1 DEF IInv, TypeOK
  <2>2. \A k : k \in restores <=> k \in Calls /\ Restores(k, r)
    BY <2>1, SetFacts DEF QueueOK, Restores
  <2>3. CASE restoring[r]
    <3>1. PICK k \in Calls : Restores(k, r)
      BY <2>1, <2>3 DEF GateOK
    <3>2. restores = {k}
      BY <2>1, <2>2, <3>1 DEF GateOK
    <3> QED BY <2>3, <3>2, FS_Singleton
  <2>4. CASE ~restoring[r]
    <3>1. restores = {}
      BY <2>1, <2>2, <2>4 DEF GateOK
    <3> QED BY <2>4, <3>1, FS_EmptySet
  <2> QED BY <2>3, <2>4
<1>2. IInv => GateMatchesRestore
  BY <1>1 DEF GateMatchesRestore
<1> QED BY <1>2, Inductive, PTL

\* The checkpoint of a restore is there when the restore replaces the store, or
\* retention removed it for as many archives of other replicas.
THEOREM CheckpointsKept == Spec => []CheckpointIsKept
<1>1. ASSUME IInv, NEW k \in Calls, call[k].pc = "importing"
      PROVE  \/ k \in Directory
             \/ Cardinality(Newer(k) \ {j \in Calls : call[j].at = call[k].at}) >= Retention
  <2>1. Newer(k) \ {j \in Calls : call[j].at = call[k].at} = Newer(k)
    BY <1>1 DEF IInv, CreatedOK
  <2> QED BY <1>1, <2>1 DEF IInv, CreatedOK
<1>2. IInv => CheckpointIsKept
  BY <1>1 DEF CheckpointIsKept
<1> QED BY <1>2, Inductive, PTL

\* What a replica had answered when it began an archive is in the archive, was
\* rejected by the store, or fell to a restore of another replica.
THEOREM AnsweredIsArchived == Spec => []ArchiveHoldsAnswered
<1>1. IInv => ArchiveHoldsAnswered
  BY DEF IInv, FlushOK, ArchiveHoldsAnswered
<1> QED BY <1>1, Inductive, PTL

\* A restore removes nothing that its checkpoint does not hold, but for what was
\* in flight when it began or came from another replica.
THEOREM RestoreLosesInFlightOnly == Spec => OnlyInFlightIsLost
<1>1. IInv /\ [Next]_vars =>
        [\A k \in Calls :
           call[k].pc = "importing" /\ records' = call[k].snapshot.records =>
               \A w \in records \ (records' \union call[k].exported.records) :
                   \/ write[w].at # call[k].at
                   \/ w \in call[k].inflight
                   \/ RestoredElsewhere(k)]_vars
  BY DEF IInv, CallOK, InFlightOK, Underway
<1> QED BY <1>1, Inductive, PTL DEF Spec, OnlyInFlightIsLost
=============================================================================
