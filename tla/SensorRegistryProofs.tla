------------------------ MODULE SensorRegistryProofs ------------------------
(* Proofs about SensorRegistry, for any number of organizations, tokens,     *)
(* identifiers, hosts and requests.  The argument: a row that has an         *)
(* organization keeps it, an event that is there stays as it is, and a       *)
(* request that was sent keeps what it was sent with (Kept).  So whatever a  *)
(* request or a host has read stays true while others move, and each action  *)
(* owes only the part of the one that moves.                                 *)
EXTENDS SensorRegistry, TLAPS

\* No name of the model is the missing one.
LEMMA NamesDiffer ==
    /\ None \notin Organizations /\ None \notin Tokens /\ None \notin Canaries
    /\ None \notin Ids /\ None \notin IncidentIds /\ None \notin Machines
    /\ None \notin Requests
BY NoneAssumption

\* What no step takes back.
Kept ==
    /\ \A t \in Tokens : tokens[t].org # None =>
          /\ tokens'[t].org = tokens[t].org
          /\ tokens[t].sensorId # None => tokens'[t].sensorId # None
    /\ \A c \in Canaries : canaries[c] # None => canaries'[c] = canaries[c]
    /\ \A s \in Ids : sensors[s].org # None => sensors'[s].org = sensors[s].org
    /\ \A r \in Requests : events[r].org # None => events'[r] = events[r]
    /\ \A r \in Requests : request[r].stage # "free" =>
          /\ request'[r].stage # "free" /\ request'[r].kind = request[r].kind
          /\ request'[r].of = request[r].of /\ request'[r].token = request[r].token
          /\ request'[r].claims = request[r].claims

RequestOK(r) == EnrollOK(r) /\ ReportOK(r) /\ BeaconOK(r) /\ EventOK(r)

\* The fields of the rows, as the proofs use them.
LEMMA RowTypes ==
    ASSUME TypeOK
    PROVE  /\ \A t \in Tokens : tokens[t].org \in Orgs /\ tokens[t].sensorId \in Ids \union {None}
           /\ \A s \in Ids : sensors[s].org \in Orgs
           /\ \A s \in Ids : sensors[s].access # None => sensors[s].org \in Organizations
           /\ \A r \in Requests : events[r].org \in Orgs
           /\ \A r \in Requests : events[r].org # None <=> events[r].sensor # None
           /\ \A r \in Requests : events[r].org # None =>
                 events[r].org \in Organizations /\ events[r].sensor \in Ids
           /\ \A i \in IncidentIds : /\ incidents[i].org \in Orgs
                                     /\ incidents[i].event \in Requests \union {None}
<1>1. ASSUME NEW t \in Tokens
      PROVE  tokens[t].org \in Orgs /\ tokens[t].sensorId \in Ids \union {None}
  BY DEF TypeOK, Token
<1>2. ASSUME NEW s \in Ids
      PROVE  /\ sensors[s].org \in Orgs
             /\ sensors[s].access # None => sensors[s].org \in Organizations
  BY DEF TypeOK, Sensor, NoSensor, Orgs
<1>3. ASSUME NEW r \in Requests
      PROVE  /\ events[r].org \in Orgs
             /\ events[r].org # None <=> events[r].sensor # None
             /\ events[r].org # None => events[r].org \in Organizations /\ events[r].sensor \in Ids
  BY NamesDiffer DEF TypeOK, EventRow, NoEvent, Orgs
<1>4. ASSUME NEW i \in IncidentIds
      PROVE  incidents[i].org \in Orgs /\ incidents[i].event \in Requests \union {None}
  BY DEF TypeOK, Incident
<1> QED BY <1>1, <1>2, <1>3, <1>4

\* The fields of a request.
LEMMA RequestTypes ==
    ASSUME TypeOK, NEW r \in Requests
    PROVE  /\ request[r] \in RequestState
           /\ request[r].kind \in Kinds /\ request[r].stage \in Stages
           /\ request[r].of \in Machines \union Canaries \union {None}
           /\ request[r].token \in Tokens \union {None}
           /\ request[r].claims \in Identity /\ request[r].row \in Sensor
           /\ request[r].claims.id \in Ids \union {None}
           /\ request[r].claims.access \in Requests \union {None}
BY DEF TypeOK, RequestState, Identity

\* Step moves one request, to a stage, and changes nothing else of it.
LEMMA StepTyped ==
    ASSUME TypeOK, NEW r \in Requests, NEW stage \in Stages, Step(r, stage)
    PROVE  /\ request' \in [Requests -> RequestState]
           /\ request'[r].stage = stage /\ request'[r].kind = request[r].kind
           /\ request'[r].of = request[r].of /\ request'[r].token = request[r].token
           /\ request'[r].claims = request[r].claims /\ request'[r].row = request[r].row
           /\ \A q \in Requests : q # r => request'[q] = request[q]
<1>1. request \in [Requests -> RequestState] /\ request[r] \in RequestState
  BY DEF TypeOK
<1>2. request' = [request EXCEPT ![r] = [request[r] EXCEPT !.stage = stage]]
  BY <1>1 DEF Step
<1>3. [request[r] EXCEPT !.stage = stage] \in RequestState
  BY <1>1 DEF RequestState
<1> QED BY <1>1, <1>2, <1>3 DEF RequestState

-----------------------------------------------------------------------------
(* What does not move keeps its part of the invariant.                       *)

LEMMA RequestKeeps ==
    ASSUME IInv, Kept, NEW r \in Requests,
           request'[r] = request[r], events'[r] = events[r]
    PROVE  RequestOK(r)'
<1>1. EnrollOK(r)'
  BY DEF IInv, Kept, EnrollOK
<1>2. ReportOK(r)'
  BY DEF IInv, Kept, ReportOK
<1>3. BeaconOK(r)'
  BY DEF IInv, Kept, BeaconOK
<1>4. EventOK(r)'
  BY DEF IInv, Kept, EventOK, At
<1> QED BY <1>1, <1>2, <1>3, <1>4 DEF RequestOK

LEMMA ClaimKeeps ==
    ASSUME IInv, Kept, NEW identity
    PROVE  /\ Claimed(identity) => Claimed(identity)'
           /\ Registered(identity) => Registered(identity)'
<1>1. Claimed(identity) => Claimed(identity)'
  BY DEF Kept, Claimed
<1>2. ASSUME Registered(identity) PROVE Registered(identity)'
  <2>1. /\ Claimed(identity) /\ identity.access \in Requests /\ identity.id \in Ids
        /\ sensors[identity.id].org = tokens[request[identity.access].token].org
    BY <1>2 DEF Registered, Claimed
  <2>2. /\ request[identity.access].token \in Tokens
        /\ tokens[request[identity.access].token].org # None
    BY <2>1 DEF IInv, EnrollOK, Claimed
  <2>3. request'[identity.access].token = request[identity.access].token
    BY <2>1 DEF Kept, Claimed
  <2> QED BY <1>1, <2>1, <2>2, <2>3 DEF Kept, Registered
<1> QED BY <1>1, <1>2

LEMMA MachineKeeps ==
    ASSUME IInv, Kept, NEW m \in Machines, machine'[m] = machine[m], file'[m] = file[m]
    PROVE  MachineOK(m)'
BY ClaimKeeps DEF IInv, MachineOK

LEMMA IncidentKeeps ==
    ASSUME IInv, Kept, NEW i \in IncidentIds, incidents'[i].org = incidents[i].org,
           incidents'[i].event = incidents[i].event
    PROVE  IncidentOK(i)'
BY RowTypes DEF IInv, Kept, IncidentOK

\* A step of one request, which may write a token or a sensor.
LEMMA RequestStep ==
    ASSUME IInv, Kept, TypeOK', NEW r \in Requests,
           \A q \in Requests : q # r => request'[q] = request[q] /\ events'[q] = events[q],
           RequestOK(r)',
           \A i \in IncidentIds :
              \/ /\ incidents'[i].org = incidents[i].org
                 /\ incidents'[i].event = incidents[i].event
              \/ IncidentOK(i)',
           UNCHANGED <<machine, file>>
    PROVE  IInv'
<1>1. ASSUME NEW q \in Requests PROVE RequestOK(q)'
  BY RequestKeeps
<1>2. ASSUME NEW m \in Machines PROVE MachineOK(m)'
  BY MachineKeeps
<1>3. ASSUME NEW i \in IncidentIds PROVE IncidentOK(i)'
  BY IncidentKeeps
<1> QED BY <1>1, <1>2, <1>3 DEF IInv, RequestOK

\* A step of a host: at most it sends one request.
LEMMA HostStep ==
    ASSUME IInv, Kept, TypeOK', NEW m \in Machines,
           \A n \in Machines : n # m => machine'[n] = machine[n] /\ file'[n] = file[n],
           \A r \in Requests : request'[r] = request[r] \/ RequestOK(r)',
           MachineOK(m)', UNCHANGED rows
    PROVE  IInv'
<1>1. ASSUME NEW q \in Requests PROVE RequestOK(q)'
  BY RequestKeeps DEF rows
<1>2. ASSUME NEW n \in Machines PROVE MachineOK(n)'
  BY MachineKeeps
<1>3. ASSUME NEW i \in IncidentIds PROVE IncidentOK(i)'
  BY IncidentKeeps DEF rows
<1> QED BY <1>1, <1>2, <1>3 DEF IInv, RequestOK

\* A step of an operator or of the clock.
LEMMA RowStep ==
    ASSUME IInv, Kept, TypeOK', UNCHANGED <<request, machine, file, events>>,
           \A i \in IncidentIds : /\ incidents'[i].org = incidents[i].org
                                  /\ incidents'[i].event = incidents[i].event
    PROVE  IInv'
<1>1. ASSUME NEW q \in Requests PROVE RequestOK(q)'
  BY RequestKeeps
<1>2. ASSUME NEW m \in Machines PROVE MachineOK(m)'
  BY MachineKeeps
<1>3. ASSUME NEW i \in IncidentIds PROVE IncidentOK(i)'
  BY IncidentKeeps
<1> QED BY <1>1, <1>2, <1>3 DEF IInv, RequestOK

-----------------------------------------------------------------------------
(* The actions of a controller.                                              *)

\* A statement that only looks, or is lost: the request moves, the rows do not.
LEMMA StageStep ==
    ASSUME IInv, NEW r \in Requests, NEW stage \in {"checked", "unique", "refused", "lost"},
           request[r].stage # "free",
           stage = "lost" \/ request[r].kind = "enroll" \/ request[r].stage = "sent",
           Step(r, stage), UNCHANGED <<rows, machine, file>>
    PROVE  Kept /\ IInv'
<1>1. /\ request' \in [Requests -> RequestState]
      /\ request'[r].stage = stage /\ request'[r].kind = request[r].kind
      /\ request'[r].of = request[r].of /\ request'[r].token = request[r].token
      /\ request'[r].claims = request[r].claims /\ request'[r].row = request[r].row
      /\ \A q \in Requests : q # r => request'[q] = request[q]
  BY StepTyped DEF IInv, Stages, Underway
<1>2. TypeOK'
  BY <1>1 DEF IInv, TypeOK, rows
<1>3. Kept
  BY <1>1 DEF Kept, rows
<1>4. RequestOK(r)'
  <2>1. EnrollOK(r)'
    BY <1>1 DEF IInv, EnrollOK, rows
  <2>2. ReportOK(r)' /\ BeaconOK(r)'
    BY <1>1 DEF IInv, ReportOK, BeaconOK, rows
  <2>3. EventOK(r)'
    BY <1>1 DEF IInv, EventOK, At, rows
  <2> QED BY <2>1, <2>2, <2>3 DEF RequestOK
<1> QED BY <1>1, <1>2, <1>3, <1>4, RequestStep DEF rows

LEMMA EnrollCheckIInv == ASSUME IInv, NEW r \in Requests, EnrollCheck(r) PROVE Kept /\ IInv'
<1>1. PICK stage \in {"checked", "refused"} : Step(r, stage)
  BY DEF EnrollCheck
<1> QED BY <1>1, StageStep DEF EnrollCheck, At

LEMMA EnrollConflictIInv == ASSUME IInv, NEW r \in Requests, EnrollConflict(r) PROVE Kept /\ IInv'
<1>1. PICK stage \in {"unique", "refused"} : Step(r, stage)
  BY DEF EnrollConflict
<1> QED BY <1>1, StageStep DEF EnrollConflict, At

LEMMA LoseIInv == ASSUME IInv, NEW r \in Requests, Lose(r) PROVE Kept /\ IInv'
BY StageStep DEF Lose, Underway

LEMMA EnrollAddIInv == ASSUME IInv, NEW r \in Requests, EnrollAdd(r) PROVE Kept /\ IInv'
<1> DEFINE id == request[r].claims.id
           org == tokens[request[r].token].org
<1>1. CASE ~ AddedFor(sensors[id], org)
  BY <1>1, StageStep DEF EnrollAdd, At, rows
<1>2. CASE AddedFor(sensors[id], org)
  <2>1. /\ request[r].kind = "enroll" /\ request[r].stage = "unique"
        /\ Step(r, "registered")
        /\ sensors' = [sensors EXCEPT ![id] = [org |-> org, access |-> r, online |-> TRUE]]
        /\ UNCHANGED <<tokens, canaries, events, incidents, machine, file>>
    BY <1>2 DEF EnrollAdd, At
  <2>2. id \in Ids /\ request[r].token \in Tokens /\ org # None /\ org \in Organizations
    BY <2>1 DEF IInv, EnrollOK, TypeOK, Token, Orgs
  <2>3. sensors[id].org \in {None, org}
    BY <1>2 DEF AddedFor
  <2>4. /\ request' \in [Requests -> RequestState]
        /\ request'[r].stage = "registered" /\ request'[r].kind = request[r].kind
        /\ request'[r].of = request[r].of /\ request'[r].token = request[r].token
        /\ request'[r].claims = request[r].claims /\ request'[r].row = request[r].row
        /\ \A q \in Requests : q # r => request'[q] = request[q]
    BY <2>1, StepTyped DEF IInv, Stages, Underway
  <2>5. /\ sensors' \in [Ids -> Sensor] /\ sensors'[id].org = org
        /\ \A s \in Ids : s # id => sensors'[s] = sensors[s]
    BY <2>1, <2>2 DEF IInv, TypeOK, Sensor
  <2>6. TypeOK'
    BY <2>1, <2>4, <2>5 DEF IInv, TypeOK
  <2>7. Kept
    BY <2>1, <2>2, <2>3, <2>4, <2>5 DEF Kept
  <2>8. RequestOK(r)'
    BY <2>1, <2>2, <2>4, <2>5 DEF RequestOK, IInv, EnrollOK, ReportOK, BeaconOK, EventOK, At
  <2> QED BY <2>1, <2>4, <2>6, <2>7, <2>8, RequestStep
<1> QED BY <1>1, <1>2

LEMMA EnrollMarkIInv == ASSUME IInv, NEW r \in Requests, EnrollMark(r) PROVE Kept /\ IInv'
<1>0. PICK t \in Tokens : t = request[r].token
  BY DEF EnrollMark, At, IInv, EnrollOK
<1>1. /\ request[r].kind = "enroll" /\ request[r].stage = "registered"
      /\ Step(r, "answered")
      /\ tokens' = [tokens EXCEPT ![request[r].token].sensorId = request[r].claims.id]
      /\ UNCHANGED <<canaries, sensors, events, incidents, machine, file>>
  BY DEF EnrollMark, At
<1>2. /\ request[r].claims.id \in Ids /\ tokens[t].org # None
      /\ sensors[request[r].claims.id].org = tokens[t].org
  BY <1>0, <1>1 DEF IInv, EnrollOK
<1>3. /\ request' \in [Requests -> RequestState]
      /\ request'[r].stage = "answered" /\ request'[r].kind = request[r].kind
      /\ request'[r].of = request[r].of /\ request'[r].token = request[r].token
      /\ request'[r].claims = request[r].claims /\ request'[r].row = request[r].row
      /\ \A q \in Requests : q # r => request'[q] = request[q]
  BY <1>1, StepTyped DEF IInv, Stages
<1>4. /\ tokens' \in [Tokens -> Token]
      /\ tokens'[t].org = tokens[t].org /\ tokens'[t].sensorId = request[r].claims.id
      /\ \A u \in Tokens : u # t => tokens'[u] = tokens[u]
  BY <1>0, <1>1, <1>2 DEF IInv, TypeOK, Token
<1>5. TypeOK'
  BY <1>1, <1>3, <1>4 DEF IInv, TypeOK
<1>6. Kept
  BY <1>1, <1>2, <1>3, <1>4, NamesDiffer DEF Kept
<1>7. RequestOK(r)'
  BY <1>0, <1>1, <1>2, <1>3, <1>4, NamesDiffer DEF RequestOK, IInv, EnrollOK, ReportOK, BeaconOK, EventOK, At
<1> QED BY <1>1, <1>3, <1>4, <1>5, <1>6, <1>7, RequestStep

LEMMA AuthorizeIInv == ASSUME IInv, NEW r \in Requests, Authorize(r) PROVE Kept /\ IInv'
<1> DEFINE id == request[r].claims.id
<1>1. id \in Ids /\ request[r].claims.access # None /\ request[r].kind \in {"heartbeat", "event"}
      /\ request[r].stage = "sent" /\ UNCHANGED <<rows, machine, file>>
  BY DEF Authorize, IInv, ReportOK
<1>2. /\ request \in [Requests -> RequestState] /\ request[r] \in RequestState
      /\ sensors[id] \in Sensor
  BY <1>1 DEF IInv, TypeOK
<1>3. CASE Step(r, "refused")
  BY <1>1, <1>3, StageStep
<1>4. CASE /\ request' = [request EXCEPT ![r].stage = "authorized", ![r].row = sensors[id]]
           /\ sensors[id].access = request[r].claims.access
  <2>1. /\ request' \in [Requests -> RequestState]
        /\ request'[r].stage = "authorized" /\ request'[r].kind = request[r].kind
        /\ request'[r].of = request[r].of /\ request'[r].token = request[r].token
        /\ request'[r].claims = request[r].claims /\ request'[r].row = sensors[id]
        /\ \A q \in Requests : q # r => request'[q] = request[q]
    BY <1>2, <1>4 DEF RequestState, Stages, Underway
  <2>2. sensors[id].org # None
    BY <1>1, <1>2, <1>4, NamesDiffer DEF Sensor, NoSensor
  <2>3. TypeOK'
    BY <1>1, <2>1 DEF IInv, TypeOK, rows
  <2>4. Kept
    BY <1>1, <2>1 DEF Kept, rows
  <2>5. RequestOK(r)'
    <3>1. EnrollOK(r)' /\ BeaconOK(r)'
      BY <1>1, <2>1 DEF EnrollOK, BeaconOK
    <3>2. ReportOK(r)'
      BY <1>1, <2>1, <2>2 DEF IInv, ReportOK, rows
    <3>3. EventOK(r)'
      BY <1>1, <2>1 DEF IInv, EventOK, At, rows
    <3> QED BY <3>1, <3>2, <3>3 DEF RequestOK
  <2> QED BY <1>1, <2>1, <2>3, <2>4, <2>5, RequestStep DEF rows
<1> QED BY <1>1, <1>3, <1>4 DEF Authorize

LEMMA HeartbeatIInv == ASSUME IInv, NEW r \in Requests, Heartbeat(r) PROVE Kept /\ IInv'
<1> DEFINE id == request[r].claims.id
<1>1. /\ request[r].kind = "heartbeat" /\ request[r].stage = "authorized" /\ id \in Ids
      /\ request[r].row.org # None /\ request[r].row.org = sensors[id].org
      /\ Step(r, "answered") /\ UNCHANGED <<tokens, canaries, events, incidents, machine, file>>
  BY DEF Heartbeat, At, IInv, ReportOK
<1>2. /\ request' \in [Requests -> RequestState]
      /\ request'[r].stage = "answered" /\ request'[r].kind = request[r].kind
      /\ request'[r].of = request[r].of /\ request'[r].token = request[r].token
      /\ request'[r].claims = request[r].claims /\ request'[r].row = request[r].row
      /\ \A q \in Requests : q # r => request'[q] = request[q]
  BY <1>1, StepTyped DEF IInv, Stages
<1>3. sensors' = [sensors EXCEPT ![id].online = TRUE]
  BY <1>1 DEF Heartbeat
<1>4. /\ sensors' \in [Ids -> Sensor]
      /\ \A s \in Ids : sensors'[s].org = sensors[s].org
  <2>1. sensors \in [Ids -> Sensor] /\ sensors[id].org # None
    BY <1>1 DEF IInv, TypeOK
  <2>2. sensors[id] \in [org: Organizations, access: Requests, online: BOOLEAN]
    BY <1>1, <2>1 DEF Sensor, NoSensor
  <2>3. /\ [sensors[id] EXCEPT !.online = TRUE] \in Sensor
        /\ [sensors[id] EXCEPT !.online = TRUE].org = sensors[id].org
    BY <2>2 DEF Sensor
  <2> QED BY <1>1, <1>3, <2>1, <2>3
<1>5. TypeOK'
  BY <1>1, <1>2, <1>4 DEF IInv, TypeOK
<1>6. Kept
  BY <1>1, <1>2, <1>4 DEF Kept
<1>7. RequestOK(r)'
  BY <1>1, <1>2, <1>4 DEF RequestOK, IInv, EnrollOK, ReportOK, BeaconOK, EventOK, At
<1> QED BY <1>1, <1>2, <1>5, <1>6, <1>7, RequestStep

LEMMA AddEventIInv == ASSUME IInv, NEW r \in Requests, AddEvent(r) PROVE Kept /\ IInv'
<1> DEFINE id == request[r].claims.id
<1>1. /\ request[r].kind = "event" /\ request[r].stage = "authorized" /\ id \in Ids
      /\ request[r].row.org # None /\ request[r].row.org = sensors[id].org
      /\ Step(r, "recorded") /\ UNCHANGED <<tokens, canaries, sensors, incidents, machine, file>>
      /\ events' = [events EXCEPT ![r] = [org |-> request[r].row.org, sensor |-> id]]
  BY DEF AddEvent, At, IInv, ReportOK
<1>2. /\ request' \in [Requests -> RequestState]
      /\ request'[r].stage = "recorded" /\ request'[r].kind = request[r].kind
      /\ request'[r].of = request[r].of /\ request'[r].token = request[r].token
      /\ request'[r].claims = request[r].claims /\ request'[r].row = request[r].row
      /\ \A q \in Requests : q # r => request'[q] = request[q]
  BY <1>1, StepTyped DEF IInv, Stages, Underway
<1>3. events[r].org = None
  BY <1>1 DEF IInv, EventOK
<1>4. /\ events' \in [Requests -> EventRow]
      /\ events'[r].org = request[r].row.org /\ events'[r].sensor = id
      /\ \A q \in Requests : q # r => events'[q] = events[q]
  BY <1>1, RowTypes DEF IInv, TypeOK, EventRow, Orgs
<1>5. TypeOK'
  BY <1>1, <1>2, <1>4 DEF IInv, TypeOK
<1>6. Kept
  BY <1>1, <1>2, <1>3, <1>4 DEF Kept
<1>7. RequestOK(r)'
  BY <1>1, <1>2, <1>4 DEF RequestOK, IInv, EnrollOK, ReportOK, BeaconOK, EventOK, At
<1> QED BY <1>1, <1>2, <1>4, <1>5, <1>6, <1>7, RequestStep

\* An incident opened for r, of an organization that the event has too.
LEMMA AddIncidentIInv ==
    ASSUME IInv, NEW r \in Requests, NEW i \in IncidentIds, NEW org \in Organizations,
           NEW event \in Requests \union {None}, event # None => events[event].org = org,
           request[r].kind = "beacon" \/ At(r, "event", "recorded"), request[r].stage # "free",
           AddIncident(r, i, org, event)
    PROVE  Kept /\ IInv' /\ (incidents[i].org # None => incidents'[i].org = incidents[i].org)
           /\ \A j \in IncidentIds : j # i => incidents'[j] = incidents[j]
<1>1. CASE ~ AddedFor(incidents[i], org)
  BY <1>1, StageStep DEF AddIncident, rows
<1>2. CASE AddedFor(incidents[i], org)
  <2>1. /\ Step(r, "answered") /\ UNCHANGED <<tokens, canaries, sensors, events, machine, file>>
        /\ incidents' = [incidents EXCEPT ![i] = [org |-> org, event |-> event, triaged |-> FALSE]]
    BY <1>2 DEF AddIncident
  <2>2. /\ request' \in [Requests -> RequestState]
        /\ request'[r].stage = "answered" /\ request'[r].kind = request[r].kind
        /\ request'[r].of = request[r].of /\ request'[r].token = request[r].token
        /\ request'[r].claims = request[r].claims /\ request'[r].row = request[r].row
        /\ \A q \in Requests : q # r => request'[q] = request[q]
    BY <2>1, StepTyped DEF IInv, Stages
  <2>3. /\ incidents' \in [IncidentIds -> Incident]
        /\ incidents'[i].org = org /\ incidents'[i].event = event
        /\ \A j \in IncidentIds : j # i => incidents'[j] = incidents[j]
    BY <2>1 DEF IInv, TypeOK, Incident, Orgs
  <2>4. TypeOK'
    BY <2>1, <2>2, <2>3 DEF IInv, TypeOK
  <2>5. Kept
    BY <2>1, <2>2 DEF Kept
  <2>6. RequestOK(r)'
    BY <2>1, <2>2 DEF RequestOK, IInv, EnrollOK, ReportOK, BeaconOK, EventOK, At
  <2>7. IncidentOK(i)'
    BY <2>1, <2>3, NamesDiffer DEF IncidentOK
  <2>8. incidents[i].org # None => incidents'[i].org = incidents[i].org
    BY <1>2, <2>3 DEF AddedFor
  <2> QED BY <2>1, <2>2, <2>3, <2>4, <2>5, <2>6, <2>7, <2>8, RequestStep
<1> QED BY <1>1, <1>2

LEMMA SensorIncidentIInv ==
    ASSUME IInv, NEW r \in Requests, NEW i \in IncidentIds, SensorIncident(r, i)
    PROVE  Kept /\ IInv' /\ (incidents[i].org # None => incidents'[i].org = incidents[i].org)
           /\ \A j \in IncidentIds : j # i => incidents'[j] = incidents[j]
<1>1. At(r, "event", "recorded") /\ AddIncident(r, i, request[r].row.org, r)
  BY DEF SensorIncident
<1>2. events[r].org = request[r].row.org /\ request[r].row.org # None
  BY <1>1 DEF IInv, EventOK, ReportOK, At
<1>3. request[r].row.org \in Organizations
  BY <1>2, RowTypes DEF IInv
<1> QED BY <1>1, <1>2, <1>3, AddIncidentIInv DEF At

LEMMA BeaconIncidentIInv ==
    ASSUME IInv, NEW r \in Requests, NEW i \in IncidentIds, BeaconIncident(r, i)
    PROVE  Kept /\ IInv' /\ (incidents[i].org # None => incidents'[i].org = incidents[i].org)
           /\ \A j \in IncidentIds : j # i => incidents'[j] = incidents[j]
<1>1. At(r, "beacon", "triggered") /\ AddIncident(r, i, canaries[request[r].of], None)
  BY DEF BeaconIncident
<1>2. canaries[request[r].of] \in Organizations
  BY <1>1 DEF IInv, BeaconOK, At, TypeOK, Orgs
<1> QED BY <1>1, <1>2, AddIncidentIInv DEF At

LEMMA BeaconIInv ==
    ASSUME IInv, NEW r \in Requests, NEW c \in Canaries, Beacon(c, r) PROVE Kept /\ IInv'
<1> DEFINE sent == [NewRequest EXCEPT !.kind = "beacon", !.stage = "triggered", !.of = c]
<1>1. /\ request[r].stage = "free" /\ canaries[c] # None
      /\ request' = [request EXCEPT ![r] = sent] /\ UNCHANGED <<rows, machine, file>>
  BY DEF Beacon
<1>2. sent \in RequestState /\ sent.kind = "beacon" /\ sent.stage = "triggered" /\ sent.of = c
  BY DEF NewRequest, RequestState, Kinds, Stages, Underway, Identity, NoIdentity, Sensor
<1>3. /\ request' \in [Requests -> RequestState] /\ request'[r] = sent
      /\ \A q \in Requests : q # r => request'[q] = request[q]
  BY <1>1, <1>2 DEF IInv, TypeOK
<1>4. events[r].org = None
  BY <1>1 DEF IInv, EventOK
<1>5. TypeOK'
  BY <1>1, <1>3 DEF IInv, TypeOK, rows
<1>6. Kept
  BY <1>1, <1>3 DEF Kept, rows
<1>7. RequestOK(r)'
  BY <1>1, <1>2, <1>3, <1>4 DEF RequestOK, EnrollOK, ReportOK, BeaconOK, EventOK, At, rows
<1> QED BY <1>1, <1>3, <1>5, <1>6, <1>7, RequestStep DEF rows

-----------------------------------------------------------------------------
(* The actions of a host.                                                    *)

\* A request that is sent is new: nothing was recorded for it yet.
LEMMA Sent ==
    ASSUME IInv, NEW m \in Machines, NEW r \in Requests, NEW kind \in Kinds \ {"beacon"},
           NEW token \in Tokens \union {None}, NEW claims \in Identity,
           claims.id \in Ids,
           kind = "enroll" => token \in Tokens /\ tokens[token].org # None,
           kind # "enroll" => claims.access # None,
           Send(m, r, kind, token, claims), UNCHANGED rows
    PROVE  /\ request' \in [Requests -> RequestState] /\ Kept /\ RequestOK(r)'
           /\ request'[r].kind = kind /\ request'[r].stage = "sent" /\ request'[r].claims = claims
           /\ \A q \in Requests : q # r => request'[q] = request[q]
<1> DEFINE sent == [kind |-> kind, stage |-> "sent", of |-> m, token |-> token,
                    claims |-> claims, row |-> NoSensor]
<1>1. request[r].stage = "free" /\ request' = [request EXCEPT ![r] = sent]
  BY DEF Send
<1>2. sent \in RequestState
  BY DEF RequestState, Kinds, Stages, Underway, Sensor
<1>3. /\ request' \in [Requests -> RequestState] /\ request'[r] = sent
      /\ \A q \in Requests : q # r => request'[q] = request[q]
  BY <1>1, <1>2 DEF IInv, TypeOK
<1>4. events[r].org = None
  BY <1>1 DEF IInv, EventOK
<1>5. Kept
  BY <1>1, <1>3 DEF Kept, rows
<1>6. RequestOK(r)'
  BY <1>3, <1>4 DEF RequestOK, EnrollOK, ReportOK, BeaconOK, EventOK, At, rows, Kinds
<1> QED BY <1>3, <1>5, <1>6

LEMMA EnrollIInv ==
    ASSUME IInv, NEW m \in Machines, NEW r \in Requests, NEW t \in Tokens, NEW id \in Ids,
           Enroll(m, r, t, id)
    PROVE  Kept /\ IInv'
<1> DEFINE claims == [id |-> id, access |-> None]
           identity == [id |-> id, access |-> r]
<1>1. /\ Send(m, r, "enroll", t, claims) /\ tokens[t].org # None /\ file[m] = NoIdentity
      /\ machine' = [machine EXCEPT ![m] = [stage |-> "enrolling", identity |-> identity]]
      /\ UNCHANGED <<rows, file>>
  BY DEF Enroll
<1>2. claims \in Identity /\ identity \in Identity
  BY DEF Identity
<1>3. /\ request' \in [Requests -> RequestState] /\ Kept /\ RequestOK(r)'
      /\ request'[r].kind = "enroll" /\ request'[r].stage = "sent" /\ request'[r].claims = claims
      /\ \A q \in Requests : q # r => request'[q] = request[q]
  BY <1>1, <1>2, Sent DEF Kinds
<1>4. TypeOK'
  BY <1>1, <1>2, <1>3 DEF IInv, TypeOK, rows
<1>5. /\ machine'[m].stage = "enrolling" /\ machine'[m].identity = identity
      /\ \A n \in Machines : n # m => machine'[n] = machine[n]
  BY <1>1 DEF IInv, TypeOK
<1>6. MachineOK(m)'
  BY <1>1, <1>3, <1>5 DEF MachineOK, Claimed
<1> QED BY <1>1, <1>3, <1>4, <1>5, <1>6, HostStep

LEMMA ReportIInv ==
    ASSUME IInv, NEW m \in Machines, NEW r \in Requests, NEW kind \in {"heartbeat", "event"},
           Report(m, r, kind)
    PROVE  Kept /\ IInv'
<1>1. /\ Send(m, r, kind, None, machine[m].identity) /\ machine[m].stage = "running"
      /\ UNCHANGED <<rows, machine, file>>
  BY DEF Report
<1>2. /\ machine[m].identity \in Identity /\ machine[m].identity.id \in Ids
      /\ machine[m].identity.access # None
  BY <1>1, NamesDiffer DEF IInv, TypeOK, MachineOK, Registered, Claimed
<1>3. /\ request' \in [Requests -> RequestState] /\ Kept /\ RequestOK(r)'
      /\ \A q \in Requests : q # r => request'[q] = request[q]
  BY <1>1, <1>2, Sent DEF Kinds
<1>4. TypeOK'
  BY <1>1, <1>3 DEF IInv, TypeOK, rows
<1>5. MachineOK(m)'
  BY <1>1, <1>3, MachineKeeps
<1> QED BY <1>1, <1>3, <1>4, <1>5, HostStep

\* A host that moves and sends nothing.
LEMMA MachineStep ==
    ASSUME IInv, NEW m \in Machines, UNCHANGED <<rows, request>>,
           machine' \in [Machines -> [stage: {"off", "enrolling", "running"}, identity: Identity]],
           file' \in [Machines -> Identity],
           \A n \in Machines : n # m => machine'[n] = machine[n] /\ file'[n] = file[n],
           MachineOK(m)'
    PROVE  Kept /\ IInv'
<1>1. TypeOK'
  BY DEF IInv, TypeOK, rows
<1>2. Kept
  BY DEF Kept, rows
<1> QED BY <1>1, <1>2, HostStep

LEMMA ResumeIInv == ASSUME IInv, NEW m \in Machines, Resume(m) PROVE Kept /\ IInv'
<1>1. /\ file[m] # NoIdentity /\ UNCHANGED <<rows, request, file>>
      /\ machine' = [machine EXCEPT ![m] = [stage |-> "running", identity |-> file[m]]]
  BY DEF Resume
<1>2. /\ machine' \in [Machines -> [stage: {"off", "enrolling", "running"}, identity: Identity]]
      /\ machine'[m].stage = "running" /\ machine'[m].identity = file[m]
      /\ \A n \in Machines : n # m => machine'[n] = machine[n]
  BY <1>1 DEF IInv, TypeOK
<1>3. MachineOK(m)'
  BY <1>1, <1>2 DEF IInv, MachineOK, Registered, Claimed, rows
<1> QED BY <1>1, <1>2, <1>3, MachineStep DEF IInv, TypeOK

LEMMA StopIInv == ASSUME IInv, NEW m \in Machines, Stop(m) PROVE Kept /\ IInv'
<1>1. /\ UNCHANGED <<rows, request, file>>
      /\ machine' = [machine EXCEPT ![m] = [stage |-> "off", identity |-> NoIdentity]]
  BY DEF Stop
<1>2. /\ machine' \in [Machines -> [stage: {"off", "enrolling", "running"}, identity: Identity]]
      /\ machine'[m].stage = "off"
      /\ \A n \in Machines : n # m => machine'[n] = machine[n]
  BY <1>1 DEF IInv, TypeOK, NoIdentity, Identity
<1>3. MachineOK(m)'
  BY <1>1, <1>2 DEF IInv, MachineOK, Registered, Claimed, rows
<1> QED BY <1>1, <1>2, <1>3, MachineStep DEF IInv, TypeOK

\* The answer is there, so the sensor is registered: the file may name it.
LEMMA SaveIInv == ASSUME IInv, NEW m \in Machines, Save(m) PROVE Kept /\ IInv'
<1> DEFINE identity == machine[m].identity
<1>1. /\ machine[m].stage = "enrolling" /\ request[identity.access].stage = "answered"
      /\ file' = [file EXCEPT ![m] = identity]
      /\ machine' = [machine EXCEPT ![m].stage = "running"]
      /\ UNCHANGED <<rows, request>>
  BY DEF Save
<1>2. /\ machine' \in [Machines -> [stage: {"off", "enrolling", "running"}, identity: Identity]]
      /\ machine'[m].stage = "running" /\ machine'[m].identity = identity
      /\ \A n \in Machines : n # m => machine'[n] = machine[n]
  BY <1>1 DEF IInv, TypeOK
<1>3. /\ file' \in [Machines -> Identity] /\ file'[m] = identity
      /\ \A n \in Machines : n # m => file'[n] = file[n]
  BY <1>1 DEF IInv, TypeOK
<1>4. Registered(identity)
  BY <1>1 DEF IInv, MachineOK, Registered, Claimed, EnrollOK
<1>5. MachineOK(m)'
  BY <1>1, <1>2, <1>3, <1>4 DEF MachineOK, Registered, Claimed, rows
<1> QED BY <1>1, <1>2, <1>3, <1>5, MachineStep

-----------------------------------------------------------------------------
(* The actions of an operator, and the clock.                                *)

LEMMA CreateTokenIInv ==
    ASSUME IInv, NEW t \in Tokens, NEW org \in Organizations, CreateToken(t, org)
    PROVE  Kept /\ IInv'
<1>1. /\ tokens[t].org = None
      /\ tokens' = [tokens EXCEPT ![t] = [org |-> org, live |-> TRUE, sensorId |-> None]]
      /\ UNCHANGED <<canaries, sensors, events, incidents, request, machine, file>>
  BY DEF CreateToken
<1>2. /\ tokens' \in [Tokens -> Token] /\ tokens'[t].sensorId = None
      /\ \A u \in Tokens : u # t => tokens'[u] = tokens[u]
  BY <1>1 DEF IInv, TypeOK, Token, Orgs
<1>3. TypeOK'
  BY <1>1, <1>2 DEF IInv, TypeOK
<1>4. Kept
  BY <1>1, <1>2 DEF Kept
<1> QED BY <1>1, <1>2, <1>3, <1>4, RowStep

LEMMA ExpireIInv == ASSUME IInv, NEW t \in Tokens, Expire(t) PROVE Kept /\ IInv'
<1>1. /\ tokens' = [tokens EXCEPT ![t].live = FALSE]
      /\ UNCHANGED <<canaries, sensors, events, incidents, request, machine, file>>
  BY DEF Expire
<1>2. /\ tokens' \in [Tokens -> Token]
      /\ \A u \in Tokens : /\ tokens'[u].sensorId = tokens[u].sensorId
                           /\ tokens'[u].org = tokens[u].org
  BY <1>1 DEF IInv, TypeOK, Token
<1>3. TypeOK'
  BY <1>1, <1>2 DEF IInv, TypeOK
<1>4. Kept
  BY <1>1, <1>2 DEF Kept
<1> QED BY <1>1, <1>2, <1>3, <1>4, RowStep

LEMMA CreateCanaryIInv ==
    ASSUME IInv, NEW c \in Canaries, NEW org \in Organizations, CreateCanary(c, org)
    PROVE  Kept /\ IInv'
<1>1. /\ canaries[c] = None /\ canaries' = [canaries EXCEPT ![c] = org]
      /\ UNCHANGED <<tokens, sensors, events, incidents, request, machine, file>>
  BY DEF CreateCanary
<1>2. TypeOK'
  BY <1>1 DEF IInv, TypeOK, Orgs
<1>3. Kept
  BY <1>1 DEF IInv, TypeOK, Kept
<1> QED BY <1>1, <1>2, <1>3, RowStep

LEMMA TriageIInv ==
    ASSUME IInv, NEW i \in IncidentIds, NEW org \in Organizations, Triage(i, org)
    PROVE  Kept /\ IInv' /\ \A j \in IncidentIds : incidents'[j].org = incidents[j].org
<1>1. /\ incidents' = [incidents EXCEPT ![i].triaged = TRUE]
      /\ UNCHANGED <<tokens, canaries, sensors, events, request, machine, file>>
  BY DEF Triage
<1>2. /\ incidents' \in [IncidentIds -> Incident]
      /\ \A j \in IncidentIds : /\ incidents'[j].org = incidents[j].org
                                /\ incidents'[j].event = incidents[j].event
  BY <1>1 DEF IInv, TypeOK, Incident
<1>3. TypeOK'
  BY <1>1, <1>2 DEF IInv, TypeOK
<1>4. Kept
  BY <1>1 DEF Kept
<1> QED BY <1>1, <1>2, <1>3, <1>4, RowStep

-----------------------------------------------------------------------------
(* The theorems.                                                             *)

LEMMA InitIInv == ASSUME Init PROVE IInv
<1>1. TypeOK
  BY DEF Init, TypeOK, Token, Orgs, Sensor, EventRow, Incident, RequestState, NewRequest,
         NoIdentity, Identity, Kinds, Stages
<1>2. ASSUME NEW r \in Requests PROVE EnrollOK(r) /\ ReportOK(r) /\ BeaconOK(r) /\ EventOK(r)
  BY DEF Init, NewRequest, NoEvent, EnrollOK, ReportOK, BeaconOK, EventOK, At
<1>3. ASSUME NEW m \in Machines PROVE MachineOK(m)
  BY DEF Init, MachineOK
<1>4. ASSUME NEW i \in IncidentIds PROVE IncidentOK(i)
  BY DEF Init, IncidentOK
<1> QED BY <1>1, <1>2, <1>3, <1>4 DEF IInv

LEMMA HandlerIInv == ASSUME IInv, NEW r \in Requests, Handler(r) PROVE Kept /\ IInv'
BY EnrollCheckIInv, EnrollConflictIInv, EnrollAddIInv, EnrollMarkIInv, AuthorizeIInv,
   HeartbeatIInv, AddEventIInv, SensorIncidentIInv, BeaconIncidentIInv, BeaconIInv, LoseIInv
DEF Handler

LEMMA SensorProcessIInv == ASSUME IInv, NEW m \in Machines, SensorProcess(m) PROVE Kept /\ IInv'
BY ResumeIInv, SaveIInv, StopIInv, EnrollIInv, ReportIInv DEF SensorProcess

LEMMA OperatorIInv == ASSUME IInv, NEW org \in Organizations, Operator(org) PROVE Kept /\ IInv'
BY CreateTokenIInv, CreateCanaryIInv, TriageIInv DEF Operator

LEMMA StutterIInv == ASSUME IInv, UNCHANGED vars PROVE Kept /\ IInv'
<1>1. TypeOK'
  BY DEF IInv, TypeOK, vars, rows
<1>2. Kept
  BY DEF Kept, vars, rows
<1> QED BY <1>1, <1>2, RowStep DEF vars, rows

\* Every step keeps the invariant, and what no step takes back.
LEMMA NextStep == ASSUME IInv, [Next]_vars PROVE Kept /\ IInv'
BY HandlerIInv, SensorProcessIInv, OperatorIInv, ExpireIInv, StutterIInv DEF Next

\* What a step does to the rows of the incidents.
LEMMA IncidentsStep ==
    ASSUME IInv, [Next]_vars, NEW i \in IncidentIds, incidents[i].org # None
    PROVE  incidents'[i].org = incidents[i].org
<1>1. ASSUME NEW r \in Requests, Handler(r) PROVE incidents'[i].org = incidents[i].org
  <2>1. CASE \E j \in IncidentIds : SensorIncident(r, j) \/ BeaconIncident(r, j)
    BY <2>1, SensorIncidentIInv, BeaconIncidentIInv
  <2>2. CASE UNCHANGED incidents
    BY <2>2
  <2> QED
    BY <1>1, <2>1, <2>2 DEF Handler, EnrollCheck, EnrollConflict, EnrollAdd, EnrollMark,
       Authorize, Heartbeat, AddEvent, Beacon, Lose, rows
<1>2. ASSUME NEW org \in Organizations, Operator(org) PROVE incidents'[i].org = incidents[i].org
  BY <1>2, TriageIInv DEF Operator, CreateToken, CreateCanary
<1>3. ASSUME NEW m \in Machines, SensorProcess(m) PROVE incidents' = incidents
  BY <1>3 DEF SensorProcess, Resume, Save, Stop, Enroll, Report, rows
<1>4. ASSUME NEW t \in Tokens, Expire(t) PROVE incidents' = incidents
  BY <1>4 DEF Expire
<1>5. CASE UNCHANGED vars
  BY <1>5 DEF vars, rows
<1> QED BY <1>1, <1>2, <1>3, <1>4, <1>5 DEF Next

\* Only EnrollAdd writes an access token.
LEMMA SensorsStep ==
    ASSUME IInv, [Next]_vars, NEW s \in Ids, sensors'[s].access # sensors[s].access
    PROVE  \E r \in Requests : /\ request[r].claims.id = s /\ At(r, "enroll", "unique")
                               /\ sensors'[s].access = r
<1>1. ASSUME NEW r \in Requests, EnrollAdd(r)
      PROVE  request[r].claims.id = s /\ At(r, "enroll", "unique") /\ sensors'[s].access = r
  BY <1>1 DEF EnrollAdd, IInv, TypeOK
<1>2. ASSUME NEW r \in Requests, Heartbeat(r) PROVE FALSE
  <2>1. PICK id \in Ids : sensors' \in {sensors, [sensors EXCEPT ![id].online = TRUE]}
    BY <1>2 DEF Heartbeat, At, IInv, ReportOK
  <2>2. sensors \in [Ids -> Sensor]
    BY DEF IInv, TypeOK
  <2>3. sensors[id] \in Sensor
    BY <2>2
  <2>4. [sensors[id] EXCEPT !.online = TRUE].access = sensors[id].access
    BY <2>3 DEF Sensor, NoSensor
  <2> QED BY <2>1, <2>2, <2>4
<1>3. ASSUME NEW r \in Requests, Handler(r), ~ EnrollAdd(r), ~ Heartbeat(r) PROVE FALSE
  BY <1>3 DEF Handler, EnrollCheck, EnrollConflict, EnrollMark, Authorize, AddEvent, SensorIncident,
     BeaconIncident, AddIncident, Beacon, Lose, rows
<1>4. ASSUME NEW org \in Organizations, Operator(org) PROVE FALSE
  BY <1>4 DEF Operator, CreateToken, CreateCanary, Triage
<1>5. ASSUME NEW m \in Machines, SensorProcess(m) PROVE FALSE
  BY <1>5 DEF SensorProcess, Resume, Save, Stop, Enroll, Report, rows
<1>6. ASSUME NEW t \in Tokens, Expire(t) PROVE FALSE
  BY <1>6 DEF Expire
<1>7. ~ UNCHANGED vars
  BY DEF vars, rows
<1> QED BY <1>1, <1>2, <1>3, <1>4, <1>5, <1>6, <1>7 DEF Next

\* Only EnrollCheck lets an enrollment go on, and it saw the token unused.
LEMMA CheckedUnused ==
    ASSUME IInv, [Next]_vars, NEW r \in Requests, At(r, "enroll", "sent"),
           request'[r].stage = "checked"
    PROVE  tokens[request[r].token].sensorId = None
<1>1. request \in [Requests -> RequestState] /\ request[r].stage = "sent" /\ request[r].kind = "enroll"
  BY DEF IInv, TypeOK, At
<1>2. ASSUME NEW q \in Requests, Handler(q) PROVE EnrollCheck(r)
  <2>1. CASE EnrollCheck(q)
    BY <1>1, <2>1 DEF EnrollCheck, Step
  <2>2. CASE Authorize(q)
    BY <1>1, <2>2 DEF Authorize, Step
  <2>3. CASE \E c \in Canaries : Beacon(c, q)
    BY <1>1, <2>3 DEF Beacon
  <2>4. ASSUME NEW stage \in Stages, Step(q, stage), stage # "checked" PROVE FALSE
    BY <1>1, <2>4 DEF Step
  <2> QED
    BY <1>1, <1>2, <2>1, <2>2, <2>3, <2>4
    DEF Handler, EnrollConflict, EnrollAdd, EnrollMark, Heartbeat, AddEvent, SensorIncident,
        BeaconIncident, AddIncident, Lose, Stages, Underway
<1>3. ASSUME NEW org \in Organizations, Operator(org) PROVE FALSE
  BY <1>1, <1>3 DEF Operator, CreateToken, CreateCanary, Triage
<1>4. ASSUME NEW m \in Machines, SensorProcess(m) PROVE FALSE
  BY <1>1, <1>4 DEF SensorProcess, Resume, Save, Stop, Enroll, Report, Send
<1>5. ASSUME NEW t \in Tokens, Expire(t) PROVE FALSE
  BY <1>1, <1>5 DEF Expire
<1>6. ~ UNCHANGED vars
  BY <1>1 DEF vars
<1>7. EnrollCheck(r)
  BY <1>2, <1>3, <1>4, <1>5, <1>6 DEF Next
<1> QED BY <1>1, <1>7 DEF EnrollCheck, Step

\* The inductive invariant: what a request or a host has read of a token, a
\* sensor or a canary holds still, whatever the others did since.
THEOREM Inductive == Spec => []IInv
<1>1. Init => IInv
  BY InitIInv
<1>2. IInv /\ [Next]_vars => IInv'
  BY NextStep
<1> QED BY <1>1, <1>2, PTL DEF Spec

\* Every variable keeps to its kind: rows, requests, processes and files.
THEOREM TypeCorrect == Spec => []TypeOK
<1>1. IInv => TypeOK
  BY DEF IInv
<1> QED BY <1>1, Inductive, PTL

\* An answered enrollment has spent its token for good: what checks it after
\* that, on whatever controller, is refused.
THEOREM TokensAreSpent == Spec => TokenIsSpent
<1>1. ASSUME IInv, [Next]_vars, NEW q \in Requests, NEW r \in Requests,
             At(q, "enroll", "answered"), At(r, "enroll", "sent"),
             request[r].token = request[q].token
      PROVE  request'[r].stage # "checked"
  <2>1. tokens[request[r].token].sensorId # None
    BY <1>1 DEF IInv, EnrollOK, At
  <2>. QED
    BY <1>1, <2>1, CheckedUnused
<1>2. IInv /\ [Next]_vars =>
        [\A q, r \in Requests :
           /\ At(q, "enroll", "answered")
           /\ At(r, "enroll", "sent") /\ request[r].token = request[q].token
           => request'[r].stage # "checked"]_vars
  BY <1>1
<1> QED BY <1>2, Inductive, PTL DEF Spec, TokenIsSpent

\* What a host has in its state file is registered, in the organization whose
\* token the host was given.
THEOREM SavedIdentities == Spec => []SavedIdentityIsRegistered
<1>1. IInv => SavedIdentityIsRegistered
  BY DEF IInv, MachineOK, Registered, SavedIdentityIsRegistered
<1> QED BY <1>1, Inductive, PTL

\* Events are of the organization of their sensor and incidents of that of
\* their event, although both were read some statements before.
THEOREM EvidenceIsolated == Spec => []EvidenceInItsOrganization
<1>1. ASSUME IInv PROVE EvidenceInItsOrganization
  <2>1. ASSUME NEW r \in Requests, events[r].sensor # None
        PROVE  events[r].org = sensors[events[r].sensor].org
    BY <1>1, <2>1, RowTypes DEF IInv, EventOK
  <2>2. ASSUME NEW i \in IncidentIds, incidents[i].event # None
        PROVE  incidents[i].org = events[incidents[i].event].org
    BY <1>1, <2>2 DEF IInv, IncidentOK
  <2> QED BY <2>1, <2>2 DEF EvidenceInItsOrganization
<1> QED BY <1>1, Inductive, PTL

\* No step of any controller, host or operator moves a sensor or an incident
\* from one organization to another.
THEOREM OrganizationsKept == Spec => OrganizationIsKept
<1>1. IInv /\ [Next]_vars =>
        [/\ \A s \in Ids : sensors[s].org # None => sensors'[s].org = sensors[s].org
         /\ \A i \in IncidentIds : incidents[i].org # None =>
              incidents'[i].org = incidents[i].org]_vars
  BY NextStep, IncidentsStep DEF Kept
<1> QED BY <1>1, Inductive, PTL DEF Spec, OrganizationIsKept

\* An access token comes from an enrollment only: no heartbeat writes back the
\* row it read before the sensor was enrolled again.
THEOREM IdentityComesFromEnrollment == Spec => IdentityChangesByEnrollment
<1>1. IInv /\ [Next]_vars =>
        [\A s \in Ids : sensors'[s].access # sensors[s].access =>
           \E r \in Requests : request[r].claims.id = s /\ At(r, "enroll", "unique")
                               /\ sensors'[s].access = r]_vars
  BY SensorsStep
<1> QED BY <1>1, Inductive, PTL DEF Spec, IdentityChangesByEnrollment
=============================================================================
