--------------------------- MODULE SensorRegistry ---------------------------
(* Enrollment, heartbeats and evidence: the sensor routes of                 *)
(* server/sensor-api.js, the canary and incident routes of server/index.js,  *)
(* add and update of the PostgreSQL store (server/store.js), and the start   *)
(* of the sensor with its state file (sensor/cmd, internal/state).           *)
(*                                                                           *)
(* Several controllers answer at once: a request takes one step per          *)
(* statement, and may be lost before any of them.  Each request is made      *)
(* once, and is itself the access token, the event and the answer that come  *)
(* of it.                                                                    *)
EXTENDS Naturals, FiniteSets

CONSTANTS
    Organizations,
    Tokens,         \* enrollment tokens
    Canaries,       \* canary tokens
    Ids,            \* sensor identifiers, configured or drawn
    IncidentIds,    \* what randomInt may draw
    Machines,       \* hosts that run a sensor
    Requests,
    None

ASSUME NoneAssumption ==
    None \notin Organizations \union Tokens \union Canaries \union Ids
                    \union IncidentIds \union Machines \union Requests

VARIABLES
    tokens,         \* sensorEnrollmentTokens
    canaries,       \* the organization of each row of "tokens"
    sensors,        \* the rows of "sensors", by identifier
    events,         \* the rows of "sensorEvents", by the request they came with
    incidents,      \* the rows of "incidents", by identifier
    request,        \* progress of each request
    machine,        \* the sensor process of each host
    file            \* its state file

rows == <<tokens, canaries, sensors, events, incidents>>
vars == <<rows, request, machine, file>>

Orgs == Organizations \union {None}
Identity == [id: Ids \union {None}, access: Requests \union {None}]
NoIdentity == [id |-> None, access |-> None]

\* organizationId, and usedAt with the sensorId it was used for.
Token == [org: Orgs, live: BOOLEAN, sensorId: Ids \union {None}]
NoSensor == [org |-> None, access |-> None, online |-> FALSE]
Sensor == {NoSensor} \union [org: Organizations, access: Requests, online: BOOLEAN]
NoEvent == [org |-> None, sensor |-> None]
EventRow == {NoEvent} \union [org: Organizations, sensor: Ids]
Incident == [org: Orgs, event: Requests \union {None}, triaged: BOOLEAN]

Underway == {"sent", "checked", "unique", "registered", "authorized", "recorded", "triggered"}
Stages == {"free", "answered", "refused", "lost"} \union Underway
Kinds == {"enroll", "heartbeat", "event", "beacon"}

\* row: the sensor row that the handler read for the request.
RequestState == [kind: Kinds, stage: Stages, of: Machines \union Canaries \union {None},
                 token: Tokens \union {None}, claims: Identity, row: Sensor]
NewRequest == [kind |-> "enroll", stage |-> "free", of |-> None, token |-> None,
               claims |-> NoIdentity, row |-> NoSensor]

Init ==
    /\ tokens = [t \in Tokens |-> [org |-> None, live |-> FALSE, sensorId |-> None]]
    /\ canaries = [c \in Canaries |-> None]
    /\ sensors = [s \in Ids |-> NoSensor]
    /\ events = [r \in Requests |-> NoEvent]
    /\ incidents = [i \in IncidentIds |-> [org |-> None, event |-> None, triaged |-> FALSE]]
    /\ request = [r \in Requests |-> NewRequest]
    /\ machine = [m \in Machines |-> [stage |-> "off", identity |-> NoIdentity]]
    /\ file = [m \in Machines |-> NoIdentity]

\* Mutant: the upsert is not restricted to the organization.
AddedFor_Anyone(row, org) == TRUE

\* add with ON CONFLICT DO UPDATE: a row of another organization is an error.
AddedFor(row, org) == row.org \in {None, org}

Step(r, stage) == request' = [request EXCEPT ![r].stage = stage]

At(r, kind, stage) == request[r].kind = kind /\ request[r].stage = stage

-----------------------------------------------------------------------------
(* Operators of an organization *)

CreateToken(t, org) ==
    /\ tokens[t].org = None
    /\ tokens' = [tokens EXCEPT ![t] = [org |-> org, live |-> TRUE, sensorId |-> None]]
    /\ UNCHANGED <<canaries, sensors, events, incidents, request, machine, file>>

\* The clock passes expiresAt.  A token that was used is refused in any case.
Expire(t) ==
    /\ tokens[t].live /\ tokens[t].sensorId = None
    /\ tokens' = [tokens EXCEPT ![t].live = FALSE]
    /\ UNCHANGED <<canaries, sensors, events, incidents, request, machine, file>>

CreateCanary(c, org) ==
    /\ canaries[c] = None
    /\ canaries' = [canaries EXCEPT ![c] = org]
    /\ UNCHANGED <<tokens, sensors, events, incidents, request, machine, file>>

\* The incident route updates within the organization of its caller.
Triage(i, org) ==
    /\ incidents[i].org = org
    /\ incidents' = [incidents EXCEPT ![i].triaged = TRUE]
    /\ UNCHANGED <<tokens, canaries, sensors, events, request, machine, file>>

-----------------------------------------------------------------------------
(* Enrollment, on a controller *)

EnrollCheck(r) ==
    /\ At(r, "enroll", "sent")
    /\ LET token == tokens[request[r].token]
       IN Step(r, IF token.live /\ token.sensorId = None THEN "checked" ELSE "refused")
    /\ UNCHANGED <<rows, machine, file>>

\* Mutant: the token is marked as soon as the identifier is known to be free.
EnrollConflict_MarkFirst(r) ==
    LET free == sensors[request[r].claims.id].org = None
    IN  /\ At(r, "enroll", "checked")
        /\ Step(r, IF free THEN "unique" ELSE "refused")
        /\ tokens' = IF free
                     THEN [tokens EXCEPT ![request[r].token].sensorId = request[r].claims.id]
                     ELSE tokens
        /\ UNCHANGED <<canaries, sensors, events, incidents, machine, file>>

EnrollConflict(r) ==
    /\ At(r, "enroll", "checked")
    /\ Step(r, IF sensors[request[r].claims.id].org = None THEN "unique" ELSE "refused")
    /\ UNCHANGED <<rows, machine, file>>

\* Mutant: an identifier that is taken by now is taken to be this sensor.
EnrollAdd_ConflictIgnored(r) ==
    LET id == request[r].claims.id  org == tokens[request[r].token].org
    IN  /\ At(r, "enroll", "unique")
        /\ sensors' = IF AddedFor(sensors[id], org)
                      THEN [sensors EXCEPT ![id] =
                              [org |-> org, access |-> r, online |-> TRUE]]
                      ELSE sensors
        /\ Step(r, "registered")
        /\ UNCHANGED <<tokens, canaries, events, incidents, machine, file>>

\* Mutant: the row gets no organization.
EnrollAdd_NoScope(r) ==
    /\ At(r, "enroll", "unique")
    /\ sensors' = [sensors EXCEPT ![request[r].claims.id] =
                     [org |-> None, access |-> r, online |-> TRUE]]
    /\ Step(r, "registered")
    /\ UNCHANGED <<tokens, canaries, events, incidents, machine, file>>

EnrollAdd(r) ==
    LET id == request[r].claims.id  org == tokens[request[r].token].org
    IN  /\ At(r, "enroll", "unique")
        /\ IF AddedFor(sensors[id], org)
           THEN /\ sensors' = [sensors EXCEPT ![id] =
                                [org |-> org, access |-> r, online |-> TRUE]]
                /\ Step(r, "registered")
           ELSE Step(r, "refused") /\ UNCHANGED sensors
        /\ UNCHANGED <<tokens, canaries, events, incidents, machine, file>>

\* Mutant: the answer does not wait for the update of the token, which may fail.
EnrollMark_NotAwaited(r) ==
    /\ At(r, "enroll", "registered")
    /\ \/ tokens' = [tokens EXCEPT ![request[r].token].sensorId = request[r].claims.id]
       \/ UNCHANGED tokens
    /\ Step(r, "answered")
    /\ UNCHANGED <<canaries, sensors, events, incidents, machine, file>>

EnrollMark(r) ==
    /\ At(r, "enroll", "registered")
    /\ tokens' = [tokens EXCEPT ![request[r].token].sensorId = request[r].claims.id]
    /\ Step(r, "answered")
    /\ UNCHANGED <<canaries, sensors, events, incidents, machine, file>>

-----------------------------------------------------------------------------
(* Heartbeats and evidence, on a controller *)

\* authorizeSensor: the bearer token against the row.
Authorize(r) ==
    /\ request[r].kind \in {"heartbeat", "event"} /\ request[r].stage = "sent"
    /\ LET row == sensors[request[r].claims.id]
       IN  IF row.access = request[r].claims.access
           THEN request' = [request EXCEPT ![r].stage = "authorized", ![r].row = row]
           ELSE Step(r, "refused")
    /\ UNCHANGED <<rows, machine, file>>

\* Mutant: the row that was read is written back.
Heartbeat_WholeRow(r) ==
    /\ At(r, "heartbeat", "authorized")
    /\ sensors' = [sensors EXCEPT ![request[r].claims.id] =
                     [request[r].row EXCEPT !.online = TRUE]]
    /\ Step(r, "answered")
    /\ UNCHANGED <<tokens, canaries, events, incidents, machine, file>>

\* update merges the health of the sensor into the row as it is now.
Heartbeat(r) ==
    LET id == request[r].claims.id
    IN  /\ At(r, "heartbeat", "authorized")
        /\ sensors' = IF sensors[id].org = request[r].row.org
                      THEN [sensors EXCEPT ![id].online = TRUE] ELSE sensors
        /\ Step(r, "answered")
        /\ UNCHANGED <<tokens, canaries, events, incidents, machine, file>>

AddEvent(r) ==
    /\ At(r, "event", "authorized")
    /\ events' = [events EXCEPT ![r] =
                    [org |-> request[r].row.org, sensor |-> request[r].claims.id]]
    /\ Step(r, "recorded")
    /\ UNCHANGED <<tokens, canaries, sensors, incidents, machine, file>>

\* The identifier of an incident is drawn, and add replaces the row that has it.
AddIncident(r, i, org, event) ==
    /\ IF AddedFor(incidents[i], org)
       THEN /\ incidents' = [incidents EXCEPT ![i] =
                               [org |-> org, event |-> event, triaged |-> FALSE]]
            /\ Step(r, "answered")
       ELSE Step(r, "lost") /\ UNCHANGED incidents
    /\ UNCHANGED <<tokens, canaries, sensors, events, machine, file>>

SensorIncident(r, i) == At(r, "event", "recorded") /\ AddIncident(r, i, request[r].row.org, r)

\* The beacon route marks the canary and opens an incident.
Beacon(c, r) ==
    /\ request[r].stage = "free" /\ canaries[c] # None
    /\ request' = [request EXCEPT ![r] =
                     [NewRequest EXCEPT !.kind = "beacon", !.stage = "triggered", !.of = c]]
    /\ UNCHANGED <<rows, machine, file>>

BeaconIncident(r, i) ==
    At(r, "beacon", "triggered") /\ AddIncident(r, i, canaries[request[r].of], None)

\* A statement fails, or the controller stops.
Lose(r) ==
    /\ request[r].stage \in Underway
    /\ Step(r, "lost")
    /\ UNCHANGED <<rows, machine, file>>

-----------------------------------------------------------------------------
(* The sensor *)

Send(m, r, kind, token, claims) ==
    /\ request[r].stage = "free"
    /\ request' = [request EXCEPT ![r] = [kind |-> kind, stage |-> "sent", of |-> m,
                     token |-> token, claims |-> claims, row |-> NoSensor]]

\* state.Load found an identity.
Resume(m) ==
    /\ machine[m].stage = "off" /\ file[m] # NoIdentity
    /\ machine' = [machine EXCEPT ![m] = [stage |-> "running", identity |-> file[m]]]
    /\ UNCHANGED <<rows, request, file>>

\* It found none: Enroll with the configured token and identifier.
Enroll(m, r, t, id) ==
    /\ machine[m].stage = "off" /\ file[m] = NoIdentity
    /\ tokens[t].org # None
    /\ Send(m, r, "enroll", t, [id |-> id, access |-> None])
    /\ machine' = [machine EXCEPT ![m] = [stage |-> "enrolling",
                                          identity |-> [id |-> id, access |-> r]]]
    /\ UNCHANGED <<rows, file>>

\* Save writes another file and renames it once the answer is complete.
Save(m) ==
    /\ machine[m].stage = "enrolling"
    /\ request[machine[m].identity.access].stage = "answered"
    /\ file' = [file EXCEPT ![m] = machine[m].identity]
    /\ machine' = [machine EXCEPT ![m].stage = "running"]
    /\ UNCHANGED <<rows, request>>

Report(m, r, kind) ==
    /\ machine[m].stage = "running"
    /\ Send(m, r, kind, None, machine[m].identity)
    /\ UNCHANGED <<rows, machine, file>>

\* It is refused, gives up after ten seconds, whether or not there is an answer, or
\* is stopped: a supervisor may start it again while the controller still works on
\* the request.
Stop(m) ==
    /\ machine[m].stage # "off"
    /\ machine' = [machine EXCEPT ![m] = [stage |-> "off", identity |-> NoIdentity]]
    /\ UNCHANGED <<rows, request, file>>

-----------------------------------------------------------------------------
Handler(r) ==
    \/ EnrollCheck(r) \/ EnrollConflict(r) \/ EnrollAdd(r) \/ EnrollMark(r)
    \/ Authorize(r) \/ Heartbeat(r) \/ AddEvent(r)
    \/ \E i \in IncidentIds : SensorIncident(r, i) \/ BeaconIncident(r, i)
    \/ \E c \in Canaries : Beacon(c, r)
    \/ Lose(r)

Operator(org) ==
    \/ \E t \in Tokens : CreateToken(t, org)
    \/ \E c \in Canaries : CreateCanary(c, org)
    \/ \E i \in IncidentIds : Triage(i, org)

SensorProcess(m) ==
    \/ Resume(m) \/ Save(m) \/ Stop(m)
    \/ \E r \in Requests :
        \/ \E t \in Tokens, id \in Ids : Enroll(m, r, t, id)
        \/ \E kind \in {"heartbeat", "event"} : Report(m, r, kind)

Next ==
    \/ \E r \in Requests : Handler(r)
    \/ \E org \in Organizations : Operator(org)
    \/ \E t \in Tokens : Expire(t)
    \/ \E m \in Machines : SensorProcess(m)

Spec == Init /\ [][Next]_vars

-----------------------------------------------------------------------------
\* Every variable holds a value of its kind.
TypeOK ==
    /\ tokens \in [Tokens -> Token]
    /\ canaries \in [Canaries -> Orgs]
    /\ sensors \in [Ids -> Sensor]
    /\ events \in [Requests -> EventRow]
    /\ incidents \in [IncidentIds -> Incident]
    /\ request \in [Requests -> RequestState]
    /\ machine \in [Machines -> [stage: {"off", "enrolling", "running"}, identity: Identity]]
    /\ file \in [Machines -> Identity]

\* An identity in a state file is a registered sensor of the organization whose
\* token the host was given, whatever was enrolled at the same time.
SavedIdentityIsRegistered ==
    \A m \in Machines : file[m] # NoIdentity =>
        sensors[file[m].id].org = tokens[request[file[m].access].token].org

\* An event belongs to the organization that has the sensor now, and an
\* incident to that of its event, although identifiers of incidents collide and
\* the sensor was authorized some statements earlier.
EvidenceInItsOrganization ==
    /\ \A r \in Requests : events[r].sensor # None =>
        events[r].org = sensors[events[r].sensor].org
    /\ \A i \in IncidentIds : incidents[i].event # None =>
        incidents[i].org = events[incidents[i].event].org

\* Once an enrollment was answered, whether or not the answer arrived, no other
\* passes the check of its token any more, on any controller and for any sensor.
\* So two sensors come of one token only if the second was checked while the first
\* was still in progress (sensor-api.js:187), or if the first was lost on the way.
TokenIsSpent ==
    [][\A q, r \in Requests :
         /\ At(q, "enroll", "answered")
         /\ At(r, "enroll", "sent") /\ request[r].token = request[q].token
         => request'[r].stage # "checked"]_vars

\* No sensor and no incident ever moves to another organization.
OrganizationIsKept ==
    [][/\ \A s \in Ids : sensors[s].org # None => sensors'[s].org = sensors[s].org
       /\ \A i \in IncidentIds : incidents[i].org # None =>
            incidents'[i].org = incidents[i].org]_vars

\* The access token of a sensor is only replaced by an enrollment that found its
\* identifier free: what a heartbeat read before does not come back.
IdentityChangesByEnrollment ==
    [][\A s \in Ids : sensors'[s].access # sensors[s].access =>
         \E r \in Requests : request[r].claims.id = s /\ At(r, "enroll", "unique")
                             /\ sensors'[s].access = r]_vars

-----------------------------------------------------------------------------
(* The inductive invariant: what a request or a host that has read a row may *)
(* still rely on, however long ago that was.  No row ever loses its          *)
(* organization, and a request keeps what it was sent with.                  *)

\* Enrollment r has named a token and an identifier; once the sensor is added,
\* the row is of the organization of the token, which is marked by the answer.
EnrollOK(r) ==
    request[r].kind = "enroll" /\ request[r].stage # "free" =>
        /\ request[r].token \in Tokens /\ request[r].claims.id \in Ids
        /\ tokens[request[r].token].org # None
        /\ request[r].stage \in {"registered", "answered"} =>
              sensors[request[r].claims.id].org = tokens[request[r].token].org
        /\ request[r].stage = "answered" => tokens[request[r].token].sensorId # None

\* The row that authorized a report is of the organization of the sensor still.
ReportOK(r) ==
    request[r].kind \in {"heartbeat", "event"} =>
        /\ request[r].stage # "free"
        /\ request[r].claims.id \in Ids /\ request[r].claims.access # None
        /\ request[r].stage \in {"authorized", "recorded"} =>
              /\ request[r].row.org # None
              /\ request[r].row.org = sensors[request[r].claims.id].org

BeaconOK(r) ==
    request[r].kind = "beacon" =>
        request[r].stage # "free" /\ request[r].of \in Canaries /\ canaries[request[r].of] # None

\* An event is there from its own request's statement on, and never changes.
EventOK(r) ==
    /\ At(r, "event", "recorded") => events[r].org = request[r].row.org
    /\ events[r].org # None =>
          /\ request[r].kind = "event" /\ request[r].stage \in {"recorded", "answered", "lost"}
          /\ events[r].sensor \in Ids /\ events[r].org = sensors[events[r].sensor].org

\* The identity a host asked for, and one it was given.
Claimed(identity) ==
    /\ identity.id \in Ids /\ identity.access \in Requests
    /\ request[identity.access].kind = "enroll" /\ request[identity.access].stage # "free"
    /\ request[identity.access].claims.id = identity.id

Registered(identity) ==
    /\ Claimed(identity)
    /\ sensors[identity.id].org = tokens[request[identity.access].token].org

MachineOK(m) ==
    /\ machine[m].stage = "enrolling" => Claimed(machine[m].identity)
    /\ machine[m].stage = "running" => Registered(machine[m].identity)
    /\ file[m] # NoIdentity => Registered(file[m])

IncidentOK(i) ==
    incidents[i].event # None =>
        incidents[i].org # None /\ incidents[i].org = events[incidents[i].event].org

IInv ==
    /\ TypeOK
    /\ \A r \in Requests : EnrollOK(r) /\ ReportOK(r) /\ BeaconOK(r) /\ EventOK(r)
    /\ \A m \in Machines : MachineOK(m)
    /\ \A i \in IncidentIds : IncidentOK(i)
=============================================================================
