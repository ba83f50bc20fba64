--------------------------- MODULE OperatorAccess ---------------------------
(* An operator's browser and the controllers: the console (src/App.tsx,      *)
(* src/api.ts), sessions and sign-in (server/auth.js), the choice of the     *)
(* organization (server/tenancy.js), and the incident and secret routes      *)
(* (server/index.js, server/secret-manager.js).                              *)
(*                                                                           *)
(* The tabs of one browser share a cookie.  A request takes a step per       *)
(* await of its handler; its slot is free again once the tab has the answer. *)
(* Session copies, answers and pages already read are as old as they are.    *)
(*                                                                           *)
(* Abstracted: the identity provider signs anyone in, one permission to read *)
(* and one to write for each resource, a ciphertext is the value it hides    *)
(* with its context, the lists of one load are one list.                     *)
EXTENDS Naturals, FiniteSets, Functions

CONSTANTS
    Organizations,
    Default,        \* AUTH_DEFAULT_ORGANIZATION_ID, which the seed holds
    Principals,     \* whom the provider may assert: role and organizationIds
    Incidents,
    Secrets,
    Values,         \* what a secret may hide
    Operations,     \* the requests the console makes: it opens with those for its lists
    Tabs,
    Sids,           \* session identifiers
    Slots,          \* requests in progress
    None

rolePermissions == [
    platform_admin     |-> {"organization:read", "organization:write", "incident:read",
                            "incident:write", "secret:read", "secret:write"},
    deception_engineer |-> {"organization:read", "incident:read"},
    analyst            |-> {"organization:read", "incident:read", "incident:write"},
    auditor            |-> {"organization:read", "incident:read", "secret:read"},
    service            |-> {}]

Permission == [
    organizations |-> "organization:read",
    create        |-> "organization:write",
    load          |-> "incident:read",
    patch         |-> "incident:write",
    store         |-> "secret:write",
    rotate        |-> "secret:write",
    verify        |-> "secret:write"]

Authentication == {"login", "callback", "logout"}

ASSUME AccessAssumption ==
    /\ Default \in Organizations
    /\ Principals \subseteq [role: DOMAIN rolePermissions, organizationIds: SUBSET Organizations]
    /\ {"organizations", "load"} \subseteq Operations /\ Operations \subseteq DOMAIN Permission
    /\ None \notin Organizations \union Secrets \union Incidents \union Values
                        \union Tabs \union Sids

VARIABLES
    organizations,  \* the rows of "organizations"
    incidents,      \* organization and status of each row of "incidents"
    secrets,        \* the rows of "secrets"
    sessions,       \* the session store
    cookie,         \* the session identifier the browser sends
    tab,            \* the page of each tab
    request         \* the requests in progress

rows == <<organizations, incidents, secrets>>
browser == <<cookie, tab>>
vars == <<rows, sessions, browser, request>>

OrgOrNone == Organizations \union {None}

Nobody == [role |-> None, organizationIds |-> {}]

Envelope == [value: Values, org: Organizations]
NoEnvelope == [value |-> None, org |-> None]
NoSecret == [org |-> None, envelope |-> NoEnvelope, fingerprint |-> NoEnvelope]
Secret == {NoSecret} \union [org: Organizations, envelope: Envelope, fingerprint: Envelope]

\* A stored session: who signed in, and the tab whose sign-in it awaits.
NoSession == [user |-> Nobody, transaction |-> None]
Session == [user: Principals \union {Nobody}, transaction: Tabs \union {None}]

\* active: activeOrganizationId.  shown: the organization of the lists on the page.
Tab == [page: {"signed_out", "redirected", "console"}, active: OrgOrNone, shown: OrgOrNone]
SignedOut == [page |-> "signed_out", active |-> None, shown |-> None]

Free == [op |-> None, tab |-> None, sid |-> None, session |-> NoSession, header |-> None,
         target |-> None, org |-> None, envelope |-> NoEnvelope, stage |-> "free"]

Answered == {"ok", "refused"}
Stages == {"sent", "identified", "scoped", "read", "sealed"} \union Answered
Targets == Incidents \union Secrets \union {None}
Request == {Free} \union
    [op: Operations \union Authentication, tab: Tabs \union {None}, sid: Sids \union {None},
     session: Session, header: OrgOrNone, target: Targets, org: OrgOrNone, envelope: Envelope \union {NoEnvelope}, stage: Stages]

Init ==
    /\ organizations = {Default}
    /\ incidents \in [Incidents -> [org: {Default}, status: {"new"}]]
    /\ secrets = [s \in Secrets |-> NoSecret]
    /\ sessions = [s \in Sids |-> NoSession]
    /\ cookie = None
    /\ tab = [t \in Tabs |-> SignedOut]
    /\ request = [q \in Slots |-> Free]

Stored == {s \in Sids : sessions[s] # NoSession}
Unused == Sids \ (Stored \union {cookie} \union {request[q].sid : q \in Slots})

-----------------------------------------------------------------------------
(* The tabs *)

Call(t, op, target) ==
    [Free EXCEPT !.op = op, !.tab = t, !.sid = cookie, !.header = tab'[t].active,
                 !.target = target, !.stage = "sent"]

Send(q, t, op, target) ==
    /\ request[q] = Free
    /\ request' = [request EXCEPT ![q] = Call(t, op, target)]
    /\ UNCHANGED <<rows, sessions, cookie>>

\* Mutant: the page that comes next still takes the answers.
Leave_Kept(t) == request

\* Answers to a page that is left are lost.
Leave(t) == [q \in Slots |-> IF request[q].tab = t THEN [request[q] EXCEPT !.tab = None]
                             ELSE request[q]]

\* The sign-in link, or its address.  The page is left.
SignIn(q, t) ==
    /\ tab[t].page # "redirected" /\ request[q] = Free
    /\ tab' = [tab EXCEPT ![t] = SignedOut]
    /\ request' = [Leave(t) EXCEPT ![q] = Call(t, "login", None)]
    /\ UNCHANGED <<rows, sessions, cookie>>

\* The provider sends the browser back, as whoever it signed in.
Return(q, t, user) ==
    /\ tab[t].page = "redirected" /\ request[q] = Free
    /\ tab' = [tab EXCEPT ![t] = SignedOut]
    /\ request' = [request EXCEPT ![q] = [Call(t, "callback", None)
                                           EXCEPT !.session.user = user]]
    /\ UNCHANGED <<rows, sessions, cookie>>

SignOut(q, t) ==
    /\ tab[t].page = "console"
    /\ tab' = tab
    /\ Send(q, t, "logout", None)

\* The load effect runs when activeOrganizationId changes.
Switch(q, t, org) ==
    /\ tab[t].page = "console" /\ tab[t].active \notin {None, org}
    /\ org \in organizations
    /\ tab' = [tab EXCEPT ![t] = [@ EXCEPT !.active = org, !.shown = None]]
    /\ Send(q, t, "load", None)

\* A click, also before an organization is active.  The console opens with
\* sample incidents, whose identifiers are those of seeded rows; a drawer or a
\* dialog that is open keeps its row when the organization is switched.
Mutate(q, t) ==
    /\ tab[t].page = "console"
    /\ tab' = tab
    /\ \/ "patch" \in Operations /\ \E i \in Incidents : Send(q, t, "patch", i)
       \/ "create" \in Operations /\ organizations # Organizations /\ Send(q, t, "create", None)
       \/ "store" \in Operations /\ NoSecret \in Range(secrets) /\ Send(q, t, "store", None)
       \/ \E s \in Secrets, op \in Operations \intersect {"rotate", "verify"} :
            secrets[s].org # None /\ Send(q, t, op, s)

-----------------------------------------------------------------------------
(* The controllers: identity and organization *)

\* The answer, with the cookie it sets and the organization it is about.
Finish(q, result, sid, org) ==
    request' = [request EXCEPT ![q] =
        [Free EXCEPT !.op = request[q].op, !.tab = request[q].tab,
                     !.sid = sid, !.org = org, !.stage = result]]

\* Every answer sets the cookie of the session that was read again (rolling).
Rolling(q) == IF request[q].stage = "sent" THEN None ELSE request[q].sid

Refuse(q) == Finish(q, "refused", Rolling(q), None)

At(q, op, stage) == request[q].op = op /\ request[q].stage = stage

\* The session middleware reads the session of the cookie; when it is gone, the
\* request has a new one that nothing has stored yet.  Only a callback looks at
\* the transaction; it brings whom the provider asserts.
Identify(q) ==
    LET sid == request[q].sid
        session == IF sid = None THEN NoSession ELSE sessions[sid]
    IN  /\ request[q].stage = "sent"
        /\ request' = [request EXCEPT ![q] =
             [@ EXCEPT !.stage = "identified",
                       !.sid = IF session = NoSession THEN None ELSE sid,
                       !.session = IF request[q].op = "callback"
                                   THEN [session EXCEPT !.user = request[q].session.user]
                                   ELSE [session EXCEPT !.transaction = None]]]
        /\ UNCHANGED <<rows, sessions, browser>>

canAccessOrganization(user, org) ==
    user.role = "platform_admin" \/ org \in user.organizationIds

hasPermission(user, permission) ==
    user # Nobody /\ permission \in rolePermissions[user.role]

accessibleOrganizations(user) ==
    {org \in organizations : canAccessOrganization(user, org)}

\* Without a header: the default organization, or the first one there is.
Selectable(user, header) ==
    LET accessible == accessibleOrganizations(user)
    IN  IF header # None THEN accessible \intersect {header}
        ELSE IF Default \in accessible THEN {Default} ELSE accessible

Scope(q) ==
    LET user == request[q].session.user
        selectable == IF user = Nobody THEN {} ELSE Selectable(user, request[q].header)
    IN  /\ request[q].stage = "identified" /\ request[q].op \in Operations
        /\ IF selectable # {} /\ hasPermission(user, Permission[request[q].op])
           THEN \E org \in selectable :
                  request' = [request EXCEPT ![q] = [@ EXCEPT !.org = org, !.stage = "scoped"]]
           ELSE Refuse(q)
        /\ UNCHANGED <<rows, sessions, browser>>

-----------------------------------------------------------------------------
(* The controllers: sign-in and sign-out *)

\* The transaction is saved with the session as it was read, a new one under an
\* identifier of its own.
Login(q) ==
    /\ At(q, "login", "identified")
    /\ \E sid \in IF request[q].sid = None THEN Unused ELSE {request[q].sid} :
        /\ sessions' = [sessions EXCEPT ![sid] =
                          [request[q].session EXCEPT !.transaction = request[q].tab]]
        /\ Finish(q, "ok", sid, None)
    /\ UNCHANGED <<rows, browser>>

\* The session is regenerated: destroyed, and saved under a new identifier.
Callback(q) ==
    /\ At(q, "callback", "identified")
    /\ IF request[q].session.transaction # None
            /\ request[q].session.transaction = request[q].tab
       THEN \E sid \in Unused :
              /\ sessions' = [sessions EXCEPT
                    ![request[q].sid] = NoSession,
                    ![sid] = [user |-> request[q].session.user, transaction |-> None]]
              /\ Finish(q, "ok", sid, None)
       ELSE Refuse(q) /\ UNCHANGED sessions
    /\ UNCHANGED <<rows, browser>>

Logout(q) ==
    /\ At(q, "logout", "identified")
    /\ sessions' = IF request[q].sid = None THEN sessions
                   ELSE [sessions EXCEPT ![request[q].sid] = NoSession]
    /\ Finish(q, "ok", None, None)
    /\ UNCHANGED <<rows, browser>>

-----------------------------------------------------------------------------
(* The controllers: organizations, incidents and secrets *)

\* Mutant: a session is saved again although it was not modified (resave).
Read_Resave(q) ==
    /\ At(q, "load", "scoped")
    /\ sessions' = [sessions EXCEPT ![request[q].sid] = request[q].session]
    /\ Finish(q, "ok", Rolling(q), request[q].org)
    /\ UNCHANGED <<rows, browser>>

\* The lists of the organization of the request.
Read(q) ==
    /\ At(q, "load", "scoped")
    /\ Finish(q, "ok", Rolling(q), request[q].org)
    /\ UNCHANGED <<rows, sessions, browser>>

\* The console takes the organization it remembers if the answer lists it, and
\* the one selected otherwise.
ListOrganizations(q) ==
    /\ At(q, "organizations", "scoped")
    /\ \E org \in accessibleOrganizations(request[q].session.user) \union {request[q].org} :
          Finish(q, "ok", Rolling(q), org)
    /\ UNCHANGED <<rows, sessions, browser>>

\* The new organization has an identifier of its own; the answer names it.
CreateOrganization(q) ==
    /\ At(q, "create", "scoped")
    /\ \E org \in Organizations \ organizations :
          /\ organizations' = organizations \union {org}
          /\ Finish(q, "ok", Rolling(q), org)
    /\ UNCHANGED <<incidents, secrets, sessions, browser>>

\* Mutant: the store is not told the organization.
InScope_Any(row, q) == row.org # None

\* read and update see the rows of the organization of the request.
InScope(row, q) == row.org = request[q].org

UpdateIncident(q) ==
    /\ At(q, "patch", "scoped")
    /\ IF InScope(incidents[request[q].target], q)
       THEN /\ incidents' = [incidents EXCEPT ![request[q].target].status = "closed"]
            /\ Finish(q, "ok", Rolling(q), None)
       ELSE Refuse(q) /\ UNCHANGED incidents
    /\ UNCHANGED <<organizations, secrets, sessions, browser>>

\* What verify sees is the envelope, and rotate that the record is there.
ReadSecret(q) ==
    LET row == secrets[request[q].target]
        envelope == IF request[q].op = "verify" THEN row.envelope ELSE NoEnvelope
    IN  /\ request[q].op \in {"rotate", "verify"} /\ request[q].stage = "scoped"
        /\ IF InScope(row, q)
           THEN request' = [request EXCEPT ![q] =
                              [@ EXCEPT !.stage = "read", !.envelope = envelope]]
           ELSE Refuse(q)
        /\ UNCHANGED <<rows, sessions, browser>>

\* Mutant: the context leaves the organization out.
Seal_NoContext(q) ==
    /\ At(q, "rotate", "read") \/ At(q, "store", "scoped")
    /\ \E v \in Values :
         request' = [request EXCEPT ![q] =
            [@ EXCEPT !.stage = "sealed", !.envelope = [value |-> v, org |-> None]]]
    /\ UNCHANGED <<rows, sessions, browser>>

\* The provider encrypts what the operator entered, with the record and its organization as context.
Seal(q) ==
    /\ At(q, "rotate", "read") \/ At(q, "store", "scoped")
    /\ \E v \in Values :
         request' = [request EXCEPT ![q] =
            [@ EXCEPT !.stage = "sealed", !.envelope = [value |-> v, org |-> request[q].org]]]
    /\ UNCHANGED <<rows, sessions, browser>>

\* Under an identifier that is new.
StoreSecret(q) ==
    LET sealed == request[q].envelope
    IN  /\ At(q, "store", "sealed")
        /\ \E id \in {s \in Secrets : secrets[s] = NoSecret} :
              secrets' = [secrets EXCEPT ![id] =
                 [org |-> request[q].org, envelope |-> sealed, fingerprint |-> sealed]]
        /\ Finish(q, "ok", Rolling(q), None)
        /\ UNCHANGED <<organizations, incidents, sessions, browser>>

\* Mutant: the fingerprint is that of the record that was read.
RotateSecret_OldFingerprint(q) ==
    LET id == request[q].target
    IN  /\ At(q, "rotate", "sealed")
        /\ secrets' = IF InScope(secrets[id], q)
                      THEN [secrets EXCEPT ![id].envelope = request[q].envelope]
                      ELSE secrets
        /\ Finish(q, "ok", Rolling(q), None)
        /\ UNCHANGED <<organizations, incidents, sessions, browser>>

RotateSecret(q) ==
    LET id == request[q].target
        sealed == request[q].envelope
    IN  /\ At(q, "rotate", "sealed")
        /\ secrets' = IF InScope(secrets[id], q)
                      THEN [secrets EXCEPT ![id] = [@ EXCEPT !.envelope = sealed,
                                                             !.fingerprint = sealed]]
                      ELSE secrets
        /\ Finish(q, "ok", Rolling(q), None)
        /\ UNCHANGED <<organizations, incidents, sessions, browser>>

\* unseal checks the context of the envelope that was read.
VerifySecret(q) ==
    /\ At(q, "verify", "read")
    /\ IF request[q].envelope.org = request[q].org
       THEN Finish(q, "ok", Rolling(q), None) ELSE Refuse(q)
    /\ UNCHANGED <<rows, sessions, browser>>

-----------------------------------------------------------------------------
(* Answers *)

\* A statement or the provider fails: the tab sees an error.
Fail(q) ==
    /\ request[q].stage \in Stages \ Answered
    /\ Refuse(q)
    /\ UNCHANGED <<rows, sessions, browser>>

CookieAfter(q) ==
    IF request[q].op = "logout" /\ request[q].stage = "ok" THEN None
    ELSE IF request[q].sid # None THEN request[q].sid ELSE cookie

\* The page shows what came; apiGet turns an error into empty lists.
Shows(t, q, result) ==
    tab' = [tab EXCEPT ![t].shown = IF result = "ok" THEN request[q].org ELSE None]

Release(q) == request' = [request EXCEPT ![q] = Free]

\* The organization becomes active, and the load effect runs if it was not.
Activate(t, q, org) ==
    IF tab[t].active = org THEN UNCHANGED tab /\ Release(q)
    ELSE /\ tab' = [tab EXCEPT ![t] = [@ EXCEPT !.active = org, !.shown = None]]
         /\ request' = [request EXCEPT ![q] =
                          [Call(t, "load", None) EXCEPT !.sid = cookie']]

Deliver(q, t, result) ==
    CASE request[q].op = "organizations" ->
            Activate(t, q, IF result = "ok" THEN request[q].org ELSE Default)
      [] request[q].op = "create" /\ result = "ok" ->
            Activate(t, q, request[q].org)
      [] request[q].op = "load" -> Shows(t, q, result) /\ Release(q)
      [] request[q].op = "login" /\ result = "ok" ->
            tab' = [tab EXCEPT ![t].page = "redirected"] /\ Release(q)
      [] request[q].op = "logout" /\ result # "lost" ->
            /\ tab' = [tab EXCEPT ![t] = SignedOut]
            /\ request' = [Leave(t) EXCEPT ![q] = Free]
      [] OTHER -> UNCHANGED tab /\ Release(q)

\* The answer arrives, or is lost with its cookie.
Answer(q) ==
    /\ request[q].stage \in Answered
    /\ \E result \in {request[q].stage, "lost"} :
          /\ cookie' = IF result = "lost" THEN cookie ELSE CookieAfter(q)
          /\ IF request[q].tab = None THEN UNCHANGED tab /\ Release(q)
             ELSE Deliver(q, request[q].tab, result)
    /\ UNCHANGED <<rows, sessions>>

\* The application opens: it asks for the session, and for the organizations.
Open(q, t) ==
    /\ tab[t].page # "redirected" /\ request[q] = Free
    /\ cookie # None /\ sessions[cookie].user # Nobody
    /\ tab' = [tab EXCEPT ![t] = [SignedOut EXCEPT !.page = "console"]]
    /\ request' = [Leave(t) EXCEPT ![q] = Call(t, "organizations", None)]
    /\ UNCHANGED <<rows, sessions, cookie>>

-----------------------------------------------------------------------------
Operator(q, t) ==
    \/ SignIn(q, t) \/ SignOut(q, t) \/ Open(q, t) \/ Mutate(q, t)
    \/ \E user \in Principals : Return(q, t, user)
    \/ \E org \in Organizations : Switch(q, t, org)

Controller(q) ==
    \/ Identify(q) \/ Scope(q)
    \/ Login(q) \/ Callback(q) \/ Logout(q)
    \/ Read(q) \/ ListOrganizations(q) \/ CreateOrganization(q) \/ UpdateIncident(q)
    \/ ReadSecret(q) \/ Seal(q) \/ StoreSecret(q) \/ RotateSecret(q) \/ VerifySecret(q)
    \/ Fail(q) \/ Answer(q)

Next == \E q \in Slots : Controller(q) \/ \E t \in Tabs : Operator(q, t)

Spec == Init /\ [][Next]_vars

-----------------------------------------------------------------------------
\* Every variable holds a value of its kind.
TypeOK ==
    /\ organizations \in SUBSET Organizations
    /\ incidents \in [Incidents -> [org: Organizations, status: {"new", "closed"}]]
    /\ secrets \in [Secrets -> Secret]
    /\ sessions \in [Sids -> Session]
    /\ cookie \in Sids \union {None}
    /\ tab \in [Tabs -> Tab]
    /\ request \in [Slots -> Request]

\* A secret is always sealed for the organization that has it, and verification
\* succeeds: also between two rotations that overlap.
SecretsOpen ==
    \A s \in Secrets :
        /\ secrets[s].envelope.org = secrets[s].org
        /\ secrets[s].fingerprint = secrets[s].envelope

\* What a request is about: the organization that was active when it was made.
\* Before one is, the default one, and only for a user without access to that,
\* another.
About(r, org) ==
    IF r.header # None THEN org = r.header
    ELSE org = Default \/ ~canAccessOrganization(r.session.user, Default)

\* A request to write, about org, made by someone with access to it and permission.
Writes(q, org, permission) ==
    /\ request[q].op \in {"patch", "store", "rotate"} /\ request[q].stage \in {"scoped", "sealed"}
    /\ Permission[request[q].op] = permission
    /\ About(request[q], org)
    /\ canAccessOrganization(request[q].session.user, org)
    /\ hasPermission(request[q].session.user, permission)

\* A row only changes by a request about its organization, for someone with
\* access to it and permission to write, although the row that was clicked may
\* be another organization's by then, and others have signed in or out since.
\* A request names the active organization; one made before the switcher has its
\* answer names none, and is about the default one where the user has that.
ChangesStayInScope ==
    [][/\ \A i \in Incidents : incidents'[i] # incidents[i] =>
            \E q \in Slots : Writes(q, incidents[i].org, "incident:write")
       /\ \A s \in Secrets : secrets'[s] # secrets[s] =>
            /\ secrets[s].org \in {None, secrets'[s].org}
            /\ \E q \in Slots : Writes(q, secrets'[s].org, "secret:write")]_vars

\* A session that was destroyed admits nobody again, except through a sign-in
\* that had read it before: no other request in progress brings it back.
DestroyedSessionsStayOut ==
    [][\A s \in Sids : sessions[s].user = Nobody /\ sessions'[s].user # Nobody =>
         \E q \in Slots :
            \/ At(q, "callback", "identified") /\ s # request[q].sid
            \/ At(q, "login", "identified") /\ request[q].sid = s]_vars

\* A page that was left for the sign-in page, or signed out itself, shows no
\* organization's data, although loads it made before are still answered.  (A
\* console whose session ended elsewhere keeps what it shows.)
SignedOutShowsNothing ==
    \A t \in Tabs : tab[t].page # "console" => tab[t].shown = None

\* The lists on the page are those of the organization the switcher shows.
ShowsActiveOrganization ==
    \A t \in Tabs : tab[t].shown \in {None, tab[t].active}

-----------------------------------------------------------------------------
(* The inductive invariant, of a request r *)

\* A page waits for answers of its own: leaving it lets go of the others.
PageOK(r) ==
    r.tab \in Tabs => /\ r.op \in Operations => tab[r.tab].page = "console"
                      /\ r.op = "login" => tab[r.tab].page # "console"

\* A request in progress has the record it is about.
CallOK(r) ==
    r.stage \in Stages \ Answered =>
        /\ r.op = "patch" => r.target \in Incidents
        /\ r.op \in {"rotate", "verify"} => r.target \in Secrets

\* A sign-in without a session has read none.
SignInOK(r) == r.op = "login" /\ r.stage = "identified" /\ r.sid = None => r.session.user = Nobody

\* The scope was given for what the request is about, to a user who has access
\* and permission; what is sealed is sealed for it.
ScopeOK(r) ==
    r.stage \in {"scoped", "read", "sealed"} =>
        /\ r.op \in Operations /\ r.org \in Organizations /\ About(r, r.org)
        /\ canAccessOrganization(r.session.user, r.org)
        /\ hasPermission(r.session.user, Permission[r.op])
        /\ r.stage = "sealed" => r.envelope \in Envelope /\ r.envelope.org = r.org

RequestOK(r) == PageOK(r) /\ CallOK(r) /\ SignInOK(r) /\ ScopeOK(r)

IInv ==
    /\ TypeOK /\ SecretsOpen /\ SignedOutShowsNothing
    /\ Default \in organizations
    /\ \A q \in Slots : RequestOK(request[q])
=============================================================================
