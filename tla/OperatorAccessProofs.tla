------------------------ MODULE OperatorAccessProofs ------------------------
(* Proofs about OperatorAccess, for any number of tabs, requests in progress, *)
(* sessions, organizations and rows.  The argument: what a request carries   *)
(* does not change under it (RequestOK), neither the organization it was     *)
(* given nor who made it, so its writes are judged by what it carries; a     *)
(* page that is left lets go of its requests before it shows another.        *)
EXTENDS OperatorAccess, TLAPS

\* A request that some tab made: a slot that is not free.
Made == [op: Operations \union Authentication, tab: Tabs \union {None}, sid: Sids \union {None},
         session: Session, header: OrgOrNone, target: Targets, org: OrgOrNone,
         envelope: Envelope \union {NoEnvelope}, stage: Stages]

LEMMA RequestFacts ==
    ASSUME NEW r \in Request
    PROVE  r = Free \/ r \in Made
BY DEF Request, Made

LEMMA MadeFacts ==
    ASSUME NEW r \in Request, r.stage \in Stages
    PROVE  /\ r \in Made /\ r # Free
           /\ r.op \in Operations \union Authentication /\ r.tab \in Tabs \union {None}
           /\ r.sid \in Sids \union {None} /\ r.session \in Session
           /\ r.header \in OrgOrNone /\ r.target \in Targets /\ r.org \in OrgOrNone
           /\ r.envelope \in Envelope \union {NoEnvelope}
<1>1. r # Free
  BY DEF Free, Stages, Answered
<1> QED BY <1>1, RequestFacts DEF Made

LEMMA FreeFacts ==
    /\ Free \in Request /\ RequestOK(Free)
    /\ Free.tab = None /\ Free.sid = None /\ Free.stage = "free"
<1>1. Free.stage = "free" /\ Free.tab = None /\ Free.sid = None
  BY DEF Free
<1>2. RequestOK(Free)
  BY <1>1, AccessAssumption DEF RequestOK, PageOK, CallOK, SignInOK, ScopeOK, Stages, Answered
<1> QED BY <1>1, <1>2 DEF Request

LEMMA SessionFacts ==
    /\ NoSession \in Session /\ NoSession.user = Nobody
    /\ \A s \in Session : s.user \in Principals \union {Nobody} /\ s.transaction \in Tabs \union {None}
BY DEF Session, NoSession

-----------------------------------------------------------------------------
(* What steps have in common.                                                *)

\* One request moves on, and the pages stay as they are.
LEMMA RequestStep ==
    ASSUME IInv, NEW q \in Slots, NEW r \in Request, request' = [request EXCEPT ![q] = r],
           UNCHANGED browser, RequestOK(r)
    PROVE  /\ request' \in [Slots -> Request]
           /\ \A p \in Slots : RequestOK(request[p])'
<1>1. request \in [Slots -> Request] /\ \A p \in Slots : RequestOK(request[p])
  BY DEF IInv, TypeOK
<1>2. request' \in [Slots -> Request] /\ \A p \in Slots : RequestOK(request'[p])
  BY <1>1
<1>3. ASSUME NEW p \in Slots PROVE RequestOK(request[p])'
  BY <1>2 DEF RequestOK, PageOK, CallOK, SignInOK, ScopeOK, About, canAccessOrganization,
              hasPermission, browser
<1> QED BY <1>2, <1>3

\* A handler moves its request on.
LEMMA ControllerStep ==
    ASSUME IInv, NEW q \in Slots, NEW r \in Request, request' = [request EXCEPT ![q] = r],
           UNCHANGED browser, RequestOK(r),
           organizations' \in SUBSET Organizations, Default \in organizations',
           incidents' \in [Incidents -> [org: Organizations, status: {"new", "closed"}]],
           secrets' \in [Secrets -> Secret], sessions' \in [Sids -> Session], SecretsOpen'
    PROVE  IInv'
<1>1. TypeOK'
  BY RequestStep DEF IInv, TypeOK, browser
<1>2. SignedOutShowsNothing'
  BY DEF IInv, SignedOutShowsNothing, browser
<1> QED BY <1>1, <1>2, RequestStep DEF IInv

\* Free, or what becomes of it when fields are set.
Blank == [op: Operations \union Authentication \union {None}, tab: Tabs \union {None},
          sid: Sids \union {None}, session: Session, header: OrgOrNone, target: Targets,
          org: OrgOrNone, envelope: Envelope \union {NoEnvelope}, stage: Stages \union {"free"}]

LEMMA BlankFacts ==
    /\ Free \in Blank
    /\ \A r \in Blank : r.op \in Operations \union Authentication /\ r.stage \in Stages => r \in Made
<1>1. Free \in Blank
  BY SessionFacts DEF Free, Blank, OrgOrNone, Targets
<1> QED BY <1>1 DEF Blank, Made

AnswerTo(op, t, sid, org, stage) ==
    [Free EXCEPT !.op = op, !.tab = t, !.sid = sid, !.org = org, !.stage = stage]

LEMMA AnswerFields ==
    ASSUME NEW op \in Operations \union Authentication, NEW t \in Tabs \union {None},
           NEW sid \in Sids \union {None}, NEW org \in OrgOrNone, NEW stage \in Answered
    PROVE  AnswerTo(op, t, sid, org, stage)
            \in {r \in Made : r.op = op /\ r.tab = t /\ r.stage = stage}
<1> DEFINE r == AnswerTo(op, t, sid, org, stage)
<1>1. r.op = op /\ r.tab = t /\ r.stage = stage
  BY DEF Free, AnswerTo
<1>2. r \in Blank
  <2>1. ASSUME NEW f \in Blank
        PROVE  [f EXCEPT !.op = op, !.tab = t, !.sid = sid, !.org = org, !.stage = stage] \in Blank
    BY DEF Blank, Stages
  <2> QED BY <2>1, BlankFacts DEF AnswerTo
<1> HIDE DEF r
<1>3. r \in Made
  BY <1>1, <1>2, BlankFacts DEF Stages
<1> QED BY <1>1, <1>3 DEF r

\* An answer carries nothing but the request, its tab and what it is about.
LEMMA FinishFacts ==
    ASSUME IInv, NEW q \in Slots, request[q].stage \in Stages, NEW result \in Answered,
           NEW sid \in Sids \union {None}, NEW org \in OrgOrNone, Finish(q, result, sid, org)
    PROVE  \E r \in Request : request' = [request EXCEPT ![q] = r] /\ RequestOK(r)
<1>1. request[q] \in Request /\ RequestOK(request[q])
  BY DEF IInv, TypeOK
<1>2. PICK op, t : op = request[q].op /\ t = request[q].tab
  OBVIOUS
<1>3. op \in Operations \union Authentication /\ t \in Tabs \union {None}
  BY <1>1, <1>2, MadeFacts
<1>4. PICK r \in Made : /\ r = AnswerTo(op, t, sid, org, result)
                       /\ r.op = op /\ r.tab = t /\ r.stage = result
  BY <1>3, AnswerFields
<1>5. RequestOK(r)
  BY <1>1, <1>2, <1>4 DEF RequestOK, PageOK, CallOK, SignInOK, ScopeOK, Stages, Answered
<1>6. request' = [request EXCEPT ![q] = r]
  BY <1>2, <1>4 DEF Finish, AnswerTo
<1> QED BY <1>4, <1>5, <1>6 DEF Request, Made

LEMMA RollingFacts ==
    ASSUME IInv, NEW q \in Slots, request[q].stage \in Stages
    PROVE  Rolling(q) \in Sids \union {None}
BY MadeFacts DEF IInv, TypeOK, Rolling

LEMMA RefuseFacts ==
    ASSUME IInv, NEW q \in Slots, request[q].stage \in Stages, Refuse(q)
    PROVE  \E r \in Request : request' = [request EXCEPT ![q] = r] /\ RequestOK(r)
BY RollingFacts, FinishFacts DEF Refuse, OrgOrNone, Answered

\* A handler that answers and changes no row and no session.
LEMMA AnswersOnly ==
    ASSUME IInv, NEW q \in Slots, UNCHANGED <<rows, sessions, browser>>,
           \E r \in Request : request' = [request EXCEPT ![q] = r] /\ RequestOK(r)
    PROVE  IInv'
<1>1. SecretsOpen'
  BY DEF IInv, SecretsOpen, rows
<1> QED BY <1>1, ControllerStep DEF IInv, TypeOK, rows

-----------------------------------------------------------------------------
(* Identity and organization.                                                *)

LEMMA IdentifyIInv == ASSUME IInv, NEW q \in Slots, Identify(q) PROVE IInv'
<1> DEFINE read == IF request[q].sid = None THEN NoSession ELSE sessions[request[q].sid]
<1>1. PICK r : r = request[q]
  OBVIOUS
<1>2. r \in Request /\ RequestOK(r) /\ r.stage = "sent" /\ r.stage \in Stages
  BY <1>1 DEF Identify, IInv, TypeOK, Stages
<1>3. r \in Made /\ r.session \in Session /\ r.sid \in Sids \union {None}
  BY <1>2, MadeFacts
<1>4. read \in Session /\ (r.sid = None => read = NoSession)
  BY <1>1, <1>3, SessionFacts DEF IInv, TypeOK
<1>5. PICK session : session = IF r.op = "callback" THEN [read EXCEPT !.user = r.session.user]
                               ELSE [read EXCEPT !.transaction = None]
  OBVIOUS
<1>6. session \in Session /\ (r.op # "callback" => session.user = read.user)
  <2> HIDE DEF read
  <2>1. ASSUME NEW s \in Session, NEW user \in Principals \union {Nobody}
        PROVE  /\ [s EXCEPT !.user = user] \in Session
               /\ [s EXCEPT !.transaction = None] \in Session
               /\ [s EXCEPT !.transaction = None].user = s.user
    BY DEF Session
  <2>2. r.session.user \in Principals \union {Nobody}
    BY <1>3, SessionFacts
  <2> QED BY <1>4, <1>5, <2>1, <2>2
<1>7. PICK n : n = [r EXCEPT !.stage = "identified", !.session = session,
                             !.sid = IF read = NoSession THEN None ELSE r.sid]
  OBVIOUS
<1>8. request' = [request EXCEPT ![q] = n] /\ UNCHANGED <<rows, sessions, browser>>
  BY <1>1, <1>5, <1>7 DEF Identify
<1>9. /\ n \in Made /\ n.stage = "identified" /\ n.session = session
      /\ n.op = r.op /\ n.tab = r.tab /\ n.target = r.target /\ n.header = r.header
      /\ n.sid = IF read = NoSession THEN None ELSE r.sid
  <2> HIDE DEF read
  <2> QED BY <1>3, <1>6, <1>7 DEF Made, Stages
<1>10. SignInOK(n)
  <2>1. n.sid = None => r.sid = None \/ read = NoSession
    BY <1>9
  <2> HIDE DEF read
  <2> QED BY <1>4, <1>6, <1>9, <2>1, SessionFacts DEF SignInOK
<1>11. RequestOK(n)
  BY <1>2, <1>9, <1>10 DEF RequestOK, PageOK, CallOK, ScopeOK, Answered
<1> QED BY <1>8, <1>9, <1>11, AnswersOnly DEF Request, Made

\* The scope is given for what the request is about: the default organization is
\* always there to be chosen.
LEMMA SelectableFacts ==
    ASSUME IInv, NEW r, NEW org \in Selectable(r.session.user, r.header)
    PROVE  org \in Organizations /\ canAccessOrganization(r.session.user, org) /\ About(r, org)
BY DEF IInv, TypeOK, Selectable, accessibleOrganizations, About

LEMMA ScopeIInv == ASSUME IInv, NEW q \in Slots, Scope(q) PROVE IInv'
<1>1. PICK r : r = request[q]
  OBVIOUS
<1>2. /\ r \in Request /\ RequestOK(r) /\ r.stage = "identified" /\ r.op \in Operations
      /\ r.stage \in Stages /\ UNCHANGED <<rows, sessions, browser>>
  BY <1>1 DEF Scope, IInv, TypeOK, Stages
<1>3. CASE Refuse(q)
  BY <1>1, <1>2, <1>3, RefuseFacts, AnswersOnly
<1>4. CASE ~Refuse(q)
  <2>1. PICK org \in Selectable(r.session.user, r.header) :
          request' = [request EXCEPT ![q] = [@ EXCEPT !.org = org, !.stage = "scoped"]]
    BY <1>1, <1>4 DEF Scope
  <2>2. hasPermission(r.session.user, Permission[r.op])
    BY <1>1, <1>4 DEF Scope
  <2>3. org \in Organizations /\ canAccessOrganization(r.session.user, org) /\ About(r, org)
    BY SelectableFacts
  <2>4. PICK n : n = [r EXCEPT !.org = org, !.stage = "scoped"]
    OBVIOUS
  <2>5. request' = [request EXCEPT ![q] = n]
    BY <1>1, <2>1, <2>4
  <2>6. /\ n \in Made /\ n.stage = "scoped" /\ n.org = org /\ n.op = r.op /\ n.tab = r.tab
        /\ n.target = r.target /\ n.header = r.header /\ n.session = r.session
    BY <1>2, <2>3, <2>4, MadeFacts DEF Made, Stages, OrgOrNone
  <2>7. ScopeOK(n)
    BY <1>2, <2>2, <2>3, <2>6 DEF ScopeOK, About
  <2>8. RequestOK(n)
    BY <1>2, <2>6, <2>7 DEF RequestOK, PageOK, CallOK, SignInOK, Answered
  <2> QED BY <1>2, <2>5, <2>6, <2>8, AnswersOnly DEF Request, Made
<1> QED BY <1>3, <1>4

-----------------------------------------------------------------------------
(* Sign-in and sign-out.                                                     *)

\* A handler that answers and leaves the rows.
LEMMA SessionStep ==
    ASSUME IInv, NEW q \in Slots, UNCHANGED <<rows, browser>>, sessions' \in [Sids -> Session],
           \E r \in Request : request' = [request EXCEPT ![q] = r] /\ RequestOK(r)
    PROVE  IInv'
<1>1. SecretsOpen'
  BY DEF IInv, SecretsOpen, rows
<1> QED BY <1>1, ControllerStep DEF IInv, TypeOK, rows

LEMMA LoginIInv == ASSUME IInv, NEW q \in Slots, Login(q) PROVE IInv'
<1>1. PICK r : r = request[q]
  OBVIOUS
<1>2. r \in Request /\ r.stage \in Stages /\ UNCHANGED <<rows, browser>>
  BY <1>1 DEF Login, At, IInv, TypeOK, Stages
<1>3. r.session \in Session /\ r.sid \in Sids \union {None} /\ r.tab \in Tabs \union {None}
  BY <1>2, MadeFacts
<1>4. PICK sid \in IF r.sid = None THEN Unused ELSE {r.sid} :
        /\ sessions' = [sessions EXCEPT ![sid] = [r.session EXCEPT !.transaction = r.tab]]
        /\ Finish(q, "ok", sid, None)
  BY <1>1 DEF Login
<1>5. sid \in Sids
  BY <1>3, <1>4 DEF Unused
<1>6. [r.session EXCEPT !.transaction = r.tab] \in Session
  BY <1>3 DEF Session
<1>7. sessions' \in [Sids -> Session]
  BY <1>4, <1>6 DEF IInv, TypeOK
<1>8. \E n \in Request : request' = [request EXCEPT ![q] = n] /\ RequestOK(n)
  BY <1>1, <1>2, <1>4, <1>5, FinishFacts DEF OrgOrNone, Answered
<1> QED BY <1>2, <1>7, <1>8, SessionStep

\* The session that was read is destroyed, and the user saved under a new one.
LEMMA CallbackIInv == ASSUME IInv, NEW q \in Slots, Callback(q) PROVE IInv'
<1>1. PICK r : r = request[q]
  OBVIOUS
<1>2. /\ r \in Request /\ r.stage \in Stages /\ UNCHANGED <<rows, browser>>
      /\ sessions \in [Sids -> Session]
  BY <1>1 DEF Callback, At, IInv, TypeOK, Stages
<1>3. CASE Refuse(q) /\ UNCHANGED sessions
  BY <1>1, <1>2, <1>3, RefuseFacts, SessionStep
<1>4. CASE ~(Refuse(q) /\ UNCHANGED sessions)
  <2>1. PICK sid \in Unused :
          /\ sessions' = [sessions EXCEPT
                ![r.sid] = NoSession, ![sid] = [user |-> r.session.user, transaction |-> None]]
          /\ Finish(q, "ok", sid, None)
    BY <1>1, <1>4 DEF Callback
  <2>2. sid \in Sids
    BY DEF Unused
  <2>3. PICK session : session = [user |-> r.session.user, transaction |-> None]
    OBVIOUS
  <2>4. session \in Session /\ NoSession \in Session
    BY <1>2, <2>3, MadeFacts, SessionFacts DEF Session
  <2>5. sessions' \in [Sids -> Session]
    BY <1>2, <2>1, <2>3, <2>4
  <2>6. \E n \in Request : request' = [request EXCEPT ![q] = n] /\ RequestOK(n)
    BY <1>1, <1>2, <2>1, <2>2, FinishFacts DEF OrgOrNone, Answered
  <2> QED BY <1>2, <2>5, <2>6, SessionStep
<1> QED BY <1>3, <1>4

LEMMA LogoutIInv == ASSUME IInv, NEW q \in Slots, Logout(q) PROVE IInv'
<1>1. /\ request[q].stage \in Stages /\ UNCHANGED <<rows, browser>>
      /\ sessions \in [Sids -> Session] /\ Finish(q, "ok", None, None)
  BY DEF Logout, At, IInv, TypeOK, Stages
<1>2. sessions' \in [Sids -> Session]
  BY <1>1, SessionFacts DEF Logout
<1>3. \E n \in Request : request' = [request EXCEPT ![q] = n] /\ RequestOK(n)
  BY <1>1, FinishFacts DEF OrgOrNone, Answered
<1> QED BY <1>1, <1>2, <1>3, SessionStep

-----------------------------------------------------------------------------
(* Organizations, incidents and secrets.                                     *)

\* The answer of a handler that has the scope it needs.
LEMMA ScopedAnswer ==
    ASSUME IInv, NEW q \in Slots, request[q].stage \in Stages, NEW org \in OrgOrNone,
           Finish(q, "ok", Rolling(q), org)
    PROVE  \E r \in Request : request' = [request EXCEPT ![q] = r] /\ RequestOK(r)
BY RollingFacts, FinishFacts DEF Answered

LEMMA ReadIInv == ASSUME IInv, NEW q \in Slots, Read(q) PROVE IInv'
<1>1. /\ request[q].stage \in Stages /\ request[q] \in Request
      /\ UNCHANGED <<rows, sessions, browser>> /\ Finish(q, "ok", Rolling(q), request[q].org)
  BY DEF Read, At, IInv, TypeOK, Stages
<1>2. request[q].org \in OrgOrNone
  BY <1>1, MadeFacts
<1> QED BY <1>1, <1>2, ScopedAnswer, AnswersOnly

LEMMA ListOrganizationsIInv ==
    ASSUME IInv, NEW q \in Slots, ListOrganizations(q) PROVE IInv'
<1>1. /\ request[q].stage \in Stages /\ request[q] \in Request
      /\ UNCHANGED <<rows, sessions, browser>>
  BY DEF ListOrganizations, At, IInv, TypeOK, Stages
<1>2. PICK org \in accessibleOrganizations(request[q].session.user) \union {request[q].org} :
        Finish(q, "ok", Rolling(q), org)
  BY DEF ListOrganizations
<1>3. org \in OrgOrNone
  <2>1. request[q].org \in OrgOrNone
    BY <1>1, MadeFacts
  <2> QED BY <2>1 DEF accessibleOrganizations, IInv, TypeOK, OrgOrNone
<1> QED BY <1>1, <1>2, <1>3, ScopedAnswer, AnswersOnly

LEMMA CreateOrganizationIInv ==
    ASSUME IInv, NEW q \in Slots, CreateOrganization(q) PROVE IInv'
<1>1. /\ request[q].stage \in Stages /\ UNCHANGED <<incidents, secrets, sessions, browser>>
  BY DEF CreateOrganization, At, Stages
<1>2. PICK org \in Organizations \ organizations :
        organizations' = organizations \union {org} /\ Finish(q, "ok", Rolling(q), org)
  BY DEF CreateOrganization
<1>3. \E n \in Request : request' = [request EXCEPT ![q] = n] /\ RequestOK(n)
  BY <1>1, <1>2, ScopedAnswer DEF OrgOrNone
<1>4. SecretsOpen'
  BY <1>1 DEF IInv, SecretsOpen
<1> QED BY <1>1, <1>2, <1>3, <1>4, ControllerStep DEF IInv, TypeOK

LEMMA UpdateIncidentIInv ==
    ASSUME IInv, NEW q \in Slots, UpdateIncident(q) PROVE IInv'
<1>1. /\ request[q].stage \in Stages /\ UNCHANGED <<organizations, secrets, sessions, browser>>
      /\ SecretsOpen'
  BY DEF UpdateIncident, At, Stages, IInv, SecretsOpen
<1>2. CASE Refuse(q) /\ UNCHANGED incidents
  BY <1>1, <1>2, RefuseFacts, ControllerStep DEF IInv, TypeOK
<1>3. CASE ~(Refuse(q) /\ UNCHANGED incidents)
  <2>1. PICK i : i = request[q].target
    OBVIOUS
  <2>2. /\ incidents' = [incidents EXCEPT ![i].status = "closed"]
        /\ Finish(q, "ok", Rolling(q), None)
    BY <1>3, <2>1 DEF UpdateIncident
  <2>3. incidents' \in [Incidents -> [org: Organizations, status: {"new", "closed"}]]
    BY <2>2 DEF IInv, TypeOK
  <2>4. \E n \in Request : request' = [request EXCEPT ![q] = n] /\ RequestOK(n)
    BY <1>1, <2>2, ScopedAnswer DEF OrgOrNone
  <2> QED BY <1>1, <2>3, <2>4, ControllerStep DEF IInv, TypeOK
<1> QED BY <1>2, <1>3

LEMMA FailIInv == ASSUME IInv, NEW q \in Slots, Fail(q) PROVE IInv'
BY RefuseFacts, AnswersOnly DEF Fail

LEMMA VerifySecretIInv == ASSUME IInv, NEW q \in Slots, VerifySecret(q) PROVE IInv'
<1>1. request[q].stage \in Stages /\ UNCHANGED <<rows, sessions, browser>>
  BY DEF VerifySecret, At, Stages
<1>2. Finish(q, "ok", Rolling(q), None) \/ Refuse(q)
  BY DEF VerifySecret
<1> QED BY <1>1, <1>2, RefuseFacts, ScopedAnswer, AnswersOnly DEF OrgOrNone

LEMMA SecretFacts ==
    ASSUME NEW s \in Secret
    PROVE  /\ s.org \in OrgOrNone /\ s.envelope \in Envelope \union {NoEnvelope}
           /\ s.org \in Organizations => s \in [org: Organizations, envelope: Envelope,
                                                 fingerprint: Envelope]
           /\ NoSecret.org = None /\ None \notin Organizations
BY AccessAssumption DEF Secret, NoSecret, OrgOrNone

\* What the steps between a scope and its answer keep of a request.
LEMMA SealingStep ==
    ASSUME IInv, NEW q \in Slots, NEW r, r = request[q], r.stage \in {"scoped", "read"},
           r.op \in {"rotate", "verify", "store"},
           NEW stage \in {"read", "sealed"}, NEW envelope \in Envelope \union {NoEnvelope},
           NEW n, n = [r EXCEPT !.stage = stage, !.envelope = envelope],
           request' = [request EXCEPT ![q] = n], UNCHANGED <<rows, sessions, browser>>,
           stage = "sealed" => envelope \in Envelope /\ envelope.org = r.org
    PROVE  IInv'
<1>1. r \in Request /\ RequestOK(r) /\ r.stage \in Stages
  BY DEF IInv, TypeOK, Stages
<1>2. r \in Made
  BY <1>1, MadeFacts
<1>3. /\ n \in Made /\ n.stage = stage /\ n.envelope = envelope /\ n.op = r.op /\ n.tab = r.tab
      /\ n.target = r.target /\ n.header = r.header /\ n.org = r.org /\ n.session = r.session
  BY <1>2 DEF Made, Stages
<1>4. r.stage \in Stages \ Answered
  BY DEF Stages, Answered
<1>5. CallOK(n)
  BY <1>1, <1>3, <1>4 DEF RequestOK, CallOK
<1>6. ScopeOK(n)
  BY <1>1, <1>3 DEF RequestOK, ScopeOK, About
<1>7. RequestOK(n)
  BY <1>1, <1>3, <1>5, <1>6 DEF RequestOK, PageOK, SignInOK
<1> QED BY <1>3, <1>7, AnswersOnly DEF Request, Made

LEMMA ReadSecretIInv == ASSUME IInv, NEW q \in Slots, ReadSecret(q) PROVE IInv'
<1>1. PICK r : r = request[q]
  OBVIOUS
<1>2. /\ r \in Request /\ RequestOK(r) /\ r.stage = "scoped" /\ r.op \in {"rotate", "verify"}
      /\ r.stage \in Stages \ Answered /\ UNCHANGED <<rows, sessions, browser>>
  BY <1>1 DEF ReadSecret, IInv, TypeOK, Stages, Answered
<1>3. CASE Refuse(q)
  BY <1>1, <1>2, <1>3, RefuseFacts, AnswersOnly
<1>4. CASE ~Refuse(q)
  <2>1. r.target \in Secrets
    BY <1>2 DEF RequestOK, CallOK
  <2>2. PICK envelope : envelope = IF r.op = "verify" THEN secrets[r.target].envelope ELSE NoEnvelope
    OBVIOUS
  <2>3. envelope \in Envelope \union {NoEnvelope}
    BY <2>1, <2>2, SecretFacts DEF IInv, TypeOK
  <2>4. request' = [request EXCEPT ![q] = [@ EXCEPT !.stage = "read", !.envelope = envelope]]
    BY <1>1, <1>4, <2>2 DEF ReadSecret
  <2>5. PICK n : n = [r EXCEPT !.stage = "read", !.envelope = envelope]
    OBVIOUS
  <2>6. request' = [request EXCEPT ![q] = n]
    BY <1>1, <2>4, <2>5
  <2> QED BY <1>1, <1>2, <2>3, <2>5, <2>6, SealingStep
<1> QED BY <1>3, <1>4

LEMMA SealIInv == ASSUME IInv, NEW q \in Slots, Seal(q) PROVE IInv'
<1>1. PICK r : r = request[q]
  OBVIOUS
<1>2. /\ RequestOK(r) /\ r.stage \in {"scoped", "read"} /\ r.op \in {"rotate", "store"}
      /\ UNCHANGED <<rows, sessions, browser>>
  BY <1>1 DEF Seal, At, IInv
<1>3. PICK v \in Values :
        request' = [request EXCEPT ![q] =
            [@ EXCEPT !.stage = "sealed", !.envelope = [value |-> v, org |-> request[q].org]]]
  BY DEF Seal
<1>4. PICK envelope : envelope = [value |-> v, org |-> r.org]
  OBVIOUS
<1>5. envelope \in Envelope /\ envelope.org = r.org
  BY <1>2, <1>4 DEF RequestOK, ScopeOK, Envelope
<1>6. PICK n : n = [r EXCEPT !.stage = "sealed", !.envelope = envelope]
  OBVIOUS
<1>7. request' = [request EXCEPT ![q] = n]
  BY <1>1, <1>3, <1>4, <1>6
<1> QED BY <1>1, <1>2, <1>5, <1>6, <1>7, SealingStep

\* What was sealed was sealed for the organization that gets it.
LEMMA StoreSecretIInv == ASSUME IInv, NEW q \in Slots, StoreSecret(q) PROVE IInv'
<1>1. PICK r : r = request[q]
  OBVIOUS
<1>2. /\ RequestOK(r) /\ r.stage = "sealed" /\ r.stage \in Stages
      /\ UNCHANGED <<organizations, incidents, sessions, browser>>
      /\ Finish(q, "ok", Rolling(q), None)
  BY <1>1 DEF StoreSecret, At, IInv, Stages
<1>3. r.envelope \in Envelope /\ r.envelope.org = r.org /\ r.org \in Organizations
  BY <1>2 DEF RequestOK, ScopeOK
<1>4. PICK id \in Secrets : secrets' = [secrets EXCEPT ![id] =
          [org |-> r.org, envelope |-> r.envelope, fingerprint |-> r.envelope]]
  BY <1>1 DEF StoreSecret
<1>5. PICK stored : stored = [org |-> r.org, envelope |-> r.envelope, fingerprint |-> r.envelope]
  OBVIOUS
<1>6. /\ stored \in Secret /\ stored.envelope.org = stored.org
      /\ stored.fingerprint = stored.envelope
  BY <1>3, <1>5 DEF Secret
<1>7. secrets \in [Secrets -> Secret] /\ SecretsOpen
  BY DEF IInv, TypeOK
<1>8. secrets' \in [Secrets -> Secret] /\ SecretsOpen'
  BY <1>4, <1>5, <1>6, <1>7 DEF SecretsOpen
<1>9. \E n \in Request : request' = [request EXCEPT ![q] = n] /\ RequestOK(n)
  BY <1>1, <1>2, ScopedAnswer DEF OrgOrNone
<1> QED BY <1>2, <1>8, <1>9, ControllerStep DEF IInv, TypeOK

\* Both parts come from the same sealing, whatever rotation was first.
LEMMA RotateSecretIInv == ASSUME IInv, NEW q \in Slots, RotateSecret(q) PROVE IInv'
<1>1. PICK r : r = request[q]
  OBVIOUS
<1>2. /\ RequestOK(r) /\ r.op = "rotate" /\ r.stage = "sealed" /\ r.stage \in Stages \ Answered
      /\ UNCHANGED <<organizations, incidents, sessions, browser>>
      /\ Finish(q, "ok", Rolling(q), None)
  BY <1>1 DEF RotateSecret, At, IInv, Stages, Answered
<1>3. /\ r.envelope \in Envelope /\ r.envelope.org = r.org /\ r.org \in Organizations
      /\ r.target \in Secrets
  BY <1>2 DEF RequestOK, ScopeOK, CallOK
<1>4. secrets \in [Secrets -> Secret] /\ SecretsOpen
  BY DEF IInv, TypeOK
<1>5. secrets' \in [Secrets -> Secret] /\ SecretsOpen'
  <2>1. CASE secrets[r.target].org = r.org
    <3>1. PICK old : old = secrets[r.target]
      OBVIOUS
    <3>2. old \in [org: Organizations, envelope: Envelope, fingerprint: Envelope]
      BY <1>3, <1>4, <2>1, <3>1, SecretFacts
    <3>3. PICK rotated : rotated = [old EXCEPT !.envelope = r.envelope, !.fingerprint = r.envelope]
      OBVIOUS
    <3>4. rotated \in Secret /\ rotated.org = old.org /\ rotated.envelope = r.envelope
          /\ rotated.fingerprint = r.envelope
      BY <1>3, <3>2, <3>3 DEF Secret
    <3>5. secrets' = [secrets EXCEPT ![r.target] = rotated]
      BY <1>1, <2>1, <3>1, <3>3 DEF RotateSecret, InScope
    <3> QED BY <1>3, <1>4, <2>1, <3>1, <3>4, <3>5 DEF SecretsOpen
  <2>2. CASE secrets[r.target].org # r.org
    BY <1>1, <1>4, <2>2 DEF RotateSecret, InScope, SecretsOpen
  <2> QED BY <2>1, <2>2
<1>6. \E n \in Request : request' = [request EXCEPT ![q] = n] /\ RequestOK(n)
  BY <1>1, <1>2, ScopedAnswer DEF OrgOrNone
<1> QED BY <1>2, <1>5, <1>6, ControllerStep DEF IInv, TypeOK

-----------------------------------------------------------------------------
(* The pages.                                                                *)

\* What a request carries, and the page that may wait for it.
Carries(r) == CallOK(r) /\ SignInOK(r) /\ ScopeOK(r)
Fits(r, page) == /\ r.op \in Operations => page = "console"
                 /\ r.op = "login" => page # "console"

LEMMA Parts ==
    ASSUME IInv, NEW q \in Slots
    PROVE  /\ request[q] \in Request /\ Carries(request[q])
           /\ \A t \in Tabs : request[q].tab = t => Fits(request[q], tab[t].page)
BY DEF IInv, TypeOK, RequestOK, PageOK, Carries, Fits

LEMMA Assemble ==
    ASSUME IInv, UNCHANGED <<rows, sessions>>, cookie' \in Sids \union {None},
           tab' \in [Tabs -> Tab], request' \in [Slots -> Request], SignedOutShowsNothing',
           \A p \in Slots : /\ Carries(request'[p])
                            /\ \A t \in Tabs : request'[p].tab = t => Fits(request'[p], tab'[t].page)
    PROVE  IInv'
<1>1. TypeOK' /\ SecretsOpen' /\ Default \in organizations'
  BY DEF IInv, TypeOK, SecretsOpen, rows
<1>2. ASSUME NEW p \in Slots PROVE RequestOK(request[p])'
  <2>1. PageOK(request[p])'
    BY DEF PageOK, Fits
  <2>2. (CallOK(request[p]) /\ SignInOK(request[p]) /\ ScopeOK(request[p]))'
    BY DEF Carries, CallOK, SignInOK, ScopeOK, About, canAccessOrganization, hasPermission
  <2> QED BY <2>1, <2>2 DEF RequestOK
<1> QED BY <1>1, <1>2 DEF IInv

\* No page changes its kind: the requests of all tabs go on.
LEMMA StayStep ==
    ASSUME IInv, UNCHANGED <<rows, sessions>>, cookie' \in Sids \union {None},
           tab' \in [Tabs -> Tab], \A t \in Tabs : tab'[t].page = tab[t].page,
           SignedOutShowsNothing',
           NEW q \in Slots, NEW r \in Request, request' = [request EXCEPT ![q] = r], Carries(r),
           \A t \in Tabs : r.tab = t => Fits(r, tab[t].page)
    PROVE  IInv'
<1>1. request' \in [Slots -> Request]
  BY DEF IInv, TypeOK
<1>2. ASSUME NEW p \in Slots
      PROVE  /\ Carries(request'[p])
             /\ \A t \in Tabs : request'[p].tab = t => Fits(request'[p], tab'[t].page)
  BY Parts DEF IInv, TypeOK
<1> QED BY <1>1, <1>2, Assemble

\* A tab that was not on the console comes to another page that is not.
LEMMA RedirectStep ==
    ASSUME IInv, UNCHANGED <<rows, sessions>>, cookie' \in Sids \union {None},
           NEW u \in Tabs, tab' \in [Tabs -> Tab], \A t \in Tabs \ {u} : tab'[t] = tab[t],
           tab[u].page # "console", tab'[u].page # "console", tab'[u].shown = None,
           NEW q \in Slots, NEW r \in Request, request' = [request EXCEPT ![q] = r], Carries(r),
           \A t \in Tabs : r.tab = t => Fits(r, tab[t].page)
    PROVE  IInv'
<1>1. request' \in [Slots -> Request]
  BY DEF IInv, TypeOK
<1>2. SignedOutShowsNothing'
  BY DEF IInv, SignedOutShowsNothing
<1>3. ASSUME NEW s, NEW t \in Tabs, Fits(s, tab[t].page) PROVE Fits(s, tab'[t].page)
  BY <1>3 DEF Fits
<1>4. ASSUME NEW p \in Slots
      PROVE  /\ Carries(request'[p])
             /\ \A t \in Tabs : request'[p].tab = t => Fits(request'[p], tab[t].page)
  BY Parts DEF IInv, TypeOK
<1>5. ASSUME NEW p \in Slots, NEW t \in Tabs, request'[p].tab = t
      PROVE  Fits(request'[p], tab'[t].page)
  BY <1>3, <1>4, <1>5
<1> QED BY <1>1, <1>2, <1>4, <1>5, Assemble

\* A page that is left lets go of its requests.
LEMMA LeaveFacts ==
    ASSUME IInv, NEW u \in Tabs
    PROVE  /\ Leave(u) \in [Slots -> Request]
           /\ \A p \in Slots : /\ Carries(Leave(u)[p])
                               /\ \A t \in Tabs : Leave(u)[p].tab = t =>
                                     t # u /\ Fits(Leave(u)[p], tab[t].page)
<1>1. ASSUME NEW p \in Slots
      PROVE  /\ Leave(u)[p] \in Request /\ Carries(Leave(u)[p])
             /\ \A t \in Tabs : Leave(u)[p].tab = t => t # u /\ Fits(Leave(u)[p], tab[t].page)
  <2>1. PICK r : r = request[p]
    OBVIOUS
  <2>2. r \in Request /\ Carries(r) /\ \A t \in Tabs : r.tab = t => Fits(r, tab[t].page)
    BY <2>1, Parts
  <2>3. CASE r.tab = u
    <3>1. r \in Made
      BY <2>2, <2>3, RequestFacts, FreeFacts, AccessAssumption
    <3>2. PICK s : s = [r EXCEPT !.tab = None]
      OBVIOUS
    <3>3. /\ s \in Made /\ s.tab = None /\ s.stage = r.stage /\ s.op = r.op /\ s.sid = r.sid
          /\ s.session = r.session /\ s.header = r.header /\ s.target = r.target
          /\ s.org = r.org /\ s.envelope = r.envelope
      BY <3>1, <3>2 DEF Made
    <3>4. Carries(s)
      BY <2>2, <3>3 DEF Carries, CallOK, SignInOK, ScopeOK, About
    <3>5. Leave(u)[p] = s
      BY <2>1, <2>3, <3>2 DEF Leave
    <3> QED BY <3>3, <3>4, <3>5, AccessAssumption DEF Request, Made
  <2>4. CASE r.tab # u
    <3>1. Leave(u)[p] = r
      BY <2>1, <2>4 DEF Leave
    <3> QED BY <2>2, <2>4, <3>1
  <2> QED BY <2>3, <2>4
<1> QED BY <1>1 DEF Leave

LEMMA LeaveStep ==
    ASSUME IInv, UNCHANGED <<rows, sessions>>, cookie' \in Sids \union {None},
           NEW u \in Tabs, tab' \in [Tabs -> Tab], \A t \in Tabs \ {u} : tab'[t] = tab[t],
           tab'[u].shown = None,
           NEW q \in Slots, NEW r \in Request, request' = [Leave(u) EXCEPT ![q] = r], Carries(r),
           r.tab \in {u, None}, r.tab = u => Fits(r, tab'[u].page)
    PROVE  IInv'
<1>1. request' \in [Slots -> Request]
  BY LeaveFacts
<1>2. SignedOutShowsNothing'
  BY DEF IInv, SignedOutShowsNothing
<1>3. ASSUME NEW p \in Slots
      PROVE  /\ Carries(request'[p])
             /\ \A t \in Tabs : request'[p].tab = t => Fits(request'[p], tab'[t].page)
  <2>1. CASE p = q
    BY <2>1, LeaveFacts, AccessAssumption
  <2>2. CASE p # q
    <3>1. request'[p] = Leave(u)[p]
      BY <2>2, LeaveFacts
    <3> QED BY <3>1, LeaveFacts
  <2> QED BY <2>1, <2>2
<1> QED BY <1>1, <1>2, <1>3, Assemble

-----------------------------------------------------------------------------
(* What operators do.                                                        *)

CallWith(op, t, sid, header, target) ==
    [Free EXCEPT !.op = op, !.tab = t, !.sid = sid, !.header = header,
                 !.target = target, !.stage = "sent"]

Calls(op, t, sid, header, target) ==
    {r \in Made : /\ r.op = op /\ r.tab = t /\ r.sid = sid /\ r.header = header
                  /\ r.target = target /\ r.stage = "sent"}

LEMMA CallFields ==
    ASSUME NEW op \in Operations \union Authentication, NEW t \in Tabs,
           NEW sid \in Sids \union {None}, NEW header \in OrgOrNone, NEW target \in Targets
    PROVE  CallWith(op, t, sid, header, target) \in Calls(op, t, sid, header, target)
<1> DEFINE r == CallWith(op, t, sid, header, target)
<1>1. /\ r.op = op /\ r.tab = t /\ r.sid = sid /\ r.header = header /\ r.target = target
      /\ r.stage = "sent"
  BY DEF Free, CallWith
<1>2. r \in Blank
  <2>1. ASSUME NEW f \in Blank
        PROVE  [f EXCEPT !.op = op, !.tab = t, !.sid = sid, !.header = header,
                         !.target = target, !.stage = "sent"] \in Blank
    BY DEF Blank, Stages
  <2> QED BY <2>1, BlankFacts DEF CallWith
<1> HIDE DEF r
<1>3. r \in Made
  BY <1>1, <1>2, BlankFacts DEF Stages
<1> QED BY <1>1, <1>3 DEF r, Calls

\* A call is sent with the cookie and the organization of its page.
LEMMA CallFacts ==
    ASSUME IInv, NEW t \in Tabs, tab' \in [Tabs -> Tab],
           NEW op \in Operations \union Authentication, NEW target \in Targets,
           NEW sid \in Sids \union {None}, NEW r, r = CallWith(op, t, sid, tab'[t].active, target)
    PROVE  /\ r \in Request /\ r \in Made /\ r.op = op /\ r.tab = t /\ r.stage = "sent"
           /\ SignInOK(r) /\ ScopeOK(r)
           /\ (op = "patch" => target \in Incidents) /\ (op \in {"rotate", "verify"} => target \in Secrets)
              => Carries(r)
<1>1. PICK header : header = tab'[t].active
  OBVIOUS
<1>2. header \in OrgOrNone
  BY <1>1 DEF Tab
<1>3. r \in Calls(op, t, sid, header, target)
  BY <1>1, <1>2, CallFields
<1>4. /\ r \in Made /\ r.op = op /\ r.tab = t /\ r.stage = "sent" /\ r.header = header
      /\ r.target = target
  BY <1>3 DEF Calls
<1>5. SignInOK(r) /\ ScopeOK(r)
  BY <1>4 DEF SignInOK, ScopeOK
<1>6. /\ (op = "patch" => target \in Incidents) /\ (op \in {"rotate", "verify"} => target \in Secrets)
      => CallOK(r)
  BY <1>4 DEF CallOK
<1> QED BY <1>1, <1>4, <1>5, <1>6 DEF Request, Made, Carries

LEMMA OperationFacts ==
    /\ \A op \in Operations : op \notin Authentication
    /\ "organizations" \in Operations /\ "load" \in Operations
    /\ {"login", "callback", "logout"} = Authentication
    /\ "login" \notin Operations /\ "callback" \notin Operations /\ "logout" \notin Operations
    /\ None \in Targets /\ SignedOut \in Tab
    /\ SignedOut.page = "signed_out" /\ SignedOut.shown = None
BY AccessAssumption DEF Permission, Authentication, Targets, SignedOut, Tab, OrgOrNone

LEMMA SignInIInv == ASSUME IInv, NEW q \in Slots, NEW t \in Tabs, SignIn(q, t) PROVE IInv'
<1>1. /\ tab' = [tab EXCEPT ![t] = SignedOut] /\ UNCHANGED <<rows, sessions, cookie>>
      /\ tab' \in [Tabs -> Tab] /\ tab'[t] = SignedOut /\ cookie \in Sids \union {None}
      /\ \A u \in Tabs \ {t} : tab'[u] = tab[u]
  BY OperationFacts DEF SignIn, IInv, TypeOK
<1>2. PICK r : r = CallWith("login", t, cookie, tab'[t].active, None)
  OBVIOUS
<1>3. request' = [Leave(t) EXCEPT ![q] = r]
  BY <1>2 DEF SignIn, Call, CallWith
<1>4. r \in Request /\ r.op = "login" /\ r.tab = t /\ Carries(r)
  BY <1>1, <1>2, CallFacts, OperationFacts
<1>5. Fits(r, tab'[t].page)
  BY <1>1, <1>4, OperationFacts DEF Fits
<1> QED BY <1>1, <1>3, <1>4, <1>5, LeaveStep, OperationFacts

LEMMA OpenIInv == ASSUME IInv, NEW q \in Slots, NEW t \in Tabs, Open(q, t) PROVE IInv'
<1>1. PICK page : page = [SignedOut EXCEPT !.page = "console"]
  OBVIOUS
<1>2. page \in Tab /\ page.page = "console" /\ page.shown = None
  BY <1>1 DEF SignedOut, Tab, OrgOrNone
<1>3. /\ tab' = [tab EXCEPT ![t] = page] /\ UNCHANGED <<rows, sessions, cookie>>
      /\ tab' \in [Tabs -> Tab] /\ tab'[t] = page /\ cookie \in Sids \union {None}
      /\ \A u \in Tabs \ {t} : tab'[u] = tab[u]
  BY <1>1, <1>2 DEF Open, IInv, TypeOK
<1>4. PICK r : r = CallWith("organizations", t, cookie, tab'[t].active, None)
  OBVIOUS
<1>5. request' = [Leave(t) EXCEPT ![q] = r]
  BY <1>4 DEF Open, Call, CallWith
<1>6. r \in Request /\ r.op = "organizations" /\ r.tab = t /\ Carries(r)
  BY <1>3, <1>4, CallFacts, OperationFacts
<1>7. Fits(r, tab'[t].page)
  BY <1>2, <1>3, <1>6 DEF Fits
<1> QED BY <1>2, <1>3, <1>5, <1>6, <1>7, LeaveStep

LEMMA ReturnIInv ==
    ASSUME IInv, NEW q \in Slots, NEW t \in Tabs, NEW user \in Principals, Return(q, t, user)
    PROVE  IInv'
<1>1. /\ tab[t].page = "redirected" /\ tab' = [tab EXCEPT ![t] = SignedOut]
      /\ UNCHANGED <<rows, sessions, cookie>> /\ cookie \in Sids \union {None}
      /\ tab' \in [Tabs -> Tab] /\ tab'[t] = SignedOut /\ \A u \in Tabs \ {t} : tab'[u] = tab[u]
  BY OperationFacts DEF Return, IInv, TypeOK
<1>2. PICK r : r = CallWith("callback", t, cookie, tab'[t].active, None)
  OBVIOUS
<1>3. r \in Made /\ r.op = "callback" /\ r.tab = t /\ r.stage = "sent"
  BY <1>1, <1>2, CallFacts, OperationFacts
<1>4. PICK session : session = [r.session EXCEPT !.user = user]
  OBVIOUS
<1>5. session \in Session
  BY <1>3, <1>4 DEF Made, Session
<1>6. PICK n : n = [r EXCEPT !.session = session]
  OBVIOUS
<1>7. n \in Made /\ n.op = "callback" /\ n.tab = t /\ n.stage = "sent"
  BY <1>3, <1>5, <1>6 DEF Made
<1>8. request' = [request EXCEPT ![q] = n]
  BY <1>2, <1>4, <1>6 DEF Return, Call, CallWith
<1>9. n \in Request /\ Carries(n) /\ \A u \in Tabs : Fits(n, tab[u].page)
  BY <1>7, OperationFacts DEF Carries, CallOK, SignInOK, ScopeOK, Fits, Request, Made
<1> QED BY <1>1, <1>8, <1>9, RedirectStep, OperationFacts

\* A page of the console sends a request and remains one.
LEMMA SendStep ==
    ASSUME IInv, NEW q \in Slots, NEW t \in Tabs, tab[t].page = "console",
           tab' \in [Tabs -> Tab], tab'[t].page = "console", \A u \in Tabs \ {t} : tab'[u] = tab[u],
           NEW op \in Operations \union {"logout"}, NEW target \in Targets, Send(q, t, op, target),
           op = "patch" => target \in Incidents, op \in {"rotate", "verify"} => target \in Secrets
    PROVE  IInv'
<1>1. UNCHANGED <<rows, sessions, cookie>> /\ cookie \in Sids \union {None}
  BY DEF Send, IInv, TypeOK
<1>2. PICK r : r = CallWith(op, t, cookie, tab'[t].active, target)
  OBVIOUS
<1>3. request' = [request EXCEPT ![q] = r]
  BY <1>2 DEF Send, Call, CallWith
<1>4. op \in Operations \union Authentication /\ op # "login"
  BY OperationFacts
<1>5. r \in Request /\ r.op = op /\ r.tab = t /\ Carries(r)
  BY <1>1, <1>2, <1>4, CallFacts
<1>6. \A u \in Tabs : r.tab = u => Fits(r, tab[u].page)
  BY <1>4, <1>5 DEF Fits
<1>7. SignedOutShowsNothing' /\ \A u \in Tabs : tab'[u].page = tab[u].page
  BY DEF IInv, SignedOutShowsNothing
<1> QED BY <1>1, <1>3, <1>5, <1>6, <1>7, StayStep

LEMMA SignOutIInv == ASSUME IInv, NEW q \in Slots, NEW t \in Tabs, SignOut(q, t) PROVE IInv'
<1>1. tab[t].page = "console" /\ tab' = tab /\ tab \in [Tabs -> Tab] /\ Send(q, t, "logout", None)
  BY DEF SignOut, IInv, TypeOK
<1> QED BY <1>1, SendStep, OperationFacts

LEMMA SwitchIInv ==
    ASSUME IInv, NEW q \in Slots, NEW t \in Tabs, NEW org \in Organizations, Switch(q, t, org)
    PROVE  IInv'
<1>1. PICK page : page = [tab[t] EXCEPT !.active = org, !.shown = None]
  OBVIOUS
<1>2. /\ tab[t].page = "console" /\ tab' = [tab EXCEPT ![t] = page] /\ Send(q, t, "load", None)
      /\ tab \in [Tabs -> Tab]
  BY <1>1 DEF Switch, IInv, TypeOK
<1>3. page \in Tab /\ page.page = "console"
  BY <1>1, <1>2 DEF Tab, OrgOrNone
<1>4. tab' \in [Tabs -> Tab] /\ tab'[t] = page /\ \A u \in Tabs \ {t} : tab'[u] = tab[u]
  BY <1>2, <1>3
<1> QED BY <1>2, <1>3, <1>4, SendStep, OperationFacts

LEMMA MutateIInv == ASSUME IInv, NEW q \in Slots, NEW t \in Tabs, Mutate(q, t) PROVE IInv'
<1>1. tab[t].page = "console" /\ tab' = tab /\ tab \in [Tabs -> Tab]
  BY DEF Mutate, IInv, TypeOK
<1>2. ASSUME NEW op \in Operations, NEW target \in Targets, Send(q, t, op, target),
             op = "patch" => target \in Incidents, op \in {"rotate", "verify"} => target \in Secrets
      PROVE  IInv'
  BY <1>1, <1>2, SendStep
<1>3. \/ "patch" \in Operations /\ \E i \in Incidents : Send(q, t, "patch", i)
      \/ "create" \in Operations /\ Send(q, t, "create", None)
      \/ "store" \in Operations /\ Send(q, t, "store", None)
      \/ \E s \in Secrets, op \in Operations \intersect {"rotate", "verify"} : Send(q, t, op, s)
  BY DEF Mutate
<1>4. CASE "patch" \in Operations /\ \E i \in Incidents : Send(q, t, "patch", i)
  BY <1>2, <1>4 DEF Targets
<1>5. CASE "create" \in Operations /\ Send(q, t, "create", None)
  BY <1>2, <1>5 DEF Targets
<1>6. CASE "store" \in Operations /\ Send(q, t, "store", None)
  BY <1>2, <1>6 DEF Targets
<1>7. CASE \E s \in Secrets, op \in Operations \intersect {"rotate", "verify"} : Send(q, t, op, s)
  <2>1. PICK s \in Secrets, op \in Operations \intersect {"rotate", "verify"} : Send(q, t, op, s)
    BY <1>7
  <2> QED BY <1>2, <2>1 DEF Targets
<1> QED BY <1>3, <1>4, <1>5, <1>6, <1>7

-----------------------------------------------------------------------------
(* Answers.                                                                  *)

\* An organization becomes active on a page of the console, and is loaded.
LEMMA ActivateStep ==
    ASSUME IInv, NEW q \in Slots, NEW t \in Tabs, tab[t].page = "console",
           NEW org \in OrgOrNone, Activate(t, q, org), tab[t].active # org,
           UNCHANGED <<rows, sessions>>, cookie' \in Sids \union {None}
    PROVE  IInv'
<1>1. PICK page : page = [tab[t] EXCEPT !.active = org, !.shown = None]
  OBVIOUS
<1>2. tab' = [tab EXCEPT ![t] = page] /\ tab \in [Tabs -> Tab]
  BY <1>1 DEF Activate, IInv, TypeOK
<1>3. page \in Tab /\ page.page = "console"
  BY <1>1, <1>2 DEF Tab, OrgOrNone
<1>4. tab' \in [Tabs -> Tab] /\ tab'[t] = page /\ \A u \in Tabs \ {t} : tab'[u] = tab[u]
  BY <1>2, <1>3
<1>5. PICK r : r = CallWith("load", t, cookie, tab'[t].active, None)
  OBVIOUS
<1>6. r \in Made /\ r.op = "load" /\ r.tab = t /\ r.stage = "sent"
  <2>1. cookie \in Sids \union {None} /\ "load" \in Operations \union Authentication
    BY OperationFacts DEF IInv, TypeOK
  <2>2. None \in Targets /\ tab' \in [Tabs -> Tab]
    BY <1>4, OperationFacts
  <2> QED BY <1>5, <2>1, <2>2, CallFacts
<1>7. PICK n : n = [r EXCEPT !.sid = cookie']
  OBVIOUS
<1>8. n \in Made /\ n.op = "load" /\ n.tab = t /\ n.stage = "sent"
  BY <1>6, <1>7 DEF Made
<1>9. request' = [request EXCEPT ![q] = n]
  BY <1>5, <1>7 DEF Activate, Call, CallWith
<1>10. n \in Request /\ Carries(n) /\ \A u \in Tabs : n.tab = u => Fits(n, tab[u].page)
  BY <1>8, OperationFacts DEF Carries, CallOK, SignInOK, ScopeOK, Fits, Request, Made
<1>11. SignedOutShowsNothing' /\ \A u \in Tabs : tab'[u].page = tab[u].page
  BY <1>3, <1>4 DEF IInv, SignedOutShowsNothing
<1> QED BY <1>4, <1>9, <1>10, <1>11, StayStep

\* The slot is free again, and no page changes its kind.
LEMMA ReleaseStep ==
    ASSUME IInv, NEW q \in Slots, Release(q), UNCHANGED <<rows, sessions>>,
           cookie' \in Sids \union {None}, tab' \in [Tabs -> Tab],
           \A t \in Tabs : tab'[t].page = tab[t].page, SignedOutShowsNothing'
    PROVE  IInv'
<1>1. Free \in Request /\ Carries(Free) /\ \A t \in Tabs : Free.tab # t
  BY FreeFacts, AccessAssumption DEF RequestOK, Carries
<1> QED BY <1>1, StayStep DEF Release

LEMMA UnchangedPages ==
    ASSUME IInv, UNCHANGED tab
    PROVE  tab' \in [Tabs -> Tab] /\ SignedOutShowsNothing' /\ \A t \in Tabs : tab'[t].page = tab[t].page
BY DEF IInv, TypeOK, SignedOutShowsNothing

LEMMA CookieFacts ==
    ASSUME IInv, NEW q \in Slots, request[q].stage \in Answered,
           NEW result, cookie' = IF result = "lost" THEN cookie ELSE CookieAfter(q)
    PROVE  cookie' \in Sids \union {None}
<1>1. request[q] \in Request /\ request[q].stage \in Stages /\ cookie \in Sids \union {None}
  BY DEF IInv, TypeOK, Stages
<1> QED BY <1>1, MadeFacts DEF CookieAfter

\* The organization that an answer makes active.
LEMMA DeliverActivates ==
    ASSUME IInv, NEW q \in Slots, NEW t \in Tabs, request[q].tab = t, request[q].stage \in Stages,
           NEW result, Deliver(q, t, result), UNCHANGED <<rows, sessions>>,
           cookie' \in Sids \union {None},
           request[q].op = "organizations" \/ (request[q].op = "create" /\ result = "ok")
    PROVE  IInv'
<1>1. PICK r : r = request[q]
  OBVIOUS
<1>2. r \in Request /\ Fits(r, tab[t].page)
  BY <1>1, Parts
<1>3. r.org \in OrgOrNone /\ r.op \in Operations
  BY <1>1, <1>2, MadeFacts, OperationFacts
<1>4. PICK org : org = IF r.op # "organizations" \/ result = "ok" THEN r.org ELSE Default
  OBVIOUS
<1>5. org \in OrgOrNone
  BY <1>3, <1>4, AccessAssumption DEF OrgOrNone
<1>6. Activate(t, q, org)
  BY <1>1, <1>4 DEF Deliver
<1>7. CASE tab[t].active = org
  BY <1>6, <1>7, UnchangedPages, ReleaseStep DEF Activate
<1>8. CASE tab[t].active # org
  BY <1>2, <1>3, <1>5, <1>6, <1>8, ActivateStep DEF Fits
<1> QED BY <1>7, <1>8

LEMMA DeliverIInv ==
    ASSUME IInv, NEW q \in Slots, NEW t \in Tabs, request[q].tab = t, request[q].stage \in Stages,
           NEW result, Deliver(q, t, result), UNCHANGED <<rows, sessions>>,
           cookie' \in Sids \union {None}
    PROVE  IInv'
<1>1. PICK r : r = request[q]
  OBVIOUS
<1>2. r \in Request /\ Fits(r, tab[t].page) /\ tab \in [Tabs -> Tab] /\ SignedOutShowsNothing
  BY <1>1, Parts DEF IInv, TypeOK
<1>3. CASE r.op = "organizations" \/ (r.op = "create" /\ result = "ok")
  BY <1>1, <1>3, DeliverActivates
<1>4. CASE r.op = "load"
  <2>1. PICK org : org = IF result = "ok" THEN r.org ELSE None
    OBVIOUS
  <2>2. tab' = [tab EXCEPT ![t].shown = org] /\ Release(q)
    BY <1>1, <1>4, <2>1 DEF Deliver, Shows
  <2>3. org \in OrgOrNone
    BY <1>1, <1>2, <2>1, MadeFacts DEF OrgOrNone
  <2>4. tab' \in [Tabs -> Tab] /\ \A u \in Tabs : tab'[u].page = tab[u].page
    BY <1>2, <2>2, <2>3 DEF Tab
  <2>5. tab[t].page = "console"
    BY <1>2, <1>4, OperationFacts DEF Fits
  <2>6. SignedOutShowsNothing'
    BY <1>2, <2>2, <2>4, <2>5 DEF SignedOutShowsNothing
  <2> QED BY <2>2, <2>4, <2>6, ReleaseStep
<1>5. CASE r.op = "login" /\ result = "ok"
  <2>1. tab' = [tab EXCEPT ![t].page = "redirected"] /\ Release(q)
    BY <1>1, <1>5 DEF Deliver
  <2>2. tab[t].page # "console" /\ tab[t].shown = None
    BY <1>2, <1>5 DEF Fits, SignedOutShowsNothing
  <2>3. /\ tab' \in [Tabs -> Tab] /\ tab'[t].page = "redirected" /\ tab'[t].shown = None
        /\ \A u \in Tabs \ {t} : tab'[u] = tab[u]
    BY <1>2, <2>1, <2>2 DEF Tab
  <2>4. Free \in Request /\ Carries(Free) /\ \A u \in Tabs : Free.tab # u
    BY FreeFacts, AccessAssumption DEF RequestOK, Carries
  <2> QED BY <2>1, <2>2, <2>3, <2>4, RedirectStep DEF Release
<1>6. CASE r.op = "logout" /\ result # "lost"
  <2>1. tab' = [tab EXCEPT ![t] = SignedOut] /\ request' = [Leave(t) EXCEPT ![q] = Free]
    BY <1>1, <1>6 DEF Deliver
  <2>2. /\ tab' \in [Tabs -> Tab] /\ tab'[t].shown = None
        /\ \A u \in Tabs \ {t} : tab'[u] = tab[u]
    BY <1>2, <2>1, OperationFacts
  <2>3. Free \in Request /\ Carries(Free) /\ Free.tab = None /\ None # t
    BY FreeFacts, AccessAssumption DEF RequestOK, Carries
  <2> QED BY <2>1, <2>2, <2>3, LeaveStep
<1>7. CASE /\ r.op \notin {"organizations", "load"}
           /\ r.op \in {"create", "login"} => result # "ok"
           /\ r.op = "logout" => result = "lost"
  <2>1. UNCHANGED tab /\ Release(q)
    BY <1>1, <1>7 DEF Deliver
  <2> QED BY <2>1, UnchangedPages, ReleaseStep
<1> QED BY <1>3, <1>4, <1>5, <1>6, <1>7

LEMMA AnswerIInv == ASSUME IInv, NEW q \in Slots, Answer(q) PROVE IInv'
<1>1. PICK result : /\ cookie' = IF result = "lost" THEN cookie ELSE CookieAfter(q)
                    /\ IF request[q].tab = None THEN UNCHANGED tab /\ Release(q)
                       ELSE Deliver(q, request[q].tab, result)
  BY DEF Answer
<1>2. /\ request[q].stage \in Answered /\ request[q].stage \in Stages /\ request[q] \in Request
      /\ UNCHANGED <<rows, sessions>>
  BY DEF Answer, Stages, IInv, TypeOK
<1>3. cookie' \in Sids \union {None}
  BY <1>1, <1>2, CookieFacts
<1>4. CASE request[q].tab = None
  BY <1>1, <1>2, <1>3, <1>4, UnchangedPages, ReleaseStep
<1>5. CASE request[q].tab # None
  <2>1. request[q].tab \in Tabs
    BY <1>2, <1>5, MadeFacts
  <2> QED BY <1>1, <1>2, <1>3, <1>5, <2>1, DeliverIInv
<1> QED BY <1>4, <1>5

-----------------------------------------------------------------------------
(* The theorems.                                                             *)

LEMMA InitIInv == Init => IInv
<1> SUFFICES ASSUME Init PROVE IInv
  OBVIOUS
<1>1. TypeOK
  <2>1. NoSecret \in Secret /\ NoSession \in Session /\ SignedOut \in Tab /\ Free \in Request
    BY SessionFacts, OperationFacts, FreeFacts DEF Secret
  <2> QED BY <2>1, AccessAssumption DEF Init, TypeOK
<1>2. SecretsOpen
  BY DEF Init, SecretsOpen, NoSecret, NoEnvelope
<1>3. SignedOutShowsNothing
  BY OperationFacts DEF Init, SignedOutShowsNothing
<1>4. \A q \in Slots : RequestOK(request[q])
  BY FreeFacts DEF Init
<1>5. Default \in organizations
  BY DEF Init
<1> QED BY <1>1, <1>2, <1>3, <1>4, <1>5 DEF IInv

LEMMA ControllerIInv == ASSUME IInv, NEW q \in Slots, Controller(q) PROVE IInv'
<1>1. CASE Identify(q) \/ Scope(q)
  BY <1>1, IdentifyIInv, ScopeIInv
<1>2. CASE Login(q) \/ Callback(q) \/ Logout(q)
  BY <1>2, LoginIInv, CallbackIInv, LogoutIInv
<1>3. CASE Read(q) \/ ListOrganizations(q) \/ CreateOrganization(q) \/ UpdateIncident(q)
  BY <1>3, ReadIInv, ListOrganizationsIInv, CreateOrganizationIInv, UpdateIncidentIInv
<1>4. CASE ReadSecret(q) \/ Seal(q) \/ StoreSecret(q) \/ RotateSecret(q) \/ VerifySecret(q)
  BY <1>4, ReadSecretIInv, SealIInv, StoreSecretIInv, RotateSecretIInv, VerifySecretIInv
<1>5. CASE Fail(q) \/ Answer(q)
  BY <1>5, FailIInv, AnswerIInv
<1> QED BY <1>1, <1>2, <1>3, <1>4, <1>5 DEF Controller

LEMMA OperatorIInv ==
    ASSUME IInv, NEW q \in Slots, NEW t \in Tabs, Operator(q, t) PROVE IInv'
<1>1. CASE SignIn(q, t) \/ SignOut(q, t) \/ Open(q, t) \/ Mutate(q, t)
  BY <1>1, SignInIInv, SignOutIInv, OpenIInv, MutateIInv
<1>2. CASE \E user \in Principals : Return(q, t, user)
  BY <1>2, ReturnIInv
<1>3. CASE \E org \in Organizations : Switch(q, t, org)
  BY <1>3, SwitchIInv
<1> QED BY <1>1, <1>2, <1>3 DEF Operator

LEMMA NextIInv == IInv /\ [Next]_vars => IInv'
<1> SUFFICES ASSUME IInv, [Next]_vars PROVE IInv'
  OBVIOUS
<1>1. CASE Next
  BY <1>1, ControllerIInv, OperatorIInv DEF Next
<1>2. CASE UNCHANGED vars
  <2>1. TypeOK' /\ SecretsOpen' /\ SignedOutShowsNothing' /\ Default \in organizations'
    BY <1>2 DEF IInv, TypeOK, SecretsOpen, SignedOutShowsNothing, vars, rows, browser
  <2>2. cookie' \in Sids \union {None} /\ request' = request /\ tab' = tab
    BY <1>2 DEF IInv, TypeOK, vars, browser
  <2> QED BY <1>2, <2>1, <2>2, Parts, Assemble DEF TypeOK, vars
<1> QED BY <1>1, <1>2

\* The invariant holds in every state of the console and the controllers.
THEOREM Inductive == Spec => []IInv
<1> QED BY InitIInv, NextIInv, PTL DEF Spec

\* Every variable holds a value of its kind, whatever requests overlap.
THEOREM TypeCorrect == Spec => []TypeOK
<1>1. IInv => TypeOK
  BY DEF IInv
<1> QED BY <1>1, Inductive, PTL

\* Whatever rotations and verifications overlap, a secret is sealed for the
\* organization that has it and its fingerprint is that of its value.
THEOREM SecretsStayOpen == Spec => []SecretsOpen
<1>1. IInv => SecretsOpen
  BY DEF IInv
<1> QED BY <1>1, Inductive, PTL

\* No late answer puts data on a page without a session.
THEOREM SignedOutPagesAreEmpty == Spec => []SignedOutShowsNothing
<1>1. IInv => SignedOutShowsNothing
  BY DEF IInv
<1> QED BY <1>1, Inductive, PTL

\* Only the three sign-in handlers write the session store, and only the routes
\* of incidents and secrets write theirs.
LEMMA WhoWrites ==
    ASSUME [Next]_vars
    PROVE  /\ UNCHANGED sessions \/ \E q \in Slots : Login(q) \/ Callback(q) \/ Logout(q)
           /\ UNCHANGED incidents \/ \E q \in Slots : UpdateIncident(q)
           /\ UNCHANGED secrets \/ \E q \in Slots : StoreSecret(q) \/ RotateSecret(q)
<1>1. ASSUME NEW q \in Slots, NEW t \in Tabs, Operator(q, t) PROVE UNCHANGED <<rows, sessions>>
  BY <1>1 DEF Operator, SignIn, SignOut, Open, Mutate, Return, Switch, Send
<1>2. ASSUME NEW q \in Slots, \/ Identify(q) \/ Scope(q) \/ Read(q) \/ ListOrganizations(q)
                              \/ ReadSecret(q) \/ Seal(q) \/ VerifySecret(q) \/ Fail(q) \/ Answer(q)
      PROVE  UNCHANGED <<rows, sessions>>
  BY <1>2 DEF Identify, Scope, Read, ListOrganizations, ReadSecret, Seal, VerifySecret, Fail, Answer
<1>3. ASSUME NEW q \in Slots, Login(q) \/ Callback(q) \/ Logout(q) PROVE UNCHANGED rows
  BY <1>3 DEF Login, Callback, Logout
<1>4. ASSUME NEW q \in Slots, CreateOrganization(q) PROVE UNCHANGED <<incidents, secrets, sessions>>
  BY <1>4 DEF CreateOrganization
<1>5. ASSUME NEW q \in Slots, UpdateIncident(q) PROVE UNCHANGED <<secrets, sessions>>
  BY <1>5 DEF UpdateIncident
<1>6. ASSUME NEW q \in Slots, StoreSecret(q) \/ RotateSecret(q) PROVE UNCHANGED <<incidents, sessions>>
  BY <1>6 DEF StoreSecret, RotateSecret
<1>7. UNCHANGED vars => UNCHANGED <<rows, sessions>>
  BY DEF vars
<1>8. UNCHANGED rows => UNCHANGED incidents /\ UNCHANGED secrets
  BY DEF rows
<1>9. CASE UNCHANGED vars
  BY <1>7, <1>8, <1>9
<1>10. CASE \E q \in Slots, t \in Tabs : Operator(q, t)
  BY <1>1, <1>8, <1>10
<1>11. ASSUME NEW q \in Slots, Controller(q)
       PROVE  /\ UNCHANGED sessions \/ Login(q) \/ Callback(q) \/ Logout(q)
              /\ UNCHANGED incidents \/ UpdateIncident(q)
              /\ UNCHANGED secrets \/ StoreSecret(q) \/ RotateSecret(q)
  BY <1>2, <1>3, <1>4, <1>5, <1>6, <1>8, <1>11 DEF Controller
<1> QED BY <1>9, <1>10, <1>11 DEF Next

\* A request that may write is about its organization, of someone who may.
LEMMA WriteFacts ==
    ASSUME IInv, NEW q \in Slots, request[q].op \in {"patch", "store", "rotate"},
           request[q].stage \in {"scoped", "sealed"}
    PROVE  Writes(q, request[q].org, Permission[request[q].op])
<1>1. PICK r : r = request[q]
  OBVIOUS
<1>2. RequestOK(r) /\ r.stage \in Stages \ Answered /\ r.stage # "sent"
  BY <1>1 DEF IInv, Stages, Answered
<1>3. About(r, r.org)
  BY <1>1, <1>2 DEF RequestOK, ScopeOK
<1>4. canAccessOrganization(r.session.user, r.org) /\ hasPermission(r.session.user, Permission[r.op])
  BY <1>1, <1>2 DEF RequestOK, ScopeOK
<1>5. r.op \in {"patch", "store", "rotate"} /\ r.stage \in {"scoped", "sealed"}
  BY <1>1
<1> QED BY <1>1, <1>3, <1>4, <1>5 DEF Writes

LEMMA IncidentChange ==
    ASSUME IInv, NEW q \in Slots, UpdateIncident(q), NEW i \in Incidents, incidents'[i] # incidents[i]
    PROVE  Writes(q, incidents[i].org, "incident:write")
<1>1. request[q].op = "patch" /\ request[q].stage = "scoped"
  BY DEF UpdateIncident, At
<1>2. Permission["patch"] = "incident:write"
  BY DEF Permission
<1>3. InScope(incidents[request[q].target], q) /\ i = request[q].target
  BY DEF UpdateIncident, IInv, TypeOK
<1> QED BY <1>1, <1>2, <1>3, WriteFacts DEF InScope

LEMMA SecretChange ==
    ASSUME IInv, NEW q \in Slots, StoreSecret(q) \/ RotateSecret(q),
           NEW s \in Secrets, secrets'[s] # secrets[s]
    PROVE  /\ secrets[s].org \in {None, secrets'[s].org}
           /\ Writes(q, secrets'[s].org, "secret:write")
<1>1. request[q].op \in {"store", "rotate"} /\ request[q].stage = "sealed"
  BY DEF StoreSecret, RotateSecret, At
<1>2. Permission["store"] = "secret:write" /\ Permission["rotate"] = "secret:write"
  BY DEF Permission
<1>3. Writes(q, request[q].org, "secret:write")
  BY <1>1, <1>2, WriteFacts
<1>4. secrets \in [Secrets -> Secret]
  BY DEF IInv, TypeOK
<1>5. CASE StoreSecret(q)
  <2>1. PICK id \in Secrets :
          /\ secrets[id] = NoSecret
          /\ secrets' = [secrets EXCEPT ![id] = [org |-> request[q].org,
                envelope |-> request[q].envelope, fingerprint |-> request[q].envelope]]
    BY <1>5 DEF StoreSecret
  <2>2. s = id /\ secrets[s].org = None /\ secrets'[s].org = request[q].org
    BY <1>4, <2>1 DEF NoSecret
  <2> QED BY <1>3, <2>2
<1>6. CASE RotateSecret(q)
  <2>1. InScope(secrets[request[q].target], q) /\ s = request[q].target
    BY <1>4, <1>6 DEF RotateSecret
  <2>2. secrets'[s] = [secrets[s] EXCEPT !.envelope = request[q].envelope,
                                         !.fingerprint = request[q].envelope]
    BY <1>4, <1>6, <2>1 DEF RotateSecret
  <2>3. secrets[s].org = request[q].org
    BY <2>1 DEF InScope
  <2>4. request[q].org \in Organizations
    <3>1. RequestOK(request[q])
      BY DEF IInv
    <3> QED BY <1>1, <3>1 DEF RequestOK, ScopeOK
  <2>5. secrets[s] \in [org: Organizations, envelope: Envelope, fingerprint: Envelope]
    BY <1>4, <2>3, <2>4, SecretFacts
  <2>6. secrets'[s].org = secrets[s].org
    BY <2>2, <2>5
  <2> QED BY <1>3, <2>3, <2>6
<1> QED BY <1>5, <1>6

\* Rows only change by a request about their organization, of someone who may
\* write there: whatever row was clicked, before the console has an active
\* organization or after, and whatever sign-ins and switches overlap.
THEOREM ChangesInScope == Spec => ChangesStayInScope
<1> DEFINE Change ==
      /\ \A i \in Incidents : incidents'[i] # incidents[i] =>
            \E q \in Slots : Writes(q, incidents[i].org, "incident:write")
      /\ \A s \in Secrets : secrets'[s] # secrets[s] =>
            /\ secrets[s].org \in {None, secrets'[s].org}
            /\ \E q \in Slots : Writes(q, secrets'[s].org, "secret:write")
<1>1. IInv /\ [Next]_vars => [Change]_vars
  <2> SUFFICES ASSUME IInv, [Next]_vars PROVE Change
    OBVIOUS
  <2>1. ASSUME NEW i \in Incidents, incidents'[i] # incidents[i]
        PROVE  \E q \in Slots : Writes(q, incidents[i].org, "incident:write")
    BY <2>1, WhoWrites, IncidentChange
  <2>2. ASSUME NEW s \in Secrets, secrets'[s] # secrets[s]
        PROVE  /\ secrets[s].org \in {None, secrets'[s].org}
               /\ \E q \in Slots : Writes(q, secrets'[s].org, "secret:write")
    BY <2>2, WhoWrites, SecretChange
  <2> QED BY <2>1, <2>2
<1> QED BY <1>1, Inductive, PTL DEF Spec, ChangesStayInScope

\* The stored sessions that a step gives a user.
LEMMA SessionChange ==
    ASSUME IInv, NEW q \in Slots, Login(q) \/ Callback(q) \/ Logout(q), NEW s \in Sids,
           sessions[s].user = Nobody, sessions'[s].user # Nobody
    PROVE  \/ At(q, "callback", "identified") /\ s # request[q].sid
           \/ At(q, "login", "identified") /\ request[q].sid = s
<1>1. PICK r : r = request[q]
  OBVIOUS
<1>2. /\ r \in Request /\ RequestOK(r) /\ r.stage \in Stages
      /\ sessions \in [Sids -> Session] /\ NoSession.user = Nobody
  BY <1>1, SessionFacts DEF Login, Callback, Logout, At, IInv, TypeOK, Stages
<1>3. r.session \in Session
  BY <1>2, MadeFacts
<1>4. CASE Login(q)
  <2>1. PICK sid \in IF r.sid = None THEN Unused ELSE {r.sid} :
          sessions' = [sessions EXCEPT ![sid] = [r.session EXCEPT !.transaction = r.tab]]
    BY <1>1, <1>4 DEF Login
  <2>2. At(q, "login", "identified") /\ r.op = "login" /\ r.stage = "identified"
    BY <1>1, <1>4 DEF Login, At
  <2>3. s = sid
    BY <1>2, <2>1
  <2>4. sessions'[s].user = r.session.user
    BY <1>2, <1>3, <2>1, <2>3 DEF Session
  <2>5. r.sid # None
    BY <1>2, <2>2, <2>4 DEF RequestOK, SignInOK
  <2> QED BY <1>1, <2>1, <2>2, <2>3, <2>5
<1>5. CASE Callback(q)
  <2>1. At(q, "callback", "identified")
    BY <1>5 DEF Callback
  <2>2. sessions' # sessions
    OBVIOUS
  <2>3. PICK sid \in Unused :
          sessions' = [sessions EXCEPT
                ![r.sid] = NoSession, ![sid] = [user |-> r.session.user, transaction |-> None]]
    BY <1>1, <1>5, <2>2 DEF Callback
  <2>4. sid # r.sid
    BY <1>1 DEF Unused
  <2>5. s = r.sid => sessions'[s] = NoSession
    BY <1>2, <2>3, <2>4
  <2> QED BY <1>1, <1>2, <2>1, <2>5
<1>6. CASE Logout(q)
  BY <1>2, <1>6 DEF Logout
<1> QED BY <1>4, <1>5, <1>6

\* Of the requests in progress when a session is destroyed, only a sign-in that
\* had read it puts a user into it again.
THEOREM DestroyedStaysOut == Spec => DestroyedSessionsStayOut
<1> DEFINE Change ==
      \A s \in Sids : sessions[s].user = Nobody /\ sessions'[s].user # Nobody =>
         \E q \in Slots : \/ At(q, "callback", "identified") /\ s # request[q].sid
                          \/ At(q, "login", "identified") /\ request[q].sid = s
<1>1. IInv /\ [Next]_vars => [Change]_vars
  <2> SUFFICES ASSUME IInv, [Next]_vars, NEW s \in Sids,
                      sessions[s].user = Nobody, sessions'[s].user # Nobody
               PROVE  \E q \in Slots : \/ At(q, "callback", "identified") /\ s # request[q].sid
                                       \/ At(q, "login", "identified") /\ request[q].sid = s
    OBVIOUS
  <2> QED BY WhoWrites, SessionChange
<1> QED BY <1>1, Inductive, PTL DEF Spec, DestroyedSessionsStayOut
=============================================================================
