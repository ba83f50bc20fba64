-------------------------- MODULE MCOperatorAccess --------------------------
(* Instances of OperatorAccess for TLC.                                     *)
EXTENDS OperatorAccess, TLC

CONSTANTS o1, o2

\* An administrator, and an analyst of one organization.
TwoPrincipals == {[role |-> "platform_admin", organizationIds |-> {}],
                  [role |-> "analyst", organizationIds |-> {o1}]}

\* No definition names a session identifier, a slot or a value.
AccessSymmetry == Permutations(Sids) \union Permutations(Slots) \union Permutations(Values)

(* The view of the run: what the future of a request depends on, where the    *)
(* properties of the run speak of nothing else.                               *)

\* No page waits for these, and nothing looks at what the answer says.
Unwatched == {"patch", "store", "rotate", "verify"}

\* All that is left of the request is the cookie that its answer sets again.
OnlyCookie(r) ==
    \/ r.stage = "ok" /\ (r.op \in Unwatched \/ (r.tab = None /\ r.op # "logout"))
    \/ r.stage = "refused" /\ (r.op \in Unwatched \union {"create"} \/ r.tab = None)
    \/ /\ r.stage \in {"scoped", "read"} /\ r.tab = None
       /\ r.op \in {"load", "organizations", "verify"}

\* The session that it read, and its header, are of no more use to the request.
SessionSpent(r) == r.op = "logout" \/ (r.stage = "scoped" /\ r.op \in {"load", "create"})

Relevant(r) ==
    IF OnlyCookie(r)
    THEN [Free EXCEPT !.sid = r.sid, !.stage = IF r.stage \in Answered THEN "ok" ELSE "scoped"]
    ELSE [r EXCEPT !.tab = IF r.op \in Unwatched THEN None ELSE @,
                   !.session = IF SessionSpent(r) THEN NoSession ELSE @,
                   !.header = IF SessionSpent(r) THEN None ELSE @]

AccessView == <<rows, sessions, browser, [q \in Slots |-> Relevant(request[q])]>>
=============================================================================
