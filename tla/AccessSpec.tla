----------------------------- MODULE AccessSpec -----------------------------
(***************************************************************************)
(* What service-control promises about who belongs to which organization,  *)
(* seen without Cognito, without handlers and without failures: every      *)
(* change of a user's place is one atomic step, and an access request is   *)
(* decided once.  Membership is shown to implement this specification.     *)
(***************************************************************************)
EXTENDS AccountTypes

VARIABLES
    member,    \* the place of each user: organization, unit and roles
    request    \* the access requests filed so far, NoRequest for a free id

vars == <<member, request>>

Init ==
    /\ member = [u \in Users |-> NoPlace]
    /\ request = [r \in Requests |-> NoRequest]

Pending(r) == request[r].state = "PENDING"
SetState(r, s) == request' = [request EXCEPT ![r].state = s]

\* An administrator, or the user's removal, gives the user another place.
Assign(u) ==
    /\ \E row \in Place : member' = [member EXCEPT ![u] = row]
    /\ UNCHANGED request

\* A user without organization and without a pending request files one.
Submit(r, u, o) ==
    /\ request[r] = NoRequest
    /\ member[u].org = NoOrg
    /\ \A q \in Requests : Pending(q) => request[q].user # u
    /\ request' = [request EXCEPT ![r] = [user |-> u, org |-> o, state |-> "PENDING"]]
    /\ UNCHANGED member

\* Only who was admitted to the organization has an approved request.
Approve(r) ==
    /\ Pending(r)
    /\ member[request[r].user].org = request[r].org
    /\ SetState(r, "APPROVED")
    /\ UNCHANGED member

Decline(r) == Pending(r) /\ SetState(r, "DECLINED") /\ UNCHANGED member
Cancel(r) == Pending(r) /\ SetState(r, "CANCELLED") /\ UNCHANGED member

Next ==
    \/ \E u \in Users : Assign(u)
    \/ \E r \in Requests, u \in Users, o \in Orgs : Submit(r, u, o)
    \/ \E r \in Requests : Approve(r) \/ Decline(r) \/ Cancel(r)

Spec == Init /\ [][Next]_vars

=============================================================================
