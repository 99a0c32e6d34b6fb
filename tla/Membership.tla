----------------------------- MODULE Membership -----------------------------
(***************************************************************************)
(* Who belongs to which organization, in the database and in Cognito.      *)
(*                                                                         *)
(* HumanUser.save tells Cognito first (roles attribute, group memberships, *)
(* one call at a time) and writes the row of the user last; approving an   *)
(* access request saves the user and then the request.  None of it is in a *)
(* transaction (user/api.py:369), so a handler is a sequence of calls      *)
(* between which other handlers run and after any of which it may fail.    *)
(* The organizations, their units and their Cognito groups do not change   *)
(* here.                                                                   *)
(***************************************************************************)
EXTENDS AccountTypes, Naturals, FiniteSets

CONSTANTS
    Procs,      \* request handlers: one element is a single-worker deployment
    Failures,   \* whether a call may raise, or the worker die, at any point
    AdminSite   \* whether staff edit users on the Django admin site

ASSUME FlagsAssumption == Failures \in BOOLEAN /\ AdminSite \in BOOLEAN

VARIABLES
    user,       \* database: the row of each user
    request,    \* database: the access requests
    groups,     \* Cognito: the groups each user is a member of
    attrs,      \* Cognito: the custom:roles attribute of each user
    handler,    \* what each handler has read and the calls it has yet to make
    failed      \* (history) the users a handler has failed on

vars == <<user, request, groups, attrs, handler, failed>>
cognito == <<groups, attrs>>
database == <<user, request>>

\* Cognito group names: O_<organization> and U_<organization>_<unit>.
OrganizationGroup(org) == <<"O", org>>
UnitGroup(unit) == <<"U", unit[1], unit[2]>>
Groups == {OrganizationGroup(o) : o \in Orgs} \cup {UnitGroup(x) : x \in Units}

\* The groups a user with this row belongs in.
GroupsOf(row) ==
    {OrganizationGroup(o) : o \in {row.org} \ {NoOrg}}
        \cup {UnitGroup(x) : x \in {row.unit} \ {NoUnit}}

(***************************************************************************)
(* Handlers.  A job holds the rows a handler has read and the ones it will *)
(* write; todo is the set of calls it has yet to make, made in the order   *)
(* of Position.                                                            *)
(***************************************************************************)

\* Slips the runs must notice: the row is saved before Cognito is told, or the request
\* is decided before its user is admitted.
PositionSaveFirst ==
    [load_user |-> 1, check |-> 2, update_user_roles |-> 4, leave_unit |-> 5, leave_org |-> 6,
     join_org |-> 7, join_unit |-> 8, save_user |-> 3, insert_request |-> 9, save_request |-> 10]

PositionDecideFirst ==
    [load_user |-> 1, check |-> 2, update_user_roles |-> 4, leave_unit |-> 5, leave_org |-> 6,
     join_org |-> 7, join_unit |-> 8, save_user |-> 9, insert_request |-> 10, save_request |-> 3]

Position == [load_user |-> 1, check |-> 2, update_user_roles |-> 3,
             leave_unit |-> 4, leave_org |-> 5, join_org |-> 6, join_unit |-> 7,
             save_user |-> 8, insert_request |-> 9, save_request |-> 10]
Calls == DOMAIN Position

NoId == "none"
Job == [user: Users,
        old: Row,                             \* the row of the user as read
        new: Row,                             \* and as it will be written
        req: Requests \cup {NoId},
        filing: Request \cup {NoRequest},     \* the request as it will be written
        todo: SUBSET Calls]
Idle == [todo |-> {}]

Turn(p, call) ==
    /\ call \in handler[p].todo
    /\ \A c \in handler[p].todo : Position[call] <= Position[c]

Begin(p, job) ==
    /\ handler[p] = Idle
    /\ handler' = [handler EXCEPT ![p] = job]
    /\ UNCHANGED <<database, cognito, failed>>

\* The call is made: the handler ends with its last one.
Made(p, call) ==
    LET job == handler[p] IN
    handler' = [handler EXCEPT ![p] =
        IF job.todo = {call} THEN Idle ELSE [job EXCEPT !.todo = @ \ {call}]]

\* Slip: a user who had no organization is not seen to enter one.
OrganizationChangedFromSome(old, new) == old.org # NoOrg /\ new.org # old.org

\* CustomUser.organization_changed and unit_changed
OrganizationChanged(old, new) == new.org # old.org
UnitChanged(old, new) == OrganizationChanged(old, new) \/ new.unit # old.unit

\* The calls HumanUser.save makes, all decided by the row as read and as changed.
SaveCalls(old, new) ==
    {c \in {"update_user_roles", "leave_unit", "leave_org", "join_org", "join_unit",
            "save_user"} :
        /\ c = "update_user_roles" => new.roles # old.roles
        /\ c = "leave_unit" => /\ UnitChanged(old, new)
                               /\ old.unit # NoUnit
                               /\ old.org # NoOrg
        /\ c = "leave_org" => OrganizationChanged(old, new) /\ old.org # NoOrg
        /\ c = "join_org" => OrganizationChanged(old, new) /\ new.org # NoOrg
        /\ c = "join_unit" => UnitChanged(old, new) /\ new.unit # NoUnit}

SaveJob(u, new) ==
    [user |-> u, old |-> user[u], new |-> new, req |-> NoId, filing |-> NoRequest,
     todo |-> SaveCalls(user[u], new)]

RequestJob(r, filing, todo) ==
    [user |-> filing.user, old |-> user[filing.user], new |-> user[filing.user],
     req |-> r, filing |-> filing, todo |-> todo]

-----------------------------------------------------------------------------
(* The handlers, up to the point where they have read what they act on.    *)

Init ==
    /\ user = [u \in Users |-> NoPlace]
    /\ request = [r \in Requests |-> NoRequest]
    /\ groups = [u \in Users |-> {}]
    /\ attrs = [u \in Users |-> {}]
    /\ handler = [p \in Procs |-> Idle]
    /\ failed = {}

\* Slip: the unit is not compared with the organization.
UpdateUserAnyUnit(p, u) ==
    /\ user[u].org # NoOrg
    /\ \E unit \in Units \cup {NoUnit}, roles \in SUBSET Roles :
        LET new == [user[u] EXCEPT !.unit = unit, !.roles = roles] IN
        /\ unit # NoUnit => {x \in Units : x[2] = unit[2]} = {unit}
        /\ Begin(p, SaveJob(u, new))

\* The unit is looked up by its unit_id alone, so an id that several
\* organizations use raises MultipleObjectsReturned and one that only another
\* organization uses makes save raise ValueError: neither reaches a call.
UpdateUser(p, u) ==
    /\ user[u].org # NoOrg
    /\ \E unit \in Units \cup {NoUnit}, roles \in SUBSET Roles :
        LET new == [user[u] EXCEPT !.unit = unit, !.roles = roles] IN
        /\ unit # NoUnit => {x \in Units : x[2] = unit[2]} = {unit}
        /\ Coherent(new)
        /\ Begin(p, SaveJob(u, new))

RemoveUser(p, u) ==
    /\ user[u].org # NoOrg
    /\ Begin(p, SaveJob(u, NoPlace))

\* HumanUserAdmin: any organization and roles, and a unit of the organization.
AdminEditUser(p, u) ==
    /\ AdminSite
    /\ \E new \in Place : Begin(p, SaveJob(u, new))

\* The middleware found a new name, email or admin group in the headers and saves
\* the row it read; CustomUser.save makes no call to Cognito.
SyncProfile(p, u) ==
    Begin(p, [SaveJob(u, user[u]) EXCEPT !.todo = {"save_user"}])

\* Slip: the request is filed for the user's own organization, which there is none of.
FileRequestOwnOrg(p, u, o) ==
    Begin(p, RequestJob(NoId, [user |-> u, org |-> user[u].org, state |-> "PENDING"],
                        {"check", "insert_request"}))

\* The user of the request is read by the middleware, before the handler runs.
FileRequest(p, u, o) ==
    /\ \E r \in Requests : request[r] = NoRequest
    /\ Begin(p, RequestJob(NoId, [user |-> u, org |-> o, state |-> "PENDING"],
                           {"check", "insert_request"}))

\* A request that is not pending, or a verdict the caller may not give, is refused.
CancelRequest(p, r) ==
    /\ request[r].state = "PENDING"
    /\ Begin(p, RequestJob(r, [request[r] EXCEPT !.state = "CANCELLED"], {"save_request"}))

DeclineRequest(p, r) ==
    /\ request[r].state = "PENDING"
    /\ Begin(p, RequestJob(r, [request[r] EXCEPT !.state = "DECLINED"], {"save_request"}))

ApproveRequest(p, r) ==
    /\ request[r].state = "PENDING"
    /\ Begin(p, RequestJob(r, [request[r] EXCEPT !.state = "APPROVED"],
                           {"load_user", "save_request"}))

-----------------------------------------------------------------------------
(* The calls.                                                              *)

\* access_request.user is read lazily, after the state of the request was checked;
\* at least one role is required, and a unit of the organization or none.
LoadUser(p) ==
    /\ Turn(p, "load_user")
    /\ \E unit \in Units \cup {NoUnit}, roles \in (SUBSET Roles) \ {{}} :
        LET job == handler[p]
            old == user[job.user]
            new == [org |-> job.filing.org, unit |-> unit, roles |-> roles]
        IN
        /\ Coherent(new)
        /\ handler' = [handler EXCEPT ![p] =
               [job EXCEPT !.old = old, !.new = new,
                           !.todo = SaveCalls(old, new) \cup {"save_request"}]]
    /\ UNCHANGED <<database, cognito, failed>>

MayFile(job) ==
    /\ \A r \in Requests : request[r].state = "PENDING" => request[r].user # job.user
    /\ job.old.org = NoOrg

Check(p) ==
    /\ Turn(p, "check")
    /\ IF MayFile(handler[p])
       THEN Made(p, "check")
       ELSE handler' = [handler EXCEPT ![p] = Idle]
    /\ UNCHANGED <<database, cognito, failed>>

UpdateUserRoles(p) ==
    /\ Turn(p, "update_user_roles")
    /\ attrs' = [attrs EXCEPT ![handler[p].user] = handler[p].new.roles]
    /\ Made(p, "update_user_roles")
    /\ UNCHANGED <<database, groups, failed>>

\* admin_add_user_to_group and admin_remove_user_from_group are idempotent.
Leave(p, call, group) ==
    /\ Turn(p, call)
    /\ groups' = [groups EXCEPT ![handler[p].user] = @ \ {group}]
    /\ Made(p, call)
    /\ UNCHANGED <<database, attrs, failed>>

Join(p, call, group) ==
    /\ Turn(p, call)
    /\ groups' = [groups EXCEPT ![handler[p].user] = @ \cup {group}]
    /\ Made(p, call)
    /\ UNCHANGED <<database, attrs, failed>>

LeaveUnit(p) == Leave(p, "leave_unit", UnitGroup(handler[p].old.unit))
LeaveOrg(p) == Leave(p, "leave_org", OrganizationGroup(handler[p].old.org))
JoinOrg(p) == Join(p, "join_org", OrganizationGroup(handler[p].new.org))
JoinUnit(p) == Join(p, "join_unit", UnitGroup(handler[p].new.unit))

\* Model.save writes every column of the row, the ones this handler left alone too.
SaveUser(p) ==
    /\ Turn(p, "save_user")
    /\ user' = [user EXCEPT ![handler[p].user] = handler[p].new]
    /\ Made(p, "save_user")
    /\ UNCHANGED <<request, cognito, failed>>

InsertRequest(p) ==
    /\ Turn(p, "insert_request")
    /\ \E r \in Requests :
        /\ request[r] = NoRequest
        /\ request' = [request EXCEPT ![r] = handler[p].filing]
    /\ Made(p, "insert_request")
    /\ UNCHANGED <<user, cognito, failed>>

SaveRequest(p) ==
    /\ Turn(p, "save_request")
    /\ request' = [request EXCEPT ![handler[p].req] = handler[p].filing]
    /\ Made(p, "save_request")
    /\ UNCHANGED <<user, cognito, failed>>

\* A call raises, or the worker dies: what was done stays done.
Fail(p) ==
    /\ Failures
    /\ handler[p] # Idle
    /\ handler' = [handler EXCEPT ![p] = Idle]
    /\ failed' = failed \cup {handler[p].user}
    /\ UNCHANGED <<database, cognito>>

Start(p) ==
    \/ \E u \in Users :
        \/ UpdateUser(p, u)
        \/ RemoveUser(p, u)
        \/ AdminEditUser(p, u)
        \/ SyncProfile(p, u)
        \/ \E o \in Orgs : FileRequest(p, u, o)
    \/ \E r \in Requests :
        \/ CancelRequest(p, r)
        \/ DeclineRequest(p, r)
        \/ ApproveRequest(p, r)

Step(p) ==
    \/ LoadUser(p)
    \/ Check(p)
    \/ UpdateUserRoles(p)
    \/ LeaveUnit(p)
    \/ LeaveOrg(p)
    \/ JoinOrg(p)
    \/ JoinUnit(p)
    \/ SaveUser(p)
    \/ InsertRequest(p)
    \/ SaveRequest(p)

Next == \E p \in Procs : Start(p) \/ Step(p) \/ Fail(p)

Spec == Init /\ [][Next]_vars

-----------------------------------------------------------------------------
TypeOK ==
    /\ user \in [Users -> Row]
    /\ request \in [Requests -> Request \cup {NoRequest}]
    /\ groups \in [Users -> SUBSET Groups]
    /\ attrs \in [Users -> SUBSET Roles]
    /\ handler \in [Procs -> Job \cup {Idle}]
    /\ failed \subseteq Users

\* The unit of a user is of the user's organization, whatever handlers write over
\* each other: each of them writes the organization and the unit together.
UnitOfOwnOrganization == \A u \in Users : Coherent(user[u])

\* Service-control is the source of truth for organizations and roles
\* (user/models.py:61): once nobody is working on a user, and unless a handler failed
\* half way, Cognito says of the user what the database says.
Working(u) == \E p \in Procs : handler[p] # Idle /\ handler[p].user = u
CognitoInSync ==
    \A u \in Users : ~ Working(u) /\ u \notin failed =>
        /\ groups[u] = GroupsOf(user[u])
        /\ attrs[u] = user[u].roles

\* The database never announces a place Cognito was not told of: when the row of a
\* user changes, the groups the user leaves are left, the ones the user enters are
\* entered and the roles are set, even if earlier attempts failed half way.
ToldCognito(u) ==
    LET old == user[u] new == user'[u] IN
    /\ GroupsOf(new) \ GroupsOf(old) \subseteq groups[u]
    /\ (GroupsOf(old) \ GroupsOf(new)) \cap groups[u] = {}
    /\ new.roles # old.roles => attrs[u] = new.roles
CognitoIsToldFirst == [][\A u \in Users : user'[u] # user[u] => ToldCognito(u)]_vars

\* A single worker, whatever fails, implements the abstract specification of access:
\* the database is all a client of the API sees.
Access == INSTANCE AccessSpec WITH member <- user
AccessIsAtomic == Access!Spec

=============================================================================
