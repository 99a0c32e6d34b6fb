---------------------------- MODULE AccountTypes ----------------------------
(***************************************************************************)
(* The rows that say who belongs where: the organization, unit and roles   *)
(* of a user, and the access requests.  Shared by the abstract             *)
(* specification AccessSpec and by Membership, which implements it.        *)
(***************************************************************************)

CONSTANTS
    Users,      \* human users (user.models.HumanUser)
    Orgs,       \* organizations
    UnitIds,    \* the unit_id values: unique within an organization only
    Units,      \* the Unit rows: unit i of organization o is the pair <<o, i>>
    Roles,      \* config.authorization.VPRole
    Requests,   \* access request ids: bounds how many requests are ever filed
    NoOrg,      \* a NULL organization
    NoUnit      \* a NULL unit

ASSUME UnitsAssumption ==
    /\ Units \subseteq Orgs \X UnitIds
    /\ NoOrg \notin Orgs
    /\ NoUnit \notin Units

Row == [org: Orgs \cup {NoOrg}, unit: Units \cup {NoUnit}, roles: SUBSET Roles]

\* CustomUser.save raises ValueError when the unit is of another organization.
Coherent(row) == row.unit # NoUnit => row.unit[1] = row.org

Place == {row \in Row : Coherent(row)}
NoPlace == [org |-> NoOrg, unit |-> NoUnit, roles |-> {}]

RequestState == {"PENDING", "APPROVED", "DECLINED", "CANCELLED"}
Request == [user: Users, org: Orgs, state: RequestState]

\* An id no request has yet.
NoRequest == [state |-> "NONE"]

=============================================================================
