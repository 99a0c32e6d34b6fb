---------------------------- MODULE Organizations ----------------------------
(***************************************************************************)
(* The life of organizations and their units.  Saving a new one creates a  *)
(* Cognito group and the policies that permit this group something, then   *)
(* the row, which remembers the ids of the policies; deleting one deletes  *)
(* the row first, then the group and the policies.  An organization is     *)
(* saved with a default unit and deleted after its units.  No call is      *)
(* undone when a later one raises; the rows are, where the admin site runs *)
(* its forms in a database transaction.                                    *)
(***************************************************************************)
EXTENDS Naturals, Sequences

CONSTANTS
    Orgs,           \* organization_id values
    UnitIds,        \* unit_id values
    Default,        \* Unit.DEFAULT_UNIT_ID
    Procs,          \* request handlers
    AdminSite,      \* whether staff add and delete on the forms of the admin site
    MaxPolicies,    \* how many policies may be created
    MaxStops        \* how many handlers may stop half way

ASSUME OrganizationsAssumption ==
    /\ Default \in UnitIds
    /\ AdminSite \in BOOLEAN
    /\ MaxPolicies \in Nat /\ MaxStops \in Nat

VARIABLES
    rows,       \* database: the committed rows, each with the ids of its policies
    groups,     \* Cognito: the names of the groups
    policies,   \* Verified Permissions: the group each policy permits something
    issued,     \* Verified Permissions: how many policy ids were given out
    handler,    \* what each handler works on
    stopped,    \* (history) how many handlers have stopped half way
    reverted    \* (history) the rows whose deletion was rolled back

vars == <<rows, groups, policies, issued, handler, stopped, reverted>>
external == <<groups, policies, issued>>

\* An organization is <<o>>, a unit <<o, i>>.
Units == Orgs \X UnitIds
Things == {<<o>> : o \in Orgs} \cup Units
OrgOf(t) == <<t[1]>>
UnitsOf(t) == {u \in Units : OrgOf(u) = t}
IsOrg(t) == t = OrgOf(t)

\* CognitoUserGroup.name, and the name the delete methods pass: organization_id, unit_id.
GroupOf(t) == IF IsOrg(t) THEN <<"O", t[1]>> ELSE <<"U", t[1], t[2]>>
BareName(t) == IF IsOrg(t) THEN <<t[1]>> ELSE <<t[2]>>

\* The policies of a row, created and deleted in this order.
NumPolicies(t) == IF IsOrg(t) THEN 1 ELSE 2

Idle == [op |-> "none"]
Saved == DOMAIN rows
NoRows == [t \in {} |-> <<>>]
Merge(f, g) == [t \in DOMAIN f \cup DOMAIN g |-> IF t \in DOMAIN g THEN g[t] ELSE f[t]]

\* form: whether all of it is one transaction, as on a form of the admin site; the rows
\* it has added and deleted are then committed at its end.
Job(op, t, stage, form) ==
    [op |-> op, thing |-> t, of |-> t, stage |-> stage, ids |-> <<>>, units |-> NoRows,
     form |-> form, added |-> NoRows, gone |-> {}]

\* The rows a handler sees, and commits.
Sees(job) == Merge([t \in Saved \ job.gone |-> rows[t]], job.added)

Commit(job) == rows' = Sees(job) /\ reverted' = reverted \cap DOMAIN Sees(job)
Continue(p, job) == handler' = [handler EXCEPT ![p] = job] /\ UNCHANGED <<rows, stopped, reverted>>
Wrote(p, job) ==
    IF job.form
    THEN Continue(p, job)
    ELSE /\ Commit(job)
         /\ handler' = [handler EXCEPT ![p] = [job EXCEPT !.added = NoRows, !.gone = {}]]
         /\ UNCHANGED stopped
End(p, job) ==
    /\ Commit(job)
    /\ handler' = [handler EXCEPT ![p] = Idle]
    /\ UNCHANGED stopped
Abort(p) ==
    /\ handler' = [handler EXCEPT ![p] = Idle]
    /\ stopped' = stopped + 1
    /\ reverted' = reverted \cup handler[p].gone
    /\ UNCHANGED rows
Begin(p, job) == handler[p] = Idle /\ stopped <= MaxStops /\ Continue(p, job)
At(p, op, stage) == handler[p].op = op /\ handler[p].stage = stage

-----------------------------------------------------------------------------
Init ==
    /\ rows = NoRows
    /\ groups = {}
    /\ policies = NoRows
    /\ issued = 0
    /\ handler = [p \in Procs |-> Idle]
    /\ stopped = 0
    /\ reverted = {}

\* create_organization and create_unit, of an organization that exists, or the add forms
CreateOrganization(p, o) ==
    /\ \E form \in {FALSE, AdminSite} : Begin(p, Job("save", <<o>>, "clean", form))
    /\ UNCHANGED external

CreateUnit(p, u) ==
    /\ OrgOf(u) \in Saved
    /\ \E form \in {FALSE, AdminSite} : Begin(p, Job("save", u, "clean", form))
    /\ UNCHANGED external

\* An id that is taken, or a unit whose organization is gone
Refused(job) ==
    \/ job.thing \in DOMAIN Sees(job)
    \/ ~ IsOrg(job.thing) /\ OrgOf(job.thing) \notin DOMAIN Sees(job)

\* Nothing was done yet, but for the default unit of an organization that was added.
FullClean(p) ==
    /\ At(p, "save", "clean")
    /\ IF Refused(handler[p])
       THEN IF IsOrg(handler[p].of) /\ ~ IsOrg(handler[p].thing) THEN Abort(p) ELSE End(p, handler[p])
       ELSE Continue(p, [handler[p] EXCEPT !.stage = "group"])
    /\ UNCHANGED external

\* A group that exists already is only logged.
CreateGroup(p) ==
    /\ At(p, "save", "group")
    /\ groups' = groups \cup {GroupOf(handler[p].thing)}
    /\ Continue(p, [handler[p] EXCEPT !.stage = "policies"])
    /\ UNCHANGED <<policies, issued>>

\* Slip: the row is written after the first policy.
CreateOnePolicy(p) ==
    LET job == handler[p]
        ids == Append(job.ids, issued + 1)
    IN
    /\ At(p, "save", "policies")
    /\ issued < MaxPolicies
    /\ issued' = issued + 1
    /\ policies' = [n \in DOMAIN policies \cup {issued + 1} |->
           IF n = issued + 1 THEN GroupOf(job.thing) ELSE policies[n]]
    /\ Continue(p, [job EXCEPT !.ids = ids,
                    !.stage = "insert"])
    /\ UNCHANGED groups

\* Every call creates a policy of its own, with a new id.
CreatePolicy(p) ==
    LET job == handler[p]
        ids == Append(job.ids, issued + 1)
    IN
    /\ At(p, "save", "policies")
    /\ issued < MaxPolicies
    /\ issued' = issued + 1
    /\ policies' = [n \in DOMAIN policies \cup {issued + 1} |->
           IF n = issued + 1 THEN GroupOf(job.thing) ELSE policies[n]]
    /\ Continue(p, [job EXCEPT !.ids = ids,
                    !.stage = IF Len(ids) = NumPolicies(job.thing) THEN "insert" ELSE @])
    /\ UNCHANGED groups

\* The database refuses what full_clean refuses: the policies and the group stay.
InsertRow(p) ==
    LET job == handler[p]
        done == [job EXCEPT !.added = Merge(@, [t \in {job.thing} |-> job.ids])]
    IN
    /\ At(p, "save", "insert")
    /\ IF Refused(job)
       THEN Abort(p)
       ELSE IF IsOrg(job.thing)
            THEN Wrote(p, [done EXCEPT !.stage = "clean", !.ids = <<>>,
                                       !.thing = <<job.thing[1], Default>>])
            ELSE End(p, done)
    /\ UNCHANGED external

\* Changing the names of a row: the row is read, and all of it is saved.
Update(p, t) ==
    /\ t \in Saved
    /\ Begin(p, [Job("update", t, "check", FALSE) EXCEPT !.ids = rows[t]])
    /\ UNCHANGED external

CheckUnchangedId(p) ==
    /\ At(p, "update", "check")
    /\ IF handler[p].thing \in Saved
       THEN Continue(p, [handler[p] EXCEPT !.stage = "write"])
       ELSE End(p, handler[p])
    /\ UNCHANGED external

\* Model.save inserts the row if there is none to update any more.
WriteRow(p) ==
    LET job == handler[p] IN
    /\ At(p, "update", "write")
    /\ IF ~ IsOrg(job.thing) /\ OrgOf(job.thing) \notin Saved
       THEN Abort(p)
       ELSE End(p, [job EXCEPT !.added = [t \in {job.thing} |-> job.ids]])
    /\ UNCHANGED external

\* Deleting an organization deletes its units one by one before its own row.  (Its
\* machine users are deleted before: module MachineUsers.)
Delete(p, t) ==
    /\ t \in Saved
    /\ \E form \in {FALSE, AdminSite} :
        Begin(p, [Job("delete", t, IF IsOrg(t) THEN "units" ELSE "next", form)
                     EXCEPT !.ids = rows[t]])
    /\ UNCHANGED external

\* self.unit_set.all(): the rows are read before any of them is deleted.
ReadUnits(p) ==
    /\ At(p, "delete", "units")
    /\ Continue(p, [handler[p] EXCEPT !.stage = "next",
           !.units = [u \in UnitsOf(handler[p].of) \cap Saved |-> rows[u]]])
    /\ UNCHANGED external

\* Slip: the units are left to go with the row of their organization.
NextRowIsItself(p) ==
    /\ At(p, "delete", "next")
    /\ Continue(p, [handler[p] EXCEPT !.stage = "row", !.thing = handler[p].of])
    /\ UNCHANGED external

\* The next row to delete: a unit that is left, or the row the request was for.
NextRow(p) ==
    LET job == handler[p] IN
    /\ At(p, "delete", "next")
    /\ \/ \E u \in DOMAIN job.units :
            Continue(p, [job EXCEPT !.stage = "row", !.thing = u])
       \/ /\ DOMAIN job.units = {}
          /\ Continue(p, [job EXCEPT !.stage = "row", !.thing = job.of])
    /\ UNCHANGED external

\* Units that were added in the meantime go with the row of their organization.
DeleteRow(p) ==
    LET job == handler[p] IN
    /\ At(p, "delete", "row")
    /\ Wrote(p, [job EXCEPT !.stage = "group",
                     !.gone = @ \cup (({job.thing} \cup UnitsOf(job.thing)) \cap Saved)])
    /\ UNCHANGED external

\* Slip: a name is taken for that of the group.
DeleteGroupOfAnyOrganization(p) ==
    /\ At(p, "delete", "group")
    /\ groups' = {g \in groups : g[Len(g)] # handler[p].thing[Len(handler[p].thing)]}
    /\ Continue(p, [handler[p] EXCEPT !.stage = "policies"])
    /\ UNCHANGED <<policies, issued>>

\* A group that is not found is only logged.
DeleteGroup(p) ==
    /\ At(p, "delete", "group")
    /\ groups' = groups \ {BareName(handler[p].thing)}
    /\ Continue(p, [handler[p] EXCEPT !.stage = "policies"])
    /\ UNCHANGED <<policies, issued>>

\* The policies of the row as it was read, one call each.
DeletePolicies(p) ==
    LET job == handler[p]
        doomed == IF job.thing = job.of THEN job.ids ELSE job.units[job.thing]
        left == {k \in DOMAIN doomed : doomed[k] \in DOMAIN policies}
    IN
    /\ At(p, "delete", "policies")
    /\ \/ \E k \in left :
            /\ \A m \in left : k <= m
            /\ policies' = [n \in DOMAIN policies \ {doomed[k]} |-> policies[n]]
            /\ Continue(p, job)
       \/ /\ left = {}
          /\ UNCHANGED policies
          /\ IF job.thing = job.of
             THEN End(p, job)
             ELSE Continue(p, [job EXCEPT !.stage = "next",
                      !.units = [u \in DOMAIN job.units \ {job.thing} |-> job.units[u]]])
    /\ UNCHANGED <<groups, issued>>

\* A call raises, or the worker dies: nothing is undone.
Fail(p) ==
    /\ stopped < MaxStops
    /\ handler[p] # Idle
    /\ Abort(p)
    /\ UNCHANGED external

Step(p) ==
    \/ FullClean(p)
    \/ CreateGroup(p)
    \/ CreatePolicy(p)
    \/ InsertRow(p)
    \/ CheckUnchangedId(p)
    \/ WriteRow(p)
    \/ ReadUnits(p)
    \/ NextRow(p)
    \/ DeleteRow(p)
    \/ DeleteGroup(p)
    \/ DeletePolicies(p)

Next == \E p \in Procs :
    \/ \E o \in Orgs : CreateOrganization(p, o)
    \/ \E u \in Units : CreateUnit(p, u)
    \/ \E t \in Things : Update(p, t) \/ Delete(p, t)
    \/ Step(p)
    \/ Fail(p)

Spec == Init /\ [][Next]_vars

-----------------------------------------------------------------------------
PolicyIds == 1..MaxPolicies
Ids == UNION {[1..k -> PolicyIds] : k \in 0..2}
GroupNames == {GroupOf(t) : t \in Things}

TypeOK ==
    /\ Saved \subseteq Things
    /\ \A t \in Saved : rows[t] \in [1..NumPolicies(t) -> PolicyIds]
    /\ groups \subseteq GroupNames
    /\ DOMAIN policies \subseteq 1..issued
    /\ \A n \in DOMAIN policies : policies[n] \in GroupNames
    /\ issued \in 0..MaxPolicies
    /\ reverted \subseteq Saved
    /\ \A p \in Procs : handler[p] # Idle =>
           handler[p].thing \in Things /\ handler[p].ids \in Ids

Quiescent == \A p \in Procs : handler[p] = Idle

\* Whatever fails, an organization or unit that is in the database can be worked with:
\* its Cognito group is there and the policies it remembers permit this very group
\* something.  Only a delete form breaks this, while it runs and when it is rolled back:
\* its transaction brings the rows back, but neither groups nor policies.
BeingDeleted(t) == \E p \in Procs : handler[p] # Idle /\ t \in handler[p].gone
RowsAreBacked ==
    \A t \in Saved : ~ BeingDeleted(t) /\ t \notin reverted =>
        /\ GroupOf(t) \in groups
        /\ \A k \in DOMAIN rows[t] : rows[t][k] \in DOMAIN policies
                                     /\ policies[rows[t][k]] = GroupOf(t)

\* "Also calls delete of the related models which also perform some cleanup"
\* (organization/models.py:162): as long as no handler stops half way, every policy
\* there is belongs to a row, the units of a deleted organization included.
PoliciesHaveRows ==
    Quiescent /\ stopped = 0 =>
        DOMAIN policies = UNION {{rows[t][k] : k \in DOMAIN rows[t]} : t \in Saved}

\* "Deletes from the database and cognito" (organization/models.py:162 and 277): as long
\* as no handler stops half way, a Cognito group there is stands for a row.
DeletedFromCognito ==
    Quiescent /\ stopped = 0 => groups = {GroupOf(t) : t \in Saved}

=============================================================================
