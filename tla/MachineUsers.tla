---------------------------- MODULE MachineUsers ----------------------------
(***************************************************************************)
(* A machine user lives in four places: an app client in Cognito, a policy *)
(* in Verified Permissions, a row in the database, and an entry of the     *)
(* list of audiences oauth2-proxy reads from one SSM parameter.  Creating  *)
(* one fills them in turn and undoes the first steps when a later one      *)
(* raises; deleting one empties them in turn, the row last.  The list is   *)
(* changed by reading the whole parameter and writing it back.             *)
(***************************************************************************)
EXTENDS Naturals, FiniteSets

CONSTANTS
    Clients,        \* app client ids Cognito may issue: bounds the creations
    Names,          \* (organization, name) pairs of machine users
    Procs,          \* request handlers
    MaxAudience,    \* how many audiences the SSM parameter has room for
    Raises,         \* whether any call may raise without taking effect
    Crashes,        \* whether a worker may die between two calls
    NoClient        \* no app client yet

ASSUME MachineUsersAssumption ==
    /\ NoClient \notin Clients
    /\ MaxAudience \in Nat
    /\ Raises \in BOOLEAN /\ Crashes \in BOOLEAN

VARIABLES
    issued,     \* Cognito: the app client ids given out so far
    clients,    \* Cognito: the app clients there are
    policies,   \* Verified Permissions: app clients a machine user policy permits
    audience,   \* SSM: the audiences in the parameter
    rows,       \* database: the app clients of the machine users
    named,      \* database: the name given to each of them
    handler,    \* what each handler works on
    cutShort    \* (history) whether deleting or undoing has ever stopped half way

vars == <<issued, clients, policies, audience, rows, named, handler, cutShort>>
cognito == <<issued, clients>>
database == <<rows, named>>

(***************************************************************************)
(* A handler is at a stage: the call it makes next.  AfterCall says where  *)
(* it goes when the call returns, AfterError when it raises: creating has  *)
(* two except clauses, the first deletes the app client, the second the    *)
(* machine user and then the app client.                                   *)
(***************************************************************************)
AfterCreate ==
    [create_client |-> "create_policy", create_policy |-> "insert_row",
     insert_row |-> "read_to_add", read_to_add |-> "put_added", put_added |-> "end"]

\* Slip: the row goes before what it stands for.
AfterDeleteRowFirst ==
    [delete_client |-> "delete_row", delete_row |-> "read_to_remove",
     read_to_remove |-> "put_removed", put_removed |-> "delete_policy", delete_policy |-> "end"]

AfterDelete ==
    [delete_client |-> "read_to_remove", read_to_remove |-> "put_removed",
     put_removed |-> "delete_policy", delete_policy |-> "delete_row", delete_row |-> "end"]
Stages == DOMAIN AfterCreate \cup DOMAIN AfterDelete \cup {"undo_client"}

Job == [op: {"create", "delete", "undo"},
        stage: Stages,
        client: Clients \cup {NoClient},
        name: Names,
        read: SUBSET Clients]       \* the audiences read, to be written back
Idle == [stage |-> "end"]

AfterCall(job) ==
    CASE job.op = "create" -> AfterCreate[job.stage]
      [] job.op = "delete" -> AfterDelete[job.stage]
      [] job.op = "undo" /\ job.stage = "delete_row" -> "undo_client"
      [] job.op = "undo" /\ job.stage = "undo_client" -> "end"
      [] OTHER -> AfterDelete[job.stage]

\* Slip: the machine user is left when its audience does not fit.
AfterErrorClientOnly(job) == IF job.op = "create" THEN "undo_client" ELSE "end"

\* An exception in an except clause, or while deleting, ends the request.
AfterError(job) ==
    CASE job.op = "create" /\ job.stage \in {"create_policy", "insert_row"} -> "undo_client"
      [] job.op = "create" /\ job.stage \in {"read_to_add", "put_added"} -> "delete_client"
      [] OTHER -> "end"

At(p, stage) == handler[p].stage = stage
GoTo(p, job, stage) ==
    handler' = [handler EXCEPT ![p] = IF stage = "end" THEN Idle ELSE [job EXCEPT !.stage = stage]]
Returns(p, job) == GoTo(p, job, AfterCall(job))
Raised(p) == GoTo(p, [handler[p] EXCEPT !.op = "undo"], AfterError(handler[p]))

-----------------------------------------------------------------------------
Init ==
    /\ issued = {}
    /\ clients = {}
    /\ policies = {}
    /\ audience = {}
    /\ rows = {}
    /\ named = [c \in {} |-> 0]
    /\ handler = [p \in Procs |-> Idle]
    /\ cutShort = FALSE

\* Slip: the app client is taken to exist already.
BeginCreatePolicyFirst(p, n) ==
    /\ handler[p] = Idle
    /\ issued # Clients
    /\ \A c \in rows : named[c] # n
    /\ handler' = [handler EXCEPT ![p] =
           [op |-> "create", stage |-> "create_policy", client |-> NoClient, name |-> n,
            read |-> {}]]
    /\ UNCHANGED <<cognito, policies, audience, database, cutShort>>

\* create_machine_user found no machine user of this name in the organization.
BeginCreate(p, n) ==
    /\ handler[p] = Idle
    /\ issued # Clients
    /\ \A c \in rows : named[c] # n
    /\ handler' = [handler EXCEPT ![p] =
           [op |-> "create", stage |-> "create_client", client |-> NoClient, name |-> n,
            read |-> {}]]
    /\ UNCHANGED <<cognito, policies, audience, database, cutShort>>

\* delete_machine_users found the machine user.
BeginDelete(p, c) ==
    /\ handler[p] = Idle
    /\ c \in rows
    /\ handler' = [handler EXCEPT ![p] =
           [op |-> "delete", stage |-> "delete_client", client |-> c, name |-> named[c],
            read |-> {}]]
    /\ UNCHANGED <<cognito, policies, audience, database, cutShort>>

CreateClient(p) ==
    /\ At(p, "create_client")
    /\ \E c \in Clients \ issued :
        /\ issued' = issued \cup {c}
        /\ clients' = clients \cup {c}
        /\ Returns(p, [handler[p] EXCEPT !.client = c])
    /\ UNCHANGED <<policies, audience, database, cutShort>>

CreatePolicy(p) ==
    /\ At(p, "create_policy")
    /\ policies' = policies \cup {handler[p].client}
    /\ Returns(p, handler[p])
    /\ UNCHANGED <<cognito, audience, database, cutShort>>

InsertRow(p) ==
    /\ At(p, "insert_row")
    /\ LET c == handler[p].client IN
        /\ rows' = rows \cup {c}
        /\ named' = [x \in rows \cup {c} |-> IF x = c THEN handler[p].name ELSE named[x]]
    /\ Returns(p, handler[p])
    /\ UNCHANGED <<cognito, policies, audience, cutShort>>

\* Client.get_parameter, for add_extra_audience and for remove_extra_audience
ReadAudience(p) ==
    /\ At(p, "read_to_add") \/ At(p, "read_to_remove")
    /\ Returns(p, [handler[p] EXCEPT !.read = audience])
    /\ UNCHANGED <<cognito, policies, audience, database, cutShort>>

\* A value longer than the parameter holds is refused: "Too many M2M users".
PutAdded(p) ==
    /\ At(p, "put_added")
    /\ LET value == handler[p].read \cup {handler[p].client} IN
       IF Cardinality(value) <= MaxAudience
       THEN audience' = value /\ Returns(p, handler[p])
       ELSE UNCHANGED audience /\ Raised(p)
    /\ UNCHANGED <<cognito, policies, database, cutShort>>

PutRemoved(p) ==
    /\ At(p, "put_removed")
    /\ audience' = handler[p].read \ {handler[p].client}
    /\ Returns(p, handler[p])
    /\ UNCHANGED <<cognito, policies, database, cutShort>>

\* An app client that is gone is no error: delete_app_client returns False.
DeleteClient(p) ==
    /\ At(p, "delete_client") \/ At(p, "undo_client")
    /\ clients' = clients \ {handler[p].client}
    /\ Returns(p, handler[p])
    /\ UNCHANGED <<issued, policies, audience, database, cutShort>>

DeletePolicy(p) ==
    /\ At(p, "delete_policy")
    /\ policies' = policies \ {handler[p].client}
    /\ Returns(p, handler[p])
    /\ UNCHANGED <<cognito, audience, database, cutShort>>

DeleteRow(p) ==
    /\ At(p, "delete_row")
    /\ rows' = rows \ {handler[p].client}
    /\ named' = [c \in rows \ {handler[p].client} |-> named[c]]
    /\ Returns(p, handler[p])
    /\ UNCHANGED <<cognito, policies, audience, cutShort>>

\* Any call may raise: a service is unreachable, or refuses.
Raise(p) ==
    /\ Raises
    /\ handler[p] # Idle
    /\ Raised(p)
    /\ cutShort' = (cutShort \/ handler[p].op # "create")
    /\ UNCHANGED <<cognito, policies, audience, database>>

Crash(p) ==
    /\ Crashes
    /\ handler[p] # Idle
    /\ handler' = [handler EXCEPT ![p] = Idle]
    /\ cutShort' = TRUE
    /\ UNCHANGED <<cognito, policies, audience, database>>

Step(p) ==
    \/ CreateClient(p)
    \/ CreatePolicy(p)
    \/ InsertRow(p)
    \/ ReadAudience(p)
    \/ PutAdded(p)
    \/ PutRemoved(p)
    \/ DeleteClient(p)
    \/ DeletePolicy(p)
    \/ DeleteRow(p)

Next == \E p \in Procs :
    \/ \E n \in Names : BeginCreate(p, n)
    \/ \E c \in Clients : BeginDelete(p, c)
    \/ Step(p)
    \/ Raise(p)
    \/ Crash(p)

Spec == Init /\ [][Next]_vars

-----------------------------------------------------------------------------
TypeOK ==
    /\ issued \subseteq Clients
    /\ clients \subseteq issued
    /\ policies \subseteq issued
    /\ audience \subseteq issued
    /\ rows \subseteq issued
    /\ named \in [rows -> Names]
    /\ handler \in [Procs -> Job \cup {Idle}]
    /\ cutShort \in BOOLEAN

Quiescent == \A p \in Procs : handler[p] = Idle

\* Once nothing is being created or deleted, a machine user is in all four places or
\* in none, also when creating it raised, at any of its calls, and was undone.  Only a
\* policy may be left over, for an app client that is gone: inserting the row can raise
\* after MachineUser.save has created the policy, which nobody then deletes.
AllPlacesAgree ==
    Quiescent /\ ~ cutShort => clients = rows /\ audience = rows /\ rows \subseteq policies

\* However creations and deletions interleave, the app client of a machine user is there
\* exactly as long as its row, and permitted, once nobody is at work.
GrantsAgree == Quiescent /\ ~ cutShort => clients = rows /\ rows \subseteq policies

\* "Add client id to ssm parameter holding list of audiences for oauth2-proxy to read",
\* and remove it again (user/extra_audience.py:12 and 25): with nobody at work, the
\* audiences are those of the machine users.
AudienceIsOfUsers == Quiescent /\ ~ cutShort => audience = rows

\* A single worker that fails at any point leaves no audience whose machine user is
\* gone, so a failed request can be repaired by deleting the machine user again.
AudienceHasUser == audience \subseteq rows

\* The row goes last: when it goes, whether by a deletion, a repeated one or an undone
\* creation, nothing of the machine user is left that nobody would find any more.
LeavesNoTrace ==
    [][\A c \in rows \ rows' : c \notin clients \cup policies \cup audience]_vars

\* Of this, what survives concurrent requests: no access is granted any more.
LeavesNoGrant ==
    [][\A c \in rows \ rows' : c \notin clients \cup policies]_vars

=============================================================================
