-------------------------- MODULE Membership_proofs --------------------------
(***************************************************************************)
(* Theorems about Membership, for any sets of users, organizations, units, *)
(* requests and handlers.                                                  *)
(***************************************************************************)
EXTENDS Membership, TLAPS

(***************************************************************************)
(* What starting a job and making a call do to the handlers.               *)
(***************************************************************************)
LEMMA IdleIsNoJob == Idle \notin Job
  BY DEF Idle, Job

\* A handler whose turn it is to make a call is at work.
LEMMA TurnIsJob ==
  ASSUME TypeOK, NEW p \in Procs, NEW call, Turn(p, call)
  PROVE  handler[p] \in Job /\ call \in Calls /\ handler[p] # Idle
  BY DEF TypeOK, Turn, Idle, Job

LEMMA BeginHandler ==
  ASSUME TypeOK, NEW p \in Procs, NEW job \in Job, Begin(p, job)
  PROVE  /\ TypeOK'
         /\ user' = user
         /\ \A q \in Procs : handler'[q] = IF q = p THEN job ELSE handler[q]
  BY DEF TypeOK, Begin, database, cognito

\* A call leaves what the handler has read, and what it will write, as it was.
LEMMA MadeHandler ==
  ASSUME TypeOK, NEW p \in Procs, NEW call, Turn(p, call), Made(p, call)
  PROVE  /\ handler' \in [Procs -> Job \cup {Idle}]
         /\ \A q \in Procs \ {p} : handler'[q] = handler[q]
         /\ \/ handler'[p] = Idle
            \/ handler'[p] = [handler[p] EXCEPT !.todo = @ \ {call}]
  <1>1. handler[p] \in Job
    BY TurnIsJob
  <1>2. [handler[p] EXCEPT !.todo = @ \ {call}] \in Job
    BY <1>1 DEF Job
  <1>3. QED
    BY <1>1, <1>2 DEF TypeOK, Made

\* A handler that failed, or whose request was refused, is idle again.
LEMMA StopHandler ==
  ASSUME TypeOK, NEW p \in Procs, handler' = [handler EXCEPT ![p] = Idle],
         UNCHANGED <<database, cognito>>, failed' \subseteq Users
  PROVE  TypeOK'
  BY DEF TypeOK, database, cognito

LEMMA PlacesAreRows == NoPlace \in Place /\ Place \subseteq Row
  BY DEF NoPlace, Place, Row, Coherent

\* The jobs handlers start are jobs.
LEMMA SaveJobType ==
  ASSUME TypeOK, NEW u \in Users, NEW new \in Row
  PROVE  SaveJob(u, new) \in Job
  BY DEF TypeOK, SaveJob, Job, SaveCalls, Calls, Position, NoId

LEMMA RequestJobType ==
  ASSUME TypeOK, NEW r \in Requests \cup {NoId}, NEW filing \in Request, NEW todo \in SUBSET Calls
  PROVE  RequestJob(r, filing, todo) \in Job
  BY DEF TypeOK, RequestJob, Job, Request

-----------------------------------------------------------------------------
(***************************************************************************)
(* Type correctness and the coherence of rows, together: a handler writes  *)
(* the rows it prepared and joins the groups they name, so those have to   *)
(* be sound for the stored ones to stay so.  This needs no assumption on   *)
(* how handlers interleave, nor on failures.                               *)
(***************************************************************************)
SoundJob(job) ==
    /\ Coherent(job.new)
    /\ "join_org" \in job.todo => job.new.org # NoOrg
    /\ "join_unit" \in job.todo => job.new.unit # NoUnit
    /\ {"load_user", "save_request"} \cap job.todo # {} => job.req \in Requests
    /\ {"load_user", "check", "insert_request", "save_request"} \cap job.todo # {}
        => job.filing \in Request

SoundJobs == \A p \in Procs : handler[p] # Idle => SoundJob(handler[p])

RowsInv == TypeOK /\ UnitOfOwnOrganization /\ SoundJobs

LEMMA RowsInvInit == Init => RowsInv
  <1> SUFFICES ASSUME Init PROVE RowsInv
    OBVIOUS
  <1>1. TypeOK
    BY PlacesAreRows DEF Init, TypeOK
  <1>2. UnitOfOwnOrganization
    BY DEF Init, UnitOfOwnOrganization, Coherent, NoPlace
  <1>3. SoundJobs
    BY DEF Init, SoundJobs
  <1>4. QED
    BY <1>1, <1>2, <1>3 DEF RowsInv

\* A job stays sound when it has fewer calls left to make.
LEMMA SoundWithFewerCalls ==
  ASSUME NEW job \in Job, NEW todo \in SUBSET job.todo, SoundJob(job)
  PROVE  SoundJob([job EXCEPT !.todo = todo])
  BY DEF SoundJob, Job, Coherent

\* A sound job may start.
LEMMA BeginKeepsRows ==
  ASSUME RowsInv, NEW p \in Procs, NEW job \in Job, SoundJob(job), Begin(p, job)
  PROVE  RowsInv'
  <1>1. /\ TypeOK'
        /\ user' = user
        /\ \A q \in Procs : handler'[q] = IF q = p THEN job ELSE handler[q]
    BY BeginHandler DEF RowsInv
  <1>2. UnitOfOwnOrganization'
    BY <1>1 DEF RowsInv, UnitOfOwnOrganization, Coherent
  <1>3. SoundJobs'
    BY <1>1 DEF RowsInv, SoundJobs, SoundJob, Coherent
  <1>4. QED
    BY <1>1, <1>2, <1>3 DEF RowsInv

LEMMA SaveJobSound ==
  ASSUME RowsInv, NEW u \in Users, NEW new \in Row, Coherent(new)
  PROVE  SaveJob(u, new) \in Job /\ SoundJob(SaveJob(u, new))
  BY SaveJobType DEF RowsInv, SaveJob, SoundJob, SaveCalls

LEMMA RequestJobSound ==
  ASSUME RowsInv, NEW r \in Requests \cup {NoId}, NEW filing \in Request,
         NEW todo \in SUBSET {"load_user", "check", "insert_request", "save_request"},
         {"load_user", "save_request"} \cap todo # {} => r \in Requests
  PROVE  RequestJob(r, filing, todo) \in Job /\ SoundJob(RequestJob(r, filing, todo))
  <1>1. todo \in SUBSET Calls
    BY DEF Calls, Position
  <1>2. filing.user \in Users
    BY DEF Request
  <1>3. QED
    BY <1>1, <1>2, RequestJobType
    DEF RowsInv, RequestJob, SoundJob, UnitOfOwnOrganization

LEMMA StartKeepsRows ==
  ASSUME RowsInv, NEW p \in Procs, Start(p)
  PROVE  RowsInv'
  <1> USE DEF RowsInv
  <1>1. ASSUME NEW u \in Users, UpdateUser(p, u)
        PROVE  RowsInv'
    <2>1. PICK unit \in Units \cup {NoUnit}, roles \in SUBSET Roles :
            LET new == [user[u] EXCEPT !.unit = unit, !.roles = roles] IN
            Coherent(new) /\ Begin(p, SaveJob(u, new))
      BY <1>1 DEF UpdateUser
    <2> DEFINE new == [user[u] EXCEPT !.unit = unit, !.roles = roles]
    <2>2. new \in Row
      BY DEF TypeOK, Row
    <2>3. QED
      BY <2>1, <2>2, SaveJobSound, BeginKeepsRows
  <1>2. ASSUME NEW u \in Users, RemoveUser(p, u)
        PROVE  RowsInv'
    BY <1>2, PlacesAreRows, SaveJobSound, BeginKeepsRows DEF RemoveUser, Place
  <1>3. ASSUME NEW u \in Users, AdminEditUser(p, u)
        PROVE  RowsInv'
    BY <1>3, PlacesAreRows, SaveJobSound, BeginKeepsRows DEF AdminEditUser, Place
  <1>4. ASSUME NEW u \in Users, SyncProfile(p, u)
        PROVE  RowsInv'
    <2> DEFINE job == [SaveJob(u, user[u]) EXCEPT !.todo = {"save_user"}]
    <2>1. SaveJob(u, user[u]) \in Job /\ SoundJob(SaveJob(u, user[u]))
      BY SaveJobSound DEF TypeOK, UnitOfOwnOrganization
    <2>2. "save_user" \in SaveJob(u, user[u]).todo
      BY DEF SaveJob, SaveCalls
    <2>3. job \in Job /\ SoundJob(job)
      BY <2>1, <2>2, SoundWithFewerCalls DEF Job
    <2>4. QED
      BY <1>4, <2>3, BeginKeepsRows DEF SyncProfile
  \* The jobs on access requests carry the row of the user as it was read.
  <1>5. ASSUME NEW u \in Users, NEW o \in Orgs, FileRequest(p, u, o)
        PROVE  RowsInv'
    <2> DEFINE filing == [user |-> u, org |-> o, state |-> "PENDING"]
    <2>1. filing \in Request
      BY DEF Request, RequestState
    <2>2. QED
      BY <1>5, <2>1, RequestJobSound, BeginKeepsRows DEF FileRequest
  <1>6. ASSUME NEW r \in Requests, request[r].state = "PENDING",
               NEW verdict \in RequestState,
               NEW todo \in SUBSET {"load_user", "save_request"},
               Begin(p, RequestJob(r, [request[r] EXCEPT !.state = verdict], todo))
        PROVE  RowsInv'
    <2>1. [request[r] EXCEPT !.state = verdict] \in Request
      BY <1>6 DEF TypeOK, Request, NoRequest
    <2>2. QED
      BY <1>6, <2>1, RequestJobSound, BeginKeepsRows
  <1>7. ASSUME NEW r \in Requests, CancelRequest(p, r)
        PROVE  RowsInv'
    BY <1>6, <1>7 DEF CancelRequest, RequestState
  <1>8. ASSUME NEW r \in Requests, DeclineRequest(p, r)
        PROVE  RowsInv'
    BY <1>6, <1>8 DEF DeclineRequest, RequestState
  <1>9. ASSUME NEW r \in Requests, ApproveRequest(p, r)
        PROVE  RowsInv'
    BY <1>6, <1>9 DEF ApproveRequest, RequestState
  <1>10. QED
    BY <1>1, <1>2, <1>3, <1>4, <1>5, <1>7, <1>8, <1>9 DEF Start

\* Making a call: what is left is that the stored rows stay well typed and coherent.
LEMMA CallKeepsRows ==
  ASSUME RowsInv, NEW p \in Procs, NEW call, Turn(p, call), Made(p, call),
         user' \in [Users -> Row],
         \A u \in Users : Coherent(user'[u]),
         request' \in [Requests -> Request \cup {NoRequest}],
         groups' \in [Users -> SUBSET Groups],
         attrs' \in [Users -> SUBSET Roles],
         UNCHANGED failed
  PROVE  RowsInv'
  <1> USE DEF RowsInv
  <1>1. /\ handler' \in [Procs -> Job \cup {Idle}]
        /\ \A q \in Procs \ {p} : handler'[q] = handler[q]
        /\ \/ handler'[p] = Idle
           \/ handler'[p] = [handler[p] EXCEPT !.todo = @ \ {call}]
    BY MadeHandler
  <1>2. handler[p] \in Job /\ SoundJob(handler[p])
    BY TurnIsJob DEF SoundJobs
  <1>3. ASSUME NEW q \in Procs, handler'[q] # Idle
        PROVE  SoundJob(handler'[q])
    <2>1. CASE q = p
      <3>1. handler[p].todo \ {call} \in SUBSET handler[p].todo
        OBVIOUS
      <3>2. QED
        BY <1>1, <1>2, <1>3, <2>1, <3>1, SoundWithFewerCalls
    <2>2. CASE q # p
      BY <1>1, <1>3, <2>2 DEF SoundJobs
    <2>3. QED
      BY <2>1, <2>2
  <1>4. SoundJobs'
    BY <1>3 DEF SoundJobs, SoundJob, Coherent
  <1>5. TypeOK' /\ UnitOfOwnOrganization'
    BY <1>1 DEF TypeOK, UnitOfOwnOrganization, Coherent
  <1>6. QED
    BY <1>4, <1>5

\* A handler that stops leaves everything as it is.
LEMMA StopKeepsRows ==
  ASSUME RowsInv, NEW p \in Procs, handler' = [handler EXCEPT ![p] = Idle],
         UNCHANGED <<database, cognito>>, failed' \subseteq Users
  PROVE  RowsInv'
  <1> USE DEF RowsInv
  <1>1. TypeOK'
    BY StopHandler
  <1>2. UnitOfOwnOrganization'
    BY DEF UnitOfOwnOrganization, Coherent, database
  <1>3. SoundJobs'
    BY DEF TypeOK, SoundJobs, SoundJob, Coherent
  <1>4. QED
    BY <1>1, <1>2, <1>3

LEMMA StepKeepsRows ==
  ASSUME RowsInv, NEW p \in Procs, Step(p)
  PROVE  RowsInv'
  <1> USE DEF RowsInv
  <1>1. \A u \in Users : Coherent(user[u])
    BY DEF UnitOfOwnOrganization
  <1>2. ASSUME NEW call, Turn(p, call)
        PROVE  handler[p] \in Job /\ SoundJob(handler[p])
    BY <1>2, TurnIsJob DEF SoundJobs
  <1>3. CASE LoadUser(p)
    <2> DEFINE job == handler[p]
               old == user[job.user]
    <2>1. job \in Job /\ SoundJob(job) /\ "load_user" \in job.todo
      BY <1>2, <1>3 DEF LoadUser, Turn
    <2>2. job.req \in Requests /\ job.filing \in Request
      BY <2>1 DEF SoundJob
    <2>3. PICK unit \in Units \cup {NoUnit}, roles \in (SUBSET Roles) \ {{}} :
            LET new == [org |-> job.filing.org, unit |-> unit, roles |-> roles] IN
            /\ Coherent(new)
            /\ handler' = [handler EXCEPT ![p] =
                   [job EXCEPT !.old = old, !.new = new,
                               !.todo = SaveCalls(old, new) \cup {"save_request"}]]
      BY <1>3 DEF LoadUser
    <2> DEFINE new == [org |-> job.filing.org, unit |-> unit, roles |-> roles]
               loaded == [job EXCEPT !.old = old, !.new = new,
                                     !.todo = SaveCalls(old, new) \cup {"save_request"}]
    <2>4. old \in Row /\ new \in Row
      BY <2>1, <2>2 DEF TypeOK, Job, Request, Row
    <2>5. loaded \in Job
      BY <2>1, <2>4 DEF Job, SaveCalls, Calls, Position
    <2>6. SoundJob(loaded)
      BY <2>1, <2>2, <2>3 DEF Job, SoundJob, SaveCalls
    <2>7. UNCHANGED <<database, cognito, failed>>
      BY <1>3 DEF LoadUser
    <2>8. TypeOK'
      BY <2>3, <2>5, <2>7 DEF TypeOK, database, cognito
    <2>9. SoundJobs'
      BY <2>3, <2>6 DEF TypeOK, SoundJobs, SoundJob, Coherent
    <2>10. UnitOfOwnOrganization'
      BY <2>7 DEF UnitOfOwnOrganization, Coherent, database
    <2>11. QED
      BY <2>8, <2>9, <2>10
  <1>4. CASE Check(p)
    <2>1. CASE MayFile(handler[p])
      BY <1>1, <1>4, <2>1, CallKeepsRows DEF Check, TypeOK, database, cognito
    <2>2. CASE ~ MayFile(handler[p])
      BY <1>4, <2>2, StopKeepsRows DEF Check, TypeOK
    <2>3. QED
      BY <2>1, <2>2
  <1>5. CASE UpdateUserRoles(p)
    <2>1. attrs' \in [Users -> SUBSET Roles]
      BY <1>2, <1>5 DEF UpdateUserRoles, TypeOK, Job, Row
    <2>2. QED
      BY <1>1, <1>5, <2>1, CallKeepsRows DEF UpdateUserRoles, TypeOK, database
  <1>6. ASSUME NEW call, NEW group, Leave(p, call, group)
        PROVE  RowsInv'
    <2>1. groups' \in [Users -> SUBSET Groups]
      BY <1>2, <1>6 DEF Leave, TypeOK, Job
    <2>2. QED
      BY <1>1, <1>6, <2>1, CallKeepsRows DEF Leave, TypeOK, database
  <1>7. ASSUME NEW call, NEW group \in Groups, Join(p, call, group)
        PROVE  RowsInv'
    <2>1. groups' \in [Users -> SUBSET Groups]
      BY <1>2, <1>7 DEF Join, TypeOK, Job
    <2>2. QED
      BY <1>1, <1>7, <2>1, CallKeepsRows DEF Join, TypeOK, database
  <1>8. CASE JoinOrg(p)
    <2>1. OrganizationGroup(handler[p].new.org) \in Groups
      BY <1>2, <1>8 DEF JoinOrg, Join, Turn, SoundJob, Job, Row, Groups
    <2>2. QED
      BY <1>7, <1>8, <2>1 DEF JoinOrg
  <1>9. CASE JoinUnit(p)
    <2>1. UnitGroup(handler[p].new.unit) \in Groups
      BY <1>2, <1>9 DEF JoinUnit, Join, Turn, SoundJob, Job, Row, Groups
    <2>2. QED
      BY <1>7, <1>9, <2>1 DEF JoinUnit
  <1>10. CASE SaveUser(p)
    <2>1. handler[p] \in Job /\ Coherent(handler[p].new)
      BY <1>2, <1>10 DEF SaveUser, SoundJob
    <2>2. /\ user' \in [Users -> Row]
          /\ \A u \in Users : Coherent(user'[u])
      BY <1>1, <1>10, <2>1 DEF SaveUser, TypeOK, Job
    <2>3. QED
      BY <1>10, <2>2, CallKeepsRows DEF SaveUser, TypeOK, cognito
  <1>11. CASE InsertRequest(p)
    <2>1. handler[p].filing \in Request
      BY <1>2, <1>11 DEF InsertRequest, Turn, SoundJob
    <2>2. request' \in [Requests -> Request \cup {NoRequest}]
      BY <1>11, <2>1 DEF InsertRequest, TypeOK
    <2>3. QED
      BY <1>1, <1>11, <2>2, CallKeepsRows DEF InsertRequest, TypeOK, cognito
  <1>12. CASE SaveRequest(p)
    <2>1. handler[p].filing \in Request
      BY <1>2, <1>12 DEF SaveRequest, Turn, SoundJob
    <2>2. request' \in [Requests -> Request \cup {NoRequest}]
      BY <1>12, <2>1 DEF SaveRequest, TypeOK
    <2>3. QED
      BY <1>1, <1>12, <2>2, CallKeepsRows DEF SaveRequest, TypeOK, cognito
  <1>13. QED
    BY <1>3, <1>4, <1>5, <1>6, <1>8, <1>9, <1>10, <1>11, <1>12 DEF Step, LeaveUnit, LeaveOrg

LEMMA NextKeepsRows == RowsInv /\ [Next]_vars => RowsInv'
  <1> SUFFICES ASSUME RowsInv, [Next]_vars PROVE RowsInv'
    OBVIOUS
  <1>1. ASSUME NEW p \in Procs, Fail(p)
        PROVE  RowsInv'
    <2>1. handler[p].user \in Users /\ failed \subseteq Users
      BY <1>1 DEF Fail, RowsInv, TypeOK, Job
    <2>2. QED
      BY <1>1, <2>1, StopKeepsRows DEF Fail
  <1>2. CASE UNCHANGED vars
    BY <1>2 DEF vars, RowsInv, TypeOK, UnitOfOwnOrganization, SoundJobs, SoundJob, Coherent
  <1>3. QED
    BY <1>1, <1>2, StartKeepsRows, StepKeepsRows DEF Next

LEMMA RowsInvariant == Spec => []RowsInv
  BY RowsInvInit, NextKeepsRows, PTL DEF Spec

\* The rows of the database, the memberships and roles in Cognito and the state of
\* the handlers are well typed, for any number of handlers and any failures.
THEOREM TypeCorrect == Spec => []TypeOK
  BY RowsInvariant, PTL DEF RowsInv

\* However handlers overwrite each other's rows, the unit of a user is of the
\* user's organization.
THEOREM UnitsStayCoherent == Spec => []UnitOfOwnOrganization
  BY RowsInvariant, PTL DEF RowsInv

-----------------------------------------------------------------------------
(***************************************************************************)
(* With a single worker, whatever fails and whenever it dies, Membership   *)
(* implements AccessSpec.  The handler acts on what it has read, so the    *)
(* invariant says that what it has read is still so, and that a request    *)
(* about to be approved is the request of a user who was admitted.         *)
(***************************************************************************)
SingleWorker == \A p, q \in Procs : p = q

FilesSoundly(job) ==
    "insert_request" \in job.todo =>
        /\ job.todo \subseteq {"check", "insert_request"}
        /\ job.filing.state = "PENDING"
        /\ job.filing.user = job.user
        /\ job.old = user[job.user]
        /\ "check" \notin job.todo => MayFile(job)

DecidesSoundly(job) ==
    /\ "load_user" \in job.todo => "save_request" \in job.todo
    /\ "save_request" \in job.todo =>
           /\ request[job.req].state = "PENDING"
           /\ job.filing.state \in {"APPROVED", "DECLINED", "CANCELLED"}
           /\ job.filing = [request[job.req] EXCEPT !.state = job.filing.state]
           /\ job.filing.user = job.user
           /\ job.filing.state = "APPROVED" /\ "load_user" \notin job.todo =>
                  /\ job.new.org = job.filing.org
                  /\ "save_user" \in job.todo \/ user[job.user].org = job.filing.org

AccessInv ==
    /\ RowsInv
    /\ \A p \in Procs : handler[p] # Idle =>
           /\ FilesSoundly(handler[p])
           /\ DecidesSoundly(handler[p])

\* A job that saves the row of a user has nothing to do with requests.
LEMMA SaveJobAccess ==
  ASSUME NEW u \in Users, NEW new
  PROVE  FilesSoundly(SaveJob(u, new)) /\ DecidesSoundly(SaveJob(u, new))
  BY DEF SaveJob, SaveCalls, FilesSoundly, DecidesSoundly

\* Starting a job that acts on what is there.
LEMMA BeginKeepsAccess ==
  ASSUME SingleWorker, AccessInv, RowsInv', NEW p \in Procs, NEW job, Begin(p, job),
         FilesSoundly(job), DecidesSoundly(job)
  PROVE  AccessInv'
  <1>1. handler'[p] = job /\ user' = user /\ request' = request
    BY DEF AccessInv, RowsInv, TypeOK, Begin, database
  <1>2. \A q \in Procs : q = p
    BY DEF SingleWorker
  <1>3. FilesSoundly(handler[p])' /\ DecidesSoundly(handler[p])'
    BY <1>1 DEF FilesSoundly, DecidesSoundly, MayFile
  <1>4. QED
    BY <1>2, <1>3 DEF AccessInv

LEMMA StartKeepsAccess ==
  ASSUME SingleWorker, AccessInv, NEW p \in Procs, Start(p)
  PROVE  AccessInv' /\ UNCHANGED database
  <1>1. RowsInv'
    BY StartKeepsRows DEF AccessInv
  <1>2. ASSUME NEW job, Begin(p, job), FilesSoundly(job), DecidesSoundly(job)
        PROVE  AccessInv' /\ UNCHANGED database
    BY <1>1, <1>2, BeginKeepsAccess DEF Begin
  <1>3. ASSUME NEW u \in Users, NEW new, Begin(p, SaveJob(u, new))
        PROVE  AccessInv' /\ UNCHANGED database
    BY <1>2, <1>3, SaveJobAccess
  <1>4. ASSUME NEW u \in Users, UpdateUser(p, u)
        PROVE  AccessInv' /\ UNCHANGED database
    BY <1>3, <1>4 DEF UpdateUser
  <1>5. ASSUME NEW u \in Users, RemoveUser(p, u)
        PROVE  AccessInv' /\ UNCHANGED database
    BY <1>3, <1>5 DEF RemoveUser
  <1>6. ASSUME NEW u \in Users, AdminEditUser(p, u)
        PROVE  AccessInv' /\ UNCHANGED database
    BY <1>3, <1>6 DEF AdminEditUser
  <1>7. ASSUME NEW u \in Users, SyncProfile(p, u)
        PROVE  AccessInv' /\ UNCHANGED database
    <2> DEFINE job == [SaveJob(u, user[u]) EXCEPT !.todo = {"save_user"}]
    <2>1. job.todo = {"save_user"}
      BY DEF SaveJob
    <2>2. FilesSoundly(job) /\ DecidesSoundly(job)
      BY <2>1 DEF FilesSoundly, DecidesSoundly
    <2>3. QED
      BY <1>2, <1>7, <2>2 DEF SyncProfile
  <1>8. ASSUME NEW u \in Users, NEW o \in Orgs, FileRequest(p, u, o)
        PROVE  AccessInv' /\ UNCHANGED database
    <2> DEFINE filing == [user |-> u, org |-> o, state |-> "PENDING"]
               job == RequestJob(NoId, filing, {"check", "insert_request"})
    <2>1. FilesSoundly(job) /\ DecidesSoundly(job)
      BY DEF RequestJob, FilesSoundly, DecidesSoundly
    <2>2. QED
      BY <1>2, <1>8, <2>1 DEF FileRequest
  <1>9. ASSUME NEW r \in Requests, request[r].state = "PENDING",
               NEW verdict \in {"APPROVED", "DECLINED", "CANCELLED"},
               NEW todo \in SUBSET {"load_user", "save_request"},
               verdict = "APPROVED" => "load_user" \in todo,
               "save_request" \in todo,
               Begin(p, RequestJob(r, [request[r] EXCEPT !.state = verdict], todo))
        PROVE  AccessInv' /\ UNCHANGED database
    <2> DEFINE filing == [request[r] EXCEPT !.state = verdict]
               job == RequestJob(r, filing, todo)
    <2>1. request[r] \in Request
      BY <1>9 DEF AccessInv, RowsInv, TypeOK, NoRequest
    <2>2. filing.state = verdict /\ filing.user = request[r].user
      BY <2>1 DEF Request
    <2>3. FilesSoundly(job) /\ DecidesSoundly(job)
      BY <1>9, <2>2 DEF RequestJob, FilesSoundly, DecidesSoundly
    <2>4. QED
      BY <1>2, <1>9, <2>3
  <1>10. ASSUME NEW r \in Requests, CancelRequest(p, r)
         PROVE  AccessInv' /\ UNCHANGED database
    BY <1>9, <1>10 DEF CancelRequest
  <1>11. ASSUME NEW r \in Requests, DeclineRequest(p, r)
         PROVE  AccessInv' /\ UNCHANGED database
    BY <1>9, <1>11 DEF DeclineRequest
  <1>12. ASSUME NEW r \in Requests, ApproveRequest(p, r)
         PROVE  AccessInv' /\ UNCHANGED database
    BY <1>9, <1>12 DEF ApproveRequest
  <1>13. QED
    BY <1>4, <1>5, <1>6, <1>7, <1>8, <1>10, <1>11, <1>12 DEF Start

\* Making a call that changes no row: the job stays sound with one call less.
LEMMA CallKeepsAccess ==
  ASSUME SingleWorker, AccessInv, RowsInv', NEW p \in Procs, NEW call,
         Turn(p, call), Made(p, call), UNCHANGED database,
         call \notin {"load_user", "check", "save_user", "save_request"}
  PROVE  AccessInv'
  <1>1. /\ handler[p] \in Job
        /\ FilesSoundly(handler[p]) /\ DecidesSoundly(handler[p])
    BY TurnIsJob DEF AccessInv, RowsInv
  <1>2. \/ handler'[p] = Idle
        \/ handler'[p] = [handler[p] EXCEPT !.todo = @ \ {call}]
    BY MadeHandler DEF AccessInv, RowsInv
  <1>3. ASSUME handler'[p] # Idle
        PROVE  FilesSoundly(handler[p])' /\ DecidesSoundly(handler[p])'
    <2>1. handler'[p] = [handler[p] EXCEPT !.todo = @ \ {call}]
      BY <1>2, <1>3
    <2>2. FilesSoundly(handler[p])'
      BY <1>1, <2>1 DEF FilesSoundly, MayFile, Job, database
    <2>3. DecidesSoundly(handler[p])'
      BY <1>1, <2>1 DEF DecidesSoundly, Job, database
    <2>4. QED
      BY <2>2, <2>3
  <1>4. QED
    BY <1>3 DEF AccessInv, SingleWorker

LEMMA StepRefines ==
  ASSUME SingleWorker, AccessInv, NEW p \in Procs, Step(p)
  PROVE  AccessInv' /\ (Access!Next \/ UNCHANGED database)
  <1>1. RowsInv'
    BY StepKeepsRows DEF AccessInv
  <1>2. \A q \in Procs : q = p
    BY DEF SingleWorker
  <1> DEFINE job == handler[p]
  <1>3. /\ job \in Job /\ job # Idle
        /\ SoundJob(job) /\ FilesSoundly(job) /\ DecidesSoundly(job)
    <2>1. PICK call : Turn(p, call)
      BY DEF Step, LoadUser, Check, UpdateUserRoles, LeaveUnit, LeaveOrg, JoinOrg, JoinUnit,
             Leave, Join, SaveUser, InsertRequest, SaveRequest
    <2>2. QED
      BY <2>1, TurnIsJob DEF AccessInv, RowsInv, SoundJobs
  <1>4. CASE LoadUser(p)
    <2>1. PICK unit \in Units \cup {NoUnit}, roles \in (SUBSET Roles) \ {{}} :
            LET old == user[job.user]
                new == [org |-> job.filing.org, unit |-> unit, roles |-> roles] IN
            /\ Coherent(new)
            /\ handler' = [handler EXCEPT ![p] =
                   [job EXCEPT !.old = old, !.new = new,
                               !.todo = SaveCalls(old, new) \cup {"save_request"}]]
      BY <1>4 DEF LoadUser
    <2> DEFINE old == user[job.user]
               new == [org |-> job.filing.org, unit |-> unit, roles |-> roles]
               loaded == [job EXCEPT !.old = old, !.new = new,
                                     !.todo = SaveCalls(old, new) \cup {"save_request"}]
    <2>2. UNCHANGED database /\ handler'[p] = loaded
      BY <1>4, <2>1 DEF LoadUser, AccessInv, RowsInv, TypeOK
    <2>3. "load_user" \in job.todo /\ "save_request" \in job.todo
      BY <1>3, <1>4 DEF LoadUser, Turn, FilesSoundly, DecidesSoundly
    <2>4. /\ loaded.user = job.user /\ loaded.req = job.req /\ loaded.filing = job.filing
          /\ loaded.new = new
          /\ loaded.todo = SaveCalls(old, new) \cup {"save_request"}
      BY <1>3 DEF Job
    <2>5. "save_user" \in loaded.todo /\ "insert_request" \notin loaded.todo
      BY <2>4 DEF SaveCalls
    <2>6. FilesSoundly(loaded) /\ DecidesSoundly(loaded)
      BY <1>3, <2>3, <2>4, <2>5 DEF FilesSoundly, DecidesSoundly
    <2>7. FilesSoundly(handler[p])' /\ DecidesSoundly(handler[p])'
      BY <2>2, <2>6 DEF FilesSoundly, DecidesSoundly, MayFile, database
    <2>8. QED
      BY <1>1, <1>2, <2>2, <2>7 DEF AccessInv
  <1>5. CASE Check(p)
    <2>1. UNCHANGED database
      BY <1>5 DEF Check
    <2>2. CASE MayFile(job)
      <3>1. Turn(p, "check") /\ Made(p, "check")
        BY <1>5, <2>2 DEF Check
      <3>2. \/ handler'[p] = Idle
            \/ handler'[p] = [job EXCEPT !.todo = @ \ {"check"}]
        BY <3>1, MadeHandler DEF AccessInv, RowsInv
      <3>3. ASSUME handler'[p] # Idle
            PROVE  FilesSoundly(handler[p])' /\ DecidesSoundly(handler[p])'
        BY <1>3, <2>1, <2>2, <3>2, <3>3
        DEF FilesSoundly, DecidesSoundly, MayFile, Job, database
      <3>4. QED
        BY <1>1, <1>2, <2>1, <3>3 DEF AccessInv
    <2>3. CASE ~ MayFile(job)
      <3>1. handler'[p] = Idle
        BY <1>5, <2>3 DEF Check, AccessInv, RowsInv, TypeOK
      <3>2. QED
        BY <1>1, <1>2, <2>1, <3>1 DEF AccessInv
    <2>4. QED
      BY <2>2, <2>3
  <1>6. CASE UpdateUserRoles(p)
    BY <1>1, <1>6, CallKeepsAccess DEF UpdateUserRoles
  <1>7. CASE LeaveUnit(p) \/ LeaveOrg(p) \/ JoinOrg(p) \/ JoinUnit(p)
    BY <1>1, <1>7, CallKeepsAccess DEF LeaveUnit, LeaveOrg, JoinOrg, JoinUnit, Leave, Join
  \* Saving the row of a user gives the user another place.
  <1>8. CASE SaveUser(p)
    <2>1. Turn(p, "save_user") /\ Made(p, "save_user")
      BY <1>8 DEF SaveUser
    <2>2. user' = [user EXCEPT ![job.user] = job.new] /\ request' = request
      BY <1>8 DEF SaveUser
    <2>3. /\ job.user \in Users /\ job.new \in Row /\ Coherent(job.new)
          /\ user \in [Users -> Row]
      BY <1>3 DEF Job, SoundJob, AccessInv, RowsInv, TypeOK
    <2>4. Access!Assign(job.user)
      <3>1. job.new \in Access!Place
        BY <2>3 DEF Access!Place, Access!Row, Access!Coherent, Row, Coherent
      <3>2. QED
        BY <2>2, <3>1 DEF Access!Assign
    <2>5. \/ handler'[p] = Idle
          \/ handler'[p] = [job EXCEPT !.todo = @ \ {"save_user"}]
      BY <2>1, MadeHandler DEF AccessInv, RowsInv
    <2>6. ASSUME handler'[p] # Idle
          PROVE  FilesSoundly(handler[p])' /\ DecidesSoundly(handler[p])'
      <3>1. handler'[p] = [job EXCEPT !.todo = @ \ {"save_user"}]
        BY <2>5, <2>6
      <3>2. "insert_request" \notin job.todo
        BY <1>3, <2>1 DEF Turn, FilesSoundly
      <3>3. FilesSoundly(handler[p])'
        BY <1>3, <3>1, <3>2 DEF FilesSoundly, Job
      <3>4. user'[job.user] = job.new
        BY <2>2, <2>3
      <3>5. DecidesSoundly(handler[p])'
        BY <1>3, <2>2, <3>1, <3>4 DEF DecidesSoundly, Job
      <3>6. QED
        BY <3>3, <3>5
    <2>7. AccessInv'
      BY <1>1, <1>2, <2>6 DEF AccessInv
    <2>8. QED
      BY <2>3, <2>4, <2>7 DEF Access!Next
  \* Inserting a request files it.
  <1>9. CASE InsertRequest(p)
    <2>1. /\ Turn(p, "insert_request") /\ Made(p, "insert_request") /\ user' = user
      BY <1>9 DEF InsertRequest, cognito
    <2>2. PICK r \in Requests : /\ request[r] = NoRequest
                                /\ request' = [request EXCEPT ![r] = job.filing]
      BY <1>9 DEF InsertRequest
    <2>3. job.todo = {"insert_request"}
      BY <1>3, <2>1 DEF Turn, FilesSoundly, Position
    <2>4. /\ job.filing \in Request
          /\ job.filing.state = "PENDING"
          /\ job.filing.user = job.user
          /\ job.old = user[job.user]
          /\ MayFile(job)
      BY <1>3, <2>3 DEF SoundJob, FilesSoundly
    <2>5. Access!Submit(r, job.filing.user, job.filing.org)
      <3>1. job.filing = [user |-> job.filing.user, org |-> job.filing.org, state |-> "PENDING"]
        BY <2>4 DEF Request
      <3>2. QED
        BY <2>1, <2>2, <2>4, <3>1
        DEF Access!Submit, Access!Pending, Access!NoRequest, NoRequest, MayFile
    <2>6. handler'[p] = Idle
      BY <1>3, <2>1, <2>3 DEF Made, AccessInv, RowsInv, TypeOK
    <2>7. AccessInv'
      BY <1>1, <1>2, <2>6 DEF AccessInv
    <2>8. QED
      BY <2>4, <2>5, <2>7 DEF Access!Next, Request
  \* Saving a request decides it.
  <1>10. CASE SaveRequest(p)
    <2>1. /\ Turn(p, "save_request") /\ Made(p, "save_request") /\ user' = user
          /\ request' = [request EXCEPT ![job.req] = job.filing]
      BY <1>10 DEF SaveRequest, cognito
    <2>2. \A c \in job.todo : c = "save_request"
      BY <1>3, <2>1 DEF Turn, Position, Job, Calls
    <2>3. job.todo = {"save_request"}
      BY <2>1, <2>2 DEF Turn
    <2> DEFINE verdict == job.filing.state
    <2>4. /\ job.req \in Requests
          /\ request[job.req].state = "PENDING"
          /\ verdict \in {"APPROVED", "DECLINED", "CANCELLED"}
          /\ job.filing = [request[job.req] EXCEPT !.state = verdict]
          /\ verdict = "APPROVED" => user[job.filing.user].org = job.filing.org
      BY <1>3, <2>3 DEF SoundJob, DecidesSoundly
    <2>5. request[job.req] \in Request
      BY <2>4 DEF AccessInv, RowsInv, TypeOK, NoRequest
    <2>6. /\ Access!SetState(job.req, verdict) /\ Access!Pending(job.req)
          /\ verdict = "APPROVED" => user[request[job.req].user].org = request[job.req].org
      BY <2>1, <2>4, <2>5 DEF Access!SetState, Access!Pending, Request
    <2>7. Access!Approve(job.req) \/ Access!Decline(job.req) \/ Access!Cancel(job.req)
      BY <2>1, <2>4, <2>6 DEF Access!Approve, Access!Decline, Access!Cancel
    <2>8. handler'[p] = Idle
      BY <1>3, <2>1, <2>3 DEF Made, AccessInv, RowsInv, TypeOK
    <2>9. AccessInv'
      BY <1>1, <1>2, <2>8 DEF AccessInv
    <2>10. QED
      BY <2>4, <2>7, <2>9 DEF Access!Next
  <1>11. QED
    BY <1>4, <1>5, <1>6, <1>7, <1>8, <1>9, <1>10 DEF Step

LEMMA NextRefines ==
  ASSUME SingleWorker
  PROVE  AccessInv /\ [Next]_vars => AccessInv' /\ [Access!Next]_Access!vars
  <1> SUFFICES ASSUME AccessInv, [Next]_vars
               PROVE  AccessInv' /\ (Access!Next \/ UNCHANGED database)
    BY DEF Access!vars, database
  <1>1. RowsInv'
    BY NextKeepsRows DEF AccessInv
  <1>2. ASSUME NEW p \in Procs, Fail(p)
        PROVE  AccessInv' /\ UNCHANGED database
    <2>1. handler'[p] = Idle
      BY <1>2 DEF Fail, AccessInv, RowsInv, TypeOK
    <2>2. QED
      BY <1>1, <1>2, <2>1 DEF Fail, AccessInv, SingleWorker
  <1>3. CASE UNCHANGED vars
    <2>1. \A p \in Procs : /\ FilesSoundly(handler[p])' <=> FilesSoundly(handler[p])
                           /\ DecidesSoundly(handler[p])' <=> DecidesSoundly(handler[p])
      BY <1>3 DEF vars, FilesSoundly, DecidesSoundly, MayFile
    <2>2. QED
      BY <1>1, <1>3, <2>1 DEF vars, AccessInv, database
  <1>4. QED
    BY <1>2, <1>3, StartKeepsAccess, StepRefines DEF Next

\* With a single worker, and whatever it leaves half done, access requests are decided
\* once, by one verdict, only users of an organization have an approved request to it,
\* and nobody with an organization or a pending request files another.
THEOREM AccessRefinement ==
  ASSUME SingleWorker
  PROVE  Spec => AccessIsAtomic
  <1>1. Init => AccessInv
    BY RowsInvInit DEF AccessInv, Init
  <1>2. Init => Access!Init
    BY DEF Init, Access!Init, Access!NoPlace, Access!NoRequest, NoPlace, NoRequest
  <1>3. QED
    BY <1>1, <1>2, NextRefines, PTL DEF Spec, AccessIsAtomic, Access!Spec

-----------------------------------------------------------------------------
(***************************************************************************)
(* With a single worker, what Cognito says of a user follows what the      *)
(* database says.  Between the calls of a save it is half way: the calls   *)
(* made have taken effect, whatever earlier handlers left undone; and if   *)
(* none has ever failed on the user, nothing else differs from the row.    *)
(***************************************************************************)
CognitoCalls == {"update_user_roles", "leave_unit", "leave_org", "join_org", "join_unit"}

\* What Cognito says of the user once a call of a save has been made.
TakenEffect(call, u, old, new) ==
    /\ call = "update_user_roles" => attrs[u] = new.roles
    /\ call = "leave_unit" => UnitGroup(old.unit) \notin groups[u]
    /\ call = "leave_org" => OrganizationGroup(old.org) \notin groups[u]
    /\ call = "join_org" => OrganizationGroup(new.org) \in groups[u]
    /\ call = "join_unit" => UnitGroup(new.unit) \in groups[u]

\* On the way from one row to another, Cognito says nothing that neither says.
OnTheWay(u, old, new) ==
    /\ groups[u] \subseteq GroupsOf(old) \cup GroupsOf(new)
    /\ GroupsOf(old) \cap GroupsOf(new) \subseteq groups[u]
    /\ new.roles = old.roles => attrs[u] = new.roles

Told(u, old, new) ==
    /\ GroupsOf(new) \ GroupsOf(old) \subseteq groups[u]
    /\ (GroupsOf(old) \ GroupsOf(new)) \cap groups[u] = {}
    /\ new.roles # old.roles => attrs[u] = new.roles

TellsSoundly(job) ==
    /\ "save_user" \notin job.todo => job.todo \cap CognitoCalls = {}
    /\ "save_user" \in job.todo =>
           /\ {"load_user", "check"} \cap job.todo = {}
           /\ job.old = user[job.user]
           /\ job.todo \cap CognitoCalls \subseteq SaveCalls(job.old, job.new)
           /\ \A c \in SaveCalls(job.old, job.new) \ job.todo :
                  TakenEffect(c, job.user, job.old, job.new)
           /\ job.user \notin failed => OnTheWay(job.user, job.old, job.new)

InSync(u) == groups[u] = GroupsOf(user[u]) /\ attrs[u] = user[u].roles

Saves(p, u) == handler[p] # Idle /\ handler[p].user = u /\ "save_user" \in handler[p].todo

SyncInv ==
    /\ RowsInv
    /\ \A p \in Procs : handler[p] # Idle => TellsSoundly(handler[p])
    /\ \A u \in Users \ failed : (\A p \in Procs : ~ Saves(p, u)) => InSync(u)

LEMMA GroupsDiffer ==
  /\ \A a, b : OrganizationGroup(a) = OrganizationGroup(b) => a = b
  /\ \A x, y \in Units : UnitGroup(x) = UnitGroup(y) => x = y
  /\ \A a, x : OrganizationGroup(a) # UnitGroup(x)
  BY UnitsAssumption DEF OrganizationGroup, UnitGroup

LEMMA GroupsOfRow ==
  ASSUME NEW row, NEW g
  PROVE  g \in GroupsOf(row) <=> \/ row.org # NoOrg /\ g = OrganizationGroup(row.org)
                                 \/ row.unit # NoUnit /\ g = UnitGroup(row.unit)
  BY DEF GroupsOf

\* When every call of a save has taken effect, Cognito was told what changes.
LEMMA AllTold ==
  ASSUME NEW u, NEW old \in Place, NEW new \in Place,
         \A c \in SaveCalls(old, new) \ {"save_user"} : TakenEffect(c, u, old, new)
  PROVE  Told(u, old, new)
  <1>1. old \in Row /\ new \in Row /\ Coherent(old) /\ Coherent(new)
    BY DEF Place
  <1>2. ASSUME NEW g \in GroupsOf(new), g \notin GroupsOf(old)
        PROVE  g \in groups[u]
    <2>1. CASE new.org # NoOrg /\ g = OrganizationGroup(new.org)
      <3>1. new.org # old.org
        BY <1>2, <2>1, GroupsOfRow
      <3>2. "join_org" \in SaveCalls(old, new) \ {"save_user"}
        BY <2>1, <3>1 DEF SaveCalls, OrganizationChanged
      <3>3. QED
        BY <2>1, <3>2 DEF TakenEffect
    <2>2. CASE new.unit # NoUnit /\ g = UnitGroup(new.unit)
      <3>1. new.unit # old.unit
        BY <1>2, <2>2, GroupsOfRow
      <3>2. "join_unit" \in SaveCalls(old, new) \ {"save_user"}
        BY <2>2, <3>1 DEF SaveCalls, UnitChanged
      <3>3. QED
        BY <2>2, <3>2 DEF TakenEffect
    <2>3. QED
      BY <1>2, <2>1, <2>2, GroupsOfRow
  <1>3. ASSUME NEW g \in GroupsOf(old), g \notin GroupsOf(new)
        PROVE  g \notin groups[u]
    <2>1. CASE old.org # NoOrg /\ g = OrganizationGroup(old.org)
      <3>1. new.org # old.org
        BY <1>3, <2>1, GroupsOfRow
      <3>2. "leave_org" \in SaveCalls(old, new) \ {"save_user"}
        BY <2>1, <3>1 DEF SaveCalls, OrganizationChanged
      <3>3. QED
        BY <2>1, <3>2 DEF TakenEffect
    <2>2. CASE old.unit # NoUnit /\ g = UnitGroup(old.unit)
      <3>1. new.unit # old.unit
        BY <1>3, <2>2, GroupsOfRow
      \* A unit is of an organization, so a user with a unit has one.
      <3>2. old.org # NoOrg
        BY <1>1, <2>2, UnitsAssumption DEF Row, Coherent
      <3>3. "leave_unit" \in SaveCalls(old, new) \ {"save_user"}
        BY <2>2, <3>1, <3>2 DEF SaveCalls, UnitChanged
      <3>4. QED
        BY <2>2, <3>3 DEF TakenEffect
    <2>3. QED
      BY <1>3, <2>1, <2>2, GroupsOfRow
  <1>4. new.roles # old.roles => attrs[u] = new.roles
    <2>1. SUFFICES ASSUME new.roles # old.roles PROVE attrs[u] = new.roles
      OBVIOUS
    <2>2. "update_user_roles" \in SaveCalls(old, new) \ {"save_user"}
      BY <2>1 DEF SaveCalls
    <2>3. QED
      BY <2>2 DEF TakenEffect
  <1>5. QED
    BY <1>2, <1>3, <1>4 DEF Told

\* Being told is all it takes to be in step, when nothing else was left behind.
LEMMA ToldOnTheWay ==
  ASSUME NEW u, NEW old, NEW new, Told(u, old, new), OnTheWay(u, old, new)
  PROVE  groups[u] = GroupsOf(new) /\ attrs[u] = new.roles
  BY DEF Told, OnTheWay

\* The call a handler's turn is for comes before the others it has left.
LEMMA SaveIsLast ==
  ASSUME NEW p \in Procs, Turn(p, "save_user")
  PROVE  handler[p].todo \cap CognitoCalls = {}
  BY DEF Turn, Position, CognitoCalls

LEMMA RowIsPlace ==
  ASSUME RowsInv, NEW u \in Users
  PROVE  user[u] \in Place
  BY DEF RowsInv, TypeOK, UnitOfOwnOrganization, Place

\* When the row of a user is written, Cognito has been told.
LEMMA SaveTold ==
  ASSUME SyncInv, NEW p \in Procs, Turn(p, "save_user")
  PROVE  LET job == handler[p] IN
         /\ job \in Job
         /\ job.old = user[job.user]
         /\ Told(job.user, job.old, job.new)
         /\ job.user \notin failed => OnTheWay(job.user, job.old, job.new)
  <1> DEFINE job == handler[p]
  <1>1. job \in Job /\ job # Idle /\ "save_user" \in job.todo
    BY TurnIsJob DEF SyncInv, RowsInv, Turn
  <1>2. TellsSoundly(job) /\ SoundJob(job)
    BY <1>1 DEF SyncInv, RowsInv, SoundJobs
  <1>3. job.user \in Users /\ job.new \in Place
    BY <1>1, <1>2 DEF Job, SoundJob, Place
  <1>4. job.old \in Place
    BY <1>1, <1>2, <1>3, RowIsPlace DEF TellsSoundly, SyncInv
  <1>5. job.todo \cap CognitoCalls = {}
    BY SaveIsLast
  <1>6. SaveCalls(job.old, job.new) \subseteq CognitoCalls \cup {"save_user"}
    BY DEF SaveCalls, CognitoCalls
  <1>7. \A c \in SaveCalls(job.old, job.new) \ {"save_user"} :
            TakenEffect(c, job.user, job.old, job.new)
    BY <1>1, <1>2, <1>5, <1>6 DEF TellsSoundly
  <1>8. Told(job.user, job.old, job.new)
    BY <1>3, <1>4, <1>7, AllTold
  <1>9. QED
    BY <1>1, <1>2, <1>8 DEF TellsSoundly

-----------------------------------------------------------------------------
(* Each step keeps the half-way states sound.                              *)

\* Cognito and the rows stay, the handler reads and starts, or stops.
LEMMA StoreStays ==
  ASSUME SingleWorker, SyncInv, RowsInv', NEW p \in Procs,
         UNCHANGED <<user, groups, attrs>>, failed \subseteq failed',
         handler'[p] # Idle => TellsSoundly(handler[p])',
         \A u \in Users \ failed' : Saves(p, u) => Saves(p, u)'
  PROVE  SyncInv'
  <1>1. \A q \in Procs : q = p
    BY DEF SingleWorker
  <1>2. ASSUME NEW u \in Users \ failed', ~ Saves(p, u)'
        PROVE  InSync(u)'
    <2>1. InSync(u)
      BY <1>1, <1>2 DEF SyncInv
    <2>2. QED
      BY <2>1 DEF InSync, GroupsOf
  <1>3. QED
    BY <1>1, <1>2 DEF SyncInv

\* A job that has read the row as it is, and has made no call to Cognito yet.
LEMMA FreshJobTells ==
  ASSUME SyncInv, NEW job, job.user \in Users,
         job.old = user[job.user],
         {"load_user", "check"} \cap job.todo = {},
         "save_user" \in job.todo,
         job.todo \cap CognitoCalls = SaveCalls(job.old, job.new) \cap CognitoCalls,
         \A p \in Procs : ~ Saves(p, job.user)
  PROVE  TellsSoundly(job)
  <1>1. SaveCalls(job.old, job.new) \subseteq CognitoCalls \cup {"save_user"}
    BY DEF SaveCalls, CognitoCalls
  <1>2. SaveCalls(job.old, job.new) \ job.todo = {}
    BY <1>1
  <1>3. job.user \notin failed => OnTheWay(job.user, job.old, job.new)
    BY DEF SyncInv, InSync, OnTheWay
  <1>4. QED
    BY <1>2, <1>3 DEF TellsSoundly

LEMMA BeginKeepsSync ==
  ASSUME SingleWorker, SyncInv, RowsInv', NEW p \in Procs, NEW job, Begin(p, job),
         TellsSoundly(job)
  PROVE  SyncInv'
  <1>1. handler'[p] = job /\ handler[p] = Idle
    BY DEF Begin, SyncInv, RowsInv, TypeOK
  <1>2. UNCHANGED <<user, groups, attrs, failed>>
    BY DEF Begin, database, cognito
  <1>3. TellsSoundly(handler[p])'
    BY <1>1, <1>2 DEF TellsSoundly, TakenEffect, OnTheWay
  <1>4. \A u : ~ Saves(p, u)
    BY <1>1 DEF Saves
  <1>5. QED
    BY <1>2, <1>3, <1>4, StoreStays

LEMMA StartKeepsSync ==
  ASSUME SingleWorker, SyncInv, NEW p \in Procs, Start(p)
  PROVE  SyncInv' /\ user' = user
  <1>1. RowsInv'
    BY StartKeepsRows DEF SyncInv
  <1>2. ASSUME NEW job, Begin(p, job), TellsSoundly(job)
        PROVE  SyncInv' /\ user' = user
    BY <1>1, <1>2, BeginKeepsSync DEF Begin, database
  <1>3. ASSUME handler[p] = Idle
        PROVE  \A q \in Procs, u \in Users : ~ Saves(q, u)
    BY <1>3 DEF SingleWorker, Saves
  <1>4. ASSUME NEW u \in Users, NEW new, Begin(p, SaveJob(u, new))
        PROVE  SyncInv' /\ user' = user
    <2> DEFINE job == SaveJob(u, new)
    <2>1. /\ job.user = u /\ job.old = user[u] /\ job.new = new
          /\ job.todo = SaveCalls(user[u], new)
      BY DEF SaveJob
    <2>2. {"load_user", "check"} \cap job.todo = {} /\ "save_user" \in job.todo
      BY <2>1 DEF SaveCalls
    <2>3. handler[p] = Idle
      BY <1>4 DEF Begin
    <2>4. TellsSoundly(job)
      BY <1>3, <2>1, <2>2, <2>3, FreshJobTells
    <2>5. QED
      BY <1>2, <1>4, <2>4
  <1>5. ASSUME NEW u \in Users, SyncProfile(p, u)
        PROVE  SyncInv' /\ user' = user
    <2> DEFINE job == [SaveJob(u, user[u]) EXCEPT !.todo = {"save_user"}]
    <2>1. /\ job.user = u /\ job.old = user[u] /\ job.new = user[u]
          /\ job.todo = {"save_user"}
      BY DEF SaveJob
    \* Nothing changes, so save has no call to make to Cognito.
    <2>2. /\ job.todo \cap CognitoCalls = {}
          /\ SaveCalls(user[u], user[u]) \cap CognitoCalls = {}
      BY <2>1 DEF SaveCalls, CognitoCalls, UnitChanged, OrganizationChanged
    <2>3. handler[p] = Idle
      BY <1>5 DEF SyncProfile, Begin
    <2>4. {"load_user", "check"} \cap job.todo = {} /\ "save_user" \in job.todo
      BY <2>1
    <2>5. TellsSoundly(job)
      BY <1>3, <2>1, <2>2, <2>3, <2>4, FreshJobTells
    <2>6. QED
      BY <1>2, <1>5, <2>5 DEF SyncProfile
  <1>6. ASSUME NEW r, NEW filing, NEW todo, Begin(p, RequestJob(r, filing, todo)),
               todo \subseteq {"load_user", "check", "insert_request", "save_request"}
        PROVE  SyncInv' /\ user' = user
    <2> DEFINE job == RequestJob(r, filing, todo)
    <2>1. job.todo = todo
      BY DEF RequestJob
    <2>2. TellsSoundly(job)
      BY <1>6, <2>1 DEF TellsSoundly, CognitoCalls
    <2>3. QED
      BY <1>2, <1>6, <2>2
  <1>7. ASSUME NEW u \in Users, UpdateUser(p, u)
        PROVE  SyncInv' /\ user' = user
    BY <1>4, <1>7 DEF UpdateUser
  <1>8. ASSUME NEW u \in Users, RemoveUser(p, u) \/ AdminEditUser(p, u)
        PROVE  SyncInv' /\ user' = user
    BY <1>4, <1>8 DEF RemoveUser, AdminEditUser
  <1>9. ASSUME NEW u \in Users, NEW o \in Orgs, FileRequest(p, u, o)
        PROVE  SyncInv' /\ user' = user
    BY <1>6, <1>9 DEF FileRequest
  <1>10. ASSUME NEW r \in Requests,
                CancelRequest(p, r) \/ DeclineRequest(p, r) \/ ApproveRequest(p, r)
         PROVE  SyncInv' /\ user' = user
    BY <1>6, <1>10 DEF CancelRequest, DeclineRequest, ApproveRequest
  <1>11. QED
    BY <1>5, <1>7, <1>8, <1>9, <1>10 DEF Start

\* A call to Cognito: it takes effect, and undoes none made before it.
LEMMA CallKeepsSync ==
  ASSUME SingleWorker, SyncInv, RowsInv', NEW p \in Procs, NEW call \in CognitoCalls,
         NEW u, NEW old, NEW new,
         handler[p].user = u, handler[p].old = old, handler[p].new = new,
         Turn(p, call), Made(p, call), UNCHANGED <<user, failed>>,
         \A w \in Users \ {u} : groups'[w] = groups[w] /\ attrs'[w] = attrs[w],
         TakenEffect(call, u, old, new)',
         \A c \in SaveCalls(old, new) \ {call} :
             TakenEffect(c, u, old, new) => TakenEffect(c, u, old, new)',
         OnTheWay(u, old, new) => OnTheWay(u, old, new)'
  PROVE  SyncInv'
  <1> DEFINE job == handler[p]
  <1>1. job \in Job /\ job # Idle /\ call \in job.todo
    BY TurnIsJob DEF SyncInv, RowsInv, Turn
  <1>2. \A q \in Procs : q = p
    BY DEF SingleWorker
  <1>3. TellsSoundly(job)
    BY <1>1 DEF SyncInv
  <1>4. "save_user" \in job.todo
    BY <1>1, <1>3 DEF TellsSoundly
  <1>5. job.todo # {call}
    BY <1>4 DEF CognitoCalls
  <1>6. handler'[p] = [job EXCEPT !.todo = @ \ {call}]
    BY <1>5 DEF Made, SyncInv, RowsInv, TypeOK
  <1>7. /\ handler'[p].user = u /\ handler'[p].old = old /\ handler'[p].new = new
        /\ handler'[p].todo = job.todo \ {call}
    BY <1>1, <1>6 DEF Job
  <1>8. "save_user" \in handler'[p].todo
    BY <1>4, <1>7 DEF CognitoCalls
  <1>9. /\ {"load_user", "check"} \cap job.todo = {}
        /\ old = user[u]
        /\ job.todo \cap CognitoCalls \subseteq SaveCalls(old, new)
        /\ \A c \in SaveCalls(old, new) \ job.todo : TakenEffect(c, u, old, new)
        /\ u \notin failed => OnTheWay(u, old, new)
    BY <1>3, <1>4 DEF TellsSoundly
  <1>10. \A c \in SaveCalls(old, new) \ (job.todo \ {call}) : TakenEffect(c, u, old, new)'
    <2>1. TAKE c \in SaveCalls(old, new) \ (job.todo \ {call})
    <2>2. CASE c = call
      BY <2>2
    <2>3. CASE c # call
      BY <1>9, <2>3
    <2>4. QED
      BY <2>2, <2>3
  <1>11. TellsSoundly(handler[p])'
    <2>1. /\ {"load_user", "check"} \cap handler'[p].todo = {}
          /\ handler'[p].old = user'[handler'[p].user]
          /\ handler'[p].todo \cap CognitoCalls \subseteq SaveCalls(old, new)
      BY <1>7, <1>9
    <2>2. handler'[p].user \notin failed' => OnTheWay(u, old, new)'
      BY <1>7, <1>9
    <2> HIDE DEF job
    <2>3. QED
      BY <1>7, <1>8, <1>10, <2>1, <2>2 DEF TellsSoundly, TakenEffect, OnTheWay
  <1>12. handler'[p] # Idle
    BY <1>8 DEF Idle
  <1>13. ASSUME NEW w \in Users \ failed', ~ Saves(p, w)'
         PROVE  InSync(w)'
    <2>1. w # u
      BY <1>7, <1>8, <1>12, <1>13 DEF Saves
    <2>2. ~ Saves(p, w)
      BY <2>1 DEF Saves
    <2>3. InSync(w)
      BY <1>2, <1>13, <2>2 DEF SyncInv
    <2>4. QED
      BY <1>13, <2>1, <2>3 DEF InSync, GroupsOf
  <1>14. QED
    BY <1>2, <1>11, <1>13 DEF SyncInv

\* A handler with no row to save changes nothing that Cognito or a row says.
LEMMA NoSaveKeepsSync ==
  ASSUME SingleWorker, SyncInv, RowsInv', NEW p \in Procs,
         UNCHANGED <<user, groups, attrs, failed>>,
         "save_user" \notin handler[p].todo,
         handler[p].todo \cap CognitoCalls = {},
         handler'[p].todo \subseteq handler[p].todo
  PROVE  SyncInv'
  <1>1. TellsSoundly(handler[p])'
    BY DEF TellsSoundly
  <1>2. \A u : ~ Saves(p, u)
    BY DEF Saves
  <1>3. QED
    BY <1>1, <1>2, StoreStays

\* So does a call that follows the save, or goes without one.
LEMMA OtherCallKeepsSync ==
  ASSUME SingleWorker, SyncInv, RowsInv', NEW p \in Procs, NEW call,
         Turn(p, call), Made(p, call), call \notin CognitoCalls \cup {"save_user"},
         "save_user" \notin handler[p].todo, UNCHANGED <<user, groups, attrs, failed>>
  PROVE  SyncInv'
  <1>1. handler[p] \in Job /\ TellsSoundly(handler[p])
    BY TurnIsJob DEF SyncInv, RowsInv
  <1>2. \/ handler'[p] = Idle
        \/ handler'[p] = [handler[p] EXCEPT !.todo = @ \ {call}]
    BY MadeHandler DEF SyncInv, RowsInv
  <1>3. handler'[p].todo \subseteq handler[p].todo
    BY <1>1, <1>2 DEF Idle, Job
  <1>4. QED
    BY <1>1, <1>3, NoSaveKeepsSync DEF TellsSoundly

LEMMA StepKeepsSync ==
  ASSUME SingleWorker, SyncInv, NEW p \in Procs, Step(p)
  PROVE  /\ SyncInv'
         /\ \A u \in Users : user'[u] # user[u] => Told(u, user[u], user'[u])
  <1> DEFINE job == handler[p]
  <1>0. PICK u, old, new : u = job.user /\ old = job.old /\ new = job.new
    OBVIOUS
  <1> USE <1>0
  <1>1. RowsInv'
    BY StepKeepsRows DEF SyncInv
  <1>2. \A q \in Procs : q = p
    BY DEF SingleWorker
  <1>3. PICK at : Turn(p, at)
    BY DEF Step, LoadUser, Check, UpdateUserRoles, LeaveUnit, LeaveOrg, JoinOrg, JoinUnit,
           Leave, Join, SaveUser, InsertRequest, SaveRequest
  <1>4. /\ job \in Job /\ job # Idle
        /\ SoundJob(job) /\ TellsSoundly(job)
    BY <1>3, TurnIsJob DEF SyncInv, RowsInv, SoundJobs
  <1>5. u \in Users /\ new \in Place
    BY <1>4 DEF Job, SoundJob, Place
  <1>6. u \in Users /\ groups \in [Users -> SUBSET Groups] /\ attrs \in [Users -> SUBSET Roles]
    BY <1>5 DEF SyncInv, RowsInv, TypeOK
  \* While there are calls to Cognito to make, the row read is the one stored.
  <1>7. ASSUME NEW c \in CognitoCalls, c \in job.todo
        PROVE  /\ "save_user" \in job.todo
               /\ old = user[u] /\ old \in Place
               /\ c \in SaveCalls(old, new)
    BY <1>4, <1>5, <1>7, RowIsPlace DEF TellsSoundly, SyncInv
  <1>8. CASE LoadUser(p)
    <2>1. PICK unit \in Units \cup {NoUnit}, roles \in (SUBSET Roles) \ {{}} :
            LET row == [org |-> job.filing.org, unit |-> unit, roles |-> roles] IN
            handler' = [handler EXCEPT ![p] =
                   [job EXCEPT !.old = user[u], !.new = row,
                               !.todo = SaveCalls(user[u], row) \cup {"save_request"}]]
      BY <1>8 DEF LoadUser
    <2> DEFINE row == [org |-> job.filing.org, unit |-> unit, roles |-> roles]
               loaded == [job EXCEPT !.old = user[u], !.new = row,
                                     !.todo = SaveCalls(user[u], row) \cup {"save_request"}]
    <2>2. handler'[p] = loaded
      BY <2>1 DEF SyncInv, RowsInv, TypeOK
    <2>3. /\ loaded.user = u /\ loaded.old = user[u] /\ loaded.new = row
          /\ loaded.todo = SaveCalls(user[u], row) \cup {"save_request"}
      BY <1>4 DEF Job
    <2>4. UNCHANGED <<user, groups, attrs, failed>>
      BY <1>8 DEF LoadUser, database, cognito
    <2>5. "save_user" \notin job.todo
      BY <1>4, <1>8 DEF LoadUser, Turn, TellsSoundly
    <2>6. \A w : ~ Saves(p, w)
      BY <2>5 DEF Saves
    <2> HIDE DEF loaded, row
    <2>7. {"load_user", "check"} \cap loaded.todo = {} /\ "save_user" \in loaded.todo
      BY <2>3 DEF SaveCalls
    <2>8. loaded.todo \cap CognitoCalls = SaveCalls(loaded.old, loaded.new) \cap CognitoCalls
      BY <2>3 DEF CognitoCalls
    <2>9. TellsSoundly(loaded)
      BY <1>2, <1>5, <2>3, <2>6, <2>7, <2>8, FreshJobTells
    <2>10. TellsSoundly(handler[p])'
      BY <2>2, <2>4, <2>9 DEF TellsSoundly, TakenEffect, OnTheWay
    <2>11. SyncInv'
      BY <1>1, <2>4, <2>6, <2>10, StoreStays
    <2>12. QED
      BY <2>4, <2>11
  <1>9. CASE Check(p)
    <2>1. UNCHANGED <<user, groups, attrs, failed>>
      BY <1>9 DEF Check, database, cognito
    <2>2. Turn(p, "check")
      BY <1>9 DEF Check
    <2>3. "save_user" \notin job.todo /\ job.todo \cap CognitoCalls = {}
      BY <1>4, <2>2 DEF Turn, TellsSoundly
    <2>4. CASE MayFile(job)
      <3>1. Made(p, "check")
        BY <1>9, <2>4 DEF Check
      <3>2. "check" \notin CognitoCalls \cup {"save_user"}
        BY DEF CognitoCalls
      <3>3. QED
        BY <1>1, <2>1, <2>2, <2>3, <3>1, <3>2, OtherCallKeepsSync
    <2>5. CASE ~ MayFile(job)
      <3>1. handler'[p] = Idle
        BY <1>9, <2>5 DEF Check, SyncInv, RowsInv, TypeOK
      <3>2. handler'[p].todo \subseteq handler[p].todo
        BY <3>1 DEF Idle
      <3>3. QED
        BY <1>1, <2>1, <2>3, <3>2, NoSaveKeepsSync
    <2>6. QED
      BY <2>4, <2>5
  <1>10. CASE InsertRequest(p) \/ SaveRequest(p)
    <2>1. UNCHANGED <<user, groups, attrs, failed>>
      BY <1>10 DEF InsertRequest, SaveRequest, cognito
    <2>2. PICK last \in {"insert_request", "save_request"} : Turn(p, last) /\ Made(p, last)
      BY <1>10 DEF InsertRequest, SaveRequest
    <2>3. "save_user" \notin job.todo
      BY <2>2 DEF Turn, Position
    <2>4. last \notin CognitoCalls \cup {"save_user"}
      BY DEF CognitoCalls
    <2>5. QED
      BY <1>1, <2>1, <2>2, <2>3, <2>4, OtherCallKeepsSync
  <1>11. CASE UpdateUserRoles(p)
    <2>1. /\ Turn(p, "update_user_roles") /\ Made(p, "update_user_roles")
          /\ attrs' = [attrs EXCEPT ![u] = new.roles]
          /\ UNCHANGED <<user, groups, failed>>
      BY <1>11 DEF UpdateUserRoles, database
    <2>2. "update_user_roles" \in CognitoCalls
      BY DEF CognitoCalls
    <2>3. attrs'[u] = new.roles /\ \A w \in Users \ {u} : attrs'[w] = attrs[w]
      BY <1>6, <2>1
    <2>4. QED
      BY <1>1, <2>1, <2>2, <2>3, CallKeepsSync DEF TakenEffect, OnTheWay
  \* A group that is left is not one that is entered, nor one that both rows share.
  <1>12. ASSUME NEW call \in {"leave_unit", "leave_org"}, NEW group, Leave(p, call, group),
                call = "leave_unit" => group = UnitGroup(old.unit),
                call = "leave_org" => group = OrganizationGroup(old.org)
         PROVE  SyncInv' /\ user' = user
    <2>1. /\ Turn(p, call) /\ Made(p, call)
          /\ groups' = [groups EXCEPT ![u] = @ \ {group}]
          /\ UNCHANGED <<user, attrs, failed>>
      BY <1>12 DEF Leave, database
    <2>2. call \in CognitoCalls /\ call \in job.todo
      BY <2>1 DEF CognitoCalls, Turn
    <2>3. groups'[u] = groups[u] \ {group} /\ \A w \in Users \ {u} : groups'[w] = groups[w]
      BY <1>6, <2>1
    <2>4. call \in SaveCalls(old, new) /\ old \in Place
      BY <1>7, <2>2
    <2>5. group \notin GroupsOf(new)
      <3>1. CASE call = "leave_org"
        BY <1>12, <2>4, <3>1, GroupsOfRow, GroupsDiffer DEF SaveCalls, OrganizationChanged
      <3>2. CASE call = "leave_unit"
        <4>1. old.unit # NoUnit /\ group = UnitGroup(old.unit) /\ old.unit # new.unit
          BY <1>5, <1>12, <2>4, <3>2
          DEF SaveCalls, UnitChanged, OrganizationChanged, Place, Coherent
        <4>2. old.unit \in Units /\ new.unit \in Units \cup {NoUnit}
          BY <1>5, <2>4, <4>1 DEF Place, Row
        <4>3. QED
          BY <4>1, <4>2, GroupsOfRow, GroupsDiffer
      <3>3. QED
        BY <3>1, <3>2
    <2>6. TakenEffect(call, u, old, new)'
      BY <1>12, <2>3 DEF TakenEffect
    <2>7. ASSUME NEW c \in SaveCalls(old, new), TakenEffect(c, u, old, new)
          PROVE  TakenEffect(c, u, old, new)'
      <3>1. c = "join_org" => OrganizationGroup(new.org) \in GroupsOf(new)
        BY <2>7, GroupsOfRow DEF SaveCalls
      <3>2. c = "join_unit" => UnitGroup(new.unit) \in GroupsOf(new)
        BY <2>7, GroupsOfRow DEF SaveCalls
      <3>3. QED
        BY <2>1, <2>3, <2>5, <2>7, <3>1, <3>2 DEF TakenEffect
    <2>8. OnTheWay(u, old, new) => OnTheWay(u, old, new)'
      BY <2>1, <2>3, <2>5 DEF OnTheWay
    <2>9. QED
      BY <1>1, <2>1, <2>2, <2>3, <2>6, <2>7, <2>8, CallKeepsSync
  <1>13. CASE LeaveUnit(p)
    BY <1>12, <1>13 DEF LeaveUnit
  <1>14. CASE LeaveOrg(p)
    BY <1>12, <1>14 DEF LeaveOrg
  <1>15. ASSUME NEW call \in {"join_unit", "join_org"}, NEW group, Join(p, call, group),
                call = "join_unit" => group = UnitGroup(new.unit),
                call = "join_org" => group = OrganizationGroup(new.org)
         PROVE  SyncInv' /\ user' = user
    <2>1. /\ Turn(p, call) /\ Made(p, call)
          /\ groups' = [groups EXCEPT ![u] = @ \cup {group}]
          /\ UNCHANGED <<user, attrs, failed>>
      BY <1>15 DEF Join, database
    <2>2. call \in CognitoCalls /\ call \in job.todo
      BY <2>1 DEF CognitoCalls, Turn
    <2>3. groups'[u] = groups[u] \cup {group} /\ \A w \in Users \ {u} : groups'[w] = groups[w]
      BY <1>6, <2>1
    <2>4. call \in SaveCalls(old, new) /\ old \in Place
      BY <1>7, <2>2
    <2>5. group \in GroupsOf(new) \ GroupsOf(old)
      <3>1. CASE call = "join_org"
        BY <1>15, <2>4, <3>1, GroupsOfRow, GroupsDiffer DEF SaveCalls, OrganizationChanged
      <3>2. CASE call = "join_unit"
        <4>1. new.unit # NoUnit /\ group = UnitGroup(new.unit) /\ old.unit # new.unit
          BY <1>5, <1>15, <2>4, <3>2
          DEF SaveCalls, UnitChanged, OrganizationChanged, Place, Coherent
        <4>2. new.unit \in Units /\ old.unit \in Units \cup {NoUnit}
          BY <1>5, <2>4, <4>1 DEF Place, Row
        <4>3. QED
          BY <4>1, <4>2, GroupsOfRow, GroupsDiffer
      <3>3. QED
        BY <3>1, <3>2
    <2>6. TakenEffect(call, u, old, new)'
      BY <1>15, <2>3 DEF TakenEffect
    <2>7. ASSUME NEW c \in SaveCalls(old, new), TakenEffect(c, u, old, new)
          PROVE  TakenEffect(c, u, old, new)'
      <3>1. c = "leave_org" => OrganizationGroup(old.org) \in GroupsOf(old)
        BY <2>7, GroupsOfRow DEF SaveCalls
      <3>2. c = "leave_unit" => UnitGroup(old.unit) \in GroupsOf(old)
        BY <2>7, GroupsOfRow DEF SaveCalls
      <3>3. QED
        BY <2>1, <2>3, <2>5, <2>7, <3>1, <3>2 DEF TakenEffect
    <2>8. OnTheWay(u, old, new) => OnTheWay(u, old, new)'
      BY <2>1, <2>3, <2>5 DEF OnTheWay
    <2>9. QED
      BY <1>1, <2>1, <2>2, <2>3, <2>6, <2>7, <2>8, CallKeepsSync
  <1>16. CASE JoinOrg(p)
    BY <1>15, <1>16 DEF JoinOrg
  <1>17. CASE JoinUnit(p)
    BY <1>15, <1>17 DEF JoinUnit
  \* The row is saved when Cognito has been told, so the two agree again.
  <1>18. CASE SaveUser(p)
    <2>1. /\ Turn(p, "save_user") /\ Made(p, "save_user")
          /\ user' = [user EXCEPT ![u] = new]
          /\ UNCHANGED <<groups, attrs, failed>>
      BY <1>18 DEF SaveUser, cognito
    <2>2. /\ old = user[u] /\ Told(u, old, new)
          /\ u \notin failed => OnTheWay(u, old, new)
      BY <2>1, SaveTold
    <2>3. user'[u] = new /\ \A w \in Users \ {u} : user'[w] = user[w]
      BY <1>5, <2>1 DEF SyncInv, RowsInv, TypeOK
    <2>4. \A w \in Users : user'[w] # user[w] => Told(w, user[w], user'[w])
      BY <2>2, <2>3
    <2>5. ASSUME NEW w \in Users \ failed'
          PROVE  InSync(w)'
      <3>1. CASE w = u
        BY <2>1, <2>2, <2>3, <2>5, <3>1, ToldOnTheWay DEF InSync, GroupsOf
      <3>2. CASE w # u
        <4>1. InSync(w)
          BY <1>2, <2>1, <2>5, <3>2 DEF SyncInv, Saves
        <4>2. QED
          BY <2>1, <2>3, <2>5, <3>2, <4>1 DEF InSync, GroupsOf
      <3>3. QED
        BY <3>1, <3>2
    <2>6. TellsSoundly(handler[p])'
      <3>1. \/ handler'[p] = Idle
            \/ handler'[p] = [job EXCEPT !.todo = @ \ {"save_user"}]
        BY <2>1, MadeHandler DEF SyncInv, RowsInv
      <3>2. handler'[p].todo \cap CognitoCalls = {} /\ "save_user" \notin handler'[p].todo
        BY <1>4, <2>1, <3>1, SaveIsLast DEF Idle, Job
      <3>3. QED
        BY <3>2 DEF TellsSoundly
    <2>7. SyncInv'
      BY <1>1, <1>2, <2>5, <2>6 DEF SyncInv
    <2>8. QED
      BY <2>4, <2>7
  <1>19. QED
    BY <1>8, <1>9, <1>10, <1>11, <1>13, <1>14, <1>16, <1>17, <1>18 DEF Step

LEMMA NextKeepsSync ==
  ASSUME SingleWorker
  PROVE  SyncInv /\ [Next]_vars =>
             /\ SyncInv'
             /\ \A u \in Users : user'[u] # user[u] => Told(u, user[u], user'[u])
  <1> SUFFICES ASSUME SyncInv, [Next]_vars
               PROVE  /\ SyncInv'
                      /\ \A u \in Users : user'[u] # user[u] => Told(u, user[u], user'[u])
    OBVIOUS
  <1>1. RowsInv'
    BY NextKeepsRows DEF SyncInv
  \* Whom a handler fails on, nothing more is said of.
  <1>2. ASSUME NEW p \in Procs, Fail(p)
        PROVE  SyncInv' /\ user' = user
    <2>1. /\ handler'[p] = Idle
          /\ UNCHANGED <<user, groups, attrs>>
          /\ failed' = failed \cup {handler[p].user}
      BY <1>2 DEF Fail, SyncInv, RowsInv, TypeOK, database, cognito
    <2>2. \A u \in Users \ failed' : ~ Saves(p, u)
      BY <2>1 DEF Saves
    <2>3. QED
      BY <1>1, <2>1, <2>2, StoreStays
  <1>3. CASE UNCHANGED vars
    <2>1. UNCHANGED <<user, groups, attrs, failed, handler>>
      BY <1>3 DEF vars
    <2>2. \A p \in Procs : TellsSoundly(handler[p])' <=> TellsSoundly(handler[p])
      BY <2>1 DEF TellsSoundly, TakenEffect, OnTheWay
    <2>3. \A u \in Users : /\ InSync(u)' <=> InSync(u)
                           /\ \A p \in Procs : Saves(p, u)' <=> Saves(p, u)
      BY <2>1 DEF InSync, GroupsOf, Saves
    <2>4. QED
      BY <1>1, <2>1, <2>2, <2>3 DEF SyncInv
  <1>4. QED
    BY <1>2, <1>3, StartKeepsSync, StepKeepsSync DEF Next

LEMMA SyncInvariant ==
  ASSUME SingleWorker
  PROVE  Spec => []SyncInv
  <1>1. Init => SyncInv
    <2> SUFFICES ASSUME Init PROVE SyncInv
      OBVIOUS
    <2>1. \A p \in Procs : handler[p] = Idle
      BY DEF Init
    <2>2. \A u \in Users : InSync(u)
      BY DEF Init, InSync, NoPlace, GroupsOf
    <2>3. QED
      BY <2>1, <2>2, RowsInvInit DEF SyncInv
  <1>2. QED
    BY <1>1, NextKeepsSync, PTL DEF Spec

\* With a single worker, whatever fails: when nobody is working on a user, and no
\* handler has failed on the user, the groups and roles Cognito knows are those of
\* the row.
THEOREM CognitoStaysInSync ==
  ASSUME SingleWorker
  PROVE  Spec => []CognitoInSync
  <1>1. ASSUME SyncInv
        PROVE  CognitoInSync
    <2>1. SUFFICES ASSUME NEW u \in Users, ~ Working(u), u \notin failed
                   PROVE  InSync(u)
      BY DEF CognitoInSync, InSync
    <2>2. \A p \in Procs : ~ Saves(p, u)
      BY <2>1 DEF Working, Saves
    <2>3. QED
      BY <1>1, <2>1, <2>2 DEF SyncInv
  <1>2. QED
    BY <1>1, SyncInvariant, PTL

\* With a single worker the row of a user never changes before Cognito was told what
\* changes, not even when earlier handlers failed half way on the same user.
THEOREM RowsChangeOnceTold ==
  ASSUME SingleWorker
  PROVE  Spec => CognitoIsToldFirst
  <1>1. SyncInv /\ [Next]_vars => [\A u \in Users : user'[u] # user[u] => ToldCognito(u)]_vars
    <2> SUFFICES ASSUME SyncInv, [Next]_vars, NEW u \in Users, user'[u] # user[u]
                 PROVE  ToldCognito(u)
      OBVIOUS
    <2>1. Told(u, user[u], user'[u])
      BY NextKeepsSync
    <2>2. QED
      BY <2>1 DEF Told, ToldCognito
  <1>2. QED
    BY <1>1, SyncInvariant, PTL DEF Spec, CognitoIsToldFirst

=============================================================================
