------------------------ MODULE MachineUsers_proofs ------------------------
(***************************************************************************)
(* Theorems about MachineUsers, for any number of handlers, app clients    *)
(* and names, and whatever raises or dies.                                 *)
(***************************************************************************)
EXTENDS MachineUsers, TLAPS

\* The stages of creating and of deleting, and where each leads.
LEMMA CreateStages ==
  /\ DOMAIN AfterCreate =
       {"create_client", "create_policy", "insert_row", "read_to_add", "put_added"}
  /\ AfterCreate["create_client"] = "create_policy"
  /\ AfterCreate["create_policy"] = "insert_row"
  /\ AfterCreate["insert_row"] = "read_to_add"
  /\ AfterCreate["read_to_add"] = "put_added"
  /\ AfterCreate["put_added"] = "end"
  BY DEF AfterCreate

LEMMA DeleteStages ==
  /\ DOMAIN AfterDelete =
       {"delete_client", "read_to_remove", "put_removed", "delete_policy", "delete_row"}
  /\ AfterDelete["delete_client"] = "read_to_remove"
  /\ AfterDelete["read_to_remove"] = "put_removed"
  /\ AfterDelete["put_removed"] = "delete_policy"
  /\ AfterDelete["delete_policy"] = "delete_row"
  /\ AfterDelete["delete_row"] = "end"
  BY DEF AfterDelete

Creating == {"create_client", "create_policy", "insert_row", "read_to_add", "put_added"}
Deleting == {"delete_client", "read_to_remove", "put_removed", "delete_policy", "delete_row"}

-----------------------------------------------------------------------------
(***************************************************************************)
(* The invariant.  A handler that has yet to insert the row is the only    *)
(* one to know of its app client, so nobody deletes what it has done; and  *)
(* what a handler that deletes has emptied stays empty, because an app     *)
(* client id is never issued again and only its creator makes its policy.  *)
(***************************************************************************)
Early(job) == job.op = "create" /\ job.stage \in {"create_policy", "insert_row"}

SoundJob(job) ==
    /\ job.op = "create" => job.stage \in Creating
    /\ job.op = "delete" => job.stage \in Deleting
    /\ job.op = "undo" => job.stage \in Deleting \cup {"undo_client"}
    /\ job.stage = "create_client" => job.client = NoClient
    /\ job.stage # "create_client" => job.client \in issued
    /\ job.read \subseteq issued
    /\ Early(job) => job.client \notin rows
    /\ job.stage \in Deleting \ {"delete_client"} => job.client \notin clients
    /\ job.stage = "delete_row" => job.client \notin policies

Inv ==
    /\ TypeOK
    /\ \A p \in Procs : handler[p] # Idle => SoundJob(handler[p])
    /\ \A p, q \in Procs :
          /\ p # q
          /\ handler[p] # Idle
          /\ handler[q] # Idle
          /\ Early(handler[p])
          => handler[q].client # handler[p].client

LEMMA StagesUnfold == Stages = Creating \cup Deleting \cup {"undo_client"}
  BY CreateStages, DeleteStages DEF Stages, Creating, Deleting

LEMMA IdleIsNoJob == Idle \notin Job
  BY StagesUnfold DEF Idle, Job, Creating, Deleting

\* Where each stage leads when the call returns.
LEMMA CallLeads ==
  ASSUME NEW job \in Job, SoundJob(job)
  PROVE  /\ job.stage = "create_client" => job.op = "create" /\ AfterCall(job) = "create_policy"
         /\ job.stage = "create_policy" => job.op = "create" /\ AfterCall(job) = "insert_row"
         /\ job.stage = "insert_row" => job.op = "create" /\ AfterCall(job) = "read_to_add"
         /\ job.stage = "read_to_add" => job.op = "create" /\ AfterCall(job) = "put_added"
         /\ job.stage = "put_added" => job.op = "create" /\ AfterCall(job) = "end"
         /\ job.stage = "delete_client" => job.op # "create" /\ AfterCall(job) = "read_to_remove"
         /\ job.stage = "read_to_remove" => job.op # "create" /\ AfterCall(job) = "put_removed"
         /\ job.stage = "put_removed" => job.op # "create" /\ AfterCall(job) = "delete_policy"
         /\ job.stage = "delete_policy" => job.op # "create" /\ AfterCall(job) = "delete_row"
         /\ job.stage = "delete_row" => job.op # "create" /\ AfterCall(job) \in {"end", "undo_client"}
         /\ job.stage = "undo_client" => job.op # "create" /\ AfterCall(job) = "end"
  <1>1. job.op \in {"create", "delete", "undo"}
    BY DEF Job
  <1>2. CASE job.op = "create"
    BY <1>2, CreateStages DEF SoundJob, Creating, AfterCall
  <1>3. CASE job.op = "delete"
    BY <1>3, DeleteStages DEF SoundJob, Deleting, AfterCall
  <1>4. CASE job.op = "undo"
    BY <1>4, DeleteStages DEF SoundJob, Deleting, AfterCall
  <1>5. QED
    BY <1>1, <1>2, <1>3, <1>4

\* And when it raises: undoing begins, and never creates anything.
LEMMA ErrorLeads ==
  ASSUME NEW job \in Job, SoundJob(job)
  PROVE  \/ AfterError(job) = "end"
         \/ AfterError(job) \in {"undo_client", "delete_client"} /\ job.stage # "create_client"
  BY DEF AfterError

\* The handler after a step, field by field.
LEMMA GoesOn ==
  ASSUME Inv, NEW p \in Procs, NEW job \in Job, NEW stage \in Stages, GoTo(p, job, stage)
  PROVE  /\ handler' \in [Procs -> Job \cup {Idle}]
         /\ \A q \in Procs \ {p} : handler'[q] = handler[q]
         /\ handler'[p] # Idle
         /\ handler'[p].op = job.op
         /\ handler'[p].stage = stage
         /\ handler'[p].client = job.client
         /\ handler'[p].read = job.read
  <1> DEFINE next == [job EXCEPT !.stage = stage]
  <1>1. stage # "end"
    BY StagesUnfold DEF Creating, Deleting
  <1>2. next \in Job
    BY DEF Job
  <1>3. next.op = job.op /\ next.stage = stage /\ next.client = job.client /\ next.read = job.read
    BY DEF Job
  <1>4. handler' = [handler EXCEPT ![p] = next]
    BY <1>1 DEF GoTo
  <1> HIDE DEF next
  <1>5. QED
    BY <1>2, <1>3, <1>4, IdleIsNoJob DEF Inv, TypeOK

LEMMA Ends ==
  ASSUME Inv, NEW p \in Procs, NEW job, GoTo(p, job, "end")
  PROVE  /\ handler' \in [Procs -> Job \cup {Idle}]
         /\ \A q \in Procs \ {p} : handler'[q] = handler[q]
         /\ handler'[p] = Idle
  BY DEF Inv, TypeOK, GoTo

\* A step of p, told by what it does to the handler and to what the other handlers rely on.
LEMMA StepKeepsInv ==
  ASSUME Inv, NEW p \in Procs, TypeOK',
         \A q \in Procs \ {p} : handler'[q] = handler[q],
         handler'[p] # Idle => SoundJob(handler[p])',
         issued \subseteq issued',
         \A c \in clients' \ clients : c \notin issued,
         \A q \in Procs \ {p} : handler[q] # Idle =>
             /\ handler[q].client \notin policies' \ policies
             /\ Early(handler[q]) => handler[q].client \notin rows' \ rows
             /\ handler'[p] # Idle /\ (Early(handler[q]) \/ Early(handler'[p])) =>
                    handler[q].client # handler'[p].client
  PROVE  Inv'
  <1>1. ASSUME NEW q \in Procs, handler'[q] # Idle
        PROVE  SoundJob(handler[q])'
    <2>1. CASE q = p
      BY <1>1, <2>1
    <2>2. CASE q # p
      <3>1. SoundJob(handler[q]) /\ handler'[q] = handler[q]
        BY <1>1, <2>2 DEF Inv
      <3>2. handler[q].client \in issued \/ handler[q].stage = "create_client"
        BY <3>1 DEF SoundJob
      <3>3. QED
        BY <1>1, <2>2, <3>1, <3>2 DEF SoundJob, Early, Deleting, Creating
    <2>3. QED
      BY <2>1, <2>2
  <1>2. ASSUME NEW q \in Procs, NEW r \in Procs, q # r,
               handler'[q] # Idle, handler'[r] # Idle, Early(handler'[q])
        PROVE  handler'[r].client # handler'[q].client
    BY <1>2 DEF Inv
  <1>3. QED
    BY <1>1, <1>2 DEF Inv, Early

LEMMA AtJob ==
  ASSUME Inv, NEW p \in Procs, handler[p].stage # "end" \/ handler[p] # Idle
  PROVE  handler[p] # Idle /\ handler[p] \in Job /\ SoundJob(handler[p])
  BY IdleIsNoJob DEF Inv, TypeOK, Idle

LEMMA InitInv == Init => Inv
  BY DEF Init, Inv, TypeOK, Early

-----------------------------------------------------------------------------
\* The steps, one lemma per action.

LEMMA BeginCreateKeeps ==
  ASSUME Inv, NEW p \in Procs, NEW n \in Names, BeginCreate(p, n)
  PROVE  Inv'
  <1> DEFINE job == [op |-> "create", stage |-> "create_client", client |-> NoClient,
                     name |-> n, read |-> {}]
  <1>1. job \in Job
    BY StagesUnfold DEF Job, Creating
  <1>2. handler' = [handler EXCEPT ![p] = job]
    BY DEF BeginCreate
  <1>3. handler'[p] = job /\ \A q \in Procs \ {p} : handler'[q] = handler[q]
    BY <1>2 DEF Inv, TypeOK
  <1>4. TypeOK'
    BY <1>1, <1>2 DEF Inv, TypeOK, BeginCreate, cognito, database
  <1>5. SoundJob(handler[p])'
    BY <1>3 DEF SoundJob, Creating, Deleting, Early
  <1>6. ASSUME NEW q \in Procs \ {p}, handler[q] # Idle, Early(handler[q])
        PROVE  handler[q].client # NoClient
    BY <1>6, MachineUsersAssumption DEF Inv, TypeOK, SoundJob, Early
  <1>7. ~ Early(job)
    BY DEF Early
  <1> HIDE DEF job
  <1>8. job.client = NoClient
    BY DEF job
  <1>9. QED
    BY <1>3, <1>4, <1>5, <1>6, <1>7, <1>8, StepKeepsInv DEF BeginCreate, cognito, database

LEMMA BeginDeleteKeeps ==
  ASSUME Inv, NEW p \in Procs, NEW c \in Clients, BeginDelete(p, c)
  PROVE  Inv'
  <1> DEFINE job == [op |-> "delete", stage |-> "delete_client", client |-> c,
                     name |-> named[c], read |-> {}]
  <1>1. c \in rows /\ named[c] \in Names
    BY DEF Inv, TypeOK, BeginDelete
  <1>2. job \in Job
    BY <1>1, StagesUnfold DEF Job, Deleting
  <1>3. handler' = [handler EXCEPT ![p] = job]
    BY DEF BeginDelete
  <1>4. handler'[p] = job /\ \A q \in Procs \ {p} : handler'[q] = handler[q]
    BY <1>3 DEF Inv, TypeOK
  <1>5. TypeOK'
    BY <1>2, <1>3 DEF Inv, TypeOK, BeginDelete, cognito, database
  <1>6. SoundJob(handler[p])'
    BY <1>1, <1>4, <1>5 DEF SoundJob, Creating, Deleting, Early, TypeOK, Inv, BeginDelete, cognito, database
  <1>7. \A q \in Procs \ {p} : handler[q] # Idle /\ Early(handler[q]) => handler[q].client # c
    BY <1>1 DEF Inv, SoundJob
  <1>8. ~ Early(job) /\ job.client = c
    BY DEF Early
  <1> HIDE DEF job
  <1>9. QED
    BY <1>4, <1>5, <1>6, <1>7, <1>8, StepKeepsInv DEF BeginDelete, cognito, database

LEMMA CreateClientKeeps ==
  ASSUME Inv, NEW p \in Procs, CreateClient(p)
  PROVE  Inv'
  <1>1. handler[p] # Idle /\ handler[p] \in Job /\ SoundJob(handler[p])
    BY AtJob DEF CreateClient, At
  <1>2. PICK c \in Clients \ issued :
          /\ issued' = issued \cup {c}
          /\ clients' = clients \cup {c}
          /\ Returns(p, [handler[p] EXCEPT !.client = c])
    BY DEF CreateClient
  <1> DEFINE job == [handler[p] EXCEPT !.client = c]
  <1>3. /\ job \in Job /\ job.stage = "create_client" /\ job.op = "create"
        /\ job.client = c /\ job.read = handler[p].read
    BY <1>1, CallLeads DEF Job, CreateClient, At
  <1>4. Returns(p, job)
    BY <1>2
  <1> HIDE DEF job
  <1>5. GoTo(p, job, "create_policy")
    BY <1>3, <1>4, CreateStages DEF Returns, AfterCall
  <1>6. /\ handler' \in [Procs -> Job \cup {Idle}]
        /\ \A q \in Procs \ {p} : handler'[q] = handler[q]
        /\ handler'[p].op = "create" /\ handler'[p].stage = "create_policy"
        /\ handler'[p].client = c /\ handler'[p].read = handler[p].read
    <2>1. "create_policy" \in Stages
      BY StagesUnfold DEF Creating
    <2>2. QED
      BY <1>3, <1>5, <2>1, GoesOn
  <1>7. TypeOK'
    BY <1>2, <1>6 DEF Inv, TypeOK, CreateClient, database
  <1>8. c \notin rows /\ c \notin policies
    BY <1>2 DEF Inv, TypeOK
  <1>9. SoundJob(handler[p])'
    BY <1>1, <1>2, <1>6, <1>8
       DEF SoundJob, Creating, Deleting, Early, CreateClient, database
  <1>10. ASSUME NEW q \in Procs \ {p}, handler[q] # Idle
         PROVE  handler[q].client # c
    <2>1. handler[q].client = NoClient \/ handler[q].client \in issued
      BY <1>10 DEF Inv, SoundJob
    <2>2. QED
      BY <2>1, <1>2, MachineUsersAssumption
  <1>11. QED
    BY <1>2, <1>6, <1>7, <1>9, <1>10, StepKeepsInv DEF CreateClient, database

LEMMA CreatePolicyKeeps ==
  ASSUME Inv, NEW p \in Procs, CreatePolicy(p)
  PROVE  Inv'
  <1>1. handler[p] # Idle /\ handler[p] \in Job /\ SoundJob(handler[p])
    BY AtJob DEF CreatePolicy, At
  <1>2. handler[p].op = "create" /\ GoTo(p, handler[p], "insert_row")
    BY <1>1, CallLeads DEF CreatePolicy, At, Returns
  <1>3. "insert_row" \in Stages
    BY StagesUnfold DEF Creating
  <1>4. /\ handler' \in [Procs -> Job \cup {Idle}]
        /\ \A q \in Procs \ {p} : handler'[q] = handler[q]
        /\ handler'[p].op = "create" /\ handler'[p].stage = "insert_row"
        /\ handler'[p].client = handler[p].client /\ handler'[p].read = handler[p].read
    BY <1>1, <1>2, <1>3, GoesOn
  <1>5. handler[p].client \in issued /\ handler[p].client \notin rows /\ Early(handler[p])
    BY <1>1, <1>2 DEF SoundJob, Early, CreatePolicy, At
  <1>6. TypeOK'
    BY <1>4, <1>5 DEF Inv, TypeOK, CreatePolicy, database, cognito
  <1>7. SoundJob(handler[p])'
    BY <1>1, <1>4, <1>5
       DEF SoundJob, Creating, Deleting, Early, CreatePolicy, database, cognito
  <1>8. \A q \in Procs \ {p} : handler[q] # Idle => handler[q].client # handler[p].client
    BY <1>1, <1>5 DEF Inv
  <1>9. QED
    BY <1>4, <1>6, <1>7, <1>8, StepKeepsInv DEF CreatePolicy, database, cognito

LEMMA InsertRowKeeps ==
  ASSUME Inv, NEW p \in Procs, InsertRow(p)
  PROVE  Inv'
  <1>1. handler[p] # Idle /\ handler[p] \in Job /\ SoundJob(handler[p])
    BY AtJob DEF InsertRow, At
  <1>2. handler[p].op = "create" /\ GoTo(p, handler[p], "read_to_add")
    BY <1>1, CallLeads DEF InsertRow, At, Returns
  <1>3. "read_to_add" \in Stages
    BY StagesUnfold DEF Creating
  <1>4. /\ handler' \in [Procs -> Job \cup {Idle}]
        /\ \A q \in Procs \ {p} : handler'[q] = handler[q]
        /\ handler'[p].op = "create" /\ handler'[p].stage = "read_to_add"
        /\ handler'[p].client = handler[p].client /\ handler'[p].read = handler[p].read
    BY <1>1, <1>2, <1>3, GoesOn
  <1>5. handler[p].client \in issued /\ Early(handler[p])
    BY <1>1, <1>2 DEF SoundJob, Early, InsertRow, At
  <1>6. handler[p].name \in Names
    BY <1>1 DEF Job
  <1>7. rows' = rows \cup {handler[p].client}
    BY DEF InsertRow
  <1>8. named' \in [rows' -> Names]
    BY <1>6, <1>7 DEF Inv, TypeOK, InsertRow
  <1>9. TypeOK'
    BY <1>4, <1>5, <1>7, <1>8 DEF Inv, TypeOK, InsertRow, cognito
  <1>10. SoundJob(handler[p])'
    BY <1>1, <1>4, <1>5 DEF SoundJob, Creating, Deleting, Early, InsertRow, cognito
  <1>11. \A q \in Procs \ {p} : handler[q] # Idle => handler[q].client # handler[p].client
    BY <1>1, <1>5 DEF Inv
  <1>12. QED
    BY <1>4, <1>7, <1>9, <1>10, <1>11, StepKeepsInv DEF InsertRow, cognito

LEMMA ReadAudienceKeeps ==
  ASSUME Inv, NEW p \in Procs, ReadAudience(p)
  PROVE  Inv'
  <1>1. handler[p] # Idle /\ handler[p] \in Job /\ SoundJob(handler[p])
    BY AtJob DEF ReadAudience, At
  <1> DEFINE job == [handler[p] EXCEPT !.read = audience]
  <1>2. job \in Job
    BY <1>1 DEF Job, Inv, TypeOK
  <1>3. /\ job.op = handler[p].op /\ job.stage = handler[p].stage
        /\ job.client = handler[p].client /\ job.read = audience
    BY <1>1 DEF Job
  <1>4. Returns(p, job) /\ job.stage \in {"read_to_add", "read_to_remove"}
    BY <1>3 DEF ReadAudience, At
  <1> HIDE DEF job
  <1>5. SoundJob(job)
    BY <1>1, <1>3, <1>4 DEF SoundJob, Early, Inv, TypeOK
  <1>6. PICK stage \in {"put_added", "put_removed"} :
          /\ GoTo(p, job, stage)
          /\ IF stage = "put_added" THEN job.op = "create"
             ELSE job.op # "create" /\ job.stage = "read_to_remove"
    BY <1>2, <1>4, <1>5, CallLeads DEF Returns
  <1>7. stage \in Stages
    BY StagesUnfold DEF Creating, Deleting
  <1>8. /\ handler' \in [Procs -> Job \cup {Idle}]
        /\ \A q \in Procs \ {p} : handler'[q] = handler[q]
        /\ handler'[p].op = job.op /\ handler'[p].stage = stage
        /\ handler'[p].client = handler[p].client /\ handler'[p].read = audience
    BY <1>2, <1>3, <1>6, <1>7, GoesOn
  <1>9. TypeOK'
    BY <1>8 DEF Inv, TypeOK, ReadAudience, cognito, database
  <1>10. SoundJob(handler[p])'
    BY <1>1, <1>3, <1>4, <1>6, <1>8
       DEF SoundJob, Creating, Deleting, Early, ReadAudience, cognito, database, Inv, TypeOK
  <1>11. ~ Early(handler'[p])
    BY <1>8 DEF Early
  <1>12. \A q \in Procs \ {p} :
           handler[q] # Idle /\ Early(handler[q]) => handler[q].client # handler[p].client
    BY <1>1 DEF Inv
  <1>13. QED
    BY <1>8, <1>9, <1>10, <1>11, <1>12, StepKeepsInv DEF ReadAudience, cognito, database

\* An exception leaves every place as it is and goes to an except clause, or ends.
LEMMA RaisedKeeps ==
  ASSUME Inv, NEW p \in Procs, handler[p] # Idle, Raised(p),
         UNCHANGED <<cognito, policies, audience, database>>, cutShort' \in BOOLEAN
  PROVE  Inv'
  <1>1. handler[p] \in Job /\ SoundJob(handler[p])
    BY AtJob
  <1> DEFINE job == [handler[p] EXCEPT !.op = "undo"]
  <1>2. /\ job \in Job
        /\ job.op = "undo" /\ job.client = handler[p].client /\ job.read = handler[p].read
    BY <1>1 DEF Job
  <1>3. GoTo(p, job, AfterError(handler[p]))
    BY DEF Raised
  <1> HIDE DEF job
  <1>4. \A q \in Procs \ {p} :
          handler[q] # Idle /\ Early(handler[q]) => handler[q].client # handler[p].client
    BY DEF Inv
  <1>5. CASE AfterError(handler[p]) = "end"
    <2>1. /\ handler' \in [Procs -> Job \cup {Idle}]
          /\ \A q \in Procs \ {p} : handler'[q] = handler[q]
          /\ handler'[p] = Idle
      BY <1>3, <1>5, Ends
    <2>2. TypeOK'
      BY <2>1 DEF Inv, TypeOK, cognito, database
    <2>3. QED
      BY <2>1, <2>2, StepKeepsInv DEF cognito, database
  <1>6. CASE AfterError(handler[p]) # "end"
    <2>1. /\ AfterError(handler[p]) \in {"undo_client", "delete_client"}
          /\ handler[p].stage # "create_client"
      BY <1>1, <1>6, ErrorLeads
    <2>2. AfterError(handler[p]) \in Stages
      BY <2>1, StagesUnfold DEF Deleting
    <2>3. /\ handler' \in [Procs -> Job \cup {Idle}]
          /\ \A q \in Procs \ {p} : handler'[q] = handler[q]
          /\ handler'[p].op = "undo" /\ handler'[p].stage \in {"undo_client", "delete_client"}
          /\ handler'[p].client = handler[p].client /\ handler'[p].read = handler[p].read
      BY <1>2, <1>3, <2>1, <2>2, GoesOn
    <2>4. TypeOK'
      BY <2>3 DEF Inv, TypeOK, cognito, database
    <2>5. SoundJob(handler[p])'
      BY <1>1, <2>1, <2>3 DEF SoundJob, Deleting, Early, cognito, database
    <2>6. ~ Early(handler'[p])
      BY <2>3 DEF Early
    <2>7. QED
      BY <1>4, <2>3, <2>4, <2>5, <2>6, StepKeepsInv DEF cognito, database
  <1>7. QED
    BY <1>5, <1>6

LEMMA PutAddedKeeps ==
  ASSUME Inv, NEW p \in Procs, PutAdded(p)
  PROVE  Inv'
  <1>1. handler[p] # Idle /\ handler[p] \in Job /\ SoundJob(handler[p])
    BY AtJob DEF PutAdded, At
  <1> DEFINE value == handler[p].read \cup {handler[p].client}
  <1>2. CASE Cardinality(value) <= MaxAudience
    <2>1. audience' = value /\ Returns(p, handler[p])
      BY <1>2 DEF PutAdded
    <2>2. GoTo(p, handler[p], "end")
      BY <1>1, <2>1, CallLeads DEF PutAdded, At, Returns
    <2>3. /\ handler' \in [Procs -> Job \cup {Idle}]
          /\ \A q \in Procs \ {p} : handler'[q] = handler[q]
          /\ handler'[p] = Idle
      BY <2>2, Ends
    <2>4. handler[p].client \in issued /\ handler[p].read \subseteq issued
      BY <1>1 DEF SoundJob, PutAdded, At
    <2>5. TypeOK'
      BY <2>1, <2>3, <2>4 DEF Inv, TypeOK, PutAdded, cognito, database
    <2>6. QED
      BY <2>3, <2>5, StepKeepsInv DEF PutAdded, cognito, database
  <1>3. CASE ~ (Cardinality(value) <= MaxAudience)
    <2>1. UNCHANGED audience /\ Raised(p)
      BY <1>3 DEF PutAdded
    <2>2. cutShort' \in BOOLEAN /\ UNCHANGED <<cognito, policies, audience, database>>
      BY <2>1 DEF PutAdded, Inv, TypeOK
    <2>3. QED
      BY <1>1, <2>1, <2>2, RaisedKeeps
  <1>4. QED
    BY <1>2, <1>3

LEMMA PutRemovedKeeps ==
  ASSUME Inv, NEW p \in Procs, PutRemoved(p)
  PROVE  Inv'
  <1>1. handler[p] # Idle /\ handler[p] \in Job /\ SoundJob(handler[p])
    BY AtJob DEF PutRemoved, At
  <1>2. handler[p].op # "create" /\ GoTo(p, handler[p], "delete_policy")
    BY <1>1, CallLeads DEF PutRemoved, At, Returns
  <1>3. "delete_policy" \in Stages
    BY StagesUnfold DEF Deleting
  <1>4. /\ handler' \in [Procs -> Job \cup {Idle}]
        /\ \A q \in Procs \ {p} : handler'[q] = handler[q]
        /\ handler'[p].op = handler[p].op /\ handler'[p].stage = "delete_policy"
        /\ handler'[p].client = handler[p].client /\ handler'[p].read = handler[p].read
    BY <1>1, <1>2, <1>3, GoesOn
  <1>5. audience' = handler[p].read \ {handler[p].client} /\ handler[p].read \subseteq issued
    BY <1>1 DEF PutRemoved, SoundJob
  <1>6. TypeOK'
    BY <1>4, <1>5 DEF Inv, TypeOK, PutRemoved, cognito, database
  <1>7. SoundJob(handler[p])'
    BY <1>1, <1>2, <1>4
       DEF SoundJob, Creating, Deleting, Early, PutRemoved, cognito, database, At
  <1>8. ~ Early(handler'[p])
    BY <1>4 DEF Early
  <1>9. \A q \in Procs \ {p} :
          handler[q] # Idle /\ Early(handler[q]) => handler[q].client # handler[p].client
    BY <1>1 DEF Inv
  <1>10. QED
    BY <1>4, <1>6, <1>7, <1>8, <1>9, StepKeepsInv DEF PutRemoved, cognito, database

LEMMA DeleteClientKeeps ==
  ASSUME Inv, NEW p \in Procs, DeleteClient(p)
  PROVE  Inv'
  <1>1. handler[p] # Idle /\ handler[p] \in Job /\ SoundJob(handler[p])
    BY AtJob DEF DeleteClient, At
  <1>2. clients' = clients \ {handler[p].client}
    BY DEF DeleteClient
  <1>3. CASE handler[p].stage = "undo_client"
    <2>1. GoTo(p, handler[p], "end")
      BY <1>1, <1>3, CallLeads DEF DeleteClient, Returns
    <2>2. /\ handler' \in [Procs -> Job \cup {Idle}]
          /\ \A q \in Procs \ {p} : handler'[q] = handler[q]
          /\ handler'[p] = Idle
      BY <2>1, Ends
    <2>3. TypeOK'
      BY <1>2, <2>2 DEF Inv, TypeOK, DeleteClient, database
    <2>4. QED
      BY <1>2, <2>2, <2>3, StepKeepsInv DEF DeleteClient, database
  <1>4. CASE handler[p].stage = "delete_client"
    <2>1. handler[p].op # "create" /\ GoTo(p, handler[p], "read_to_remove")
      BY <1>1, <1>4, CallLeads DEF DeleteClient, Returns
    <2>2. "read_to_remove" \in Stages
      BY StagesUnfold DEF Deleting
    <2>3. /\ handler' \in [Procs -> Job \cup {Idle}]
          /\ \A q \in Procs \ {p} : handler'[q] = handler[q]
          /\ handler'[p].op = handler[p].op /\ handler'[p].stage = "read_to_remove"
          /\ handler'[p].client = handler[p].client /\ handler'[p].read = handler[p].read
      BY <1>1, <2>1, <2>2, GoesOn
    <2>4. TypeOK'
      BY <1>2, <2>3 DEF Inv, TypeOK, DeleteClient, database
    <2>5. SoundJob(handler[p])'
      BY <1>1, <1>2, <1>4, <2>1, <2>3
         DEF SoundJob, Creating, Deleting, Early, DeleteClient, database
    <2>6. ~ Early(handler'[p])
      BY <2>3 DEF Early
    <2>7. \A q \in Procs \ {p} :
            handler[q] # Idle /\ Early(handler[q]) => handler[q].client # handler[p].client
      BY <1>1 DEF Inv
    <2>8. QED
      BY <1>2, <2>3, <2>4, <2>5, <2>6, <2>7, StepKeepsInv DEF DeleteClient, database
  <1>5. QED
    BY <1>3, <1>4 DEF DeleteClient, At

LEMMA DeletePolicyKeeps ==
  ASSUME Inv, NEW p \in Procs, DeletePolicy(p)
  PROVE  Inv'
  <1>1. handler[p] # Idle /\ handler[p] \in Job /\ SoundJob(handler[p])
    BY AtJob DEF DeletePolicy, At
  <1>2. handler[p].op # "create" /\ GoTo(p, handler[p], "delete_row")
    BY <1>1, CallLeads DEF DeletePolicy, At, Returns
  <1>3. "delete_row" \in Stages
    BY StagesUnfold DEF Deleting
  <1>4. /\ handler' \in [Procs -> Job \cup {Idle}]
        /\ \A q \in Procs \ {p} : handler'[q] = handler[q]
        /\ handler'[p].op = handler[p].op /\ handler'[p].stage = "delete_row"
        /\ handler'[p].client = handler[p].client /\ handler'[p].read = handler[p].read
    BY <1>1, <1>2, <1>3, GoesOn
  <1>5. policies' = policies \ {handler[p].client}
    BY DEF DeletePolicy
  <1>6. TypeOK'
    BY <1>4, <1>5 DEF Inv, TypeOK, DeletePolicy, cognito, database
  <1>7. SoundJob(handler[p])'
    BY <1>1, <1>2, <1>4, <1>5
       DEF SoundJob, Creating, Deleting, Early, DeletePolicy, cognito, database, At
  <1>8. ~ Early(handler'[p])
    BY <1>4 DEF Early
  <1>9. \A q \in Procs \ {p} :
          handler[q] # Idle /\ Early(handler[q]) => handler[q].client # handler[p].client
    BY <1>1 DEF Inv
  <1>10. QED
    BY <1>4, <1>5, <1>6, <1>7, <1>8, <1>9, StepKeepsInv DEF DeletePolicy, cognito, database

LEMMA DeleteRowKeeps ==
  ASSUME Inv, NEW p \in Procs, DeleteRow(p)
  PROVE  Inv'
  <1>1. handler[p] # Idle /\ handler[p] \in Job /\ SoundJob(handler[p])
    BY AtJob DEF DeleteRow, At
  <1>2. handler[p].op # "create"
    BY <1>1, CallLeads DEF DeleteRow, At
  <1>3. rows' = rows \ {handler[p].client} /\ named' \in [rows' -> Names]
    BY DEF DeleteRow, Inv, TypeOK
  <1>4. CASE AfterCall(handler[p]) = "end"
    <2>1. /\ handler' \in [Procs -> Job \cup {Idle}]
          /\ \A q \in Procs \ {p} : handler'[q] = handler[q]
          /\ handler'[p] = Idle
      BY <1>4, Ends DEF DeleteRow, Returns
    <2>2. TypeOK'
      BY <1>3, <2>1 DEF Inv, TypeOK, DeleteRow, cognito
    <2>3. QED
      BY <1>3, <2>1, <2>2, StepKeepsInv DEF DeleteRow, cognito
  <1>5. CASE AfterCall(handler[p]) # "end"
    <2>1. AfterCall(handler[p]) = "undo_client"
      BY <1>1, <1>5, CallLeads DEF DeleteRow, At
    <2>2. handler[p].op = "undo"
      <3>1. handler[p].op \in {"create", "delete", "undo"}
        BY <1>1 DEF Job
      <3>2. ASSUME handler[p].op = "delete"
            PROVE  FALSE
        BY <2>1, <3>2, DeleteStages DEF AfterCall, DeleteRow, At
      <3>3. QED
        BY <1>2, <3>1, <3>2
    <2>3. "undo_client" \in Stages
      BY StagesUnfold
    <2>4. GoTo(p, handler[p], "undo_client")
      BY <2>1 DEF DeleteRow, Returns
    <2>5. /\ handler' \in [Procs -> Job \cup {Idle}]
          /\ \A q \in Procs \ {p} : handler'[q] = handler[q]
          /\ handler'[p].op = "undo" /\ handler'[p].stage = "undo_client"
          /\ handler'[p].client = handler[p].client /\ handler'[p].read = handler[p].read
      BY <1>1, <2>2, <2>3, <2>4, GoesOn
    <2>6. TypeOK'
      BY <1>3, <2>5 DEF Inv, TypeOK, DeleteRow, cognito
    <2>7. SoundJob(handler[p])'
      BY <1>1, <2>5 DEF SoundJob, Deleting, Early, DeleteRow, cognito, At
    <2>8. ~ Early(handler'[p])
      BY <2>5 DEF Early
    <2>9. \A q \in Procs \ {p} :
            handler[q] # Idle /\ Early(handler[q]) => handler[q].client # handler[p].client
      BY <1>1 DEF Inv
    <2>10. QED
      BY <1>3, <2>5, <2>6, <2>7, <2>8, <2>9, StepKeepsInv DEF DeleteRow, cognito
  <1>6. QED
    BY <1>4, <1>5

LEMMA RaiseKeeps ==
  ASSUME Inv, NEW p \in Procs, Raise(p)
  PROVE  Inv'
  <1>1. handler[p] # Idle /\ Raised(p) /\ UNCHANGED <<cognito, policies, audience, database>>
    BY DEF Raise
  <1>2. cutShort' \in BOOLEAN
    BY DEF Raise, Inv, TypeOK
  <1>3. QED
    BY <1>1, <1>2, RaisedKeeps

LEMMA CrashKeeps ==
  ASSUME Inv, NEW p \in Procs, Crash(p)
  PROVE  Inv'
  <1>1. /\ \A q \in Procs \ {p} : handler'[q] = handler[q]
        /\ handler'[p] = Idle
    BY DEF Crash, Inv, TypeOK
  <1>2. TypeOK'
    BY DEF Crash, Inv, TypeOK, cognito, database
  <1>3. QED
    BY <1>1, <1>2, StepKeepsInv DEF Crash, cognito, database

LEMMA NextKeepsInv == Inv /\ [Next]_vars => Inv'
  <1> SUFFICES ASSUME Inv, [Next]_vars
               PROVE  Inv'
    OBVIOUS
  <1>1. CASE UNCHANGED vars
    BY <1>1 DEF vars, Inv, TypeOK, SoundJob, Early
  <1>2. ASSUME NEW p \in Procs, NEW n \in Names, BeginCreate(p, n)
        PROVE  Inv'
    BY <1>2, BeginCreateKeeps
  <1>3. ASSUME NEW p \in Procs, NEW c \in Clients, BeginDelete(p, c)
        PROVE  Inv'
    BY <1>3, BeginDeleteKeeps
  <1>4. ASSUME NEW p \in Procs, Step(p)
        PROVE  Inv'
    BY <1>4, CreateClientKeeps, CreatePolicyKeeps, InsertRowKeeps, ReadAudienceKeeps,
       PutAddedKeeps, PutRemovedKeeps, DeleteClientKeeps, DeletePolicyKeeps, DeleteRowKeeps
       DEF Step
  <1>5. ASSUME NEW p \in Procs, Raise(p) \/ Crash(p)
        PROVE  Inv'
    BY <1>5, RaiseKeeps, CrashKeeps
  <1>6. QED
    BY <1>1, <1>2, <1>3, <1>4, <1>5 DEF Next

-----------------------------------------------------------------------------
LEMMA Invariance == Spec => []Inv
  BY InitInv, NextKeepsInv, PTL DEF Spec

\* Whatever handlers there are, the four places only ever hold app clients Cognito has
\* issued, each row is named, and every handler is at a stage of what it does.
THEOREM TypeCorrect == Spec => []TypeOK
  BY Invariance, PTL DEF Inv

\* MachineUser.delete and the except clauses of create_machine_user: whichever requests
\* interleave, raise or die, a machine user's row goes only when its app client and its
\* policy are gone, so no credentials outlive the row by which they would be found.
THEOREM RowGoesLast == Spec => LeavesNoGrant
  <1>1. ASSUME Inv, [Next]_vars
        PROVE  [\A c \in rows \ rows' : c \notin clients \cup policies]_vars
    <2> SUFFICES ASSUME Next, NEW c \in rows \ rows'
                 PROVE  c \notin clients \cup policies
      BY <1>1
    <2>1. PICK p \in Procs : DeleteRow(p)
      BY DEF Next, Step, BeginCreate, BeginDelete, CreateClient, CreatePolicy, InsertRow,
             ReadAudience, PutAdded, PutRemoved, DeleteClient, DeletePolicy, Raise, Crash,
             database
    <2>2. c = handler[p].client
      BY <2>1 DEF DeleteRow
    <2>3. SoundJob(handler[p]) /\ handler[p].stage = "delete_row"
      BY <1>1, <2>1, AtJob DEF DeleteRow, At
    <2>4. QED
      BY <2>2, <2>3 DEF SoundJob, Deleting
  <1>2. QED
    BY <1>1, Invariance, PTL DEF Spec, LeavesNoGrant

-----------------------------------------------------------------------------
(***************************************************************************)
(* That the places a machine user is kept in agree: Cognito, Verified      *)
(* Permissions and the database for any number of handlers, and the        *)
(* audience too when there is one.                                         *)
(***************************************************************************)
Busy(p, c) == handler[p] # Idle /\ handler[p].client = c

(***************************************************************************)
(* What is out of step between two places is what some handler is at work  *)
(* on, unless deleting or undoing was cut short: an app client without a   *)
(* row is being made or undone, a row without one is being deleted, and so *)
(* is one without a policy.                                                *)
(***************************************************************************)
Accounted ==
    /\ \A c \in clients \ rows : \E p \in Procs :
          Busy(p, c) /\ (Early(handler[p]) \/ handler[p].stage = "undo_client")
    /\ \A c \in rows \ clients : \E p \in Procs :
          Busy(p, c) /\ handler[p].stage \in Deleting \ {"delete_client"}
    /\ \A c \in rows \ policies : \E p \in Procs :
          Busy(p, c) /\ handler[p].stage = "delete_row"

Prepared(job) ==
    /\ Early(job) => job.client \in clients
    /\ Early(job) /\ job.stage = "insert_row" => job.client \in policies
    /\ job.stage = "undo_client" => job.client \notin rows

Agreement ==
    /\ \A p \in Procs : handler[p] # Idle => Prepared(handler[p])
    /\ cutShort \/ Accounted

\* Other handlers stay prepared: what a handler makes or removes is not theirs.
LEMMA OthersPrepared ==
  ASSUME Inv, Agreement, NEW p \in Procs, NEW q \in Procs \ {p}, handler[q] # Idle,
         handler'[q] = handler[q],
         Early(handler[q]) => handler[q].client \notin clients \ clients',
         Early(handler[q]) => handler[q].client \notin policies \ policies',
         handler[q].stage = "undo_client" => handler[q].client \notin rows' \ rows
  PROVE  Prepared(handler[q])'
  <1>1. Prepared(handler[q])
    BY DEF Agreement
  <1>2. QED
    BY <1>1 DEF Prepared, Early

\* Nobody else is busy with the app client of a handler that has yet to insert the row.
LEMMA Alone ==
  ASSUME Inv, NEW p \in Procs, NEW q \in Procs \ {p}, handler[p] # Idle, handler[q] # Idle,
         Early(handler[p]) \/ Early(handler[q])
  PROVE  handler[p].client # handler[q].client
  BY DEF Inv

LEMMA InitAgreement == Init => Agreement
  BY DEF Init, Agreement, Accounted

\* A step that creates, removes and inserts nothing, of a handler nobody waits for.
LEMMA QuietStep ==
  ASSUME Inv, Agreement, NEW p \in Procs,
         \A q \in Procs \ {p} : handler'[q] = handler[q],
         UNCHANGED <<clients, policies, rows>>,
         handler'[p] # Idle => Prepared(handler[p])',
         cutShort' \/ (cutShort' = cutShort /\
            \/ handler[p] = Idle
            \/ handler'[p] # Idle /\ handler'[p].client = handler[p].client /\
               /\ Early(handler[p]) \/ handler[p].stage = "undo_client"
                    => Early(handler'[p]) \/ handler'[p].stage = "undo_client"
               /\ handler[p].stage \in Deleting \ {"delete_client"}
                    => handler'[p].stage \in Deleting \ {"delete_client"}
               /\ handler[p].stage # "delete_row"
            \/ /\ ~ Early(handler[p])
               /\ handler[p].stage \notin Deleting \cup {"undo_client"}
            \/ handler[p].stage = "create_client")
  PROVE  Agreement'
  <1>1. ASSUME NEW q \in Procs, handler'[q] # Idle
        PROVE  Prepared(handler[q])'
    BY <1>1, OthersPrepared
  <1>2. ASSUME ~ cutShort'
        PROVE  Accounted'
    <2> USE <1>2
    <2>1. Accounted
      BY DEF Agreement
    <2>2. ASSUME NEW c \in clients' \ rows'
          PROVE  \E q \in Procs : Busy(q, c)' /\ (Early(handler'[q]) \/ handler'[q].stage = "undo_client")
      <3>1. PICK q \in Procs : Busy(q, c) /\ (Early(handler[q]) \/ handler[q].stage = "undo_client")
        BY <2>1, <2>2 DEF Accounted
      <3>2. CASE q # p
        BY <3>1, <3>2 DEF Busy
      <3>3. CASE q = p
        BY <3>1, <3>3 DEF Busy, Early
      <3>4. QED
        BY <3>2, <3>3
    <2>3. ASSUME NEW c \in rows' \ clients'
          PROVE  \E q \in Procs : Busy(q, c)' /\ handler'[q].stage \in Deleting \ {"delete_client"}
      <3>1. PICK q \in Procs : Busy(q, c) /\ handler[q].stage \in Deleting \ {"delete_client"}
        BY <2>1, <2>3 DEF Accounted
      <3>2. CASE q # p
        BY <3>1, <3>2 DEF Busy
      <3>3. CASE q = p
        BY <3>1, <3>3 DEF Busy, Deleting
      <3>4. QED
        BY <3>2, <3>3
    <2>4. ASSUME NEW c \in rows' \ policies'
          PROVE  \E q \in Procs : Busy(q, c)' /\ handler'[q].stage = "delete_row"
      <3>1. PICK q \in Procs : Busy(q, c) /\ handler[q].stage = "delete_row"
        BY <2>1, <2>4 DEF Accounted
      <3>2. QED
        BY <3>1 DEF Busy, Deleting
    <2>5. QED
      BY <2>2, <2>3, <2>4 DEF Accounted, Busy, Early
  <1>3. QED
    BY <1>1, <1>2 DEF Agreement

-----------------------------------------------------------------------------
\* The steps, one lemma per action.

LEMMA BeginAgrees ==
  ASSUME Inv, Agreement, NEW p \in Procs,
         (\E n \in Names : BeginCreate(p, n)) \/ (\E c \in Clients : BeginDelete(p, c))
  PROVE  Agreement'
  <1>1. handler[p] = Idle /\ UNCHANGED <<clients, policies, rows, cutShort>>
    BY DEF BeginCreate, BeginDelete, cognito, database
  <1>2. /\ \A q \in Procs \ {p} : handler'[q] = handler[q]
        /\ handler'[p].stage \in {"create_client", "delete_client"}
    BY DEF Inv, TypeOK, BeginCreate, BeginDelete
  <1>3. Prepared(handler[p])'
    BY <1>2 DEF Prepared, Early
  <1>4. QED
    BY <1>1, <1>2, <1>3, QuietStep

LEMMA CreateClientAgrees ==
  ASSUME Inv, Agreement, NEW p \in Procs, CreateClient(p)
  PROVE  Agreement'
  <1>1. handler[p] # Idle /\ handler[p] \in Job /\ SoundJob(handler[p])
    BY AtJob DEF CreateClient, At
  <1>2. PICK c \in Clients \ issued :
          /\ clients' = clients \cup {c}
          /\ Returns(p, [handler[p] EXCEPT !.client = c])
    BY DEF CreateClient
  <1> DEFINE job == [handler[p] EXCEPT !.client = c]
  <1>3. job \in Job /\ job.stage = "create_client" /\ job.op = "create" /\ job.client = c
    BY <1>1, CallLeads DEF Job, CreateClient, At
  <1>4. Returns(p, job)
    BY <1>2
  <1> HIDE DEF job
  <1>5. GoTo(p, job, "create_policy") /\ "create_policy" \in Stages
    BY <1>3, <1>4, CreateStages, StagesUnfold DEF Returns, AfterCall, Creating
  <1>6. /\ \A q \in Procs \ {p} : handler'[q] = handler[q]
        /\ handler'[p] # Idle /\ Early(handler'[p]) /\ handler'[p].client = c
        /\ handler'[p].stage = "create_policy"
    BY <1>3, <1>5, GoesOn DEF Early
  <1>7. UNCHANGED <<policies, rows, cutShort>> /\ c \notin rows
    BY DEF CreateClient, database, Inv, TypeOK
  <1>8. \A q \in Procs : handler[q] # Idle /\ handler'[q] # Idle => Prepared(handler[q])'
    BY <1>2, <1>6, <1>7, OthersPrepared DEF Prepared
  <1>9. ASSUME ~ cutShort
        PROVE  Accounted'
    <2>1. Accounted /\ ~ Early(handler[p]) /\ handler[p].stage = "create_client"
      BY <1>9 DEF Agreement, Early, CreateClient, At
    <2>2. \A d : \A q \in Procs \ {p} : Busy(q, d) => Busy(q, d)'
      BY <1>6 DEF Busy
    <2>3. Busy(p, c)' /\ Early(handler'[p])
      BY <1>6 DEF Busy
    <2>4. QED
      BY <1>2, <1>6, <1>7, <2>1, <2>2, <2>3 DEF Accounted, Deleting
  <1>10. QED
    BY <1>1, <1>6, <1>7, <1>8, <1>9 DEF Agreement

LEMMA CreatePolicyAgrees ==
  ASSUME Inv, Agreement, NEW p \in Procs, CreatePolicy(p)
  PROVE  Agreement'
  <1>1. handler[p] # Idle /\ handler[p] \in Job /\ SoundJob(handler[p])
    BY AtJob DEF CreatePolicy, At
  <1>2. /\ handler[p].op = "create" /\ GoTo(p, handler[p], "insert_row")
        /\ "insert_row" \in Stages
    BY <1>1, CallLeads, StagesUnfold DEF CreatePolicy, At, Returns, Creating
  <1>3. /\ \A q \in Procs \ {p} : handler'[q] = handler[q]
        /\ handler'[p] # Idle /\ handler'[p].client = handler[p].client
        /\ handler'[p].stage = "insert_row" /\ Early(handler'[p])
    BY <1>1, <1>2, GoesOn DEF Early
  <1>4. Early(handler[p]) /\ handler[p].client \in clients
    BY <1>1, <1>2 DEF Agreement, Prepared, Early, CreatePolicy, At
  <1>5. /\ policies' = policies \cup {handler[p].client}
        /\ UNCHANGED <<clients, rows, cutShort>>
    BY DEF CreatePolicy, cognito, database
  <1>6. \A q \in Procs : handler'[q] # Idle => Prepared(handler[q])'
    BY <1>3, <1>4, <1>5, OthersPrepared DEF Prepared
  <1>7. ASSUME ~ cutShort
        PROVE  Accounted'
    <2>1. Accounted /\ handler[p].stage = "create_policy"
      BY <1>7 DEF Agreement, CreatePolicy, At
    <2>2. \A d : \A q \in Procs : Busy(q, d) => Busy(q, d)'
      BY <1>3 DEF Busy
    <2>3. QED
      BY <1>3, <1>5, <2>1, <2>2 DEF Accounted, Deleting
  <1>8. QED
    BY <1>5, <1>6, <1>7 DEF Agreement

LEMMA InsertRowAgrees ==
  ASSUME Inv, Agreement, NEW p \in Procs, InsertRow(p)
  PROVE  Agreement'
  <1>1. handler[p] # Idle /\ handler[p] \in Job /\ SoundJob(handler[p])
    BY AtJob DEF InsertRow, At
  <1>2. /\ handler[p].op = "create" /\ GoTo(p, handler[p], "read_to_add")
        /\ "read_to_add" \in Stages
    BY <1>1, CallLeads, StagesUnfold DEF InsertRow, At, Returns, Creating
  <1>3. /\ \A q \in Procs \ {p} : handler'[q] = handler[q]
        /\ handler'[p] # Idle /\ handler'[p].stage = "read_to_add"
    BY <1>1, <1>2, GoesOn
  <1>4. Early(handler[p]) /\ handler[p].client \in clients /\ handler[p].client \in policies
    BY <1>1, <1>2 DEF Agreement, Prepared, Early, InsertRow, At
  <1>5. rows' = rows \cup {handler[p].client} /\ UNCHANGED <<clients, policies, cutShort>>
    BY DEF InsertRow, cognito
  <1>6. \A q \in Procs \ {p} : handler[q] # Idle => handler[q].client # handler[p].client
    BY <1>1, <1>4, Alone
  <1>7. \A q \in Procs : handler'[q] # Idle => Prepared(handler[q])'
    BY <1>3, <1>5, <1>6, OthersPrepared DEF Prepared, Early
  <1>8. ASSUME ~ cutShort
        PROVE  Accounted'
    <2>1. Accounted /\ handler[p].stage = "insert_row"
      BY <1>8 DEF Agreement, InsertRow, At
    <2>2. \A d : \A q \in Procs \ {p} : Busy(q, d) => Busy(q, d)'
      BY <1>3 DEF Busy
    <2>3. \A d : Busy(p, d) => d = handler[p].client
      BY DEF Busy
    <2>4. QED
      BY <1>3, <1>4, <1>5, <2>1, <2>2, <2>3 DEF Accounted, Deleting
  <1>9. QED
    BY <1>5, <1>7, <1>8 DEF Agreement

\* A quiet step from one stage to the next, when neither changes what is accounted for.
LEMMA ReadAudienceAgrees ==
  ASSUME Inv, Agreement, NEW p \in Procs, ReadAudience(p)
  PROVE  Agreement'
  <1>1. handler[p] # Idle /\ handler[p] \in Job /\ SoundJob(handler[p])
    BY AtJob DEF ReadAudience, At
  <1> DEFINE job == [handler[p] EXCEPT !.read = audience]
  <1>2. job \in Job
    BY <1>1 DEF Job, Inv, TypeOK
  <1>3. /\ job.op = handler[p].op /\ job.stage = handler[p].stage
        /\ job.client = handler[p].client /\ job.read = audience
    BY <1>1 DEF Job
  <1>4. Returns(p, job) /\ job.stage \in {"read_to_add", "read_to_remove"}
    BY <1>3 DEF ReadAudience, At
  <1> HIDE DEF job
  <1>5. SoundJob(job)
    BY <1>1, <1>3, <1>4 DEF SoundJob, Early, Inv, TypeOK
  <1>6. PICK stage \in {"put_added", "put_removed"} :
          /\ GoTo(p, job, stage)
          /\ stage = "put_added" <=> handler[p].stage = "read_to_add"
    BY <1>2, <1>3, <1>4, <1>5, CallLeads DEF Returns
  <1>7. stage \in Stages
    BY StagesUnfold DEF Creating, Deleting
  <1>8. /\ \A q \in Procs \ {p} : handler'[q] = handler[q]
        /\ handler'[p] # Idle /\ handler'[p].stage = stage
        /\ handler'[p].client = handler[p].client
    BY <1>2, <1>3, <1>6, <1>7, GoesOn
  <1>9. UNCHANGED <<clients, policies, rows, cutShort>>
    BY DEF ReadAudience, cognito, database
  <1>10. Prepared(handler[p])'
    BY <1>8 DEF Prepared, Early
  <1>11. CASE handler[p].stage = "read_to_add"
    BY <1>8, <1>9, <1>10, <1>11, QuietStep DEF Early, Deleting
  <1>12. CASE handler[p].stage = "read_to_remove"
    <2>1. stage \in Deleting \ {"delete_client"} /\ ~ Early(handler[p])
      BY <1>6, <1>12 DEF Deleting, Early
    <2>2. handler[p].stage \notin {"undo_client", "delete_row"}
      BY <1>12
    <2>3. QED
      BY <1>8, <1>9, <1>10, <2>1, <2>2, QuietStep
  <1>13. QED
    BY <1>3, <1>4, <1>11, <1>12

\* Creating that raises is undone from where it stands: with the row, if it is there.
LEMMA RaisedAgrees ==
  ASSUME Inv, Agreement, NEW p \in Procs, handler[p] # Idle, Raised(p),
         UNCHANGED <<clients, policies, rows>>,
         cutShort' \/ (cutShort' = cutShort /\ handler[p].op = "create")
  PROVE  Agreement'
  <1>1. handler[p] \in Job /\ SoundJob(handler[p])
    BY AtJob
  <1> DEFINE job == [handler[p] EXCEPT !.op = "undo"]
  <1>2. job \in Job /\ job.op = "undo" /\ job.client = handler[p].client
    BY <1>1 DEF Job
  <1>3. GoTo(p, job, AfterError(handler[p]))
    BY DEF Raised
  <1> HIDE DEF job
  <1>4. CASE AfterError(handler[p]) = "end"
    <2>1. /\ \A q \in Procs \ {p} : handler'[q] = handler[q]
          /\ handler'[p] = Idle
      BY <1>3, <1>4, Ends
    <2>2. handler[p].op = "create" => handler[p].stage = "create_client"
      BY <1>1, <1>4 DEF AfterError, SoundJob, Creating
    <2>3. QED
      BY <2>1, <2>2, QuietStep
  <1>5. CASE AfterError(handler[p]) # "end"
    <2>1. /\ handler[p].op = "create"
          /\ Early(handler[p]) => AfterError(handler[p]) = "undo_client"
          /\ ~ Early(handler[p]) => AfterError(handler[p]) = "delete_client"
      BY <1>1, <1>5 DEF AfterError, Early
    <2>2. AfterError(handler[p]) \in Stages
      BY <2>1, StagesUnfold DEF Deleting
    <2>3. /\ \A q \in Procs \ {p} : handler'[q] = handler[q]
          /\ handler'[p] # Idle
          /\ handler'[p].op = "undo" /\ handler'[p].stage = AfterError(handler[p])
          /\ handler'[p].client = handler[p].client
      BY <1>2, <1>3, <2>2, GoesOn
    <2>4. Prepared(handler[p])'
      BY <1>1, <2>1, <2>3 DEF Prepared, Early, SoundJob
    <2>5. handler[p].stage \in Creating
      BY <1>1, <2>1 DEF SoundJob
    <2>6. handler[p].stage \notin Deleting \cup {"undo_client"}
      BY <2>5 DEF Creating, Deleting
    <2>7. QED
      BY <2>1, <2>3, <2>4, <2>6, QuietStep DEF Deleting
  <1>6. QED
    BY <1>4, <1>5

LEMMA PutAddedAgrees ==
  ASSUME Inv, Agreement, NEW p \in Procs, PutAdded(p)
  PROVE  Agreement'
  <1>1. handler[p] # Idle /\ handler[p] \in Job /\ SoundJob(handler[p])
    BY AtJob DEF PutAdded, At
  <1>2. handler[p].stage = "put_added" /\ handler[p].op = "create"
    BY <1>1, CallLeads DEF PutAdded, At
  <1>3. UNCHANGED <<clients, policies, rows, cutShort>>
    BY DEF PutAdded, cognito, database
  <1>4. CASE Returns(p, handler[p])
    <2>1. GoTo(p, handler[p], "end")
      BY <1>1, <1>2, <1>4, CallLeads DEF Returns
    <2>2. /\ \A q \in Procs \ {p} : handler'[q] = handler[q]
          /\ handler'[p] = Idle
      BY <2>1, Ends
    <2>3. QED
      BY <1>2, <1>3, <2>2, QuietStep DEF Early, Deleting
  <1>5. CASE Raised(p)
    BY <1>1, <1>2, <1>3, <1>5, RaisedAgrees
  <1>6. QED
    BY <1>4, <1>5 DEF PutAdded

LEMMA PutRemovedAgrees ==
  ASSUME Inv, Agreement, NEW p \in Procs, PutRemoved(p)
  PROVE  Agreement'
  <1>1. handler[p] # Idle /\ handler[p] \in Job /\ SoundJob(handler[p])
    BY AtJob DEF PutRemoved, At
  <1>2. /\ handler[p].stage = "put_removed" /\ GoTo(p, handler[p], "delete_policy")
        /\ "delete_policy" \in Stages
    BY <1>1, CallLeads, StagesUnfold DEF PutRemoved, At, Returns, Deleting
  <1>3. /\ \A q \in Procs \ {p} : handler'[q] = handler[q]
        /\ handler'[p] # Idle /\ handler'[p].stage = "delete_policy"
        /\ handler'[p].client = handler[p].client
    BY <1>1, <1>2, GoesOn
  <1>4. UNCHANGED <<clients, policies, rows, cutShort>>
    BY DEF PutRemoved, cognito, database
  <1>5. Prepared(handler[p])'
    BY <1>3 DEF Prepared, Early
  <1>6. QED
    BY <1>2, <1>3, <1>4, <1>5, QuietStep DEF Early, Deleting

LEMMA DeleteClientAgrees ==
  ASSUME Inv, Agreement, NEW p \in Procs, DeleteClient(p)
  PROVE  Agreement'
  <1>1. handler[p] # Idle /\ handler[p] \in Job /\ SoundJob(handler[p])
    BY AtJob DEF DeleteClient, At
  <1>2. clients' = clients \ {handler[p].client} /\ UNCHANGED <<policies, rows, cutShort>>
    BY DEF DeleteClient, database
  <1>3. PICK stage \in {"end", "read_to_remove"} :
          /\ GoTo(p, handler[p], stage)
          /\ handler[p].stage = (IF stage = "end" THEN "undo_client" ELSE "delete_client")
    BY <1>1, CallLeads DEF DeleteClient, At, Returns
  <1>4. /\ \A q \in Procs \ {p} : handler'[q] = handler[q]
        /\ stage = "end" => handler'[p] = Idle
        /\ stage # "end" => /\ handler'[p] # Idle /\ handler'[p].stage = stage
                            /\ handler'[p].client = handler[p].client
    <2>1. CASE stage = "end"
      BY <1>3, <2>1, Ends
    <2>2. CASE stage # "end"
      <3>1. stage \in Stages
        BY <2>2, StagesUnfold DEF Deleting
      <3>2. QED
        BY <1>1, <1>3, <2>2, <3>1, GoesOn
    <2>3. QED
      BY <2>1, <2>2
  <1>5. ASSUME NEW q \in Procs, handler'[q] # Idle
        PROVE  Prepared(handler[q])'
    <2>1. CASE q = p
      BY <1>3, <1>4, <1>5, <2>1 DEF Prepared, Early
    <2>2. CASE q # p
      <3>1. handler[q] # Idle /\ (Early(handler[q]) => handler[q].client # handler[p].client)
        BY <1>1, <1>4, <1>5, <2>2, Alone
      <3>2. QED
        BY <1>2, <1>4, <1>5, <2>2, <3>1, OthersPrepared
    <2>3. QED
      BY <2>1, <2>2
  <1>6. ASSUME ~ cutShort
        PROVE  Accounted'
    <2>1. Accounted
      BY <1>6 DEF Agreement
    <2>2. \A d : \A q \in Procs \ {p} : Busy(q, d) => Busy(q, d)'
      BY <1>4 DEF Busy
    <2>3. \A d : Busy(p, d) => d = handler[p].client
      BY DEF Busy
    <2>4. \A c \in clients' \ rows' : \E q \in Procs :
             Busy(q, c)' /\ (Early(handler'[q]) \/ handler'[q].stage = "undo_client")
      BY <1>2, <1>4, <2>1, <2>2, <2>3 DEF Accounted
    <2>5. handler[p].client \in rows => stage # "end"
      BY <1>1, <1>3 DEF Agreement, Prepared
    <2>6. ASSUME NEW c \in rows' \ clients'
          PROVE  \E q \in Procs : Busy(q, c)' /\ handler'[q].stage \in Deleting \ {"delete_client"}
      <3>1. CASE c = handler[p].client
        BY <1>2, <1>4, <2>5, <2>6, <3>1 DEF Busy, Deleting
      <3>2. CASE c # handler[p].client
        BY <1>2, <1>4, <2>1, <2>2, <2>3, <2>6, <3>2 DEF Accounted
      <3>3. QED
        BY <3>1, <3>2
    <2>7. \A c \in rows' \ policies' : \E q \in Procs :
             Busy(q, c)' /\ handler'[q].stage = "delete_row"
      BY <1>2, <1>3, <1>4, <2>1, <2>2 DEF Accounted
    <2>8. QED
      BY <2>4, <2>6, <2>7 DEF Accounted, Busy, Early
  <1>7. QED
    BY <1>2, <1>5, <1>6 DEF Agreement

LEMMA DeletePolicyAgrees ==
  ASSUME Inv, Agreement, NEW p \in Procs, DeletePolicy(p)
  PROVE  Agreement'
  <1>1. handler[p] # Idle /\ handler[p] \in Job /\ SoundJob(handler[p])
    BY AtJob DEF DeletePolicy, At
  <1>2. /\ handler[p].stage = "delete_policy" /\ handler[p].op # "create"
        /\ GoTo(p, handler[p], "delete_row") /\ "delete_row" \in Stages
    BY <1>1, CallLeads, StagesUnfold DEF DeletePolicy, At, Returns, Deleting
  <1>3. /\ \A q \in Procs \ {p} : handler'[q] = handler[q]
        /\ handler'[p] # Idle /\ handler'[p].stage = "delete_row"
        /\ handler'[p].client = handler[p].client
    BY <1>1, <1>2, GoesOn
  <1>4. policies' = policies \ {handler[p].client} /\ UNCHANGED <<clients, rows, cutShort>>
    BY DEF DeletePolicy, cognito, database
  <1>5. ASSUME NEW q \in Procs, handler'[q] # Idle
        PROVE  Prepared(handler[q])'
    <2>1. CASE q = p
      BY <1>3, <2>1 DEF Prepared, Early
    <2>2. CASE q # p
      <3>1. handler[q] # Idle /\ (Early(handler[q]) => handler[q].client # handler[p].client)
        BY <1>1, <1>3, <1>5, <2>2, Alone
      <3>2. QED
        BY <1>3, <1>4, <1>5, <2>2, <3>1, OthersPrepared
    <2>3. QED
      BY <2>1, <2>2
  <1>6. ASSUME ~ cutShort
        PROVE  Accounted'
    <2>1. Accounted /\ ~ Early(handler[p])
      BY <1>2, <1>6 DEF Agreement, Early
    <2>2. \A d : \A q \in Procs : Busy(q, d) => Busy(q, d)'
      BY <1>3 DEF Busy
    <2>3. Busy(p, handler[p].client)'
      BY <1>3 DEF Busy
    <2>4. QED
      BY <1>2, <1>3, <1>4, <2>1, <2>2, <2>3 DEF Accounted, Deleting
  <1>7. QED
    BY <1>4, <1>5, <1>6 DEF Agreement

LEMMA DeleteRowAgrees ==
  ASSUME Inv, Agreement, NEW p \in Procs, DeleteRow(p)
  PROVE  Agreement'
  <1>1. handler[p] # Idle /\ handler[p] \in Job /\ SoundJob(handler[p])
    BY AtJob DEF DeleteRow, At
  <1>2. handler[p].stage = "delete_row" /\ handler[p].client \notin clients
    BY <1>1 DEF DeleteRow, At, SoundJob, Deleting
  <1>3. PICK stage \in {"end", "undo_client"} : GoTo(p, handler[p], stage)
    BY <1>1, <1>2, CallLeads DEF DeleteRow, Returns
  <1>4. /\ \A q \in Procs \ {p} : handler'[q] = handler[q]
        /\ handler'[p] # Idle => handler'[p].stage = "undo_client"
                                 /\ handler'[p].client = handler[p].client
    <2>1. CASE stage = "end"
      BY <1>3, <2>1, Ends
    <2>2. CASE stage # "end"
      <3>1. stage \in Stages
        BY <2>2, StagesUnfold
      <3>2. QED
        BY <1>1, <1>3, <2>2, <3>1, GoesOn
    <2>3. QED
      BY <2>1, <2>2
  <1>5. rows' = rows \ {handler[p].client} /\ UNCHANGED <<clients, policies, cutShort>>
    BY DEF DeleteRow, cognito
  <1>6. ASSUME NEW q \in Procs, handler'[q] # Idle
        PROVE  Prepared(handler[q])'
    <2>1. CASE q = p
      BY <1>4, <1>5, <1>6, <2>1 DEF Prepared, Early
    <2>2. CASE q # p
      BY <1>4, <1>5, <1>6, <2>2, OthersPrepared
    <2>3. QED
      BY <2>1, <2>2
  <1>7. ASSUME ~ cutShort
        PROVE  Accounted'
    <2>1. Accounted
      BY <1>7 DEF Agreement
    <2>2. \A d : \A q \in Procs \ {p} : Busy(q, d) => Busy(q, d)'
      BY <1>4 DEF Busy
    <2>3. \A d : Busy(p, d) => d = handler[p].client
      BY DEF Busy
    <2>4. QED
      BY <1>2, <1>4, <1>5, <2>1, <2>2, <2>3 DEF Accounted
  <1>8. QED
    BY <1>5, <1>6, <1>7 DEF Agreement

LEMMA RaiseAgrees ==
  ASSUME Inv, Agreement, NEW p \in Procs, Raise(p)
  PROVE  Agreement'
  <1>1. /\ handler[p] # Idle /\ Raised(p) /\ UNCHANGED <<clients, policies, rows>>
        /\ cutShort' = (cutShort \/ handler[p].op # "create")
    BY DEF Raise, cognito, database
  <1>2. cutShort' \/ (cutShort' = cutShort /\ handler[p].op = "create")
    BY <1>1 DEF Inv, TypeOK
  <1>3. QED
    BY <1>1, <1>2, RaisedAgrees

LEMMA CrashAgrees ==
  ASSUME Inv, Agreement, NEW p \in Procs, Crash(p)
  PROVE  Agreement'
  <1>1. /\ \A q \in Procs \ {p} : handler'[q] = handler[q]
        /\ handler'[p] = Idle
        /\ UNCHANGED <<clients, policies, rows>> /\ cutShort' = TRUE
    BY DEF Crash, Inv, TypeOK, cognito, database
  <1>2. QED
    BY <1>1, QuietStep

LEMMA NextKeepsAgreement == Inv /\ Agreement /\ [Next]_vars => Agreement'
  <1> SUFFICES ASSUME Inv, Agreement, [Next]_vars
               PROVE  Agreement'
    OBVIOUS
  <1>1. CASE UNCHANGED vars
    BY <1>1 DEF vars, Agreement, Accounted, Prepared, Busy, Early
  <1>2. ASSUME NEW p \in Procs,
               (\E n \in Names : BeginCreate(p, n)) \/ (\E c \in Clients : BeginDelete(p, c))
        PROVE  Agreement'
    BY <1>2, BeginAgrees
  <1>3. ASSUME NEW p \in Procs, Step(p)
        PROVE  Agreement'
    BY <1>3, CreateClientAgrees, CreatePolicyAgrees, InsertRowAgrees, ReadAudienceAgrees,
       PutAddedAgrees, PutRemovedAgrees, DeleteClientAgrees, DeletePolicyAgrees,
       DeleteRowAgrees DEF Step
  <1>4. ASSUME NEW p \in Procs, Raise(p) \/ Crash(p)
        PROVE  Agreement'
    BY <1>4, RaiseAgrees, CrashAgrees
  <1>5. QED
    BY <1>1, <1>2, <1>3, <1>4 DEF Next

LEMMA AgreementHolds == Spec => [](Inv /\ Agreement)
  <1>1. Init => Inv /\ Agreement
    BY InitInv, InitAgreement
  <1>2. Inv /\ Agreement /\ [Next]_vars => Inv' /\ Agreement'
    BY NextKeepsInv, NextKeepsAgreement
  <1>3. QED
    BY <1>1, <1>2, PTL DEF Spec

\* create_machine_user and MachineUser.delete: for any number of requests at once, and
\* whichever of the calls of a creation raises, every app client has its row and its
\* policy when nobody is at work, unless a deletion or an undoing was itself cut short.
THEOREM GrantsStayAgreed == Spec => []GrantsAgree
  <1>1. Inv /\ Agreement => GrantsAgree
    BY DEF Inv, TypeOK, Agreement, Accounted, Busy, GrantsAgree, Quiescent
  <1>2. QED
    BY <1>1, AgreementHolds, PTL

-----------------------------------------------------------------------------
(***************************************************************************)
(* What one worker keeps of the list of audiences, whatever it fails at.   *)
(* With several workers two of them may read the list before either writes *)
(* it, and these facts are lost: see AudienceIsOfUsers.                    *)
(***************************************************************************)
OneWorker == \A p, q \in Procs : p = q

(***************************************************************************)
(* The list read is the list there is until it is written back, so that it *)
(* gains a client with a row and loses one before its row goes.  A machine *)
(* user that is not listed is being listed, or deleted.                    *)
(***************************************************************************)
ListedJob(job) ==
    /\ job.stage \in {"put_added", "put_removed"} => job.read = audience
    /\ job.stage \in {"read_to_add", "put_added"} => job.client \in rows
    /\ job.stage \in {"delete_policy", "delete_row"} => job.client \notin audience

Owing == {"read_to_add", "put_added"} \cup Deleting
Owes(p, c) == Busy(p, c) /\ handler[p].stage \in Owing

Listed ==
    /\ audience \subseteq rows
    /\ \A p \in Procs : handler[p] # Idle => ListedJob(handler[p])
    /\ cutShort \/ \A c \in rows \ audience : \E p \in Procs : Owes(p, c)

LEMMA InitListed == Init => Listed
  BY DEF Init, Listed

\* A step of the worker, told by what becomes of it.
LEMMA StepLists ==
  ASSUME OneWorker, Inv, Listed, NEW p \in Procs,
         audience' \subseteq rows',
         handler'[p] # Idle => ListedJob(handler[p])',
         \/ cutShort'
         \/ /\ cutShort' = cutShort
            /\ \A c \in rows' \ audience' :
                  (c \in rows \ audience /\ ~ Owes(p, c)) \/ Owes(p, c)'
  PROVE  Listed'
  <1>1. \A q \in Procs : q = p
    BY DEF OneWorker
  <1>2. ASSUME ~ cutShort', NEW c \in rows' \ audience'
        PROVE  \E q \in Procs : Owes(q, c)'
    <2>1. c \in rows \ audience => Owes(p, c)
      BY <1>1, <1>2 DEF Listed
    <2>2. QED
      BY <1>2, <2>1
  <1>3. QED
    BY <1>1, <1>2 DEF Listed

-----------------------------------------------------------------------------
\* The steps, one lemma per action.

LEMMA BeginLists ==
  ASSUME OneWorker, Inv, Listed, NEW p \in Procs,
         (\E n \in Names : BeginCreate(p, n)) \/ (\E c \in Clients : BeginDelete(p, c))
  PROVE  Listed'
  <1>1. handler[p] = Idle /\ UNCHANGED <<audience, rows, cutShort>>
    BY DEF BeginCreate, BeginDelete, cognito, database
  <1>2. handler'[p].stage \in {"create_client", "delete_client"}
    BY DEF Inv, TypeOK, BeginCreate, BeginDelete
  <1>3. QED
    BY <1>1, <1>2, StepLists DEF ListedJob, Listed, Owes, Busy

LEMMA CreateClientLists ==
  ASSUME OneWorker, Inv, Listed, NEW p \in Procs, CreateClient(p)
  PROVE  Listed'
  <1>1. handler[p] # Idle /\ handler[p] \in Job /\ SoundJob(handler[p])
    BY AtJob DEF CreateClient, At
  <1>2. PICK d \in Clients \ issued : Returns(p, [handler[p] EXCEPT !.client = d])
    BY DEF CreateClient
  <1> DEFINE job == [handler[p] EXCEPT !.client = d]
  <1>3. job \in Job /\ job.stage = "create_client" /\ job.op = "create"
    BY <1>1, CallLeads DEF Job, CreateClient, At
  <1>4. Returns(p, job)
    BY <1>2
  <1> HIDE DEF job
  <1>5. GoTo(p, job, "create_policy") /\ "create_policy" \in Stages
    BY <1>3, <1>4, CreateStages, StagesUnfold DEF Returns, AfterCall, Creating
  <1>6. handler'[p].stage = "create_policy"
    BY <1>3, <1>5, GoesOn
  <1>7. handler[p].stage = "create_client" /\ UNCHANGED <<audience, rows, cutShort>>
    BY DEF CreateClient, At, database
  <1>8. \A c : ~ Owes(p, c)
    BY <1>7 DEF Owes, Owing, Deleting
  <1>9. QED
    BY <1>6, <1>7, <1>8, StepLists DEF ListedJob, Listed

LEMMA CreatePolicyLists ==
  ASSUME OneWorker, Inv, Listed, NEW p \in Procs, CreatePolicy(p)
  PROVE  Listed'
  <1>1. handler[p] # Idle /\ handler[p] \in Job /\ SoundJob(handler[p])
    BY AtJob DEF CreatePolicy, At
  <1>2. /\ handler[p].stage = "create_policy" /\ GoTo(p, handler[p], "insert_row")
        /\ "insert_row" \in Stages
    BY <1>1, CallLeads, StagesUnfold DEF CreatePolicy, At, Returns, Creating
  <1>3. handler'[p].stage = "insert_row"
    BY <1>1, <1>2, GoesOn
  <1>4. UNCHANGED <<audience, rows, cutShort>>
    BY DEF CreatePolicy, database
  <1>5. \A c : ~ Owes(p, c)
    BY <1>2 DEF Owes, Owing, Deleting
  <1>6. QED
    BY <1>3, <1>4, <1>5, StepLists DEF ListedJob, Listed

LEMMA InsertRowLists ==
  ASSUME OneWorker, Inv, Listed, NEW p \in Procs, InsertRow(p)
  PROVE  Listed'
  <1>1. handler[p] # Idle /\ handler[p] \in Job /\ SoundJob(handler[p])
    BY AtJob DEF InsertRow, At
  <1>2. /\ handler[p].stage = "insert_row" /\ GoTo(p, handler[p], "read_to_add")
        /\ "read_to_add" \in Stages
    BY <1>1, CallLeads, StagesUnfold DEF InsertRow, At, Returns, Creating
  <1>3. /\ handler'[p] # Idle /\ handler'[p].stage = "read_to_add"
        /\ handler'[p].client = handler[p].client
    BY <1>1, <1>2, GoesOn
  <1>4. rows' = rows \cup {handler[p].client} /\ UNCHANGED <<audience, cutShort>>
    BY DEF InsertRow
  <1>5. \A c : ~ Owes(p, c)
    BY <1>2 DEF Owes, Owing, Deleting
  <1>6. \A c : c = handler[p].client => Owes(p, c)'
    BY <1>3 DEF Owes, Busy, Owing
  <1>7. ListedJob(handler[p])'
    BY <1>3, <1>4 DEF ListedJob
  <1>8. QED
    BY <1>4, <1>5, <1>6, <1>7, StepLists DEF Listed

LEMMA ReadAudienceLists ==
  ASSUME OneWorker, Inv, Listed, NEW p \in Procs, ReadAudience(p)
  PROVE  Listed'
  <1>1. handler[p] # Idle /\ handler[p] \in Job /\ SoundJob(handler[p])
    BY AtJob DEF ReadAudience, At
  <1> DEFINE job == [handler[p] EXCEPT !.read = audience]
  <1>2. job \in Job
    BY <1>1 DEF Job, Inv, TypeOK
  <1>3. /\ job.op = handler[p].op /\ job.stage = handler[p].stage
        /\ job.client = handler[p].client /\ job.read = audience
    BY <1>1 DEF Job
  <1>4. Returns(p, job) /\ job.stage \in {"read_to_add", "read_to_remove"}
    BY <1>3 DEF ReadAudience, At
  <1> HIDE DEF job
  <1>5. SoundJob(job)
    BY <1>1, <1>3, <1>4 DEF SoundJob, Early, Inv, TypeOK
  <1>6. PICK stage \in {"put_added", "put_removed"} :
          /\ GoTo(p, job, stage)
          /\ stage = "put_added" => handler[p].stage = "read_to_add"
    BY <1>2, <1>3, <1>4, <1>5, CallLeads DEF Returns
  <1>7. stage \in Stages
    BY StagesUnfold DEF Creating, Deleting
  <1>8. /\ handler'[p] # Idle /\ handler'[p].stage = stage
        /\ handler'[p].client = handler[p].client /\ handler'[p].read = audience
    BY <1>2, <1>3, <1>6, <1>7, GoesOn
  <1>9. UNCHANGED <<audience, rows, cutShort>>
    BY DEF ReadAudience, database
  <1>10. ListedJob(handler[p])'
    BY <1>1, <1>6, <1>8, <1>9 DEF ListedJob, Listed
  <1>11. \A c : Owes(p, c) => Owes(p, c)'
    BY <1>8 DEF Owes, Busy, Owing, Deleting
  <1>12. QED
    BY <1>9, <1>10, <1>11, StepLists DEF Listed

\* Creating that raises goes on to delete what it has made, or has made no row.
LEMMA RaisedLists ==
  ASSUME OneWorker, Inv, Listed, NEW p \in Procs, handler[p] # Idle, Raised(p),
         UNCHANGED <<audience, rows>>,
         cutShort' \/ (cutShort' = cutShort /\ handler[p].op = "create")
  PROVE  Listed'
  <1>1. handler[p] \in Job /\ SoundJob(handler[p])
    BY AtJob
  <1> DEFINE job == [handler[p] EXCEPT !.op = "undo"]
  <1>2. job \in Job /\ job.client = handler[p].client
    BY <1>1 DEF Job
  <1>3. GoTo(p, job, AfterError(handler[p]))
    BY DEF Raised
  <1> HIDE DEF job
  <1>4. CASE AfterError(handler[p]) = "end"
    <2>1. handler'[p] = Idle
      BY <1>3, <1>4, Ends
    <2>2. handler[p].op = "create" => handler[p].stage = "create_client"
      BY <1>1, <1>4 DEF AfterError, SoundJob, Creating
    <2>3. handler[p].op = "create" => \A c : ~ Owes(p, c)
      BY <2>2 DEF Owes, Owing, Deleting
    <2>4. QED
      BY <2>1, <2>3, StepLists DEF Listed
  <1>5. CASE AfterError(handler[p]) # "end"
    <2>1. /\ handler[p].op = "create"
          /\ Early(handler[p]) => AfterError(handler[p]) = "undo_client"
          /\ ~ Early(handler[p]) => AfterError(handler[p]) = "delete_client"
      BY <1>1, <1>5 DEF AfterError, Early
    <2>2. AfterError(handler[p]) \in Stages
      BY <2>1, StagesUnfold DEF Deleting
    <2>3. /\ handler'[p] # Idle /\ handler'[p].stage = AfterError(handler[p])
          /\ handler'[p].client = handler[p].client
      BY <1>2, <1>3, <2>2, GoesOn
    <2>4. ListedJob(handler[p])'
      BY <2>1, <2>3 DEF ListedJob
    <2>5. \A c : Owes(p, c) => Owes(p, c)'
      BY <2>1, <2>3 DEF Owes, Busy, Owing, Deleting, Early
    <2>6. QED
      BY <2>4, <2>5, StepLists DEF Listed
  <1>6. QED
    BY <1>4, <1>5

LEMMA PutAddedLists ==
  ASSUME OneWorker, Inv, Listed, NEW p \in Procs, PutAdded(p)
  PROVE  Listed'
  <1>1. handler[p] # Idle /\ handler[p] \in Job /\ SoundJob(handler[p])
    BY AtJob DEF PutAdded, At
  <1>2. handler[p].stage = "put_added" /\ handler[p].op = "create"
    BY <1>1, CallLeads DEF PutAdded, At
  <1>3. UNCHANGED <<rows, cutShort>>
    BY DEF PutAdded, database
  <1>4. CASE audience' = handler[p].read \cup {handler[p].client} /\ Returns(p, handler[p])
    <2>1. GoTo(p, handler[p], "end")
      BY <1>1, <1>2, <1>4, CallLeads DEF Returns
    <2>2. handler'[p] = Idle
      BY <2>1, Ends
    <2>3. audience' = audience \cup {handler[p].client} /\ handler[p].client \in rows
      BY <1>1, <1>2, <1>4 DEF Listed, ListedJob
    <2>4. \A c : Owes(p, c) => c = handler[p].client
      BY DEF Owes, Busy
    <2>5. QED
      BY <1>3, <2>2, <2>3, <2>4, StepLists DEF Listed
  <1>5. CASE UNCHANGED audience /\ Raised(p)
    BY <1>1, <1>2, <1>3, <1>5, RaisedLists
  <1>6. QED
    BY <1>4, <1>5 DEF PutAdded

LEMMA PutRemovedLists ==
  ASSUME OneWorker, Inv, Listed, NEW p \in Procs, PutRemoved(p)
  PROVE  Listed'
  <1>1. handler[p] # Idle /\ handler[p] \in Job /\ SoundJob(handler[p])
    BY AtJob DEF PutRemoved, At
  <1>2. /\ handler[p].stage = "put_removed" /\ GoTo(p, handler[p], "delete_policy")
        /\ "delete_policy" \in Stages
    BY <1>1, CallLeads, StagesUnfold DEF PutRemoved, At, Returns, Deleting
  <1>3. /\ handler'[p] # Idle /\ handler'[p].stage = "delete_policy"
        /\ handler'[p].client = handler[p].client
    BY <1>1, <1>2, GoesOn
  <1>4. /\ audience' = audience \ {handler[p].client}
        /\ UNCHANGED <<rows, cutShort>>
    BY <1>1, <1>2 DEF PutRemoved, database, Listed, ListedJob
  <1>5. ListedJob(handler[p])'
    BY <1>3, <1>4 DEF ListedJob
  <1>6. \A c : /\ Owes(p, c) => Owes(p, c)'
               /\ c = handler[p].client => Owes(p, c)'
    BY <1>3 DEF Owes, Busy, Owing, Deleting
  <1>7. QED
    BY <1>4, <1>5, <1>6, StepLists DEF Listed

LEMMA DeleteClientLists ==
  ASSUME OneWorker, Inv, Listed, NEW p \in Procs, DeleteClient(p)
  PROVE  Listed'
  <1>1. handler[p] # Idle /\ handler[p] \in Job /\ SoundJob(handler[p])
    BY AtJob DEF DeleteClient, At
  <1>2. UNCHANGED <<audience, rows, cutShort>>
    BY DEF DeleteClient, database
  <1>3. CASE handler[p].stage = "undo_client"
    <2>1. GoTo(p, handler[p], "end")
      BY <1>1, <1>3, CallLeads DEF DeleteClient, Returns
    <2>2. handler'[p] = Idle
      BY <2>1, Ends
    <2>3. \A c : ~ Owes(p, c)
      BY <1>3 DEF Owes, Owing, Deleting
    <2>4. QED
      BY <1>2, <2>2, <2>3, StepLists DEF Listed
  <1>4. CASE handler[p].stage = "delete_client"
    <2>1. GoTo(p, handler[p], "read_to_remove") /\ "read_to_remove" \in Stages
      BY <1>1, <1>4, CallLeads, StagesUnfold DEF DeleteClient, Returns, Deleting
    <2>2. /\ handler'[p] # Idle /\ handler'[p].stage = "read_to_remove"
          /\ handler'[p].client = handler[p].client
      BY <1>1, <2>1, GoesOn
    <2>3. \A c : Owes(p, c) => Owes(p, c)'
      BY <2>2 DEF Owes, Busy, Owing, Deleting
    <2>4. ListedJob(handler[p])'
      BY <2>2 DEF ListedJob
    <2>5. QED
      BY <1>2, <2>3, <2>4, StepLists DEF Listed
  <1>5. QED
    BY <1>3, <1>4 DEF DeleteClient, At

LEMMA DeletePolicyLists ==
  ASSUME OneWorker, Inv, Listed, NEW p \in Procs, DeletePolicy(p)
  PROVE  Listed'
  <1>1. handler[p] # Idle /\ handler[p] \in Job /\ SoundJob(handler[p])
    BY AtJob DEF DeletePolicy, At
  <1>2. /\ handler[p].stage = "delete_policy" /\ GoTo(p, handler[p], "delete_row")
        /\ "delete_row" \in Stages
    BY <1>1, CallLeads, StagesUnfold DEF DeletePolicy, At, Returns, Deleting
  <1>3. /\ handler'[p] # Idle /\ handler'[p].stage = "delete_row"
        /\ handler'[p].client = handler[p].client
    BY <1>1, <1>2, GoesOn
  <1>4. UNCHANGED <<audience, rows, cutShort>>
    BY DEF DeletePolicy, database
  <1>5. ListedJob(handler[p])'
    BY <1>1, <1>2, <1>3, <1>4 DEF ListedJob, Listed
  <1>6. \A c : Owes(p, c) => Owes(p, c)'
    BY <1>3 DEF Owes, Busy, Owing, Deleting
  <1>7. QED
    BY <1>4, <1>5, <1>6, StepLists DEF Listed

LEMMA DeleteRowLists ==
  ASSUME OneWorker, Inv, Listed, NEW p \in Procs, DeleteRow(p)
  PROVE  Listed'
  <1>1. handler[p] # Idle /\ handler[p] \in Job /\ SoundJob(handler[p])
    BY AtJob DEF DeleteRow, At
  <1>2. handler[p].stage = "delete_row" /\ handler[p].client \notin audience
    BY <1>1 DEF DeleteRow, At, Listed, ListedJob
  <1>3. rows' = rows \ {handler[p].client} /\ UNCHANGED <<audience, cutShort>>
    BY DEF DeleteRow
  <1>4. PICK stage \in {"end", "undo_client"} : GoTo(p, handler[p], stage)
    BY <1>1, <1>2, CallLeads DEF DeleteRow, Returns
  <1>5. handler'[p] = Idle \/ handler'[p].stage = "undo_client"
    <2>1. CASE stage = "end"
      BY <1>4, <2>1, Ends
    <2>2. CASE stage # "end"
      <3>1. stage \in Stages
        BY <2>2, StagesUnfold
      <3>2. QED
        BY <1>1, <1>4, <2>2, <3>1, GoesOn
    <2>3. QED
      BY <2>1, <2>2
  <1>6. \A c : Owes(p, c) => c = handler[p].client
    BY DEF Owes, Busy
  <1>7. handler'[p] # Idle => ListedJob(handler[p])'
    BY <1>5 DEF ListedJob
  <1>8. QED
    BY <1>2, <1>3, <1>6, <1>7, StepLists DEF Listed

LEMMA NextLists ==
  ASSUME OneWorker
  PROVE  Inv /\ Listed /\ [Next]_vars => Listed'
  <1> SUFFICES ASSUME Inv, Listed, [Next]_vars
               PROVE  Listed'
    OBVIOUS
  <1>1. CASE UNCHANGED vars
    BY <1>1 DEF vars, Listed, ListedJob, Owes, Busy
  <1>2. ASSUME NEW p \in Procs,
               (\E n \in Names : BeginCreate(p, n)) \/ (\E c \in Clients : BeginDelete(p, c))
        PROVE  Listed'
    BY <1>2, BeginLists
  <1>3. ASSUME NEW p \in Procs, Step(p)
        PROVE  Listed'
    BY <1>3, CreateClientLists, CreatePolicyLists, InsertRowLists, ReadAudienceLists,
       PutAddedLists, PutRemovedLists, DeleteClientLists, DeletePolicyLists, DeleteRowLists
       DEF Step
  <1>4. ASSUME NEW p \in Procs, Raise(p)
        PROVE  Listed'
    <2>1. /\ handler[p] # Idle /\ Raised(p) /\ UNCHANGED <<audience, rows>>
          /\ cutShort' = (cutShort \/ handler[p].op # "create")
      BY <1>4 DEF Raise, database
    <2>2. cutShort' \/ (cutShort' = cutShort /\ handler[p].op = "create")
      BY <2>1 DEF Inv, TypeOK
    <2>3. QED
      BY <2>1, <2>2, RaisedLists
  <1>5. ASSUME NEW p \in Procs, Crash(p)
        PROVE  Listed'
    <2>1. handler'[p] = Idle /\ UNCHANGED <<audience, rows>> /\ cutShort'
      BY <1>5 DEF Crash, Inv, TypeOK, database
    <2>2. QED
      BY <2>1, StepLists DEF Listed
  <1>6. QED
    BY <1>1, <1>2, <1>3, <1>4, <1>5 DEF Next

LEMMA ListedHolds ==
  ASSUME OneWorker
  PROVE  Spec => [](Inv /\ Agreement /\ Listed)
  <1>1. Init => Inv /\ Agreement /\ Listed
    BY InitInv, InitAgreement, InitListed
  <1>2. Inv /\ Agreement /\ Listed /\ [Next]_vars => Inv' /\ Agreement' /\ Listed'
    BY NextKeepsInv, NextKeepsAgreement, NextLists
  <1>3. QED
    BY <1>1, <1>2, PTL DEF Spec

-----------------------------------------------------------------------------
\* add_extra_audience and remove_extra_audience: one worker, whichever of its calls
\* raises or wherever it dies, leaves no audience without the row to delete it by.
THEOREM AudienceKeepsUser ==
  ASSUME OneWorker
  PROVE  Spec => []AudienceHasUser
  <1>1. Listed => AudienceHasUser
    BY DEF Listed, AudienceHasUser
  <1>2. QED
    BY <1>1, ListedHolds, PTL

\* One worker keeps Cognito, Verified Permissions, the database and the list in step,
\* also through creations that raise at any call and are undone.
THEOREM PlacesStayAgreed ==
  ASSUME OneWorker
  PROVE  Spec => []AllPlacesAgree
  <1>1. Inv /\ Agreement => GrantsAgree
    BY DEF Inv, TypeOK, Agreement, Accounted, Busy, GrantsAgree, Quiescent
  <1>2. Listed => (Quiescent /\ ~ cutShort => audience = rows)
    BY DEF Listed, Owes, Busy, Quiescent
  <1>3. Inv /\ Agreement /\ Listed => AllPlacesAgree
    BY <1>1, <1>2 DEF AllPlacesAgree, GrantsAgree
  <1>4. QED
    BY <1>3, ListedHolds, PTL

\* MachineUser.delete, and the except clause of create_machine_user that calls it: the row
\* a single worker deletes is the last that is left of the machine user.
THEOREM NoTraceIsLeft ==
  ASSUME OneWorker
  PROVE  Spec => LeavesNoTrace
  <1>1. ASSUME Inv, Listed, [Next]_vars
        PROVE  [\A c \in rows \ rows' : c \notin clients \cup policies \cup audience]_vars
    <2> SUFFICES ASSUME Next, NEW c \in rows \ rows'
                 PROVE  c \notin clients \cup policies \cup audience
      BY <1>1
    <2>1. PICK p \in Procs : DeleteRow(p)
      BY DEF Next, Step, BeginCreate, BeginDelete, CreateClient, CreatePolicy, InsertRow,
             ReadAudience, PutAdded, PutRemoved, DeleteClient, DeletePolicy, Raise, Crash,
             database
    <2>2. c = handler[p].client
      BY <2>1 DEF DeleteRow
    <2>3. handler[p] # Idle /\ SoundJob(handler[p]) /\ handler[p].stage = "delete_row"
      BY <1>1, <2>1, AtJob DEF DeleteRow, At
    <2>4. QED
      BY <1>1, <2>2, <2>3 DEF SoundJob, Deleting, Listed, ListedJob
  <1>2. QED
    BY <1>1, ListedHolds, PTL DEF Spec, LeavesNoTrace

=============================================================================
