-------------------------- MODULE SearchExport_proofs --------------------------
(***************************************************************************)
(* What readers of an alias are promised, for any number of aliases and of *)
(* generations, and one command at a time.                                 *)
(***************************************************************************)
EXTENDS SearchExport, FiniteSetTheorems, TLAPS

Exports == {"create", "import", "refresh", "check", "read", "swap", "prune"}
Renames == {"block", "clone", "restore", "unblock_target", "unblock_source", "delete_source",
            "move"}
Jobs == ExportJob \cup RenameJob \cup DeleteJob \cup {Idle}

-----------------------------------------------------------------------------
(* Types, for any number of commands.                                      *)

LEMMA KindOfJob ==
  ASSUME TypeOK, NEW p \in Procs
  PROVE  /\ job[p] \in Jobs
         /\ job[p].stage \in Exports => job[p] \in ExportJob
         /\ job[p].stage \in Renames => job[p] \in RenameJob
         /\ job[p].stage = "delete" => job[p] \in DeleteJob
         /\ job[p].stage = "end" => job[p] = Idle
  <1>1. job[p] \in ExportJob \cup RenameJob \cup DeleteJob \cup {Idle}
    BY DEF TypeOK
  <1>2. QED
    BY <1>1 DEF Jobs, ExportJob, RenameJob, DeleteJob, Idle, Exports, Renames

\* What a job becomes when one of its aliases is done.
LEMMA AliasDone ==
  ASSUME NEW j \in ExportJob, NEW a, NEW next \in Exports
  PROVE  LET k == DoneWith(j, a, next)
         IN  /\ k \in ExportJob
             /\ k.types = j.types /\ k.at = j.at /\ k.keep = j.keep
             /\ k.old = j.old /\ k.stale = j.stale
             /\ \/ j.todo = {a} /\ k.stage = next /\ k.todo = j.types
                \/ j.todo # {a} /\ k.stage = j.stage /\ k.todo = j.todo \ {a}
  BY DEF DoneWith, ExportJob, Exports

LEMMA Names ==
  ASSUME NEW a \in Aliases
  PROVE  /\ Plain(a) \in Index /\ Copy(a) \in Index /\ Plain(a).of = a /\ Copy(a).of = a
         /\ \A t \in Times : Generation(a, t) \in Index /\ Generation(a, t).of = a
  BY DEF Plain, Copy, Generation, Index

LEMMA IndexOf ==
  ASSUME NEW i \in Index
  PROVE  i.of \in Aliases
  BY DEF Index, Plain, Copy, Generation

\* A step that gives a command a job, and leaves the cluster well typed.
LEMMA JobGiven ==
  ASSUME TypeOK, NEW p \in Procs, NEW j \in Jobs, job' = [job EXCEPT ![p] = j],
         stopped' = stopped \/ stopped' = stopped + 1
  PROVE  job' \in [Procs -> Jobs] /\ job'[p] = j /\ stopped' \in Nat
  BY DEF TypeOK, Jobs

LEMMA IdleIsJob == Idle \in Jobs
  BY DEF Jobs

Cluster ==
    /\ now \in 0..MaxTime
    /\ indexes \subseteq Index
    /\ behind \in [Aliases -> SUBSET indexes]
    /\ DOMAIN content \subseteq indexes
    /\ \A i \in DOMAIN content : content[i] \in Times
    /\ searchable \subseteq indexes
    /\ blocked \subseteq indexes

LEMMA InitTypeOK == Init => TypeOK
  BY SearchExportAssumption DEF Init, TypeOK

LEMMA Forgotten ==
  ASSUME Cluster, NEW i, Forget(i), now' = now
  PROVE  Cluster'
  BY DEF Cluster, Forget

LEMMA ExportTyped ==
  ASSUME TypeOK, NEW p \in Procs, Export(p)
  PROVE  TypeOK'
  <1> DEFINE j == job[p]
  <1>1. Cluster
    BY DEF TypeOK, Cluster
  <1>2. ASSUME Cluster', NEW k \in Jobs, job' = [job EXCEPT ![p] = k],
               stopped' = stopped \/ stopped' = stopped + 1
        PROVE  TypeOK'
    BY <1>2, JobGiven DEF TypeOK, Cluster, Jobs
  <1>3. ASSUME Cluster', Abort(p)
        PROVE  TypeOK'
    BY <1>2, <1>3, IdleIsJob DEF Abort
  <1>4. ASSUME Cluster', NEW k \in ExportJob, Continue(p, k)
        PROVE  TypeOK'
    BY <1>2, <1>4 DEF Continue, Jobs
  <1>5. ASSUME NEW stage \in Exports, At(p, stage)
        PROVE  j \in ExportJob /\ j.stage = stage /\ j.todo \subseteq Aliases
               /\ \A a \in Aliases : Target(j, a) \in Index
    <2>1. j \in ExportJob /\ j.stage = stage
      BY <1>5, KindOfJob DEF At
    <2>2. QED
      BY <2>1, Names DEF ExportJob, Target
  <1>6. CASE BeginExport(p)
    <2>1. PICK t \in {now, now + 1} \cap Times, types \in (SUBSET Aliases) \ {{}}, keep \in Keeps :
            /\ now' = t
            /\ Begin(p, [stage |-> "create", at |-> t, types |-> types, keep |-> keep,
                        todo |-> types, old |-> [a \in Aliases |-> {}], stale |-> {}])
      BY <1>6 DEF BeginExport
    <2>2. Cluster'
      BY <1>1, <1>6, <2>1, SearchExportAssumption DEF BeginExport, Cluster, documents, Times
    <2>3. [stage |-> "create", at |-> t, types |-> types, keep |-> keep,
           todo |-> types, old |-> [a \in Aliases |-> {}], stale |-> {}] \in ExportJob
      BY <2>1 DEF ExportJob
    <2>4. QED
      BY <1>4, <2>1, <2>2, <2>3 DEF Begin
  <1>7. CASE CreateIndex(p)
    <2>1. j \in ExportJob /\ j.todo \subseteq Aliases /\ \A a \in Aliases : Target(j, a) \in Index
      BY <1>5, <1>7 DEF CreateIndex, Exports
    <2>2. PICK a \in j.todo :
            IF Exists(Target(j, a))
            THEN Abort(p) /\ UNCHANGED indexes
            ELSE /\ indexes' = indexes \cup {Target(j, a)}
                 /\ Continue(p, DoneWith(j, a, "import"))
      BY <1>7 DEF CreateIndex
    <2>3. Cluster'
      BY <1>1, <1>7, <2>1, <2>2 DEF CreateIndex, Cluster, documents
    <2>4. DoneWith(j, a, "import") \in ExportJob
      BY <2>1, AliasDone DEF Exports
    <2>5. QED
      BY <1>3, <1>4, <2>2, <2>3, <2>4
  <1>8. CASE ImportDocuments(p)
    <2>1. j \in ExportJob /\ j.todo \subseteq Aliases /\ \A a \in Aliases : Target(j, a) \in Index
      BY <1>5, <1>8 DEF ImportDocuments, Exports
    <2>2. PICK a \in j.todo :
            LET i == Target(j, a) IN
            /\ indexes' = indexes \cup {i}
            /\ content' = IF i \in indexes \ blocked
                          THEN [x \in DOMAIN content \cup {i} |->
                                   IF x = i THEN j.at ELSE content[x]]
                          ELSE content
            /\ IF i \in blocked THEN Abort(p)
                                ELSE Continue(p, DoneWith(j, a, "refresh"))
      BY <1>8 DEF ImportDocuments
    <2>3. Cluster'
      <3>1. j.at \in Times /\ Target(j, a) \in Index
        BY <2>1 DEF ExportJob
      <3>2. UNCHANGED <<now, behind, searchable, blocked>>
        BY <1>8 DEF ImportDocuments
      <3> HIDE DEF j
      <3>3. QED
        BY <1>1, <2>2, <3>1, <3>2 DEF Cluster
    <2>4. DoneWith(j, a, "refresh") \in ExportJob
      BY <2>1, AliasDone DEF Exports
    <2>5. QED
      BY <1>3, <1>4, <2>2, <2>3, <2>4
  <1>9. CASE Refresh(p)
    <2>1. j \in ExportJob
      BY <1>5, <1>9 DEF Refresh, Exports
    <2>2. Cluster'
      BY <1>1, <1>9 DEF Refresh, Cluster
    <2>3. [j EXCEPT !.stage = "check"] \in ExportJob
      BY <2>1 DEF ExportJob
    <2>4. QED
      BY <1>3, <1>4, <1>9, <2>2, <2>3 DEF Refresh
  <1>10. CASE CheckBlocking(p)
    <2>1. j \in ExportJob
      BY <1>5, <1>10 DEF CheckBlocking, Exports
    <2>2. Cluster'
      BY <1>1, <1>10 DEF CheckBlocking, Cluster, documents
    <2>3. [j EXCEPT !.stage = "read"] \in ExportJob
      BY <2>1 DEF ExportJob
    <2>4. QED
      BY <1>3, <1>4, <1>10, <2>2, <2>3 DEF CheckBlocking
  <1>11. CASE ReadAlias(p)
    <2>1. j \in ExportJob /\ j.todo \subseteq Aliases
      BY <1>5, <1>11 DEF ReadAlias, Exports
    <2>2. PICK a \in j.todo :
            Continue(p, DoneWith([j EXCEPT !.old[a] = behind[a] \ {Target(j, a)}], a, "swap"))
      BY <1>11 DEF ReadAlias
    <2>3. Cluster'
      BY <1>1, <1>11 DEF ReadAlias, Cluster, documents
    <2>4. [j EXCEPT !.old[a] = behind[a] \ {Target(j, a)}] \in ExportJob
      BY <1>1, <2>1 DEF ExportJob, Cluster
    <2>5. DoneWith([j EXCEPT !.old[a] = behind[a] \ {Target(j, a)}], a, "swap") \in ExportJob
      BY <2>4, AliasDone DEF Exports
    <2>6. QED
      BY <1>4, <2>2, <2>3, <2>5
  <1>12. CASE SwapAliases(p)
    <2>1. j \in ExportJob /\ j.types \subseteq Aliases
      BY <1>5, <1>12 DEF SwapAliases, Exports, ExportJob
    <2>2. Cluster'
      <3>1. UNCHANGED <<now, indexes, content, searchable, blocked>>
        BY <1>12 DEF SwapAliases, documents
      <3>2. behind' \in [Aliases -> SUBSET indexes]
        <4>1. CASE behind' = behind
          BY <1>1, <4>1 DEF Cluster
        <4>2. CASE /\ Targets(j) \subseteq indexes
                   /\ behind' = [a \in Aliases |->
                        IF a \in j.types THEN (behind[a] \ j.old[a]) \cup {Target(j, a)}
                        ELSE behind[a]]
          BY <1>1, <2>1, <4>2 DEF Cluster, Targets
        <4>3. QED
          BY <1>12, <4>1, <4>2 DEF SwapAliases
      <3>3. QED
        BY <1>1, <3>1, <3>2 DEF Cluster
    <2>3. [j EXCEPT !.stage = "prune"] \in ExportJob
      BY <2>1 DEF ExportJob
    <2>4. QED
      BY <1>3, <1>4, <1>12, <2>2, <2>3 DEF SwapAliases
  <1>13. CASE ListStale(p)
    <2>1. j \in ExportJob
      BY <1>5, <1>13 DEF ListStale, Exports
    <2>2. Cluster'
      BY <1>1, <1>13 DEF ListStale, Cluster, documents
    <2>3. CASE Stop(p)
      BY <1>2, <2>2, <2>3, IdleIsJob DEF Stop, Continue
    <2>4. CASE \E a \in j.todo :
                 Continue(p, [j EXCEPT !.todo = @ \ {a}, !.stale = Stale(j, a)])
      <3>1. PICK a \in j.todo :
                 Continue(p, [j EXCEPT !.todo = @ \ {a}, !.stale = Stale(j, a)])
        BY <2>4
      <3>2. Stale(j, a) \subseteq Index
        BY <1>1 DEF Stale, Cluster
      <3>3. [j EXCEPT !.todo = @ \ {a}, !.stale = Stale(j, a)] \in ExportJob
        BY <2>1, <3>2 DEF ExportJob
      <3>4. QED
        BY <1>4, <2>2, <3>1, <3>3
    <2>5. QED
      BY <1>13, <2>3, <2>4 DEF ListStale
  <1>14. CASE DeleteStale(p)
    <2>1. j \in ExportJob
      BY <1>5, <1>14 DEF DeleteStale, Exports
    <2>2. PICK i \in j.stale :
            IF i \in indexes
            THEN Forget(i) /\ Continue(p, [j EXCEPT !.stale = @ \ {i}])
            ELSE Abort(p) /\ UNCHANGED <<indexes, behind, documents, blocked>>
      BY <1>14 DEF DeleteStale
    <2>3. now' = now
      BY <1>14 DEF DeleteStale
    <2>4. Cluster'
      BY <1>1, <2>2, <2>3, Forgotten DEF Cluster, documents
    <2>5. [j EXCEPT !.stale = @ \ {i}] \in ExportJob
      BY <2>1 DEF ExportJob
    <2>6. QED
      BY <1>3, <1>4, <2>2, <2>4, <2>5
  <1>15. QED
    BY <1>6, <1>7, <1>8, <1>9, <1>10, <1>11, <1>12, <1>13, <1>14 DEF Export

LEMMA RenameTyped ==
  ASSUME TypeOK, NEW p \in Procs, Rename(p)
  PROVE  TypeOK'
  <1> DEFINE j == job[p]
  <1>1. Cluster
    BY DEF TypeOK, Cluster
  <1>2. ASSUME Cluster', NEW k \in Jobs, job' = [job EXCEPT ![p] = k],
               stopped' = stopped \/ stopped' = stopped + 1
        PROVE  TypeOK'
    BY <1>2, JobGiven DEF TypeOK, Cluster, Jobs
  <1>3. ASSUME Cluster', Abort(p)
        PROVE  TypeOK'
    BY <1>2, <1>3, IdleIsJob DEF Abort
  <1>4. ASSUME Cluster', NEW k \in RenameJob \cup {Idle}, Continue(p, k)
        PROVE  TypeOK'
    BY <1>2, <1>4 DEF Continue, Jobs
  <1>5. ASSUME NEW stage \in Renames, At(p, stage)
        PROVE  /\ j \in RenameJob /\ j.source \in Index /\ j.target \in Index
               /\ \A next \in Renames : [j EXCEPT !.stage = next] \in RenameJob
    <2>1. j \in RenameJob
      BY <1>5, KindOfJob DEF At
    <2>2. QED
      BY <2>1 DEF RenameJob, Renames
  <1>6. CASE BeginRename(p)
    <2>1. PICK s \in indexes, t \in {Plain(a) : a \in Aliases} \cup {Copy(a) : a \in Aliases},
               keep \in BOOLEAN :
            Begin(p, [stage |-> "block", source |-> s, target |-> t, keep_source |-> keep,
                      aliases |-> {a \in Aliases : s \in behind[a]}])
      BY <1>6 DEF BeginRename
    <2>2. Cluster'
      BY <1>1, <1>6 DEF BeginRename, Cluster, documents
    <2>3. s \in Index /\ t \in Index
      BY <1>1, <2>1, Names DEF Cluster
    <2>4. [stage |-> "block", source |-> s, target |-> t, keep_source |-> keep,
           aliases |-> {a \in Aliases : s \in behind[a]}] \in RenameJob
      BY <2>1, <2>3 DEF RenameJob
    <2>5. QED
      BY <1>4, <2>1, <2>2, <2>4 DEF Begin
  <1>7. CASE BlockSource(p)
    <2>1. j.source \in Index /\ [j EXCEPT !.stage = "clone"] \in RenameJob
      BY <1>5, <1>7 DEF BlockSource, Renames
    <2>2. Cluster'
      BY <1>1, <1>7 DEF BlockSource, Cluster, documents
    <2>3. QED
      BY <1>3, <1>4, <1>7, <2>1, <2>2 DEF BlockSource
  <1>8. CASE CloneIndex(p)
    <2>1. j.target \in Index /\ [j EXCEPT !.stage = "unblock_target"] \in RenameJob
      BY <1>5, <1>8 DEF CloneIndex, Renames
    <2> DEFINE s == j.source
               t == j.target
    <2>2. /\ indexes' = indexes \cup {t} /\ blocked' = blocked \cup {t}
          /\ content' = IF s \in DOMAIN content
                  THEN [i \in DOMAIN content \cup {t} |-> IF i = t THEN content[s] ELSE content[i]]
                  ELSE content
          /\ searchable' = IF s \in searchable THEN searchable \cup {t} ELSE searchable
          /\ UNCHANGED <<now, behind>>
      BY <1>8 DEF CloneIndex
    <2> HIDE DEF s, t
    <2>3. t \in Index
      BY <2>1 DEF t
    <2>4. \A i \in DOMAIN content' : content'[i] \in Times
      BY <1>1, <2>2 DEF Cluster
    <2>5. Cluster'
      BY <1>1, <2>2, <2>3, <2>4 DEF Cluster
    <2>6. QED
      BY <1>4, <1>8, <2>1, <2>5 DEF CloneIndex
  <1>9. CASE CloneFails(p)
    <2>1. [j EXCEPT !.stage = "restore"] \in RenameJob
      BY <1>5, <1>9 DEF CloneFails, Renames
    <2>2. Cluster'
      BY <1>1, <1>9 DEF CloneFails, Cluster, documents
    <2>3. QED
      BY <1>4, <1>9, <2>1, <2>2 DEF CloneFails
  <1>10. ASSUME NEW stage \in Renames, NEW i, NEW next \in Renames \cup {"end"},
                Unblock(p, stage, i, next)
         PROVE  TypeOK'
    <2>1. Cluster'
      BY <1>1, <1>10 DEF Unblock, Cluster, documents
    <2>2. CASE next = "end"
      BY <1>4, <1>10, <2>1, <2>2 DEF Unblock
    <2>3. CASE next # "end"
      <3>1. [j EXCEPT !.stage = next] \in RenameJob
        BY <1>5, <1>10, <2>3 DEF Unblock
      <3>2. QED
        BY <1>4, <1>10, <2>1, <2>3, <3>1 DEF Unblock
    <2>4. QED
      BY <2>2, <2>3
  <1>11. CASE RestoreSource(p) \/ UnblockTarget(p) \/ UnblockSource(p)
    BY <1>10, <1>11 DEF RestoreSource, UnblockTarget, UnblockSource, Renames
  <1>12. CASE DeleteSource(p)
    <2>1. [j EXCEPT !.stage = "move"] \in RenameJob
      BY <1>5, <1>12 DEF DeleteSource, Renames
    <2>2. Cluster'
      BY <1>1, <1>12, Forgotten DEF DeleteSource, Cluster, documents
    <2>3. QED
      BY <1>3, <1>4, <1>12, <2>1, <2>2 DEF DeleteSource
  <1>13. CASE MoveAliases(p)
    <2>1. Cluster'
      BY <1>1, <1>13 DEF MoveAliases, Cluster, documents
    <2>2. QED
      BY <1>4, <1>13, <2>1 DEF MoveAliases, Stop
  <1>14. QED
    BY <1>6, <1>7, <1>8, <1>9, <1>11, <1>12, <1>13 DEF Rename

LEMMA OtherTyped ==
  ASSUME TypeOK, NEW p \in Procs, BeginDelete(p) \/ DeleteIndex(p) \/ Fail(p)
  PROVE  TypeOK'
  <1> DEFINE j == job[p]
  <1>1. Cluster
    BY DEF TypeOK, Cluster
  <1>2. ASSUME Cluster', NEW k \in Jobs, job' = [job EXCEPT ![p] = k],
               stopped' = stopped \/ stopped' = stopped + 1
        PROVE  TypeOK'
    BY <1>2, JobGiven DEF TypeOK, Cluster, Jobs
  <1>3. ASSUME Cluster', Abort(p)
        PROVE  TypeOK'
    BY <1>2, <1>3, IdleIsJob DEF Abort
  <1>4. ASSUME Cluster', NEW k \in DeleteJob \cup {Idle}, Continue(p, k)
        PROVE  TypeOK'
    BY <1>2, <1>4 DEF Continue, Jobs
  <1>5. CASE BeginDelete(p)
    <2>1. PICK doomed : /\ doomed \subseteq indexes
                        /\ Begin(p, [stage |-> "delete", doomed |-> doomed])
      BY <1>5 DEF BeginDelete
    <2>2. Cluster'
      BY <1>1, <1>5 DEF BeginDelete, Cluster, documents
    <2>3. [stage |-> "delete", doomed |-> doomed] \in DeleteJob
      BY <1>1, <2>1 DEF DeleteJob, Cluster
    <2>4. QED
      BY <1>4, <2>1, <2>2, <2>3 DEF Begin
  <1>6. CASE DeleteIndex(p)
    <2>1. j \in DeleteJob
      BY <1>6, KindOfJob DEF DeleteIndex, At
    <2>2. PICK i \in j.doomed :
            IF i \in indexes
            THEN /\ Forget(i)
                 /\ IF j.doomed = {i} THEN Stop(p)
                    ELSE Continue(p, [j EXCEPT !.doomed = @ \ {i}])
            ELSE Abort(p) /\ UNCHANGED <<indexes, behind, documents, blocked>>
      BY <1>6 DEF DeleteIndex
    <2>3. now' = now
      BY <1>6 DEF DeleteIndex
    <2>4. Cluster'
      BY <1>1, <2>2, <2>3, Forgotten DEF Cluster, documents
    <2>5. [j EXCEPT !.doomed = @ \ {i}] \in DeleteJob
      BY <2>1 DEF DeleteJob
    <2>6. QED
      BY <1>3, <1>4, <2>2, <2>4, <2>5 DEF Stop
  <1>7. CASE Fail(p)
    BY <1>1, <1>3, <1>7 DEF Fail, Cluster, documents
  <1>8. QED
    BY <1>5, <1>6, <1>7

LEMMA NextKeepsTypeOK ==
  ASSUME TypeOK, [Next]_vars
  PROVE  TypeOK'
  <1>1. CASE UNCHANGED vars
    BY <1>1 DEF TypeOK, vars, documents
  <1>2. CASE Next
    BY <1>2, ExportTyped, RenameTyped, OtherTyped DEF Next
  <1>3. QED
    BY <1>1, <1>2

\* The cluster and the commands stay well typed, however many commands run at once.
THEOREM TypeCorrect == Spec => []TypeOK
  BY InitTypeOK, NextKeepsTypeOK, PTL DEF Spec

-----------------------------------------------------------------------------
(***************************************************************************)
(* One command at a time.  What an export has done so far stays as it was: *)
(* its indices are new, then filled, then found, and only then behind their *)
(* aliases; what a rename has read of its source stays true until it moves *)
(* the aliases.                                                            *)
(***************************************************************************)
OneCommand == \A p, q \in Procs : p = q

Filled(j, a) == Target(j, a) \in DOMAIN content /\ content[Target(j, a)] = j.at
Superseded(j, a) == j.old[a] = behind[a] \ {Target(j, a)}
ExportOk(p) ==
  LET j == job[p]
  IN  j.stage \in Exports =>
        /\ j.todo \subseteq j.types
        /\ j.stage = "create" =>
             \A a \in j.types \ j.todo : Target(j, a) \in indexes \ DOMAIN content
        /\ j.stage = "import" =>
             /\ \A a \in j.types : Target(j, a) \in indexes
             /\ \A a \in j.todo : Target(j, a) \notin DOMAIN content
             /\ \A a \in j.types \ j.todo : Filled(j, a)
        /\ j.stage \in {"refresh", "check"} => j.todo = j.types
        /\ j.stage \in {"refresh", "check", "read", "swap", "prune"} =>
             \A a \in j.types : Filled(j, a)
        /\ j.stage \in {"check", "read", "swap", "prune"} =>
             \A a \in j.types : Target(j, a) \in searchable
        /\ j.stage = "read" => \A a \in j.types \ j.todo : Superseded(j, a)
        /\ j.stage = "swap" => \A a \in j.types : Superseded(j, a)
        /\ j.stage # "prune" => j.stale = {}
        /\ j.stage = "prune" =>
             /\ \A a \in j.types : behind[a] = {Target(j, a)}
             /\ \A i \in j.stale : i.of \in j.types /\ i # Target(j, i.of)

SameDocuments(s, t) ==
    /\ s \in DOMAIN content => t \in DOMAIN content /\ content[t] = content[s]
    /\ s \in searchable => t \in searchable
RenameOk(p) ==
  LET j == job[p]
      s == j.source
      t == j.target
  IN  /\ j.stage \in Renames => s.of = t.of
      /\ j.stage \in {"block", "clone", "unblock_target", "unblock_source", "delete_source"} =>
           j.aliases = {a \in Aliases : s \in behind[a]}
      /\ j.stage \in {"unblock_target", "unblock_source", "delete_source"} =>
           s # t /\ {s, t} \subseteq indexes /\ SameDocuments(s, t)
      /\ j.stage = "delete_source" => ~ j.keep_source
      /\ j.stage = "move" =>
           /\ t \in indexes /\ (j.keep_source => s \in indexes)
           /\ \A a \in j.aliases :
                /\ a = t.of /\ behind[a] \subseteq {s} /\ t \in Complete
                /\ behind[a] # {} => content[t] = content[s]

\* The index a rename has to make writable again.
HeldBy(j) ==
    IF j.stage = "unblock_target" THEN {j.source, j.target}
    ELSE IF j.stage \in {"clone", "restore", "unblock_source", "delete_source"} THEN {j.source}
    ELSE {}
BlocksHeld == stopped = 0 => \A i \in blocked : \E p \in Procs : i \in HeldBy(job[p])

Served == OneGeneration /\ ServesComplete
Inv == TypeOK /\ Served /\ BlocksHeld /\ \A p \in Procs : ExportOk(p) /\ RenameOk(p)

LEMMA InitInv == Init => Inv
  BY InitTypeOK
     DEF Init, Inv, Served, OneGeneration, ServesComplete, BlocksHeld, ExportOk, RenameOk, Idle,
         Exports, Renames

LEMMA NoJob ==
  ASSUME NEW p, job'[p].stage \in {"end", "delete"}
  PROVE  ExportOk(p)' /\ RenameOk(p)' /\ HeldBy(job[p])' = {}
  BY DEF ExportOk, RenameOk, Exports, Renames, HeldBy

LEMMA NoRename ==
  ASSUME NEW p, job'[p].stage \in Exports
  PROVE  RenameOk(p)' /\ HeldBy(job[p])' = {}
  BY DEF RenameOk, Exports, Renames, HeldBy

LEMMA NoExport ==
  ASSUME NEW p, job'[p].stage \in Renames
  PROVE  ExportOk(p)'
  BY DEF ExportOk, Exports, Renames

\* Nothing comes behind an alias, and what is there is as complete as before.
LEMMA ServedOn ==
  ASSUME Served, \A a \in Aliases : behind'[a] \subseteq behind[a],
         \A a \in Aliases : \A i \in behind'[a] :
           i \in DOMAIN content /\ i \in searchable => i \in DOMAIN content' /\ i \in searchable'
  PROVE  Served'
  BY DEF Served, OneGeneration, ServesComplete, Complete

\* The job of a command after a step.
LEMMA Continued ==
  ASSUME TypeOK, NEW p \in Procs, NEW j, Continue(p, j)
  PROVE  job'[p] = j /\ stopped' = stopped
  BY DEF TypeOK, Continue

LEMMA Aborted ==
  ASSUME TypeOK, NEW p \in Procs, Abort(p)
  PROVE  job'[p].stage = "end" /\ stopped' # 0
  BY DEF TypeOK, Abort, Idle

\* Blocks stay with the command, or it has stopped half way.
LEMMA NoneBlocked ==
  ASSUME OneCommand, BlocksHeld, NEW p \in Procs, HeldBy(job[p]) = {},
         stopped' # 0 \/ (stopped' = stopped /\ blocked' \subseteq blocked)
  PROVE  BlocksHeld'
  BY DEF OneCommand, BlocksHeld

LEMMA ExportServes ==
  ASSUME OneCommand, Inv, NEW p \in Procs, Export(p)
  PROVE  Served' /\ BlocksHeld' /\ ExportOk(p)' /\ RenameOk(p)'
  <1> DEFINE j == job[p]
  <1>1. TypeOK /\ Served /\ BlocksHeld /\ ExportOk(p)
    BY DEF Inv
  <1>2. ASSUME NEW stage \in Exports, At(p, stage)
        PROVE  /\ j \in ExportJob /\ j.stage = stage /\ HeldBy(j) = {} /\ j.todo \subseteq j.types
               /\ (stage # "prune" => j.stale = {})
               /\ j.types \subseteq Aliases /\ \A a \in Aliases : Target(j, a).of = a
    <2>1. j \in ExportJob /\ j.stage = stage
      BY <1>1, <1>2, KindOfJob DEF At
    <2>2. HeldBy(j) = {} /\ j.todo \subseteq j.types /\ (stage # "prune" => j.stale = {})
      BY <1>1, <2>1 DEF HeldBy, ExportOk, Exports
    <2>3. QED
      BY <2>1, <2>2, Names DEF ExportJob, Target
  <1>3. ASSUME Abort(p), UNCHANGED <<behind, searchable>>, HeldBy(j) = {},
               \A i \in DOMAIN content : i \in DOMAIN content'
        PROVE  Served' /\ BlocksHeld' /\ ExportOk(p)' /\ RenameOk(p)'
    <2>1. job'[p].stage = "end" /\ stopped' # 0
      BY <1>1, <1>3, Aborted
    <2>2. Served'
      BY <1>1, <1>3, ServedOn
    <2>3. QED
      BY <1>1, <1>3, <2>1, <2>2, NoJob, NoneBlocked
  <1>4. ASSUME NEW k, Continue(p, k), k.stage \in Exports, HeldBy(j) = {},
               blocked' \subseteq blocked
        PROVE  job'[p] = k /\ stopped' = stopped /\ BlocksHeld' /\ RenameOk(p)'
    <2>1. job'[p] = k /\ stopped' = stopped
      BY <1>1, <1>4, Continued
    <2>2. QED
      BY <1>1, <1>4, <2>1, NoRename, NoneBlocked
  <1>5. ASSUME UNCHANGED <<behind, searchable>>, \A i \in DOMAIN content : i \in DOMAIN content'
        PROVE  Served'
    BY <1>1, <1>5, ServedOn
  <1>6. CASE BeginExport(p)
    <2>1. PICK t \in Times, types \in SUBSET Aliases, keep \in Keeps :
            Begin(p, [stage |-> "create", at |-> t, types |-> types, keep |-> keep,
                      todo |-> types, old |-> [a \in Aliases |-> {}], stale |-> {}])
      BY <1>6 DEF BeginExport
    <2>2. UNCHANGED <<indexes, behind, content, searchable, blocked>> /\ HeldBy(j) = {}
      BY <1>6, <2>1 DEF BeginExport, documents, HeldBy, Begin, Idle
    <2>3. /\ job'[p] = [stage |-> "create", at |-> t, types |-> types, keep |-> keep,
                      todo |-> types, old |-> [a \in Aliases |-> {}], stale |-> {}]
          /\ BlocksHeld' /\ RenameOk(p)'
      BY <1>4, <2>1, <2>2 DEF Begin, Exports
    <2>4. ExportOk(p)'
      BY <2>3 DEF ExportOk
    <2>5. QED
      BY <1>5, <2>2, <2>3, <2>4
  <1>7. CASE CreateIndex(p)
    <2>1. /\ j \in ExportJob /\ j.stage = "create"
          /\ HeldBy(j) = {} /\ j.stale = {} /\ j.todo \subseteq j.types
          /\ j.types \subseteq Aliases /\ \A a \in Aliases : Target(j, a).of = a
      BY <1>2, <1>7 DEF CreateIndex, Exports
    <2>2. PICK a \in j.todo :
            IF Exists(Target(j, a))
            THEN Abort(p) /\ UNCHANGED indexes
            ELSE /\ indexes' = indexes \cup {Target(j, a)}
                 /\ Continue(p, DoneWith(j, a, "import"))
      BY <1>7 DEF CreateIndex
    <2>3. UNCHANGED <<behind, content, searchable, blocked>>
      BY <1>7 DEF CreateIndex, documents
    <2>4. CASE Exists(Target(j, a))
      BY <1>3, <2>1, <2>2, <2>3, <2>4
    <2>5. CASE ~ Exists(Target(j, a))
      <3> DEFINE k == DoneWith(j, a, "import")
      <3>1. /\ k.types = j.types /\ k.at = j.at /\ k.stale = {}
            /\ \/ j.todo = {a} /\ k.stage = "import" /\ k.todo = j.types
               \/ j.todo # {a} /\ k.stage = "create" /\ k.todo = j.todo \ {a}
        BY <2>1, AliasDone DEF Exports
      <3>2. Continue(p, k) /\ indexes' = indexes \cup {Target(j, a)}
        BY <2>2, <2>5
      <3> HIDE DEF k
      <3>3. job'[p] = k /\ BlocksHeld' /\ RenameOk(p)'
        BY <1>4, <2>1, <2>3, <3>1, <3>2 DEF Exports
      <3>4. Target(j, a) \notin DOMAIN content
        BY <1>1, <2>5 DEF Exists, TypeOK
      <3>5. \A b : Target(k, b) = Target(j, b)
        BY <3>1 DEF Target
      <3>6. \A b \in j.types \ j.todo : Target(j, b) \in indexes \ DOMAIN content
        BY <1>1, <2>1 DEF ExportOk, Exports
      <3>7. \A b \in (j.types \ j.todo) \cup {a} : Target(k, b) \in indexes' \ DOMAIN content'
        BY <2>3, <3>2, <3>4, <3>5, <3>6
      <3>8. ExportOk(p)'
        <4>1. CASE k.stage = "import"
          <5>1. j.todo = {a} /\ k.todo = j.types
            BY <3>1, <4>1
          <5>2. \A b \in k.types : Target(k, b) \in indexes' \ DOMAIN content'
            BY <3>1, <3>7, <5>1
          <5>3. QED
            BY <3>1, <3>3, <4>1, <5>1, <5>2 DEF ExportOk, Target
        <4>2. CASE k.stage = "create"
          <5>1. k.todo = j.todo \ {a}
            BY <3>1, <4>2
          <5>2. \A b \in k.types \ k.todo : Target(k, b) \in indexes' \ DOMAIN content'
            BY <3>1, <3>7, <5>1
          <5>3. QED
            BY <2>1, <3>1, <3>3, <4>2, <5>1, <5>2 DEF ExportOk, Target
        <4>3. QED
          BY <3>1, <4>1, <4>2
      <3>9. QED
        BY <1>5, <2>3, <3>3, <3>8
    <2>6. QED
      BY <2>4, <2>5
  <1>8. CASE ImportDocuments(p)
    <2>1. /\ j \in ExportJob /\ j.stage = "import"
          /\ HeldBy(j) = {} /\ j.stale = {} /\ j.todo \subseteq j.types
          /\ j.types \subseteq Aliases /\ \A a \in Aliases : Target(j, a).of = a
      BY <1>2, <1>8 DEF ImportDocuments, Exports
    <2>2. PICK a \in j.todo :
            LET i == Target(j, a) IN
            /\ indexes' = indexes \cup {i}
            /\ content' = IF i \in indexes \ blocked
                          THEN [x \in DOMAIN content \cup {i} |->
                                   IF x = i THEN j.at ELSE content[x]]
                          ELSE content
            /\ IF i \in blocked THEN Abort(p)
                                ELSE Continue(p, DoneWith(j, a, "refresh"))
      BY <1>8 DEF ImportDocuments
    <2>3. UNCHANGED <<behind, searchable, blocked>>
      BY <1>8 DEF ImportDocuments
    <2>4. CASE Target(j, a) \in blocked
      BY <1>3, <2>1, <2>2, <2>3, <2>4
    <2>5. CASE Target(j, a) \notin blocked
      <3> DEFINE k == DoneWith(j, a, "refresh")
                 i == Target(j, a)
      <3>1. /\ k.types = j.types /\ k.at = j.at /\ k.stale = {}
            /\ \/ j.todo = {a} /\ k.stage = "refresh" /\ k.todo = j.types
               \/ j.todo # {a} /\ k.stage = "import" /\ k.todo = j.todo \ {a}
        BY <2>1, AliasDone DEF Exports
      <3>2. /\ \A b \in j.types : Target(j, b) \in indexes
            /\ \A b \in j.todo : Target(j, b) \notin DOMAIN content
            /\ \A b \in j.types \ j.todo : Filled(j, b)
        BY <1>1, <2>1 DEF ExportOk, Exports
      <3>3. Continue(p, k) /\ indexes' = indexes \cup {i} /\ i \in indexes
        BY <2>1, <2>2, <2>5, <3>2
      <3>4. content' = [x \in DOMAIN content \cup {i} |-> IF x = i THEN j.at ELSE content[x]]
        BY <2>2, <2>5, <3>3
      <3>5. \A b \in j.types : b # a => Target(j, b) # i
        BY <2>1
      <3> HIDE DEF k, i
      <3>6. job'[p] = k /\ BlocksHeld' /\ RenameOk(p)'
        BY <1>4, <2>1, <2>3, <3>1, <3>3 DEF Exports
      <3>7. \A b : Target(k, b) = Target(j, b)
        BY <3>1 DEF Target
      <3>8. /\ \A b \in (j.types \ j.todo) \cup {a} :
                 Target(k, b) \in DOMAIN content' /\ content'[Target(k, b)] = k.at
            /\ \A b \in j.todo \ {a} : Target(k, b) \notin DOMAIN content'
        BY <2>1, <3>1, <3>2, <3>4, <3>5, <3>7 DEF Filled, i
      <3>9. ExportOk(p)'
        <4>1. CASE k.stage = "import"
          <5>1. k.todo = j.todo \ {a}
            BY <3>1, <4>1
          <5>2. \A b \in k.types : Target(k, b) \in indexes'
            BY <3>1, <3>2, <3>3, <3>7
          <5>3. QED
            BY <2>1, <3>1, <3>6, <3>8, <4>1, <5>1, <5>2 DEF ExportOk, Filled, Target
        <4>2. CASE k.stage = "refresh"
          <5>1. j.todo = {a} /\ k.todo = j.types
            BY <3>1, <4>2
          <5>2. \A b \in k.types : Target(k, b) \in DOMAIN content' /\ content'[Target(k, b)] = k.at
            BY <3>1, <3>8, <5>1
          <5>3. QED
            BY <3>1, <3>6, <4>2, <5>1, <5>2 DEF ExportOk, Filled, Target
        <4>3. QED
          BY <3>1, <4>1, <4>2
      <3>10. QED
        BY <1>5, <2>3, <3>4, <3>6, <3>9
    <2>6. QED
      BY <2>4, <2>5
  <1>9. CASE Refresh(p)
    <2>1. /\ j \in ExportJob /\ j.stage = "refresh"
          /\ HeldBy(j) = {} /\ j.stale = {} /\ j.todo = j.types
          /\ \A a \in j.types : Filled(j, a)
      BY <1>1, <1>2, <1>9 DEF Refresh, Exports, ExportOk
    <2>2. UNCHANGED <<indexes, behind, content, blocked>>
      BY <1>9 DEF Refresh
    <2>3. CASE Abort(p) /\ UNCHANGED searchable
      BY <1>3, <2>1, <2>2, <2>3
    <2>4. CASE /\ searchable' = searchable \cup Targets(j)
               /\ Continue(p, [j EXCEPT !.stage = "check"])
      <3> DEFINE k == [j EXCEPT !.stage = "check"]
      <3>1. /\ k.stage = "check" /\ k.types = j.types /\ k.todo = j.todo
            /\ k.at = j.at /\ k.stale = {}
            /\ Continue(p, k)
        BY <2>1, <2>4 DEF ExportJob
      <3> HIDE DEF k
      <3>2. job'[p] = k /\ BlocksHeld' /\ RenameOk(p)'
        BY <1>4, <2>1, <2>2, <3>1 DEF Exports
      <3>3. \A a : Target(k, a) = Target(j, a)
        BY <3>1 DEF Target
      <3>4. \A a \in j.types : Target(j, a) \in searchable'
        BY <2>4 DEF Targets
      <3>5. ExportOk(p)'
        BY <2>1, <2>2, <3>1, <3>2, <3>3, <3>4 DEF ExportOk, Filled, Target
      <3>6. Served'
        BY <1>1, <2>2, <2>4, ServedOn
      <3>7. QED
        BY <3>2, <3>5, <3>6
    <2>5. QED
      BY <1>9, <2>3, <2>4 DEF Refresh
  <1>10. CASE CheckBlocking(p)
    <2>1. /\ j \in ExportJob /\ j.stage = "check"
          /\ HeldBy(j) = {} /\ j.stale = {} /\ j.todo = j.types
          /\ \A a \in j.types : Filled(j, a) /\ Target(j, a) \in searchable
      BY <1>1, <1>2, <1>10 DEF CheckBlocking, Exports, ExportOk
    <2>2. UNCHANGED <<indexes, behind, content, searchable, blocked>>
      BY <1>10 DEF CheckBlocking, documents
    <2>3. CASE Abort(p)
      BY <1>3, <2>1, <2>2, <2>3
    <2>4. CASE Continue(p, [j EXCEPT !.stage = "read"])
      <3> DEFINE k == [j EXCEPT !.stage = "read"]
      <3>1. /\ k.stage = "read" /\ k.types = j.types /\ k.todo = j.todo
            /\ k.at = j.at /\ k.stale = {}
            /\ Continue(p, k)
        BY <2>1, <2>4 DEF ExportJob
      <3> HIDE DEF k
      <3>2. job'[p] = k /\ BlocksHeld' /\ RenameOk(p)'
        BY <1>4, <2>1, <2>2, <3>1 DEF Exports
      <3>3. \A a : Target(k, a) = Target(j, a)
        BY <3>1 DEF Target
      <3>4. ExportOk(p)'
        BY <2>1, <2>2, <3>1, <3>2, <3>3 DEF ExportOk, Filled, Target
      <3>5. QED
        BY <1>5, <2>2, <3>2, <3>4
    <2>5. QED
      BY <1>10, <2>3, <2>4 DEF CheckBlocking
  <1>11. CASE ReadAlias(p)
    <2>1. /\ j \in ExportJob /\ j.stage = "read"
          /\ HeldBy(j) = {} /\ j.stale = {} /\ j.todo \subseteq j.types
          /\ \A a \in j.types : Filled(j, a) /\ Target(j, a) \in searchable
          /\ \A a \in j.types \ j.todo : Superseded(j, a)
          /\ j.types \subseteq Aliases
      BY <1>1, <1>2, <1>11 DEF ReadAlias, Exports, ExportOk
    <2>2. PICK a \in j.todo :
            Continue(p, DoneWith([j EXCEPT !.old[a] = behind[a] \ {Target(j, a)}], a, "swap"))
      BY <1>11 DEF ReadAlias
    <2>3. UNCHANGED <<indexes, behind, content, searchable, blocked>>
      BY <1>11 DEF ReadAlias, documents
    <2> DEFINE m == [j EXCEPT !.old[a] = behind[a] \ {Target(j, a)}]
    <2>4. /\ m \in ExportJob /\ m.types = j.types /\ m.at = j.at /\ m.stale = {} /\ m.todo = j.todo
          /\ m.stage = "read" /\ m.old[a] = behind[a] \ {Target(j, a)}
          /\ \A b \in j.types \ {a} : m.old[b] = j.old[b]
      BY <1>1, <2>1 DEF ExportJob, TypeOK
    <2> HIDE DEF m
    <2> DEFINE k == DoneWith(m, a, "swap")
    <2>5. /\ k.types = j.types /\ k.at = j.at /\ k.old = m.old /\ k.stale = {}
          /\ \/ j.todo = {a} /\ k.stage = "swap" /\ k.todo = j.types
             \/ j.todo # {a} /\ k.stage = "read" /\ k.todo = j.todo \ {a}
      BY <2>4, AliasDone DEF Exports
    <2>6. Continue(p, k)
      BY <2>2 DEF m
    <2> HIDE DEF k
    <2>7. job'[p] = k /\ BlocksHeld' /\ RenameOk(p)'
      BY <1>4, <2>1, <2>3, <2>5, <2>6 DEF Exports
    <2>8. \A b : Target(k, b) = Target(j, b)
      BY <2>5 DEF Target
    <2>9. \A b \in (j.types \ j.todo) \cup {a} : k.old[b] = behind'[b] \ {Target(k, b)}
      BY <2>1, <2>3, <2>4, <2>5, <2>8 DEF Superseded
    <2>10. \A b \in k.types : /\ Target(k, b) \in DOMAIN content' /\ content'[Target(k, b)] = k.at
                              /\ Target(k, b) \in searchable'
      BY <2>1, <2>3, <2>5, <2>8 DEF Filled
    <2>11. ExportOk(p)'
      <3>1. CASE k.stage = "read"
        <4>1. k.todo = j.todo \ {a}
          BY <2>5, <3>1
        <4>2. QED
          BY <2>1, <2>5, <2>7, <2>9, <2>10, <3>1, <4>1 DEF ExportOk, Filled, Superseded, Target
      <3>2. CASE k.stage = "swap"
        <4>1. j.todo = {a} /\ k.todo = j.types
          BY <2>5, <3>2
        <4>2. \A b \in k.types : k.old[b] = behind'[b] \ {Target(k, b)}
          BY <2>5, <2>9, <4>1
        <4>3. QED
          BY <2>5, <2>7, <2>10, <3>2, <4>1, <4>2 DEF ExportOk, Filled, Superseded, Target
      <3>3. QED
        BY <2>5, <3>1, <3>2
    <2>12. QED
      BY <1>5, <2>3, <2>7, <2>11
  <1>12. CASE SwapAliases(p)
    <2>1. /\ j \in ExportJob /\ j.stage = "swap"
          /\ HeldBy(j) = {} /\ j.stale = {} /\ j.todo \subseteq j.types
          /\ \A a \in j.types : /\ Filled(j, a) /\ Target(j, a) \in searchable
                                /\ Superseded(j, a)
          /\ j.types \subseteq Aliases /\ \A a \in Aliases : Target(j, a).of = a
      BY <1>1, <1>2, <1>12 DEF SwapAliases, Exports, ExportOk
    <2>2. UNCHANGED <<indexes, content, searchable, blocked>>
      BY <1>12 DEF SwapAliases, documents
    <2>3. CASE Abort(p) /\ UNCHANGED behind
      BY <1>3, <2>1, <2>2, <2>3
    <2>4. CASE /\ behind' = [a \in Aliases |->
                     IF a \in j.types THEN (behind[a] \ j.old[a]) \cup {Target(j, a)}
                     ELSE behind[a]]
               /\ Continue(p, [j EXCEPT !.stage = "prune"])
      <3>1. /\ \A a \in j.types : behind'[a] = {Target(j, a)}
            /\ \A a \in Aliases \ j.types : behind'[a] = behind[a]
        BY <2>1, <2>4 DEF Superseded
      <3> DEFINE k == [j EXCEPT !.stage = "prune"]
      <3>2. /\ k.stage = "prune" /\ k.types = j.types /\ k.todo = j.todo
            /\ k.at = j.at /\ k.stale = {}
            /\ Continue(p, k)
        BY <2>1, <2>4 DEF ExportJob
      <3> HIDE DEF k
      <3>3. job'[p] = k /\ BlocksHeld' /\ RenameOk(p)'
        BY <1>4, <2>1, <2>2, <3>2 DEF Exports
      <3>4. \A a : Target(k, a) = Target(j, a)
        BY <3>2 DEF Target
      <3>5. Served'
        BY <1>1, <2>1, <2>2, <3>1
           DEF Served, OneGeneration, ServesComplete, Complete, Filled
      <3>7. ExportOk(p)'
        BY <2>1, <2>2, <3>1, <3>2, <3>3, <3>4 DEF ExportOk, Filled, Target
      <3>8. QED
        BY <3>3, <3>5, <3>7
    <2>5. QED
      BY <1>12, <2>3, <2>4 DEF SwapAliases
  <1>13. CASE ListStale(p)
    <2>1. /\ j \in ExportJob /\ j.stage = "prune"
          /\ HeldBy(j) = {} /\ j.todo \subseteq j.types
          /\ \A a \in j.types : /\ Filled(j, a) /\ Target(j, a) \in searchable
                                /\ behind[a] = {Target(j, a)}
      BY <1>1, <1>2, <1>13 DEF ListStale, Exports, ExportOk
    <2>2. UNCHANGED <<indexes, behind, content, searchable, blocked>>
      BY <1>13 DEF ListStale, documents
    <2>3. CASE Stop(p)
      <3>1. job'[p].stage = "end" /\ stopped' = stopped
        BY <1>1, <2>3, Continued DEF Stop, Idle
      <3>2. QED
        BY <1>1, <1>5, <2>1, <2>2, <3>1, NoJob, NoneBlocked
    <2>4. CASE \E a \in j.todo :
                 Continue(p, [j EXCEPT !.todo = @ \ {a}, !.stale = Stale(j, a)])
      <3>1. PICK a \in j.todo :
                 Continue(p, [j EXCEPT !.todo = @ \ {a}, !.stale = Stale(j, a)])
        BY <2>4
      <3>2. \A i \in Stale(j, a) : i.of = a /\ i # Target(j, a)
        BY DEF Stale, IsGenerationOf
      <3> DEFINE k == [j EXCEPT !.todo = @ \ {a}, !.stale = Stale(j, a)]
      <3>3. /\ k.stage = "prune" /\ k.types = j.types /\ k.todo = j.todo \ {a} /\ k.at = j.at
            /\ k.stale = Stale(j, a) /\ Continue(p, k)
        BY <2>1, <3>1 DEF ExportJob
      <3> HIDE DEF k
      <3>4. job'[p] = k /\ BlocksHeld' /\ RenameOk(p)'
        BY <1>4, <2>1, <2>2, <3>3 DEF Exports
      <3>5. \A b : Target(k, b) = Target(j, b)
        BY <3>3 DEF Target
      <3>6. ExportOk(p)'
        BY <2>1, <2>2, <3>2, <3>3, <3>4, <3>5 DEF ExportOk, Filled, Target
      <3>7. QED
        BY <1>5, <2>2, <3>4, <3>6
    <2>5. QED
      BY <1>13, <2>3, <2>4 DEF ListStale
  <1>14. CASE DeleteStale(p)
    <2>1. /\ j \in ExportJob /\ j.stage = "prune"
          /\ HeldBy(j) = {} /\ j.todo \subseteq j.types
          /\ \A a \in j.types : /\ Filled(j, a) /\ Target(j, a) \in searchable
                                /\ behind[a] = {Target(j, a)}
          /\ \A i \in j.stale : i.of \in j.types /\ i # Target(j, i.of)
          /\ j.types \subseteq Aliases /\ \A a \in Aliases : Target(j, a).of = a
      BY <1>1, <1>2, <1>14 DEF DeleteStale, Exports, ExportOk
    <2>2. PICK i \in j.stale :
            IF i \in indexes
            THEN Forget(i) /\ Continue(p, [j EXCEPT !.stale = @ \ {i}])
            ELSE Abort(p) /\ UNCHANGED <<indexes, behind, documents, blocked>>
      BY <1>14 DEF DeleteStale
    <2>3. CASE Abort(p) /\ UNCHANGED <<indexes, behind, documents, blocked>>
      BY <1>3, <2>1, <2>3 DEF documents
    <2>4. CASE Forget(i) /\ Continue(p, [j EXCEPT !.stale = @ \ {i}])
      <3>1. /\ \A a \in Aliases : behind'[a] = behind[a] \ {i}
            /\ DOMAIN content' = DOMAIN content \ {i} /\ searchable' = searchable \ {i}
            /\ \A x \in DOMAIN content \ {i} : content'[x] = content[x]
            /\ blocked' \subseteq blocked
        BY <2>4 DEF Forget
      <3>2. \A a \in j.types : Target(j, a) # i
        BY <2>1
      <3> DEFINE k == [j EXCEPT !.stale = @ \ {i}]
      <3>3. /\ k.stage = "prune" /\ k.types = j.types /\ k.todo = j.todo /\ k.at = j.at
            /\ k.stale = j.stale \ {i} /\ Continue(p, k)
        BY <2>1, <2>4 DEF ExportJob
      <3> HIDE DEF k
      <3>4. job'[p] = k /\ BlocksHeld' /\ RenameOk(p)'
        BY <1>4, <2>1, <3>1, <3>3 DEF Exports
      <3>5. \A b : Target(k, b) = Target(j, b)
        BY <3>3 DEF Target
      <3>6. \A a \in k.types : /\ Target(k, a) \in DOMAIN content'
                               /\ content'[Target(k, a)] = k.at
                               /\ Target(k, a) \in searchable' /\ behind'[a] = {Target(k, a)}
        BY <2>1, <3>1, <3>2, <3>3, <3>5 DEF Filled
      <3>7. ExportOk(p)'
        BY <2>1, <3>3, <3>4, <3>5, <3>6 DEF ExportOk, Filled, Target
      <3>8. Served'
        BY <1>1, <3>1, ServedOn
      <3>9. QED
        BY <3>4, <3>7, <3>8
    <2>5. QED
      BY <2>2, <2>3, <2>4
  <1>15. QED
    BY <1>6, <1>7, <1>8, <1>9, <1>10, <1>11, <1>12, <1>13, <1>14 DEF Export

\* The blocks of a rename go on with it.
LEMMA HeldNow ==
  ASSUME OneCommand, BlocksHeld, NEW p \in Procs, stopped' = stopped,
         blocked \subseteq HeldBy(job[p]) => blocked' \subseteq HeldBy(job[p])'
  PROVE  BlocksHeld'
  <1>1. stopped = 0 => blocked \subseteq HeldBy(job[p])
    BY DEF OneCommand, BlocksHeld
  <1>2. QED
    BY <1>1 DEF BlocksHeld

LEMMA RenameServes ==
  ASSUME OneCommand, Inv, NEW p \in Procs, Rename(p)
  PROVE  Served' /\ BlocksHeld' /\ ExportOk(p)' /\ RenameOk(p)'
  <1> DEFINE j == job[p]
             s == j.source
             t == j.target
             Pending == {"block", "clone", "unblock_target", "unblock_source", "delete_source"}
             Cloned == {"unblock_target", "unblock_source", "delete_source"}
  <1>1. TypeOK /\ Served /\ BlocksHeld /\ RenameOk(p)
    BY DEF Inv
  <1>2. ASSUME NEW stage \in Renames, At(p, stage)
        PROVE  /\ j \in RenameJob /\ j.stage = stage /\ s.of = t.of
               /\ (stage \in Pending => j.aliases = {a \in Aliases : s \in behind[a]})
               /\ (stage \in Cloned => s # t /\ {s, t} \subseteq indexes /\ SameDocuments(s, t))
               /\ j.aliases \subseteq Aliases
    <2>1. j \in RenameJob /\ j.stage = stage
      BY <1>1, <1>2, KindOfJob DEF At
    <2>2. QED
      BY <1>1, <2>1 DEF RenameOk, RenameJob
  <1>3. ASSUME Abort(p), UNCHANGED <<behind, content, searchable>>
        PROVE  Served' /\ BlocksHeld' /\ ExportOk(p)' /\ RenameOk(p)'
    <2>1. job'[p].stage = "end" /\ stopped' # 0
      BY <1>1, <1>3, Aborted
    <2>2. Served'
      BY <1>1, <1>3, ServedOn
    <2>3. QED
      BY <2>1, <2>2, NoJob DEF BlocksHeld
  <1>4. ASSUME NEW next \in Renames, Continue(p, [j EXCEPT !.stage = next]), j \in RenameJob
        PROVE  /\ job'[p].stage = next /\ job'[p].source = s /\ job'[p].target = t
               /\ job'[p].aliases = j.aliases /\ job'[p].keep_source = j.keep_source
               /\ stopped' = stopped /\ ExportOk(p)'
    <2> DEFINE k == [j EXCEPT !.stage = next]
    <2>1. /\ k.stage = next /\ k.source = s /\ k.target = t /\ k.aliases = j.aliases
          /\ k.keep_source = j.keep_source
      BY <1>4 DEF RenameJob
    <2> HIDE DEF k
    <2>2. job'[p] = k /\ stopped' = stopped
      BY <1>1, <1>4, Continued DEF k
    <2>3. ExportOk(p)'
      BY <1>4, <2>1, <2>2, NoExport
    <2>4. QED
      BY <2>1, <2>2, <2>3
  <1>5. ASSUME UNCHANGED <<behind, content, searchable>>
        PROVE  Served'
    BY <1>1, <1>5, ServedOn
  <1>6. CASE BeginRename(p)
    <2>1. PICK i \in indexes, x \in {Plain(a) : a \in Aliases} \cup {Copy(a) : a \in Aliases},
               keep \in BOOLEAN :
            /\ i.of = x.of
            /\ Begin(p, [stage |-> "block", source |-> i, target |-> x, keep_source |-> keep,
                         aliases |-> {a \in Aliases : i \in behind[a]}])
      BY <1>6 DEF BeginRename
    <2>2. UNCHANGED <<indexes, behind, content, searchable, blocked>> /\ HeldBy(j) = {}
      BY <1>6, <2>1 DEF BeginRename, documents, HeldBy, Begin, Idle
    <2>3. /\ job'[p] = [stage |-> "block", source |-> i, target |-> x, keep_source |-> keep,
                        aliases |-> {a \in Aliases : i \in behind[a]}]
          /\ stopped' = stopped
      BY <1>1, <2>1, Continued DEF Begin
    <2>4. BlocksHeld'
      BY <1>1, <2>2, <2>3, NoneBlocked
    <2>5. ExportOk(p)'
      BY <2>3, NoExport DEF Renames
    <2>6. RenameOk(p)'
      BY <2>1, <2>2, <2>3 DEF RenameOk
    <2>7. QED
      BY <1>5, <2>2, <2>4, <2>5, <2>6
  <1>7. CASE BlockSource(p)
    <2>1. /\ j \in RenameJob /\ j.stage = "block" /\ s.of = t.of
          /\ j.aliases = {a \in Aliases : s \in behind[a]}
      BY <1>2, <1>7 DEF BlockSource, Renames
    <2>2. UNCHANGED <<indexes, behind, content, searchable>>
      BY <1>7 DEF BlockSource, documents
    <2>3. CASE Abort(p)
      BY <1>3, <2>2, <2>3
    <2>4. CASE blocked' = blocked \cup {s} /\ Continue(p, [j EXCEPT !.stage = "clone"])
      <3>1. /\ job'[p].stage = "clone" /\ job'[p].source = s /\ job'[p].target = t
            /\ job'[p].aliases = j.aliases /\ stopped' = stopped /\ ExportOk(p)'
        BY <1>4, <2>1, <2>4 DEF Renames
      <3>2. BlocksHeld'
        BY <1>1, <2>1, <2>4, <3>1, HeldNow DEF HeldBy
      <3>3. RenameOk(p)'
        BY <2>1, <2>2, <3>1 DEF RenameOk
      <3>4. QED
        BY <1>5, <2>2, <3>1, <3>2, <3>3
    <2>5. QED
      BY <1>7, <2>3, <2>4 DEF BlockSource
  <1>8. CASE CloneIndex(p)
    <2>1. /\ j \in RenameJob /\ j.stage = "clone" /\ s.of = t.of
          /\ j.aliases = {a \in Aliases : s \in behind[a]}
      BY <1>2, <1>8 DEF CloneIndex, Renames
    <2>2. /\ s \in blocked /\ t \notin indexes
          /\ indexes' = indexes \cup {t} /\ blocked' = blocked \cup {t}
          /\ content' = IF s \in DOMAIN content
                  THEN [i \in DOMAIN content \cup {t} |-> IF i = t THEN content[s] ELSE content[i]]
                  ELSE content
          /\ searchable' = IF s \in searchable THEN searchable \cup {t} ELSE searchable
          /\ behind' = behind /\ Continue(p, [j EXCEPT !.stage = "unblock_target"])
      BY <1>8 DEF CloneIndex
    <2>3. /\ job'[p].stage = "unblock_target" /\ job'[p].source = s /\ job'[p].target = t
          /\ job'[p].aliases = j.aliases /\ stopped' = stopped /\ ExportOk(p)'
      BY <1>4, <2>1, <2>2 DEF Renames
    <2> HIDE DEF s, t
    <2>4. s # t /\ {s, t} \subseteq indexes'
      BY <1>1, <2>2 DEF TypeOK
    <2>5. /\ s \in DOMAIN content' => t \in DOMAIN content' /\ content'[t] = content'[s]
          /\ s \in searchable' => t \in searchable'
      BY <2>2, <2>4
    <2>6. BlocksHeld'
      <3>1. blocked \subseteq HeldBy(job[p]) => blocked' \subseteq HeldBy(job[p])'
        BY <2>1, <2>2, <2>3 DEF HeldBy, s, t
      <3>2. QED
        BY <1>1, <2>3, <3>1, HeldNow
    <2>7. RenameOk(p)'
      BY <2>1, <2>2, <2>3, <2>4, <2>5 DEF RenameOk, SameDocuments
    <2>8. Served'
      BY <1>1, <2>2, ServedOn
    <2>9. QED
      BY <2>3, <2>6, <2>7, <2>8
  <1>9. CASE CloneFails(p)
    <2>1. j \in RenameJob /\ j.stage = "clone" /\ s.of = t.of
      BY <1>2, <1>9 DEF CloneFails, Renames
    <2>2. /\ UNCHANGED <<indexes, behind, content, searchable, blocked>>
          /\ Continue(p, [j EXCEPT !.stage = "restore"])
      BY <1>9 DEF CloneFails, documents
    <2>3. /\ job'[p].stage = "restore" /\ job'[p].source = s /\ job'[p].target = t
          /\ stopped' = stopped /\ ExportOk(p)'
      BY <1>4, <2>1, <2>2 DEF Renames
    <2>4. BlocksHeld'
      BY <1>1, <2>1, <2>2, <2>3, HeldNow DEF HeldBy
    <2>5. RenameOk(p)'
      BY <2>1, <2>3 DEF RenameOk
    <2>6. QED
      BY <1>5, <2>2, <2>3, <2>4, <2>5
  <1>10. CASE RestoreSource(p)
    <2>1. j \in RenameJob /\ j.stage = "restore"
      BY <1>2, <1>10 DEF RestoreSource, Unblock, Renames
    <2>2. /\ UNCHANGED <<behind, content, searchable>> /\ blocked' = blocked \ {s}
          /\ Continue(p, Idle)
      BY <1>10 DEF RestoreSource, Unblock, documents
    <2>3. job'[p].stage = "end" /\ stopped' = stopped
      BY <1>1, <2>2, Continued DEF Idle
    <2>4. BlocksHeld'
      BY <1>1, <2>1, <2>2, <2>3, HeldNow DEF HeldBy
    <2>5. QED
      BY <1>5, <2>2, <2>3, <2>4, NoJob
  <1>11. CASE UnblockTarget(p)
    <2> DEFINE next == IF j.keep_source THEN "unblock_source" ELSE "delete_source"
    <2>1. /\ j \in RenameJob /\ j.stage = "unblock_target" /\ s.of = t.of
          /\ j.aliases = {a \in Aliases : s \in behind[a]}
          /\ s # t /\ {s, t} \subseteq indexes /\ SameDocuments(s, t)
      BY <1>2, <1>11 DEF UnblockTarget, Unblock, Renames
    <2>2. /\ UNCHANGED <<indexes, behind, content, searchable>> /\ blocked' = blocked \ {t}
          /\ Continue(p, [j EXCEPT !.stage = next])
      BY <1>11 DEF UnblockTarget, Unblock, documents
    <2>3. /\ job'[p].stage = next /\ job'[p].source = s /\ job'[p].target = t
          /\ job'[p].aliases = j.aliases /\ job'[p].keep_source = j.keep_source
          /\ stopped' = stopped /\ ExportOk(p)'
      BY <1>4, <2>1, <2>2 DEF Renames
    <2>4. BlocksHeld'
      BY <1>1, <2>1, <2>2, <2>3, HeldNow DEF HeldBy
    <2>5. RenameOk(p)'
      BY <2>1, <2>2, <2>3 DEF RenameOk, SameDocuments
    <2>6. QED
      BY <1>5, <2>2, <2>3, <2>4, <2>5
  <1>12. ASSUME j.stage \in Cloned, s.of = t.of, OneGeneration, ServesComplete,
                j.aliases = {a \in Aliases : s \in behind[a]}, SameDocuments(s, t)
         PROVE  \A a \in j.aliases : /\ a = t.of /\ behind[a] = {s} /\ {s, t} \subseteq Complete
                                     /\ content[t] = content[s]
    BY <1>12 DEF OneGeneration, ServesComplete, Complete, SameDocuments
  <1>13. CASE UnblockSource(p)
    <2>1. /\ j \in RenameJob /\ j.stage = "unblock_source" /\ s.of = t.of
          /\ j.aliases = {a \in Aliases : s \in behind[a]}
          /\ s # t /\ {s, t} \subseteq indexes /\ SameDocuments(s, t)
      BY <1>2, <1>13 DEF UnblockSource, Unblock, Renames
    <2>2. /\ UNCHANGED <<indexes, behind, content, searchable>> /\ blocked' = blocked \ {s}
          /\ Continue(p, [j EXCEPT !.stage = "move"])
      BY <1>13 DEF UnblockSource, Unblock, documents
    <2>3. /\ job'[p].stage = "move" /\ job'[p].source = s /\ job'[p].target = t
          /\ job'[p].aliases = j.aliases /\ job'[p].keep_source = j.keep_source
          /\ stopped' = stopped /\ ExportOk(p)'
      BY <1>4, <2>1, <2>2 DEF Renames
    <2>4. BlocksHeld'
      BY <1>1, <2>1, <2>2, <2>3, HeldNow DEF HeldBy
    <2>5. \A a \in j.aliases : /\ a = t.of /\ behind[a] = {s} /\ {s, t} \subseteq Complete
                               /\ content[t] = content[s]
      BY <1>1, <1>12, <2>1 DEF Served
    <2>6. RenameOk(p)'
      BY <2>1, <2>2, <2>3, <2>5 DEF RenameOk, Complete
    <2>7. QED
      BY <1>5, <2>2, <2>3, <2>4, <2>6
  <1>14. CASE DeleteSource(p)
    <2>1. /\ j \in RenameJob /\ j.stage = "delete_source" /\ s.of = t.of
          /\ j.aliases = {a \in Aliases : s \in behind[a]} /\ j.aliases \subseteq Aliases
          /\ s # t /\ {s, t} \subseteq indexes /\ SameDocuments(s, t)
      BY <1>2, <1>14 DEF DeleteSource, Renames
    <2>2. Forget(s) /\ Continue(p, [j EXCEPT !.stage = "move"])
      BY <1>14, <2>1 DEF DeleteSource
    <2>3. /\ \A a \in Aliases : behind'[a] = behind[a] \ {s}
          /\ DOMAIN content' = DOMAIN content \ {s} /\ searchable' = searchable \ {s}
          /\ indexes' = indexes \ {s} /\ blocked' = blocked \ {s}
      BY <2>2 DEF Forget
    <2>4. /\ job'[p].stage = "move" /\ job'[p].source = s /\ job'[p].target = t
          /\ job'[p].aliases = j.aliases /\ job'[p].keep_source = j.keep_source
          /\ stopped' = stopped /\ ExportOk(p)'
      BY <1>4, <2>1, <2>2 DEF Renames
    <2>5. BlocksHeld'
      BY <1>1, <2>1, <2>3, <2>4, HeldNow DEF HeldBy
    <2>6. \A a \in j.aliases : a = t.of /\ behind[a] = {s} /\ {s, t} \subseteq Complete
      BY <1>1, <1>12, <2>1 DEF Served
    <2>7. ~ j.keep_source
      BY <1>1, <2>1 DEF RenameOk
    <2>8. RenameOk(p)'
      BY <2>1, <2>3, <2>4, <2>6, <2>7 DEF RenameOk, Complete
    <2>9. Served'
      BY <1>1, <2>3, ServedOn
    <2>10. QED
      BY <2>4, <2>5, <2>8, <2>9
  <1>15. CASE MoveAliases(p)
    <2>1. j.stage = "move" /\ j.aliases \subseteq Aliases
      BY <1>2, <1>15 DEF MoveAliases, Renames
    <2>2. /\ t \in indexes /\ (j.keep_source => s \in indexes)
          /\ \A a \in j.aliases : a = t.of /\ behind[a] \subseteq {s} /\ t \in Complete
      BY <1>1, <2>1 DEF RenameOk
    <2>3. /\ behind' = [a \in Aliases |-> IF a \in j.aliases THEN (behind[a] \ {s}) \cup {t}
                                          ELSE behind[a]]
          /\ UNCHANGED <<content, searchable, blocked>> /\ Continue(p, Idle)
      BY <1>15, <2>2 DEF MoveAliases, documents, Stop
    <2>4. /\ \A a \in j.aliases : behind'[a] = {t}
          /\ \A a \in Aliases \ j.aliases : behind'[a] = behind[a]
      BY <2>1, <2>2, <2>3
    <2>5. Served'
      BY <1>1, <2>2, <2>3, <2>4 DEF Served, OneGeneration, ServesComplete, Complete
    <2>6. job'[p].stage = "end" /\ stopped' = stopped /\ HeldBy(j) = {}
      BY <1>1, <2>1, <2>3, Continued DEF Idle, HeldBy
    <2>7. BlocksHeld'
      BY <1>1, <2>3, <2>6, NoneBlocked
    <2>8. QED
      BY <2>5, <2>6, <2>7, NoJob
  <1>16. QED
    BY <1>6, <1>7, <1>8, <1>9, <1>10, <1>11, <1>13, <1>14, <1>15 DEF Rename

LEMMA OtherServes ==
  ASSUME OneCommand, Inv, NEW p \in Procs, BeginDelete(p) \/ DeleteIndex(p) \/ Fail(p)
  PROVE  Served' /\ BlocksHeld' /\ ExportOk(p)' /\ RenameOk(p)'
  <1> DEFINE j == job[p]
  <1>1. TypeOK /\ Served /\ BlocksHeld
    BY DEF Inv
  <1>2. ASSUME Abort(p), UNCHANGED <<behind, documents>>
        PROVE  Served' /\ BlocksHeld' /\ ExportOk(p)' /\ RenameOk(p)'
    <2>1. job'[p].stage = "end" /\ stopped' # 0
      BY <1>1, <1>2, Aborted
    <2>2. Served'
      BY <1>1, <1>2, ServedOn DEF documents
    <2>3. QED
      BY <2>1, <2>2, NoJob DEF BlocksHeld
  <1>3. CASE BeginDelete(p)
    <2>1. PICK doomed : Begin(p, [stage |-> "delete", doomed |-> doomed])
      BY <1>3 DEF BeginDelete
    <2>2. UNCHANGED <<behind, content, searchable, blocked>> /\ HeldBy(j) = {}
      BY <1>3, <2>1 DEF BeginDelete, documents, HeldBy, Begin, Idle
    <2>3. job'[p].stage = "delete" /\ stopped' = stopped
      BY <1>1, <2>1, Continued DEF Begin
    <2>4. Served'
      BY <1>1, <2>2, ServedOn
    <2>5. QED
      BY <1>1, <2>2, <2>3, <2>4, NoJob, NoneBlocked
  <1>4. CASE DeleteIndex(p)
    <2>1. j \in DeleteJob /\ j.stage = "delete" /\ HeldBy(j) = {}
      BY <1>1, <1>4, KindOfJob DEF DeleteIndex, At, HeldBy
    <2>2. PICK i \in j.doomed :
            IF i \in indexes
            THEN /\ Forget(i)
                 /\ IF j.doomed = {i} THEN Stop(p)
                    ELSE Continue(p, [j EXCEPT !.doomed = @ \ {i}])
            ELSE Abort(p) /\ UNCHANGED <<indexes, behind, documents, blocked>>
      BY <1>4 DEF DeleteIndex
    <2>3. CASE Abort(p) /\ UNCHANGED <<indexes, behind, documents, blocked>>
      BY <1>2, <2>3
    <2>4. CASE Forget(i) /\ (Stop(p) \/ Continue(p, [j EXCEPT !.doomed = @ \ {i}]))
      <3> DEFINE k == [j EXCEPT !.doomed = @ \ {i}]
      <3>1. k.stage = "delete" /\ (Continue(p, Idle) \/ Continue(p, k))
        BY <2>1, <2>4 DEF DeleteJob, Stop
      <3> HIDE DEF k
      <3>2. job'[p].stage \in {"end", "delete"} /\ stopped' = stopped
        BY <1>1, <3>1, Continued DEF Idle
      <3>3. Served' /\ blocked' \subseteq blocked
        <4>1. /\ \A a \in Aliases : behind'[a] = behind[a] \ {i}
              /\ DOMAIN content' = DOMAIN content \ {i} /\ searchable' = searchable \ {i}
              /\ blocked' \subseteq blocked
          BY <2>4 DEF Forget
        <4>2. QED
          BY <1>1, <4>1, ServedOn
      <3>4. QED
        BY <1>1, <2>1, <3>2, <3>3, NoJob, NoneBlocked
    <2>5. QED
      BY <2>2, <2>3, <2>4
  <1>5. CASE Fail(p)
    BY <1>2, <1>5 DEF Fail
  <1>6. QED
    BY <1>3, <1>4, <1>5

LEMMA NextKeepsInv ==
  ASSUME OneCommand, Inv, [Next]_vars
  PROVE  Inv'
  <1>1. CASE UNCHANGED vars
    <2>1. UNCHANGED <<indexes, behind, content, searchable, blocked, job, stopped>>
      BY <1>1 DEF vars, documents
    <2>2. \A p \in Procs : ExportOk(p) <=> ExportOk(p)'
      BY <2>1 DEF ExportOk, Filled, Superseded, Target
    <2>3. \A p \in Procs : RenameOk(p) <=> RenameOk(p)'
      BY <2>1 DEF RenameOk, SameDocuments, Complete
    <2>4. Served' /\ BlocksHeld'
      BY <2>1 DEF Inv, Served, OneGeneration, ServesComplete, Complete, BlocksHeld
    <2>5. QED
      BY <2>2, <2>3, <2>4, NextKeepsTypeOK DEF Inv
  <1>2. CASE Next
    <2>1. PICK p \in Procs : Export(p) \/ Rename(p) \/ BeginDelete(p) \/ DeleteIndex(p) \/ Fail(p)
      BY <1>2 DEF Next
    <2>2. Served' /\ BlocksHeld' /\ ExportOk(p)' /\ RenameOk(p)'
      BY <2>1, ExportServes, RenameServes, OtherServes
    <2>3. \A q \in Procs : q = p
      BY DEF OneCommand
    <2>4. TypeOK'
      BY NextKeepsTypeOK DEF Inv
    <2>5. QED
      BY <2>2, <2>3, <2>4 DEF Inv
  <1>3. QED
    BY <1>1, <1>2

LEMMA InvHolds ==
  ASSUME OneCommand
  PROVE  Spec => []Inv
  BY InitInv, NextKeepsInv, PTL DEF Spec

-----------------------------------------------------------------------------
\* SwapAliases and MoveAliases leave an alias on one index, and nothing else adds any.
THEOREM OneGenerationServes ==
  ASSUME OneCommand
  PROVE  Spec => []OneGeneration
  <1>1. Inv => OneGeneration
    BY DEF Inv, Served
  <1>2. QED
    BY <1>1, InvHolds, PTL

\* What a search finds behind an alias was filled and refreshed by an export that came that
\* far, wherever this or a later command stops.
THEOREM CompleteServes ==
  ASSUME OneCommand
  PROVE  Spec => []ServesComplete
  <1>1. Inv => ServesComplete
    BY DEF Inv, Served
  <1>2. QED
    BY <1>1, InvHolds, PTL

\* The rename makes its source and its copy writable again, be the source kept or not, and
\* when the clone fails.
THEOREM WritableAgain ==
  ASSUME OneCommand
  PROVE  Spec => []NothingLeftBlocked
  <1>1. Inv => NothingLeftBlocked
    BY DEF Inv, BlocksHeld, NothingLeftBlocked, Quiescent, HeldBy, Idle
  <1>2. QED
    BY <1>1, InvHolds, PTL

\* Only deleting an index takes the last one from an alias: pruning spares what the aliases
\* were moved to.
THEOREM AliasesStay ==
  ASSUME OneCommand
  PROVE  Spec => NeverMissing
  <1>1. ASSUME Inv, [Next]_vars
        PROVE  [\A a \in Aliases : behind[a] # {} /\ behind'[a] = {} =>
                  \E p \in Procs : At(p, "delete") \/ At(p, "delete_source")]_vars
    <2> SUFFICES ASSUME Next, NEW a \in Aliases, behind[a] # {}, behind'[a] = {}
                 PROVE  \E p \in Procs : At(p, "delete") \/ At(p, "delete_source")
      BY <1>1
    <2>1. PICK p \in Procs :
            SwapAliases(p) \/ DeleteStale(p) \/ MoveAliases(p) \/ DeleteSource(p) \/ DeleteIndex(p)
      BY DEF Next, Export, Rename, BeginExport, CreateIndex, ImportDocuments, Refresh,
             CheckBlocking, ReadAlias, ListStale, BeginRename, BlockSource, CloneIndex,
             CloneFails, RestoreSource, UnblockTarget, UnblockSource, Unblock, BeginDelete, Fail
    <2>2. CASE SwapAliases(p)
      BY <2>2 DEF SwapAliases
    <2>3. CASE MoveAliases(p)
      BY <2>3 DEF MoveAliases
    <2>4. CASE DeleteStale(p)
      <3>1. PICK i \in job[p].stale :
              behind'[a] = behind[a] \/ behind'[a] = behind[a] \ {i}
        BY <2>4 DEF DeleteStale, Forget
      <3>2. behind[a] = {i}
        BY <3>1
      <3>3. i.of = a
        BY <1>1, <3>2 DEF Inv, Served, ServesComplete
      <3>4. /\ i.of \in job[p].types /\ i # Target(job[p], i.of)
            /\ \A b \in job[p].types : behind[b] = {Target(job[p], b)}
        BY <1>1, <2>4 DEF Inv, ExportOk, DeleteStale, At, Exports
      <3>5. QED
        BY <3>2, <3>3, <3>4
    <2>5. QED
      BY <2>1, <2>2, <2>3, <2>4 DEF DeleteSource, DeleteIndex
  <1>2. QED
    BY <1>1, InvHolds, PTL DEF Spec, NeverMissing

\* At the end of a rename the aliases of its source resolve to the new name alone.
THEOREM RenamesCarryOver ==
  ASSUME OneCommand
  PROVE  Spec => RenameCarriesOver
  <1>1. ASSUME Inv, [Next]_vars
        PROVE  [\A p \in Procs : At(p, "move") /\ job'[p] = Idle /\ stopped' = 0 =>
                  \A a \in job[p].aliases : behind'[a] = {job[p].target}]_vars
    <2> SUFFICES ASSUME Next, NEW p \in Procs, At(p, "move"), stopped' = 0
                 PROVE  \A a \in job[p].aliases : behind'[a] = {job[p].target}
      BY <1>1
    <2>1. \A q \in Procs : q = p
      BY DEF OneCommand
    <2>2. MoveAliases(p)
      <3>1. TypeOK /\ ~ Fail(p) /\ job[p] # Idle
        BY <1>1 DEF Inv, TypeOK, Fail, Abort, At, Idle
      <3>2. QED
        BY <2>1, <3>1
           DEF Next, Export, Rename, BeginExport, CreateIndex, ImportDocuments, Refresh,
               CheckBlocking, ReadAlias, SwapAliases, ListStale, DeleteStale, BeginRename,
               BlockSource, CloneIndex, CloneFails, RestoreSource, UnblockTarget, UnblockSource,
               Unblock, DeleteSource, BeginDelete, DeleteIndex, Begin, At
    <2>3. job[p] \in RenameJob
      BY <1>1, KindOfJob DEF Inv, At, Renames
    <2>4. /\ job[p].target \in indexes /\ (job[p].keep_source => job[p].source \in indexes)
          /\ \A a \in job[p].aliases : a \in Aliases /\ behind[a] \subseteq {job[p].source}
      BY <1>1, <2>3 DEF Inv, RenameOk, At, RenameJob
    <2>5. QED
      BY <2>2, <2>4 DEF MoveAliases
  <1>2. QED
    BY <1>1, InvHolds, PTL DEF Spec, RenameCarriesOver

\* Two aliases that show the same export go on showing the same one, unless a run that leaves
\* one of them out moves the other.
THEOREM ExportsStayTogether ==
  ASSUME OneCommand
  PROVE  Spec => NeverMixes
  <1> DEFINE Kept(a) == \A i \in behind'[a] :
                           i \in behind[a] /\ i \in DOMAIN content' /\ content'[i] = content[i]
  <1>1. ASSUME Inv, NEW p \in Procs,
               Export(p) \/ Rename(p) \/ BeginDelete(p) \/ DeleteIndex(p) \/ Fail(p)
        PROVE  SwapAliases(p) \/ MoveAliases(p) \/ \A a \in Aliases : Kept(a)
    <2>1. \A a \in Aliases : \A i \in behind[a] : i \in DOMAIN content /\ i \in indexes
      BY <1>1 DEF Inv, TypeOK, Served, ServesComplete, Complete
    <2>2. CASE ImportDocuments(p)
      <3>1. /\ job[p].todo \subseteq Aliases
            /\ \A a \in job[p].todo : Target(job[p], a) \notin DOMAIN content
        BY <1>1, <2>2, KindOfJob
           DEF Inv, ExportOk, ImportDocuments, At, Exports, ExportJob
      <3>2. /\ behind' = behind /\ DOMAIN content \subseteq DOMAIN content'
            /\ \A i \in DOMAIN content : content'[i] = content[i]
        BY <2>2, <3>1 DEF ImportDocuments
      <3>3. QED
        BY <2>1, <3>2
    <2>3. CASE CloneIndex(p)
      <3>1. job[p].target \notin DOMAIN content /\ behind' = behind
        BY <1>1, <2>3 DEF Inv, TypeOK, CloneIndex
      <3>2. /\ DOMAIN content \subseteq DOMAIN content'
            /\ \A i \in DOMAIN content : content'[i] = content[i]
        BY <2>3, <3>1 DEF CloneIndex
      <3>3. QED
        BY <2>1, <3>1, <3>2
    <2>4. ASSUME NEW i, Forget(i)
          PROVE  \A a \in Aliases : Kept(a)
      BY <2>1, <2>4 DEF Forget
    <2>5. ASSUME UNCHANGED <<behind, content>>
          PROVE  \A a \in Aliases : Kept(a)
      BY <2>1, <2>5
    <2>6. CASE DeleteStale(p) \/ DeleteSource(p) \/ DeleteIndex(p)
      <3>1. (\E i : Forget(i)) \/ UNCHANGED <<behind, content>>
        BY <2>6 DEF DeleteStale, DeleteSource, DeleteIndex, documents
      <3>2. QED
        BY <2>4, <2>5, <3>1
    <2> HIDE DEF Kept
    <2>7. QED
      BY <1>1, <2>2, <2>3, <2>5, <2>6
         DEF Export, Rename, BeginExport, CreateIndex, Refresh, CheckBlocking, ReadAlias,
             ListStale, BeginRename, BlockSource, CloneFails, RestoreSource, UnblockTarget,
             UnblockSource, Unblock, BeginDelete, Fail, documents
  <1>2. ASSUME NEW a \in Aliases, Kept(a), behind'[a] # {}, NEW t, Shows(a, t)
        PROVE  Shows(a, t)'
    BY <1>2 DEF Shows
  <1>3. ASSUME Inv, [Next]_vars
        PROVE  [\A a, b \in Aliases :
                  Together(a, b) /\ behind'[a] # {} /\ behind'[b] # {} /\ ~ Together(a, b)' =>
                    \E p \in Procs : At(p, "swap") /\ ~ ({a, b} \subseteq job[p].types)]_vars
    <2> SUFFICES ASSUME Next, NEW a \in Aliases, NEW b \in Aliases, NEW t \in Times,
                        Shows(a, t), Shows(b, t), behind'[a] # {}, behind'[b] # {},
                        ~ Together(a, b)'
                 PROVE  \E p \in Procs : At(p, "swap") /\ ~ ({a, b} \subseteq job[p].types)
      BY <1>3 DEF Together
    <2>1. PICK p \in Procs : Export(p) \/ Rename(p) \/ BeginDelete(p) \/ DeleteIndex(p) \/ Fail(p)
      BY DEF Next
    <2>2. ~ (Shows(a, t)' /\ Shows(b, t)')
      BY DEF Together, Shows, Times
    <2>3. CASE \A x \in Aliases : Kept(x)
      BY <1>2, <2>2, <2>3
    <2>4. CASE MoveAliases(p)
      <3>1. /\ job[p].target \in indexes /\ (job[p].keep_source => job[p].source \in indexes)
            /\ \A x \in job[p].aliases : /\ behind[x] \subseteq {job[p].source}
                                         /\ job[p].target \in DOMAIN content
                                         /\ behind[x] # {} =>
                                              content[job[p].target] = content[job[p].source]
        BY <1>3, <2>4 DEF Inv, RenameOk, MoveAliases, At, Complete
      <3>2. /\ behind' = [x \in Aliases |-> IF x \in job[p].aliases
                                            THEN (behind[x] \ {job[p].source}) \cup {job[p].target}
                                            ELSE behind[x]]
            /\ content' = content
        BY <2>4, <3>1 DEF MoveAliases, documents
      <3>3. ASSUME NEW x \in Aliases, Shows(x, t)
            PROVE  Shows(x, t)'
        BY <3>1, <3>2, <3>3 DEF Shows
      <3>4. QED
        BY <2>2, <3>3
    <2>5. CASE SwapAliases(p)
      <3>1. At(p, "swap") /\ content' = content
        BY <2>5 DEF SwapAliases, documents
      <3>2. /\ job[p] \in ExportJob
            /\ \A x \in job[p].types : Filled(job[p], x) /\ Superseded(job[p], x)
        BY <1>3, <3>1, KindOfJob DEF Inv, ExportOk, At, Exports
      <3>3. \/ behind' = behind
            \/ behind' = [x \in Aliases |->
                            IF x \in job[p].types
                            THEN (behind[x] \ job[p].old[x]) \cup {Target(job[p], x)}
                            ELSE behind[x]]
        BY <2>5 DEF SwapAliases
      <3>4. behind' # behind
        BY <2>2, <3>1 DEF Shows
      <3>5. \A x \in Aliases \cap job[p].types : behind'[x] = {Target(job[p], x)}
        BY <3>2, <3>3, <3>4 DEF Superseded
      <3>6. ASSUME {a, b} \subseteq job[p].types
            PROVE  FALSE
        <4>1. PICK u \in Times : u = job[p].at
          BY <3>2 DEF ExportJob
        <4>2. Shows(a, u)' /\ Shows(b, u)'
          BY <3>1, <3>2, <3>5, <3>6, <4>1 DEF Shows, Filled
        <4>3. QED
          BY <4>2 DEF Together, Shows, Times
      <3>7. QED
        BY <3>1, <3>6
    <2> HIDE DEF Kept
    <2>6. QED
      BY <1>1, <1>3, <2>1, <2>3, <2>4, <2>5
  <1>4. QED
    BY <1>3, InvHolds, PTL DEF Spec, NeverMixes

-----------------------------------------------------------------------------
(***************************************************************************)
(* Pruning.  Exports come one after the other, and each leaves its aliases *)
(* on the newest generation there is, unless it stops before the swap.     *)
(***************************************************************************)
Generations == {x \in indexes : x.kind = "generation"}

\* No other generation of its alias, but one that is under way, is newer.
Recent(i, underWay) ==
    i.kind = "generation" =>
      \A x \in Generations \ {underWay} : x.of = i.of => x.at <= i.at

ServesRecent(j, a) ==
    \A i \in behind[a] :
      IF j.stage \in Exports /\ a \in j.types
      THEN i = Target(j, a) \/ Recent(i, Target(j, a))
      ELSE Recent(i, i)
SparesPrevious(j) ==
    j.stage = "prune" /\ j.keep > 0 =>
      \A a \in j.types : \A i \in j.old[a] :
        i.of = a /\ i \in indexes \ j.stale /\ Recent(i, Target(j, a))

Latest ==
    /\ \A x \in Generations : x.at <= now
    /\ \A p \in Procs :
         /\ job[p].stage \in Exports => job[p].at = now
         /\ job[p].stage \in Renames => job[p].target.kind # "generation"
         /\ stopped = 0 => SparesPrevious(job[p]) /\ \A a \in Aliases : ServesRecent(job[p], a)

LEMMA InitLatest == Init => Latest
  BY DEF Init, Latest, Generations, Idle, Exports, Renames, SparesPrevious, ServesRecent

LEMMA LatestNow ==
  ASSUME OneCommand, NEW p \in Procs, NEW k, job'[p] = k, \A x \in Generations' : x.at <= now',
         k.stage \in Exports => k.at = now',
         k.stage \in Renames => k.target.kind # "generation",
         stopped' = 0 => SparesPrevious(k)' /\ \A a \in Aliases : ServesRecent(k, a)'
  PROVE  Latest'
  <1> SUFFICES ASSUME NEW q \in Procs
               PROVE  ( /\ job[q].stage \in Exports => job[q].at = now
                        /\ job[q].stage \in Renames => job[q].target.kind # "generation"
                        /\ stopped = 0 => /\ SparesPrevious(job[q])
                                          /\ \A a \in Aliases : ServesRecent(job[q], a) )'
    BY DEF Latest
  <1>1. job'[q] = k
    BY DEF OneCommand
  <1>2. QED
    BY <1>1

\* Fewer generations, and nothing but copies comes behind an alias.
LEMMA RecentOn ==
  ASSUME NEW i, NEW x, Generations' \subseteq Generations, Recent(i, x)
  PROVE  Recent(i, x)'
  BY DEF Recent

LEMMA ServesOn ==
  ASSUME NEW j, NEW k, NEW a, Generations' \subseteq Generations,
         \A i \in behind'[a] : i \in behind[a] \/ i.kind # "generation",
         \/ j.stage \notin Exports /\ k.stage \notin Exports
         \/ j.stage \in Exports /\ k.stage \in Exports /\ k.types = j.types /\ k.at = j.at,
         ServesRecent(j, a)
  PROVE  ServesRecent(k, a)'
  <1> SUFFICES ASSUME NEW i \in behind'[a]
               PROVE  IF k.stage \in Exports /\ a \in k.types
                      THEN i = Target(k, a) \/ Recent(i, Target(k, a))'
                      ELSE Recent(i, i)'
    BY DEF ServesRecent, Target
  <1>1. CASE i.kind # "generation"
    BY <1>1 DEF Recent
  <1>2. CASE i \in behind[a]
    <2>1. IF k.stage \in Exports /\ a \in k.types
          THEN i = Target(k, a) \/ Recent(i, Target(k, a))
          ELSE Recent(i, i)
      BY <1>2 DEF ServesRecent, Target
    <2>2. QED
      BY <2>1, RecentOn
  <1>3. QED
    BY <1>1, <1>2

LEMMA AtsAreNumbers ==
  ASSUME TypeOK, NEW x \in indexes
  PROVE  x.at \in Nat
  BY SearchExportAssumption DEF TypeOK, Index, Generation, Plain, Copy, Times

\* Only generations with newer ones are pruned.
LEMMA StaleAreOld ==
  ASSUME TypeOK, NEW j, NEW a, j.keep \in Nat, j.keep > 0, NEW i \in Stale(j, a)
  PROVE  /\ i \in Generations /\ i.of = a
         /\ ~ Recent(i, Target(j, a))
  <1> DEFINE candidates == {x \in indexes : IsGenerationOf(x, a) /\ x # Target(j, a)}
             newer == {x \in candidates : x.at > i.at}
  <1>1. i \in candidates /\ Cardinality(newer) >= j.keep
    BY DEF Stale
  <1>2. newer # {}
    BY <1>1, FS_EmptySet
  <1>3. PICK x \in candidates : x.at > i.at
    BY <1>2
  <1>4. x \in Generations \ {Target(j, a)} /\ x.of = i.of /\ i.kind = "generation"
    BY <1>1 DEF IsGenerationOf, Generations
  <1>5. x.at \in Nat /\ i.at \in Nat
    BY <1>1, AtsAreNumbers
  <1>6. QED
    BY <1>1, <1>3, <1>4, <1>5 DEF Recent, IsGenerationOf, Generations

\* A step of an export that changes no index and no alias, and stays before the pruning.
LEMMA ExportGoesOn ==
  ASSUME OneCommand, Latest, NEW p \in Procs, NEW k, job'[p] = k, stopped' = stopped,
         job[p].stage \in Exports, k.stage \in Exports \ {"prune"},
         k.types = job[p].types, k.at = job[p].at,
         UNCHANGED now, Generations' = Generations, UNCHANGED behind
  PROVE  Latest'
  <1>1. /\ \A x \in Generations' : x.at <= now'
        /\ k.at = now'
        /\ k.stage \notin Renames
    BY DEF Latest, Exports, Renames
  <1>2. ASSUME stopped' = 0, NEW a \in Aliases
        PROVE  ServesRecent(k, a)'
    <2>1. ServesRecent(job[p], a)
      BY <1>2 DEF Latest
    <2>2. QED
      BY <2>1, ServesOn
  <1>3. SparesPrevious(k)'
    BY DEF SparesPrevious
  <1>4. QED
    BY <1>1, <1>2, <1>3, LatestNow

\* A command has stopped half way.
LEMMA StoppedLatest ==
  ASSUME OneCommand, TypeOK, Latest, NEW p \in Procs, Abort(p), UNCHANGED now,
         Generations' \subseteq Generations
  PROVE  Latest'
  <1>1. job'[p] = Idle /\ stopped' # 0
    BY DEF TypeOK, Abort
  <1>2. Idle.stage = "end"
    BY DEF Idle
  <1>3. \A x \in Generations' : x.at <= now'
    BY DEF Latest
  <1>4. QED
    BY <1>1, <1>2, <1>3, LatestNow DEF Exports, Renames

LEMMA ExportLatest ==
  ASSUME OneCommand, Inv, Latest, NEW p \in Procs, Export(p)
  PROVE  Latest'
  <1> DEFINE j == job[p]
  <1>1. /\ TypeOK /\ ServesComplete /\ ExportOk(p)
        /\ \A x \in Generations : x.at <= now
        /\ j.stage \in Exports => j.at = now
        /\ stopped = 0 => SparesPrevious(j) /\ \A a \in Aliases : ServesRecent(j, a)
    BY DEF Inv, Served, Latest
  <1>2. now \in Nat
    BY <1>1, SearchExportAssumption DEF TypeOK
  <1>3. j.stage \in Exports => j \in ExportJob
    BY <1>1, KindOfJob
  <1>4. CASE BeginExport(p)
    <2>1. PICK t \in {now, now + 1} \cap Times, types \in (SUBSET Aliases) \ {{}}, keep \in Keeps :
            /\ now' = t
            /\ Begin(p, [stage |-> "create", at |-> t, types |-> types, keep |-> keep,
                         todo |-> types, old |-> [a \in Aliases |-> {}], stale |-> {}])
      BY <1>4 DEF BeginExport
    <2>2. PICK k : k = [stage |-> "create", at |-> t, types |-> types, keep |-> keep,
                        todo |-> types, old |-> [a \in Aliases |-> {}], stale |-> {}]
      OBVIOUS
    <2>3. k.stage = "create" /\ k.at = t
      BY <2>2
    <2>4. job'[p] = k /\ stopped' = stopped /\ j.stage = "end"
      BY <1>1, <2>1, <2>2, Continued DEF Begin, Idle
    <2>5. Generations' = Generations /\ UNCHANGED behind
      BY <1>4 DEF BeginExport, Generations
    <2>6. \A x \in Generations' : x.at <= now'
      <3>1. \A x \in Generations : x.at \in Nat
        BY <1>1, AtsAreNumbers DEF Generations
      <3>2. QED
        BY <1>1, <1>2, <2>1, <2>5, <3>1
    <2>7. ASSUME stopped' = 0, NEW a \in Aliases
          PROVE  ServesRecent(k, a)'
      <3>1. ServesRecent(j, a)
        BY <1>1, <2>4, <2>7
      <3>2. \A i \in behind[a] : Recent(i, i)
        BY <2>4, <3>1 DEF ServesRecent, Exports
      <3>3. ASSUME NEW i \in behind[a]
            PROVE  Recent(i, i)' /\ Recent(i, Target(k, a))'
        <4>1. i \in indexes
          BY <1>1 DEF TypeOK
        <4>2. i.at \in Nat
          BY <1>1, <4>1, AtsAreNumbers
        <4>3. QED
          BY <2>5, <3>2, <4>2 DEF Recent
      <3>4. QED
        BY <2>5, <3>3 DEF ServesRecent, Target
    <2>8. SparesPrevious(k)'
      BY <2>3 DEF SparesPrevious
    <2>9. QED
      BY <2>1, <2>3, <2>4, <2>6, <2>7, <2>8, LatestNow DEF Exports, Renames
  <1>5. CASE CreateIndex(p)
    <2>1. j.stage = "create"
      BY <1>5 DEF CreateIndex, At
    <2>2. PICK a \in j.todo :
            IF Exists(Target(j, a))
            THEN Abort(p) /\ UNCHANGED indexes
            ELSE indexes' = indexes \cup {Target(j, a)} /\ Continue(p, DoneWith(j, a, "import"))
      BY <1>5 DEF CreateIndex
    <2>3. CASE Abort(p) /\ UNCHANGED indexes
      BY <1>1, <1>5, <2>3, StoppedLatest DEF CreateIndex, Generations
    <2>4. CASE /\ indexes' = indexes \cup {Target(j, a)}
               /\ Continue(p, DoneWith(j, a, "import"))
      <3>1. a \in j.types /\ a \in Aliases /\ j \in ExportJob
        BY <1>1, <1>3, <2>1, <2>2 DEF ExportOk, Exports, ExportJob
      <3>2. PICK k : k = DoneWith(j, a, "import")
        OBVIOUS
      <3>3. /\ job'[p] = k /\ stopped' = stopped /\ k.types = j.types /\ k.at = j.at
            /\ k.stage \in {"create", "import"}
        BY <1>1, <2>1, <2>4, <3>1, <3>2, AliasDone, Continued DEF Exports
      <3>4. UNCHANGED <<now, behind>>
        BY <1>5 DEF CreateIndex
      <3>5. Target(j, a).at = now /\ Target(j, a).of = a
        BY <1>1, <2>1 DEF Target, Generation, Exports
      <3>6. Generations' \subseteq Generations \cup {Target(j, a)}
        BY <2>4 DEF Generations
      <3>7. \A x \in Generations' : x.at <= now'
        BY <1>1, <1>2, <3>4, <3>5, <3>6
      <3>8. ASSUME stopped' = 0, NEW b \in Aliases
            PROVE  ServesRecent(k, b)'
        <4>1. ServesRecent(j, b)
          BY <1>1, <3>3, <3>8
        <4>2. SUFFICES ASSUME NEW i \in behind[b]
                       PROVE  IF k.stage \in Exports /\ b \in k.types
                              THEN i = Target(k, b) \/ Recent(i, Target(k, b))'
                              ELSE Recent(i, i)'
          BY <3>4 DEF ServesRecent, Target
        <4>3. i.of = b
          BY <1>1 DEF ServesComplete
        <4>4. Target(k, b) = Target(j, b)
          BY <3>3 DEF Target
        <4>5. CASE b \in j.types
          <5>1. i = Target(k, b) \/ Recent(i, Target(k, b))
            BY <2>1, <4>1, <4>4, <4>5 DEF ServesRecent, Exports
          <5>2. Recent(i, Target(k, b)) => Recent(i, Target(k, b))'
            <6>1. PICK t : t = Target(k, b)
              OBVIOUS
            <6>2. \A x \in Generations' \ {t} : x.of = i.of => x \in Generations
              BY <3>5, <3>6, <4>3, <4>4, <6>1
            <6>3. Recent(i, t) => Recent(i, t)'
              BY <6>2 DEF Recent
            <6>4. QED
              BY <6>1, <6>3 DEF Target
          <5>3. QED
            BY <3>3, <4>4, <4>5, <5>1, <5>2 DEF Exports
        <4>6. CASE b \notin j.types
          <5>1. Recent(i, i)
            BY <4>1, <4>6 DEF ServesRecent
          <5>2. Recent(i, i)'
            BY <3>1, <3>5, <3>6, <4>3, <4>6, <5>1 DEF Recent
          <5>3. QED
            BY <3>3, <4>6, <5>2
        <4>7. QED
          BY <4>5, <4>6
      <3>9. SparesPrevious(k)'
        BY <3>3 DEF SparesPrevious
      <3>10. k.at = now' /\ k.stage \notin Renames
        BY <1>1, <2>1, <3>3, <3>4 DEF Exports, Renames
      <3>11. QED
        BY <3>3, <3>7, <3>8, <3>9, <3>10, LatestNow
    <2>5. QED
      BY <2>2, <2>3, <2>4
  <1>6. CASE ImportDocuments(p)
    <2>1. j.stage = "import"
      BY <1>6 DEF ImportDocuments, At
    <2>2. PICK a \in j.todo :
            /\ indexes' = indexes \cup {Target(j, a)}
            /\ Abort(p) \/ Continue(p, DoneWith(j, a, "refresh"))
      BY <1>6 DEF ImportDocuments
    <2>3. Generations' = Generations /\ UNCHANGED <<now, behind>>
      BY <1>1, <1>6, <2>1, <2>2 DEF ImportDocuments, ExportOk, Exports, Generations
    <2>4. CASE Abort(p)
      BY <1>1, <2>3, <2>4, StoppedLatest
    <2>5. CASE Continue(p, DoneWith(j, a, "refresh"))
      <3>1. PICK k : k = DoneWith(j, a, "refresh")
        OBVIOUS
      <3>2. /\ job'[p] = k /\ stopped' = stopped /\ k.types = j.types /\ k.at = j.at
            /\ k.stage \in {"import", "refresh"}
        BY <1>1, <1>3, <2>1, <2>5, <3>1, AliasDone, Continued DEF Exports
      <3>3. QED
        BY <2>1, <2>3, <3>2, ExportGoesOn DEF Exports
    <2>6. QED
      BY <2>2, <2>4, <2>5
  <1>7. CASE Refresh(p) \/ CheckBlocking(p) \/ ReadAlias(p)
    <2>1. j.stage \in {"refresh", "check", "read"}
      BY <1>7 DEF Refresh, CheckBlocking, ReadAlias, At
    <2>2. Generations' = Generations /\ UNCHANGED <<now, behind>>
      BY <1>7 DEF Refresh, CheckBlocking, ReadAlias, Generations
    <2>3. CASE Abort(p)
      BY <1>1, <2>2, <2>3, StoppedLatest
    <2>4. ASSUME NEW k, Continue(p, k), k.types = j.types, k.at = j.at,
                 k.stage \in {"check", "read", "swap"}
          PROVE  Latest'
      <3>1. job'[p] = k /\ stopped' = stopped
        BY <1>1, <2>4, Continued
      <3>2. QED
        BY <2>1, <2>2, <2>4, <3>1, ExportGoesOn DEF Exports
    <2>5. j \in ExportJob
      BY <1>3, <2>1 DEF Exports
    <2>6. CASE ReadAlias(p)
      <3>1. PICK a \in j.todo :
              Continue(p, DoneWith([j EXCEPT !.old[a] = behind[a] \ {Target(j, a)}], a, "swap"))
        BY <2>6 DEF ReadAlias
      <3>2. PICK r, k : /\ r = [j EXCEPT !.old[a] = behind[a] \ {Target(j, a)}]
                        /\ k = DoneWith(r, a, "swap")
        OBVIOUS
      <3>3. r.types = j.types /\ r.at = j.at /\ r.stage = "read" /\ DOMAIN r = DOMAIN j
        BY <2>5, <2>6, <3>2 DEF ExportJob, ReadAlias, At
      <3>4. k.types = j.types /\ k.at = j.at /\ k.stage \in {"read", "swap"}
        BY <2>5, <3>2, <3>3 DEF DoneWith, ExportJob
      <3>5. QED
        BY <2>4, <3>1, <3>2, <3>4
    <2>7. CASE Refresh(p) \/ CheckBlocking(p)
      <3>1. \/ Abort(p)
            \/ Continue(p, [j EXCEPT !.stage = "check"])
            \/ Continue(p, [j EXCEPT !.stage = "read"])
        BY <2>7 DEF Refresh, CheckBlocking
      <3>2. \A s \in {"check", "read"} :
              LET k == [j EXCEPT !.stage = s]
              IN  k.types = j.types /\ k.at = j.at /\ k.stage = s
        BY <2>5 DEF ExportJob
      <3>3. QED
        BY <2>3, <2>4, <3>1, <3>2
    <2>8. QED
      BY <1>7, <2>6, <2>7
  <1>8. CASE SwapAliases(p)
    <2>1. j.stage = "swap" /\ j \in ExportJob /\ Generations' = Generations /\ UNCHANGED now
      BY <1>3, <1>8 DEF SwapAliases, At, Generations, Exports
    <2>2. CASE Abort(p)
      BY <1>1, <2>1, <2>2, StoppedLatest
    <2>3. CASE /\ behind' = [a \in Aliases |->
                    IF a \in j.types THEN (behind[a] \ j.old[a]) \cup {Target(j, a)}
                    ELSE behind[a]]
               /\ Continue(p, [j EXCEPT !.stage = "prune"])
      <3>1. PICK k : k = [j EXCEPT !.stage = "prune"]
        OBVIOUS
      <3>2. /\ job'[p] = k /\ stopped' = stopped /\ k.types = j.types /\ k.at = j.at
            /\ k.stage = "prune" /\ k.old = j.old /\ k.stale = j.stale
        BY <1>1, <2>1, <2>3, <3>1, Continued DEF ExportJob
      <3>3. /\ j.types \subseteq Aliases /\ j.stale = {}
            /\ \A a \in j.types : j.old[a] = behind[a] \ {Target(j, a)}
        BY <1>1, <2>1 DEF ExportOk, Exports, ExportJob, Superseded
      <3>4. \A a \in Aliases : IF a \in j.types THEN behind'[a] = {Target(j, a)}
                               ELSE behind'[a] = behind[a]
        BY <2>3, <3>3
      <3>5. ASSUME stopped' = 0, NEW a \in Aliases
            PROVE  ServesRecent(k, a)'
        <4>1. CASE a \in j.types
          <5>1. Target(k, a) = Target(j, a)
            BY <3>2 DEF Target
          <5>2. QED
            BY <3>2, <3>4, <4>1, <5>1 DEF ServesRecent, Exports, Target
        <4>2. CASE a \notin j.types
          <5>1. ServesRecent(j, a)
            BY <1>1, <3>2, <3>5
          <5>2. QED
            BY <2>1, <3>2, <3>4, <4>2, <5>1, ServesOn DEF Exports
        <4>3. QED
          BY <4>1, <4>2
      <3>6. ASSUME stopped' = 0
            PROVE  SparesPrevious(k)'
        <4>1. ASSUME NEW a \in j.types, NEW i \in j.old[a]
              PROVE  i.of = a /\ i \in indexes' /\ Recent(i, Target(k, a))'
          <5>1. i \in behind[a] /\ i # Target(j, a) /\ a \in Aliases
            BY <3>3, <4>1
          <5>2. ServesRecent(j, a)
            BY <1>1, <3>2, <3>6, <5>1
          <5>3. i.of = a /\ i \in indexes /\ Recent(i, Target(j, a))
            BY <1>1, <2>1, <4>1, <5>1, <5>2 DEF ServesComplete, TypeOK, ServesRecent, Exports
          <5>4. Target(k, a) = Target(j, a) /\ indexes' = indexes
            BY <1>8, <3>2 DEF Target, SwapAliases
          <5>5. QED
            BY <2>1, <5>3, <5>4, RecentOn
        <4>2. QED
          BY <3>2, <3>3, <4>1 DEF SparesPrevious, Target
      <3>7. QED
        BY <1>1, <2>1, <3>2, <3>5, <3>6, LatestNow DEF Exports, Renames
    <2>4. QED
      BY <1>8, <2>2, <2>3 DEF SwapAliases
  <1>9. CASE ListStale(p)
    <2>1. /\ j.stage = "prune" /\ j \in ExportJob /\ Generations' = Generations
          /\ UNCHANGED <<now, behind, indexes>>
      BY <1>3, <1>9 DEF ListStale, At, Generations, Exports
    <2>2. CASE Continue(p, Idle)
      <3>1. job'[p] = Idle /\ stopped' = stopped /\ Idle.stage = "end"
        BY <1>1, <2>2, Continued DEF Idle
      <3>2. ASSUME stopped' = 0, NEW a \in Aliases
            PROVE  ServesRecent(Idle, a)'
        <4>1. ASSUME NEW i \in behind[a]
              PROVE  Recent(i, i)'
          <5>1. CASE a \in j.types
            <6>1. i = Target(j, a)
              BY <1>1, <2>1, <4>1, <5>1 DEF ExportOk, Exports
            <6>2. i.at = now
              BY <1>1, <2>1, <6>1 DEF Target, Generation, Exports
            <6>3. QED
              BY <1>1, <2>1, <6>2 DEF Recent
          <5>2. CASE a \notin j.types
            <6>1. ServesRecent(j, a)
              BY <1>1, <3>1, <3>2
            <6>2. QED
              BY <2>1, <4>1, <5>2, <6>1, RecentOn DEF ServesRecent
          <5>3. QED
            BY <5>1, <5>2
        <4>2. QED
          BY <2>1, <3>1, <4>1 DEF ServesRecent, Exports
      <3>3. SparesPrevious(Idle)'
        BY <3>1 DEF SparesPrevious
      <3>4. QED
        BY <1>1, <2>1, <3>1, <3>2, <3>3, LatestNow DEF Exports, Renames
    <2>3. ASSUME NEW a \in j.todo,
                 Continue(p, [j EXCEPT !.todo = @ \ {a}, !.stale = Stale(j, a)])
          PROVE  Latest'
      <3>1. PICK k : k = [j EXCEPT !.todo = @ \ {a}, !.stale = Stale(j, a)]
        OBVIOUS
      <3>2. /\ job'[p] = k /\ stopped' = stopped /\ k.types = j.types /\ k.at = j.at
            /\ k.stage = "prune" /\ k.old = j.old /\ k.keep = j.keep /\ k.stale = Stale(j, a)
        BY <1>1, <2>1, <2>3, <3>1, Continued DEF ExportJob
      <3>3. ASSUME stopped' = 0, NEW b \in Aliases
            PROVE  ServesRecent(k, b)'
        <4>1. ServesRecent(j, b)
          BY <1>1, <3>2, <3>3
        <4>2. QED
          BY <2>1, <3>2, <4>1, ServesOn DEF Exports
      <3>4. ASSUME stopped' = 0
            PROVE  SparesPrevious(k)'
        <4>1. ASSUME k.keep > 0, NEW b \in j.types, NEW i \in j.old[b]
              PROVE  i.of = b /\ i \in indexes' \ Stale(j, a) /\ Recent(i, Target(k, b))'
          <5>1. i.of = b /\ i \in indexes /\ Recent(i, Target(j, b))
            BY <1>1, <2>1, <3>2, <3>4, <4>1 DEF SparesPrevious
          <5>2. Target(k, b) = Target(j, b)
            BY <3>2 DEF Target
          <5>3. j.keep \in Nat
            BY <2>1, SearchExportAssumption DEF ExportJob
          <5>4. i \notin Stale(j, a)
            BY <1>1, <3>2, <4>1, <5>1, <5>3, StaleAreOld
          <5>5. QED
            BY <2>1, <5>1, <5>2, <5>4, RecentOn
        <4>2. QED
          BY <3>2, <4>1 DEF SparesPrevious, Target
      <3>5. QED
        BY <1>1, <2>1, <3>2, <3>3, <3>4, LatestNow DEF Exports, Renames
    <2>4. QED
      BY <1>9, <2>2, <2>3 DEF ListStale, Stop
  <1>10. CASE DeleteStale(p)
    <2>1. j.stage = "prune" /\ j \in ExportJob /\ UNCHANGED now
      BY <1>3, <1>10 DEF DeleteStale, At, Exports
    <2>2. CASE Abort(p) /\ UNCHANGED <<indexes, behind, documents, blocked>>
      BY <1>1, <2>1, <2>2, StoppedLatest DEF Generations
    <2>3. ASSUME NEW i \in j.stale, Forget(i), Continue(p, [j EXCEPT !.stale = @ \ {i}])
          PROVE  Latest'
      <3>1. PICK k : k = [j EXCEPT !.stale = @ \ {i}]
        OBVIOUS
      <3>2. /\ job'[p] = k /\ stopped' = stopped /\ k.types = j.types /\ k.at = j.at
            /\ k.stage = "prune" /\ k.old = j.old /\ k.keep = j.keep /\ k.stale = j.stale \ {i}
        BY <1>1, <2>1, <2>3, <3>1, Continued DEF ExportJob
      <3>3. /\ Generations' \subseteq Generations /\ indexes' = indexes \ {i}
            /\ \A b \in Aliases : behind'[b] \subseteq behind[b]
        BY <2>3 DEF Forget, Generations
      <3>4. ASSUME stopped' = 0, NEW b \in Aliases
            PROVE  ServesRecent(k, b)'
        <4>1. ServesRecent(j, b)
          BY <1>1, <3>2, <3>4
        <4>2. QED
          BY <2>1, <3>2, <3>3, <4>1, ServesOn DEF Exports
      <3>5. ASSUME stopped' = 0
            PROVE  SparesPrevious(k)'
        <4>1. ASSUME k.keep > 0, NEW b \in j.types, NEW x \in j.old[b]
              PROVE  x.of = b /\ x \in indexes' \ k.stale /\ Recent(x, Target(k, b))'
          <5>1. x.of = b /\ x \in indexes \ j.stale /\ Recent(x, Target(j, b))
            BY <1>1, <2>1, <3>2, <3>5, <4>1 DEF SparesPrevious
          <5>2. Target(k, b) = Target(j, b)
            BY <3>2 DEF Target
          <5>3. QED
            BY <2>3, <3>2, <3>3, <5>1, <5>2, RecentOn
        <4>2. QED
          BY <3>2, <4>1 DEF SparesPrevious, Target
      <3>6. \A x \in Generations' : x.at <= now'
        BY <1>1, <2>1, <3>3
      <3>7. QED
        BY <1>1, <2>1, <3>2, <3>4, <3>5, <3>6, LatestNow DEF Exports, Renames
    <2>4. QED
      BY <1>10, <2>2, <2>3 DEF DeleteStale
  <1>11. QED
    BY <1>4, <1>5, <1>6, <1>7, <1>8, <1>9, <1>10 DEF Export

\* Renaming and deleting make no generation, and bring none behind an alias.
LEMMA AdminGoesOn ==
  ASSUME OneCommand, Latest, NEW p \in Procs, NEW k, job'[p] = k, stopped' = stopped,
         job[p].stage \notin Exports, k.stage \notin Exports,
         k.stage \in Renames => k.target.kind # "generation",
         UNCHANGED now, Generations' \subseteq Generations,
         \A a \in Aliases : \A i \in behind'[a] : i \in behind[a] \/ i.kind # "generation"
  PROVE  Latest'
  <1>1. \A x \in Generations' : x.at <= now'
    BY DEF Latest
  <1>2. ASSUME stopped' = 0, NEW a \in Aliases
        PROVE  ServesRecent(k, a)'
    <2>1. ServesRecent(job[p], a)
      BY <1>2 DEF Latest
    <2>2. QED
      BY <2>1, ServesOn
  <1>3. SparesPrevious(k)'
    BY DEF SparesPrevious, Exports
  <1>4. QED
    BY <1>1, <1>2, <1>3, LatestNow

LEMMA AdminLatest ==
  ASSUME OneCommand, Inv, Latest, NEW p \in Procs,
         Rename(p) \/ BeginDelete(p) \/ DeleteIndex(p) \/ Fail(p)
  PROVE  Latest'
  <1> DEFINE j == job[p]
  <1>1. TypeOK /\ (j.stage \in Renames => j \in RenameJob /\ j.target.kind # "generation")
    BY KindOfJob DEF Inv, Latest
  <1>2. Idle.stage = "end"
    BY DEF Idle
  <1>3. CASE BeginRename(p)
    <2>1. PICK s \in indexes, t \in {Plain(a) : a \in Aliases} \cup {Copy(a) : a \in Aliases},
               keep \in BOOLEAN :
            Begin(p, [stage |-> "block", source |-> s, target |-> t, keep_source |-> keep,
                      aliases |-> {a \in Aliases : s \in behind[a]}])
      BY <1>3 DEF BeginRename
    <2>2. PICK k : k = [stage |-> "block", source |-> s, target |-> t, keep_source |-> keep,
                        aliases |-> {a \in Aliases : s \in behind[a]}]
      OBVIOUS
    <2>3. t.kind # "generation" /\ k.stage = "block" /\ k.target = t
      BY <2>2 DEF Plain, Copy
    <2>4. job'[p] = k /\ stopped' = stopped /\ j = Idle
      BY <1>1, <2>1, <2>2, Continued DEF Begin
    <2>5. Generations' = Generations /\ UNCHANGED <<now, behind>>
      BY <1>3 DEF BeginRename, Generations
    <2>6. QED
      BY <1>2, <2>3, <2>4, <2>5, AdminGoesOn DEF Exports
  <1>4. CASE BeginDelete(p)
    <2>1. PICK doomed : Begin(p, [stage |-> "delete", doomed |-> doomed])
      BY <1>4 DEF BeginDelete
    <2>2. PICK k : k = [stage |-> "delete", doomed |-> doomed]
      OBVIOUS
    <2>3. job'[p] = k /\ stopped' = stopped /\ j = Idle /\ k.stage = "delete"
      BY <1>1, <2>1, <2>2, Continued DEF Begin
    <2>4. Generations' = Generations /\ UNCHANGED <<now, behind>>
      BY <1>4 DEF BeginDelete, Generations
    <2>5. QED
      BY <1>2, <2>3, <2>4, AdminGoesOn DEF Exports, Renames
  <1>5. CASE Fail(p)
    BY <1>1, <1>5, StoppedLatest DEF Fail, Generations
  <1>6. CASE DeleteIndex(p)
    <2>1. j.stage = "delete" /\ j \in DeleteJob /\ UNCHANGED now
      BY <1>1, <1>6, KindOfJob DEF DeleteIndex, At
    <2>2. CASE Abort(p) /\ UNCHANGED <<indexes, behind, documents, blocked>>
      BY <1>1, <2>1, <2>2, StoppedLatest DEF Generations
    <2>3. ASSUME NEW i, Forget(i), NEW k, Continue(p, k), k.stage \in {"end", "delete"}
          PROVE  Latest'
      <3>1. job'[p] = k /\ stopped' = stopped
        BY <1>1, <2>3, Continued
      <3>2. Generations' \subseteq Generations /\ \A a \in Aliases : behind'[a] \subseteq behind[a]
        BY <2>3 DEF Forget, Generations
      <3>3. QED
        BY <2>1, <2>3, <3>1, <3>2, AdminGoesOn DEF Exports, Renames
    <2>4. \A i : [j EXCEPT !.doomed = @ \ {i}].stage = "delete"
      BY <2>1 DEF DeleteJob
    <2>5. QED
      BY <1>2, <1>6, <2>2, <2>3, <2>4 DEF DeleteIndex, Stop
  <1>7. CASE Rename(p) /\ ~ BeginRename(p)
    <2>1. j.stage \in Renames /\ UNCHANGED now
      BY <1>7 DEF Rename, BlockSource, CloneIndex, CloneFails, RestoreSource, UnblockTarget,
                  UnblockSource, Unblock, DeleteSource, MoveAliases, At, Renames
    <2>2. j \in RenameJob /\ j.target.kind # "generation" /\ j.stage \notin Exports
      BY <1>1, <2>1 DEF Renames, Exports
    <2>3. Generations' \subseteq Generations
      BY <1>7, <2>2 DEF Rename, BlockSource, CloneIndex, CloneFails, RestoreSource, UnblockTarget,
                  UnblockSource, Unblock, DeleteSource, MoveAliases, Forget, Generations
    <2>4. \A a \in Aliases : \A i \in behind'[a] : i \in behind[a] \/ i.kind # "generation"
      <3>1. \/ UNCHANGED behind
            \/ \E i : Forget(i)
            \/ behind' = [a \in Aliases |->
                 IF a \in j.aliases THEN (behind[a] \ {j.source}) \cup {j.target} ELSE behind[a]]
        BY <1>7 DEF Rename, BlockSource, CloneIndex, CloneFails, RestoreSource, UnblockTarget,
                    UnblockSource, Unblock, DeleteSource, MoveAliases
      <3>2. QED
        BY <2>2, <3>1 DEF Forget
    <2>5. CASE Abort(p)
      BY <1>1, <2>1, <2>3, <2>5, StoppedLatest
    <2>6. ASSUME NEW k, Continue(p, k), k.stage \in Renames => k.target = j.target,
                 k.stage \in Renames \cup {"end"}
          PROVE  Latest'
      <3>1. job'[p] = k /\ stopped' = stopped
        BY <1>1, <2>6, Continued
      <3>2. QED
        BY <2>1, <2>2, <2>3, <2>4, <2>6, <3>1, AdminGoesOn DEF Exports, Renames
    <2>7. \A s \in Renames : LET k == [j EXCEPT !.stage = s]
                             IN  k.stage \in Renames /\ k.target = j.target
      BY <2>2 DEF RenameJob
    <2>8. Abort(p) \/ Continue(p, Idle) \/ \E s \in Renames : Continue(p, [j EXCEPT !.stage = s])
      BY <1>7 DEF Rename, BlockSource, CloneIndex, CloneFails, RestoreSource, UnblockTarget,
                  UnblockSource, Unblock, DeleteSource, MoveAliases, Stop, Renames
    <2>9. ASSUME NEW s \in Renames, Continue(p, [j EXCEPT !.stage = s])
          PROVE  Latest'
      <3>1. PICK k : k = [j EXCEPT !.stage = s]
        OBVIOUS
      <3>2. QED
        BY <2>6, <2>7, <2>9, <3>1
    <2>10. CASE Continue(p, Idle)
      BY <1>2, <2>6, <2>10 DEF Renames
    <2>11. QED
      BY <2>5, <2>8, <2>9, <2>10
  <1>8. QED
    BY <1>3, <1>4, <1>5, <1>6, <1>7

\* Pruning that keeps a generation keeps the one the aliases were moved away from, as long as
\* all exports and renames came to their end: what is newer than it was made by an export that
\* then moved the aliases on.
THEOREM PreviousStays ==
  ASSUME OneCommand
  PROVE  Spec => []PreviousIsKeptIfAllEnd
  <1>1. Inv /\ Latest /\ [Next]_vars => Latest'
    <2> SUFFICES ASSUME Inv, Latest, [Next]_vars PROVE Latest'
      OBVIOUS
    <2>1. CASE Next
      BY <2>1, ExportLatest, AdminLatest DEF Next
    <2>2. CASE UNCHANGED vars
      BY <2>2 DEF vars, Latest, Generations, SparesPrevious, ServesRecent, Recent
    <2>3. QED
      BY <2>1, <2>2
  <1>2. Latest => PreviousIsKeptIfAllEnd
    BY DEF Latest, SparesPrevious, PreviousIsKeptIfAllEnd, PreviousIsKept, At
  <1>3. Spec => []Latest
    BY <1>1, InitLatest, InvHolds, PTL DEF Spec
  <1>4. QED
    BY <1>2, <1>3, PTL

=============================================================================
