---------------------------- MODULE SearchExport ----------------------------
(***************************************************************************)
(* The OpenSearch indices behind the OGC API Records search.  Readers ask  *)
(* an alias; an export builds new timestamped indices (a generation),      *)
(* fills them, moves all its aliases to them in one request and prunes old *)
(* generations.  The index command lets an operator rename and delete      *)
(* indices.  Every line is a request of its own to the cluster, and a      *)
(* command may stop after any of them.                                     *)
(***************************************************************************)
EXTENDS Naturals, FiniteSets

CONSTANTS
    Aliases,        \* one alias per document type: the values of TYPE_TO_INDEX
    Procs,          \* commands that may run at the same time
    MaxTime,        \* how many seconds, hence generations, there are
    Keeps,          \* the values --keep-generations is given
    MaxStops,       \* how many commands may stop half way before no other begins
    Admin           \* whether an operator renames and deletes indices

ASSUME SearchExportAssumption ==
    /\ MaxTime \in Nat
    /\ Keeps \subseteq Nat
    /\ MaxStops \in Nat /\ Admin \in BOOLEAN

VARIABLES
    now,            \* the clock the generations are named after
    indexes,        \* the indices of the cluster
    behind,         \* the indices each alias resolves to
    content,        \* of a completely filled index: the export that filled it
    searchable,     \* the indices whose documents a search finds
    blocked,        \* the indices that reject writes
    job,            \* what each command is doing
    stopped         \* (history) how many commands have stopped half way

vars == <<now, indexes, behind, content, searchable, blocked, job, stopped>>
documents == <<content, searchable>>

Times == 1..MaxTime

\* Index names: <alias>-<timestamp>, the alias itself, and a name an operator gave.
Generation(a, t) == [of |-> a, kind |-> "generation", at |-> t]
Plain(a) == [of |-> a, kind |-> "plain", at |-> 0]
Copy(a) == [of |-> a, kind |-> "copy", at |-> 0]
Index == {Generation(a, t) : a \in Aliases, t \in Times}
             \cup {Plain(a) : a \in Aliases} \cup {Copy(a) : a \in Aliases}

\* _is_generation_of
IsGenerationOf(i, a) == i.of = a /\ i.kind = "generation"

Idle == [stage |-> "end"]

\* A search finds all documents an export wrote to the index.
Complete == DOMAIN content \cap searchable

AliasExists(a) == behind[a] # {}
\* indices.exists answers for an alias as well.
Exists(i) == i \in indexes \/ (i.kind = "plain" /\ AliasExists(i.of))

Target(j, a) == Generation(a, j.at)
Targets(j) == {Target(j, a) : a \in j.types}

\* Requests.  Deleting an index takes it away from its aliases.
Forget(i) ==
    /\ indexes' = indexes \ {i}
    /\ behind' = [a \in Aliases |-> behind[a] \ {i}]
    /\ content' = [x \in DOMAIN content \ {i} |-> content[x]]
    /\ searchable' = searchable \ {i}
    /\ blocked' = blocked \ {i}

Continue(p, j) == job' = [job EXCEPT ![p] = j] /\ UNCHANGED stopped
Stop(p) == Continue(p, Idle)
Abort(p) == job' = [job EXCEPT ![p] = Idle] /\ stopped' = stopped + 1
Begin(p, j) == job[p] = Idle /\ stopped <= MaxStops /\ Continue(p, j)
At(p, stage) == job[p].stage = stage

\* One alias after the other: todo is what this stage has left.
DoneWith(j, a, next) ==
    IF j.todo = {a} THEN [j EXCEPT !.stage = next, !.todo = j.types]
                    ELSE [j EXCEPT !.todo = @ \ {a}]

-----------------------------------------------------------------------------
Init ==
    /\ now = 0
    /\ indexes = {}
    /\ behind = [a \in Aliases |-> {}]
    /\ content = [i \in {} |-> 0]
    /\ searchable = {}
    /\ blocked = {}
    /\ job = [p \in Procs |-> Idle]
    /\ stopped = 0

\* Two exports may start within one second, and so choose the same names.
BeginExport(p) ==
    /\ \E t \in {now, now + 1} \cap Times, types \in (SUBSET Aliases) \ {{}}, keep \in Keeps :
        /\ now' = t
        /\ Begin(p, [stage |-> "create", at |-> t, types |-> types, keep |-> keep,
                        todo |-> types, old |-> [a \in Aliases |-> {}], stale |-> {}])
    /\ UNCHANGED <<indexes, behind, documents, blocked>>

\* Creating an index that exists raises.
CreateIndex(p) ==
    /\ At(p, "create")
    /\ \E a \in job[p].todo :
        IF Exists(Target(job[p], a))
        THEN Abort(p) /\ UNCHANGED indexes
        ELSE /\ indexes' = indexes \cup {Target(job[p], a)}
             /\ Continue(p, DoneWith(job[p], a, "import"))
    /\ UNCHANGED <<now, behind, documents, blocked>>

\* Writing to an index that is gone creates it anew, without the mapping it needs; a
\* write block makes the documents fail, which stops the command before the swap.
ImportDocuments(p) ==
    /\ At(p, "import")
    /\ \E a \in job[p].todo :
        LET i == Target(job[p], a) IN
        /\ indexes' = indexes \cup {i}
        /\ content' = IF i \in indexes \ blocked
                      THEN [x \in DOMAIN content \cup {i} |->
                               IF x = i THEN job[p].at ELSE content[x]]
                      ELSE content
        /\ IF i \in blocked THEN Abort(p)
                            ELSE Continue(p, DoneWith(job[p], a, "refresh"))
    /\ UNCHANGED <<now, behind, searchable, blocked>>

\* Slip: the aliases move to documents that cannot be found yet.
RefreshNothing(p) ==
    /\ At(p, "refresh")
    /\ Continue(p, [job[p] EXCEPT !.stage = "check"])
    /\ UNCHANGED <<now, indexes, behind, documents, blocked>>

Refresh(p) ==
    /\ At(p, "refresh")
    /\ IF Targets(job[p]) \subseteq indexes
       THEN /\ searchable' = searchable \cup Targets(job[p])
            /\ Continue(p, [job[p] EXCEPT !.stage = "check"])
       ELSE UNCHANGED searchable /\ Abort(p)
    /\ UNCHANGED <<now, indexes, behind, content, blocked>>

\* An alias whose name is that of an index cannot be moved: the command stops.
CheckBlocking(p) ==
    /\ At(p, "check")
    /\ IF \E a \in job[p].types : Exists(Plain(a)) /\ ~ AliasExists(a)
       THEN Abort(p)
       ELSE Continue(p, [job[p] EXCEPT !.stage = "read"])
    /\ UNCHANGED <<now, indexes, behind, documents, blocked>>

ReadAlias(p) ==
    /\ At(p, "read")
    /\ \E a \in job[p].todo :
        Continue(p, DoneWith([job[p] EXCEPT !.old[a] = behind[a] \ {Target(job[p], a)}],
                             a, "swap"))
    /\ UNCHANGED <<now, indexes, behind, documents, blocked>>

\* Slip: the aliases are moved one by one.
SwapAliasesOneByOne(p) ==
    /\ At(p, "swap")
    /\ \E a \in job[p].todo :
        /\ behind' = [behind EXCEPT ![a] = (@ \ job[p].old[a]) \cup {Target(job[p], a)}]
        /\ Continue(p, DoneWith(job[p], a, "prune"))
    /\ UNCHANGED <<now, indexes, documents, blocked>>

\* update_aliases applies all its actions or, when it names an index that is gone or an
\* alias that is an index, none.
SwapAliases(p) ==
    /\ At(p, "swap")
    /\ IF /\ Targets(job[p]) \cup UNION {job[p].old[a] : a \in job[p].types} \subseteq indexes
          /\ \A a \in job[p].types : Plain(a) \notin indexes
       THEN /\ behind' = [a \in Aliases |->
                   IF a \in job[p].types
                   THEN (behind[a] \ job[p].old[a]) \cup {Target(job[p], a)}
                   ELSE behind[a]]
            /\ Continue(p, [job[p] EXCEPT !.stage = "prune"])
       ELSE UNCHANGED behind /\ Abort(p)
    /\ UNCHANGED <<now, indexes, documents, blocked>>

\* Slip: the new generation is a candidate as well.
StaleNewestToo(j, a) ==
    LET candidates == {i \in indexes : IsGenerationOf(i, a)} IN
    {i \in candidates : Cardinality({x \in candidates : x.at > i.at}) >= j.keep}

\* All generations of the alias but the new one and the keep newest others.
Stale(j, a) ==
    LET candidates == {i \in indexes : IsGenerationOf(i, a) /\ i # Target(j, a)} IN
    {i \in candidates : Cardinality({x \in candidates : x.at > i.at}) >= j.keep}

ListStale(p) ==
    /\ At(p, "prune")
    /\ job[p].stale = {}
    /\ IF job[p].todo = {}
       THEN Stop(p)
       ELSE \E a \in job[p].todo :
            Continue(p, [job[p] EXCEPT !.todo = @ \ {a}, !.stale = Stale(job[p], a)])
    /\ UNCHANGED <<now, indexes, behind, documents, blocked>>

\* The oldest first.  An index that is gone raises.
DeleteStale(p) ==
    /\ At(p, "prune")
    /\ \E i \in job[p].stale :
        /\ \A x \in job[p].stale : i.at <= x.at
        /\ IF i \in indexes
           THEN Forget(i) /\ Continue(p, [job[p] EXCEPT !.stale = @ \ {i}])
           ELSE Abort(p) /\ UNCHANGED <<indexes, behind, documents, blocked>>
    /\ UNCHANGED now

-----------------------------------------------------------------------------
(* The index command: rename and delete.                                   *)

\* check_renameable: the aliases of the source are read here, and moved at the end.
BeginRename(p) ==
    /\ Admin
    /\ \E s \in indexes, t \in {Plain(a) : a \in Aliases} \cup {Copy(a) : a \in Aliases},
          keep \in BOOLEAN :
        /\ s.of = t.of
        /\ ~ Exists(t)
        /\ Begin(p, [stage |-> "block", source |-> s, target |-> t, keep_source |-> keep,
                        aliases |-> {a \in Aliases : s \in behind[a]}])
    /\ UNCHANGED <<now, indexes, behind, documents, blocked>>

BlockSource(p) ==
    /\ At(p, "block")
    /\ IF job[p].source \in indexes
       THEN /\ blocked' = blocked \cup {job[p].source}
            /\ Continue(p, [job[p] EXCEPT !.stage = "clone"])
       ELSE UNCHANGED blocked /\ Abort(p)
    /\ UNCHANGED <<now, indexes, behind, documents>>

\* The clone has the documents of its source, and its write block.
CloneIndex(p) ==
    LET s == job[p].source t == job[p].target IN
    /\ At(p, "clone")
    /\ s \in blocked
    /\ t \notin indexes
    /\ indexes' = indexes \cup {t}
    /\ blocked' = blocked \cup {t}
    /\ content' = IF s \in DOMAIN content
                  THEN [i \in DOMAIN content \cup {t} |-> IF i = t THEN content[s] ELSE content[i]]
                  ELSE content
    /\ searchable' = IF s \in searchable THEN searchable \cup {t} ELSE searchable
    /\ Continue(p, [job[p] EXCEPT !.stage = "unblock_target"])
    /\ UNCHANGED <<now, behind>>

\* The clone failed: the source is made writable again, and the command stops.
CloneFails(p) ==
    /\ At(p, "clone")
    /\ MaxStops > 0 \/ job[p].source \notin blocked \/ job[p].target \in indexes
    /\ Continue(p, [job[p] EXCEPT !.stage = "restore"])
    /\ UNCHANGED <<now, indexes, behind, documents, blocked>>

Unblock(p, stage, i, next) ==
    /\ At(p, stage)
    /\ blocked' = blocked \ {i}
    /\ Continue(p, IF next = "end" THEN Idle ELSE [job[p] EXCEPT !.stage = next])
    /\ UNCHANGED <<now, indexes, behind, documents>>

RestoreSource(p) == Unblock(p, "restore", job[p].source, "end")

\* Slip: a source that is kept stays read-only.
UnblockTargetOnly(p) ==
    Unblock(p, "unblock_target", job[p].target,
            IF job[p].keep_source THEN "move" ELSE "delete_source")

UnblockTarget(p) ==
    Unblock(p, "unblock_target", job[p].target,
            IF job[p].keep_source THEN "unblock_source" ELSE "delete_source")
UnblockSource(p) == Unblock(p, "unblock_source", job[p].source, "move")

DeleteSource(p) ==
    /\ At(p, "delete_source")
    /\ IF job[p].source \in indexes
       THEN Forget(job[p].source) /\ Continue(p, [job[p] EXCEPT !.stage = "move"])
       ELSE Abort(p) /\ UNCHANGED <<indexes, behind, documents, blocked>>
    /\ UNCHANGED now

\* Slips: source and target are mixed up; a source that is kept stays behind its aliases.
MoveAliasesBack(p) ==
    /\ At(p, "move")
    /\ behind' = [a \in Aliases |->
           IF a \in job[p].aliases THEN (behind[a] \ {job[p].target}) \cup {job[p].source}
                                   ELSE behind[a]]
    /\ Stop(p)
    /\ UNCHANGED <<now, indexes, documents, blocked>>

MoveAliasesAttachOnly(p) ==
    /\ At(p, "move")
    /\ behind' = [a \in Aliases |->
           IF a \in job[p].aliases THEN behind[a] \cup {job[p].target} ELSE behind[a]]
    /\ Stop(p)
    /\ UNCHANGED <<now, indexes, documents, blocked>>

\* move_aliases: a source that is kept is detached in the same request.
MoveAliases(p) ==
    /\ At(p, "move")
    /\ behind' = IF /\ job[p].target \in indexes
                    /\ job[p].keep_source => job[p].source \in indexes
                 THEN [a \in Aliases |-> IF a \in job[p].aliases
                                         THEN (behind[a] \ {job[p].source}) \cup {job[p].target}
                                         ELSE behind[a]]
                 ELSE behind
    /\ Stop(p)
    /\ UNCHANGED <<now, indexes, documents, blocked>>

\* delete_indexes resolves its patterns first: here a name, or all indices of an alias.
BeginDelete(p) ==
    /\ Admin
    /\ \E doomed \in {{i} : i \in indexes} \cup {{i \in indexes : i.of = a} : a \in Aliases} :
        /\ doomed # {}
        /\ Begin(p, [stage |-> "delete", doomed |-> doomed])
    /\ UNCHANGED <<now, indexes, behind, documents, blocked>>

DeleteIndex(p) ==
    /\ At(p, "delete")
    /\ \E i \in job[p].doomed :
        IF i \in indexes
        THEN /\ Forget(i)
             /\ IF job[p].doomed = {i} THEN Stop(p)
                ELSE Continue(p, [job[p] EXCEPT !.doomed = @ \ {i}])
        ELSE Abort(p) /\ UNCHANGED <<indexes, behind, documents, blocked>>
    /\ UNCHANGED now

\* The command dies, a request raises, or a document was not accepted: an index is then
\* left half filled.
Fail(p) ==
    /\ stopped < MaxStops
    /\ job[p] # Idle
    /\ Abort(p)
    /\ UNCHANGED <<now, indexes, behind, documents, blocked>>

Export(p) ==
    \/ BeginExport(p)
    \/ CreateIndex(p)
    \/ ImportDocuments(p)
    \/ Refresh(p)
    \/ CheckBlocking(p)
    \/ ReadAlias(p)
    \/ SwapAliases(p)
    \/ ListStale(p)
    \/ DeleteStale(p)

Rename(p) ==
    \/ BeginRename(p)
    \/ BlockSource(p)
    \/ CloneIndex(p)
    \/ CloneFails(p)
    \/ RestoreSource(p)
    \/ UnblockTarget(p)
    \/ UnblockSource(p)
    \/ DeleteSource(p)
    \/ MoveAliases(p)

Next == \E p \in Procs :
    \/ Export(p)
    \/ Rename(p)
    \/ BeginDelete(p)
    \/ DeleteIndex(p)
    \/ Fail(p)

Spec == Init /\ [][Next]_vars

-----------------------------------------------------------------------------
ExportJob == [stage: {"create", "import", "refresh", "check", "read", "swap", "prune"},
              at: Times, types: SUBSET Aliases, keep: Keeps, todo: SUBSET Aliases,
              old: [Aliases -> SUBSET Index], stale: SUBSET Index]
RenameJob == [stage: {"block", "clone", "restore", "unblock_target", "unblock_source",
                      "delete_source", "move"},
              source: Index, target: Index, keep_source: BOOLEAN, aliases: SUBSET Aliases]
DeleteJob == [stage: {"delete"}, doomed: SUBSET Index]

TypeOK ==
    /\ now \in 0..MaxTime
    /\ indexes \subseteq Index
    /\ behind \in [Aliases -> SUBSET indexes]
    /\ DOMAIN content \subseteq indexes
    /\ \A i \in DOMAIN content : content[i] \in Times
    /\ searchable \subseteq indexes
    /\ blocked \subseteq indexes
    /\ job \in [Procs -> ExportJob \cup RenameJob \cup DeleteJob \cup {Idle}]
    /\ stopped \in Nat

Exporting(p) == job[p] \in ExportJob
Quiescent == \A p \in Procs : job[p] = Idle

\* No alias "resolves to both generations at once" (oar_opensearch_export.py:252): every
\* document is found once.
OneGeneration == \A a \in Aliases : \A i, k \in behind[a] : i = k

\* "Searches never see an empty or half-filled index" (README.md:258): an alias only ever
\* resolves to indices of its own that an export filled, all of whose documents are
\* found, whatever stops half way and whatever is renamed or deleted.
ServesComplete == \A a \in Aliases : \A i \in behind[a] : i.of = a /\ i \in Complete

\* "No window in which an alias is missing" (oar_opensearch_export.py:252): no step of an
\* export, the pruning of old generations included, takes an alias its last index.
NeverMissing ==
    [][\A a \in Aliases : behind[a] # {} /\ behind'[a] = {} =>
           \E p \in Procs : At(p, "delete") \/ At(p, "delete_source")]_vars

\* "Or -- across the three indices -- mixes generations" (oar_opensearch_export.py:253):
\* two aliases that show the same export come to show different ones only by a run that
\* --types restricts, which leaves one of them out, or by an operator.
Shows(a, t) == behind[a] # {} /\ \A i \in behind[a] : i \in DOMAIN content /\ content[i] = t
Together(a, b) == \E t \in Times : Shows(a, t) /\ Shows(b, t)
NeverMixes ==
    [][\A a, b \in Aliases :
          Together(a, b) /\ behind'[a] # {} /\ behind'[b] # {} /\ ~ Together(a, b)' =>
              \E p \in Procs : At(p, "swap") /\ ~ ({a, b} \subseteq job[p].types)]_vars

\* "So that a bad export can be rolled back by pointing the alias back at the previous
\* index" (oar_opensearch_export.py:69): pruning that keeps a generation keeps the one
\* the aliases were moved away from.
PreviousIsKept ==
    \A p \in Procs : Exporting(p) /\ At(p, "prune") /\ job[p].keep > 0 =>
        \A a \in job[p].types : job[p].old[a] \subseteq indexes
\* It holds as long as every export ends: a generation left half filled counts as one
\* of those to keep.
PreviousIsKeptIfAllEnd == stopped = 0 => PreviousIsKept

\* "Rename source to target, carrying any aliases over" (oar_opensearch_indexes.py:141):
\* they resolve to the new name alone, be the source kept or deleted; and neither index
\* stays read-only, also when the clone failed.
RenameCarriesOver ==
    [][\A p \in Procs : At(p, "move") /\ job'[p] = Idle /\ stopped' = 0 =>
          \A a \in job[p].aliases : behind'[a] = {job[p].target}]_vars
NothingLeftBlocked == Quiescent /\ stopped = 0 => blocked = {}

=============================================================================
