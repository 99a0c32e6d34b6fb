---------------------------- MODULE Harvest_proofs ----------------------------
(***************************************************************************)
(* Whatever the harvest tables hold, the mappings say and the commands are *)
(* stopped at: a record is behind at most one row, every foreign key leads *)
(* to a row, and a cleanup spares the rows of the records there are.       *)
(***************************************************************************)
EXTENDS Harvest, ImportRun_proofs, SequenceTheorems, FiniteSetTheorems

-----------------------------------------------------------------------------
(***************************************************************************)
(* The work for a record.  An id is given to a row only right after it was *)
(* taken from all rows, or, for a dataset, after the row was found as well; *)
(* and an id that was taken is given.                                      *)
(***************************************************************************)
Firsts == {"takeProvider", "takeDataset"}
Half == {"takeProvider", "takeAttribution", "takeDataset", "dataset"}
Prepares(v, w) ==
    /\ w.op = "organization" => v.op = "takeProvider" /\ v.id = w.id
    /\ w.op = "attribution" => v.op = "takeAttribution" /\ v.id = w.id
    /\ w.op = "dataset" => v.op = "takeDataset" /\ v.id = w.id
    /\ w.op = "save" => v.op = "dataset" /\ v.id = w.id
    /\ w.op = "unlink" => v.op = "save"
    /\ w.op = "link" => v.op = "unlink"
    /\ w.op = "takeAttribution" => v.op \in {"organization", "attribution"}
    /\ w.op \notin Firsts
    /\ v.op = "takeProvider" => w.op = "organization"
    /\ v.op = "takeAttribution" => w.op = "attribution"
    /\ v.op = "takeDataset" => w.op = "dataset"
    /\ v.op = "dataset" => w.op = "save"
Ordered(work) ==
    /\ \A n \in 1..(Len(work) - 1) : Prepares(work[n], work[n + 1])
    /\ work # <<>> => work[Len(work)].op \notin Half
InOrder(work) == Ordered(work) /\ (work # <<>> => Head(work).op \in Firsts)

Ids == {r.id : r \in Providers} \cup UNION {IdsOf(r) : r \in Providers}
ProviderWrites ==
    [op: {"takeProvider", "organization", "takeAttribution", "attribution"}, id: Ids]
DatasetWrites == {DatasetWork(r)[n] : r \in Sets, n \in 1..5}
Writes == ProviderWrites \cup DatasetWrites

LEMMA ProviderWorkInOrder ==
  ASSUME NEW r \in Providers
  PROVE  /\ ProviderWork(r) \in Seq(Writes) /\ InOrder(ProviderWork(r))
         /\ Head(ProviderWork(r)) = [op |-> "takeProvider", id |-> r.id]
         /\ \E n \in 1..Len(ProviderWork(r)) :
              ProviderWork(r)[n].op = "organization" /\ ProviderWork(r)[n].id = r.id
         /\ \A a \in IdsOf(r) : \E n \in 1..Len(ProviderWork(r)) :
              ProviderWork(r)[n].op = "attribution" /\ ProviderWork(r)[n].id = a
  <1> DEFINE ids == r.attributions
             first == <<[op |-> "takeProvider", id |-> r.id], [op |-> "organization", id |-> r.id]>>
             rest == AttributionWork(ids)
  <1>1. ids \in Seq(IdsOf(r)) /\ IdsOf(r) \subseteq Ids
    BY HarvestAssumption DEF Providers, Ids
  <1>2. first \in Seq(ProviderWrites) /\ Len(first) = 2
    BY DEF ProviderWrites, Ids
  <1>20. \A a \in IdsOf(r) : \E n \in 1..Len(ids) : ids[n] = a
    BY <1>1, LenProperties DEF IdsOf
  <1> HIDE DEF ids
  <1>3. /\ Len(ids) \in Nat
        /\ rest = [n \in 1..(2 * Len(ids)) |->
             [op |-> IF n % 2 = 1 THEN "takeAttribution" ELSE "attribution",
              id |-> ids[(n + 1) \div 2]]]
    BY <1>1, LenProperties DEF AttributionWork
  <1>4. \A n \in 1..(2 * Len(ids)) : ids[(n + 1) \div 2] \in Ids
    <2> TAKE n \in 1..(2 * Len(ids))
    <2>1. (n + 1) \div 2 \in 1..Len(ids)
      BY <1>3
    <2>2. QED
      BY <1>1, <2>1, LenProperties
  <1>5. rest \in Seq(ProviderWrites) /\ Len(rest) = 2 * Len(ids)
    BY <1>3, <1>4 DEF ProviderWrites
  <1>6. \A n \in 1..Len(rest) :
          /\ rest[n].op = IF n % 2 = 1 THEN "takeAttribution" ELSE "attribution"
          /\ rest[n].id = ids[(n + 1) \div 2]
    BY <1>3, <1>5
  <1>7. /\ first[1] = [op |-> "takeProvider", id |-> r.id] /\ first[1].op = "takeProvider"
        /\ first[2].op = "organization" /\ first[1].id = first[2].id /\ first[2].id = r.id
    OBVIOUS
  <1>8. ProviderWork(r) = first \o rest
    BY DEF ProviderWork, ids
  <1> HIDE DEF first, rest
  <1>9. /\ first \o rest \in Seq(ProviderWrites)
        /\ Len(first \o rest) = 2 + Len(rest)
        /\ \A n \in 1..(2 + Len(rest)) :
             (first \o rest)[n] = IF n <= 2 THEN first[n] ELSE rest[n - 2]
    <2>1. /\ first \o rest \in Seq(ProviderWrites)
          /\ Len(first \o rest) = Len(first) + Len(rest)
          /\ \A n \in 1..(Len(first) + Len(rest)) :
               (first \o rest)[n] = IF n <= Len(first) THEN first[n] ELSE rest[n - Len(first)]
      BY <1>2, <1>5, ConcatProperties, Zenon
    <2>2. QED
      BY <1>2, <2>1, Zenon
  <1> DEFINE work == first \o rest
             size == Len(rest)
  <1>10. /\ work \in Seq(ProviderWrites) /\ Len(work) = 2 + size /\ size \in Nat
         /\ work[1] = first[1] /\ work[2] = first[2]
         /\ \A n \in 1..size : work[n + 2] = rest[n]
    <2>1. size \in Nat
      BY <1>3, <1>5
    <2>2. /\ work \in Seq(ProviderWrites) /\ Len(work) = 2 + size
          /\ \A n \in 1..(2 + size) : work[n] = IF n <= 2 THEN first[n] ELSE rest[n - 2]
      BY <1>9
    <2> HIDE DEF work, size
    <2>3. 1 \in 1..(2 + size) /\ 2 \in 1..(2 + size)
      BY <2>1
    <2>4. ASSUME NEW n \in 1..size
          PROVE  work[n + 2] = rest[n]
      <3>1. n + 2 \in 1..(2 + size) /\ ~ (n + 2 <= 2) /\ (n + 2) - 2 = n
        BY <2>1, <2>4
      <3>2. QED
        BY <2>2, <3>1
    <2>5. QED
      BY <2>1, <2>2, <2>3, <2>4
  <1>11. \A n \in 1..size : /\ rest[n].op = IF n % 2 = 1 THEN "takeAttribution" ELSE "attribution"
                            /\ rest[n].id = ids[(n + 1) \div 2]
    BY <1>6
  <1>19. size = 2 * Len(ids)
    BY <1>5
  <1> HIDE DEF work, size
  <1>12. ASSUME NEW n \in 1..(Len(work) - 1)
         PROVE  Prepares(work[n], work[n + 1])
    <2>1. CASE n = 1
      BY <1>7, <1>10, <2>1 DEF Prepares, Firsts
    <2>2. CASE n = 2
      <3>1. 1 \in 1..size /\ n + 1 = 1 + 2
        BY <1>10, <2>2
      <3>2. work[n + 1] = rest[1]
        BY <1>10, <3>1
      <3>3. rest[1].op = "takeAttribution"
        BY <1>11, <3>1
      <3>4. QED
        BY <1>7, <1>10, <2>2, <3>2, <3>3 DEF Prepares, Firsts
    <2>3. CASE n > 2
      <3> DEFINE m == n - 2
      <3>1. m \in 1..size /\ m + 1 \in 1..size /\ n = m + 2 /\ n + 1 = (m + 1) + 2
        BY <1>10, <2>3
      <3> HIDE DEF m
      <3>2. work[n] = rest[m] /\ work[n + 1] = rest[m + 1]
        BY <1>10, <3>1
      <3>3. CASE (m + 1) % 2 = 1
        <4>1. m % 2 # 1
          BY <1>10, <3>1, <3>3
        <4>2. rest[m].op = "attribution" /\ rest[m + 1].op = "takeAttribution"
          BY <1>11, <3>1, <3>3, <4>1
        <4>3. QED
          BY <3>2, <4>2 DEF Prepares, Firsts
      <3>4. CASE (m + 1) % 2 # 1
        <4>1. m % 2 = 1 /\ (m + 1) \div 2 = ((m + 1) + 1) \div 2
          BY <1>10, <3>1, <3>4
        <4>2. /\ rest[m].op = "takeAttribution" /\ rest[m + 1].op = "attribution"
              /\ rest[m].id = rest[m + 1].id
          BY <1>11, <3>1, <3>4, <4>1
        <4>3. QED
          BY <3>2, <4>2 DEF Prepares, Firsts
      <3>5. QED
        BY <3>3, <3>4
    <2>4. QED
      BY <1>10, <2>1, <2>2, <2>3
  <1>13. Head(work) = work[1] /\ Head(work).op \in Firsts
    BY <1>7, <1>10 DEF Firsts
  <1>18. work[Len(work)].op \notin Half
    <2>1. CASE size = 0
      BY <1>7, <1>10, <2>1 DEF Half
    <2>2. CASE size # 0
      <3>1. size \in 1..size /\ Len(work) = size + 2 /\ size % 2 # 1
        BY <1>3, <1>10, <1>19, <2>2
      <3>2. work[Len(work)] = rest[size] /\ rest[size].op = "attribution"
        BY <1>10, <1>11, <3>1
      <3>3. QED
        BY <3>2 DEF Half
    <2>3. QED
      BY <2>1, <2>2
  <1>21. ASSUME NEW a \in IdsOf(r)
         PROVE  \E n \in 1..Len(work) : work[n].op = "attribution" /\ work[n].id = a
    <2>1. PICK n \in 1..Len(ids) : ids[n] = a
      BY <1>20, <1>21
    <2>2. PICK m \in 1..size : m % 2 # 1 /\ (m + 1) \div 2 = n
      <3>1. 2 * n \in 1..size /\ (2 * n) % 2 # 1 /\ (2 * n + 1) \div 2 = n
        BY <1>3, <1>19
      <3>2. QED
        BY <3>1
    <2>3. m + 2 \in 1..Len(work) /\ work[m + 2] = rest[m]
      BY <1>10
    <2>4. rest[m].op = "attribution" /\ rest[m].id = a
      BY <1>11, <2>1, <2>2
    <2>5. QED
      BY <2>3, <2>4
  <1>22. 2 \in 1..Len(work) /\ work[2].op = "organization" /\ work[2].id = r.id
    BY <1>7, <1>10
  <1>14. ProviderWork(r) = work
    BY <1>8 DEF work
  <1>15. work \in Seq(Writes)
    BY <1>10 DEF Writes
  <1>16. InOrder(work)
    BY <1>12, <1>13, <1>18 DEF InOrder, Ordered
  <1>23. Head(work) = [op |-> "takeProvider", id |-> r.id]
    BY <1>7, <1>10, <1>13
  <1>17. QED
    BY <1>14, <1>15, <1>16, <1>21, <1>22, <1>23

LEMMA DatasetWorkInOrder ==
  ASSUME NEW r \in Sets
  PROVE  DatasetWork(r) \in Seq(Writes) /\ InOrder(DatasetWork(r))
  <1> DEFINE work == DatasetWork(r)
  <1>1. \A n \in 1..5 : work[n] \in Writes
    BY DEF Writes, DatasetWrites
  <1>2. /\ Len(work) = 5 /\ Head(work) = work[1] /\ work # <<>>
        /\ work = <<work[1], work[2], work[3], work[4], work[5]>>
        /\ work[1].op = "takeDataset" /\ work[2].op = "dataset" /\ work[3].op = "save"
        /\ work[4].op = "unlink" /\ work[5].op = "link"
        /\ work[1].id = work[2].id /\ work[2].id = work[3].id
    <2>1. /\ Len(work) = 5 /\ Head(work) = work[1] /\ work # <<>>
          /\ work = <<work[1], work[2], work[3], work[4], work[5]>>
      BY DEF DatasetWork
    <2>2. /\ work[1].op = "takeDataset" /\ work[2].op = "dataset" /\ work[3].op = "save"
          /\ work[4].op = "unlink" /\ work[5].op = "link"
      BY DEF DatasetWork
    <2>3. work[1].id = work[2].id /\ work[2].id = work[3].id
      BY DEF DatasetWork
    <2>4. QED
      BY <2>1, <2>2, <2>3
  <1> HIDE DEF work
  <1>3. work \in Seq(Writes)
    <2>1. \A a, b, c, d, e \in Writes : <<a, b, c, d, e>> \in Seq(Writes)
      OBVIOUS
    <2>2. <<work[1], work[2], work[3], work[4], work[5]>> \in Seq(Writes)
      BY <1>1, <2>1
    <2>3. QED
      BY <1>2, <2>2
  <1>4. ASSUME NEW n \in 1..4
        PROVE  Prepares(work[n], work[n + 1])
    <2>1. n = 1 \/ n = 2 \/ n = 3 \/ n = 4
      BY <1>4
    <2>2. QED
      BY <1>2, <2>1 DEF Prepares, Firsts
  <1>5. QED
    BY <1>2, <1>3, <1>4 DEF InOrder, Ordered, Firsts, Half, work

-----------------------------------------------------------------------------
(***************************************************************************)
(* The invariant: when a row is about to get an id, no row has it.         *)
(***************************************************************************)
Free(w) ==
    /\ w.op = "organization" => Holders(organization, w.id) = {}
    /\ w.op = "attribution" => Holders(attribution, w.id) = {}
    /\ w.op = "dataset" => Holders(dataset, w.id) = {}
    /\ w.op = "save" => Holders(dataset, w.id) = {}
    /\ w.op \in {"save", "unlink", "link"} => run.current \in DOMAIN dataset

Columns == {"part", "input", "work", "todo", "current"}
RunOk ==
    /\ Columns \subseteq DOMAIN run
    /\ run.input \in Harvests
    /\ run.part = "organizations" => run.todo \subseteq Providers
    /\ run.part = "datasets" => run.todo \subseteq Sets
    /\ run.work \in Seq(Writes) /\ Ordered(run.work)
    /\ run.work # <<>> => Free(Head(run.work))

Single ==
    /\ OneRowPerRecord
    /\ Rows(organization) /\ Rows(attribution) /\ Rows(dataset)

Inv == harvest \in Harvests /\ Single /\ (run = Idle \/ RunOk)

LEMMA InitInv == Init => Inv
  BY DEF Init, Inv, Single, OneRowPerRecord, OneHolder, Rows, OrganizationRow, DatasetRow

LEMMA NoWork == <<>> \in Seq(Writes) /\ Ordered(<<>>)
  BY DEF Ordered

\* A step that is done with the first write, and leaves what the next one needs.
LEMMA WorkGoesOn ==
  ASSUME RunOk, run.work # <<>>,
         Done \/ \E row : DoneWith(row),
         \A w \in Writes : Prepares(Op, w) => Free(w)'
  PROVE  RunOk'
  <1>1. /\ run.work \in Seq(Writes) /\ Ordered(run.work)
        /\ Columns \subseteq DOMAIN run
    BY DEF RunOk
  <1>2. /\ run'.work = Tail(run.work)
        /\ run'.part = run.part /\ run'.input = run.input /\ run'.todo = run.todo
        /\ Columns \subseteq DOMAIN run'
    BY <1>1 DEF Done, DoneWith, Columns
  <1>3. /\ Tail(run.work) \in Seq(Writes) /\ Len(Tail(run.work)) = Len(run.work) - 1
        /\ \A i \in 1..Len(Tail(run.work)) : Tail(run.work)[i] = run.work[i + 1]
        /\ Len(run.work) \in Nat \ {0} /\ Op = run.work[1]
    BY <1>1, HeadTailProperties, EmptySeq DEF Op
  <1> DEFINE rest == Tail(run.work)
  <1> HIDE DEF rest
  <1>4. /\ rest \in Seq(Writes) /\ Len(rest) = Len(run.work) - 1
        /\ \A i \in 1..Len(rest) : rest[i] = run.work[i + 1]
    BY <1>3 DEF rest
  <1>5. Ordered(rest)
    <2>1. ASSUME NEW n \in 1..(Len(rest) - 1)
          PROVE  Prepares(rest[n], rest[n + 1])
      <3>1. n \in 1..Len(rest) /\ n + 1 \in 1..Len(rest) /\ n + 1 \in 1..(Len(run.work) - 1)
        BY <1>3, <1>4, <2>1
      <3>2. QED
        BY <1>1, <1>4, <3>1 DEF Ordered
    <2>2. ASSUME rest # <<>>
          PROVE  rest[Len(rest)].op \notin Half
      <3>1. Len(rest) \in 1..Len(rest) /\ Len(rest) + 1 = Len(run.work)
        BY <1>3, <1>4, <2>2, EmptySeq
      <3>2. rest[Len(rest)] = run.work[Len(run.work)]
        BY <1>4, <3>1
      <3>3. QED
        BY <1>1, <3>2 DEF Ordered
    <2>3. QED
      BY <2>1, <2>2 DEF Ordered
  <1>6. ASSUME rest # <<>>, NEW w, w = Head(rest)
        PROVE  Free(w)'
    <2>1. 1 \in 1..Len(rest) /\ 1 \in 1..(Len(run.work) - 1) /\ Head(rest) = rest[1]
      BY <1>3, <1>4, <1>6, EmptySeq
    <2>2. Head(rest) = run.work[2] /\ Head(rest) \in Writes
      BY <1>4, <1>6, <2>1, HeadTailProperties
    <2>3. Prepares(Op, Head(rest))
      BY <1>1, <1>3, <2>1, <2>2 DEF Ordered
    <2>4. QED
      BY <1>6, <2>2, <2>3
  <1>7. run'.work = rest
    BY <1>2 DEF rest
  <1>8. run'.work # <<>> => Free(Head(run.work))'
    BY <1>6, <1>7 DEF Free
  <1>9. QED
    BY <1>2, <1>4, <1>5, <1>7, <1>8 DEF RunOk

\* Taking up a record, and entering a part.
LEMMA TakenUp ==
  ASSUME Inv, run # Idle, NEW r, NEW ids, NEW work \in Seq(Writes), InOrder(work),
         TakeUp(r, ids, work)
  PROVE  Single' /\ RunOk'
  <1>1. RunOk
    BY DEF Inv
  <1>2. /\ Columns \subseteq DOMAIN run'
        /\ run'.part = run.part /\ run'.input = run.input /\ run'.todo = run.todo \ {r}
        /\ run'.work = work
    BY <1>1 DEF TakeUp, RunOk
  <1>3. work # <<>> => Free(Head(run.work))'
    BY <1>2 DEF InOrder, Firsts, Free
  <1>4. RunOk'
    BY <1>1, <1>2, <1>3 DEF RunOk, InOrder
  <1>5. Single'
    BY DEF Inv, Single, OneRowPerRecord, TakeUp, tables
  <1>6. QED
    BY <1>4, <1>5

LEMMA PartsEntered ==
  ASSUME Inv, EnterProviders \/ EnterDatasets
  PROVE  Single' /\ RunOk'
  <1>1. RunOk /\ run.work = <<>> /\ UNCHANGED tables
    BY DEF Inv, EnterProviders, EnterDatasets, Entering, PartEnded, Ended, Running
  <1>2. run.input.providers \subseteq Providers /\ run.input.datasets \subseteq Sets
    BY <1>1 DEF RunOk, Providers, Sets
  <1>3. ASSUME EnterProviders PROVE RunOk'
    <2>1. PICK t : Enter("organizations", <<"organizations", "attributions">>,
                         [organization |-> t], run.input.providers)
      BY <1>3 DEF EnterProviders
    <2>2. /\ Columns \subseteq DOMAIN run'
          /\ run'.part = "organizations" /\ run'.input = run.input
          /\ run'.todo = run.input.providers /\ run'.work = run.work
      BY <1>1, <2>1 DEF Enter, RunOk
    <2>3. QED
      BY <1>1, <1>2, <2>2 DEF RunOk
  <1>4. ASSUME EnterDatasets PROVE RunOk'
    <2>1. PICK d, u : Enter("datasets", <<"datasets">>, [dataset |-> d, unit |-> u],
                            run.input.datasets)
      BY <1>4 DEF EnterDatasets
    <2>2. /\ Columns \subseteq DOMAIN run'
          /\ run'.part = "datasets" /\ run'.input = run.input
          /\ run'.todo = run.input.datasets /\ run'.work = run.work
      BY <1>1, <2>1 DEF Enter, RunOk
    <2>3. QED
      BY <1>1, <1>2, <2>2 DEF RunOk
  <1>5. Single'
    BY <1>1 DEF Inv, Single, OneRowPerRecord, tables
  <1>6. QED
    BY <1>3, <1>4, <1>5

LEMMA RecordsTakenUp ==
  ASSUME Inv, NextProvider \/ NextDataset
  PROVE  Single' /\ RunOk'
  <1>1. RunOk /\ run # Idle
    BY DEF Inv, NextProvider, NextDataset, Ready, Running
  <1>2. <<>> \in Seq(Writes) /\ InOrder(<<>>)
    BY NoWork DEF InOrder
  <1>3. CASE NextProvider
    <2>1. PICK r \in run.todo : IF r.parses THEN TakeUp(r, {r.id} \cup IdsOf(r), ProviderWork(r))
                                ELSE TakeUp(r, {}, <<>>)
      BY <1>3 DEF NextProvider
    <2>2. ProviderWork(r) \in Seq(Writes) /\ InOrder(ProviderWork(r))
      BY <1>1, <1>3, ProviderWorkInOrder DEF RunOk, NextProvider, Ready
    <2>3. QED
      BY <1>1, <1>2, <2>1, <2>2, TakenUp
  <1>4. CASE NextDataset
    <2>1. PICK r \in run.todo : IF r.parses THEN TakeUp(r, {r.id}, DatasetWork(r))
                                ELSE TakeUp(r, {}, <<>>)
      BY <1>4 DEF NextDataset
    <2>2. DatasetWork(r) \in Seq(Writes) /\ InOrder(DatasetWork(r))
      BY <1>1, <1>4, DatasetWorkInOrder DEF RunOk, NextDataset, Ready
    <2>3. QED
      BY <1>1, <1>2, <2>1, <2>2, TakenUp
  <1>5. QED
    BY <1>3, <1>4

-----------------------------------------------------------------------------
\* The writes, one lemma per action.
LEMMA AtWork ==
  ASSUME Inv, NEW op, Doing(op)
  PROVE  RunOk /\ run.work # <<>> /\ Op.op = op /\ Free(Op)
  BY DEF Inv, Doing, Running, Op, RunOk

LEMMA TakeProviderIdKeeps ==
  ASSUME Inv, TakeProviderId
  PROVE  Single' /\ RunOk'
  <1>1. RunOk /\ run.work # <<>> /\ Op.op = "takeProvider"
    BY AtWork DEF TakeProviderId
  <1>2. /\ organization' = RemoveSourceId(organization, Op.id)
        /\ UNCHANGED <<attribution, dataset>>
    BY DEF TakeProviderId, SaveOrganizations
  <1>3. /\ OneHolder(organization') /\ Rows(organization')
        /\ Holders(organization', Op.id) = {}
    BY <1>2, RemovedId DEF Inv, Single, OneRowPerRecord
  <1>4. Single'
    BY <1>2, <1>3 DEF Inv, Single, OneRowPerRecord
  <1>5. \A w \in Writes : Prepares(Op, w) => Free(w)'
    BY <1>1, <1>3 DEF Prepares, Free
  <1>6. QED
    BY <1>1, <1>4, <1>5, WorkGoesOn DEF TakeProviderId

LEMMA TakeAttributionIdKeeps ==
  ASSUME Inv, TakeAttributionId
  PROVE  Single' /\ RunOk'
  <1>1. RunOk /\ run.work # <<>> /\ Op.op = "takeAttribution"
    BY AtWork DEF TakeAttributionId
  <1>2. /\ attribution' = RemoveSourceId(attribution, Op.id)
        /\ UNCHANGED <<organization, dataset>>
    BY DEF TakeAttributionId, SaveAttributions
  <1>3. /\ OneHolder(attribution') /\ Rows(attribution')
        /\ Holders(attribution', Op.id) = {}
    BY <1>2, RemovedId DEF Inv, Single, OneRowPerRecord
  <1>4. Single'
    BY <1>2, <1>3 DEF Inv, Single, OneRowPerRecord
  <1>5. \A w \in Writes : Prepares(Op, w) => Free(w)'
    BY <1>1, <1>3 DEF Prepares, Free
  <1>6. QED
    BY <1>1, <1>4, <1>5, WorkGoesOn DEF TakeAttributionId

LEMMA TakeDatasetIdKeeps ==
  ASSUME Inv, TakeDatasetId
  PROVE  Single' /\ RunOk'
  <1>1. RunOk /\ run.work # <<>> /\ Op.op = "takeDataset"
    BY AtWork DEF TakeDatasetId
  <1>2. /\ dataset' = RemoveSourceId(dataset, Op.id)
        /\ UNCHANGED <<organization, attribution>>
    BY DEF TakeDatasetId, SaveDatasets
  <1>3. OneHolder(dataset') /\ Rows(dataset') /\ Holders(dataset', Op.id) = {}
    BY <1>2, RemovedId DEF Inv, Single, OneRowPerRecord
  <1>4. Single'
    BY <1>2, <1>3 DEF Inv, Single, OneRowPerRecord
  <1>5. \A w \in Writes : Prepares(Op, w) => Free(w)'
    BY <1>1, <1>3 DEF Prepares, Free
  <1>6. QED
    BY <1>1, <1>4, <1>5, WorkGoesOn DEF TakeDatasetId

LEMMA SaveProviderKeeps ==
  ASSUME Inv, SaveProvider
  PROVE  Single' /\ (run' = Idle \/ RunOk')
  <1>1. RunOk /\ run.work # <<>> /\ Op.op = "organization" /\ Holders(organization, Op.id) = {}
    BY AtWork DEF SaveProvider, Free
  <1>2. OneHolder(organization) /\ Rows(organization)
    BY DEF Inv, Single, OneRowPerRecord
  <1>3. \A w \in Writes : Prepares(Op, w) => Free(w)'
    BY <1>1 DEF Prepares, Free
  <1>4. ASSUME NEW o, NEW row, DoneWith(o), SaveOrganizations(Put(organization, o, row)),
               "ids" \in DOMAIN row,
               row.ids \subseteq {Op.id} \cup
                 (IF o \in DOMAIN organization THEN organization[o].ids ELSE {})
        PROVE  Single' /\ RunOk'
    <2>1. organization' = Put(organization, o, row) /\ UNCHANGED <<attribution, dataset>>
      BY <1>4 DEF SaveOrganizations
    <2>2. OneHolder(organization') /\ Rows(organization')
      BY <1>1, <1>2, <1>4, <2>1, PutRow
    <2>3. Single'
      BY <2>1, <2>2 DEF Inv, Single, OneRowPerRecord
    <2>4. QED
      BY <1>1, <1>3, <1>4, <2>3, WorkGoesOn
  <1> DEFINE p == Op.id
             m == OrganizationMapping(p)
             o == IF IsMapped(m) THEN m.target ELSE p
             new == OrganizationRow(Bod, {p}, "theirs")
             old == AddSourceId(Harvested(organization[o], m), p)
  <1>5. CASE /\ o \in IF IsMapped(m) THEN DOMAIN organization ELSE RowsOf(organization, Bod)
             /\ SaveOrganizations(Put(organization, o, old))
             /\ DoneWith(o)
    <2>1. o \in DOMAIN organization
      BY <1>5 DEF RowsOf
    <2>2. "ids" \in DOMAIN old /\ old.ids = organization[o].ids \cup {p}
      <3> HIDE DEF m, o
      <3>1. "ids" \in DOMAIN organization[o]
        BY <1>2, <2>1 DEF Rows
      <3>2. QED
        BY <3>1, GivenId
    <2> HIDE DEF m, o, old
    <2>3. QED
      BY <1>4, <1>5, <2>1, <2>2
  <1>6. CASE /\ o \notin DOMAIN organization
             /\ SaveOrganizations(Put(organization, o, new)) /\ DoneWith(o)
    <2>1. "ids" \in DOMAIN new /\ new.ids = {p}
      BY DEF OrganizationRow
    <2> HIDE DEF m, o, new
    <2>2. QED
      BY <1>4, <1>6, <2>1
  <1>7. CASE Raise
    BY <1>7 DEF Raise, Inv, Single, OneRowPerRecord, tables
  <1>8. QED
    BY <1>5, <1>6, <1>7 DEF SaveProvider

LEMMA SaveAttributionKeeps ==
  ASSUME Inv, SaveAttribution
  PROVE  Single' /\ (run' = Idle \/ RunOk')
  <1>1. RunOk /\ run.work # <<>> /\ Op.op = "attribution" /\ Holders(attribution, Op.id) = {}
    BY AtWork DEF SaveAttribution, Free
  <1>2. OneHolder(attribution) /\ Rows(attribution)
    BY DEF Inv, Single, OneRowPerRecord
  <1>3. \A w \in Writes : Prepares(Op, w) => Free(w)'
    BY <1>1 DEF Prepares, Free
  <1> DEFINE a == Op.id
  <1>4. ASSUME NEW row, Done, SaveAttributions(Put(attribution, a, row)), "ids" \in DOMAIN row,
               row.ids \subseteq
                 {a} \cup (IF a \in DOMAIN attribution THEN attribution[a].ids ELSE {})
        PROVE  Single' /\ RunOk'
    <2>1. attribution' = Put(attribution, a, row) /\ UNCHANGED <<organization, dataset>>
      BY <1>4 DEF SaveAttributions
    <2>2. OneHolder(attribution') /\ Rows(attribution')
      BY <1>1, <1>2, <1>4, <2>1, PutRow
    <2>3. Single'
      BY <2>1, <2>2 DEF Inv, Single, OneRowPerRecord
    <2>4. QED
      BY <1>1, <1>3, <1>4, <2>3, WorkGoesOn
  <1>5. CASE /\ OwnAttribution(a) /\ Done
             /\ SaveAttributions(Put(attribution, a, AddSourceId(attribution[a], a)))
    <2>1. a \in DOMAIN attribution
      BY <1>5 DEF OwnAttribution, RowsOf
    <2>2. /\ "ids" \in DOMAIN AddSourceId(attribution[a], a)
          /\ AddSourceId(attribution[a], a).ids = attribution[a].ids \cup {a}
      BY <1>2, <2>1, GivenId DEF Rows
    <2>3. QED
      BY <1>4, <1>5, <2>1, <2>2
  <1>6. CASE Done /\ SaveAttributions(Put(attribution, a, AttributionRow(Bod, {a}, run.current)))
    <2>1. /\ "ids" \in DOMAIN AttributionRow(Bod, {a}, run.current)
          /\ AttributionRow(Bod, {a}, run.current).ids = {a}
      BY DEF AttributionRow
    <2>2. QED
      BY <1>4, <1>6, <2>1
  <1>7. CASE Raise
    BY <1>7 DEF Raise, Inv, Single, OneRowPerRecord, tables
  <1>8. QED
    BY <1>5, <1>6, <1>7 DEF SaveAttribution

LEMMA FindDatasetKeeps ==
  ASSUME Inv, FindDataset
  PROVE  Single' /\ (run' = Idle \/ RunOk')
  <1>1. RunOk /\ run.work # <<>> /\ Op.op = "dataset" /\ Holders(dataset, Op.id) = {}
    BY AtWork DEF FindDataset, Free
  <1>2. Columns \subseteq DOMAIN run
    BY <1>1 DEF RunOk
  <1>3. ASSUME NEW d \in DOMAIN dataset', DoneWith(d), Holders(dataset', Op.id) = {}
        PROVE  RunOk'
    <2>1. run'.current = d
      BY <1>2, <1>3 DEF DoneWith, Columns
    <2>2. \A w \in Writes : Prepares(Op, w) => Free(w)'
      BY <1>1, <1>3, <2>1 DEF Prepares, Free
    <2>3. QED
      BY <1>1, <1>3, <2>2, WorkGoesOn
  <1>4. ASSUME UNCHANGED tables
        PROVE  Single' /\ dataset' = dataset
    BY <1>4 DEF tables, Inv, Single, OneRowPerRecord
  <1> DEFINE i == Op.id
             m == DatasetMapping(i)
             new == DatasetRow(Bod, {}, "theirs")
  <1>5. CASE m.target \in DOMAIN dataset /\ DoneWith(m.target) /\ UNCHANGED tables
    BY <1>1, <1>3, <1>4, <1>5
  <1>6. CASE i \in RowsOf(dataset, Bod) /\ DoneWith(i) /\ UNCHANGED tables
    BY <1>1, <1>3, <1>4, <1>6 DEF RowsOf
  <1>7. CASE i \notin DOMAIN dataset /\ DoneWith(i) /\ SaveDataset(i, new)
    <2>1. "ids" \in DOMAIN new /\ new.ids = {}
      BY DEF DatasetRow
    <2>2. dataset' = Put(dataset, i, new) /\ UNCHANGED <<organization, attribution>>
      BY <1>7 DEF SaveDataset, SaveDatasets
    <2> HIDE DEF new
    <2>3. OneHolder(dataset') /\ Rows(dataset')
      BY <1>1, <2>1, <2>2, PutRow DEF Inv, Single, OneRowPerRecord
    <2>4. Single'
      BY <2>2, <2>3 DEF Inv, Single, OneRowPerRecord
    <2>5. i \in DOMAIN dataset' /\ Holders(dataset', i) = {}
      BY <1>1, <2>1, <2>2 DEF Put, Holders
    <2>6. QED
      BY <1>3, <1>7, <2>4, <2>5
  <1>8. CASE Raise
    BY <1>8, <1>4 DEF Raise
  <1>9. QED
    BY <1>5, <1>6, <1>7, <1>8 DEF FindDataset

LEMMA StoreDatasetKeeps ==
  ASSUME Inv, StoreDataset
  PROVE  Single' /\ RunOk'
  <1>1. /\ RunOk /\ run.work # <<>> /\ Op.op = "save" /\ Holders(dataset, Op.id) = {}
        /\ run.current \in DOMAIN dataset
    BY AtWork DEF StoreDataset, Free
  <1> DEFINE d == run.current
             given == Harvested(WithId(d, Op.id), DatasetMapping(Op.id))
             row == [given EXCEPT !.attribution = AttributionAfter(d, Op.attribution)]
  <1>2. "ids" \in DOMAIN given /\ given.ids = dataset[d].ids \cup {Op.id}
    <2>1. "ids" \in DOMAIN dataset[d]
      BY <1>1 DEF Inv, Single, Rows
    <2>2. QED
      BY <2>1, GivenId DEF WithId
  <1>3. dataset' = Put(dataset, d, row) /\ UNCHANGED <<organization, attribution>> /\ Done
    BY DEF StoreDataset, SaveDataset, SaveDatasets
  <1> HIDE DEF given
  <1>4. "ids" \in DOMAIN row /\ row.ids = dataset[d].ids \cup {Op.id}
    BY <1>2
  <1> HIDE DEF row
  <1>5. OneHolder(dataset') /\ Rows(dataset')
    BY <1>1, <1>3, <1>4, PutRow DEF Inv, Single, OneRowPerRecord
  <1>6. Single'
    BY <1>3, <1>5 DEF Inv, Single, OneRowPerRecord
  <1>7. DOMAIN dataset' = DOMAIN dataset /\ run'.current = run.current
    BY <1>1, <1>3 DEF Put, Done, RunOk, Columns
  <1>8. \A w \in Writes : Prepares(Op, w) => Free(w)'
    BY <1>1, <1>7 DEF Prepares, Free
  <1>9. QED
    BY <1>1, <1>3, <1>6, <1>8, WorkGoesOn

LEMMA LinkKeeps ==
  ASSUME Inv, RunOk, run.work # <<>>, Op.op \in {"unlink", "link"},
         run.current \in DOMAIN dataset, NEW units, Done,
         SaveDataset(run.current, [dataset[run.current] EXCEPT !.units = units])
  PROVE  Single' /\ RunOk'
  <1> DEFINE d == run.current
             row == [dataset[d] EXCEPT !.units = units]
  <1>1. "ids" \in DOMAIN dataset[d]
    BY DEF Inv, Single, Rows
  <1>2. "ids" \in DOMAIN row /\ row.ids = dataset[d].ids
    BY <1>1
  <1>3. dataset' = Put(dataset, d, row) /\ UNCHANGED <<organization, attribution>>
    BY DEF SaveDataset, SaveDatasets
  <1> HIDE DEF row
  <1>4. OneHolder(dataset') /\ Rows(dataset')
    BY <1>2, <1>3, PutSameIds DEF Inv, Single, OneRowPerRecord
  <1>5. Single'
    BY <1>3, <1>4 DEF Inv, Single, OneRowPerRecord
  <1>6. DOMAIN dataset' = DOMAIN dataset /\ run'.current = run.current
    BY <1>3 DEF Put, Done, RunOk, Columns
  <1>7. \A w \in Writes : Prepares(Op, w) => Free(w)'
    BY <1>6 DEF Prepares, Free
  <1>8. QED
    BY <1>5, <1>7, WorkGoesOn

LEMMA OwnersKeep ==
  ASSUME Inv, UnlinkOwners \/ LinkOwner
  PROVE  Single' /\ RunOk'
  <1>1. /\ RunOk /\ run.work # <<>> /\ Op.op \in {"unlink", "link"}
        /\ run.current \in DOMAIN dataset
    BY AtWork DEF UnlinkOwners, LinkOwner, Free
  <1>2. CASE run' = [run EXCEPT !.work = <<>>] /\ UNCHANGED tables
    <2>1. Columns \subseteq DOMAIN run
      BY <1>1 DEF RunOk
    <2>2. /\ Columns \subseteq DOMAIN run' /\ run'.work = <<>>
          /\ run'.part = run.part /\ run'.input = run.input /\ run'.todo = run.todo
      BY <1>2, <2>1 DEF Columns
    <2>3. RunOk'
      BY <1>1, <2>2, NoWork DEF RunOk
    <2>4. Single'
      BY <1>2 DEF tables, Inv, Single, OneRowPerRecord
    <2>5. QED
      BY <2>3, <2>4
  <1>3. CASE \E units : Done /\ SaveDataset(run.current,
                                  [dataset[run.current] EXCEPT !.units = units])
    BY <1>1, <1>3, LinkKeeps
  <1>4. CASE UnlinkOwners
    <2> DEFINE d == run.current
    <2>1. CASE UnitFor(Op.id, Op.provider) = {}
      BY <1>2, <1>4, <2>1 DEF UnlinkOwners
    <2>2. CASE UnitFor(Op.id, Op.provider) # {}
      <3>1. Done /\ SaveDataset(d, [dataset[d] EXCEPT !.units = dataset[d].units \ Owners(d)])
        BY <1>4, <2>2 DEF UnlinkOwners
      <3>2. QED
        BY <1>1, <3>1, LinkKeeps
    <2>3. QED
      BY <2>1, <2>2
  <1>5. CASE LinkOwner
    <2> DEFINE d == run.current
    <2>1. PICK o : SaveDataset(d, [dataset[d] EXCEPT !.units =
                                     dataset[d].units \cup {UnitLink(Owner, o)}])
      BY <1>5 DEF LinkOwner
    <2>2. Done
      BY <1>5 DEF LinkOwner
    <2>3. QED
      BY <1>1, <2>1, <2>2, LinkKeeps
  <1>6. QED
    BY <1>4, <1>5

-----------------------------------------------------------------------------
\* The cleanup and its cascades take ids and rows away.
LEMMA CleanUpKeeps ==
  ASSUME Inv, CleanUp
  PROVE  Single' /\ (run' = Idle \/ RunOk')
  <1>1. /\ RunOk /\ run.work = <<>> /\ UNCHANGED run
        /\ OneHolder(organization) /\ Rows(organization)
        /\ OneHolder(attribution) /\ Rows(attribution)
        /\ OneHolder(dataset) /\ Rows(dataset)
    BY DEF CleanUp, CleanId, CleanRow, Cleaning, Ended, Running, Inv, Single, OneRowPerRecord
  <1>2. RunOk'
    BY <1>1 DEF RunOk
  <1>3. ASSUME NEW kind \in {"organizations", "attributions", "datasets"}, CleanId(kind)
        PROVE  Single'
    <2>1. PICK i : StripId(kind, i)
      BY <1>3 DEF CleanId
    <2>2. CASE kind = "organizations"
      <3>1. organization' = RemoveSourceId(organization, i) /\ UNCHANGED <<attribution, dataset>>
        BY <2>1, <2>2 DEF StripId
      <3>2. QED
        BY <1>1, <3>1, RemovedId DEF Single, OneRowPerRecord
    <2>3. CASE kind = "attributions"
      <3>1. attribution' = RemoveSourceId(attribution, i) /\ UNCHANGED <<organization, dataset>>
        BY <2>1, <2>3 DEF StripId
      <3>2. QED
        BY <1>1, <3>1, RemovedId DEF Single, OneRowPerRecord
    <2>4. CASE kind = "datasets"
      <3>1. dataset' = RemoveSourceId(dataset, i) /\ UNCHANGED <<organization, attribution>>
        BY <2>1, <2>4 DEF StripId
      <3>2. QED
        BY <1>1, <3>1, RemovedId DEF Single, OneRowPerRecord
    <2>5. QED
      BY <1>3, <2>2, <2>3, <2>4
  <1>4. ASSUME DOMAIN dataset' \subseteq DOMAIN dataset,
               \A d \in DOMAIN dataset' :
                 "ids" \in DOMAIN dataset'[d] /\ dataset'[d].ids = dataset[d].ids
        PROVE  OneHolder(dataset') /\ Rows(dataset')
    <2>1. \A d \in DOMAIN dataset' : dataset'[d].ids \subseteq dataset[d].ids
      BY <1>4
    <2>2. QED
      BY <1>1, <1>4, <2>1, FewerIds DEF Rows
  <1>5. ASSUME NEW kind \in {"organizations", "attributions", "datasets"}, CleanRow(kind)
        PROVE  Single'
    <2>1. PICK k : DeleteRow(kind, k)
      BY <1>5 DEF CleanRow
    <2>2. CASE kind = "organizations"
      <3> DEFINE lost == {a \in DOMAIN attribution : attribution[a].organization \in {k}}
      <3>1. /\ organization' = Without(organization, {k})
            /\ attribution' = Without(attribution, lost)
            /\ dataset' = [d \in DOMAIN dataset |->
                 [dataset[d] EXCEPT
                    !.attribution = IF @ \in lost THEN None ELSE @,
                    !.units = {l \in @ : l.to \notin {k}},
                    !.contacts = {l \in @ : l.to.organization \notin {k}}]]
        BY <2>1, <2>2 DEF DeleteRow, DeleteOrganizations
      <3> HIDE DEF lost
      <3>2. DOMAIN dataset' = DOMAIN dataset
        BY <3>1
      <3>3. ASSUME NEW d \in DOMAIN dataset
            PROVE  "ids" \in DOMAIN dataset'[d] /\ dataset'[d].ids = dataset[d].ids
        <4>1. "ids" \in DOMAIN dataset[d]
          BY <1>1 DEF Rows
        <4>2. dataset'[d] = [dataset[d] EXCEPT
                    !.attribution = IF @ \in lost THEN None ELSE @,
                    !.units = {l \in @ : l.to \notin {k}},
                    !.contacts = {l \in @ : l.to.organization \notin {k}}]
          BY <3>1
        <4>3. QED
          BY <4>1, <4>2
      <3>4. OneHolder(dataset') /\ Rows(dataset')
        BY <1>4, <3>2, <3>3
      <3>5. QED
        BY <1>1, <3>1, <3>4, WithoutRows DEF Single, OneRowPerRecord
    <2>3. CASE kind = "attributions"
      <3>1. /\ attribution' = Without(attribution, {k}) /\ UNCHANGED organization
            /\ dataset' = [d \in DOMAIN dataset |->
                 [dataset[d] EXCEPT !.attribution = IF @ \in {k} THEN None ELSE @]]
        BY <2>1, <2>3 DEF DeleteRow, DeleteAttributions
      <3>2. DOMAIN dataset' = DOMAIN dataset
        BY <3>1
      <3>3. ASSUME NEW d \in DOMAIN dataset
            PROVE  "ids" \in DOMAIN dataset'[d] /\ dataset'[d].ids = dataset[d].ids
        <4>1. "ids" \in DOMAIN dataset[d]
          BY <1>1 DEF Rows
        <4>2. dataset'[d] = [dataset[d] EXCEPT !.attribution = IF @ \in {k} THEN None ELSE @]
          BY <3>1
        <4>3. QED
          BY <4>1, <4>2
      <3>4. OneHolder(dataset') /\ Rows(dataset')
        BY <1>4, <3>2, <3>3
      <3>5. QED
        BY <1>1, <3>1, <3>4, WithoutRows DEF Single, OneRowPerRecord
    <2>4. CASE kind = "datasets"
      <3> DEFINE lost == {x \in DOMAIN distribution : distribution[x].dataset \in {k}}
      <3>1. /\ dataset' = [d \in DOMAIN dataset \ {k} |->
                 [dataset[d] EXCEPT !.partOf = @ \ {k},
                                    !.preferred = IF @ \in lost THEN None ELSE @]]
            /\ UNCHANGED <<organization, attribution>>
        BY <2>1, <2>4 DEF DeleteRow, DeleteDatasets
      <3> HIDE DEF lost
      <3>2. DOMAIN dataset' = DOMAIN dataset \ {k}
        BY <3>1
      <3>3. ASSUME NEW d \in DOMAIN dataset \ {k}
            PROVE  "ids" \in DOMAIN dataset'[d] /\ dataset'[d].ids = dataset[d].ids
        <4>1. "ids" \in DOMAIN dataset[d]
          BY <1>1 DEF Rows
        <4>2. dataset'[d] = [dataset[d] EXCEPT !.partOf = @ \ {k},
                                    !.preferred = IF @ \in lost THEN None ELSE @]
          BY <3>1
        <4>3. QED
          BY <4>1, <4>2
      <3>4. OneHolder(dataset') /\ Rows(dataset')
        BY <1>4, <3>2, <3>3
      <3>5. QED
        BY <1>1, <3>1, <3>4 DEF Single, OneRowPerRecord
    <2>5. QED
      BY <1>5, <2>2, <2>3, <2>4
  <1>6. QED
    BY <1>2, <1>3, <1>5 DEF CleanUp

LEMMA BeginKeeps ==
  ASSUME Inv, Begin
  PROVE  Single' /\ RunOk'
  <1>1. UNCHANGED tables
    BY DEF Begin, Start
  <1>2. Single'
    BY <1>1 DEF tables, Inv, Single, OneRowPerRecord
  <1>3. PICK o \in Options : Start(Bod, o.parts, o.clean, o.clean /\ o.parts = AllParts, harvest)
    BY DEF Begin
  <1>4. /\ Columns \subseteq DOMAIN run' /\ run'.part = "start" /\ run'.input = harvest
        /\ run'.work = <<>> /\ run'.todo = {}
    BY <1>3 DEF Start, Columns
  <1>5. RunOk'
    BY <1>4, NoWork DEF Inv, RunOk
  <1>6. QED
    BY <1>2, <1>5

LEMMA NextKeepsInv ==
  ASSUME Inv, [Next]_vars
  PROVE  Inv'
  <1>1. CASE UNCHANGED <<tables, run>> /\ harvest' \in Harvests
    <2>1. Single'
      BY <1>1 DEF tables, Inv, Single, OneRowPerRecord
    <2>2. run # Idle => RunOk'
      BY <1>1 DEF Inv, RunOk, Free, tables
    <2>3. QED
      BY <1>1, <2>1, <2>2 DEF Inv
  <1>2. CASE UNCHANGED vars
    BY <1>1, <1>2 DEF vars, Inv
  <1>3. CASE Publish \/ EditMappings
    BY <1>1, <1>3 DEF Publish, EditMappings, Inv
  <1>4. CASE Begin
    BY <1>4, BeginKeeps DEF Begin, Inv
  <1>5. CASE Step
    <2>1. harvest' = harvest
      BY <1>5 DEF Step
    <2>2. Single' /\ (run' = Idle \/ RunOk')
      BY <1>5, PartsEntered, RecordsTakenUp, TakeProviderIdKeeps, SaveProviderKeeps,
         TakeAttributionIdKeeps, SaveAttributionKeeps, TakeDatasetIdKeeps, FindDatasetKeeps,
         StoreDatasetKeeps, OwnersKeep, CleanUpKeeps
         DEF Step, ProviderStep, DatasetStep
    <2>3. QED
      BY <2>1, <2>2 DEF Inv
  <1>6. CASE End \/ Break
    <2>1. run' = Idle /\ UNCHANGED tables /\ harvest' = harvest
      BY <1>6 DEF End, Break, Finish, Stop, Raise
    <2>2. QED
      BY <2>1 DEF tables, Inv, Single, OneRowPerRecord
  <1>7. QED
    BY <1>2, <1>3, <1>4, <1>5, <1>6 DEF Next

\* However the tables and the mappings change and wherever a command is stopped, no two rows
\* of a kind remember the id of the same record.
THEOREM RecordsStaySingle == Spec => []OneRowPerRecord
  <1>1. Inv => OneRowPerRecord
    BY DEF Inv, Single
  <1>2. QED
    BY InitInv, NextKeepsInv, <1>1, PTL DEF Spec, Safety

-----------------------------------------------------------------------------
(***************************************************************************)
(* Keys that lead to rows.  A part looks up the organizations there are,   *)
(* and only the cleanup that ends it deletes any.                          *)
(***************************************************************************)
AttributionColumns == {"source", "ids", "organization"}
DatasetColumns ==
    {"source", "ids", "text", "attribution", "units", "contacts", "partOf", "preferred"}

AttributionFits(a, row, organizations) ==
    /\ DOMAIN row = AttributionColumns /\ row.ids \subseteq {a}
    /\ row.organization \in organizations
DatasetFits(row, organizations, attributions) ==
    /\ DOMAIN row = DatasetColumns
    /\ row.attribution \in attributions \cup {None}
    /\ \A l \in row.units : l = UnitLink(Owner, l.to) /\ l.to \in organizations
    /\ \A l, m \in row.units : l = m
Fits(organizations, attributions, datasets) ==
    /\ \A a \in DOMAIN attributions : AttributionFits(a, attributions[a], organizations)
    /\ \A d \in DOMAIN datasets : DatasetFits(datasets[d], organizations, DOMAIN attributions)
Stored == Fits(DOMAIN organization, attribution, dataset)

MappingsFit ==
    /\ DOMAIN mappings = DOMAIN MappingRows
    /\ \A k \in DOMAIN MappingRows : mappings[k] \subseteq MappingRows[k]

ProviderOps == {"takeProvider", "organization", "takeAttribution", "attribution"}
DatasetOps == {"takeDataset", "dataset", "save", "unlink", "link"}
AllColumns == Columns \cup {"source", "ahead", "clean", "lookup", "processed", "cleans"}
CleansOf(part) ==
    IF part = "organizations" THEN <<"organizations", "attributions">>
    ELSE IF part = "datasets" THEN <<"datasets">> ELSE <<>>

\* A write that is still to do.
Pending(op, i) == \E n \in 1..Len(run.work) : run.work[n].op = op /\ run.work[n].id = i

\* The rows the ids of the records are for.
ProviderRow(i) == RowFor(OrganizationMapping(i), i)
ProviderIds == {r.id : r \in Parsed(run.input.providers)}
ProviderRows == {ProviderRow(i) : i \in ProviderIds}
SetRow(i) == RowFor(DatasetMapping(i), i)

LookupsLead ==
    (run.todo # {} \/ run.work # <<>>) =>
      /\ run.part = "organizations" => Targets(run.lookup.organization, DOMAIN organization)
      /\ run.part = "datasets" => Targets(run.lookup.unit, DOMAIN organization)

\* The first write of the work belongs to the part, and finds what it needs.
Belongs(w) ==
    /\ w.op \in ProviderOps => run.part = "organizations"
    /\ w.op \in DatasetOps => run.part = "datasets"
    /\ w.op \in {"takeProvider", "organization"} => w.id \in ProviderIds
    /\ w.op \in {"takeDataset", "dataset"} => Pending("save", w.id)
Needs(w) ==
    /\ w.op \in {"takeAttribution", "attribution"} =>
         run.current \in ProviderRows \cap DOMAIN organization
    /\ w.op = "save" => run.current = SetRow(w.id)
    /\ w.op = "link" => dataset[run.current].units = {}

RunFits ==
    /\ AllColumns \subseteq DOMAIN run /\ run.source = Bod
    /\ run.part \in {"start", "organizations", "datasets"} /\ run.cleans = CleansOf(run.part)
    /\ run.part = "organizations" => run.todo \subseteq run.input.providers
    /\ run.part = "datasets" => run.todo \subseteq run.input.datasets
    /\ LookupsLead
    /\ run.work # <<>> => Belongs(Head(run.work)) /\ Needs(Head(run.work))

(***************************************************************************)
(* What has become of the records: each is still to do, or its ids were    *)
(* seen, and given to their rows or are about to be.                       *)
(***************************************************************************)
ProviderHeld(i) == Holders(organization, i) = {ProviderRow(i)}
AttributionHeld(a) ==
    /\ a \in DOMAIN attribution /\ a \in attribution[a].ids
    /\ attribution[a].organization \in ProviderRows
SetHeld(i) == Holders(dataset, i) = {SetRow(i)}

ProvidersHeld ==
    \A r \in Parsed(run.input.providers) \ run.todo :
      /\ {r.id} \cup IdsOf(r) \subseteq run.processed
      /\ Pending("organization", r.id) \/ ProviderHeld(r.id)
      /\ \A a \in IdsOf(r) : Pending("attribution", a) \/ AttributionHeld(a)
SetsHeld ==
    \A r \in Parsed(run.input.datasets) \ run.todo :
      r.id \in run.processed /\ (Pending("save", r.id) \/ SetHeld(r.id))
Held ==
    /\ run.part = "organizations" => ProvidersHeld
    /\ run.part = "datasets" => SetsHeld

Whole == Stored /\ MappingsFit /\ (run = Idle \/ (RunFits /\ Held))

\* Steps that leave the keys leading to rows.
LEMMA OrganizationsGrow ==
  ASSUME Stored, DOMAIN organization \subseteq DOMAIN organization',
         UNCHANGED <<attribution, dataset>>
  PROVE  Stored'
  BY DEF Stored, Fits, AttributionFits, DatasetFits

LEMMA AttributionPut ==
  ASSUME Stored, NEW a, NEW row, attribution' = Put(attribution, a, row),
         AttributionFits(a, row, DOMAIN organization), UNCHANGED <<organization, dataset>>
  PROVE  Stored'
  <1>1. /\ DOMAIN attribution' = DOMAIN attribution \cup {a} /\ attribution'[a] = row
        /\ \A b \in DOMAIN attribution \ {a} : attribution'[b] = attribution[b]
    BY DEF Put
  <1>2. \A b \in DOMAIN attribution' : AttributionFits(b, attribution'[b], DOMAIN organization)
    BY <1>1 DEF Stored, Fits
  <1>3. \A d \in DOMAIN dataset : DatasetFits(dataset[d], DOMAIN organization, DOMAIN attribution')
    BY <1>1 DEF Stored, Fits, DatasetFits
  <1>4. QED
    BY <1>2, <1>3 DEF Stored, Fits

LEMMA DatasetPut ==
  ASSUME Stored, NEW d, NEW row, dataset' = Put(dataset, d, row),
         DatasetFits(row, DOMAIN organization, DOMAIN attribution),
         UNCHANGED <<organization, attribution>>
  PROVE  Stored'
  <1>1. /\ DOMAIN dataset' = DOMAIN dataset \cup {d} /\ dataset'[d] = row
        /\ \A e \in DOMAIN dataset \ {d} : dataset'[e] = dataset[e]
    BY DEF Put
  <1>2. QED
    BY <1>1 DEF Stored, Fits

\* A dataset row some of whose links are taken away, as deletions do.
LEMMA DatasetFewerLinks ==
  ASSUME NEW row, NEW new, NEW organizations, NEW attributions, NEW organizations2,
         NEW attributions2, DatasetFits(row, organizations, attributions),
         DOMAIN new = DatasetColumns, new.units \subseteq row.units,
         new.attribution \in {row.attribution, None},
         new.attribution \in attributions2 \cup {None},
         \A l \in new.units : l.to \in organizations2
  PROVE  DatasetFits(new, organizations2, attributions2)
  BY DEF DatasetFits

LEMMA AttributionIdTaken ==
  ASSUME Stored, NEW i, attribution' = RemoveSourceId(attribution, i),
         UNCHANGED <<organization, dataset>>
  PROVE  /\ Stored' /\ DOMAIN attribution' = DOMAIN attribution
         /\ \A a \in DOMAIN attribution :
              /\ attribution'[a].organization = attribution[a].organization
              /\ attribution'[a].ids = attribution[a].ids \ {i}
  <1>1. /\ DOMAIN attribution' = DOMAIN attribution
        /\ \A a \in DOMAIN attribution : attribution'[a] = [attribution[a] EXCEPT !.ids = @ \ {i}]
    BY DEF RemoveSourceId
  <1>2. ASSUME NEW a \in DOMAIN attribution
        PROVE  /\ AttributionFits(a, attribution'[a], DOMAIN organization)
               /\ attribution'[a].organization = attribution[a].organization
               /\ attribution'[a].ids = attribution[a].ids \ {i}
    <2>1. PICK old, new : old = attribution[a] /\ new = attribution'[a]
      OBVIOUS
    <2>2. AttributionFits(a, old, DOMAIN organization) /\ new = [old EXCEPT !.ids = @ \ {i}]
      BY <1>1, <2>1 DEF Stored, Fits
    <2>3. /\ DOMAIN new = AttributionColumns /\ new.ids = old.ids \ {i}
          /\ new.organization = old.organization
      BY <2>2 DEF AttributionFits, AttributionColumns
    <2>4. QED
      BY <2>1, <2>2, <2>3 DEF AttributionFits
  <1>3. Stored'
    BY <1>1, <1>2 DEF Stored, Fits
  <1>4. QED
    BY <1>1, <1>2, <1>3

LEMMA DatasetIdTaken ==
  ASSUME Stored, NEW i, dataset' = RemoveSourceId(dataset, i),
         UNCHANGED <<organization, attribution>>
  PROVE  Stored'
  <1>1. /\ DOMAIN dataset' = DOMAIN dataset
        /\ \A d \in DOMAIN dataset : dataset'[d] = [dataset[d] EXCEPT !.ids = @ \ {i}]
    BY DEF RemoveSourceId
  <1>2. ASSUME NEW d \in DOMAIN dataset
        PROVE  DatasetFits(dataset'[d], DOMAIN organization, DOMAIN attribution)
    <2>1. PICK old, new : old = dataset[d] /\ new = dataset'[d]
      OBVIOUS
    <2>2. /\ DatasetFits(old, DOMAIN organization, DOMAIN attribution)
          /\ new = [old EXCEPT !.ids = @ \ {i}]
      BY <1>1, <2>1 DEF Stored, Fits
    <2>3. /\ DOMAIN new = DatasetColumns /\ new.units = old.units
          /\ new.attribution = old.attribution
      BY <2>2 DEF DatasetFits, DatasetColumns
    <2>4. QED
      BY <2>1, <2>2, <2>3 DEF DatasetFits
  <1>3. QED
    BY <1>1, <1>2 DEF Stored, Fits

-----------------------------------------------------------------------------
\* The deletions of the cleanup.
LEMMA OrganizationDeleted ==
  ASSUME Stored, NEW k, DeleteOrganizations({k})
  PROVE  /\ Stored' /\ DOMAIN dataset' = DOMAIN dataset
         /\ organization' = Without(organization, {k})
         /\ \A a \in DOMAIN attribution :
              attribution[a].organization # k =>
                a \in DOMAIN attribution' /\ attribution'[a] = attribution[a]
  <1> DEFINE lost == {a \in DOMAIN attribution : attribution[a].organization \in {k}}
  <1>1. /\ organization' = Without(organization, {k})
        /\ attribution' = Without(attribution, lost)
        /\ dataset' = [d \in DOMAIN dataset |->
             [dataset[d] EXCEPT
                !.attribution = IF @ \in lost THEN None ELSE @,
                !.units = {l \in @ : l.to \notin {k}},
                !.contacts = {l \in @ : l.to.organization \notin {k}}]]
    BY DEF DeleteOrganizations
  <1>2. /\ DOMAIN organization' = DOMAIN organization \ {k}
        /\ DOMAIN attribution' = DOMAIN attribution \ lost
        /\ \A a \in DOMAIN attribution' : attribution'[a] = attribution[a]
        /\ DOMAIN dataset' = DOMAIN dataset
    BY <1>1 DEF Without
  <1>3. \A a \in DOMAIN attribution' : AttributionFits(a, attribution'[a], DOMAIN organization')
    BY <1>2 DEF Stored, Fits, AttributionFits
  <1>4. \A a \in DOMAIN attribution :
              attribution[a].organization # k =>
                a \in DOMAIN attribution' /\ attribution'[a] = attribution[a]
    BY <1>2
  <1>5. PICK L : L = lost
    OBVIOUS
  <1>6. ASSUME NEW d \in DOMAIN dataset
        PROVE  DatasetFits(dataset'[d], DOMAIN organization', DOMAIN attribution')
    <2>1. PICK old, new : old = dataset[d] /\ new = dataset'[d]
      OBVIOUS
    <2>2. /\ DatasetFits(old, DOMAIN organization, DOMAIN attribution)
          /\ new = [old EXCEPT
                !.attribution = IF @ \in L THEN None ELSE @,
                !.units = {l \in @ : l.to \notin {k}},
                !.contacts = {l \in @ : l.to.organization \notin {k}}]
      BY <1>1, <1>5, <2>1 DEF Stored, Fits
    <2>3. DOMAIN old = DatasetColumns
      BY <2>2 DEF DatasetFits
    <2>4. /\ DOMAIN new = DatasetColumns /\ new.units = {l \in old.units : l.to \notin {k}}
          /\ new.attribution = (IF old.attribution \in L THEN None ELSE old.attribution)
      BY <2>2, <2>3 DEF DatasetColumns
    <2>5. /\ new.attribution \in {old.attribution, None}
          /\ new.attribution \in DOMAIN attribution' \cup {None}
          /\ new.units \subseteq old.units
          /\ \A l \in new.units : l.to \in DOMAIN organization'
      BY <1>2, <1>5, <2>2, <2>4 DEF DatasetFits
    <2>6. QED
      BY <2>1, <2>2, <2>4, <2>5, DatasetFewerLinks
  <1>7. Stored'
    BY <1>2, <1>3, <1>6 DEF Stored, Fits
  <1>8. QED
    BY <1>1, <1>2, <1>4, <1>7

LEMMA AttributionDeleted ==
  ASSUME Stored, NEW k, DeleteAttributions({k})
  PROVE  /\ Stored' /\ DOMAIN dataset' = DOMAIN dataset /\ UNCHANGED organization
         /\ attribution' = Without(attribution, {k})
  <1>1. /\ attribution' = Without(attribution, {k}) /\ UNCHANGED organization
        /\ dataset' = [d \in DOMAIN dataset |->
             [dataset[d] EXCEPT !.attribution = IF @ \in {k} THEN None ELSE @]]
    BY DEF DeleteAttributions
  <1>2. /\ DOMAIN attribution' = DOMAIN attribution \ {k}
        /\ \A a \in DOMAIN attribution' : attribution'[a] = attribution[a]
        /\ DOMAIN dataset' = DOMAIN dataset
    BY <1>1 DEF Without
  <1>3. \A a \in DOMAIN attribution' : AttributionFits(a, attribution'[a], DOMAIN organization')
    BY <1>1, <1>2 DEF Stored, Fits, AttributionFits
  <1>4. ASSUME NEW d \in DOMAIN dataset
        PROVE  DatasetFits(dataset'[d], DOMAIN organization', DOMAIN attribution')
    <2>1. PICK old, new : old = dataset[d] /\ new = dataset'[d]
      OBVIOUS
    <2>2. /\ DatasetFits(old, DOMAIN organization, DOMAIN attribution)
          /\ new = [old EXCEPT !.attribution = IF @ \in {k} THEN None ELSE @]
      BY <1>1, <2>1 DEF Stored, Fits
    <2>3. DOMAIN old = DatasetColumns
      BY <2>2 DEF DatasetFits
    <2>4. /\ DOMAIN new = DatasetColumns /\ new.units = old.units
          /\ new.attribution = (IF old.attribution = k THEN None ELSE old.attribution)
      BY <2>2, <2>3 DEF DatasetColumns
    <2>5. /\ new.attribution \in {old.attribution, None}
          /\ new.attribution \in DOMAIN attribution' \cup {None}
          /\ new.units \subseteq old.units
          /\ \A l \in new.units : l.to \in DOMAIN organization'
      BY <1>1, <1>2, <2>2, <2>4 DEF DatasetFits
    <2>6. QED
      BY <2>1, <2>2, <2>4, <2>5, DatasetFewerLinks
  <1>5. Stored'
    BY <1>2, <1>3, <1>4 DEF Stored, Fits
  <1>6. QED
    BY <1>1, <1>2, <1>5

LEMMA DatasetDeleted ==
  ASSUME Stored, NEW k, DeleteDatasets({k})
  PROVE  /\ Stored' /\ UNCHANGED <<organization, attribution>>
         /\ DOMAIN dataset' = DOMAIN dataset \ {k}
         /\ \A d \in DOMAIN dataset' : dataset'[d].ids = dataset[d].ids
  <1> DEFINE lost == {x \in DOMAIN distribution : distribution[x].dataset \in {k}}
  <1>1. /\ dataset' = [d \in DOMAIN dataset \ {k} |->
             [dataset[d] EXCEPT !.partOf = @ \ {k},
                                !.preferred = IF @ \in lost THEN None ELSE @]]
        /\ UNCHANGED <<organization, attribution>>
    BY DEF DeleteDatasets
  <1>2. PICK L : L = lost
    OBVIOUS
  <1>3. DOMAIN dataset' = DOMAIN dataset \ {k}
    BY <1>1
  <1>4. ASSUME NEW d \in DOMAIN dataset'
        PROVE  /\ DatasetFits(dataset'[d], DOMAIN organization, DOMAIN attribution)
               /\ dataset'[d].ids = dataset[d].ids
    <2>1. PICK old, new : old = dataset[d] /\ new = dataset'[d]
      OBVIOUS
    <2>2. /\ DatasetFits(old, DOMAIN organization, DOMAIN attribution)
          /\ new = [old EXCEPT !.partOf = @ \ {k}, !.preferred = IF @ \in L THEN None ELSE @]
      BY <1>1, <1>2, <1>3, <2>1 DEF Stored, Fits
    <2>3. DOMAIN old = DatasetColumns
      BY <2>2 DEF DatasetFits
    <2>4. /\ DOMAIN new = DatasetColumns /\ new.units = old.units
          /\ new.attribution = old.attribution /\ new.ids = old.ids
      BY <2>2, <2>3 DEF DatasetColumns
    <2>5. QED
      BY <2>1, <2>2, <2>4 DEF DatasetFits
  <1>5. QED
    BY <1>1, <1>3, <1>4 DEF Stored, Fits

-----------------------------------------------------------------------------
\* Who holds an id after a write.
LEMMA HoldersTaken ==
  ASSUME NEW table, NEW i, Rows(table)
  PROVE  /\ Holders(RemoveSourceId(table, i), i) = {}
         /\ \A j : j # i => Holders(RemoveSourceId(table, i), j) = Holders(table, j)
  <1> DEFINE new == RemoveSourceId(table, i)
  <1>1. /\ DOMAIN new = DOMAIN table
        /\ \A k \in DOMAIN table : new[k] = [table[k] EXCEPT !.ids = @ \ {i}]
    BY DEF RemoveSourceId
  <1> HIDE DEF new
  <1>2. ASSUME NEW k \in DOMAIN table
        PROVE  new[k].ids = table[k].ids \ {i}
    <2>1. "ids" \in DOMAIN table[k] /\ new[k] = [table[k] EXCEPT !.ids = @ \ {i}]
      BY <1>1 DEF Rows
    <2>2. QED
      BY <2>1
  <1>3. QED
    BY <1>1, <1>2 DEF Holders, new

LEMMA HoldersGiven ==
  ASSUME NEW table, NEW key, NEW row, NEW i, Holders(table, i) = {},
         row.ids = {i} \cup (IF key \in DOMAIN table THEN table[key].ids ELSE {})
  PROVE  /\ Holders(Put(table, key, row), i) = {key}
         /\ \A j : j # i => Holders(Put(table, key, row), j) = Holders(table, j)
  <1> DEFINE new == Put(table, key, row)
  <1>1. /\ DOMAIN new = DOMAIN table \cup {key} /\ new[key] = row
        /\ \A k \in DOMAIN table \ {key} : new[k] = table[k]
    BY DEF Put
  <1> HIDE DEF new
  <1>2. \A k \in DOMAIN table : i \notin table[k].ids
    BY DEF Holders
  <1>3. Holders(new, i) = {key}
    BY <1>1, <1>2 DEF Holders
  <1>4. ASSUME NEW j, j # i
        PROVE  Holders(new, j) = Holders(table, j)
    <2>1. CASE key \in DOMAIN table
      BY <1>1, <1>4, <2>1 DEF Holders
    <2>2. CASE key \notin DOMAIN table
      BY <1>1, <1>4, <2>2 DEF Holders
    <2>3. QED
      BY <2>1, <2>2
  <1>5. QED
    BY <1>3, <1>4 DEF new

LEMMA HoldersKept ==
  ASSUME NEW table, NEW key, NEW row,
         row.ids = (IF key \in DOMAIN table THEN table[key].ids ELSE {})
  PROVE  \A j : Holders(Put(table, key, row), j) = Holders(table, j)
  <1> DEFINE new == Put(table, key, row)
  <1>1. /\ DOMAIN new = DOMAIN table \cup {key} /\ new[key] = row
        /\ \A k \in DOMAIN table \ {key} : new[k] = table[k]
    BY DEF Put
  <1> HIDE DEF new
  <1>2. ASSUME NEW j
        PROVE  Holders(new, j) = Holders(table, j)
    <2>1. CASE key \in DOMAIN table
      BY <1>1, <2>1 DEF Holders
    <2>2. CASE key \notin DOMAIN table
      BY <1>1, <2>2 DEF Holders
    <2>3. QED
      BY <2>1, <2>2
  <1>3. QED
    BY <1>2 DEF new

\* Deleting a row without ids.
LEMMA HoldersWithout ==
  ASSUME NEW table, NEW k, k \in DOMAIN table => table[k].ids = {}
  PROVE  \A j : Holders(Without(table, {k}), j) = Holders(table, j)
  <1> DEFINE new == Without(table, {k})
  <1>1. DOMAIN new = DOMAIN table \ {k} /\ \A l \in DOMAIN new : new[l] = table[l]
    BY DEF Without
  <1> HIDE DEF new
  <1>2. QED
    BY <1>1 DEF Holders, new

-----------------------------------------------------------------------------
\* What a command has not to do any more after a write.
LEMMA Advances ==
  ASSUME RunOk, RunFits, run.work # <<>>, Done \/ \E row : DoneWith(row)
  PROVE  /\ AllColumns \subseteq DOMAIN run' /\ run'.work = Tail(run.work)
         /\ run'.part = run.part /\ run'.input = run.input /\ run'.todo = run.todo
         /\ run'.lookup = run.lookup /\ run'.processed = run.processed
         /\ run'.cleans = run.cleans /\ run'.source = run.source
  BY DEF RunFits, AllColumns, Columns, Done, DoneWith

LEMMA RestOfWork ==
  ASSUME RunOk, run.work # <<>>, run'.work = Tail(run.work)
  PROVE  /\ \A op, i : Pending(op, i) => (Op.op = op /\ Op.id = i) \/ Pending(op, i)'
         /\ \A i : i = Op.id =>
              /\ Op.op = "takeProvider" => Pending("organization", i)'
              /\ Op.op = "takeAttribution" => Pending("attribution", i)'
         /\ run'.work # <<>> => Head(run'.work) \in Writes /\ Prepares(Op, Head(run'.work))
  <1>1. run.work \in Seq(Writes) /\ Ordered(run.work)
    BY DEF RunOk
  <1> DEFINE rest == run'.work
  <1>2. /\ rest \in Seq(Writes) /\ Len(rest) = Len(run.work) - 1
        /\ \A i \in 1..Len(rest) : rest[i] = run.work[i + 1]
        /\ Len(run.work) \in Nat \ {0} /\ Op = run.work[1]
    BY <1>1, HeadTailProperties, EmptySeq DEF Op
  <1> HIDE DEF rest
  <1>3. ASSUME NEW op, NEW i, Pending(op, i), ~ (Op.op = op /\ Op.id = i)
        PROVE  \E n \in 1..Len(rest) : rest[n].op = op /\ rest[n].id = i
    <2>1. PICK n \in 1..Len(run.work) : run.work[n].op = op /\ run.work[n].id = i
      BY <1>3 DEF Pending
    <2>2. n # 1
      BY <1>2, <1>3, <2>1
    <2>3. n - 1 \in 1..Len(rest) /\ (n - 1) + 1 = n
      BY <1>2, <2>2
    <2>4. rest[n - 1] = run.work[n]
      BY <1>2, <2>3
    <2>5. QED
      BY <2>1, <2>3, <2>4
  <1>4. ASSUME rest # <<>>
        PROVE  /\ 1 \in 1..Len(rest) /\ Head(rest) = rest[1] /\ rest[1] \in Writes
               /\ Prepares(Op, rest[1])
    <2>1. 1 \in 1..Len(rest) /\ 1 \in 1..(Len(run.work) - 1) /\ Head(rest) = rest[1]
      BY <1>2, <1>4, EmptySeq
    <2>2. rest[1] = run.work[1 + 1] /\ rest[1] \in Writes
      BY <1>2, <2>1, ElementOfSeq
    <2>3. QED
      BY <1>1, <1>2, <2>1, <2>2 DEF Ordered
  <1>5. ASSUME Op.op \in Half
        PROVE  rest # <<>>
    <2>1. SUFFICES ASSUME rest = <<>> PROVE FALSE
      OBVIOUS
    <2>2. Len(run.work) = 1
      BY <1>2, <2>1
    <2>3. Op.op \notin Half
      BY <1>1, <1>2, <2>2 DEF Ordered
    <2>4. QED
      BY <1>5, <2>3
  <1>6. ASSUME NEW op, Op.op \in Half, \A w : Prepares(Op, w) => w.op = op /\ w.id = Op.id
        PROVE  \E n \in 1..Len(rest) : rest[n].op = op /\ rest[n].id = Op.id
    <2>1. 1 \in 1..Len(rest) /\ Prepares(Op, rest[1])
      BY <1>4, <1>5, <1>6
    <2>2. rest[1].op = op /\ rest[1].id = Op.id
      BY <1>6, <2>1
    <2>3. QED
      BY <2>1, <2>2
  <1>7. /\ Op.op = "takeProvider" => \A w : Prepares(Op, w) => w.op = "organization" /\ w.id = Op.id
        /\ Op.op = "takeAttribution" =>
             \A w : Prepares(Op, w) => w.op = "attribution" /\ w.id = Op.id
    BY DEF Prepares
  <1>8. \A op, i : (\E n \in 1..Len(rest) : rest[n].op = op /\ rest[n].id = i) <=> Pending(op, i)'
    BY DEF Pending, rest
  <1>9. \A op, i : Pending(op, i) => (Op.op = op /\ Op.id = i) \/ Pending(op, i)'
    <2> TAKE op, i
    <2>1. HAVE Pending(op, i)
    <2>2. CASE ~ (Op.op = op /\ Op.id = i)
      <3>1. \E n \in 1..Len(rest) : rest[n].op = op /\ rest[n].id = i
        BY <1>3, <2>1, <2>2
      <3>2. QED
        BY <1>8, <3>1, Zenon
    <2>3. QED
      BY <2>2
  <1>10. \A op, i : /\ Op.op \in Half /\ i = Op.id
                    /\ \A w : Prepares(Op, w) => w.op = op /\ w.id = Op.id
                    => Pending(op, i)'
    <2> TAKE op, i
    <2>1. HAVE /\ Op.op \in Half /\ i = Op.id
               /\ \A w : Prepares(Op, w) => w.op = op /\ w.id = Op.id
    <2>2. \E n \in 1..Len(rest) : rest[n].op = op /\ rest[n].id = i
      BY <1>6, <2>1
    <2>3. QED
      BY <1>8, <2>2, Zenon
  <1>11. \A i : i = Op.id =>
              /\ Op.op = "takeProvider" => Pending("organization", i)'
              /\ Op.op = "takeAttribution" => Pending("attribution", i)'
    BY <1>7, <1>10 DEF Half
  <1>12. QED
    BY <1>4, <1>9, <1>11 DEF rest

-----------------------------------------------------------------------------
\* What stays as it is while a record is written.
LEMMA SameRows ==
  ASSUME run'.lookup = run.lookup, run'.input = run.input
  PROVE  /\ ProviderIds' = ProviderIds /\ ProviderRows' = ProviderRows
         /\ \A i : ProviderRow(i)' = ProviderRow(i)
         /\ \A i : SetRow(i)' = SetRow(i)
  <1>1. \A i : ProviderRow(i)' = ProviderRow(i)
    BY DEF ProviderRow, RowFor, OrganizationMapping
  <1>2. \A i : SetRow(i)' = SetRow(i)
    BY DEF SetRow, RowFor, DatasetMapping
  <1>3. ProviderIds' = ProviderIds
    BY DEF ProviderIds, Parsed
  <1>4. ProviderRows' = ProviderRows
    BY <1>1, <1>3 DEF ProviderRows
  <1>5. QED
    BY <1>1, <1>2, <1>3, <1>4

LEMMA HeldGoesOn ==
  ASSUME RunOk, RunFits, Held, run.work # <<>>, Done \/ \E row : DoneWith(row),
         run.part = "organizations" =>
           /\ \A i : Pending("organization", i) \/ ProviderHeld(i) =>
                       Pending("organization", i)' \/ ProviderHeld(i)'
           /\ \A a : Pending("attribution", a) \/ AttributionHeld(a) =>
                       Pending("attribution", a)' \/ AttributionHeld(a)',
         run.part = "datasets" =>
           \A i : Pending("save", i) \/ SetHeld(i) => Pending("save", i)' \/ SetHeld(i)'
  PROVE  Held'
  <1>1. /\ run'.part = run.part /\ run'.input = run.input /\ run'.todo = run.todo
        /\ run'.processed = run.processed
    BY Advances
  <1>2. ASSUME run.part = "organizations" PROVE ProvidersHeld'
    BY <1>1, <1>2 DEF Held, ProvidersHeld, Parsed
  <1>3. ASSUME run.part = "datasets" PROVE SetsHeld'
    BY <1>1, <1>3 DEF Held, SetsHeld, Parsed
  <1>4. QED
    BY <1>1, <1>2, <1>3 DEF Held

LEMMA WholeGoesOn ==
  ASSUME RunOk, RunFits, run.work # <<>>, Done \/ \E row : DoneWith(row),
         Stored', MappingsFit, UNCHANGED mappings, Held',
         DOMAIN organization \subseteq DOMAIN organization',
         \A w \in Writes : Prepares(Op, w) => Needs(w)'
  PROVE  Whole'
  <1>1. /\ AllColumns \subseteq DOMAIN run' /\ run'.work = Tail(run.work)
        /\ run'.part = run.part /\ run'.input = run.input /\ run'.todo = run.todo
        /\ run'.lookup = run.lookup
        /\ run'.cleans = run.cleans /\ run'.source = run.source
    BY Advances
  <1>2. LookupsLead'
    BY <1>1 DEF RunFits, LookupsLead, Targets
  <1>3. ASSUME run'.work # <<>>, NEW w, w = Head(run'.work)
        PROVE  Belongs(w)' /\ Needs(w)'
    <2>1. w \in Writes /\ Prepares(Op, w)
      BY <1>1, <1>3, RestOfWork
    <2>2. Needs(w)'
      BY <2>1
    <2>3. Belongs(Op)
      BY DEF RunFits, Op
    <2>4. /\ w.op \in ProviderOps => run'.part = "organizations"
          /\ w.op \in DatasetOps => run'.part = "datasets"
      BY <1>1, <2>1, <2>3 DEF Prepares, Belongs, ProviderOps, DatasetOps, Firsts
    <2>5. w.op \in {"takeProvider", "organization"} => w.id \in ProviderIds'
      <3>1. ProviderIds' = ProviderIds
        BY <1>1, SameRows
      <3>2. QED
        BY <2>1, <2>3, <3>1 DEF Prepares, Belongs, Firsts
    <2>6. w.op \in {"takeDataset", "dataset"} => Pending("save", w.id)'
      <3>1. SUFFICES ASSUME w.op \in {"takeDataset", "dataset"} PROVE Pending("save", w.id)'
        OBVIOUS
      <3>2. Op.op = "takeDataset" /\ Op.id = w.id
        BY <2>1, <3>1 DEF Prepares, Firsts
      <3>3. Pending("save", w.id)
        BY <2>3, <3>2 DEF Belongs
      <3>4. QED
        BY <1>1, <3>2, <3>3, RestOfWork
    <2>7. QED
      BY <2>2, <2>4, <2>5, <2>6 DEF Belongs
  <1>4. run'.work # <<>> => (Belongs(Head(run.work)) /\ Needs(Head(run.work)))'
    BY <1>3
  <1>5. RunFits'
    BY <1>1, <1>2, <1>4 DEF RunFits
  <1>6. MappingsFit'
    BY DEF MappingsFit
  <1>7. QED
    BY <1>5, <1>6 DEF Whole

LEMMA AtWorkWhole ==
  ASSUME Inv, Whole, NEW op, Doing(op)
  PROVE  /\ RunOk /\ RunFits /\ Held /\ Stored /\ MappingsFit
         /\ run.work # <<>> /\ Op.op = op
         /\ Belongs(Op) /\ Needs(Op) /\ Free(Op)
         /\ Rows(organization) /\ Rows(attribution) /\ Rows(dataset)
  <1>1. run # Idle
    BY DEF Doing, Running
  <1>2. RunOk /\ run.work # <<>> /\ Op.op = op /\ Free(Op)
    BY AtWork
  <1>3. QED
    BY <1>1, <1>2 DEF Whole, RunFits, Op, Inv, Single

-----------------------------------------------------------------------------
\* The writes, one lemma per action.
LEMMA TakeProviderIdWhole ==
  ASSUME Inv, Whole, TakeProviderId
  PROVE  Whole'
  <1>1. PICK p : p = Op.id
    OBVIOUS
  <1>2. /\ RunOk /\ RunFits /\ Held /\ Stored /\ MappingsFit /\ run.work # <<>>
        /\ Op.op = "takeProvider" /\ Belongs(Op) /\ Rows(organization)
    BY AtWorkWhole DEF TakeProviderId
  <1>3. /\ Done /\ UNCHANGED <<attribution, dataset>> /\ UNCHANGED mappings
        /\ organization' = RemoveSourceId(organization, p)
    BY <1>1 DEF TakeProviderId, SaveOrganizations
  <1>4. run'.work = Tail(run.work) /\ run'.lookup = run.lookup /\ run'.input = run.input
    BY <1>2, <1>3, Advances
  <1>5. DOMAIN organization' = DOMAIN organization
    BY <1>3 DEF RemoveSourceId
  <1>6. Stored'
    BY <1>2, <1>3, <1>5, OrganizationsGrow
  <1>7. \A i : Pending("organization", i) \/ ProviderHeld(i) =>
                 Pending("organization", i)' \/ ProviderHeld(i)'
    <2> TAKE i
    <2>1. CASE i = p
      BY <1>1, <1>2, <1>4, <2>1, RestOfWork
    <2>2. CASE i # p
      <3>1. Holders(organization', i) = Holders(organization, i)
        BY <1>2, <1>3, <2>2, HoldersTaken
      <3>2. ProviderHeld(i) => ProviderHeld(i)'
        BY <1>4, <3>1, SameRows DEF ProviderHeld
      <3>3. Pending("organization", i) => Pending("organization", i)'
        BY <1>2, <1>4, RestOfWork
      <3>4. QED
        BY <3>2, <3>3
    <2>3. QED
      BY <2>1, <2>2
  <1>8. \A a : Pending("attribution", a) \/ AttributionHeld(a) =>
                 Pending("attribution", a)' \/ AttributionHeld(a)'
    <2> TAKE a
    <2>1. AttributionHeld(a) => AttributionHeld(a)'
      BY <1>3, <1>4, SameRows DEF AttributionHeld
    <2>2. Pending("attribution", a) => Pending("attribution", a)'
      BY <1>2, <1>4, RestOfWork
    <2>3. QED
      BY <2>1, <2>2
  <1>9. run.part # "datasets"
    BY <1>2 DEF Belongs, ProviderOps
  <1>10. Held'
    BY <1>2, <1>3, <1>7, <1>8, <1>9, HeldGoesOn
  <1>11. \A w \in Writes : Prepares(Op, w) => Needs(w)'
    BY <1>2 DEF Prepares, Needs, Firsts
  <1>12. QED
    BY <1>2, <1>3, <1>5, <1>6, <1>10, <1>11, WholeGoesOn

\* The row an organization is saved to, however it is found.
LEMMA ProviderSaved ==
  ASSUME Inv, Whole, Doing("organization"), UNCHANGED mappings, NEW o, NEW row, DoneWith(o),
         SaveOrganizations(Put(organization, o, row)), o = ProviderRow(Op.id),
         row.ids = {Op.id} \cup (IF o \in DOMAIN organization THEN organization[o].ids ELSE {})
  PROVE  Whole'
  <1>1. PICK p : p = Op.id
    OBVIOUS
  <1>2. /\ RunOk /\ RunFits /\ Held /\ Stored /\ MappingsFit /\ run.work # <<>>
        /\ Op.op = "organization" /\ Belongs(Op) /\ Rows(organization)
        /\ Holders(organization, p) = {}
    BY <1>1, AtWorkWhole DEF Free
  <1>3. /\ UNCHANGED <<attribution, dataset>>
        /\ organization' = Put(organization, o, row)
    BY DEF SaveOrganizations
  <1>4. run'.work = Tail(run.work) /\ run'.lookup = run.lookup /\ run'.input = run.input
    BY <1>2, Advances
  <1>5. DOMAIN organization' = DOMAIN organization \cup {o}
    BY <1>3 DEF Put
  <1>6. Stored'
    BY <1>2, <1>3, <1>5, OrganizationsGrow
  <1>7. \A i : Pending("organization", i) \/ ProviderHeld(i) =>
                 Pending("organization", i)' \/ ProviderHeld(i)'
    <2> TAKE i
    <2>1. CASE i = p
      <3>1. Holders(organization', i) = {o} /\ o = ProviderRow(i)
        BY <1>1, <1>2, <1>3, <2>1, HoldersGiven
      <3>2. ProviderHeld(i)'
        BY <1>4, <3>1, SameRows DEF ProviderHeld
      <3>3. QED
        BY <3>2
    <2>2. CASE i # p
      <3>1. Holders(organization', i) = Holders(organization, i)
        BY <1>1, <1>2, <1>3, <2>2, HoldersGiven
      <3>2. ProviderHeld(i) => ProviderHeld(i)'
        BY <1>4, <3>1, SameRows DEF ProviderHeld
      <3>3. Pending("organization", i) => Pending("organization", i)'
        BY <1>1, <1>2, <1>4, <2>2, RestOfWork
      <3>4. QED
        BY <3>2, <3>3
    <2>3. QED
      BY <2>1, <2>2
  <1>8. \A a : Pending("attribution", a) \/ AttributionHeld(a) =>
                 Pending("attribution", a)' \/ AttributionHeld(a)'
    <2> TAKE a
    <2>1. AttributionHeld(a) => AttributionHeld(a)'
      BY <1>3, <1>4, SameRows DEF AttributionHeld
    <2>2. Pending("attribution", a) => Pending("attribution", a)'
      BY <1>2, <1>4, RestOfWork
    <2>3. QED
      BY <2>1, <2>2
  <1>9. run.part # "datasets"
    BY <1>2 DEF Belongs, ProviderOps
  <1>10. Held'
    BY <1>2, <1>7, <1>8, <1>9, HeldGoesOn
  <1>11. run'.current = o /\ o \in ProviderRows' /\ o \in DOMAIN organization'
    <2>1. run'.current = o
      BY <1>2 DEF DoneWith, RunFits, AllColumns, Columns
    <2>2. p \in ProviderIds
      BY <1>1, <1>2 DEF Belongs
    <2>3. ProviderRows' = ProviderRows
      BY <1>4, SameRows
    <2>4. QED
      BY <1>1, <1>5, <2>1, <2>2, <2>3 DEF ProviderRows
  <1>12. \A w \in Writes : Prepares(Op, w) => Needs(w)'
    BY <1>2, <1>11 DEF Prepares, Needs, Firsts
  <1>13. QED
    BY <1>2, <1>5, <1>6, <1>10, <1>12, WholeGoesOn

LEMMA SaveProviderWhole ==
  ASSUME Inv, Whole, SaveProvider
  PROVE  Whole'
  <1>1. /\ Stored /\ MappingsFit /\ Rows(organization) /\ UNCHANGED mappings
        /\ Doing("organization")
    BY AtWorkWhole DEF SaveProvider
  <1> DEFINE p == Op.id
             m == OrganizationMapping(p)
             o == IF IsMapped(m) THEN m.target ELSE p
             new == OrganizationRow(Bod, {p}, "theirs")
             old == AddSourceId(Harvested(organization[o], m), p)
  <1>2. o = ProviderRow(p)
    BY DEF ProviderRow, RowFor
  <1>3. CASE /\ o \in IF IsMapped(m) THEN DOMAIN organization ELSE RowsOf(organization, Bod)
             /\ SaveOrganizations(Put(organization, o, old))
             /\ DoneWith(o)
    <2>1. o \in DOMAIN organization
      BY <1>3 DEF RowsOf
    <2>2. "ids" \in DOMAIN organization[o]
      BY <1>1, <2>1 DEF Rows
    <2> HIDE DEF m, o
    <2>3. old.ids = organization[o].ids \cup {p}
      BY <2>2, GivenId
    <2> HIDE DEF old
    <2>4. QED
      BY <1>1, <1>2, <1>3, <2>1, <2>3, ProviderSaved
  <1>4. CASE /\ o \notin DOMAIN organization
             /\ SaveOrganizations(Put(organization, o, new)) /\ DoneWith(o)
    <2>1. new.ids = {p}
      BY DEF OrganizationRow
    <2> HIDE DEF m, o, new
    <2>2. QED
      BY <1>1, <1>2, <1>4, <2>1, ProviderSaved
  <1>5. CASE Raise
    BY <1>1, <1>5 DEF Raise, Whole, Stored, MappingsFit, tables
  <1>6. QED
    BY <1>3, <1>4, <1>5 DEF SaveProvider

LEMMA TakeAttributionIdWhole ==
  ASSUME Inv, Whole, TakeAttributionId
  PROVE  Whole'
  <1>1. PICK p : p = Op.id
    OBVIOUS
  <1>2. /\ RunOk /\ RunFits /\ Held /\ Stored /\ MappingsFit /\ run.work # <<>>
        /\ Op.op = "takeAttribution" /\ Belongs(Op) /\ Needs(Op)
    BY AtWorkWhole DEF TakeAttributionId
  <1>3. /\ Done /\ UNCHANGED <<organization, dataset>> /\ UNCHANGED mappings
        /\ attribution' = RemoveSourceId(attribution, p)
    BY <1>1 DEF TakeAttributionId, SaveAttributions
  <1>4. /\ run'.work = Tail(run.work) /\ run'.lookup = run.lookup /\ run'.input = run.input
        /\ run'.current = run.current
    BY <1>2, <1>3, Advances DEF Done, RunFits, AllColumns, Columns
  <1>5. /\ Stored' /\ DOMAIN attribution' = DOMAIN attribution
        /\ \A a \in DOMAIN attribution :
              /\ attribution'[a].organization = attribution[a].organization
              /\ attribution'[a].ids = attribution[a].ids \ {p}
    BY <1>2, <1>3, AttributionIdTaken
  <1>6. \A i : Pending("organization", i) \/ ProviderHeld(i) =>
                 Pending("organization", i)' \/ ProviderHeld(i)'
    <2> TAKE i
    <2>1. ProviderHeld(i) => ProviderHeld(i)'
      BY <1>3, <1>4, SameRows DEF ProviderHeld
    <2>2. Pending("organization", i) => Pending("organization", i)'
      BY <1>2, <1>4, RestOfWork
    <2>3. QED
      BY <2>1, <2>2
  <1>7. \A a : Pending("attribution", a) \/ AttributionHeld(a) =>
                 Pending("attribution", a)' \/ AttributionHeld(a)'
    <2> TAKE a
    <2>1. CASE a = p
      BY <1>1, <1>2, <1>4, <2>1, RestOfWork
    <2>2. CASE a # p
      <3>1. AttributionHeld(a) => AttributionHeld(a)'
        BY <1>4, <1>5, <2>2, SameRows DEF AttributionHeld
      <3>2. Pending("attribution", a) => Pending("attribution", a)'
        BY <1>2, <1>4, RestOfWork
      <3>3. QED
        BY <3>1, <3>2
    <2>3. QED
      BY <2>1, <2>2
  <1>8. run.part # "datasets"
    BY <1>2 DEF Belongs, ProviderOps
  <1>9. Held'
    BY <1>2, <1>3, <1>6, <1>7, <1>8, HeldGoesOn
  <1>10. run'.current \in ProviderRows' \cap DOMAIN organization'
    BY <1>2, <1>3, <1>4, SameRows DEF Needs
  <1>11. \A w \in Writes : Prepares(Op, w) => Needs(w)'
    BY <1>2, <1>10 DEF Prepares, Needs, Firsts
  <1>12. QED
    BY <1>2, <1>3, <1>5, <1>9, <1>11, WholeGoesOn

LEMMA AttributionSaved ==
  ASSUME Inv, Whole, Doing("attribution"), UNCHANGED mappings, NEW row, Done,
         SaveAttributions(Put(attribution, Op.id, row)), row.organization = run.current,
         AttributionFits(Op.id, row, DOMAIN organization), Op.id \in row.ids
  PROVE  Whole'
  <1>1. PICK p : p = Op.id
    OBVIOUS
  <1>2. /\ RunOk /\ RunFits /\ Held /\ Stored /\ MappingsFit /\ run.work # <<>>
        /\ Op.op = "attribution" /\ Belongs(Op) /\ Needs(Op)
    BY AtWorkWhole
  <1>3. /\ UNCHANGED <<organization, dataset>> /\ attribution' = Put(attribution, p, row)
    BY <1>1 DEF SaveAttributions
  <1>4. /\ run'.work = Tail(run.work) /\ run'.lookup = run.lookup /\ run'.input = run.input
        /\ run'.current = run.current
    BY <1>2, Advances DEF Done, RunFits, AllColumns, Columns
  <1>5. Stored'
    BY <1>1, <1>2, <1>3, AttributionPut
  <1>6. \A i : Pending("organization", i) \/ ProviderHeld(i) =>
                 Pending("organization", i)' \/ ProviderHeld(i)'
    <2> TAKE i
    <2>1. ProviderHeld(i) => ProviderHeld(i)'
      BY <1>3, <1>4, SameRows DEF ProviderHeld
    <2>2. Pending("organization", i) => Pending("organization", i)'
      BY <1>2, <1>4, RestOfWork
    <2>3. QED
      BY <2>1, <2>2
  <1>7. \A a : Pending("attribution", a) \/ AttributionHeld(a) =>
                 Pending("attribution", a)' \/ AttributionHeld(a)'
    <2> TAKE a
    <2>1. ProviderRows' = ProviderRows /\ run.current \in ProviderRows
      BY <1>2, <1>4, SameRows DEF Needs
    <2>2. CASE a = p
      <3>1. a \in DOMAIN attribution' /\ attribution'[a] = row
        BY <1>3, <2>2 DEF Put
      <3>2. AttributionHeld(a)'
        BY <1>1, <2>1, <2>2, <3>1 DEF AttributionHeld
      <3>3. QED
        BY <3>2
    <2>3. CASE a # p
      <3>1. a \in DOMAIN attribution =>
              a \in DOMAIN attribution' /\ attribution'[a] = attribution[a]
        BY <1>3, <2>3 DEF Put
      <3>2. AttributionHeld(a) => AttributionHeld(a)'
        BY <2>1, <3>1 DEF AttributionHeld
      <3>3. Pending("attribution", a) => Pending("attribution", a)'
        BY <1>1, <1>2, <1>4, <2>3, RestOfWork
      <3>4. QED
        BY <3>2, <3>3
    <2>4. QED
      BY <2>2, <2>3
  <1>8. run.part # "datasets"
    BY <1>2 DEF Belongs, ProviderOps
  <1>9. Held'
    BY <1>2, <1>6, <1>7, <1>8, HeldGoesOn
  <1>10. run'.current \in ProviderRows' \cap DOMAIN organization'
    BY <1>2, <1>3, <1>4, SameRows DEF Needs
  <1>11. \A w \in Writes : Prepares(Op, w) => Needs(w)'
    BY <1>2, <1>10 DEF Prepares, Needs, Firsts
  <1>12. QED
    BY <1>2, <1>3, <1>5, <1>9, <1>11, WholeGoesOn

LEMMA SaveAttributionWhole ==
  ASSUME Inv, Whole, SaveAttribution
  PROVE  Whole'
  <1>1. /\ Stored /\ MappingsFit /\ UNCHANGED mappings /\ Doing("attribution")
        /\ run.current \in DOMAIN organization
    BY AtWorkWhole DEF SaveAttribution, Needs
  <1> DEFINE a == Op.id
  <1>2. CASE /\ OwnAttribution(a) /\ Done
             /\ SaveAttributions(Put(attribution, a, AddSourceId(attribution[a], a)))
    <2>1. /\ a \in DOMAIN attribution /\ attribution[a].organization = run.current
          /\ AttributionFits(a, attribution[a], DOMAIN organization)
      BY <1>1, <1>2 DEF OwnAttribution, RowsOf, Stored, Fits
    <2>2. PICK old, new : old = attribution[a] /\ new = AddSourceId(attribution[a], a)
      OBVIOUS
    <2>3. AttributionFits(a, old, DOMAIN organization) /\ new = [old EXCEPT !.ids = @ \cup {a}]
      BY <2>1, <2>2 DEF AddSourceId
    <2>4. /\ DOMAIN new = AttributionColumns /\ new.ids = old.ids \cup {a}
          /\ new.organization = old.organization
      BY <2>3 DEF AttributionFits, AttributionColumns
    <2>5. AttributionFits(a, new, DOMAIN organization)
      BY <2>3, <2>4 DEF AttributionFits
    <2>6. QED
      BY <1>1, <1>2, <2>1, <2>2, <2>4, <2>5, AttributionSaved
  <1>3. CASE Done /\ SaveAttributions(Put(attribution, a, AttributionRow(Bod, {a}, run.current)))
    <2>1. PICK new : new = AttributionRow(Bod, {a}, run.current)
      OBVIOUS
    <2>2. /\ DOMAIN new = AttributionColumns /\ new.ids = {a} /\ new.organization = run.current
      BY <2>1 DEF AttributionRow, AttributionColumns
    <2>3. AttributionFits(a, new, DOMAIN organization)
      BY <1>1, <2>2 DEF AttributionFits
    <2>4. QED
      BY <1>1, <1>3, <2>1, <2>2, <2>3, AttributionSaved
  <1>4. CASE Raise
    BY <1>1, <1>4 DEF Raise, Whole, Stored, MappingsFit, tables
  <1>5. QED
    BY <1>2, <1>3, <1>4 DEF SaveAttribution

\* What the writes of a dataset have in common.
LEMMA SetGoesOn ==
  ASSUME Inv, Whole, NEW op \in DatasetOps, Doing(op), Done \/ \E row : DoneWith(row),
         UNCHANGED <<organization, mappings>>, Stored',
         \A i : Pending("save", i) \/ SetHeld(i) => Pending("save", i)' \/ SetHeld(i)',
         \A w \in Writes : Prepares(Op, w) => Needs(w)'
  PROVE  Whole'
  <1>1. /\ RunOk /\ RunFits /\ Held /\ MappingsFit /\ run.work # <<>>
        /\ Op.op = op /\ Belongs(Op)
    BY AtWorkWhole
  <1>2. run.part # "organizations"
    BY <1>1 DEF Belongs
  <1>3. Held'
    BY <1>1, <1>2, HeldGoesOn
  <1>4. QED
    BY <1>1, <1>3, WholeGoesOn

LEMMA TakeDatasetIdWhole ==
  ASSUME Inv, Whole, TakeDatasetId
  PROVE  Whole'
  <1>1. PICK p : p = Op.id
    OBVIOUS
  <1>2. /\ RunOk /\ RunFits /\ Stored /\ run.work # <<>> /\ Rows(dataset)
        /\ Op.op = "takeDataset" /\ Belongs(Op)
    BY AtWorkWhole DEF TakeDatasetId
  <1>3. /\ Done /\ UNCHANGED <<organization, attribution, mappings>>
        /\ dataset' = RemoveSourceId(dataset, p)
    BY <1>1 DEF TakeDatasetId, SaveDatasets
  <1>4. run'.work = Tail(run.work) /\ run'.lookup = run.lookup /\ run'.input = run.input
    BY <1>2, <1>3, Advances
  <1>5. Stored'
    BY <1>2, <1>3, DatasetIdTaken
  <1>6. \A i : Pending("save", i) \/ SetHeld(i) => Pending("save", i)' \/ SetHeld(i)'
    <2> TAKE i
    <2>1. Pending("save", i) => Pending("save", i)'
      BY <1>2, <1>4, RestOfWork
    <2>2. CASE i = p
      BY <1>1, <1>2, <2>1, <2>2 DEF Belongs
    <2>3. CASE i # p
      <3>1. Holders(dataset', i) = Holders(dataset, i)
        BY <1>2, <1>3, <2>3, HoldersTaken
      <3>2. SetHeld(i) => SetHeld(i)'
        BY <1>4, <3>1, SameRows DEF SetHeld
      <3>3. QED
        BY <2>1, <3>2
    <2>4. QED
      BY <2>2, <2>3
  <1>7. \A w \in Writes : Prepares(Op, w) => Needs(w)'
    BY <1>2 DEF Prepares, Needs, Firsts
  <1>8. "takeDataset" \in DatasetOps /\ Doing("takeDataset")
    BY DEF DatasetOps, TakeDatasetId
  <1>9. QED
    BY <1>3, <1>5, <1>6, <1>7, <1>8, SetGoesOn

\* The dataset of a record is found or added, without its id.
LEMMA DatasetFound ==
  ASSUME Inv, Whole, Doing("dataset"), UNCHANGED mappings, NEW d, DoneWith(d), d = SetRow(Op.id),
         \/ UNCHANGED tables
         \/ SaveDataset(d, DatasetRow(Bod, {}, "theirs")) /\ d \notin DOMAIN dataset
  PROVE  Whole'
  <1>1. PICK p : p = Op.id
    OBVIOUS
  <1>2. /\ RunOk /\ RunFits /\ Stored /\ run.work # <<>> /\ Op.op = "dataset"
    BY AtWorkWhole
  <1>3. run'.work = Tail(run.work) /\ run'.lookup = run.lookup /\ run'.input = run.input
    BY <1>2, Advances
  <1>4. /\ UNCHANGED <<organization, attribution>> /\ Stored'
        /\ \A i : Holders(dataset', i) = Holders(dataset, i)
    <2>1. CASE UNCHANGED tables
      BY <1>2, <2>1 DEF tables, Stored
    <2>2. CASE SaveDataset(d, DatasetRow(Bod, {}, "theirs")) /\ d \notin DOMAIN dataset
      <3>1. PICK row : row = DatasetRow(Bod, {}, "theirs")
        OBVIOUS
      <3>2. row.ids = {} /\ row.units = {} /\ row.attribution = None /\ DOMAIN row = DatasetColumns
        BY <3>1 DEF DatasetRow, DatasetColumns
      <3>3. dataset' = Put(dataset, d, row) /\ UNCHANGED <<organization, attribution>>
        BY <2>2, <3>1 DEF SaveDataset, SaveDatasets
      <3>4. DatasetFits(row, DOMAIN organization, DOMAIN attribution)
        BY <3>2 DEF DatasetFits
      <3>5. Stored'
        BY <1>2, <3>3, <3>4, DatasetPut
      <3>6. \A i : Holders(dataset', i) = Holders(dataset, i)
        BY <2>2, <3>2, <3>3, HoldersKept
      <3>7. QED
        BY <3>3, <3>5, <3>6
    <2>3. QED
      BY <2>1, <2>2
  <1>5. \A i : Pending("save", i) \/ SetHeld(i) => Pending("save", i)' \/ SetHeld(i)'
    <2> TAKE i
    <2>1. SetHeld(i) => SetHeld(i)'
      BY <1>3, <1>4, SameRows DEF SetHeld
    <2>2. Pending("save", i) => Pending("save", i)'
      BY <1>2, <1>3, RestOfWork
    <2>3. QED
      BY <2>1, <2>2
  <1>6. run'.current = d /\ d = SetRow(p)'
    BY <1>1, <1>2, <1>3, SameRows DEF DoneWith, RunFits, AllColumns, Columns
  <1>7. \A w \in Writes : Prepares(Op, w) => Needs(w)'
    BY <1>1, <1>2, <1>6 DEF Prepares, Needs, Firsts
  <1>8. "dataset" \in DatasetOps
    BY DEF DatasetOps
  <1>9. QED
    BY <1>4, <1>5, <1>7, <1>8, SetGoesOn

LEMMA FindDatasetWhole ==
  ASSUME Inv, Whole, FindDataset
  PROVE  Whole'
  <1>1. Stored /\ MappingsFit /\ UNCHANGED mappings /\ Doing("dataset")
    BY AtWorkWhole DEF FindDataset
  <1> DEFINE i == Op.id
             m == DatasetMapping(i)
  <1>2. SetRow(i) = IF IsMapped(m) THEN m.target ELSE i
    BY DEF SetRow, RowFor
  <1>3. CASE IsMapped(m) /\ DoneWith(m.target) /\ UNCHANGED tables
    BY <1>1, <1>2, <1>3, DatasetFound
  <1>4. CASE ~IsMapped(m) /\ DoneWith(i) /\ UNCHANGED tables
    BY <1>1, <1>2, <1>4, DatasetFound
  <1>5. CASE /\ ~IsMapped(m) /\ i \notin DOMAIN dataset /\ DoneWith(i)
             /\ SaveDataset(i, DatasetRow(Bod, {}, "theirs"))
    BY <1>1, <1>2, <1>5, DatasetFound
  <1>6. CASE Raise
    BY <1>1, <1>6 DEF Raise, Whole, Stored, MappingsFit, tables
  <1>7. QED
    BY <1>3, <1>4, <1>5, <1>6 DEF FindDataset

LEMMA StoreDatasetWhole ==
  ASSUME Inv, Whole, StoreDataset
  PROVE  Whole'
  <1>1. PICK p, d, A, m : /\ p = Op.id /\ d = run.current /\ m = DatasetMapping(Op.id)
                          /\ A = AttributionAfter(run.current, Op.attribution)
    OBVIOUS
  <1>2. /\ RunOk /\ RunFits /\ Stored /\ run.work # <<>> /\ Op.op = "save" /\ Needs(Op) /\ Free(Op)
    BY AtWorkWhole DEF StoreDataset
  <1>3. d \in DOMAIN dataset /\ d = SetRow(p) /\ Holders(dataset, p) = {}
    BY <1>1, <1>2 DEF Needs, Free
  <1>4. PICK old, given, row : /\ old = dataset[d] /\ given = Harvested(AddSourceId(old, p), m)
                               /\ row = [given EXCEPT !.attribution = A]
    OBVIOUS
  <1>5. /\ Done /\ UNCHANGED <<organization, attribution, mappings>>
        /\ dataset' = Put(dataset, d, row)
    BY <1>1, <1>4 DEF StoreDataset, SaveDataset, SaveDatasets, WithId
  <1>6. run'.work = Tail(run.work) /\ run'.lookup = run.lookup /\ run'.input = run.input
    BY <1>2, <1>5, Advances
  <1>7. DatasetFits(old, DOMAIN organization, DOMAIN attribution)
    BY <1>2, <1>3, <1>4 DEF Stored, Fits
  <1>8. /\ DOMAIN row = DatasetColumns /\ row.ids = old.ids \cup {p} /\ row.units = old.units
        /\ row.attribution = A
    <2>1. DOMAIN old = DatasetColumns
      BY <1>7 DEF DatasetFits
    <2>2. PICK with : with = AddSourceId(old, p)
      OBVIOUS
    <2>3. /\ DOMAIN with = DatasetColumns /\ with.ids = old.ids \cup {p}
          /\ with.units = old.units
      BY <2>1, <2>2 DEF AddSourceId, DatasetColumns
    <2>4. /\ DOMAIN given = DatasetColumns /\ given.ids = with.ids /\ given.units = with.units
      BY <1>4, <2>2, <2>3 DEF Harvested, DatasetColumns
    <2>5. /\ DOMAIN row = DatasetColumns /\ row.ids = given.ids /\ row.units = given.units
          /\ row.attribution = A
      BY <1>4, <2>4 DEF DatasetColumns
    <2>6. QED
      BY <2>3, <2>4, <2>5
  <1>9. A \in DOMAIN attribution \cup {None}
    <2>1. dataset[d].attribution \in DOMAIN attribution \cup {None}
      BY <1>4, <1>7 DEF DatasetFits
    <2>2. QED
      BY <1>1, <2>1 DEF AttributionAfter, RowsOf
  <1>10. DatasetFits(row, DOMAIN organization, DOMAIN attribution)
    BY <1>7, <1>8, <1>9 DEF DatasetFits
  <1>11. Stored'
    BY <1>2, <1>5, <1>10, DatasetPut
  <1>12. \A i : Pending("save", i) \/ SetHeld(i) => Pending("save", i)' \/ SetHeld(i)'
    <2> TAKE i
    <2>1. row.ids = {p} \cup (IF d \in DOMAIN dataset THEN dataset[d].ids ELSE {})
      BY <1>3, <1>4, <1>8
    <2>5. /\ Holders(Put(dataset, d, row), p) = {d}
          /\ \A j : j # p => Holders(Put(dataset, d, row), j) = Holders(dataset, j)
      BY <1>3, <2>1, HoldersGiven
    <2>2. CASE i = p
      <3>1. Holders(Put(dataset, d, row), p) = {d}
        BY <2>5
      <3>2. SetHeld(i)'
        BY <1>3, <1>5, <1>6, <2>2, <3>1, SameRows DEF SetHeld
      <3>3. QED
        BY <3>2
    <2>3. CASE i # p
      <3>1. Holders(Put(dataset, d, row), i) = Holders(dataset, i)
        BY <2>3, <2>5
      <3>2. SetHeld(i) => SetHeld(i)'
        BY <1>5, <1>6, <3>1, SameRows DEF SetHeld
      <3>3. Pending("save", i) => Pending("save", i)'
        BY <1>1, <1>2, <1>6, <2>3, RestOfWork
      <3>4. QED
        BY <3>2, <3>3
    <2>4. QED
      BY <2>2, <2>3
  <1>13. \A w \in Writes : Prepares(Op, w) => Needs(w)'
    BY <1>2 DEF Prepares, Needs, Firsts
  <1>14. "save" \in DatasetOps /\ Doing("save")
    BY DEF DatasetOps, StoreDataset
  <1>15. QED
    BY <1>5, <1>11, <1>12, <1>13, <1>14, SetGoesOn

\* The links of a dataset to its owner are written.
LEMMA UnitsSaved ==
  ASSUME Inv, Whole, NEW op \in {"unlink", "link"}, Doing(op), Done, UNCHANGED mappings,
         NEW units, SaveDataset(run.current, [dataset[run.current] EXCEPT !.units = units]),
         \A l \in units : l = UnitLink(Owner, l.to) /\ l.to \in DOMAIN organization,
         \A l, m \in units : l = m,
         op = "unlink" => units = {}
  PROVE  Whole'
  <1>1. PICK d : d = run.current
    OBVIOUS
  <1>2. /\ RunOk /\ RunFits /\ Stored /\ run.work # <<>> /\ Op.op = op /\ Free(Op)
    BY AtWorkWhole
  <1>3. d \in DOMAIN dataset
    BY <1>1, <1>2 DEF Free
  <1>4. PICK old, row : old = dataset[d] /\ row = [old EXCEPT !.units = units]
    OBVIOUS
  <1>5. UNCHANGED <<organization, attribution>> /\ dataset' = Put(dataset, d, row)
    BY <1>1, <1>4 DEF SaveDataset, SaveDatasets
  <1>6. /\ run'.work = Tail(run.work) /\ run'.lookup = run.lookup /\ run'.input = run.input
        /\ run'.current = d
    BY <1>1, <1>2, Advances DEF Done, RunFits, AllColumns, Columns
  <1>7. DatasetFits(old, DOMAIN organization, DOMAIN attribution)
    BY <1>2, <1>3, <1>4 DEF Stored, Fits
  <1>8. /\ DOMAIN row = DatasetColumns /\ row.ids = old.ids /\ row.units = units
        /\ row.attribution = old.attribution
    BY <1>4, <1>7 DEF DatasetFits, DatasetColumns
  <1>9. DatasetFits(row, DOMAIN organization, DOMAIN attribution)
    BY <1>7, <1>8 DEF DatasetFits
  <1>10. Stored'
    BY <1>2, <1>5, <1>9, DatasetPut
  <1>11. \A i : Pending("save", i) \/ SetHeld(i) => Pending("save", i)' \/ SetHeld(i)'
    <2> TAKE i
    <2>1. Holders(dataset', i) = Holders(dataset, i)
      <3>1. row.ids = (IF d \in DOMAIN dataset THEN dataset[d].ids ELSE {})
        BY <1>3, <1>4, <1>8
      <3>2. QED
        BY <1>5, <3>1, HoldersKept
    <2>2. SetHeld(i) => SetHeld(i)'
      BY <1>6, <2>1, SameRows DEF SetHeld
    <2>3. Pending("save", i) => Pending("save", i)'
      BY <1>2, <1>6, RestOfWork
    <2>4. QED
      BY <2>2, <2>3
  <1>12. \A w \in Writes : Prepares(Op, w) => Needs(w)'
    <2>1. op = "unlink" => dataset'[d].units = {}
      BY <1>5, <1>8 DEF Put
    <2>2. QED
      BY <1>2, <1>6, <2>1 DEF Prepares, Needs, Firsts
  <1>13. op \in DatasetOps
    BY DEF DatasetOps
  <1>14. QED
    BY <1>5, <1>10, <1>11, <1>12, <1>13, SetGoesOn

\* Unlinking and linking come last.
LEMMA NoSaveAfterUnlink ==
  ASSUME RunOk, run.work # <<>>, Op.op = "unlink", NEW i
  PROVE  ~ Pending("save", i)
  <1> DEFINE work == run.work
  <1>1. /\ work \in Seq(Writes) /\ Ordered(work) /\ Len(work) \in Nat /\ work[1].op = "unlink"
    BY HeadTailProperties, LenProperties DEF RunOk, Op
  <1> HIDE DEF work
  <1>2. ASSUME NEW n \in 1..Len(work), n # 1
        PROVE  n - 1 \in 1..Len(work) /\ Prepares(work[n - 1], work[n])
    <2>1. n - 1 \in 1..(Len(work) - 1) /\ (n - 1) + 1 = n /\ n - 1 \in 1..Len(work)
      BY <1>1, <1>2
    <2>2. QED
      BY <1>1, <2>1 DEF Ordered
  <1>3. SUFFICES ASSUME NEW n \in 1..Len(work), work[n].op = "save"
                 PROVE  FALSE
    BY DEF Pending, work
  <1>4. n - 1 \in 1..Len(work) /\ work[n - 1].op = "dataset"
    BY <1>1, <1>2, <1>3 DEF Prepares
  <1>5. (n - 1) - 1 \in 1..Len(work) /\ work[(n - 1) - 1].op = "takeDataset"
    BY <1>1, <1>2, <1>4 DEF Prepares
  <1>6. QED
    BY <1>1, <1>2, <1>5 DEF Prepares, Firsts

LEMMA OwnersWhole ==
  ASSUME Inv, Whole, UnlinkOwners \/ LinkOwner
  PROVE  Whole'
  <1>1. CASE /\ UnlinkOwners /\ UnitFor(Op.id, Op.provider) = {}
    <2>1. /\ RunOk /\ RunFits /\ Held /\ Stored /\ MappingsFit /\ run.work # <<>>
          /\ Op.op = "unlink" /\ Belongs(Op)
      BY <1>1, AtWorkWhole DEF UnlinkOwners
    <2>2. /\ run' = [run EXCEPT !.work = <<>>] /\ UNCHANGED tables /\ UNCHANGED mappings
      BY <1>1 DEF UnlinkOwners
    <2>3. /\ AllColumns \subseteq DOMAIN run' /\ run'.work = <<>>
          /\ run'.part = run.part /\ run'.input = run.input /\ run'.todo = run.todo
          /\ run'.lookup = run.lookup /\ run'.processed = run.processed
          /\ run'.cleans = run.cleans /\ run'.source = run.source
      BY <2>1, <2>2 DEF RunFits, AllColumns, Columns
    <2>4. Stored' /\ MappingsFit' /\ LookupsLead'
      BY <2>1, <2>2, <2>3 DEF tables, Stored, MappingsFit, RunFits, LookupsLead, Targets
    <2>5. RunFits'
      BY <2>1, <2>3, <2>4 DEF RunFits
    <2>6. \A i : SetHeld(i) => SetHeld(i)'
      BY <2>2, <2>3, SameRows DEF SetHeld, tables
    <2>7. SetsHeld'
      BY <2>1, <2>3, <2>6, NoSaveAfterUnlink DEF Held, SetsHeld, Parsed, Belongs, DatasetOps
    <2>8. QED
      BY <2>1, <2>3, <2>4, <2>5, <2>7 DEF Whole, Held, Belongs, DatasetOps
  <1>2. CASE UnlinkOwners /\ UnitFor(Op.id, Op.provider) # {}
    <2>1. /\ Stored /\ Free(Op) /\ Op.op = "unlink"
      BY <1>2, AtWorkWhole DEF UnlinkOwners
    <2>2. PICK d : d = run.current
      OBVIOUS
    <2>3. /\ Done /\ UNCHANGED mappings /\ Doing("unlink")
          /\ SaveDataset(d, [dataset[d] EXCEPT !.units = dataset[d].units \ Owners(d)])
      BY <1>2, <2>2 DEF UnlinkOwners
    <2>4. d \in DOMAIN dataset /\ DatasetFits(dataset[d], DOMAIN organization, DOMAIN attribution)
      BY <2>1, <2>2 DEF Free, Stored, Fits
    <2>5. \A l \in dataset[d].units : l.role = Owner
      BY <2>4 DEF DatasetFits, UnitLink
    <2>6. dataset[d].units \ Owners(d) = {}
      BY <2>5 DEF Owners
    <2>7. QED
      BY <2>2, <2>3, <2>6, UnitsSaved
  <1>3. CASE LinkOwner
    <2>1. /\ RunFits /\ run.work # <<>> /\ Needs(Op) /\ Belongs(Op) /\ Op.op = "link"
      BY <1>3, AtWorkWhole DEF LinkOwner
    <2>2. PICK o \in UnitFor(Op.id, Op.provider) :
            SaveDataset(run.current, [dataset[run.current] EXCEPT !.units =
                                     dataset[run.current].units \cup {UnitLink(Owner, o)}])
      BY <1>3 DEF LinkOwner
    <2>3. dataset[run.current].units \cup {UnitLink(Owner, o)} = {UnitLink(Owner, o)}
      BY <2>1 DEF Needs
    <2>4. o \in DOMAIN organization
      <3>1. Targets(run.lookup.unit, DOMAIN organization)
        BY <2>1 DEF RunFits, LookupsLead, Belongs, DatasetOps
      <3>2. QED
        BY <2>2, <3>1, MatchTarget DEF UnitFor
    <2>5. UnitLink(Owner, o).to = o
      BY DEF UnitLink
    <2>6. Done /\ UNCHANGED mappings /\ Doing("link")
      BY <1>3 DEF LinkOwner
    <2>7. QED
      BY <2>2, <2>3, <2>4, <2>5, <2>6, UnitsSaved
  <1>4. QED
    BY <1>1, <1>2, <1>3

-----------------------------------------------------------------------------
LEMMA ProviderTakenUp ==
  ASSUME Inv, Whole, NextProvider
  PROVE  Whole'
  <1>1. /\ RunOk /\ RunFits /\ Held /\ Stored /\ MappingsFit /\ run.work = <<>>
        /\ run.part = "organizations" /\ UNCHANGED mappings
    BY DEF Inv, Whole, NextProvider, Ready, Running
  <1>2. PICK r \in run.todo : IF r.parses THEN TakeUp(r, {r.id} \cup IdsOf(r), ProviderWork(r))
                              ELSE TakeUp(r, {}, <<>>)
    BY DEF NextProvider
  <1>3. /\ AllColumns \subseteq DOMAIN run' /\ run'.todo = run.todo \ {r}
        /\ run'.work = (IF r.parses THEN ProviderWork(r) ELSE <<>>)
        /\ run'.processed = (IF r.parses THEN run.processed \cup ({r.id} \cup IdsOf(r))
                             ELSE run.processed)
        /\ run'.part = run.part /\ run'.input = run.input /\ run'.lookup = run.lookup
        /\ run'.cleans = run.cleans /\ run'.source = run.source
        /\ UNCHANGED tables
    <2>1. CASE r.parses
      BY <1>1, <1>2, <2>1 DEF TakeUp, RunFits, AllColumns, Columns
    <2>2. CASE ~r.parses
      BY <1>1, <1>2, <2>2 DEF TakeUp, RunFits, AllColumns, Columns
    <2>3. QED
      BY <2>1, <2>2
  <1>4. r \in run.input.providers /\ r \in Providers
    BY <1>1, <1>2 DEF RunFits, RunOk
  <1>5. Stored' /\ MappingsFit'
    BY <1>1, <1>3 DEF tables, Stored, MappingsFit
  <1>6. LookupsLead'
    BY <1>1, <1>2, <1>3 DEF tables, RunFits, LookupsLead, Targets
  <1>7. ASSUME r.parses, NEW w, w = Head(run'.work)
        PROVE  Belongs(w)' /\ Needs(w)'
    <2>1. w.op = "takeProvider" /\ w.id = r.id
      BY <1>3, <1>4, <1>7, ProviderWorkInOrder
    <2>2. r.id \in ProviderIds'
      BY <1>3, <1>4, <1>7 DEF ProviderIds, Parsed
    <2>3. QED
      BY <1>1, <1>3, <2>1, <2>2 DEF Belongs, Needs, DatasetOps
  <1>8. run'.work # <<>> => (Belongs(Head(run.work)) /\ Needs(Head(run.work)))'
    BY <1>3, <1>7
  <1>9. RunFits'
    BY <1>1, <1>3, <1>6, <1>8 DEF RunFits
  <1>10. ProvidersHeld'
    <2>1. ASSUME NEW s \in Parsed(run.input.providers) \ run'.todo
          PROVE  /\ {s.id} \cup IdsOf(s) \subseteq run'.processed
                 /\ Pending("organization", s.id)' \/ ProviderHeld(s.id)'
                 /\ \A a \in IdsOf(s) : Pending("attribution", a)' \/ AttributionHeld(a)'
      <3>1. CASE s = r
        <4>1. r.parses /\ run'.work = ProviderWork(r)
          BY <1>3, <2>1, <3>1 DEF Parsed
        <4>2. \E n \in 1..Len(run'.work) :
                run'.work[n].op = "organization" /\ run'.work[n].id = s.id
          BY <1>4, <3>1, <4>1, ProviderWorkInOrder
        <4>3. \A a \in IdsOf(s) : \E n \in 1..Len(run'.work) :
                run'.work[n].op = "attribution" /\ run'.work[n].id = a
          BY <1>4, <3>1, <4>1, ProviderWorkInOrder
        <4>4. QED
          BY <1>3, <3>1, <4>1, <4>2, <4>3 DEF Pending
      <3>2. CASE s # r
        <4>1. s \in Parsed(run.input.providers) \ run.todo
          BY <1>3, <2>1, <3>2
        <4>2. \A op, i : ~ Pending(op, i)
          BY <1>1 DEF Pending
        <4>3. /\ {s.id} \cup IdsOf(s) \subseteq run.processed
              /\ ProviderHeld(s.id) /\ \A a \in IdsOf(s) : AttributionHeld(a)
          BY <1>1, <4>1, <4>2 DEF Held, ProvidersHeld
        <4>4. /\ ProviderHeld(s.id)' /\ \A a \in IdsOf(s) : AttributionHeld(a)'
          BY <1>3, <4>3, SameRows DEF ProviderHeld, AttributionHeld, tables
        <4>5. run.processed \subseteq run'.processed
          BY <1>3
        <4>6. QED
          BY <4>3, <4>4, <4>5
      <3>3. QED
        BY <3>1, <3>2
    <2>2. QED
      BY <1>3, <2>1 DEF ProvidersHeld, Parsed
  <1>11. QED
    BY <1>1, <1>3, <1>5, <1>9, <1>10 DEF Whole, Held

LEMMA DatasetTakenUp ==
  ASSUME Inv, Whole, NextDataset
  PROVE  Whole'
  <1>1. /\ RunOk /\ RunFits /\ Held /\ Stored /\ MappingsFit /\ run.work = <<>>
        /\ run.part = "datasets" /\ UNCHANGED mappings
    BY DEF Inv, Whole, NextDataset, Ready, Running
  <1>2. PICK r \in run.todo : IF r.parses THEN TakeUp(r, {r.id}, DatasetWork(r))
                              ELSE TakeUp(r, {}, <<>>)
    BY DEF NextDataset
  <1>3. /\ AllColumns \subseteq DOMAIN run' /\ run'.todo = run.todo \ {r}
        /\ run'.work = (IF r.parses THEN DatasetWork(r) ELSE <<>>)
        /\ run'.processed = (IF r.parses THEN run.processed \cup {r.id} ELSE run.processed)
        /\ run'.part = run.part /\ run'.input = run.input /\ run'.lookup = run.lookup
        /\ run'.cleans = run.cleans /\ run'.source = run.source
        /\ UNCHANGED tables
    <2>1. CASE r.parses
      BY <1>1, <1>2, <2>1 DEF TakeUp, RunFits, AllColumns, Columns
    <2>2. CASE ~r.parses
      BY <1>1, <1>2, <2>2 DEF TakeUp, RunFits, AllColumns, Columns
    <2>3. QED
      BY <2>1, <2>2
  <1>4. PICK work : work = DatasetWork(r)
    OBVIOUS
  <1>5. /\ Head(work).op = "takeDataset" /\ Head(work).id = r.id
        /\ 3 \in 1..Len(work) /\ work[3].op = "save" /\ work[3].id = r.id
    BY <1>4 DEF DatasetWork
  <1>6. Stored' /\ MappingsFit'
    BY <1>1, <1>3 DEF tables, Stored, MappingsFit
  <1>7. LookupsLead'
    BY <1>1, <1>2, <1>3 DEF tables, RunFits, LookupsLead, Targets
  <1>8. ASSUME r.parses PROVE Pending("save", r.id)'
    <2>1. run'.work = work
      BY <1>3, <1>4, <1>8
    <2>2. QED
      BY <1>5, <2>1 DEF Pending
  <1>9. ASSUME r.parses, NEW w, w = Head(run'.work)
        PROVE  Belongs(w)' /\ Needs(w)'
    <2>1. w.op = "takeDataset" /\ w.id = r.id
      BY <1>3, <1>4, <1>5, <1>9
    <2>2. QED
      BY <1>1, <1>3, <1>8, <1>9, <2>1 DEF Belongs, Needs, ProviderOps
  <1>10. run'.work # <<>> => (Belongs(Head(run.work)) /\ Needs(Head(run.work)))'
    BY <1>3, <1>9
  <1>11. RunFits'
    BY <1>1, <1>3, <1>7, <1>10 DEF RunFits
  <1>12. SetsHeld'
    <2>1. ASSUME NEW s \in Parsed(run.input.datasets) \ run'.todo
          PROVE  s.id \in run'.processed /\ (Pending("save", s.id)' \/ SetHeld(s.id)')
      <3>1. CASE s = r
        <4>1. r.parses
          BY <2>1, <3>1 DEF Parsed
        <4>2. QED
          BY <1>3, <1>8, <3>1, <4>1
      <3>2. CASE s # r
        <4>1. s \in Parsed(run.input.datasets) \ run.todo
          BY <1>3, <2>1, <3>2
        <4>2. \A op, i : ~ Pending(op, i)
          BY <1>1 DEF Pending
        <4>3. s.id \in run.processed /\ SetHeld(s.id)
          BY <1>1, <4>1, <4>2 DEF Held, SetsHeld
        <4>4. SetHeld(s.id)'
          BY <1>3, <4>3, SameRows DEF SetHeld, tables
        <4>5. run.processed \subseteq run'.processed
          BY <1>3
        <4>6. QED
          BY <4>3, <4>4, <4>5
      <3>3. QED
        BY <3>1, <3>2
    <2>2. QED
      BY <1>3, <2>1 DEF SetsHeld, Parsed
  <1>13. QED
    BY <1>1, <1>3, <1>6, <1>11, <1>12 DEF Whole, Held

LEMMA PartsEnteredWhole ==
  ASSUME Inv, Whole, EnterProviders \/ EnterDatasets
  PROVE  Whole'
  <1>1. /\ RunOk /\ RunFits /\ Stored /\ MappingsFit /\ run.work = <<>> /\ UNCHANGED tables
        /\ UNCHANGED mappings
    BY DEF Inv, Whole, EnterProviders, EnterDatasets, Entering, PartEnded, Ended, Running
  <1>2. Stored' /\ MappingsFit'
    BY <1>1 DEF tables, Stored, MappingsFit
  <1>3. CASE EnterProviders
    <2>1. PICK t \in Tables(mappings.organization, DOMAIN organization) :
            Enter("organizations", <<"organizations", "attributions">>,
                  [organization |-> t], run.input.providers)
      BY <1>3 DEF EnterProviders
    <2>2. /\ AllColumns \subseteq DOMAIN run'
          /\ run'.part = "organizations" /\ run'.input = run.input
          /\ run'.todo = run.input.providers /\ run'.work = run.work
          /\ run'.lookup.organization = t /\ run'.source = run.source
          /\ run'.cleans = <<"organizations", "attributions">>
      BY <1>1, <2>1 DEF Enter, RunFits, AllColumns, Columns
    <2>3. Targets(t, DOMAIN organization)
      <3>1. \A m \in mappings.organization : m.prefix \in Prefixes
        BY <1>1, HarvestAssumption DEF MappingsFit
      <3>2. QED
        BY <3>1, TablesTarget
    <2>4. LookupsLead'
      BY <1>1, <2>2, <2>3 DEF LookupsLead, tables
    <2>5. RunFits'
      BY <1>1, <2>2, <2>4 DEF RunFits, CleansOf
    <2>6. ProvidersHeld'
      BY <2>2 DEF ProvidersHeld, Parsed
    <2>7. QED
      BY <1>2, <2>2, <2>5, <2>6 DEF Whole, Held
  <1>4. CASE EnterDatasets
    <2>1. PICK d \in Tables(mappings.dataset, DOMAIN dataset),
               u \in Tables(mappings.unit, DOMAIN organization) :
            Enter("datasets", <<"datasets">>, [dataset |-> d, unit |-> u], run.input.datasets)
      BY <1>4 DEF EnterDatasets
    <2>2. /\ AllColumns \subseteq DOMAIN run'
          /\ run'.part = "datasets" /\ run'.input = run.input
          /\ run'.todo = run.input.datasets /\ run'.work = run.work
          /\ run'.lookup.unit = u /\ run'.source = run.source
          /\ run'.cleans = <<"datasets">>
      BY <1>1, <2>1 DEF Enter, RunFits, AllColumns, Columns
    <2>3. Targets(u, DOMAIN organization)
      <3>1. \A m \in mappings.unit : m.prefix \in Prefixes
        BY <1>1, HarvestAssumption DEF MappingsFit
      <3>2. QED
        BY <3>1, TablesTarget
    <2>4. LookupsLead'
      BY <1>1, <2>2, <2>3 DEF LookupsLead, tables
    <2>5. RunFits'
      BY <1>1, <2>2, <2>4 DEF RunFits, CleansOf
    <2>6. SetsHeld'
      BY <2>2 DEF SetsHeld, Parsed
    <2>7. QED
      BY <1>2, <2>2, <2>5, <2>6 DEF Whole, Held
  <1>5. QED
    BY <1>3, <1>4

-----------------------------------------------------------------------------
\* A cleanup comes when every record has been seen and written.
LEMMA AtCleanUp ==
  ASSUME Inv, Whole, NEW kind, Cleaning(kind)
  PROVE  /\ RunOk /\ RunFits /\ Held /\ Stored /\ MappingsFit
         /\ Rows(organization) /\ Rows(attribution) /\ Rows(dataset)
         /\ run.todo = {} /\ run.work = <<>>
         /\ \/ kind \in {"organizations", "attributions"} /\ run.part = "organizations"
            \/ kind = "datasets" /\ run.part = "datasets"
         /\ run.part = "organizations" =>
              \A r \in Parsed(run.input.providers) :
                /\ {r.id} \cup IdsOf(r) \subseteq run.processed
                /\ ProviderHeld(r.id) /\ \A a \in IdsOf(r) : AttributionHeld(a)
         /\ run.part = "datasets" =>
              \A r \in Parsed(run.input.datasets) : r.id \in run.processed /\ SetHeld(r.id)
  <1>1. /\ run # Idle /\ run.todo = {} /\ run.work = <<>>
        /\ \E n \in 1..Len(run.cleans) : run.cleans[n] = kind
    BY DEF Cleaning, Ended, Running
  <1>2. RunOk /\ RunFits /\ Held /\ Stored /\ MappingsFit
    BY <1>1 DEF Inv, Whole
  <1>3. /\ Rows(organization) /\ Rows(attribution) /\ Rows(dataset)
    BY DEF Inv, Single
  <1>4. \/ kind \in {"organizations", "attributions"} /\ run.part = "organizations"
        \/ kind = "datasets" /\ run.part = "datasets"
    BY <1>1, <1>2 DEF RunFits, CleansOf
  <1>5. \A op, i : ~ Pending(op, i)
    BY <1>1 DEF Pending
  <1>6. ASSUME run.part = "organizations", NEW r \in Parsed(run.input.providers)
        PROVE  /\ {r.id} \cup IdsOf(r) \subseteq run.processed
               /\ ProviderHeld(r.id) /\ \A a \in IdsOf(r) : AttributionHeld(a)
    BY <1>1, <1>2, <1>5, <1>6 DEF Held, ProvidersHeld
  <1>7. ASSUME run.part = "datasets", NEW r \in Parsed(run.input.datasets)
        PROVE  r.id \in run.processed /\ SetHeld(r.id)
    BY <1>1, <1>2, <1>5, <1>7 DEF Held, SetsHeld
  <1>8. QED
    BY <1>1, <1>2, <1>3, <1>4, <1>6, <1>7

\* What a step of the cleanup leaves.
Spares ==
    /\ Stored' /\ UNCHANGED <<run, mappings>>
    /\ run.part = "organizations" =>
         /\ \A r \in Parsed(run.input.providers) :
              ProviderHeld(r.id)' /\ \A a \in IdsOf(r) : AttributionHeld(a)'
         /\ DOMAIN dataset' = DOMAIN dataset
    /\ run.part # "organizations" =>
         /\ \A r \in Parsed(run.input.datasets) : SetHeld(r.id)'
         /\ UNCHANGED <<organization, attribution>>

LEMMA IdCleaned ==
  ASSUME Inv, Whole, NEW kind, CleanId(kind), UNCHANGED mappings
  PROVE  Spares
  <1>1. Cleaning(kind) /\ UNCHANGED run
    BY DEF CleanId
  <1>2. PICK i : i \notin run.processed /\ StripId(kind, i)
    BY DEF CleanId, Removed
  <1>3. run'.lookup = run.lookup /\ run'.input = run.input
    BY <1>1
  <1>4. /\ Stored /\ Rows(organization) /\ Rows(attribution) /\ Rows(dataset)
        /\ \/ kind \in {"organizations", "attributions"} /\ run.part = "organizations"
           \/ kind = "datasets" /\ run.part = "datasets"
    BY <1>1, AtCleanUp
  <1>5. CASE kind = "organizations"
    <2>1. /\ organization' = RemoveSourceId(organization, i) /\ UNCHANGED <<attribution, dataset>>
          /\ run.part = "organizations"
      BY <1>2, <1>4, <1>5 DEF StripId
    <2>2. Stored'
      BY <1>4, <2>1, OrganizationsGrow DEF RemoveSourceId
    <2>3. ASSUME NEW r \in Parsed(run.input.providers)
          PROVE  ProviderHeld(r.id)' /\ \A a \in IdsOf(r) : AttributionHeld(a)'
      <3>1. /\ {r.id} \cup IdsOf(r) \subseteq run.processed
            /\ ProviderHeld(r.id) /\ \A a \in IdsOf(r) : AttributionHeld(a)
        BY <1>1, <2>1, AtCleanUp
      <3>2. Holders(organization', r.id) = Holders(organization, r.id)
        BY <1>2, <1>4, <2>1, <3>1, HoldersTaken
      <3>3. ProviderHeld(r.id)'
        BY <1>3, <3>1, <3>2, SameRows DEF ProviderHeld
      <3>4. \A a \in IdsOf(r) : AttributionHeld(a)'
        BY <1>3, <2>1, <3>1, SameRows DEF AttributionHeld
      <3>5. QED
        BY <3>3, <3>4
    <2>4. QED
      BY <1>1, <2>1, <2>2, <2>3 DEF Spares
  <1>6. CASE kind = "attributions"
    <2>1. /\ attribution' = RemoveSourceId(attribution, i) /\ UNCHANGED <<organization, dataset>>
          /\ run.part = "organizations"
      BY <1>2, <1>4, <1>6 DEF StripId
    <2>2. /\ Stored' /\ DOMAIN attribution' = DOMAIN attribution
          /\ \A a \in DOMAIN attribution :
               /\ attribution'[a].organization = attribution[a].organization
               /\ attribution'[a].ids = attribution[a].ids \ {i}
      BY <1>4, <2>1, AttributionIdTaken
    <2>3. ASSUME NEW r \in Parsed(run.input.providers)
          PROVE  ProviderHeld(r.id)' /\ \A a \in IdsOf(r) : AttributionHeld(a)'
      <3>1. /\ {r.id} \cup IdsOf(r) \subseteq run.processed
            /\ ProviderHeld(r.id) /\ \A a \in IdsOf(r) : AttributionHeld(a)
        BY <1>1, <2>1, AtCleanUp
      <3>2. ProviderHeld(r.id)'
        BY <1>3, <2>1, <3>1, SameRows DEF ProviderHeld
      <3>3. \A a \in IdsOf(r) : AttributionHeld(a)'
        BY <1>2, <1>3, <2>2, <3>1, SameRows DEF AttributionHeld
      <3>4. QED
        BY <3>2, <3>3
    <2>4. QED
      BY <1>1, <2>1, <2>2, <2>3 DEF Spares
  <1>7. CASE kind = "datasets"
    <2>1. /\ dataset' = RemoveSourceId(dataset, i) /\ UNCHANGED <<organization, attribution>>
          /\ run.part = "datasets"
      BY <1>2, <1>4, <1>7 DEF StripId
    <2>2. Stored'
      BY <1>4, <2>1, DatasetIdTaken
    <2>3. ASSUME NEW r \in Parsed(run.input.datasets)
          PROVE  SetHeld(r.id)'
      <3>1. r.id \in run.processed /\ SetHeld(r.id)
        BY <1>1, <2>1, AtCleanUp
      <3>2. Holders(dataset', r.id) = Holders(dataset, r.id)
        BY <1>2, <1>4, <2>1, <3>1, HoldersTaken
      <3>3. QED
        BY <1>3, <3>1, <3>2, SameRows DEF SetHeld
    <2>4. QED
      BY <1>1, <2>1, <2>2, <2>3 DEF Spares
  <1>8. QED
    BY <1>4, <1>5, <1>6, <1>7

LEMMA RowCleaned ==
  ASSUME Inv, Whole, NEW kind, CleanRow(kind), UNCHANGED mappings
  PROVE  Spares
  <1>1. Cleaning(kind) /\ UNCHANGED run
    BY DEF CleanRow
  <1>2. PICK k : k \in DOMAIN Table(kind) /\ Table(kind)[k].ids = {} /\ DeleteRow(kind, k)
    BY DEF CleanRow, Obsolete, ObsoleteRows, RowsOf
  <1>3. run'.lookup = run.lookup /\ run'.input = run.input
    BY <1>1
  <1>4. /\ Stored
        /\ \/ kind \in {"organizations", "attributions"} /\ run.part = "organizations"
           \/ kind = "datasets" /\ run.part = "datasets"
    BY <1>1, AtCleanUp
  <1>5. CASE kind = "organizations"
    <2>1. /\ k \in DOMAIN organization /\ organization[k].ids = {} /\ DeleteOrganizations({k})
          /\ run.part = "organizations"
      BY <1>2, <1>4, <1>5 DEF Table, DeleteRow
    <2>2. /\ Stored' /\ DOMAIN dataset' = DOMAIN dataset
          /\ organization' = Without(organization, {k})
          /\ \A a \in DOMAIN attribution :
               attribution[a].organization # k =>
                 a \in DOMAIN attribution' /\ attribution'[a] = attribution[a]
      BY <1>4, <2>1, OrganizationDeleted
    <2>3. \A j : Holders(organization', j) = Holders(organization, j)
      BY <2>1, <2>2, HoldersWithout
    <2>4. k \notin ProviderRows
      <3>1. SUFFICES ASSUME NEW r \in Parsed(run.input.providers), k = ProviderRow(r.id)
                     PROVE  FALSE
        BY DEF ProviderRows, ProviderIds
      <3>2. Holders(organization, r.id) = {k}
        BY <1>1, <2>1, <3>1, AtCleanUp DEF ProviderHeld
      <3>3. QED
        BY <2>1, <3>2 DEF Holders
    <2>5. ASSUME NEW r \in Parsed(run.input.providers)
          PROVE  ProviderHeld(r.id)' /\ \A a \in IdsOf(r) : AttributionHeld(a)'
      <3>1. ProviderHeld(r.id) /\ \A a \in IdsOf(r) : AttributionHeld(a)
        BY <1>1, <2>1, AtCleanUp
      <3>2. ProviderHeld(r.id)'
        BY <1>3, <2>3, <3>1, SameRows DEF ProviderHeld
      <3>3. \A a \in IdsOf(r) : AttributionHeld(a)'
        BY <1>3, <2>2, <2>4, <3>1, SameRows DEF AttributionHeld
      <3>4. QED
        BY <3>2, <3>3
    <2>6. QED
      BY <1>1, <2>1, <2>2, <2>5 DEF Spares
  <1>6. CASE kind = "attributions"
    <2>1. /\ attribution[k].ids = {} /\ DeleteAttributions({k}) /\ run.part = "organizations"
      BY <1>2, <1>4, <1>6 DEF Table, DeleteRow
    <2>2. /\ Stored' /\ DOMAIN dataset' = DOMAIN dataset /\ UNCHANGED organization
          /\ attribution' = Without(attribution, {k})
      BY <1>4, <2>1, AttributionDeleted
    <2>3. \A a \in DOMAIN attribution :
            a # k => a \in DOMAIN attribution' /\ attribution'[a] = attribution[a]
      BY <2>2 DEF Without
    <2>4. ASSUME NEW r \in Parsed(run.input.providers)
          PROVE  ProviderHeld(r.id)' /\ \A a \in IdsOf(r) : AttributionHeld(a)'
      <3>1. ProviderHeld(r.id) /\ \A a \in IdsOf(r) : AttributionHeld(a)
        BY <1>1, <2>1, AtCleanUp
      <3>2. ProviderHeld(r.id)'
        BY <1>3, <2>2, <3>1, SameRows DEF ProviderHeld
      <3>3. \A a \in IdsOf(r) : AttributionHeld(a)'
        BY <1>3, <2>1, <2>3, <3>1, SameRows DEF AttributionHeld
      <3>4. QED
        BY <3>2, <3>3
    <2>5. QED
      BY <1>1, <2>1, <2>2, <2>4 DEF Spares
  <1>7. CASE kind = "datasets"
    <2>1. /\ k \in DOMAIN dataset /\ dataset[k].ids = {} /\ DeleteDatasets({k})
          /\ run.part = "datasets"
      BY <1>2, <1>4, <1>7 DEF Table, DeleteRow
    <2>2. /\ Stored' /\ UNCHANGED <<organization, attribution>>
          /\ DOMAIN dataset' = DOMAIN dataset \ {k}
          /\ \A d \in DOMAIN dataset' : dataset'[d].ids = dataset[d].ids
      BY <1>4, <2>1, DatasetDeleted
    <2>3. \A j : Holders(dataset', j) = Holders(dataset, j)
      BY <2>1, <2>2 DEF Holders
    <2>4. ASSUME NEW r \in Parsed(run.input.datasets)
          PROVE  SetHeld(r.id)'
      <3>1. SetHeld(r.id)
        BY <1>1, <2>1, AtCleanUp
      <3>2. QED
        BY <1>3, <2>3, <3>1, SameRows DEF SetHeld
    <2>5. QED
      BY <1>1, <2>1, <2>2, <2>4 DEF Spares
  <1>8. QED
    BY <1>4, <1>5, <1>6, <1>7

LEMMA CleanUpSpares ==
  ASSUME Inv, Whole, CleanUp
  PROVE  Whole' /\ Spares
  <1>1. PICK kind : (CleanId(kind) \/ CleanRow(kind)) /\ UNCHANGED mappings
    BY DEF CleanUp
  <1>2. Cleaning(kind)
    BY <1>1 DEF CleanId, CleanRow
  <1>3. /\ RunFits /\ Held /\ MappingsFit /\ run.todo = {} /\ run.work = <<>>
    BY <1>2, AtCleanUp
  <1>4. Spares
    BY <1>1, IdCleaned, RowCleaned
  <1>5. Stored' /\ UNCHANGED <<run, mappings>>
    BY <1>4 DEF Spares
  <1>6. MappingsFit' /\ RunFits'
    BY <1>3, <1>5 DEF MappingsFit, RunFits, LookupsLead
  <1>7. ASSUME run.part = "organizations" PROVE ProvidersHeld'
    BY <1>3, <1>4, <1>5, <1>7 DEF Spares, Held, ProvidersHeld, Parsed
  <1>8. ASSUME run.part = "datasets" PROVE SetsHeld'
    BY <1>3, <1>4, <1>5, <1>8 DEF Spares, Held, SetsHeld, Parsed
  <1>9. QED
    BY <1>4, <1>5, <1>6, <1>7, <1>8 DEF Whole, Held

-----------------------------------------------------------------------------
LEMMA InitWhole == Init => Whole
  <1>1. SUFFICES ASSUME Init PROVE Whole
    OBVIOUS
  <1>2. \A d \in DOMAIN dataset : DatasetFits(dataset[d], DOMAIN organization, DOMAIN attribution)
    <2> TAKE d \in DOMAIN dataset
    <2>1. PICK row : row = dataset[d]
      OBVIOUS
    <2>2. row = DatasetRow("user-input", {}, "ours")
      BY <1>1, <2>1 DEF Init
    <2>3. row.units = {} /\ row.attribution = None /\ DOMAIN row = DatasetColumns
      BY <2>2 DEF DatasetRow, DatasetColumns
    <2>4. QED
      BY <2>1, <2>3 DEF DatasetFits
  <1>3. DOMAIN attribution = {}
    BY <1>1 DEF Init
  <1>4. Stored
    BY <1>2, <1>3 DEF Stored, Fits
  <1>5. MappingsFit
    BY <1>1 DEF Init, MappingsFit
  <1>6. QED
    BY <1>1, <1>4, <1>5 DEF Init, Whole

LEMMA BeginWhole ==
  ASSUME Inv, Whole, Begin
  PROVE  Whole'
  <1>1. /\ Stored /\ MappingsFit /\ UNCHANGED tables /\ UNCHANGED mappings
    BY DEF Whole, Begin, Start
  <1>2. PICK o \in Options : Start(Bod, o.parts, o.clean, o.clean /\ o.parts = AllParts, harvest)
    BY DEF Begin
  <1>3. /\ AllColumns \subseteq DOMAIN run' /\ run'.part = "start" /\ run'.source = Bod
        /\ run'.work = <<>> /\ run'.todo = {} /\ run'.cleans = <<>>
    BY <1>2 DEF Start, AllColumns, Columns
  <1>4. Stored' /\ MappingsFit'
    BY <1>1 DEF tables, Stored, MappingsFit
  <1>5. RunFits' /\ Held'
    BY <1>3 DEF RunFits, LookupsLead, CleansOf, Held
  <1>6. QED
    BY <1>4, <1>5 DEF Whole

LEMMA NextKeepsWhole ==
  ASSUME Inv, Whole, [Next]_vars
  PROVE  Whole'
  <1>1. ASSUME UNCHANGED <<tables, run>>, MappingsFit'
        PROVE  Whole'
    <2>1. /\ Stored' /\ run'.lookup = run.lookup /\ run'.input = run.input
      BY <1>1 DEF tables, Whole, Stored
    <2>2. \A op, i : Pending(op, i)' <=> Pending(op, i)
      BY <1>1 DEF Pending
    <2>3. /\ \A i : ProviderHeld(i)' <=> ProviderHeld(i)
          /\ \A i : SetHeld(i)' <=> SetHeld(i)
          /\ \A a : AttributionHeld(a)' <=> AttributionHeld(a)
      BY <1>1, <2>1, SameRows DEF ProviderHeld, SetHeld, AttributionHeld, tables
    <2>4. ASSUME RunFits PROVE RunFits'
      <3>1. \A w : Belongs(w) /\ Needs(w) => Belongs(w)' /\ Needs(w)'
        BY <1>1, <2>1, <2>2, SameRows DEF Belongs, Needs, tables
      <3>2. run.work # <<>> => Belongs(Head(run.work))' /\ Needs(Head(run.work))'
        BY <1>1, <2>4, <3>1 DEF RunFits
      <3>3. LookupsLead'
        BY <1>1, <2>4 DEF RunFits, LookupsLead, tables
      <3>4. QED
        BY <1>1, <2>4, <3>2, <3>3 DEF RunFits
    <2>5. ASSUME Held PROVE Held'
      BY <1>1, <2>2, <2>3, <2>5 DEF Held, ProvidersHeld, SetsHeld, Parsed
    <2>6. QED
      BY <1>1, <2>1, <2>4, <2>5 DEF Whole
  <1>2. MappingsFit
    BY DEF Whole
  <1>3. CASE UNCHANGED vars
    BY <1>1, <1>2, <1>3 DEF vars, MappingsFit
  <1>4. CASE Publish
    BY <1>1, <1>2, <1>4 DEF Publish, MappingsFit
  <1>5. CASE EditMappings
    <2>1. PICK k \in DOMAIN MappingRows :
            \E m \in MappingRows[k] :
              mappings' = [mappings EXCEPT ![k] = IF m \in @ THEN @ \ {m} ELSE @ \cup {m}]
      BY <1>5 DEF EditMappings
    <2>2. PICK m \in MappingRows[k] :
            mappings' = [mappings EXCEPT ![k] = IF m \in @ THEN @ \ {m} ELSE @ \cup {m}]
      BY <2>1
    <2>3. MappingsFit'
      BY <1>2, <2>2 DEF MappingsFit
    <2>4. QED
      BY <1>1, <1>5, <2>3 DEF EditMappings
  <1>6. CASE Begin
    BY <1>6, BeginWhole
  <1>7. CASE Step
    BY <1>7, PartsEnteredWhole, ProviderTakenUp, DatasetTakenUp, TakeProviderIdWhole,
       SaveProviderWhole, TakeAttributionIdWhole, SaveAttributionWhole, TakeDatasetIdWhole,
       FindDatasetWhole, StoreDatasetWhole, OwnersWhole, CleanUpSpares
       DEF Step, ProviderStep, DatasetStep
  <1>8. CASE End \/ Break
    <2>1. run' = Idle /\ UNCHANGED tables
      BY <1>8 DEF End, Break, Finish, Stop, Raise
    <2>2. UNCHANGED mappings
      BY <1>8 DEF End, Break
    <2>3. QED
      BY <2>1, <2>2 DEF tables, Whole, Stored, MappingsFit
  <1>9. QED
    BY <1>3, <1>4, <1>5, <1>6, <1>7, <1>8 DEF Next

\* Whatever is deleted, no attribution is without its organization, no dataset points to an
\* attribution or a unit that is gone, and no dataset has two owners.
THEOREM TablesStayWhole == Spec => []TypeOK
  <1>1. Stored => TypeOK
    <2>1. ASSUME Stored, NEW a \in DOMAIN attribution
          PROVE  /\ attribution[a].ids \subseteq {a}
                 /\ attribution[a].organization \in DOMAIN organization
      BY <2>1 DEF Stored, Fits, AttributionFits
    <2>2. ASSUME Stored, NEW d \in DOMAIN dataset
          PROVE  /\ dataset[d].attribution \in DOMAIN attribution \cup {None}
                 /\ dataset[d].units \subseteq [role : {Owner}, to : DOMAIN organization]
                 /\ Cardinality(Owners(d)) <= 1
      <3>1. DatasetFits(dataset[d], DOMAIN organization, DOMAIN attribution)
        BY <2>2 DEF Stored, Fits
      <3>2. dataset[d].units \subseteq [role : {Owner}, to : DOMAIN organization]
        BY <3>1 DEF DatasetFits, UnitLink
      <3>3. Cardinality(Owners(d)) <= 1
        <4>1. \A l, m \in Owners(d) : l = m
          BY <3>1 DEF DatasetFits, Owners
        <4>2. CASE Owners(d) = {}
          BY <4>2, FS_EmptySet
        <4>3. CASE Owners(d) # {}
          <5>1. PICK l : Owners(d) = {l}
            BY <4>1, <4>3
          <5>2. Cardinality({l}) = 1
            BY FS_Singleton
          <5>3. QED
            BY <5>1, <5>2
        <4>4. QED
          BY <4>2, <4>3
      <3>4. QED
        BY <3>1, <3>2, <3>3 DEF DatasetFits
    <2>3. QED
      BY <2>1, <2>2 DEF TypeOK
  <1>2. Whole => TypeOK
    BY <1>1 DEF Whole
  <1>3. QED
    BY InitInv, NextKeepsInv, InitWhole, NextKeepsWhole, <1>2, PTL DEF Spec, Safety

\* While a part cleans up, the id of each record that parses is held by the row it is for and
\* by no other, a provider's attributions are there, and no part deletes what another makes.
THEOREM PublishedIsSpared == Spec => SparesPublished
  <1>1. ASSUME Inv, Whole, CleanUp
        PROVE
       IF run.part = "organizations"
       THEN /\ \A r \in Parsed(run.input.providers) :
                 /\ Holders(organization', r.id) = {RowFor(OrganizationMapping(r.id), r.id)}
                 /\ \A a \in IdsOf(r) : Holders(attribution', a) = {a}
            /\ DOMAIN dataset' = DOMAIN dataset
       ELSE /\ \A r \in Parsed(run.input.datasets) :
                 Holders(dataset', r.id) = {RowFor(DatasetMapping(r.id), r.id)}
            /\ UNCHANGED <<organization, attribution>>
    <2>1. Spares
      BY <1>1, CleanUpSpares
    <2>2. run'.lookup = run.lookup /\ run'.input = run.input
      BY <2>1 DEF Spares
    <2>3. \A i : ProviderRow(i)' = ProviderRow(i) /\ SetRow(i)' = SetRow(i)
      BY <2>2, SameRows
    <2>4. ASSUME NEW a, AttributionHeld(a)'
          PROVE  Holders(attribution', a) = {a}
      BY <2>1, <2>4 DEF Spares, AttributionHeld, Holders, Stored, Fits, AttributionFits
    <2>5. ASSUME run.part = "organizations", NEW r \in Parsed(run.input.providers)
          PROVE  /\ Holders(organization', r.id) = {RowFor(OrganizationMapping(r.id), r.id)}
                 /\ \A a \in IdsOf(r) : Holders(attribution', a) = {a}
      BY <2>1, <2>3, <2>4, <2>5 DEF Spares, ProviderHeld, ProviderRow
    <2>6. ASSUME run.part # "organizations", NEW r \in Parsed(run.input.datasets)
          PROVE  Holders(dataset', r.id) = {RowFor(DatasetMapping(r.id), r.id)}
      BY <2>1, <2>3, <2>6 DEF Spares, SetHeld, SetRow
    <2>7. QED
      BY <2>1, <2>5, <2>6 DEF Spares
  <1>2. ASSUME Inv, Whole
        PROVE
    [CleanUp =>
       IF run.part = "organizations"
       THEN /\ \A r \in Parsed(run.input.providers) :
                 /\ Holders(organization', r.id) = {RowFor(OrganizationMapping(r.id), r.id)}
                 /\ \A a \in IdsOf(r) : Holders(attribution', a) = {a}
            /\ DOMAIN dataset' = DOMAIN dataset
       ELSE /\ \A r \in Parsed(run.input.datasets) :
                 Holders(dataset', r.id) = {RowFor(DatasetMapping(r.id), r.id)}
            /\ UNCHANGED <<organization, attribution>>]_vars
    BY <1>1, <1>2
  <1>3. QED
    BY InitInv, NextKeepsInv, InitWhole, NextKeepsWhole, <1>2, PTL
    DEF Spec, Safety, SparesPublished

-----------------------------------------------------------------------------
(***************************************************************************)
(* What one complete run makes of the tables.  Rows are those made by hand *)
(* and those of records; what was processed are ids of records that parse; *)
(* and each record that is done left what it says in the row it is for, or *)
(* another record of that row did later.                                   *)
(***************************************************************************)
RowsMade(table, foreign, ids) ==
    /\ foreign \subseteq DOMAIN table
    /\ \A k \in DOMAIN table :
         /\ {"ids", "source"} \subseteq DOMAIN table[k]
         /\ table[k].ids \subseteq ids /\ k \in foreign \cup ids
         /\ k \in foreign => table[k].source # Bod
Made ==
    /\ RowsMade(organization, ForeignOrganizations, OrganizationIds)
    /\ RowsMade(dataset, ForeignDatasets, DatasetIds)
    /\ \A a \in DOMAIN attribution : a \in AttributionIds /\ attribution[a].source = Bod

AsAsked ==
    /\ "complete" \in DOMAIN run
    /\ run.complete =>
         /\ run.clean /\ run.input = harvest
         /\ run.part = "start" => run.ahead = AllParts
         /\ run.part = "organizations" => run.ahead = <<"datasets">>
         /\ run.part = "datasets" => run.ahead = <<>>

Seen ==
    /\ run.part = "organizations" =>
         run.processed \subseteq UNION {{r.id} \cup IdsOf(r) : r \in Parsed(run.input.providers)}
    /\ run.part = "datasets" => run.processed \subseteq {r.id : r \in Parsed(run.input.datasets)}

\* The lookup tables of a part are those there would be now.
LookedUp ==
    LeadOut =>
      /\ run.part = "organizations" =>
           run.lookup.organization \in Tables(mappings.organization, DOMAIN organization)
      /\ run.part = "datasets" =>
           /\ run.lookup.dataset \in Tables(mappings.dataset, DOMAIN dataset)
           /\ run.lookup.unit \in Tables(mappings.unit, DOMAIN organization)

\* The record the work is for.
ProviderAtHand(c) ==
    /\ c \in Parsed(run.input.providers)
    /\ \A n \in 1..Len(run.work) :
         /\ run.work[n].op \in {"takeProvider", "organization"} => run.work[n].id = c.id
         /\ run.work[n].op \in {"takeAttribution", "attribution"} => run.work[n].id \in IdsOf(c)
    /\ Op.op \in {"takeAttribution", "attribution"} => run.current = ProviderRow(c.id)
AttributionPlaced(a, r) ==
    a \in DOMAIN attribution /\ attribution[a].organization = ProviderRow(r.id)
Placed ==
    \E c :
      /\ run.work # <<>> => ProviderAtHand(c)
      /\ \A r \in Parsed(run.input.providers) \ run.todo : \A a \in IdsOf(r) :
           (r = c /\ Pending("attribution", a)) \/ AttributionPlaced(a, r)

SetAtHand(c) ==
    /\ c \in Parsed(run.input.datasets) \ run.todo
    /\ Len(run.work) \in 1..5
    /\ \A n \in 1..Len(run.work) : run.work[n] = DatasetWork(c)[n + 5 - Len(run.work)]
    /\ Len(run.work) <= 3 => run.current = SetRow(c.id)
ToldAttribution(d, q) ==
    q.attribution \in DOMAIN attribution => dataset[d].attribution = q.attribution
ToldOwner(d, q) ==
    OwnerOf(run.lookup.unit, q) # {} => {l.to : l \in Owners(d)} = OwnerOf(run.lookup.unit, q)
Told ==
    \E c :
      /\ run.work # <<>> => SetAtHand(c)
      /\ \A r \in Parsed(run.input.datasets) \ run.todo :
           /\ \/ SetRow(c.id) = SetRow(r.id) /\ Len(run.work) >= 3
              \/ \E q \in Parsed(run.input.datasets) \ run.todo :
                   SetRow(q.id) = SetRow(r.id) /\ ToldAttribution(SetRow(r.id), q)
           /\ \/ SetRow(c.id) = SetRow(r.id) /\ run.work # <<>>
              \/ \E q \in Parsed(run.input.datasets) \ run.todo :
                   SetRow(q.id) = SetRow(r.id) /\ ToldOwner(SetRow(r.id), q)

ProvidersDone ==
    run.complete /\ run.part = "datasets" /\ LeadOut =>
      \E t \in Tables(mappings.organization, DOMAIN organization) : ProvidersMirror(t)

Followed ==
    /\ Made
    /\ \/ run = Idle
       \/ /\ AsAsked /\ Seen /\ LookedUp /\ ProvidersDone
          /\ run.part = "organizations" => Placed
          /\ run.part = "datasets" => Told

\* Mappings that lead out of what their part makes name the same rows all the time.
LEMMA TablesSteady ==
  ASSUME LeadOut, Made, Made', UNCHANGED mappings
  PROVE  /\ Tables(mappings.organization, DOMAIN organization')
              = Tables(mappings.organization, DOMAIN organization)
         /\ Tables(mappings.dataset, DOMAIN dataset') = Tables(mappings.dataset, DOMAIN dataset)
  <1>1. \A m \in mappings.organization :
          m.target \in DOMAIN organization' <=> m.target \in DOMAIN organization
    BY DEF LeadOut, Made, RowsMade
  <1>2. \A m \in mappings.dataset :
          m.target \in DOMAIN dataset' <=> m.target \in DOMAIN dataset
    BY DEF LeadOut, Made, RowsMade
  <1>3. /\ {m \in mappings.organization : m.target \in DOMAIN organization'}
             = {m \in mappings.organization : m.target \in DOMAIN organization}
        /\ {m \in mappings.dataset : m.target \in DOMAIN dataset'}
             = {m \in mappings.dataset : m.target \in DOMAIN dataset}
    BY <1>1, <1>2
  <1>4. QED
    BY <1>3 DEF Tables

\* What a step within a part leaves as it was asked, seen and looked up.
LEMMA PartGoesOn ==
  ASSUME Followed, run # Idle, Made', UNCHANGED <<mappings, harvest>>,
         "complete" \in DOMAIN run', run'.complete = run.complete, run'.clean = run.clean,
         run'.ahead = run.ahead, run'.input = run.input, run'.part = run.part,
         run'.lookup = run.lookup, run'.processed = run.processed,
         run.part = "datasets" => UNCHANGED <<organization, attribution>>
  PROVE  AsAsked' /\ Seen' /\ LookedUp' /\ ProvidersDone'
  <1>1. Made /\ AsAsked /\ Seen /\ LookedUp /\ ProvidersDone
    BY DEF Followed
  <1>2. AsAsked'
    BY <1>1 DEF AsAsked
  <1>3. Seen'
    BY <1>1 DEF Seen, Parsed
  <1>4. LeadOut' <=> LeadOut
    BY DEF LeadOut
  <1>5. LookedUp'
    BY <1>1, <1>4, TablesSteady DEF LookedUp
  <1>6. ProvidersDone'
    <2>1. SUFFICES ASSUME run.complete, run.part = "datasets", LeadOut
                   PROVE  \E t \in Tables(mappings.organization, DOMAIN organization) :
                            ProvidersMirror(t)'
      BY <1>4 DEF ProvidersDone
    <2>2. PICK t \in Tables(mappings.organization, DOMAIN organization) : ProvidersMirror(t)
      BY <1>1, <2>1 DEF ProvidersDone
    <2>3. ProvidersMirror(t)'
      BY <2>1, <2>2 DEF ProvidersMirror
    <2>4. QED
      BY <2>3
  <1>7. QED
    BY <1>2, <1>3, <1>5, <1>6

LEMMA AdvancesAsked ==
  ASSUME RunOk, RunFits, AsAsked, run.work # <<>>, Done \/ \E row : DoneWith(row)
  PROVE  /\ "complete" \in DOMAIN run' /\ run'.complete = run.complete
         /\ run'.clean = run.clean /\ run'.ahead = run.ahead
  BY DEF RunFits, AllColumns, AsAsked, Done, DoneWith

\* A write of the part that is under way.
LEMMA WriteFollowed ==
  ASSUME Inv, Whole, Followed, NEW op, Doing(op), Done \/ \E row : DoneWith(row),
         UNCHANGED <<mappings, harvest>>, Made',
         run.part = "datasets" => UNCHANGED <<organization, attribution>>,
         run.part = "organizations" => Placed', run.part = "datasets" => Told'
  PROVE  Followed'
  <1>1. RunOk /\ RunFits /\ run.work # <<>>
    BY AtWorkWhole
  <1>2. run # Idle
    BY DEF Doing, Running
  <1>3. AsAsked
    BY <1>2 DEF Followed
  <1>4. AsAsked' /\ Seen' /\ LookedUp' /\ ProvidersDone' /\ run'.part = run.part
    BY <1>1, <1>2, <1>3, Advances, AdvancesAsked, PartGoesOn
  <1>5. QED
    BY <1>4 DEF Followed

-----------------------------------------------------------------------------
\* Rows after a write.
LEMMA MadePut ==
  ASSUME NEW table, NEW foreign, NEW ids, RowsMade(table, foreign, ids),
         NEW k, NEW row, {"ids", "source"} \subseteq DOMAIN row, row.ids \subseteq ids,
         k \in foreign \cup ids, k \in foreign => row.source # Bod
  PROVE  RowsMade(Put(table, k, row), foreign, ids)
  BY DEF RowsMade, Put

LEMMA MadeFewer ==
  ASSUME NEW table, NEW foreign, NEW ids, RowsMade(table, foreign, ids),
         NEW new, foreign \subseteq DOMAIN new, DOMAIN new \subseteq DOMAIN table,
         \A k \in DOMAIN new :
           /\ DOMAIN new[k] = DOMAIN table[k]
           /\ new[k].ids \subseteq table[k].ids /\ new[k].source = table[k].source
  PROVE  RowsMade(new, foreign, ids)
  BY DEF RowsMade

LEMMA MadeRemoved ==
  ASSUME NEW table, NEW foreign, NEW ids, RowsMade(table, foreign, ids), NEW i
  PROVE  RowsMade(RemoveSourceId(table, i), foreign, ids)
  <1> DEFINE new == RemoveSourceId(table, i)
  <1>1. /\ DOMAIN new = DOMAIN table
        /\ \A k \in DOMAIN table : new[k] = [table[k] EXCEPT !.ids = @ \ {i}]
    BY DEF RemoveSourceId
  <1> HIDE DEF new
  <1>2. ASSUME NEW k \in DOMAIN new
        PROVE  /\ DOMAIN new[k] = DOMAIN table[k]
               /\ new[k].ids \subseteq table[k].ids /\ new[k].source = table[k].source
    <2>1. PICK old : old = table[k]
      OBVIOUS
    <2>2. {"ids", "source"} \subseteq DOMAIN old
      BY <1>1, <1>2, <2>1 DEF RowsMade
    <2>3. new[k] = [old EXCEPT !.ids = old.ids \ {i}]
      BY <1>1, <1>2, <2>1
    <2>4. QED
      BY <2>1, <2>2, <2>3
  <1>3. RowsMade(new, foreign, ids)
    BY <1>1, <1>2, MadeFewer DEF RowsMade
  <1>4. QED
    BY <1>3 DEF new

-----------------------------------------------------------------------------
\* The writes of a provider, one lemma per action.
LEMMA RaiseFollowed ==
  ASSUME Followed, Raise
  PROVE  Followed'
  BY DEF Raise, Followed, Made, tables

LEMMA PlacedGoesOn ==
  ASSUME RunOk, RunFits, Placed, run.work # <<>>, Done \/ \E row : DoneWith(row),
         \A c, w : ProviderAtHand(c) /\ Prepares(Op, w)
                     /\ w.op \in {"takeAttribution", "attribution"} =>
                       run'.current = ProviderRow(c.id),
         \A c, r, a : ProviderAtHand(c) =>
           /\ AttributionPlaced(a, r) => AttributionPlaced(a, r)'
           /\ r = c /\ Op.op = "attribution" /\ Op.id = a => AttributionPlaced(a, r)'
  PROVE  Placed'
  <1>1. /\ run'.input = run.input /\ run'.todo = run.todo /\ run'.work = Tail(run.work)
        /\ run'.lookup = run.lookup
    BY Advances
  <1>2. PICK c :
          /\ ProviderAtHand(c)
          /\ \A r \in Parsed(run.input.providers) \ run.todo : \A a \in IdsOf(r) :
               (r = c /\ Pending("attribution", a)) \/ AttributionPlaced(a, r)
    BY DEF Placed
  <1>3. ASSUME NEW r \in Parsed(run.input.providers) \ run.todo, NEW a \in IdsOf(r)
        PROVE  (r = c /\ Pending("attribution", a)') \/ AttributionPlaced(a, r)'
    <2>1. CASE AttributionPlaced(a, r)
      BY <1>2, <2>1
    <2>2. CASE r = c /\ Pending("attribution", a)
      <3>1. (Op.op = "attribution" /\ Op.id = a) \/ Pending("attribution", a)'
        BY <1>1, <2>2, RestOfWork
      <3>2. QED
        BY <1>2, <2>2, <3>1
    <2>3. QED
      BY <1>2, <1>3, <2>1, <2>2
  <1>4. ASSUME run'.work # <<>> PROVE ProviderAtHand(c)'
    <2>1. /\ Len(run'.work) = Len(run.work) - 1 /\ Len(run.work) \in Nat
          /\ \A n \in 1..Len(run'.work) : run'.work[n] = run.work[n + 1]
      BY <1>1, HeadTailProperties DEF RunOk
    <2>2. PICK w : w = Op'
      OBVIOUS
    <2>3. Prepares(Op, w)
      BY <1>1, <1>4, <2>2, RestOfWork DEF Op
    <2>4. w.op \in {"takeAttribution", "attribution"} => run'.current = ProviderRow(c.id)
      BY <1>2, <2>3
    <2>5. ProviderRow(c.id)' = ProviderRow(c.id)
      BY <1>1, SameRows
    <2>6. \A n \in 1..Len(run'.work) : n + 1 \in 1..Len(run.work)
      BY <2>1
    <2>7. QED
      BY <1>1, <1>2, <2>1, <2>2, <2>4, <2>5, <2>6 DEF ProviderAtHand
  <1>5. QED
    BY <1>1, <1>3, <1>4 DEF Placed

\* The ids of the records at hand.
LEMMA AtHandIds ==
  ASSUME RunOk, RunFits, run.work # <<>>, NEW c, ProviderAtHand(c)
  PROVE  /\ Op.op \in {"takeProvider", "organization"} =>
              Op.id = c.id /\ c.id \in OrganizationIds
         /\ Op.op \in {"takeAttribution", "attribution"} =>
              Op.id \in IdsOf(c) /\ Op.id \in AttributionIds
  <1>1. c \in Providers
    BY DEF RunOk, ProviderAtHand, Parsed, Providers
  <1>2. 1 \in 1..Len(run.work) /\ Op = run.work[1]
    BY HeadTailProperties, EmptySeq DEF RunOk, Op
  <1>3. QED
    BY <1>1, <1>2 DEF ProviderAtHand, OrganizationIds, AttributionIds

LEMMA AtWorkFollowed ==
  ASSUME Inv, Whole, Followed, NEW op, Doing(op)
  PROVE  /\ RunOk /\ RunFits /\ run.work # <<>> /\ Op.op = op /\ Made
         /\ op \in ProviderOps =>
              run.part = "organizations" /\ Placed /\ \E c : ProviderAtHand(c)
         /\ op \in DatasetOps => run.part = "datasets" /\ Told /\ \E c : SetAtHand(c)
  <1>1. /\ RunOk /\ RunFits /\ run.work # <<>> /\ Op.op = op /\ Belongs(Op)
    BY AtWorkWhole
  <1>2. run # Idle
    BY DEF Doing, Running
  <1>3. QED
    BY <1>1, <1>2 DEF Followed, Belongs, Placed, Told

LEMMA TakeProviderIdFollowed ==
  ASSUME Inv, Whole, Followed, TakeProviderId, UNCHANGED harvest
  PROVE  Followed'
  <1>1. PICK p : p = Op.id
    OBVIOUS
  <1>2. /\ RunOk /\ RunFits /\ run.work # <<>> /\ Op.op = "takeProvider" /\ Made /\ Placed
        /\ run.part = "organizations"
    BY AtWorkFollowed DEF TakeProviderId, ProviderOps
  <1>3. /\ Done /\ UNCHANGED <<attribution, dataset>> /\ UNCHANGED mappings
        /\ organization' = RemoveSourceId(organization, p) /\ Doing("takeProvider")
    BY <1>1 DEF TakeProviderId, SaveOrganizations
  <1>4. Made'
    BY <1>2, <1>3, MadeRemoved DEF Made
  <1>5. \A i : ProviderRow(i)' = ProviderRow(i)
    BY <1>2, <1>3, Advances, SameRows
  <1>6. \A r, a : AttributionPlaced(a, r) => AttributionPlaced(a, r)'
    BY <1>3, <1>5 DEF AttributionPlaced
  <1>7. Placed'
    BY <1>2, <1>3, <1>6, PlacedGoesOn DEF Prepares, Firsts
  <1>8. QED
    BY <1>2, <1>3, <1>4, <1>7, WriteFollowed

LEMMA ProviderSavedFollowed ==
  ASSUME Inv, Whole, Followed, Doing("organization"), UNCHANGED <<mappings, harvest>>,
         NEW o, NEW row, DoneWith(o), SaveOrganizations(Put(organization, o, row)),
         o = ProviderRow(Op.id), {"ids", "source"} \subseteq DOMAIN row,
         row.ids = {Op.id} \cup (IF o \in DOMAIN organization THEN organization[o].ids ELSE {}),
         IF o \in DOMAIN organization THEN row.source = organization[o].source
         ELSE o = Op.id
  PROVE  Followed'
  <1>1. PICK p : p = Op.id
    OBVIOUS
  <1>2. /\ RunOk /\ RunFits /\ run.work # <<>> /\ Op.op = "organization" /\ Made /\ Placed
        /\ run.part = "organizations"
    BY AtWorkFollowed DEF ProviderOps
  <1>3. /\ UNCHANGED <<attribution, dataset>>
        /\ organization' = Put(organization, o, row)
    BY DEF SaveOrganizations
  <1>4. p \in OrganizationIds /\ \A c : ProviderAtHand(c) => p = c.id
    BY <1>1, <1>2, AtWorkFollowed, AtHandIds DEF ProviderOps
  <1>5. Made'
    <2>1. /\ row.ids \subseteq OrganizationIds /\ o \in ForeignOrganizations \cup OrganizationIds
          /\ o \in ForeignOrganizations => row.source # Bod
      BY <1>1, <1>2, <1>4 DEF Made, RowsMade
    <2>2. RowsMade(organization', ForeignOrganizations, OrganizationIds)
      BY <1>2, <1>3, <2>1, MadePut DEF Made
    <2>3. QED
      BY <1>2, <1>3, <2>2 DEF Made
  <1>6. \A i : ProviderRow(i)' = ProviderRow(i)
    BY <1>2, Advances, SameRows
  <1>7. \A r, a : AttributionPlaced(a, r) => AttributionPlaced(a, r)'
    BY <1>3, <1>6 DEF AttributionPlaced
  <1>8. run'.current = o
    BY <1>2 DEF DoneWith, RunFits, AllColumns, Columns
  <1>9. Placed'
    BY <1>1, <1>2, <1>4, <1>7, <1>8, PlacedGoesOn
  <1>10. QED
    BY <1>2, <1>3, <1>5, <1>9, WriteFollowed

LEMMA GivenKeeps ==
  ASSUME NEW row, {"ids", "source"} \subseteq DOMAIN row, NEW m, NEW i, NEW new,
         new = AddSourceId(Harvested(row, m), i)
  PROVE  DOMAIN new = DOMAIN row /\ new.ids = row.ids \cup {i} /\ new.source = row.source
  <1>1. PICK mid : mid = Harvested(row, m)
    OBVIOUS
  <1>2. DOMAIN mid = DOMAIN row /\ mid.ids = row.ids /\ mid.source = row.source
    BY <1>1 DEF Harvested
  <1>3. new = [mid EXCEPT !.ids = @ \cup {i}]
    BY <1>1 DEF AddSourceId
  <1>4. QED
    BY <1>2, <1>3

LEMMA SaveProviderFollowed ==
  ASSUME Inv, Whole, Followed, SaveProvider, UNCHANGED harvest
  PROVE  Followed'
  <1>1. Made /\ UNCHANGED mappings /\ Doing("organization")
    BY AtWorkFollowed DEF SaveProvider
  <1> DEFINE p == Op.id
             m == OrganizationMapping(p)
             o == IF IsMapped(m) THEN m.target ELSE p
             new == OrganizationRow(Bod, {p}, "theirs")
             old == AddSourceId(Harvested(organization[o], m), p)
  <1>2. o = ProviderRow(p)
    BY DEF ProviderRow, RowFor
  <1>3. CASE /\ o \in IF IsMapped(m) THEN DOMAIN organization ELSE RowsOf(organization, Bod)
             /\ SaveOrganizations(Put(organization, o, old))
             /\ DoneWith(o)
    <2>1. o \in DOMAIN organization
      BY <1>3 DEF RowsOf
    <2>2. {"ids", "source"} \subseteq DOMAIN organization[o]
      BY <1>1, <2>1 DEF Made, RowsMade
    <2> HIDE DEF m, o
    <2>3. /\ DOMAIN old = DOMAIN organization[o] /\ old.ids = organization[o].ids \cup {p}
          /\ old.source = organization[o].source
      BY <2>2, GivenKeeps
    <2> HIDE DEF old
    <2>4. QED
      BY <1>1, <1>2, <1>3, <2>1, <2>2, <2>3, ProviderSavedFollowed
  <1>4. CASE /\ ~IsMapped(m) /\ o \notin DOMAIN organization
             /\ SaveOrganizations(Put(organization, o, new)) /\ DoneWith(o)
    <2>1. new.ids = {p} /\ {"ids", "source"} \subseteq DOMAIN new
      BY DEF OrganizationRow
    <2>2. o = p
      BY <1>4
    <2> HIDE DEF m, o, new
    <2>3. QED
      BY <1>1, <1>2, <1>4, <2>1, <2>2, ProviderSavedFollowed
  <1>5. CASE Raise
    BY <1>5, RaiseFollowed
  <1>6. QED
    BY <1>3, <1>4, <1>5 DEF SaveProvider

LEMMA TakeAttributionIdFollowed ==
  ASSUME Inv, Whole, Followed, TakeAttributionId, UNCHANGED harvest
  PROVE  Followed'
  <1>1. PICK p : p = Op.id
    OBVIOUS
  <1>2. /\ RunOk /\ RunFits /\ run.work # <<>> /\ Op.op = "takeAttribution" /\ Made /\ Placed
        /\ run.part = "organizations"
    BY AtWorkFollowed DEF TakeAttributionId, ProviderOps
  <1>3. /\ Done /\ UNCHANGED <<organization, dataset>> /\ UNCHANGED mappings
        /\ attribution' = RemoveSourceId(attribution, p) /\ Doing("takeAttribution")
    BY <1>1 DEF TakeAttributionId, SaveAttributions
  <1>4. /\ DOMAIN attribution' = DOMAIN attribution
        /\ \A a \in DOMAIN attribution :
             /\ attribution'[a].organization = attribution[a].organization
             /\ attribution'[a].source = attribution[a].source
    <2>1. Stored
      BY DEF Whole
    <2>2. DOMAIN attribution' = DOMAIN attribution
      BY <1>3 DEF RemoveSourceId
    <2>3. ASSUME NEW a \in DOMAIN attribution
          PROVE  /\ attribution'[a].organization = attribution[a].organization
                 /\ attribution'[a].source = attribution[a].source
      <3>1. PICK old : old = attribution[a]
        OBVIOUS
      <3>2. DOMAIN old = AttributionColumns
        BY <2>1, <3>1 DEF Stored, Fits, AttributionFits
      <3>3. attribution'[a] = [old EXCEPT !.ids = @ \ {p}]
        BY <1>3, <3>1 DEF RemoveSourceId
      <3>4. QED
        BY <3>1, <3>2, <3>3 DEF AttributionColumns
    <2>4. QED
      BY <2>2, <2>3
  <1>5. Made'
    BY <1>2, <1>3, <1>4 DEF Made
  <1>6. \A i : ProviderRow(i)' = ProviderRow(i)
    BY <1>2, <1>3, Advances, SameRows
  <1>7. \A r, a : AttributionPlaced(a, r) => AttributionPlaced(a, r)'
    BY <1>4, <1>6 DEF AttributionPlaced
  <1>8. run'.current = run.current
    BY <1>2, <1>3 DEF Done, RunFits, AllColumns, Columns
  <1>9. Placed'
    BY <1>2, <1>3, <1>7, <1>8, PlacedGoesOn DEF ProviderAtHand
  <1>10. QED
    BY <1>2, <1>3, <1>5, <1>9, WriteFollowed

LEMMA AttributionSavedFollowed ==
  ASSUME Inv, Whole, Followed, Doing("attribution"), UNCHANGED <<mappings, harvest>>,
         NEW row, Done, SaveAttributions(Put(attribution, Op.id, row)),
         row.organization = run.current, row.source = Bod,
         Op.id \in DOMAIN attribution => attribution[Op.id].organization = run.current
  PROVE  Followed'
  <1>1. PICK p : p = Op.id
    OBVIOUS
  <1>2. /\ RunOk /\ RunFits /\ run.work # <<>> /\ Op.op = "attribution" /\ Made /\ Placed
        /\ run.part = "organizations"
    BY AtWorkFollowed DEF ProviderOps
  <1>3. /\ UNCHANGED <<organization, dataset>> /\ attribution' = Put(attribution, p, row)
    BY <1>1 DEF SaveAttributions
  <1>4. /\ DOMAIN attribution' = DOMAIN attribution \cup {p} /\ attribution'[p] = row
        /\ \A a \in DOMAIN attribution : a # p => attribution'[a] = attribution[a]
    BY <1>3 DEF Put
  <1>5. p \in AttributionIds
    BY <1>1, <1>2, AtWorkFollowed, AtHandIds DEF ProviderOps
  <1>6. Made'
    BY <1>2, <1>3, <1>4, <1>5 DEF Made
  <1>7. \A i : ProviderRow(i)' = ProviderRow(i)
    BY <1>2, Advances, SameRows
  <1>8. \A r, a : AttributionPlaced(a, r) => AttributionPlaced(a, r)'
    BY <1>1, <1>4, <1>7 DEF AttributionPlaced
  <1>9. run'.current = run.current
    BY <1>2 DEF Done, RunFits, AllColumns, Columns
  <1>10. \A c : ProviderAtHand(c) => run.current = ProviderRow(c.id)
    BY <1>2 DEF ProviderAtHand
  <1>11. \A c : ProviderAtHand(c) => AttributionPlaced(p, c)'
    BY <1>4, <1>7, <1>10 DEF AttributionPlaced
  <1>12. Placed'
    BY <1>1, <1>2, <1>8, <1>9, <1>10, <1>11, PlacedGoesOn
  <1>13. QED
    BY <1>2, <1>3, <1>6, <1>12, WriteFollowed

LEMMA SaveAttributionFollowed ==
  ASSUME Inv, Whole, Followed, SaveAttribution, UNCHANGED harvest
  PROVE  Followed'
  <1>1. Stored /\ UNCHANGED mappings /\ Doing("attribution")
    BY AtWorkWhole DEF SaveAttribution
  <1> DEFINE a == Op.id
  <1>2. CASE /\ OwnAttribution(a) /\ Done
             /\ SaveAttributions(Put(attribution, a, AddSourceId(attribution[a], a)))
    <2>1. /\ a \in DOMAIN attribution /\ attribution[a].organization = run.current
          /\ attribution[a].source = Bod
      BY <1>2 DEF OwnAttribution, RowsOf
    <2>2. PICK old, new : old = attribution[a] /\ new = AddSourceId(attribution[a], a)
      OBVIOUS
    <2>3. DOMAIN old = AttributionColumns
      BY <1>1, <2>1, <2>2 DEF Stored, Fits, AttributionFits
    <2>4. new = [old EXCEPT !.ids = @ \cup {a}]
      BY <2>2 DEF AddSourceId
    <2>5. new.organization = old.organization /\ new.source = old.source
      BY <2>3, <2>4 DEF AttributionColumns
    <2>6. QED
      BY <1>1, <1>2, <2>1, <2>2, <2>5, AttributionSavedFollowed
  <1>3. CASE /\ a \notin DOMAIN attribution /\ Done
             /\ SaveAttributions(Put(attribution, a, AttributionRow(Bod, {a}, run.current)))
    <2>1. PICK new : new = AttributionRow(Bod, {a}, run.current)
      OBVIOUS
    <2>2. new.source = Bod /\ new.organization = run.current
      BY <2>1 DEF AttributionRow
    <2>3. QED
      BY <1>1, <1>3, <2>1, <2>2, AttributionSavedFollowed
  <1>4. CASE Raise
    BY <1>4, RaiseFollowed
  <1>5. QED
    BY <1>2, <1>3, <1>4 DEF SaveAttribution

-----------------------------------------------------------------------------
\* What there is to do for a dataset.
LEMMA DatasetWorkIs ==
  ASSUME NEW c, NEW work, work = DatasetWork(c)
  PROVE  /\ \A n \in 1..5 : work[n].id = c.id
         /\ work[1].op = "takeDataset" /\ work[2].op = "dataset"
         /\ work[3].op = "save" /\ work[3].attribution = c.attribution
         /\ work[4].op = "unlink" /\ work[4].provider = c.provider
         /\ work[5].op = "link" /\ work[5].provider = c.provider
  <1>1. /\ work[1].op = "takeDataset" /\ work[2].op = "dataset"
        /\ work[3].op = "save" /\ work[3].attribution = c.attribution
    BY DEF DatasetWork
  <1>2. /\ work[4].op = "unlink" /\ work[4].provider = c.provider
        /\ work[5].op = "link" /\ work[5].provider = c.provider
    BY DEF DatasetWork
  <1>3. /\ work[1].id = c.id /\ work[2].id = c.id /\ work[3].id = c.id /\ work[4].id = c.id
        /\ work[5].id = c.id
    BY DEF DatasetWork
  <1>4. \A n \in 1..5 : n = 1 \/ n = 2 \/ n = 3 \/ n = 4 \/ n = 5
    OBVIOUS
  <1>5. QED
    BY <1>1, <1>2, <1>3, <1>4

\* The last k of five.
LEMMA LastOnes ==
  ASSUME NEW k \in 1..5
  PROVE  /\ 6 - k \in 1..5 /\ 1 \in 1..k /\ 1 + 5 - k = 6 - k
         /\ \A n \in 1..k : n + 5 - k \in 1..5
         /\ 6 - k = 1 => k = 5
         /\ 6 - k = 2 => k = 4
         /\ 6 - k = 3 => k = 3
         /\ 6 - k = 4 => k = 2
         /\ 6 - k = 5 => k = 1
         /\ k < 3 \/ k = 3 \/ k > 3
         /\ k > 3 => k - 1 >= 3
         /\ k # 1 => /\ k - 1 \in 1..5 /\ k - 1 > 0
                     /\ \A n \in 1..(k - 1) :
                          n + 1 \in 1..k /\ (n + 1) + 5 - k = n + 5 - (k - 1)
  OBVIOUS

LEMMA TailIs ==
  ASSUME NEW S, NEW seq \in Seq(S), seq # <<>>, NEW rest, rest = Tail(seq)
  PROVE  /\ Len(rest) = Len(seq) - 1 /\ Len(rest) \in Nat /\ Len(seq) \in Nat
         /\ \A n \in 1..Len(rest) : rest[n] = seq[n + 1]
         /\ rest # <<>> => Len(rest) > 0 /\ Len(seq) # 1
         /\ rest = <<>> => Len(seq) = 1
  <1>1. /\ Len(rest) = Len(seq) - 1 /\ Len(rest) \in Nat /\ Len(seq) \in Nat
        /\ rest \in Seq(S)
    BY HeadTailProperties, LenProperties
  <1>2. \A n \in 1..Len(rest) : rest[n] = seq[n + 1]
    BY HeadTailProperties
  <1>3. rest # <<>> <=> Len(rest) # 0
    BY <1>1, EmptySeq
  <1>4. QED
    BY <1>1, <1>2, <1>3

LEMMA SetOp ==
  ASSUME RunOk, run.work # <<>>, NEW c, SetAtHand(c)
  PROVE  /\ Len(run.work) \in 1..5 /\ Op.id = c.id
         /\ \A i : Pending("save", i) => i = c.id
         /\ Op.op = "takeDataset" => Len(run.work) = 5
         /\ Op.op = "dataset" => Len(run.work) = 4
         /\ Op.op = "save" => Len(run.work) = 3 /\ Op.attribution = c.attribution
         /\ Op.op = "unlink" => Len(run.work) = 2 /\ Op.provider = c.provider
         /\ Op.op = "link" => Len(run.work) = 1 /\ Op.provider = c.provider
  <1>1. PICK all : all = DatasetWork(c)
    OBVIOUS
  <1>2. Len(run.work) \in 1..5
    BY DEF SetAtHand
  <1>3. PICK first, work : first = Op /\ work = run.work
    OBVIOUS
  <1> DEFINE k == Len(run.work)
  <1>4. \A n \in 1..k : work[n] = all[n + 5 - k]
    BY <1>1, <1>3 DEF SetAtHand
  <1>5. first = work[1]
    BY <1>3, HeadTailProperties DEF RunOk, Op
  <1>6. \A i : Pending("save", i) => \E n \in 1..k : work[n].id = i
    BY <1>3 DEF Pending
  <1> HIDE DEF k
  <1>7. k \in 1..5
    BY <1>2 DEF k
  <1>8. PICK m \in 1..5 : m = 6 - k
    BY <1>7, LastOnes
  <1>9. first = all[m]
    BY <1>4, <1>5, <1>7, <1>8, LastOnes
  <1>10. \A n \in 1..5 : all[n].id = c.id
    BY <1>1, DatasetWorkIs
  <1>11. /\ all[1].op = "takeDataset" /\ all[2].op = "dataset"
         /\ all[3].op = "save" /\ all[3].attribution = c.attribution
         /\ all[4].op = "unlink" /\ all[4].provider = c.provider
         /\ all[5].op = "link" /\ all[5].provider = c.provider
    BY <1>1, DatasetWorkIs
  <1>12. \A i : Pending("save", i) => i = c.id
    <2> SUFFICES ASSUME NEW i, Pending("save", i) PROVE i = c.id
      OBVIOUS
    <2>1. PICK n \in 1..k : work[n].id = i
      BY <1>6
    <2>2. n + 5 - k \in 1..5
      BY <1>7, LastOnes
    <2>3. QED
      BY <1>4, <1>10, <2>1, <2>2
  <1>13. /\ m = 1 \/ m = 2 \/ m = 3 \/ m = 4 \/ m = 5
         /\ m = 1 => k = 5
         /\ m = 2 => k = 4
         /\ m = 3 => k = 3
         /\ m = 4 => k = 2
         /\ m = 5 => k = 1
    BY <1>7, <1>8, LastOnes
  <1>14. /\ first.id = c.id
         /\ first.op = "takeDataset" => k = 5
         /\ first.op = "dataset" => k = 4
         /\ first.op = "save" => k = 3 /\ first.attribution = c.attribution
         /\ first.op = "unlink" => k = 2 /\ first.provider = c.provider
         /\ first.op = "link" => k = 1 /\ first.provider = c.provider
    BY <1>9, <1>10, <1>11, <1>13
  <1>15. QED
    BY <1>2, <1>3, <1>12, <1>14 DEF k

\* A write leaves the datasets alone that are not of the record at hand, and what the record
\* says is in the row when the work has passed it.
LEMMA ToldGoesOn ==
  ASSUME RunOk, RunFits, Held, Told, run.part = "datasets", run.work # <<>>,
         run'.input = run.input, run'.todo = run.todo, run'.lookup = run.lookup,
         run'.work = Tail(run.work) \/ run'.work = <<>>,
         UNCHANGED <<organization, attribution>>,
         \A c, d : SetAtHand(c) /\ d = SetRow(c.id) =>
           /\ run'.work # <<>> /\ Len(run.work) <= 4 => run'.current = d
           /\ \A e \in DOMAIN dataset \ {d} :
                /\ dataset'[e].attribution = dataset[e].attribution
                /\ dataset'[e].units = dataset[e].units
           /\ Len(run.work) < 3 => dataset'[d].attribution = dataset[d].attribution
           /\ Len(run.work) = 3 => ToldAttribution(d, c)'
           /\ run'.work = <<>> => Len(run.work) < 3 /\ ToldOwner(d, c)'
  PROVE  Told'
  <1>1. PICK c :
          /\ SetAtHand(c)
          /\ \A r \in Parsed(run.input.datasets) \ run.todo :
               /\ \/ SetRow(c.id) = SetRow(r.id) /\ Len(run.work) >= 3
                  \/ \E q \in Parsed(run.input.datasets) \ run.todo :
                       SetRow(q.id) = SetRow(r.id) /\ ToldAttribution(SetRow(r.id), q)
               /\ \/ SetRow(c.id) = SetRow(r.id) /\ run.work # <<>>
                  \/ \E q \in Parsed(run.input.datasets) \ run.todo :
                       SetRow(q.id) = SetRow(r.id) /\ ToldOwner(SetRow(r.id), q)
    BY DEF Told
  <1>2. \A i : SetRow(i)' = SetRow(i)
    BY SameRows
  <1> DEFINE done == Parsed(run.input.datasets) \ run.todo
  <1>3. done' = done
    BY DEF Parsed
  <1>4. c \in done
    BY <1>1 DEF SetAtHand
  <1>5. Len(run.work) \in 1..5 /\ \A i : Pending("save", i) => i = c.id
    BY <1>1, SetOp
  <1>6. /\ run'.work # <<>> =>
             /\ Len(run'.work) = Len(run.work) - 1 /\ Len(run'.work) > 0 /\ Len(run.work) # 1
             /\ \A n \in 1..Len(run'.work) : run'.work[n] = run.work[n + 1]
        /\ Len(run.work) > 3 => Len(run.work) - 1 >= 3
        /\ Len(run.work) < 3 \/ Len(run.work) = 3 \/ Len(run.work) > 3
    <2>1. run'.work # <<>> => run'.work = Tail(run.work)
      OBVIOUS
    <2>2. run.work \in Seq(Writes)
      BY DEF RunOk
    <2>3. QED
      <3>1. PICK seq, rest : seq = run.work /\ rest = run'.work
        OBVIOUS
      <3>2. /\ Len(seq) > 3 => Len(seq) - 1 >= 3
            /\ Len(seq) < 3 \/ Len(seq) = 3 \/ Len(seq) > 3
        BY <1>5, <3>1, LastOnes
      <3>3. rest # <<>> =>
              /\ Len(rest) = Len(seq) - 1 /\ Len(rest) > 0 /\ Len(seq) # 1
              /\ \A n \in 1..Len(rest) : rest[n] = seq[n + 1]
        <4>1. SUFFICES ASSUME rest # <<>>
                       PROVE  /\ Len(rest) = Len(seq) - 1 /\ Len(rest) > 0 /\ Len(seq) # 1
                              /\ \A n \in 1..Len(rest) : rest[n] = seq[n + 1]
          OBVIOUS
        <4>2. seq \in Seq(Writes) /\ seq # <<>> /\ rest = Tail(seq)
          BY <2>1, <2>2, <3>1, <4>1
        <4>3. QED
          BY <4>1, <4>2, TailIs
      <3>4. QED
        BY <3>1, <3>2, <3>3
  <1>7. PICK d : d = SetRow(c.id)
    OBVIOUS
  <1>8. /\ run'.work # <<>> /\ Len(run.work) <= 4 => run'.current = d
        /\ Len(run.work) < 3 => dataset'[d].attribution = dataset[d].attribution
        /\ Len(run.work) = 3 => ToldAttribution(d, c)'
        /\ run'.work = <<>> => Len(run.work) < 3 /\ ToldOwner(d, c)'
    BY <1>1, <1>7
  <1>9. ASSUME NEW e \in DOMAIN dataset, e # d, NEW q
        PROVE  /\ ToldAttribution(e, q) => ToldAttribution(e, q)'
               /\ ToldOwner(e, q) => ToldOwner(e, q)'
    <2>1. dataset'[e].attribution = dataset[e].attribution /\ dataset'[e].units = dataset[e].units
      BY <1>1, <1>7, <1>9
    <2>2. QED
      BY <2>1 DEF ToldAttribution, ToldOwner, Owners, OwnerOf
  <1> HIDE DEF done
  <1>10. ASSUME NEW r \in done, NEW e, e = SetRow(r.id), e # d
        PROVE  e \in DOMAIN dataset
    <2>1. SetHeld(r.id)
      BY <1>5, <1>7, <1>10 DEF Held, SetsHeld, done
    <2>2. QED
      BY <1>10, <2>1 DEF SetHeld, Holders
  <1>11. ASSUME NEW r \in done, NEW e, e = SetRow(r.id)
         PROVE  \/ d = e /\ Len(run'.work) >= 3
                \/ \E q \in done : SetRow(q.id) = e /\ ToldAttribution(e, q)'
    <2>1. \/ d = e /\ Len(run.work) >= 3
          \/ \E q \in done : SetRow(q.id) = e /\ ToldAttribution(e, q)
      BY <1>1, <1>7, <1>11 DEF done
    <2>2. CASE e # d
      BY <1>9, <1>10, <1>11, <2>1, <2>2
    <2>3. CASE e = d /\ Len(run.work) < 3
      <3>1. PICK q \in done : SetRow(q.id) = e /\ ToldAttribution(e, q)
        BY <1>5, <2>1, <2>3
      <3>2. ToldAttribution(e, q)'
        BY <1>8, <2>3, <3>1 DEF ToldAttribution
      <3>3. QED
        BY <3>1, <3>2
    <2>4. CASE e = d /\ Len(run.work) = 3
      BY <1>4, <1>7, <1>8, <2>4
    <2>5. CASE e = d /\ Len(run.work) > 3
      <3>1. run'.work # <<>>
        <4>1. ~ (Len(run.work) > 3 /\ Len(run.work) < 3)
          BY <1>5
        <4>2. QED
          BY <1>8, <2>5, <4>1
      <3>2. QED
        BY <1>6, <2>5, <3>1
    <2>6. QED
      BY <1>6, <2>2, <2>3, <2>4, <2>5, Zenon
  <1>12. ASSUME NEW r \in done, NEW e, e = SetRow(r.id)
         PROVE  \/ d = e /\ run'.work # <<>>
                \/ \E q \in done : SetRow(q.id) = e /\ ToldOwner(e, q)'
    <2>1. CASE e # d
      <3>1. \E q \in done : SetRow(q.id) = e /\ ToldOwner(e, q)
        BY <1>1, <1>7, <1>12, <2>1 DEF done
      <3>2. QED
        BY <1>9, <1>10, <1>12, <2>1, <3>1
    <2>2. CASE e = d
      BY <1>4, <1>7, <1>8, <2>2
    <2>3. QED
      BY <2>1, <2>2
  <1>13. ASSUME run'.work # <<>> PROVE SetAtHand(c)'
    <2> DEFINE k == Len(run.work)
               m == Len(run'.work)
    <2>1. /\ k \in 1..5 /\ m = k - 1 /\ k # 1
          /\ \A n \in 1..m : run'.work[n] = run.work[n + 1]
          /\ \A n \in 1..k : run.work[n] = DatasetWork(c)[n + 5 - k]
      BY <1>1, <1>5, <1>6, <1>13 DEF SetAtHand
    <2>5. Len(run'.work) <= 3 => run'.current = SetRow(c.id)
      <3>1. Len(run'.work) <= 3 => Len(run.work) <= 4
        BY <1>5, <1>6, <1>13
      <3>2. QED
        BY <1>7, <1>8, <1>13, <3>1
    <2> HIDE DEF k, m
    <2>2. k - 1 \in 1..5
      BY <2>1, LastOnes
    <2>3. \A n \in 1..(k - 1) : n + 1 \in 1..k /\ (n + 1) + 5 - k = n + 5 - (k - 1)
      BY <2>1, LastOnes
    <2>4. m \in 1..5 /\ \A n \in 1..m : run'.work[n] = DatasetWork(c)[n + 5 - m]
      BY <2>1, <2>2, <2>3
    <2>6. SetRow(c.id)' = SetRow(c.id)
      BY <1>2
    <2>7. QED
      BY <1>3, <1>4, <2>4, <2>5, <2>6 DEF SetAtHand, done, m
  <1>14. \A r \in done : \A e : e = SetRow(r.id) =>
           /\ \/ SetRow(c.id)' = e /\ Len(run'.work) >= 3
              \/ \E q \in done : SetRow(q.id)' = e /\ ToldAttribution(e, q)'
           /\ \/ SetRow(c.id)' = e /\ run'.work # <<>>
              \/ \E q \in done : SetRow(q.id)' = e /\ ToldOwner(e, q)'
    BY <1>2, <1>7, <1>11, <1>12
  <1>15. \A r \in done' :
           /\ \/ (SetRow(c.id) = SetRow(r.id) /\ Len(run.work) >= 3)'
              \/ \E q \in done' : (SetRow(q.id) = SetRow(r.id) /\ ToldAttribution(SetRow(r.id), q))'
           /\ \/ (SetRow(c.id) = SetRow(r.id) /\ run.work # <<>>)'
              \/ \E q \in done' : (SetRow(q.id) = SetRow(r.id) /\ ToldOwner(SetRow(r.id), q))'
    <2> TAKE r \in done'
    <2>1. PICK e : e = SetRow(r.id)'
      OBVIOUS
    <2>2. e = SetRow(r.id) /\ r \in done
      BY <1>2, <1>3, <2>1
    <2>3. \A q : /\ ToldAttribution(SetRow(r.id), q)' <=> ToldAttribution(e, q)'
                 /\ ToldOwner(SetRow(r.id), q)' <=> ToldOwner(e, q)'
      BY <2>1 DEF ToldAttribution, ToldOwner, Owners
    <2>4. QED
      BY <1>3, <1>14, <2>1, <2>2, <2>3
  <1>16. QED
    BY <1>13, <1>15 DEF Told, done

\* The command stays what it is, and is done with a write or with all of a record.
GoesOn ==
    /\ "complete" \in DOMAIN run' /\ run'.complete = run.complete /\ run'.clean = run.clean
    /\ run'.ahead = run.ahead /\ run'.input = run.input /\ run'.part = run.part
    /\ run'.lookup = run.lookup /\ run'.processed = run.processed /\ run'.todo = run.todo
    /\ run'.work = Tail(run.work) \/ run'.work = <<>>

LEMMA SetWriteFollowed ==
  ASSUME Inv, Whole, Followed, NEW op \in DatasetOps, Doing(op), GoesOn,
         UNCHANGED <<mappings, harvest, organization, attribution>>,
         RowsMade(dataset', ForeignDatasets, DatasetIds),
         \A c, d : SetAtHand(c) /\ d = SetRow(c.id) =>
           /\ run'.work # <<>> /\ Len(run.work) <= 4 => run'.current = d
           /\ \A e \in DOMAIN dataset \ {d} :
                /\ dataset'[e].attribution = dataset[e].attribution
                /\ dataset'[e].units = dataset[e].units
           /\ Len(run.work) < 3 => dataset'[d].attribution = dataset[d].attribution
           /\ Len(run.work) = 3 => ToldAttribution(d, c)'
           /\ run'.work = <<>> => Len(run.work) < 3 /\ ToldOwner(d, c)'
  PROVE  Followed'
  <1>1. /\ RunOk /\ RunFits /\ run.work # <<>> /\ Held /\ Made
        /\ run.part = "datasets" /\ Told
    BY AtWorkFollowed, AtWorkWhole
  <1>2. run # Idle
    BY DEF Doing, Running
  <1>3. Made'
    BY <1>1 DEF Made
  <1>4. AsAsked' /\ Seen' /\ LookedUp' /\ ProvidersDone'
    BY <1>2, <1>3, PartGoesOn DEF GoesOn
  <1>5. Told'
    BY <1>1, ToldGoesOn DEF GoesOn
  <1>6. run'.part = "datasets"
    BY <1>1 DEF GoesOn
  <1>7. QED
    BY <1>3, <1>4, <1>5, <1>6 DEF Followed

LEMMA SetAdvances ==
  ASSUME Inv, Whole, Followed, NEW op \in DatasetOps, Doing(op), Done \/ \E row : DoneWith(row)
  PROVE  /\ GoesOn /\ Stored /\ Made /\ Needs(Op)
         /\ (\E row : DoneWith(row)) \/ run'.current = run.current
         /\ \A c : SetAtHand(c) =>
              /\ Len(run.work) \in 1..5 /\ Op.id = c.id
              /\ op = "takeDataset" => Len(run.work) = 5
              /\ op = "dataset" => Len(run.work) = 4
              /\ op = "save" => Len(run.work) = 3 /\ Op.attribution = c.attribution
              /\ op = "unlink" => Len(run.work) = 2 /\ Op.provider = c.provider
              /\ op = "link" => Len(run.work) = 1 /\ Op.provider = c.provider
              /\ Len(run.work) <= 3 => run.current = SetRow(c.id)
              /\ run'.work = <<>> => Len(run.work) = 1
         /\ run'.work = Tail(run.work) /\ run'.lookup = run.lookup
  <1>1. /\ RunOk /\ RunFits /\ run.work # <<>> /\ Made /\ Stored /\ Needs(Op) /\ Op.op = op
    BY AtWorkFollowed, AtWorkWhole
  <1>2. AsAsked
    BY DEF Followed, Doing, Running
  <1>3. GoesOn /\ run'.work = Tail(run.work) /\ run'.lookup = run.lookup
    BY <1>1, <1>2, Advances, AdvancesAsked DEF GoesOn
  <1>4. (\E row : DoneWith(row)) \/ run'.current = run.current
    BY <1>1 DEF Done, RunFits, AllColumns, Columns
  <1>5. run'.work = <<>> => Len(run.work) = 1
    <2>1. PICK seq, rest : seq = run.work /\ rest = run'.work
      OBVIOUS
    <2>2. seq \in Seq(Writes) /\ seq # <<>> /\ rest = Tail(seq)
      BY <1>1, <1>3, <2>1 DEF RunOk
    <2>3. rest = <<>> => Len(seq) = 1
      BY <2>2, TailIs
    <2>4. QED
      BY <2>1, <2>3
  <1>6. \A c : SetAtHand(c) =>
              /\ Len(run.work) \in 1..5 /\ Op.id = c.id
              /\ op = "takeDataset" => Len(run.work) = 5
              /\ op = "dataset" => Len(run.work) = 4
              /\ op = "save" => Len(run.work) = 3 /\ Op.attribution = c.attribution
              /\ op = "unlink" => Len(run.work) = 2 /\ Op.provider = c.provider
              /\ op = "link" => Len(run.work) = 1 /\ Op.provider = c.provider
              /\ Len(run.work) <= 3 => run.current = SetRow(c.id)
    BY <1>1, SetOp DEF SetAtHand
  <1>7. QED
    BY <1>1, <1>3, <1>4, <1>5, <1>6

\* A dataset is put with its own columns but ids and text.
LEMMA SetPut ==
  ASSUME Made, NEW d, NEW row, dataset' = Put(dataset, d, row)
  PROVE  /\ dataset'[d] = row
         /\ \A e \in DOMAIN dataset \ {d} :
              /\ dataset'[e].attribution = dataset[e].attribution
              /\ dataset'[e].units = dataset[e].units
  BY DEF Put

LEMMA TakeDatasetIdFollowed ==
  ASSUME Inv, Whole, Followed, TakeDatasetId, UNCHANGED harvest
  PROVE  Followed'
  <1>1. PICK p : p = Op.id
    OBVIOUS
  <1>2. /\ Done /\ UNCHANGED <<organization, attribution, mappings>> /\ Doing("takeDataset")
        /\ dataset' = RemoveSourceId(dataset, p) /\ "takeDataset" \in DatasetOps
    BY <1>1 DEF TakeDatasetId, SaveDatasets, DatasetOps
  <1>3. /\ GoesOn /\ Stored /\ Made
        /\ \A c : SetAtHand(c) =>
             Len(run.work) = 5 /\ (run'.work = <<>> => Len(run.work) = 1)
    BY <1>2, SetAdvances
  <1>4. RowsMade(dataset', ForeignDatasets, DatasetIds)
    BY <1>2, <1>3, MadeRemoved DEF Made
  <1>5. ASSUME NEW e \in DOMAIN dataset
        PROVE  /\ dataset'[e].attribution = dataset[e].attribution
               /\ dataset'[e].units = dataset[e].units
    <2>1. PICK old : old = dataset[e]
      OBVIOUS
    <2>2. DOMAIN old = DatasetColumns
      BY <1>3, <2>1 DEF Stored, Fits, DatasetFits
    <2>3. dataset'[e] = [old EXCEPT !.ids = @ \ {p}]
      BY <1>2, <2>1 DEF RemoveSourceId
    <2>4. QED
      BY <2>1, <2>2, <2>3 DEF DatasetColumns
  <1>6. ASSUME NEW c, SetAtHand(c)
        PROVE  /\ ~ Len(run.work) <= 4 /\ ~ Len(run.work) < 3 /\ Len(run.work) # 3
               /\ run'.work # <<>>
    <2>1. Len(run.work) = 5 /\ (run'.work = <<>> => Len(run.work) = 1)
      BY <1>3, <1>6
    <2>2. QED
      BY <2>1
  <1>7. QED
    BY <1>2, <1>3, <1>4, <1>5, <1>6, SetWriteFollowed

LEMMA DatasetFoundFollowed ==
  ASSUME Inv, Whole, Followed, Doing("dataset"), UNCHANGED <<mappings, harvest>>,
         NEW d, DoneWith(d), d = SetRow(Op.id),
         \/ UNCHANGED tables
         \/ d = Op.id /\ SaveDataset(d, DatasetRow(Bod, {}, "theirs")) /\ d \notin DOMAIN dataset
  PROVE  Followed'
  <1>1. "dataset" \in DatasetOps
    BY DEF DatasetOps
  <1>2. /\ GoesOn /\ Stored /\ Made
        /\ \A c : SetAtHand(c) =>
             /\ Len(run.work) = 4 /\ (run'.work = <<>> => Len(run.work) = 1)
             /\ Op.id = c.id /\ c \in Parsed(run.input.datasets)
    BY <1>1, SetAdvances DEF SetAtHand
  <1>3. run'.current = d
    BY AtWorkWhole DEF DoneWith, RunFits, AllColumns, Columns
  <1>4. \E c : SetAtHand(c)
    BY <1>1, AtWorkFollowed
  <1>5. Op.id \in DatasetIds
    <2>1. run.input \in Harvests
      BY AtWorkWhole DEF RunOk
    <2>2. QED
      BY <1>2, <1>4, <2>1 DEF DatasetIds, Sets, Parsed
  <1>6. /\ UNCHANGED <<organization, attribution>>
        /\ RowsMade(dataset', ForeignDatasets, DatasetIds)
        /\ \A e \in DOMAIN dataset :
             /\ dataset'[e].attribution = dataset[e].attribution
             /\ dataset'[e].units = dataset[e].units
    <2>1. CASE UNCHANGED tables
      BY <1>2, <2>1 DEF tables, Made
    <2>2. CASE d = Op.id /\ SaveDataset(d, DatasetRow(Bod, {}, "theirs")) /\ d \notin DOMAIN dataset
      <3>1. PICK row : row = DatasetRow(Bod, {}, "theirs")
        OBVIOUS
      <3>2. row.ids = {} /\ {"ids", "source"} \subseteq DOMAIN row
        BY <3>1 DEF DatasetRow
      <3>3. dataset' = Put(dataset, d, row) /\ UNCHANGED <<organization, attribution>>
        BY <2>2, <3>1 DEF SaveDataset, SaveDatasets
      <3>4. d \in DatasetIds /\ d \notin ForeignDatasets
        BY <1>2, <1>5, <2>2 DEF Made, RowsMade
      <3>5. RowsMade(dataset', ForeignDatasets, DatasetIds)
        BY <1>2, <3>2, <3>3, <3>4, MadePut DEF Made
      <3>6. QED
        BY <1>2, <2>2, <3>3, <3>5, SetPut
    <2>3. QED
      BY <2>1, <2>2
  <1>7. QED
    BY <1>1, <1>2, <1>3, <1>6, SetWriteFollowed

LEMMA FindDatasetFollowed ==
  ASSUME Inv, Whole, Followed, FindDataset, UNCHANGED harvest
  PROVE  Followed'
  <1>1. UNCHANGED mappings /\ Doing("dataset")
    BY DEF FindDataset
  <1> DEFINE i == Op.id
             m == DatasetMapping(i)
  <1>2. SetRow(i) = IF IsMapped(m) THEN m.target ELSE i
    BY DEF SetRow, RowFor
  <1>3. CASE IsMapped(m) /\ DoneWith(m.target) /\ UNCHANGED tables
    BY <1>1, <1>2, <1>3, DatasetFoundFollowed
  <1>4. CASE ~IsMapped(m) /\ DoneWith(i) /\ UNCHANGED tables
    BY <1>1, <1>2, <1>4, DatasetFoundFollowed
  <1>5. CASE /\ ~IsMapped(m) /\ i \notin DOMAIN dataset /\ DoneWith(i)
             /\ SaveDataset(i, DatasetRow(Bod, {}, "theirs"))
    BY <1>1, <1>2, <1>5, DatasetFoundFollowed
  <1>6. CASE Raise
    BY <1>6, RaiseFollowed
  <1>7. QED
    BY <1>3, <1>4, <1>5, <1>6 DEF FindDataset

LEMMA StoreDatasetFollowed ==
  ASSUME Inv, Whole, Followed, StoreDataset, UNCHANGED harvest
  PROVE  Followed'
  <1>1. PICK p, d, A, m : /\ p = Op.id /\ d = run.current /\ m = DatasetMapping(Op.id)
                          /\ A = AttributionAfter(run.current, Op.attribution)
    OBVIOUS
  <1>2. "save" \in DatasetOps /\ Doing("save")
    BY DEF DatasetOps, StoreDataset
  <1>3. PICK old, given, row : /\ old = dataset[d] /\ given = Harvested(AddSourceId(old, p), m)
                               /\ row = [given EXCEPT !.attribution = A]
    OBVIOUS
  <1>4. /\ Done /\ UNCHANGED <<organization, attribution, mappings>>
        /\ dataset' = Put(dataset, d, row)
    BY <1>1, <1>3 DEF StoreDataset, SaveDataset, SaveDatasets, WithId
  <1>5. /\ GoesOn /\ Stored /\ Made
        /\ \A c : SetAtHand(c) =>
             /\ Len(run.work) = 3 /\ (run'.work = <<>> => Len(run.work) = 1)
             /\ Op.id = c.id /\ Op.attribution = c.attribution
             /\ Len(run.work) <= 3 => run.current = SetRow(c.id)
    BY <1>2, <1>4, SetAdvances
  <1>6. run'.current = d
    BY <1>1, <1>4, AtWorkWhole, <1>2 DEF Done, RunFits, AllColumns, Columns
  <1>7. d \in DOMAIN dataset
    BY <1>1, <1>2, AtWorkWhole DEF Free
  <1>8. DOMAIN old = DatasetColumns
    BY <1>3, <1>5, <1>7 DEF Stored, Fits, DatasetFits
  <1>9. /\ {"ids", "source"} \subseteq DOMAIN row /\ row.ids = old.ids \cup {p}
        /\ row.source = old.source /\ row.attribution = A
    <2>1. DOMAIN given = DOMAIN old /\ given.ids = old.ids \cup {p} /\ given.source = old.source
      <3>1. PICK with : with = AddSourceId(old, p)
        OBVIOUS
      <3>2. /\ DOMAIN with = DatasetColumns /\ with.ids = old.ids \cup {p}
            /\ with.source = old.source
        BY <1>8, <3>1 DEF AddSourceId, DatasetColumns
      <3>3. QED
        BY <1>3, <1>8, <3>1, <3>2 DEF Harvested, DatasetColumns
    <2>2. QED
      BY <1>3, <1>8, <2>1 DEF DatasetColumns
  <1>10. PICK c : SetAtHand(c)
    BY <1>2, AtWorkFollowed
  <1>11. p \in DatasetIds
    <2>1. run.input \in Harvests
      BY <1>2, AtWorkWhole DEF RunOk
    <2>2. QED
      BY <1>1, <1>5, <1>10, <2>1 DEF DatasetIds, Sets, Parsed, SetAtHand
  <1>12. RowsMade(dataset', ForeignDatasets, DatasetIds)
    <2>1. /\ row.ids \subseteq DatasetIds /\ d \in ForeignDatasets \cup DatasetIds
          /\ d \in ForeignDatasets => row.source # Bod
      BY <1>3, <1>5, <1>7, <1>9, <1>11 DEF Made, RowsMade
    <2>2. QED
      BY <1>4, <1>5, <1>9, <2>1, MadePut DEF Made
  <1>13. ASSUME NEW q, SetAtHand(q)
         PROVE  /\ d = SetRow(q.id) /\ ToldAttribution(d, q)'
                /\ Len(run.work) = 3 /\ ~ Len(run.work) < 3 /\ run'.work # <<>>
    <2>1. /\ Len(run.work) = 3 /\ (run'.work = <<>> => Len(run.work) = 1)
          /\ Op.id = q.id /\ Op.attribution = q.attribution
      BY <1>5, <1>13
    <2>2. Len(run.work) <= 3 /\ ~ Len(run.work) < 3 /\ run'.work # <<>>
      BY <2>1
    <2>3. d = SetRow(q.id)
      BY <1>1, <1>5, <1>13, <2>2
    <2>4. q.attribution \in DOMAIN attribution => A = q.attribution
      <3>1. q.attribution \in DOMAIN attribution =>
              /\ q.attribution # None /\ q.attribution \in RowsOf(attribution, Bod)
        BY <1>5, HarvestAssumption DEF Made, RowsOf
      <3>2. QED
        BY <1>1, <2>1, <3>1 DEF AttributionAfter
    <2>5. dataset'[d].attribution = A
      BY <1>4, <1>5, <1>9, SetPut
    <2>6. ToldAttribution(d, q)'
      BY <1>4, <2>4, <2>5 DEF ToldAttribution
    <2>7. QED
      BY <2>1, <2>2, <2>3, <2>6
  <1>14. \A e \in DOMAIN dataset \ {d} :
            /\ dataset'[e].attribution = dataset[e].attribution
            /\ dataset'[e].units = dataset[e].units
    BY <1>4, <1>5, SetPut
  <1>15. QED
    BY <1>2, <1>4, <1>5, <1>6, <1>12, <1>13, <1>14, SetWriteFollowed

\* The links of a dataset to its owner.
LEMMA UnitsSavedFollowed ==
  ASSUME Inv, Whole, Followed, NEW op \in {"unlink", "link"}, Doing(op), Done,
         UNCHANGED <<mappings, harvest>>, NEW units,
         SaveDataset(run.current, [dataset[run.current] EXCEPT !.units = units]),
         op = "link" => \A c : SetAtHand(c) => units = {[role |-> Owner, to |-> o] :
                                                         o \in OwnerOf(run.lookup.unit, c)}
  PROVE  Followed'
  <1>1. PICK d : d = run.current
    OBVIOUS
  <1>2. op \in DatasetOps
    BY DEF DatasetOps
  <1>3. PICK old, row : old = dataset[d] /\ row = [old EXCEPT !.units = units]
    OBVIOUS
  <1>4. /\ UNCHANGED <<organization, attribution>> /\ dataset' = Put(dataset, d, row)
    BY <1>1, <1>3 DEF SaveDataset, SaveDatasets
  <1>5. /\ GoesOn /\ Stored /\ Made /\ run'.lookup = run.lookup
        /\ \A c : SetAtHand(c) =>
             /\ op = "unlink" => Len(run.work) = 2
             /\ op = "link" => Len(run.work) = 1
             /\ run'.work = <<>> => Len(run.work) = 1
             /\ Len(run.work) <= 3 => run.current = SetRow(c.id)
    BY <1>2, SetAdvances
  <1>6. run'.current = d
    BY <1>1, <1>2, AtWorkWhole DEF Done, RunFits, AllColumns, Columns
  <1>7. d \in DOMAIN dataset
    BY <1>1, <1>2, AtWorkWhole DEF Free
  <1>8. DOMAIN old = DatasetColumns
    BY <1>3, <1>5, <1>7 DEF Stored, Fits, DatasetFits
  <1>9. /\ {"ids", "source"} \subseteq DOMAIN row /\ row.ids = old.ids
        /\ row.source = old.source /\ row.attribution = old.attribution /\ row.units = units
    BY <1>3, <1>8 DEF DatasetColumns
  <1>10. RowsMade(dataset', ForeignDatasets, DatasetIds)
    <2>1. /\ row.ids \subseteq DatasetIds /\ d \in ForeignDatasets \cup DatasetIds
          /\ d \in ForeignDatasets => row.source # Bod
      BY <1>3, <1>5, <1>7, <1>9 DEF Made, RowsMade
    <2>2. QED
      BY <1>4, <1>5, <1>9, <2>1, MadePut DEF Made
  <1>11. /\ dataset'[d].units = units /\ dataset'[d].attribution = dataset[d].attribution
         /\ \A e \in DOMAIN dataset \ {d} :
              /\ dataset'[e].attribution = dataset[e].attribution
              /\ dataset'[e].units = dataset[e].units
    <2>1. /\ dataset'[d] = row
          /\ \A e \in DOMAIN dataset \ {d} :
               /\ dataset'[e].attribution = dataset[e].attribution
               /\ dataset'[e].units = dataset[e].units
      BY <1>4, <1>5, SetPut
    <2>2. QED
      BY <1>3, <1>9, <2>1
  <1>12. ASSUME NEW q, SetAtHand(q)
         PROVE  /\ d = SetRow(q.id)
                /\ Len(run.work) < 3 /\ Len(run.work) # 3
                /\ run'.work = <<>> => ToldOwner(d, q)'
    <2>1. /\ op = "unlink" => Len(run.work) = 2
          /\ op = "link" => Len(run.work) = 1
          /\ run'.work = <<>> => Len(run.work) = 1
          /\ Len(run.work) <= 3 => run.current = SetRow(q.id)
      BY <1>5, <1>12
    <2>2. Len(run.work) <= 3 /\ Len(run.work) < 3 /\ Len(run.work) # 3
      <3>1. Len(run.work) = 1 \/ Len(run.work) = 2
        BY <2>1
      <3>2. \A n \in {1, 2} : n <= 3 /\ n < 3 /\ n # 3
        OBVIOUS
      <3>3. Len(run.work) \in {1, 2}
        BY <3>1
      <3>4. QED
        BY <3>2, <3>3, Zenon
    <2>3. run'.work = <<>> => op = "link"
      BY <2>1
    <2>4. ASSUME op = "link" PROVE ToldOwner(d, q)'
      <3>1. units = {[role |-> Owner, to |-> o] : o \in OwnerOf(run.lookup.unit, q)}
        BY <1>12, <2>4
      <3>2. \A l : l \in units <=>
              \E o \in OwnerOf(run.lookup.unit, q) : l = [role |-> Owner, to |-> o]
        BY <3>1
      <3>3. \A l \in units : l.role = Owner /\ l.to \in OwnerOf(run.lookup.unit, q)
        BY <3>2
      <3>4. \A o \in OwnerOf(run.lookup.unit, q) : \E l \in units : l.role = Owner /\ l.to = o
        <4> TAKE o \in OwnerOf(run.lookup.unit, q)
        <4>1. PICK l : l = [role |-> Owner, to |-> o]
          OBVIOUS
        <4>2. l \in units /\ l.role = Owner /\ l.to = o
          BY <3>2, <4>1
        <4>3. QED
          BY <4>2
      <3>5. {l.to : l \in {l \in units : l.role = Owner}} = OwnerOf(run.lookup.unit, q)
        BY <3>3, <3>4
      <3>6. Owners(d)' = {l \in units : l.role = Owner}
        BY <1>11 DEF Owners
      <3>7. OwnerOf(run.lookup.unit, q)' = OwnerOf(run.lookup.unit, q)
        BY <1>4, <1>5 DEF OwnerOf
      <3>8. QED
        BY <3>5, <3>6, <3>7 DEF ToldOwner
    <2>5. QED
      BY <1>1, <2>1, <2>2, <2>3, <2>4
  <1>13. QED
    BY <1>2, <1>4, <1>5, <1>6, <1>10, <1>11, <1>12, SetWriteFollowed

LEMMA OwnersFollowed ==
  ASSUME Inv, Whole, Followed, UnlinkOwners \/ LinkOwner, UNCHANGED harvest
  PROVE  Followed'
  <1>1. CASE /\ UnlinkOwners /\ UnitFor(Op.id, Op.provider) = {}
    <2>1. /\ RunOk /\ RunFits /\ run.work # <<>> /\ Op.op = "unlink" /\ Made
          /\ Doing("unlink") /\ "unlink" \in DatasetOps
      BY <1>1, AtWorkFollowed DEF UnlinkOwners, DatasetOps
    <2>2. /\ run' = [run EXCEPT !.work = <<>>] /\ UNCHANGED tables /\ UNCHANGED mappings
      BY <1>1 DEF UnlinkOwners
    <2>3. AsAsked
      BY <2>1 DEF Followed, Doing, Running
    <2>4. GoesOn /\ run'.work = <<>>
      BY <2>1, <2>2, <2>3 DEF GoesOn, AsAsked, RunFits, AllColumns, Columns
    <2>5. UNCHANGED <<organization, attribution, dataset>>
      BY <2>2 DEF tables
    <2>6. RowsMade(dataset', ForeignDatasets, DatasetIds)
      BY <2>1, <2>5 DEF Made
    <2>7. ASSUME NEW c, SetAtHand(c)
          PROVE  /\ Len(run.work) < 3 /\ Len(run.work) # 3
                 /\ OwnerOf(run.lookup.unit, c)' = {}
      <3>1. Len(run.work) = 2 /\ Op.id = c.id /\ Op.provider = c.provider
        BY <2>1, <2>7, SetOp
      <3>2. OwnerOf(run.lookup.unit, c) = {}
        BY <1>1, <3>1 DEF UnitFor, OwnerOf
      <3>3. QED
        BY <2>4, <2>5, <3>1, <3>2 DEF GoesOn, OwnerOf
    <2>8. QED
      BY <2>1, <2>2, <2>4, <2>5, <2>6, <2>7, SetWriteFollowed DEF ToldOwner
  <1>2. CASE UnlinkOwners /\ UnitFor(Op.id, Op.provider) # {}
    <2>1. /\ Done /\ UNCHANGED mappings /\ Doing("unlink")
          /\ SaveDataset(run.current, [dataset[run.current] EXCEPT !.units =
                                         dataset[run.current].units \ Owners(run.current)])
      BY <1>2 DEF UnlinkOwners
    <2>2. QED
      BY <2>1, UnitsSavedFollowed
  <1>3. CASE LinkOwner
    <2>1. /\ RunOk /\ run.work # <<>> /\ Needs(Op) /\ Op.op = "link"
          /\ Done /\ UNCHANGED mappings /\ Doing("link")
      BY <1>3, AtWorkWhole DEF LinkOwner
    <2>2. PICK o \in UnitFor(Op.id, Op.provider) :
            SaveDataset(run.current, [dataset[run.current] EXCEPT !.units =
                                     dataset[run.current].units \cup {UnitLink(Owner, o)}])
      BY <1>3 DEF LinkOwner
    <2>3. dataset[run.current].units \cup {UnitLink(Owner, o)} = {UnitLink(Owner, o)}
      BY <2>1 DEF Needs
    <2>4. ASSUME NEW c, SetAtHand(c)
          PROVE  {UnitLink(Owner, o)} =
                   {[role |-> Owner, to |-> x] : x \in OwnerOf(run.lookup.unit, c)}
      <3>1. Op.id = c.id /\ Op.provider = c.provider
        BY <2>1, <2>4, SetOp
      <3>2. OwnerOf(run.lookup.unit, c) = {o}
        BY <2>2, <3>1 DEF UnitFor, OwnerOf
      <3>3. QED
        BY <3>2 DEF UnitLink
    <2>5. QED
      BY <2>1, <2>2, <2>3, <2>4, UnitsSavedFollowed
  <1>4. QED
    BY <1>1, <1>2, <1>3

-----------------------------------------------------------------------------
\* What the cleanup keeps of the rows it leaves.
Kept ==
    /\ Made'
    /\ \A a \in DOMAIN attribution' :
         /\ a \in DOMAIN attribution
         /\ attribution'[a].organization = attribution[a].organization
    /\ run.part = "datasets" =>
         \A d \in DOMAIN dataset' :
           /\ dataset'[d].attribution = dataset[d].attribution
           /\ dataset'[d].units = dataset[d].units

LEMMA IdCleanedKeeps ==
  ASSUME Inv, Whole, Made, NEW kind, CleanId(kind)
  PROVE  Kept
  <1>1. PICK i : StripId(kind, i)
    BY DEF CleanId
  <1>2. /\ Stored
        /\ \/ kind \in {"organizations", "attributions"} /\ run.part = "organizations"
           \/ kind = "datasets" /\ run.part = "datasets"
    BY AtCleanUp DEF CleanId
  <1>3. CASE kind = "organizations"
    <2>1. /\ organization' = RemoveSourceId(organization, i) /\ UNCHANGED <<attribution, dataset>>
          /\ run.part = "organizations"
      BY <1>1, <1>2, <1>3 DEF StripId
    <2>2. Made'
      BY <2>1, MadeRemoved DEF Made
    <2>3. QED
      BY <2>1, <2>2 DEF Kept
  <1>4. CASE kind = "attributions"
    <2>1. /\ attribution' = RemoveSourceId(attribution, i) /\ UNCHANGED <<organization, dataset>>
          /\ run.part = "organizations"
      BY <1>1, <1>2, <1>4 DEF StripId
    <2>2. DOMAIN attribution' = DOMAIN attribution
      BY <2>1 DEF RemoveSourceId
    <2>3. ASSUME NEW a \in DOMAIN attribution
          PROVE  /\ attribution'[a].organization = attribution[a].organization
                 /\ attribution'[a].source = attribution[a].source
      <3>1. PICK old : old = attribution[a]
        OBVIOUS
      <3>2. DOMAIN old = AttributionColumns
        BY <1>2, <3>1 DEF Stored, Fits, AttributionFits
      <3>3. attribution'[a] = [old EXCEPT !.ids = @ \ {i}]
        BY <2>1, <3>1 DEF RemoveSourceId
      <3>4. QED
        BY <3>1, <3>2, <3>3 DEF AttributionColumns
    <2>4. Made'
      BY <2>1, <2>2, <2>3 DEF Made
    <2>5. QED
      BY <2>1, <2>2, <2>3, <2>4 DEF Kept
  <1>5. CASE kind = "datasets"
    <2>1. /\ dataset' = RemoveSourceId(dataset, i) /\ UNCHANGED <<organization, attribution>>
      BY <1>1, <1>5 DEF StripId
    <2>2. Made'
      BY <2>1, MadeRemoved DEF Made
    <2>3. DOMAIN dataset' = DOMAIN dataset
      BY <2>1 DEF RemoveSourceId
    <2>4. ASSUME NEW d \in DOMAIN dataset
          PROVE  /\ dataset'[d].attribution = dataset[d].attribution
                 /\ dataset'[d].units = dataset[d].units
      <3>1. PICK old : old = dataset[d]
        OBVIOUS
      <3>2. DOMAIN old = DatasetColumns
        BY <1>2, <3>1 DEF Stored, Fits, DatasetFits
      <3>3. dataset'[d] = [old EXCEPT !.ids = @ \ {i}]
        BY <2>1, <3>1 DEF RemoveSourceId
      <3>4. QED
        BY <3>1, <3>2, <3>3 DEF DatasetColumns
    <2>5. QED
      BY <2>1, <2>2, <2>3, <2>4 DEF Kept
  <1>6. QED
    BY <1>2, <1>3, <1>4, <1>5

LEMMA RowCleanedKeeps ==
  ASSUME Inv, Whole, Made, NEW kind, CleanRow(kind)
  PROVE  Kept
  <1>1. PICK k : /\ k \in DOMAIN Table(kind) /\ Table(kind)[k].source = run.source
                 /\ DeleteRow(kind, k)
    BY DEF CleanRow, Obsolete, ObsoleteRows, RowsOf
  <1>2. /\ Stored /\ run.source = Bod
        /\ \/ kind \in {"organizations", "attributions"} /\ run.part = "organizations"
           \/ kind = "datasets" /\ run.part = "datasets"
    BY AtCleanUp DEF CleanRow, RunFits
  <1>3. CASE kind = "organizations"
    <2> DEFINE lost == {a \in DOMAIN attribution : attribution[a].organization \in {k}}
    <2>1. /\ k \in DOMAIN organization /\ organization[k].source = Bod
          /\ run.part = "organizations" /\ DeleteOrganizations({k})
      BY <1>1, <1>2, <1>3 DEF Table, DeleteRow
    <2>2. /\ organization' = Without(organization, {k})
          /\ attribution' = Without(attribution, lost)
          /\ dataset' = [d \in DOMAIN dataset |->
               [dataset[d] EXCEPT
                  !.attribution = IF @ \in lost THEN None ELSE @,
                  !.units = {l \in @ : l.to \notin {k}},
                  !.contacts = {l \in @ : l.to.organization \notin {k}}]]
      BY <2>1 DEF DeleteOrganizations
    <2>3. /\ DOMAIN organization' = DOMAIN organization \ {k}
          /\ \A o \in DOMAIN organization' : organization'[o] = organization[o]
      BY <2>2 DEF Without
    <2>4. /\ DOMAIN attribution' = DOMAIN attribution \ lost
          /\ \A a \in DOMAIN attribution' : attribution'[a] = attribution[a]
      BY <2>2 DEF Without
    <2>5. PICK L : L = lost
      OBVIOUS
    <2>6. ASSUME NEW d \in DOMAIN dataset
          PROVE  /\ DOMAIN dataset'[d] = DOMAIN dataset[d]
                 /\ dataset'[d].ids \subseteq dataset[d].ids
                 /\ dataset'[d].source = dataset[d].source
      <3>1. PICK old, new : old = dataset[d] /\ new = dataset'[d]
        OBVIOUS
      <3>2. /\ DOMAIN old = DatasetColumns
            /\ new = [old EXCEPT
                  !.attribution = IF @ \in L THEN None ELSE @,
                  !.units = {l \in @ : l.to \notin {k}},
                  !.contacts = {l \in @ : l.to.organization \notin {k}}]
        BY <1>2, <2>2, <2>5, <3>1 DEF Stored, Fits, DatasetFits
      <3>3. DOMAIN new = DOMAIN old /\ new.ids = old.ids /\ new.source = old.source
        BY <3>2 DEF DatasetColumns
      <3>4. QED
        BY <3>1, <3>3
    <2>7. DOMAIN dataset' = DOMAIN dataset
      BY <2>2
    <2>8. RowsMade(organization', ForeignOrganizations, OrganizationIds)
      <3>1. k \notin ForeignOrganizations
        BY <2>1 DEF Made, RowsMade
      <3>2. QED
        BY <2>3, <3>1 DEF Made, RowsMade
    <2>9. RowsMade(dataset', ForeignDatasets, DatasetIds)
      BY <2>6, <2>7, MadeFewer DEF Made, RowsMade
    <2>10. Made'
      BY <2>4, <2>8, <2>9 DEF Made
    <2>11. QED
      BY <2>1, <2>4, <2>10 DEF Kept
  <1>4. CASE kind = "attributions"
    <2>1. DeleteAttributions({k}) /\ run.part = "organizations"
      BY <1>1, <1>2, <1>4 DEF Table, DeleteRow
    <2>2. /\ attribution' = Without(attribution, {k}) /\ UNCHANGED organization
          /\ dataset' = [d \in DOMAIN dataset |->
               [dataset[d] EXCEPT !.attribution = IF @ \in {k} THEN None ELSE @]]
      BY <2>1 DEF DeleteAttributions
    <2>3. /\ DOMAIN attribution' \subseteq DOMAIN attribution
          /\ \A a \in DOMAIN attribution' : attribution'[a] = attribution[a]
      BY <2>2 DEF Without
    <2>4. ASSUME NEW d \in DOMAIN dataset
          PROVE  /\ DOMAIN dataset'[d] = DOMAIN dataset[d]
                 /\ dataset'[d].ids \subseteq dataset[d].ids
                 /\ dataset'[d].source = dataset[d].source
      <3>1. PICK old, new : old = dataset[d] /\ new = dataset'[d]
        OBVIOUS
      <3>2. /\ DOMAIN old = DatasetColumns
            /\ new = [old EXCEPT !.attribution = IF @ \in {k} THEN None ELSE @]
        BY <1>2, <2>2, <3>1 DEF Stored, Fits, DatasetFits
      <3>3. DOMAIN new = DOMAIN old /\ new.ids = old.ids /\ new.source = old.source
        BY <3>2 DEF DatasetColumns
      <3>4. QED
        BY <3>1, <3>3
    <2>5. DOMAIN dataset' = DOMAIN dataset
      BY <2>2
    <2>6. RowsMade(dataset', ForeignDatasets, DatasetIds)
      BY <2>4, <2>5, MadeFewer DEF Made, RowsMade
    <2>7. Made'
      BY <2>2, <2>3, <2>6 DEF Made
    <2>8. QED
      BY <2>1, <2>3, <2>7 DEF Kept
  <1>5. CASE kind = "datasets"
    <2> DEFINE lost == {x \in DOMAIN distribution : distribution[x].dataset \in {k}}
    <2>1. k \in DOMAIN dataset /\ dataset[k].source = Bod /\ DeleteDatasets({k})
      BY <1>1, <1>2, <1>5 DEF Table, DeleteRow
    <2>2. /\ dataset' = [d \in DOMAIN dataset \ {k} |->
               [dataset[d] EXCEPT !.partOf = @ \ {k},
                                  !.preferred = IF @ \in lost THEN None ELSE @]]
          /\ UNCHANGED <<organization, attribution>>
      BY <2>1 DEF DeleteDatasets
    <2>3. PICK L : L = lost
      OBVIOUS
    <2>4. DOMAIN dataset' = DOMAIN dataset \ {k}
      BY <2>2
    <2>5. ASSUME NEW d \in DOMAIN dataset'
          PROVE  /\ DOMAIN dataset'[d] = DOMAIN dataset[d]
                 /\ dataset'[d].ids \subseteq dataset[d].ids
                 /\ dataset'[d].source = dataset[d].source
                 /\ dataset'[d].attribution = dataset[d].attribution
                 /\ dataset'[d].units = dataset[d].units
      <3>1. PICK old, new : old = dataset[d] /\ new = dataset'[d]
        OBVIOUS
      <3>2. /\ DOMAIN old = DatasetColumns
            /\ new = [old EXCEPT !.partOf = @ \ {k}, !.preferred = IF @ \in L THEN None ELSE @]
        BY <1>2, <2>2, <2>3, <2>4, <3>1 DEF Stored, Fits, DatasetFits
      <3>3. /\ DOMAIN new = DOMAIN old /\ new.ids = old.ids /\ new.source = old.source
            /\ new.attribution = old.attribution /\ new.units = old.units
        BY <3>2 DEF DatasetColumns
      <3>4. QED
        BY <3>1, <3>3
    <2>6. RowsMade(dataset', ForeignDatasets, DatasetIds)
      <3>1. k \notin ForeignDatasets
        BY <2>1 DEF Made, RowsMade
      <3>2. ForeignDatasets \subseteq DOMAIN dataset'
        BY <2>4, <3>1 DEF Made, RowsMade
      <3>3. QED
        BY <2>4, <2>5, <3>2, MadeFewer DEF Made
    <2>7. QED
      BY <2>2, <2>5, <2>6 DEF Kept, Made
  <1>6. QED
    BY <1>2, <1>3, <1>4, <1>5

LEMMA CleanUpFollowed ==
  ASSUME Inv, Whole, Followed, CleanUp, UNCHANGED harvest
  PROVE  Followed'
  <1>1. PICK kind : CleanId(kind) \/ CleanRow(kind)
    BY DEF CleanUp
  <1>2. Cleaning(kind)
    BY <1>1 DEF CleanId, CleanRow
  <1>3. run # Idle /\ run.todo = {} /\ run.work = <<>>
    BY <1>2, AtCleanUp DEF Cleaning, Ended, Running
  <1>4. Spares /\ Kept
    BY <1>1, CleanUpSpares, IdCleanedKeeps, RowCleanedKeeps DEF Followed
  <1>5. Made' /\ UNCHANGED <<run, mappings>>
    BY <1>4 DEF Spares, Kept
  <1>6. run.part = "datasets" => UNCHANGED <<organization, attribution>>
    BY <1>4 DEF Spares
  <1>7. AsAsked' /\ Seen' /\ LookedUp' /\ ProvidersDone'
    BY <1>3, <1>5, <1>6, PartGoesOn DEF Followed, AsAsked
  <1>8. /\ \A i : ProviderRow(i)' = ProviderRow(i)
        /\ \A i : SetRow(i)' = SetRow(i)
    BY <1>5, SameRows
  <1>9. ASSUME run.part = "organizations" PROVE Placed'
    <2>1. PICK c : \A r \in Parsed(run.input.providers) : \A a \in IdsOf(r) :
                     (r = c /\ Pending("attribution", a)) \/ AttributionPlaced(a, r)
      BY <1>3, <1>9 DEF Followed, Placed
    <2>2. \A i : ~ Pending("attribution", i)
      BY <1>3 DEF Pending
    <2>3. \A r \in Parsed(run.input.providers) : \A a \in IdsOf(r) : AttributionPlaced(a, r)'
      BY <1>4, <1>8, <1>9, <2>1, <2>2 DEF AttributionPlaced, Spares, Kept, AttributionHeld
    <2>4. QED
      BY <1>3, <1>5, <2>3 DEF Placed, Parsed
  <1>10. ASSUME run.part = "datasets" PROVE Told'
    <2> DEFINE done == Parsed(run.input.datasets)
    <2>1. \A r \in done :
            /\ \E q \in done : SetRow(q.id) = SetRow(r.id) /\ ToldAttribution(SetRow(r.id), q)
            /\ \E q \in done : SetRow(q.id) = SetRow(r.id) /\ ToldOwner(SetRow(r.id), q)
      <3>1. ~ Len(run.work) >= 3
        BY <1>3
      <3>2. QED
        BY <1>3, <1>10, <3>1 DEF Followed, Told
    <2>2. ASSUME NEW r \in done, NEW d, d = SetRow(r.id), NEW q
          PROVE  /\ ToldAttribution(d, q) => ToldAttribution(d, q)'
                 /\ ToldOwner(d, q) => ToldOwner(d, q)'
      <3>1. SetHeld(r.id)'
        BY <1>4, <1>10, <2>2 DEF Spares
      <3>2. d \in DOMAIN dataset'
        BY <1>8, <2>2, <3>1 DEF SetHeld, Holders
      <3>3. dataset'[d].attribution = dataset[d].attribution /\ dataset'[d].units = dataset[d].units
        BY <1>4, <1>10, <3>2 DEF Kept
      <3>4. QED
        BY <1>5, <1>6, <1>10, <3>3 DEF ToldAttribution, ToldOwner, Owners, OwnerOf
    <2> HIDE DEF done
    <2>3. ASSUME NEW r \in done, NEW d, d = SetRow(r.id)
          PROVE  /\ \E q \in done : SetRow(q.id) = d /\ ToldAttribution(d, q)'
                 /\ \E q \in done : SetRow(q.id) = d /\ ToldOwner(d, q)'
      BY <2>1, <2>2, <2>3
    <2>4. done' = done
      BY <1>5 DEF done, Parsed
    <2>5. \A r \in done' :
            /\ \E q \in done' : (SetRow(q.id) = SetRow(r.id) /\ ToldAttribution(SetRow(r.id), q))'
            /\ \E q \in done' : (SetRow(q.id) = SetRow(r.id) /\ ToldOwner(SetRow(r.id), q))'
      <3> TAKE r \in done'
      <3>1. PICK e : e = SetRow(r.id)'
        OBVIOUS
      <3>2. e = SetRow(r.id) /\ r \in done
        BY <1>8, <2>4, <3>1
      <3>3. \A q : /\ ToldAttribution(SetRow(r.id), q)' <=> ToldAttribution(e, q)'
                   /\ ToldOwner(SetRow(r.id), q)' <=> ToldOwner(e, q)'
        BY <3>1 DEF ToldAttribution, ToldOwner, Owners
      <3>4. QED
        BY <1>8, <2>3, <2>4, <3>1, <3>2, <3>3
    <2>6. run'.todo = {} /\ run'.work = <<>>
      BY <1>3, <1>5
    <2>7. QED
      BY <2>5, <2>6 DEF Told, done
  <1>11. QED
    BY <1>5, <1>7, <1>9, <1>10 DEF Followed

-----------------------------------------------------------------------------
\* What the writes for a provider are about.
LEMMA ProviderWorkAbout ==
  ASSUME NEW r \in Providers, NEW n \in 1..Len(ProviderWork(r)), NEW w, w = ProviderWork(r)[n]
  PROVE  /\ w.op \in {"takeProvider", "organization"} => w.id = r.id
         /\ w.op \in {"takeAttribution", "attribution"} => w.id \in IdsOf(r)
  <1> DEFINE ids == r.attributions
             first == <<[op |-> "takeProvider", id |-> r.id], [op |-> "organization", id |-> r.id]>>
             rest == AttributionWork(ids)
  <1>1. ids \in Seq(IdsOf(r)) /\ Len(ids) \in Nat
    BY HarvestAssumption, LenProperties DEF Providers
  <1>2. \A k \in 1..Len(ids) : ids[k] \in IdsOf(r)
    BY <1>1, LenProperties
  <1> HIDE DEF ids
  <1>3. rest = [k \in 1..(2 * Len(ids)) |->
             [op |-> IF k % 2 = 1 THEN "takeAttribution" ELSE "attribution",
              id |-> ids[(k + 1) \div 2]]]
    BY DEF AttributionWork
  <1>4. \A k \in 1..(2 * Len(ids)) : (k + 1) \div 2 \in 1..Len(ids)
    BY <1>1
  <1>5. \A k \in 1..(2 * Len(ids)) : /\ rest[k].op \in {"takeAttribution", "attribution"}
                                     /\ rest[k].id \in IdsOf(r)
    BY <1>2, <1>3, <1>4
  <1>6. ProviderWork(r) = first \o rest /\ Len(first) = 2
    BY DEF ProviderWork, ids
  <1>7. /\ first[1] = [op |-> "takeProvider", id |-> r.id]
        /\ first[2] = [op |-> "organization", id |-> r.id]
    OBVIOUS
  <1>8. \E S : first \in Seq(S) /\ rest \in Seq(S)
    <2> DEFINE S == [op : {"takeProvider", "organization", "takeAttribution", "attribution"},
                     id : {r.id} \cup IdsOf(r)]
    <2>1. first \in Seq(S)
      OBVIOUS
    <2>2. rest \in Seq(S)
      BY <1>1, <1>2, <1>3, <1>4
    <2>3. QED
      BY <2>1, <2>2
  <1>9. Len(rest) = 2 * Len(ids)
    BY <1>1, <1>3
  <1> HIDE DEF first, rest
  <1>10. /\ Len(first \o rest) = Len(first) + Len(rest)
         /\ \A k \in 1..(Len(first) + Len(rest)) :
              (first \o rest)[k] = IF k <= Len(first) THEN first[k] ELSE rest[k - Len(first)]
    BY <1>8, ConcatProperties, Zenon
  <1>11. n \in 1..(2 + 2 * Len(ids)) /\ w = IF n <= 2 THEN first[n] ELSE rest[n - 2]
    BY <1>6, <1>9, <1>10
  <1>12. n <= 2 => n = 1 \/ n = 2
    BY <1>11
  <1>13. ~ n <= 2 => n - 2 \in 1..(2 * Len(ids))
    BY <1>1, <1>11
  <1>14. QED
    BY <1>5, <1>7, <1>11, <1>12, <1>13

\* A record is taken up.
LEMMA TakenUpFollowed ==
  ASSUME Inv, Whole, Followed, run # Idle, NEW r, NEW ids, NEW work, TakeUp(r, ids, work),
         UNCHANGED <<mappings, harvest>>,
         run.part = "organizations" =>
           ids \subseteq UNION {{s.id} \cup IdsOf(s) : s \in Parsed(run.input.providers)},
         run.part = "datasets" => ids \subseteq {s.id : s \in Parsed(run.input.datasets)}
  PROVE  /\ Made' /\ AsAsked' /\ Seen' /\ LookedUp' /\ ProvidersDone'
         /\ run'.part = run.part /\ run'.todo = run.todo \ {r} /\ run'.work = work
         /\ run'.lookup = run.lookup /\ run'.input = run.input
         /\ UNCHANGED <<organization, attribution, dataset>>
  <1>1. Made /\ AsAsked /\ Seen /\ LookedUp /\ ProvidersDone /\ RunFits
    BY DEF Followed, Whole
  <1>2. UNCHANGED <<organization, attribution, dataset>>
    BY DEF TakeUp, tables
  <1>3. /\ "complete" \in DOMAIN run' /\ run'.complete = run.complete /\ run'.clean = run.clean
        /\ run'.ahead = run.ahead /\ run'.input = run.input /\ run'.part = run.part
        /\ run'.lookup = run.lookup /\ run'.processed = run.processed \cup ids
        /\ run'.todo = run.todo \ {r} /\ run'.work = work
    BY <1>1 DEF TakeUp, RunFits, AllColumns, Columns, AsAsked
  <1>4. Made'
    BY <1>1, <1>2 DEF Made
  <1>5. AsAsked'
    BY <1>1, <1>3 DEF AsAsked
  <1>6. Seen'
    BY <1>1, <1>3 DEF Seen, Parsed
  <1>7. LeadOut' <=> LeadOut
    BY DEF LeadOut
  <1>8. LookedUp'
    BY <1>1, <1>2, <1>3, <1>7 DEF LookedUp
  <1>9. ProvidersDone'
    <2>1. SUFFICES ASSUME run.complete, run.part = "datasets", LeadOut
                   PROVE  \E t \in Tables(mappings.organization, DOMAIN organization) :
                            ProvidersMirror(t)'
      BY <1>2, <1>3, <1>7 DEF ProvidersDone
    <2>2. PICK t \in Tables(mappings.organization, DOMAIN organization) : ProvidersMirror(t)
      BY <1>1, <2>1 DEF ProvidersDone
    <2>3. ProvidersMirror(t)'
      BY <1>2, <2>2 DEF ProvidersMirror
    <2>4. QED
      BY <2>3
  <1>10. QED
    BY <1>2, <1>3, <1>4, <1>5, <1>6, <1>8, <1>9

LEMMA NextProviderFollowed ==
  ASSUME Inv, Whole, Followed, NextProvider, UNCHANGED harvest
  PROVE  Followed'
  <1>1. /\ RunOk /\ RunFits /\ run # Idle /\ run.work = <<>> /\ run.part = "organizations"
        /\ Placed /\ UNCHANGED mappings
    BY DEF Inv, Whole, Followed, NextProvider, Ready, Running
  <1>2. PICK r \in run.todo : IF r.parses THEN TakeUp(r, {r.id} \cup IdsOf(r), ProviderWork(r))
                              ELSE TakeUp(r, {}, <<>>)
    BY DEF NextProvider
  <1>3. r \in run.input.providers /\ r \in Providers
    BY <1>1, <1>2 DEF RunFits, RunOk
  <1>4. PICK ids, work :
          /\ TakeUp(r, ids, work)
          /\ ids \subseteq UNION {{s.id} \cup IdsOf(s) : s \in Parsed(run.input.providers)}
          /\ work = IF r.parses THEN ProviderWork(r) ELSE <<>>
    <2>1. CASE r.parses
      BY <1>2, <1>3, <2>1 DEF Parsed
    <2>2. CASE ~ r.parses
      BY <1>2, <2>2
    <2>3. QED
      BY <2>1, <2>2
  <1>5. /\ Made' /\ AsAsked' /\ Seen' /\ LookedUp' /\ ProvidersDone'
        /\ run'.part = run.part /\ run'.todo = run.todo \ {r} /\ run'.work = work
        /\ run'.lookup = run.lookup /\ run'.input = run.input
        /\ UNCHANGED <<organization, attribution, dataset>>
    BY <1>1, <1>4, TakenUpFollowed
  <1>6. \A i : ProviderRow(i)' = ProviderRow(i)
    BY <1>5, SameRows
  <1>7. \A a, s : AttributionPlaced(a, s) => AttributionPlaced(a, s)'
    BY <1>5, <1>6 DEF AttributionPlaced
  <1>8. \A s \in Parsed(run.input.providers) \ run.todo : \A a \in IdsOf(s) :
          AttributionPlaced(a, s)
    BY <1>1 DEF Placed, Pending
  <1>9. run'.work # <<>> => ProviderAtHand(r)'
    <2>1. SUFFICES ASSUME run'.work # <<>> PROVE ProviderAtHand(r)'
      OBVIOUS
    <2>2. r.parses /\ run'.work = ProviderWork(r)
      BY <1>4, <1>5, <2>1
    <2>3. Head(run'.work).op = "takeProvider"
      BY <1>3, <2>2, ProviderWorkInOrder
    <2>4. \A n \in 1..Len(run'.work) :
            /\ run'.work[n].op \in {"takeProvider", "organization"} => run'.work[n].id = r.id
            /\ run'.work[n].op \in {"takeAttribution", "attribution"} =>
                 run'.work[n].id \in IdsOf(r)
      BY <1>3, <2>2, ProviderWorkAbout
    <2>5. r \in Parsed(run'.input.providers)
      BY <1>3, <1>5, <2>2 DEF Parsed
    <2>6. QED
      BY <2>3, <2>4, <2>5 DEF ProviderAtHand, Op, Parsed
  <1>10. ASSUME NEW s \in Parsed(run.input.providers) \ (run.todo \ {r}), NEW a \in IdsOf(s)
         PROVE  (s = r /\ Pending("attribution", a)') \/ AttributionPlaced(a, s)'
    <2>1. CASE s = r
      <3>1. run'.work = ProviderWork(r)
        BY <1>4, <1>5, <1>10, <2>1 DEF Parsed
      <3>2. \E n \in 1..Len(run'.work) :
              run'.work[n].op = "attribution" /\ run'.work[n].id = a
        BY <1>3, <1>10, <2>1, <3>1, ProviderWorkInOrder
      <3>3. QED
        BY <2>1, <3>2 DEF Pending
    <2>2. CASE s # r
      BY <1>7, <1>8, <1>10, <2>2
    <2>3. QED
      BY <2>1, <2>2
  <1>11. Placed'
    BY <1>5, <1>9, <1>10 DEF Placed, Parsed
  <1>12. QED
    BY <1>1, <1>5, <1>11 DEF Followed

LEMMA NextDatasetFollowed ==
  ASSUME Inv, Whole, Followed, NextDataset, UNCHANGED harvest
  PROVE  Followed'
  <1>1. /\ RunOk /\ RunFits /\ run # Idle /\ run.work = <<>> /\ run.part = "datasets"
        /\ Told /\ UNCHANGED mappings
    BY DEF Inv, Whole, Followed, NextDataset, Ready, Running
  <1>2. PICK r \in run.todo : IF r.parses THEN TakeUp(r, {r.id}, DatasetWork(r))
                              ELSE TakeUp(r, {}, <<>>)
    BY DEF NextDataset
  <1>3. r \in run.input.datasets /\ r \in Sets
    BY <1>1, <1>2 DEF RunFits, RunOk
  <1>4. PICK ids, work :
          /\ TakeUp(r, ids, work)
          /\ ids \subseteq {s.id : s \in Parsed(run.input.datasets)}
          /\ work = IF r.parses THEN DatasetWork(r) ELSE <<>>
    <2>1. CASE r.parses
      BY <1>2, <1>3, <2>1 DEF Parsed
    <2>2. CASE ~ r.parses
      BY <1>2, <2>2
    <2>3. QED
      BY <2>1, <2>2
  <1>5. /\ Made' /\ AsAsked' /\ Seen' /\ LookedUp' /\ ProvidersDone'
        /\ run'.part = run.part /\ run'.todo = run.todo \ {r} /\ run'.work = work
        /\ run'.lookup = run.lookup /\ run'.input = run.input
        /\ UNCHANGED <<organization, attribution, dataset>>
    BY <1>1, <1>4, TakenUpFollowed
  <1>6. \A i : SetRow(i)' = SetRow(i)
    BY <1>5, SameRows
  <1> DEFINE done == Parsed(run.input.datasets) \ run.todo
             next == Parsed(run.input.datasets) \ (run.todo \ {r})
  <1>7. \A s \in done :
          /\ \E q \in done : SetRow(q.id) = SetRow(s.id) /\ ToldAttribution(SetRow(s.id), q)
          /\ \E q \in done : SetRow(q.id) = SetRow(s.id) /\ ToldOwner(SetRow(s.id), q)
    <2>1. ~ Len(run.work) >= 3
      BY <1>1
    <2>2. QED
      BY <1>1, <2>1 DEF Told
  <1>8. \A d, q : /\ ToldAttribution(d, q) => ToldAttribution(d, q)'
                  /\ ToldOwner(d, q) => ToldOwner(d, q)'
    BY <1>5 DEF ToldAttribution, ToldOwner, Owners, OwnerOf
  <1>9. /\ next' = Parsed(run'.input.datasets) \ (run'.todo \ {r}) /\ done \subseteq next
        /\ done' = next /\ next \subseteq done \cup {r}
        /\ r \in next => r.parses
    BY <1>5 DEF Parsed
  <1>10. PICK work5 : work5 = DatasetWork(r)
    OBVIOUS
  <1>11. Len(work5) = 5 /\ work5 # <<>>
    BY <1>10 DEF DatasetWork
  <1>12. r.parses => run'.work = work5
    BY <1>4, <1>5, <1>10
  <1>13. run'.work # <<>> => r.parses
    BY <1>4, <1>5
  <1>14. r.parses => r \in next
    BY <1>3 DEF Parsed
  <1>15. r.parses => Len(run'.work) = 5 /\ Len(run'.work) >= 3 /\ run'.work # <<>>
    <2>1. Len(work5) >= 3
      BY <1>11
    <2>2. QED
      BY <1>11, <1>12, <2>1
  <1> HIDE DEF done, next
  <1>16. run'.work # <<>> => SetAtHand(r)'
    <2>1. SUFFICES ASSUME run'.work # <<>> PROVE SetAtHand(r)'
      OBVIOUS
    <2>2. r \in done' /\ Len(run'.work) \in 1..5 /\ ~ Len(run'.work) <= 3
      <3>1. Len(run'.work) = 5 /\ r \in done'
        BY <1>9, <1>13, <1>14, <1>15, <2>1
      <3>2. QED
        BY <3>1
    <2>3. \A n \in 1..5 : n + 5 - 5 = n
      OBVIOUS
    <2>4. \A n \in 1..Len(run'.work) : run'.work[n] = DatasetWork(r)[n + 5 - Len(run'.work)]
      BY <1>10, <1>12, <1>13, <1>15, <2>1, <2>3
    <2>5. QED
      BY <2>2, <2>4 DEF SetAtHand, done
  <1>17. ASSUME NEW s \in next, NEW d, d = SetRow(s.id)
         PROVE  /\ \/ SetRow(r.id) = d /\ Len(run'.work) >= 3
                   \/ \E q \in next : SetRow(q.id) = d /\ ToldAttribution(d, q)'
                /\ \/ SetRow(r.id) = d /\ run'.work # <<>>
                   \/ \E q \in next : SetRow(q.id) = d /\ ToldOwner(d, q)'
    <2>1. CASE s = r
      BY <1>9, <1>15, <1>17, <2>1
    <2>2. CASE s # r
      <3>1. s \in done
        BY <1>9, <1>17, <2>2
      <3>2. QED
        BY <1>7, <1>8, <1>9, <1>17, <3>1
    <2>3. QED
      BY <2>1, <2>2
  <1>18. \A s \in done' :
           /\ \/ (SetRow(r.id) = SetRow(s.id) /\ Len(run.work) >= 3)'
              \/ \E q \in done' : (SetRow(q.id) = SetRow(s.id) /\ ToldAttribution(SetRow(s.id), q))'
           /\ \/ (SetRow(r.id) = SetRow(s.id) /\ run.work # <<>>)'
              \/ \E q \in done' : (SetRow(q.id) = SetRow(s.id) /\ ToldOwner(SetRow(s.id), q))'
    <2> TAKE s \in done'
    <2>1. PICK e : e = SetRow(s.id)'
      OBVIOUS
    <2>2. e = SetRow(s.id) /\ s \in next
      BY <1>6, <1>9, <2>1
    <2>3. \A q : /\ ToldAttribution(SetRow(s.id), q)' <=> ToldAttribution(e, q)'
                 /\ ToldOwner(SetRow(s.id), q)' <=> ToldOwner(e, q)'
      BY <2>1 DEF ToldAttribution, ToldOwner, Owners
    <2>4. QED
      BY <1>6, <1>9, <1>17, <2>1, <2>2, <2>3
  <1>19. Told'
    BY <1>16, <1>18 DEF Told, done
  <1>20. QED
    BY <1>1, <1>5, <1>19 DEF Followed

-----------------------------------------------------------------------------
\* What is left when a part has cleaned up.
LEMMA Cleaned ==
  ASSUME NEW kind, Clean(kind), run.source = Bod, NEW table, table = Table(kind)
  PROVE  \A k \in DOMAIN table : table[k].source = Bod =>
           table[k].ids # {} /\ table[k].ids \subseteq run.processed
  <1>1. /\ UNION {table[k].ids : k \in RowsOf(table, Bod)} \subseteq run.processed
        /\ \A k \in RowsOf(table, Bod) : table[k].ids # {}
    BY DEF Clean, Removed, Obsolete, ExistingSourceIds, ObsoleteRows
  <1>2. \A k \in RowsOf(table, Bod) : table[k].ids \subseteq run.processed
    BY <1>1
  <1>3. QED
    BY <1>1, <1>2 DEF RowsOf

\* When the first part of a complete run has ended, the organizations and attributions are
\* those of its records.
LEMMA ProvidersEnd ==
  ASSUME Inv, Whole, Followed, run # Idle, PartEnded, run.complete, run.part = "organizations"
  PROVE  ProvidersMirror(run.lookup.organization)
  <1>1. /\ RunOk /\ RunFits /\ Held /\ Stored /\ Made /\ AsAsked /\ Seen /\ Placed
    BY DEF Inv, Whole, Followed
  <1>2. run.todo = {} /\ run.work = <<>> /\ run.clean /\ run.input = harvest /\ run.source = Bod
    BY <1>1 DEF PartEnded, Ended, AsAsked, RunFits
  <1>3. Clean("organizations") /\ Clean("attributions")
    <2>1. PICK cleans : cleans = run.cleans
      OBVIOUS
    <2>2. cleans = <<"organizations", "attributions">>
      BY <1>1, <2>1 DEF RunFits, CleansOf
    <2>3. /\ 1 \in 1..Len(cleans) /\ 2 \in 1..Len(cleans)
          /\ cleans[1] = "organizations" /\ cleans[2] = "attributions"
      BY <2>2
    <2>4. \A n \in 1..Len(cleans) : Clean(cleans[n])
      BY <1>2, <2>1 DEF PartEnded
    <2>5. QED
      BY <2>3, <2>4
  <1> DEFINE records == Parsed(harvest.providers)
             t == run.lookup.organization
             TargetOf(i) == RowFor(Match(t, i), i)
  <1>4. \A i : TargetOf(i) = ProviderRow(i)
    BY DEF ProviderRow, OrganizationMapping
  <1>5. records \subseteq Providers /\ records = Parsed(run.input.providers)
    BY <1>1, <1>2 DEF RunOk, Providers, Parsed
  <1>6. \A op, i : ~ Pending(op, i)
    BY <1>2 DEF Pending
  <1>7. \A r \in records :
          /\ ProviderHeld(r.id)
          /\ \A a \in IdsOf(r) : AttributionHeld(a) /\ AttributionPlaced(a, r)
    <2>1. \A r \in records :
            ProviderHeld(r.id) /\ \A a \in IdsOf(r) : AttributionHeld(a)
      BY <1>1, <1>2, <1>5, <1>6 DEF Held, ProvidersHeld
    <2>2. \A r \in records : \A a \in IdsOf(r) : AttributionPlaced(a, r)
      BY <1>1, <1>2, <1>5, <1>6 DEF Placed
    <2>3. QED
      BY <2>1, <2>2
  <1>8. \A k \in DOMAIN organization : organization[k].source = Bod =>
          organization[k].ids # {} /\ organization[k].ids \subseteq run.processed
    BY <1>2, <1>3, Cleaned DEF Table
  <1>9. \A k \in DOMAIN attribution :
          attribution[k].ids # {} /\ attribution[k].ids \subseteq run.processed
    BY <1>1, <1>2, <1>3, Cleaned DEF Table, Made
  <1>10. \A i \in run.processed : \E r \in records : i = r.id \/ i \in IdsOf(r)
    BY <1>1, <1>5 DEF Seen
  <1>11. \A r \in records : r.id \in OrganizationIds /\ IdsOf(r) \subseteq AttributionIds
    BY <1>5 DEF OrganizationIds, AttributionIds
  <1> HIDE DEF records, t, TargetOf
  <1>12. ASSUME NEW k \in RowsOf(organization, Bod)
         PROVE  \E r \in records : k = TargetOf(r.id)
    <2>1. PICK i : i \in organization[k].ids /\ i \in run.processed /\ i \in OrganizationIds
      BY <1>1, <1>8, <1>12 DEF RowsOf, Made, RowsMade
    <2>2. PICK r \in records : i = r.id
      BY <1>10, <1>11, <2>1, HarvestAssumption
    <2>3. k \in Holders(organization, r.id)
      BY <1>12, <2>1, <2>2 DEF RowsOf, Holders
    <2>4. QED
      BY <1>4, <1>7, <2>3 DEF ProviderHeld
  <1>13. DOMAIN attribution = UNION {IdsOf(r) : r \in records}
    <2>1. ASSUME NEW a \in DOMAIN attribution
          PROVE  \E r \in records : a \in IdsOf(r)
      <3>1. attribution[a].ids \subseteq {a} /\ a \in AttributionIds
        BY <1>1 DEF Stored, Fits, AttributionFits, Made
      <3>2. a \in run.processed
        BY <1>9, <3>1
      <3>3. QED
        BY <1>10, <1>11, <3>1, <3>2, HarvestAssumption
    <2>2. ASSUME NEW r \in records, NEW a \in IdsOf(r)
          PROVE  a \in DOMAIN attribution
      BY <1>7 DEF AttributionHeld
    <2>3. QED
      BY <2>1, <2>2
  <1>14. /\ \A r \in records : Holders(organization, r.id) = {TargetOf(r.id)}
         /\ \A r \in records : \A a \in IdsOf(r) :
              attribution[a].organization = TargetOf(r.id)
    BY <1>4, <1>7 DEF ProviderHeld, AttributionPlaced
  <1>15. RowsOf(organization, Bod) \subseteq {TargetOf(r.id) : r \in records}
    BY <1>12
  <1>16. QED
    BY <1>13, <1>14, <1>15 DEF ProvidersMirror, records, t, TargetOf

LEMMA SetsEnd ==
  ASSUME Inv, Whole, Followed, run # Idle, PartEnded, run.complete, run.part = "datasets"
  PROVE  DatasetsMirror(run.lookup.dataset, run.lookup.unit)
  <1>1. /\ RunOk /\ RunFits /\ Held /\ Stored /\ Made /\ AsAsked /\ Seen /\ Told
    BY DEF Inv, Whole, Followed
  <1>2. run.todo = {} /\ run.work = <<>> /\ run.clean /\ run.input = harvest /\ run.source = Bod
    BY <1>1 DEF PartEnded, Ended, AsAsked, RunFits
  <1>3. Clean("datasets")
    <2>1. PICK cleans : cleans = run.cleans
      OBVIOUS
    <2>2. cleans = <<"datasets">>
      BY <1>1, <2>1 DEF RunFits, CleansOf
    <2>3. 1 \in 1..Len(cleans) /\ cleans[1] = "datasets"
      BY <2>2
    <2>4. \A n \in 1..Len(cleans) : Clean(cleans[n])
      BY <1>2, <2>1 DEF PartEnded
    <2>5. QED
      BY <2>3, <2>4
  <1> DEFINE records == Parsed(harvest.datasets)
             t == run.lookup.dataset
             u == run.lookup.unit
             TargetOf(i) == RowFor(MatchEnabled(t, i, "dataset"), i)
             Behind(d) == {r \in records : TargetOf(r.id) = d}
  <1>4. \A i : TargetOf(i) = SetRow(i)
    BY DEF SetRow, DatasetMapping
  <1>5. records = Parsed(run.input.datasets)
    BY <1>2
  <1>6. \A r \in records : SetHeld(r.id)
    BY <1>1, <1>2, <1>5 DEF Held, SetsHeld, Pending
  <1>7. \A r \in records :
          /\ \E q \in records : SetRow(q.id) = SetRow(r.id) /\ ToldAttribution(SetRow(r.id), q)
          /\ \E q \in records : SetRow(q.id) = SetRow(r.id) /\ ToldOwner(SetRow(r.id), q)
    <2>1. ~ Len(run.work) >= 3
      BY <1>2
    <2>2. QED
      BY <1>1, <1>2, <1>5, <2>1 DEF Told
  <1>8. \A k \in DOMAIN dataset : dataset[k].source = Bod =>
          dataset[k].ids # {} /\ dataset[k].ids \subseteq run.processed
    BY <1>2, <1>3, Cleaned DEF Table
  <1>9. \A i \in run.processed : \E r \in records : i = r.id
    BY <1>1, <1>5 DEF Seen
  <1>10. \A d, q : /\ ToldAttribution(d, q) <=>
                        (q.attribution \in DOMAIN attribution =>
                           dataset[d].attribution = q.attribution)
                   /\ ToldOwner(d, q) <=>
                        (OwnerOf(u, q) # {} => {l.to : l \in Owners(d)} = OwnerOf(u, q))
    BY DEF ToldAttribution, ToldOwner
  <1> HIDE DEF records, t, u, TargetOf
  <1>11. ASSUME NEW k \in RowsOf(dataset, Bod)
         PROVE  \E r \in records : k = TargetOf(r.id)
    <2>1. PICK i : i \in dataset[k].ids /\ i \in run.processed
      BY <1>8, <1>11 DEF RowsOf
    <2>2. PICK r \in records : i = r.id
      BY <1>9, <2>1
    <2>3. k \in Holders(dataset, r.id)
      BY <1>11, <2>1, <2>2 DEF RowsOf, Holders
    <2>4. QED
      BY <1>4, <1>6, <2>3 DEF SetHeld
  <1>12. /\ RowsOf(dataset, Bod) \subseteq {TargetOf(r.id) : r \in records}
         /\ \A r \in records : Holders(dataset, r.id) = {TargetOf(r.id)}
    BY <1>4, <1>6, <1>11 DEF SetHeld
  <1>13. ASSUME NEW d \in {TargetOf(r.id) : r \in records}
         PROVE  /\ \E r \in Behind(d) : r.attribution \in DOMAIN attribution =>
                                          dataset[d].attribution = r.attribution
                /\ \E r \in Behind(d) : OwnerOf(u, r) # {} =>
                                          {l.to : l \in Owners(d)} = OwnerOf(u, r)
    <2>1. PICK r \in records : d = SetRow(r.id)
      BY <1>4, <1>13
    <2>2. PICK q \in records : SetRow(q.id) = d /\ ToldAttribution(d, q)
      BY <1>7, <2>1
    <2>3. PICK p \in records : SetRow(p.id) = d /\ ToldOwner(d, p)
      BY <1>7, <2>1
    <2>4. q \in Behind(d) /\ p \in Behind(d)
      BY <1>4, <2>2, <2>3
    <2>5. QED
      BY <1>10, <2>2, <2>3, <2>4
  <1>14. QED
    BY <1>12, <1>13 DEF DatasetsMirror, records, t, u, TargetOf

LEMMA EnteredFollowed ==
  ASSUME Inv, Whole, Followed, EnterProviders \/ EnterDatasets, UNCHANGED harvest
  PROVE  Followed'
  <1>1. /\ run # Idle /\ RunFits /\ AsAsked /\ Made /\ PartEnded /\ run.ahead # <<>>
        /\ run.work = <<>> /\ UNCHANGED tables /\ UNCHANGED mappings
    BY DEF Inv, Whole, Followed, EnterProviders, EnterDatasets, Entering, PartEnded, Ended, Running
  <1>2. Made' /\ UNCHANGED <<organization, attribution, dataset>>
    BY <1>1 DEF tables, Made
  <1>3. CASE EnterProviders
    <2>1. PICK t \in Tables(mappings.organization, DOMAIN organization) :
            Enter("organizations", <<"organizations", "attributions">>,
                  [organization |-> t], run.input.providers)
      BY <1>3 DEF EnterProviders
    <2>2. /\ "complete" \in DOMAIN run' /\ run'.complete = run.complete /\ run'.clean = run.clean
          /\ run'.ahead = Tail(run.ahead)
          /\ run'.part = "organizations" /\ run'.input = run.input
          /\ run'.todo = run.input.providers /\ run'.work = <<>> /\ run'.processed = {}
          /\ run'.lookup.organization = t
      BY <1>1, <2>1 DEF Enter, RunFits, AllColumns, Columns, AsAsked
    <2>3. ASSUME run.complete PROVE run'.ahead = <<"datasets">>
      <3>1. run.ahead # <<>> /\ Head(run.ahead) = "organizations"
        BY <1>3 DEF EnterProviders, Entering
      <3>2. CASE run.part = "start"
        <4>1. run.ahead = <<"organizations", "datasets">>
          BY <1>1, <2>3, <3>2 DEF AsAsked, AllParts
        <4>2. PICK a : a = run.ahead
          OBVIOUS
        <4>3. Tail(a) = <<"datasets">>
          BY <4>1, <4>2
        <4>4. QED
          BY <2>2, <4>2, <4>3
      <3>3. CASE run.part = "organizations"
        <4>1. PICK a : a = run.ahead
          OBVIOUS
        <4>2. a = <<"datasets">> /\ Head(a) = "organizations"
          BY <1>1, <2>3, <3>1, <3>3, <4>1 DEF AsAsked
        <4>3. QED
          BY <4>2
      <3>4. CASE run.part = "datasets"
        BY <1>1, <2>3, <3>1, <3>4 DEF AsAsked
      <3>5. QED
        BY <1>1, <3>2, <3>3, <3>4 DEF RunFits
    <2>4. AsAsked'
      BY <1>1, <2>2, <2>3 DEF AsAsked
    <2>5. Seen' /\ LookedUp' /\ ProvidersDone'
      BY <1>1, <1>2, <2>2 DEF Seen, LookedUp, ProvidersDone
    <2>6. Placed'
      BY <2>2 DEF Placed, Parsed
    <2>7. QED
      BY <1>2, <2>2, <2>4, <2>5, <2>6 DEF Followed
  <1>4. CASE EnterDatasets
    <2>1. PICK d \in Tables(mappings.dataset, DOMAIN dataset),
               u \in Tables(mappings.unit, DOMAIN organization) :
            Enter("datasets", <<"datasets">>, [dataset |-> d, unit |-> u], run.input.datasets)
      BY <1>4 DEF EnterDatasets
    <2>2. /\ "complete" \in DOMAIN run' /\ run'.complete = run.complete /\ run'.clean = run.clean
          /\ run'.ahead = Tail(run.ahead)
          /\ run'.part = "datasets" /\ run'.input = run.input
          /\ run'.todo = run.input.datasets /\ run'.work = <<>> /\ run'.processed = {}
          /\ run'.lookup.dataset = d /\ run'.lookup.unit = u
      BY <1>1, <2>1 DEF Enter, RunFits, AllColumns, Columns, AsAsked
    <2>3. ASSUME run.complete PROVE run.part = "organizations" /\ run'.ahead = <<>>
      <3>1. run.ahead # <<>> /\ Head(run.ahead) = "datasets"
        BY <1>4 DEF EnterDatasets, Entering
      <3>2. PICK a : a = run.ahead
        OBVIOUS
      <3>3. CASE run.part = "start"
        <4>1. a = <<"organizations", "datasets">> /\ Head(a) = "datasets"
          BY <1>1, <2>3, <3>1, <3>2, <3>3 DEF AsAsked, AllParts
        <4>2. QED
          BY <4>1
      <3>4. CASE run.part = "organizations"
        <4>1. a = <<"datasets">>
          BY <1>1, <2>3, <3>2, <3>4 DEF AsAsked
        <4>2. Tail(a) = <<>>
          BY <4>1
        <4>3. QED
          BY <2>2, <3>2, <3>4, <4>2
      <3>5. CASE run.part = "datasets"
        BY <1>1, <2>3, <3>1, <3>5 DEF AsAsked
      <3>6. QED
        BY <1>1, <3>3, <3>4, <3>5 DEF RunFits
    <2>4. AsAsked'
      BY <1>1, <2>2, <2>3 DEF AsAsked
    <2>5. Seen' /\ LookedUp'
      BY <1>1, <1>2, <2>2 DEF Seen, LookedUp
    <2>6. ProvidersDone'
      <3>1. SUFFICES ASSUME run.complete, LeadOut
                     PROVE  \E t \in Tables(mappings.organization, DOMAIN organization) :
                              ProvidersMirror(t)'
        BY <1>1, <1>2, <2>2 DEF ProvidersDone, LeadOut
      <3>2. PICK t : t = run.lookup.organization
        OBVIOUS
      <3>3. ProvidersMirror(t)
        BY <1>1, <2>3, <3>1, <3>2, ProvidersEnd
      <3>4. t \in Tables(mappings.organization, DOMAIN organization)
        BY <1>1, <2>3, <3>1, <3>2 DEF Followed, LookedUp
      <3>5. ProvidersMirror(t)'
        BY <1>2, <3>3 DEF ProvidersMirror
      <3>6. QED
        BY <3>4, <3>5
    <2>7. Told'
      BY <2>2 DEF Told, Parsed
    <2>8. QED
      BY <1>2, <2>2, <2>4, <2>5, <2>6, <2>7 DEF Followed
  <1>5. QED
    BY <1>3, <1>4

-----------------------------------------------------------------------------
LEMMA InitFollowed == Init => Followed
  <1>1. SUFFICES ASSUME Init PROVE Followed
    OBVIOUS
  <1>2. PICK o, d : /\ o = OrganizationRow("user-input", {}, "ours")
                    /\ d = DatasetRow("user-input", {}, "ours")
    OBVIOUS
  <1>3. /\ {"ids", "source"} \subseteq DOMAIN o /\ o.ids = {} /\ o.source # Bod
        /\ {"ids", "source"} \subseteq DOMAIN d /\ d.ids = {} /\ d.source # Bod
    BY <1>2 DEF OrganizationRow, DatasetRow, Bod
  <1>4. /\ DOMAIN organization = ForeignOrganizations
        /\ \A k \in DOMAIN organization : organization[k] = o
        /\ DOMAIN dataset = ForeignDatasets /\ \A k \in DOMAIN dataset : dataset[k] = d
        /\ DOMAIN attribution = {} /\ run = Idle
    BY <1>1, <1>2 DEF Init
  <1>5. Made
    BY <1>3, <1>4 DEF Made, RowsMade
  <1>6. QED
    BY <1>4, <1>5 DEF Followed

LEMMA BeginFollowed ==
  ASSUME Followed, Begin
  PROVE  Followed'
  <1>1. /\ Made /\ UNCHANGED <<organization, attribution, dataset>> /\ UNCHANGED harvest
    BY DEF Followed, Begin, Start, tables
  <1>2. PICK o \in Options : Start(Bod, o.parts, o.clean, o.clean /\ o.parts = AllParts, harvest)
    BY DEF Begin
  <1>3. PICK complete : complete = (o.clean /\ o.parts = AllParts)
    OBVIOUS
  <1>4. /\ "complete" \in DOMAIN run' /\ run'.complete = complete
        /\ run'.part = "start" /\ run'.clean = o.clean /\ run'.ahead = o.parts
        /\ run'.input = harvest
    BY <1>2, <1>3 DEF Start
  <1>5. Made'
    BY <1>1 DEF Made
  <1>6. AsAsked'
    <2>1. complete => o.clean /\ o.parts = AllParts
      BY <1>3, Zenon
    <2>2. run'.complete => run'.clean /\ run'.ahead = AllParts
      BY <1>4, <2>1, Zenon
    <2>3. QED
      BY <1>1, <1>4, <2>2 DEF AsAsked
  <1>7. Seen' /\ LookedUp' /\ ProvidersDone'
    BY <1>4 DEF Seen, LookedUp, ProvidersDone
  <1>8. QED
    BY <1>4, <1>5, <1>6, <1>7 DEF Followed

\* Told of the next state.
LEMMA ToldNext ==
  ASSUME NEW c, run'.work # <<>> => SetAtHand(c)',
         \A r \in (Parsed(run.input.datasets) \ run.todo)' :
           /\ \/ (SetRow(c.id) = SetRow(r.id) /\ Len(run.work) >= 3)'
              \/ \E q \in (Parsed(run.input.datasets) \ run.todo)' :
                   (SetRow(q.id) = SetRow(r.id) /\ ToldAttribution(SetRow(r.id), q))'
           /\ \/ (SetRow(c.id) = SetRow(r.id) /\ run.work # <<>>)'
              \/ \E q \in (Parsed(run.input.datasets) \ run.todo)' :
                   (SetRow(q.id) = SetRow(r.id) /\ ToldOwner(SetRow(r.id), q))'
  PROVE  Told'
  BY DEF Told

\* Nothing of the command and the tables changes.
LEMMA StillFollowed ==
  ASSUME Followed, UNCHANGED <<organization, attribution, dataset, run>>,
         run = Idle \/ UNCHANGED <<mappings, harvest>>
  PROVE  Followed'
  <1>1. Made'
    BY DEF Followed, Made
  <1>2. CASE run = Idle
    BY <1>1, <1>2 DEF Followed
  <1>3. CASE run # Idle
    <2>1. AsAsked' /\ Seen' /\ LookedUp' /\ ProvidersDone'
      BY <1>1, <1>3, PartGoesOn DEF Followed, AsAsked
    <2>2. /\ \A i : ProviderRow(i)' = ProviderRow(i)
          /\ \A i : SetRow(i)' = SetRow(i)
      BY SameRows
    <2>3. \A op, i : Pending(op, i)' <=> Pending(op, i)
      BY DEF Pending
    <2>4. ASSUME Placed PROVE Placed'
      <3>1. PICK c :
              /\ run.work # <<>> => ProviderAtHand(c)
              /\ \A r \in Parsed(run.input.providers) \ run.todo : \A a \in IdsOf(r) :
                   (r = c /\ Pending("attribution", a)) \/ AttributionPlaced(a, r)
        BY <2>4 DEF Placed
      <3>2. run.work # <<>> => ProviderAtHand(c)'
        BY <2>2, <3>1 DEF ProviderAtHand, Parsed, Op
      <3>3. \A a, r : AttributionPlaced(a, r) => AttributionPlaced(a, r)'
        BY <2>2 DEF AttributionPlaced
      <3>4. QED
        BY <2>3, <3>1, <3>2, <3>3 DEF Placed, Parsed
    <2>5. ASSUME Told PROVE Told'
      <3> DEFINE done == Parsed(run.input.datasets) \ run.todo
      <3>1. PICK c :
              /\ run.work # <<>> => SetAtHand(c)
              /\ \A r \in done :
                   /\ \/ SetRow(c.id) = SetRow(r.id) /\ Len(run.work) >= 3
                      \/ \E q \in done :
                           SetRow(q.id) = SetRow(r.id) /\ ToldAttribution(SetRow(r.id), q)
                   /\ \/ SetRow(c.id) = SetRow(r.id) /\ run.work # <<>>
                      \/ \E q \in done :
                           SetRow(q.id) = SetRow(r.id) /\ ToldOwner(SetRow(r.id), q)
        BY <2>5 DEF Told
      <3>2. run'.work # <<>> => SetAtHand(c)'
        BY <2>2, <3>1 DEF SetAtHand, Parsed
      <3>3. \A d, q : /\ ToldAttribution(d, q) => ToldAttribution(d, q)'
                      /\ ToldOwner(d, q) => ToldOwner(d, q)'
        BY <2>2 DEF ToldAttribution, ToldOwner, Owners, OwnerOf
      <3>4. done' = done
        BY DEF Parsed
      <3> HIDE DEF done
      <3>5. ASSUME NEW r \in done, NEW e, e = SetRow(r.id)
            PROVE  /\ \/ SetRow(c.id) = e /\ Len(run.work) >= 3
                      \/ \E q \in done : SetRow(q.id) = e /\ ToldAttribution(e, q)'
                   /\ \/ SetRow(c.id) = e /\ run.work # <<>>
                      \/ \E q \in done : SetRow(q.id) = e /\ ToldOwner(e, q)'
        BY <3>1, <3>3, <3>5
      <3>6. \A r \in done' :
          /\ \/ (SetRow(c.id) = SetRow(r.id) /\ Len(run.work) >= 3)'
             \/ \E q \in done' : (SetRow(q.id) = SetRow(r.id) /\ ToldAttribution(SetRow(r.id), q))'
          /\ \/ (SetRow(c.id) = SetRow(r.id) /\ run.work # <<>>)'
             \/ \E q \in done' : (SetRow(q.id) = SetRow(r.id) /\ ToldOwner(SetRow(r.id), q))'
        <4> TAKE r \in done'
        <4>1. PICK e : e = SetRow(r.id)'
          OBVIOUS
        <4>2. e = SetRow(r.id) /\ r \in done
          BY <2>2, <3>4, <4>1
        <4>3. \A q : /\ ToldAttribution(SetRow(r.id), q)' <=> ToldAttribution(e, q)'
                     /\ ToldOwner(SetRow(r.id), q)' <=> ToldOwner(e, q)'
          BY <4>1 DEF ToldAttribution, ToldOwner, Owners
        <4>4. QED
          BY <2>2, <3>4, <3>5, <4>1, <4>2, <4>3
      <3>7. QED
        <4>1. \A r \in (Parsed(run.input.datasets) \ run.todo)' :
           /\ \/ (SetRow(c.id) = SetRow(r.id) /\ Len(run.work) >= 3)'
              \/ \E q \in (Parsed(run.input.datasets) \ run.todo)' :
                   (SetRow(q.id) = SetRow(r.id) /\ ToldAttribution(SetRow(r.id), q))'
           /\ \/ (SetRow(c.id) = SetRow(r.id) /\ run.work # <<>>)'
              \/ \E q \in (Parsed(run.input.datasets) \ run.todo)' :
                   (SetRow(q.id) = SetRow(r.id) /\ ToldOwner(SetRow(r.id), q))'
          BY <3>6 DEF done
        <4>2. QED
          BY <3>2, <4>1, ToldNext
    <2>6. QED
      BY <1>1, <1>3, <2>1, <2>4, <2>5 DEF Followed
  <1>4. QED
    BY <1>2, <1>3

LEMMA NextKeepsFollowed ==
  ASSUME Inv, Whole, Followed, [Next]_vars
  PROVE  Followed'
  <1>1. CASE UNCHANGED vars
    BY <1>1, StillFollowed DEF vars, tables
  <1>2. CASE Publish \/ EditMappings
    BY <1>2, StillFollowed DEF Publish, EditMappings, Running, tables
  <1>3. CASE Begin
    BY <1>3, BeginFollowed
  <1>4. CASE Step
    BY <1>4, EnteredFollowed, NextProviderFollowed, NextDatasetFollowed, TakeProviderIdFollowed,
       SaveProviderFollowed, TakeAttributionIdFollowed, SaveAttributionFollowed,
       TakeDatasetIdFollowed, FindDatasetFollowed, StoreDatasetFollowed, OwnersFollowed,
       CleanUpFollowed
       DEF Step, ProviderStep, DatasetStep
  <1>5. CASE End \/ Break
    BY <1>5, RaiseFollowed DEF End, Break, Finish, Stop
  <1>6. QED
    BY <1>1, <1>2, <1>3, <1>4, <1>5 DEF Next

\* A complete run that ends leaves the organizations, attributions and datasets as the harvest
\* tables have them, with the attributions and owners they name.
THEOREM CompleteRunsRepair == Spec => OneRunRepairs
  <1>1. ASSUME Inv, Whole, Followed, CompleteRun, LeadOut
        PROVE
         /\ \E t \in Tables(mappings.organization, DOMAIN organization) : ProvidersMirror(t)
         /\ \E t \in Tables(mappings.dataset, DOMAIN dataset),
               u \in Tables(mappings.unit, DOMAIN organization) : DatasetsMirror(t, u)
    <2>1. run # Idle /\ PartEnded /\ run.ahead = <<>> /\ run.complete
      BY <1>1 DEF CompleteRun, End, Finish, PartEnded, Ended, Running
    <2>2. AsAsked /\ LookedUp /\ ProvidersDone /\ RunFits
      BY <1>1, <2>1 DEF Followed, Whole
    <2>3. run.part = "datasets"
      BY <2>1, <2>2 DEF AsAsked, RunFits, AllParts
    <2>4. \E t \in Tables(mappings.organization, DOMAIN organization) : ProvidersMirror(t)
      BY <1>1, <2>1, <2>2, <2>3 DEF ProvidersDone
    <2>5. PICK t, u : t = run.lookup.dataset /\ u = run.lookup.unit
      OBVIOUS
    <2>6. DatasetsMirror(t, u)
      BY <1>1, <2>1, <2>3, <2>5, SetsEnd
    <2>7. /\ t \in Tables(mappings.dataset, DOMAIN dataset)
          /\ u \in Tables(mappings.unit, DOMAIN organization)
      BY <1>1, <2>2, <2>3, <2>5 DEF LookedUp
    <2>8. QED
      BY <2>4, <2>6, <2>7
  <1>2. ASSUME Inv, Whole, Followed
        PROVE
    [CompleteRun /\ LeadOut =>
         /\ \E t \in Tables(mappings.organization, DOMAIN organization) : ProvidersMirror(t)
         /\ \E t \in Tables(mappings.dataset, DOMAIN dataset),
               u \in Tables(mappings.unit, DOMAIN organization) : DatasetsMirror(t, u)]_vars
    BY <1>1, <1>2
  <1>3. QED
    BY InitInv, NextKeepsInv, InitWhole, NextKeepsWhole, InitFollowed, NextKeepsFollowed, <1>2, PTL
    DEF Spec, Safety, OneRunRepairs
=============================================================================
