----------------------------- MODULE Viewer_proofs -----------------------------
(***************************************************************************)
(* Proofs about what the map viewer gets: tables without dangling keys,    *)
(* records that link to each other, and cleanups that spare what is        *)
(* listed.                                                                 *)
(***************************************************************************)
EXTENDS Viewer, ImportRun_proofs

Services == WebKinds \cup StacServices
LayerKinds == {"wmts", "wms", "geojson", "features"}
DatasetColumns ==
    {"source", "ids", "text", "attribution", "units", "contacts", "partOf", "preferred"}
DistributionColumns == {"source", "ids", "topic", "dataset", "dataservice", "paint"}

-----------------------------------------------------------------------------
(***************************************************************************)
(* The tables.  A dataset prefers a distribution of its own that no STAC   *)
(* service lists: those may move to another dataset, others never do.      *)
(***************************************************************************)
Preferring(datasets, distributions) ==
    \A d \in DOMAIN datasets :
      /\ DOMAIN datasets[d] = DatasetColumns
      /\ datasets[d].preferred # None =>
           /\ datasets[d].preferred \in DOMAIN distributions
           /\ distributions[datasets[d].preferred].dataset = d
           /\ datasets[d].preferred[2] # "stac"

Whole(x, row, owners) ==
    /\ x = <<x[1], x[2]>> /\ DOMAIN row = DistributionColumns
    /\ row.dataset \in owners /\ row.dataservice \in Services \cup {None}
    /\ IF x[2] = "stac" THEN row.source = Capabilities /\ row.topic = x[1]
       ELSE row.source \in {None, LayersJS}
AllWhole(distributions, owners) ==
    \A x \in DOMAIN distributions : Whole(x, distributions[x], owners)

Stored ==
    /\ DOMAIN dataservice = Services
    /\ Preferring(dataset, distribution) /\ AllWhole(distribution, DOMAIN dataset)

\* What an import does to the tables, but for its cleanups.
Grow ==
    /\ DOMAIN dataset \subseteq DOMAIN dataset' /\ UNCHANGED dataservice
    /\ \A x \in DOMAIN distribution :
         /\ x \in DOMAIN distribution'
         /\ x[2] # "stac" => distribution'[x].dataset = distribution[x].dataset

LEMMA NothingSaved ==
  ASSUME Stored, UNCHANGED tables
  PROVE  Stored' /\ Grow
  BY DEF Stored, Grow, tables

LEMMA DistributionSaved ==
  ASSUME Stored, NEW new, NEW x, SaveDistributions(new), DOMAIN new = DOMAIN distribution \cup {x},
         \A y \in DOMAIN distribution \ {x} : new[y] = distribution[y],
         Whole(x, new[x], DOMAIN dataset),
         (x \in DOMAIN distribution /\ x[2] # "stac") => new[x].dataset = distribution[x].dataset
  PROVE  Stored' /\ Grow
  <1>1. distribution' = new /\ UNCHANGED <<dataset, dataservice>>
    BY DEF SaveDistributions
  <1>2. Grow
    BY <1>1 DEF Grow
  <1>3. Preferring(dataset, new)
    BY DEF Stored, Preferring
  <1>4. AllWhole(new, DOMAIN dataset)
    BY DEF Stored, AllWhole
  <1>5. QED
    BY <1>1, <1>2, <1>3, <1>4 DEF Stored

LEMMA DatasetSaved ==
  ASSUME Stored, NEW d, NEW row, SaveDataset(d, row), DOMAIN row = DatasetColumns,
         row.preferred # None => /\ row.preferred \in DOMAIN distribution
                                 /\ distribution[row.preferred].dataset = d
                                 /\ row.preferred[2] # "stac"
  PROVE  Stored' /\ Grow /\ DOMAIN dataset' = DOMAIN dataset \cup {d}
  <1>1. /\ DOMAIN dataset' = DOMAIN dataset \cup {d} /\ dataset'[d] = row
        /\ \A e \in DOMAIN dataset \ {d} : dataset'[e] = dataset[e]
        /\ UNCHANGED <<distribution, dataservice>>
    BY DEF SaveDataset, SaveDatasets, Put
  <1>2. Grow
    BY <1>1 DEF Grow
  <1>3. Preferring(dataset', distribution)
    BY <1>1 DEF Stored, Preferring
  <1>4. AllWhole(distribution, DOMAIN dataset')
    BY <1>1 DEF Stored, AllWhole, Whole
  <1>5. QED
    BY <1>1, <1>2, <1>3, <1>4 DEF Stored

\* A dataset that is added, by an import or beside it.
LEMMA DatasetAdded ==
  ASSUME Stored, NEW d, NEW source, NEW text, SaveDataset(d, DatasetRow(source, {}, text))
  PROVE  Stored' /\ Grow /\ DOMAIN dataset' = DOMAIN dataset \cup {d}
  <1>1. PICK row : row = DatasetRow(source, {}, text)
    OBVIOUS
  <1>2. DOMAIN row = DatasetColumns /\ row.preferred = None
    BY <1>1 DEF DatasetRow, DatasetColumns
  <1>3. QED
    BY <1>1, <1>2, DatasetSaved

LEMMA DistributionDeleted ==
  ASSUME Stored, NEW x, DeleteDistributions({x})
  PROVE  /\ Stored' /\ DOMAIN dataset' = DOMAIN dataset
         /\ \A d \in DOMAIN dataset : dataset'[d].source = dataset[d].source
  <1>1. /\ distribution' = Without(distribution, {x})
        /\ DOMAIN dataset' = DOMAIN dataset /\ UNCHANGED dataservice
        /\ \A d \in DOMAIN dataset :
             dataset'[d] = [dataset[d] EXCEPT !.preferred = IF @ \in {x} THEN None ELSE @]
    BY DEF DeleteDistributions
  <1>2. /\ DOMAIN distribution' = DOMAIN distribution \ {x}
        /\ \A y \in DOMAIN distribution' : distribution'[y] = distribution[y]
    BY <1>1 DEF Without
  <1>3. ASSUME NEW d \in DOMAIN dataset
        PROVE  /\ DOMAIN dataset'[d] = DatasetColumns
               /\ dataset'[d].source = dataset[d].source
               /\ dataset'[d].preferred = (IF dataset[d].preferred = x THEN None
                                           ELSE dataset[d].preferred)
    <2>1. PICK old, new : old = dataset[d] /\ new = dataset'[d]
      OBVIOUS
    <2>2. DOMAIN old = DatasetColumns
      BY <2>1 DEF Stored, Preferring
    <2>3. new = [old EXCEPT !.preferred = IF @ \in {x} THEN None ELSE @]
      BY <1>1, <2>1
    <2>4. /\ DOMAIN new = DatasetColumns /\ new.source = old.source
          /\ new.preferred = (IF old.preferred = x THEN None ELSE old.preferred)
      BY <2>2, <2>3 DEF DatasetColumns
    <2>5. QED
      BY <2>1, <2>4
  <1>4. Preferring(dataset', distribution')
    BY <1>1, <1>2, <1>3 DEF Stored, Preferring
  <1>5. AllWhole(distribution', DOMAIN dataset')
    BY <1>1, <1>2 DEF Stored, AllWhole
  <1>6. QED
    BY <1>1, <1>3, <1>4, <1>5 DEF Stored

\* Only the distributions of a deleted dataset go with it.
LEMMA DatasetDeleted ==
  ASSUME Stored, NEW d, DeleteDatasets({d})
  PROVE  /\ Stored' /\ d \notin DOMAIN dataset'
         /\ \A x \in DOMAIN distribution \ DOMAIN distribution' : distribution[x].dataset = d
  <1> DEFINE lost == {x \in DOMAIN distribution : distribution[x].dataset \in {d}}
  <1>1. /\ distribution' = Without(distribution, lost)
        /\ DOMAIN dataset' = DOMAIN dataset \ {d} /\ UNCHANGED dataservice
        /\ \A e \in DOMAIN dataset \ {d} :
             dataset'[e] = [dataset[e] EXCEPT !.partOf = @ \ {d},
                                              !.preferred = IF @ \in lost THEN None ELSE @]
    BY DEF DeleteDatasets
  <1>2. /\ DOMAIN distribution' = {x \in DOMAIN distribution : distribution[x].dataset # d}
        /\ \A x \in DOMAIN distribution' : distribution'[x] = distribution[x]
    BY <1>1 DEF Without
  <1>3. ASSUME NEW e \in DOMAIN dataset \ {d}
        PROVE  /\ DOMAIN dataset'[e] = DatasetColumns
               /\ dataset'[e].preferred \in {None, dataset[e].preferred}
    <2> HIDE DEF lost
    <2>1. PICK old, new : old = dataset[e] /\ new = dataset'[e]
      OBVIOUS
    <2>2. DOMAIN old = DatasetColumns
      BY <2>1 DEF Stored, Preferring
    <2>3. new = [old EXCEPT !.partOf = @ \ {d}, !.preferred = IF @ \in lost THEN None ELSE @]
      BY <1>1, <2>1
    <2>4. DOMAIN new = DatasetColumns /\ new.preferred \in {None, old.preferred}
      BY <2>2, <2>3 DEF DatasetColumns
    <2>5. QED
      BY <2>1, <2>4
  <1>4. Preferring(dataset', distribution')
    <2>1. ASSUME NEW e \in DOMAIN dataset', dataset'[e].preferred # None
          PROVE  /\ dataset'[e].preferred = dataset[e].preferred
                 /\ dataset[e].preferred \in DOMAIN distribution'
                 /\ distribution'[dataset[e].preferred].dataset = e
                 /\ dataset[e].preferred[2] # "stac"
      BY <1>1, <1>2, <1>3, <2>1 DEF Stored, Preferring
    <2>2. QED
      BY <1>1, <1>3, <2>1 DEF Preferring
  <1>5. AllWhole(distribution', DOMAIN dataset')
    BY <1>1, <1>2 DEF Stored, AllWhole, Whole
  <1>6. QED
    BY <1>1, <1>2, <1>4, <1>5 DEF Stored

-----------------------------------------------------------------------------
(***************************************************************************)
(* The writes of a record.  A layer's distribution is made before it is    *)
(* written to or preferred.                                                *)
(***************************************************************************)
Layered == {r.id : r \in published.layers} \X LayerKinds
LayerWrites ==
    [op : {"getOrCreate", "prefer"}, id : Layered, dataset : DOMAIN dataset]
      \cup [op : {"update"}, id : Layered, paint : {r.paint : r \in published.layers}]
CollectionWrites ==
    [op : {"collection", "rehome"}, id : UNION {published.collections[s] : s \in StacServices}]
Writes == LayerWrites \cup CollectionWrites

Makes(v, w) ==
    v.op = "getOrCreate" /\ v.id = w.id /\ (w.op = "prefer" => v.dataset = w.dataset)
IsMade(w, distributions) ==
    /\ w.id \in DOMAIN distributions
    /\ w.op = "prefer" => distributions[w.id].dataset = w.dataset
Ordered(work, distributions) ==
    \A n \in 1..Len(work) : work[n].op \in {"update", "prefer"} =>
      IsMade(work[n], distributions) \/ \E m \in 1..(n - 1) : Makes(work[m], work[n])

\* Whether a command is at work on what its part allows.
WorkFits ==
    /\ run.work \in Seq(Writes) /\ Ordered(run.work, distribution)
    /\ \A n \in 1..Len(run.work) :
         run.work[n].op \in {"collection", "rehome"} => run.part \in StacServices

LEMMA WhatIsNext ==
  ASSUME NEW S, NEW s \in Seq(S), s # <<>>
  PROVE  /\ Head(s) = s[1] /\ Head(s) \in S /\ Len(s) \in Nat /\ Len(s) > 0
         /\ Tail(s) \in Seq(S) /\ Len(Tail(s)) = Len(s) - 1
         /\ \A n \in 1..Len(Tail(s)) : Tail(s)[n] = s[n + 1] /\ n + 1 \in 1..Len(s)
  OBVIOUS

LEMMA WritesStay ==
  ASSUME DOMAIN dataset \subseteq DOMAIN dataset', UNCHANGED published
  PROVE  Writes \subseteq Writes'
  BY DEF Writes, LayerWrites, CollectionWrites, Layered

LEMMA WriteFields ==
  ASSUME NEW w \in Writes
  PROVE  /\ w.op \in {"getOrCreate", "prefer", "update", "collection", "rehome"}
         /\ w.op \in {"getOrCreate", "prefer", "update"} =>
              w.id = <<w.id[1], w.id[2]>> /\ w.id[2] \in LayerKinds /\ w.id[2] # "stac"
         /\ w.op \in {"getOrCreate", "prefer"} => w.dataset \in DOMAIN dataset
         /\ w.op \in {"collection", "rehome"} =>
              w.id \in UNION {published.collections[s] : s \in StacServices}
  <1>1. ASSUME NEW i \in Layered
        PROVE  i = <<i[1], i[2]>> /\ i[2] \in LayerKinds /\ i[2] # "stac"
    BY DEF Layered, LayerKinds
  <1>2. CASE w \in [op : {"getOrCreate", "prefer"}, id : Layered, dataset : DOMAIN dataset]
    BY <1>1, <1>2
  <1>3. CASE w \in [op : {"update"}, id : Layered, paint : {r.paint : r \in published.layers}]
    BY <1>1, <1>3
  <1>4. CASE w \in CollectionWrites
    BY <1>4 DEF CollectionWrites
  <1>5. QED
    BY <1>2, <1>3, <1>4 DEF Writes, LayerWrites

\* The first write is done, and the database has what it makes.
LEMMA FirstIsDone ==
  ASSUME WorkFits, Stored, Grow, UNCHANGED published, run.work # <<>>,
         run'.work = Tail(run.work), run'.part = run.part,
         Op.op = "getOrCreate" => /\ Op.id \in DOMAIN distribution'
                                  /\ distribution'[Op.id].dataset = Op.dataset
  PROVE  WorkFits'
  <1> DEFINE rest == Tail(run.work)
  <1>1. run.work \in Seq(Writes)
    BY DEF WorkFits
  <1>2. /\ rest \in Seq(Writes) /\ Len(run.work) \in Nat /\ Len(rest) = Len(run.work) - 1
        /\ \A n \in 1..Len(rest) : rest[n] = run.work[n + 1] /\ n + 1 \in 1..Len(run.work)
        /\ Op = run.work[1]
    BY <1>1, WhatIsNext DEF Op
  <1> HIDE DEF rest
  <1>3. rest \in Seq(Writes')
    BY <1>2, WritesStay DEF Grow
  <1>4. ASSUME NEW n \in 1..Len(rest), rest[n].op \in {"update", "prefer"}
        PROVE  \/ IsMade(rest[n], distribution')
               \/ \E m \in 1..(n - 1) : Makes(rest[m], rest[n])
    <2>1. PICK w : w = rest[n]
      OBVIOUS
    <2>2. w \in Writes /\ w = run.work[n + 1] /\ n + 1 \in 1..Len(run.work)
      BY <1>2, <2>1
    <2>3. w.id[2] # "stac"
      BY <1>4, <2>1, <2>2, WriteFields
    <2>4. IsMade(w, distribution) \/ \E m \in 1..n : Makes(run.work[m], w)
      BY <1>4, <2>1, <2>2 DEF WorkFits, Ordered
    <2>5. CASE IsMade(w, distribution)
      BY <2>1, <2>3, <2>5 DEF IsMade, Grow
    <2>6. CASE \E m \in 1..n : Makes(run.work[m], w)
      <3>1. PICK m \in 1..n : Makes(run.work[m], w)
        BY <2>6
      <3>2. CASE m = 1
        <4>1. Makes(Op, w)
          BY <1>2, <3>1, <3>2
        <4>2. QED
          BY <2>1, <4>1 DEF Makes, IsMade
      <3>3. CASE m # 1
        <4>1. m - 1 \in 1..(n - 1) /\ m - 1 \in 1..Len(rest) /\ (m - 1) + 1 = m
          BY <1>2, <3>3
        <4>2. rest[m - 1] = run.work[m]
          BY <1>2, <4>1
        <4>3. QED
          BY <2>1, <3>1, <4>1, <4>2
      <3>4. QED
        BY <3>2, <3>3
    <2>7. QED
      BY <2>4, <2>5, <2>6
  <1>5. Ordered(rest, distribution')
    BY <1>4 DEF Ordered
  <1>6. ASSUME NEW n \in 1..Len(rest), rest[n].op \in {"collection", "rehome"}
        PROVE  run.part \in StacServices
    BY <1>2, <1>6 DEF WorkFits
  <1>7. run'.work = rest
    BY DEF rest
  <1>8. QED
    BY <1>3, <1>5, <1>6, <1>7 DEF WorkFits

LEMMA NoWork ==
  ASSUME run'.work = <<>>
  PROVE  WorkFits'
  <1>1. <<>> \in Seq(Writes') /\ Len(<<>>) = 0
    OBVIOUS
  <1>2. \A n \in 1..Len(<<>>) : FALSE
    BY <1>1
  <1>3. Ordered(<<>>, distribution')
    BY <1>2 DEF Ordered
  <1>4. QED
    BY <1>1, <1>2, <1>3 DEF WorkFits

\* The kinds of a layer, and the writes it takes.
LEMMA KindsOfLayer ==
  ASSUME NEW r
  PROVE  KindsOf(r) \in Seq(LayerKinds) /\ Len(KindsOf(r)) \in Nat
  <1> DEFINE shown == CASE r.type = "wmts" -> <<"wmts", "wms">>
                        [] r.type = "wms" -> <<"wms">>
                        [] r.type = "geojson" -> <<"geojson">>
                        [] OTHER -> <<>>
             asked == IF r.features THEN <<"features">> ELSE <<>>
  <1>1. shown \in Seq(LayerKinds) /\ asked \in Seq(LayerKinds)
    <2>1. /\ <<"wmts", "wms">> \in Seq(LayerKinds) /\ <<"wms">> \in Seq(LayerKinds)
          /\ <<"geojson">> \in Seq(LayerKinds) /\ <<"features">> \in Seq(LayerKinds)
          /\ <<>> \in Seq(LayerKinds)
      BY DEF LayerKinds
    <2>2. shown \in {<<"wmts", "wms">>, <<"wms">>, <<"geojson">>, <<>>}
      <3>1. CASE r.type = "wmts"
        BY <3>1
      <3>2. CASE r.type = "wms"
        BY <3>2
      <3>3. CASE r.type = "geojson"
        BY <3>3
      <3>4. CASE r.type \notin {"wmts", "wms", "geojson"}
        BY <3>4
      <3>5. QED
        BY <3>1, <3>2, <3>3, <3>4
    <2> HIDE DEF shown
    <2>3. QED
      BY <2>1, <2>2
  <1>2. KindsOf(r) = shown \o asked
    BY DEF KindsOf
  <1> HIDE DEF shown, asked
  <1>3. QED
    BY <1>1, <1>2

LEMMA LayerWorkFits ==
  ASSUME NEW r \in published.layers, NEW d \in DOMAIN dataset
  PROVE  /\ LayerWork(r, d) \in Seq(Writes) /\ Ordered(LayerWork(r, d), distribution)
         /\ \A n \in 1..Len(LayerWork(r, d)) :
              LayerWork(r, d)[n].op \notin {"collection", "rehome"}
  <1> DEFINE kinds == KindsOf(r)
             N == 3 * Len(kinds)
             work == LayerWork(r, d)
             Made(kind) == [op |-> "getOrCreate", id |-> <<r.id, kind>>, dataset |-> d]
             Written(kind) == [op |-> "update", id |-> <<r.id, kind>>, paint |-> r.paint]
             Chosen(kind) == [op |-> "prefer", id |-> <<r.id, kind>>, dataset |-> d]
  <1>1. \A n \in 1..Len(kinds) : kinds[n] \in LayerKinds
    BY KindsOfLayer
  <1>2. Len(kinds) \in Nat /\ N \in Nat
    BY KindsOfLayer
  <1>3. ASSUME NEW kind
        PROVE  /\ KindWork(r, d, kind)[1] = Made(kind)
               /\ KindWork(r, d, kind)[2] = Written(kind)
               /\ KindWork(r, d, kind)[3] = Chosen(kind)
    BY DEF KindWork
  <1>4. /\ work = [n \in 1..N |-> KindWork(r, d, kinds[(n + 2) \div 3])[((n - 1) % 3) + 1]]
    BY DEF LayerWork
  <1> HIDE DEF kinds
  <1>5. ASSUME NEW n \in 1..N
        PROVE  \E k \in 1..Len(kinds) : \/ n = 3 * k - 2 /\ work[n] = Made(kinds[k])
                                        \/ n = 3 * k - 1 /\ work[n] = Written(kinds[k])
                                        \/ n = 3 * k /\ work[n] = Chosen(kinds[k])
    <2>1. PICK k : k = (n + 2) \div 3
      OBVIOUS
    <2>2. k \in 1..Len(kinds) /\ n \in {3 * k - 2, 3 * k - 1, 3 * k}
      BY <1>2, <2>1
    <2>3. /\ n = 3 * k - 2 => ((n - 1) % 3) + 1 = 1
          /\ n = 3 * k - 1 => ((n - 1) % 3) + 1 = 2
          /\ n = 3 * k => ((n - 1) % 3) + 1 = 3
      BY <2>2
    <2>4. work[n] = KindWork(r, d, kinds[k])[((n - 1) % 3) + 1]
      BY <1>4, <2>1
    <2> HIDE DEF work, N, Made, Written, Chosen
    <2>5. QED
      BY <1>3, <2>2, <2>3, <2>4
  <1>6. ASSUME NEW kind \in LayerKinds
        PROVE  Made(kind) \in Writes /\ Written(kind) \in Writes /\ Chosen(kind) \in Writes
    <2>1. <<r.id, kind>> \in Layered
      BY DEF Layered
    <2>2. QED
      BY <2>1 DEF Writes, LayerWrites
  <1>7. \A n \in 1..N : work[n] \in Writes /\ work[n].op \notin {"collection", "rehome"}
    <2>1. ASSUME NEW n \in 1..N
          PROVE  work[n] \in Writes /\ work[n].op \notin {"collection", "rehome"}
      <3>1. PICK k \in 1..Len(kinds) : work[n] \in {Made(kinds[k]), Written(kinds[k]),
                                                    Chosen(kinds[k])}
        BY <1>5
      <3>2. \A kind : /\ Made(kind).op = "getOrCreate" /\ Written(kind).op = "update"
                      /\ Chosen(kind).op = "prefer"
        OBVIOUS
      <3> HIDE DEF work, Made, Written, Chosen
      <3>3. QED
        BY <1>1, <1>6, <3>1, <3>2
    <2>2. QED
      BY <2>1
  <1>8. DOMAIN work = 1..N
    BY <1>4
  <1>9. work \in Seq(Writes) /\ Len(work) = N
    <2>1. work \in [1..N -> Writes]
      BY <1>4, <1>7, <1>8
    <2> HIDE DEF work, N
    <2>2. QED
      BY <1>2, <2>1
  <1>10. ASSUME NEW n \in 1..N, work[n].op \in {"update", "prefer"}
         PROVE  \E m \in 1..(n - 1) : Makes(work[m], work[n])
    <2>1. PICK k \in 1..Len(kinds) : \/ n = 3 * k - 2 /\ work[n] = Made(kinds[k])
                                     \/ n = 3 * k - 1 /\ work[n] = Written(kinds[k])
                                     \/ n = 3 * k /\ work[n] = Chosen(kinds[k])
      BY <1>5
    <2>2. n # 3 * k - 2
      BY <1>10, <2>1
    <2>3. 3 * k - 2 \in 1..N /\ 3 * k - 2 \in 1..(n - 1)
      BY <1>2, <2>1, <2>2
    <2>4. PICK j \in 1..Len(kinds) :
                 \/ 3 * k - 2 = 3 * j - 2 /\ work[3 * k - 2] = Made(kinds[j])
                 \/ 3 * k - 2 = 3 * j - 1 /\ work[3 * k - 2] = Written(kinds[j])
                 \/ 3 * k - 2 = 3 * j /\ work[3 * k - 2] = Chosen(kinds[j])
      BY <1>5, <2>3
    <2>5. 3 * k - 2 # 3 * j - 1 /\ 3 * k - 2 # 3 * j /\ (3 * k - 2 = 3 * j - 2 => j = k)
      <3>1. j \in Int /\ k \in Int
        BY <1>2
      <3>2. QED
        BY <3>1
    <2>6. j = k /\ work[3 * k - 2] = Made(kinds[k])
      <3> HIDE DEF work, Made, Written, Chosen
      <3>1. QED
        BY <2>4, <2>5
    <2>7. Makes(Made(kinds[k]), Written(kinds[k])) /\ Makes(Made(kinds[k]), Chosen(kinds[k]))
      BY DEF Makes
    <2>8. QED
      BY <2>1, <2>2, <2>3, <2>6, <2>7
  <1>11. Ordered(work, distribution)
    <2> HIDE DEF work, N
    <2>1. QED
      BY <1>9, <1>10 DEF Ordered
  <1>12. QED
    BY <1>7, <1>9, <1>11

LEMMA CollectionWorkFits ==
  ASSUME NEW s \in StacServices, NEW c \in published.collections[s], NEW work,
         work = <<[op |-> "collection", id |-> c], [op |-> "rehome", id |-> c]>>
  PROVE  work \in Seq(Writes) /\ Ordered(work, distribution)
  <1>1. c \in UNION {published.collections[t] : t \in StacServices}
    OBVIOUS
  <1>2. /\ [op |-> "collection", id |-> c] \in Writes
        /\ [op |-> "rehome", id |-> c] \in Writes
    BY <1>1 DEF Writes, CollectionWrites
  <1>3. /\ work \in Seq(Writes) /\ Len(work) = 2
        /\ work[1].op = "collection" /\ work[2].op = "rehome"
    BY <1>2
  <1>4. Ordered(work, distribution)
    BY <1>3 DEF Ordered
  <1>5. QED
    BY <1>3, <1>4

-----------------------------------------------------------------------------
(***************************************************************************)
(* The command that imports layers or syncs collections.  The orphanage is *)
(* there before a service is entered; a mapping that is found leads to a   *)
(* dataset; and what is not to do any more has been seen.                  *)
(***************************************************************************)
RunFields ==
    {"source", "part", "ahead", "clean", "complete", "input", "lookup", "todo", "work",
     "processed", "cleans", "current", "aggregated"}
AheadFits ==
    /\ run.ahead \in Seq({"distributions", "orphanage"} \cup StacServices)
    /\ \/ Orphanage \in DOMAIN dataset
       \/ run.ahead # <<>> /\ Head(run.ahead) = "orphanage"
       \/ run.ahead \in Seq({"distributions"})
LookupFits == Targets(run.lookup.dataset, DOMAIN dataset)
LayersSeen ==
    \A r \in published.layers :
      \/ r \in run.todo \/ DatasetsFor(r) = {}
      \/ \A n \in DOMAIN KindsOf(r) : <<r.id, KindsOf(r)[n]>> \in run.processed
CollectionsSeen ==
    \/ run.current = "failed" /\ run.todo = {}
    \/ \A c \in published.collections[run.part] : c \in run.todo \/ c \in run.processed
PartFits ==
    /\ run.part = "distributions" =>
         LookupFits /\ run.todo \subseteq published.layers /\ LayersSeen
    /\ run.part \in StacServices =>
         /\ Orphanage \in DOMAIN dataset /\ LookupFits
         /\ run.todo \subseteq published.collections[run.part] /\ CollectionsSeen
RunOk ==
    Running => /\ DOMAIN run = RunFields /\ run.input = published
               /\ AheadFits /\ PartFits /\ WorkFits

MappingsFit == DOMAIN mappings = {"dataset"} /\ mappings.dataset \subseteq MappingRows

LEMMA NoRun ==
  ASSUME run' = Idle
  PROVE  RunOk'
  BY DEF RunOk, Running

\* The fields of the command after the kinds of steps it takes.
LEMMA Entered ==
  ASSUME DOMAIN run = RunFields, NEW part, NEW cleans, NEW lookup, NEW todo,
         Enter(part, cleans, lookup, todo)
  PROVE  /\ DOMAIN run' = RunFields /\ run'.input = run.input /\ run'.work = run.work
         /\ run'.part = part /\ run'.ahead = Tail(run.ahead) /\ run'.lookup = lookup
         /\ run'.todo = todo /\ run'.processed = {}
  BY DEF Enter, RunFields

LEMMA TakenUp ==
  ASSUME DOMAIN run = RunFields, NEW r, NEW ids, NEW work, TakeUp(r, ids, work)
  PROVE  /\ DOMAIN run' = RunFields /\ run'.input = run.input /\ run'.part = run.part
         /\ run'.ahead = run.ahead /\ run'.lookup = run.lookup
         /\ run'.todo = run.todo \ {r} /\ run'.processed = run.processed \cup ids
         /\ run'.work = work /\ UNCHANGED tables
  BY DEF TakeUp, RunFields

SameRun ==
    /\ DOMAIN run' = RunFields /\ run'.input = run.input /\ run'.part = run.part
    /\ run'.ahead = run.ahead /\ run'.lookup = run.lookup /\ run'.todo = run.todo
    /\ run'.processed = run.processed /\ run'.current = run.current

LEMMA WorkChanges ==
  ASSUME DOMAIN run = RunFields, NEW work, run' = [run EXCEPT !.work = work]
  PROVE  SameRun /\ run'.work = work
  BY DEF SameRun, RunFields

SameDatasets ==
    /\ DOMAIN dataset' = DOMAIN dataset
    /\ \A d \in DOMAIN dataset : dataset'[d].source = dataset[d].source

LEMMA SameDatasetsFor ==
  ASSUME SameDatasets, run'.lookup = run.lookup, NEW r
  PROVE  DatasetsFor(r)' = DatasetsFor(r)
  <1>1. RowsOf(dataset, Bod)' = RowsOf(dataset, Bod)
    BY DEF RowsOf, SameDatasets
  <1>2. LayerMapping(r)' = LayerMapping(r)
    BY DEF LayerMapping
  <1>3. QED
    BY <1>1, <1>2 DEF DatasetsFor

\* A write, or a step of a cleanup.
LEMMA RunGoesOn ==
  ASSUME RunOk, Running, UNCHANGED published, SameDatasets, SameRun, WorkFits'
  PROVE  RunOk'
  <1>1. DOMAIN run = RunFields /\ run.input = published /\ AheadFits /\ PartFits
    BY DEF RunOk
  <1>2. AheadFits'
    BY <1>1 DEF AheadFits, SameRun, SameDatasets
  <1>3. LookupFits => LookupFits'
    BY DEF LookupFits, SameRun, SameDatasets
  <1>4. LayersSeen => LayersSeen'
    <2>1. \A r : DatasetsFor(r)' = DatasetsFor(r)
      BY SameDatasetsFor DEF SameRun
    <2>2. QED
      BY <2>1 DEF LayersSeen, SameRun
  <1>5. CollectionsSeen => CollectionsSeen'
    BY DEF CollectionsSeen, SameRun
  <1>6. PartFits'
    BY <1>1, <1>3, <1>4, <1>5 DEF PartFits, SameRun, SameDatasets
  <1>7. DOMAIN run' = RunFields /\ run'.input = published'
    BY <1>1 DEF SameRun
  <1>8. QED
    BY <1>2, <1>6, <1>7 DEF RunOk

LEMMA AheadGoesOn ==
  ASSUME AheadFits, run.ahead # <<>>, Head(run.ahead) # "orphanage", run'.ahead = Tail(run.ahead),
         DOMAIN dataset' = DOMAIN dataset
  PROVE  AheadFits'
  <1>1. run.ahead \in Seq({"distributions", "orphanage"} \cup StacServices)
    BY DEF AheadFits
  <1>2. Tail(run.ahead) \in Seq({"distributions", "orphanage"} \cup StacServices)
    BY <1>1, WhatIsNext
  <1>3. run.ahead \in Seq({"distributions"}) => Tail(run.ahead) \in Seq({"distributions"})
    BY WhatIsNext
  <1>4. QED
    BY <1>2, <1>3 DEF AheadFits

LEMMA LayersEntered ==
  ASSUME Stored, MappingsFit, RunOk, EnterLayers, UNCHANGED published
  PROVE  Stored' /\ RunOk'
  <1>1. /\ Running /\ run.work = <<>> /\ run.ahead # <<>> /\ Head(run.ahead) = "distributions"
        /\ UNCHANGED tables
    BY DEF EnterLayers, Entering, PartEnded, Ended
  <1>2. PICK t \in Tables(mappings.dataset, DOMAIN dataset) :
          Enter("distributions", <<>>, [dataset |-> t],
                IF WebKinds \subseteq DOMAIN dataservice THEN run.input.layers ELSE {})
    BY DEF EnterLayers
  <1>3. DOMAIN run = RunFields /\ run.input = published /\ AheadFits
    BY <1>1 DEF RunOk
  <1>4. WebKinds \subseteq DOMAIN dataservice
    BY DEF Stored, Services
  <1>5. Enter("distributions", <<>>, [dataset |-> t], published.layers)
    BY <1>2, <1>3, <1>4
  <1>6. /\ DOMAIN run' = RunFields /\ run'.input = run.input /\ run'.work = <<>>
        /\ run'.part = "distributions" /\ run'.ahead = Tail(run.ahead)
        /\ run'.lookup = [dataset |-> t] /\ run'.todo = published.layers
    BY <1>1, <1>3, <1>5, Entered
  <1>7. Stored' /\ DOMAIN dataset' = DOMAIN dataset
    BY <1>1, NothingSaved DEF tables
  <1>8. AheadFits'
    BY <1>1, <1>3, <1>6, <1>7, AheadGoesOn
  <1>9. LookupFits'
    <2>1. \A m \in mappings.dataset : m.prefix \in Prefixes
      BY ViewerAssumption DEF MappingsFit
    <2>2. Targets(t, DOMAIN dataset)
      BY <2>1, TablesTarget
    <2>3. QED
      BY <1>6, <1>7, <2>2 DEF LookupFits
  <1>10. LayersSeen'
    BY <1>6 DEF LayersSeen
  <1>11. PartFits'
    BY <1>6, <1>9, <1>10, ViewerAssumption DEF PartFits
  <1>12. WorkFits'
    BY <1>6, NoWork
  <1>13. QED
    BY <1>3, <1>6, <1>7, <1>8, <1>11, <1>12 DEF RunOk

LEMMA OrphanageEntered ==
  ASSUME Stored, RunOk, EnterOrphanage, UNCHANGED published
  PROVE  Stored' /\ RunOk'
  <1>1. /\ Running /\ run.work = <<>> /\ run.ahead # <<>>
        /\ Enter("orphanage", <<>>, <<>>, {})
        /\ \/ Orphanage \in DOMAIN dataset /\ UNCHANGED tables
           \/ SaveDataset(Orphanage, DatasetRow("user-input", {}, "ours"))
    BY DEF EnterOrphanage, PartEnded, Ended
  <1>2. DOMAIN run = RunFields /\ run.input = published /\ AheadFits
    BY <1>1 DEF RunOk
  <1>3. /\ DOMAIN run' = RunFields /\ run'.input = run.input /\ run'.work = <<>>
        /\ run'.part = "orphanage" /\ run'.ahead = Tail(run.ahead)
    BY <1>1, <1>2, Entered
  <1>4. Stored' /\ Orphanage \in DOMAIN dataset'
    <2>1. CASE Orphanage \in DOMAIN dataset /\ UNCHANGED tables
      BY <2>1, NothingSaved DEF tables
    <2>2. CASE SaveDataset(Orphanage, DatasetRow("user-input", {}, "ours"))
      BY <2>2, DatasetAdded
    <2>3. QED
      BY <1>1, <2>1, <2>2
  <1>5. AheadFits'
    <2>1. Tail(run.ahead) \in Seq({"distributions", "orphanage"} \cup StacServices)
      BY <1>1, <1>2, WhatIsNext DEF AheadFits
    <2>2. QED
      BY <1>3, <1>4, <2>1 DEF AheadFits
  <1>6. PartFits'
    BY <1>3, ViewerAssumption DEF PartFits
  <1>7. WorkFits'
    BY <1>3, NoWork
  <1>8. QED
    BY <1>2, <1>3, <1>4, <1>5, <1>6, <1>7 DEF RunOk

LEMMA ServiceEntered ==
  ASSUME Stored, MappingsFit, RunOk, EnterService, UNCHANGED published
  PROVE  Stored' /\ RunOk'
  <1>1. PICK s \in StacServices :
          /\ Entering(s)
          /\ \E t \in Tables(mappings.dataset, DOMAIN dataset) :
               Enter(s, <<>>, [dataset |-> t], run.input.collections[s])
    BY DEF EnterService
  <1>2. PICK t \in Tables(mappings.dataset, DOMAIN dataset) :
          Enter(s, <<>>, [dataset |-> t], run.input.collections[s])
    BY <1>1
  <1>3. /\ Running /\ run.work = <<>> /\ run.ahead # <<>> /\ Head(run.ahead) = s
        /\ UNCHANGED tables
    BY <1>1 DEF Entering, PartEnded, Ended
  <1>4. DOMAIN run = RunFields /\ run.input = published /\ AheadFits
    BY <1>3 DEF RunOk
  <1>5. /\ DOMAIN run' = RunFields /\ run'.input = run.input /\ run'.work = <<>>
        /\ run'.part = s /\ run'.ahead = Tail(run.ahead)
        /\ run'.lookup = [dataset |-> t] /\ run'.todo = published.collections[s]
    BY <1>2, <1>3, <1>4, Entered
  <1>6. Stored' /\ DOMAIN dataset' = DOMAIN dataset
    BY <1>3, NothingSaved DEF tables
  <1>7. s \notin {"start", "orphanage", "distributions"}
    BY ViewerAssumption
  <1>8. Orphanage \in DOMAIN dataset /\ AheadFits'
    <2>1. run.ahead \notin Seq({"distributions"})
      BY <1>3, <1>7, WhatIsNext
    <2>2. AheadFits'
      BY <1>3, <1>4, <1>5, <1>6, <1>7, AheadGoesOn
    <2>3. QED
      BY <1>3, <1>4, <1>7, <2>1, <2>2 DEF AheadFits
  <1>9. LookupFits'
    <2>1. \A m \in mappings.dataset : m.prefix \in Prefixes
      BY ViewerAssumption DEF MappingsFit
    <2>2. Targets(t, DOMAIN dataset)
      BY <2>1, TablesTarget
    <2>3. QED
      BY <1>5, <1>6, <2>2 DEF LookupFits
  <1>10. CollectionsSeen'
    BY <1>5 DEF CollectionsSeen
  <1>11. PartFits'
    BY <1>5, <1>6, <1>7, <1>8, <1>9, <1>10 DEF PartFits
  <1>12. WorkFits'
    BY <1>5, NoWork
  <1>13. QED
    BY <1>4, <1>5, <1>6, <1>8, <1>11, <1>12 DEF RunOk

\* A record is taken up.
LEMMA RunTakesUp ==
  ASSUME Stored, RunOk, Running, UNCHANGED published, NEW r \in run.todo, NEW ids, NEW work,
         TakeUp(r, ids, work), work \in Seq(Writes), Ordered(work, distribution),
         \A n \in 1..Len(work) :
           work[n].op \in {"collection", "rehome"} => run.part \in StacServices,
         run.part = "distributions" =>
           \/ DatasetsFor(r) = {}
           \/ \A n \in DOMAIN KindsOf(r) : <<r.id, KindsOf(r)[n]>> \in ids,
         run.part \in StacServices => r \in ids
  PROVE  Stored' /\ RunOk'
  <1>1. DOMAIN run = RunFields /\ run.input = published /\ AheadFits /\ PartFits
    BY DEF RunOk
  <1>2. /\ DOMAIN run' = RunFields /\ run'.input = run.input /\ run'.part = run.part
        /\ run'.ahead = run.ahead /\ run'.lookup = run.lookup
        /\ run'.todo = run.todo \ {r} /\ run'.processed = run.processed \cup ids
        /\ run'.work = work /\ UNCHANGED tables
    BY <1>1, TakenUp
  <1>3. Stored' /\ UNCHANGED <<dataset, distribution>>
    BY <1>2, NothingSaved DEF tables
  <1>4. AheadFits'
    BY <1>1, <1>2, <1>3 DEF AheadFits
  <1>5. LookupFits => LookupFits'
    BY <1>2, <1>3 DEF LookupFits
  <1>6. (run.part = "distributions" /\ LayersSeen) => LayersSeen'
    <2>1. \A q : DatasetsFor(q)' = DatasetsFor(q)
      BY <1>2, <1>3, SameDatasetsFor DEF SameDatasets
    <2>2. QED
      BY <1>2, <2>1 DEF LayersSeen
  <1>7. (run.part \in StacServices /\ CollectionsSeen) => CollectionsSeen'
    BY <1>2 DEF CollectionsSeen
  <1>8. PartFits'
    BY <1>1, <1>2, <1>3, <1>5, <1>6, <1>7 DEF PartFits
  <1>9. WorkFits'
    <2>1. Writes' = Writes
      BY <1>3 DEF Writes, LayerWrites, CollectionWrites, Layered
    <2>2. QED
      BY <1>2, <1>3, <2>1 DEF WorkFits
  <1>10. QED
    BY <1>1, <1>2, <1>3, <1>4, <1>8, <1>9 DEF RunOk

\* What a mapping leads to is there.
LEMMA MappedToDataset ==
  ASSUME LookupFits, NEW i, NEW use, IsMapped(MatchEnabled(run.lookup.dataset, i, use))
  PROVE  MatchEnabled(run.lookup.dataset, i, use).target \in DOMAIN dataset
  <1>1. /\ IsMapped(Match(run.lookup.dataset, i))
        /\ MatchEnabled(run.lookup.dataset, i, use) = Match(run.lookup.dataset, i)
    BY DEF MatchEnabled, IsMapped, NoMapping
  <1>2. QED
    BY <1>1, MatchTarget DEF LookupFits

LEMMA LayerTakenUp ==
  ASSUME Stored, RunOk, NextLayer, UNCHANGED published
  PROVE  Stored' /\ RunOk'
  <1>1. Running /\ run.part = "distributions"
    BY DEF NextLayer, Ready
  <1>2. LookupFits /\ run.todo \subseteq published.layers /\ run.part \notin StacServices
    BY <1>1, ViewerAssumption DEF RunOk, PartFits
  <1>3. PICK r \in run.todo :
          \/ DatasetsFor(r) = {} /\ TakeUp(r, {}, <<>>)
          \/ \E d \in DatasetsFor(r) : TakeUp(r, LayerIds(r, d), LayerWork(r, d))
    BY DEF NextLayer
  <1>4. CASE DatasetsFor(r) = {} /\ TakeUp(r, {}, <<>>)
    <2>1. /\ <<>> \in Seq(Writes) /\ Ordered(<<>>, distribution)
          /\ \A n \in 1..Len(<<>>) : FALSE
      BY DEF Ordered
    <2>2. QED
      BY <1>1, <1>2, <1>4, <2>1, RunTakesUp
  <1>5. CASE \E d \in DatasetsFor(r) : TakeUp(r, LayerIds(r, d), LayerWork(r, d))
    <2>1. PICK d \in DatasetsFor(r) : TakeUp(r, LayerIds(r, d), LayerWork(r, d))
      BY <1>5
    <2>2. d \in DOMAIN dataset
      <3>1. IsMapped(LayerMapping(r)) => LayerMapping(r).target \in DOMAIN dataset
        BY <1>2, MappedToDataset DEF LayerMapping
      <3>2. QED
        BY <3>1 DEF DatasetsFor, RowsOf
    <2>3. /\ LayerWork(r, d) \in Seq(Writes) /\ Ordered(LayerWork(r, d), distribution)
          /\ \A n \in 1..Len(LayerWork(r, d)) :
               LayerWork(r, d)[n].op \notin {"collection", "rehome"}
      BY <1>2, <2>2, LayerWorkFits
    <2>4. \A n \in DOMAIN KindsOf(r) : <<r.id, KindsOf(r)[n]>> \in LayerIds(r, d)
      BY DEF LayerIds
    <2>5. QED
      BY <1>1, <1>2, <2>1, <2>3, <2>4, RunTakesUp
  <1>6. QED
    BY <1>3, <1>4, <1>5

LEMMA CollectionTaken ==
  ASSUME Stored, RunOk, NextCollection, UNCHANGED published
  PROVE  Stored' /\ RunOk'
  <1>1. Running /\ run.part \in StacServices /\ run.part # "distributions"
    BY ViewerAssumption DEF NextCollection, InService
  <1>2. run.todo \subseteq published.collections[run.part]
    BY <1>1 DEF RunOk, PartFits
  <1>3. PICK c \in run.todo :
          TakeUp(c, {c}, <<[op |-> "collection", id |-> c], [op |-> "rehome", id |-> c]>>)
    BY DEF NextCollection
  <1>4. PICK work : work = <<[op |-> "collection", id |-> c], [op |-> "rehome", id |-> c]>>
    OBVIOUS
  <1>5. work \in Seq(Writes) /\ Ordered(work, distribution)
    BY <1>1, <1>2, <1>4, CollectionWorkFits
  <1>6. QED
    BY <1>1, <1>3, <1>4, <1>5, RunTakesUp

-----------------------------------------------------------------------------
(***************************************************************************)
(* The writes, one lemma for each.                                         *)
(***************************************************************************)
\* The write at hand.
LEMMA AtHand ==
  ASSUME RunOk, NEW op, Doing(op)
  PROVE  /\ Running /\ WorkFits /\ DOMAIN run = RunFields /\ run.work # <<>>
         /\ Op \in Writes /\ Op.op = op
         /\ op \in {"update", "prefer"} => IsMade(Op, distribution)
         /\ op \in {"collection", "rehome"} => run.part \in StacServices
  <1>1. Running /\ WorkFits /\ DOMAIN run = RunFields /\ run.work # <<>> /\ Op.op = op
    BY DEF Doing, Op, RunOk
  <1>2. run.work \in Seq(Writes)
    BY <1>1 DEF WorkFits
  <1>3. Op = run.work[1] /\ Op \in Writes /\ 1 \in 1..Len(run.work)
    BY <1>1, <1>2, WhatIsNext DEF Op
  <1>4. \A m \in 1..(1 - 1) : FALSE
    OBVIOUS
  <1>5. op \in {"update", "prefer"} => IsMade(Op, distribution)
    BY <1>1, <1>3, <1>4 DEF WorkFits, Ordered
  <1>6. QED
    BY <1>1, <1>3, <1>5 DEF WorkFits

\* Where a write is done and the tables are as they should be, the command goes on.
LEMMA WriteDone ==
  ASSUME RunOk, Stored, NEW op, Doing(op), Done, UNCHANGED published, Grow, SameDatasets,
         op = "getOrCreate" => /\ Op.id \in DOMAIN distribution'
                               /\ distribution'[Op.id].dataset = Op.dataset
  PROVE  RunOk'
  <1>1. /\ Running /\ WorkFits /\ DOMAIN run = RunFields /\ run.work # <<>> /\ Op.op = op
    BY AtHand
  <1>2. SameRun /\ run'.work = Tail(run.work)
    BY <1>1, WorkChanges DEF Done
  <1>3. WorkFits'
    BY <1>1, <1>2, FirstIsDone DEF SameRun
  <1>4. QED
    BY <1>1, <1>2, <1>3, RunGoesOn

LEMMA DistributionWritten ==
  ASSUME RunOk, Stored, NEW op, Doing(op), Done, UNCHANGED published, NEW new, NEW x,
         SaveDistributions(new), DOMAIN new = DOMAIN distribution \cup {x},
         \A y \in DOMAIN distribution \ {x} : new[y] = distribution[y],
         Whole(x, new[x], DOMAIN dataset),
         (x \in DOMAIN distribution /\ x[2] # "stac") => new[x].dataset = distribution[x].dataset,
         op = "getOrCreate" => x = Op.id /\ new[x].dataset = Op.dataset
  PROVE  Stored' /\ RunOk'
  <1>1. Stored' /\ Grow
    BY DistributionSaved
  <1>2. distribution' = new /\ SameDatasets
    BY DEF SaveDistributions, SameDatasets
  <1>3. QED
    BY <1>1, <1>2, WriteDone

LEMMA NothingWritten ==
  ASSUME RunOk, Stored, NEW op, Doing(op), Done, UNCHANGED <<published, tables>>,
         op = "getOrCreate" => /\ Op.id \in DOMAIN distribution
                               /\ distribution[Op.id].dataset = Op.dataset
  PROVE  Stored' /\ RunOk'
  <1>1. Stored' /\ Grow
    BY NothingSaved
  <1>2. UNCHANGED distribution /\ SameDatasets
    BY DEF tables, SameDatasets
  <1>3. QED
    BY <1>1, <1>2, WriteDone

LEMMA NewRow ==
  ASSUME NEW source, NEW topic, NEW d, NEW s
  PROVE  LET row == DistributionRow(source, {}, topic, d, s)
         IN  /\ DOMAIN row = DistributionColumns /\ row.source = source /\ row.topic = topic
             /\ row.dataset = d /\ row.dataservice = s
  BY DEF DistributionRow, DistributionColumns

LEMMA GotOrCreated ==
  ASSUME RunOk, Stored, GetOrCreate, UNCHANGED published
  PROVE  Stored' /\ RunOk'
  <1>1. PICK x, d : x = Op.id /\ d = Op.dataset
    OBVIOUS
  <1>2. Doing("getOrCreate")
    BY DEF GetOrCreate
  <1>3. Op \in Writes /\ Op.op = "getOrCreate"
    BY <1>2, AtHand
  <1>4. x = <<x[1], x[2]>> /\ x[2] # "stac" /\ d \in DOMAIN dataset
    BY <1>1, <1>3, WriteFields
  <1>5. PICK new : new = [DistributionRow(None, {}, x[1], d, None) EXCEPT
                            !.paint = IF x[2] \in {"wms", "wmts"} THEN Plain ELSE None]
    OBVIOUS
  <1>6. \/ x \notin DOMAIN distribution /\ Done /\ SaveDistributions(Put(distribution, x, new))
        \/ /\ x \in DOMAIN distribution /\ distribution[x].dataset = d
           /\ Done /\ UNCHANGED tables
        \/ Raise
    BY <1>1, <1>5 DEF GetOrCreate
  <1>7. CASE x \notin DOMAIN distribution /\ Done /\ SaveDistributions(Put(distribution, x, new))
    <2>1. PICK old : old = DistributionRow(None, {}, x[1], d, None)
      OBVIOUS
    <2>2. /\ DOMAIN old = DistributionColumns /\ old.source = None /\ old.dataset = d
          /\ old.dataservice = None
      BY <2>1, NewRow
    <2>3. /\ DOMAIN new = DistributionColumns /\ new.source = None /\ new.dataset = d
          /\ new.dataservice = None
      BY <1>5, <2>1, <2>2 DEF DistributionColumns
    <2>4. Whole(x, new, DOMAIN dataset)
      BY <1>4, <2>3 DEF Whole
    <2>5. PICK all : all = Put(distribution, x, new)
      OBVIOUS
    <2>6. /\ DOMAIN all = DOMAIN distribution \cup {x} /\ all[x] = new
          /\ \A y \in DOMAIN distribution \ {x} : all[y] = distribution[y]
      BY <2>5 DEF Put
    <2>7. QED
      BY <1>1, <1>2, <1>7, <2>3, <2>4, <2>5, <2>6, DistributionWritten
  <1>8. CASE /\ x \in DOMAIN distribution /\ distribution[x].dataset = d
             /\ Done /\ UNCHANGED tables
    BY <1>1, <1>2, <1>8, NothingWritten
  <1>9. CASE Raise
    BY <1>9, NothingSaved, NoRun DEF Raise
  <1>10. QED
    BY <1>6, <1>7, <1>8, <1>9

LEMMA DistributionUpdated ==
  ASSUME RunOk, Stored, UpdateDistribution, UNCHANGED published
  PROVE  Stored' /\ RunOk'
  <1>1. PICK x, paint : x = Op.id /\ paint = Paint(x, Op.paint)
    OBVIOUS
  <1>2. Doing("update") /\ Done
    BY DEF UpdateDistribution
  <1>3. Op \in Writes /\ Op.op = "update" /\ x \in DOMAIN distribution
    BY <1>1, <1>2, AtHand DEF IsMade
  <1>4. x[2] # "stac"
    BY <1>1, <1>3, WriteFields
  <1>5. PICK new : new = [distribution EXCEPT
                           ![x].source = LayersJS, ![x].paint = paint,
                           ![x].dataservice = IF x[2] \in WebKinds THEN x[2] ELSE None]
    OBVIOUS
  <1>6. SaveDistributions(new)
    BY <1>1, <1>5 DEF UpdateDistribution
  <1>7. PICK old, row : old = distribution[x] /\ row = new[x]
    OBVIOUS
  <1>8. row = [old EXCEPT !.source = LayersJS, !.paint = paint,
                          !.dataservice = IF x[2] \in WebKinds THEN x[2] ELSE None]
    BY <1>3, <1>5, <1>7
  <1>9. Whole(x, old, DOMAIN dataset)
    BY <1>3, <1>7 DEF Stored, AllWhole
  <1>10. /\ DOMAIN row = DistributionColumns /\ row.source = LayersJS /\ row.dataset = old.dataset
         /\ row.dataservice = (IF x[2] \in WebKinds THEN x[2] ELSE None)
    BY <1>8, <1>9 DEF Whole, DistributionColumns
  <1>11. Whole(x, row, DOMAIN dataset)
    BY <1>4, <1>9, <1>10 DEF Whole, Services
  <1>12. /\ DOMAIN new = DOMAIN distribution \cup {x}
         /\ \A y \in DOMAIN distribution \ {x} : new[y] = distribution[y]
    BY <1>3, <1>5
  <1>13. QED
    BY <1>2, <1>6, <1>7, <1>10, <1>11, <1>12, DistributionWritten

LEMMA DistributionPreferred ==
  ASSUME RunOk, Stored, PreferDistribution, UNCHANGED published
  PROVE  Stored' /\ RunOk'
  <1>1. PICK x, d : x = Op.id /\ d = Op.dataset
    OBVIOUS
  <1>2. Doing("prefer") /\ Done
    BY DEF PreferDistribution
  <1>3. /\ Op \in Writes /\ Op.op = "prefer" /\ x \in DOMAIN distribution
        /\ distribution[x].dataset = d
    BY <1>1, <1>2, AtHand DEF IsMade
  <1>4. x[2] # "stac" /\ d \in DOMAIN dataset
    BY <1>1, <1>3, WriteFields
  <1>5. PICK old, row : old = dataset[d] /\ row = [old EXCEPT !.preferred = Preferred(d, x)]
    OBVIOUS
  <1>6. SaveDataset(d, row)
    BY <1>1, <1>5 DEF PreferDistribution
  <1>7. /\ DOMAIN old = DatasetColumns
        /\ old.preferred # None => /\ old.preferred \in DOMAIN distribution
                                   /\ distribution[old.preferred].dataset = d
                                   /\ old.preferred[2] # "stac"
    BY <1>4, <1>5 DEF Stored, Preferring
  <1>8. Preferred(d, x) \in {x, old.preferred}
    BY <1>5 DEF Preferred
  <1>9. DOMAIN row = DatasetColumns /\ row.preferred = Preferred(d, x) /\ row.source = old.source
    BY <1>5, <1>7 DEF DatasetColumns
  <1>10. Stored' /\ Grow
    BY <1>3, <1>4, <1>6, <1>7, <1>8, <1>9, DatasetSaved
  <1>11. SameDatasets
    BY <1>4, <1>5, <1>6, <1>9 DEF SameDatasets, SaveDataset, SaveDatasets, Put
  <1>12. QED
    BY <1>2, <1>10, <1>11, WriteDone

\* A service whose sync fails is left.
LEMMA ServiceFailed ==
  ASSUME RunOk, Stored, Running, run.part \in StacServices, run' = Failed,
         UNCHANGED <<published, tables>>
  PROVE  Stored' /\ RunOk'
  <1>1. DOMAIN run = RunFields /\ run.input = published /\ AheadFits /\ PartFits
    BY DEF RunOk
  <1>2. /\ DOMAIN run' = RunFields /\ run'.input = run.input /\ run'.part = run.part
        /\ run'.ahead = run.ahead /\ run'.lookup = run.lookup /\ run'.todo = {}
        /\ run'.work = <<>> /\ run'.current = "failed"
    BY <1>1 DEF Failed, RunFields
  <1>3. Stored' /\ UNCHANGED dataset
    BY NothingSaved DEF tables
  <1>4. AheadFits'
    BY <1>1, <1>2, <1>3 DEF AheadFits
  <1>5. PartFits'
    <2>1. run.part # "distributions"
      BY ViewerAssumption
    <2>2. LookupFits'
      BY <1>1, <1>2, <1>3 DEF PartFits, LookupFits
    <2>3. CollectionsSeen'
      BY <1>2 DEF CollectionsSeen
    <2>4. QED
      BY <1>1, <1>2, <1>3, <2>1, <2>2, <2>3 DEF PartFits
  <1>6. WorkFits'
    BY <1>2, NoWork
  <1>7. QED
    BY <1>1, <1>2, <1>3, <1>4, <1>5, <1>6 DEF RunOk

LEMMA DistributionCreated ==
  ASSUME RunOk, Stored, CreateDistribution, UNCHANGED published
  PROVE  Stored' /\ RunOk'
  <1>1. Doing("collection")
    BY DEF CreateDistribution
  <1>2. /\ Running /\ DOMAIN run = RunFields /\ run.part \in StacServices
    BY <1>1, AtHand
  <1>3. PICK x, d : x = Collection(Op.id) /\ d = DatasetFor(Op.id)
    OBVIOUS
  <1>4. PICK new : new = DistributionRow(Capabilities, {}, Op.id, d, run.part)
    OBVIOUS
  <1>5. \/ /\ x \notin DOMAIN distribution /\ run' = [run EXCEPT !.work = <<>>]
           /\ SaveDistributions(Put(distribution, x, new))
        \/ run' = Failed /\ UNCHANGED tables
    BY <1>3, <1>4 DEF CreateDistribution
  <1>6. CASE /\ x \notin DOMAIN distribution /\ run' = [run EXCEPT !.work = <<>>]
             /\ SaveDistributions(Put(distribution, x, new))
    <2>1. d \in DOMAIN dataset
      <3>1. LookupFits /\ Orphanage \in DOMAIN dataset
        BY <1>2 DEF RunOk, PartFits
      <3>2. IsMapped(CollectionMapping(Op.id)) => CollectionMapping(Op.id).target \in DOMAIN dataset
        BY <3>1, MappedToDataset DEF CollectionMapping
      <3>3. QED
        BY <1>3, <3>1, <3>2 DEF DatasetFor
    <2>2. x = <<x[1], x[2]>> /\ x[2] = "stac" /\ x[1] = Op.id
      BY <1>3 DEF Collection
    <2>3. Whole(x, new, DOMAIN dataset)
      BY <1>2, <1>4, <2>1, <2>2, NewRow DEF Whole, Services
    <2>4. PICK all : all = Put(distribution, x, new)
      OBVIOUS
    <2>5. /\ DOMAIN all = DOMAIN distribution \cup {x} /\ all[x] = new
          /\ \A y \in DOMAIN distribution \ {x} : all[y] = distribution[y]
      BY <2>4 DEF Put
    <2>6. Stored' /\ SameDatasets
      BY <1>6, <2>2, <2>3, <2>4, <2>5, DistributionSaved DEF SaveDistributions, SameDatasets
    <2>7. SameRun /\ run'.work = <<>>
      BY <1>2, <1>6, WorkChanges
    <2>8. QED
      BY <1>2, <2>6, <2>7, NoWork, RunGoesOn
  <1>7. CASE run' = Failed /\ UNCHANGED tables
    BY <1>2, <1>7, ServiceFailed
  <1>8. QED
    BY <1>5, <1>6, <1>7

\* A distribution of a collection moves to another dataset.
LEMMA DistributionMoved ==
  ASSUME RunOk, Stored, NEW op, Doing(op), Done, op # "getOrCreate", UNCHANGED published,
         NEW c, NEW x \in DistributionsOf(c), NEW d \in DOMAIN dataset,
         SaveDistributions([distribution EXCEPT ![x].dataset = d])
  PROVE  Stored' /\ RunOk'
  <1>1. x \in DOMAIN distribution /\ x[2] = "stac"
    BY DEF DistributionsOf
  <1>2. PICK new : new = [distribution EXCEPT ![x].dataset = d]
    OBVIOUS
  <1>3. PICK old, row : old = distribution[x] /\ row = new[x]
    OBVIOUS
  <1>4. row = [old EXCEPT !.dataset = d]
    BY <1>1, <1>2, <1>3
  <1>5. Whole(x, old, DOMAIN dataset)
    BY <1>1, <1>3 DEF Stored, AllWhole
  <1>6. Whole(x, row, DOMAIN dataset)
    BY <1>4, <1>5 DEF Whole, DistributionColumns
  <1>7. /\ DOMAIN new = DOMAIN distribution \cup {x}
        /\ \A y \in DOMAIN distribution \ {x} : new[y] = distribution[y]
    BY <1>1, <1>2
  <1>8. QED
    BY <1>1, <1>2, <1>3, <1>6, <1>7, DistributionWritten

LEMMA MappingFollowed ==
  ASSUME RunOk, Stored, FollowMapping, UNCHANGED published
  PROVE  Stored' /\ RunOk'
  <1>1. Doing("collection") /\ Done
    BY DEF FollowMapping
  <1>2. Running /\ run.part \in StacServices
    BY <1>1, AtHand
  <1>3. PICK m : m = CollectionMapping(Op.id)
    OBVIOUS
  <1>4. PICK x \in DistributionsOf(Op.id) :
          IF IsMapped(m) /\ m.update
          THEN SaveDistributions([distribution EXCEPT ![x].dataset = m.target])
          ELSE UNCHANGED tables
    BY <1>3 DEF FollowMapping
  <1>5. IsMapped(m) => m.target \in DOMAIN dataset
    BY <1>2, <1>3, MappedToDataset DEF RunOk, PartFits, CollectionMapping
  <1>6. CASE IsMapped(m) /\ m.update
    BY <1>1, <1>4, <1>5, <1>6, DistributionMoved
  <1>7. CASE ~(IsMapped(m) /\ m.update)
    BY <1>1, <1>4, <1>7, NothingWritten
  <1>8. QED
    BY <1>6, <1>7

LEMMA OrphanageLeft ==
  ASSUME RunOk, Stored, LeaveOrphanage, UNCHANGED published
  PROVE  Stored' /\ RunOk'
  <1>1. Doing("rehome") /\ Done
    BY DEF LeaveOrphanage
  <1>2. PICK i : i = Op.id
    OBVIOUS
  <1>3. PICK x \in DistributionsOf(i) :
          IF distribution[x].dataset = Orphanage /\ i \in DOMAIN dataset
          THEN SaveDistributions([distribution EXCEPT ![x].dataset = i])
          ELSE UNCHANGED tables
    BY <1>2 DEF LeaveOrphanage
  <1>4. CASE distribution[x].dataset = Orphanage /\ i \in DOMAIN dataset
    BY <1>1, <1>3, <1>4, DistributionMoved
  <1>5. CASE ~(distribution[x].dataset = Orphanage /\ i \in DOMAIN dataset)
    BY <1>1, <1>3, <1>5, NothingWritten
  <1>6. QED
    BY <1>4, <1>5

\* A step of a cleanup.
LEMMA DistributionCleaned ==
  ASSUME RunOk, Stored, Ended, UNCHANGED <<run, published>>, NEW x, DeleteDistributions({x})
  PROVE  Stored' /\ RunOk'
  <1>1. Running /\ run.work = <<>> /\ DOMAIN run = RunFields
    BY DEF Ended, RunOk
  <1>2. Stored' /\ SameDatasets
    BY DistributionDeleted DEF SameDatasets
  <1>3. SameRun
    BY <1>1 DEF SameRun
  <1>4. QED
    BY <1>1, <1>2, <1>3, NoWork, RunGoesOn

LEMMA StepKeeps ==
  ASSUME Stored, MappingsFit, RunOk, LayerStep \/ StacStep, UNCHANGED published
  PROVE  Stored' /\ RunOk' /\ UNCHANGED mappings
  <1>1. UNCHANGED mappings
    BY DEF LayerStep, StacStep, EnterLayers, NextLayer, GetOrCreate, UpdateDistribution,
           PreferDistribution, CleanDistribution, EnterOrphanage, EnterService, NextCollection,
           CreateDistribution, FollowMapping, LeaveOrphanage, CleanUnlisted, FailService
  <1>2. CASE LayerStep
    <2>1. CASE EnterLayers
      BY <1>1, <2>1, LayersEntered
    <2>2. CASE NextLayer
      BY <1>1, <2>2, LayerTakenUp
    <2>3. CASE GetOrCreate
      BY <1>1, <2>3, GotOrCreated
    <2>4. CASE UpdateDistribution
      BY <1>1, <2>4, DistributionUpdated
    <2>5. CASE PreferDistribution
      BY <1>1, <2>5, DistributionPreferred
    <2>6. CASE CleanDistribution
      BY <1>1, <2>6, DistributionCleaned DEF CleanDistribution
    <2>7. QED
      BY <1>2, <2>1, <2>2, <2>3, <2>4, <2>5, <2>6 DEF LayerStep
  <1>3. CASE StacStep
    <2>1. CASE EnterOrphanage
      BY <1>1, <2>1, OrphanageEntered
    <2>2. CASE EnterService
      BY <1>1, <2>2, ServiceEntered
    <2>3. CASE NextCollection
      BY <1>1, <2>3, CollectionTaken
    <2>4. CASE CreateDistribution
      BY <1>1, <2>4, DistributionCreated
    <2>5. CASE FollowMapping
      BY <1>1, <2>5, MappingFollowed
    <2>6. CASE LeaveOrphanage
      BY <1>1, <2>6, OrphanageLeft
    <2>7. CASE CleanUnlisted
      BY <1>1, <2>7, DistributionCleaned DEF CleanUnlisted
    <2>8. CASE FailService
      BY <1>1, <2>8, ServiceFailed DEF FailService, InService
    <2>9. QED
      BY <1>3, <2>1, <2>2, <2>3, <2>4, <2>5, <2>6, <2>7, <2>8 DEF StacStep
  <1>4. QED
    BY <1>1, <1>2, <1>3

-----------------------------------------------------------------------------
(***************************************************************************)
(* The records that have been built are those of the tables as they are:   *)
(* an export that a write overtakes is not followed.                       *)
(***************************************************************************)
RecordsOk ==
    Building =>
      /\ DOMAIN records = {"types", "services", "datasets", "distributions"}
      /\ records.types \in {Types, <<"datasets", "distributions">>, <<"distributions">>, <<>>}
      /\ records.types # Types => records.services = DOMAIN dataservice
      /\ records.types \in {<<"distributions">>, <<>>} => records.datasets = Datasets
      /\ records.types = <<>> => records.distributions = Distributions

LEMMA RecordsStay ==
  ASSUME RecordsOk, UNCHANGED <<tables, records>>
  PROVE  RecordsOk'
  <1>1. Datasets' = Datasets
    BY DEF Datasets, OwnersOf, tables
  <1>2. Distributions' = Distributions
    BY DEF Distributions, FeatureInfo, OfDataset, tables
  <1>3. QED
    BY <1>1, <1>2 DEF RecordsOk, Building, tables

LEMMA RecordsDropped ==
  ASSUME records' = NoRecords
  PROVE  RecordsOk'
  BY DEF RecordsOk, Building

LEMMA RecordsBuilt ==
  ASSUME RecordsOk, StartRecords \/ BuildType \/ EndRecords, UNCHANGED tables
  PROVE  RecordsOk'
  <1>1. Datasets' = Datasets
    BY DEF Datasets, OwnersOf, tables
  <1>2. Distributions' = Distributions
    BY DEF Distributions, FeatureInfo, OfDataset, tables
  <1>3. CASE StartRecords
    <2>1. records' = [types |-> Types, services |-> {}, datasets |-> {}, distributions |-> {}]
      BY <1>3 DEF StartRecords
    <2>2. /\ Types # <<>> /\ Types # <<"distributions">>
      BY DEF Types
    <2>3. QED
      BY <2>1, <2>2 DEF RecordsOk
  <1>4. CASE BuildType
    <2>1. PICK first : first = Head(records.types)
      OBVIOUS
    <2>2. /\ Building /\ records.types # <<>>
          /\ records' = [records EXCEPT !.types = Tail(@),
               !.services = IF first = "services" THEN DOMAIN dataservice ELSE @,
               !.datasets = IF first = "datasets" THEN Datasets ELSE @,
               !.distributions = IF first = "distributions" THEN Distributions ELSE @]
      BY <1>4, <2>1 DEF BuildType
    <2>3. DOMAIN records = {"types", "services", "datasets", "distributions"}
      BY <2>2 DEF RecordsOk
    <2> DEFINE D == Datasets
               X == Distributions
    <2> HIDE DEF D, X
    <2>4. records' = [records EXCEPT !.types = Tail(@),
               !.services = IF first = "services" THEN DOMAIN dataservice ELSE @,
               !.datasets = IF first = "datasets" THEN D ELSE @,
               !.distributions = IF first = "distributions" THEN X ELSE @]
      BY <2>2 DEF D, X
    <2>5. /\ DOMAIN records' = {"types", "services", "datasets", "distributions"}
          /\ records'.types = Tail(records.types)
          /\ records'.services = (IF first = "services" THEN DOMAIN dataservice
                                  ELSE records.services)
          /\ records'.datasets = (IF first = "datasets" THEN D ELSE records.datasets)
          /\ records'.distributions = (IF first = "distributions" THEN X
                                       ELSE records.distributions)
      BY <2>3, <2>4
    <2>6. UNCHANGED dataservice
      BY DEF tables
    <2>7. CASE records.types = Types
      <3>1. first = "services" /\ Tail(records.types) = <<"datasets", "distributions">>
        BY <2>1, <2>7 DEF Types
      <3>2. /\ records'.types # <<"distributions">> /\ records'.types # <<>>
            /\ records'.types = <<"datasets", "distributions">>
        BY <2>5, <3>1
      <3>3. records'.services = DOMAIN dataservice'
        BY <2>5, <2>6, <3>1
      <3>4. QED
        BY <2>5, <3>2, <3>3 DEF RecordsOk
    <2>8. CASE records.types = <<"datasets", "distributions">>
      <3>1. first = "datasets" /\ Tail(records.types) = <<"distributions">>
        BY <2>1, <2>8
      <3>2. records.services = DOMAIN dataservice
        BY <2>2, <2>8 DEF RecordsOk, Types
      <3>3. QED
        BY <1>1, <2>5, <2>6, <3>1, <3>2 DEF RecordsOk, D
    <2>9. CASE records.types = <<"distributions">>
      <3>1. first = "distributions" /\ Tail(records.types) = <<>>
        BY <2>1, <2>9
      <3>2. records.services = DOMAIN dataservice /\ records.datasets = Datasets
        BY <2>2, <2>9 DEF RecordsOk, Types
      <3>3. QED
        BY <1>1, <1>2, <2>5, <2>6, <3>1, <3>2 DEF RecordsOk, X
    <2>10. QED
      BY <2>2, <2>7, <2>8, <2>9 DEF RecordsOk
  <1>5. CASE EndRecords
    BY <1>5, RecordsDropped DEF EndRecords
  <1>6. QED
    BY <1>3, <1>4, <1>5

\* The records of a catalogue that is whole link to each other.
LEMMA WholeCatalogueLinks ==
  ASSUME Stored, RecordsOk
  PROVE  RecordsAreLinked
  <1> SUFFICES ASSUME Building, records.types = <<>>
               PROVE  /\ \A x \in records.distributions :
                           /\ x.dataservice \in records.services \cup {None}
                           /\ \A i \in x.featureinfo :
                                \E y \in records.distributions :
                                  y.id = i /\ y.dataset = x.dataset
                      /\ \A d \in records.datasets :
                           d.preferred # None =>
                             \E x \in records.distributions :
                               x.id = d.preferred /\ x.dataset = d.id
    BY DEF RecordsAreLinked
  <1>1. /\ records.services = DOMAIN dataservice /\ records.datasets = Datasets
        /\ records.distributions = Distributions
    BY DEF RecordsOk, Types
  <1>2. ASSUME NEW i \in DOMAIN distribution
        PROVE  \E y \in Distributions : y.id = i /\ y.dataset = distribution[i].dataset
    <2>1. PICK info, styled : /\ info = FeatureInfo(i)
                              /\ styled = (\/ i[2] \in {"wms", "wmts"}
                                           \/ i[2] = "geojson" /\ distribution[i].paint # None)
      OBVIOUS
    <2>2. PICK y : y = [id |-> i, dataset |-> distribution[i].dataset,
                        dataservice |-> distribution[i].dataservice, featureinfo |-> info,
                        styledBy |-> styled]
      OBVIOUS
    <2>3. y \in Distributions
      BY <2>1, <2>2 DEF Distributions
    <2>4. QED
      BY <2>2, <2>3
  <1>3. ASSUME NEW x \in Distributions
        PROVE  /\ x.dataservice \in DOMAIN dataservice \cup {None}
               /\ \A i \in x.featureinfo :
                    \E y \in Distributions : y.id = i /\ y.dataset = x.dataset
    <2>1. PICK k \in DOMAIN distribution :
            /\ x.dataset = distribution[k].dataset /\ x.featureinfo = FeatureInfo(k)
            /\ x.dataservice = distribution[k].dataservice
      BY DEF Distributions
    <2>2. x.dataservice \in DOMAIN dataservice \cup {None}
      BY <2>1 DEF Stored, AllWhole, Whole
    <2>3. ASSUME NEW i \in FeatureInfo(k)
          PROVE  i \in DOMAIN distribution /\ distribution[i].dataset = distribution[k].dataset
      BY DEF FeatureInfo, OfDataset
    <2>4. QED
      BY <1>2, <2>1, <2>2, <2>3
  <1>4. ASSUME NEW d \in Datasets, d.preferred # None
        PROVE  \E x \in Distributions : x.id = d.preferred /\ x.dataset = d.id
    <2>1. PICK k \in DOMAIN dataset : d.id = k /\ d.preferred = dataset[k].preferred
      BY DEF Datasets
    <2>2. /\ d.preferred \in DOMAIN distribution
          /\ distribution[d.preferred].dataset = k
      BY <1>4, <2>1 DEF Stored, Preferring
    <2>3. QED
      BY <1>2, <2>1, <2>2
  <1>5. QED
    BY <1>1, <1>3, <1>4

-----------------------------------------------------------------------------
(***************************************************************************)
(* The invariant.                                                          *)
(***************************************************************************)
Inv == Stored /\ MappingsFit /\ RunOk /\ RecordsOk

LEMMA InitInv == Init => Inv
  <1> SUFFICES ASSUME Init PROVE Inv
    OBVIOUS
  <1>1. DOMAIN dataservice = Services /\ DOMAIN distribution = {}
    BY DEF Init, Services
  <1>2. ASSUME NEW d \in DOMAIN dataset
        PROVE  DOMAIN dataset[d] = DatasetColumns /\ dataset[d].preferred = None
    <2>1. dataset[d] = NewDataset
      BY DEF Init
    <2>2. QED
      BY <2>1 DEF NewDataset, DatasetRow, DatasetColumns
  <1>3. Stored
    BY <1>1, <1>2 DEF Stored, Preferring, AllWhole
  <1>4. MappingsFit
    BY DEF Init, MappingsFit
  <1>5. RunOk /\ RecordsOk
    BY DEF Init, RunOk, Running, RecordsOk, Building
  <1>6. QED
    BY <1>3, <1>4, <1>5 DEF Inv

\* A command starts with nothing to do but the parts ahead.
LEMMA BeginKeeps ==
  ASSUME Inv, Begin
  PROVE  RunOk'
  <1>1. PICK o \in Options : Start(o.source, o.parts, o.clean, o.clean, published)
    BY DEF Begin
  <1>2. PICK new : new = [source |-> o.source, part |-> "start", ahead |-> o.parts,
                          clean |-> o.clean, complete |-> o.clean, input |-> published,
                          lookup |-> <<>>, todo |-> {}, work |-> <<>>, processed |-> {},
                          cleans |-> <<>>, current |-> None, aggregated |-> {}]
    OBVIOUS
  <1>3. run' = new /\ UNCHANGED <<published, dataset>>
    BY <1>1, <1>2 DEF Start, Begin, tables
  <1>4. /\ DOMAIN new = RunFields /\ new.input = published /\ new.part = "start"
        /\ new.ahead = o.parts /\ new.work = <<>>
    BY <1>2 DEF RunFields
  <1>5. AheadFits'
    <2>1. CASE o.parts = <<"distributions">>
      <3>1. /\ <<"distributions">> \in Seq({"distributions"})
            /\ <<"distributions">> \in Seq({"distributions", "orphanage"} \cup StacServices)
        OBVIOUS
      <3>2. QED
        BY <1>3, <1>4, <2>1, <3>1 DEF AheadFits
    <2>2. CASE /\ o.parts \in Seq({"orphanage"} \cup StacServices) \ {<<>>}
               /\ Head(o.parts) = "orphanage"
      <3>1. o.parts \in Seq({"distributions", "orphanage"} \cup StacServices)
        BY <2>2
      <3>2. QED
        BY <1>3, <1>4, <2>2, <3>1 DEF AheadFits
    <2>3. QED
      BY <2>1, <2>2, ViewerAssumption
  <1>6. PartFits'
    BY <1>3, <1>4, ViewerAssumption DEF PartFits
  <1>7. WorkFits'
    BY <1>3, <1>4, NoWork
  <1>8. QED
    BY <1>3, <1>4, <1>5, <1>6, <1>7 DEF RunOk

\* What other commands and staff do while no import runs.
LEMMA RunUntouched ==
  ASSUME Inv, UNCHANGED <<run, published, tables>>
  PROVE  RunOk'
  <1>1. /\ UNCHANGED <<dataset, distribution, run, published>>
    BY DEF tables
  <1>2. Writes' = Writes
    BY <1>1 DEF Writes, LayerWrites, CollectionWrites, Layered
  <1>3. WorkFits => WorkFits'
    BY <1>1, <1>2 DEF WorkFits
  <1>4. PartFits => PartFits'
    <2>1. \A r : DatasetsFor(r)' = DatasetsFor(r)
      BY <1>1, SameDatasetsFor DEF SameDatasets
    <2>2. LayersSeen => LayersSeen'
      BY <1>1, <2>1 DEF LayersSeen
    <2>3. QED
      BY <1>1, <2>2 DEF PartFits, LookupFits, CollectionsSeen
  <1>5. AheadFits => AheadFits'
    BY <1>1 DEF AheadFits
  <1>6. QED
    BY <1>1, <1>3, <1>4, <1>5 DEF Inv, RunOk, Running

LEMMA EditKeeps ==
  ASSUME MappingsFit, EditMappings
  PROVE  MappingsFit'
  <1>1. PICK m \in MappingRows :
          mappings' = [mappings EXCEPT !.dataset = IF m \in @ THEN @ \ {m} ELSE @ \cup {m}]
    BY DEF EditMappings
  <1>2. PICK old : old = mappings.dataset
    OBVIOUS
  <1>3. /\ DOMAIN mappings' = {"dataset"}
        /\ mappings'.dataset = (IF m \in old THEN old \ {m} ELSE old \cup {m})
    BY <1>1, <1>2 DEF MappingsFit
  <1>4. QED
    BY <1>2, <1>3 DEF MappingsFit

LEMMA Inv_Next ==
  ASSUME Inv, [Next]_vars
  PROVE  Inv'
  <1>1. Stored /\ MappingsFit /\ RunOk /\ RecordsOk
    BY DEF Inv
  <1>2. CASE Publish
    <2>1. UNCHANGED <<tables, mappings, records>> /\ ~Running /\ UNCHANGED run
      BY <1>2 DEF Publish, Unwritten
    <2>2. QED
      BY <1>1, <2>1, NothingSaved, RecordsStay DEF Inv, MappingsFit, RunOk, Running
  <1>3. CASE EditMappings
    <2>1. UNCHANGED <<tables, published, run, records>>
      BY <1>3 DEF EditMappings, Unwritten
    <2>2. QED
      BY <1>1, <1>3, <2>1, EditKeeps, NothingSaved, RecordsStay, RunUntouched DEF Inv
  <1>4. CASE ChangeDatasets
    <2>1. /\ ~Running /\ UNCHANGED <<mappings, run>> /\ records' = NoRecords
          /\ \E d \in LateDatasets :
               IF d \in DOMAIN dataset THEN DeleteDatasets({d}) ELSE SaveDataset(d, NewDataset)
      BY <1>4 DEF ChangeDatasets, Overtaken
    <2>2. Stored'
      BY <1>1, <2>1, DatasetDeleted, DatasetAdded DEF NewDataset
    <2>3. QED
      BY <1>1, <2>1, <2>2, RecordsDropped DEF Inv, MappingsFit, RunOk, Running
  <1>5. CASE Begin
    <2>1. UNCHANGED <<tables, mappings, records>>
      BY <1>5 DEF Begin, Start
    <2>2. QED
      BY <1>1, <1>5, <2>1, BeginKeeps, NothingSaved, RecordsStay DEF Inv, MappingsFit
  <1>6. CASE Step
    <2>1. (LayerStep \/ StacStep) /\ records' = NoRecords /\ UNCHANGED published
      BY <1>6 DEF Step, Overtaken
    <2>2. Stored' /\ RunOk' /\ UNCHANGED mappings
      BY <1>1, <2>1, StepKeeps
    <2>3. QED
      BY <1>1, <2>1, <2>2, RecordsDropped DEF Inv, MappingsFit
  <1>7. CASE End \/ Break
    <2>1. run' = Idle /\ UNCHANGED <<tables, mappings, records>>
      BY <1>7 DEF End, Break, Stop, Finish, Raise
    <2>2. QED
      BY <1>1, <2>1, NoRun, NothingSaved, RecordsStay DEF Inv, MappingsFit
  <1>8. CASE Build
    <2>1. /\ StartRecords \/ BuildType \/ EndRecords
          /\ UNCHANGED <<tables, mappings, run, published>>
      BY <1>8 DEF Build
    <2>2. QED
      BY <1>1, <2>1, NothingSaved, RecordsBuilt, RunUntouched DEF Inv, MappingsFit
  <1>9. CASE Deploy \/ Export \/ EmptyBucket \/ Upload \/ UNCHANGED vars
    <2>1. UNCHANGED <<tables, mappings, records, run, published>>
      BY <1>9 DEF Deploy, Export, EmptyBucket, Upload, Elsewhere, Unwritten, vars
    <2>2. QED
      BY <1>1, <2>1, NothingSaved, RecordsStay, RunUntouched DEF Inv, MappingsFit
  <1>10. QED
    BY <1>2, <1>3, <1>4, <1>5, <1>6, <1>7, <1>8, <1>9 DEF Next

(* The foreign keys of datasets and distributions lead to rows that exist,  *)
(* whatever is imported, synced, deleted or stopped.                        *)
THEOREM TablesStayWhole == Spec => []TypeOK
  <1>1. Inv => TypeOK
    BY DEF Inv, Stored, Preferring, AllWhole, Whole, TypeOK
  <1>2. QED
    BY InitInv, Inv_Next, <1>1, PTL DEF Spec, Safety

(* The records of an export during which nothing was written link to        *)
(* records of the same export.                                              *)
THEOREM RecordsStayLinked == Spec => []RecordsAreLinked
  <1>1. Inv => RecordsAreLinked
    BY WholeCatalogueLinks DEF Inv
  <1>2. QED
    BY InitInv, Inv_Next, <1>1, PTL DEF Spec, Safety

-----------------------------------------------------------------------------
(***************************************************************************)
(* What disappears.                                                        *)
(***************************************************************************)
OneService == \A s, t \in StacServices : s = t

Spared(x) ==
    \/ distribution[x].dataset \notin DOMAIN dataset'
    \/ run.part = "distributions" /\ distribution[x].source = LayersJS /\ ~Listed(x)
    \/ run.part \in StacServices /\ distribution[x].source = Capabilities /\ ~Listed(x)

\* All but the cleanups and the deletion of a dataset keep every distribution.
LEMMA StepKeepsDistributions ==
  ASSUME Inv, LayerStep \/ StacStep, ~CleanDistribution, ~CleanUnlisted
  PROVE  DOMAIN distribution \subseteq DOMAIN distribution'
  BY DEF LayerStep, StacStep, EnterLayers, Entering, NextLayer, TakeUp, GetOrCreate, Put, Raise,
         SaveDistributions, UpdateDistribution, PreferDistribution, SaveDataset, SaveDatasets,
         EnterOrphanage, EnterService, NextCollection, CreateDistribution, FollowMapping,
         LeaveOrphanage, FailService, tables

LEMMA LayerCleaned ==
  ASSUME Inv, CleanDistribution, NEW x \in DOMAIN distribution \ DOMAIN distribution'
  PROVE  Spared(x)
  <1>1. x \in ObsoleteDistributions
    BY DEF CleanDistribution, DeleteDistributions, Without
  <1>2. /\ Running /\ run.todo = {} /\ run.part = "distributions"
    BY DEF CleanDistribution, Ended
  <1>3. LayersSeen
    BY <1>2 DEF Inv, RunOk, PartFits
  <1>4. /\ x \in DOMAIN distribution /\ distribution[x].source = LayersJS
        /\ x \notin run.processed
    BY <1>1 DEF ObsoleteDistributions, RowsOf
  <1>5. x[2] # "stac" /\ x = <<x[1], x[2]>>
    BY <1>4 DEF Inv, Stored, AllWhole, Whole, Capabilities, LayersJS
  <1>6. ~Listed(x)
    <2>1. SUFFICES ASSUME NEW r \in published.layers, DatasetsFor(r) # {}, r.id = x[1],
                          NEW n \in DOMAIN KindsOf(r), KindsOf(r)[n] = x[2]
                   PROVE  FALSE
      BY <1>5 DEF Listed
    <2>2. <<x[1], x[2]>> \in run.processed
      BY <1>2, <1>3, <2>1 DEF LayersSeen
    <2>3. QED
      BY <1>4, <1>5, <2>2
  <1>7. QED
    BY <1>2, <1>4, <1>6 DEF Spared

LEMMA CollectionCleaned ==
  ASSUME OneService, Inv, CleanUnlisted, NEW x \in DOMAIN distribution \ DOMAIN distribution'
  PROVE  Spared(x)
  <1>1. x \in Unlisted
    BY DEF CleanUnlisted, DeleteDistributions, Without
  <1>2. /\ Running /\ run.todo = {} /\ run.part \in StacServices /\ run.current # "failed"
    BY DEF CleanUnlisted, Ended, MustClean, InService
  <1>3. CollectionsSeen
    BY <1>2 DEF Inv, RunOk, PartFits
  <1>4. /\ x \in DOMAIN distribution /\ distribution[x].source = Capabilities
        /\ distribution[x].topic \notin run.processed
    BY <1>1 DEF Unlisted, RowsOf
  <1>5. x[2] = "stac" /\ distribution[x].topic = x[1]
    BY <1>4, ViewerAssumption DEF Inv, Stored, AllWhole, Whole, Capabilities, LayersJS
  <1>6. ~Listed(x)
    <2>1. SUFFICES ASSUME NEW s \in StacServices, x[1] \in published.collections[s]
                   PROVE  FALSE
      BY <1>5 DEF Listed
    <2>2. s = run.part
      BY <1>2 DEF OneService
    <2>3. QED
      BY <1>2, <1>3, <1>4, <1>5, <2>1, <2>2 DEF CollectionsSeen
  <1>7. QED
    BY <1>2, <1>4, <1>6 DEF Spared

(* With one STAC service, as there is: a cleanup deletes neither the        *)
(* distribution of a listed collection, nor that of a layer still of its    *)
(* kind that has a dataset, nor what another command makes.                 *)
THEOREM ListedIsSpared == ASSUME OneService PROVE Spec => CleansOnlyUnlisted
  <1>1. ASSUME Inv, [Next]_vars, NEW x \in DOMAIN distribution \ DOMAIN distribution'
        PROVE  Spared(x)
    <2>1. CASE ChangeDatasets
      <3>1. PICK d \in LateDatasets :
              IF d \in DOMAIN dataset THEN DeleteDatasets({d}) ELSE SaveDataset(d, NewDataset)
        BY <2>1 DEF ChangeDatasets
      <3>2. CASE d \in DOMAIN dataset
        BY <1>1, <3>1, <3>2, DatasetDeleted DEF Inv, Spared
      <3>3. CASE d \notin DOMAIN dataset
        BY <1>1, <3>1, <3>3 DEF SaveDataset, SaveDatasets
      <3>4. QED
        BY <3>2, <3>3
    <2>2. CASE Step
      <3>1. LayerStep \/ StacStep
        BY <2>2 DEF Step
      <3>2. QED
        BY <1>1, <3>1, StepKeepsDistributions, LayerCleaned, CollectionCleaned
    <2>3. CASE Next /\ ~ChangeDatasets /\ ~Step
      <3>1. UNCHANGED distribution
        BY <2>3 DEF Next, Publish, EditMappings, Deploy, Begin, Start, End, Finish, Break, Stop,
                    Raise, Export, EmptyBucket, Upload, Elsewhere, Build, Unwritten, tables
      <3>2. QED
        BY <1>1, <3>1
    <2>4. CASE UNCHANGED vars
      BY <1>1, <2>4 DEF vars, tables
    <2>5. QED
      BY <1>1, <2>1, <2>2, <2>3, <2>4
  <1>2. ASSUME Inv, [Next]_vars
        PROVE
    [\A x \in DOMAIN distribution \ DOMAIN distribution' :
         \/ distribution[x].dataset \notin DOMAIN dataset'
         \/ run.part = "distributions" /\ distribution[x].source = LayersJS /\ ~Listed(x)
         \/ run.part \in StacServices /\ distribution[x].source = Capabilities /\ ~Listed(x)]_vars
    BY <1>1, <1>2 DEF Spared
  <1>3. QED
    BY InitInv, Inv_Next, <1>2, PTL DEF Spec, Safety, CleansOnlyUnlisted
================================================================================
