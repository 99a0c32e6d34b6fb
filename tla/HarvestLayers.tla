---------------------------- MODULE HarvestLayers ----------------------------
(***************************************************************************)
(* The part of the import from the harvest tables that makes distributions *)
(* of the layers of the map viewer, and chooses the preferred one of each  *)
(* dataset.                                                                *)
(***************************************************************************)
EXTENDS ImportRun

CONSTANTS
    Layers,         \* layer ids
    NamedLike       \* the layers whose style file has a name that starts with a layer's id

VARIABLE files      \* the style files of the code that is deployed, in the order of their
                    \* directory, each as the layer it was made for

Bod == "bod"
LayersJS == "bod-layers-js"
Plain == "plain"    \* an opacity of one and no gutter
WebKinds == {"wmts", "wms", "features"}     \* the kinds with a dataservice

\* A record of the layer table: paint is its opacity and gutter, features whether it is
\* searchable or has a tooltip.
LayerRecord(i, parses, type, paint, features) ==
    [id |-> i, parses |-> parses, type |-> type, paint |-> paint, features |-> features]

EnterLayers ==
    /\ Entering("distributions") /\ UNCHANGED mappings
    /\ \E d \in Tables(mappings.dataset, DOMAIN dataset) :
         Enter("distributions", <<>>, [dataset |-> d],
               IF WebKinds \subseteq DOMAIN dataservice THEN run.input.layers ELSE {})

KindsOf(r) ==
    (CASE r.type = "wmts" -> <<"wmts", "wms">>
       [] r.type = "wms" -> <<"wms">>
       [] r.type = "geojson" -> <<"geojson">>
       [] OTHER -> <<>>)
      \o IF r.features THEN <<"features">> ELSE <<>>
KindWork(r, d, kind) ==
    LET x == <<r.id, kind>>
    IN  <<[op |-> "getOrCreate", id |-> x, dataset |-> d],
          [op |-> "update", id |-> x, paint |-> r.paint],
          [op |-> "prefer", id |-> x, dataset |-> d]>>
LayerWork(r, d) ==
    LET kinds == KindsOf(r)
    IN  [n \in 1..(3 * Len(kinds)) |-> KindWork(r, d, kinds[(n + 2) \div 3])[((n - 1) % 3) + 1]]
LayerIds(r, d) == {d} \cup {<<r.id, KindsOf(r)[n]>> : n \in DOMAIN KindsOf(r)}

\* The dataset a layer belongs to: of the mapping, unless that forbids updates, else of its id.
LayerMapping(r) == MatchEnabled(run.lookup.dataset, r.id, "distribution")
DatasetsFor(r) ==
    LET m == LayerMapping(r)
    IN  IF ~r.parses \/ ~m.update THEN {}
        ELSE IF IsMapped(m) THEN {m.target}
        ELSE {r.id} \cap RowsOf(dataset, Bod)
NextLayer ==
    /\ Ready("distributions") /\ UNCHANGED mappings
    /\ \E r \in run.todo :
         \/ DatasetsFor(r) = {} /\ TakeUp(r, {}, <<>>)
         \/ \E d \in DatasetsFor(r) : TakeUp(r, LayerIds(r, d), LayerWork(r, d))

\* get_or_create looks in the dataset at hand, while distribution_id is unique among all.
GetOrCreate ==
    /\ Doing("getOrCreate") /\ UNCHANGED mappings
    /\ LET x == Op.id
           new == [DistributionRow(None, {}, x[1], Op.dataset, None) EXCEPT
                     !.paint = IF x[2] \in {"wms", "wmts"} THEN Plain ELSE None]
       IN  \/ x \notin DOMAIN distribution /\ Done /\ SaveDistributions(Put(distribution, x, new))
           \/ /\ x \in DOMAIN distribution /\ distribution[x].dataset = Op.dataset
              /\ Done /\ UNCHANGED tables
           \/ /\ x \in DOMAIN distribution /\ distribution[x].dataset # Op.dataset
              /\ Raise

\* An opacity or gutter the record does not state leaves the one there is.  The style of a
\* GeoJSON layer is the first file whose name starts with its id, in the order of the directory.
StyleFor(layer) ==
    LET matching == SelectSeq(files, LAMBDA f : f \in NamedLike[layer])
    IN  IF matching = <<>> THEN None ELSE Head(matching)
Paint(x, paint) ==
    CASE x[2] \in {"wms", "wmts"} -> IF paint = None THEN distribution[x].paint ELSE paint
      [] x[2] = "geojson" -> StyleFor(x[1])
      [] x[2] = "features" -> None
UpdateDistribution ==
    /\ Doing("update") /\ Done /\ UNCHANGED mappings
    /\ LET x == Op.id
       IN  SaveDistributions([distribution EXCEPT
             ![x].source = LayersJS, ![x].paint = Paint(x, Op.paint),
             ![x].dataservice = IF x[2] \in WebKinds THEN x[2] ELSE None])

\* Slip: whatever is made last is preferred.
PreferAlways(d, x) == x

\* The WMTS is preferred, others only to nothing, the features never.
Preferred(d, x) ==
    IF x[2] = "wmts" \/ (dataset[d].preferred = None /\ x[2] # "features") THEN x
    ELSE dataset[d].preferred
PreferDistribution ==
    /\ Doing("prefer") /\ Done /\ UNCHANGED mappings
    /\ SaveDataset(Op.dataset,
         [dataset[Op.dataset] EXCEPT !.preferred = Preferred(Op.dataset, Op.id)])

\* Of each dataset that was processed, the distributions that were not.
ObsoleteDistributions ==
    {x \in RowsOf(distribution, LayersJS) :
       distribution[x].dataset \in run.processed /\ x \notin run.processed}
CleanDistribution ==
    /\ Ended /\ run.part = "distributions" /\ run.clean /\ UNCHANGED <<run, mappings>>
    /\ \E x \in ObsoleteDistributions : DeleteDistributions({x})
LayersEnded ==
    run.part = "distributions" /\ run.clean => ObsoleteDistributions = {}

LayerStep ==
    /\ \/ EnterLayers \/ NextLayer \/ GetOrCreate \/ UpdateDistribution \/ PreferDistribution
       \/ CleanDistribution
    /\ UNCHANGED files
==============================================================================
