-------------------------------- MODULE Viewer --------------------------------
(***************************************************************************)
(* What the map viewer gets: distributions that two commands make of       *)
(* layers and of STAC collections, styles that a third puts into a bucket, *)
(* and records that a fourth builds.  The commands of one kind run one at  *)
(* a time, those of different kinds side by side.                          *)
(***************************************************************************)
EXTENDS Styles, StacSync, Records

CONSTANTS
    Deployed,       \* the style files of the code that is deployed first
    Deployments,    \* those of the versions that may follow it
    Sources,        \* what the layer table and the STAC services may list
    MappingRows,    \* the mappings of datasets staff may enter and delete
    LateDatasets,   \* datasets another import makes and deletes
    Options,        \* the commands that are run
    MaxChanges,     \* how often the sources, a mapping, a dataset, the files, the bucket change
    MaxStops        \* how many commands are stopped half way

\* The syncs ensure the orphanage before they turn to the services.
ASSUME ViewerAssumption ==
    /\ \A m \in MappingRows : m.prefix \in Prefixes
    /\ {"start", "orphanage", "distributions"} \cap StacServices = {} /\ None # Capabilities
    /\ \A o \in Options :
         \/ o.parts = <<"distributions">>
         \/ /\ o.parts \in Seq({"orphanage"} \cup StacServices) \ {<<>>}
            /\ Head(o.parts) = "orphanage"

VARIABLES
    published,      \* the sources
    changes,        \* (history) their changes
    stops           \* (history) commands stopped

vars == <<published, mappings, tables, run, files, bucket, export, records, changes, stops>>

NewDataset == DatasetRow(Bod, {}, "theirs")
Init ==
    /\ published \in Sources
    /\ mappings \in [{"dataset"} -> SUBSET MappingRows]
    /\ organization = [o \in {} |-> o] /\ attribution = [a \in {} |-> a] /\ contact = {}
    /\ dataset = [d \in Layers \ LateDatasets |-> NewDataset]
    /\ dataservice = [s \in WebKinds \cup StacServices |-> DataserviceRow("user-input", {})]
    /\ distribution = [x \in {} |-> x]
    /\ files = Deployed
    /\ bucket = [k \in {} |-> k]
    /\ run = Idle /\ export = Quiet /\ records = NoRecords
    /\ changes = 0 /\ stops = 0

Unwritten == UNCHANGED <<tables, records>>
Change == changes < MaxChanges /\ changes' = changes + 1 /\ UNCHANGED stops
Uncounted == UNCHANGED <<changes, stops>>

Publish ==
    /\ ~Running /\ Change /\ published' \in Sources \ {published}
    /\ Unwritten /\ UNCHANGED <<mappings, run, files, bucket, export>>
EditMappings ==
    /\ ~Running /\ Change
    /\ \E m \in MappingRows :
         mappings' = [mappings EXCEPT !.dataset = IF m \in @ THEN @ \ {m} ELSE @ \cup {m}]
    /\ Unwritten /\ UNCHANGED <<published, run, files, bucket, export>>
ChangeDatasets ==
    /\ ~Running /\ Change
    /\ \E d \in LateDatasets :
         IF d \in DOMAIN dataset THEN DeleteDatasets({d}) ELSE SaveDataset(d, NewDataset)
    /\ Overtaken /\ UNCHANGED <<published, mappings, run, files, bucket, export>>
Deploy ==
    /\ Change /\ files' \in Deployments \ {files}
    /\ Unwritten /\ UNCHANGED <<published, mappings, run, bucket, export>>

Begin ==
    /\ \E o \in Options : Start(o.source, o.parts, o.clean, o.clean, published)
    /\ Uncounted /\ UNCHANGED <<published, mappings, files, bucket, export, records>>
Step ==
    /\ \/ LayerStep
       \/ StacStep /\ UNCHANGED files
    /\ Overtaken /\ Uncounted /\ UNCHANGED <<published, bucket, export>>
End ==
    /\ LayersEnded /\ SyncEnded /\ Finish /\ Uncounted
    /\ UNCHANGED <<published, mappings, files, bucket, export, records>>
Break ==
    /\ Stop /\ stops < MaxStops /\ stops' = stops + 1
    /\ UNCHANGED <<published, mappings, files, bucket, export, records, changes>>

Elsewhere == Unwritten /\ UNCHANGED <<published, mappings, run, files>>
Export == StartExport /\ ~Building /\ Elsewhere /\ Uncounted
EmptyBucket == StartClean /\ ~Building /\ Elsewhere /\ Change
Upload == StyleStep /\ Elsewhere /\ Uncounted
Build ==
    /\ (StartRecords /\ ~Exporting) \/ BuildType \/ EndRecords
    /\ Uncounted /\ UNCHANGED <<published, mappings, tables, run, files, bucket, export>>

Next ==
    \/ Publish \/ EditMappings \/ ChangeDatasets \/ Deploy
    \/ Begin \/ Step \/ End \/ Break
    \/ Export \/ EmptyBucket \/ Upload \/ Build
Safety == Init /\ [][Next]_vars
\* A command that was started goes on until it ends, raises or is stopped.
Spec == Safety /\ WF_vars(Step \/ End) /\ WF_vars(Upload) /\ WF_vars(Build /\ Building)
-----------------------------------------------------------------------------
(* The tables have the columns of the models, and every foreign key points  *)
(* to a row that exists.                                                    *)
TypeOK ==
    /\ \A d \in DOMAIN dataset : dataset[d].preferred \in DOMAIN distribution \cup {None}
    /\ \A x \in DOMAIN distribution :
         /\ distribution[x].dataset \in DOMAIN dataset
         /\ distribution[x].dataservice \in DOMAIN dataservice \cup {None}
         /\ distribution[x].source \in {None, LayersJS, Capabilities}

(* The records of an export during which nothing was written link to        *)
(* records of the same export: dataservices, feature information, and a     *)
(* preferred distribution that is one of the dataset's own.                 *)
RecordsAreLinked ==
    (Building /\ records.types = <<>>) =>
      /\ \A x \in records.distributions :
           /\ x.dataservice \in records.services \cup {None}
           /\ \A i \in x.featureinfo :
                \E y \in records.distributions : y.id = i /\ y.dataset = x.dataset
      /\ \A d \in records.datasets :
           d.preferred # None =>
             \E x \in records.distributions : x.id = d.preferred /\ x.dataset = d.id

(* A cleanup deletes neither the distribution of a collection that a        *)
(* service lists, nor one of a layer that is still of its kind and has a    *)
(* dataset, nor one that another command makes.                             *)
Listed(x) ==
    IF x[2] = "stac" THEN \E s \in StacServices : x[1] \in published.collections[s]
    ELSE \E r \in published.layers :
           DatasetsFor(r) # {} /\ r.id = x[1] /\ \E n \in DOMAIN KindsOf(r) : KindsOf(r)[n] = x[2]
CleansOnlyUnlisted ==
    [][\A x \in DOMAIN distribution \ DOMAIN distribution' :
         \/ distribution[x].dataset \notin DOMAIN dataset'
         \/ run.part = "distributions" /\ distribution[x].source = LayersJS /\ ~Listed(x)
         \/ run.part \in StacServices /\ distribution[x].source = Capabilities /\ ~Listed(x)]_vars

\* What the catalogue and the bucket are to be like for the sources there are.
TargetOf(i, use) ==
    LET m == CHOOSE n \in {MatchEnabled(t, i, use) : t \in Tables(mappings.dataset, DOMAIN dataset)} :
               TRUE
    IN  IF IsMapped(m) THEN m.target ELSE i
PreferenceOf(r) ==
    CASE r.type = "wmts" -> {"wmts"} [] r.type = "wms" -> {"wms", "wmts", "geojson"}
      [] r.type = "geojson" -> {"geojson", "wmts", "wms"} [] OTHER -> {}
LayersMirror ==
    \A r \in {s \in published.layers : s.parses} :
      LET d == TargetOf(r.id, "distribution")
      IN  d \in RowsOf(dataset, Bod) =>
            /\ \A n \in DOMAIN KindsOf(r) :
                 LET x == <<r.id, KindsOf(r)[n]>>
                 IN  x \in DOMAIN distribution /\ distribution[x].dataset = d
            /\ r.type \in {"wmts", "wms", "geojson"} => dataset[d].preferred # None
            /\ (r.type = "wmts" /\ d = r.id) => dataset[d].preferred[2] = "wmts"
            /\ (r.type = "wms" /\ d = r.id) => dataset[d].preferred[2] = "wms"
CollectionsMirror ==
    \A s \in StacServices : \A c \in published.collections[s] :
      LET x == Collection(c)
          d == TargetOf(c, "stac")
      IN  /\ x \in DOMAIN distribution
          /\ distribution[x].dataset = Orphanage => d \notin DOMAIN dataset
StylesMirror ==
    \A x \in Styled : /\ StyleOf(x).key \in DOMAIN bucket
                      /\ bucket[StyleOf(x).key] = StyleOf(x).content

(* When nothing changes any more and no command is stopped, then complete   *)
(* imports of the layers bring each layer its distributions, with the WMTS  *)
(* as the preferred one if there is one and the WMS else, complete syncs    *)
(* give each collection a distribution, that leaves the orphanage if there  *)
(* is a place for it, and exports of the styles bring each styled           *)
(* distribution its style.                                                  *)
CompleteImport == End /\ run.complete /\ run.source = LayersJS
CompleteSync == End /\ run.complete /\ run.source = Capabilities /\ run.current # "failed"
CompleteExport == Upload /\ EndExport
LayersSettle == []<><<CompleteImport>>_vars => <>[]LayersMirror
CollectionsSettle == []<><<CompleteSync>>_vars => <>[]CollectionsMirror
StylesSettle ==
    []<><<CompleteImport>>_vars /\ []<><<CompleteExport>>_vars => <>[]StylesMirror

(* A GeoJSON layer never gets the style that was made for another layer.    *)
OwnStyle ==
    \A x \in DOMAIN distribution :
      x[2] = "geojson" => distribution[x].paint \in {None, x[1]}
================================================================================
