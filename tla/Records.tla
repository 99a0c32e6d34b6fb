------------------------------- MODULE Records --------------------------------
(***************************************************************************)
(* The records the search export builds from the catalogue: one query for  *)
(* each type of records, one type after the other, without a transaction   *)
(* around them, and the links the records have to each other.              *)
(***************************************************************************)
EXTENDS Sequences, Catalogue

CONSTANT Drafts     \* the datasets that are not published

VARIABLE records    \* the export under way, and what it has built

NoRecords == [types |-> None]
Building == records # NoRecords
Types == <<"services", "datasets", "distributions">>

OfDataset(d, kind) == {x \in DOMAIN distribution : distribution[x].dataset = d /\ x[2] = kind}

\* Slip: the WMS is taken to be there, under the name of the WMTS.
FeatureInfoByName(x) ==
    LET d == distribution[x].dataset
    IN  IF OfDataset(d, "features") # {} THEN OfDataset(d, "features")
        ELSE IF x[2] = "wms" THEN {x}
        ELSE IF x[2] = "wmts" THEN {<<x[1], "wms">>}
        ELSE {}

\* featureinfo_distribution: the features of the dataset, else for a WMS itself, for a WMTS the
\* WMS of the dataset.
FeatureInfo(x) ==
    LET d == distribution[x].dataset
    IN  IF OfDataset(d, "features") # {} THEN OfDataset(d, "features")
        ELSE IF x[2] = "wms" THEN {x}
        ELSE IF x[2] = "wmts" THEN OfDataset(d, "wms")
        ELSE {}

OwnersOf(d) == {l.to : l \in {u \in dataset[d].units : u.role = "owner"}}
\* from_dataset, of the datasets that are published and not a part of others.
Datasets ==
    {[id |-> d, preferred |-> dataset[d].preferred, owners |-> OwnersOf(d),
      attribution |-> dataset[d].attribution,
      aggregated |-> \E p \in DOMAIN dataset : d \in dataset[p].partOf] :
        d \in {e \in DOMAIN dataset \ Drafts : dataset[e].partOf = {}}}
\* from_distribution, of all distributions.
Distributions ==
    {[id |-> x, dataset |-> distribution[x].dataset, dataservice |-> distribution[x].dataservice,
      featureinfo |-> FeatureInfo(x), styledBy |-> x[2] \in {"wms", "wmts"}
                                         \/ (x[2] = "geojson" /\ distribution[x].paint # None)] :
        x \in DOMAIN distribution}

StartRecords ==
    /\ ~Building
    /\ records' = [types |-> Types, services |-> {}, datasets |-> {}, distributions |-> {}]
BuildType ==
    /\ Building /\ records.types # <<>>
    /\ LET Built(type) == Head(records.types) = type
       IN  records' = [records EXCEPT !.types = Tail(@),
             !.services = IF Built("services") THEN DOMAIN dataservice ELSE @,
             !.datasets = IF Built("datasets") THEN Datasets ELSE @,
             !.distributions = IF Built("distributions") THEN Distributions ELSE @]
EndRecords == Building /\ records.types = <<>> /\ records' = NoRecords

\* An export during which the catalogue changes is not followed any further: its records may
\* be of different times, and nothing is said of them.
Overtaken == records' = NoRecords
================================================================================
