----------------------- MODULE GeodiensteDistributions -----------------------
(***************************************************************************)
(* The part of the import from geodienste.ch that makes dataservices and   *)
(* distributions: for each topic of the viewer a WMS for the data and one  *)
(* for their availability, and a collection of the one STAC API.           *)
(***************************************************************************)
EXTENDS GeodiensteDatasets

Kinds == <<"wms", "availability", "stac">>
Service(kind, topic) == <<kind, IF kind = "stac" THEN None ELSE topic>>
DistributionId(datasetId, kind) == <<datasetId, kind>>

\* The provider of a topic's data: its broker, else the aggregate.  When a topic has services
\* of several providers, the last one listed counts.
ProvidersOf(topic) ==
    {IF s.provider \in Brokers THEN s.provider ELSE Aggregate :
        s \in {v \in run.input.services : v.topic = topic}}

EnterDistributions ==
    /\ Entering("distributions") /\ UNCHANGED mappings
    /\ \E d \in Tables(mappings.dataset, DOMAIN dataset) :
         Enter("distributions", <<"dataservices", "distributions">>, [dataset |-> d],
               run.input.config)

TopicWork(topic, id, d) ==
    <<[op |-> "service", kind |-> "wms", topic |-> topic],
      [op |-> "distribution", kind |-> "wms", topic |-> topic, id |-> id, dataset |-> d],
      [op |-> "prefer", id |-> DistributionId(id, "wms"), dataset |-> d],
      [op |-> "service", kind |-> "availability", topic |-> topic],
      [op |-> "distribution", kind |-> "availability", topic |-> topic, id |-> id, dataset |-> d],
      [op |-> "service", kind |-> "stac", topic |-> topic],
      [op |-> "distribution", kind |-> "stac", topic |-> topic, id |-> id, dataset |-> d]>>

\* A topic of the viewer without services is a KeyError; without a dataset it is skipped.
NextTopic ==
    /\ Ready("distributions") /\ UNCHANGED mappings
    /\ \E topic \in run.todo :
         \/ ProvidersOf(topic) = {} /\ Raise
         \/ \E p \in ProvidersOf(topic) :
              LET id == DatasetId(p, topic)
                  m == Match(run.lookup.dataset, id)
                  found == IF IsMapped(m) THEN {m.target} ELSE {id} \cap DOMAIN dataset
              IN  \/ found = {} /\ TakeUp(topic, {topic}, <<>>)
                  \/ \E d \in found : TakeUp(topic, {topic}, TopicWork(topic, id, d))
-----------------------------------------------------------------------------
\* import_wms_data_service; the STAC API belongs to no data source, so no cleanup finds it.
\* An existing dataservice keeps the ids it has.
ImportService ==
    /\ Doing("service") /\ Done /\ UNCHANGED mappings
    /\ LET s == Service(Op.kind, Op.topic)
           stac == Op.kind = "stac"
           new == IF stac THEN DataserviceRow("user-input", {})
                  ELSE DataserviceRow(Geodienste, {Op.topic})
       IN  SaveDataservices(IF s \in DOMAIN dataservice THEN dataservice
                            ELSE Put(dataservice, s, new))

\* import_wms_distribution, import_stac_distribution.  Of an existing one the dataset is set
\* again, and unless it is of the STAC API the dataservice too.
ImportDistribution ==
    /\ Doing("distribution") /\ UNCHANGED mappings
    /\ LET x == DistributionId(Op.id, Op.kind)
           s == Service(Op.kind, Op.topic)
           taken == LayerTaken(x, Op.topic, s)
           new == DistributionRow(Geodienste, {Op.topic}, Op.topic, Op.dataset, s)
           old == [distribution[x] EXCEPT !.dataset = Op.dataset,
                     !.dataservice = IF Op.kind = "stac" THEN @ ELSE s]
       IN  \/ taken /\ Raise
           \/ /\ ~taken /\ Done
              /\ SaveDistributions(Put(distribution, x, IF x \in DOMAIN distribution THEN old
                                                        ELSE new))

\* The distribution of the data becomes the preferred one of the dataset.
Prefer ==
    /\ Doing("prefer") /\ Done /\ UNCHANGED mappings
    /\ SaveDataset(Op.dataset, [dataset[Op.dataset] EXCEPT !.preferred = Op.id])

DistributionStep ==
    \/ EnterDistributions \/ NextTopic \/ ImportService \/ ImportDistribution \/ Prefer
==============================================================================
