---------------------------- MODULE HarvestDatasets ----------------------------
(***************************************************************************)
(* The part of the import from the harvest tables that makes datasets, with *)
(* their attribution and the unit that owns them.                          *)
(***************************************************************************)
EXTENDS HarvestProviders

\* A record of the dataset table, with the first of the providers and of the attributions it
\* names; the import asks for no other.
DatasetRecord(i, parses, p, a) ==
    [id |-> i, parses |-> parses, provider |-> p, attribution |-> a]

Owner == "owner"
Owners(d) == {l \in dataset[d].units : l.role = Owner}

EnterDatasets ==
    /\ Entering("datasets") /\ UNCHANGED mappings
    /\ \E d \in Tables(mappings.dataset, DOMAIN dataset),
          u \in Tables(mappings.unit, DOMAIN organization) :
         Enter("datasets", <<"datasets">>, [dataset |-> d, unit |-> u], run.input.datasets)

DatasetWork(r) ==
    <<[op |-> "takeDataset", id |-> r.id], [op |-> "dataset", id |-> r.id],
      [op |-> "save", id |-> r.id, attribution |-> r.attribution],
      [op |-> "unlink", id |-> r.id, provider |-> r.provider],
      [op |-> "link", id |-> r.id, provider |-> r.provider]>>

NextDataset ==
    /\ Ready("datasets") /\ UNCHANGED mappings
    /\ \E r \in run.todo :
         IF r.parses THEN TakeUp(r, {r.id}, DatasetWork(r)) ELSE TakeUp(r, {}, <<>>)

TakeDatasetId ==
    /\ Doing("takeDataset") /\ Done /\ UNCHANGED mappings
    /\ SaveDatasets(RemoveSourceId(dataset, Op.id))

\* get_or_create inserts a row without ids; dataset_id is unique, whatever the data source.
\* The target of a mapping exists: no dataset is deleted while records are at hand.
DatasetMapping(i) == MatchEnabled(run.lookup.dataset, i, "dataset")
FindDataset ==
    /\ Doing("dataset") /\ UNCHANGED mappings
    /\ LET i == Op.id
           m == DatasetMapping(i)
           new == DatasetRow(Bod, {}, "theirs")
       IN  \/ IsMapped(m) /\ m.target \in DOMAIN dataset /\ DoneWith(m.target) /\ UNCHANGED tables
           \/ ~IsMapped(m) /\ i \in RowsOf(dataset, Bod) /\ DoneWith(i) /\ UNCHANGED tables
           \/ ~IsMapped(m) /\ i \notin DOMAIN dataset /\ DoneWith(i) /\ SaveDataset(i, new)
           \/ ~IsMapped(m) /\ i \in DOMAIN dataset \ RowsOf(dataset, Bod) /\ Raise

\* The texts, the attribution and the id are saved together.  Without an attribution in the
\* record the one there is stays; one that does not exist makes none.
AttributionAfter(d, a) ==
    IF a = None THEN dataset[d].attribution
    ELSE IF a \in RowsOf(attribution, Bod) THEN a ELSE None

\* Slip: the id taken away before does not come back.
WithoutId(d, i) == dataset[d]

WithId(d, i) == AddSourceId(dataset[d], i)
StoreDataset ==
    /\ Doing("save") /\ Done /\ UNCHANGED mappings
    /\ LET d == run.current
       IN  SaveDataset(d, [Harvested(WithId(d, Op.id), DatasetMapping(Op.id))
                             EXCEPT !.attribution = AttributionAfter(d, Op.attribution)])

\* The unit of the mapping, else the default unit of the first provider named; the mappings of
\* organizations are not asked.  Without a unit the links stay as they are.
UnitFor(i, p) ==
    LET m == Match(run.lookup.unit, i)
    IN  IF IsMapped(m) THEN {m.target} ELSE {p} \cap DOMAIN organization

\* Slip: only the owner to come is unlinked, others stay.
UnlinkOwner ==
    /\ Doing("unlink") /\ UNCHANGED mappings
    /\ LET d == run.current
       IN  \/ UnitFor(Op.id, Op.provider) = {} /\ run' = [run EXCEPT !.work = <<>>]
                                              /\ UNCHANGED tables
           \/ \E o \in UnitFor(Op.id, Op.provider) :
                Done /\ SaveDataset(d, [dataset[d] EXCEPT !.units = {l \in @ : l.to # o}])

UnlinkOwners ==
    /\ Doing("unlink") /\ UNCHANGED mappings
    /\ LET d == run.current
       IN  IF UnitFor(Op.id, Op.provider) = {}
           THEN /\ run' = [run EXCEPT !.work = <<>>] /\ UNCHANGED tables
           ELSE /\ Done
                /\ SaveDataset(d, [dataset[d] EXCEPT !.units = @ \ Owners(d)])
LinkOwner ==
    /\ Doing("link") /\ Done /\ UNCHANGED mappings
    /\ LET d == run.current
       IN  \E o \in UnitFor(Op.id, Op.provider) :
             SaveDataset(d, [dataset[d] EXCEPT !.units = @ \cup {UnitLink(Owner, o)}])

DatasetStep ==
    \/ EnterDatasets \/ NextDataset
    \/ TakeDatasetId \/ FindDataset \/ StoreDataset \/ UnlinkOwners \/ LinkOwner
================================================================================
