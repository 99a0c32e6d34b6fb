------------------------- MODULE GeodiensteDatasets --------------------------
(***************************************************************************)
(* The part of the import from geodienste.ch that makes datasets, with     *)
(* their attribution and their links to units, contacts and aggregates.    *)
(***************************************************************************)
EXTENDS GeodiensteProviders

CONSTANTS
    Topics,         \* base topics
    Lower           \* base_topic.lower()

ASSUME TopicsAssumption == DOMAIN Lower = Topics

UnitRoles == {"owner", "maintainer"}
ContactRoles == {"owner", "custodian", "pointOfContact"}

\* dataset_id, which is spelled in lower case; the id at the source is not.
DatasetId(p, topic) == <<OrganizationId[p], Lower[topic]>>

Of(table, role) == {m \in table : m.role = role}
LookupsOf(rows, roles, existing) ==
    {f \in [roles -> UNION {Tables(Of(rows, r), existing) : r \in roles}] :
       \A r \in roles : f[r] \in Tables(Of(rows, r), existing)}
EnterDatasets ==
    /\ Entering("datasets") /\ UNCHANGED mappings
    /\ \E o \in Tables(mappings.organization, DOMAIN organization),
          d \in Tables(mappings.dataset, DOMAIN dataset),
          u \in LookupsOf(mappings.unit, UnitRoles, DOMAIN organization),
          c \in LookupsOf(mappings.contact, ContactRoles, contact) :
         Enter("datasets", <<"datasets">>,
               [organization |-> o, dataset |-> d, unit |-> u, contact |-> c],
               run.input.services)

\* What is written for a service, in this order.
Dataset(p, s) == [op |-> "dataset", key |-> DatasetId(p, s.topic), id |-> <<p, s.topic>>]
Attribution(p) == [op |-> "datasetAttribution", provider |-> p]
Unit(role, p) == [op |-> "unit", role |-> role, provider |-> p]
Contact(role, id) == [op |-> "contact", role |-> role, id |-> id]
BrokerWork(s) ==
    <<Dataset(s.provider, s), Attribution(s.provider),
      Unit("owner", s.provider), Unit("maintainer", Aggregate),
      Contact("pointOfContact", <<Aggregate>>)>>
AggregateWork(s) ==
    <<Dataset(Aggregate, s), [op |-> "aggregated", id |-> DatasetId(Aggregate, s.topic)],
      Attribution(Aggregate), [op |-> "drop", role |-> "maintainer"], Unit("owner", Aggregate),
      [op |-> "dropContact", role |-> "custodian"], Contact("pointOfContact", <<Aggregate>>)>>
PartWork(s) ==
    <<Dataset(s.provider, s), [op |-> "relation", id |-> DatasetId(Aggregate, s.topic)],
      Unit("maintainer", s.provider), Contact("owner", <<s.provider, s.topic>>),
      Contact("custodian", <<s.provider>>)>>

AggregateIsDone(s) == \E a \in run.aggregated : a.id = DatasetId(Aggregate, s.topic)
ServiceWork(s) ==
    IF s.provider \in Brokers THEN BrokerWork(s)
    ELSE (IF AggregateIsDone(s) THEN <<>> ELSE AggregateWork(s)) \o PartWork(s)

\* Slip: the id of the aggregate is not seen.
ServiceIdsOfParts(s) == {<<s.provider, s.topic>>}

ServiceIds(s) ==
    {<<s.provider, s.topic>>}
      \cup IF s.provider \in Brokers \/ AggregateIsDone(s) THEN {}
           ELSE {<<Aggregate, s.topic>>}

NextService ==
    /\ Ready("datasets") /\ UNCHANGED mappings
    /\ \E s \in run.todo : TakeUp(s, ServiceIds(s), ServiceWork(s))
-----------------------------------------------------------------------------
\* import_dataset: an existing dataset keeps the ids it has.
ImportDataset ==
    /\ Doing("dataset") /\ UNCHANGED mappings
    /\ LET m == Match(run.lookup.dataset, Op.key)
           d == IF IsMapped(m) THEN m.target ELSE Op.key
           found == IsMapped(m) \/ d \in RowsOf(dataset, Geodienste)
           new == DatasetRow(Geodienste, {Op.id}, "theirs")
       IN  \/ found /\ DoneWith(d) /\ SaveDataset(d, Harvested(dataset[d], m))
           \/ ~found /\ d \notin DOMAIN dataset /\ DoneWith(d) /\ SaveDataset(d, new)
           \/ ~found /\ d \in DOMAIN dataset /\ Raise     \* dataset_id is unique

RememberAggregate ==
    /\ Doing("aggregated") /\ UNCHANGED <<mappings, tables>>
    /\ run' = [run EXCEPT !.work = Tail(@),
                          !.aggregated = @ \cup {[id |-> Op.id, dataset |-> run.current]}]

\* import_dataset_attribution: whatever data source the attribution comes from.
SetAttribution ==
    /\ Doing("datasetAttribution") /\ Done /\ UNCHANGED mappings
    /\ LET a == OrganizationId[Op.provider]
           d == run.current
       IN  IF a \in DOMAIN attribution
           THEN SaveDataset(d, [dataset[d] EXCEPT !.attribution = a])
           ELSE UNCHANGED tables

\* A part has one aggregate at most; one it has already is kept.
RelateToAggregate ==
    /\ Doing("relation") /\ Done /\ UNCHANGED mappings
    /\ \E a \in {x \in run.aggregated : x.id = Op.id} :
         SaveDataset(run.current,
           [dataset[run.current] EXCEPT !.partOf = IF @ = {} THEN {a.dataset} ELSE @])

\* import_dataset_unit: of the mapping, else the default unit of the provider's organization,
\* mapped or under its id.  The links of the role to other units go first.
UnitFor(d, role, p) ==
    LET m == Match(run.lookup.unit[role], d)
        o == OrganizationMapping(p)
    IN  IF IsMapped(m) THEN {m.target}
        ELSE IF IsMapped(o) THEN {o.target}
        ELSE {OrganizationId[p]} \cap DOMAIN organization

\* import_dataset_contact: of the mapping, else the contact that holds the id.
ContactFor(d, role, id) ==
    LET m == Match(run.lookup.contact[role], d)
    IN  IF IsMapped(m) THEN {m.target} ELSE {c \in contact : id \in c.ids}

\* Slip: the others stay.
LinkedToo(links, role, to) == links \cup {[role |-> role, to |-> to]}

\* The links of a role after a step towards the one wanted: others go, then it comes.
Linked(links, role, to) ==
    LET others == {l \in links : l.role = role /\ l.to # to}
    IN  IF others # {} THEN links \ others ELSE links \cup {[role |-> role, to |-> to]}
IsLinked(links, role, to) == {l \in links : l.role = role} = {[role |-> role, to |-> to]}

Advance(links, role, to) == IF IsLinked(links, role, to) THEN Done ELSE UNCHANGED run

LinkUnit ==
    /\ Doing("unit") /\ UNCHANGED mappings
    /\ LET d == run.current
           links == dataset[d].units
           found == UnitFor(d, Op.role, Op.provider)
       IN  \/ found = {} /\ Done /\ UNCHANGED tables
           \/ \E o \in found :
                LET new == Linked(links, Op.role, o)
                IN  /\ SaveDataset(d, [dataset[d] EXCEPT !.units = new])
                    /\ Advance(new, Op.role, o)

LinkContact ==
    /\ Doing("contact") /\ UNCHANGED mappings
    /\ LET d == run.current
           links == dataset[d].contacts
           found == ContactFor(d, Op.role, Op.id)
       IN  \/ found = {} /\ Done /\ UNCHANGED tables
           \/ \E c \in found :
                LET new == Linked(links, Op.role, c)
                IN  /\ SaveDataset(d, [dataset[d] EXCEPT !.contacts = new])
                    /\ Advance(new, Op.role, c)

\* Roles that aggregates no longer have.
DropUnits ==
    /\ Doing("drop") /\ Done /\ UNCHANGED mappings
    /\ LET d == run.current
       IN  SaveDataset(d, [dataset[d] EXCEPT !.units = {l \in @ : l.role # Op.role}])
DropContacts ==
    /\ Doing("dropContact") /\ Done /\ UNCHANGED mappings
    /\ LET d == run.current
       IN  SaveDataset(d, [dataset[d] EXCEPT !.contacts = {l \in @ : l.role # Op.role}])

DatasetStep ==
    \/ EnterDatasets \/ NextService
    \/ ImportDataset \/ RememberAggregate \/ SetAttribution \/ RelateToAggregate
    \/ LinkUnit \/ LinkContact \/ DropUnits \/ DropContacts
==============================================================================
