------------------------------ MODULE Geodienste ------------------------------
(***************************************************************************)
(* The import from geodienste.ch: the command that runs one part after the *)
(* other, the source and the mappings that change between and during its   *)
(* runs, and what the catalogue is like once they no longer do.            *)
(***************************************************************************)
EXTENDS GeodiensteDistributions

CONSTANTS
    Sources,        \* what geodienste.ch may publish
    First,          \* what it publishes at first
    Mapped,         \* the mappings there are at first
    MappingRows,    \* the mappings staff may enter and delete
    Options,        \* the parts and --clean of the commands that are run
    MaxChanges,     \* how often the source or a mapping changes
    MaxStops,       \* how many commands are stopped half way
    ForeignOrganizations, ForeignAttributions, ForeignDatasets  \* rows other commands made

\* A service is of a provider and a topic that is known, as is what the viewer is configured for.
ASSUME SourcesAssumption ==
    /\ First \in Sources
    /\ \A source \in Sources :
         /\ \A s \in source.services : s.provider \in Providers /\ s.topic \in Topics
         /\ source.config \subseteq Topics

\* There is a table of mappings of each kind.
ASSUME MappingsAssumption ==
    /\ {"organization", "dataset", "unit", "contact"} \subseteq DOMAIN Mapped
    /\ \A k \in DOMAIN Mapped : \A m \in Mapped[k] : m.prefix \in Prefixes
    /\ \A k \in DOMAIN MappingRows : \A m \in MappingRows[k] : m.prefix \in Prefixes

\* An attribution is of an organization.
ASSUME ForeignAssumption == ForeignAttributions \subseteq ForeignOrganizations

VARIABLES
    published,      \* the source: the services, and the topics the viewer is configured for
    changes,        \* (history) changes of the source and the mappings
    stops           \* (history) commands stopped

vars == <<published, mappings, tables, run, changes, stops>>
AllParts == <<"organizations", "contacts", "datasets", "distributions">>

Init ==
    /\ published = First
    /\ mappings = Mapped
    /\ organization = [o \in ForeignOrganizations |-> OrganizationRow("bod", {}, "ours")]
    /\ attribution = [a \in ForeignAttributions |-> AttributionRow("bod", {}, a)]
    /\ contact = {ContactRow("user-input", {}, o) : o \in ForeignOrganizations}
    /\ dataset = [d \in ForeignDatasets |-> DatasetRow("bod", {}, "ours")]
    /\ dataservice = [s \in {} |-> s]
    /\ distribution = [x \in {} |-> x]
    /\ run = Idle /\ changes = 0 /\ stops = 0

Uncounted == UNCHANGED <<changes, stops>>

\* A command reads all of the source first: a publication while it runs is one after it.
Publish ==
    /\ ~Running /\ changes < MaxChanges /\ changes' = changes + 1
    /\ published' \in Sources \ {published}
    /\ UNCHANGED <<mappings, tables, run, stops>>

\* Staff enter or delete a mapping; a part reads them when it starts.
EditMappings ==
    /\ ~Running \/ PartEnded
    /\ changes < MaxChanges /\ changes' = changes + 1
    /\ \E k \in DOMAIN MappingRows : \E m \in MappingRows[k] :
         mappings' = [mappings EXCEPT ![k] = IF m \in @ THEN @ \ {m} ELSE @ \cup {m}]
    /\ UNCHANGED <<published, tables, run, stops>>

Begin ==
    /\ \E o \in Options : Start(Geodienste, o.parts, o.clean, o.clean /\ o.parts = AllParts, published)
    /\ Uncounted /\ UNCHANGED <<published, mappings>>

CleanUp ==
    \E kind \in {"organizations", "contacts", "datasets", "dataservices", "distributions"} :
      CleanId(kind) \/ CleanRow(kind)
Step ==
    /\ \/ ProviderStep \/ DatasetStep \/ DistributionStep
       \/ CleanUp /\ UNCHANGED mappings
    /\ Uncounted /\ UNCHANGED published
End == Finish /\ Uncounted /\ UNCHANGED <<published, mappings>>
Break ==
    /\ Stop /\ stops < MaxStops /\ stops' = stops + 1
    /\ UNCHANGED <<published, mappings, changes>>

Next == Publish \/ EditMappings \/ Begin \/ Step \/ End \/ Break
Safety == Init /\ [][Next]_vars
\* A command that was started goes on until it ends, raises or is stopped.
Spec == Safety /\ WF_vars(Step \/ End)
-----------------------------------------------------------------------------
SourceIdOf(kind) ==
    CASE kind = "organizations" -> Providers
      [] kind = "contacts" -> {<<p>> : p \in Providers} \cup Providers \X Topics
      [] kind = "datasets" -> Providers \X Topics
      [] kind = "dataservices" -> Topics
      [] kind = "distributions" -> Topics

(* The tables have the columns of the models, and every foreign key points  *)
(* to a row that exists, whatever was deleted.                              *)
TypeOK ==
    /\ \A kind \in {"organizations", "contacts", "datasets", "dataservices", "distributions"} :
         \A k \in DOMAIN Table(kind) : Table(kind)[k].ids \subseteq SourceIdOf(kind)
    /\ \A a \in DOMAIN attribution : attribution[a].organization \in DOMAIN organization
    /\ \A c \in contact : c.organization \in DOMAIN organization
    /\ \A d \in DOMAIN dataset :
         /\ dataset[d].attribution \in DOMAIN attribution \cup {None}
         /\ dataset[d].preferred \in DOMAIN distribution \cup {None}
         /\ dataset[d].partOf \subseteq DOMAIN dataset
         /\ dataset[d].units \subseteq [role : UnitRoles, to : DOMAIN organization]
         /\ dataset[d].contacts \subseteq [role : ContactRoles, to : contact]
    /\ \A x \in DOMAIN distribution :
         /\ distribution[x].dataset \in DOMAIN dataset
         /\ distribution[x].dataservice \in DOMAIN dataservice \cup {None}

(* A record of geodienste.ch is behind at most one organization, contact    *)
(* and dataset, also while a provider moves from one organization to        *)
(* another, and after commands that were stopped half way.                  *)
OneRowPerRecord ==
    OneHolder(organization) /\ OneHolder(ContactTable) /\ OneHolder(dataset)

(* A dataset has one unit and one contact in each role it has, and is part  *)
(* of one aggregate, while links are exchanged for others.                  *)
OneLinkPerRole ==
    \A d \in DOMAIN dataset :
      /\ \A k, l \in dataset[d].units : k.role = l.role => k = l
      /\ \A k, l \in dataset[d].contacts : k.role = l.role => k = l
      /\ \A a, b \in dataset[d].partOf : a = b

(* Rows of other data sources outlive every cleanup, those that stand for   *)
(* records of geodienste.ch through a mapping included.                     *)
ForeignSurvive ==
    /\ ForeignOrganizations \subseteq DOMAIN organization
    /\ ForeignDatasets \subseteq DOMAIN dataset
    /\ ForeignAttributions \subseteq DOMAIN attribution
-----------------------------------------------------------------------------
\* What the tables are to be like for the services and mappings there are.
Lookup(kind, existing, id) ==
    CHOOSE m \in {Match(t, id) : t \in Tables(mappings[kind], existing)} : TRUE
OrganizationOf(p) ==
    LET m == Lookup("organization", DOMAIN organization, p)
    IN  IF IsMapped(m) THEN m.target ELSE OrganizationId[p]
DatasetOf(p, topic) ==
    LET m == Lookup("dataset", DOMAIN dataset, DatasetId(p, topic))
    IN  IF IsMapped(m) THEN m.target ELSE DatasetId(p, topic)
AggregateOf(s) == IF s.provider \in Brokers THEN s.provider ELSE Aggregate
BrokersOf(services) == {s.provider : s \in services} \cap Brokers

OrganizationsMirror ==
    /\ \A p \in {Aggregate} \cup Cantons \cup BrokersOf(published.services) :
         Holders(organization, p) = {OrganizationOf(p)}
    /\ ObsoleteRows(organization, Geodienste) = {}

ContactsMirror ==
    LET rows == {c \in contact : c.source = Geodienste}
    IN  {c.ids : c \in rows} = {{t.id} : t \in ContactTasks(published.services)}

LookupRole(kind, role, existing, d) ==
    CHOOSE m \in {Match(t, d) : t \in Tables(Of(mappings[kind], role), existing)} : TRUE
HasUnit(d, role, p) ==
    LET m == LookupRole("unit", role, DOMAIN organization, d)
    IN  [role |-> role, to |-> IF IsMapped(m) THEN m.target ELSE OrganizationOf(p)]
          \in dataset[d].units
HasContact(d, role, id) ==
    LET m == LookupRole("contact", role, contact, d)
        wanted == IF IsMapped(m) THEN {m.target} ELSE {c \in contact : id \in c.ids}
    IN  wanted # {} => \E c \in wanted : [role |-> role, to |-> c] \in dataset[d].contacts
DatasetsMirror ==
    /\ \A d \in RowsOf(dataset, Geodienste) :
         /\ dataset[d].ids # {}
         /\ dataset[d].ids \subseteq
              {<<s.provider, s.topic>> : s \in published.services}
                \cup {<<AggregateOf(s), s.topic>> : s \in published.services}
    /\ \A s \in published.services :
         LET d == DatasetOf(s.provider, s.topic)
             a == DatasetOf(AggregateOf(s), s.topic)
         IN  /\ {a, d} \subseteq DOMAIN dataset
             /\ HasUnit(a, "owner", AggregateOf(s))
             /\ HasContact(a, "pointOfContact", <<Aggregate>>)
             /\ HasUnit(d, "maintainer", IF s.provider \in Brokers THEN Aggregate ELSE s.provider)
             /\ s.provider \notin Brokers => /\ HasContact(d, "owner", <<s.provider, s.topic>>)
                                            /\ HasContact(d, "custodian", <<s.provider>>)
                                            /\ dataset[d].partOf # {}

DistributionsMirror ==
    /\ \A kind \in {"dataservices", "distributions"} :
         /\ ObsoleteRows(Table(kind), Geodienste) = {}
         /\ ExistingSourceIds(Table(kind), Geodienste) \subseteq published.config
    /\ \A s \in published.services :
         LET id == DatasetId(AggregateOf(s), s.topic)
             x == DistributionId(id, "wms")
         IN  s.topic \in published.config =>
               /\ x \in DOMAIN distribution /\ distribution[x].dataservice # None
               /\ dataset[DatasetOf(AggregateOf(s), s.topic)].preferred = x

Mirrors ==
    /\ ~Running => OrganizationsMirror
    /\ ContactsMirror /\ DatasetsMirror /\ DistributionsMirror

(* When the source and the mappings no longer change and no command is      *)
(* stopped, then runs of all parts with --clean, however the ones before    *)
(* them ended, bring the catalogue to what the source publishes, and later  *)
(* runs leave it there, also while they are under way.                      *)
CompleteRun == End /\ run.complete
Settles == []<><<CompleteRun>>_vars => <>[]Mirrors
==============================================================================
