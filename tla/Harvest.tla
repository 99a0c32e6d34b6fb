------------------------------- MODULE Harvest -------------------------------
(***************************************************************************)
(* The import of organizations and datasets from the harvest tables, while *)
(* the tables and the mappings change between its runs, records fail to    *)
(* parse and commands are stopped half way.                                *)
(***************************************************************************)
EXTENDS FiniteSets, HarvestDatasets

CONSTANTS
    Harvests,       \* what the harvest tables may hold
    MappingRows,    \* the mappings staff may enter and delete
    Options,        \* the parts and --clean of the commands that are run
    MaxChanges,     \* how often the harvest tables or a mapping change
    MaxStops,       \* how many commands are stopped half way
    ForeignOrganizations, ForeignDatasets   \* rows made by hand

\* What the records of the harvest tables may be about.
Providers == UNION {h.providers : h \in Harvests}
Sets == UNION {h.datasets : h \in Harvests}
OrganizationIds == {r.id : r \in Providers}
AttributionIds == UNION {IdsOf(r) : r \in Providers}
DatasetIds == {r.id : r \in Sets}

\* The ids of attributions are a sequence, of values that are no ids of providers and not NULL.
ASSUME HarvestAssumption ==
    /\ \A h \in Harvests : \A r \in h.providers : r.attributions \in Seq(IdsOf(r))
    /\ OrganizationIds \cap AttributionIds = {} /\ None \notin AttributionIds
    /\ {"organization", "dataset", "unit"} \subseteq DOMAIN MappingRows
    /\ \A k \in DOMAIN MappingRows : \A m \in MappingRows[k] : m.prefix \in Prefixes

VARIABLES
    harvest,        \* the harvest tables
    changes,        \* (history) changes of the tables and the mappings
    stops           \* (history) commands stopped

vars == <<harvest, mappings, tables, run, changes, stops>>
AllParts == <<"organizations", "datasets">>

Init ==
    /\ harvest \in Harvests
    /\ mappings = [kind \in DOMAIN MappingRows |-> {}]
    /\ organization = [o \in ForeignOrganizations |->
                         OrganizationRow("user-input", {}, "ours")]
    /\ attribution = [a \in {} |-> a]
    /\ contact = {}
    /\ dataset = [d \in ForeignDatasets |-> DatasetRow("user-input", {}, "ours")]
    /\ dataservice = [s \in {} |-> s]
    /\ distribution = [x \in {} |-> x]
    /\ run = Idle /\ changes = 0 /\ stops = 0

Uncounted == UNCHANGED <<changes, stops>>

\* A scan reads a table page by page; the model reads it when the command starts.
Publish ==
    /\ ~Running /\ changes < MaxChanges /\ changes' = changes + 1
    /\ harvest' \in Harvests \ {harvest}
    /\ UNCHANGED <<mappings, tables, run, stops>>

EditMappings ==
    /\ ~Running /\ changes < MaxChanges /\ changes' = changes + 1
    /\ \E k \in DOMAIN MappingRows : \E m \in MappingRows[k] :
         mappings' = [mappings EXCEPT ![k] = IF m \in @ THEN @ \ {m} ELSE @ \cup {m}]
    /\ UNCHANGED <<harvest, tables, run, stops>>

Begin ==
    /\ \E o \in Options : Start(Bod, o.parts, o.clean, o.clean /\ o.parts = AllParts, harvest)
    /\ Uncounted /\ UNCHANGED <<harvest, mappings>>

\* cleanup_organizations, cleanup_attributions, cleanup_datasets.
CleanUp ==
    /\ \E kind \in {"organizations", "attributions", "datasets"} : CleanId(kind) \/ CleanRow(kind)
    /\ UNCHANGED mappings
Step == (ProviderStep \/ DatasetStep \/ CleanUp) /\ Uncounted /\ UNCHANGED harvest
End == Finish /\ Uncounted /\ UNCHANGED <<harvest, mappings>>
Break ==
    /\ Stop /\ stops < MaxStops /\ stops' = stops + 1
    /\ UNCHANGED <<harvest, mappings, changes>>

Next == Publish \/ EditMappings \/ Begin \/ Step \/ End \/ Break
Safety == Init /\ [][Next]_vars
\* A command that was started goes on until it ends, raises or is stopped.
Spec == Safety /\ WF_vars(Step \/ End)
-----------------------------------------------------------------------------
Parsed(records) == {r \in records : r.parses}

(* The tables have the columns of the models, and every foreign key points  *)
(* to a row that exists, whatever was deleted.                              *)
TypeOK ==
    /\ \A a \in DOMAIN attribution :
         attribution[a].ids \subseteq {a} /\ attribution[a].organization \in DOMAIN organization
    /\ \A d \in DOMAIN dataset :
         /\ dataset[d].attribution \in DOMAIN attribution \cup {None}
         /\ dataset[d].units \subseteq [role : {Owner}, to : DOMAIN organization]
         /\ Cardinality(Owners(d)) <= 1

(* A record of the harvest tables is behind at most one organization,       *)
(* attribution or dataset, also while a mapping moves it from one to        *)
(* another, and after commands that were stopped half way.                  *)
OneRowPerRecord == OneHolder(organization) /\ OneHolder(attribution) /\ OneHolder(dataset)

\* The row that is to hold an id.
RowFor(m, i) == IF IsMapped(m) THEN m.target ELSE i

(* While a part cleans up, the id of each record that parses is held by the *)
(* row its mapping names, or else its own, and by no other, the attributions *)
(* of a provider are there; and no part deletes what another part makes.     *)
SparesPublished ==
    [][CleanUp =>
       IF run.part = "organizations"
       THEN /\ \A r \in Parsed(run.input.providers) :
                 /\ Holders(organization', r.id) = {RowFor(OrganizationMapping(r.id), r.id)}
                 /\ \A a \in IdsOf(r) : Holders(attribution', a) = {a}
            /\ DOMAIN dataset' = DOMAIN dataset
       ELSE /\ \A r \in Parsed(run.input.datasets) :
                 Holders(dataset', r.id) = {RowFor(DatasetMapping(r.id), r.id)}
            /\ UNCHANGED <<organization, attribution>>]_vars

\* What the tables are like for the records there are, and for lookup tables of the mappings.
ProvidersMirror(t) ==
    LET records == Parsed(harvest.providers)
        TargetOf(i) == RowFor(Match(t, i), i)
    IN  /\ \A r \in records : Holders(organization, r.id) = {TargetOf(r.id)}
        /\ RowsOf(organization, Bod) \subseteq {TargetOf(r.id) : r \in records}
        /\ DOMAIN attribution = UNION {IdsOf(r) : r \in records}
        /\ \A r \in records : \A a \in IdsOf(r) :
             attribution[a].organization = TargetOf(r.id)
OwnerOf(u, r) ==
    LET m == Match(u, r.id)
    IN  IF IsMapped(m) THEN {m.target} ELSE {r.provider} \cap DOMAIN organization
DatasetsMirror(t, u) ==
    LET records == Parsed(harvest.datasets)
        TargetOf(i) == RowFor(MatchEnabled(t, i, "dataset"), i)
    IN  /\ RowsOf(dataset, Bod) \subseteq {TargetOf(r.id) : r \in records}
        /\ \A r \in records : Holders(dataset, r.id) = {TargetOf(r.id)}
        /\ \A d \in {TargetOf(r.id) : r \in records} :
             LET behind == {r \in records : TargetOf(r.id) = d}
             IN  /\ \E r \in behind : r.attribution \in DOMAIN attribution =>
                                       dataset[d].attribution = r.attribution
                 /\ \E r \in behind : OwnerOf(u, r) # {} =>
                                       {l.to : l \in Owners(d)} = OwnerOf(u, r)

\* The mappings of a part lead to rows that the part neither makes nor deletes.  A mapping to a
\* row it makes is followed by the run after the one that made it, for the tables of mappings
\* are read when a part starts.
LeadOut ==
    /\ \A m \in mappings.organization :
         m.target \in OrganizationIds => m.target \in ForeignOrganizations
    /\ \A m \in mappings.dataset : m.target \in DatasetIds => m.target \in ForeignDatasets

(* One run of all parts with --clean that ends brings the tables to what    *)
(* the harvest tables say, whatever was stopped or changed before it, as    *)
(* long as the mappings of a part lead out of what it makes.                *)
CompleteRun == End /\ run.complete
OneRunRepairs ==
    [][CompleteRun /\ LeadOut =>
         /\ \E t \in Tables(mappings.organization, DOMAIN organization) : ProvidersMirror(t)
         /\ \E t \in Tables(mappings.dataset, DOMAIN dataset),
               u \in Tables(mappings.unit, DOMAIN organization) : DatasetsMirror(t, u)]_vars
==============================================================================
