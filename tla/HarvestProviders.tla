--------------------------- MODULE HarvestProviders ---------------------------
(***************************************************************************)
(* The part of the import from the harvest tables that makes organizations *)
(* and their attributions.  A table is a set of records; of one that does  *)
(* not parse the import learns nothing, its id neither.                    *)
(***************************************************************************)
EXTENDS ImportRun

\* A record of the organization table: its id, whether it parses, and its attributions.
ProviderRecord(i, parses, attributions) ==
    [id |-> i, parses |-> parses, attributions |-> attributions]

\* An id stands for a string in the table it is of: nothing compares the id of an attribution
\* with that of a provider, so that no value is both, and one set holds the processed ids the
\* code keeps in two.
Bod == "bod"

\* Slip: the attributions are not cleaned up.
EnterProvidersOnly ==
    /\ Entering("organizations") /\ UNCHANGED mappings
    /\ \E t \in Tables(mappings.organization, DOMAIN organization) :
         Enter("organizations", <<"organizations">>, [organization |-> t], run.input.providers)

EnterProviders ==
    /\ Entering("organizations") /\ UNCHANGED mappings
    /\ \E t \in Tables(mappings.organization, DOMAIN organization) :
         Enter("organizations", <<"organizations", "attributions">>, [organization |-> t],
               run.input.providers)

\* import_organization: the id is taken from all organizations, then the target saved with it,
\* then for each attribution likewise.
AttributionWork(ids) ==
    [n \in 1..(2 * Len(ids)) |->
       [op |-> IF n % 2 = 1 THEN "takeAttribution" ELSE "attribution", id |-> ids[(n + 1) \div 2]]]
ProviderWork(r) ==
    <<[op |-> "takeProvider", id |-> r.id], [op |-> "organization", id |-> r.id]>>
      \o AttributionWork(r.attributions)

IdsOf(r) == {r.attributions[n] : n \in DOMAIN r.attributions}
NextProvider ==
    /\ Ready("organizations") /\ UNCHANGED mappings
    /\ \E r \in run.todo :
         IF r.parses THEN TakeUp(r, {r.id} \cup IdsOf(r), ProviderWork(r))
         ELSE TakeUp(r, {}, <<>>)

\* Slip: organizations of other data sources keep the id.
TakeIdOfOwnRows ==
    /\ Doing("takeProvider") /\ Done /\ UNCHANGED mappings
    /\ SaveOrganizations([o \in DOMAIN organization |->
         [organization[o] EXCEPT !.ids = IF o \in RowsOf(organization, Bod) THEN @ \ {Op.id} ELSE @]])

TakeProviderId ==
    /\ Doing("takeProvider") /\ Done /\ UNCHANGED mappings
    /\ SaveOrganizations(RemoveSourceId(organization, Op.id))

\* organization_id is unique, whatever the data source.
SaveProvider ==
    /\ Doing("organization") /\ UNCHANGED mappings
    /\ LET p == Op.id
           m == OrganizationMapping(p)
           o == IF IsMapped(m) THEN m.target ELSE p
           new == OrganizationRow(Bod, {p}, "theirs")
       IN  \/ /\ o \in IF IsMapped(m) THEN DOMAIN organization ELSE RowsOf(organization, Bod)
              /\ SaveOrganizations(Put(organization, o,
                   AddSourceId(Harvested(organization[o], m), p)))
              /\ DoneWith(o)
           \/ /\ ~IsMapped(m) /\ o \notin DOMAIN organization
              /\ SaveOrganizations(Put(organization, o, new)) /\ DoneWith(o)
           \/ ~IsMapped(m) /\ o \in DOMAIN organization \ RowsOf(organization, Bod) /\ Raise

\* import_attributions: an attribution is looked for in the organization at hand only, while
\* attribution_id is unique among all.
TakeAttributionId ==
    /\ Doing("takeAttribution") /\ Done /\ UNCHANGED mappings
    /\ SaveAttributions(RemoveSourceId(attribution, Op.id))

OwnAttribution(a) ==
    a \in RowsOf(attribution, Bod) /\ attribution[a].organization = run.current
SaveAttribution ==
    /\ Doing("attribution") /\ UNCHANGED mappings
    /\ LET a == Op.id
           new == AttributionRow(Bod, {a}, run.current)
       IN  \/ /\ OwnAttribution(a) /\ Done
              /\ SaveAttributions(Put(attribution, a, AddSourceId(attribution[a], a)))
           \/ a \notin DOMAIN attribution /\ Done /\ SaveAttributions(Put(attribution, a, new))
           \/ a \in DOMAIN attribution /\ ~OwnAttribution(a) /\ Raise

ProviderStep ==
    \/ EnterProviders \/ NextProvider \/ TakeProviderId \/ SaveProvider
    \/ TakeAttributionId \/ SaveAttribution
==============================================================================
