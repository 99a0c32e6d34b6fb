------------------------- MODULE GeodiensteProviders -------------------------
(***************************************************************************)
(* The parts of the import from geodienste.ch that make organizations, the *)
(* attribution of the aggregates, and contacts.                            *)
(***************************************************************************)
EXTENDS ImportRun

CONSTANTS
    Aggregate,      \* the provider of the aggregates (KGK)
    Cantons,        \* the cantonal providers
    Brokers,        \* the other providers
    OrganizationId  \* the organization_id of a provider

Providers == {Aggregate} \cup Cantons \cup Brokers

ASSUME ProvidersAssumption ==
    /\ Aggregate \notin Cantons \cup Brokers /\ Cantons \cap Brokers = {}
    /\ DOMAIN OrganizationId = Providers
    /\ \A p, q \in Providers : OrganizationId[p] = OrganizationId[q] => p = q

Geodienste == "geodienste"

\* A service: the topic a provider offers, and the contacts it states, one for geodata and one
\* of a specialist.
ServiceRecord(p, topic, geo, specialist) ==
    [provider |-> p, topic |-> topic, geo |-> geo, specialist |-> specialist]

\* A provider's row: the organization it is mapped to, or its own, if there is one.
OwnRow(p) == RowsOf(organization, Geodienste) \cap {OrganizationId[p]}
Target(p) == IF IsMapped(OrganizationMapping(p)) THEN {OrganizationMapping(p).target} ELSE OwnRow(p)
-----------------------------------------------------------------------------
\* The aggregate provider, all cantons, then the brokers of the services.
EnterOrganizations ==
    /\ Entering("organizations") /\ UNCHANGED mappings
    /\ \E t \in Tables(mappings.organization, DOMAIN organization) :
         Enter("organizations", <<"organizations">>, [organization |-> t],
               {Aggregate} \cup Cantons
                 \cup ({s.provider : s \in run.input.services} \cap Brokers))

Before(p) ==
    CASE p = Aggregate -> {}
      [] p \in Cantons -> {Aggregate}
      [] OTHER -> {Aggregate} \cup Cantons
OrganizationWork(p) ==
    <<[op |-> "take", id |-> p], [op |-> "organization", id |-> p]>>
      \o IF p = Aggregate THEN <<[op |-> "attribution", id |-> p]>> ELSE <<>>
NextOrganization ==
    /\ Ready("organizations") /\ UNCHANGED mappings
    /\ \E p \in {q \in run.todo : run.todo \cap Before(q) = {}} :
         TakeUp(p, {p}, OrganizationWork(p))

\* Slip: it is taken from the provider's own organization only.
TakeIdOfOwnRow ==
    /\ Doing("take") /\ Done /\ UNCHANGED mappings
    /\ SaveOrganizations([o \in DOMAIN organization |->
         [organization[o] EXCEPT !.ids = IF o \in OwnRow(Op.id) THEN @ \ {Op.id} ELSE @]])

\* import_organization: the id is taken from whatever organization holds it, ...
TakeId ==
    /\ Doing("take") /\ Done /\ UNCHANGED mappings
    /\ SaveOrganizations(RemoveSourceId(organization, Op.id))

\* ... then given to the organization it belongs to; organization_id is unique.
ImportOrganization ==
    /\ Doing("organization") /\ UNCHANGED mappings
    /\ LET p == Op.id
           own == OrganizationId[p]
           new == OrganizationRow(Geodienste, {p}, "theirs")
       IN  \/ \E o \in Target(p) :
                /\ SaveOrganizations(Put(organization, o,
                     AddSourceId(Harvested(organization[o], OrganizationMapping(p)), p)))
                /\ DoneWith(o)
           \/ /\ Target(p) = {} /\ own \notin DOMAIN organization
              /\ SaveOrganizations(Put(organization, own, new))
              /\ DoneWith(own)
           \/ Target(p) = {} /\ own \in DOMAIN organization /\ Raise

\* import_attribution: the attribution of the aggregates, under the id of their provider;
\* attribution_id is unique.
ImportAttribution ==
    /\ Doing("attribution") /\ UNCHANGED mappings
    /\ LET p == Op.id
           a == OrganizationId[p]
           stripped == RemoveSourceId(attribution, p)
           new == AttributionRow(Geodienste, {p}, run.current)
       IN  \/ /\ a \in RowsOf(attribution, Geodienste) /\ Done
              /\ SaveAttributions(Put(stripped, a, AddSourceId(stripped[a], p)))
           \/ /\ a \notin DOMAIN attribution /\ Done
              /\ SaveAttributions(Put(stripped, a, new))
           \/ a \in DOMAIN attribution \ RowsOf(attribution, Geodienste) /\ Raise
-----------------------------------------------------------------------------
\* The contact of the aggregates, of a provider, and of a provider for a topic.
ContactTasks(services) ==
    {[id |-> <<Aggregate>>, provider |-> Aggregate]}
      \cup {[id |-> <<s.provider>>, provider |-> s.provider] :
              s \in {v \in services : v.geo}}
      \cup {[id |-> <<s.provider, s.topic>>, provider |-> s.provider] :
              s \in {v \in services : v.specialist}}

EnterContacts ==
    /\ Entering("contacts") /\ UNCHANGED mappings
    /\ \E t \in Tables(mappings.organization, DOMAIN organization) :
         Enter("contacts", <<"contacts">>, [organization |-> t], ContactTasks(run.input.services))

NextContact ==
    /\ Ready("contacts") /\ UNCHANGED mappings
    /\ \E t \in run.todo :
         TakeUp(t, {t.id}, <<[op |-> "saveContact", id |-> t.id, provider |-> t.provider]>>)

\* import_contact: nothing without an organization; an existing contact stays where it is.
ContactsOf(id) == {c \in contact : c.source = Geodienste /\ id \in c.ids}
NewContacts(id, p) ==
    IF ContactsOf(id) # {} THEN {}
    ELSE {ContactRow(Geodienste, {id}, o) : o \in Target(p)}
ImportContact ==
    /\ Doing("saveContact") /\ Done /\ UNCHANGED mappings
    /\ SaveContacts(contact \cup NewContacts(Op.id, Op.provider))

ProviderStep ==
    \/ EnterOrganizations \/ NextOrganization \/ TakeId \/ ImportOrganization
    \/ ImportAttribution
    \/ EnterContacts \/ NextContact \/ ImportContact
==============================================================================
