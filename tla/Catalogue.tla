------------------------------ MODULE Catalogue ------------------------------
(***************************************************************************)
(* The tables the imports write, and what the foreign keys between them    *)
(* make of a deletion.                                                     *)
(***************************************************************************)
EXTENDS SourceIds

CONSTANT None       \* NULL

VARIABLES
    organization,   \* organizations, each with its default unit
    attribution,    \* attributions
    contact,        \* contacts, a set: a contact has no key at the source
    dataset,        \* datasets with their links
    dataservice,    \* dataservices
    distribution    \* distributions

tables == <<organization, attribution, contact, dataset, dataservice, distribution>>

\* The columns of their rows.  text stands for all that is translated or described in words;
\* the links of a dataset are the rows that join it to units, to contacts and to the datasets
\* it is part of.
OrganizationRow(source, ids, text) == [source |-> source, ids |-> ids, text |-> text]
AttributionRow(source, ids, o) == [source |-> source, ids |-> ids, organization |-> o]
ContactRow(source, ids, o) == [source |-> source, ids |-> ids, organization |-> o]
DatasetRow(source, ids, text) ==
    [source |-> source, ids |-> ids, text |-> text, attribution |-> None, units |-> {},
     contacts |-> {}, partOf |-> {}, preferred |-> None]
UnitLink(role, o) == [role |-> role, to |-> o]
ContactLink(role, c) == [role |-> role, to |-> c]
DataserviceRow(source, ids) == [source |-> source, ids |-> ids]
DistributionRow(source, ids, topic, d, s) ==
    [source |-> source, ids |-> ids, topic |-> topic, dataset |-> d, dataservice |-> s,
     paint |-> None]

\* A dataservice has one distribution for a layer or collection.
LayerTaken(x, topic, s) ==
    \E y \in DOMAIN distribution \ {x} :
      distribution[y].dataservice = s /\ distribution[y].topic = topic

ContactTable == [c \in contact |-> c]
Table(kind) ==
    CASE kind = "organizations" -> organization
      [] kind = "attributions" -> attribution
      [] kind = "contacts" -> ContactTable
      [] kind = "datasets" -> dataset
      [] kind = "dataservices" -> dataservice
      [] kind = "distributions" -> distribution

\* CASCADE and SET_NULL: deleting organizations deletes their contacts, attributions and
\* units, the links of datasets to them included.
DeleteOrganizations(gone) ==
    LET unattributed == {a \in DOMAIN attribution : attribution[a].organization \in gone}
    IN  /\ organization' = Without(organization, gone)
        /\ attribution' = Without(attribution, unattributed)
        /\ contact' = {c \in contact : c.organization \notin gone}
        /\ dataset' = [d \in DOMAIN dataset |->
             [dataset[d] EXCEPT
                !.attribution = IF @ \in unattributed THEN None ELSE @,
                !.units = {l \in @ : l.to \notin gone},
                !.contacts = {l \in @ : l.to.organization \notin gone}]]
        /\ UNCHANGED <<dataservice, distribution>>

DeleteAttributions(gone) ==
    /\ attribution' = Without(attribution, gone)
    /\ dataset' = [d \in DOMAIN dataset |->
         [dataset[d] EXCEPT !.attribution = IF @ \in gone THEN None ELSE @]]
    /\ UNCHANGED <<organization, contact, dataservice, distribution>>

\* Slip: the links to the contacts stay.
DeleteContactsOnly(gone) ==
    /\ contact' = contact \ gone
    /\ UNCHANGED <<organization, attribution, dataset, dataservice, distribution>>

DeleteContacts(gone) ==
    /\ contact' = contact \ gone
    /\ dataset' = [d \in DOMAIN dataset |->
         [dataset[d] EXCEPT !.contacts = {l \in @ : l.to \notin gone}]]
    /\ UNCHANGED <<organization, attribution, dataservice, distribution>>

\* Slip: they stay the preferred ones of their datasets.
DeleteDistributionsOnly(gone) ==
    /\ distribution' = Without(distribution, gone)
    /\ UNCHANGED <<organization, attribution, contact, dataset, dataservice>>

DeleteDistributions(gone) ==
    /\ distribution' = Without(distribution, gone)
    /\ dataset' = [d \in DOMAIN dataset |->
         [dataset[d] EXCEPT !.preferred = IF @ \in gone THEN None ELSE @]]
    /\ UNCHANGED <<organization, attribution, contact, dataservice>>

DeleteDatasets(gone) ==
    LET lost == {x \in DOMAIN distribution : distribution[x].dataset \in gone}
    IN  /\ dataset' = [d \in DOMAIN dataset \ gone |->
             [dataset[d] EXCEPT !.partOf = @ \ gone,
                                !.preferred = IF @ \in lost THEN None ELSE @]]
        /\ distribution' = Without(distribution, lost)
        /\ UNCHANGED <<organization, attribution, contact, dataservice>>

DeleteDataservices(gone) ==
    /\ dataservice' = Without(dataservice, gone)
    /\ distribution' = [x \in DOMAIN distribution |->
         [distribution[x] EXCEPT !.dataservice = IF @ \in gone THEN None ELSE @]]
    /\ UNCHANGED <<organization, attribution, contact, dataset>>

\* Taking an id away from a contact changes the row the links of the datasets point to.
StripContacts(i) ==
    LET Stripped(c) == [c EXCEPT !.ids = @ \ {i}]
    IN  /\ contact' = {Stripped(c) : c \in contact}
        /\ dataset' = [d \in DOMAIN dataset |->
             [dataset[d] EXCEPT !.contacts = {[l EXCEPT !.to = Stripped(l.to)] : l \in @}]]
        /\ UNCHANGED <<organization, attribution, dataservice, distribution>>

StripId(kind, i) ==
    CASE kind = "organizations" ->
           /\ organization' = RemoveSourceId(organization, i)
           /\ UNCHANGED <<attribution, contact, dataset, dataservice, distribution>>
      [] kind = "attributions" ->
           /\ attribution' = RemoveSourceId(attribution, i)
           /\ UNCHANGED <<organization, contact, dataset, dataservice, distribution>>
      [] kind = "contacts" -> StripContacts(i)
      [] kind = "datasets" ->
           /\ dataset' = RemoveSourceId(dataset, i)
           /\ UNCHANGED <<organization, attribution, contact, dataservice, distribution>>
      [] kind = "dataservices" ->
           /\ dataservice' = RemoveSourceId(dataservice, i)
           /\ UNCHANGED <<organization, attribution, contact, dataset, distribution>>
      [] kind = "distributions" ->
           /\ distribution' = RemoveSourceId(distribution, i)
           /\ UNCHANGED <<organization, attribution, contact, dataset, dataservice>>

DeleteRow(kind, k) ==
    CASE kind = "organizations" -> DeleteOrganizations({k})
      [] kind = "attributions" -> DeleteAttributions({k})
      [] kind = "contacts" -> DeleteContacts({k})
      [] kind = "datasets" -> DeleteDatasets({k})
      [] kind = "dataservices" -> DeleteDataservices({k})
      [] kind = "distributions" -> DeleteDistributions({k})
==============================================================================
