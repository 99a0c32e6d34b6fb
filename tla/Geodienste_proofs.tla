--------------------------- MODULE Geodienste_proofs ---------------------------
(***************************************************************************)
(* What the import from geodienste.ch keeps true of the catalogue whatever *)
(* the source publishes, staff map and the commands are stopped at: the    *)
(* columns and foreign keys of its tables, one row for each record, one    *)
(* link in each role, and the rows of other data sources.                  *)
(***************************************************************************)
EXTENDS Geodienste, ImportRun_proofs, SequenceTheorems

\* The rows each table may have.  The foreign keys point into the tables as they are.
DataSources == {Geodienste, "bod", "user-input"}
Texts == {"ours", "theirs"}
ContactIds == {<<p>> : p \in Providers} \cup Providers \X Topics
UnitLinks == [role : UnitRoles, to : DOMAIN organization]
ContactLinks == [role : ContactRoles, to : contact]
OrganizationRows == [source : DataSources, ids : SUBSET Providers, text : Texts]
AttributionRows ==
    [source : DataSources, ids : SUBSET Providers, organization : DOMAIN organization]
ContactRows == [source : DataSources, ids : SUBSET ContactIds, organization : DOMAIN organization]
DatasetRows ==
    [source : DataSources, ids : SUBSET (Providers \X Topics), text : Texts,
     attribution : DOMAIN attribution \cup {None}, units : SUBSET UnitLinks,
     contacts : SUBSET ContactLinks, partOf : SUBSET DOMAIN dataset,
     preferred : DOMAIN distribution \cup {None}]
DataserviceRows == [source : DataSources, ids : SUBSET Topics]
DistributionRows ==
    [source : DataSources, ids : SUBSET Topics, topic : Topics, dataset : DOMAIN dataset,
     dataservice : DOMAIN dataservice \cup {None}, paint : {None}]

Typed ==
    /\ organization \in [DOMAIN organization -> OrganizationRows]
    /\ attribution \in [DOMAIN attribution -> AttributionRows]
    /\ contact \subseteq ContactRows
    /\ dataset \in [DOMAIN dataset -> DatasetRows]
    /\ dataservice \in [DOMAIN dataservice -> DataserviceRows]
    /\ distribution \in [DOMAIN distribution -> DistributionRows]

\* Only contacts the import made have ids, and a dataset has only the ids its own id is made of.
OwnContact(c) == c.source = Geodienste \/ c.ids = {}
OwnIds(d, row) == \A i \in row.ids : d = DatasetId(i[1], i[2])
LinksSingle(row) ==
    /\ \A k, l \in row.units : k.role = l.role => k = l
    /\ \A k, l \in row.contacts : k.role = l.role => k = l
    /\ \A a, b \in row.partOf : a = b

ForeignRows ==
    /\ \A o \in ForeignOrganizations :
         o \in DOMAIN organization /\ organization[o].source # Geodienste
    /\ \A a \in ForeignAttributions :
         a \in DOMAIN attribution /\ attribution[a].organization \in ForeignOrganizations
    /\ \A d \in ForeignDatasets : d \in DOMAIN dataset /\ dataset[d].source # Geodienste

Stored ==
    /\ Typed /\ ForeignRows
    /\ OneHolder(organization) /\ OneHolder(ContactTable)
    /\ \A c \in contact : OwnContact(c)
    /\ \A d \in DOMAIN dataset : OwnIds(d, dataset[d]) /\ LinksSingle(dataset[d])

LEMMA StoredSays == Stored => TypeOK /\ OneRowPerRecord /\ OneLinkPerRole /\ ForeignSurvive
  <1> SUFFICES ASSUME Stored
               PROVE  TypeOK /\ OneRowPerRecord /\ OneLinkPerRole /\ ForeignSurvive
    OBVIOUS
  <1>1. Typed /\ ForeignRows
    BY DEF Stored
  <1>2. TypeOK
    <2>1. \A o \in DOMAIN organization : organization[o].ids \subseteq Providers
      BY <1>1 DEF Typed, OrganizationRows
    <2>2. \A c \in contact : /\ c.ids \subseteq ContactIds
                             /\ c.organization \in DOMAIN organization
      BY <1>1 DEF Typed, ContactRows
    <2>3. ASSUME NEW d \in DOMAIN dataset
          PROVE  /\ dataset[d].ids \subseteq Providers \X Topics
                 /\ dataset[d].attribution \in DOMAIN attribution \cup {None}
                 /\ dataset[d].preferred \in DOMAIN distribution \cup {None}
                 /\ dataset[d].partOf \subseteq DOMAIN dataset
                 /\ dataset[d].units \subseteq UnitLinks
                 /\ dataset[d].contacts \subseteq ContactLinks
      <3>1. dataset[d] \in DatasetRows
        BY <1>1 DEF Typed
      <3>2. QED
        BY <3>1 DEF DatasetRows
    <2>4. \A s \in DOMAIN dataservice : dataservice[s].ids \subseteq Topics
      BY <1>1 DEF Typed, DataserviceRows
    <2>5. \A x \in DOMAIN distribution :
            /\ distribution[x].ids \subseteq Topics
            /\ distribution[x].dataset \in DOMAIN dataset
            /\ distribution[x].dataservice \in DOMAIN dataservice \cup {None}
      BY <1>1 DEF Typed, DistributionRows
    <2>6. \A a \in DOMAIN attribution : attribution[a].organization \in DOMAIN organization
      BY <1>1 DEF Typed, AttributionRows
    <2>7. ASSUME NEW kind \in {"organizations", "contacts", "datasets", "dataservices",
                               "distributions"},
                 NEW k \in DOMAIN Table(kind)
          PROVE  Table(kind)[k].ids \subseteq SourceIdOf(kind)
      <3>1. CASE kind = "organizations"
        BY <2>1, <2>7, <3>1 DEF Table, SourceIdOf
      <3>2. CASE kind = "contacts"
        BY <2>2, <2>7, <3>2 DEF Table, SourceIdOf, ContactTable, ContactIds
      <3>3. CASE kind = "datasets"
        BY <2>3, <2>7, <3>3 DEF Table, SourceIdOf
      <3>4. CASE kind = "dataservices"
        BY <2>4, <2>7, <3>4 DEF Table, SourceIdOf
      <3>5. CASE kind = "distributions"
        BY <2>5, <2>7, <3>5 DEF Table, SourceIdOf
      <3>6. QED
        BY <3>1, <3>2, <3>3, <3>4, <3>5
    <2>8. QED
      BY <2>2, <2>3, <2>5, <2>6, <2>7 DEF TypeOK, UnitLinks, ContactLinks
  <1>3. OneRowPerRecord
    BY DEF Stored, OneRowPerRecord, OneHolder, OwnIds
  <1>4. OneLinkPerRole
    BY DEF Stored, OneLinkPerRole, LinksSingle
  <1>5. ForeignSurvive
    BY <1>1 DEF ForeignRows, ForeignSurvive
  <1>6. QED
    BY <1>2, <1>3, <1>4, <1>5

LEMMA InitStored == Init => Stored
  <1> SUFFICES ASSUME Init PROVE Stored
    OBVIOUS
  <1>1. /\ organization = [o \in ForeignOrganizations |-> OrganizationRow("bod", {}, "ours")]
        /\ attribution = [a \in ForeignAttributions |-> AttributionRow("bod", {}, a)]
        /\ contact = {ContactRow("user-input", {}, o) : o \in ForeignOrganizations}
        /\ dataset = [d \in ForeignDatasets |-> DatasetRow("bod", {}, "ours")]
    BY DEF Init
  <1>2. DOMAIN organization = ForeignOrganizations
    BY <1>1
  <1>3. organization \in [DOMAIN organization -> OrganizationRows]
    <2>1. OrganizationRow("bod", {}, "ours") \in OrganizationRows
      BY DEF OrganizationRow, OrganizationRows, DataSources, Texts
    <2>2. QED
      BY <1>1, <2>1
  <1>4. /\ attribution \in [DOMAIN attribution -> AttributionRows]
        /\ contact \subseteq ContactRows
    <2>1. ASSUME NEW o \in ForeignOrganizations
          PROVE  /\ AttributionRow("bod", {}, o) \in AttributionRows
                 /\ ContactRow("user-input", {}, o) \in ContactRows
      BY <1>2 DEF AttributionRow, AttributionRows, ContactRow, ContactRows, DataSources
    <2>2. QED
      BY <1>1, <2>1, ForeignAssumption
  <1>5. dataset \in [DOMAIN dataset -> DatasetRows]
    <2>1. DatasetRow("bod", {}, "ours") \in DatasetRows
      <3>1. {} \subseteq Providers \X Topics /\ {} \subseteq UnitLinks /\ {} \subseteq ContactLinks
        OBVIOUS
      <3>2. QED
        BY <3>1 DEF DatasetRow, DatasetRows, DataSources, Texts
    <2>2. QED
      BY <1>1, <2>1
  <1>6. /\ dataservice \in [DOMAIN dataservice -> DataserviceRows]
        /\ distribution \in [DOMAIN distribution -> DistributionRows]
    BY DEF Init
  <1>7. Typed
    BY <1>3, <1>4, <1>5, <1>6 DEF Typed
  <1>8. ForeignRows
    <2>1. "bod" # Geodienste
      BY DEF Geodienste
    <2>2. QED
      BY <1>1, <2>1, ForeignAssumption
         DEF ForeignRows, OrganizationRow, AttributionRow, DatasetRow
  <1>9. /\ OneHolder(organization) /\ OneHolder(ContactTable)
        /\ \A c \in contact : OwnContact(c)
    <2>1. /\ \A o \in DOMAIN organization : organization[o].ids = {}
          /\ \A c \in contact : c.ids = {}
      BY <1>1 DEF OrganizationRow, ContactRow
    <2>2. QED
      BY <2>1 DEF OneHolder, ContactTable, OwnContact
  <1>10. \A d \in DOMAIN dataset : OwnIds(d, dataset[d]) /\ LinksSingle(dataset[d])
    BY <1>1 DEF OwnIds, LinksSingle, DatasetRow
  <1>11. QED
    BY <1>7, <1>8, <1>9, <1>10 DEF Stored

-----------------------------------------------------------------------------
(***************************************************************************)
(* Saving rows.  Tables only grow by it, so that what pointed to a row     *)
(* still does.                                                             *)
(***************************************************************************)
Grow ==
    /\ DOMAIN organization \subseteq DOMAIN organization'
    /\ DOMAIN attribution \subseteq DOMAIN attribution'
    /\ contact \subseteq contact'
    /\ DOMAIN dataset \subseteq DOMAIN dataset'
    /\ DOMAIN dataservice \subseteq DOMAIN dataservice'
    /\ DOMAIN distribution \subseteq DOMAIN distribution'

LEMMA RowsGrow ==
  ASSUME Grow
  PROVE  /\ OrganizationRows \subseteq OrganizationRows'
         /\ AttributionRows \subseteq AttributionRows'
         /\ ContactRows \subseteq ContactRows'
         /\ DatasetRows \subseteq DatasetRows'
         /\ DataserviceRows \subseteq DataserviceRows'
         /\ DistributionRows \subseteq DistributionRows'
  <1>1. UnitLinks \subseteq UnitLinks' /\ ContactLinks \subseteq ContactLinks'
    BY DEF Grow, UnitLinks, ContactLinks
  <1>2. DatasetRows \subseteq DatasetRows'
    <2> SUFFICES ASSUME NEW r \in DatasetRows
                 PROVE  r \in DatasetRows'
      OBVIOUS
    <2>1. /\ r = [source |-> r.source, ids |-> r.ids, text |-> r.text,
                  attribution |-> r.attribution, units |-> r.units, contacts |-> r.contacts,
                  partOf |-> r.partOf, preferred |-> r.preferred]
          /\ r.source \in DataSources /\ r.ids \subseteq Providers \X Topics /\ r.text \in Texts
          /\ r.attribution \in DOMAIN attribution \cup {None} /\ r.units \subseteq UnitLinks
          /\ r.contacts \subseteq ContactLinks /\ r.partOf \subseteq DOMAIN dataset
          /\ r.preferred \in DOMAIN distribution \cup {None}
      BY DEF DatasetRows
    <2>2. /\ r.attribution \in DOMAIN attribution' \cup {None} /\ r.units \subseteq UnitLinks'
          /\ r.contacts \subseteq ContactLinks' /\ r.partOf \subseteq DOMAIN dataset'
          /\ r.preferred \in DOMAIN distribution' \cup {None}
      BY <1>1, <2>1 DEF Grow
    <2>3. QED
      BY <2>1, <2>2 DEF DatasetRows
  <1>3. QED
    BY <1>2 DEF Grow, OrganizationRows, AttributionRows, ContactRows, DataserviceRows,
                DistributionRows

\* A table with one row more, or another one, is of the same rows.
LEMMA PutTyped ==
  ASSUME NEW table, NEW R, NEW S, R \subseteq S, table \in [DOMAIN table -> R],
         NEW key, NEW row \in S
  PROVE  /\ Put(table, key, row) \in [DOMAIN Put(table, key, row) -> S]
         /\ DOMAIN table \subseteq DOMAIN Put(table, key, row)
         /\ key \in DOMAIN Put(table, key, row) /\ Put(table, key, row)[key] = row
         /\ \A k \in DOMAIN table \ {key} : Put(table, key, row)[k] = table[k]
         /\ \A k \in DOMAIN Put(table, key, row) : k = key \/ k \in DOMAIN table
  BY DEF Put

\* What does not change is still typed.
LEMMA OthersTyped ==
  ASSUME Typed, Grow
  PROVE  /\ organization' = organization =>
               organization' \in [DOMAIN organization' -> OrganizationRows']
         /\ attribution' = attribution =>
               attribution' \in [DOMAIN attribution' -> AttributionRows']
         /\ contact' = contact => contact' \subseteq ContactRows'
         /\ dataset' = dataset => dataset' \in [DOMAIN dataset' -> DatasetRows']
         /\ dataservice' = dataservice =>
               dataservice' \in [DOMAIN dataservice' -> DataserviceRows']
         /\ distribution' = distribution =>
               distribution' \in [DOMAIN distribution' -> DistributionRows']
  <1>1. /\ organization \in [DOMAIN organization -> OrganizationRows]
        /\ attribution \in [DOMAIN attribution -> AttributionRows]
        /\ contact \subseteq ContactRows
        /\ dataset \in [DOMAIN dataset -> DatasetRows]
        /\ dataservice \in [DOMAIN dataservice -> DataserviceRows]
        /\ distribution \in [DOMAIN distribution -> DistributionRows]
    BY DEF Typed
  <1>2. ASSUME NEW f, NEW R, NEW S, f \in [DOMAIN f -> R], R \subseteq S
        PROVE  f \in [DOMAIN f -> S]
    BY <1>2
  <1>3. /\ organization \in [DOMAIN organization -> OrganizationRows']
        /\ attribution \in [DOMAIN attribution -> AttributionRows']
        /\ contact \subseteq ContactRows'
        /\ dataset \in [DOMAIN dataset -> DatasetRows']
        /\ dataservice \in [DOMAIN dataservice -> DataserviceRows']
        /\ distribution \in [DOMAIN distribution -> DistributionRows']
    BY <1>1, <1>2, RowsGrow, Zenon
  <1>4. QED
    BY <1>3

LEMMA OrganizationsSaved ==
  ASSUME Stored, NEW new, SaveOrganizations(new), new \in [DOMAIN new -> OrganizationRows],
         DOMAIN organization \subseteq DOMAIN new, OneHolder(new),
         \A o \in ForeignOrganizations : new[o].source # Geodienste
  PROVE  Stored' /\ Grow
  <1>1. /\ organization' = new
        /\ UNCHANGED <<attribution, contact, dataset, dataservice, distribution>>
    BY DEF SaveOrganizations
  <1>2. Grow
    BY <1>1 DEF Grow
  <1>3. Typed'
    <2>1. OrganizationRows' = OrganizationRows
      BY DEF OrganizationRows
    <2>2. QED
      BY <1>1, <1>2, <2>1, OthersTyped DEF Stored, Typed
  <1>4. ForeignRows'
    BY <1>1 DEF Stored, ForeignRows
  <1>5. QED
    BY <1>1, <1>2, <1>3, <1>4 DEF Stored, ContactTable, OwnContact

LEMMA AttributionsSaved ==
  ASSUME Stored, NEW new, SaveAttributions(new), new \in [DOMAIN new -> AttributionRows],
         DOMAIN attribution \subseteq DOMAIN new,
         \A a \in ForeignAttributions : new[a].organization \in ForeignOrganizations
  PROVE  Stored' /\ Grow
  <1>1. /\ attribution' = new
        /\ UNCHANGED <<organization, contact, dataset, dataservice, distribution>>
    BY DEF SaveAttributions
  <1>2. Grow
    BY <1>1 DEF Grow
  <1>3. Typed'
    <2>1. AttributionRows' = AttributionRows
      BY <1>1 DEF AttributionRows
    <2>2. QED
      BY <1>1, <1>2, <2>1, OthersTyped DEF Stored, Typed
  <1>4. ForeignRows'
    BY <1>1 DEF Stored, ForeignRows
  <1>5. QED
    BY <1>1, <1>2, <1>3, <1>4 DEF Stored, ContactTable, OwnContact

LEMMA ContactsSaved ==
  ASSUME Stored, NEW new, SaveContacts(new), new \subseteq ContactRows, contact \subseteq new,
         OneHolder([c \in new |-> c]), \A c \in new : OwnContact(c)
  PROVE  Stored' /\ Grow
  <1>1. /\ contact' = new
        /\ UNCHANGED <<organization, attribution, dataset, dataservice, distribution>>
    BY DEF SaveContacts
  <1>2. Grow
    BY <1>1 DEF Grow
  <1>3. Typed'
    <2>1. ContactRows' = ContactRows
      BY <1>1 DEF ContactRows
    <2>2. QED
      BY <1>1, <1>2, <2>1, OthersTyped DEF Stored, Typed
  <1>4. ForeignRows'
    BY <1>1 DEF Stored, ForeignRows
  <1>5. QED
    BY <1>1, <1>2, <1>3, <1>4 DEF Stored, ContactTable, OwnContact

LEMMA DatasetSaved ==
  ASSUME Stored, NEW d, NEW row \in DatasetRows, SaveDataset(d, row),
         OwnIds(d, row), LinksSingle(row), d \in ForeignDatasets => row.source # Geodienste
  PROVE  Stored' /\ Grow /\ DOMAIN dataset' = DOMAIN dataset \cup {d}
  <1>1. /\ dataset' = Put(dataset, d, row)
        /\ UNCHANGED <<organization, attribution, contact, dataservice, distribution>>
    BY DEF SaveDataset, SaveDatasets
  <1>2. /\ DOMAIN dataset' = DOMAIN dataset \cup {d} /\ dataset'[d] = row
        /\ \A e \in DOMAIN dataset \ {d} : dataset'[e] = dataset[e]
    BY <1>1 DEF Put
  <1>3. Grow
    BY <1>1, <1>2 DEF Grow
  <1>4. Typed'
    <2>1. DatasetRows \subseteq DatasetRows'
      BY <1>3, RowsGrow
    <2>2. dataset \in [DOMAIN dataset -> DatasetRows]
      BY DEF Stored, Typed
    <2>3. dataset' \in [DOMAIN dataset' -> DatasetRows']
      BY <1>1, <2>1, <2>2, PutTyped
    <2>4. QED
      BY <1>1, <1>3, <2>3, OthersTyped DEF Stored, Typed
  <1>5. ForeignRows'
    BY <1>1, <1>2 DEF Stored, ForeignRows
  <1>6. \A e \in DOMAIN dataset' : OwnIds(e, dataset'[e]) /\ LinksSingle(dataset'[e])
    BY <1>2 DEF Stored
  <1>7. QED
    BY <1>1, <1>2, <1>3, <1>4, <1>5, <1>6 DEF Stored, ContactTable, OwnContact

LEMMA DataservicesSaved ==
  ASSUME Stored, NEW new, SaveDataservices(new), new \in [DOMAIN new -> DataserviceRows],
         DOMAIN dataservice \subseteq DOMAIN new
  PROVE  Stored' /\ Grow
  <1>1. /\ dataservice' = new
        /\ UNCHANGED <<organization, attribution, contact, dataset, distribution>>
    BY DEF SaveDataservices
  <1>2. Grow
    BY <1>1 DEF Grow
  <1>3. Typed'
    <2>1. DataserviceRows' = DataserviceRows
      BY DEF DataserviceRows
    <2>2. QED
      BY <1>1, <1>2, <2>1, OthersTyped DEF Stored, Typed
  <1>4. ForeignRows'
    BY <1>1 DEF Stored, ForeignRows
  <1>5. QED
    BY <1>1, <1>2, <1>3, <1>4 DEF Stored, ContactTable, OwnContact

LEMMA DistributionsSaved ==
  ASSUME Stored, NEW new, SaveDistributions(new), new \in [DOMAIN new -> DistributionRows],
         DOMAIN distribution \subseteq DOMAIN new
  PROVE  Stored' /\ Grow
  <1>1. /\ distribution' = new
        /\ UNCHANGED <<organization, attribution, contact, dataset, dataservice>>
    BY DEF SaveDistributions
  <1>2. Grow
    BY <1>1 DEF Grow
  <1>3. Typed'
    <2>1. DistributionRows' = DistributionRows
      BY <1>1 DEF DistributionRows
    <2>2. QED
      BY <1>1, <1>2, <2>1, OthersTyped DEF Stored, Typed
  <1>4. ForeignRows'
    BY <1>1 DEF Stored, ForeignRows
  <1>5. QED
    BY <1>1, <1>2, <1>3, <1>4 DEF Stored, ContactTable, OwnContact

LEMMA NothingSaved ==
  ASSUME Stored, UNCHANGED tables
  PROVE  Stored' /\ Grow
  <1>1. Grow
    BY DEF tables, Grow
  <1>2. Typed'
    BY <1>1, OthersTyped DEF Stored, Typed, tables
  <1>3. QED
    BY <1>1, <1>2 DEF Stored, ForeignRows, ContactTable, OwnContact, tables

-----------------------------------------------------------------------------
(***************************************************************************)
(* The cleanup.  It takes ids away and deletes rows of its own data source, *)
(* and the foreign keys to what is deleted go with it.                     *)
(***************************************************************************)
KindsOfRows == {"organizations", "contacts", "datasets", "dataservices", "distributions"}

\* Datasets that lose ids and links, or are gone.
LEMMA DatasetsTrimmed ==
  ASSUME Stored, NEW D, D \subseteq DOMAIN dataset, ForeignDatasets \subseteq D,
         dataset' = [d \in D |-> dataset'[d]],
         \A d \in D : /\ dataset'[d] \in DatasetRows'
                      /\ dataset'[d].source = dataset[d].source
                      /\ dataset'[d].ids \subseteq dataset[d].ids
                      /\ dataset'[d].units \subseteq dataset[d].units
                      /\ dataset'[d].partOf \subseteq dataset[d].partOf
                      /\ \A k, l \in dataset'[d].contacts : k.role = l.role => k = l
  PROVE  /\ dataset' \in [DOMAIN dataset' -> DatasetRows']
         /\ \A d \in ForeignDatasets : d \in DOMAIN dataset' /\ dataset'[d].source # Geodienste
         /\ \A d \in DOMAIN dataset' : OwnIds(d, dataset'[d]) /\ LinksSingle(dataset'[d])
  <1>1. DOMAIN dataset' = D
    OBVIOUS
  <1>2. /\ \A d \in DOMAIN dataset : OwnIds(d, dataset[d]) /\ LinksSingle(dataset[d])
        /\ \A d \in ForeignDatasets : d \in DOMAIN dataset /\ dataset[d].source # Geodienste
    BY DEF Stored, ForeignRows
  <1>3. ASSUME NEW d \in D
        PROVE  OwnIds(d, dataset'[d]) /\ LinksSingle(dataset'[d])
    BY <1>2 DEF OwnIds, LinksSingle
  <1>4. QED
    BY <1>1, <1>2, <1>3

\* What a row of the datasets is made of, before and after a step.
LEMMA DatasetFields ==
  ASSUME NEW r \in DatasetRows
  PROVE  /\ DOMAIN r = {"source", "ids", "text", "attribution", "units", "contacts", "partOf",
                        "preferred"}
         /\ r = [source |-> r.source, ids |-> r.ids, text |-> r.text,
                 attribution |-> r.attribution, units |-> r.units, contacts |-> r.contacts,
                 partOf |-> r.partOf, preferred |-> r.preferred]
         /\ r.source \in DataSources /\ r.ids \subseteq Providers \X Topics /\ r.text \in Texts
         /\ r.attribution \in DOMAIN attribution \cup {None} /\ r.units \subseteq UnitLinks
         /\ r.contacts \subseteq ContactLinks /\ r.partOf \subseteq DOMAIN dataset
         /\ r.preferred \in DOMAIN distribution \cup {None}
  BY DEF DatasetRows

LEMMA DatasetRowAfter ==
  ASSUME NEW source \in DataSources, NEW ids, ids \subseteq Providers \X Topics,
         NEW text \in Texts, NEW a \in DOMAIN attribution' \cup {None},
         NEW units, units \subseteq UnitLinks', NEW contacts, contacts \subseteq ContactLinks',
         NEW parts, parts \subseteq DOMAIN dataset', NEW x \in DOMAIN distribution' \cup {None}
  PROVE  [source |-> source, ids |-> ids, text |-> text, attribution |-> a, units |-> units,
          contacts |-> contacts, partOf |-> parts, preferred |-> x] \in DatasetRows'
  BY DEF DatasetRows

LEMMA StripOrganizations ==
  ASSUME Stored, NEW i, SaveOrganizations(RemoveSourceId(organization, i))
  PROVE  Stored' /\ Grow /\ Holders(organization', i) = {}
  <1> DEFINE new == RemoveSourceId(organization, i)
  <1>1. organization \in [DOMAIN organization -> OrganizationRows]
    BY DEF Stored, Typed
  <1>2. \A o \in DOMAIN organization : organization[o] \in OrganizationRows
    BY <1>1
  <1>3. Rows(organization)
    BY <1>2 DEF Rows, OrganizationRows
  <1>4. OneHolder(new) /\ Holders(new, i) = {} /\ DOMAIN new = DOMAIN organization
    BY <1>3, RemovedId DEF Stored
  <1>5. ASSUME NEW o \in DOMAIN organization
        PROVE  new[o] \in OrganizationRows /\ new[o].source = organization[o].source
    <2>1. new[o] = [organization[o] EXCEPT !.ids = @ \ {i}]
      BY DEF RemoveSourceId
    <2>2. organization[o] \in OrganizationRows
      BY <1>2
    <2> HIDE DEF new
    <2>3. QED
      BY <2>1, <2>2 DEF OrganizationRows
  <1>6. new \in [DOMAIN new -> OrganizationRows]
    <2>1. new = [o \in DOMAIN organization |-> new[o]]
      BY DEF RemoveSourceId
    <2> HIDE DEF new
    <2>2. QED
      BY <1>4, <1>5, <2>1
  <1>7. \A o \in ForeignOrganizations : new[o].source # Geodienste
    BY <1>5 DEF Stored, ForeignRows
  <1>8. organization' = new /\ SaveOrganizations(new)
    BY DEF SaveOrganizations
  <1> HIDE DEF new
  <1>9. QED
    BY <1>4, <1>6, <1>7, <1>8, OrganizationsSaved

LEMMA StripDatasets ==
  ASSUME Stored, NEW i, dataset' = RemoveSourceId(dataset, i),
         UNCHANGED <<organization, attribution, contact, dataservice, distribution>>
  PROVE  Stored'
  <1>1. /\ dataset' = [d \in DOMAIN dataset |-> dataset'[d]]
        /\ DOMAIN dataset' = DOMAIN dataset
        /\ \A d \in DOMAIN dataset : dataset'[d] = [dataset[d] EXCEPT !.ids = @ \ {i}]
    BY DEF RemoveSourceId
  <1>2. DatasetRows' = DatasetRows
    BY <1>1 DEF DatasetRows, UnitLinks, ContactLinks
  <1>3. ASSUME NEW d \in DOMAIN dataset
        PROVE  /\ dataset'[d] \in DatasetRows'
               /\ dataset'[d].source = dataset[d].source
               /\ dataset'[d].ids \subseteq dataset[d].ids
               /\ dataset'[d].units \subseteq dataset[d].units
               /\ dataset'[d].partOf \subseteq dataset[d].partOf
               /\ \A k, l \in dataset'[d].contacts : k.role = l.role => k = l
    <2>1. dataset[d] \in DatasetRows /\ dataset'[d] = [dataset[d] EXCEPT !.ids = @ \ {i}]
      BY <1>1 DEF Stored, Typed
    <2>2. dataset'[d] \in DatasetRows
      BY <2>1 DEF DatasetRows
    <2>3. LinksSingle(dataset[d])
      BY DEF Stored
    <2>4. QED
      BY <1>2, <2>1, <2>2, <2>3, DatasetFields DEF LinksSingle
  <1>4. ForeignDatasets \subseteq DOMAIN dataset
    BY DEF Stored, ForeignRows
  <1>5. /\ dataset' \in [DOMAIN dataset' -> DatasetRows']
        /\ \A d \in ForeignDatasets : d \in DOMAIN dataset' /\ dataset'[d].source # Geodienste
        /\ \A d \in DOMAIN dataset' : OwnIds(d, dataset'[d]) /\ LinksSingle(dataset'[d])
    BY <1>1, <1>3, <1>4, DatasetsTrimmed, Zenon
  <1>6. Typed'
    <2>1. Grow
      BY <1>1 DEF Grow
    <2>2. QED
      BY <1>5, <2>1, OthersTyped DEF Stored, Typed
  <1>7. QED
    BY <1>5, <1>6 DEF Stored, ForeignRows, ContactTable, OwnContact

LEMMA StripContactsKeeps ==
  ASSUME Stored, NEW i, StripContacts(i)
  PROVE  Stored'
  <1> DEFINE Stripped(c) == [c EXCEPT !.ids = @ \ {i}]
  <1>1. /\ contact' = {Stripped(c) : c \in contact}
        /\ dataset' = [d \in DOMAIN dataset |->
             [dataset[d] EXCEPT !.contacts = {[l EXCEPT !.to = Stripped(l.to)] : l \in @}]]
        /\ UNCHANGED <<organization, attribution, dataservice, distribution>>
    BY DEF StripContacts
  <1>2. \A c \in contact : c \in ContactRows /\ OwnContact(c)
    BY DEF Stored, Typed
  <1>3. ASSUME NEW c \in contact
        PROVE  /\ Stripped(c) \in ContactRows /\ OwnContact(Stripped(c))
               /\ Stripped(c).ids = c.ids \ {i}
    BY <1>2 DEF ContactRows, OwnContact
  <1> HIDE DEF Stripped
  <1>4. /\ contact' \subseteq ContactRows
        /\ \A c \in contact' : OwnContact(c)
    BY <1>1, <1>3
  <1>5. OneHolder(ContactTable)'
    <2>1. ASSUME NEW c \in contact', NEW e \in contact', c.ids \cap e.ids # {}
          PROVE  c = e
      <3>1. PICK c0 \in contact, e0 \in contact : c = Stripped(c0) /\ e = Stripped(e0)
        BY <1>1
      <3>2. c0.ids \cap e0.ids # {}
        BY <1>3, <2>1, <3>1
      <3>3. c0 = e0
        BY <3>2 DEF Stored, OneHolder, ContactTable
      <3>4. QED
        BY <3>1, <3>3
    <2>2. QED
      BY <2>1 DEF OneHolder, ContactTable
  <1>6. ASSUME NEW d \in DOMAIN dataset
        PROVE  /\ dataset'[d] \in DatasetRows'
               /\ dataset'[d].source = dataset[d].source
               /\ dataset'[d].ids \subseteq dataset[d].ids
               /\ dataset'[d].units \subseteq dataset[d].units
               /\ dataset'[d].partOf \subseteq dataset[d].partOf
               /\ \A k, l \in dataset'[d].contacts : k.role = l.role => k = l
    <2> DEFINE r == dataset[d]
               Moved(l) == [l EXCEPT !.to = Stripped(l.to)]
               moved == {Moved(l) : l \in r.contacts}
    <2>1. r \in DatasetRows
      BY DEF Stored, Typed
    <2>2. dataset'[d] = [r EXCEPT !.contacts = moved]
      BY <1>1
    <2>3. \A l \in r.contacts : /\ l \in ContactLinks /\ Moved(l).role = l.role
                                /\ Moved(l) \in ContactLinks'
      <3>1. \A l \in r.contacts : l \in ContactLinks
        BY <2>1, DatasetFields
      <3>2. \A c \in contact : Stripped(c) \in contact'
        BY <1>1
      <3> HIDE DEF r
      <3>3. QED
        BY <3>1, <3>2 DEF ContactLinks
    <2>4. moved \subseteq ContactLinks'
      BY <2>3
    <2>5. \A k, l \in moved : k.role = l.role => k = l
      <3>1. \A k, l \in r.contacts : k.role = l.role => k = l
        BY DEF Stored, LinksSingle
      <3> HIDE DEF Moved, r
      <3>2. QED
        BY <2>3, <3>1
    <2> HIDE DEF moved, Moved
    <2> DEFINE new == [source |-> r.source, ids |-> r.ids, text |-> r.text,
                       attribution |-> r.attribution, units |-> r.units, contacts |-> moved,
                       partOf |-> r.partOf, preferred |-> r.preferred]
    <2>6. dataset'[d] = new
      <3>1. r = [source |-> r.source, ids |-> r.ids, text |-> r.text,
                 attribution |-> r.attribution, units |-> r.units, contacts |-> r.contacts,
                 partOf |-> r.partOf, preferred |-> r.preferred]
        BY <2>1, DatasetFields, Zenon
      <3> HIDE DEF r
      <3>2. QED
        BY <2>2, <3>1
    <2>7. new \in DatasetRows'
      <3>1. /\ r.source \in DataSources /\ r.ids \subseteq Providers \X Topics /\ r.text \in Texts
            /\ r.attribution \in DOMAIN attribution \cup {None} /\ r.units \subseteq UnitLinks
            /\ r.partOf \subseteq DOMAIN dataset /\ r.preferred \in DOMAIN distribution \cup {None}
        BY <2>1, DatasetFields
      <3>2. DOMAIN dataset' = DOMAIN dataset /\ UnitLinks' = UnitLinks
        BY <1>1 DEF UnitLinks
      <3> HIDE DEF r
      <3>3. QED
        BY <1>1, <2>4, <3>1, <3>2 DEF DatasetRows
    <2>8. QED
      BY <2>5, <2>6, <2>7
  <1>7. /\ dataset' = [d \in DOMAIN dataset |-> dataset'[d]]
        /\ ForeignDatasets \subseteq DOMAIN dataset
    <2>1. dataset' = [d \in DOMAIN dataset |-> dataset'[d]]
      BY <1>1
    <2>2. QED
      BY <2>1 DEF Stored, ForeignRows
  <1>8. /\ dataset' \in [DOMAIN dataset' -> DatasetRows']
        /\ \A d \in ForeignDatasets : d \in DOMAIN dataset' /\ dataset'[d].source # Geodienste
        /\ \A d \in DOMAIN dataset' : OwnIds(d, dataset'[d]) /\ LinksSingle(dataset'[d])
    BY <1>6, <1>7, DatasetsTrimmed, Zenon
  <1>9. Typed'
    <2>1. DOMAIN dataset' = DOMAIN dataset
      BY <1>7
    <2>2. /\ OrganizationRows' = OrganizationRows /\ AttributionRows' = AttributionRows
          /\ ContactRows' = ContactRows /\ DataserviceRows' = DataserviceRows
          /\ DistributionRows' = DistributionRows
      BY <1>1, <2>1 DEF OrganizationRows, AttributionRows, ContactRows, DataserviceRows,
                        DistributionRows
    <2>3. QED
      BY <1>1, <1>4, <1>8, <2>2 DEF Stored, Typed
  <1>10. QED
    BY <1>1, <1>4, <1>5, <1>8, <1>9 DEF Stored, ForeignRows

LEMMA StripServed ==
  ASSUME Stored, NEW i,
         \/ SaveDataservices(RemoveSourceId(dataservice, i))
         \/ SaveDistributions(RemoveSourceId(distribution, i))
  PROVE  Stored'
  <1>1. CASE SaveDataservices(RemoveSourceId(dataservice, i))
    <2> DEFINE new == RemoveSourceId(dataservice, i)
    <2>1. new = [k \in DOMAIN dataservice |-> [dataservice[k] EXCEPT !.ids = @ \ {i}]]
      BY DEF RemoveSourceId
    <2>2. \A k \in DOMAIN dataservice : dataservice[k] \in DataserviceRows
      BY DEF Stored, Typed
    <2>3. \A k \in DOMAIN dataservice : [dataservice[k] EXCEPT !.ids = @ \ {i}] \in DataserviceRows
      BY <2>2 DEF DataserviceRows
    <2> HIDE DEF new
    <2>4. DOMAIN new = DOMAIN dataservice /\ new \in [DOMAIN new -> DataserviceRows]
      BY <2>1, <2>3
    <2>5. QED
      BY <1>1, <2>4, DataservicesSaved DEF new
  <1>2. CASE SaveDistributions(RemoveSourceId(distribution, i))
    <2> DEFINE new == RemoveSourceId(distribution, i)
    <2>1. new = [k \in DOMAIN distribution |-> [distribution[k] EXCEPT !.ids = @ \ {i}]]
      BY DEF RemoveSourceId
    <2>2. \A k \in DOMAIN distribution : distribution[k] \in DistributionRows
      BY DEF Stored, Typed
    <2>3. \A k \in DOMAIN distribution :
            [distribution[k] EXCEPT !.ids = @ \ {i}] \in DistributionRows
      BY <2>2 DEF DistributionRows
    <2> HIDE DEF new
    <2>4. DOMAIN new = DOMAIN distribution /\ new \in [DOMAIN new -> DistributionRows]
      BY <2>1, <2>3
    <2>5. QED
      BY <1>2, <2>4, DistributionsSaved DEF new
  <1>3. QED
    BY <1>1, <1>2

LEMMA StripKeeps ==
  ASSUME Stored, NEW kind \in KindsOfRows, NEW i, StripId(kind, i)
  PROVE  Stored'
  <1>1. CASE kind = "organizations"
    BY <1>1, StripOrganizations DEF StripId, SaveOrganizations
  <1>2. CASE kind = "contacts"
    BY <1>2, StripContactsKeeps DEF StripId
  <1>3. CASE kind = "datasets"
    BY <1>3, StripDatasets DEF StripId
  <1>4. CASE kind = "dataservices"
    BY <1>4, StripServed DEF StripId, SaveDataservices
  <1>5. CASE kind = "distributions"
    BY <1>5, StripServed DEF StripId, SaveDistributions
  <1>6. QED
    BY <1>1, <1>2, <1>3, <1>4, <1>5 DEF KindsOfRows

\* Deleting a row of the import's own leaves those of others.
LEMMA DeletedOrganizations ==
  ASSUME Stored, NEW gone, DeleteOrganizations(gone), gone \cap ForeignOrganizations = {}
  PROVE  Stored'
  <1> DEFINE unattributed == {a \in DOMAIN attribution : attribution[a].organization \in gone}
  <1>1. /\ organization' = Without(organization, gone)
        /\ attribution' = Without(attribution, unattributed)
        /\ contact' = {c \in contact : c.organization \notin gone}
        /\ dataset' = [d \in DOMAIN dataset |->
             [dataset[d] EXCEPT
                !.attribution = IF @ \in unattributed THEN None ELSE @,
                !.units = {l \in @ : l.to \notin gone},
                !.contacts = {l \in @ : l.to.organization \notin gone}]]
        /\ UNCHANGED <<dataservice, distribution>>
    BY DEF DeleteOrganizations
  <1>2. /\ DOMAIN organization' = DOMAIN organization \ gone
        /\ organization' \in [DOMAIN organization' -> OrganizationRows']
        /\ \A o \in ForeignOrganizations :
             o \in DOMAIN organization' /\ organization'[o].source # Geodienste
        /\ OneHolder(organization')
    <2>1. /\ DOMAIN organization' = DOMAIN organization \ gone
          /\ \A o \in DOMAIN organization' : organization'[o] = organization[o]
          /\ organization' = [o \in DOMAIN organization' |-> organization'[o]]
      BY <1>1 DEF Without
    <2>2. OrganizationRows' = OrganizationRows
      BY DEF OrganizationRows
    <2>3. \A o \in DOMAIN organization : organization[o] \in OrganizationRows
      BY DEF Stored, Typed
    <2>4. organization' \in [DOMAIN organization' -> OrganizationRows']
      BY <2>1, <2>2, <2>3
    <2>5. \A o \in ForeignOrganizations :
             o \in DOMAIN organization' /\ organization'[o].source # Geodienste
      BY <2>1 DEF Stored, ForeignRows
    <2>6. OneHolder(organization')
      BY <2>1 DEF Stored, OneHolder
    <2>7. QED
      BY <2>1, <2>4, <2>5, <2>6
  <1>3. /\ DOMAIN attribution' = DOMAIN attribution \ unattributed
        /\ attribution' \in [DOMAIN attribution' -> AttributionRows']
        /\ \A a \in ForeignAttributions :
             a \in DOMAIN attribution' /\ attribution'[a].organization \in ForeignOrganizations
    <2>1. /\ DOMAIN attribution' = DOMAIN attribution \ unattributed
          /\ \A a \in DOMAIN attribution' : attribution'[a] = attribution[a]
          /\ attribution' = [a \in DOMAIN attribution' |-> attribution'[a]]
      BY <1>1 DEF Without
    <2>2. ASSUME NEW a \in DOMAIN attribution'
          PROVE  attribution'[a] \in AttributionRows'
      <3>1. attribution[a] \in AttributionRows /\ attribution[a].organization \notin gone
        BY <2>1 DEF Stored, Typed
      <3>2. attribution'[a] = attribution[a] /\ DOMAIN organization' = DOMAIN organization \ gone
        BY <1>2, <2>1
      <3>3. QED
        BY <3>1, <3>2 DEF AttributionRows
    <2>3. \A a \in ForeignAttributions :
             a \in DOMAIN attribution' /\ attribution'[a].organization \in ForeignOrganizations
      BY <2>1 DEF Stored, ForeignRows
    <2>4. attribution' \in [DOMAIN attribution' -> AttributionRows']
      BY <2>1, <2>2
    <2>5. QED
      BY <2>1, <2>3, <2>4
  <1>4. /\ contact' \subseteq ContactRows'
        /\ OneHolder(ContactTable)'
        /\ \A c \in contact' : OwnContact(c)
    <2>1. ASSUME NEW c \in contact'
          PROVE  c \in ContactRows' /\ OwnContact(c)
      <3>1. c \in ContactRows /\ c.organization \notin gone /\ OwnContact(c)
        BY <1>1 DEF Stored, Typed
      <3>2. QED
        BY <1>2, <3>1 DEF ContactRows
    <2>2. OneHolder(ContactTable)'
      BY <1>1 DEF Stored, OneHolder, ContactTable
    <2>3. QED
      BY <2>1, <2>2
  <1> HIDE DEF unattributed
  <1>5. ASSUME NEW d \in DOMAIN dataset
        PROVE  /\ dataset'[d] \in DatasetRows'
               /\ dataset'[d].source = dataset[d].source
               /\ dataset'[d].ids \subseteq dataset[d].ids
               /\ dataset'[d].units \subseteq dataset[d].units
               /\ dataset'[d].partOf \subseteq dataset[d].partOf
               /\ \A k, l \in dataset'[d].contacts : k.role = l.role => k = l
    <2> DEFINE r == dataset[d]
               a == IF r.attribution \in unattributed THEN None ELSE r.attribution
               units == {l \in r.units : l.to \notin gone}
               contacts == {l \in r.contacts : l.to.organization \notin gone}
               new == [source |-> r.source, ids |-> r.ids, text |-> r.text,
                       attribution |-> a, units |-> units, contacts |-> contacts,
                       partOf |-> r.partOf, preferred |-> r.preferred]
    <2>1. r \in DatasetRows
      BY DEF Stored, Typed
    <2>2. /\ r = [source |-> r.source, ids |-> r.ids, text |-> r.text,
                  attribution |-> r.attribution, units |-> r.units, contacts |-> r.contacts,
                  partOf |-> r.partOf, preferred |-> r.preferred]
          /\ r.source \in DataSources /\ r.ids \subseteq Providers \X Topics /\ r.text \in Texts
          /\ r.attribution \in DOMAIN attribution \cup {None} /\ r.units \subseteq UnitLinks
          /\ r.contacts \subseteq ContactLinks /\ r.partOf \subseteq DOMAIN dataset
          /\ r.preferred \in DOMAIN distribution \cup {None}
      BY <2>1, DatasetFields, Zenon
    <2>3. dataset'[d] = [r EXCEPT !.attribution = a, !.units = units, !.contacts = contacts]
      BY <1>1
    <2>4. units \subseteq UnitLinks' /\ contacts \subseteq ContactLinks'
      <3>1. ASSUME NEW l \in units
            PROVE  l \in UnitLinks'
        <4>1. l \in UnitLinks /\ l.to \notin gone
          BY <2>2
        <4>2. QED
          BY <1>2, <4>1 DEF UnitLinks
      <3>2. ASSUME NEW l \in contacts
            PROVE  l \in ContactLinks'
        <4>1. l \in ContactLinks /\ l.to.organization \notin gone
          BY <2>2
        <4>2. QED
          BY <1>1, <4>1 DEF ContactLinks
      <3>3. QED
        BY <3>1, <3>2
    <2>5. a \in DOMAIN attribution' \cup {None}
      BY <1>3, <2>2
    <2>6. DOMAIN dataset' = DOMAIN dataset /\ distribution' = distribution
      BY <1>1
    <2>7. units \subseteq r.units /\ \A k, l \in contacts : k.role = l.role => k = l
      BY DEF Stored, LinksSingle
    <2> HIDE DEF a, units, contacts, r
    <2>8. dataset'[d] = new
      BY <2>2, <2>3
    <2>9. new \in DatasetRows'
      BY <2>2, <2>4, <2>5, <2>6 DEF DatasetRows
    <2>10. QED
      BY <2>7, <2>8, <2>9 DEF r
  <1>6. /\ dataset' = [d \in DOMAIN dataset |-> dataset'[d]]
        /\ DOMAIN dataset' = DOMAIN dataset
        /\ ForeignDatasets \subseteq DOMAIN dataset
    <2>1. dataset' = [d \in DOMAIN dataset |-> dataset'[d]] /\ DOMAIN dataset' = DOMAIN dataset
      BY <1>1
    <2>2. QED
      BY <2>1 DEF Stored, ForeignRows
  <1>7. /\ dataset' \in [DOMAIN dataset' -> DatasetRows']
        /\ \A d \in ForeignDatasets : d \in DOMAIN dataset' /\ dataset'[d].source # Geodienste
        /\ \A d \in DOMAIN dataset' : OwnIds(d, dataset'[d]) /\ LinksSingle(dataset'[d])
    BY <1>5, <1>6, DatasetsTrimmed, Zenon
  <1>8. Typed'
    <2>1. DataserviceRows' = DataserviceRows /\ DistributionRows' = DistributionRows
      BY <1>1, <1>6 DEF DataserviceRows, DistributionRows
    <2>2. QED
      BY <1>1, <1>2, <1>3, <1>4, <1>7, <2>1 DEF Stored, Typed
  <1>9. QED
    BY <1>2, <1>3, <1>4, <1>7, <1>8 DEF Stored, ForeignRows

LEMMA DeletedContacts ==
  ASSUME Stored, NEW gone, DeleteContacts(gone)
  PROVE  Stored'
  <1>1. /\ contact' = contact \ gone
        /\ dataset' = [d \in DOMAIN dataset |->
             [dataset[d] EXCEPT !.contacts = {l \in @ : l.to \notin gone}]]
        /\ UNCHANGED <<organization, attribution, dataservice, distribution>>
    BY DEF DeleteContacts
  <1>2. ASSUME NEW d \in DOMAIN dataset
        PROVE  /\ dataset'[d] \in DatasetRows'
               /\ dataset'[d].source = dataset[d].source
               /\ dataset'[d].ids \subseteq dataset[d].ids
               /\ dataset'[d].units \subseteq dataset[d].units
               /\ dataset'[d].partOf \subseteq dataset[d].partOf
               /\ \A k, l \in dataset'[d].contacts : k.role = l.role => k = l
    <2> DEFINE r == dataset[d]
               contacts == {l \in r.contacts : l.to \notin gone}
               new == [source |-> r.source, ids |-> r.ids, text |-> r.text,
                       attribution |-> r.attribution, units |-> r.units, contacts |-> contacts,
                       partOf |-> r.partOf, preferred |-> r.preferred]
    <2>1. r \in DatasetRows
      BY DEF Stored, Typed
    <2>2. /\ r = [source |-> r.source, ids |-> r.ids, text |-> r.text,
                  attribution |-> r.attribution, units |-> r.units, contacts |-> r.contacts,
                  partOf |-> r.partOf, preferred |-> r.preferred]
          /\ r.source \in DataSources /\ r.ids \subseteq Providers \X Topics /\ r.text \in Texts
          /\ r.attribution \in DOMAIN attribution \cup {None} /\ r.units \subseteq UnitLinks
          /\ r.contacts \subseteq ContactLinks /\ r.partOf \subseteq DOMAIN dataset
          /\ r.preferred \in DOMAIN distribution \cup {None}
      BY <2>1, DatasetFields, Zenon
    <2>3. dataset'[d] = [r EXCEPT !.contacts = contacts]
      BY <1>1
    <2>4. contacts \subseteq ContactLinks' /\ UnitLinks' = UnitLinks
      BY <1>1, <2>2 DEF ContactLinks, UnitLinks
    <2>5. DOMAIN dataset' = DOMAIN dataset
      BY <1>1
    <2>6. \A k, l \in contacts : k.role = l.role => k = l
      BY DEF Stored, LinksSingle
    <2> HIDE DEF contacts, r
    <2>7. dataset'[d] = new
      BY <2>2, <2>3
    <2>8. new \in DatasetRows'
      BY <1>1, <2>2, <2>4, <2>5 DEF DatasetRows
    <2>9. QED
      BY <2>6, <2>7, <2>8 DEF r
  <1>3. /\ dataset' = [d \in DOMAIN dataset |-> dataset'[d]]
        /\ DOMAIN dataset' = DOMAIN dataset
        /\ ForeignDatasets \subseteq DOMAIN dataset
    <2>1. dataset' = [d \in DOMAIN dataset |-> dataset'[d]] /\ DOMAIN dataset' = DOMAIN dataset
      BY <1>1
    <2>2. QED
      BY <2>1 DEF Stored, ForeignRows
  <1>4. /\ dataset' \in [DOMAIN dataset' -> DatasetRows']
        /\ \A d \in ForeignDatasets : d \in DOMAIN dataset' /\ dataset'[d].source # Geodienste
        /\ \A d \in DOMAIN dataset' : OwnIds(d, dataset'[d]) /\ LinksSingle(dataset'[d])
    BY <1>2, <1>3, DatasetsTrimmed, Zenon
  <1>5. Typed'
    <2>1. /\ OrganizationRows' = OrganizationRows /\ AttributionRows' = AttributionRows
          /\ ContactRows' = ContactRows /\ DataserviceRows' = DataserviceRows
          /\ DistributionRows' = DistributionRows
      BY <1>1, <1>3 DEF OrganizationRows, AttributionRows, ContactRows, DataserviceRows,
                        DistributionRows
    <2>2. QED
      BY <1>1, <1>4, <2>1 DEF Stored, Typed
  <1>6. OneHolder(ContactTable)'
    BY <1>1 DEF Stored, OneHolder, ContactTable
  <1>7. QED
    BY <1>1, <1>4, <1>5, <1>6 DEF Stored, ForeignRows

\* Datasets go with their distributions, or distributions alone.
LEMMA DeletedDatasets ==
  ASSUME Stored, NEW gone, gone \cap ForeignDatasets = {}, NEW lost,
         \A x \in DOMAIN distribution \ lost : distribution[x].dataset \notin gone,
         dataset' = [d \in DOMAIN dataset \ gone |->
           [dataset[d] EXCEPT !.partOf = @ \ gone, !.preferred = IF @ \in lost THEN None ELSE @]],
         distribution' = Without(distribution, lost),
         UNCHANGED <<organization, attribution, contact, dataservice>>
  PROVE  Stored'
  <1>1. /\ DOMAIN distribution' = DOMAIN distribution \ lost
        /\ DOMAIN dataset' = DOMAIN dataset \ gone
        /\ distribution' \in [DOMAIN distribution' -> DistributionRows']
    <2>1. /\ DOMAIN distribution' = DOMAIN distribution \ lost
          /\ \A x \in DOMAIN distribution' : distribution'[x] = distribution[x]
          /\ distribution' = [x \in DOMAIN distribution' |-> distribution'[x]]
      BY DEF Without
    <2>2. DOMAIN dataset' = DOMAIN dataset \ gone
      OBVIOUS
    <2>3. ASSUME NEW x \in DOMAIN distribution'
          PROVE  distribution'[x] \in DistributionRows'
      <3>1. distribution[x] \in DistributionRows /\ distribution[x].dataset \notin gone
        BY <2>1 DEF Stored, Typed
      <3>2. distribution'[x] = distribution[x]
        BY <2>1
      <3>3. QED
        BY <2>2, <3>1, <3>2 DEF DistributionRows
    <2>4. QED
      BY <2>1, <2>2, <2>3
  <1>2. ASSUME NEW d \in DOMAIN dataset \ gone
        PROVE  /\ dataset'[d] \in DatasetRows'
               /\ dataset'[d].source = dataset[d].source
               /\ dataset'[d].ids \subseteq dataset[d].ids
               /\ dataset'[d].units \subseteq dataset[d].units
               /\ dataset'[d].partOf \subseteq dataset[d].partOf
               /\ \A k, l \in dataset'[d].contacts : k.role = l.role => k = l
    <2> DEFINE r == dataset[d]
               parts == r.partOf \ gone
               preferred == IF r.preferred \in lost THEN None ELSE r.preferred
               new == [source |-> r.source, ids |-> r.ids, text |-> r.text,
                       attribution |-> r.attribution, units |-> r.units, contacts |-> r.contacts,
                       partOf |-> parts, preferred |-> preferred]
    <2>1. r \in DatasetRows
      BY DEF Stored, Typed
    <2>2. /\ r = [source |-> r.source, ids |-> r.ids, text |-> r.text,
                  attribution |-> r.attribution, units |-> r.units, contacts |-> r.contacts,
                  partOf |-> r.partOf, preferred |-> r.preferred]
          /\ r.source \in DataSources /\ r.ids \subseteq Providers \X Topics /\ r.text \in Texts
          /\ r.attribution \in DOMAIN attribution \cup {None} /\ r.units \subseteq UnitLinks
          /\ r.contacts \subseteq ContactLinks /\ r.partOf \subseteq DOMAIN dataset
          /\ r.preferred \in DOMAIN distribution \cup {None}
      BY <2>1, DatasetFields, Zenon
    <2>3. dataset'[d] = [r EXCEPT !.partOf = parts, !.preferred = preferred]
      OBVIOUS
    <2>4. parts \subseteq DOMAIN dataset' /\ preferred \in DOMAIN distribution' \cup {None}
      BY <1>1, <2>2
    <2>5. UnitLinks' = UnitLinks /\ ContactLinks' = ContactLinks
      BY DEF UnitLinks, ContactLinks
    <2>6. parts \subseteq r.partOf /\ \A k, l \in r.contacts : k.role = l.role => k = l
      BY DEF Stored, LinksSingle
    <2> HIDE DEF parts, preferred, r
    <2>7. dataset'[d] = new
      BY <2>2, <2>3
    <2>8. new \in DatasetRows'
      BY <2>2, <2>4, <2>5 DEF DatasetRows
    <2>9. /\ new.source = r.source /\ new.ids = r.ids /\ new.units = r.units
          /\ new.partOf = parts /\ new.contacts = r.contacts
      OBVIOUS
    <2> HIDE DEF new
    <2>10. QED
      BY <2>6, <2>7, <2>8, <2>9 DEF r
  <1>3. dataset' = [d \in DOMAIN dataset \ gone |-> dataset'[d]]
    OBVIOUS
  <1>4. /\ dataset' \in [DOMAIN dataset' -> DatasetRows']
        /\ \A d \in ForeignDatasets : d \in DOMAIN dataset' /\ dataset'[d].source # Geodienste
        /\ \A d \in DOMAIN dataset' : OwnIds(d, dataset'[d]) /\ LinksSingle(dataset'[d])
    <2>1. DOMAIN dataset \ gone \subseteq DOMAIN dataset
      OBVIOUS
    <2>2. ForeignDatasets \subseteq DOMAIN dataset \ gone
      BY DEF Stored, ForeignRows
    <2>3. QED
      BY <1>2, <1>3, <2>1, <2>2, DatasetsTrimmed, Zenon
  <1>5. Typed'
    <2>1. /\ OrganizationRows' = OrganizationRows /\ AttributionRows' = AttributionRows
          /\ ContactRows' = ContactRows /\ DataserviceRows' = DataserviceRows
      BY DEF OrganizationRows, AttributionRows, ContactRows, DataserviceRows
    <2>2. QED
      BY <1>1, <1>4, <2>1 DEF Stored, Typed
  <1>6. QED
    BY <1>4, <1>5 DEF Stored, ForeignRows, ContactTable

LEMMA DeletedDistributions ==
  ASSUME Stored, NEW gone, DeleteDistributions(gone)
  PROVE  Stored'
  <1>1. /\ distribution' = Without(distribution, gone)
        /\ dataset' = [d \in DOMAIN dataset |->
             [dataset[d] EXCEPT !.preferred = IF @ \in gone THEN None ELSE @]]
        /\ UNCHANGED <<organization, attribution, contact, dataservice>>
    BY DEF DeleteDistributions
  <1>2. dataset' = [d \in DOMAIN dataset \ {} |->
          [dataset[d] EXCEPT !.partOf = @ \ {}, !.preferred = IF @ \in gone THEN None ELSE @]]
    <2>1. ASSUME NEW d \in DOMAIN dataset
          PROVE  [dataset[d] EXCEPT !.preferred = IF @ \in gone THEN None ELSE @] =
                 [dataset[d] EXCEPT !.partOf = @ \ {}, !.preferred = IF @ \in gone THEN None ELSE @]
      <3> DEFINE r == dataset[d]
      <3>1. r \in DatasetRows
        BY DEF Stored, Typed
      <3>2. r = [source |-> r.source, ids |-> r.ids, text |-> r.text,
                 attribution |-> r.attribution, units |-> r.units, contacts |-> r.contacts,
                 partOf |-> r.partOf, preferred |-> r.preferred]
        BY <3>1, DatasetFields, Zenon
      <3>3. r.partOf \ {} = r.partOf
        OBVIOUS
      <3> HIDE DEF r
      <3>4. [r EXCEPT !.preferred = IF @ \in gone THEN None ELSE @] =
            [r EXCEPT !.partOf = @ \ {}, !.preferred = IF @ \in gone THEN None ELSE @]
        BY <3>2, <3>3
      <3>5. QED
        BY <3>4 DEF r
    <2>2. DOMAIN dataset \ {} = DOMAIN dataset
      OBVIOUS
    <2>3. QED
      BY <1>1, <2>1, <2>2
  <1>3. {} \cap ForeignDatasets = {} /\ \A x \in DOMAIN distribution \ gone :
                                          distribution[x].dataset \notin {}
    OBVIOUS
  <1>4. UNCHANGED <<organization, attribution, contact, dataservice>>
    BY <1>1
  <1>5. QED
    BY <1>1, <1>2, <1>3, <1>4, DeletedDatasets, Zenon

LEMMA DeletedDataservices ==
  ASSUME Stored, NEW gone, DeleteDataservices(gone)
  PROVE  Stored'
  <1>1. /\ dataservice' = Without(dataservice, gone)
        /\ distribution' = [x \in DOMAIN distribution |->
             [distribution[x] EXCEPT !.dataservice = IF @ \in gone THEN None ELSE @]]
        /\ UNCHANGED <<organization, attribution, contact, dataset>>
    BY DEF DeleteDataservices
  <1>2. /\ DOMAIN dataservice' = DOMAIN dataservice \ gone
        /\ dataservice' \in [DOMAIN dataservice' -> DataserviceRows']
    <2>1. /\ DOMAIN dataservice' = DOMAIN dataservice \ gone
          /\ \A s \in DOMAIN dataservice' : dataservice'[s] = dataservice[s]
          /\ dataservice' = [s \in DOMAIN dataservice' |-> dataservice'[s]]
      BY <1>1 DEF Without
    <2>2. \A s \in DOMAIN dataservice : dataservice[s] \in DataserviceRows
      BY DEF Stored, Typed
    <2>3. DataserviceRows' = DataserviceRows
      BY DEF DataserviceRows
    <2>4. QED
      BY <2>1, <2>2, <2>3
  <1>3. DOMAIN distribution' = DOMAIN distribution
    BY <1>1
  <1>4. distribution' \in [DOMAIN distribution' -> DistributionRows']
    <2>1. ASSUME NEW x \in DOMAIN distribution
          PROVE  distribution'[x] \in DistributionRows'
      <3> DEFINE r == distribution[x]
                 s == IF r.dataservice \in gone THEN None ELSE r.dataservice
      <3>1. r \in DistributionRows
        BY DEF Stored, Typed
      <3>2. distribution'[x] = [r EXCEPT !.dataservice = s]
        BY <1>1
      <3>3. s \in DOMAIN dataservice' \cup {None}
        BY <1>2, <3>1 DEF DistributionRows
      <3> HIDE DEF r, s
      <3>4. QED
        BY <1>1, <3>1, <3>2, <3>3 DEF DistributionRows
    <2>2. distribution' = [x \in DOMAIN distribution |-> distribution'[x]]
      BY <1>1
    <2>3. QED
      BY <1>3, <2>1, <2>2
  <1>5. Typed'
    <2>1. DatasetRows' = DatasetRows
      BY <1>1, <1>3 DEF DatasetRows, UnitLinks, ContactLinks
    <2>2. /\ OrganizationRows' = OrganizationRows /\ AttributionRows' = AttributionRows
          /\ ContactRows' = ContactRows
      BY <1>1 DEF OrganizationRows, AttributionRows, ContactRows
    <2>3. QED
      BY <1>1, <1>2, <1>4, <2>1, <2>2 DEF Stored, Typed
  <1>6. QED
    BY <1>1, <1>5 DEF Stored, ForeignRows, ContactTable

LEMMA DeleteKeeps ==
  ASSUME Stored, NEW kind \in KindsOfRows, NEW k \in ObsoleteRows(Table(kind), Geodienste),
         DeleteRow(kind, k)
  PROVE  Stored'
  <1>1. CASE kind = "organizations"
    <2>1. k \in DOMAIN organization /\ organization[k].source = Geodienste
      BY <1>1 DEF Table, ObsoleteRows, RowsOf
    <2>2. {k} \cap ForeignOrganizations = {}
      BY <2>1 DEF Stored, ForeignRows
    <2>3. QED
      BY <1>1, <2>2, DeletedOrganizations DEF DeleteRow
  <1>2. CASE kind = "contacts"
    BY <1>2, DeletedContacts DEF DeleteRow
  <1>3. CASE kind = "datasets"
    <2> DEFINE lost == {x \in DOMAIN distribution : distribution[x].dataset \in {k}}
    <2>1. k \in DOMAIN dataset /\ dataset[k].source = Geodienste
      BY <1>3 DEF Table, ObsoleteRows, RowsOf
    <2>2. {k} \cap ForeignDatasets = {}
      BY <2>1 DEF Stored, ForeignRows
    <2>3. /\ dataset' = [d \in DOMAIN dataset \ {k} |->
               [dataset[d] EXCEPT !.partOf = @ \ {k},
                                  !.preferred = IF @ \in lost THEN None ELSE @]]
          /\ distribution' = Without(distribution, lost)
          /\ UNCHANGED <<organization, attribution, contact, dataservice>>
      BY <1>3 DEF DeleteRow, DeleteDatasets
    <2>4. \A x \in DOMAIN distribution \ lost : distribution[x].dataset \notin {k}
      OBVIOUS
    <2> HIDE DEF lost
    <2>5. QED
      BY <2>2, <2>3, <2>4, DeletedDatasets
  <1>4. CASE kind = "dataservices"
    BY <1>4, DeletedDataservices DEF DeleteRow
  <1>5. CASE kind = "distributions"
    BY <1>5, DeletedDistributions DEF DeleteRow
  <1>6. QED
    BY <1>1, <1>2, <1>3, <1>4, <1>5 DEF KindsOfRows

-----------------------------------------------------------------------------
(***************************************************************************)
(* The command.  The writes for a record come in an order in which each    *)
(* one finds what the one before it left: an id is taken from all rows     *)
(* before a row gets it, and a row is there before it is linked.           *)
(***************************************************************************)
KindsOfService == {"wms", "availability", "stac"}
DatasetIds == {DatasetId(p, t) : p \in Providers, t \in Topics}

OrganizationWrites == [op : {"take", "organization", "attribution"}, id : Providers]
ContactWrites == [op : {"saveContact"}, id : ContactIds, provider : Providers]
DatasetWrites ==
    {w \in [op : {"dataset"}, key : DatasetIds, id : Providers \X Topics] :
       w.key = DatasetId(w.id[1], w.id[2])}
      \cup [op : {"datasetAttribution"}, provider : Providers]
      \cup [op : {"unit"}, role : UnitRoles, provider : Providers]
      \cup [op : {"contact"}, role : ContactRoles, id : ContactIds]
      \cup [op : {"aggregated", "relation"}, id : DatasetIds]
      \cup [op : {"drop", "dropContact"}, role : UnitRoles \cup ContactRoles]
DistributionWrites ==
    [op : {"service"}, kind : KindsOfService, topic : Topics]
      \cup [op : {"distribution"}, kind : KindsOfService, topic : Topics, id : DatasetIds,
            dataset : DOMAIN dataset]
      \cup [op : {"prefer"}, id : DatasetIds \X KindsOfService, dataset : DOMAIN dataset]
Writes ==
    CASE run.part = "organizations" -> OrganizationWrites
      [] run.part = "contacts" -> ContactWrites
      [] run.part = "datasets" -> DatasetWrites
      [] run.part = "distributions" -> DistributionWrites
      [] OTHER -> {}

Firsts == {"take", "saveContact", "dataset", "service"}
Followers ==
    {"datasetAttribution", "unit", "contact", "aggregated", "relation", "drop", "dropContact"}
Prepares(v, w) ==
    /\ w.op = "organization" => v.op = "take" /\ v.id = w.id
    /\ w.op = "attribution" => v.op = "organization"
    /\ w.op \in Followers => v.op \in {"dataset"} \cup Followers
    /\ w.op = "distribution" => v.op = "service" /\ v.kind = w.kind /\ v.topic = w.topic
    /\ w.op = "prefer" => v.op = "distribution" /\ w.id = DistributionId(v.id, v.kind)
Ordered(work) == \A n \in 1..(Len(work) - 1) : Prepares(work[n], work[n + 1])
InOrder(work) == Ordered(work) /\ (work # <<>> => work[1].op \in Firsts)

Prepared(w) ==
    /\ w.op = "organization" => Holders(organization, w.id) = {}
    /\ w.op = "attribution" => run.current \in DOMAIN organization
    /\ w.op \in Followers => run.current \in DOMAIN dataset
    /\ w.op = "distribution" => Service(w.kind, w.topic) \in DOMAIN dataservice
    /\ w.op = "prefer" => w.id \in DOMAIN distribution

\* As long as records are left, the rows looked up when the part started are there: only the
\* cleanup at its end deletes any.
LookupsFit ==
    /\ run.part \in {"organizations", "contacts", "datasets"} =>
         Targets(run.lookup.organization, DOMAIN organization)
    /\ run.part \in {"datasets", "distributions"} => Targets(run.lookup.dataset, DOMAIN dataset)
    /\ run.part = "datasets" =>
         /\ \A r \in UnitRoles : Targets(run.lookup.unit[r], DOMAIN organization)
         /\ \A r \in ContactRoles : Targets(run.lookup.contact[r], contact)
         /\ \A a \in run.aggregated : a.dataset \in DOMAIN dataset

Columns == {"source", "part", "input", "lookup", "work", "todo", "current", "aggregated"}
Parts == {"start", "organizations", "contacts", "datasets", "distributions"}
Records ==
    /\ run.part = "start" => run.todo = {}
    /\ run.part = "organizations" => run.todo \subseteq Providers
    /\ run.part = "contacts" => run.todo \subseteq ContactTasks(run.input.services)
    /\ run.part = "datasets" => run.todo \subseteq run.input.services
    /\ run.part = "distributions" => run.todo \subseteq run.input.config
RunOk ==
    /\ Columns \subseteq DOMAIN run
    /\ run.source = Geodienste /\ run.input \in Sources /\ run.part \in Parts
    /\ Records
    /\ run.work \in Seq(Writes) /\ Ordered(run.work)
    /\ run.work # <<>> => Prepared(run.work[1])
    /\ run.work # <<>> \/ run.todo # {} => LookupsFit

MappingsTyped ==
    /\ {"organization", "dataset", "unit", "contact"} \subseteq DOMAIN mappings
    /\ \A k \in DOMAIN mappings : \A m \in mappings[k] : m.prefix \in Prefixes

Inv == published \in Sources /\ MappingsTyped /\ Stored /\ (run = Idle \/ RunOk)

LEMMA WritesGrow ==
  ASSUME Grow, run'.part = run.part
  PROVE  Writes \subseteq Writes'
  <1>1. DistributionWrites \subseteq DistributionWrites'
    BY DEF Grow, DistributionWrites
  <1>2. /\ OrganizationWrites' = OrganizationWrites /\ ContactWrites' = ContactWrites
        /\ DatasetWrites' = DatasetWrites
    BY DEF OrganizationWrites, ContactWrites, DatasetWrites
  <1>3. QED
    BY <1>1, <1>2 DEF Writes

LEMMA TargetsGrow ==
  ASSUME NEW table, NEW A, NEW B, A \subseteq B, Targets(table, A)
  PROVE  Targets(table, B)
  BY DEF Targets

LEMMA FirstsNeedNothing ==
  ASSUME NEW w, w.op \in Firsts
  PROVE  Prepared(w) /\ \A v : Prepares(v, w)
  <1>1. w.op \notin {"organization", "attribution", "distribution", "prefer"} \cup Followers
    BY DEF Firsts, Followers
  <1>2. QED
    BY <1>1 DEF Prepared, Prepares

LEMMA Concatenated ==
  ASSUME NEW S, NEW s \in Seq(S), NEW t \in Seq(S), InOrder(s), InOrder(t)
  PROVE  s \o t \in Seq(S) /\ InOrder(s \o t)
  <1> DEFINE u == s \o t
  <1>1. /\ u \in Seq(S) /\ Len(u) = Len(s) + Len(t)
        /\ \A n \in 1..(Len(s) + Len(t)) : u[n] = IF n <= Len(s) THEN s[n] ELSE t[n - Len(s)]
    BY ConcatProperties, Zenon
  <1>2. Len(s) \in Nat /\ Len(t) \in Nat /\ (s # <<>> <=> Len(s) # 0) /\ (t # <<>> <=> Len(t) # 0)
    BY LenProperties, EmptySeq
  <1> HIDE DEF u
  <1>3. Len(u) \in Nat /\ (u # <<>> <=> Len(u) # 0)
    BY <1>1, <1>2, EmptySeq
  <1>4. ASSUME NEW n \in 1..(Len(u) - 1)
        PROVE  Prepares(u[n], u[n + 1])
    <2>1. n \in Nat /\ n >= 1 /\ n < Len(s) + Len(t)
      BY <1>1, <1>2, <1>4
    <2>2. CASE n < Len(s)
      <3>1. u[n] = s[n] /\ u[n + 1] = s[n + 1] /\ n \in 1..(Len(s) - 1)
        BY <1>1, <1>2, <2>1, <2>2
      <3>2. QED
        BY <3>1 DEF InOrder, Ordered
    <2>3. CASE n = Len(s)
      <3>1. u[n + 1] = t[1] /\ t # <<>>
        BY <1>1, <1>2, <2>1, <2>3
      <3>2. t[1].op \in Firsts
        BY <3>1 DEF InOrder
      <3>3. QED
        BY <3>1, <3>2, FirstsNeedNothing
    <2>4. CASE n > Len(s)
      <3> DEFINE m == n - Len(s)
      <3>1. u[n] = t[m] /\ u[n + 1] = t[m + 1] /\ m \in 1..(Len(t) - 1)
        <4>1. n \in 1..(Len(s) + Len(t)) /\ n + 1 \in 1..(Len(s) + Len(t))
              /\ ~ (n <= Len(s)) /\ ~ (n + 1 <= Len(s))
          BY <1>2, <2>1, <2>4
        <4>2. (n + 1) - Len(s) = m + 1 /\ m \in 1..(Len(t) - 1)
          BY <1>2, <2>1, <2>4
        <4>3. QED
          BY <1>1, <4>1, <4>2
      <3> HIDE DEF m
      <3>2. QED
        BY <3>1 DEF InOrder, Ordered
    <2>5. QED
      BY <1>2, <2>1, <2>2, <2>3, <2>4
  <1>5. ASSUME u # <<>>
        PROVE  u[1].op \in Firsts
    <2>1. CASE s # <<>>
      BY <1>1, <1>2, <2>1 DEF InOrder
    <2>2. CASE s = <<>>
      <3>1. t # <<>> /\ u[1] = t[1]
        BY <1>1, <1>2, <1>3, <1>5, <2>2
      <3>2. QED
        BY <3>1 DEF InOrder
    <2>3. QED
      BY <2>1, <2>2
  <1>6. QED
    BY <1>1, <1>4, <1>5 DEF InOrder, Ordered, u

\* A step that is done with the first write, and leaves what the next one needs.
LEMMA WorkGoesOn ==
  ASSUME RunOk, run.work # <<>>, Grow,
         Columns \subseteq DOMAIN run', run'.work = Tail(run.work), run'.source = run.source,
         run'.part = run.part, run'.input = run.input, run'.lookup = run.lookup,
         run'.todo = run.todo,
         \A a \in run'.aggregated : a \in run.aggregated \/ a.dataset \in DOMAIN dataset',
         \A w \in Writes' : Prepares(Op, w) => Prepared(w)'
  PROVE  RunOk'
  <1>1. run.work \in Seq(Writes) /\ Ordered(run.work)
    BY DEF RunOk
  <1>2. Writes \subseteq Writes'
    BY WritesGrow
  <1> DEFINE S == Writes'
             rest == Tail(run.work)
  <1>3. /\ rest \in Seq(Writes) /\ Len(rest) = Len(run.work) - 1
        /\ \A i \in 1..Len(rest) : rest[i] = run.work[i + 1]
        /\ Len(run.work) \in Nat \ {0} /\ Op = run.work[1]
    BY <1>1, HeadTailProperties, EmptySeq DEF Op
  <1>4. rest \in Seq(S)
    BY <1>2, <1>3, SeqMonotonic
  <1> HIDE DEF rest, S
  <1>5. Ordered(rest)
    <2>1. ASSUME NEW n \in 1..(Len(rest) - 1)
          PROVE  Prepares(rest[n], rest[n + 1])
      <3>1. n \in 1..Len(rest) /\ n + 1 \in 1..Len(rest) /\ n + 1 \in 1..(Len(run.work) - 1)
        BY <1>3, <2>1
      <3>2. QED
        BY <1>1, <1>3, <3>1 DEF Ordered
    <2>2. QED
      BY <2>1 DEF Ordered
  <1>6. ASSUME rest # <<>>, NEW w, w = rest[1]
        PROVE  Prepared(w)'
    <2>1. 1 \in 1..Len(rest) /\ 1 \in 1..(Len(run.work) - 1)
      BY <1>3, <1>6, EmptySeq
    <2>2. rest[1] = run.work[2] /\ rest[1] \in S
      BY <1>3, <1>4, <2>1, ElementOfSeq
    <2>3. Prepares(Op, rest[1])
      BY <1>1, <1>3, <2>1, <2>2 DEF Ordered
    <2>4. QED
      BY <1>6, <2>2, <2>3 DEF S
  <1>7. run'.work = rest /\ run'.work \in Seq(Writes')
    BY <1>4 DEF rest, S
  <1>8. run'.work # <<>> => Prepared(run.work[1])'
    BY <1>6, <1>7
  <1>9. LookupsFit'
    <2>1. LookupsFit
      BY DEF RunOk
    <2>2. /\ DOMAIN organization \subseteq DOMAIN organization' /\ contact \subseteq contact'
          /\ DOMAIN dataset \subseteq DOMAIN dataset'
      BY DEF Grow
    <2>3. QED
      BY <2>1, <2>2, TargetsGrow DEF LookupsFit
  <1>10. Records'
    BY DEF RunOk, Records
  <1>11. Ordered(run.work)'
    BY <1>5, <1>7 DEF Ordered
  <1>12. QED
    BY <1>7, <1>8, <1>9, <1>10, <1>11 DEF RunOk

LEMMA DoneFields ==
  ASSUME Columns \subseteq DOMAIN run, Done \/ \E row : DoneWith(row)
  PROVE  /\ Columns \subseteq DOMAIN run' /\ run'.work = Tail(run.work)
         /\ run'.source = run.source /\ run'.part = run.part /\ run'.input = run.input
         /\ run'.lookup = run.lookup /\ run'.todo = run.todo /\ run'.aggregated = run.aggregated
  BY DEF Done, DoneWith, Columns

\* The usual case.
LEMMA WriteDone ==
  ASSUME RunOk, run.work # <<>>, Grow, Done \/ \E row : DoneWith(row),
         \A w \in Writes' : Prepares(Op, w) => Prepared(w)'
  PROVE  RunOk'
  <1>1. Columns \subseteq DOMAIN run
    BY DEF RunOk
  <1>2. /\ Columns \subseteq DOMAIN run' /\ run'.work = Tail(run.work)
        /\ run'.source = run.source /\ run'.part = run.part /\ run'.input = run.input
        /\ run'.lookup = run.lookup /\ run'.todo = run.todo /\ run'.aggregated = run.aggregated
    BY <1>1, DoneFields
  <1>3. QED
    BY <1>2, WorkGoesOn

\* A step that leaves the write to do.
LEMMA WriteStays ==
  ASSUME RunOk, run.work # <<>>, Grow, UNCHANGED run, Prepared(Op)'
  PROVE  RunOk'
  <1>1. run.work \in Seq(Writes) /\ Ordered(run.work) /\ LookupsFit
    BY DEF RunOk
  <1>2. Writes \subseteq Writes'
    BY WritesGrow
  <1>3. run'.work \in Seq(Writes')
    BY <1>1, <1>2, SeqMonotonic
  <1>4. LookupsFit'
    <2>1. /\ DOMAIN organization \subseteq DOMAIN organization' /\ contact \subseteq contact'
          /\ DOMAIN dataset \subseteq DOMAIN dataset'
      BY DEF Grow
    <2>2. QED
      BY <1>1, <2>1, TargetsGrow DEF LookupsFit
  <1>5. Op = run.work[1] /\ Op' = run'.work[1]
    BY DEF Op
  <1>6. QED
    BY <1>1, <1>3, <1>4, <1>5 DEF RunOk, Records, Ordered

\* A record is taken up, and a part is entered.
LEMMA TakenUp ==
  ASSUME Inv, RunOk, NEW r \in run.todo, NEW ids, NEW work \in Seq(Writes),
         InOrder(work), TakeUp(r, ids, work)
  PROVE  Stored' /\ RunOk'
  <1>1. UNCHANGED tables /\ Stored' /\ Grow
    BY NothingSaved DEF TakeUp, Inv
  <1>2. Columns \subseteq DOMAIN run
    BY DEF RunOk
  <1>3. /\ Columns \subseteq DOMAIN run' /\ run'.work = work
        /\ run'.source = run.source /\ run'.part = run.part /\ run'.input = run.input
        /\ run'.lookup = run.lookup /\ run'.todo = run.todo \ {r}
        /\ run'.aggregated = run.aggregated
    BY <1>2 DEF TakeUp, Columns
  <1>4. Writes \subseteq Writes'
    BY <1>1, <1>3, WritesGrow
  <1>5. run'.work \in Seq(Writes')
    BY <1>3, <1>4, SeqMonotonic
  <1>6. LookupsFit'
    <2>1. LookupsFit
      BY DEF RunOk
    <2>2. QED
      BY <1>1, <1>3, <2>1 DEF LookupsFit, tables
  <1>7. work # <<>> => Prepared(work[1])'
    <2> SUFFICES ASSUME work # <<>>
                 PROVE  Prepared(work[1])'
      OBVIOUS
    <2>1. work[1].op \in Firsts
      BY DEF InOrder
    <2>2. work[1].op \notin {"organization", "attribution", "distribution", "prefer"} \cup Followers
      BY <2>1 DEF Firsts, Followers
    <2>3. QED
      BY <2>2 DEF Prepared
  <1>8. Ordered(run.work)'
    BY <1>3 DEF InOrder, Ordered
  <1>9. Records'
    BY <1>3 DEF RunOk, Records
  <1>10. QED
    BY <1>1, <1>3, <1>5, <1>6, <1>7, <1>8, <1>9 DEF RunOk

LEMMA Entered ==
  ASSUME Inv, NEW part \in Parts \ {"start"}, Entering(part), NEW cleans, NEW lookup, NEW todo,
         Enter(part, cleans, lookup, todo),
         part = "organizations" => todo \subseteq Providers,
         part = "contacts" => todo \subseteq ContactTasks(run.input.services),
         part = "datasets" => todo \subseteq run.input.services,
         part = "distributions" => todo \subseteq run.input.config,
         part \in {"organizations", "contacts", "datasets"} =>
           Targets(lookup.organization, DOMAIN organization),
         part \in {"datasets", "distributions"} => Targets(lookup.dataset, DOMAIN dataset),
         part = "datasets" => /\ \A r \in UnitRoles : Targets(lookup.unit[r], DOMAIN organization)
                              /\ \A r \in ContactRoles : Targets(lookup.contact[r], contact)
  PROVE  Stored' /\ RunOk'
  <1>1. UNCHANGED tables /\ Stored' /\ RunOk /\ run.work = <<>>
    BY NothingSaved DEF Entering, PartEnded, Ended, Running, Inv
  <1>2. Columns \subseteq DOMAIN run
    BY <1>1 DEF RunOk
  <1>3. /\ Columns \subseteq DOMAIN run' /\ run'.work = run.work
        /\ run'.source = run.source /\ run'.part = part /\ run'.input = run.input
        /\ run'.lookup = lookup /\ run'.todo = todo /\ run'.aggregated = {}
    BY <1>2 DEF Enter, Columns
  <1>4. LookupsFit'
    BY <1>1, <1>3 DEF LookupsFit, tables
  <1>5. Records'
    BY <1>3 DEF Records
  <1>6. run'.work = <<>> /\ <<>> \in Seq(Writes') /\ Ordered(run.work)'
    BY <1>1, <1>3, EmptySeq DEF Ordered
  <1>7. QED
    BY <1>1, <1>3, <1>4, <1>5, <1>6 DEF RunOk

\* What a handler of writes knows of the write it does.
LEMMA AtWork ==
  ASSUME Inv, NEW op, Doing(op)
  PROVE  /\ RunOk /\ run.work # <<>> /\ Op \in Writes /\ Op.op = op
         /\ Prepared(Op) /\ LookupsFit
  <1>1. RunOk /\ run.work # <<>> /\ Op.op = op
    BY DEF Inv, Doing, Running, Op
  <1>2. Op = run.work[1] /\ Op \in Writes
    BY <1>1, HeadTailProperties DEF RunOk, Op
  <1>3. QED
    BY <1>1, <1>2 DEF RunOk

-----------------------------------------------------------------------------
\* The parts are entered with lookup tables of rows that are there.
LEMMA LookupsOfTarget ==
  ASSUME NEW rows, NEW roles, NEW existing, NEW f \in LookupsOf(rows, roles, existing),
         \A m \in rows : m.prefix \in Prefixes
  PROVE  \A r \in roles : Targets(f[r], existing)
  <1>1. \A r \in roles : f[r] \in Tables(Of(rows, r), existing)
    BY DEF LookupsOf
  <1>2. \A r \in roles : \A m \in Of(rows, r) : m.prefix \in Prefixes
    BY DEF Of
  <1>3. QED
    BY <1>1, <1>2, TablesTarget

LEMMA PartsEntered ==
  ASSUME Inv, EnterOrganizations \/ EnterContacts \/ EnterDatasets \/ EnterDistributions
  PROVE  Stored' /\ RunOk'
  <1>1. /\ \A m \in mappings.organization : m.prefix \in Prefixes
        /\ \A m \in mappings.dataset : m.prefix \in Prefixes
        /\ \A m \in mappings.unit : m.prefix \in Prefixes
        /\ \A m \in mappings.contact : m.prefix \in Prefixes
    BY DEF Inv, MappingsTyped
  <1>2. CASE EnterOrganizations
    <2>1. PICK t \in Tables(mappings.organization, DOMAIN organization) :
            Enter("organizations", <<"organizations">>, [organization |-> t],
                  {Aggregate} \cup Cantons
                    \cup ({s.provider : s \in run.input.services} \cap Brokers))
      BY <1>2 DEF EnterOrganizations
    <2> DEFINE todo == {Aggregate} \cup Cantons
                         \cup ({s.provider : s \in run.input.services} \cap Brokers)
               lookup == [organization |-> t]
    <2>2. Targets(lookup.organization, DOMAIN organization)
      BY <1>1, TablesTarget
    <2>3. todo \subseteq Providers
      BY DEF Providers
    <2>4. Entering("organizations") /\ Enter("organizations", <<"organizations">>, lookup, todo)
      BY <1>2, <2>1 DEF EnterOrganizations
    <2> HIDE DEF todo, lookup
    <2>5. "organizations" \in Parts \ {"start"}
      BY DEF Parts
    <2>6. QED
      BY <2>2, <2>3, <2>4, <2>5, Entered
  <1>3. CASE EnterContacts
    <2>1. PICK t \in Tables(mappings.organization, DOMAIN organization) :
            Enter("contacts", <<"contacts">>, [organization |-> t],
                  ContactTasks(run.input.services))
      BY <1>3 DEF EnterContacts
    <2> DEFINE lookup == [organization |-> t]
    <2>2. Targets(lookup.organization, DOMAIN organization)
      BY <1>1, TablesTarget
    <2>3. /\ Entering("contacts")
          /\ Enter("contacts", <<"contacts">>, lookup, ContactTasks(run.input.services))
      BY <1>3, <2>1 DEF EnterContacts
    <2> HIDE DEF lookup
    <2>4. "contacts" \in Parts \ {"start"}
      BY DEF Parts
    <2>5. QED
      BY <2>2, <2>3, <2>4, Entered
  <1>4. CASE EnterDatasets
    <2>1. PICK o \in Tables(mappings.organization, DOMAIN organization),
               d \in Tables(mappings.dataset, DOMAIN dataset),
               u \in LookupsOf(mappings.unit, UnitRoles, DOMAIN organization),
               c \in LookupsOf(mappings.contact, ContactRoles, contact) :
            Enter("datasets", <<"datasets">>,
                  [organization |-> o, dataset |-> d, unit |-> u, contact |-> c],
                  run.input.services)
      BY <1>4 DEF EnterDatasets
    <2> DEFINE lookup == [organization |-> o, dataset |-> d, unit |-> u, contact |-> c]
    <2>2. /\ lookup.organization = o /\ lookup.dataset = d /\ lookup.unit = u
          /\ lookup.contact = c
      OBVIOUS
    <2>3. Entering("datasets") /\ Enter("datasets", <<"datasets">>, lookup, run.input.services)
      BY <1>4, <2>1 DEF EnterDatasets
    <2> HIDE DEF lookup
    <2>4. /\ Targets(lookup.organization, DOMAIN organization)
          /\ Targets(lookup.dataset, DOMAIN dataset)
      BY <1>1, <2>2, TablesTarget
    <2>5. /\ \A r \in UnitRoles : Targets(lookup.unit[r], DOMAIN organization)
          /\ \A r \in ContactRoles : Targets(lookup.contact[r], contact)
      BY <1>1, <2>2, LookupsOfTarget
    <2>6. "datasets" \in Parts \ {"start"}
      BY DEF Parts
    <2>7. QED
      BY <2>3, <2>4, <2>5, <2>6, Entered
  <1>5. CASE EnterDistributions
    <2>1. PICK d \in Tables(mappings.dataset, DOMAIN dataset) :
            Enter("distributions", <<"dataservices", "distributions">>, [dataset |-> d],
                  run.input.config)
      BY <1>5 DEF EnterDistributions
    <2> DEFINE lookup == [dataset |-> d]
               cleans == <<"dataservices", "distributions">>
    <2>2. Targets(lookup.dataset, DOMAIN dataset)
      BY <1>1, TablesTarget
    <2>3. Entering("distributions") /\ Enter("distributions", cleans, lookup, run.input.config)
      BY <1>5, <2>1 DEF EnterDistributions
    <2> HIDE DEF lookup, cleans
    <2>4. "distributions" \in Parts \ {"start"}
      BY DEF Parts
    <2>5. QED
      BY <2>2, <2>3, <2>4, Entered
  <1>6. QED
    BY <1>2, <1>3, <1>4, <1>5

-----------------------------------------------------------------------------
\* The writes for each kind of record are in order.
LEMMA Appended ==
  ASSUME NEW S, NEW a \in S, NEW b \in S, NEW c \in S
  PROVE  <<a, b>> \o <<c>> = <<a, b, c>> /\ <<a, b>> \o <<>> = <<a, b>>
  <1> DEFINE s == <<a, b>>
             t == <<c>>
             u == s \o t
             v == <<a, b, c>>
  <1>1. /\ s \in Seq(S) /\ Len(s) = 2 /\ s[1] = a /\ s[2] = b
        /\ t \in Seq(S) /\ Len(t) = 1 /\ t[1] = c
        /\ v \in Seq(S) /\ Len(v) = 3 /\ v[1] = a /\ v[2] = b /\ v[3] = c
    OBVIOUS
  <1> HIDE DEF s, t, v
  <1>2. /\ u \in Seq(S) /\ Len(u) = Len(s) + Len(t)
        /\ \A n \in 1..(Len(s) + Len(t)) : u[n] = IF n <= Len(s) THEN s[n] ELSE t[n - Len(s)]
    BY <1>1, ConcatProperties, Zenon
  <1>3. s \o <<>> = s
    BY <1>1, ConcatEmptySeq
  <1> HIDE DEF u
  <1>4. Len(u) = 3 /\ \A n \in 1..3 : u[n] = v[n]
    BY <1>1, <1>2
  <1>5. u = v
    BY <1>1, <1>2, <1>4, SeqEqual
  <1>6. QED
    BY <1>3, <1>5 DEF s, t, u, v

LEMMA OrganizationWorkInOrder ==
  ASSUME NEW p \in Providers
  PROVE  OrganizationWork(p) \in Seq(OrganizationWrites) /\ InOrder(OrganizationWork(p))
  <1> DEFINE a == [op |-> "take", id |-> p]
             b == [op |-> "organization", id |-> p]
             c == [op |-> "attribution", id |-> p]
  <1>1. a \in OrganizationWrites /\ b \in OrganizationWrites /\ c \in OrganizationWrites
    BY DEF OrganizationWrites
  <1>2. OrganizationWork(p) = <<a, b, c>> \/ OrganizationWork(p) = <<a, b>>
    <2>1. <<a, b>> \o <<c>> = <<a, b, c>> /\ <<a, b>> \o <<>> = <<a, b>>
      BY <1>1, Appended
    <2>2. QED
      BY <2>1 DEF OrganizationWork
  <1>3. a.op = "take" /\ b.op = "organization" /\ c.op = "attribution" /\ a.id = b.id
    OBVIOUS
  <1> HIDE DEF a, b, c
  <1>4. Prepares(a, b) /\ Prepares(b, c)
    BY <1>3 DEF Prepares, Followers
  <1>5. <<a, b>> \in Seq(OrganizationWrites) /\ InOrder(<<a, b>>)
    <2>1. \A n \in 1..(Len(<<a, b>>) - 1) : n = 1
      OBVIOUS
    <2>2. QED
      BY <1>1, <1>3, <1>4, <2>1 DEF InOrder, Ordered, Firsts
  <1>6. <<a, b, c>> \in Seq(OrganizationWrites) /\ InOrder(<<a, b, c>>)
    <2>1. \A n \in 1..(Len(<<a, b, c>>) - 1) : n = 1 \/ n = 2
      OBVIOUS
    <2>2. QED
      BY <1>1, <1>3, <1>4, <2>1 DEF InOrder, Ordered, Firsts
  <1>7. QED
    BY <1>2, <1>5, <1>6

LEMMA ContactWorkInOrder ==
  ASSUME NEW w \in ContactWrites
  PROVE  <<w>> \in Seq(ContactWrites) /\ InOrder(<<w>>)
  BY DEF InOrder, Ordered, Firsts, ContactWrites

\* Five or seven writes of which the first needs nothing and each prepares the next.
LEMMA FiveInOrder ==
  ASSUME NEW S, NEW a \in S, NEW b \in S, NEW c \in S, NEW d \in S, NEW e \in S,
         a.op \in Firsts, Prepares(a, b), Prepares(b, c), Prepares(c, d), Prepares(d, e)
  PROVE  <<a, b, c, d, e>> \in Seq(S) /\ InOrder(<<a, b, c, d, e>>)
  <1> DEFINE s == <<a, b, c, d, e>>
  <1>1. /\ s \in Seq(S) /\ Len(s) = 5
        /\ s[1] = a /\ s[2] = b /\ s[3] = c /\ s[4] = d /\ s[5] = e
    OBVIOUS
  <1> HIDE DEF s
  <1>2. ASSUME NEW n \in 1..(Len(s) - 1)
        PROVE  Prepares(s[n], s[n + 1])
    <2>1. n = 1 \/ n = 2 \/ n = 3 \/ n = 4
      BY <1>1, <1>2
    <2>2. QED
      BY <1>1, <2>1
  <1>3. QED
    BY <1>1, <1>2 DEF InOrder, Ordered, s

LEMMA SevenInOrder ==
  ASSUME NEW s, Len(s) = 7, s[1].op \in Firsts,
         Prepares(s[1], s[2]), Prepares(s[2], s[3]), Prepares(s[3], s[4]),
         Prepares(s[4], s[5]), Prepares(s[5], s[6]), Prepares(s[6], s[7])
  PROVE  InOrder(s)
  <1>1. ASSUME NEW n \in 1..(Len(s) - 1)
        PROVE  Prepares(s[n], s[n + 1])
    <2>1. n = 1 \/ n = 2 \/ n = 3 \/ n = 4 \/ n = 5 \/ n = 6
      BY <1>1
    <2>2. QED
      BY <2>1
  <1>2. QED
    BY <1>1 DEF InOrder, Ordered

\* The writes of the datasets part that follow the one that finds the dataset.
LEMMA FollowersInOrder ==
  ASSUME NEW v, NEW w, v.op \in {"dataset"} \cup Followers, w.op \in {"dataset"} \cup Followers
  PROVE  Prepares(v, w)
  <1>1. w.op \notin {"organization", "attribution", "distribution", "prefer"}
    BY DEF Followers
  <1>2. QED
    BY <1>1 DEF Prepares

LEMMA DatasetWriteKinds ==
  ASSUME NEW p \in Providers, NEW t \in Topics
  PROVE  /\ [op |-> "dataset", key |-> DatasetId(p, t), id |-> <<p, t>>] \in DatasetWrites
         /\ Attribution(p) \in DatasetWrites
         /\ \A r \in UnitRoles : Unit(r, p) \in DatasetWrites
         /\ \A r \in ContactRoles : \A i \in ContactIds : Contact(r, i) \in DatasetWrites
         /\ [op |-> "aggregated", id |-> DatasetId(p, t)] \in DatasetWrites
         /\ [op |-> "relation", id |-> DatasetId(p, t)] \in DatasetWrites
         /\ \A r \in UnitRoles : [op |-> "drop", role |-> r] \in DatasetWrites
         /\ \A r \in ContactRoles : [op |-> "dropContact", role |-> r] \in DatasetWrites
  <1>1. DatasetId(p, t) \in DatasetIds
    BY DEF DatasetIds
  <1>2. [op |-> "dataset", key |-> DatasetId(p, t), id |-> <<p, t>>] \in DatasetWrites
    <2> DEFINE w == [op |-> "dataset", key |-> DatasetId(p, t), id |-> <<p, t>>]
    <2>1. w \in [op : {"dataset"}, key : DatasetIds, id : Providers \X Topics]
      BY <1>1
    <2>2. w.key = DatasetId(w.id[1], w.id[2])
      OBVIOUS
    <2> HIDE DEF w
    <2>3. w \in DatasetWrites
      BY <2>1, <2>2 DEF DatasetWrites
    <2>4. QED
      BY <2>3 DEF w
  <1>3. Attribution(p) \in DatasetWrites
    BY DEF Attribution, DatasetWrites
  <1>4. \A r \in UnitRoles : Unit(r, p) \in DatasetWrites
    BY DEF Unit, DatasetWrites
  <1>5. \A r \in ContactRoles : \A i \in ContactIds : Contact(r, i) \in DatasetWrites
    BY DEF Contact, DatasetWrites
  <1>6. /\ [op |-> "aggregated", id |-> DatasetId(p, t)] \in DatasetWrites
        /\ [op |-> "relation", id |-> DatasetId(p, t)] \in DatasetWrites
    BY <1>1 DEF DatasetWrites
  <1>7. /\ \A r \in UnitRoles : [op |-> "drop", role |-> r] \in DatasetWrites
        /\ \A r \in ContactRoles : [op |-> "dropContact", role |-> r] \in DatasetWrites
    BY DEF DatasetWrites
  <1>8. QED
    BY <1>2, <1>3, <1>4, <1>5, <1>6, <1>7

LEMMA ServiceWorkInOrder ==
  ASSUME NEW s, s.provider \in Providers, s.topic \in Topics
  PROVE  ServiceWork(s) \in Seq(DatasetWrites) /\ InOrder(ServiceWork(s))
  <1>1. Aggregate \in Providers /\ <<Aggregate>> \in ContactIds /\ <<s.provider>> \in ContactIds
        /\ <<s.provider, s.topic>> \in ContactIds
    BY DEF Providers, ContactIds
  <1>2. /\ "owner" \in UnitRoles /\ "maintainer" \in UnitRoles /\ "owner" \in ContactRoles
        /\ "custodian" \in ContactRoles /\ "pointOfContact" \in ContactRoles
    BY DEF UnitRoles, ContactRoles
  <1>3. BrokerWork(s) \in Seq(DatasetWrites) /\ InOrder(BrokerWork(s))
    <2> DEFINE a == Dataset(s.provider, s)
               b == Attribution(s.provider)
               c == Unit("owner", s.provider)
               d == Unit("maintainer", Aggregate)
               e == Contact("pointOfContact", <<Aggregate>>)
    <2>1. /\ a \in DatasetWrites /\ b \in DatasetWrites /\ c \in DatasetWrites
          /\ d \in DatasetWrites /\ e \in DatasetWrites
      BY <1>1, <1>2, DatasetWriteKinds DEF Dataset
    <2>2. /\ a.op = "dataset" /\ b.op = "datasetAttribution" /\ c.op = "unit" /\ d.op = "unit"
          /\ e.op = "contact"
      BY DEF Dataset, Attribution, Unit, Contact
    <2>3. BrokerWork(s) = <<a, b, c, d, e>>
      BY DEF BrokerWork
    <2> HIDE DEF a, b, c, d, e
    <2>4. Prepares(a, b) /\ Prepares(b, c) /\ Prepares(c, d) /\ Prepares(d, e)
      BY <2>2, FollowersInOrder DEF Followers
    <2>5. a.op \in Firsts
      BY <2>2 DEF Firsts
    <2>6. QED
      BY <2>1, <2>3, <2>4, <2>5, FiveInOrder
  <1>4. AggregateWork(s) \in Seq(DatasetWrites) /\ InOrder(AggregateWork(s))
    <2> DEFINE a == Dataset(Aggregate, s)
               b == [op |-> "aggregated", id |-> DatasetId(Aggregate, s.topic)]
               c == Attribution(Aggregate)
               d == [op |-> "drop", role |-> "maintainer"]
               e == Unit("owner", Aggregate)
               f == [op |-> "dropContact", role |-> "custodian"]
               g == Contact("pointOfContact", <<Aggregate>>)
    <2>1. /\ a \in DatasetWrites /\ b \in DatasetWrites /\ c \in DatasetWrites
          /\ d \in DatasetWrites /\ e \in DatasetWrites /\ f \in DatasetWrites
          /\ g \in DatasetWrites
      BY <1>1, <1>2, DatasetWriteKinds DEF Dataset
    <2>2. /\ a.op = "dataset" /\ b.op = "aggregated" /\ c.op = "datasetAttribution"
          /\ d.op = "drop" /\ e.op = "unit" /\ f.op = "dropContact" /\ g.op = "contact"
      BY DEF Dataset, Attribution, Unit, Contact
    <2>3. AggregateWork(s) = <<a, b, c, d, e, f, g>>
      BY DEF AggregateWork
    <2> HIDE DEF a, b, c, d, e, f, g
    <2>4. /\ Prepares(a, b) /\ Prepares(b, c) /\ Prepares(c, d) /\ Prepares(d, e)
          /\ Prepares(e, f) /\ Prepares(f, g)
      BY <2>2, FollowersInOrder DEF Followers
    <2>5. a.op \in Firsts
      BY <2>2 DEF Firsts
    <2> DEFINE work == <<a, b, c, d, e, f, g>>
    <2>6. /\ work \in Seq(DatasetWrites) /\ Len(work) = 7 /\ work[1] = a /\ work[2] = b
          /\ work[3] = c /\ work[4] = d /\ work[5] = e /\ work[6] = f /\ work[7] = g
      BY <2>1
    <2> HIDE DEF work
    <2>7. InOrder(work)
      BY <2>4, <2>5, <2>6, SevenInOrder
    <2>8. QED
      BY <2>3, <2>6, <2>7 DEF work
  <1>5. PartWork(s) \in Seq(DatasetWrites) /\ InOrder(PartWork(s))
    <2> DEFINE a == Dataset(s.provider, s)
               b == [op |-> "relation", id |-> DatasetId(Aggregate, s.topic)]
               c == Unit("maintainer", s.provider)
               d == Contact("owner", <<s.provider, s.topic>>)
               e == Contact("custodian", <<s.provider>>)
    <2>1. /\ a \in DatasetWrites /\ b \in DatasetWrites /\ c \in DatasetWrites
          /\ d \in DatasetWrites /\ e \in DatasetWrites
      BY <1>1, <1>2, DatasetWriteKinds DEF Dataset
    <2>2. /\ a.op = "dataset" /\ b.op = "relation" /\ c.op = "unit" /\ d.op = "contact"
          /\ e.op = "contact"
      BY DEF Dataset, Unit, Contact
    <2>3. PartWork(s) = <<a, b, c, d, e>>
      BY DEF PartWork
    <2> HIDE DEF a, b, c, d, e
    <2>4. Prepares(a, b) /\ Prepares(b, c) /\ Prepares(c, d) /\ Prepares(d, e)
      BY <2>2, FollowersInOrder DEF Followers
    <2>5. a.op \in Firsts
      BY <2>2 DEF Firsts
    <2>6. QED
      BY <2>1, <2>3, <2>4, <2>5, FiveInOrder
  <1>6. AggregateWork(s) \o PartWork(s) \in Seq(DatasetWrites)
        /\ InOrder(AggregateWork(s) \o PartWork(s))
    BY <1>4, <1>5, Concatenated
  <1>7. <<>> \o PartWork(s) = PartWork(s)
    BY <1>5, ConcatEmptySeq
  <1>8. \/ ServiceWork(s) = BrokerWork(s)
        \/ ServiceWork(s) = PartWork(s)
        \/ ServiceWork(s) = AggregateWork(s) \o PartWork(s)
    BY <1>7 DEF ServiceWork
  <1>9. QED
    BY <1>3, <1>5, <1>6, <1>8

LEMMA TopicWorkInOrder ==
  ASSUME NEW t \in Topics, NEW id \in DatasetIds, NEW dd \in DOMAIN dataset
  PROVE  TopicWork(t, id, dd) \in Seq(DistributionWrites) /\ InOrder(TopicWork(t, id, dd))
  <1> DEFINE Of1(kind) == [op |-> "service", kind |-> kind, topic |-> t]
             Of2(kind) == [op |-> "distribution", kind |-> kind, topic |-> t, id |-> id,
                           dataset |-> dd]
             c == [op |-> "prefer", id |-> DistributionId(id, "wms"), dataset |-> dd]
             a == Of1("wms")
             b == Of2("wms")
             d == Of1("availability")
             e == Of2("availability")
             f == Of1("stac")
             g == Of2("stac")
  <1>1. /\ a \in DistributionWrites /\ b \in DistributionWrites /\ d \in DistributionWrites
        /\ e \in DistributionWrites /\ f \in DistributionWrites /\ g \in DistributionWrites
    BY DEF DistributionWrites, KindsOfService
  <1>2. c \in DistributionWrites
    BY DEF DistributionWrites, KindsOfService, DistributionId
  <1>3. Prepares(a, b) /\ Prepares(d, e) /\ Prepares(f, g) /\ Prepares(b, c)
    BY DEF Prepares, Followers
  <1>4. a.op \in Firsts /\ Prepares(c, d) /\ Prepares(e, f)
    <2>1. a.op \in Firsts /\ d.op \in Firsts /\ f.op \in Firsts
      BY DEF Firsts
    <2>2. QED
      BY <2>1, FirstsNeedNothing
  <1>5. TopicWork(t, id, dd) = <<a, b, c, d, e, f, g>>
    BY DEF TopicWork
  <1> HIDE DEF a, b, c, d, e, f, g
  <1> DEFINE work == <<a, b, c, d, e, f, g>>
  <1>6. /\ work \in Seq(DistributionWrites) /\ Len(work) = 7 /\ work[1] = a /\ work[2] = b
        /\ work[3] = c /\ work[4] = d /\ work[5] = e /\ work[6] = f /\ work[7] = g
    BY <1>1, <1>2
  <1> HIDE DEF work
  <1>7. InOrder(work)
    BY <1>3, <1>4, <1>6, SevenInOrder
  <1>8. QED
    BY <1>5, <1>6, <1>7 DEF work

\* The records of the source.
LEMMA RecordsKnown ==
  ASSUME RunOk
  PROVE  /\ \A s \in run.input.services : s.provider \in Providers /\ s.topic \in Topics
         /\ run.input.config \subseteq Topics
         /\ \A t \in ContactTasks(run.input.services) :
              t.id \in ContactIds /\ t.provider \in Providers
  <1>1. /\ \A s \in run.input.services : s.provider \in Providers /\ s.topic \in Topics
        /\ run.input.config \subseteq Topics
    BY SourcesAssumption DEF RunOk
  <1>2. Aggregate \in Providers
    BY DEF Providers
  <1>3. QED
    BY <1>1, <1>2 DEF ContactTasks, ContactIds

LEMMA RecordsTakenUp ==
  ASSUME Inv, NextOrganization \/ NextContact \/ NextService \/ NextTopic
  PROVE  Stored' /\ (run' = Idle \/ RunOk')
  <1>1. RunOk /\ Stored
    BY DEF NextOrganization, NextContact, NextService, NextTopic, Ready, Running, Inv
  <1>2. CASE NextOrganization
    <2>1. run.part = "organizations" /\ Writes = OrganizationWrites
      BY <1>2 DEF NextOrganization, Ready, Writes
    <2>2. PICK p \in run.todo : TakeUp(p, {p}, OrganizationWork(p))
      BY <1>2 DEF NextOrganization
    <2>3. p \in Providers
      BY <1>1, <2>1 DEF RunOk, Records
    <2>4. OrganizationWork(p) \in Seq(Writes) /\ InOrder(OrganizationWork(p))
      BY <2>1, <2>3, OrganizationWorkInOrder
    <2>5. QED
      BY <1>1, <2>2, <2>4, TakenUp
  <1>3. CASE NextContact
    <2>1. run.part = "contacts" /\ Writes = ContactWrites
      BY <1>3 DEF NextContact, Ready, Writes
    <2>2. PICK t \in run.todo :
            TakeUp(t, {t.id}, <<[op |-> "saveContact", id |-> t.id, provider |-> t.provider]>>)
      BY <1>3 DEF NextContact
    <2>3. t.id \in ContactIds /\ t.provider \in Providers
      BY <1>1, <2>1, RecordsKnown DEF RunOk, Records
    <2> DEFINE w == [op |-> "saveContact", id |-> t.id, provider |-> t.provider]
    <2>4. w \in ContactWrites
      BY <2>3 DEF ContactWrites
    <2> HIDE DEF w
    <2>5. <<w>> \in Seq(Writes) /\ InOrder(<<w>>)
      BY <2>1, <2>4, ContactWorkInOrder
    <2>6. TakeUp(t, {t.id}, <<w>>)
      BY <2>2 DEF w
    <2>7. QED
      BY <1>1, <2>5, <2>6, TakenUp
  <1>4. CASE NextService
    <2>1. run.part = "datasets" /\ Writes = DatasetWrites
      BY <1>4 DEF NextService, Ready, Writes
    <2>2. PICK s \in run.todo : TakeUp(s, ServiceIds(s), ServiceWork(s))
      BY <1>4 DEF NextService
    <2>3. s.provider \in Providers /\ s.topic \in Topics
      BY <1>1, <2>1, RecordsKnown DEF RunOk, Records
    <2>4. ServiceWork(s) \in Seq(Writes) /\ InOrder(ServiceWork(s))
      BY <2>1, <2>3, ServiceWorkInOrder
    <2>5. QED
      BY <1>1, <2>2, <2>4, TakenUp
  <1>5. CASE NextTopic
    <2>1. run.part = "distributions" /\ Writes = DistributionWrites
      BY <1>5 DEF NextTopic, Ready, Writes
    <2>2. PICK topic \in run.todo :
         \/ ProvidersOf(topic) = {} /\ Raise
         \/ \E p \in ProvidersOf(topic) :
              LET id == DatasetId(p, topic)
                  m == Match(run.lookup.dataset, id)
                  found == IF IsMapped(m) THEN {m.target} ELSE {id} \cap DOMAIN dataset
              IN  \/ found = {} /\ TakeUp(topic, {topic}, <<>>)
                  \/ \E d \in found : TakeUp(topic, {topic}, TopicWork(topic, id, d))
      BY <1>5 DEF NextTopic
    <2>3. topic \in Topics /\ LookupsFit
      BY <1>1, <2>1, RecordsKnown DEF RunOk, Records
    <2>4. CASE Raise
      <3>1. Stored'
        BY <1>1, <2>4, NothingSaved DEF Raise
      <3>2. QED
        BY <2>4, <3>1 DEF Raise
    <2>5. CASE TakeUp(topic, {topic}, <<>>)
      <3>1. <<>> \in Seq(Writes) /\ InOrder(<<>>)
        BY EmptySeq DEF InOrder, Ordered
      <3>2. QED
        BY <1>1, <2>5, <3>1, TakenUp
    <2>6. ASSUME NEW p \in ProvidersOf(topic), NEW id, id = DatasetId(p, topic),
                 NEW d \in (IF IsMapped(Match(run.lookup.dataset, id))
                            THEN {Match(run.lookup.dataset, id).target}
                            ELSE {id} \cap DOMAIN dataset),
                 TakeUp(topic, {topic}, TopicWork(topic, id, d))
          PROVE  Stored' /\ RunOk'
      <3>1. p \in Providers
        BY <1>1, RecordsKnown DEF ProvidersOf, Providers
      <3>2. id \in DatasetIds
        BY <2>3, <2>6, <3>1 DEF DatasetIds
      <3>3. Targets(run.lookup.dataset, DOMAIN dataset)
        BY <2>1, <2>3 DEF LookupsFit
      <3>4. d \in DOMAIN dataset
        BY <2>6, <3>3, MatchTarget
      <3>5. TopicWork(topic, id, d) \in Seq(Writes) /\ InOrder(TopicWork(topic, id, d))
        BY <2>1, <2>3, <3>2, <3>4, TopicWorkInOrder
      <3>6. QED
        BY <1>1, <2>6, <3>5, TakenUp
    <2>7. QED
      BY <2>2, <2>4, <2>5, <2>6
  <1>6. QED
    BY <1>2, <1>3, <1>4, <1>5

-----------------------------------------------------------------------------
\* What the write at hand says of the part, and what it holds.
LEMMA WriteParts ==
  ASSUME NEW w \in Writes
  PROVE  /\ w.op \in {"take", "organization", "attribution"} =>
               run.part = "organizations" /\ w \in OrganizationWrites
         /\ w.op = "saveContact" => run.part = "contacts" /\ w \in ContactWrites
         /\ w.op \in {"dataset"} \cup Followers => run.part = "datasets" /\ w \in DatasetWrites
         /\ w.op \in {"service", "distribution", "prefer"} =>
               run.part = "distributions" /\ w \in DistributionWrites
  <1>1. \A v \in OrganizationWrites : v.op \in {"take", "organization", "attribution"}
    BY DEF OrganizationWrites
  <1>2. \A v \in ContactWrites : v.op = "saveContact"
    BY DEF ContactWrites
  <1>3. \A v \in DatasetWrites : v.op \in {"dataset"} \cup Followers
    BY DEF DatasetWrites, Followers
  <1>4. \A v \in DistributionWrites : v.op \in {"service", "distribution", "prefer"}
    BY DEF DistributionWrites
  <1>5. \/ run.part = "organizations" /\ w \in OrganizationWrites
        \/ run.part = "contacts" /\ w \in ContactWrites
        \/ run.part = "datasets" /\ w \in DatasetWrites
        \/ run.part = "distributions" /\ w \in DistributionWrites
    BY DEF Writes
  <1>6. QED
    BY <1>1, <1>2, <1>3, <1>4, <1>5 DEF Followers

LEMMA TargetThere ==
  ASSUME NEW p, Targets(run.lookup.organization, DOMAIN organization)
  PROVE  /\ Target(p) \subseteq DOMAIN organization
         /\ \A o, q \in Target(p) : o = q
  <1>1. CASE IsMapped(OrganizationMapping(p))
    <2>1. OrganizationMapping(p).target \in DOMAIN organization
      BY <1>1, MatchTarget DEF OrganizationMapping
    <2>2. QED
      BY <1>1, <2>1 DEF Target
  <1>2. CASE ~ IsMapped(OrganizationMapping(p))
    BY <1>2 DEF Target, OwnRow, RowsOf
  <1>3. QED
    BY <1>1, <1>2

LEMMA TakeIdKeeps ==
  ASSUME Inv, TakeId
  PROVE  Stored' /\ RunOk'
  <1>1. RunOk /\ run.work # <<>> /\ Op.op = "take"
    BY AtWork DEF TakeId
  <1>2. Stored' /\ Grow /\ Holders(organization', Op.id) = {}
    BY StripOrganizations DEF TakeId, Inv
  <1>3. \A w \in Writes' : Prepares(Op, w) => Prepared(w)'
    BY <1>1, <1>2 DEF Prepares, Prepared, Followers
  <1>4. QED
    BY <1>1, <1>2, <1>3, WriteDone DEF TakeId

LEMMA ImportOrganizationKeeps ==
  ASSUME Inv, ImportOrganization
  PROVE  Stored' /\ (run' = Idle \/ RunOk')
  <1>1. /\ RunOk /\ run.work # <<>> /\ Op.op = "organization" /\ Op \in Writes
        /\ Holders(organization, Op.id) = {} /\ LookupsFit /\ Stored
    BY AtWork DEF ImportOrganization, Prepared, Inv
  <1>2. PICK p : p = Op.id
    OBVIOUS
  <1>3. /\ run.part = "organizations" /\ p \in Providers
        /\ Targets(run.lookup.organization, DOMAIN organization)
    BY <1>1, <1>2, WriteParts DEF LookupsFit, OrganizationWrites
  <1>4. /\ organization \in [DOMAIN organization -> OrganizationRows] /\ OneHolder(organization)
        /\ Rows(organization)
    BY <1>1 DEF Stored, Typed, Rows, OrganizationRows
  <1>5. ASSUME NEW o, NEW row \in OrganizationRows, DoneWith(o),
               SaveOrganizations(Put(organization, o, row)),
               row.ids \subseteq {p} \cup (IF o \in DOMAIN organization
                                           THEN organization[o].ids ELSE {}),
               o \in ForeignOrganizations => row.source # Geodienste
        PROVE  Stored' /\ RunOk'
    <2> DEFINE new == Put(organization, o, row)
    <2>1. /\ new \in [DOMAIN new -> OrganizationRows] /\ DOMAIN organization \subseteq DOMAIN new
          /\ o \in DOMAIN new /\ new[o] = row
          /\ \A k \in DOMAIN organization \ {o} : new[k] = organization[k]
      BY <1>4, PutTyped
    <2>2. OneHolder(new)
      BY <1>1, <1>2, <1>4, <1>5, PutRow DEF OrganizationRows
    <2>3. \A k \in ForeignOrganizations : new[k].source # Geodienste
      BY <1>1, <1>5, <2>1 DEF Stored, ForeignRows
    <2> HIDE DEF new
    <2>4. SaveOrganizations(new)
      BY <1>5 DEF new
    <2>5. Stored' /\ Grow /\ organization' = new
      BY <1>1, <2>1, <2>2, <2>3, <2>4, OrganizationsSaved DEF SaveOrganizations
    <2>6. run'.current = o
      BY <1>1, <1>5 DEF DoneWith, RunOk, Columns
    <2>7. \A w \in Writes' : Prepares(Op, w) => Prepared(w)'
      BY <1>1, <2>1, <2>5, <2>6 DEF Prepares, Prepared, Followers
    <2>8. QED
      BY <1>1, <1>5, <2>5, <2>7, WriteDone
  <1>6. ASSUME NEW o \in Target(p), DoneWith(o),
               SaveOrganizations(Put(organization, o,
                 AddSourceId(Harvested(organization[o], OrganizationMapping(p)), p)))
        PROVE  Stored' /\ RunOk'
    <2> DEFINE old == organization[o]
               row == AddSourceId(Harvested(old, OrganizationMapping(p)), p)
    <2>1. o \in DOMAIN organization
      BY <1>3, TargetThere
    <2>2. old \in OrganizationRows
      BY <1>4, <2>1
    <2>3. row \in OrganizationRows /\ row.ids = old.ids \cup {p} /\ row.source = old.source
      <3> HIDE DEF old
      <3>1. "theirs" \in Texts /\ old.text \in Texts
        BY <2>2 DEF Texts, OrganizationRows
      <3> DEFINE text == IF OrganizationMapping(p).update THEN "theirs" ELSE old.text
      <3>2. text \in Texts
        BY <3>1
      <3>3. row = [[old EXCEPT !.text = text] EXCEPT !.ids = @ \cup {p}]
        BY DEF AddSourceId, Harvested
      <3> HIDE DEF text, row
      <3>4. QED
        BY <1>3, <2>2, <3>2, <3>3 DEF OrganizationRows
    <2>4. o \in ForeignOrganizations => old.source # Geodienste
      BY <1>1 DEF Stored, ForeignRows
    <2>5. SaveOrganizations(Put(organization, o, row))
      BY <1>6
    <2>6. row.ids \subseteq {p} \cup (IF o \in DOMAIN organization THEN organization[o].ids ELSE {})
      BY <2>1, <2>3
    <2> HIDE DEF row, old
    <2>7. QED
      BY <1>5, <1>6, <2>3, <2>4, <2>5, <2>6
  <1>7. ASSUME NEW own, own \notin DOMAIN organization, DoneWith(own),
               SaveOrganizations(Put(organization, own, OrganizationRow(Geodienste, {p}, "theirs")))
        PROVE  Stored' /\ RunOk'
    <2> DEFINE row == OrganizationRow(Geodienste, {p}, "theirs")
    <2>1. row \in OrganizationRows /\ row.ids = {p}
      BY <1>3 DEF OrganizationRow, OrganizationRows, DataSources, Texts
    <2>2. own \notin ForeignOrganizations
      BY <1>1, <1>7 DEF Stored, ForeignRows
    <2> HIDE DEF row
    <2>3. SaveOrganizations(Put(organization, own, row))
      BY <1>7 DEF row
    <2>4. QED
      BY <1>5, <1>7, <2>1, <2>2, <2>3
  <1>8. CASE Raise
    BY <1>1, <1>8, NothingSaved DEF Raise
  <1>9. QED
    BY <1>2, <1>6, <1>7, <1>8 DEF ImportOrganization

LEMMA ImportAttributionKeeps ==
  ASSUME Inv, ImportAttribution
  PROVE  Stored' /\ (run' = Idle \/ RunOk')
  <1>1. /\ RunOk /\ run.work # <<>> /\ Op.op = "attribution" /\ Op \in Writes
        /\ run.current \in DOMAIN organization /\ Stored
    BY AtWork DEF ImportAttribution, Prepared, Inv
  <1>2. PICK p, a : p = Op.id /\ a = OrganizationId[p]
    OBVIOUS
  <1>3. p \in Providers
    BY <1>1, <1>2, WriteParts DEF OrganizationWrites
  <1> DEFINE stripped == RemoveSourceId(attribution, p)
  <1>4. /\ DOMAIN stripped = DOMAIN attribution /\ stripped \in [DOMAIN stripped -> AttributionRows]
        /\ \A b \in DOMAIN attribution : stripped[b].organization = attribution[b].organization
    <2>1. stripped = [b \in DOMAIN attribution |-> [attribution[b] EXCEPT !.ids = @ \ {p}]]
      BY DEF RemoveSourceId
    <2>2. \A b \in DOMAIN attribution : attribution[b] \in AttributionRows
      BY <1>1 DEF Stored, Typed
    <2>3. \A b \in DOMAIN attribution :
            /\ [attribution[b] EXCEPT !.ids = @ \ {p}] \in AttributionRows
            /\ [attribution[b] EXCEPT !.ids = @ \ {p}].organization = attribution[b].organization
      BY <2>2 DEF AttributionRows
    <2> HIDE DEF stripped
    <2>4. QED
      BY <2>1, <2>3
  <1> HIDE DEF stripped
  <1>5. ASSUME NEW row \in AttributionRows, Done, SaveAttributions(Put(stripped, a, row)),
               a \in ForeignAttributions => row.organization \in ForeignOrganizations
        PROVE  Stored' /\ RunOk'
    <2> DEFINE new == Put(stripped, a, row)
    <2>1. /\ new \in [DOMAIN new -> AttributionRows] /\ DOMAIN stripped \subseteq DOMAIN new
          /\ new[a] = row /\ \A b \in DOMAIN stripped \ {a} : new[b] = stripped[b]
      <3>1. stripped \in [DOMAIN stripped -> AttributionRows]
        BY <1>4
      <3>2. QED
        BY <3>1, PutTyped
    <2>2. \A b \in ForeignAttributions : new[b].organization \in ForeignOrganizations
      BY <1>1, <1>4, <1>5, <2>1 DEF Stored, ForeignRows
    <2> HIDE DEF new
    <2>3. SaveAttributions(new) /\ DOMAIN attribution \subseteq DOMAIN new
      BY <1>4, <1>5, <2>1 DEF new
    <2>4. Stored' /\ Grow
      BY <1>1, <2>1, <2>2, <2>3, AttributionsSaved
    <2>5. \A w \in Writes' : Prepares(Op, w) => Prepared(w)'
      BY <1>1 DEF Prepares, Prepared, Followers
    <2>6. QED
      BY <1>1, <1>5, <2>4, <2>5, WriteDone
  <1>6. CASE /\ a \in RowsOf(attribution, Geodienste) /\ Done
             /\ SaveAttributions(Put(stripped, a, AddSourceId(stripped[a], p)))
    <2> DEFINE row == AddSourceId(stripped[a], p)
    <2>1. stripped[a] \in AttributionRows /\ a \in DOMAIN attribution
      BY <1>4, <1>6 DEF RowsOf
    <2>2. row \in AttributionRows /\ row.organization = stripped[a].organization
      BY <1>3, <2>1 DEF AddSourceId, AttributionRows
    <2>3. a \in ForeignAttributions => row.organization \in ForeignOrganizations
      BY <1>1, <1>4, <2>1, <2>2 DEF Stored, ForeignRows
    <2> HIDE DEF row
    <2>4. SaveAttributions(Put(stripped, a, row))
      BY <1>6 DEF row
    <2>5. QED
      BY <1>5, <1>6, <2>2, <2>3, <2>4
  <1>7. CASE /\ a \notin DOMAIN attribution /\ Done
             /\ SaveAttributions(Put(stripped, a, AttributionRow(Geodienste, {p}, run.current)))
    <2> DEFINE row == AttributionRow(Geodienste, {p}, run.current)
    <2>1. row \in AttributionRows
      BY <1>1, <1>3 DEF AttributionRow, AttributionRows, DataSources
    <2>2. a \notin ForeignAttributions
      BY <1>1, <1>7 DEF Stored, ForeignRows
    <2> HIDE DEF row
    <2>3. SaveAttributions(Put(stripped, a, row))
      BY <1>7 DEF row
    <2>4. QED
      BY <1>5, <1>7, <2>1, <2>2, <2>3
  <1>8. CASE Raise
    BY <1>1, <1>8, NothingSaved DEF Raise
  <1>9. QED
    BY <1>2, <1>6, <1>7, <1>8 DEF ImportAttribution, stripped

LEMMA ImportContactKeeps ==
  ASSUME Inv, ImportContact
  PROVE  Stored' /\ RunOk'
  <1>1. RunOk /\ run.work # <<>> /\ Op.op = "saveContact" /\ Op \in Writes /\ LookupsFit /\ Stored
    BY AtWork DEF ImportContact, Inv
  <1>2. PICK id, p : id = Op.id /\ p = Op.provider
    OBVIOUS
  <1>3. /\ id \in ContactIds /\ Targets(run.lookup.organization, DOMAIN organization)
    BY <1>1, <1>2, WriteParts DEF LookupsFit, ContactWrites
  <1> DEFINE new == contact \cup NewContacts(id, p)
  <1>4. \A c \in NewContacts(id, p) :
          /\ c \in ContactRows /\ OwnContact(c) /\ c.ids = {id} /\ ContactsOf(id) = {}
          /\ \E o \in Target(p) : c = ContactRow(Geodienste, {id}, o)
    BY <1>3, TargetThere DEF NewContacts, ContactRow, ContactRows, OwnContact, DataSources
  <1>5. new \subseteq ContactRows /\ \A c \in new : OwnContact(c)
    BY <1>1, <1>4 DEF Stored, Typed
  <1>6. ASSUME NEW c \in new, NEW e \in new, NEW i \in c.ids \cap e.ids
        PROVE  c = e
    <2>1. CASE c \in contact /\ e \in contact
      BY <1>1, <1>6, <2>1 DEF Stored, OneHolder, ContactTable
    <2>2. CASE c \in NewContacts(id, p) /\ e \in NewContacts(id, p)
      BY <1>3, <1>4, <2>2, TargetThere
    <2>3. CASE c \in contact /\ e \in NewContacts(id, p)
      BY <1>1, <1>4, <1>6, <2>3 DEF Stored, OwnContact, ContactsOf
    <2>4. CASE c \in NewContacts(id, p) /\ e \in contact
      BY <1>1, <1>4, <1>6, <2>4 DEF Stored, OwnContact, ContactsOf
    <2>5. QED
      BY <1>6, <2>1, <2>2, <2>3, <2>4
  <1>7. OneHolder([c \in new |-> c])
    BY <1>6 DEF OneHolder
  <1>8. SaveContacts(new) /\ contact \subseteq new /\ Done
    BY <1>2 DEF ImportContact
  <1> HIDE DEF new
  <1>9. Stored' /\ Grow
    BY <1>1, <1>5, <1>7, <1>8, ContactsSaved
  <1>10. \A w \in Writes' : Prepares(Op, w) => Prepared(w)'
    BY <1>1 DEF Prepares, Prepared, Followers
  <1>11. QED
    BY <1>1, <1>8, <1>9, <1>10, WriteDone

-----------------------------------------------------------------------------
\* One column of a dataset is set.
LEMMA DatasetChanged ==
  ASSUME NEW r \in DatasetRows, NEW s,
         \/ \E u : u \subseteq UnitLinks /\ s = [r EXCEPT !.units = u]
         \/ \E c : c \subseteq ContactLinks /\ s = [r EXCEPT !.contacts = c]
         \/ \E p : p \subseteq DOMAIN dataset /\ s = [r EXCEPT !.partOf = p]
         \/ \E a \in DOMAIN attribution : s = [r EXCEPT !.attribution = a]
         \/ \E x \in DOMAIN distribution : s = [r EXCEPT !.preferred = x]
         \/ \E t \in Texts : s = [r EXCEPT !.text = t]
  PROVE  s \in DatasetRows /\ s.ids = r.ids /\ s.source = r.source
  <1>1. ASSUME NEW u, u \subseteq UnitLinks, s = [r EXCEPT !.units = u]
        PROVE  s \in DatasetRows /\ s.ids = r.ids /\ s.source = r.source
    BY <1>1 DEF DatasetRows
  <1>2. ASSUME NEW c, c \subseteq ContactLinks, s = [r EXCEPT !.contacts = c]
        PROVE  s \in DatasetRows /\ s.ids = r.ids /\ s.source = r.source
    BY <1>2 DEF DatasetRows
  <1>3. ASSUME NEW p, p \subseteq DOMAIN dataset, s = [r EXCEPT !.partOf = p]
        PROVE  s \in DatasetRows /\ s.ids = r.ids /\ s.source = r.source
    BY <1>3 DEF DatasetRows
  <1>4. ASSUME NEW a \in DOMAIN attribution, s = [r EXCEPT !.attribution = a]
        PROVE  s \in DatasetRows /\ s.ids = r.ids /\ s.source = r.source
    BY <1>4 DEF DatasetRows
  <1>5. ASSUME NEW x \in DOMAIN distribution, s = [r EXCEPT !.preferred = x]
        PROVE  s \in DatasetRows /\ s.ids = r.ids /\ s.source = r.source
    BY <1>5 DEF DatasetRows
  <1>6. ASSUME NEW t \in Texts, s = [r EXCEPT !.text = t]
        PROVE  s \in DatasetRows /\ s.ids = r.ids /\ s.source = r.source
    BY <1>6 DEF DatasetRows
  <1>7. QED
    BY <1>1, <1>2, <1>3, <1>4, <1>5, <1>6, Zenon

\* The dataset at hand is saved, without a change of its ids.
LEMMA CurrentSaved ==
  ASSUME Stored, NEW d \in DOMAIN dataset, NEW row \in DatasetRows, SaveDataset(d, row),
         row.ids = dataset[d].ids, row.source = dataset[d].source, LinksSingle(row)
  PROVE  Stored' /\ Grow /\ DOMAIN dataset' = DOMAIN dataset
  <1>1. OwnIds(d, dataset[d]) /\ (d \in ForeignDatasets => dataset[d].source # Geodienste)
    BY DEF Stored, ForeignRows
  <1>2. OwnIds(d, row)
    BY <1>1 DEF OwnIds
  <1>3. QED
    BY <1>1, <1>2, DatasetSaved

LEMMA FollowerDone ==
  ASSUME RunOk, run.work # <<>>, Op.op \in Followers, run.current \in DOMAIN dataset, Grow, Done
  PROVE  RunOk'
  <1>1. run'.current = run.current
    BY DEF RunOk, Columns, Done
  <1>2. run'.current \in DOMAIN dataset'
    BY <1>1 DEF Grow
  <1>3. Op.op # "take" /\ Op.op # "organization" /\ Op.op # "service" /\ Op.op # "distribution"
    BY DEF Followers
  <1>4. \A w \in Writes' : Prepares(Op, w) => Prepared(w)'
    BY <1>2, <1>3 DEF Prepares, Prepared
  <1>5. QED
    BY <1>4, WriteDone

LEMMA ImportDatasetKeeps ==
  ASSUME Inv, ImportDataset
  PROVE  Stored' /\ (run' = Idle \/ RunOk')
  <1>1. RunOk /\ run.work # <<>> /\ Op.op = "dataset" /\ Op \in Writes /\ LookupsFit /\ Stored
    BY AtWork DEF ImportDataset, Inv
  <1>2. /\ run.part = "datasets" /\ Op \in DatasetWrites
        /\ Targets(run.lookup.dataset, DOMAIN dataset)
    BY <1>1, WriteParts DEF LookupsFit
  <1>3. /\ Op.id \in Providers \X Topics /\ Op.key = DatasetId(Op.id[1], Op.id[2])
    BY <1>1, <1>2 DEF DatasetWrites
  <1>4. PICK m, d : /\ m = Match(run.lookup.dataset, Op.key)
                    /\ d = IF IsMapped(m) THEN m.target ELSE Op.key
    OBVIOUS
  <1>5. ASSUME Stored', Grow, DoneWith(d), d \in DOMAIN dataset'
        PROVE  RunOk'
    <2>1. run'.current = d
      BY <1>1, <1>5 DEF DoneWith, RunOk, Columns
    <2>2. \A w \in Writes' : Prepares(Op, w) => Prepared(w)'
      BY <1>1, <1>5, <2>1 DEF Prepares, Prepared
    <2>3. QED
      BY <1>1, <1>5, <2>2, WriteDone
  <1>6. CASE /\ IsMapped(m) \/ d \in RowsOf(dataset, Geodienste)
             /\ DoneWith(d) /\ SaveDataset(d, Harvested(dataset[d], m))
    <2>1. d \in DOMAIN dataset
      BY <1>2, <1>4, <1>6, MatchTarget DEF RowsOf
    <2> DEFINE old == dataset[d]
               row == Harvested(old, m)
    <2>2. old \in DatasetRows /\ LinksSingle(old)
      BY <1>1, <2>1 DEF Stored, Typed
    <2>3. /\ row = [old EXCEPT !.text = IF m.update THEN "theirs" ELSE old.text]
          /\ (IF m.update THEN "theirs" ELSE old.text) \in Texts
      BY <2>2 DEF Harvested, DatasetRows, Texts
    <2>4. LinksSingle(row)
      <3>1. row.units = old.units /\ row.contacts = old.contacts /\ row.partOf = old.partOf
        <4> HIDE DEF old
        <4>1. QED
          BY <2>2, <2>3 DEF DatasetRows
      <3> HIDE DEF row, old
      <3>2. QED
        BY <2>2, <3>1 DEF LinksSingle
    <2> HIDE DEF row
    <2>5. row \in DatasetRows /\ row.ids = old.ids /\ row.source = old.source
      <3> HIDE DEF old
      <3>1. \E t \in Texts : row = [old EXCEPT !.text = t]
        BY <2>3
      <3>2. QED
        BY <2>2, <3>1, DatasetChanged
    <2>6. SaveDataset(d, row)
      BY <1>6 DEF row
    <2>7. Stored' /\ Grow /\ DOMAIN dataset' = DOMAIN dataset
      BY <1>1, <2>1, <2>4, <2>5, <2>6, CurrentSaved
    <2>8. QED
      BY <1>5, <1>6, <2>1, <2>7
  <1>7. CASE /\ ~ IsMapped(m) /\ d \notin DOMAIN dataset /\ DoneWith(d)
             /\ SaveDataset(d, DatasetRow(Geodienste, {Op.id}, "theirs"))
    <2> DEFINE row == DatasetRow(Geodienste, {Op.id}, "theirs")
    <2>1. /\ row.ids = {Op.id} /\ row.units = {} /\ row.contacts = {} /\ row.partOf = {}
          /\ row = [source |-> Geodienste, ids |-> {Op.id}, text |-> "theirs",
                    attribution |-> None, units |-> {}, contacts |-> {}, partOf |-> {},
                    preferred |-> None]
      BY DEF DatasetRow
    <2> HIDE DEF row
    <2>2. row \in DatasetRows
      BY <1>3, <2>1 DEF DatasetRows, DataSources, Texts
    <2>3. OwnIds(d, row) /\ LinksSingle(row)
      BY <1>3, <1>4, <1>7, <2>1 DEF OwnIds, LinksSingle
    <2>4. d \notin ForeignDatasets
      BY <1>1, <1>7 DEF Stored, ForeignRows
    <2>5. SaveDataset(d, row)
      BY <1>7 DEF row
    <2>6. Stored' /\ Grow /\ DOMAIN dataset' = DOMAIN dataset \cup {d}
      BY <1>1, <2>2, <2>3, <2>4, <2>5, DatasetSaved
    <2>7. QED
      BY <1>5, <1>7, <2>6
  <1>8. CASE Raise
    BY <1>1, <1>8, NothingSaved DEF Raise
  <1>9. QED
    BY <1>4, <1>6, <1>7, <1>8 DEF ImportDataset

LEMMA RememberAggregateKeeps ==
  ASSUME Inv, RememberAggregate
  PROVE  Stored' /\ RunOk'
  <1>1. RunOk /\ run.work # <<>> /\ Op.op = "aggregated" /\ Prepared(Op) /\ Stored
    BY AtWork DEF RememberAggregate, Inv
  <1>2. Stored' /\ Grow
    BY <1>1, NothingSaved DEF RememberAggregate, tables
  <1>3. run.current \in DOMAIN dataset /\ Columns \subseteq DOMAIN run
    BY <1>1 DEF Prepared, Followers, RunOk
  <1> DEFINE entry == [id |-> Op.id, dataset |-> run.current]
  <1>4. entry.dataset = run.current
    OBVIOUS
  <1>5. run' = [run EXCEPT !.work = Tail(@), !.aggregated = @ \cup {entry}]
    BY DEF RememberAggregate
  <1> HIDE DEF entry
  <1>6. /\ Columns \subseteq DOMAIN run' /\ run'.work = Tail(run.work)
        /\ run'.source = run.source /\ run'.part = run.part /\ run'.input = run.input
        /\ run'.lookup = run.lookup /\ run'.todo = run.todo /\ run'.current = run.current
        /\ run'.aggregated = run.aggregated \cup {entry}
    BY <1>3, <1>5 DEF Columns
  <1>7. run'.current \in DOMAIN dataset' /\ entry.dataset \in DOMAIN dataset'
    BY <1>2, <1>3, <1>4, <1>6 DEF Grow
  <1>8. \A w \in Writes' : Prepares(Op, w) => Prepared(w)'
    BY <1>1, <1>7 DEF Prepares, Prepared, Followers
  <1>9. \A a \in run'.aggregated : a \in run.aggregated \/ a.dataset \in DOMAIN dataset'
    BY <1>6, <1>7
  <1>10. QED
    BY <1>1, <1>2, <1>6, <1>8, <1>9, WorkGoesOn

LEMMA SetAttributionKeeps ==
  ASSUME Inv, SetAttribution
  PROVE  Stored' /\ RunOk'
  <1>1. /\ RunOk /\ run.work # <<>> /\ Op.op = "datasetAttribution" /\ Prepared(Op) /\ Stored
        /\ Done
    BY AtWork DEF SetAttribution, Inv
  <1>2. Op.op \in Followers /\ run.current \in DOMAIN dataset
    BY <1>1 DEF Prepared, Followers
  <1>3. PICK a : a = OrganizationId[Op.provider]
    OBVIOUS
  <1>d. PICK d : d = run.current
    OBVIOUS
  <1>4. CASE a \in DOMAIN attribution /\ SaveDataset(d, [dataset[d] EXCEPT !.attribution = a])
    <2> DEFINE old == dataset[d]
               row == [old EXCEPT !.attribution = a]
    <2>1. old \in DatasetRows /\ LinksSingle(old)
      BY <1>1, <1>2, <1>d DEF Stored, Typed
    <2>2. SaveDataset(d, row)
      BY <1>4
    <2> HIDE DEF old
    <2>3. row.units = old.units /\ row.contacts = old.contacts /\ row.partOf = old.partOf
      BY <2>1 DEF DatasetRows
    <2>4. \E b \in DOMAIN attribution : row = [old EXCEPT !.attribution = b]
      BY <1>4
    <2> HIDE DEF row
    <2>5. row \in DatasetRows /\ row.ids = old.ids /\ row.source = old.source
      BY <2>1, <2>4, DatasetChanged
    <2>6. LinksSingle(row)
      BY <2>1, <2>3 DEF LinksSingle
    <2>7. Stored' /\ Grow
      BY <1>1, <1>2, <1>d, <2>2, <2>5, <2>6, CurrentSaved DEF old
    <2>8. QED
      BY <1>1, <1>2, <2>7, FollowerDone
  <1>5. CASE UNCHANGED tables
    BY <1>1, <1>2, <1>5, NothingSaved, FollowerDone
  <1>6. QED
    BY <1>3, <1>d, <1>4, <1>5 DEF SetAttribution

LEMMA RelateToAggregateKeeps ==
  ASSUME Inv, RelateToAggregate
  PROVE  Stored' /\ RunOk'
  <1>1. /\ RunOk /\ run.work # <<>> /\ Op.op = "relation" /\ Prepared(Op) /\ Stored
        /\ LookupsFit /\ Op \in Writes /\ Done
    BY AtWork DEF RelateToAggregate, Inv
  <1>2. Op.op \in Followers /\ run.current \in DOMAIN dataset
    BY <1>1 DEF Prepared, Followers
  <1>d. PICK d : d = run.current
    OBVIOUS
  <1>3. PICK e \in run.aggregated :
          SaveDataset(d, [dataset[d] EXCEPT !.partOf = IF @ = {} THEN {e.dataset} ELSE @])
    BY <1>d DEF RelateToAggregate
  <1>4. e.dataset \in DOMAIN dataset
    <2>1. run.part = "datasets"
      BY <1>1, <1>2, WriteParts
    <2>2. QED
      BY <1>1, <2>1 DEF LookupsFit
  <1> DEFINE old == dataset[d]
             parts == IF old.partOf = {} THEN {e.dataset} ELSE old.partOf
             row == [old EXCEPT !.partOf = parts]
  <1>5. old \in DatasetRows /\ LinksSingle(old)
    BY <1>1, <1>2, <1>d DEF Stored, Typed
  <1>6. SaveDataset(d, row)
    BY <1>3
  <1>7. parts \subseteq DOMAIN dataset /\ \A a, b \in parts : a = b
    BY <1>4, <1>5, DatasetFields DEF LinksSingle
  <1> HIDE DEF old, parts
  <1>8. row.units = old.units /\ row.contacts = old.contacts /\ row.partOf = parts
    BY <1>5 DEF DatasetRows
  <1>9. \E p : p \subseteq DOMAIN dataset /\ row = [old EXCEPT !.partOf = p]
    BY <1>7
  <1> HIDE DEF row
  <1>10. row \in DatasetRows /\ row.ids = old.ids /\ row.source = old.source
    BY <1>5, <1>9, DatasetChanged
  <1>11. LinksSingle(row)
    BY <1>5, <1>7, <1>8 DEF LinksSingle
  <1>12. Stored' /\ Grow
    BY <1>1, <1>2, <1>d, <1>6, <1>10, <1>11, CurrentSaved DEF old
  <1>13. QED
    BY <1>1, <1>2, <1>12, FollowerDone

\* Exchanging the links of a role for another.
LEMMA LinkedSingle ==
  ASSUME NEW R, NEW T, NEW links, links \subseteq [role : R, to : T],
         \A k, l \in links : k.role = l.role => k = l, NEW role \in R, NEW to \in T
  PROVE  /\ Linked(links, role, to) \subseteq [role : R, to : T]
         /\ \A k, l \in Linked(links, role, to) : k.role = l.role => k = l
  <1> DEFINE others == {l \in links : l.role = role /\ l.to # to}
             new == [role |-> role, to |-> to]
  <1>1. CASE others # {}
    BY <1>1 DEF Linked
  <1>2. CASE others = {}
    <2>1. Linked(links, role, to) = links \cup {new}
      BY <1>2 DEF Linked
    <2>2. new \in [role : R, to : T] /\ new.role = role
      OBVIOUS
    <2>3. \A l \in links : l.role = role => l = new
      BY <1>2
    <2> HIDE DEF new
    <2>4. QED
      BY <2>1, <2>2, <2>3
  <1>3. QED
    BY <1>1, <1>2

\* The links of the dataset at hand are exchanged, by one step or by the last one.
LEMMA LinksKeep ==
  ASSUME Inv, RunOk, run.work # <<>>, Op.op \in Followers, run.current \in DOMAIN dataset,
         NEW d, d = run.current, NEW row \in DatasetRows, SaveDataset(d, row),
         row.ids = dataset[d].ids, row.source = dataset[d].source, LinksSingle(row),
         Done \/ UNCHANGED run
  PROVE  Stored' /\ RunOk'
  <1>1. Stored' /\ Grow
    BY CurrentSaved DEF Inv
  <1>2. CASE Done
    BY <1>1, <1>2, FollowerDone
  <1>3. CASE UNCHANGED run
    <2>1. Op' = Op /\ run'.current \in DOMAIN dataset'
      BY <1>1, <1>3 DEF Op, Grow
    <2>2. Op.op \notin {"organization", "attribution", "distribution", "prefer"}
      BY DEF Followers
    <2>3. Prepared(Op)'
      BY <2>1, <2>2 DEF Prepared
    <2>4. QED
      BY <1>1, <1>3, <2>3, WriteStays
  <1>4. QED
    BY <1>1, <1>2, <1>3

LEMMA LinkUnitKeeps ==
  ASSUME Inv, LinkUnit
  PROVE  Stored' /\ RunOk'
  <1>1. /\ RunOk /\ run.work # <<>> /\ Op.op = "unit" /\ Prepared(Op) /\ Stored
        /\ LookupsFit /\ Op \in Writes
    BY AtWork DEF LinkUnit, Inv
  <1>2. Op.op \in Followers /\ run.current \in DOMAIN dataset
    BY <1>1 DEF Prepared, Followers
  <1>3. run.part = "datasets" /\ Op.role \in UnitRoles
    <2>1. run.part = "datasets" /\ Op \in DatasetWrites
      BY <1>1, <1>2, WriteParts
    <2>2. QED
      BY <1>1, <2>1 DEF DatasetWrites
  <1>d. PICK d : d = run.current
    OBVIOUS
  <1>r. PICK role : role = Op.role
    OBVIOUS
  <1>4. PICK found : found = UnitFor(d, role, Op.provider)
    OBVIOUS
  <1>5. found \subseteq DOMAIN organization
    <2>1. /\ Targets(run.lookup.unit[role], DOMAIN organization)
          /\ Targets(run.lookup.organization, DOMAIN organization)
      BY <1>1, <1>3, <1>r DEF LookupsFit
    <2>2. QED
      BY <1>4, <2>1, MatchTarget DEF UnitFor, OrganizationMapping
  <1>6. CASE found = {} /\ Done /\ UNCHANGED tables
    BY <1>1, <1>2, <1>6, NothingSaved, FollowerDone
  <1>7. ASSUME NEW o \in found,
               SaveDataset(d, [dataset[d] EXCEPT !.units = Linked(dataset[d].units, role, o)]),
               Advance(Linked(dataset[d].units, role, o), role, o)
        PROVE  Stored' /\ RunOk'
    <2> DEFINE old == dataset[d]
               links == Linked(old.units, role, o)
               row == [old EXCEPT !.units = links]
    <2>1. old \in DatasetRows /\ LinksSingle(old)
      BY <1>1, <1>2, <1>d DEF Stored, Typed
    <2>2. links \subseteq UnitLinks /\ \A k, l \in links : k.role = l.role => k = l
      <3>1. old.units \subseteq UnitLinks
        BY <2>1, DatasetFields
      <3>2. \A k, l \in old.units : k.role = l.role => k = l
        BY <2>1 DEF LinksSingle
      <3> HIDE DEF old
      <3>3. role \in UnitRoles /\ o \in DOMAIN organization
        BY <1>3, <1>r, <1>5
      <3>4. QED
        BY <3>1, <3>2, <3>3, LinkedSingle DEF UnitLinks
    <2>3. SaveDataset(d, row)
      BY <1>7
    <2> HIDE DEF old, links
    <2>4. row.units = links /\ row.contacts = old.contacts /\ row.partOf = old.partOf
      BY <2>1 DEF DatasetRows
    <2>5. \E u : u \subseteq UnitLinks /\ row = [old EXCEPT !.units = u]
      BY <2>2
    <2> HIDE DEF row
    <2>6. row \in DatasetRows /\ row.ids = old.ids /\ row.source = old.source
      BY <2>1, <2>5, DatasetChanged
    <2>7. LinksSingle(row)
      BY <2>1, <2>2, <2>4 DEF LinksSingle
    <2>8. Done \/ UNCHANGED run
      BY <1>7 DEF Advance
    <2>9. QED
      BY <1>1, <1>2, <1>d, <2>3, <2>6, <2>7, <2>8, LinksKeep DEF old
  <1>8. QED
    BY <1>d, <1>r, <1>4, <1>6, <1>7 DEF LinkUnit

LEMMA LinkContactKeeps ==
  ASSUME Inv, LinkContact
  PROVE  Stored' /\ RunOk'
  <1>1. /\ RunOk /\ run.work # <<>> /\ Op.op = "contact" /\ Prepared(Op) /\ Stored
        /\ LookupsFit /\ Op \in Writes
    BY AtWork DEF LinkContact, Inv
  <1>2. Op.op \in Followers /\ run.current \in DOMAIN dataset
    BY <1>1 DEF Prepared, Followers
  <1>3. run.part = "datasets" /\ Op.role \in ContactRoles
    <2>1. run.part = "datasets" /\ Op \in DatasetWrites
      BY <1>1, <1>2, WriteParts
    <2>2. QED
      BY <1>1, <2>1 DEF DatasetWrites
  <1>d. PICK d : d = run.current
    OBVIOUS
  <1>r. PICK role : role = Op.role
    OBVIOUS
  <1>4. PICK found : found = ContactFor(d, role, Op.id)
    OBVIOUS
  <1>5. found \subseteq contact
    <2>1. Targets(run.lookup.contact[role], contact)
      BY <1>1, <1>3, <1>r DEF LookupsFit
    <2>2. QED
      BY <1>4, <2>1, MatchTarget DEF ContactFor
  <1>6. CASE found = {} /\ Done /\ UNCHANGED tables
    BY <1>1, <1>2, <1>6, NothingSaved, FollowerDone
  <1>7. ASSUME NEW c \in found,
               SaveDataset(d, [dataset[d] EXCEPT
                                 !.contacts = Linked(dataset[d].contacts, role, c)]),
               Advance(Linked(dataset[d].contacts, role, c), role, c)
        PROVE  Stored' /\ RunOk'
    <2> DEFINE old == dataset[d]
               links == Linked(old.contacts, role, c)
               row == [old EXCEPT !.contacts = links]
    <2>1. old \in DatasetRows /\ LinksSingle(old)
      BY <1>1, <1>2, <1>d DEF Stored, Typed
    <2>2. links \subseteq ContactLinks /\ \A k, l \in links : k.role = l.role => k = l
      <3>1. old.contacts \subseteq ContactLinks
        BY <2>1, DatasetFields
      <3>2. \A k, l \in old.contacts : k.role = l.role => k = l
        BY <2>1 DEF LinksSingle
      <3> HIDE DEF old
      <3>3. role \in ContactRoles /\ c \in contact
        BY <1>3, <1>r, <1>5
      <3>4. QED
        BY <3>1, <3>2, <3>3, LinkedSingle DEF ContactLinks
    <2>3. SaveDataset(d, row)
      BY <1>7
    <2> HIDE DEF old, links
    <2>4. row.units = old.units /\ row.contacts = links /\ row.partOf = old.partOf
      BY <2>1 DEF DatasetRows
    <2>5. \E u : u \subseteq ContactLinks /\ row = [old EXCEPT !.contacts = u]
      BY <2>2
    <2> HIDE DEF row
    <2>6. row \in DatasetRows /\ row.ids = old.ids /\ row.source = old.source
      BY <2>1, <2>5, DatasetChanged
    <2>7. LinksSingle(row)
      BY <2>1, <2>2, <2>4 DEF LinksSingle
    <2>8. Done \/ UNCHANGED run
      BY <1>7 DEF Advance
    <2>9. QED
      BY <1>1, <1>2, <1>d, <2>3, <2>6, <2>7, <2>8, LinksKeep DEF old
  <1>8. QED
    BY <1>d, <1>r, <1>4, <1>6, <1>7 DEF LinkContact

LEMMA DropsKeep ==
  ASSUME Inv, DropUnits \/ DropContacts
  PROVE  Stored' /\ RunOk'
  <1>1. /\ RunOk /\ run.work # <<>> /\ Op.op \in {"drop", "dropContact"} /\ Prepared(Op) /\ Stored
        /\ Done
    BY AtWork DEF DropUnits, DropContacts, Inv
  <1>2. Op.op \in Followers /\ run.current \in DOMAIN dataset
    BY <1>1 DEF Prepared, Followers
  <1>d. PICK d : d = run.current
    OBVIOUS
  <1>3. PICK role : role = Op.role
    OBVIOUS
  <1> DEFINE old == dataset[d]
             units == {l \in old.units : l.role # role}
             contacts == {l \in old.contacts : l.role # role}
             row1 == [old EXCEPT !.units = units]
             row2 == [old EXCEPT !.contacts = contacts]
  <1>4. old \in DatasetRows /\ LinksSingle(old)
    BY <1>1, <1>2, <1>d DEF Stored, Typed
  <1>5. /\ units \subseteq UnitLinks /\ \A k, l \in units : k.role = l.role => k = l
        /\ contacts \subseteq ContactLinks /\ \A k, l \in contacts : k.role = l.role => k = l
    BY <1>4, DatasetFields DEF LinksSingle
  <1>6. SaveDataset(d, row1) \/ SaveDataset(d, row2)
    BY <1>3, <1>d DEF DropUnits, DropContacts
  <1> HIDE DEF old, units, contacts
  <1>7. CASE SaveDataset(d, row1)
    <2>1. row1.units = units /\ row1.contacts = old.contacts /\ row1.partOf = old.partOf
      BY <1>4 DEF DatasetRows
    <2>2. \E u : u \subseteq UnitLinks /\ row1 = [old EXCEPT !.units = u]
      BY <1>5
    <2> HIDE DEF row1
    <2>3. row1 \in DatasetRows /\ row1.ids = old.ids /\ row1.source = old.source
      BY <1>4, <2>2, DatasetChanged
    <2>4. LinksSingle(row1)
      BY <1>4, <1>5, <2>1 DEF LinksSingle
    <2>5. QED
      BY <1>1, <1>2, <1>d, <1>7, <2>3, <2>4, LinksKeep DEF old
  <1>8. CASE SaveDataset(d, row2)
    <2>1. row2.units = old.units /\ row2.contacts = contacts /\ row2.partOf = old.partOf
      BY <1>4 DEF DatasetRows
    <2>2. \E u : u \subseteq ContactLinks /\ row2 = [old EXCEPT !.contacts = u]
      BY <1>5
    <2> HIDE DEF row2
    <2>3. row2 \in DatasetRows /\ row2.ids = old.ids /\ row2.source = old.source
      BY <1>4, <2>2, DatasetChanged
    <2>4. LinksSingle(row2)
      BY <1>4, <1>5, <2>1 DEF LinksSingle
    <2>5. QED
      BY <1>1, <1>2, <1>d, <1>8, <2>3, <2>4, LinksKeep DEF old
  <1>9. QED
    BY <1>6, <1>7, <1>8

LEMMA ImportServiceKeeps ==
  ASSUME Inv, ImportService
  PROVE  Stored' /\ RunOk'
  <1>1. RunOk /\ run.work # <<>> /\ Op.op = "service" /\ Op \in Writes /\ Stored /\ Done
    BY AtWork DEF ImportService, Inv
  <1>2. Op.topic \in Topics
    <2>1. Op \in DistributionWrites
      BY <1>1, WriteParts
    <2>2. QED
      BY <1>1, <2>1 DEF DistributionWrites
  <1>3. PICK s : s = Service(Op.kind, Op.topic)
    OBVIOUS
  <1>4. PICK row : row = IF Op.kind = "stac" THEN DataserviceRow("user-input", {})
                         ELSE DataserviceRow(Geodienste, {Op.topic})
    OBVIOUS
  <1>5. PICK new : new = IF s \in DOMAIN dataservice THEN dataservice ELSE Put(dataservice, s, row)
    OBVIOUS
  <1>6. SaveDataservices(new)
    BY <1>3, <1>4, <1>5 DEF ImportService
  <1>7. /\ new \in [DOMAIN new -> DataserviceRows] /\ DOMAIN dataservice \subseteq DOMAIN new
        /\ s \in DOMAIN new
    <2>1. dataservice \in [DOMAIN dataservice -> DataserviceRows]
      BY <1>1 DEF Stored, Typed
    <2>2. row \in DataserviceRows
      BY <1>2, <1>4 DEF DataserviceRow, DataserviceRows, DataSources
    <2>3. CASE s \in DOMAIN dataservice
      BY <1>5, <2>1, <2>3
    <2>4. CASE s \notin DOMAIN dataservice
      BY <1>5, <2>1, <2>2, <2>4, PutTyped
    <2>5. QED
      BY <2>3, <2>4
  <1>8. Stored' /\ Grow /\ s \in DOMAIN dataservice'
    BY <1>1, <1>6, <1>7, DataservicesSaved DEF SaveDataservices
  <1>9. \A w \in Writes' : Prepares(Op, w) => Prepared(w)'
    BY <1>1, <1>3, <1>8 DEF Prepares, Prepared, Followers
  <1>10. QED
    BY <1>1, <1>8, <1>9, WriteDone

LEMMA ImportDistributionKeeps ==
  ASSUME Inv, ImportDistribution
  PROVE  Stored' /\ (run' = Idle \/ RunOk')
  <1>1. /\ RunOk /\ run.work # <<>> /\ Op.op = "distribution" /\ Op \in Writes /\ Stored
        /\ Prepared(Op)
    BY AtWork DEF ImportDistribution, Inv
  <1>2. Op.topic \in Topics /\ Op.dataset \in DOMAIN dataset
    <2>1. Op \in DistributionWrites
      BY <1>1, WriteParts
    <2>2. QED
      BY <1>1, <2>1 DEF DistributionWrites
  <1>3. PICK x : x = DistributionId(Op.id, Op.kind)
    OBVIOUS
  <1>4. PICK s : s = Service(Op.kind, Op.topic)
    OBVIOUS
  <1>5. s \in DOMAIN dataservice
    BY <1>1, <1>4 DEF Prepared
  <1>6. ASSUME NEW row \in DistributionRows, SaveDistributions(Put(distribution, x, row)), Done
        PROVE  Stored' /\ RunOk'
    <2>1. distribution \in [DOMAIN distribution -> DistributionRows]
      BY <1>1 DEF Stored, Typed
    <2>2. PICK new : new = Put(distribution, x, row)
      OBVIOUS
    <2>3. /\ new \in [DOMAIN new -> DistributionRows] /\ DOMAIN distribution \subseteq DOMAIN new
          /\ x \in DOMAIN new
      BY <2>1, <2>2, PutTyped
    <2>4. Stored' /\ Grow /\ x \in DOMAIN distribution'
      BY <1>1, <1>6, <2>2, <2>3, DistributionsSaved DEF SaveDistributions
    <2>5. \A w \in Writes' : Prepares(Op, w) => Prepared(w)'
      BY <1>1, <1>3, <2>4 DEF Prepares, Prepared, Followers
    <2>6. QED
      BY <1>1, <1>6, <2>4, <2>5, WriteDone
  <1>7. DistributionRow(Geodienste, {Op.topic}, Op.topic, Op.dataset, s) \in DistributionRows
    BY <1>2, <1>5 DEF DistributionRow, DistributionRows, DataSources
  <1>8. ASSUME x \in DOMAIN distribution
        PROVE  [distribution[x] EXCEPT !.dataset = Op.dataset,
                  !.dataservice = IF Op.kind = "stac" THEN @ ELSE s] \in DistributionRows
    <2>1. PICK old : old = distribution[x]
      OBVIOUS
    <2>2. old \in DistributionRows
      BY <1>1, <1>8, <2>1 DEF Stored, Typed
    <2>3. PICK kept : kept = IF Op.kind = "stac" THEN old.dataservice ELSE s
      OBVIOUS
    <2>4. kept \in DOMAIN dataservice \cup {None}
      BY <1>5, <2>2, <2>3 DEF DistributionRows
    <2>5. [old EXCEPT !.dataset = Op.dataset, !.dataservice = kept] \in DistributionRows
      BY <1>2, <2>2, <2>4 DEF DistributionRows
    <2>6. QED
      BY <2>1, <2>3, <2>5
  <1>9. CASE Raise
    BY <1>1, <1>9, NothingSaved DEF Raise
  <1>10. CASE Done
    <2>1. PICK row : row = IF x \in DOMAIN distribution
             THEN [distribution[x] EXCEPT !.dataset = Op.dataset,
                     !.dataservice = IF Op.kind = "stac" THEN @ ELSE s]
             ELSE DistributionRow(Geodienste, {Op.topic}, Op.topic, Op.dataset, s)
      OBVIOUS
    <2>2. row \in DistributionRows
      BY <1>7, <1>8, <2>1
    <2>3. CASE SaveDistributions(Put(distribution, x, row))
      BY <1>6, <1>10, <2>2, <2>3
    <2>4. CASE Raise
      BY <1>9, <2>4
    <2>5. QED
      BY <1>3, <1>4, <2>1, <2>3, <2>4 DEF ImportDistribution
  <1>11. QED
    BY <1>9, <1>10 DEF ImportDistribution

LEMMA PreferKeeps ==
  ASSUME Inv, Prefer
  PROVE  Stored' /\ RunOk'
  <1>1. /\ RunOk /\ run.work # <<>> /\ Op.op = "prefer" /\ Op \in Writes /\ Stored
        /\ Prepared(Op) /\ Done
    BY AtWork DEF Prefer, Inv
  <1>2. Op.dataset \in DOMAIN dataset /\ Op.id \in DOMAIN distribution
    <2>1. Op \in DistributionWrites
      BY <1>1, WriteParts
    <2>2. QED
      BY <1>1, <2>1 DEF DistributionWrites, Prepared
  <1>3. PICK d : d = Op.dataset
    OBVIOUS
  <1> DEFINE old == dataset[d]
             row == [old EXCEPT !.preferred = Op.id]
  <1>4. old \in DatasetRows /\ LinksSingle(old)
    BY <1>1, <1>2, <1>3 DEF Stored, Typed
  <1>5. SaveDataset(d, row)
    BY <1>3 DEF Prefer
  <1> HIDE DEF old
  <1>6. row.units = old.units /\ row.contacts = old.contacts /\ row.partOf = old.partOf
    BY <1>4 DEF DatasetRows
  <1>7. \E x \in DOMAIN distribution : row = [old EXCEPT !.preferred = x]
    BY <1>2
  <1> HIDE DEF row
  <1>8. row \in DatasetRows /\ row.ids = old.ids /\ row.source = old.source
    BY <1>4, <1>7, DatasetChanged
  <1>9. LinksSingle(row)
    BY <1>4, <1>6 DEF LinksSingle
  <1>10. Stored' /\ Grow
    BY <1>1, <1>2, <1>3, <1>5, <1>8, <1>9, CurrentSaved DEF old
  <1>11. \A w \in Writes' : Prepares(Op, w) => Prepared(w)'
    BY <1>1 DEF Prepares, Prepared, Followers
  <1>12. QED
    BY <1>1, <1>10, <1>11, WriteDone

\* A cleanup deletes what the lookup tables of the part point to, when it is no longer needed.
LEMMA CleanUpKeeps ==
  ASSUME Inv, CleanUp
  PROVE  Stored' /\ RunOk'
  <1>1. PICK kind \in KindsOfRows : CleanId(kind) \/ CleanRow(kind)
    BY DEF CleanUp, KindsOfRows
  <1>2. Ended /\ UNCHANGED run
    BY <1>1 DEF CleanId, CleanRow, Cleaning
  <1>3. RunOk /\ run.work = <<>> /\ run.todo = {} /\ Stored
    BY <1>2 DEF Inv, Ended, Running
  <1>4. Stored'
    <2>1. CASE CleanId(kind)
      BY <1>3, <2>1, StripKeeps DEF CleanId
    <2>2. CASE CleanRow(kind)
      BY <1>3, <2>2, DeleteKeeps DEF CleanRow, Obsolete, RunOk
    <2>3. QED
      BY <1>1, <2>1, <2>2
  <1>5. RunOk'
    <2>1. run'.work = <<>> /\ run'.todo = {}
      BY <1>2, <1>3
    <2>2. run'.work \in Seq(Writes')
      BY <2>1
    <2>3. Ordered(run.work)' /\ Records'
      BY <1>2, <1>3 DEF RunOk, Ordered, Records
    <2>4. QED
      BY <1>2, <1>3, <2>1, <2>2, <2>3 DEF RunOk
  <1>6. QED
    BY <1>4, <1>5

LEMMA BeginKeeps ==
  ASSUME Inv, Begin
  PROVE  Stored' /\ RunOk'
  <1>1. PICK o \in Options :
          Start(Geodienste, o.parts, o.clean, o.clean /\ o.parts = AllParts, published)
    BY DEF Begin
  <1>2. Stored'
    BY <1>1, NothingSaved DEF Inv, Start
  <1>3. /\ Columns \subseteq DOMAIN run' /\ run'.source = Geodienste /\ run'.part = "start"
        /\ run'.input = published /\ run'.work = <<>> /\ run'.todo = {}
    BY <1>1 DEF Start, Columns
  <1>4. Records' /\ Ordered(run.work)' /\ run'.work \in Seq(Writes')
    BY <1>3 DEF Records, Ordered
  <1>5. RunOk'
    BY <1>3, <1>4 DEF RunOk, Inv, Parts
  <1>6. QED
    BY <1>2, <1>5

\* A mapping is entered or deleted while no lookup table is in use.
LEMMA EditMappingsKeeps ==
  ASSUME Inv, EditMappings
  PROVE  Stored' /\ MappingsTyped' /\ (run' = Idle \/ RunOk')
  <1>1. Stored' /\ Grow /\ UNCHANGED tables
    BY NothingSaved DEF EditMappings, Inv
  <1>2. MappingsTyped'
    <2>k. PICK k \in DOMAIN MappingRows : \E m \in MappingRows[k] :
            mappings' = [mappings EXCEPT ![k] = IF m \in @ THEN @ \ {m} ELSE @ \cup {m}]
      BY DEF EditMappings
    <2>1. PICK m \in MappingRows[k] :
            mappings' = [mappings EXCEPT ![k] = IF m \in @ THEN @ \ {m} ELSE @ \cup {m}]
      BY <2>k
    <2>2. DOMAIN mappings' = DOMAIN mappings
      BY <2>1
    <2>3. ASSUME NEW j \in DOMAIN mappings', NEW n \in mappings'[j]
          PROVE  n.prefix \in Prefixes
      <3>1. n \in mappings[j] \/ n = m
        BY <2>1, <2>2, <2>3
      <3>2. QED
        BY <2>2, <2>3, <3>1, MappingsAssumption DEF Inv, MappingsTyped
    <2>4. QED
      BY <2>2, <2>3 DEF Inv, MappingsTyped
  <1>3. CASE run = Idle
    BY <1>1, <1>2, <1>3 DEF EditMappings
  <1>4. CASE RunOk
    <2>1. UNCHANGED run
      BY DEF EditMappings
    <2>2. Records' /\ Ordered(run.work)'
      BY <1>4, <2>1 DEF RunOk, Records, Ordered
    <2>3. Writes' = Writes
      BY <1>1, <2>1 DEF tables, Writes, OrganizationWrites, ContactWrites, DatasetWrites,
                        DistributionWrites
    <2>4. Prepared(run.work[1])' <=> Prepared(run.work[1])
      BY <1>1, <2>1 DEF tables, Prepared
    <2>5. LookupsFit' <=> LookupsFit
      BY <1>1, <2>1 DEF tables, LookupsFit
    <2>6. RunOk'
      BY <1>4, <2>1, <2>2, <2>3, <2>4, <2>5 DEF RunOk
    <2>7. QED
      BY <1>1, <1>2, <2>6
  <1>5. QED
    BY <1>3, <1>4 DEF Inv

LEMMA InitInv == Init => Inv
  <1> SUFFICES ASSUME Init PROVE Inv
    OBVIOUS
  <1>1. MappingsTyped
    BY MappingsAssumption DEF Init, MappingsTyped
  <1>2. published \in Sources
    BY SourcesAssumption DEF Init
  <1>3. QED
    BY <1>1, <1>2, InitStored DEF Inv, Init

LEMMA NextKeepsInv == Inv /\ [Next]_vars => Inv'
  <1> SUFFICES ASSUME Inv, [Next]_vars PROVE Inv'
    OBVIOUS
  <1>1. CASE Publish
    <2>1. published' \in Sources /\ UNCHANGED <<mappings, tables, run>>
      BY <1>1 DEF Publish
    <2>2. Stored'
      BY <2>1, NothingSaved DEF Inv
    <2>3. run' = Idle
      BY <1>1 DEF Publish, Running
    <2>4. QED
      BY <2>1, <2>2, <2>3 DEF Inv, MappingsTyped
  <1>2. CASE EditMappings
    BY <1>2, EditMappingsKeeps DEF EditMappings, Inv
  <1>3. CASE Begin
    BY <1>3, BeginKeeps DEF Begin, Inv, MappingsTyped
  <1>4. CASE Step
    <2>1. UNCHANGED <<mappings, published>>
      BY <1>4 DEF Step, ProviderStep, DatasetStep, DistributionStep,
           EnterOrganizations, NextOrganization, TakeId, ImportOrganization, ImportAttribution,
           EnterContacts, NextContact, ImportContact, EnterDatasets, NextService, ImportDataset,
           RememberAggregate, SetAttribution, RelateToAggregate, LinkUnit, LinkContact,
           DropUnits, DropContacts, EnterDistributions, NextTopic, ImportService,
           ImportDistribution, Prefer
    <2>2. Stored' /\ (run' = Idle \/ RunOk')
      <3>1. CASE ProviderStep
        BY <3>1, PartsEntered, RecordsTakenUp, TakeIdKeeps, ImportOrganizationKeeps,
           ImportAttributionKeeps, ImportContactKeeps DEF ProviderStep
      <3>2. CASE DatasetStep
        BY <3>2, PartsEntered, RecordsTakenUp, ImportDatasetKeeps, RememberAggregateKeeps,
           SetAttributionKeeps, RelateToAggregateKeeps, LinkUnitKeeps, LinkContactKeeps,
           DropsKeep DEF DatasetStep
      <3>3. CASE DistributionStep
        BY <3>3, PartsEntered, RecordsTakenUp, ImportServiceKeeps, ImportDistributionKeeps,
           PreferKeeps DEF DistributionStep
      <3>4. CASE CleanUp
        BY <3>4, CleanUpKeeps
      <3>5. QED
        BY <1>4, <3>1, <3>2, <3>3, <3>4 DEF Step
    <2>3. QED
      BY <2>1, <2>2 DEF Inv, MappingsTyped
  <1>5. CASE End \/ Break
    <2>1. /\ run' = Idle /\ UNCHANGED <<published, mappings, tables>>
      BY <1>5 DEF End, Break, Finish, Stop, Raise
    <2>2. Stored'
      BY <2>1, NothingSaved DEF Inv
    <2>3. QED
      BY <2>1, <2>2 DEF Inv, MappingsTyped
  <1>6. CASE UNCHANGED vars
    <2>1. UNCHANGED <<published, mappings, tables, run>>
      BY <1>6 DEF vars
    <2>2. Stored' /\ Grow
      BY <2>1, NothingSaved DEF Inv
    <2>3. run' = Idle \/ RunOk'
      <3>1. Writes' = Writes
        BY <2>1 DEF tables, Writes, OrganizationWrites, ContactWrites, DatasetWrites,
                    DistributionWrites
      <3>2. Prepared(run.work[1])' <=> Prepared(run.work[1])
        BY <2>1 DEF tables, Prepared
      <3>3. LookupsFit' <=> LookupsFit
        BY <2>1 DEF tables, LookupsFit
      <3>4. Records' <=> Records
        BY <2>1 DEF Records
      <3>5. Ordered(run.work)' <=> Ordered(run.work)
        BY <2>1 DEF Ordered
      <3>6. QED
        BY <2>1, <3>1, <3>2, <3>3, <3>4, <3>5 DEF Inv, RunOk
    <2>4. QED
      BY <2>1, <2>2, <2>3 DEF Inv, MappingsTyped
  <1>7. QED
    BY <1>1, <1>2, <1>3, <1>4, <1>5, <1>6 DEF Next
-----------------------------------------------------------------------------
\* Whatever the import saves, looks up and cleans up, no row points to one that is gone: not
\* the attribution and the links of a dataset, nor its preferred distribution, nor what a
\* contact, an attribution or a distribution belongs to.
THEOREM RowsAreWhole == Spec => []TypeOK
  <1>1. Inv => TypeOK
    BY StoredSays DEF Inv
  <1>2. QED
    BY InitInv, NextKeepsInv, <1>1, PTL DEF Spec, Safety

\* import_organization takes an id from the rows that hold it before another gets it, so that
\* a provider or a dataset has one row at any time, whatever mappings staff enter in between.
THEOREM RecordsHaveOneRow == Spec => []OneRowPerRecord
  <1>1. Inv => OneRowPerRecord
    BY StoredSays DEF Inv
  <1>2. QED
    BY InitInv, NextKeepsInv, <1>1, PTL DEF Spec, Safety

\* The links of a role are deleted before the one wanted is made, and an aggregate is related
\* to once, so that a dataset has one link in each role at any time.
THEOREM RolesHaveOneLink == Spec => []OneLinkPerRole
  <1>1. Inv => OneLinkPerRole
    BY StoredSays DEF Inv
  <1>2. QED
    BY InitInv, NextKeepsInv, <1>1, PTL DEF Spec, Safety

\* The cleanup deletes rows of the import's own data source only, and what CASCADE deletes
\* with them is none of the organizations, attributions and datasets of others.
THEOREM OthersSurvive == Spec => []ForeignSurvive
  <1>1. Inv => ForeignSurvive
    BY StoredSays DEF Inv
  <1>2. QED
    BY InitInv, NextKeepsInv, <1>1, PTL DEF Spec, Safety
================================================================================
