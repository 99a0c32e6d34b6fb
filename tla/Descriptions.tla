----------------------------- MODULE Descriptions -----------------------------
(***************************************************************************)
(* What describes the datasets: concepts that three commands write and one *)
(* exports, contacts, and besides the geopolitical entities.  The imports  *)
(* run one at a time and the visit to geocat.ch beside them; the export of *)
(* the thesaurus and the import of the entities run alone.                 *)
(***************************************************************************)
EXTENDS Thesauri, ContactImport, Legal

CONSTANTS
    Sources,        \* what geocat.ch, the harvest tables, geodienste.ch and the endpoint say
    Datasets,       \* the datasets and the source of each
    Organizations, Contacts,    \* the organizations, and contacts made by hand
    Fixture,        \* the concepts that are loaded from the fixture
    MappingRows,    \* the mappings staff may enter and delete
    Options,        \* the imports that are run
    MaxChanges,     \* how often a source, a mapping, an organization or an entity changes
    MaxStops        \* how many commands are stopped half way

VARIABLES
    published,      \* the sources
    changes,        \* (history) their changes
    stops           \* (history) commands stopped

vocabulary == <<concept, concepts, visit>>
bucket == <<shelf, upload>>
law == <<entity, census>>
vars == <<published, mappings, tables, run, vocabulary, bucket, law, changes, stops>>

Init ==
    /\ published \in Sources
    /\ mappings = [kind \in DOMAIN MappingRows |-> {}]
    /\ organization = [o \in Organizations |-> OrganizationRow("bod", {o}, "theirs")]
    /\ attribution = [a \in {} |-> a] /\ contact = Contacts
    /\ dataset = [d \in DOMAIN Datasets |-> DatasetRow(Datasets[d], {}, "theirs")]
    /\ dataservice = [s \in {} |-> s] /\ distribution = [x \in {} |-> x]
    /\ concept = Fixture /\ concepts = [d \in DOMAIN Datasets |-> {}]
    /\ run = Idle /\ visit = Nowhere /\ census = Resting
    /\ shelf = [f \in {} |-> f] /\ upload = <<>> /\ entity = [i \in {} |-> i]
    /\ changes = 0 /\ stops = 0

Quiet == ~Running /\ ~Visiting /\ ~Counting /\ upload = <<>>
Change == changes < MaxChanges /\ changes' = changes + 1 /\ UNCHANGED stops
Uncounted == UNCHANGED <<changes, stops>>

Publish ==
    /\ Quiet /\ Change /\ published' \in Sources \ {published}
    /\ UNCHANGED <<mappings, tables, run, vocabulary, bucket, law>>
EditMappings ==
    /\ Quiet /\ Change
    /\ \E k \in DOMAIN MappingRows : \E m \in MappingRows[k] :
         mappings' = [mappings EXCEPT ![k] = IF m \in @ THEN @ \ {m} ELSE @ \cup {m}]
    /\ UNCHANGED <<published, tables, run, vocabulary, bucket, law>>
LoseOrganization ==
    /\ Quiet /\ Change
    /\ \E o \in DOMAIN organization : DeleteOrganizations({o})
    /\ UNCHANGED <<published, mappings, run, vocabulary, bucket, law>>
LoseEntity ==
    /\ Change /\ \E i \in DOMAIN entity : DeleteEntity(i)
    /\ UNCHANGED <<published, mappings, tables, run, vocabulary, bucket>>

Begin ==
    /\ \E o \in Options : Start(o.source, o.parts, FALSE, TRUE, published)
    /\ ~Counting /\ upload = <<>>
    /\ visit' = IF Visiting THEN [visit EXCEPT !.undisturbed = FALSE] ELSE visit
    /\ Uncounted /\ UNCHANGED <<published, mappings, concept, concepts, bucket, law>>
Step ==
    /\ \/ VocabularyStep
       \/ ContactStep /\ UNCHANGED <<concept, concepts>>
    /\ Uncounted /\ UNCHANGED <<published, visit, bucket, law>>
End == Finish /\ Uncounted /\ UNCHANGED <<published, mappings, vocabulary, bucket, law>>
Break ==
    /\ Stop /\ stops < MaxStops /\ stops' = stops + 1
    /\ UNCHANGED <<published, mappings, vocabulary, bucket, law, changes>>

Unimported == UNCHANGED <<published, mappings, tables, run>>
Visit ==
    /\ (StartVisit /\ ~Counting /\ upload = <<>>) \/ VisitDataset(published.categories)
       \/ AddCategory \/ RemoveCategory \/ EndVisit
    /\ Uncounted /\ Unimported /\ UNCHANGED <<bucket, law>>
Upload ==
    /\ (StartUpload /\ Quiet) \/ PutFile
    /\ Uncounted /\ Unimported /\ UNCHANGED <<vocabulary, law>>
Census ==
    /\ (StartCensus(published.entities) /\ Quiet) \/ AddNewEntries \/ ReadEntries
       \/ UpdateEntry \/ EndCensus
    /\ Uncounted /\ Unimported /\ UNCHANGED <<vocabulary, bucket>>

Next ==
    \/ Publish \/ EditMappings \/ LoseOrganization \/ LoseEntity
    \/ Begin \/ Step \/ End \/ Break \/ Visit \/ Upload \/ Census
Safety == Init /\ [][Next]_vars
\* A command that was started goes on until it ends, raises or is stopped.
Spec ==
    /\ Safety /\ WF_vars(Step \/ End) /\ WF_vars(Visit /\ Visiting)
    /\ WF_vars(Upload /\ upload # <<>>) /\ WF_vars(Census /\ Counting)
-----------------------------------------------------------------------------
\* What the concepts are to be like.
ListedIn(d) == IF d \in DOMAIN published.categories
               THEN published.categories[d] \cap DOMAIN concept ELSE CategoriesOf(d)
UpdateAllowed(d) ==
    \A m \in mappings.dataset : d \in Starts[m.prefix] => m.update /\ m.target = d
ConceptsMirror ==
    /\ \A d \in DOMAIN concepts : CategoriesOf(d) = ListedIn(d)
    /\ \A d \in BodDatasets \cap DOMAIN published.keywords :
         concepts[d] = published.keywords[d] \cup ListedIn(d)
    /\ \A s \in published.topics :
         s.part \in DOMAIN dataset \ BodDatasets /\ UpdateAllowed(s.part) =>
           concepts[s.part] = KnownKeys(s.terms) \cup ListedIn(s.part)
ShelfMirrors == \A n \in DOMAIN Files : Files[n] \in DOMAIN shelf /\ shelf[Files[n]] = ContentOf(Files[n])

(* Once the sources rest, it takes one visit to geocat.ch that no import    *)
(* ran beside, and imports that end, for every dataset to have the          *)
(* categories and the keywords that are listed for it, for good, also if    *)
(* later visits and imports overlap; and the export of the thesaurus        *)
(* follows.                                                                 *)
EndOf(part) == End /\ run.part = part
Uploaded == Upload /\ Len(upload) = 1
ConceptsSettle ==
    /\ []<><<Visit /\ EndVisit /\ visit.undisturbed>>_vars
    /\ []<><<EndOf("contacts")>>_vars /\ []<><<EndOf("topics") /\ run.processed # {}>>_vars
    /\ []<><<Uploaded>>_vars
    => <>[](ConceptsMirror /\ ShelfMirrors)

(* Once the sources rest, imports that end leave every dataset linked to    *)
(* one contact for each record of a role whose organization is known, of    *)
(* the mapping or of its name; while an import runs, links are missing.     *)
ContactsMirror ==
    \A d \in BodDatasets \cap DOMAIN published.contacts :
      LET found(r) == \/ \E m \in mappings.contact : /\ m.role = r.role /\ d \in Starts[m.prefix]
                                                     /\ m.target \in contact
                      \/ r.organizations \cap DOMAIN organization # {}
          expected == {r \in published.contacts[d] : found(r)}
      IN  /\ {l.role : l \in dataset[d].contacts} = {r.role : r \in expected}
          /\ Cardinality(dataset[d].contacts) = Cardinality(expected)
ContactsSettle == []<><<EndOf("contacts")>>_vars => <>[](Running \/ ContactsMirror)

(* Once the endpoint rests and staff delete no entity any more, imports     *)
(* that got a response and came to their end leave every entity of it with  *)
(* its level and, if that is an entity too, its parent.                     *)
EntitiesMirror ==
    \A i \in DOMAIN published.entities :
      /\ i \in DOMAIN entity
      /\ LET r == published.entities[i]
         IN  entity[i] = [level |-> MapLevel(r.level),
                          parent |-> IF r.parent \in DOMAIN entity THEN r.parent ELSE NoParent]
EntitiesSettle == []<><<Census /\ EndCensus /\ census.complete>>_vars => <>[]EntitiesMirror
================================================================================
