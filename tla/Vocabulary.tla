------------------------------ MODULE Vocabulary ------------------------------
(***************************************************************************)
(* The concepts of datasets.  The categories of eCH-0166 are harvested     *)
(* from geocat.ch by a command of its own; the imports from the harvest    *)
(* tables and from geodienste.ch replace all the other concepts.  The      *)
(* commands run side by side.                                              *)
(***************************************************************************)
EXTENDS ImportRun

VARIABLES
    concept,        \* concepts: <<thesaurus, id>>, and the parent of each
    concepts,       \* the concepts of each dataset
    visit           \* the command that visits geocat.ch

Bod == "bod"
Ech0166 == "ech0166"
CategoriesOf(d) == {c \in concepts[d] : c[1] = Ech0166}
-----------------------------------------------------------------------------
Nowhere == [phase |-> "none"]
Visiting == visit # Nowhere

\* undisturbed: (history) no import has run beside it.
StartVisit ==
    /\ ~Visiting
    /\ visit' = [phase |-> "visit", todo |-> DOMAIN dataset, at |-> None, add |-> {},
                 remove |-> {}, undisturbed |-> ~Running]
    /\ UNCHANGED <<concept, concepts>>

\* import_ech0166: the categories the dataset has are read first.  A dataset without a valid
\* entry is skipped.
VisitDataset(entries) ==
    /\ Visiting /\ visit.add = {} /\ visit.remove = {}
    /\ \E d \in visit.todo :
         LET listed == IF d \in DOMAIN entries THEN entries[d] ELSE CategoriesOf(d)
         IN  visit' = [visit EXCEPT !.todo = @ \ {d}, !.at = d, !.add = listed \ CategoriesOf(d),
                                    !.remove = CategoriesOf(d) \ listed]
    /\ UNCHANGED <<concept, concepts>>
AddCategory ==
    /\ Visiting
    /\ \E c \in visit.add :
         /\ visit' = [visit EXCEPT !.add = @ \ {c}]
         /\ concepts' = IF c \in DOMAIN concept THEN [concepts EXCEPT ![visit.at] = @ \cup {c}]
                        ELSE concepts
    /\ UNCHANGED concept
RemoveCategory ==
    /\ Visiting /\ visit.add = {}
    /\ \E c \in visit.remove :
         /\ visit' = [visit EXCEPT !.remove = @ \ {c}]
         /\ concepts' = [concepts EXCEPT ![visit.at] = @ \ {c}]
    /\ UNCHANGED concept
VisitEnds == Visiting /\ visit.todo = {} /\ visit.add = {} /\ visit.remove = {}
EndVisit == VisitEnds /\ visit' = Nowhere /\ UNCHANGED <<concept, concepts>>
-----------------------------------------------------------------------------
\* What the imports do for a list of keywords and the datasets it is of.
Replacing(d, keys) ==
    <<[op |-> "categories", dataset |-> d], [op |-> "replace", dataset |-> d, keys |-> keys]>>
Creating(keys) == <<[op |-> "create", keys |-> keys]>>

EnterKeywords ==
    /\ Entering("keywords") /\ UNCHANGED mappings
    /\ Enter("keywords", <<>>, <<>>, RowsOf(dataset, Bod))
NextKeywords ==
    /\ Ready("keywords") /\ UNCHANGED mappings
    /\ \E d \in run.todo :
         LET entries == run.input.keywords
         IN  TakeUp(d, {}, IF d \notin DOMAIN entries THEN <<>>
                           ELSE Creating(entries[d]) \o Replacing(d, entries[d]))

\* Nothing happens when a thesaurus cannot be loaded.
EnterTopics ==
    /\ Entering("topics") /\ UNCHANGED mappings
    /\ \E t \in Tables(mappings.dataset, DOMAIN dataset) : \E todo \in {run.input.topics, {}} :
         Enter("topics", <<>>, [dataset |-> t], todo)

\* A keyword counts that the thesaurus knows in German, French and English.
KnownKeys(terms) == {t.key : t \in {u \in terms : u.translated}}
\* The dataset of an id, which a mapping may forbid to update.
FoundFor(i) ==
    LET m == Match(run.lookup.dataset, i)
    IN  IF IsMapped(m) THEN {m.target} ELSE {i} \cap DOMAIN dataset
ReplacingFor(i, keys) ==
    IF FoundFor(i) # {} /\ Match(run.lookup.dataset, i).update
    THEN Replacing(CHOOSE d \in FoundFor(i) : TRUE, keys) ELSE <<>>
NextTopic ==
    /\ Ready("topics") /\ UNCHANGED mappings
    /\ \E s \in run.todo :
         LET keys == KnownKeys(s.terms)
             first == s.aggregate \notin run.processed
             found == FoundFor(s.part) \cup IF first THEN FoundFor(s.aggregate) ELSE {}
         IN  TakeUp(s, {s.aggregate},
                    IF found = {} THEN <<>>
                    ELSE Creating(keys)
                           \o (IF first THEN ReplacingFor(s.aggregate, keys) ELSE <<>>)
                           \o ReplacingFor(s.part, keys))

\* One concept after the other is found or created.
CreateConcept ==
    /\ Doing("create") /\ UNCHANGED <<mappings, tables, concepts>>
    /\ LET missing == Op.keys \ DOMAIN concept
       IN  \/ missing = {} /\ Done /\ UNCHANGED concept
           \/ \E c \in missing : concept' = Put(concept, c, None) /\ UNCHANGED run
\* The categories to keep are read; then all concepts are replaced.
ReadCategories ==
    /\ Doing("categories") /\ UNCHANGED <<mappings, tables, concept, concepts>>
    /\ DoneWith(CategoriesOf(Op.dataset))

\* Slip: the categories go too.
ReplaceConceptsByKeys ==
    /\ Doing("replace") /\ Done /\ UNCHANGED <<mappings, tables, concept>>
    /\ concepts' = [concepts EXCEPT ![Op.dataset] = Op.keys]

ReplaceConcepts ==
    /\ Doing("replace") /\ Done /\ UNCHANGED <<mappings, tables, concept>>
    /\ concepts' = [concepts EXCEPT ![Op.dataset] = Op.keys \cup run.current]

VocabularyStep ==
    \/ (EnterKeywords \/ NextKeywords \/ EnterTopics \/ NextTopic)
         /\ UNCHANGED <<concept, concepts>>
    \/ CreateConcept \/ ReadCategories \/ ReplaceConcepts
===============================================================================
