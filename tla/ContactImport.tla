---------------------------- MODULE ContactImport ----------------------------
(***************************************************************************)
(* The part of the import from the harvest tables that links the datasets  *)
(* to the contacts geocat.ch has for them, and makes the contacts it does  *)
(* not find.                                                               *)
(***************************************************************************)
EXTENDS ImportRun

CONSTANT Roles      \* the roles of contacts that are mapped

\* A contact of a dataset on geocat.ch, with the organizations its names stand for.
ContactRecord(role, name, organizations) ==
    [role |-> role, name |-> name, organizations |-> organizations]

BodDatasets == RowsOf(dataset, "bod")

\* A table of the mappings of each role.
ContactTables ==
    LET Of(role) == Tables({m \in mappings.contact : m.role = role}, contact)
    IN  {f \in [Roles -> UNION {Of(r) : r \in Roles}] : \A r \in Roles : f[r] \in Of(r)}
EnterContacts ==
    /\ Entering("contacts") /\ UNCHANGED mappings
    /\ \E t \in ContactTables : Enter("contacts", <<>>, [contact |-> t], BodDatasets)

\* A dataset without an entry that parses keeps its links.
NextContacts ==
    /\ Ready("contacts") /\ UNCHANGED mappings
    /\ \E d \in run.todo :
         LET entries == run.input.contacts
         IN  TakeUp(d, {}, IF d \notin DOMAIN entries THEN <<>>
                           ELSE <<[op |-> "unlink", dataset |-> d],
                                  [op |-> "link", dataset |-> d, left |-> entries[d]]>>)

\* Slip: the links of before stay.
UnlinkNothing == Doing("unlink") /\ Done /\ UNCHANGED <<mappings, tables>>

Unlink ==
    /\ Doing("unlink") /\ Done /\ UNCHANGED mappings
    /\ SaveDataset(Op.dataset, [dataset[Op.dataset] EXCEPT !.contacts = {}])

\* find_organization, by name or abbreviation, and find_contact: a name is looked for in that
\* organization, a contact without a name anywhere.
FindOrganization(record) == record.organizations \cap DOMAIN organization
FindContact(o, name) ==
    {c \in contact : c.name = name /\ (name # None => c.organization = o)}
MappedContact(d, role) ==
    LET m == IF role \in Roles THEN Match(run.lookup.contact[role], d) ELSE NoMapping
    IN  IF IsMapped(m) THEN {m.target} ELSE {}

Drop(record) == run' = [run EXCEPT !.work[1].left = @ \ {record}]
Link(record, c) ==
    /\ Drop(record)
    /\ SaveDataset(Op.dataset, [dataset[Op.dataset] EXCEPT
                                  !.contacts = @ \cup {ContactLink(record.role, c)}])
SkipContact(record) == FindOrganization(record) = {} /\ Drop(record) /\ UNCHANGED tables
LinkOrCreate(record) ==
    \E o \in FindOrganization(record) :
       \/ \E c \in FindContact(o, record.name) : Link(record, c)
       \/ /\ FindContact(o, record.name) = {} /\ UNCHANGED run
          /\ SaveContacts(contact \cup {[source |-> "geocat", ids |-> {}, organization |-> o,
                                         name |-> record.name]})
LinkContact ==
    /\ Doing("link") /\ UNCHANGED mappings
    /\ \E record \in Op.left :
         LET mapped == MappedContact(Op.dataset, record.role)
         IN  \/ \E c \in mapped : Link(record, c)
             \/ mapped = {} /\ (SkipContact(record) \/ LinkOrCreate(record))
LinksDone == Doing("link") /\ Op.left = {} /\ Done /\ UNCHANGED <<mappings, tables>>

ContactStep == EnterContacts \/ NextContacts \/ Unlink \/ LinkContact \/ LinksDone
===============================================================================
