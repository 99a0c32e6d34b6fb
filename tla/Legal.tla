--------------------------------- MODULE Legal ---------------------------------
(***************************************************************************)
(* The import of geopolitical entities: those not known yet are inserted   *)
(* at once, without parents; then all are compared one by one with what    *)
(* the endpoint says, their parents included.                              *)
(***************************************************************************)
LOCAL INSTANCE SourceIds
LOCAL INSTANCE FiniteSets
LOCAL INSTANCE Naturals

CONSTANT NoParent

VARIABLES
    entity,         \* the entities: their level and their parent
    census          \* the command, with the response it works on

\* An entity in the response of the endpoint.
ResponseEntry(level, parent) == [level |-> level, parent |-> parent]

Resting == [phase |-> "none"]
Counting == census # Resting
Levels == [region |-> "districtal", county |-> "districtal", federal |-> "federal",
           canton |-> "cantonal", corp |-> "corporal"]
MapLevel(level) == IF level \in DOMAIN Levels THEN Levels[level] ELSE "communal"

\* get_service: an error gives an empty response.
StartCensus(response) ==
    /\ ~Counting /\ UNCHANGED entity
    /\ \E received \in {response, [i \in {} |-> i]} :
         census' = [phase |-> "insert", response |-> received, known |-> <<>>, left |-> {},
                    complete |-> received = response]

\* add_new_entries: one statement inserts them all, and update_existing_entries reads the table.
AddNewEntries ==
    /\ census.phase = "insert"
    /\ LET r == census.response
           Inserted(i) == [level |-> MapLevel(r[i].level), parent |-> NoParent]
       IN  entity' = [i \in DOMAIN entity \cup DOMAIN r |->
                        IF i \in DOMAIN entity THEN entity[i] ELSE Inserted(i)]
    /\ census' = [census EXCEPT !.phase = "read"]
ReadEntries ==
    /\ census.phase = "read" /\ UNCHANGED entity
    /\ census' = [census EXCEPT !.phase = "update", !.known = entity,
                                !.left = DOMAIN census.response]

\* Slip: a parent that is set already stays.
ParentIfMissing(i) ==
    LET p == census.response[i].parent
    IN  IF census.known[i].parent # NoParent THEN census.known[i].parent
        ELSE IF p \in DOMAIN census.known THEN p ELSE NoParent

\* The parent is that of the response, if it is known at all.
ParentFor(i) ==
    LET p == census.response[i].parent
    IN  IF p \in DOMAIN census.known THEN p ELSE NoParent
\* Columns that have changed since the table was read are written.  An entity or a parent that
\* is gone by now raises.
UpdateEntry ==
    /\ census.phase = "update"
    /\ \E i \in census.left \cap DOMAIN census.known :
         LET known == census.known[i]
             new == [level |-> MapLevel(census.response[i].level), parent |-> ParentFor(i)]
             touched == {known.parent} \cup IF new = known THEN {} ELSE {i, new.parent}
         IN  IF touched \subseteq DOMAIN entity \cup {NoParent}
             THEN /\ census' = [census EXCEPT !.left = @ \ {i}, !.known[i] = new]
                  /\ entity' = IF new = known THEN entity ELSE Put(entity, i, new)
             ELSE census' = Resting /\ UNCHANGED entity
EndCensus ==
    /\ census.phase = "update" /\ census.left \cap DOMAIN census.known = {}
    /\ census' = Resting /\ UNCHANGED entity

\* Staff delete an entity, and with it all those below it.
Lineage(i) ==
    LET depth == Cardinality(DOMAIN entity)
        upTo[n \in 0..depth] ==
          IF n = 0 THEN {i}
          ELSE LET above == upTo[n - 1]
               IN  above \cup {j \in DOMAIN entity : entity[j].parent \in above}
    IN  upTo[depth]
DeleteEntity(i) == entity' = Without(entity, Lineage(i)) /\ UNCHANGED census
================================================================================
