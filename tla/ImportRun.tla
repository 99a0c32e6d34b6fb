------------------------------ MODULE ImportRun ------------------------------
(***************************************************************************)
(* How an import runs: the parts it was asked for one after the other, in  *)
(* each the records of the source one by one, then the cleanup.  Every     *)
(* step is one write to the database, none is undone, and the command may  *)
(* be stopped before any of them.                                          *)
(***************************************************************************)
EXTENDS Sequences, Catalogue, Mappings

VARIABLES
    mappings,       \* the mapping tables
    run             \* the command: what it still has to do

Idle == [part |-> None]
Running == run # Idle

\* complete: whether all parts are asked for, with --clean; work: the writes to do for the
\* record at hand; todo: the records not yet begun; processed: the ids seen; cleans: the
\* tables the part cleans up, in this order.
Start(source, parts, clean, complete, input) ==
    /\ ~Running /\ UNCHANGED tables
    /\ run' = [source |-> source, part |-> "start", ahead |-> parts, clean |-> clean,
               complete |-> complete, input |-> input, lookup |-> <<>>, todo |-> {}, work |-> <<>>,
               processed |-> {}, cleans |-> <<>>, current |-> None, aggregated |-> {}]

Doing(op) == Running /\ run.work # <<>> /\ Head(run.work).op = op
Op == Head(run.work)
Done == run' = [run EXCEPT !.work = Tail(@)]
DoneWith(row) == run' = [run EXCEPT !.work = Tail(@), !.current = row]

\* An exception nobody catches, or the end of the process: what was written stays.
Raise == run' = Idle /\ UNCHANGED tables
Stop == Running /\ Raise

Ready(part) == Running /\ run.part = part /\ run.work = <<>>
Ended == Running /\ run.todo = {} /\ run.work = <<>>

(* With --clean the ids that were not processed are taken from all rows,   *)
(* one id at a time, then the rows left without ids deleted one by one.    *)
Removed(kind) == ExistingSourceIds(Table(kind), run.source) \ run.processed
Obsolete(kind) == ObsoleteRows(Table(kind), run.source)
Clean(kind) == Removed(kind) = {} /\ Obsolete(kind) = {}
Cleaning(kind) ==
    /\ Ended /\ run.clean /\ ~Clean(kind)
    /\ \E n \in 1..Len(run.cleans) :
         run.cleans[n] = kind /\ \A m \in 1..(n - 1) : Clean(run.cleans[m])

CleanId(kind) ==
    /\ Cleaning(kind) /\ UNCHANGED run
    /\ \E i \in Removed(kind) : StripId(kind, i)

CleanRow(kind) ==
    /\ Cleaning(kind) /\ Removed(kind) = {} /\ UNCHANGED run
    /\ \E k \in Obsolete(kind) : DeleteRow(kind, k)

PartEnded ==
    /\ Ended
    /\ run.clean => \A n \in 1..Len(run.cleans) : Clean(run.cleans[n])

Entering(part) == PartEnded /\ run.ahead # <<>> /\ Head(run.ahead) = part /\ UNCHANGED tables

\* The lookup tables of a part are built when it starts.
Enter(part, cleans, lookup, todo) ==
    run' = [run EXCEPT !.part = part, !.ahead = Tail(@), !.cleans = cleans, !.lookup = lookup,
              !.todo = todo, !.processed = {}, !.current = None, !.aggregated = {}]

\* A record is taken up: its ids are seen, its writes are to do.
TakeUp(record, ids, work) ==
    /\ run' = [run EXCEPT !.todo = @ \ {record}, !.processed = @ \cup ids, !.work = work,
                          !.current = None]
    /\ UNCHANGED tables

Finish == PartEnded /\ run.ahead = <<>> /\ Raise

\* The texts of a record are written to its row, unless a mapping forbids it.
Harvested(row, m) == [row EXCEPT !.text = IF m.update THEN "theirs" ELSE @]
OrganizationMapping(p) == Match(run.lookup.organization, p)
SaveOrganizations(new) ==
    organization' = new /\ UNCHANGED <<attribution, contact, dataset, dataservice, distribution>>
SaveAttributions(new) ==
    attribution' = new /\ UNCHANGED <<organization, contact, dataset, dataservice, distribution>>
SaveContacts(new) ==
    contact' = new /\ UNCHANGED <<organization, attribution, dataset, dataservice, distribution>>
SaveDatasets(new) ==
    dataset' = new /\ UNCHANGED <<organization, attribution, contact, dataservice, distribution>>
SaveDataset(d, row) == SaveDatasets(Put(dataset, d, row))
SaveDataservices(new) ==
    dataservice' = new /\ UNCHANGED <<organization, attribution, contact, dataset, distribution>>
SaveDistributions(new) ==
    distribution' = new /\ UNCHANGED <<organization, attribution, contact, dataset, dataservice>>
==============================================================================
