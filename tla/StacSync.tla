------------------------------- MODULE StacSync -------------------------------
(***************************************************************************)
(* The sync of STAC dataservices: each collection a service lists gets a   *)
(* distribution, of the dataset it is mapped to, of the one with its id,   *)
(* or of the orphanage until there is one.                                 *)
(***************************************************************************)
EXTENDS ImportRun

CONSTANTS
    StacServices,   \* the STAC dataservices, without the one of geodienste.ch
    Orphanage       \* the id of the orphanage dataset

Capabilities == "service-capabilities"
Collection(c) == <<c, "stac">>

\* ensure_orphanage_dataset, before the services.
EnterOrphanage ==
    /\ Running /\ PartEnded /\ run.ahead # <<>> /\ Head(run.ahead) = "orphanage"
    /\ UNCHANGED mappings /\ Enter("orphanage", <<>>, <<>>, {})
    /\ IF Orphanage \in DOMAIN dataset THEN UNCHANGED tables
       ELSE SaveDataset(Orphanage, DatasetRow("user-input", {}, "ours"))

EnterService ==
    /\ UNCHANGED mappings
    /\ \E s \in StacServices :
         /\ Entering(s)
         /\ \E d \in Tables(mappings.dataset, DOMAIN dataset) :
              Enter(s, <<>>, [dataset |-> d], run.input.collections[s])
InService == Running /\ run.part \in StacServices

NextCollection ==
    /\ InService /\ run.work = <<>> /\ UNCHANGED mappings
    /\ \E c \in run.todo :
         TakeUp(c, {c}, <<[op |-> "collection", id |-> c], [op |-> "rehome", id |-> c]>>)

\* An error ends the service at hand, without its cleanup; the next one follows.
Failed == [run EXCEPT !.todo = {}, !.work = <<>>, !.current = "failed"]
FailService ==
    /\ InService /\ run.current # "failed" /\ (run.todo # {} \/ run.work # <<>>)
    /\ run' = Failed /\ UNCHANGED <<mappings, tables>>

CollectionMapping(c) == MatchEnabled(run.lookup.dataset, c, "stac")
DistributionsOf(c) ==
    {x \in DOMAIN distribution : /\ x[2] = "stac"
                                 /\ distribution[x].topic = c
                                 /\ distribution[x].dataservice = run.part}
DatasetFor(c) ==
    IF IsMapped(CollectionMapping(c)) THEN CollectionMapping(c).target
    ELSE IF c \in DOMAIN dataset THEN c ELSE Orphanage
CreateDistribution ==
    /\ Doing("collection") /\ DistributionsOf(Op.id) = {} /\ UNCHANGED mappings
    /\ LET x == Collection(Op.id)
           new == DistributionRow(Capabilities, {}, Op.id, DatasetFor(Op.id), run.part)
       IN  \/ /\ x \notin DOMAIN distribution
              /\ run' = [run EXCEPT !.work = <<>>]
              /\ SaveDistributions(Put(distribution, x, new))
           \/ x \in DOMAIN distribution /\ run' = Failed /\ UNCHANGED tables

\* An existing distribution follows its mapping, ...
FollowMapping ==
    /\ Doing("collection") /\ Done /\ UNCHANGED mappings
    /\ \E x \in DistributionsOf(Op.id) :
         LET m == CollectionMapping(Op.id)
         IN  IF IsMapped(m) /\ m.update
             THEN SaveDistributions([distribution EXCEPT ![x].dataset = m.target])
             ELSE UNCHANGED tables

\* Slip: only a mapped collection leaves the orphanage.
LeaveOrphanageIfMapped ==
    /\ Doing("rehome") /\ Done /\ UNCHANGED mappings
    /\ \E x \in DistributionsOf(Op.id) :
         IF /\ distribution[x].dataset = Orphanage /\ Op.id \in DOMAIN dataset
            /\ IsMapped(CollectionMapping(Op.id))
         THEN SaveDistributions([distribution EXCEPT ![x].dataset = Op.id])
         ELSE UNCHANGED tables

\* ... and leaves the orphanage when the dataset with its id has appeared.
LeaveOrphanage ==
    /\ Doing("rehome") /\ Done /\ UNCHANGED mappings
    /\ \E x \in DistributionsOf(Op.id) :
         IF distribution[x].dataset = Orphanage /\ Op.id \in DOMAIN dataset
         THEN SaveDistributions([distribution EXCEPT ![x].dataset = Op.id])
         ELSE UNCHANGED tables

\* Slip: distributions other commands made are cleaned up too.
UnlistedOfAnySource ==
    {x \in DOMAIN distribution : distribution[x].topic \notin run.processed}

\* The collections that the service at hand does not list, of whatever service.
Unlisted ==
    {x \in RowsOf(distribution, Capabilities) : distribution[x].topic \notin run.processed}
MustClean == InService /\ run.clean /\ run.current # "failed" /\ Unlisted # {}
CleanUnlisted ==
    /\ Ended /\ MustClean /\ UNCHANGED <<run, mappings>>
    /\ \E x \in Unlisted : DeleteDistributions({x})
SyncEnded == ~MustClean

StacStep ==
    \/ EnterOrphanage \/ NextCollection \/ CreateDistribution \/ FollowMapping
    \/ LeaveOrphanage \/ CleanUnlisted \/ FailService
    \/ SyncEnded /\ EnterService
===============================================================================
