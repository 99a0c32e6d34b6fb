----------------------------- MODULE MCGeodienste -----------------------------
EXTENDS Geodienste, TLC

CONSTANTS KGK, LU, BFE, kgk, lu, bfe, av, AV, nis, topicAv, topicNis, pAll, pBroker, pDataset, pAggregate

mcOrganizationId == (KGK :> kgk) @@ (LU :> lu) @@ (BFE :> bfe)
mcLower == (av :> topicAv) @@ (AV :> topicAv) @@ (nis :> topicNis)
mcPrefixes == {pAll, pBroker, pDataset, pAggregate}
mcLength == (pAll :> 0) @@ (pBroker :> 1) @@ (pDataset :> 5) @@ (pAggregate :> 3)
mcStarts == (pAll :> {KGK, LU, BFE}) @@ (pBroker :> {BFE})
              @@ (pDataset :> {<<lu, topicAv>>}) @@ (pAggregate :> {kgk} \X {topicAv, topicNis})
mcOptions == {[parts |-> AllParts, clean |-> TRUE], [parts |-> <<"organizations">>, clean |-> FALSE]}

mcFirst == [services |-> {ServiceRecord(LU, av, TRUE, TRUE), ServiceRecord(BFE, nis, FALSE, TRUE)}, config |-> {av, nis}]
mcSources == {
  mcFirst,
  [services |-> {ServiceRecord(LU, AV, FALSE, TRUE)}, config |-> {AV}],
  [services |-> {}, config |-> {}]}
mcForeignDataset == <<bfe, topicAv>>
pool == [prefix |-> pAll, target |-> bfe, update |-> FALSE]
mcMapped == [
  organization |-> {[prefix |-> pBroker, target |-> bfe, update |-> TRUE]},
  dataset |-> {},
  unit |-> {[prefix |-> pAggregate, role |-> "owner", target |-> bfe, update |-> TRUE]},
  contact |-> {[prefix |-> pAggregate, role |-> "pointOfContact", update |-> TRUE,
                target |-> [source |-> "user-input", ids |-> {}, organization |-> bfe]]}]
mcMappings == [
  organization |-> {pool} \cup mcMapped.organization,
  dataset |-> {[prefix |-> pDataset, target |-> mcForeignDataset, update |-> FALSE]}]
mcOrganizations == {bfe}
mcDatasets == {mcForeignDataset}
===============================================================================
