------------------------------ MODULE MCHarvest ------------------------------
EXTENDS Harvest, TLC

CONSTANTS bafu, blw, own, water, soil, ours, credit, label, pBlw, pSoil, pAny

mcPrefixes == {pBlw, pSoil, pAny}
mcLength == (pBlw :> 3) @@ (pSoil :> 1) @@ (pAny :> 0)
mcStarts == (pBlw :> {blw}) @@ (pSoil :> {soil}) @@ (pAny :> {bafu, blw, own, water, soil, ours})

mcFull == [providers |-> {ProviderRecord(bafu, TRUE, <<credit, label>>), ProviderRecord(blw, TRUE, <<>>)},
           datasets |-> {DatasetRecord(water, TRUE, bafu, credit), DatasetRecord(soil, TRUE, blw, None)}]
mcHarvests == {
  mcFull,
  [providers |-> {ProviderRecord(bafu, FALSE, <<credit>>), ProviderRecord(blw, TRUE, <<label>>)},
   datasets |-> {DatasetRecord(water, TRUE, blw, label), DatasetRecord(soil, FALSE, blw, None)}],
  [providers |-> {ProviderRecord(bafu, TRUE, <<label>>)},
   datasets |-> {DatasetRecord(soil, TRUE, bafu, credit)}],
  [providers |-> {}, datasets |-> {DatasetRecord(ours, TRUE, own, None)}],
  [providers |-> {ProviderRecord(own, TRUE, <<>>)}, datasets |-> {}]}
mcMappings == [
  organization |-> {[prefix |-> pBlw, target |-> own, update |-> FALSE],
                    [prefix |-> pBlw, target |-> bafu, update |-> TRUE]},
  dataset |-> {[prefix |-> pAny, target |-> ours, update |-> TRUE, enabled |-> {"dataset"}],
               [prefix |-> pSoil, target |-> ours, update |-> TRUE, enabled |-> {"stac"}]},
  unit |-> {[prefix |-> pSoil, target |-> bafu, update |-> TRUE]}]
mcOptions == {[parts |-> AllParts, clean |-> TRUE], [parts |-> <<"organizations">>, clean |-> TRUE],
              [parts |-> <<"datasets">>, clean |-> FALSE]}
mcOrganizations == {own}
mcDatasets == {ours}
===============================================================================
