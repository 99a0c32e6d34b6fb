------------------------------- MODULE MCViewer -------------------------------
EXTENDS Viewer, TLC

CONSTANTS water, waterLevel, swisstopo, orphanage, pWater

mcNamedLike == (water :> {water, waterLevel}) @@ (waterLevel :> {waterLevel})
mcPrefixes == {pWater}
mcLength == pWater :> 1
mcStarts == pWater :> {water, waterLevel}

Listing(layers, collections) ==
    [layers |-> layers, collections |-> (swisstopo :> collections)]
mcSources == {
  Listing({LayerRecord(water, TRUE, "wmts", "faded", FALSE),
           LayerRecord(waterLevel, TRUE, "wms", None, FALSE)}, {waterLevel}),
  Listing({LayerRecord(water, TRUE, "geojson", None, TRUE),
           LayerRecord(waterLevel, FALSE, "wms", None, FALSE)}, {})}
mcDeployed == <<waterLevel, water>>
mcDeployments == {<<water>>}
mcMappings == {[prefix |-> pWater, target |-> water, update |-> TRUE,
                enabled |-> {"stac", "distribution"}]}
mcOptions == {[source |-> LayersJS, parts |-> <<"distributions">>, clean |-> TRUE],
              [source |-> Capabilities, parts |-> <<"orphanage", swisstopo>>, clean |-> TRUE]}
================================================================================
