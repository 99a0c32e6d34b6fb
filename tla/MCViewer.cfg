CONSTANTS
    water = water  waterLevel = waterLevel  swisstopo = swisstopo  orphanage = orphanage
    pWater = pWater
    None = None
    Layers = {water, waterLevel}
    NamedLike <- mcNamedLike
    StacServices = {swisstopo}
    Orphanage = orphanage
    Drafts = {orphanage}
    Prefixes <- mcPrefixes
    Length <- mcLength
    Starts <- mcStarts
    Deployed <- mcDeployed
    Deployments <- mcDeployments
    Sources <- mcSources
    MappingRows <- mcMappings
    LateDatasets = {waterLevel}
    Options <- mcOptions
    MaxChanges = 1
    MaxStops = 1
SPECIFICATION Spec
INVARIANTS
    TypeOK RecordsAreLinked
PROPERTIES
     LayersSettle CollectionsSettle StylesSettle
