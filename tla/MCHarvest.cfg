CONSTANTS
    bafu = bafu  blw = blw  own = own  water = water  soil = soil  ours = ours
    credit = credit  label = label  pBlw = pBlw  pSoil = pSoil  pAny = pAny
    None = None
    Prefixes <- mcPrefixes
    Length <- mcLength
    Starts <- mcStarts
    Harvests <- mcHarvests
    MappingRows <- mcMappings
    Options <- mcOptions
    MaxChanges = 2
    MaxStops = 1
    ForeignOrganizations <- mcOrganizations
    ForeignDatasets <- mcDatasets
SPECIFICATION Spec
INVARIANTS
    TypeOK OneRowPerRecord
PROPERTIES
    SparesPublished 
