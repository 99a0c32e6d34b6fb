CONSTANTS
    water = water  av = av  kav = kav  bafu = bafu  nature = nature  keyword = keyword  term = term
    chief = chief  ch = ch  be = be  pAv = pAv  pWater = pWater
    None = None
    NoParent = NoParent
    Roles = {"owner"}
    Files <- mcFiles
    Sources <- mcSources
    Datasets <- mcDatasets
    Organizations = {bafu}
    Contacts <- mcContacts
    Fixture <- mcFixture
    Prefixes <- mcPrefixes
    Length <- mcLength
    Starts <- mcStarts
    MappingRows <- mcMappings
    Options <- mcOptions
    MaxChanges = 1
    MaxStops = 1
SPECIFICATION Spec
PROPERTIES
    ConceptsSettle  EntitiesSettle
