CONSTANTS
    KGK = KGK  LU = LU  BFE = BFE  kgk = kgk  lu = lu  bfe = bfe
    av = av  AV = AV  nis = nis  topicAv = topicAv  topicNis = topicNis
    pAll = pAll  pBroker = pBroker  pDataset = pDataset  pAggregate = pAggregate
    None = None
    Aggregate = KGK
    Cantons = {LU}
    Brokers = {BFE}
    Topics = {av, AV, nis}
    Lower <- mcLower
    OrganizationId <- mcOrganizationId
    Options <- mcOptions
    MaxChanges = 2
    MaxStops = 1
    Prefixes <- mcPrefixes
    Length <- mcLength
    Starts <- mcStarts
    Sources <- mcSources
    First <- mcFirst
    Mapped <- mcMapped
    MappingRows <- mcMappings
    ForeignOrganizations <- mcOrganizations
    ForeignAttributions <- mcOrganizations
    ForeignDatasets <- mcDatasets
SPECIFICATION Spec
INVARIANTS
    TypeOK OneRowPerRecord OneLinkPerRole ForeignSurvive
 
