SPECIFICATION DecisionsSpec
CONSTANTS
  AddressBits = 2
  AddressOf <- MCAddressOf
  MostRules = 2
  MostValue = 6
  MostSnapshot = 12
  MaxLength = 5
  Characters = {"_", "a", "b"}
  Sizings <- MCSizings
  Lines <- MCLines
  Blocks <- MCBlocks
  ChunkLimits = {2, 9}
  Rules <- MCRules
  AssetSets <- MCAssetSets
  FewestCandidates = 2
  MostCandidates = 3
  MostText = 4
  MostBytes = 8
  ItemBytes = 2
  Slack = 1
  Stores <- MCStores
  Limits = {1, 2, 3}
  Statuses = {"authorized", "out_of_scope"}
  Requests = {{}, {"asset"}}
  Headers = {1, 9}
  Budget = 8
  MostScanned = 3
  MostAssets = 3
  MostNamed = 3
  Concrete <- MCConcrete
  MostShown = 2
  MostPrograms = 2
  MostReply = 2
  RowsOfOne <- MCRowsOfOne
  RowsOfTwo <- MCRowsOfTwo
  StatusMaps <- MCStatusMaps
  EntrySets <- MCEntrySets
  Orders = {"balanced", "most_documented", "needs_recon"}
  Delays = {0, 1, 3, 7, 10}
  FailureMaps <- MCFailureMaps
  AuditLines <- MCAuditLines
  Days = {0, 2}
  Programs = {1, 2}
  AllPrograms = 0
  Paths = {"p", "q", "r"}
INVARIANTS ChunksKept RulesHonest AnswersHonest CatalogHonest FiguresRight
