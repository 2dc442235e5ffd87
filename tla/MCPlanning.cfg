SPECIFICATION Spec
CONSTANTS
  laos = laos
  siam = siam
  walk = walk
  boat = boat
  None = None
  Land <- MCLand
  JunctionKm = 1
  Slack = 3
  MaxProposals = 5
  ChainRowsMax = 2
  Passes <- MCPasses
  SuggestLimit = 2
  Multiplier = 2
  NearKm = 1
  FarKm = 7
  SimilarityWeight = 3
  GeographyWeight = 2
  Catalogs <- MCCatalogs
  MaxPinned = 2
  AskedDays = {2, 4, 5, 6}
  Links <- MCLinks
  Words = {0, 2}
  SearchLimit = 2
  Activities = {walk}
INVARIANTS BestRoutesAreGiven TourRouteIsTheTour SearchIsExact SuggestionsGoOn
