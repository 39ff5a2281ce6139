CONSTANTS
  Projects <- ChainMods
  Requires <- ChainRequires
  Catalogs <- FirstCatalogs
  Flawed <- NewFlaws
  Conflicts <- KnownConflicts
  Approved <- ApprovedMods
  MaxPicks = 3
  MaxRefreshes = 1
  MaxEdits = 2
  MaxDeaths = 2
SPECIFICATION PackSpec
INVARIANTS
  GeneratablePacksAreClosed
  
  ReleasesAreDescribed
  PacksArePinned
  
CHECK_DEADLOCK FALSE
