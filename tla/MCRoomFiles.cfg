CONSTANTS
  Mods <- CatalogMods
  Packs <- CatalogPacks
  Javas <- JavaCandidates
  MaxFaults = 2
SPECIFICATION LiveSpec
INVARIANTS
  
  LaunchersAreWhole
PROPERTIES
  PreparingSucceeds
CHECK_DEADLOCK FALSE
