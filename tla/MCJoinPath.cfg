CONSTANTS
  Friends = {"ann", "bob"}
  Callers = {"ann", "bob"}
  Players = {"ann", "bob"}
  Offers <- HomeOffers
  CandidateTtl = 1
  MaxTime = 1
  MaxCandidates = 1
  Frames <- OpenFrames
  MaxOpenFrame = 1
  outagePolicy = "allow_previously_approved"
  MaxWrites = 1
  Accounts <- Swapped
SPECIFICATION Spec
INVARIANTS
  PlayersAreApproved
  WhitelistFollows
  HostReadsInOrder
PROPERTIES
  JoinsDoNotFail
CHECK_DEADLOCK FALSE
