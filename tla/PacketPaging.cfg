CONSTANTS
  i1 = i1  i2 = i2  i3 = i3  i4 = i4
  NoCursor = NoCursor
  Ids <- FourRows
  Times <- FourTimes
  Second = 2
  Length <- Lengths
  Queries <- PagedQueries
SPECIFICATION FairSpec
INVARIANTS TypeOK MissedOnlyTies RepeatsOnlyFractions
PROPERTY ListingEnds
