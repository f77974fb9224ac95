SPECIFICATION FairSpec
CONSTANTS
  Hashname = {a, b}
  MaxLinks = 3
  Reget = FALSE
  LastMoment = FALSE
INVARIANTS WalkIsSafe ListIsHeap EventedDown KeptLink
PROPERTIES Removed
