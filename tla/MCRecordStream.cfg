SPECIFICATION FairSpec
CONSTANTS
  MaxFragments = 4
INVARIANTS
  TypeOK
  HandedOnce
  EndIsQuiet
PROPERTIES
  BacklogOnlyStopped
  NothingWhileStopped
  EndCloses
