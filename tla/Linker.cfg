\* every command line of up to five of six files, repetitions included
CONSTANTS
  CommandLines <- MCCommandLines
  MaxFiles = 5
  Entry = "start"
  START_ADDRESS = 4
  Alignments = {1, 2, 4, 8}
  DATA_ALIGN = 8
SPECIFICATION LdFairSpec
INVARIANTS
  LinkComplete
  UnresolvedIsMissing
  LinkedOnceByNeed
  ImageAsLaidOut
PROPERTY LinkEnds
CHECK_DEADLOCK FALSE
