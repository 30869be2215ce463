SPECIFICATION Spec
CONSTANTS
  Dumps <- SomeDumps
  DocFiles <- SomeDocs
  Flatten <- Leaves
  Hand = Hand
  MaxBumps = 2
  MaxHand = 1
PROPERTIES
  ScaffoldFollowsDump
  ReportTellsAll
