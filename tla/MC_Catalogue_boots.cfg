\* Two containers, at once or one after the other, one boot cut short.
CONSTANTS
  b1 = b1  b2 = b2
  Boots = {b1, b2}
  Courses <- OneCourse
  Options = 2
  MaxCrashes = 1
SPECIFICATION FairSpec
INVARIANTS RowsMatchFiles GateMeansComplete
PROPERTIES RerunChangesNothing Recovers
