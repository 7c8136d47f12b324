SPECIFICATION FairSpec
CONSTANTS
  Paths <- OneFile
  Above <- InFolder
  Spellings = {"kept", "Kept"}
  Gone = "gone"
  Planted <- AllKept
  Orders = {"happened", "arrival first"}
  Cap = 3
  Disturbances = 2
INVARIANTS StaleIsCovered NoLostWakeup
PROPERTIES StaleIsReached NothingHangs
CHECK_DEADLOCK FALSE
