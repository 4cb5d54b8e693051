SPECIFICATION FairSpec
CONSTANTS
  Thread = {1, 2}
  Script <- MCScript
  Silent <- MCSilent
  NFields <- MCNFields
  MaxFields = 4
  MaxChange = 2
  MaxTouch = 1
INVARIANTS NoCrash NoStreamLeft
 
CHECK_DEADLOCK FALSE
