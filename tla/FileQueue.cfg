\* Five puts, two records in a message, two errors or resets.
SPECIFICATION FairSpec
CONSTANTS
    Records = {r1, r2}
    Nothing = Nothing
    MaxIndex = 5
    Room = 2
    MaxFaults = 2
INVARIANTS TypeOK 
  
CHECK_DEADLOCK FALSE
