\* Two rounds, one after the other or overlapping, and one failure, reset or
\* late answer at any moment; every processor may also fail by itself.
SPECIFICATION FairFotaSpec
CONSTANTS
    MaxRounds = 2
    MaxSetbacks = 1
INVARIANTS FotaTypeOK   
PROPERTY BackToNormal
CHECK_DEADLOCK FALSE
