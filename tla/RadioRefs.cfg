\* All users on all work queues, one failure or unmatched call at any moment.
SPECIFICATION Spec
CONSTANT MaxEvents = 1
INVARIANTS TypeOK CountIsExact RestsWhenDone
CHECK_DEADLOCK FALSE
