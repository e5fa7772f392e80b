SPECIFICATION TimeoutSpec
CONSTANT MaxReads = 4
INVARIANT TimeoutInv
PROPERTIES OwnTimeout NeverStuck
CHECK_DEADLOCK FALSE
