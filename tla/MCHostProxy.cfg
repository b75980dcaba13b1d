SPECIFICATION LiveSpec
CONSTANT N = 2
INVARIANT NothingLost
PROPERTIES EndPassedOn HandlerEnds
\* A connection that is over has nothing more to do.
CHECK_DEADLOCK FALSE
