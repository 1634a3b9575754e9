SPECIFICATION Spec
CHECK_DEADLOCK FALSE
INVARIANT Consistent
INVARIANT DownMeansGone
INVARIANT OneAtATime
INVARIANT WholeWhileUsed
PROPERTY KeptUntilDecided
