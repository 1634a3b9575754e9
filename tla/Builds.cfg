SPECIFICATION Spec
CHECK_DEADLOCK FALSE
INVARIANT Consistent
INVARIANT ReadsWhole
INVARIANT ClaimsHold
INVARIANT FailureIsContained
PROPERTY NothingIsLost
PROPERTY ServesCurrent
