SPECIFICATION Spec
CONSTANT None = None
CHECK_DEADLOCK FALSE
INVARIANT Consistent
INVARIANT HalfDoneIsJournaled
INVARIANT RecordsAreTrue
INVARIANT ProfilesResolve
PROPERTY StepsAreCovered
