SPECIFICATION MCSpec
CONSTANTS
  NoFile = NoFile
  Malformed = Malformed
  AnyContent = AnyContent
  Names = {"a", "b"}
  Coords = {"c"}
  MaxGen = 2
  Enabled = {"create", "cas"}
  Torn = {"stage"}
  MaxCrash = 2
  MaxDrift = 1
CHECK_DEADLOCK FALSE
INVARIANT Consistent
INVARIANT OwnedOnce
INVARIANT ScopeIsWhole
PROPERTY ImplementsStore
PROPERTY StepsAreAllowed
