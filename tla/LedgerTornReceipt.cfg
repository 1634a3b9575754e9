SPECIFICATION Spec
CONSTANTS
  Names = {"a", "b"}
  Coords = {"c"}
  MaxGen = 2
  Enabled = {"create", "cas"}
  Torn = {"stage", "receipt"}
  MaxCrash = 1
  MaxDrift = 0
INVARIANT RootReadable
