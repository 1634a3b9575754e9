SPECIFICATION Spec
CONSTANTS Clients <- MCClients
          Role <- MCRole
          Roots <- MCRoots
          Last <- B
INVARIANT WaitsAscend
INVARIANT NoWaitCycle
INVARIANT BodiesExclude
