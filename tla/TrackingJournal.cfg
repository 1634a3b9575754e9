SPECIFICATION Spec
CONSTANTS Coordinators = {c1, c2}
          Operations <- MCOperations
          Nobody = Nobody
          NoOp = NoOp
          Target <- MCTarget
          Effect <- MCEffect
          Marked = {"comment"}
          Relational = {"assign", "again"}
          MaxGeneration = 7
SYMMETRY Symmetry
INVARIANT SingleAttempt
INVARIANT BoundIsOwn
INVARIANT OneIntentPerTarget
PROPERTY DecisionsStand
