SPECIFICATION Spec
CONSTANTS Clients = {c1, c2, c3}
          Writers = {c1, c2, c3}
          Readers = {c1, c2, c3}
          Parents = {c1, c2, c3}
          Mortal = {c1, c2, c3}
          Impatient = {c1, c2, c3}
SYMMETRY Symmetry
INVARIANT LockDiscipline
PROPERTY LeaseSpec
PROPERTY WriterPrecedence
