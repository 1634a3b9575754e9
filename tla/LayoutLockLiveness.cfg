SPECIFICATION ScopedSpec
CONSTANTS Clients = {c1, c2, c3}
          Writers = {c1, c2}
          Readers = {c2, c3}
          Parents = {c1, c3}
          Mortal = {c1, c2}
          Impatient = {c3}
PROPERTY EveryoneServed
