SPECIFICATION Spec
CONSTANTS
  Workers = {"w1", "w2"}
  Tokens = {"t1"}
  Kinds = {"book", "market_resolved"}
  IsStore = TRUE
  ChCap = 1
  MaxTs = 3
  MaxStores = 2
INVARIANTS
  NewestLostOnlyIfRaced
PROPERTIES
  RollbackOnlyIfRaced
