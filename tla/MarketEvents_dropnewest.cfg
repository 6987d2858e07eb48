SPECIFICATION Spec
CONSTANTS
  Workers = {"w1", "w2"}
  Tokens = {"t1"}
  Kinds = {"book"}
  IsStore = TRUE
  ChCap = 1
  MaxTs = 2
  MaxStores = 1
INVARIANT NewestKept
