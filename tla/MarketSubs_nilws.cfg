SPECIFICATION Spec
CONSTANTS
  Callers = {c1, c2}
  Tokens = {a, b}
  SendCap = 2
  MaxRuns = 1
  MaxConns = 2
  MaxOps = 3
INVARIANT CheckedWsIsUsable
