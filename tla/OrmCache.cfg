SPECIFICATION FairSpec
CONSTANTS
  Reader = {r1, r2}
  Writer = {w1, w2}
  Query = {q1, q2}
  Expire = 2
  MaxWrites = 2
  MaxFails = 1
INVARIANTS TypeOK StaleExplained
PROPERTIES FreshInTheEnd
