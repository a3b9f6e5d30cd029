SPECIFICATION CalmSpec
CONSTANTS
  Workers = {w1, w2}
  Ids = {i1}
  AllKey = all
  MaxLate = 0
INVARIANT ImmediatelyVisible
