SPECIFICATION FairSpec
CONSTANTS
  Workers = {w1, w2}
  Ids = {i1}
  AllKey = all
  MaxLate = 2
INVARIANTS TypeOK CacheFaithful ItemReadYourWrites CreatesDurable
PROPERTIES ApiSpec ListConverges
