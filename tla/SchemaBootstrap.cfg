SPECIFICATION FairSpec
CONSTANTS
  Js = {js}
  Py = {py}
  C = {c}
  Cpp = {}
INVARIANTS TypeOK ReadyMeansTable LosesOneCall
PROPERTY TableAppears
