SPECIFICATION Spec
CONSTANTS
  Parts = {root, a, b, c}
  Root = root
  Nobody = Nobody
  Absent = Absent
  Scales = {1, 2}
  NoFunction = NoFunction
INVARIANTS TypeOK OneScale DpFresh
