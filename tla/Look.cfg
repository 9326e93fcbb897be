SPECIFICATION FairSpec
CONSTANTS
  Parts = {root, a, b, c}
  Root = root
  Nobody = Nobody
  Absent = Absent
INVARIANTS TypeOK OneLook WearsClusterTheme
PROPERTIES TemperatureSteps TemperatureSweeps
