SPECIFICATION Spec
CONSTANTS
  Notifiers = {n1, n2}
  Nobody = Nobody
  MaxSubscriptions = 3
SYMMETRY Symmetry
INVARIANTS TypeOK HeardOf ReachesAll RemovedIsSilent
PROPERTY ImplementsPromise
