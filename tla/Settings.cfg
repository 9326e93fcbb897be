SPECIFICATION StartUp
CONSTANTS
  Names = {"carSpeed", "maxCarSpeed", "speedLimit"}
  Texts = {0, 250}
  Unset = Unset
INVARIANTS TypeOK Faithful PrefixIsRead UnknownRefused ClusterTakesFile
PROPERTY KeepsReading
