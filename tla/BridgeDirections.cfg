SPECIFICATION Spec
CONSTANTS
  Songs = {}
  Tbts <- MCTbts
  Progresses = {}
  Names = {"a", "b", "c"}
  NoName = ""
  Arts = {"artA", "artB"}
  NoArt = "none"
  DefaultArt = "default"
  IntLimit = 2000
  Tenths <- MCTenths
  MaxEvents = 3
INVARIANTS ModeFollowsApp DirectionsAgree
