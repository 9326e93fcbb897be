SPECIFICATION Spec
CONSTANTS
  Songs <- MCSongs
  Tbts = {}
  Progresses <- MCProgresses
  Names = {"a", "b", "c"}
  NoName = ""
  Arts = {"artA", "artB"}
  NoArt = "none"
  DefaultArt = "default"
  IntLimit = 2000
  Tenths <- MCTenths
  MaxEvents = 3
INVARIANTS TypeOK ShownOrPending CoverOfSong
