CONSTANTS
  Codes = {0, 3}
  Signals = {2, 10, 15, 16}
  Errnos = {2, 5}
  MaxSignals = 2
  Unset = Unset
SPECIFICATION SessionSpec
INVARIANTS
  StatusIsTheShells
  RunsWhatWasAsked
PROPERTIES
  KillsOnlyItsChild
  
