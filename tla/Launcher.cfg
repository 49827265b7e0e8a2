CONSTANTS
  Launchers = {l1, l2}
  Pids = {p1, p2}
  None = None
  Empty = Empty
  WaitSecs = 1
  Attempts = 1
  Root = FALSE
SPECIFICATION Spec
PROPERTIES
  KillsOnlyServers
  SecondNeedsOverlap
  EveryLaunchEnds
