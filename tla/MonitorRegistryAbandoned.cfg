\* One task that registers the contract and ends.
SPECIFICATION FairSpec
CONSTANTS
  Tasks = {t1}
  Goroutines = {g1, g2}
  None = None
  Background = Background
  checker = checker
PROPERTY StaysMonitored
CHECK_DEADLOCK FALSE
