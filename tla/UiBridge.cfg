SPECIFICATION FairSpec
CONSTANTS
  h1 = h1  h2 = h2  c1 = c1  c2 = c2
  Unread = Unread
  Hosts = {h1}
  Calls = {c1, c2}
  MaxChanges = 1
  MaxClicks = 1
INVARIANTS EchoIsFresh PaneMeansListening
PROPERTIES RefreshLands
CHECK_DEADLOCK FALSE
