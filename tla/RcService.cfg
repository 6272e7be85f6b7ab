SPECIFICATION RcSpec
CONSTANTS
  shed1 = shed1
  shed2 = shed2
  sess1 = sess1
  sess2 = sess2
  refresh1 = refresh1
  refresh2 = refresh2
  Sheds = {shed1, shed2}
  Sessions = {sess1, sess2}
  Home <- HomeOf
  Lists = {refresh1, refresh2}
  Flaky = TRUE
INVARIANTS KilledStaysGone
PROPERTIES FilteredKeepsOthers
CHECK_DEADLOCK FALSE
