SPECIFICATION FairSpec
CONSTANTS
  call1 = call1
  Calls = {call1}
  MaxConns = 2
  MaxSends = 2
  MaxEvents = 2
  MaxStarts = 1
  CanStop = TRUE
INVARIANTS CallersOnLiveConnection IndicatorHonest
PROPERTIES OneConnectionAtATime AnswersGoToTheAsker DropFailsCallers
CHECK_DEADLOCK FALSE
