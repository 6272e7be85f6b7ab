SPECIFICATION FairSpec
CONSTANTS
  shedA = shedA
  shedB = shedB
  Creates = {shedA, shedB}
  MaxChunks = 2
INVARIANTS EndsTruthfully
PROPERTIES CancelIsFinal StreamedCreateEnds
CHECK_DEADLOCK FALSE
