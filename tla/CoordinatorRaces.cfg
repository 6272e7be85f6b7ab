SPECIFICATION FairSpec
CONSTANTS
  id1 = id1  id2 = id2  srv1 = srv1  srv2 = srv2  shed1 = shed1  shed2 = shed2
  Ids = {id1, id2}
  Servers = {srv1, srv2}
  Sheds = {shed1, shed2}
  Namespaces <- AllNamespaces
  NoValue = NoValue
  Unparseable = Unparseable
  Sticky = Sticky
  Incoming <- RaceRequests
  Choices <- RaceChoices
  SshSettings <- RaceSettings
  TestRules = {}
  InitialSsh <- AskWithTouchId
  ProviderModes <- Modes
  DelegatedSets = {}
  DefaultTtl = 2
  ReuseIds = TRUE
  MaxRequests = 2
  MaxTime = 3
  MaxConn = 1
  MaxGates = 2
  MaxInvoked = 0
INVARIANTS IInv QueueIsCurrent
PROPERTIES KeepsLedger AnswersStayInTheirConnection DecidedInTime ConsentBindsRequest
           NoPromptLingers
CHECK_DEADLOCK FALSE
