SPECIFICATION Spec
CONSTANTS
  id1 = id1  id2 = id2  srv1 = srv1  srv2 = srv2  shed1 = shed1  shed2 = shed2
  Ids = {id1, id2}
  Servers = {srv1, srv2}
  Sheds = {shed1, shed2}
  Namespaces <- AllNamespaces
  NoValue = NoValue
  Unparseable = Unparseable
  Sticky = Sticky
  Incoming <- UnreadableRequests
  Choices <- RaceChoices
  SshSettings <- AllowSetting
  TestRules = {}
  InitialSsh <- AskWithTouchId
  ProviderModes <- Modes
  DelegatedSets = {}
  DefaultTtl = 2
  ReuseIds = TRUE
  MaxRequests = 1
  MaxTime = 2
  MaxConn = 0
  MaxGates = 1
  MaxInvoked = 0
PROPERTY UnreadableExpiryLingers
CHECK_DEADLOCK FALSE
