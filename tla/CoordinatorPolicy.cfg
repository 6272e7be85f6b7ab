SPECIFICATION Spec
CONSTANTS
  id1 = id1  id2 = id2  srv1 = srv1  srv2 = srv2  shed1 = shed1  shed2 = shed2
  Ids = {id1, id2}
  Servers = {srv1, srv2}
  Sheds = {shed1, shed2}
  Namespaces <- AllNamespaces
  NoValue = NoValue
  Unparseable = Unparseable
  Sticky = Sticky
  Incoming <- PolicyRequests
  Choices <- PolicyChoices
  SshSettings <- PolicySettings
  TestRules <- PolicyRules
  InitialSsh <- AskWithButton
  ProviderModes <- Modes
  DelegatedSets = {{"ssh-agent"}}
  DefaultTtl = 2
  ReuseIds = FALSE
  MaxRequests = 2
  MaxTime = 0
  MaxConn = 1
  MaxGates = 2
  MaxInvoked = 1
INVARIANT OneDialogPerRequest
PROPERTIES AutoApprovalEarned DenyRevokes
CHECK_DEADLOCK FALSE
