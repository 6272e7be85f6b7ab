SPECIFICATION FunctionsSpec
CONSTANTS
  id1 = id1  srv1 = srv1  srv2 = srv2  shed1 = shed1  shed2 = shed2
  Ids = {id1}
  Servers = {srv1, srv2}
  Sheds = {shed1, shed2}
  Namespaces <- AllNamespaces
  NoValue = NoValue
  Unparseable = Unparseable
  Empty = Empty
  SafeChars = {}
  PromptCap = 2
  Chars <- Letters
  Width = 20
  MaxRules = 3
  MaxPrompt = 3
  PolicyInputs <- AskPolicy
  TtlInputs <- AskTtl
  FleetInputs <- AskFleet
  Journeys <- AllJourneys
  LaunchInputs <- AskLaunch
  PaneInputs <- AskPane
  Texts <- AllTexts
  Absent = Absent
  NameOrder <- Names
  Step = 2
  MaxLines = 5
  Nothing = Nothing
  Plain <- Safe
  Alphabet <- AllChars
  Special <- Unsafe
  Asks <- AllAsks
  MaxWord = 3
INVARIANTS PolicyAsDocumented FleetFailsClosed GuestContract ServersAsWritten LineReparses
  QuotedReparses
CHECK_DEADLOCK FALSE
