SPECIFICATION Spec
CONSTANTS
  WireCases <- MCWireCases
  Msgs <- MCMsgs
  Size <- MCSize
  LinkScenarios <- MCLinkScenarios
  MaxFrame = 2
  ReceiveMax = 2
  QueueEntries = 1
  MaxInflight = 2
  EdgeTopics = {"t", "secret"}
  EdgeFilters = {"t", "secret"}
  Forbidden = {"secret"}
  TopicAliasMaximum = 1
  MaxPackets = 3
  MaxTime = 1
INVARIANT WireFaithful SendsSettled EdgeContract
PROPERTY  ExpiredLeaves
CHECK_DEADLOCK FALSE
