CONSTANTS
  AddressOf <- MCAddresses
  NameServer = ns
  Strangers = {stranger}
  Sections <- MCSections
  NameForms <- MCForms
  Ports = {1024}
  Ids = {1, 2}
  MaxLate = 1
  Changes <- MCChanges
SPECIFICATION Spec
INVARIANTS
  AnswersAsked
PROPERTIES
  TakesWhole
  LookupsAnswered
