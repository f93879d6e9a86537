SPECIFICATION Spec
CONSTANTS
  Clients = {"a", "b", "recorder", "reader", "importer"}
  Apis = {"a", "b"}
  Recorder = "recorder"
  Reader = "reader"
  Importer = "importer"
  Exports <- MCExports
  Situations <- MCSituations
INVARIANTS
  NextAboveAll
  AllOrNothing
  DoneHasResult
  OnlyExported
PROPERTIES
  EverybodyAnswered
  ImplementsAtomicStore
CHECK_DEADLOCK FALSE
