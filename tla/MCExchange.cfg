CONSTANTS
  Handle <- handle
  Serve <- ServeGSMAJSON
  Devices <- MCDevices
  Scenarios <- MCScenarios
SPECIFICATION Spec
INVARIANTS
  RequestDelivered
  Attributed
  ResultUnderstood
  
  UnverifiedNeverRecorded
  AckedIsStored
  BindingsAgree
  MeaningSurvives
  SpansAgree
  DataUnderstood
CHECK_DEADLOCK FALSE
