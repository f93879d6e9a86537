CONSTANTS
  Plans <- MCPlans
  Cards <- MCCards
  Handlers = {h1, h2}
  MaxFailures = 1
SPECIFICATION Spec
INVARIANTS
  NothingInvented
  InventoryHeals
  ViewFollows
  RefusalsExplained

  
CHECK_DEADLOCK FALSE
