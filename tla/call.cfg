CONSTANTS
  first = first
  second = second
  Factory <- Threads
  Additions <- SmallAdditions
  Scenarios <- SmallScenarios
  Nothing = Nothing
  UsedModes = {"normal11", "normal12"}
  MaxAdds = 4
  MaxHeld = 2
  Address = {1, 2, 3, 4}
SPECIFICATION Spec
INVARIANTS OneOwner Labelled NeverMistaken OutcomeMeant
PROPERTY ImplementsRegistry
CHECK_DEADLOCK FALSE
