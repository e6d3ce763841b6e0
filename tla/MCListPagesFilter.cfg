SPECIFICATION Spec
CONSTANTS
  MaxFaults = 1
  MaxStray = 1
  Items <- MCMixedItems
INVARIANTS
  ListsEveryNonSce
