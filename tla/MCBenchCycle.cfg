SPECIFICATION Spec
CONSTANTS
  Machines <- MCMachines
  Concurrencies <- MCConcurrencies
  Unset = Unset
INVARIANT CyclesThroughAll
