SPECIFICATION Spec
CONSTANTS
  Machines <- MCMachines
  Concurrencies <- MCConcurrencies
  Unset = Unset
INVARIANTS
  EndsAfterAll
  CrashesExplained
  NormalExitIsSuccess
PROPERTY Terminates
