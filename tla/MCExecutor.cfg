SPECIFICATION Spec
CONSTANTS
  Workers = {w1, w2}
  Thieves = {w1, w2}
  Waiters = {w1, w2}
  Main = main
  Threads <- MCThreads
  Nil = Nil
  Capacity = 1
  MaxTasks = 3
INVARIANTS
  NothingUsedAfterWait
  NoLostWakeUp
  QuietAtEnd
PROPERTIES
  AllJoined
  ImplementsPool
