\* Every order of commands, without a bound on their number, and up to two
\* transitions of the state object.  The second object is of another type
\* than the owner asks for.
CONSTANTS
  MaxObject = 3
  Wanted = {1, 3}
SPECIFICATION Spec
INVARIANTS
  TypeOK
  AtMostOneLateWork
  CleanedUpOnce
  JoinReturnsLastObject
PROPERTIES
  StopEndsRunner
  IdleStopCleansUp
  SendReturns
