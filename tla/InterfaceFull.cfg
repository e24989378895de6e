\* The message that a full buffer has no room for is lost.
CONSTANTS
  Bound = 2
  Sizes = {1, 2}
  OutPass <- MCOutPass
  InPass <- MCInPass
  MaxBatch = 2
  MaxIssued = 5
SPECIFICATION Spec
PROPERTY FullBufferStopsReceiving
