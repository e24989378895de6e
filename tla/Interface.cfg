\* Five messages, in calls of up to two, over a channel that holds two and
\* buffers of one or two.  The sender's filter rejects message 2 and the
\* receiver's message 3.
CONSTANTS
  Bound = 2
  Sizes = {1, 2}
  OutPass <- MCOutPass
  InPass <- MCInPass
  MaxBatch = 2
  MaxIssued = 5
SPECIFICATION FairSpec
INVARIANTS
  TypeOK
  InOrder
  Filtered
PROPERTIES
  LinkIsLossyFifo
  LossesHaveCauses
  MessagesMoveOn
