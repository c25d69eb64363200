\* Three entries, one of them undecodable, pages and batches of two, two
\* consumers.
SPECIFICATION Spec
CONSTANTS
  Consumers = {c1, c2}
  Undecodable = {3}
  PENDING_PAGE_SIZE = 2
  STREAM_READ_COUNT = 2
  SUBSCRIPTION_CHANNEL_CAPACITY = 1
  MaxMessages = 3
  MaxSubscriptions = 2
  None = None
SYMMETRY Symmetry
INVARIANTS
  TypeOK
  NothingSlipsThrough
  InOrderOncePerSubscription
  RecoveryIsComplete
CHECK_DEADLOCK FALSE
