SPECIFICATION FairSpec
CONSTANTS
  MsgSize = {1, 2}
  LossKinds = {"aborted", "failed"}
  StartsWith = "gone"
  MaxBytes = 2
  MaxLoss = 1
  MaxReads = 2
INVARIANTS
  BytesKeptUnlessRaced
PROPERTIES
  ReopensUnlessReadFailed
  EventuallyWritten
CHECK_DEADLOCK FALSE
