\* One call: the background transcription and the tick's at the same time.
CONSTANTS
  CallCount = 1
  Clients = {k1}
  ClientOf <- AllForOne
  Workers = {w1}
  Ticks = {t1}
  MaxTries = 3
  ScribeBatch = 1
  OwnerBatch = 1
  PurgeBatch = 1
  MaxDeliveries = 1
  MaxFaults = 0
SPECIFICATION Spec
INVARIANT OneLeadPerCall
