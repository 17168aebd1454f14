\* One call handled by two overlapping callbacks and the tick, with the real retry
\* limit and one fault.
CONSTANTS
  CallCount = 1
  Clients = {k1}
  ClientOf <- AllForOne
  Workers = {w1, w2}
  Ticks = {t1}
  MaxTries = 3
  ScribeBatch = 1
  OwnerBatch = 1
  PurgeBatch = 1
  MaxDeliveries = 2
  MaxFaults = 1
SPECIFICATION FairSpec
INVARIANT TypeOK
INVARIANT ErasureIsReal
INVARIANT ToldMeansSent
INVARIANT OwnerWaitsForWords
PROPERTY OutcomeIsFinal
PROPERTY OwnerHears
PROPERTY RecordingsExpire
