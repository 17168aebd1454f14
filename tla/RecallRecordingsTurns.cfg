\* Two clients with one call each: the first has no working WhatsApp, the other's
\* words come late, so the sweep has to tell him, and it takes one row at a time.
CONSTANTS
  CallCount = 2
  Clients = {k1, k2}
  ClientOf <- FirstForAnother
  Workers = {w1}
  Ticks = {t1}
  MaxTries = 1
  ScribeBatch = 1
  OwnerBatch = 1
  PurgeBatch = 1
  MaxDeliveries = 1
  MaxFaults = 0
SPECIFICATION FairSpec
PROPERTY EveryoneGetsATurn
