\* The same person, his number written as Meta's webhook writes it.
CONSTANTS
  CallCount = 2
  Ticks = {t1}
  Desks = {d1}
  Sender <- AsMetaSends
  MaxTries = 3
  Batch = 1
  MaxFaults = 0
SPECIFICATION Spec
INVARIANT PersonLeftAlone
