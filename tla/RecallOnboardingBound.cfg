\* One client, one number: a restart between the claim and the status update.
CONSTANTS
  Subs = {s1}
  Numbers = {n1}
  NoSub = NoSub
  NoNum = NoNum
  Tick = tick
  Workers = {w1}
  MaxTries = 5
  MaxCrashes = 1
SPECIFICATION Spec
INVARIANT BoundMeansAdvanced
