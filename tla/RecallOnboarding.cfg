\* Two clients compete for two numbers; one request runs beside the tick, and
\* the app may restart once.
CONSTANTS
  Subs = {s1, s2}
  Numbers = {n1, n2}
  NoSub = NoSub
  NoNum = NoNum
  Tick = tick
  Workers = {w1}
  MaxTries = 5
  MaxCrashes = 1
SPECIFICATION FairSpec
INVARIANT TypeOK
INVARIANT NothingSkipped
INVARIANT NumberBehindStatus
PROPERTY LeaseSpec
PROPERTY WaitingClientGetsNumber
