\* One contract, an earlier session and one new one, one checkout request, two deliveries
\* at a time and one fault.
CONSTANTS
  Contracts = {c1}
  SessionCount = 1
  Desks = {d1}
  Units = 1
  Workers = {w1, w2}
  MaxFaults = 1
SPECIFICATION FairSpec
INVARIANT TypeOK
INVARIANT OneWorkerPerEvent
INVARIANT PaidTurnsOn
INVARIANT EndedTurnsOff
PROPERTY PacksCreditedOnce
PROPERTY EventsAreProcessed
\* After the last session is over and its events are processed nothing is left to do.
CHECK_DEADLOCK FALSE
