\* Two calls from one person, one tick at a time, the client at his blocklist, two
\* attempts and one fault.  The person's number reaches the reply route in E.164.
CONSTANTS
  CallCount = 2
  Ticks = {t1}
  Desks = {d1}
  Sender <- WithPlus
  MaxTries = 2
  Batch = 1
  MaxFaults = 1
SPECIFICATION FairSpec
INVARIANT TypeOK
INVARIANT PersonLeftAlone
INVARIANT EvidenceIsTrue
INVARIANT OneMessagePerDay
PROPERTY OptOutIsFinal
PROPERTY FirstEvidenceStays
PROPERTY EveryCallerDecided
