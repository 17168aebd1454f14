\* Two people, two replies at once, one tick whose batch is a single row, and one
\* fault, a lost answer among them.
\* Closed at 1, open at 2 and 3; both moments are offered; by 4 every reminder is too late.
CONSTANTS
  Calls = {1, 2}
  Persons = {1, 2}
  CallerOf <- TwoPersons
  Desks = {d1, d2}
  Ticks = {t1}
  MaxTime = 4
  OpenHours = {2, 3}
  SlotLead = 1
  Horizon = 4
  Spacing = 1
  MaxOffered = 2
  MinOffered = 2
  Day = 4
  Lead = 1
  Grace = 0
  Week = 4
  Batch = 1
  Looked = 2
  MaxFaults = 1
SPECIFICATION FairSpec
INVARIANT TypeOK
INVARIANT BookedAsShown
INVARIANT SlotsAreExclusive
INVARIANT NoSilentClosing
INVARIANT RemindersBounded
PROPERTY CallbackCloses
\* The clock is bounded: once it stops and every call is closed nothing is left to do.
CHECK_DEADLOCK FALSE
