\* One client and two numbers: two requests and the tick do the same things at the
\* same time, and the app may restart once.
CONSTANTS
  Subs = {s1}
  Numbers = {n1, n2}
  NoSub = NoSub
  NoNum = NoNum
  Tick = tick
  Workers = {w1, w2}
  MaxTries = 5
  MaxCrashes = 1
SPECIFICATION Spec
INVARIANT ReleasedIsGivenBack
INVARIANT ListedIsOurs
INVARIANT NobodyLeftHalfway
