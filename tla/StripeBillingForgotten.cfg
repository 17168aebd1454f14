\* One contract, an earlier session and one new one, one checkout request, one delivery
\* at a time and one fault.
CONSTANTS
  Contracts = {c1}
  SessionCount = 1
  Desks = {d1}
  Units = 1
  Workers = {w1}
  MaxFaults = 1
SPECIFICATION Spec
INVARIANT NoPaymentForgotten
CHECK_DEADLOCK FALSE
