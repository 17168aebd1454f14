\* A quote of nothing or of three, the latter with or without a deposit; two invoices, a
\* request of the client beside one of an operator, and two turns for the worse in all.
CONSTANTS
  Amounts = {0, 3}
  Deposits = {1, 3}
  InvoiceCount = 2
  Clients = {c1}
  Operators = {o1}
  Hooks = {h1}
  MaxTurns = 2
SPECIFICATION FairSpec
INVARIANT TypeOK
INVARIANT ActivatedByPayment
INVARIANT PaidInFull
INVARIANT HandPaymentsMarked
PROPERTY PaymentActivates
PROPERTY DepositIsCounted
\* Once the project is paid nothing is left to do.
CHECK_DEADLOCK FALSE
