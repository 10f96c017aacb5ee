CONSTANTS
  c1 = c1
  c2 = c2
  b1 = b1
  b2 = b2
  Conn = {c1, c2}
  Ben = {b1, b2}
  BenOf <- Own
  Work = 3
  Pipeline = 1
  Quotes <- Moving
  DefaultRate = 1
  Trigger = 1
  Cap = 5
  StopPercent = 92
  Issuable = 4
  Wrap = 64
  Prepay = FALSE
  Slice = 1
  Slack = 0
  Surplus = 1
  Parked <- NoneParked
  MaxSweeps = 1
  MaxFails = 1
SPECIFICATION Spec
INVARIANTS IssuedBalances SpendCapHeld CreditExact
