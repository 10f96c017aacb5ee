CONSTANTS
  c1 = c1
  c2 = c2
  b1 = b1
  b2 = b2
  Conn = {c1, c2}
  Ben = {b1}
  BenOf <- Common
  Work = 3
  Pipeline = 1
  Quotes <- Flat
  DefaultRate = 1
  Trigger = 1
  Cap = 12
  StopPercent = 60
  Issuable = 10
  Wrap = 64
  Prepay = TRUE
  Slice = 2
  Slack = 0
  Surplus = 1
  Parked <- OneParked
  MaxSweeps = 2
  MaxFails = 1
SPECIFICATION Spec
INVARIANTS PrepayBounded ChequeAdvances
