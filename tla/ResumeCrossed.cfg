CONSTANTS
  r1 = r1
  r2 = r2
  Root = {r1, r2}
  Span <- MCSpan
  CommitInterval = 2
  Attempts = 2
  Base = 2
  MaxRuns = 5
  MaxFails = 4
SPECIFICATION Spec
INVARIANT OutputAlwaysExact
