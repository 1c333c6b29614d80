SPECIFICATION Spec
CONSTANTS
  s1 = s1
  s2 = s2
  x1 = x1
  x2 = x2
  m1 = m1
  d1 = d1
  d2 = d2
  a1 = a1
  a2 = a2
  None = None
  Router = Router
  Calls = {s1, s2}
  Chains = {x1, x2}
  DefaultChain = x1
  Makers = {m1}
  Deployments = {d1, d2}
  Published <- MCPublished
  Accounts = {a1, a2}
  Quotes <- MCQuotes
  Amount = 5
  MaxChanges = 2
SYMMETRY MCSymmetry
CHECK_DEADLOCK FALSE
INVARIANTS
  OnlyAllowedMakers
  EntryWasTrue
  SentAsChecked
