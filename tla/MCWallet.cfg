SPECIFICATION Spec
CONSTANTS
  k1 = k1  k2 = k2  r1 = r1  r2 = r2  g1 = g1
  Keys = {k1}
  Requests = {r1, r2}
  GrantIds = {g1}
  Amounts = {3}
  Budgets = {2}
  Quotes = {1, 3}
  Minimum = 1
  MaxCredit = 3
  SkipRecovery = FALSE
  NoKey = NoKey
  NoRef = NoRef
SYMMETRY Symmetry
INVARIANT Solvent
INVARIANT ExactCharge
INVARIANT BillMatchesLedger
INVARIANT LedgerIsTrue
PROPERTY ClosedForGood
PROPERTY ImplementsAccount
