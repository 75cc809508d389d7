SPECIFICATION FairSpec
CONSTANTS
  Estimate = {2}
  Charge = {1, 3}
  MaxFaults = 1
  MaxRounds = 2
  MaxResponses = 5
  MaxCost = 8
  AutoPromote = {TRUE, FALSE}
INVARIANTS
  NeverResent
  RoundAuthority
  ChargesWithinBudget
  CleanupDebtIsVisible
  
  PassedIsProven
  
PROPERTY
  SessionEnds
