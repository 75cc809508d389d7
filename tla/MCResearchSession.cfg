\* None or two experiments, sweeps of two members, budgets that are too small, just enough and ample.
SPECIFICATION FairSpec
CONSTANTS
  Members = 2
  MemberStatus = {"REPLAY_PROVEN", "REJECTED", "FAILED"}
  Classification = {"SUPPORTED", "EXECUTION_FAILED"}
  Conclusion = {"ANSWER_ESTABLISHED", "CONTRADICTED", "NO_SCIENTIFIC_CONCLUSION"}
  MaxExperiments = {0, 2}
  HardBudget = {6, 9}
  Ceiling = 2
  Excess = 1
INVARIANTS
  AffordableOnceStarted
  CompletedIsEarned
  ObservationsAreProven
PROPERTIES
  
  SessionCloses
