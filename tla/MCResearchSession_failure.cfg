\* One experiment, and what becomes of it when its proof is rejected.
SPECIFICATION Spec
CONSTANTS
  Members = 2
  MemberStatus = {"REPLAY_PROVEN", "REJECTED"}
  Classification = {"SUPPORTED", "EXECUTION_FAILED"}
  Conclusion = {"ANSWER_ESTABLISHED", "NO_SCIENTIFIC_CONCLUSION"}
  MaxExperiments = {1}
  HardBudget = {9}
  Ceiling = 1
  Excess = 1
PROPERTY FailureIsEvidence
