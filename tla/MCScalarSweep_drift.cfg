SPECIFICATION Spec
CONSTANTS
  MemberCount = 2
  MaxPublications = 1
INVARIANT DriftIsTerminal
