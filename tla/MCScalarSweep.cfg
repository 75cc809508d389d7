SPECIFICATION Spec
CONSTANTS
  MemberCount = 3
  MaxPublications = 2
INVARIANTS
  ReceiptAccounts
  ProvenUnderBinding
