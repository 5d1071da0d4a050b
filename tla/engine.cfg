CONSTANTS
  Foreign = "made_up"
  Liveness <- MCLiveness
  MaxFactors = 3
SPECIFICATION Spec
INVARIANTS TypeOK BagDetermined MismatchRegisters FallbackAborts MetadataNeverBlocks EscalationNeverLowers
