SPECIFICATION Spec
CONSTANTS
    MaxN = 5
    Ks = {2, 8}
    ElementsPerRow = 4
    MaxFlaws = 1
INVARIANTS
    RevealIsJudgedByItsDraw
    AdmittedRowsWereCommitted
    ProofsFitTheirRow
    DisclosureCoversTheShard
CHECK_DEADLOCK FALSE
