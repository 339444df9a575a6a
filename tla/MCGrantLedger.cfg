\* Three grants and four lookups. Grants and lookups run out.
CONSTANTS
  Nil = Nil
  Grants = {a1, a2, a3}
  Lookups = {g1, g2, g3, g4}
SYMMETRY Interchangeable
SPECIFICATION LedgerSpec
PROPERTY NoClaimAfterReturn
CHECK_DEADLOCK FALSE
