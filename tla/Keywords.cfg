SPECIFICATION RunSpec
CONSTANTS
  Active <- DomainParts
  Nil = Nil
INVARIANTS
  KeywordsFound
CHECK_DEADLOCK FALSE
