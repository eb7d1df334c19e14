SPECIFICATION FairSpec
CONSTANTS
  Request = {r1, r2, r3}
  TTL = 3
  MaxVersion = 3
INVARIANTS
  TypeOK
  NeverEmpty
  GoneAfterTTL
PROPERTIES
  FreshInTheEnd
