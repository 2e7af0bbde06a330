SPECIFICATION FairSpec
CONSTANTS
  MaxCalls = 4
  MaxQuits = 1
  NoToken = NoToken
CHECK_DEADLOCK FALSE
INVARIANTS TypeOK HeldIsValid TokensAccountedFor
PROPERTY DialogResponds
