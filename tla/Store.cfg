SPECIFICATION FairSpec
CONSTANTS
  Threads = {t1, t2}
  Names = {avc, vp8}
  NoFactory = {vp8}
  NoTraits = {}
  Stores = {other}
  Platform = platform
  None = none
  MaxCalls = 4
INVARIANTS TypeOK MapperIsCurrent PoolsAreFound FactoryOutlives ListComplete
PROPERTY CallsReturn
CHECK_DEADLOCK FALSE
