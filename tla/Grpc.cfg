CONSTANTS
  Call = {c1, c2}
  Tag = {t1, t2, t3}
  None = None
SPECIFICATION FairSpec
INVARIANTS TagsOwned NothingKept SuccessIsAnswered
PROPERTIES ClientReturns ServerSettles
CHECK_DEADLOCK FALSE
