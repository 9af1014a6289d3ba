SPECIFICATION FairSpec
CONSTANTS
  Threads = {t1, t2}
  MaxSessions = 2
  UsesCards = TRUE
INVARIANTS TypeOK Balanced NoOverrun
PROPERTIES ApiSpec Released
