\* Two oversampled cards, three readers: rebinding competes for readers.
SPECIFICATION FairSpec
CONSTANTS
  Cfg <- TwoCards
  Names = {0, 1, 2}
  Lens = {33}
  MaxFaults = 3
  MaxCalls = 2
INVARIANTS TypeOK DistinctNames TickDistinct CalmSucceeds
PROPERTIES ChainSpec NoCircles Terminates
