\* The default build: one card, no chain, the buffer goes to the source; three
\* bytes are enough for a longer and a shorter part of a buffer.
SPECIFICATION FairSpec
CONSTANTS
  Cfg <- RawCard
  Names = {0, 1}
  Lens = {0, 3}
  MaxFaults = 4
  MaxCalls = 3
INVARIANTS CalmSucceeds
PROPERTIES ChainSpec
