\* Two cards and an infnoise node are needed; two events; a poll takes as
\* long as the interval at most; with and without a timeout.
SPECIFICATION FairSpec
CONSTANTS
  Cfg <- CardsAndNode
  Names = {0, 1}
  MaxFaults = 2
  Interval = 2
  Timeouts = {3, 10000}
  MaxPoll = 2
INVARIANTS TypeOK Truthful PunctualTimeout CleanExit
PROPERTIES Ends EventuallySees
