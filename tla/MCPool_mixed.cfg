\* One card and one infnoise device that owes a tick more; both kinds use
\* the same names, so a name confused between kinds would show.
SPECIFICATION FairSpec
CONSTANTS
  Cfg <- CardAndInf
  Names = {0, 1}
  Lens = {0, 40}
  MaxFaults = 2
  MaxCalls = 2
INVARIANTS CalmSucceeds
PROPERTIES ChainSpec
