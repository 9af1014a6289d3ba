\* Cards that take one Le only, as the comment on max_chunk lists them.
SPECIFICATION Spec
CONSTANTS
  Cards <- FixedCards
  Lens = {40}
  MaxFaults = 0
INVARIANT FixedLeUsable
