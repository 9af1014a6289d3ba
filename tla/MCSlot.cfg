\* Every kind of card, and a node; three events; empty, short and long reads.
SPECIFICATION FairSpec
CONSTANTS
  Cards <- KnownCards
  Dirs <- SomeDirs
  MaxIndex = 50
  Lens = {0, 40, 300}
  NodeLens = {0, 1, 3}
  MaxFaults = 3
INVARIANTS TypeOK ProbedCardReads ProbeFinds WholeBuffer InNumericOrder
PROPERTIES SlotSpec NoCircles Terminates
