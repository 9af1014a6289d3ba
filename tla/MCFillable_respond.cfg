\* The wait tool says the devices respond; nodes are only counted.
SPECIFICATION Spec
CONSTANTS
  Cfg <- CardsAndNode
  Names = {0, 1, 2}
  MaxFaults = 2
INVARIANT AllRespond
