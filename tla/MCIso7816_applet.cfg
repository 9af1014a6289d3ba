\* A card that answers by default and has a mute OpenPGP applet; one refusal.
SPECIFICATION Spec
CONSTANTS
  Cards <- TwoFaced
  Lens = {8}
  MaxFaults = 1
INVARIANT UnsupportedIsTrue
