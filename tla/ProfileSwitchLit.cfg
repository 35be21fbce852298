\* What the README says of a save while the blade is lit.
SPECIFICATION Spec
CONSTANTS
  Profiles = 2
  MaxGeneration = 2
  None = None
INVARIANT NeverSavedWhileLit
