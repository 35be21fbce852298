\* Two profiles and two switches: to the other profile and back to the first.
SPECIFICATION FairSpec
CONSTANTS
  Profiles = 2
  MaxGeneration = 3
  None = None
INVARIANTS TypeOK SetHeldOnce AssertionsHold PowerIsAlive UnlockedHasItsHum
PROPERTIES SwitchEnds SaveHappens ImplementsSelector
