\* A reader and a writer on one case whose stored rows may be damaged.
SPECIFICATION Spec
CONSTANTS
  Readers = {r}
  Writers = {w}
  None = None
  MaxEvents = 4
  MaxFaults = 1
  ReadDamaged = FALSE
INVARIANTS
  TypeOK
  VerifiersAgree
  BreakpointsAgree
  LookupIsTrustworthy
  ReadersAgree
  NoFalseAlarm
PROPERTIES
  EveryCallEnds
  StopIsCarriedOut
