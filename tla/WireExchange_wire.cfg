\* Every family of messages at the wire's real limits.
SPECIFICATION Spec
CONSTANTS
  None = None
  Jobs <- MCJobs
  Counters = {254}
  Bot = 40000
  SigOf <- MCSigOf
  Shapes <- MCShapes
  Places <- MCPlaces
INVARIANTS
  HeardAsMeant
  CutsAreTold
  BothReadAlike
  OneArea
