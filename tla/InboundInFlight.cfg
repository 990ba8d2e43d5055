SPECIFICATION FairSpec
CONSTANTS
  Ingests = {i1}
  Operations = {}
  MaxRetries = 1
  Faulty = FALSE
  NoReplay = NoReplay

PROPERTIES
  InFlightFinishes
