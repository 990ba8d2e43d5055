SPECIFICATION Spec
CONSTANTS
  Ingests = {i1}
  Operations = {}
  MaxRetries = 1
  Faulty = TRUE
  NoReplay = NoReplay

PROPERTIES
  CommitsWhileActive
