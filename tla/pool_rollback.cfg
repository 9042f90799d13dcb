\* One fault, which is enough: the client hangs up.
SPECIFICATION Spec
CONSTANTS
  Engines = {e1, e2}
  Requests = {r1, r2}
  Gens = {}
  MaxVersion = 1
  MaxJoins = 1
  MaxFaults = 1
  NoOne = NoOne
PROPERTIES
  FailedUpdateResumes
