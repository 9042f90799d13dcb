\* Handlers and a generation under fair scheduling.
SPECIFICATION FairSpec
CONSTANTS
  Engines = {e1}
  Requests = {r1, r2}
  Gens = {g1}
  MaxVersion = 1
  MaxJoins = 1
  MaxFaults = 2
  NoOne = NoOne
PROPERTIES
  HandlersReturn
