\* Two requests over a stack that is started up to twice, with and without
\* the watcher and Envoy; one request is cancelled; one endpoint is unknown.
SPECIFICATION FairSpec
CONSTANTS
  Setups <- AnySetup
  MaxStarts = 2
  Requests = {r1, r2}
  Endpoints = {e, x}
  Known = {e}
  Cap = 1
  MaxCancels = 1
  NoOne = NoOne
CHECK_DEADLOCK FALSE
INVARIANTS
  TypeOK
  OwnProcesses
  CapBindsLoad
  AnswersKept
PROPERTIES
  ExitsIfEitherDies
  SlotsComeBack
