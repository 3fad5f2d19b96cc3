\* The two programs from listen to close, with workload threads, remote reads
\* in parts, and a process that may exit at any step.
CONSTANTS
  k1 = k1
  k2 = k2
  k3 = k3
  Keys = {k1, k2, k3}
  Missing = {k3}
  KeyPieces = 2
  ValuePieces = 3
  MayFail = {"exit", "get", "put", "deletion"}
  NumConns = 5
  FileKeys <- MCFileKeys
  LevelZero = {1}
SPECIFICATION PhasesSpec
INVARIANTS
  PhasesTypeOK
  MainInStep
  SourceOutlivesQuestions
  ReadsRight
PROPERTY
  BothEnd
CHECK_DEADLOCK FALSE
