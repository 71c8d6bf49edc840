CONSTANTS
  Names = {n1}
  NoName = NoName
  MaxHandle = 3
  MaxArity = 2
  MaxFailures = 0
  STI_LOW <- LowestSTI
  STI_HIGH = 1
  MIN_STI = 0
  CallerSTIs = {1}
  LTIs = {0, 1}
  Agents = {a1}
  StartingSTI = 3
  StartingLTI = 3
  MaxDecays = 2
SPECIFICATION SpaceSpec
INVARIANTS TypeOK IndexesAgree ImportanceIndexAgrees NeverThrows TargetsAreValid IncomingMatchesOutgoing AtomsAreUnique ClearLeavesNothing
PROPERTIES HandlesAreImmutable OnlyDecayLosesCurrency
