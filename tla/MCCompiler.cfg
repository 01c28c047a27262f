SPECIFICATION CompilerSpec
CONSTANTS
  Families <- MCFamilies
  MixedChains = FALSE
  ListsOfIf = FALSE
  OpsBeforeContinue = FALSE
  MaxSections = 2
INVARIANTS
  RunsAsWritten
  AcceptsStructured
  NothingUnresolved
  ContinuationsMatchLoops
