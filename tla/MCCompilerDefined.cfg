SPECIFICATION CompilerSpec
CONSTANTS
  Families <- MCDefined
  MixedChains = FALSE
  ListsOfIf = FALSE
  OpsBeforeContinue = FALSE
  MaxSections = 2
INVARIANT AcceptsStructured
