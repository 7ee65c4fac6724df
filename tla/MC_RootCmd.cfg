\* Every combination of command-line flags and BORING_REGISTRY_ variables.
CONSTANTS
  Flags <- MCFlags
  Kind <- MCKind
  Default <- MCDefault
  CliValues <- MCCliValues
  EnvValues <- MCEnvValues
  Unset = Unset
  Parses <- MCParses
  VisitOrder <- MCVisitOrder
SPECIFICATION Spec
INVARIANT TypeOK
INVARIANT ConfigResolved
INVARIANT ExitStatus
CHECK_DEADLOCK FALSE
