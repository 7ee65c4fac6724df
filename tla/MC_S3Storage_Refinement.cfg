\* Uploads with one writer per coordinate, never of a 0.7 module, with
\* every backend failure and a fair schedule of started steps: the
\* implementation refines Registry and every call returns.
CONSTANTS
  c1 = c1
  c2 = c2
  Coords = {c1, c2}
  Formats = {"tar.gz", "zip"}
  ParseError = ParseError
  Requests = {r1, r2}
  UploadCoords <- OneWriterUploadCoords
  Bodies = {b1}
  OldBody = ob
  LegacyCoords = {c1}
  StrayKeys <- MCStrayKeys
  NoObject = NoObject
  Blank = Blank
  DefaultModuleArchiveFormat = "tar.gz"
  ArchiveFormat = "tar.gz"
  KeyOrder <- MCKeyOrder
  PageSize = 1
  MaxMigrationRuns = 2
  HeadCanFail = TRUE
  PresignCanFail = TRUE
  UploadCanFail = TRUE
  PageCanFail = TRUE
  CopyCanFail = TRUE
SPECIFICATION FairSpec
PROPERTY RegistryRefinement
PROPERTY EveryCallReturns
CHECK_DEADLOCK FALSE
