\* A failing PresignGetObject: presignedURL reads the URL of a nil result.
CONSTANTS
  c1 = c1
  c2 = c2
  Coords = {c1, c2}
  Formats = {"tar.gz", "zip"}
  ParseError = ParseError
  Requests = {r1, r2}
  UploadCoords <- MCUploadCoords
  Bodies = {b1}
  OldBody = ob
  LegacyCoords = {c1, c2}
  StrayKeys <- MCStrayKeys
  NoObject = NoObject
  Blank = Blank
  DefaultModuleArchiveFormat = "tar.gz"
  ArchiveFormat = "tar.gz"
  KeyOrder <- MCKeyOrder
  PageSize = 1
  MaxMigrationRuns = 2
  HeadCanFail = FALSE
  PresignCanFail = TRUE
  UploadCanFail = TRUE
  PageCanFail = TRUE
  CopyCanFail = TRUE
SPECIFICATION Spec
INVARIANT NoPanic
CHECK_DEADLOCK FALSE
