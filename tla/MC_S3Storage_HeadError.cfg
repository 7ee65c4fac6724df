\* A HeadObject that fails with a non-404 error during UploadModule's
\* existence check: the Upload then replaces a stored module.
CONSTANTS
  c1 = c1
  c2 = c2
  Coords = {c1, c2}
  Formats = {"tar.gz", "zip"}
  ParseError = ParseError
  Requests = {r1, r2}
  UploadCoords <- MCUploadCoords
  Bodies = {b1}
  OldBody = ob
  LegacyCoords = {c1, c2}
  StrayKeys <- MCStrayKeys
  NoObject = NoObject
  Blank = Blank
  DefaultModuleArchiveFormat = "tar.gz"
  ArchiveFormat = "tar.gz"
  KeyOrder <- MCKeyOrder
  PageSize = 1
  MaxMigrationRuns = 2
  HeadCanFail = TRUE
  PresignCanFail = TRUE
  UploadCanFail = TRUE
  PageCanFail = TRUE
  CopyCanFail = TRUE
SPECIFICATION Spec
PROPERTY OverwriteOnlyInRaceWindow
CHECK_DEADLOCK FALSE
