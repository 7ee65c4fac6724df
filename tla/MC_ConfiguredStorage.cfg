\* A storage constructed without WithS3ArchiveFormat serving uploads.
CONSTANTS
  c1 = c1
  c2 = c2
  Coords = {c1, c2}
  Formats = {"tar.gz", ""}
  ParseError = ParseError
  Requests = {r1, r2}
  UploadCoords <- ConfiguredUploadCoords
  Bodies = {b1}
  OldBody = ob
  LegacyCoords = {}
  StrayKeys = {}
  NoObject = NoObject
  Blank = Blank
  DefaultModuleArchiveFormat = "tar.gz"
  ArchiveFormat <- ConfiguredArchiveFormat
  KeyOrder <- ConfiguredKeyOrder
  PageSize = 1
  MaxMigrationRuns = 1
  HeadCanFail = FALSE
  PresignCanFail = FALSE
  UploadCanFail = FALSE
  PageCanFail = FALSE
  CopyCanFail = FALSE
SPECIFICATION Spec
INVARIANT UploadedIsReadable
CHECK_DEADLOCK FALSE
