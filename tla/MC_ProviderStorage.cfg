\* Uploads, lookups, listings and the migration with every backend call able
\* to fail, for a namespace whose current keys sort before the 0.7 keys.
CONSTANTS
  v1 = v1
  p1 = p1
  p2 = p2
  p3 = p3
  Versions = {v1}
  Platforms = {p1, p2, p3}
  ParseError = ParseError
  Requests = {r1, r2}
  ReleasePlatforms = {p1, p2}
  LegacyVersions = {v1}
  Stored = Stored
  NoObject = NoObject
  Blank = Blank
  ParsedVersion <- MCParsedVersion
  PlatformKey <- MCPlatformKey
  KeyOrder <- CurrentFirstOrder
  PageSize = 1
  MaxMigrationRuns = 1
  HeadCanFail = TRUE
  PresignCanFail = TRUE
  UploadCanFail = TRUE
  DownloadCanFail = TRUE
  PageCanFail = TRUE
  CopyCanFail = TRUE
SPECIFICATION Spec
INVARIANT TypeOK
PROPERTY ProviderRefinement
CHECK_DEADLOCK FALSE
