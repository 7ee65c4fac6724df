\* MigrateProviders alone, for a namespace whose 0.7 keys sort first: its
\* own copies are listed on a later page of the same run.
CONSTANTS
  v1 = v1
  p1 = p1
  p2 = p2
  p3 = p3
  Versions = {v1}
  Platforms = {p1, p2, p3}
  ParseError = ParseError
  Requests = {}
  ReleasePlatforms = {p1, p2}
  LegacyVersions = {v1}
  Stored = Stored
  NoObject = NoObject
  Blank = Blank
  ParsedVersion <- MCParsedVersion
  PlatformKey <- MCPlatformKey
  KeyOrder <- LegacyFirstOrder
  PageSize = 1
  MaxMigrationRuns = 1
  HeadCanFail = TRUE
  PresignCanFail = TRUE
  UploadCanFail = TRUE
  DownloadCanFail = TRUE
  PageCanFail = FALSE
  CopyCanFail = FALSE
SPECIFICATION Spec
INVARIANT MigrateProvidersSkipsMigrated
CHECK_DEADLOCK FALSE
