\* GetProvider while a release is only partly published.
CONSTANTS
  v1 = v1
  p1 = p1
  p2 = p2
  p3 = p3
  Versions = {v1}
  Platforms = {p1, p2, p3}
  ParseError = ParseError
  Requests = {r1, r2}
  ReleasePlatforms = {p1, p2}
  LegacyVersions = {v1}
  Stored = Stored
  NoObject = NoObject
  Blank = Blank
  ParsedVersion <- MCParsedVersion
  PlatformKey <- MCPlatformKey
  KeyOrder <- CurrentFirstOrder
  PageSize = 1
  MaxMigrationRuns = 2
  HeadCanFail = TRUE
  PresignCanFail = TRUE
  UploadCanFail = TRUE
  DownloadCanFail = TRUE
  PageCanFail = TRUE
  CopyCanFail = TRUE
SPECIFICATION Spec
INVARIANT GetProviderArchiveStored
CHECK_DEADLOCK FALSE
