------------------------ MODULE MC_ConfiguredStorage ------------------------
(* S3Storage built by NewS3Storage: the archive format the handlers use is *)
(* the moduleArchiveFormat field after the caller's options are applied.   *)
(* The caller passes a prefix and a region and no WithS3ArchiveFormat.     *)
EXTENDS S3Storage

CONSTANTS c1, c2

Opts == INSTANCE S3StorageOptions

ConfiguredOptions ==
  <<Opts!WithS3StorageBucketPrefix("registry"),
    Opts!WithS3StorageBucketRegion("eu-west-1")>>

ConfiguredArchiveFormat ==
  Opts!ApplyOptions(Opts!NewStorage("boring-registry"), ConfiguredOptions).moduleArchiveFormat

ConfiguredUploadCoords == [r \in Requests |-> Coords]

\* "<name>." sorts before "<name>.tar.gz"
ConfiguredKeyOrder ==
  <<LegacyModulePath(c1), LegacyModulePath(c2),
    ModulePath(c1, ""), ModulePath(c1, "tar.gz"),
    ModulePath(c2, ""), ModulePath(c2, "tar.gz")>>
=============================================================================
