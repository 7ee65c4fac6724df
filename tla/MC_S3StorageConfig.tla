------------------------- MODULE MC_S3StorageConfig -------------------------
(* Instantiates S3StorageConfig for TLC: one option of each kind with an   *)
(* empty and a non-empty value where the code tests for emptiness.        *)
EXTENDS S3StorageConfig

MCOptions ==
  {WithS3StorageBucketPrefix("registry"),
   WithS3StorageBucketRegion(""), WithS3StorageBucketRegion("eu-west-1"),
   WithS3StorageBucketEndpoint(""), WithS3StorageBucketEndpoint("http://minio:9000"),
   WithS3ArchiveFormat("zip"), WithS3StoragePathStyle(TRUE),
   WithS3StorageSignedUrlExpiry(30)}
=============================================================================
