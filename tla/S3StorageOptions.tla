-------------------------- MODULE S3StorageOptions --------------------------
(***************************************************************************)
(* The S3StorageOption functions (s3.go:425-469) and the S3Storage value   *)
(* NewS3Storage starts from (s3.go:472-476).  An option is the field it    *)
(* assigns and the value it assigns; a storage is a record of the          *)
(* configuration fields, with Go's zero values where nothing is assigned.  *)
(***************************************************************************)
LOCAL INSTANCE SequencesExt

WithS3StorageBucketPrefix(prefix)     == [field |-> "bucketPrefix", value |-> prefix]
WithS3StorageBucketRegion(region)     == [field |-> "bucketRegion", value |-> region]
WithS3StorageBucketEndpoint(endpoint) == [field |-> "bucketEndpoint", value |-> endpoint]
WithS3ArchiveFormat(archiveFormat)    == [field |-> "moduleArchiveFormat", value |-> archiveFormat]
WithS3StoragePathStyle(forcePathStyle) == [field |-> "forcePathStyle", value |-> forcePathStyle]
WithS3StorageSignedUrlExpiry(t)       == [field |-> "signedURLExpiry", value |-> t]

\* &S3Storage{bucket: bucket}: only the bucket is set, no default for any
\* other field
NewStorage(bucket) ==
  [bucket |-> bucket, bucketPrefix |-> "", bucketRegion |-> "",
   bucketEndpoint |-> "", moduleArchiveFormat |-> "", forcePathStyle |-> FALSE,
   signedURLExpiry |-> 0]

\* option(s)
ApplyOption(s, option) == [s EXCEPT ![option.field] = option.value]

\* for _, option := range options { option(s) }
ApplyOptions(s, options) == FoldLeft(ApplyOption, s, options)
=============================================================================
