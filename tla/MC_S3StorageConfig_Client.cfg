\* NewS3Storage with up to two options, in a deployment whose AWS_REGION
\* is not the bucket's region, neither call failing.
CONSTANTS
  Bucket = "boring-registry"
  Options <- MCOptions
  MaxOptions = 2
  BucketLocation = "us-east-1"
  EnvRegion = "eu-central-1"
  LoadCanFail = FALSE
  RegionCanFail = FALSE
SPECIFICATION Spec
INVARIANT ClientAsConfigured
CHECK_DEADLOCK FALSE
