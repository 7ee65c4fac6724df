-------------------------- MODULE S3StorageConfig ---------------------------
(***************************************************************************)
(* NewS3Storage (s3.go:472-517): the options are applied in order to a     *)
(* zero S3Storage, the AWS config is loaded with the configured region and *)
(* a custom endpoint resolver, and when no region is configured the        *)
(* bucket's region is asked of S3.  Loading the config and asking for the  *)
(* region are the calls that may fail.                                     *)
(***************************************************************************)
EXTENDS Naturals, Sequences, S3StorageOptions

LOCAL SeqExt == INSTANCE SequencesExt

CONSTANTS
  Bucket,          \* the bucket name passed to NewS3Storage
  Options,         \* options a caller may pass
  MaxOptions,      \* most options in one call
  BucketLocation,  \* the region S3 reports for the bucket
  EnvRegion,       \* the region LoadDefaultConfig falls back to when given
                   \* none (AWS_REGION, shared config); "" when unset
  LoadCanFail,     \* config.LoadDefaultConfig may fail
  RegionCanFail    \* s3manager.GetBucketRegion may fail

ASSUME /\ MaxOptions \in Nat /\ BucketLocation # ""
       /\ {LoadCanFail, RegionCanFail} \subseteq BOOLEAN

VARIABLES
  s,       \* the S3Storage being built
  given,   \* the options passed, in order
  rest,    \* the options not yet applied
  client,  \* the S3 client, once created: its endpoint, region, path style
  pc,      \* "options", "region" or "done"
  err      \* "none", "LoadFailed" or "RegionFailed"

vars == <<s, given, rest, client, pc, err>>

\* s.client before LoadDefaultConfig: nil
NoClient == [endpoint |-> "none", region |-> "none", usePathStyle |-> FALSE]

\* the EndpointResolverWithOptionsFunc: a configured endpoint with an
\* immutable hostname, else EndpointNotFoundError, which falls back to the
\* SDK's own resolution
EndpointFor(st) ==
  IF st.bucketEndpoint # "" THEN [url |-> st.bucketEndpoint, hostnameImmutable |-> TRUE]
                            ELSE "default"

ApplyNextOption ==
  /\ pc = "options" /\ rest # <<>>
  /\ s' = ApplyOption(s, Head(rest))
  /\ rest' = Tail(rest)
  /\ UNCHANGED <<given, client, pc, err>>

\* LoadDefaultConfig with WithRegion(s.bucketRegion), then the client,
\* presign client, uploader and downloader are created from it;
\* s3.NewFromConfig gets no option function, so UsePathStyle stays false
LoadDefaultConfig ==
  /\ pc = "options" /\ rest = <<>>
  /\ \/ /\ pc' = "region" /\ UNCHANGED err
        /\ client' = [endpoint     |-> EndpointFor(s),
                      region       |-> IF s.bucketRegion # "" THEN s.bucketRegion
                                                             ELSE EnvRegion,
                      usePathStyle |-> FALSE]
     \/ LoadCanFail /\ pc' = "done" /\ err' = "LoadFailed" /\ UNCHANGED client
  /\ UNCHANGED <<s, given, rest>>

\* GetBucketRegion sends HeadBucket through the new client; a client with
\* no region cannot resolve the SDK's default endpoint (the resolver
\* answers only for a configured s.bucketEndpoint), so the call fails (AWS SDK behaviour, outside the repository)
ClientCanResolve(c) == c.region # "" \/ s.bucketEndpoint # ""

GetBucketRegion ==
  /\ pc = "region"
  /\ \/ s.bucketRegion # "" /\ pc' = "done" /\ UNCHANGED <<s, err>>
     \/ /\ s.bucketRegion = "" /\ ClientCanResolve(client)
        /\ s' = [s EXCEPT !.bucketRegion = BucketLocation]
        /\ pc' = "done" /\ UNCHANGED err
     \/ /\ s.bucketRegion = "" /\ (RegionCanFail \/ ~ClientCanResolve(client))
        /\ pc' = "done" /\ err' = "RegionFailed" /\ UNCHANGED s
  /\ UNCHANGED <<given, rest, client>>

Init ==
  /\ given \in SeqExt!SeqOf(Options, MaxOptions)
  /\ rest = given
  /\ s = NewStorage(Bucket)
  /\ client = NoClient
  /\ pc = "options"
  /\ err = "none"

Next == ApplyNextOption \/ LoadDefaultConfig \/ GetBucketRegion

Spec == Init /\ [][Next]_vars

(***************************************************************************)
(* Properties                                                              *)
(***************************************************************************)
TypeOK ==
  /\ DOMAIN s = DOMAIN NewStorage(Bucket)
  /\ pc \in {"options", "region", "done"}
  /\ err \in {"none", "LoadFailed", "RegionFailed"}
  /\ rest \in Seq(Options)

ClientAsConfigured ==
  pc = "done" /\ err = "none" => client.region = s.bucketRegion
=============================================================================
