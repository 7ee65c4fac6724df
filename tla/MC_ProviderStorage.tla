------------------------- MODULE MC_ProviderStorage -------------------------
(* Instantiates ProviderStorage for TLC: one version released for two of  *)
(* three platforms, stored in the 0.7 layout at start.  0.7 keys start    *)
(* with "namespace=<ns>/"; current ones with "<ns>/".  For a namespace    *)
(* before "namespace" (e.g. "hashicorp") every current key sorts first,   *)
(* for one after it (e.g. "tier") every legacy key does.                  *)
EXTENDS ProviderStorage, TLC

CONSTANTS v1, p1, p2, p3

\* the files of one version in filename order
VersionFiles(layout(_)) ==
  <<layout(ArchivePath(v1, p1)), layout(ArchivePath(v1, p2)),
    layout(ArchivePath(v1, p3)), layout(ShasumsPath(v1)),
    layout(ShasumsSigPath(v1))>>

Current(k) == k

CurrentFirstOrder == VersionFiles(Current) \o VersionFiles(LegacyPath) \o <<SigningKeysPath>>
LegacyFirstOrder  == VersionFiles(LegacyPath) \o VersionFiles(Current) \o <<SigningKeysPath>>

\* the parse of each version text and the (os, arch) ranks of each platform:
\* v1 is 1.0.0; p1, p2, p3 are darwin, linux and windows on amd64
MCParsedVersion == v1 :> [ok |-> TRUE, parts |-> <<1, 0, 0>>]

MCPlatformKey == (p1 :> <<1, 1>>) @@ (p2 :> <<2, 1>>) @@ (p3 :> <<3, 1>>)

(***************************************************************************)
(* Refinement mapping to ProviderRegistry: the stored files are the        *)
(* present current-layout release files; a request is busy between its    *)
(* start and its return; every error other than the typed ones is a       *)
(* backend error; an upload has checked its file once its HeadObject found *)
(* it absent (phase "put", or a return from it); a listing's result is     *)
(* what it collected.                                                      *)
(***************************************************************************)
RegistryResult(res) ==
  IF res \in {"none", "ok", "AlreadyExists", "Validation", "ShasumNotFound"}
    THEN res ELSE "Error"

RegistryCalls ==
  [r \in Requests |->
     [op      |-> req[r].op, file |-> req[r].file, v |-> req[r].v, p |-> req[r].p,
      pc      |-> IF req[r].pc \in {"idle", "done"} THEN req[r].pc ELSE "busy",
      res     |-> RegistryResult(req[r].res),
      checked |-> req[r].op = "UploadProviderReleaseFiles"
                    /\ (req[r].pc = "put" \/ req[r].res \in {"ok", "UploadFailed"}),
      snap    |-> req[r].atStart,
      out     |-> IF req[r].op = "ListProviderVersions" /\ req[r].pc = "done"
                       /\ req[r].res = "ok" THEN CollectedPairs(req[r].acc) ELSE {}]]

RegistryMigr ==
  [pc  |-> IF mig.pc = "idle" THEN "idle" ELSE "running",
   dry |-> mig.dry,
   res |-> IF mig.res \in {"none", "ok"} THEN mig.res ELSE "error"]

Abstract == INSTANCE ProviderRegistry
              WITH files <- {k \in ReleaseFiles : Present(k)},
                   signingKeys <- Present(SigningKeysPath),
                   calls <- RegistryCalls, migr <- RegistryMigr

\* The provider half of S3Storage implements the registry spec.md promises:
\* an UploadProviderReleaseFiles (s3.go:328-365) stores its file only after
\* its own HeadObject found it absent; GetProvider (s3.go:241-288) returns a
\* provider only when the SHA256SUMS it downloaded lists the platform and
\* SigningKeys found the namespace's keys, as if all were read at one
\* instant; a listing returns, non-empty, every archive stored when it
\* began; a MigrateProviders run that returns nil has adopted every 0.7 file.
ProviderRefinement == Abstract!Spec
=============================================================================
