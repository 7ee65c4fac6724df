--------------------------- MODULE MC_S3Storage ---------------------------
(* Instantiates S3Storage for TLC: two versions of one module, each stored *)
(* in the 0.7 layout at start.  The 0.7 keys ("namespace=<ns>/...") sort  *)
(* before the current ones ("<ns>/..." for a namespace after "namespace"), *)
(* so the migration's copies land ahead of its listing cursor.            *)
EXTENDS S3Storage

CONSTANTS c1, c2

\* every handler may be asked to upload any coordinate
MCUploadCoords == [r \in Requests |-> Coords]

\* handlers that never upload the same coordinate, nor one of the 0.7
\* layout: each coordinate has at most one writer
OneWriterUploadCoords ==
  [r \in Requests |-> IF r = CHOOSE q \in Requests : TRUE
                        THEN Coords \ LegacyCoords ELSE {}]

MCKeyOrder ==
  <<LegacyModulePath(c1), LegacyModulePath(c2),
    ModulePath(c1, "tar.gz"), ModulePath(c1, "zip"),
    ModulePath(c2, "tar.gz"), ModulePath(c2, "zip")>>

\* an archive left from a registry once configured with another format
MCStrayKeys == {ModulePath(c2, f) : f \in Formats \ {ArchiveFormat}}

(***************************************************************************)
(* Refinement mapping to Registry: a module is the object under its        *)
(* current key of the configured format; a request is busy between its     *)
(* start and its return; every error other than the typed ones is a        *)
(* backend error; an UploadModule has stored its body once its Upload      *)
(* succeeded (stage "reread"); a listing's result is what it collected.    *)
(***************************************************************************)
RegistryModules == [c \in Coords |-> bucket[ModulePath(c, ArchiveFormat)]]

RegistryResult(res) ==
  IF res \in {"none", "ok", "ModuleNotFound", "AlreadyExists", "Validation"}
    THEN res ELSE "Error"

RegistryCalls ==
  [r \in Requests |->
     [op     |-> req[r].op, c |-> req[r].c, body |-> req[r].body,
      pc     |-> IF req[r].pc \in {"idle", "done"} THEN req[r].pc ELSE "busy",
      res    |-> RegistryResult(req[r].res),
      stored |-> req[r].op = "UploadModule" /\ req[r].stage = "reread",
      snap   |-> req[r].atStart,
      out    |-> IF req[r].op = "ListModuleVersions" /\ req[r].pc = "done"
                      /\ req[r].res = "ok" THEN req[r].acc ELSE {}]]

RegistryMigr ==
  [pc  |-> IF mig.pc = "idle" THEN "idle" ELSE "running",
   dry |-> mig.dry,
   res |-> IF mig.res \in {"none", "ok"} THEN mig.res ELSE "error"]

Abstract == INSTANCE Registry
              WITH modules <- RegistryModules, calls <- RegistryCalls,
                   migr <- RegistryMigr

\* The module half of S3Storage implements the registry spec.md promises:
\* every GetModule, UploadModule (s3.go:121-154), ListModuleVersions and
\* MigrateModules run takes effect atomically at one of its steps, an upload
\* stores only where no module is stored, and a migration adopts 0.7
\* modules without replacing any.
RegistryRefinement == Abstract!Spec
=============================================================================
