---------------------------- MODULE ProviderKeys ----------------------------
(***************************************************************************)
(* Object keys of provider releases (spec.md 4.1 and 6), abstracted to     *)
(* records.  The helpers internalProviderPath, providerStoragePrefix,      *)
(* signingKeysPath, core.NewProviderFromArchive and                        *)
(* providerMigrationTargetPath are not under src/ and are modelled from    *)
(* the spec.  One (namespace, name) is modelled; a key names a release     *)
(* file of one version: the archive of one platform, or the version's      *)
(* SHA256SUMS or SHA256SUMS.sig.                                           *)
(***************************************************************************)
CONSTANTS
  Versions,   \* provider versions
  Platforms,  \* (os, arch) pairs
  ParseError  \* result of a failed reverse parse

ASSUME ParseError \notin Versions \X Platforms

\* <prefix>/providers/<namespace>/<name>/terraform-provider-<name>_<v>_<os>_<arch>.zip
ArchivePath(v, p)   == [layout |-> "current", kind |-> "archive", version |-> v, platform |-> p]
\* ..._<v>_SHA256SUMS and ..._<v>_SHA256SUMS.sig
ShasumsPath(v)      == [layout |-> "current", kind |-> "shasums", version |-> v, platform |-> "-"]
ShasumsSigPath(v)   == [layout |-> "current", kind |-> "sig", version |-> v, platform |-> "-"]

\* the namespace's signing_keys.json, outside both listing prefixes
SigningKeysPath     == [layout |-> "signing", kind |-> "keys", version |-> "-", platform |-> "-"]

ReleaseFiles ==
  {ArchivePath(v, p) : v \in Versions, p \in Platforms}
    \union {ShasumsPath(v) : v \in Versions} \union {ShasumsSigPath(v) : v \in Versions}

\* the same file in the 0.7 layout (<prefix>/providers/namespace=...)
LegacyPath(k)       == [k EXCEPT !.layout = "legacy"]
LegacyReleaseFiles  == {LegacyPath(k) : k \in ReleaseFiles}

ProviderKeys == ReleaseFiles \union LegacyReleaseFiles \union {SigningKeysPath}

\* keys under providerStoragePrefix(prefix, "providers", "", namespace, name)
ProviderStoragePrefix == ReleaseFiles

\* keys under path.Join(prefix, "providers"), the migration's listing prefix
InternalProviderPrefix == ReleaseFiles \union LegacyReleaseFiles

\* core.NewProviderFromArchive(key): version and platform of an archive
\* named after the convention; SHA256SUMS and signatures do not parse
NewProviderFromArchive(k) ==
  IF k.kind = "archive" THEN <<k.version, k.platform>> ELSE ParseError

\* providerMigrationTargetPath joined with path.Base(key): the current key
\* of a legacy file; a key of any other form is rejected
ProviderMigrationTargetPath(k) ==
  IF k.layout = "legacy" THEN [k EXCEPT !.layout = "current"] ELSE ParseError
=============================================================================
