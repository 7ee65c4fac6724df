----------------------------- MODULE KeyScheme -----------------------------
(***************************************************************************)
(* The object-key layout of the registry (spec.md 4.1 and 6), abstracted   *)
(* to records.  The string helpers that build and parse keys (modulePath,  *)
(* modulePathPrefix, moduleFromObject, isUnmigratedModule,                 *)
(* migrationTargetPath) live outside src/ and are modelled from the spec:  *)
(* a key is identified by its layout (the 0.7 "legacy" layout or the       *)
(* current one), the module coordinate it names and, for current keys, the *)
(* archive-format suffix.  All coordinates share one                       *)
(* (namespace, name, provider) prefix and differ in version, so one        *)
(* ListModuleVersions prefix covers every current key.                     *)
(***************************************************************************)
CONSTANTS
  Coords,     \* module coordinates (namespace, name, provider, version)
  Formats,    \* archive formats a key may carry as suffix ("tar.gz", "zip")
  ParseError  \* result of a failed reverse parse

ASSUME ParseError \notin Coords

\* <prefix>/modules/<namespace>/<name>/<provider>/<version>/<name>.<format>
ModulePath(c, f) == [layout |-> "current", coord |-> c, format |-> f]

\* a key of the 0.7 layout, under the same <prefix>/modules segment
LegacyModulePath(c) == [layout |-> "legacy", coord |-> c, format |-> "legacy"]

CurrentModuleKeys == {ModulePath(c, f) : c \in Coords, f \in Formats}
LegacyModuleKeys  == {LegacyModulePath(c) : c \in Coords}
ModuleKeys        == CurrentModuleKeys \union LegacyModuleKeys

\* keys under modulePathPrefix(prefix, namespace, name, provider)
ModulePathPrefix == {k \in ModuleKeys : k.layout = "current"}

\* keys under path.Join(prefix, "modules"), the migration's listing prefix
InternalModulePrefix == ModuleKeys

\* moduleFromObject(key, format): the coordinate of a current key with the
\* configured suffix; any other key does not parse
ModuleFromObject(k, f) ==
  IF k.layout = "current" /\ k.format = f THEN k.coord ELSE ParseError

\* isUnmigratedModule(prefix, key): the key is still in the legacy layout
IsUnmigratedModule(k) == k.layout = "legacy"

\* migrationTargetPath(prefix, format, key): the current key of the same
\* coordinate, with the configured archive format
MigrationTargetPath(f, k) == ModulePath(k.coord, f)
=============================================================================
