-------------------------- MODULE ProviderRegistry --------------------------
(***************************************************************************)
(* The provider registry as spec.md (4.3, 4.4, 4.6, 4.7, 5) promises it:   *)
(* a set of stored release files and the namespace's signing keys.  Every  *)
(* call takes effect at one instant between its invocation and its return. *)
(* An upload stores its file only after it found the file absent; two      *)
(* uploads may both find it absent before either stores it (spec.md 5:     *)
(* AlreadyExists is best effort).  GetProvider returns a provider only     *)
(* when the version's SHA256SUMS lists the platform and the signing keys   *)
(* are stored.  A listing returns every archive stored when it was called  *)
(* and only stored ones, and never an empty success.  The migration adopts *)
(* the 0.7 release files.  Every call may fail with a backend error.       *)
(***************************************************************************)
EXTENDS ProviderKeys

CONSTANTS
  Requests,          \* concurrent callers, one call each
  ReleasePlatforms,  \* platforms a version's SHA256SUMS lists
  LegacyVersions,    \* versions whose release files exist in the 0.7 layout
  Blank              \* an empty filename

VARIABLES
  files,        \* the stored release files (current layout)
  signingKeys,  \* the namespace's signing keys are stored
  calls,        \* caller -> its call: operation, arguments, phase, result
  migr          \* the operator's MigrateProviders command

vars == <<files, signingKeys, calls, migr>>

\* the files a publisher uploads, and the 0.7 files the migration adopts
Publishable == {k \in ReleaseFiles : k.kind # "archive" \/ k.platform \in ReleasePlatforms}
LegacyFiles == {k \in Publishable : k.version \in LegacyVersions}

Archives == {<<k.version, k.platform>> : k \in {a \in files : a.kind = "archive"}}

IdleCall == [op |-> "none", file |-> Blank, v |-> "-", p |-> "-", pc |-> "idle",
             res |-> "none", checked |-> FALSE, snap |-> {}, out |-> {}]

Finish(r, res) == calls' = [calls EXCEPT ![r].pc = "done", ![r].res = res]

Busy(r, op) == calls[r].pc = "busy" /\ calls[r].op = op

\* an empty filename fails validation at once
CallUploadProviderReleaseFiles(r) ==
  /\ calls[r].pc = "idle"
  /\ \E f \in Publishable \union {Blank} :
       calls' = [calls EXCEPT ![r].op = "UploadProviderReleaseFiles", ![r].file = f,
                              ![r].pc = IF f = Blank THEN "done" ELSE "busy",
                              ![r].res = IF f = Blank THEN "Validation" ELSE "none"]
  /\ UNCHANGED <<files, signingKeys, migr>>

CallGetProvider(r) ==
  /\ calls[r].pc = "idle"
  /\ \E v \in Versions, p \in Platforms :
       calls' = [calls EXCEPT ![r].op = "GetProvider", ![r].v = v, ![r].p = p,
                              ![r].pc = "busy"]
  /\ UNCHANGED <<files, signingKeys, migr>>

\* the listing remembers the archives stored when it was called
CallListProviderVersions(r) ==
  /\ calls[r].pc = "idle"
  /\ calls' = [calls EXCEPT ![r].op = "ListProviderVersions", ![r].pc = "busy",
                            ![r].snap = Archives]
  /\ UNCHANGED <<files, signingKeys, migr>>

UploadAlreadyExists(r) ==
  /\ Busy(r, "UploadProviderReleaseFiles") /\ ~calls[r].checked
  /\ calls[r].file \in files
  /\ Finish(r, "AlreadyExists")
  /\ UNCHANGED <<files, signingKeys, migr>>

\* the existence check finds the file absent
UploadChecked(r) ==
  /\ Busy(r, "UploadProviderReleaseFiles") /\ ~calls[r].checked
  /\ calls[r].file \notin files
  /\ calls' = [calls EXCEPT ![r].checked = TRUE]
  /\ UNCHANGED <<files, signingKeys, migr>>

UploadStore(r) ==
  /\ Busy(r, "UploadProviderReleaseFiles") /\ calls[r].checked
  /\ files' = files \union {calls[r].file}
  /\ Finish(r, "ok")
  /\ UNCHANGED <<signingKeys, migr>>

GetProviderReturn(r) ==
  LET listed == ShasumsPath(calls[r].v) \in files IN
  /\ Busy(r, "GetProvider")
  /\ \/ listed /\ calls[r].p \in ReleasePlatforms /\ signingKeys /\ Finish(r, "ok")
     \/ listed /\ calls[r].p \notin ReleasePlatforms /\ Finish(r, "ShasumNotFound")
  /\ UNCHANGED <<files, signingKeys, migr>>

ListProviderVersionsReturn(r) ==
  /\ Busy(r, "ListProviderVersions")
  /\ \E out \in SUBSET Archives \ {{}} :
       /\ calls[r].snap \subseteq out
       /\ calls' = [calls EXCEPT ![r].pc = "done", ![r].res = "ok", ![r].out = out]
  /\ UNCHANGED <<files, signingKeys, migr>>

\* any busy call may fail with a backend error
CallFails(r) ==
  /\ calls[r].pc = "busy"
  /\ Finish(r, "Error")
  /\ UNCHANGED <<files, signingKeys, migr>>

MigrateStart ==
  /\ migr.pc = "idle"
  /\ \E dry \in BOOLEAN : migr' = [pc |-> "running", dry |-> dry, res |-> "none"]
  /\ UNCHANGED <<files, signingKeys, calls>>

MigrateCopy ==
  /\ migr.pc = "running" /\ ~migr.dry
  /\ \E f \in LegacyFiles \ files : files' = files \union {f}
  /\ UNCHANGED <<signingKeys, calls, migr>>

\* success means every 0.7 file is adopted, unless the run was a dry run
MigrateEnd ==
  /\ migr.pc = "running"
  /\ \/ /\ migr.dry \/ LegacyFiles \subseteq files
        /\ migr' = [migr EXCEPT !.pc = "idle", !.res = "ok"]
     \/ migr' = [migr EXCEPT !.pc = "idle", !.res = "error"]
  /\ UNCHANGED <<files, signingKeys, calls>>

Init ==
  /\ files = {}
  /\ signingKeys \in BOOLEAN
  /\ calls = [r \in Requests |-> IdleCall]
  /\ migr = [pc |-> "idle", dry |-> FALSE, res |-> "none"]

Next ==
  \/ \E r \in Requests :
       \/ CallUploadProviderReleaseFiles(r) \/ CallGetProvider(r)
       \/ CallListProviderVersions(r)
       \/ UploadAlreadyExists(r) \/ UploadChecked(r) \/ UploadStore(r)
       \/ GetProviderReturn(r) \/ ListProviderVersionsReturn(r) \/ CallFails(r)
  \/ MigrateStart \/ MigrateCopy \/ MigrateEnd

Spec == Init /\ [][Next]_vars
=============================================================================
