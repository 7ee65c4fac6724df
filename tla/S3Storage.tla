----------------------------- MODULE S3Storage -----------------------------
(***************************************************************************)
(* The module half of S3Storage (src/pkg/storage/s3.go): concurrent        *)
(* GetModule, UploadModule and ListModuleVersions requests and the         *)
(* MigrateModules operator command, all against one shared bucket.        *)
(*                                                                         *)
(* Every network call is one step: HeadObject, Upload (PutObject),         *)
(* one ListObjectsV2 page, one CopyObject.  Presigning is local signing    *)
(* and reads no bucket state, so it is folded into the step that precedes  *)
(* it.  A backend call may fail when the matching *CanFail constant is     *)
(* TRUE.  presignedURL dereferences a nil result on failure                *)
(* (s3.go:390), so a failed presign ends the request with "Panic".         *)
(***************************************************************************)
EXTENDS Naturals, Sequences, FiniteSets, KeyScheme

CONSTANTS
  Requests,                   \* concurrent request handlers, one request each
  UploadCoords,               \* UploadCoords[r]: coordinates handler r may upload
  Bodies,                     \* archive bodies a client may upload
  OldBody,                    \* the body of every object stored before start
  LegacyCoords,               \* coordinates stored in the 0.7 layout at start
  StrayKeys,                  \* current-layout keys at start that do not parse
  NoObject,                   \* value of an absent key
  Blank,                      \* a coordinate with an empty field
  DefaultModuleArchiveFormat, \* the constant "tar.gz"
  ArchiveFormat,              \* s.moduleArchiveFormat, fixed at construction
  KeyOrder,                   \* all module keys in S3's lexicographic order
  PageSize,                   \* MaxKeys of one ListObjectsV2 page
  MaxMigrationRuns,           \* times the operator runs MigrateModules
  HeadCanFail,                \* HeadObject may fail with a non-404 error
  PresignCanFail,             \* PresignGetObject may fail
  UploadCanFail,              \* Upload may fail
  PageCanFail,                \* ListObjectsV2 may fail
  CopyCanFail                 \* CopyObject may fail

ASSUME /\ OldBody \notin Bodies /\ NoObject \notin Bodies \union {OldBody}
       /\ Blank \notin Coords /\ LegacyCoords \subseteq Coords
       /\ UploadCoords \in [Requests -> SUBSET Coords]
       /\ \A k \in StrayKeys : k \in CurrentModuleKeys /\ k.format # ArchiveFormat
       /\ {DefaultModuleArchiveFormat, ArchiveFormat} \subseteq Formats
       /\ KeyOrder \in Seq(ModuleKeys) /\ Len(KeyOrder) = Cardinality(ModuleKeys)
       /\ \A k \in ModuleKeys : \E i \in DOMAIN KeyOrder : KeyOrder[i] = k
       /\ PageSize \in Nat \ {0} /\ MaxMigrationRuns \in Nat
       /\ {HeadCanFail, PresignCanFail, UploadCanFail, PageCanFail, CopyCanFail}
            \subseteq BOOLEAN

VARIABLES
  bucket,  \* key -> body stored there, or NoObject
  req,     \* request handler -> its request in progress
  mig      \* the MigrateModules command

vars == <<bucket, req, mig>>

Results == {"none", "ok", "ModuleNotFound", "AlreadyExists", "Validation",
            "UploadFailed", "BackendError", "ListFailed", "Panic"}

Present(k) == bucket[k] # NoObject

\* ListObjectsV2 pages over this bucket
Pager == INSTANCE Paginator

(***************************************************************************)
(* Request handlers                                                        *)
(***************************************************************************)
IdleReq == [op |-> "none", c |-> Blank, body |-> NoObject, pc |-> "idle",
            stage |-> "none", res |-> "none", targetExisted |-> FALSE,
            page |-> <<>>, cursor |-> 0, truncated |-> FALSE,
            acc |-> {}, atStart |-> {}]

Return(r, res) == req' = [req EXCEPT ![r].pc = "done", ![r].res = res]

StartGetModule(r) ==
  /\ req[r].pc = "idle"
  /\ \E c \in Coords :
       req' = [req EXCEPT ![r].op = "GetModule", ![r].c = c, ![r].pc = "head"]
  /\ UNCHANGED <<bucket, mig>>

\* the four "not defined" checks come first; then GetModule is the existence
\* check, on the key of the configured format
StartUploadModule(r) ==
  /\ req[r].pc = "idle"
  /\ \E c \in UploadCoords[r] \union {Blank}, b \in Bodies :
       req' = [req EXCEPT ![r].op = "UploadModule", ![r].c = c, ![r].body = b,
                          ![r].stage = "check",
                          ![r].pc = IF c = Blank THEN "done" ELSE "head",
                          ![r].res = IF c = Blank THEN "Validation" ELSE "none"]
  /\ UNCHANGED <<bucket, mig>>

(***************************************************************************)
(* GetModule: objectExists (HeadObject, 404 -> false, other error -> err)  *)
(* and, if found, presignedURL.  Its outcome goes to the caller: the       *)
(* client for GetModule, the existence check or the final re-read for      *)
(* UploadModule.                                                           *)
(***************************************************************************)
GetModuleOutcomes(c) ==
  LET key == ModulePath(c, ArchiveFormat) IN
    (IF Present(key) THEN {"ok"} \union (IF PresignCanFail THEN {"Panic"} ELSE {})
                     ELSE {"ModuleNotFound"})
    \union (IF HeadCanFail THEN {"BackendError"} ELSE {})

\* UploadModule proceeds to Upload whenever GetModule returned an error,
\* whichever error it was (s3.go:140)
AfterGetModule(r, o) ==
  IF o = "Panic" \/ req[r].op = "GetModule" \/ req[r].stage = "reread"
    THEN Return(r, o)
  ELSE IF o = "ok"
    THEN Return(r, "AlreadyExists")
  ELSE req' = [req EXCEPT ![r].pc = "put",
                 ![r].targetExisted =
                   Present(ModulePath(req[r].c, DefaultModuleArchiveFormat))]

GetModule(r) ==
  /\ req[r].pc = "head"
  /\ \E o \in GetModuleOutcomes(req[r].c) : AfterGetModule(r, o)
  /\ UNCHANGED <<bucket, mig>>

\* Upload writes the key of DefaultModuleArchiveFormat (s3.go:138), then
\* UploadModule returns a fresh GetModule
\* mutant: the body is uploaded under the 0.7 key of the coordinate
UploadPutLegacyKey(r) ==
  LET key == LegacyModulePath(req[r].c) IN
  /\ req[r].pc = "put"
  /\ \/ /\ bucket' = [bucket EXCEPT ![key] = req[r].body]
        /\ req' = [req EXCEPT ![r].pc = "head", ![r].stage = "reread"]
     \/ /\ UploadCanFail
        /\ Return(r, "UploadFailed")
        /\ UNCHANGED bucket
  /\ UNCHANGED mig

UploadPut(r) ==
  LET key == ModulePath(req[r].c, DefaultModuleArchiveFormat) IN
  /\ req[r].pc = "put"
  /\ \/ /\ bucket' = [bucket EXCEPT ![key] = req[r].body]
        /\ req' = [req EXCEPT ![r].pc = "head", ![r].stage = "reread"]
     \/ /\ UploadCanFail
        /\ Return(r, "UploadFailed")
        /\ UNCHANGED bucket
  /\ UNCHANGED mig

(***************************************************************************)
(* ListModuleVersions: pages of the module prefix; each key that parses    *)
(* is presigned and collected, the others are skipped.                     *)
(***************************************************************************)
ListedCoords == {c \in Coords : Present(ModulePath(c, ArchiveFormat))}

StartListModuleVersions(r) ==
  /\ req[r].pc = "idle"
  /\ req' = [req EXCEPT ![r].op = "ListModuleVersions", ![r].pc = "listPage",
                        ![r].atStart = ListedCoords]
  /\ UNCHANGED <<bucket, mig>>

ListModulePage(r) ==
  LET p == Pager!ListPage(ModulePathPrefix, req[r].cursor) IN
  /\ req[r].pc = "listPage"
  /\ \/ req' = [req EXCEPT ![r].pc = "listItem", ![r].page = p.keys,
                           ![r].cursor = p.cursor, ![r].truncated = p.truncated]
     \/ PageCanFail /\ Return(r, "ListFailed")
  /\ UNCHANGED <<bucket, mig>>

\* mutant: a key that does not parse is collected instead of skipped
ListModuleItemNoSkip(r) ==
  LET c == ModuleFromObject(Head(req[r].page), ArchiveFormat) IN
  /\ req[r].pc = "listItem"
  /\ req[r].page # <<>>
  /\ \/ req' = [req EXCEPT ![r].page = Tail(@), ![r].acc = @ \union {c}]
     \/ c # ParseError /\ PresignCanFail /\ Return(r, "Panic")
  /\ UNCHANGED <<bucket, mig>>

ListModuleItem(r) ==
  LET c == ModuleFromObject(Head(req[r].page), ArchiveFormat) IN
  /\ req[r].pc = "listItem"
  /\ req[r].page # <<>>
  /\ \/ /\ c = ParseError
        /\ req' = [req EXCEPT ![r].page = Tail(@)]
     \/ /\ c # ParseError
        /\ req' = [req EXCEPT ![r].page = Tail(@), ![r].acc = @ \union {c}]
     \/ c # ParseError /\ PresignCanFail /\ Return(r, "Panic")
  /\ UNCHANGED <<bucket, mig>>

\* mutant: the next page is requested without the continuation token
ListModuleNextPageRestart(r) ==
  /\ req[r].pc = "listItem"
  /\ req[r].page = <<>>
  /\ IF req[r].truncated THEN req' = [req EXCEPT ![r].pc = "listPage", ![r].cursor = 0]
                         ELSE Return(r, "ok")
  /\ UNCHANGED <<bucket, mig>>

\* mutant: the listing stops after its first page
ListModuleNextPageOnce(r) ==
  /\ req[r].pc = "listItem"
  /\ req[r].page = <<>>
  /\ Return(r, "ok")
  /\ UNCHANGED <<bucket, mig>>

\* paginator.HasMorePages(): another page only when the last was truncated
ListModuleNextPage(r) ==
  /\ req[r].pc = "listItem"
  /\ req[r].page = <<>>
  /\ IF req[r].truncated THEN req' = [req EXCEPT ![r].pc = "listPage"]
                         ELSE Return(r, "ok")
  /\ UNCHANGED <<bucket, mig>>

(***************************************************************************)
(* MigrateModules(dryRun): pages over <prefix>/modules; a key still in the *)
(* legacy layout is copied server-side to its current key (or only logged  *)
(* in a dry run); other keys are skipped.  A page or copy error returns    *)
(* at once.  The operator may run the command again.                       *)
(***************************************************************************)
IdleMig == [pc |-> "idle", dry |-> FALSE, page |-> <<>>, cursor |-> 0,
            truncated |-> FALSE, runs |-> 0, res |-> "none", legacy |-> {}]

StartMigrateModules ==
  /\ mig.pc = "idle"
  /\ mig.runs < MaxMigrationRuns
  /\ \E dry \in BOOLEAN :
       mig' = [mig EXCEPT !.pc = "page", !.dry = dry, !.cursor = 0,
                          !.page = <<>>, !.runs = @ + 1, !.res = "none",
                          !.legacy = {k \in LegacyModuleKeys : Present(k)}]
  /\ UNCHANGED <<bucket, req>>

MigrateModulesPage ==
  LET p == Pager!ListPage(InternalModulePrefix, mig.cursor) IN
  /\ mig.pc = "page"
  /\ \/ mig' = [mig EXCEPT !.pc = "item", !.page = p.keys, !.cursor = p.cursor,
                           !.truncated = p.truncated]
     \/ PageCanFail /\ mig' = [mig EXCEPT !.pc = "idle", !.res = "PageFailed"]
  /\ UNCHANGED <<bucket, req>>

MigrateModulesItem ==
  LET k      == Head(mig.page)
      target == MigrationTargetPath(ArchiveFormat, k)
  IN
  /\ mig.pc = "item"
  /\ mig.page # <<>>
  /\ \/ /\ ~IsUnmigratedModule(k) \/ mig.dry
        /\ mig' = [mig EXCEPT !.page = Tail(@)]
        /\ UNCHANGED bucket
     \/ /\ IsUnmigratedModule(k) /\ ~mig.dry
        /\ bucket' = [bucket EXCEPT ![target] = bucket[k]]
        /\ mig' = [mig EXCEPT !.page = Tail(@)]
     \/ /\ IsUnmigratedModule(k) /\ ~mig.dry /\ CopyCanFail
        /\ mig' = [mig EXCEPT !.pc = "idle", !.res = "CopyFailed"]
        /\ UNCHANGED bucket
  /\ UNCHANGED req

MigrateModulesNextPage ==
  /\ mig.pc = "item"
  /\ mig.page = <<>>
  /\ mig' = IF mig.truncated THEN [mig EXCEPT !.pc = "page"]
                             ELSE [mig EXCEPT !.pc = "idle", !.res = "ok"]
  /\ UNCHANGED <<bucket, req>>

(***************************************************************************)
(* Specification                                                           *)
(***************************************************************************)
Init ==
  /\ bucket = [k \in ModuleKeys |->
                 IF k \in {LegacyModulePath(c) : c \in LegacyCoords} \union StrayKeys
                   THEN OldBody ELSE NoObject]
  /\ req = [r \in Requests |-> IdleReq]
  /\ mig = IdleMig

Next ==
  \/ \E r \in Requests :
       \/ StartGetModule(r) \/ StartUploadModule(r) \/ StartListModuleVersions(r)
       \/ GetModule(r) \/ UploadPut(r)
       \/ ListModulePage(r) \/ ListModuleItem(r) \/ ListModuleNextPage(r)
  \/ StartMigrateModules \/ MigrateModulesPage
  \/ MigrateModulesItem \/ MigrateModulesNextPage

Spec == Init /\ [][Next]_vars

\* Each step of a started request or migration run is one network call
\* (or local work after one), and every call returns with a result or an
\* error: the SDK's HTTP client and the request context bound it.  The
\* Start actions are the clients' and the operator's choice and get no
\* fairness.
Fairness ==
  /\ \A r \in Requests :
       /\ WF_vars(GetModule(r)) /\ WF_vars(UploadPut(r))
       /\ WF_vars(ListModulePage(r)) /\ WF_vars(ListModuleItem(r))
       /\ WF_vars(ListModuleNextPage(r))
  /\ WF_vars(MigrateModulesPage) /\ WF_vars(MigrateModulesItem)
  /\ WF_vars(MigrateModulesNextPage)

FairSpec == Spec /\ Fairness

(***************************************************************************)
(* Properties                                                              *)
(***************************************************************************)
TypeOK ==
  /\ bucket \in [ModuleKeys -> Bodies \union {OldBody, NoObject}]
  /\ \A r \in Requests :
       /\ req[r].op \in {"none", "GetModule", "UploadModule", "ListModuleVersions"}
       /\ req[r].c \in Coords \union {Blank}
       /\ req[r].pc \in {"idle", "head", "put", "listPage", "listItem", "done"}
       /\ req[r].res \in Results
       /\ req[r].page \in Seq(ModuleKeys) /\ req[r].acc \subseteq Coords
  /\ mig.pc \in {"idle", "page", "item"} /\ mig.page \in Seq(ModuleKeys)
  /\ mig.runs \in 0..MaxMigrationRuns

\* UploadModule promises AlreadyExists for a module that is already stored
\* (s3.go:140-142).  Two uploads racing between their existence checks and
\* their Uploads can both pass (spec.md 5 calls AlreadyExists best-effort),
\* so the strongest promise is: an Upload replaces a stored module only if
\* that module was absent when the uploader's own existence check ran.
OverwriteOnlyInRaceWindow ==
  [][\A r \in Requests :
       /\ req[r].pc = "put" /\ req'[r].stage = "reread"
       /\ Present(ModulePath(req[r].c, DefaultModuleArchiveFormat))
       => ~req[r].targetExisted]_vars

\* UploadModule ends with a fresh GetModule (s3.go:154): once its Upload
\* succeeded, it never reports the module it just stored as not found.
UploadedIsReadable ==
  \A r \in Requests :
    req[r].op = "UploadModule" /\ req[r].stage = "reread" /\ req[r].pc = "done"
      => req[r].res # "ModuleNotFound"

\* ListModuleVersions pages through the prefix while uploads and the
\* migration add keys to it (s3.go:93-115): a successful listing holds every
\* version stored when it began, and only versions that are stored.
ListComplete ==
  \A r \in Requests :
    req[r].op = "ListModuleVersions" /\ req[r].pc = "done" /\ req[r].res = "ok"
      => req[r].atStart \subseteq req[r].acc /\ req[r].acc \subseteq ListedCoords

\* A live MigrateModules that returns nil (s3.go:195) has copied every legacy
\* module that existed when it started, although its copies land in the
\* prefix it is still paging through.
MigrationCopiesAll ==
  mig.pc = "idle" /\ mig.res = "ok" /\ ~mig.dry
    => \A k \in mig.legacy : Present(MigrationTargetPath(ArchiveFormat, k))

\* Every failure of a request surfaces as an error value: no request ends
\* in a panic (presignedURL, s3.go:390).
NoPanic == \A r \in Requests : req[r].res # "Panic"

\* Modules are immutable once uploaded (spec.md 3): a MigrateModules step
\* never changes a module object already stored under the current layout
\* (its CopyObject, s3.go:181).
MigrationNeverReplaces ==
  [][mig' # mig =>
       \A k \in CurrentModuleKeys : Present(k) => bucket'[k] = bucket[k]]_vars

\* Every request a handler has started returns, and every MigrateModules
\* run ends, although listings page through prefixes that concurrent
\* uploads and the migration's own copies keep growing (s3.go:93-117,
\* 165-196): the paginator always advances past what it returned.
EveryCallReturns ==
  /\ \A r \in Requests : req[r].pc \notin {"idle", "done"} ~> req[r].pc = "done"
  /\ mig.pc # "idle" ~> mig.pc = "idle"
=============================================================================
