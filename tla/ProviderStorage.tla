--------------------------- MODULE ProviderStorage ---------------------------
(***************************************************************************)
(* The provider half of S3Storage (src/pkg/storage/s3.go): concurrent      *)
(* UploadProviderReleaseFiles, GetProvider and ListProviderVersions        *)
(* requests and the MigrateProviders command against one bucket.           *)
(*                                                                         *)
(* A release is published file by file: each archive, the SHA256SUMS and   *)
(* its signature are separate uploads.  An object's content is abstracted  *)
(* to Stored; every SHA256SUMS lists the archives of ReleasePlatforms.     *)
(* As in S3Storage, each network call is one step, presigning is folded    *)
(* into the step before it and a failed presign ends the request in        *)
(* "Panic" (s3.go:390).                                                    *)
(***************************************************************************)
EXTENDS Naturals, Sequences, FiniteSets, ProviderKeys, VersionCollection, Checksums

CONSTANTS
  Requests,          \* concurrent request handlers, one request each
  ReleasePlatforms,  \* platforms built for a release, listed in its SHA256SUMS
  LegacyVersions,    \* versions stored in the 0.7 layout at start
  Stored,            \* value of a present object
  NoObject,          \* value of an absent key
  Blank,             \* an empty filename
  KeyOrder,          \* all provider keys in S3's lexicographic order
  PageSize,          \* MaxKeys of one ListObjectsV2 page
  MaxMigrationRuns,  \* times the operator runs MigrateProviders
  HeadCanFail,       \* HeadObject may fail with a non-404 error
  PresignCanFail,    \* PresignGetObject may fail
  UploadCanFail,     \* Upload may fail
  DownloadCanFail,   \* Download may fail on a present object
  PageCanFail,       \* ListObjectsV2 may fail
  CopyCanFail        \* CopyObject may fail

ASSUME /\ ReleasePlatforms \subseteq Platforms /\ LegacyVersions \subseteq Versions
       /\ Stored # NoObject
       /\ Blank \notin ProviderKeys
       /\ KeyOrder \in Seq(ProviderKeys) /\ Len(KeyOrder) = Cardinality(ProviderKeys)
       /\ \A k \in ProviderKeys : \E i \in DOMAIN KeyOrder : KeyOrder[i] = k
       /\ PageSize \in Nat \ {0} /\ MaxMigrationRuns \in Nat
       /\ {HeadCanFail, PresignCanFail, UploadCanFail, DownloadCanFail,
           PageCanFail, CopyCanFail} \subseteq BOOLEAN

VARIABLES
  bucket,  \* key -> Stored or NoObject
  req,     \* request handler -> its request in progress
  mig      \* the MigrateProviders command

vars == <<bucket, req, mig>>

Present(k) == bucket[k] = Stored

\* ListObjectsV2 pages over this bucket
Pager == INSTANCE Paginator

\* the release files a publisher produces
Publishable ==
  {k \in ReleaseFiles : k.kind # "archive" \/ k.platform \in ReleasePlatforms}

\* (version, platform) of every archive stored under the listing prefix
StoredArchives ==
  {<<k.version, k.platform>> : k \in {a \in ProviderStoragePrefix :
                                        a.kind = "archive" /\ Present(a)}}

(***************************************************************************)
(* Request handlers                                                        *)
(***************************************************************************)
IdleReq == [op |-> "none", file |-> Blank, v |-> "-", p |-> "-", pc |-> "idle",
            res |-> "none", page |-> <<>>,
            cursor |-> 0, truncated |-> FALSE, acc |-> NewCollection, atStart |-> {}]

Return(r, res) == req' = [req EXCEPT ![r].pc = "done", ![r].res = res]

\* namespace and name are fixed and non-empty; an empty filename fails
StartUploadProviderReleaseFiles(r) ==
  /\ req[r].pc = "idle"
  /\ \E f \in Publishable \union {Blank} :
       req' = [req EXCEPT ![r].op = "UploadProviderReleaseFiles", ![r].file = f,
                          ![r].pc = IF f = Blank THEN "done" ELSE "head",
                          ![r].res = IF f = Blank THEN "Validation" ELSE "none"]
  /\ UNCHANGED <<bucket, mig>>

\* objectExists: found -> ErrProviderAlreadyExists, 404 -> upload,
\* any other error is returned
UploadProviderHead(r) ==
  LET key == req[r].file IN
  /\ req[r].pc = "head"
  /\ \/ Present(key) /\ Return(r, "AlreadyExists")
     \/ ~Present(key) /\ req' = [req EXCEPT ![r].pc = "put"]
     \/ HeadCanFail /\ Return(r, "BackendError")
  /\ UNCHANGED <<bucket, mig>>

UploadProviderPut(r) ==
  /\ req[r].pc = "put"
  /\ \/ /\ bucket' = [bucket EXCEPT ![req[r].file] = Stored]
        /\ Return(r, "ok")
     \/ /\ UploadCanFail
        /\ Return(r, "UploadFailed")
        /\ UNCHANGED bucket
  /\ UNCHANGED mig

(***************************************************************************)
(* GetProvider: presign the three keys, download SHA256SUMS and find the   *)
(* archive's line in it, then SigningKeys downloads signing_keys.json.     *)
(* No step looks at the archive itself.                                    *)
(***************************************************************************)
StartGetProvider(r) ==
  /\ req[r].pc = "idle"
  /\ \E v \in Versions, p \in Platforms :
       req' = [req EXCEPT ![r].op = "GetProvider", ![r].v = v, ![r].p = p,
                          ![r].pc = "shasums"]
  /\ UNCHANGED <<bucket, mig>>

\* download: GetObject of a present key may still fail; of an absent key
\* it fails
DownloadOutcomes(k) ==
  IF Present(k) THEN {"ok"} \union (IF DownloadCanFail THEN {"error"} ELSE {})
                ELSE {"error"}

\* SigningKeys(namespace): download signing_keys.json and decode it
SigningKeysOutcomes ==
  {IF o = "ok" THEN "ok" ELSE "SigningKeysError" : o \in DownloadOutcomes(SigningKeysPath)}

\* a release's SHA256SUMS: one line per archive built, in filename order
ShasumsManifest(v) ==
  LET ps == SortPlatforms(ReleasePlatforms) IN
  [i \in DOMAIN ps |-> Entry("digest", ArchivePath(v, ps[i]))]

\* the three presigns, the SHA256SUMS download and readSHASums of the
\* archive's filename, whose error is returned as is
GetProviderShasums(r) ==
  LET sum == ReadSHASums(ShasumsManifest(req[r].v), ArchivePath(req[r].v, req[r].p)) IN
  /\ req[r].pc = "shasums"
  /\ \/ PresignCanFail /\ Return(r, "Panic")
     \/ "error" \in DownloadOutcomes(ShasumsPath(req[r].v)) /\ Return(r, "DownloadFailed")
     \/ /\ "ok" \in DownloadOutcomes(ShasumsPath(req[r].v))
        /\ CASE sum = "NotFound"    -> Return(r, "ShasumNotFound")
             [] sum = "FormatError" -> Return(r, "ShasumFormatError")
             [] OTHER               -> req' = [req EXCEPT ![r].pc = "signing"]
  /\ UNCHANGED <<bucket, mig>>

\* mutant: the error of SigningKeys is dropped and the provider returned
GetProviderSigningKeysIgnoringError(r) ==
  /\ req[r].pc = "signing"
  /\ Return(r, "ok")
  /\ UNCHANGED <<bucket, mig>>

GetProviderSigningKeys(r) ==
  /\ req[r].pc = "signing"
  /\ \E o \in SigningKeysOutcomes : Return(r, o)
  /\ UNCHANGED <<bucket, mig>>

(***************************************************************************)
(* ListProviderVersions: pages of "<providerStoragePrefix>/"; each archive *)
(* key is added to the Version Collection, other keys are skipped.  An     *)
(* empty collection.List() is an error.                                    *)
(***************************************************************************)
StartListProviderVersions(r) ==
  /\ req[r].pc = "idle"
  /\ req' = [req EXCEPT ![r].op = "ListProviderVersions", ![r].pc = "listPage",
                        ![r].atStart = StoredArchives]
  /\ UNCHANGED <<bucket, mig>>

ListProviderPage(r) ==
  LET pg == Pager!ListPage(ProviderStoragePrefix, req[r].cursor) IN
  /\ req[r].pc = "listPage"
  /\ \/ req' = [req EXCEPT ![r].pc = "listItem", ![r].page = pg.keys,
                           ![r].cursor = pg.cursor, ![r].truncated = pg.truncated]
     \/ PageCanFail /\ Return(r, "ListFailed")
  /\ UNCHANGED <<bucket, mig>>

\* mutant: every key is added, as if each named an archive
ListProviderItemNoSkip(r) ==
  LET k == Head(req[r].page) IN
  /\ req[r].pc = "listItem"
  /\ req[r].page # <<>>
  /\ req' = [req EXCEPT ![r].page = Tail(@),
                        ![r].acc = CollectionAdd(@, <<k.version, k.platform>>)]
  /\ UNCHANGED <<bucket, mig>>

ListProviderItem(r) ==
  LET pv == NewProviderFromArchive(Head(req[r].page)) IN
  /\ req[r].pc = "listItem"
  /\ req[r].page # <<>>
  /\ req' = [req EXCEPT ![r].page = Tail(@),
                        ![r].acc = IF pv = ParseError THEN @ ELSE CollectionAdd(@, pv)]
  /\ UNCHANGED <<bucket, mig>>

\* "no provider versions found" is a plain fmt.Errorf (s3.go:322)
ListProviderNextPage(r) ==
  /\ req[r].pc = "listItem"
  /\ req[r].page = <<>>
  /\ IF req[r].truncated THEN req' = [req EXCEPT ![r].pc = "listPage"]
     ELSE Return(r, IF CollectionList(req[r].acc) = <<>> THEN "Error" ELSE "ok")
  /\ UNCHANGED <<bucket, mig>>

(***************************************************************************)
(* MigrateProviders(dryRun): pages over <prefix>/providers; every key goes *)
(* through providerMigrationTargetPath, whose error returns at once; the   *)
(* file is then copied to its current key, or only logged in a dry run.   *)
(* Unlike MigrateModules there is no "already migrated" skip.             *)
(***************************************************************************)
IdleMig == [pc |-> "idle", dry |-> FALSE, page |-> <<>>, cursor |-> 0,
            truncated |-> FALSE, runs |-> 0, res |-> "none"]

StartMigrateProviders ==
  /\ mig.pc = "idle"
  /\ mig.runs < MaxMigrationRuns
  /\ \E dry \in BOOLEAN :
       mig' = [mig EXCEPT !.pc = "page", !.dry = dry, !.cursor = 0,
                          !.page = <<>>, !.runs = @ + 1, !.res = "none"]
  /\ UNCHANGED <<bucket, req>>

MigrateProvidersPage ==
  LET pg == Pager!ListPage(InternalProviderPrefix, mig.cursor) IN
  /\ mig.pc = "page"
  /\ \/ mig' = [mig EXCEPT !.pc = "item", !.page = pg.keys, !.cursor = pg.cursor,
                           !.truncated = pg.truncated]
     \/ PageCanFail /\ mig' = [mig EXCEPT !.pc = "idle", !.res = "PageFailed"]
  /\ UNCHANGED <<bucket, req>>

MigrateProvidersItem ==
  LET k      == Head(mig.page)
      target == ProviderMigrationTargetPath(k)
  IN
  /\ mig.pc = "item"
  /\ mig.page # <<>>
  /\ \/ target = ParseError /\ mig' = [mig EXCEPT !.pc = "idle", !.res = "BadKey"]
                            /\ UNCHANGED bucket
     \/ /\ target # ParseError /\ mig.dry
        /\ mig' = [mig EXCEPT !.page = Tail(@)]
        /\ UNCHANGED bucket
     \/ /\ target # ParseError /\ ~mig.dry
        /\ bucket' = [bucket EXCEPT ![target] = bucket[k]]
        /\ mig' = [mig EXCEPT !.page = Tail(@)]
     \/ /\ target # ParseError /\ ~mig.dry /\ CopyCanFail
        /\ mig' = [mig EXCEPT !.pc = "idle", !.res = "CopyFailed"]
        /\ UNCHANGED bucket
  /\ UNCHANGED req

MigrateProvidersNextPage ==
  /\ mig.pc = "item"
  /\ mig.page = <<>>
  /\ mig' = IF mig.truncated THEN [mig EXCEPT !.pc = "page"]
                             ELSE [mig EXCEPT !.pc = "idle", !.res = "ok"]
  /\ UNCHANGED <<bucket, req>>

(***************************************************************************)
(* Specification                                                           *)
(***************************************************************************)
Init ==
  \* signing_keys.json is placed out of band: a namespace may lack it
  /\ \E keys \in {Stored, NoObject} :
       bucket = [k \in ProviderKeys |->
                  IF k = SigningKeysPath THEN keys
                  ELSE IF k \in {LegacyPath(f) : f \in {g \in Publishable :
                                                        g.version \in LegacyVersions}}
                  THEN Stored ELSE NoObject]
  /\ req = [r \in Requests |-> IdleReq]
  /\ mig = IdleMig

Next ==
  \/ \E r \in Requests :
       \/ StartUploadProviderReleaseFiles(r) \/ UploadProviderHead(r)
       \/ UploadProviderPut(r)
       \/ StartGetProvider(r) \/ GetProviderShasums(r) \/ GetProviderSigningKeys(r)
       \/ StartListProviderVersions(r) \/ ListProviderPage(r)
       \/ ListProviderItem(r) \/ ListProviderNextPage(r)
  \/ StartMigrateProviders \/ MigrateProvidersPage
  \/ MigrateProvidersItem \/ MigrateProvidersNextPage

Spec == Init /\ [][Next]_vars

(***************************************************************************)
(* Properties                                                              *)
(***************************************************************************)
TypeOK ==
  /\ bucket \in [ProviderKeys -> {Stored, NoObject}]
  /\ \A r \in Requests :
       /\ req[r].pc \in {"idle", "head", "put", "shasums", "signing",
                         "listPage", "listItem", "done"}
       /\ req[r].file \in Publishable \union {Blank}
       /\ req[r].page \in Seq(ProviderKeys)
       /\ CollectedPairs(req[r].acc) \subseteq Versions \X Platforms
  /\ mig.pc \in {"idle", "page", "item"} /\ mig.page \in Seq(ProviderKeys)
  /\ mig.runs \in 0..MaxMigrationRuns

\* Migration skips whatever is already in the current layout (spec.md 4.7):
\* MigrateProviders never aborts on a key of the prefix it lists.
MigrateProvidersSkipsMigrated == mig.res # "BadKey"

\* A provider GetProvider returns can be downloaded: its archive is stored
\* (GetProvider, s3.go:241-288, presigns the archive key without a check).
GetProviderArchiveStored ==
  \A r \in Requests :
    req[r].op = "GetProvider" /\ req[r].res = "ok"
      => Present(ArchivePath(req[r].v, req[r].p))
=============================================================================
