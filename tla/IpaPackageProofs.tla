-------------------------- MODULE IpaPackageProofs --------------------------
(***************************************************************************)
(* Theorems about IpaPackage, for every set of apps, every set of steps    *)
(* that may fail and every number of calls: what a finished call of        *)
(* DownloadApp leaves on the disk, and what a failed or killed one cannot  *)
(* destroy.                                                                *)
(*                                                                         *)
(* A file is read back several steps after it was written, perhaps over    *)
(* the remains of another call.  Progress says, for each step, what this   *)
(* call has already made of the three files.                               *)
(***************************************************************************)
EXTENDS IpaPackage, TLAPS

\* The package ApplyPatches makes, and the one ReplicateSinf makes of it.
PatchedIpa(a) == Package(a, {"payload"} \cup {"metadata"})
WithSinfs(a) == Package(a, ({"payload"} \cup {"metadata"}) \cup SinfParts(a))

\* The sinfs have been written.
Signed(a) ==
    \/ a.paths = a.sinfs
    \/ a.paths = -1 /\ a.sinfs > 0 /\ readInfoPlist(a) # "nil"

Replicating == {"createTmp", "copyIpa", "names", "sinf", "close", "remove"}
Patching == {"createIpa", "copyRaw", "metadata", "openIpa", "rename", "cleanup"} \cup Replicating

Downloaded ==
    /\ step = "fetch" => downloading = Empty
    /\ step = "openRaw" => downloading \in {Raw(app), Broken}
    /\ step \in Patching => downloading = Raw(app)

HasMetadata ==
    /\ step \in {"copyRaw", "metadata"} => ipa = Empty
    /\ step = "openIpa" => ipa \in {PatchedIpa(app), Unflushed}
    /\ step \in Replicating => ipa = PatchedIpa(app)

\* What SavedIsComplete says of the ipa.
Good(c, a) == c # Unflushed => IF FirstOnly(a) THEN Patched(c, a) ELSE Complete(c, a)

HasSinfs ==
    /\ step \in {"copyIpa", "names", "sinf", "close"} => tmp = Empty
    /\ step \in {"sinf", "close", "remove", "rename"} => readBundleName(app)
    /\ step \in {"close", "remove", "rename"} => Signed(app)
    /\ step \in {"remove", "rename"} => tmp \in {WithSinfs(app), Unflushed}
    /\ step = "cleanup" => tmp = Absent /\ Good(ipa, app)

Progress ==
    /\ step # "idle" => app \in Apps /\ result = "none"
    /\ Downloaded /\ HasMetadata /\ HasSinfs

IpaInv == IpaTypeOK /\ Progress /\ SavedIsComplete /\ PanicsOnlyWithoutSinfs

-----------------------------------------------------------------------------
(* Contents of files.                                                       *)

\* The contents are told apart by their kind.
LEMMA ContentFacts ==
  /\ Absent \in Content /\ Empty \in Content /\ Broken \in Content /\ Unflushed \in Content
  /\ Absent.kind = "absent" /\ Empty.kind = "empty" /\ Broken.kind = "broken"
  /\ Unflushed.kind = "unflushed"
BY DEF Content, Absent, Empty, Broken, Unflushed

\* A package is what it was made of.
LEMMA PackageFacts ==
  ASSUME NEW a, NEW parts
  PROVE  /\ Package(a, parts).kind = "zip" /\ Package(a, parts).app = a
         /\ Package(a, parts).parts = parts
         /\ a \in Apps /\ parts \subseteq Parts => Package(a, parts) \in Content
BY DEF Package, Content

\* The packages DownloadApp makes of an app.
LEMMA AppPackages ==
  ASSUME NEW a \in Apps
  PROVE  /\ Raw(a) \in Content /\ Raw(a).kind = "zip" /\ Raw(a).parts = {"payload"}
         /\ PatchedIpa(a) \in Content /\ PatchedIpa(a).kind = "zip"
         /\ PatchedIpa(a).parts = {"payload"} \cup {"metadata"}
<1>1. {"payload"} \subseteq Parts /\ {"payload"} \cup {"metadata"} \subseteq Parts
  BY DEF Parts
<1> QED
  BY <1>1, PackageFacts DEF Raw, PatchedIpa

\* What Close leaves of a new file.
LEMMA ClosedFacts ==
  ASSUME NEW package
  PROVE  \A c \in Closed(Empty, package) : c = package \/ c = Unflushed
BY DEF Closed, Written

\* Close leaves something of the right type in any case.
LEMMA ClosedContent ==
  ASSUME NEW c, NEW package \in Content
  PROVE  Closed(c, package) \subseteq Content
BY ContentFacts DEF Closed, Written

\* With its sinfs written, the package of an app is complete, if the app is not
\* FirstOnly.
LEMMA SignedGood ==
  ASSUME NEW a \in Apps, Signed(a), readBundleName(a)
  PROVE  Good(WithSinfs(a), a) /\ WithSinfs(a) \in Content
<1> DEFINE parts == ({"payload"} \cup {"metadata"}) \cup SinfParts(a)
<1>1. a.sinfs \in Nat /\ a.paths \in Nat \cup {-1}
  BY IpaAssumption
<1>2. readInfoPlist(a) \in {"sinf", "watchSinf"}
  BY DEF readBundleName, readInfoPlist
<1>3. parts \subseteq Parts
  <2>1. SinfParts(a) \subseteq {"sinf", "firstSinf", "watchSinf"}
    BY <1>2 DEF SinfParts
  <2> QED
    BY <2>1 DEF Parts
<1>4. ASSUME a.sinfs > 0, ~FirstOnly(a) PROVE "sinf" \in parts
  <2>1. CASE a.paths = -1
    <3>1. a.plist = "main" /\ ~(a.sinfs > 1)
      BY <1>4, <2>1 DEF FirstOnly, readBundleName
    <3>2. readInfoPlist(a) = "sinf"
      BY <3>1 DEF readInfoPlist
    <3>3. SinfParts(a) = {"sinf"}
      BY <2>1, <3>1, <3>2 DEF SinfParts
    <3> QED
      BY <3>3
  <2>2. CASE a.paths # -1
    <3>1. a.sinfs # 0
      BY <1>1, <1>4
    <3> QED
      BY <2>2, <3>1 DEF SinfParts
  <2> QED
    BY <2>1, <2>2
<1>5. {"payload", "metadata"} \subseteq parts
  OBVIOUS
<1>6. WithSinfs(a) = Package(a, parts)
  BY DEF WithSinfs
<1> HIDE DEF parts
<1>7. Patched(WithSinfs(a), a) /\ WithSinfs(a).parts = parts /\ WithSinfs(a) \in Content
  BY <1>3, <1>5, <1>6, PackageFacts DEF Patched
<1> QED
  BY <1>4, <1>7 DEF Good, Complete

-----------------------------------------------------------------------------
(* IpaInv is inductive.                                                     *)

\* A step that goes on keeps the parts of IpaInv that speak of results.
LEMMA StepOn ==
  ASSUME IpaInv, step # "idle", NEW next \in Steps, GoTo(next),
         ipa' \in Content, downloading' \in Content, tmp' \in Content,
         open' \subseteq {"ipa", "tmp"},
         Downloaded', HasMetadata', HasSinfs'
  PROVE  IpaInv'
<1>1. result' = "none" /\ app' = app /\ app \in Apps /\ step' = next
  BY DEF IpaInv, Progress, GoTo
<1>2. IpaTypeOK'
  BY DEF IpaInv, IpaTypeOK, GoTo
<1>3. Progress'
  BY <1>1 DEF Progress
<1>4. SavedIsComplete' /\ PanicsOnlyWithoutSinfs'
  BY <1>1 DEF SavedIsComplete, PanicsOnlyWithoutSinfs
<1> QED
  BY <1>2, <1>3, <1>4 DEF IpaInv

\* A call that ends with an error promises nothing, whatever it leaves.
LEMMA StepFails ==
  ASSUME IpaInv, Return("error"),
         ipa' \in Content, downloading' \in Content, tmp' \in Content,
         open' \subseteq {"ipa", "tmp"}
  PROVE  IpaInv'
<1>1. result' = "error" /\ app' = app /\ step' = "idle"
  BY DEF Return
<1>2. IpaTypeOK'
  BY DEF IpaInv, IpaTypeOK, Return
<1>3. Progress'
  BY <1>1 DEF Progress, Downloaded, HasMetadata, HasSinfs, Patching, Replicating
<1>4. SavedIsComplete' /\ PanicsOnlyWithoutSinfs'
  BY <1>1 DEF SavedIsComplete, PanicsOnlyWithoutSinfs
<1> QED
  BY <1>2, <1>3, <1>4 DEF IpaInv

\* A call that panics does so without sinfs.
LEMMA StepPanics ==
  ASSUME IpaInv, Return("panic"), app.paths = -1, app.sinfs = 0,
         ipa' \in Content, downloading' \in Content, tmp' \in Content,
         open' \subseteq {"ipa", "tmp"}
  PROVE  IpaInv'
<1>1. result' = "panic" /\ app' = app /\ step' = "idle"
  BY DEF Return
<1>2. IpaTypeOK'
  BY DEF IpaInv, IpaTypeOK, Return
<1>3. Progress'
  BY <1>1 DEF Progress, Downloaded, HasMetadata, HasSinfs, Patching, Replicating
<1>4. SavedIsComplete' /\ PanicsOnlyWithoutSinfs'
  BY <1>1 DEF SavedIsComplete, PanicsOnlyWithoutSinfs
<1> QED
  BY <1>2, <1>3, <1>4 DEF IpaInv

\* An empty directory.
LEMMA IpaInitInv == IpaInit => IpaInv
<1> SUFFICES ASSUME IpaInit PROVE IpaInv
  OBVIOUS
<1>1. calls \in 0..MaxCalls
  BY IpaAssumption DEF IpaInit
<1>2. IpaTypeOK
  BY <1>1, ContentFacts DEF IpaInit, IpaTypeOK
<1>3. Progress
  BY DEF IpaInit, Progress, Downloaded, HasMetadata, HasSinfs, Patching, Replicating
<1> QED
  BY <1>2, <1>3 DEF IpaInit, IpaInv, SavedIsComplete, PanicsOnlyWithoutSinfs

\* A call begins.
LEMMA BeginInv ==
  ASSUME IpaInv, NEW a \in Apps, NEW over \in BOOLEAN, BeginFails(a) \/ DownloadApp(a, over)
  PROVE  IpaInv'
<1>1. calls' \in 0..MaxCalls
  <2>1. calls \in 0..MaxCalls /\ MaxCalls \in Nat /\ calls < MaxCalls /\ calls' = calls + 1
    BY IpaAssumption DEF IpaInv, IpaTypeOK, BeginFails, DownloadApp
  <2> QED
    BY <2>1
<1>2. /\ UNCHANGED <<platform, ipa, downloading, tmp>> /\ app' = a
      /\ overwrite' \in BOOLEAN /\ open' \subseteq {"ipa", "tmp"}
      /\ \/ step' = "idle" /\ result' \in {"skipped", "error"}
         \/ step' = "create" /\ result' = "none"
  BY DEF BeginFails, DownloadApp, IpaInv, IpaTypeOK
<1>3. IpaTypeOK'
  BY <1>1, <1>2 DEF IpaInv, IpaTypeOK, Steps
<1>4. Progress'
  BY <1>2 DEF Progress, Downloaded, HasMetadata, HasSinfs, Patching, Replicating
<1> QED
  BY <1>2, <1>3, <1>4 DEF IpaInv, SavedIsComplete, PanicsOnlyWithoutSinfs

\* DownloadFile.
LEMMA DownloadFileInv ==
  ASSUME IpaInv, CreateFile \/ FetchFails \/ Fetch
  PROVE  IpaInv'
<1> USE ContentFacts DEF Downloaded, HasMetadata, HasSinfs, Patching, Replicating
<1>1. /\ ipa \in Content /\ downloading \in Content /\ tmp \in Content
      /\ open \subseteq {"ipa", "tmp"}
  BY DEF IpaInv, IpaTypeOK
<1>2. CASE CreateFile
  BY <1>1, <1>2, StepOn DEF CreateFile, Create, GoTo, Steps
<1>3. CASE FetchFails
  BY <1>1, <1>3, StepFails DEF FetchFails, Fails
<1>4. CASE Fetch
  <2>1. app \in Apps /\ downloading = Empty /\ step = "fetch"
    BY <1>4 DEF IpaInv, Progress, Fetch
  <2>2. downloading' \in {Raw(app), Broken} /\ app' = app /\ step' = "openRaw"
    BY <1>4, <2>1 DEF Fetch, Written, GoTo
  <2>3. downloading' \in Content
    BY <2>1, <2>2, AppPackages
  <2> QED
    BY <1>1, <1>4, <2>1, <2>2, <2>3, StepOn DEF Fetch, Steps
<1> QED
  BY <1>2, <1>3, <1>4

\* ApplyPatches.
LEMMA ApplyPatchesInv ==
  ASSUME IpaInv,
         \/ OpenRaw \/ CreateIpa \/ CopyRaw \/ WriteMetadata
         \/ PatchFails("copyRaw", {}) \/ PatchFails("metadata", downloading.parts)
  PROVE  IpaInv'
<1> USE DEF Downloaded, HasMetadata, HasSinfs, Patching, Replicating
<1>1. /\ ipa \in Content /\ downloading \in Content /\ tmp \in Content
      /\ open \subseteq {"ipa", "tmp"} /\ step # "idle" /\ app \in Apps
  BY DEF IpaInv, IpaTypeOK, Progress, OpenRaw, CreateIpa, CopyRaw, WriteMetadata, PatchFails, Fails
<1>2. CASE OpenRaw
  <2>1. CASE downloading.kind = "zip"
    <3>1. downloading = Raw(app)
      BY <1>2, <2>1, ContentFacts DEF IpaInv, Progress, OpenRaw
    <3> QED
      BY <1>1, <1>2, <2>1, <3>1, StepOn DEF OpenRaw, GoTo, Steps
  <2>2. CASE downloading.kind # "zip"
    BY <1>1, <1>2, <2>2, StepFails DEF OpenRaw
  <2> QED
    BY <2>1, <2>2
<1>3. CASE CreateIpa
  <2>1. downloading = Raw(app)
    BY <1>3 DEF IpaInv, Progress, CreateIpa
  <2>2. ipa' = Empty /\ ipa' \in Content /\ open' \subseteq {"ipa", "tmp"}
    BY <1>1, <1>3, ContentFacts DEF CreateIpa, Create
  <2> QED
    BY <1>1, <1>3, <2>1, <2>2, StepOn DEF CreateIpa, GoTo, Steps
<1>4. CASE CopyRaw
  <2>1. downloading = Raw(app) /\ ipa = Empty
    BY <1>4 DEF IpaInv, Progress, CopyRaw
  <2> QED
    BY <1>1, <1>4, <2>1, StepOn DEF CopyRaw, GoTo, Steps
<1>5. CASE WriteMetadata
  <2>1. downloading = Raw(app) /\ ipa = Empty
    BY <1>5 DEF IpaInv, Progress, WriteMetadata
  <2>2. Package(app, downloading.parts \cup {"metadata"}) = PatchedIpa(app)
    BY <1>1, <2>1, AppPackages DEF PatchedIpa
  <2>3. ipa' \in {PatchedIpa(app), Unflushed}
    BY <1>5, <2>1, <2>2, ClosedFacts DEF WriteMetadata
  <2>4. ipa' \in Content
    BY <1>1, <2>3, AppPackages, ContentFacts
  <2>5. /\ GoTo("openIpa") /\ step' = "openIpa" /\ app' = app
        /\ UNCHANGED <<downloading, tmp, open>>
    BY <1>5 DEF WriteMetadata, GoTo
  <2>6. Downloaded' /\ HasMetadata' /\ HasSinfs'
    BY <2>1, <2>3, <2>5
  <2> QED
    BY <1>1, <2>4, <2>5, <2>6, StepOn DEF Steps
<1>6. CASE PatchFails("copyRaw", {}) \/ PatchFails("metadata", downloading.parts)
  <2>1. {} \subseteq Parts /\ downloading.parts \subseteq Parts
    BY <1>1 DEF Content
  <2>2. /\ Package(app, {}) \in Content
        /\ Package(app, downloading.parts) \in Content
    BY <1>1, <2>1, PackageFacts
  <2>3. ipa' \in Content
    BY <1>6, <2>2, ClosedContent DEF PatchFails
  <2> QED
    BY <1>1, <1>6, <2>3, StepFails DEF PatchFails, Fails
<1> QED
  BY <1>2, <1>3, <1>4, <1>5, <1>6

\* ReplicateSinf up to the closes.
LEMMA ReplicateInv ==
  ASSUME IpaInv, OpenIpa \/ CreateTmp \/ CopyIpa \/ ReadNames \/ WriteSinf
  PROVE  IpaInv'
<1> USE DEF Downloaded, HasMetadata, HasSinfs, Patching, Replicating
<1>1. /\ ipa \in Content /\ downloading \in Content /\ tmp \in Content
      /\ open \subseteq {"ipa", "tmp"} /\ step # "idle" /\ app \in Apps
  BY DEF IpaInv, IpaTypeOK, Progress, OpenIpa, CreateTmp, CopyIpa, ReadNames, WriteSinf
<1>2. downloading = Raw(app)
  BY DEF IpaInv, Progress, OpenIpa, CreateTmp, CopyIpa, ReadNames, WriteSinf
<1>3. CASE OpenIpa
  <2>1. CASE ipa.kind = "zip"
    <3>1. ipa = PatchedIpa(app)
      BY <1>3, <2>1, ContentFacts DEF IpaInv, Progress, OpenIpa
    <3> QED
      BY <1>1, <1>2, <1>3, <2>1, <3>1, StepOn DEF OpenIpa, GoTo, Steps
  <2>2. CASE ipa.kind # "zip"
    BY <1>1, <1>3, <2>2, StepFails DEF OpenIpa
  <2> QED
    BY <2>1, <2>2
<1>4. CASE CreateTmp
  <2>1. ipa = PatchedIpa(app)
    BY <1>4 DEF IpaInv, Progress, CreateTmp
  <2>2. tmp' = Empty /\ tmp' \in Content
    BY <1>4, ContentFacts DEF CreateTmp, Create
  <2> QED
    BY <1>1, <1>2, <1>4, <2>1, <2>2, StepOn DEF CreateTmp, GoTo, Steps
<1>5. CASE CopyIpa \/ ReadNames \/ WriteSinf
  <2>1. ipa = PatchedIpa(app) /\ tmp = Empty
    BY <1>5 DEF IpaInv, Progress, CopyIpa, ReadNames, WriteSinf
  <2>2. /\ step' \in {"names", "sinf", "close"} /\ GoTo(step') /\ app' = app
        /\ UNCHANGED <<ipa, downloading, tmp, open>>
    BY <1>5 DEF CopyIpa, ReadNames, WriteSinf, GoTo
  <2>3. /\ step' \in {"sinf", "close"} => readBundleName(app)
        /\ step' = "close" => Signed(app)
    BY <1>5 DEF IpaInv, Progress, CopyIpa, ReadNames, WriteSinf, GoTo, Signed
  <2>4. readBundleName(app)' = readBundleName(app) /\ Signed(app)' = Signed(app)
    BY <2>2 DEF readBundleName, Signed, readInfoPlist
  <2>5. Downloaded' /\ HasMetadata' /\ HasSinfs'
    BY <1>2, <2>1, <2>2, <2>3, <2>4
  <2> QED
    BY <1>1, <2>2, <2>5, StepOn DEF Steps
<1> QED
  BY <1>3, <1>4, <1>5

\* Errors and the panic of ReplicateSinf before the closes: a panic means that
\* there was no sinf, since readBundleName found an Info.plist before.
LEMMA ReplicateFailsInv ==
  ASSUME IpaInv, CopyIpaFails \/ ReadNamesFails \/ WriteSinfFails \/ WriteSinfPanics
  PROVE  IpaInv'
<1>1. /\ ipa \in Content /\ downloading \in Content /\ tmp \in Content
      /\ open \subseteq {"ipa", "tmp"} /\ app \in Apps
  BY DEF IpaInv, IpaTypeOK, Progress, CopyIpaFails, ReadNamesFails, WriteSinfFails, WriteSinfPanics
<1>2. Package(app, {}) \in Content /\ Package(app, ipa.parts) \in Content
  <2>1. {} \subseteq Parts /\ ipa.parts \subseteq Parts
    BY <1>1 DEF Content
  <2> QED
    BY <1>1, <2>1, PackageFacts
<1>3. CASE CopyIpaFails \/ ReadNamesFails \/ WriteSinfFails
  <2>1. PICK parts \in {{}, ipa.parts} : SinfFails(parts)
    BY <1>3 DEF CopyIpaFails, ReadNamesFails, WriteSinfFails
  <2>2. tmp' \in Content
    BY <1>2, <2>1, ClosedContent DEF SinfFails
  <2>3. open' \subseteq {"ipa", "tmp"} /\ Return("error") /\ UNCHANGED <<ipa, downloading>>
    BY <1>1, <2>1 DEF SinfFails
  <2> QED
    BY <1>1, <2>2, <2>3, StepFails
<1>4. CASE WriteSinfPanics
  <2>1. readBundleName(app) /\ app.paths = -1
    BY <1>4 DEF IpaInv, Progress, HasSinfs, WriteSinfPanics
  <2>2. readInfoPlist(app) # "nil"
    BY <2>1 DEF readBundleName, readInfoPlist
  <2>3. app.sinfs = 0
    BY <1>4, <2>2 DEF WriteSinfPanics
  <2>4. tmp' \in Content
    BY <1>2, <1>4, ClosedContent DEF WriteSinfPanics
  <2> QED
    BY <1>1, <1>4, <2>1, <2>3, <2>4, StepPanics DEF WriteSinfPanics
<1> QED
  BY <1>3, <1>4

\* The end of ReplicateSinf: close, remove, rename.
LEMMA RenameInv ==
  ASSUME IpaInv, CloseFiles \/ RemoveIpa \/ RenameTmp
  PROVE  IpaInv'
<1> USE DEF Downloaded, HasMetadata, HasSinfs, Patching, Replicating
<1>1. /\ ipa \in Content /\ downloading \in Content /\ tmp \in Content
      /\ open \subseteq {"ipa", "tmp"} /\ step # "idle" /\ app \in Apps
  BY DEF IpaInv, IpaTypeOK, Progress, CloseFiles, RemoveIpa, RenameTmp
<1>2. downloading = Raw(app) /\ readBundleName(app) /\ Signed(app)
  BY DEF IpaInv, Progress, CloseFiles, RemoveIpa, RenameTmp
<1>3. app' = app /\ UNCHANGED <<downloading, open>>
  BY DEF CloseFiles, RemoveIpa, RenameTmp, GoTo
<1>4. readBundleName(app)' = readBundleName(app) /\ Signed(app)' = Signed(app)
      /\ WithSinfs(app)' = WithSinfs(app)
  BY <1>3 DEF readBundleName, Signed, readInfoPlist, WithSinfs, SinfParts, Package
<1>5. CASE CloseFiles
  <2>1. ipa = PatchedIpa(app) /\ tmp = Empty
    BY <1>5 DEF IpaInv, Progress, CloseFiles
  <2>2. Package(app, ipa.parts \cup SinfParts(app)) = WithSinfs(app)
    BY <1>1, <2>1, AppPackages DEF WithSinfs
  <2>3. tmp' \in {WithSinfs(app), Unflushed}
    BY <1>5, <2>1, <2>2, ClosedFacts DEF CloseFiles
  <2>4. tmp' \in Content
    BY <1>1, <1>2, <2>3, SignedGood, ContentFacts
  <2>5. GoTo("remove") /\ step' = "remove" /\ ipa' = ipa
    BY <1>5 DEF CloseFiles, GoTo
  <2>6. Downloaded' /\ HasMetadata' /\ HasSinfs'
    BY <1>2, <1>3, <1>4, <2>1, <2>3, <2>5
  <2> QED
    BY <1>1, <1>3, <2>4, <2>5, <2>6, StepOn DEF Steps
<1>6. CASE RemoveIpa
  <2>1. tmp \in {WithSinfs(app), Unflushed}
    BY <1>6 DEF IpaInv, Progress, RemoveIpa
  <2>2. GoTo("rename") /\ step' = "rename" /\ ipa' = Absent /\ tmp' = tmp
    BY <1>6 DEF RemoveIpa, GoTo
  <2>3. Downloaded' /\ HasMetadata' /\ HasSinfs'
    BY <1>2, <1>3, <1>4, <2>1, <2>2
  <2> QED
    BY <1>1, <1>3, <2>2, <2>3, StepOn, ContentFacts DEF Steps
<1>7. CASE RenameTmp
  <2>1. tmp \in {WithSinfs(app), Unflushed}
    BY <1>7 DEF IpaInv, Progress, RenameTmp
  <2>2. GoTo("cleanup") /\ step' = "cleanup" /\ ipa' = tmp /\ tmp' = Absent
    BY <1>7 DEF RenameTmp, GoTo
  <2>3. Good(tmp, app)
    BY <1>1, <1>2, <2>1, SignedGood DEF Good
  <2>4. Good(ipa, app)'
    BY <1>3, <2>2, <2>3 DEF Good, FirstOnly, Patched, Complete
  <2>5. Downloaded' /\ HasMetadata' /\ HasSinfs'
    BY <1>2, <1>3, <2>2, <2>4
  <2> QED
    BY <1>1, <1>3, <2>2, <2>5, StepOn, ContentFacts DEF Steps
<1> QED
  BY <1>5, <1>6, <1>7

\* The call reports success.
LEMMA CleanupInv ==
  ASSUME IpaInv, Cleanup
  PROVE  IpaInv'
<1>1. /\ step = "cleanup" /\ step' = "idle" /\ result' = "saved" /\ downloading' = Absent
      /\ UNCHANGED <<platform, app, overwrite, calls, ipa, tmp, open>>
  BY DEF Cleanup, Return
<1>2. IpaTypeOK'
  BY <1>1, ContentFacts DEF IpaInv, IpaTypeOK
<1>3. Progress'
  BY <1>1 DEF Progress, Downloaded, HasMetadata, HasSinfs, Patching, Replicating
<1>4. tmp = Absent /\ Good(ipa, app)
  BY <1>1 DEF IpaInv, Progress, HasSinfs
<1>5. SavedIsComplete'
  BY <1>1, <1>4 DEF SavedIsComplete, Good, FirstOnly, Patched, Complete
<1> QED
  BY <1>1, <1>2, <1>3, <1>5 DEF IpaInv, PanicsOnlyWithoutSinfs

\* Failures that change no file, and what the environment does.
LEMMA EnvironmentInv ==
  ASSUME IpaInv,
         \/ RemoveFails \/ RenameFails \/ PlainFailure
         \/ \E file \in {"ipa", "tmp"} : Collect(file)
         \/ Crash \/ UNCHANGED ipaVars
  PROVE  IpaInv'
<1>1. /\ ipa \in Content /\ downloading \in Content /\ tmp \in Content
      /\ open \subseteq {"ipa", "tmp"}
  BY DEF IpaInv, IpaTypeOK
<1>2. CASE RemoveFails \/ RenameFails \/ PlainFailure
  BY <1>1, <1>2, StepFails DEF RemoveFails, RenameFails, PlainFailure, Fails
<1>3. CASE Crash
  BY <1>1, <1>3 DEF Crash, IpaInv, IpaTypeOK, Progress, Downloaded, HasMetadata, HasSinfs,
                    Patching, Replicating, SavedIsComplete, PanicsOnlyWithoutSinfs
<1>4. CASE \/ \E file \in {"ipa", "tmp"} : Collect(file)
           \/ UNCHANGED ipaVars
  <2>1. /\ UNCHANGED <<platform, ipa, downloading, tmp, step, app, overwrite, result, calls>>
        /\ open' \subseteq {"ipa", "tmp"}
    BY <1>1, <1>4 DEF Collect, ipaVars
  <2>2. IpaTypeOK' /\ Progress'
    BY <2>1 DEF IpaInv, IpaTypeOK, Progress, Downloaded, HasMetadata, HasSinfs, Signed,
                readBundleName, readInfoPlist, WithSinfs, SinfParts, Package, Good, FirstOnly,
                Patched, Complete
  <2> QED
    BY <2>1, <2>2 DEF IpaInv, SavedIsComplete, PanicsOnlyWithoutSinfs, FirstOnly, Patched, Complete
<1> QED
  BY <1>2, <1>3, <1>4

\* Every step keeps IpaInv.
LEMMA IpaNextInv == IpaInv /\ [IpaNext]_ipaVars => IpaInv'
<1> SUFFICES ASSUME IpaInv, [IpaNext]_ipaVars PROVE IpaInv'
  OBVIOUS
<1> QED
  BY BeginInv, DownloadFileInv, ApplyPatchesInv, ReplicateInv, ReplicateFailsInv,
     RenameInv, CleanupInv, EnvironmentInv
  DEF IpaNext, Finished

-----------------------------------------------------------------------------
(* The theorems.                                                            *)

\* IpaInv holds in every state.
THEOREM IpaInvariance == IpaSpec => []IpaInv
<1>1. IpaInit => IpaInv
  BY IpaInitInv
<1>2. IpaInv /\ [IpaNext]_ipaVars => IpaInv'
  BY IpaNextInv
<1> QED
  BY <1>1, <1>2, PTL DEF IpaSpec

\* The files keep their types.
THEOREM IpaTypeCorrect == IpaSpec => []IpaTypeOK
<1>1. IpaInv => IpaTypeOK
  BY DEF IpaInv
<1> QED
  BY <1>1, IpaInvariance, PTL

\* When DownloadApp reports success the complete package of the app asked for
\* is there, whatever earlier calls left, but for an unnoticed error of Close
\* and for the sinfs of an app that is FirstOnly.
THEOREM SavedComplete == IpaSpec => []SavedIsComplete
<1>1. IpaInv => SavedIsComplete
  BY DEF IpaInv
<1> QED
  BY <1>1, IpaInvariance, PTL

\* The only panic of a download is the missing sinfs[0].
THEOREM OnlyPanic == IpaSpec => []PanicsOnlyWithoutSinfs
<1>1. IpaInv => PanicsOnlyWithoutSinfs
  BY DEF IpaInv
<1> QED
  BY <1>1, IpaInvariance, PTL

\* Which steps change which file.
LEMMA IpaChanges ==
  ASSUME [IpaNext]_ipaVars
  PROVE  /\ ipa' # ipa \/ tmp' # tmp => step \in Patching \ {"cleanup"}
         /\ downloading' # downloading => step \in {"create", "fetch", "cleanup"}
<1> USE DEF Patching, Replicating
<1>1. CASE \E a \in Apps : BeginFails(a) \/ \E over \in BOOLEAN : DownloadApp(a, over)
  BY <1>1 DEF BeginFails, DownloadApp
<1>2. CASE CreateFile \/ FetchFails
  BY <1>2 DEF CreateFile, FetchFails, Fails
<1>3. CASE Fetch
  BY <1>3 DEF Fetch
<1>4. CASE \/ OpenRaw \/ CreateIpa \/ CopyRaw \/ WriteMetadata
           \/ PatchFails("copyRaw", {}) \/ PatchFails("metadata", downloading.parts)
  BY <1>4 DEF OpenRaw, CreateIpa, CopyRaw, WriteMetadata, PatchFails, Fails
<1>5. CASE \/ OpenIpa \/ CreateTmp \/ CopyIpa \/ CopyIpaFails
           \/ ReadNames \/ ReadNamesFails \/ WriteSinf \/ WriteSinfFails \/ WriteSinfPanics
  BY <1>5 DEF OpenIpa, CreateTmp, CopyIpa, CopyIpaFails, ReadNames, ReadNamesFails, WriteSinf,
              WriteSinfFails, WriteSinfPanics, SinfFails
<1>6. CASE CloseFiles \/ RemoveIpa \/ RemoveFails \/ RenameTmp \/ RenameFails \/ Cleanup
  BY <1>6 DEF CloseFiles, RemoveIpa, RemoveFails, RenameTmp, RenameFails, Cleanup
<1>7. CASE \/ PlainFailure \/ (\E file \in {"ipa", "tmp"} : Collect(file))
           \/ Crash \/ Finished \/ UNCHANGED ipaVars
  BY <1>7 DEF PlainFailure, Collect, Crash, Finished, ipaVars
<1> QED
  BY <1>1, <1>2, <1>3, <1>4, <1>5, <1>6, <1>7 DEF IpaNext

\* The ipa is touched only when the raw package of its successor has been
\* downloaded.
THEOREM DownloadBeforeReplace == IpaSpec => ReplacedOnlyByDownload
<1>1. IpaInv /\ [IpaNext]_ipaVars => [ipa' # ipa => downloading = Raw(app)]_ipaVars
  BY IpaChanges DEF IpaInv, Progress, Downloaded
<1> QED
  BY <1>1, IpaInvariance, PTL DEF IpaSpec, ReplacedOnlyByDownload

\* An app leaves the disk only for another one that is down, when a download
\* begins anew, or with an ipa whose Close failed unnoticed.
THEOREM PackageKept == IpaSpec => PackageSurvives
<1>1. ASSUME IpaInv, [IpaNext]_ipaVars, NEW a \in Apps, Has(a), ~Has(a)'
      PROVE  \/ app # a /\ downloading = Raw(app)
             \/ step = "create"
             \/ step = "cleanup" /\ ipa = Unflushed
  <2> SUFFICES ASSUME ~(app # a /\ downloading = Raw(app)), step # "create",
                      ~(step = "cleanup" /\ ipa = Unflushed)
               PROVE  FALSE
    OBVIOUS
  <2>1. /\ ipa' # ipa \/ tmp' # tmp => step \in Patching \ {"cleanup"}
        /\ downloading' # downloading => step \in {"create", "fetch", "cleanup"}
    BY <1>1, IpaChanges
  <2>2. CASE step \in Patching \ {"cleanup"}
    <3>1. downloading = Raw(a) /\ downloading' = downloading
      BY <1>1, <2>1, <2>2 DEF IpaInv, Progress, Downloaded, Patching, Replicating
    <3>2. Raw(a).kind = "zip" /\ Raw(a).app = a /\ "payload" \in Raw(a).parts
      BY PackageFacts DEF Raw
    <3> QED
      BY <1>1, <3>1, <3>2 DEF Has
  <2>3. CASE step = "cleanup"
    <3>1. ipa' = ipa /\ Good(ipa, app) /\ ipa # Unflushed /\ app = a
      BY <1>1, <2>1, <2>3 DEF IpaInv, Progress, HasSinfs, Downloaded, Patching
    <3>2. Patched(ipa, a)
      BY <3>1 DEF Good, Complete
    <3>3. ipa.kind = "zip" /\ ipa.app = a /\ "payload" \in ipa.parts
      BY <3>2 DEF Patched
    <3> QED
      BY <1>1, <3>1, <3>3 DEF Has
  <2>4. CASE step \notin Patching
    <3>1. ipa' = ipa /\ tmp' = tmp
      BY <2>1, <2>4
    <3>2. step = "fetch" => downloading.kind # "zip"
      BY <1>1, ContentFacts DEF IpaInv, Progress, Downloaded
    <3>3. downloading' = downloading \/ downloading.kind # "zip"
      BY <2>1, <2>4, <3>2 DEF Patching
    <3> QED
      BY <1>1, <3>1, <3>3 DEF Has
  <2> QED
    BY <2>2, <2>3, <2>4
<1>2. IpaInv /\ [IpaNext]_ipaVars
        => [\A a \in Apps : Has(a) /\ ~Has(a)' =>
              \/ app # a /\ downloading = Raw(app)
              \/ step = "create"
              \/ step = "cleanup" /\ ipa = Unflushed]_ipaVars
  BY <1>1
<1> QED
  BY <1>2, IpaInvariance, PTL DEF IpaSpec, PackageSurvives
=============================================================================
