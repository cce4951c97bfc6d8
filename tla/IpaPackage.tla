----------------------------- MODULE IpaPackage -----------------------------
(***************************************************************************)
(* How an ipa file comes into being: DownloadApp (app.go), DownloadFile    *)
(* (util.go), ApplyPatches and ReplicateSinf (appstore_replicate_sinf.go), *)
(* called from the prompt of a session (overwrite) or from -i (skip an     *)
(* existing file).                                                         *)
(*                                                                         *)
(* Three files share a name: the ipa, "<ipa>.downloading" for the raw      *)
(* package and "<ipa>.tmp" for the package with sinfs.  Apps are those     *)
(* whose display name and short version give that file name; several       *)
(* identifiers may, and other names do not interact.  The process may be   *)
(* killed between any two steps, and every system call in Faults may fail. *)
(*                                                                         *)
(* A zip file is what its central directory lists, which is written last,  *)
(* when the writer is closed: until then the file is not readable.  The    *)
(* deferred Close runs on the error paths too and makes a readable, but    *)
(* incomplete, package of what was written.                                *)
(***************************************************************************)
EXTENDS Integers, FiniteSets

CONSTANTS
    Apps,       \* [id, sinfs, paths, plist], see App
    NoApp,      \* no app: a file that is not a package
    Faults,     \* the steps at which the environment may fail
    Platforms,  \* the operating systems considered
    MaxCalls    \* bound: how often DownloadApp is called

Steps == {"create", "fetch", "openRaw", "createIpa", "copyRaw", "metadata",
          "openIpa", "createTmp", "copyIpa", "names", "sinf", "close",
          "remove", "rename", "cleanup"}

\* sinfs: how many the store sent; paths: how many SinfPaths the manifest of
\* the package has, -1 without a manifest; plist: which Info.plist come first.
ASSUME IpaAssumption ==
    /\ \A a \in Apps : /\ a.sinfs \in Nat
                       /\ a.paths \in Nat \cup {-1}
                       /\ a.plist \in {"none", "main", "watchFirst", "watchOnly"}
    /\ NoApp \notin Apps
    /\ Faults \subseteq Steps \cup {"response", "stat", "flush", "content"}
    /\ Platforms \subseteq {"unix", "windows"}
    /\ MaxCalls \in Nat

VARIABLES
    platform,
    ipa, downloading, tmp,  \* the contents of the three files
    open,       \* the files this process holds open and will not close itself
    step,       \* the system call DownloadApp makes next; "idle" outside of it
    app,        \* the app being downloaded
    overwrite,
    result,     \* how the last call of DownloadApp ended
    calls

ipaVars == <<platform, ipa, downloading, tmp, open, step, app, overwrite, result, calls>>

\* "sinf": every sinf under the name of the app's executable; "firstSinf": the
\* first of several; "watchSinf": under the name of the watch app's executable.
Parts == {"payload", "metadata", "sinf", "firstSinf", "watchSinf"}

Content == [kind : {"absent", "empty", "broken", "unflushed", "zip"}, app : Apps \cup {NoApp},
            parts : SUBSET Parts]

Absent == [kind |-> "absent", app |-> NoApp, parts |-> {}]
Empty  == [kind |-> "empty",  app |-> NoApp, parts |-> {}]
Broken == [kind |-> "broken", app |-> NoApp, parts |-> {}]
Unflushed == [kind |-> "unflushed", app |-> NoApp, parts |-> {}]
Package(a, parts) == [kind |-> "zip", app |-> a, parts |-> parts]

Raw(a) == Package(a, {"payload"})

\* The app with its metadata; and with all its sinfs where they belong.
Patched(c, a) == c.kind = "zip" /\ c.app = a /\ {"payload", "metadata"} \subseteq c.parts

Complete(c, a) == Patched(c, a) /\ (a.sinfs > 0 => "sinf" \in c.parts)

IpaTypeOK ==
    /\ platform \in Platforms
    /\ ipa \in Content /\ downloading \in Content /\ tmp \in Content
    /\ open \subseteq {"ipa", "tmp"}
    /\ step \in Steps \cup {"idle"}
    /\ app \in Apps \cup {NoApp}
    /\ overwrite \in BOOLEAN
    /\ result \in {"none", "saved", "skipped", "error", "panic"}
    /\ calls \in 0..MaxCalls

IpaInit ==
    /\ platform \in Platforms
    /\ ipa = Absent /\ downloading = Absent /\ tmp = Absent
    /\ open = {} /\ step = "idle" /\ app = NoApp /\ overwrite = FALSE
    /\ result = "none" /\ calls = 0

-----------------------------------------------------------------------------
(* Files.                                                                   *)

\* os.Create truncates.
Create(c) == Empty

\* zip.Writer.Close, or the end of a download, on a file opened for writing: a
\* file that was not empty is garbled.
Written(c, package) == IF c = Empty THEN package ELSE Broken

\* What Close may leave: its error is never looked at, and without the central
\* directory that Close writes the file cannot be read.
Closed(c, package) == {Written(c, package)} \cup (IF "flush" \in Faults THEN {Unflushed} ELSE {})

-----------------------------------------------------------------------------
(* Ends of a call.                                                          *)

Return(how) == step' = "idle" /\ result' = how /\ UNCHANGED <<platform, app, overwrite, calls>>

GoTo(next) == step' = next /\ UNCHANGED <<platform, app, overwrite, result, calls>>

Fails(at) ==
    /\ step = at /\ at \in Faults
    /\ Return("error")

-----------------------------------------------------------------------------
(* DownloadApp: the beginning, and DownloadFile.                            *)

\* After an error the prompt comes again; every other call is in a process of
\* its own.
SameSession(over) == over /\ overwrite /\ result = "error"

\* From the prompt (over), or from -i, which stops at an existing file.
DownloadApp(a, over) ==
    /\ step = "idle" /\ calls < MaxCalls
    /\ calls' = calls + 1 /\ app' = a /\ overwrite' = over
    /\ open' = IF SameSession(over) THEN open ELSE {}
    /\ IF ~over /\ ipa # Absent
       THEN step' = "idle" /\ result' = "skipped"
       ELSE step' = "create" /\ result' = "none"
    /\ UNCHANGED <<platform, ipa, downloading, tmp>>

\* -i: the response file cannot be read or parsed, or stat fails.
BeginFails(a) ==
    /\ step = "idle" /\ calls < MaxCalls
    /\ {"response", "stat"} \cap Faults # {}
    /\ calls' = calls + 1 /\ app' = a /\ overwrite' = FALSE /\ result' = "error"
    /\ open' = {}
    /\ UNCHANGED <<platform, ipa, downloading, tmp, step>>

CreateFile ==
    /\ step = "create"
    /\ downloading' = Create(downloading)
    /\ GoTo("fetch") /\ UNCHANGED <<ipa, tmp, open>>

\* The request, the status or the length is bad, or the copy breaks off.
FetchFails ==
    /\ Fails("fetch")
    /\ downloading' \in {downloading, Broken}
    /\ UNCHANGED <<ipa, tmp, open>>

\* All bytes arrive: the raw package, or something that is no package.
Fetch ==
    /\ step = "fetch"
    /\ downloading' \in {Written(downloading, Raw(app))}
                          \cup (IF "content" \in Faults THEN {Broken} ELSE {})
    /\ GoTo("openRaw") /\ UNCHANGED <<ipa, tmp, open>>

-----------------------------------------------------------------------------
(* ApplyPatches(src = downloading, dst = ipa).                              *)

\* Faulty variants: the source is never closed; the destination is created
\* before the source is opened.
OpenRawLeaks ==
    /\ step = "openRaw" /\ open' = open \cup {"downloading"}
    /\ IF downloading.kind = "zip" THEN GoTo("createIpa") ELSE Return("error")
    /\ UNCHANGED <<ipa, downloading, tmp>>

CreateBeforeOpen ==
    /\ step = "openRaw" /\ ipa' = Create(ipa)
    /\ IF downloading.kind = "zip" THEN GoTo("createIpa") ELSE Return("error")
    /\ UNCHANGED <<downloading, tmp, open>>

OpenRaw ==
    /\ step = "openRaw"
    /\ IF downloading.kind = "zip" THEN GoTo("createIpa") ELSE Return("error")
    /\ UNCHANGED <<ipa, downloading, tmp, open>>

\* dstFile is never closed explicitly.
CreateIpa ==
    /\ step = "createIpa"
    /\ ipa' = Create(ipa) /\ open' = open \cup {"ipa"}
    /\ GoTo("copyRaw") /\ UNCHANGED <<downloading, tmp>>

\* replicateZip or writeMetadata fails; the deferred Close makes a package of
\* what is there.
PatchFails(at, parts) ==
    /\ Fails(at)
    /\ ipa' \in Closed(ipa, Package(app, parts))
    /\ UNCHANGED <<downloading, tmp, open>>

CopyRaw == step = "copyRaw" /\ GoTo("metadata") /\ UNCHANGED <<ipa, downloading, tmp, open>>

\* writeMetadata, and the deferred Close of ApplyPatches.
WriteMetadata ==
    /\ step = "metadata"
    /\ ipa' \in Closed(ipa, Package(app, downloading.parts \cup {"metadata"}))
    /\ GoTo("openIpa") /\ UNCHANGED <<downloading, tmp, open>>

-----------------------------------------------------------------------------
(* ReplicateSinf(packagePath = ipa).                                        *)

OpenIpa ==
    /\ step = "openIpa"
    /\ IF ipa.kind = "zip" THEN GoTo("createTmp") ELSE Return("error")
    /\ UNCHANGED <<ipa, downloading, tmp, open>>

\* Faulty variant: O_CREATE|O_WRONLY, the line commented out in ReplicateSinf,
\* which keeps what an earlier call left in the file.
OpenTmpForWriting ==
    /\ step = "createTmp"
    /\ tmp' = IF tmp = Absent THEN Empty ELSE tmp
    /\ GoTo("copyIpa") /\ UNCHANGED <<ipa, downloading, open>>

CreateTmp ==
    /\ step = "createTmp"
    /\ tmp' = Create(tmp)
    /\ GoTo("copyIpa") /\ UNCHANGED <<ipa, downloading, open>>

CopyIpa == step = "copyIpa" /\ GoTo("names") /\ UNCHANGED <<ipa, downloading, tmp, open>>

\* Faulty variant: a missing bundle name is not an error.
AnyBundleName(a) == TRUE

\* There is an Info.plist that is not the watch app's.
readBundleName(a) == a.plist \in {"main", "watchFirst"}

\* The first Info.plist of the archive, the watch app's included.
readInfoPlist(a) ==
    IF a.plist = "none" THEN "nil" ELSE IF a.plist = "main" THEN "sinf" ELSE "watchSinf"

\* readBundleName, readManifestPlist and readInfoPlist find what they need.
ReadNames ==
    /\ step = "names" /\ readBundleName(app)
    /\ GoTo("sinf") /\ UNCHANGED <<ipa, downloading, tmp, open>>

\* An error before the explicit closes: zipWriter is closed by its defer,
\* tmpFile is not.
SinfFails(parts) ==
    /\ tmp' \in Closed(tmp, Package(app, parts))
    /\ open' = open \cup {"tmp"}
    /\ Return("error") /\ UNCHANGED <<ipa, downloading>>

CopyIpaFails == step = "copyIpa" /\ "copyIpa" \in Faults /\ SinfFails({})

ReadNamesFails ==
    /\ step = "names"
    /\ "names" \in Faults \/ ~readBundleName(app)
    /\ SinfFails(ipa.parts)

\* The manifest lists another number of paths than there are sinfs, or a write
\* fails.
WriteSinfFails ==
    /\ step = "sinf"
    /\ "sinf" \in Faults \/ app.paths \notin {-1, app.sinfs}
    /\ SinfFails(ipa.parts)

\* Without a manifest: info is nil, or there is no sinfs[0].  The defers run and
\* the process ends.
WriteSinfPanics ==
    /\ step = "sinf" /\ app.paths = -1
    /\ readInfoPlist(app) = "nil" \/ app.sinfs = 0
    /\ tmp' \in Closed(tmp, Package(app, ipa.parts))
    /\ open' = {}
    /\ Return("panic") /\ UNCHANGED <<ipa, downloading>>

\* The sinfs are written where the manifest says, or to the file named after
\* the executable of the Info.plist found.
WriteSinf ==
    /\ step = "sinf"
    /\ \/ app.paths = app.sinfs
       \/ app.paths = -1 /\ app.sinfs > 0 /\ readInfoPlist(app) # "nil"
    /\ GoTo("close") /\ UNCHANGED <<ipa, downloading, tmp, open>>

\* From the manifest all sinfs, from the Info.plist the first one only.
SinfParts(a) ==
    IF a.paths # -1 THEN IF a.sinfs = 0 THEN {} ELSE {"sinf"}
    ELSE IF readInfoPlist(a) = "sinf" /\ a.sinfs > 1 THEN {"firstSinf"} ELSE {readInfoPlist(a)}

\* The three explicit closes, their errors ignored.
CloseFiles ==
    /\ step = "close"
    /\ tmp' \in Closed(tmp, Package(app, ipa.parts \cup SinfParts(app)))
    /\ GoTo("remove") /\ UNCHANGED <<ipa, downloading, open>>

\* Windows refuses to remove or rename a file somebody holds open.
Busy(file) == platform = "windows" /\ file \in open

RemoveIpa ==
    /\ step = "remove" /\ ~Busy("ipa")
    /\ ipa' = Absent
    /\ GoTo("rename") /\ UNCHANGED <<downloading, tmp, open>>

RenameTmp ==
    /\ step = "rename" /\ ~Busy("tmp")
    /\ ipa' = tmp /\ tmp' = Absent
    /\ GoTo("cleanup") /\ UNCHANGED <<downloading, open>>

\* Faulty variant: the temporary files are removed after an error.
RenameErrorTidies ==
    /\ step = "rename" /\ ("rename" \in Faults \/ Busy("tmp"))
    /\ downloading' = Absent /\ tmp' = Absent
    /\ Return("error") /\ UNCHANGED <<ipa, open>>

RenameFails ==
    /\ step = "rename" /\ ("rename" \in Faults \/ Busy("tmp"))
    /\ Return("error") /\ UNCHANGED <<ipa, downloading, tmp, open>>

RemoveFails ==
    /\ step = "remove" /\ ("remove" \in Faults \/ Busy("ipa"))
    /\ Return("error") /\ UNCHANGED <<ipa, downloading, tmp, open>>

\* The raw package goes; a failure is reported although the ipa is there.
Cleanup ==
    /\ step = "cleanup"
    /\ downloading' = Absent
    /\ Return("saved") /\ UNCHANGED <<ipa, tmp, open>>

-----------------------------------------------------------------------------
(* The environment.                                                         *)

\* Failures that change no file.
PlainFailure ==
    /\ \E at \in {"create", "openRaw", "createIpa", "openIpa", "createTmp", "cleanup"} : Fails(at)
    /\ UNCHANGED <<ipa, downloading, tmp, open>>

\* The collector finalizes an unreachable os.File and closes it; ApplyPatches
\* still uses its own.
Collect(file) ==
    /\ file \in open
    /\ file = "ipa" => step \notin {"copyRaw", "metadata"}
    /\ open' = open \ {file}
    /\ UNCHANGED <<platform, ipa, downloading, tmp, step, app, overwrite, result, calls>>

\* The process ends, between two calls or in the middle of one.
Crash ==
    /\ step # "idle" \/ open # {}
    /\ step' = "idle" /\ open' = {} /\ result' = "none"
    /\ UNCHANGED <<platform, ipa, downloading, tmp, app, overwrite, calls>>

Finished == step = "idle" /\ calls = MaxCalls /\ UNCHANGED ipaVars

IpaNext ==
    \/ \E a \in Apps : BeginFails(a) \/ \E over \in BOOLEAN : DownloadApp(a, over)
    \/ CreateFile \/ FetchFails \/ Fetch
    \/ OpenRaw \/ CreateIpa \/ CopyRaw \/ WriteMetadata
    \/ PatchFails("copyRaw", {}) \/ PatchFails("metadata", downloading.parts)
    \/ OpenIpa \/ CreateTmp \/ CopyIpa \/ CopyIpaFails
    \/ ReadNames \/ ReadNamesFails \/ WriteSinf \/ WriteSinfFails \/ WriteSinfPanics
    \/ CloseFiles \/ RemoveIpa \/ RemoveFails \/ RenameTmp \/ RenameFails
    \/ Cleanup \/ PlainFailure
    \/ \E file \in {"ipa", "tmp"} : Collect(file)
    \/ Crash \/ Finished

IpaSpec == IpaInit /\ [][IpaNext]_ipaVars

-----------------------------------------------------------------------------
(* Properties.                                                              *)

\* Without a manifest, a package whose first Info.plist is the watch app's, or
\* an app with several sinfs: what WriteSinf makes of it is not complete.
FirstOnly(a) == a.paths = -1 /\ (a.plist = "watchFirst" \/ a.sinfs > 1)

\* When DownloadApp reports success, the ipa is the complete package of the app
\* asked for, and no temporary file is left, whatever earlier calls that
\* failed or were killed have left behind.  The exceptions: an ipa whose last
\* Close failed unnoticed in this call (ReplicateSinf), and the sinfs of an app
\* that is FirstOnly, see SinfsReplicated.
SavedIsComplete ==
    result = "saved" =>
        /\ ipa # Unflushed => IF FirstOnly(app) THEN Patched(ipa, app) ELSE Complete(ipa, app)
        /\ downloading = Absent /\ tmp = Absent

\* What the comment on ReplicateSinf says: it writes sinfs to
\* Payload/{NAME}.app/SC_Info/{NAME}.sinf, all of them and by the app's name.
SinfsReplicated == result = "saved" /\ ipa # Unflushed => Complete(ipa, app)

\* What is in the ipa is given up, for good or for a moment, only when the raw
\* package of the app asked for has been downloaded: a failed download leaves
\* the ipa of an earlier call as it is.
ReplacedOnlyByDownload == [][ipa' # ipa => downloading = Raw(app)]_ipaVars

\* One of the three files has the app, patched or not.
Has(a) == \E c \in {ipa, downloading, tmp} :
              c.kind = "zip" /\ c.app = a /\ "payload" \in c.parts

\* An app that is on the disk stays there, in one of the three files, whatever
\* fails and wherever a call is killed, until another app of this name is down
\* that replaces it.  Two exceptions: what a call that failed left in
\* "<ipa>.downloading" is truncated when the next download begins, and the raw
\* package is removed although the last Close of the ipa failed unnoticed.
PackageSurvives ==
    [][\A a \in Apps : Has(a) /\ ~Has(a)' =>
          \/ app # a /\ downloading = Raw(app)
          \/ step = "create"
          \/ step = "cleanup" /\ ipa = Unflushed]_ipaVars

\* The only panic is the missing sinfs[0]: info is never nil when dereferenced.
PanicsOnlyWithoutSinfs == result = "panic" => app.paths = -1 /\ app.sinfs = 0
=============================================================================
