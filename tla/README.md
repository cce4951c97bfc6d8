# ipaversion: a TLA+ verification project

`ipaversion` is a command that puts itself between iTunes and the App Store:
it turns the system proxy on, waits for the request with which iTunes buys an
app, asks the store for the identifiers of all versions, replays the request
once per version and lets the user choose a version to download. This
directory models its behaviour in TLA+, checks it with TLC and proves with TLAPS
what it says about safety.

## 1. Inventory

| Component (source) | State it keeps | Operations | Talks to |
|---|---|---|---|
| addon (`ipaversionlib/ipaversion.go`) | `HistoryVersions`, `ClientUserAgent`, `counter`, the shared mutex, files in `savedResponse/` | `Request`, `handleBuyRequest`, `replayRequest` | the store over HTTP; main over `done` |
| command (`main.go`) | the system proxy of the machine, `systemProxy`, three goroutines, the prompt | flags, `turnOnProxy`, `turnOffProxy`, signal handling, `handleInput`, the deferred calls | sysproxy, the proxy, the addon, `DownloadApp` |
| download (`app.go`, `util.go`, `appstore_replicate_sinf.go`) | `<ipa>`, `<ipa>.downloading`, `<ipa>.tmp` on disk | `DownloadApp`, `DownloadFile`, `ApplyPatches`, `ReplicateSinf` | the file system, the store |
| proxy (`lib/go-mitmproxy/proxy/proxy.go`, `flow.go`, `helper.go`, `addon.go`) | one `Flow` per request, one `ConnContext` per client connection | `ServeHTTP`, `handleConnect`, the hooks of the addons, `Start`, `Close` | clients, servers, addons |
| connections and tunnels (`connection.go`, `interceptor.go`, `websocket.go`, `transfer` in `helper.go`) | `ServerConn`, pipe, `tlsHandshaked`, `closed` flags, `closeAfterResponse`, up to a dozen goroutines per client | dial (direct or through an upstream proxy), intercept, TLS handshake, `transfer`, ws, wss, `Close` on both sides | both ends of a tunnel, the http server and transport, the certificate authority |
| certificate authority (`cert/cert.go`) | three files in the store directory, LRU cache and singleflight group in memory | `NewCA` (load, create, save), `GetCert` | the file system, the interceptor |
| body decoding (`flowencoding.go`) | `decodedBody`, `decodedErr` in a `Response` | `DecodedBody`, `ReplaceToDecodedBody` | hooks |
| JSON views, logging, sample programs | none | conversions and printing | nobody in this program |

What is hard in it:

* *concurrency*: every request runs in a goroutine; main reads the addon's
  result without a lock; the signal handler and the `log.Fatal` around
  `p.Start` end the process while main is anywhere; a client connection has a
  goroutine per direction of each copy, one per server and two http servers,
  which close each other's connections without a lock; handshakes for one host
  share a cache;
* *failure*: a replay fails in many ways, all through panics and recovers that
  retry; `log.Fatal` skips deferred calls; every system call of a download may
  fail; the process may be killed and launched again on what it left behind,
  the files of the certificate authority included; either side of a tunnel may
  end or reset it at any moment, and a timer may race an upstream proxy;
* *ordering*: the mutex is released by `main`'s return, the proxy is closed
  before that, the system proxy is turned on before the signals are registered;
* *boundaries*: index ranges from the end of a list, bodies of exactly the
  streaming limit, packages without sinfs.

What makes each part correct: the addon queries once, shows each selected
version once under the right number, and always tells main; the command leaves
the machine's proxy off; a download that reports success made a complete ipa
of that app, and a failed one leaves an older ipa alone until the new package is
down; the proxy answers each request once and passes
bodies whole; an end on one side of a connection reaches the other, and nothing
stays open; there is one root certificate, and what is installed, stored and
handed out belongs to it. `PROJECT.json` lists the hazards line by line.

## 2. Modules

| Module | Models | Role |
|---|---|---|
| `QueryOnce` | what main relies on | abstract specification of the addon |
| `Addon` | the addon | implements `QueryOnce` |
| `AddonProofs`, `AddonTallyProofs` | | theorems about `Addon` |
| `Main` | the command on one machine, over several launches | |
| `MainProofs` | | theorems about `Main` |
| `System` | addon and command in one process | composes `Addon` and `Main` |
| `SystemProofs` | | theorems about `System`, from those about its parts |
| `IpaPackage` | the download of one file name, over several calls | |
| `IpaPackageProofs` | | theorems about `IpaPackage` |
| `Flow` | the requests of one client connection, and body decoding | |
| `FlowProofs` | | theorems about `Flow` |
| `Tunnel` | the connections and goroutines of one client connection | |
| `TunnelProofs` | | theorems about `Tunnel` |
| `CertStore` | the certificate authority: its files and its cache | |
| `CertStoreProofs` | | theorems about `CertStore` |
| `MC...` | small instances for TLC | |

Definitions named "faulty variant" in a comment are what plausible bugs would
make of the definition that follows them. No specification uses them; each is
substituted for its definition to see that a property notices.

### Addon

`pc[f]` is where request `f` is: in `Request` ("idle", "passed") or in
`handleBuyRequest` ("querying", "replaying", the two sends, "returned"), and
`frame[f]` holds the locals of the latter. `EnterBuyRequest` is the successful
`TryLock`; nothing in the addon unlocks. A request body and an `AppInfo` are
represented by the version identifier they carry: the body sent in a replay is
`ReplaceAll(body, latest, target)`, and the store, which is external, answers
with the version the body names (`Respond`). All the ways in which a replay can
fail (no response, no gzip, a plist that cannot be parsed, a failed type
assertion) end in one recover and have one effect, so there is one failing
outcome: `ReplayRetries` while the budget lasts, `ReplayGivesUp` after it.
`printed` and `abandoned` record the lines on the terminal, as the user sees
them. The send on the unbuffered `done` channel is a rendezvous with main's
single receive (`SendDone`).

`IndexRange` is the arithmetic of `-start` and `-end`; `Selected` is what the
README of the repository says about them.

### Main and System

`at` is where main's goroutine is, `handler` the signal goroutine, `server`
the goroutine around `p.Start`. `osProxy` is the setting of the machine and
survives `ProcessEnds`; `systemProxy` is the package variable and does not.
`OldSettings` are the settings a launch may find.
A signal without a registered handler ends the process; one that finds the
handler's channel without a receiver is dropped, because `Notify` does not
block. `Kill` may happen at any moment.

`System` identifies the addon's `SendDone` with main's `ReceiveDone`, lets
`EnterInput` copy the addon's `HistoryVersions`, and makes main's deferred
`mu.Unlock` release the addon's lock. A request is `Arrive`d once its body was
read; since `p.Close` does not wait for handlers, it may reach the hook at any
time until the process ends.

### IpaPackage

The three files are contents of kind absent, empty, broken or zip; a zip is the
app it belongs to and its parts: payload, metadata, and the sinfs, which are all in
their places, or only the first one is there, or it is named after the watch app's
executable. `Complete` asks for the first of these three. Each system call is
a step that may fail when it is in `Faults`. `open` holds the handles the code
does not close: `dstFile` of `ApplyPatches` always, `tmpFile` on the error
paths. The collector may close them at any time (`Collect`), and Windows
refuses to remove an open file (`Busy`). A crash may come between any two
steps. Apps in the model share a file name, because it is built from the
display name and the short version only.

### Flow

Bodies are lengths. `hook` is the addon whose hook runs next; hooks may answer,
switch streaming or the separate client on, panic, or do nothing (they leave
bodies alone). `serverConn` is what the `ConnContext` holds, and persists from
one request to the next. A CONNECT is one step with its four outcomes; what
happens inside the tunnel is the subject of `Tunnel`, except that requests from
a TLS tunnel go through the same `ServeHTTP`. A CONNECT inside a tunnel is not
considered. `FlowCount` is only displayed and is left out. A response body is as
it was sent ("coded") or plain; `DecodedBody` keeps its outcome in the response,
and Response hooks call it and `ReplaceToDecodedBody` in any order.

### Tunnel

The model knows *endpoints* (the client's TCP connection, those of the servers,
of ws or wss, and the two ends of the in-memory pipe) and *goroutines*, and
leaves out what is transferred. `peer[e]` is what the far end has done, `open[e]`
whether the proxy has closed its end; `ReadResult` and `WriteBroken` say what a
read or a write then returns, for TCP and for `net.Pipe`.

| Goroutine | Code |
|---|---|
| `pc["H"]` | the http server's goroutine of the client: plain requests, `handleConnect` with its deferred calls |
| `pc["U"]` | the goroutine of `getProxyConn` |
| `pc["I"]` | `intercept`, and `ws` |
| `pc["M"]` | the interceptor's http server on the pipe: handshake, requests, `wss` |
| `pc[s]` | the read loop of the transport for server `s` |
| `copy[t][d]` | the two goroutines of `transfer`: `outer` in `handleConnect`, `inner` in `ws` or `wss` |

`closing[g]` is where goroutine `g` is in `wrapClientConn.Close` (c1, c2) and
`wrapServerConn.Close` (s1 to s3). The test of `closed` and the assignment are
separate steps, so two goroutines may be past the test at once.
A plain request is several steps: the dial of the transport (`PlainDial`), the wait in
`client.Do` for an answer that may never come (`pc["H"] = "do"`), and the reply, which a
client need not read ("reply", "last"). Until the handler has returned the http
server does not close the client (`ServerCloses`); `ServerConn.Conn`,
`Tls` and `closeAfterResponse` are read where the code reads them. A write to the
pipe blocks until somebody reads (`CopyBlocks`). `NobodyAccepts` is the
interceptor closed by `Proxy.Close` or `Shutdown`.

### CertStore

A process is one life; a restart is another process on the same directory.
`caFile` is the pair of blocks in `mitmproxy-ca.pem`, `published` the two copies
of the certificate; every file operation is a step that may fail (`CallFails`) or
be the last (`Dies`). Keys and certificates are named by who made them, and a user
may have put a key and a certificate of two CAs into the store, the key in either of
the two formats `load` knows, of another type or in another format (`KeyFormat`,
`ParseKey`), or a certificate that cannot be parsed (`BadCerts`). Two processes that
write at once, or one after the other into a file both have created, write at the same
offsets, which leaves the blocks of one, of both or an unreadable file. `call[c]` is a call of `GetCert` in one process: cache lookup,
`group.Do`, `DummyCert`, and the removal of the flight are separate steps.

## 3. Runs

| Run | Checks | Shows |
|---|---|---|
| `addon_ranges` | `TypeOK`, `ReplayedInOrder`, `NothingLost`, `AlignedUnlessAbandoned`, `FourAttemptsEach`, `DumpsKept`, `DeliversOnce`, `QueryDelivers` | the versions shown or given up are exactly those of the documented range, in order; four attempts each; no retry or later version overwrites a dump; main is told once and always |
| `main_cleanup_flag` | `CleanupFlagTurnsOff` | *violated*: `-c` does nothing in a fresh process |
| `main_start_error` | `OffAfterStartError` | *violated*: `log.Fatal` skips the cleanup |
| `system_session` | `MainTypeOK`, `OffAfterCleanExit`, `OffAtPrompt`, `UnlockHeld`, `SnapshotFinal`, `ShownIndexSelects`, `InterruptEnds`, `QuitEnds`, `BuyTurnsOff` | orderly exits leave the proxy off in every interleaving of main, signal handler, server and requests; the unlocked read, the foreign unlock and the done channel are safe for a whole session |
| `system_once` | `OnlyOnce` | *violated*: a request in flight runs the query again while main unwinds |
| `ipa_files` | `IpaTypeOK`, `SavedIsComplete`, `PanicsOnlyWithoutSinfs`, `ReplacedOnlyByDownload`, `PackageSurvives` | success means the complete ipa of the app asked for, but for the packages of `ipa_sinf`; an old ipa is given up only once the new package is down; a package that is down stays on the disk, in one of the three files, until it is replaced or the next download begins |
| `ipa_sinf` | `SinfsReplicated` | *violated*: without a manifest the sinf may be named after the watch app, and of several sinfs only the first is written |
| `flow_requests` | `TypeOK`, `AnsweredOnce`, `BodiesWhole`, `StreamSkipsHooks`, `EncodingFitsBody` | one answer per request on each path, bodies whole and readable under their Content-Encoding |
| `flow_panic` | `OnlyAddonsPanic` | *violated*: a failed CONNECT makes the next plain request panic |
| `cert_store` | `CertTypeOK`, `OneRoot`, `PublishedIsStored`, `RefusedOnlyAfterFailure`, `HandedOutVerifies`, `EveryCallReturns` | whatever dies or fails, processes that do not overlap in `NewCA` have one root and publish only that one; a store is refused only after a failure or if a user's key or certificate is unusable; every handshake gets a certificate for its name that verifies, or an error |
| `tunnel_ends` | `TunnelTypeOK`, `NothingLeftOpen`, `ServerEndReachesClient`, `ClientEndReachesServer`, `DialReturns`, `TlsTunnelEnds`, `EverythingSettles` | an end on either side reaches the other, unless the handler of a plain request waits for ever; the timer of `getProxyConn` decides a dial; when the goroutines are gone nothing is open; once all far ends are gone every goroutine ends, but for the named cases |
| `tunnel_close` | `CloseAfterResponseCloses` | *violated*: after an announced close and a panic or a broken body nobody closes the tunnel |

The violated properties are sentences of the repository's README and comments;
`findings` in `PROJECT.json` quotes them.

The faults of `ipa_files` include the one the code does not see: `zip.Writer.Close`
fails (`flush`), and the file has no central directory. `SavedIsComplete` and
`PackageSurvives` except exactly the ipa whose last `Close` failed in this way.
`PackageSurvives` has one more exception: the next download truncates what a failed
or killed call left in `<ipa>.downloading` (`util.go:77`), and after an end between
`Remove` and `Rename` that and `<ipa>.tmp` are all there is; so a second failure may
cost the package that the first one spared.

Behaviour of the code that the models reach and no run singles out:

* After a version was given up, the loop counts `i` up all the same
  (`ipaversion.go:183`): every later row is printed with a number one too high,
  where the comment at line 40 says "The actual index in the filtered query
  result HistoryVersions". `AlignedUnlessAbandoned` holds up to that point.
* When closing the zip fails (`appstore_replicate_sinf.go:126`, and the defers at
  lines 32 and 93), an unreadable ipa is reported as saved.
* CTRL-C between `turnOnProxy` and `signal.Notify` (`main.go:103-114`) ends the
  process with the system proxy on; `OffAfterCleanExit` excludes that end.
* `-i` skips the download whenever a file of that name exists, also one left
  incomplete by a failed call, or another version with the same short version
  (`app.go:53`).
* `dstFile` of `ApplyPatches` is open when the ipa is removed
  (`appstore_replicate_sinf.go:26`), which Windows refuses until a collection
  has closed it: the call fails, and a later one may succeed.
* A body of exactly `StreamLargeBodies` bytes is streamed (`helper.go:100`),
  where the comment on the option says "larger".
* A second hook that calls `ReplaceToDecodedBody` gets the cached decoded body
  (`flowencoding.go:38`), also when an earlier one has edited `Body` since; hooks in
  the model do not edit bodies.
* A store that a failed or killed process left without its two blocks is refused
  on every later start (`cert.go:115`), and main ends in `log.Fatal`; the
  repository's README says of the certificate that starting the program generates
  a new one. A process that died between `save` and `saveCert` leaves a CA whose
  certificate is never published, because `load` does not look.
* Two processes that start at once may leave a mixed or unreadable `ca.pem`, or
  publish a certificate that is not the stored one: nothing locks the store.
* Between a cache miss and `group.Do` another flight may end: a second certificate
  for the same name is made and replaces the first in the cache.
* A client that leaves before it has sent three bytes after CONNECT, or in the
  middle of its ClientHello before `Tls` is set: `wrapServerConn.Close` calls
  `CloseRead` instead of closing the pipe, and `Peek` (or the handshake), the copy
  towards the client and `handleConnect` wait for ever (`PipeDeadlock`).
* ws passes its two connections to `transfer` in the opposite order to wss
  (`websocket.go:29`): a clean end of either side of a ws tunnel never reaches the
  pipe (`PipeDeadlock`), and the end of a wss server is noticed by the client only
  when it sends something.
* While `ServeHTTP` waits in `client.Do` (`proxy.go:247`, no time limit), or writes to
  a client that does not read, the http server closes nothing: another server's end,
  or the client's, is passed on only when the handler returns, which may be never
  (`HandlerWaits`).
* On a plain connection with several servers only the last one dialled is closed
  with the client (`connection.go:129`); the others wait for their servers.
* Two goroutines may both pass the test of `closed` (`connection.go:246`): the
  disconnect hooks are then called twice. Both connections are closed all the same.
* `intercept` waits for ever on `connChan` once the interceptor is closed.
* A tunnel that is not intercepted keeps its server connection after the client has
  left until the server sends something or ends it. main intercepts everything.

### Bounds

* Addon: two requests are enough for a race on the lock, since a third would
  do what the second does. Lists of 0, 1 and 2 versions with six values of
  each flag cover inside, outside, both signs, equal and crossing bounds (longer
  lists are what `IndexRangeSelected` proves); each version can use its whole
  retry budget. 99 stands for the default MaxInt. The directory of dumps is empty
  or holds a truncated file of an earlier session.
* Main and System: one launch, on a machine whose proxy is on or off: of an earlier
  launch nothing else is left that a later one reads (`OldSettings`). Several launches
  are what `MainProofs` and `SystemProofs` are about, and the two violations of `Main`
  have two. Two requests, two versions: one request is the query, the other one races
  it or stays in flight until main unwinds.
* IpaPackage: three calls (`MaxCalls`): one leaves debris, one meets it, one
  more meets what both left; seven kinds of package. `ipa_sinf` needs one call and no
  failure.
* Flow: three requests on a connection (`MaxRequests`), two addons, bodies of
  0, limit - 1, limit and limit + 1 bytes, with no, a readable or an unreadable
  encoding.
* Tunnel: one client connection, since connections share nothing but the
  interceptor. It makes any number of plain requests to two hosts, each dialled once,
  or one CONNECT; a second CONNECT after a failed one would start from the same state.
  `LateUpgrades` is FALSE: a websocket is asked for before other requests were
  sent in the tunnel, which only leaves out that the transport's read loop runs
  beside it. With TRUE, and without plain hosts, which a tunnel does not meet, the same
  properties hold on 564,329 states, close to the time a run may take. `tunnel_close`
  leaves out plain requests, which have no pipe.
* CertStore: two processes, which overlap or follow one another; a store that is
  empty, or holds any key and any certificate of four users, whose keys are in each
  of the formats. Three calls of `GetCert` for two names and a cache of one entry: a
  leader, one that waits, and one for a name that evicts theirs.

No symmetry is used: the versions of a list are distinguished by their place,
and liveness is checked.

### Fairness

* `Addon!Fairness`: the goroutine of the query runs on, and each call to the
  store returns, with an answer or an error. The Go scheduler gives the first;
  the second is an assumption about the network, since the client has no
  timeout (`ipaversion.go:118`). No request has to arrive.
* `SysFairness`: the same of the query, and the goroutines of the command that can go
  on do. Nothing is assumed of the user or of whoever sends signals, so a session may
  wait for ever for a buy request or at the prompt.
* `CertFairness`: a call of `GetCert` goes on, which the scheduler gives. Starting
  a process, failures and deaths are not fair.
* `TunnelFairness`: goroutines that can go on do, a dial returns (the operating
  system ends it), and the timer of `getProxyConn` runs out. The http server closes a
  client it finds gone, but only between requests (`ServerCloses`): while a handler
  waits for the answer to a plain request, or for the client to read its reply, it
  does nothing. That clients, servers and the upstream proxy send, answer, read or
  leave is not assumed. So `EverythingSettles` has `<>[]Gone` as its premise, and the
  two properties about an end that is passed on have `[]HandlerWaits` among their
  outcomes.

Deadlock is checked in every run; the states in which a model is at its bound,
or in which nothing is left to do, stutter by an action of their own (`Idle`,
`AllLaunchesDone`, `Finished`, `AllEnded`). In `Tunnel` these are the states of
`AtRest`: all goroutines have ended, or those left wait for ever in one of the two
ways named there. Any other state without a step would be reported.

## 4. Proofs

Every invariant and every action property that a passing run checks is also
proved, for all values of the constants that satisfy the assumptions named in the
modules, so without the bounds of section 3: any number of requests, launches,
calls, addons, hosts and processes, all lists, limits and sizes. Each argument has
the same shape: an inductive invariant, which TLC has checked on the instance of
the component's run or on a larger one (two launches for `SysInv`, `LateUpgrades`
for `TunnelInv`), one lemma per group of actions, and the theorems as
its consequences. What the inductive invariants add to the properties is what
keeps them true, and is described here.

| Module | Theorems (property) | Inductive invariant |
|---|---|---|
| `AddonProofs` | `TypeCorrect` (`TypeOK`), `InOrder` (`ReplayedInOrder`), `Alignment` (`AlignedUnlessAbandoned`), `Implements` (`DeliversOnce`), `IndexRangeSelected` | `Inv` |
| `AddonTallyProofs` | `NoVersionLost` (`NothingLost`), `FourAttempts` (`FourAttemptsEach`), `DumpsAreKept` (`DumpsKept`) | `Inv /\ Tally` |
| `MainProofs` | `MainTypeCorrect` (`MainTypeOK`), `CleanExitTurnsOff` (`OffAfterCleanExit`), `PromptIsOff` (`OffAtPrompt`) | `MainInv` |
| `SystemProofs` | `UnlockIsHeld` (`UnlockHeld`), `SnapshotIsFinal` (`SnapshotFinal`), `IndexSelects` (`ShownIndexSelects`), `SessionTurnsOff`, `SessionImplementsMain` | `SysInv` |
| `IpaPackageProofs` | `IpaTypeCorrect` (`IpaTypeOK`), `SavedComplete` (`SavedIsComplete`), `OnlyPanic` (`PanicsOnlyWithoutSinfs`), `DownloadBeforeReplace` (`ReplacedOnlyByDownload`), `PackageKept` (`PackageSurvives`) | `IpaInv` |
| `FlowProofs` | `FlowTypeCorrect` (`TypeOK`), `EachAnsweredOnce` (`AnsweredOnce`), `BodiesPassWhole` (`BodiesWhole`), `StreamsSkipHooks` (`StreamSkipsHooks`), `EncodingFits` (`EncodingFitsBody`) | `FlowInv` |
| `CertStoreProofs` | `RootIsOne` (`OneRoot`), `PublishedBelongs` (`PublishedIsStored`), `IntactNotRefused` (`RefusedOnlyAfterFailure`), `CertTypeCorrect` (`CertTypeOK`), `HandedOutIsGood` (`HandedOutVerifies`) | `StoreInv`, `StoreInv /\ GetInv` |
| `TunnelProofs` | `TunnelTypeCorrect` (`TunnelTypeOK`), `NothingLeaks` (`NothingLeftOpen`) | `TunnelInv` |

### Addon

From `ConstantsAssumption`. `IndexRangeSelected` (the index arithmetic of
`handleBuyRequest`, with its clamping and its repair of an invalid range, selects
the range the README documents) is arithmetic, by cases on the signs of the flags.
`Implements` is the refinement of `QueryOnce`: each step of the addon maps to
`Begin`, `Find`, `Deliver` or a stutter. The invariants speak of the rows already
shown, and what keeps them true is where the next row comes from. `Inv` adds

* `Ownership`: only one request is in `handleBuyRequest`, and while nobody
  holds the lock nothing has been shown. This is what excludes that two
  requests interleave their rows, and what makes a write after the hand-over
  impossible;
* `InRange`: while replaying, the body names the latest version (so the replaced
  body names the target) and the next index lies inside the list;
* `RowsAreResult`: rows and `HistoryVersions` correspond one to one;
* `RowsInOrder`: every row's index is below the next index, and rows increase;
* `Aligned`: while nothing was given up, `i` is the number of rows.

`Tally` is about numbers:

* `Untouched`: before the loop begins the retry budget is whole and nothing was
  counted;
* `Covered`: the indexes from the start of the range up to the current one are
  those shown and those given up, and no index is both. At the end of the loop this
  is `IndexRange`, and `IndexRangeSelected` makes it the documented range;
* `abandoned` is finite, which its cardinality in `FourAttemptsEach` needs;
* `Kept`: the file of a row carries a number that is not above the counter, so the
  next attempt, which counts first, cannot overwrite it. `DumpsKept` alone is not
  inductive.

### Main and System

`MainInv` needs, for the proxy to be off at the end, what happened at the
beginning: `TurnedOn` (in a normal session `systemProxy` is set from `turnOnProxy`
on; without it `turnOffProxy` would do nothing), `Placed` (only a normal session has
a signal handler, and a closed server means that main unwinds), and `TurnedOff`
(after `turnOffProxy`, by main or the handler, the setting is off, and nobody turns
it on again). `Control`, all of `MainInv` but its types, does not mention the history
that main copies.

`SysInv` therefore takes `Control` over as it is. The addon's `Inv` does not hold in
`System` throughout: once main has released the mutex (`at = "recover"`), a request
in flight may enter a second time, which is the violation of `system_once`. `SysInv`
has `Inv` up to that point and `Sound`, the part that every flow keeps by itself,
always; `Awaited` says that from the receive on the lock is held and the query over.
A step of the addon cannot then change the result (`ResultFinal`), which is
`SnapshotFinal`; with `Alignment` it gives `ShownIndexSelects`. The next launch begins
with a fresh addon. `SessionImplementsMain`: if `Histories` contains all lists of
versions, `SysSpec => MainSpec`, so that `Main` alone leaves out no session.

### IpaPackage

From `IpaAssumption`. A file is read back several steps after it was written, over
what an earlier call may have left. `Progress` says for each step what the current
call has made of the three files: `Downloaded` (from `openRaw` on the raw package is
that of the app asked for, or broken), `HasMetadata` (the ipa is empty until the
metadata is written, and patched while sinfs are replicated) and `HasSinfs` (the
temporary file is the app's with its sinfs, or its `Close` failed unseen, when it is
renamed). For `PackageSurvives` it says where the app of the current call is at each
step: in the raw package from `openRaw` to `cleanup`. The two
action properties follow from the same invariant and `IpaChanges`, which lists the
steps that change a file.

### Flow

From `FlowAssumption`, so for every streaming limit above zero. `ReaderToBufferWhole`
proves of the helper that buffer and remaining reader together are the whole body,
also at exactly the limit. What a client gets was decided in reads and hooks long before:
`Whole` carries the lengths, and `Fits` says that a body is coded exactly when there is
one and the header says so, and that what hooks got decoded is never the coded body.
`EncodingFitsBody` alone speaks only of the answer and is not inductive.

### CertStore

From `CertAssumption`. The three properties of the store speak of processes that ran,
of copies and of refusals, and what keeps them true is what the file holds while
somebody writes it. Up to the first overlap of two `NewCA`, `StoreInv` says

* `Alone`: one process at a time is in `NewCA`, so a block is written where nobody
  else writes;
* `Found`: without the file no process has run and nothing is published, and only
  then a CA is created: this excludes a second root;
* `Writing`: which blocks the file holds at each place of `save` and `saveCert`,
  and that nothing ran and nothing is published before it is complete;
* `RunStored` and `PublishedStored`: what ran and what is published is what the
  file holds;
* `Unfinished`: an incomplete file is being written, or its writer has failed or
  died and never ran; and a process refused only such a file, or one of a user.

For `GetCert`, `GetInv` follows a certificate from the call that made it to the
cache, to the calls that waited, and to later ones:

* `OwnCA` and `NeedsCA`: a process that runs has a key and a certificate, and nothing
  is cached or under way otherwise;
* `Leads`: the flight of a name is led by a call that makes a certificate for that
  name, or has just done so;
* `Follows`: a call that waits has such a leader, for the same name, which has not
  delivered yet. Without it a waiting call could get another name's certificate;
* `Good`: what is cached, delivered or returned verifies under the root, and a
  delivered one is for its name.

`WithoutFacts` and `AddFacts` are the lemmas about the LRU cache (the entries after an
addition are old ones or the new one, within the limit).

### Tunnel

From `TunnelAssumption`. `NothingLeftOpen` is about states in which all goroutines have
ended. `TunnelInv` says of every state who is going to close what is open:

* `ClientOwned`, `HostsOwned`, `ServerOwned`, `RemoteOwned`, `PipeOwned`: one clause for
  each connection. The client's belongs to the http server's goroutine; a plain host's to
  its read loop; the server of a tunnel to a dial that is not over, to the client whose
  close passes it on, or to a goroutine that is in `wrapServerConn.Close`; `remote` to
  `handleConnect`, ws or wss; each end of the pipe to `handleConnect`, `intercept` or the
  interceptor's http server;
* `Calls`: which goroutine may be in a Close method, and for which connection: since two
  goroutines may be past the test of `closed` at once, the one that will close the
  connection has to be known;
* `Flags`: a connection whose `closed` is set is closed, so who finds it set may leave;
  a host that was not dialled is referred to by nothing;
* `Before`: nothing of the tunnel is there before the dial is over;
* `OneAsked`: a plain host is dialled or asked only while the handler waits for it, and
  one at a time, so that a dial never replaces the server of a tunnel.

The first form of `PipeOwned` was true on all instances but not inductive: it did not
exclude that the pipe is handed to the interceptor's server while `intercept` still
runs. The clause added says that the pipe is handed over once, when `intercept` ends.
Most lemmas show that a step leaves all owners in place (`MovesKeep`, `HMove`,
`CopyStep`); those about `TestClosed`, `ShutServer` and `PassOn` show that an owner
gives up a connection only closed or to another one.

### Only model-checked

* The temporal properties, which are liveness under fairness and out of the prover's
  reach: `QueryDelivers`, `InterruptEnds`, `QuitEnds`, `BuyTurnsOff`,
  `EveryCallReturns`, `ServerEndReachesClient`, `ClientEndReachesServer`,
  `DialReturns`, `TlsTunnelEnds` and `EverythingSettles`.
* The six violations, which are counterexamples and nothing to prove.

## 5. Not modelled

* Conversions: plist, gzip, zip entries, JSON, the formats of `decode`. Their
  outcomes are nondeterministic choices where they matter.
* Cryptography: keys, certificates and the TLS protocol. A certificate is its
  name, its signer and the call that made it; a handshake succeeds or fails.
* Stream modifiers and header copies, logging, help and progress output,
  `SSLKEYLOGFILE`, the JSON views of flows and connections, and the sample
  programs under `test/`: none of them keeps state that another part reads.
* What is sent through a tunnel, and the text of the CONNECT to an upstream proxy
  (`connection.go:331` writes "Basic" and the credentials without a space).
* `NewCAMemory`, which nobody calls.
* `http.Server`, `http.Transport`, singleflight, the LRU cache, sysproxy and the
  operating system, which are modelled from how the code uses them.

## 6. Plan

Left to do:

1. An abstract specification of the certificate store (one CA, published after it
   is stored) and one of a tunnel (two ends, each of which ends the other), with
   the refinement proved from `StoreInv` and `TunnelInv`.
2. `Flow` and `Tunnel` composed, so that the requests inside a tunnel are those of
   `ServeHTTP` and their hooks; `Main` with `CertStore`, for the `log.Fatal` of a
   refused store.
