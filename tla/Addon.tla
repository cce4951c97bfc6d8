------------------------------- MODULE Addon -------------------------------
(***************************************************************************)
(* The ipaversion addon (ipaversionlib/ipaversion.go).                     *)
(*                                                                         *)
(* Every request the proxy serves runs in a goroutine of its own and       *)
(* passes through Addon.Request.  The first one whose URL is the buy URL   *)
(* takes c.Lock, which nobody releases before main returns, and runs       *)
(* handleBuyRequest: ask the store for all version identifiers, then       *)
(* replay the request once per version of the chosen index range, each     *)
(* replay with up to three retries.  The outcome goes to main through the  *)
(* unbuffered channel c.Done; main receives from it once.                  *)
(*                                                                         *)
(* A panic anywhere in a replay (nil response, gzip, plist or type         *)
(* assertion error) ends in the same deferred recover, so the model keeps  *)
(* one failure outcome per recover.  The store is external: it answers a   *)
(* request with the AppInfo of the version named in the request's body.    *)
(***************************************************************************)
EXTENDS Integers, Sequences, FiniteSets

CONSTANTS
    Flows,      \* the goroutines that run Addon.Request
    Versions,   \* version identifiers (uint64)
    NoVersion,  \* no identifier: a frame not filled in yet, a truncated file
    Listings,   \* the lists of identifiers the store may answer with
    Starts,     \* values of the flag -start
    Ends,       \* values of the flag -end
    Dumps,      \* values of the flag -dump
    OldDumps    \* what earlier sessions may have left in savedResponse/

ASSUME ConstantsAssumption ==
    /\ NoVersion \notin Versions
    /\ Listings \subseteq Seq(Versions)
    /\ Starts \subseteq Int
    /\ Ends \subseteq Int
    /\ Dumps \subseteq BOOLEAN
    /\ OldDumps \subseteq Nat \X (Versions \cup {NoVersion})

MaxRetry == 3

VARIABLES
    flags,            \* c.Start, c.End and c.DumpResponses, never assigned again
    lock,             \* c.Lock is locked
    pc,               \* where each flow is in Request and handleBuyRequest
    frame,            \* the locals of handleBuyRequest in each flow
    HistoryVersions,  \* c.HistoryVersions, an AppInfo by its identifier
    ClientUserAgent,  \* c.ClientUserAgent
    counter,          \* c.counter: replay attempts so far
    savedResponse,    \* the directory: pairs of file number and version saved
    done,             \* what main received from c.Done
    printed,          \* the rows shown to the user, one per replayed version
    abandoned         \* indexes given up after the last retry (a [WARN] line)

vars == <<flags, lock, pc, frame, HistoryVersions, ClientUserAgent, counter,
          savedResponse, done, printed, abandoned>>

Handling == {"querying", "replaying", "sendTrue", "sendFalse"}
Entered == Handling \cup {"returned"}

Frame == [body : Versions \cup {NoVersion}, latest : Versions \cup {NoVersion},
          versionIDs : Seq(Versions), end : Int, index : Int,
          i : Nat, retry : 0..MaxRetry]

Row == [ActualIndex : Nat, Index : Int, version : Versions, dumpError : BOOLEAN]

TypeOK ==
    /\ flags \in [Start : Starts, End : Ends, DumpResponses : Dumps]
    /\ lock \in BOOLEAN
    /\ pc \in [Flows -> {"idle", "passed"} \cup Entered]
    /\ frame \in [Flows -> Frame]
    /\ HistoryVersions \in Seq(Versions)
    /\ ClientUserAgent \in {"", "default", "client"}
    /\ counter \in Nat
    /\ savedResponse \subseteq Nat \X (Versions \cup {NoVersion})
    /\ done \in {"none", "true", "false"}
    /\ printed \in Seq(Row)
    /\ abandoned \subseteq Int

Init ==
    /\ flags \in [Start : Starts, End : Ends, DumpResponses : Dumps]
    /\ lock = FALSE
    /\ pc = [f \in Flows |-> "idle"]
    /\ frame = [f \in Flows |->
                  [body |-> NoVersion, latest |-> NoVersion, versionIDs |-> <<>>,
                   end |-> 0, index |-> 0, i |-> 0, retry |-> MaxRetry]]
    /\ HistoryVersions = <<>>
    /\ ClientUserAgent = ""
    /\ counter = 0
    /\ savedResponse \in SUBSET OldDumps
    /\ done = "none"
    /\ printed = <<>>
    /\ abandoned = {}

-----------------------------------------------------------------------------
(* The index range of -start and -end.                                      *)

min(x, y) == IF x < y THEN x ELSE y
max(x, y) == IF x > y THEN x ELSE y

\* Faulty variant: one version too many when counting from the last.
CountFromLastOffByOne(n, x) == IF x < 0 THEN n + x + 1 ELSE x

\* A negative flag counts from the last version (n + start does not overflow:
\* n is a length and start is negative).
FromLast(n, x) == IF x < 0 THEN n + x ELSE x

IndexRange(n, s, e) ==
    LET start == max(0, FromLast(n, s))
        end   == min(n, FromLast(n, e))
    IN  IF (start # 0 \/ end # n) /\ start >= end
        THEN [start |-> 0, end |-> n]
        ELSE [start |-> start, end |-> end]

-----------------------------------------------------------------------------
(* Request: the hook the proxy calls in every flow.                         *)

\* The URL is not the buy URL, or another flow holds the lock: return.
PassThrough(f) ==
    /\ pc[f] = "idle"
    /\ pc' = [pc EXCEPT ![f] = "passed"]
    /\ UNCHANGED <<flags, lock, frame, HistoryVersions, ClientUserAgent, counter,
                   savedResponse, done, printed, abandoned>>

\* Faulty variant: the lock is taken without looking whether it is held.
EnterWithoutTryLock(f, body, userAgent) ==
    /\ pc[f] = "idle"
    /\ lock' = TRUE
    /\ pc' = [pc EXCEPT ![f] = "querying"]
    /\ frame' = [frame EXCEPT ![f].body = body]
    /\ ClientUserAgent' = IF userAgent = "" THEN "default" ELSE userAgent
    /\ UNCHANGED <<flags, HistoryVersions, counter, savedResponse, done, printed,
                   abandoned>>

\* The buy URL and TryLock succeeds: handleBuyRequest begins and takes the
\* User-Agent of the client, or the default one when there is none.
EnterBuyRequest(f, body, userAgent) ==
    /\ pc[f] = "idle"
    /\ ~lock
    /\ lock' = TRUE
    /\ pc' = [pc EXCEPT ![f] = "querying"]
    /\ frame' = [frame EXCEPT ![f].body = body]
    /\ ClientUserAgent' = IF userAgent = "" THEN "default" ELSE userAgent
    /\ UNCHANGED <<flags, HistoryVersions, counter, savedResponse, done, printed,
                   abandoned>>

-----------------------------------------------------------------------------
(* handleBuyRequest.                                                        *)

\* The store's answer to a request body: the version the body names.
Respond(body) == body

\* The cloned request is answered with the latest AppInfo; the index range is
\* computed and the replay loop starts.
QueryVersionIDs(f, ids) ==
    LET range == IndexRange(Len(ids), flags.Start, flags.End)
    IN  /\ pc[f] = "querying"
        /\ pc' = [pc EXCEPT ![f] = "replaying"]
        /\ frame' = [frame EXCEPT ![f] =
                       [body |-> frame[f].body, latest |-> Respond(frame[f].body),
                        versionIDs |-> ids, end |-> range.end, index |-> range.start,
                        i |-> 0, retry |-> MaxRetry]]
        /\ UNCHANGED <<flags, lock, HistoryVersions, ClientUserAgent, counter,
                       savedResponse, done, printed, abandoned>>

\* Faulty variant: the recover forgets to tell main.
QueryPanicsSilently(f) ==
    /\ pc[f] = "querying"
    /\ pc' = [pc EXCEPT ![f] = "returned"]
    /\ UNCHANGED <<flags, lock, frame, HistoryVersions, ClientUserAgent, counter,
                   savedResponse, done, printed, abandoned>>

\* Cloning, sending, decoding or parsing panics: the recover sends false.
QueryPanics(f) ==
    /\ pc[f] = "querying"
    /\ pc' = [pc EXCEPT ![f] = "sendFalse"]
    /\ UNCHANGED <<flags, lock, frame, HistoryVersions, ClientUserAgent, counter,
                   savedResponse, done, printed, abandoned>>

\* The loop is over.
ReplaysFinish(f) ==
    /\ pc[f] = "replaying"
    /\ frame[f].index >= frame[f].end
    /\ pc' = [pc EXCEPT ![f] = "sendTrue"]
    /\ UNCHANGED <<flags, lock, frame, HistoryVersions, ClientUserAgent, counter,
                   savedResponse, done, printed, abandoned>>

\* Faulty variant: Request releases the lock when the query is over.
SendDoneUnlocks(f) ==
    /\ pc[f] \in {"sendTrue", "sendFalse"}
    /\ done = "none"
    /\ done' = IF pc[f] = "sendTrue" THEN "true" ELSE "false"
    /\ lock' = FALSE
    /\ pc' = [pc EXCEPT ![f] = "returned"]
    /\ UNCHANGED <<flags, frame, HistoryVersions, ClientUserAgent, counter,
                   savedResponse, printed, abandoned>>

\* The rendezvous on c.Done: main takes one value and never receives again.
SendDone(f) ==
    /\ pc[f] \in {"sendTrue", "sendFalse"}
    /\ done = "none"
    /\ done' = IF pc[f] = "sendTrue" THEN "true" ELSE "false"
    /\ pc' = [pc EXCEPT ![f] = "returned"]
    /\ UNCHANGED <<flags, lock, frame, HistoryVersions, ClientUserAgent, counter,
                   savedResponse, printed, abandoned>>

-----------------------------------------------------------------------------
(* replayRequest.                                                           *)

\* Faulty variant: the body is cloned and not modified.
ReplaceNothing(body, old, new) == body

\* bytes.ReplaceAll on the identifier in the body.
ReplaceAll(body, old, new) == IF body = old THEN new ELSE body

\* Faulty variant: the retry budget is shared by all versions.
NextVersionKeepsRetry(in) == [in EXCEPT !.index = @ + 1, !.i = @ + 1]

NextVersion(in) == [in EXCEPT !.index = @ + 1, !.i = @ + 1, !.retry = MaxRetry]

\* Faulty variant: the directory is made anew for every response.
WriteFileInNewDir(dir, n, content) == {<<n, content>>}

\* os.WriteFile of response number n: saved (replacing an older file of that
\* name), or failed with or without a truncated file left behind.
WriteFile(dir, n, content) == {p \in dir : p[1] # n} \cup {<<n, content>>}

DumpResponse(n, version, dumpError) ==
    \/ ~flags.DumpResponses /\ ~dumpError /\ UNCHANGED savedResponse
    \/ /\ flags.DumpResponses /\ ~dumpError
       /\ savedResponse' = WriteFile(savedResponse, n, version)
    \/ flags.DumpResponses /\ dumpError /\ UNCHANGED savedResponse
    \/ /\ flags.DumpResponses /\ dumpError
       /\ savedResponse' = WriteFile(savedResponse, n, NoVersion)

\* One attempt succeeds: the AppInfo is appended, its row printed and, with
\* -dump, the response saved under the attempt's number.
ReplaySucceeds(f, dumpError) ==
    LET in == frame[f]
        target == in.versionIDs[in.index + 1]
        appInfo == Respond(ReplaceAll(in.body, in.latest, target))
    IN  /\ pc[f] = "replaying"
        /\ in.index < in.end
        /\ counter' = counter + 1
        /\ HistoryVersions' = Append(HistoryVersions, appInfo)
        /\ printed' = Append(printed, [ActualIndex |-> in.i, Index |-> in.index,
                                       version |-> appInfo, dumpError |-> dumpError])
        /\ DumpResponse(counter + 1, appInfo, dumpError)
        /\ frame' = [frame EXCEPT ![f] = NextVersion(in)]
        /\ UNCHANGED <<flags, lock, pc, ClientUserAgent, done, abandoned>>

\* Faulty variants: a retry moves the printed index on; the budget is not
\* looked at.
RetryCountsIndex(f) ==
    /\ pc[f] = "replaying" /\ frame[f].index < frame[f].end /\ frame[f].retry > 0
    /\ counter' = counter + 1
    /\ frame' = [frame EXCEPT ![f].retry = @ - 1, ![f].i = @ + 1]
    /\ UNCHANGED <<flags, lock, pc, HistoryVersions, ClientUserAgent,
                   savedResponse, done, printed, abandoned>>

RetryUnguarded(f) ==
    /\ pc[f] = "replaying" /\ frame[f].index < frame[f].end
    /\ counter' = counter + 1
    /\ frame' = [frame EXCEPT ![f].retry = @ - 1]
    /\ UNCHANGED <<flags, lock, pc, HistoryVersions, ClientUserAgent,
                   savedResponse, done, printed, abandoned>>

\* An attempt panics and retries are left: the same version again.
ReplayRetries(f) ==
    /\ pc[f] = "replaying"
    /\ frame[f].index < frame[f].end
    /\ frame[f].retry > 0
    /\ counter' = counter + 1
    /\ frame' = [frame EXCEPT ![f].retry = @ - 1]
    /\ UNCHANGED <<flags, lock, pc, HistoryVersions, ClientUserAgent,
                   savedResponse, done, printed, abandoned>>

\* The last attempt panics: the version is dropped and the loop goes on.
ReplayGivesUp(f) ==
    /\ pc[f] = "replaying"
    /\ frame[f].index < frame[f].end
    /\ frame[f].retry = 0
    /\ counter' = counter + 1
    /\ abandoned' = abandoned \cup {frame[f].index}
    /\ frame' = [frame EXCEPT ![f] = NextVersion(frame[f])]
    /\ UNCHANGED <<flags, lock, pc, HistoryVersions, ClientUserAgent,
                   savedResponse, done, printed>>

-----------------------------------------------------------------------------
Request(f) ==
    \/ PassThrough(f)
    \/ \E body \in Versions, userAgent \in {"", "client"} :
          EnterBuyRequest(f, body, userAgent)

Step(f) ==
    \/ \E ids \in Listings : QueryVersionIDs(f, ids)
    \/ QueryPanics(f)
    \/ \E dumpError \in BOOLEAN : ReplaySucceeds(f, dumpError)
    \/ ReplayRetries(f)
    \/ ReplayGivesUp(f)
    \/ ReplaysFinish(f)

handleBuyRequest(f) == Step(f) \/ SendDone(f)

\* Every flow has been through the hook: the proxy is idle.
Idle == (\A f \in Flows : pc[f] \in {"passed", "returned"}) /\ UNCHANGED vars

Next == (\E f \in Flows : Request(f) \/ handleBuyRequest(f)) \/ Idle

Spec == Init /\ [][Next]_vars

\* The scheduler runs the handler's goroutine and every call to the store
\* returns, with an answer or an error.  No request has to arrive.
Fairness == \A f \in Flows : WF_vars(handleBuyRequest(f))

FairSpec == Spec /\ Fairness

-----------------------------------------------------------------------------
(* Properties.                                                              *)

\* The addon implements QueryOnce: one query, a result that only grows while
\* the query runs, one hand-over, and no write to c.HistoryVersions after it.
QO == INSTANCE QueryOnce WITH
        phase <- IF ~lock THEN "waiting"
                 ELSE IF done = "none" THEN "querying" ELSE "delivered",
        result <- HistoryVersions

DeliversOnce == QO!Spec

\* Every replayed version is the one its index names in the store's list, and
\* the versions come in the order of that list, none twice, in spite of the
\* retries: a failed attempt leaves nothing in c.HistoryVersions.
ReplayedInOrder ==
    \A f \in Flows : pc[f] \in Entered =>
      /\ Len(HistoryVersions) = Len(printed)
      /\ \A k \in 1..Len(printed) :
           LET row == printed[k]
           IN  /\ row.Index + 1 \in 1..Len(frame[f].versionIDs)
               /\ row.version = frame[f].versionIDs[row.Index + 1]
               /\ HistoryVersions[k] = row.version
               /\ \A j \in 1..(k-1) : printed[j].Index < row.Index

\* The index range of the README: [start, end), a negative value counts from
\* the last; a range without any version means all versions.
Selected(n, s, e) ==
    LET lo == IF s < 0 THEN n + s ELSE s
        hi == IF e < 0 THEN n + e ELSE e
        chosen == {x \in 0..(n-1) : lo <= x /\ x < hi}
    IN  IF chosen = {} THEN 0..(n-1) ELSE chosen

\* When handleBuyRequest reports success, each version of the documented range
\* was either shown to the user or given up with a warning, and no other was.
NothingLost ==
    \A f \in Flows : done = "true" /\ pc[f] = "returned" =>
      LET shown == {printed[k].Index : k \in 1..Len(printed)}
      IN  /\ shown \cup abandoned =
                Selected(Len(frame[f].versionIDs), flags.Start, flags.End)
          /\ shown \cap abandoned = {}

\* As long as no version was given up, the number printed before a row is its
\* index in c.HistoryVersions, which is what the user enters to download it.
AlignedUnlessAbandoned ==
    abandoned = {} =>
      \A k \in 1..Len(printed) : printed[k].ActualIndex = k - 1

\* A version is given up after exactly four attempts, and no version takes
\* more than four: the retry budget of replayRequest is each version's own.
FourAttemptsEach ==
    \A f \in Flows : pc[f] \in Entered =>
      LET shown == Len(printed)
          lost  == Cardinality(abandoned)
          used  == MaxRetry - frame[f].retry
      IN  /\ shown + 4 * lost + used <= counter
          /\ counter <= 4 * (shown + lost) + used

\* With -dump, the response of every version shown without an error is in a
\* file of its own: no later attempt overwrites it.
DumpsKept ==
    flags.DumpResponses =>
      \A k \in 1..Len(printed) : ~printed[k].dumpError =>
         \E p \in savedResponse : p[2] = printed[k].version

\* A buy request that got the lock always ends in a value for main, so main
\* does not wait for ever on the done channel.
QueryDelivers == lock ~> (done # "none")
=============================================================================
