---------------------------- MODULE AddonProofs ----------------------------
(***************************************************************************)
(* Theorems about Addon, for every number of flows, every list of versions *)
(* and every value of the flags.                                           *)
(*                                                                         *)
(* TypeOK is not inductive: that a replay stores a version at all depends  *)
(* on the range staying inside the list and on the body still naming the   *)
(* latest version.  Inv adds these facts, the ownership of the lock, and   *)
(* what the rows shown so far say about the result.                        *)
(***************************************************************************)
EXTENDS Addon, TLAPS

\* One flow owns the lock; before that nothing has happened, and after the
\* hand-over the owner has returned.
Ownership ==
    /\ \A f \in Flows : pc[f] \in Entered => lock
    /\ \A f, g \in Flows : pc[f] \in Entered /\ pc[g] \in Entered => f = g
    /\ ~lock => HistoryVersions = <<>> /\ printed = <<>> /\ abandoned = {} /\ done = "none"
    /\ \A f \in Flows : pc[f] = "querying" => printed = <<>> /\ abandoned = {}
    /\ \A f \in Flows : pc[f] \in Handling => done = "none"

\* The loop stays inside the list, with a body that names the latest version.
InRange ==
    \A f \in Flows :
      /\ pc[f] = "querying" => frame[f].body \in Versions
      /\ pc[f] = "replaying" =>
           /\ frame[f].latest = frame[f].body
           /\ 0 <= frame[f].index
           /\ frame[f].end <= Len(frame[f].versionIDs)

\* What holds of every flow, also once main has released the lock.
Sound == TypeOK /\ InRange

\* A row is the entry of the result at the same place.
RowsAreResult ==
    /\ Len(printed) = Len(HistoryVersions)
    /\ \A k \in 1..Len(printed) : printed[k].version = HistoryVersions[k]

\* Every row is an entry of the list before the current index, in order.
RowsInOrder ==
    \A f \in Flows : pc[f] \in Entered =>
      \A k \in 1..Len(printed) :
        /\ printed[k].Index \in 0..(Len(frame[f].versionIDs) - 1)
        /\ printed[k].version = frame[f].versionIDs[printed[k].Index + 1]
        /\ printed[k].Index < frame[f].index
        /\ \A j \in 1..(k-1) : printed[j].Index < printed[k].Index

Aligned ==
    abandoned = {} =>
      /\ \A f \in Flows : pc[f] = "replaying" => frame[f].i = Len(printed)
      /\ \A k \in 1..Len(printed) : printed[k].ActualIndex = k - 1

Inv == TypeOK /\ Ownership /\ InRange /\ RowsAreResult /\ RowsInOrder /\ Aligned

-----------------------------------------------------------------------------
(* The index range.                                                         *)

\* Whatever -start and -end are, the loop of handleBuyRequest runs over a part
\* of the list, and over a non-empty part when there are versions.
LEMMA IndexRangeInside ==
  ASSUME NEW n \in Nat, NEW s \in Int, NEW e \in Int
  PROVE  LET r == IndexRange(n, s, e)
         IN  /\ r.start \in 0..n /\ r.end \in 0..n
             /\ n > 0 => r.start < r.end
BY DEF IndexRange, FromLast, min, max

\* The clamped and repaired range of the code is the range the README
\* documents, for every pair of flags and every number of versions.
THEOREM IndexRangeSelected ==
  ASSUME NEW n \in Nat, NEW s \in Int, NEW e \in Int
  PROVE  LET r == IndexRange(n, s, e)
         IN  r.start..(r.end - 1) = Selected(n, s, e)
<1> DEFINE lo == IF s < 0 THEN n + s ELSE s
           hi == IF e < 0 THEN n + e ELSE e
           chosen == {x \in 0..(n-1) : lo <= x /\ x < hi}
           start == IF 0 > lo THEN 0 ELSE lo
           end == IF n < hi THEN n ELSE hi
<1>1. lo \in Int /\ hi \in Int /\ start \in Int /\ end \in Int
  OBVIOUS
<1>2. chosen = start..(end - 1)
  <2> HIDE DEF lo, hi
  <2> QED
    BY <1>1
<1>3. IndexRange(n, s, e) = IF (start # 0 \/ end # n) /\ start >= end
                            THEN [start |-> 0, end |-> n]
                            ELSE [start |-> start, end |-> end]
  BY DEF IndexRange, FromLast, min, max
<1>4. Selected(n, s, e) = IF chosen = {} THEN 0..(n-1) ELSE chosen
  BY DEF Selected
<1> HIDE DEF lo, hi, chosen, start, end
<1>5. CASE start >= end
  <2>1. chosen = {}
    BY <1>1, <1>2, <1>5
  <2>2. (start # 0 \/ end # n) \/ (start = 0 /\ end = n)
    OBVIOUS
  <2>3. Selected(n, s, e) = 0..(n-1)
    BY <1>4, <2>1
  <2>4. IndexRange(n, s, e) = [start |-> 0, end |-> n]
    BY <1>3, <1>5, <2>2
  <2>5. QED
    BY <2>3, <2>4
<1>6. CASE start < end
  <2>1. start \in chosen
    BY <1>1, <1>2, <1>6
  <2>2. Selected(n, s, e) = chosen
    BY <1>4, <2>1
  <2>3. ~(start >= end)
    BY <1>1, <1>6
  <2>4. IndexRange(n, s, e) = [start |-> start, end |-> end]
    BY <1>3, <2>3
  <2>5. QED
    BY <1>2, <2>2, <2>4
<1>7. QED
  BY <1>1, <1>5, <1>6

-----------------------------------------------------------------------------
(* Sequences and frames.                                                    *)

\* The empty sequence has no index.
LEMMA EmptyHasNoIndex ==
  ASSUME NEW p, p = <<>>
  PROVE  \A k \in 1..Len(p) : FALSE
OBVIOUS

\* What append does to c.HistoryVersions and to the rows.
LEMMA AppendFacts ==
  ASSUME NEW S, NEW s \in Seq(S), NEW x \in S
  PROVE  /\ Append(s, x) \in Seq(S)
         /\ Len(Append(s, x)) = Len(s) + 1
         /\ Append(s, x)[Len(s) + 1] = x
         /\ \A k \in 1..Len(s) : Append(s, x)[k] = s[k]
OBVIOUS

\* NextVersion goes one index on and keeps the request and the list.
LEMMA NextVersionFacts ==
  ASSUME NEW in \in Frame
  PROVE  LET out == NextVersion(in)
         IN  /\ out \in Frame
             /\ out.index = in.index + 1 /\ out.i = in.i + 1 /\ out.retry = MaxRetry
             /\ out.body = in.body /\ out.latest = in.latest
             /\ out.versionIDs = in.versionIDs /\ out.end = in.end
<1> DEFINE a == [in EXCEPT !.index = @ + 1]
           b == [a EXCEPT !.i = @ + 1]
           c == [b EXCEPT !.retry = MaxRetry]
<1>1. /\ a \in Frame /\ a.index = in.index + 1 /\ a.i = in.i /\ a.body = in.body
      /\ a.latest = in.latest /\ a.versionIDs = in.versionIDs /\ a.end = in.end
  BY DEF Frame
<1>2. c = NextVersion(in)
  BY DEF NextVersion
<1> HIDE DEF a
<1>3. /\ b \in Frame /\ b.index = a.index /\ b.i = a.i + 1 /\ b.body = a.body
      /\ b.latest = a.latest /\ b.versionIDs = a.versionIDs /\ b.end = a.end
  BY <1>1 DEF Frame
<1> HIDE DEF b
<1>4. /\ c \in Frame /\ c.index = b.index /\ c.i = b.i /\ c.body = b.body /\ c.retry = MaxRetry
      /\ c.latest = b.latest /\ c.versionIDs = b.versionIDs /\ c.end = b.end
  <2>1. b \in Frame /\ MaxRetry \in 0..MaxRetry
    BY <1>3 DEF MaxRetry
  <2>2. QED
    BY <2>1 DEF Frame
<1> HIDE DEF c
<1>5. QED
  BY <1>1, <1>2, <1>3, <1>4

\* A retry takes one from the budget and keeps everything else.
LEMMA RetryFacts ==
  ASSUME NEW in \in Frame, in.retry > 0
  PROVE  LET out == [in EXCEPT !.retry = @ - 1]
         IN  /\ out \in Frame /\ out.index = in.index /\ out.i = in.i /\ out.retry = in.retry - 1
             /\ out.body = in.body /\ out.latest = in.latest
             /\ out.versionIDs = in.versionIDs /\ out.end = in.end
BY DEF Frame, MaxRetry

-----------------------------------------------------------------------------
(* What each flow keeps true by itself, even if it is not alone.            *)

\* Steps that only move a flow from one place of the code to the next.
LEMMA MoveSound ==
  ASSUME Sound, NEW f \in Flows,
         PassThrough(f) \/ QueryPanics(f) \/ ReplaysFinish(f) \/ SendDone(f)
  PROVE  Sound'
<1> USE DEF PassThrough, QueryPanics, ReplaysFinish, SendDone
<1>1. TypeOK'
  BY DEF Sound, TypeOK, Entered, Handling
<1>2. \A g \in Flows : pc'[g] \in {"querying", "replaying"} => pc'[g] = pc[g]
  BY DEF Sound, TypeOK, Entered, Handling
<1>3. InRange'
  BY <1>2 DEF Sound, InRange
<1> QED
  BY <1>1, <1>3 DEF Sound

\* A flow takes the lock, with a body that names a version.
LEMMA EnterSound ==
  ASSUME Sound, NEW f \in Flows, NEW body \in Versions, NEW userAgent \in {"", "client"},
         EnterBuyRequest(f, body, userAgent)
  PROVE  Sound'
<1> DEFINE new == [frame[f] EXCEPT !.body = body]
<1>1. frame[f] \in Frame /\ frame \in [Flows -> Frame]
  BY DEF Sound, TypeOK
<1>2. new \in Frame /\ new.body = body
  BY <1>1 DEF Frame
<1>3. /\ frame' = [frame EXCEPT ![f] = new]
      /\ pc' = [pc EXCEPT ![f] = "querying"] /\ lock' = TRUE
      /\ ClientUserAgent' = IF userAgent = "" THEN "default" ELSE userAgent
      /\ UNCHANGED <<flags, HistoryVersions, counter, savedResponse, done, printed, abandoned>>
  BY <1>1 DEF EnterBuyRequest
<1> HIDE DEF new
<1>4. TypeOK'
  BY <1>1, <1>2, <1>3 DEF Sound, TypeOK, Entered, Handling
<1>5. InRange'
  BY <1>1, <1>2, <1>3 DEF Sound, TypeOK, InRange
<1> QED
  BY <1>4, <1>5 DEF Sound

\* The list arrives: the loop of handleBuyRequest starts inside it.
LEMMA QueryFacts ==
  ASSUME Sound, NEW f \in Flows, NEW ids \in Listings, QueryVersionIDs(f, ids)
  PROVE  LET range == IndexRange(Len(ids), flags.Start, flags.End)
         IN  /\ frame \in [Flows -> Frame] /\ frame'[f] \in Frame
             /\ frame' = [frame EXCEPT ![f] = frame'[f]]
             /\ frame'[f].latest = frame'[f].body /\ frame'[f].versionIDs = ids
             /\ frame'[f].index = range.start /\ frame'[f].end = range.end
             /\ frame'[f].i = 0 /\ frame'[f].retry = MaxRetry
             /\ ids \in Seq(Versions) /\ range.start \in Nat /\ range.end \in Nat
             /\ range.start <= range.end /\ range.end <= Len(ids)
<1> DEFINE range == IndexRange(Len(ids), flags.Start, flags.End)
           new == [body |-> frame[f].body, latest |-> frame[f].body,
                   versionIDs |-> ids, end |-> range.end, index |-> range.start,
                   i |-> 0, retry |-> MaxRetry]
<1>1. ids \in Seq(Versions) /\ Len(ids) \in Nat
  BY ConstantsAssumption
<1>2. range.start \in 0..Len(ids) /\ range.end \in 0..Len(ids)
      /\ (Len(ids) > 0 => range.start < range.end)
  <2>1. flags.Start \in Int /\ flags.End \in Int
    <3>1. flags \in [Start : Starts, End : Ends, DumpResponses : Dumps]
      BY DEF Sound, TypeOK
    <3>2. Starts \subseteq Int /\ Ends \subseteq Int
      BY ConstantsAssumption
    <3> QED
      BY <3>1, <3>2
  <2> QED
    BY <1>1, <2>1, IndexRangeInside
<1>3. /\ range.start \in Nat /\ range.end \in Nat
      /\ range.start <= range.end /\ range.end <= Len(ids)
  <2> HIDE DEF range
  <2> QED
    BY <1>1, <1>2
<1>4. frame \in [Flows -> Frame] /\ frame[f] \in Frame
  BY DEF Sound, TypeOK
<1>5. frame' = [frame EXCEPT ![f] = new]
  BY <1>4 DEF QueryVersionIDs, Respond, Frame
<1>6. new \in Frame
  <2> HIDE DEF range
  <2>1. frame[f].body \in Versions \cup {NoVersion}
    BY <1>4 DEF Frame
  <2> QED
    BY <1>1, <1>3, <2>1 DEF Frame, MaxRetry
<1>7. /\ new.latest = new.body /\ new.versionIDs = ids /\ new.index = range.start
      /\ new.end = range.end /\ new.i = 0 /\ new.retry = MaxRetry
  <2> HIDE DEF range
  <2> QED
    OBVIOUS
<1> HIDE DEF new, range
<1>8. frame'[f] = new
  BY <1>4, <1>5
<1> QED
  BY <1>1, <1>3, <1>4, <1>5, <1>6, <1>7, <1>8 DEF range

\* The flow that got the list stays inside it.
LEMMA QuerySound ==
  ASSUME Sound, NEW f \in Flows, NEW ids \in Listings, QueryVersionIDs(f, ids)
  PROVE  Sound'
<1> DEFINE new == frame'[f]
<1>1. /\ pc' = [pc EXCEPT ![f] = "replaying"]
      /\ UNCHANGED <<flags, lock, HistoryVersions, ClientUserAgent, counter,
                     savedResponse, done, printed, abandoned>>
  BY DEF QueryVersionIDs
<1>2. /\ frame \in [Flows -> Frame] /\ new \in Frame
      /\ frame' = [frame EXCEPT ![f] = new]
      /\ new.latest = new.body /\ 0 <= new.index
      /\ new.end <= Len(new.versionIDs)
  <2> HIDE DEF new
  <2> QED
    BY QueryFacts DEF new
<1> HIDE DEF new
<1>3. frame' \in [Flows -> Frame] /\ frame'[f] = new
  BY <1>2
<1>4. TypeOK'
  BY <1>1, <1>3 DEF Sound, TypeOK, Entered, Handling
<1>5. InRange'
  BY <1>1, <1>2, <1>3 DEF Sound, TypeOK, InRange
<1> QED
  BY <1>4, <1>5 DEF Sound

\* The locals of a flow that replays a version.
LEMMA ReplayingFrame ==
  ASSUME Sound, NEW f \in Flows, pc[f] = "replaying", frame[f].index < frame[f].end
  PROVE  /\ frame \in [Flows -> Frame] /\ frame[f] \in Frame
         /\ frame[f].index \in Nat /\ frame[f].latest = frame[f].body
         /\ frame[f].versionIDs \in Seq(Versions)
         /\ frame[f].end \in Int /\ frame[f].end <= Len(frame[f].versionIDs)
         /\ frame[f].index + 1 \in 1..Len(frame[f].versionIDs)
<1>1. frame \in [Flows -> Frame] /\ frame[f] \in Frame
  BY DEF Sound, TypeOK
<1>2. /\ frame[f].index \in Int /\ frame[f].end \in Int
      /\ frame[f].versionIDs \in Seq(Versions)
  BY <1>1 DEF Frame
<1>3. /\ frame[f].latest = frame[f].body /\ 0 <= frame[f].index
      /\ frame[f].end <= Len(frame[f].versionIDs)
  BY DEF Sound, InRange
<1> QED
  BY <1>1, <1>2, <1>3

\* A failed attempt with retries left changes the budget only.
LEMMA RetrySound ==
  ASSUME Sound, NEW f \in Flows, ReplayRetries(f)
  PROVE  Sound'
<1> DEFINE in == frame[f]
           out == [in EXCEPT !.retry = @ - 1]
<1>1. pc[f] = "replaying" /\ in.index < in.end /\ in.retry > 0 /\ counter' = counter + 1
      /\ frame' = [frame EXCEPT ![f] = out]
      /\ UNCHANGED <<flags, lock, pc, HistoryVersions, ClientUserAgent, savedResponse,
                     done, printed, abandoned>>
  BY DEF ReplayRetries
<1>2. frame \in [Flows -> Frame] /\ in \in Frame
  BY <1>1, ReplayingFrame
<1> HIDE DEF in
<1>3. /\ out \in Frame /\ out.index = in.index /\ out.body = in.body
      /\ out.latest = in.latest /\ out.versionIDs = in.versionIDs /\ out.end = in.end
  BY <1>1, <1>2, RetryFacts
<1> HIDE DEF out
<1>4. frame' \in [Flows -> Frame] /\ frame'[f] = out
  BY <1>1, <1>2, <1>3
<1>5. TypeOK'
  <2>1. counter \in Nat
    BY DEF Sound, TypeOK
  <2>2. counter' \in Nat
    BY <1>1, <2>1
  <2> QED
    BY <1>1, <1>4, <2>2 DEF Sound, TypeOK
<1>6. InRange'
  BY <1>1, <1>2, <1>3, <1>4 DEF Sound, InRange, in
<1> QED
  BY <1>5, <1>6 DEF Sound

\* A version is given up and the loop goes on.
LEMMA GiveUpSound ==
  ASSUME Sound, NEW f \in Flows, ReplayGivesUp(f)
  PROVE  Sound'
<1> DEFINE in == frame[f]
           out == NextVersion(in)
<1>1. pc[f] = "replaying" /\ in.index < in.end /\ counter' = counter + 1
      /\ abandoned' = abandoned \cup {in.index}
      /\ frame' = [frame EXCEPT ![f] = out]
      /\ UNCHANGED <<flags, lock, pc, HistoryVersions, ClientUserAgent, savedResponse,
                     done, printed>>
  BY DEF ReplayGivesUp
<1>2. /\ frame \in [Flows -> Frame] /\ in \in Frame /\ in.index \in Nat
      /\ in.latest = in.body /\ in.end <= Len(in.versionIDs)
  BY <1>1, ReplayingFrame
<1>3. /\ out \in Frame /\ out.index = in.index + 1 /\ out.body = in.body
      /\ out.latest = in.latest /\ out.versionIDs = in.versionIDs /\ out.end = in.end
  BY <1>2, NextVersionFacts
<1> HIDE DEF out, in
<1>4. frame' \in [Flows -> Frame] /\ frame'[f] = out
  BY <1>1, <1>2, <1>3 DEF in
<1>5. TypeOK'
  <2>1. counter \in Nat /\ abandoned \subseteq Int
    BY DEF Sound, TypeOK
  <2>2. counter' \in Nat
    BY <1>1, <2>1
  <2>3. in.index \in Int /\ abandoned' = abandoned \cup {in.index}
    BY <1>1, <1>2
  <2>4. abandoned' \subseteq Int
    BY <2>1, <2>3
  <2> QED
    BY <1>1, <1>4, <2>2, <2>4 DEF Sound, TypeOK
<1>6. InRange'
  BY <1>1, <1>2, <1>3, <1>4 DEF Sound, InRange
<1> QED
  BY <1>5, <1>6 DEF Sound

\* The effect of a successful replay: the version its index names is appended.
LEMMA SucceedFacts ==
  ASSUME Sound, NEW f \in Flows, NEW dumpError \in BOOLEAN, ReplaySucceeds(f, dumpError)
  PROVE  LET in == frame[f]
             version == in.versionIDs[in.index + 1]
             row == [ActualIndex |-> in.i, Index |-> in.index, version |-> version,
                     dumpError |-> dumpError]
         IN  /\ pc[f] = "replaying" /\ in.index < in.end
             /\ version \in Versions /\ row \in Row
             /\ counter' = counter + 1
             /\ HistoryVersions' = Append(HistoryVersions, version)
             /\ printed' = Append(printed, row)
             /\ DumpResponse(counter + 1, version, dumpError)
             /\ frame' = [frame EXCEPT ![f] = NextVersion(in)]
             /\ UNCHANGED <<flags, lock, pc, ClientUserAgent, done, abandoned>>
<1> DEFINE in == frame[f]
           version == in.versionIDs[in.index + 1]
           row == [ActualIndex |-> in.i, Index |-> in.index, version |-> version,
                   dumpError |-> dumpError]
<1>1. pc[f] = "replaying" /\ in.index < in.end
  BY DEF ReplaySucceeds
<1>2. /\ in \in Frame /\ in.index \in Nat /\ in.latest = in.body
      /\ in.versionIDs \in Seq(Versions) /\ in.index + 1 \in 1..Len(in.versionIDs)
  BY <1>1, ReplayingFrame
<1>3. Respond(ReplaceAll(in.body, in.latest, version)) = version
  BY <1>2 DEF Respond, ReplaceAll
<1>4. /\ counter' = counter + 1
      /\ HistoryVersions' = Append(HistoryVersions, version)
      /\ printed' = Append(printed, row)
      /\ DumpResponse(counter + 1, version, dumpError)
      /\ frame' = [frame EXCEPT ![f] = NextVersion(in)]
      /\ UNCHANGED <<flags, lock, pc, ClientUserAgent, done, abandoned>>
  BY <1>3 DEF ReplaySucceeds
<1>5. version \in Versions /\ in.i \in Nat
  BY <1>2 DEF Frame
<1>6. row \in Row
  BY <1>2, <1>5 DEF Row
<1> QED
  BY <1>1, <1>4, <1>5, <1>6

\* A successful replay appends a version, and the loop goes on.
LEMMA SucceedSound ==
  ASSUME Sound, NEW f \in Flows, NEW dumpError \in BOOLEAN, ReplaySucceeds(f, dumpError)
  PROVE  Sound'
<1> DEFINE in == frame[f]
           out == NextVersion(in)
           version == in.versionIDs[in.index + 1]
           row == [ActualIndex |-> in.i, Index |-> in.index, version |-> version,
                   dumpError |-> dumpError]
<1>1. /\ pc[f] = "replaying" /\ in.index < in.end
      /\ version \in Versions /\ row \in Row
      /\ counter' = counter + 1
      /\ HistoryVersions' = Append(HistoryVersions, version)
      /\ printed' = Append(printed, row)
      /\ DumpResponse(counter + 1, version, dumpError)
      /\ frame' = [frame EXCEPT ![f] = out]
      /\ UNCHANGED <<flags, lock, pc, ClientUserAgent, done, abandoned>>
  BY SucceedFacts
<1>2. /\ frame \in [Flows -> Frame] /\ in \in Frame /\ in.index \in Nat
      /\ in.latest = in.body /\ in.end <= Len(in.versionIDs)
  BY <1>1, ReplayingFrame
<1>3. /\ out \in Frame /\ out.index = in.index + 1 /\ out.body = in.body
      /\ out.latest = in.latest /\ out.versionIDs = in.versionIDs /\ out.end = in.end
  BY <1>2, NextVersionFacts
<1> HIDE DEF out, row, version, in
<1>4. frame' \in [Flows -> Frame] /\ frame'[f] = out
  BY <1>1, <1>2, <1>3 DEF in
<1>5. HistoryVersions \in Seq(Versions) /\ printed \in Seq(Row) /\ counter \in Nat
      /\ savedResponse \subseteq Nat \X (Versions \cup {NoVersion})
  BY DEF Sound, TypeOK
<1>6. HistoryVersions' \in Seq(Versions) /\ printed' \in Seq(Row)
  BY <1>1, <1>5, AppendFacts
<1>7. counter' \in Nat /\ savedResponse' \subseteq Nat \X (Versions \cup {NoVersion})
  <2>1. counter + 1 \in Nat /\ version \in Versions /\ DumpResponse(counter + 1, version, dumpError)
    BY <1>1, <1>5
  <2> QED
    BY <1>1, <1>5, <2>1 DEF DumpResponse, WriteFile
<1>8. TypeOK'
  BY <1>1, <1>4, <1>6, <1>7 DEF Sound, TypeOK
<1>9. InRange'
  BY <1>1, <1>2, <1>3, <1>4 DEF Sound, InRange
<1> QED
  BY <1>8, <1>9 DEF Sound

\* All steps of the hook and of handleBuyRequest keep Sound.
LEMMA SoundStep ==
  ASSUME Sound, NEW f \in Flows, Request(f) \/ handleBuyRequest(f)
  PROVE  Sound'
BY MoveSound, EnterSound, QuerySound, SucceedSound, RetrySound, GiveUpSound
DEF Request, handleBuyRequest, Step

-----------------------------------------------------------------------------
(* Inv is inductive: one lemma per group of actions.                        *)

\* A fresh addon, with any files left by earlier sessions.
Fresh ==
    /\ flags \in [Start : Starts, End : Ends, DumpResponses : Dumps]
    /\ lock = FALSE /\ pc = [f \in Flows |-> "idle"]
    /\ frame = [f \in Flows |->
                  [body |-> NoVersion, latest |-> NoVersion, versionIDs |-> <<>>,
                   end |-> 0, index |-> 0, i |-> 0, retry |-> MaxRetry]]
    /\ HistoryVersions = <<>> /\ ClientUserAgent = "" /\ counter = 0
    /\ savedResponse \subseteq Nat \X (Versions \cup {NoVersion})
    /\ done = "none" /\ printed = <<>> /\ abandoned = {}

\* In a fresh addon nothing is locked, shown or given up.
LEMMA FreshInv == Fresh => Inv
<1> SUFFICES ASSUME Fresh PROVE Inv
  OBVIOUS
<1> DEFINE blank == [body |-> NoVersion, latest |-> NoVersion, versionIDs |-> <<>>,
                     end |-> 0, index |-> 0, i |-> 0, retry |-> MaxRetry]
<1>1. TypeOK
  <2>1. blank \in Frame
    BY DEF Frame, MaxRetry
  <2>2. frame = [f \in Flows |-> blank]
    BY DEF Fresh
  <2>3. frame \in [Flows -> Frame]
    <3> HIDE DEF blank
    <3> QED
      BY <2>1, <2>2
  <2>4. HistoryVersions \in Seq(Versions) /\ printed \in Seq(Row)
    <3>1. HistoryVersions = <<>> /\ printed = <<>>
      BY DEF Fresh
    <3>2. <<>> \in Seq(Versions) /\ <<>> \in Seq(Row)
      OBVIOUS
    <3>3. QED
      BY <3>1, <3>2
  <2>5. pc \in [Flows -> {"idle", "passed"} \cup Entered]
    BY DEF Fresh
  <2>6. QED
    BY <2>3, <2>4, <2>5 DEF Fresh, TypeOK
<1>2. Ownership /\ InRange
  BY DEF Fresh, Ownership, InRange, Entered, Handling
<1>3. printed = <<>> /\ HistoryVersions = <<>> /\ Len(<<>>) = 0
  BY DEF Fresh
<1>4. \A f \in Flows : pc[f] = "idle"
  BY DEF Fresh
<1>5. RowsAreResult /\ RowsInOrder /\ Aligned
  BY <1>3, <1>4 DEF RowsAreResult, RowsInOrder, Aligned, Entered, Handling
<1>6. QED
  BY <1>1, <1>2, <1>5 DEF Inv

\* The addon's initial states satisfy Inv.
LEMMA InitInv == Init => Inv
<1>1. Init => Fresh
  BY ConstantsAssumption DEF Init, Fresh
<1> QED
  BY <1>1, FreshInv

\* Steps that only move a flow from one place of the code to the next.
LEMMA MoveInv ==
  ASSUME Inv, NEW f \in Flows,
         PassThrough(f) \/ QueryPanics(f) \/ ReplaysFinish(f) \/ SendDone(f)
  PROVE  Inv'
<1> USE DEF PassThrough, QueryPanics, ReplaysFinish, SendDone
<1>1. TypeOK' /\ InRange'
  BY MoveSound DEF Inv, Sound
<1>2. \A g \in Flows : /\ pc'[g] \in Entered => pc[g] \in Entered
                       /\ pc'[g] \in Handling => pc[g] \in Handling
                       /\ pc'[g] \in {"querying", "replaying"} => pc'[g] = pc[g]
  BY DEF Inv, TypeOK, Entered, Handling
<1>3. /\ UNCHANGED <<lock, frame, HistoryVersions, printed, abandoned>>
      /\ done' # done => pc[f] \in Handling /\ pc'[f] = "returned"
  BY DEF Inv, TypeOK, Handling
<1>4. Ownership'
  <2>1. \A g \in Flows : pc'[g] \in Handling => done' = "none"
    BY <1>2, <1>3 DEF Inv, Ownership, Entered, Handling
  <2>2. ~lock => done' = "none"
    BY <1>3 DEF Inv, Ownership, Entered
  <2>3. QED
    BY <1>2, <1>3, <2>1, <2>2 DEF Inv, Ownership
<1>5. RowsAreResult' /\ Aligned'
  BY <1>2, <1>3 DEF Inv, RowsAreResult, Aligned
<1>6. RowsInOrder'
  BY <1>2, <1>3 DEF Inv, RowsInOrder
<1>7. QED
  BY <1>1, <1>4, <1>5, <1>6 DEF Inv

\* A flow takes the lock: it is the first one, so nothing has been shown yet.
LEMMA EnterInv ==
  ASSUME Inv, NEW f \in Flows, NEW body \in Versions, NEW userAgent \in {"", "client"},
         EnterBuyRequest(f, body, userAgent)
  PROVE  Inv'
<1> USE DEF EnterBuyRequest
<1>1. TypeOK' /\ InRange'
  BY EnterSound DEF Inv, Sound
<1>2. \A g \in Flows : pc[g] \notin Entered
  BY DEF Inv, Ownership
<1>3. \A g \in Flows : pc'[g] \in Entered => g = f /\ pc'[g] = "querying"
  BY <1>2 DEF Inv, TypeOK
<1>4. printed = <<>> /\ abandoned = {} /\ done = "none" /\ HistoryVersions = <<>>
  BY DEF Inv, Ownership
<1>5. Ownership'
  BY <1>3, <1>4 DEF Ownership, Entered
<1>6. RowsAreResult'
  BY DEF Inv, RowsAreResult
<1>7. RowsInOrder'
  <2>1. \A k \in 1..Len(printed') : FALSE
    BY <1>4, EmptyHasNoIndex
  <2>2. QED
    BY <2>1 DEF RowsInOrder
<1>8. Aligned'
  BY <1>3 DEF Inv, Aligned, Entered, Handling
<1>9. QED
  BY <1>1, <1>5, <1>6, <1>7, <1>8 DEF Inv

\* The list arrives: no row has been shown, the next one has the number 0.
LEMMA QueryInv ==
  ASSUME Inv, NEW f \in Flows, NEW ids \in Listings, QueryVersionIDs(f, ids)
  PROVE  Inv'
<1>1. TypeOK' /\ InRange' /\ frame'[f].i = 0
  BY QuerySound, QueryFacts DEF Inv, Sound
<1>2. /\ pc[f] = "querying" /\ pc' = [pc EXCEPT ![f] = "replaying"]
      /\ UNCHANGED <<flags, lock, HistoryVersions, ClientUserAgent, counter,
                     savedResponse, done, printed, abandoned>>
  BY DEF QueryVersionIDs
<1>3. \A g \in Flows : pc[g] \in Entered => g = f
  BY <1>2 DEF Inv, Ownership, Entered, Handling
<1>4. \A g \in Flows : pc'[g] \in Entered => g = f /\ pc'[g] = "replaying"
  BY <1>2, <1>3 DEF Inv, TypeOK
<1>5. printed = <<>> /\ abandoned = {} /\ done = "none" /\ lock
  BY <1>2 DEF Inv, Ownership, Entered, Handling
<1>6. Ownership'
  BY <1>2, <1>4, <1>5 DEF Ownership, Entered, Handling
<1>7. RowsAreResult'
  BY <1>2 DEF Inv, RowsAreResult
<1>8. printed' = <<>> /\ Len(<<>>) = 0
  BY <1>2, <1>5
<1>9. RowsInOrder' /\ Aligned'
  BY <1>1, <1>4, <1>8 DEF RowsInOrder, Aligned, Entered, Handling
<1>10. QED
  BY <1>1, <1>6, <1>7, <1>9 DEF Inv

\* What holds of the flow that replays: its locals, and that it is alone.
LEMMA Replaying ==
  ASSUME Inv, NEW f \in Flows, pc[f] = "replaying", frame[f].index < frame[f].end
  PROVE  /\ frame \in [Flows -> Frame] /\ frame[f] \in Frame
         /\ frame[f].index \in Nat /\ frame[f].latest = frame[f].body
         /\ frame[f].versionIDs \in Seq(Versions)
         /\ frame[f].index + 1 \in 1..Len(frame[f].versionIDs)
         /\ lock /\ done = "none"
         /\ \A g \in Flows : pc[g] \in Entered => g = f
<1>1. pc[f] \in Entered /\ pc[f] \in Handling
  BY DEF Entered, Handling
<1>2. lock /\ done = "none" /\ \A g \in Flows : pc[g] \in Entered => g = f
  BY <1>1 DEF Inv, Ownership
<1>3. QED
  BY <1>2, ReplayingFrame DEF Inv, Sound

\* A failed attempt with retries left changes the budget only.
LEMMA RetryInv ==
  ASSUME Inv, NEW f \in Flows, ReplayRetries(f)
  PROVE  Inv'
<1> DEFINE in == frame[f]
           out == [in EXCEPT !.retry = @ - 1]
<1>1. pc[f] = "replaying" /\ in.index < in.end /\ in.retry > 0
      /\ frame' = [frame EXCEPT ![f] = out]
      /\ UNCHANGED <<lock, pc, HistoryVersions, done, printed, abandoned>>
  BY DEF ReplayRetries
<1>2. frame \in [Flows -> Frame] /\ in \in Frame
  BY <1>1, Replaying
<1> HIDE DEF in
<1>3. out.index = in.index /\ out.i = in.i /\ out.versionIDs = in.versionIDs
  BY <1>1, <1>2, RetryFacts
<1> HIDE DEF out
<1>4. \A g \in Flows : /\ frame'[g].index = frame[g].index /\ frame'[g].i = frame[g].i
                       /\ frame'[g].versionIDs = frame[g].versionIDs
  BY <1>1, <1>2, <1>3 DEF in
<1>5. TypeOK' /\ InRange'
  BY RetrySound DEF Inv, Sound
<1>6. Ownership' /\ RowsAreResult'
  BY <1>1 DEF Inv, Ownership, RowsAreResult
<1>7. RowsInOrder'
  BY <1>1, <1>4 DEF Inv, RowsInOrder
<1>8. Aligned'
  BY <1>1, <1>4 DEF Inv, Aligned
<1>9. QED
  BY <1>5, <1>6, <1>7, <1>8 DEF Inv

\* A version given up leaves no row and no entry of the result.
LEMMA GiveUpInv ==
  ASSUME Inv, NEW f \in Flows, ReplayGivesUp(f)
  PROVE  Inv'
<1> DEFINE in == frame[f]
           out == NextVersion(in)
<1>1. pc[f] = "replaying" /\ in.index < in.end
      /\ abandoned' = abandoned \cup {in.index}
      /\ frame' = [frame EXCEPT ![f] = out]
      /\ UNCHANGED <<lock, pc, HistoryVersions, done, printed>>
  BY DEF ReplayGivesUp
<1>2. /\ frame \in [Flows -> Frame] /\ in \in Frame /\ in.index \in Nat /\ lock
      /\ \A g \in Flows : pc[g] \in Entered => g = f
  BY <1>1, Replaying
<1>3. out.index = in.index + 1 /\ out.versionIDs = in.versionIDs
  BY <1>2, NextVersionFacts
<1>4. pc[f] \in Entered
  BY <1>1 DEF Entered, Handling
<1>5. \A k \in 1..Len(printed) : printed[k].Index \in Int /\ printed[k].Index < in.index
  <2>1. printed \in Seq(Row)
    BY DEF Inv, TypeOK
  <2>2. \A k \in 1..Len(printed) : printed[k] \in Row
    BY <2>1
  <2>3. QED
    BY <1>4, <2>2 DEF Inv, RowsInOrder, Row
<1> HIDE DEF out
<1>6. frame'[f] = out
  BY <1>1, <1>2
<1>7. TypeOK' /\ InRange'
  BY GiveUpSound DEF Inv, Sound
<1>8. \A g \in Flows : pc'[g] \in Entered => g = f /\ pc'[g] = "replaying"
  BY <1>1, <1>2
<1>9. Ownership'
  BY <1>1, <1>8 DEF Inv, Ownership, Entered, Handling
<1>10. RowsAreResult'
  BY <1>1 DEF Inv, RowsAreResult
<1>11. RowsInOrder'
  <2>1. \A k \in 1..Len(printed) : printed[k].Index < out.index
    BY <1>2, <1>3, <1>5
  <2>2. QED
    BY <1>1, <1>3, <1>4, <1>6, <1>8, <2>1 DEF Inv, RowsInOrder
<1>12. Aligned'
  BY <1>1 DEF Aligned
<1>13. QED
  BY <1>7, <1>9, <1>10, <1>11, <1>12 DEF Inv

\* A successful replay appends the version the index names.
LEMMA SucceedInv ==
  ASSUME Inv, NEW f \in Flows, NEW dumpError \in BOOLEAN, ReplaySucceeds(f, dumpError)
  PROVE  Inv'
<1> DEFINE in == frame[f]
           out == NextVersion(in)
           version == in.versionIDs[in.index + 1]
           row == [ActualIndex |-> in.i, Index |-> in.index, version |-> version,
                   dumpError |-> dumpError]
<1>1. /\ pc[f] = "replaying" /\ in.index < in.end
      /\ version \in Versions /\ row \in Row
      /\ HistoryVersions' = Append(HistoryVersions, version)
      /\ printed' = Append(printed, row)
      /\ frame' = [frame EXCEPT ![f] = out]
      /\ UNCHANGED <<lock, pc, done, abandoned>>
  BY SucceedFacts DEF Inv, Sound
<1>2. /\ frame \in [Flows -> Frame] /\ in \in Frame /\ in.index \in Nat
      /\ in.index + 1 \in 1..Len(in.versionIDs) /\ in.versionIDs \in Seq(Versions)
      /\ lock /\ done = "none"
      /\ \A g \in Flows : pc[g] \in Entered => g = f
  BY <1>1, Replaying
<1>3. out.index = in.index + 1 /\ out.i = in.i + 1 /\ out.versionIDs = in.versionIDs
  BY <1>2, NextVersionFacts
<1>4. pc[f] \in Entered
  BY <1>1 DEF Entered, Handling
<1>5. row.ActualIndex = in.i /\ row.Index = in.index /\ row.version = version
  OBVIOUS
<1>6. in.i \in Nat
  BY <1>2 DEF Frame
<1> HIDE DEF row, version, out, in
<1>7. frame'[f] = out
  BY <1>1, <1>2
<1>8. HistoryVersions \in Seq(Versions) /\ printed \in Seq(Row)
  BY DEF Inv, TypeOK
<1>9. TypeOK' /\ InRange'
  BY SucceedSound DEF Inv, Sound
<1>10. /\ Len(printed') = Len(printed) + 1 /\ Len(HistoryVersions') = Len(HistoryVersions) + 1
       /\ printed'[Len(printed) + 1] = row
       /\ HistoryVersions'[Len(HistoryVersions) + 1] = version
       /\ \A k \in 1..Len(printed) : printed'[k] = printed[k]
       /\ \A k \in 1..Len(HistoryVersions) : HistoryVersions'[k] = HistoryVersions[k]
  BY <1>1, <1>8, AppendFacts
<1>11. Len(printed) \in Nat /\ Len(printed) = Len(HistoryVersions)
  BY <1>8 DEF Inv, RowsAreResult
<1>12. \A k \in 1..Len(printed') : k \in 1..Len(printed) \/ k = Len(printed) + 1
  BY <1>10, <1>11
<1>13. \A g \in Flows : pc'[g] \in Entered => g = f /\ pc'[g] = "replaying"
  BY <1>1, <1>2
<1>14. Ownership'
  BY <1>1, <1>2, <1>13 DEF Inv, Ownership, Entered, Handling
<1>15. RowsAreResult'
  BY <1>5, <1>10, <1>11, <1>12 DEF Inv, RowsAreResult
<1>16. \A k \in 1..Len(printed) :
         /\ printed[k].Index \in 0..(Len(in.versionIDs) - 1)
         /\ printed[k].version = in.versionIDs[printed[k].Index + 1]
         /\ printed[k].Index < in.index
         /\ \A j \in 1..(k-1) : printed[j].Index < printed[k].Index
  BY <1>4 DEF Inv, RowsInOrder, in
<1>17. RowsInOrder'
  <2>1. SUFFICES ASSUME NEW k \in 1..Len(printed')
                 PROVE  /\ printed'[k].Index \in 0..(Len(out.versionIDs) - 1)
                        /\ printed'[k].version = out.versionIDs[printed'[k].Index + 1]
                        /\ printed'[k].Index < out.index
                        /\ \A j \in 1..(k-1) : printed'[j].Index < printed'[k].Index
    BY <1>7, <1>13 DEF RowsInOrder
  <2>2. CASE k \in 1..Len(printed)
    <3>1. printed'[k] = printed[k] /\ \A j \in 1..(k-1) : printed'[j] = printed[j]
      BY <1>10, <1>11, <2>2
    <3>2. printed[k].Index \in Int /\ printed[k].Index < in.index + 1
      BY <1>2, <1>16, <2>2
    <3>3. QED
      BY <1>3, <1>16, <2>2, <3>1, <3>2
  <2>3. CASE k = Len(printed) + 1
    <3>1. printed'[k] = row /\ \A j \in 1..(k-1) : printed'[j] = printed[j]
      BY <1>10, <1>11, <2>3
    <3>2. row.Index \in 0..(Len(in.versionIDs) - 1) /\ row.Index < in.index + 1
      BY <1>2, <1>5
    <3>3. row.version = in.versionIDs[row.Index + 1]
      BY <1>5 DEF version
    <3>4. \A j \in 1..(k-1) : printed'[j].Index < row.Index
      BY <1>5, <1>11, <1>16, <2>3, <3>1
    <3>5. QED
      BY <1>3, <3>1, <3>2, <3>3, <3>4
  <2>4. QED
    BY <1>12, <2>2, <2>3
<1>18. Aligned'
  <2>1. SUFFICES ASSUME abandoned = {}
                 PROVE  /\ out.i = Len(printed')
                        /\ \A k \in 1..Len(printed') : printed'[k].ActualIndex = k - 1
    BY <1>1, <1>7, <1>13 DEF Aligned, Entered, Handling
  <2>2. in.i = Len(printed) /\ \A k \in 1..Len(printed) : printed[k].ActualIndex = k - 1
    BY <1>1, <2>1 DEF Inv, Aligned, in
  <2>3. QED
    BY <1>3, <1>5, <1>10, <1>11, <1>12, <2>2
<1>19. QED
  BY <1>9, <1>14, <1>15, <1>17, <1>18 DEF Inv

\* Every step of the hook and of handleBuyRequest keeps Inv.
LEMMA NextInv == Inv /\ [Next]_vars => Inv'
<1> SUFFICES ASSUME Inv, [Next]_vars PROVE Inv'
  OBVIOUS
<1>1. CASE UNCHANGED vars
  BY <1>1 DEF vars, Inv, TypeOK, Ownership, InRange, RowsAreResult, RowsInOrder, Aligned
<1>2. CASE \E f \in Flows : Request(f)
  BY <1>2, MoveInv, EnterInv DEF Request
<1>3. CASE \E f \in Flows : handleBuyRequest(f)
  BY <1>3, MoveInv, QueryInv, SucceedInv, RetryInv, GiveUpInv DEF handleBuyRequest, Step
<1>4. QED
  BY <1>1, <1>2, <1>3 DEF Next, Idle

-----------------------------------------------------------------------------
(* The theorems.                                                            *)

\* Inv holds in every state of the addon.
THEOREM Invariance == Spec => []Inv
<1>1. Init => Inv
  BY InitInv
<1>2. Inv /\ [Next]_vars => Inv'
  BY NextInv
<1>3. QED
  BY <1>1, <1>2, PTL DEF Spec

\* The addon's variables keep their types; in particular c.HistoryVersions only
\* ever holds versions, and the retry budget stays in 0..3.
THEOREM TypeCorrect == Spec => []TypeOK
<1>1. Inv => TypeOK
  BY DEF Inv
<1>2. QED
  BY <1>1, Invariance, PTL

\* For every list, range and number of failed attempts, the versions shown are
\* those their indexes name, in the order of the list and without repetition.
THEOREM InOrder == Spec => []ReplayedInOrder
<1>1. Inv => ReplayedInOrder
  <2> SUFFICES ASSUME Inv, NEW f \in Flows, pc[f] \in Entered
               PROVE  /\ Len(HistoryVersions) = Len(printed)
                      /\ \A k \in 1..Len(printed) :
                           /\ printed[k].Index + 1 \in 1..Len(frame[f].versionIDs)
                           /\ printed[k].version = frame[f].versionIDs[printed[k].Index + 1]
                           /\ HistoryVersions[k] = printed[k].version
                           /\ \A j \in 1..(k-1) : printed[j].Index < printed[k].Index
    BY DEF ReplayedInOrder
  <2>1. frame[f].versionIDs \in Seq(Versions)
    BY DEF Inv, TypeOK, Frame
  <2>2. Len(frame[f].versionIDs) \in Nat
    BY <2>1
  <2>3. \A k \in 1..Len(printed) : printed[k].Index + 1 \in 1..Len(frame[f].versionIDs)
    BY <2>2 DEF Inv, RowsInOrder
  <2>4. QED
    BY <2>3 DEF Inv, RowsInOrder, RowsAreResult
<1>2. QED
  BY <1>1, Invariance, PTL

\* While no version has been given up, the number in front of a row is its
\* index in c.HistoryVersions, whatever was retried.
THEOREM Alignment == Spec => []AlignedUnlessAbandoned
<1>1. Inv => AlignedUnlessAbandoned
  BY DEF Inv, Aligned, AlignedUnlessAbandoned
<1>2. QED
  BY <1>1, Invariance, PTL

-----------------------------------------------------------------------------
(* The addon implements QueryOnce.                                          *)

\* A successful replay appends one version and nothing else.
LEMMA SucceedAppends ==
  ASSUME Inv, NEW f \in Flows, NEW dumpError \in BOOLEAN, ReplaySucceeds(f, dumpError)
  PROVE  /\ \E v \in Versions : HistoryVersions' = Append(HistoryVersions, v)
         /\ lock /\ done = "none" /\ UNCHANGED <<lock, done>>
<1>1. /\ pc[f] = "replaying" /\ frame[f].index < frame[f].end
      /\ \E v \in Versions : HistoryVersions' = Append(HistoryVersions, v)
      /\ UNCHANGED <<lock, done>>
  BY SucceedFacts DEF Inv, Sound
<1>2. QED
  BY <1>1, Replaying

\* However many requests interleave, the addon runs one query, hands over once
\* and never touches the result afterwards: what main relies on.
THEOREM Implements == Spec => DeliversOnce
<1>1. Init => QO!Init
  BY DEF Init, QO!Init
<1>2. ASSUME Inv, [Next]_vars
      PROVE  [QO!Next]_(QO!vars)
  <2>1. CASE UNCHANGED <<lock, done, HistoryVersions>>
    BY <2>1 DEF QO!vars
  <2>2. ASSUME NEW f \in Flows, Request(f) PROVE [QO!Next]_(QO!vars)
    <3>1. CASE PassThrough(f)
      BY <2>1, <3>1 DEF PassThrough
    <3>2. CASE \E body \in Versions, userAgent \in {"", "client"} :
                  EnterBuyRequest(f, body, userAgent)
      <4>1. ~lock /\ lock' = TRUE /\ UNCHANGED <<done, HistoryVersions>>
        BY <3>2 DEF EnterBuyRequest
      <4>2. done = "none"
        BY <1>2, <4>1 DEF Inv, Ownership
      <4>3. QO!Begin
        BY <4>1, <4>2 DEF QO!Begin
      <4>4. QED
        BY <4>3 DEF QO!Next
    <3>3. QED
      BY <2>2, <3>1, <3>2 DEF Request
  <2>3. ASSUME NEW f \in Flows, handleBuyRequest(f) PROVE [QO!Next]_(QO!vars)
    <3>1. CASE SendDone(f)
      <4>1. pc[f] \in Entered /\ done = "none" /\ done' \in {"true", "false"}
            /\ UNCHANGED <<lock, HistoryVersions>>
        BY <3>1 DEF SendDone, Entered, Handling
      <4>2. lock
        BY <1>2, <4>1 DEF Inv, Ownership
      <4>3. QO!Deliver
        BY <4>1, <4>2 DEF QO!Deliver
      <4>4. QED
        BY <4>3 DEF QO!Next
    <3>2. CASE \E dumpError \in BOOLEAN : ReplaySucceeds(f, dumpError)
      <4>1. /\ \E v \in Versions : HistoryVersions' = Append(HistoryVersions, v)
            /\ lock /\ done = "none" /\ UNCHANGED <<lock, done>>
        BY <1>2, <3>2, SucceedAppends
      <4>2. PICK v \in Versions : HistoryVersions' = Append(HistoryVersions, v)
        BY <4>1
      <4>3. QO!Find(v)
        BY <4>1, <4>2 DEF QO!Find
      <4>4. QED
        BY <4>3 DEF QO!Next
    <3>3. CASE \/ \E ids \in Listings : QueryVersionIDs(f, ids)
               \/ QueryPanics(f) \/ ReplayRetries(f) \/ ReplayGivesUp(f) \/ ReplaysFinish(f)
      <4>1. UNCHANGED <<lock, done, HistoryVersions>>
        BY <3>3 DEF QueryVersionIDs, QueryPanics, ReplayRetries, ReplayGivesUp, ReplaysFinish
      <4>2. QED
        BY <2>1, <4>1
    <3>4. QED
      BY <2>3, <3>1, <3>2, <3>3 DEF handleBuyRequest, Step
  <2>4. QED
    BY <1>2, <2>1, <2>2, <2>3 DEF Next, Idle, vars
<1>3. QED
  BY <1>1, <1>2, Invariance, PTL DEF Spec, DeliversOnce, QO!Spec
=============================================================================
