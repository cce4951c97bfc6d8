-------------------------- MODULE AddonTallyProofs --------------------------
(***************************************************************************)
(* More theorems about Addon: what is counted.  No version of the range is *)
(* lost, each has four attempts of its own, and what was saved with -dump  *)
(* is not overwritten by a later attempt.                                  *)
(*                                                                         *)
(* Tally says what the rows shown, the versions given up, the counter and  *)
(* the files have to do with the place of the loop.  It is inductive       *)
(* together with Inv, which has the loop inside the list and its flow      *)
(* alone.                                                                  *)
(***************************************************************************)
EXTENDS AddonProofs, FiniteSetTheorems

Shown == {printed[k].Index : k \in 1..Len(printed)}

\* The loop has begun, and was not cut off by a panic of the query.
Looping(f) == pc[f] \in {"replaying", "sendTrue"} \/ (pc[f] = "returned" /\ done = "true")

LoopRange(f) == IndexRange(Len(frame[f].versionIDs), flags.Start, flags.End)

\* Before the loop begins there was no attempt.
Untouched ==
    /\ \A f \in Flows : pc[f] \in {"idle", "querying"} => frame[f].retry = MaxRetry
    /\ ~lock => counter = 0
    /\ \A f \in Flows : pc[f] = "querying" => counter = 0

\* The indexes before the current one are shown or given up, and never both.
Covered ==
    \A f \in Flows : Looping(f) =>
      /\ frame[f].end = LoopRange(f).end
      /\ LoopRange(f).start <= frame[f].index /\ frame[f].index <= LoopRange(f).end
      /\ Shown \cup abandoned = LoopRange(f).start..(frame[f].index - 1)
      /\ Shown \cap abandoned = {}
      /\ pc[f] # "replaying" => frame[f].index = LoopRange(f).end

\* The file of every row that was saved has the number of an earlier attempt.
Kept ==
    flags.DumpResponses =>
      \A k \in 1..Len(printed) : ~printed[k].dumpError =>
        \E p \in savedResponse : p[1] <= counter /\ p[2] = printed[k].version

Tally == Untouched /\ Covered /\ IsFiniteSet(abandoned) /\ FourAttemptsEach /\ Kept

-----------------------------------------------------------------------------
\* A fresh addon has counted nothing.
LEMMA TallyInit == Init => Tally
<1> SUFFICES ASSUME Init PROVE Tally
  OBVIOUS
<1>1. \A f \in Flows : pc[f] = "idle" /\ frame[f].retry = MaxRetry
  BY DEF Init
<1>2. counter = 0 /\ abandoned = {} /\ printed = <<>>
  BY DEF Init
<1>3. Untouched /\ Covered /\ FourAttemptsEach
  BY <1>1, <1>2 DEF Untouched, Covered, Looping, FourAttemptsEach, Entered, Handling
<1>4. IsFiniteSet(abandoned)
  BY <1>2, FS_EmptySet
<1>5. Kept
  BY <1>2, EmptyHasNoIndex DEF Kept
<1> QED
  BY <1>3, <1>4, <1>5 DEF Tally

\* The counters of a flow that has not replayed anything.
LEMMA NothingCounted ==
  ASSUME Inv, printed = <<>>, abandoned = {}
  PROVE  /\ Len(printed) = 0 /\ Cardinality(abandoned) = 0 /\ IsFiniteSet(abandoned)
         /\ Shown = {}
BY FS_EmptySet, EmptyHasNoIndex DEF Shown

\* The names of the saved responses are numbers.
LEMMA SavedNumbers == Inv => \A p \in savedResponse : p[1] \in Nat
BY DEF Inv, TypeOK

\* Steps that only move a flow from one place of the code to the next.
LEMMA TallyMove ==
  ASSUME Inv, Tally, NEW f \in Flows,
         PassThrough(f) \/ QueryPanics(f) \/ ReplaysFinish(f) \/ SendDone(f)
  PROVE  Tally'
<1> USE DEF PassThrough, QueryPanics, ReplaysFinish, SendDone
<1>1. UNCHANGED <<flags, lock, frame, counter, savedResponse, printed, abandoned>>
  OBVIOUS
<1>2. \A g \in Flows : /\ pc'[g] \in {"idle", "querying"} => pc'[g] = pc[g]
                       /\ pc'[g] \in Entered => pc[g] \in Entered
  BY DEF Inv, TypeOK, Entered, Handling
<1>3. Untouched'
  BY <1>1, <1>2 DEF Tally, Untouched
<1>4. Covered'
  <2> SUFFICES ASSUME NEW g \in Flows, Looping(g)'
               PROVE  /\ frame[g].end = LoopRange(g).end
                      /\ LoopRange(g).start <= frame[g].index
                      /\ frame[g].index <= LoopRange(g).end
                      /\ Shown \cup abandoned = LoopRange(g).start..(frame[g].index - 1)
                      /\ Shown \cap abandoned = {}
                      /\ pc'[g] # "replaying" => frame[g].index = LoopRange(g).end
    BY <1>1 DEF Covered, LoopRange, Shown
  <2>1. \A h \in Flows : pc[g] \in Entered /\ pc[h] \in Entered => g = h
    BY DEF Inv, Ownership
  <2>2. Looping(g)
    BY <2>1 DEF Looping, Inv, TypeOK, Entered, Handling
  <2>3. frame[g].index \in Int /\ frame[g].end \in Int
    BY DEF Inv, TypeOK, Frame
  <2>4. pc'[g] # "replaying" /\ pc[g] = "replaying" => frame[g].index >= frame[g].end
    BY DEF Inv, TypeOK
  <2> QED
    BY <2>2, <2>3, <2>4 DEF Tally, Covered
<1>5. FourAttemptsEach'
  BY <1>1, <1>2 DEF Tally, FourAttemptsEach
<1>6. Kept'
  BY <1>1 DEF Tally, Kept
<1> QED
  BY <1>1, <1>3, <1>4, <1>5, <1>6 DEF Tally

\* A flow takes the lock.
LEMMA TallyEnter ==
  ASSUME Inv, Tally, NEW f \in Flows, NEW body \in Versions,
         NEW userAgent, EnterBuyRequest(f, body, userAgent)
  PROVE  Tally'
<1>1. /\ pc[f] = "idle" /\ ~lock /\ lock' /\ pc' = [pc EXCEPT ![f] = "querying"]
      /\ frame' = [frame EXCEPT ![f].body = body]
      /\ UNCHANGED <<flags, counter, savedResponse, printed, abandoned>>
  BY DEF EnterBuyRequest
<1>2. \A g \in Flows : pc'[g] \in Entered => g = f /\ pc'[g] = "querying"
  BY <1>1 DEF Inv, TypeOK, Ownership
<1>3. /\ printed = <<>> /\ abandoned = {} /\ counter = 0
      /\ Len(printed) = 0 /\ Cardinality(abandoned) = 0
  BY <1>1, NothingCounted DEF Inv, Ownership, Tally, Untouched
<1>4. \A g \in Flows : frame'[g].retry = frame[g].retry
  <2>1. frame \in [Flows -> Frame] /\ frame[f] \in Frame
    BY DEF Inv, TypeOK
  <2>2. [frame[f] EXCEPT !.body = body].retry = frame[f].retry
    BY <2>1 DEF Frame
  <2>3. frame' = [frame EXCEPT ![f] = [frame[f] EXCEPT !.body = body]]
    BY <1>1
  <2> QED
    BY <2>1, <2>2, <2>3
<1>5. Untouched'
  BY <1>1, <1>3, <1>4 DEF Inv, TypeOK, Tally, Untouched
<1>6. Covered'
  BY <1>2 DEF Covered, Looping, Entered, Handling
<1>7. frame'[f].retry = MaxRetry
  BY <1>1, <1>4 DEF Tally, Untouched
<1>8. FourAttemptsEach'
  BY <1>1, <1>2, <1>3, <1>7 DEF FourAttemptsEach, MaxRetry
<1>9. Kept'
  BY <1>1 DEF Tally, Kept
<1> QED
  BY <1>1, <1>5, <1>6, <1>8, <1>9 DEF Tally

\* The list arrives: the loop is at the first index of the range.
LEMMA TallyQuery ==
  ASSUME Inv, Tally, NEW f \in Flows, NEW ids \in Listings, QueryVersionIDs(f, ids)
  PROVE  Tally'
<1> DEFINE range == IndexRange(Len(ids), flags.Start, flags.End)
<1>1. /\ pc[f] = "querying" /\ pc' = [pc EXCEPT ![f] = "replaying"]
      /\ UNCHANGED <<flags, lock, counter, savedResponse, done, printed, abandoned>>
  BY DEF QueryVersionIDs
<1>2. /\ frame' = [frame EXCEPT ![f] = frame'[f]] /\ frame'[f].versionIDs = ids
      /\ frame'[f].index = range.start /\ frame'[f].end = range.end
      /\ frame'[f].retry = MaxRetry
      /\ range.start \in Nat /\ range.end \in Nat /\ range.start <= range.end
  <2> HIDE DEF range
  <2> QED
    BY QueryFacts DEF Inv, Sound, range
<1> HIDE DEF range
<1>3. \A g \in Flows : pc'[g] \in Entered => g = f /\ pc'[g] = "replaying"
  BY <1>1 DEF Inv, TypeOK, Ownership, Entered, Handling
<1>4. /\ printed = <<>> /\ abandoned = {} /\ counter = 0 /\ Shown = {}
      /\ Len(printed) = 0 /\ Cardinality(abandoned) = 0
  BY <1>1, NothingCounted DEF Inv, Ownership, Tally, Untouched
<1>5. Untouched'
  <2>1. \A g \in Flows : pc'[g] \in {"idle", "querying"} => pc'[g] = pc[g] /\ frame'[g] = frame[g]
    BY <1>1, <1>2 DEF Inv, TypeOK
  <2> QED
    BY <1>1, <2>1 DEF Tally, Untouched
<1>6. Covered'
  <2>1. LoopRange(f)' = range
    BY <1>1, <1>2 DEF LoopRange, range
  <2>2. Shown' = {} /\ abandoned' = {}
    BY <1>1, <1>4 DEF Shown
  <2>3. range.start..(range.start - 1) = {}
    BY <1>2
  <2>4. \A g \in Flows : Looping(g)' => g = f /\ pc'[g] = "replaying"
    BY <1>3 DEF Looping, Entered, Handling
  <2> QED
    BY <1>2, <2>1, <2>2, <2>3, <2>4 DEF Covered
<1>7. FourAttemptsEach'
  BY <1>1, <1>2, <1>3, <1>4 DEF FourAttemptsEach, MaxRetry
<1>8. Kept'
  BY <1>1 DEF Tally, Kept
<1> QED
  BY <1>1, <1>5, <1>6, <1>7, <1>8 DEF Tally

\* What is known of the flow that replays.
LEMMA TallyReplaying ==
  ASSUME Inv, Tally, NEW f \in Flows, pc[f] = "replaying", frame[f].index < frame[f].end
  PROVE  /\ frame \in [Flows -> Frame] /\ frame[f] \in Frame
         /\ frame[f].index \in Nat /\ frame[f].end \in Int /\ frame[f].retry \in 0..3
         /\ pc[f] \in Entered /\ \A g \in Flows : pc[g] \in Entered => g = f
         /\ lock /\ counter \in Nat /\ Len(printed) \in Nat /\ Cardinality(abandoned) \in Nat
         /\ Len(printed) + 4 * Cardinality(abandoned) + (3 - frame[f].retry) <= counter
         /\ counter <= 4 * (Len(printed) + Cardinality(abandoned)) + (3 - frame[f].retry)
         /\ LoopRange(f).start \in Int
         /\ frame[f].end = LoopRange(f).end /\ LoopRange(f).start <= frame[f].index
         /\ Shown \cup abandoned = LoopRange(f).start..(frame[f].index - 1)
         /\ Shown \cap abandoned = {}
<1>1. /\ frame \in [Flows -> Frame] /\ frame[f] \in Frame /\ frame[f].index \in Nat
      /\ lock /\ \A g \in Flows : pc[g] \in Entered => g = f
  BY Replaying
<1>2. frame[f].end \in Int /\ frame[f].retry \in 0..3 /\ frame[f].versionIDs \in Seq(Versions)
  BY <1>1 DEF Frame, MaxRetry
<1>3. pc[f] \in Entered /\ Looping(f)
  BY DEF Entered, Handling, Looping
<1>4. counter \in Nat /\ printed \in Seq(Row)
  BY DEF Inv, TypeOK
<1>5. Len(printed) \in Nat /\ Cardinality(abandoned) \in Nat
  <2>1. Len(printed) \in Nat
    BY <1>4
  <2>2. IsFiniteSet(abandoned)
    BY DEF Tally
  <2> QED
    BY <2>1, <2>2, FS_CardinalityType
<1>6. /\ Len(printed) + 4 * Cardinality(abandoned) + (3 - frame[f].retry) <= counter
      /\ counter <= 4 * (Len(printed) + Cardinality(abandoned)) + (3 - frame[f].retry)
  BY <1>3 DEF Tally, FourAttemptsEach, MaxRetry
<1>7. LoopRange(f).start \in Int
  <2>1. flags.Start \in Int /\ flags.End \in Int
    BY ConstantsAssumption DEF Inv, TypeOK
  <2>2. Len(frame[f].versionIDs) \in Nat
    BY <1>2
  <2>3. LoopRange(f).start \in 0..Len(frame[f].versionIDs)
    BY <2>1, <2>2, IndexRangeInside DEF LoopRange
  <2> QED
    BY <2>2, <2>3
<1>8. /\ frame[f].end = LoopRange(f).end /\ LoopRange(f).start <= frame[f].index
      /\ Shown \cup abandoned = LoopRange(f).start..(frame[f].index - 1)
      /\ Shown \cap abandoned = {}
  BY <1>3 DEF Tally, Covered
<1> QED
  BY <1>1, <1>2, <1>3, <1>4, <1>5, <1>6, <1>7, <1>8

\* A failed attempt with retries left is counted once, and in the budget.
LEMMA TallyRetry ==
  ASSUME Inv, Tally, NEW f \in Flows, ReplayRetries(f)
  PROVE  Tally'
<1> DEFINE in == frame[f]
           out == [in EXCEPT !.retry = @ - 1]
<1>1. /\ pc[f] = "replaying" /\ in.index < in.end /\ in.retry > 0 /\ counter' = counter + 1
      /\ frame' = [frame EXCEPT ![f] = out]
      /\ UNCHANGED <<flags, lock, pc, savedResponse, done, printed, abandoned>>
  BY DEF ReplayRetries
<1>2. /\ frame \in [Flows -> Frame] /\ in \in Frame /\ in.retry \in 0..3
      /\ pc[f] \in Entered /\ \A g \in Flows : pc[g] \in Entered => g = f
      /\ lock /\ counter \in Nat /\ Len(printed) \in Nat /\ Cardinality(abandoned) \in Nat
      /\ Len(printed) + 4 * Cardinality(abandoned) + (3 - in.retry) <= counter
      /\ counter <= 4 * (Len(printed) + Cardinality(abandoned)) + (3 - in.retry)
  BY <1>1, TallyReplaying
<1> HIDE DEF in
<1>3. /\ out.index = in.index /\ out.retry = in.retry - 1 /\ out.end = in.end
      /\ out.versionIDs = in.versionIDs
  BY <1>1, <1>2, RetryFacts
<1> HIDE DEF out
<1>4. /\ frame'[f] = out
      /\ \A g \in Flows : /\ frame'[g].index = frame[g].index /\ frame'[g].end = frame[g].end
                          /\ frame'[g].versionIDs = frame[g].versionIDs
                          /\ pc[g] \notin Entered => frame'[g] = frame[g]
  BY <1>1, <1>2, <1>3 DEF in
<1>5. Untouched'
  <2>1. \A g \in Flows : pc[g] \in {"idle", "querying"} => frame'[g] = frame[g] /\ pc[g] # "querying"
    BY <1>1, <1>2, <1>4 DEF Entered, Handling
  <2> QED
    BY <1>1, <1>2, <2>1 DEF Tally, Untouched
<1>6. Covered'
  <2>1. \A g \in Flows : Looping(g)' = Looping(g) /\ LoopRange(g)' = LoopRange(g)
    BY <1>1, <1>4 DEF Looping, LoopRange
  <2>2. Shown' = Shown
    BY <1>1 DEF Shown
  <2> QED
    BY <1>1, <1>4, <2>1, <2>2 DEF Tally, Covered
<1>7. FourAttemptsEach'
  <2>1. /\ Len(printed) + 4 * Cardinality(abandoned) + (3 - out.retry) <= counter'
        /\ counter' <= 4 * (Len(printed) + Cardinality(abandoned)) + (3 - out.retry)
    BY <1>1, <1>2, <1>3
  <2>2. \A g \in Flows : pc'[g] \in Entered => g = f
    BY <1>1, <1>2
  <2> QED
    BY <1>1, <1>4, <2>1, <2>2 DEF FourAttemptsEach, MaxRetry
<1>8. Kept'
  <2>1. \A p \in savedResponse : p[1] <= counter => p[1] <= counter + 1
    BY <1>2, SavedNumbers
  <2> QED
    BY <1>1, <2>1 DEF Tally, Kept
<1> QED
  BY <1>1, <1>5, <1>6, <1>7, <1>8 DEF Tally

\* The loop goes to the next index when the current one is shown or given up.
LEMMA TallyAdvance ==
  ASSUME Inv, Tally, NEW f \in Flows, pc[f] = "replaying", frame[f].index < frame[f].end,
         frame' = [frame EXCEPT ![f] = NextVersion(frame[f])],
         UNCHANGED <<flags, lock, pc, done>>,
         Shown' \cup abandoned' = (Shown \cup abandoned) \cup {frame[f].index},
         \/ Shown' = Shown /\ abandoned' = abandoned \cup {frame[f].index}
         \/ Shown' = Shown \cup {frame[f].index} /\ abandoned' = abandoned
  PROVE  Untouched' /\ Covered' /\ frame'[f].retry = 3
<1> DEFINE in == frame[f]
           out == NextVersion(in)
           start == LoopRange(f).start
<1>1. /\ frame \in [Flows -> Frame] /\ in \in Frame /\ in.index \in Nat /\ in.end \in Int
      /\ \A g \in Flows : pc[g] \in Entered => g = f
      /\ lock /\ start \in Int /\ in.end = LoopRange(f).end /\ start <= in.index
      /\ Shown \cup abandoned = start..(in.index - 1) /\ Shown \cap abandoned = {}
  BY TallyReplaying
<1>2. /\ out.index = in.index + 1 /\ out.retry = 3 /\ out.end = in.end
      /\ out.versionIDs = in.versionIDs
  BY <1>1, NextVersionFacts DEF MaxRetry
<1>3. frame'[f] = out /\ \A g \in Flows : g # f => frame'[g] = frame[g]
  BY <1>1
<1>4. LoopRange(f)' = LoopRange(f)
  BY <1>2, <1>3 DEF LoopRange
<1>5. in.index \notin Shown /\ in.index \notin abandoned
  <2> HIDE DEF in, start
  <2>1. in.index \notin start..(in.index - 1)
    BY <1>1
  <2> QED
    BY <1>1, <2>1
<1> HIDE DEF in, out, start
<1>6. Shown' \cup abandoned' = start..(out.index - 1) /\ Shown' \cap abandoned' = {}
  <2>1. (start..(in.index - 1)) \cup {in.index} = start..in.index
    BY <1>1
  <2>2. out.index - 1 = in.index
    BY <1>1, <1>2
  <2>3. Shown' \cap abandoned' = {}
    BY <1>1, <1>5 DEF in
  <2> QED
    BY <1>1, <2>1, <2>2, <2>3 DEF in
<1>7. Untouched'
  <2>1. \A g \in Flows : pc[g] \in {"idle", "querying"} => frame'[g] = frame[g] /\ pc[g] # "querying"
    BY <1>1, <1>3 DEF Entered, Handling
  <2> QED
    BY <1>1, <2>1 DEF Tally, Untouched
<1>8. Covered'
  <2>1. \A g \in Flows : Looping(g)' => g = f
    BY <1>1 DEF Looping, Entered, Handling
  <2>2. start <= out.index /\ out.index <= LoopRange(f).end
    BY <1>1, <1>2 DEF in
  <2> QED
    BY <1>1, <1>2, <1>3, <1>4, <1>6, <2>1, <2>2 DEF Covered, start
<1> QED
  BY <1>2, <1>3, <1>7, <1>8

\* A version is given up: its fourth attempt is counted.
LEMMA TallyGiveUp ==
  ASSUME Inv, Tally, NEW f \in Flows, ReplayGivesUp(f)
  PROVE  Tally'
<1> DEFINE in == frame[f]
<1>1. /\ pc[f] = "replaying" /\ in.index < in.end /\ in.retry = 0 /\ counter' = counter + 1
      /\ abandoned' = abandoned \cup {in.index}
      /\ frame' = [frame EXCEPT ![f] = NextVersion(in)]
      /\ UNCHANGED <<flags, lock, pc, savedResponse, done, printed>>
  BY DEF ReplayGivesUp
<1>2. /\ pc[f] \in Entered /\ \A g \in Flows : pc[g] \in Entered => g = f
      /\ counter \in Nat /\ Len(printed) \in Nat /\ Cardinality(abandoned) \in Nat
      /\ Len(printed) + 4 * Cardinality(abandoned) + (3 - in.retry) <= counter
      /\ counter <= 4 * (Len(printed) + Cardinality(abandoned)) + (3 - in.retry)
      /\ in.index \in Nat /\ LoopRange(f).start \in Int
      /\ Shown \cup abandoned = LoopRange(f).start..(in.index - 1)
  BY <1>1, TallyReplaying
<1>3. Shown' = Shown
  BY <1>1 DEF Shown
<1>4. Untouched' /\ Covered' /\ frame'[f].retry = 3
  BY <1>1, <1>3, TallyAdvance
<1>5. in.index \notin abandoned
  <2> HIDE DEF in
  <2>1. in.index \notin LoopRange(f).start..(in.index - 1)
    BY <1>2
  <2> QED
    BY <1>2, <2>1
<1>6. IsFiniteSet(abandoned') /\ Cardinality(abandoned') = Cardinality(abandoned) + 1
  BY <1>1, <1>5, FS_AddElement DEF Tally
<1> HIDE DEF in
<1>7. FourAttemptsEach'
  <2>1. /\ Len(printed) + 4 * (Cardinality(abandoned) + 1) + (3 - 3) <= counter + 1
        /\ counter + 1 <= 4 * (Len(printed) + (Cardinality(abandoned) + 1)) + (3 - 3)
    BY <1>1, <1>2
  <2> QED
    BY <1>1, <1>2, <1>4, <1>6, <2>1 DEF FourAttemptsEach, MaxRetry
<1>8. Kept'
  <2>1. \A p \in savedResponse : p[1] <= counter => p[1] <= counter + 1
    BY <1>2, SavedNumbers
  <2> QED
    BY <1>1, <2>1 DEF Tally, Kept
<1> QED
  BY <1>4, <1>6, <1>7, <1>8 DEF Tally

\* A version is shown: its row has the file with the number of this attempt,
\* and the file of an earlier row has another number.
LEMMA TallySucceed ==
  ASSUME Inv, Tally, NEW f \in Flows, NEW dumpError \in BOOLEAN, ReplaySucceeds(f, dumpError)
  PROVE  Tally'
<1> DEFINE in == frame[f]
           version == in.versionIDs[in.index + 1]
           row == [ActualIndex |-> in.i, Index |-> in.index, version |-> version,
                   dumpError |-> dumpError]
<1>1. /\ pc[f] = "replaying" /\ in.index < in.end
      /\ row \in Row /\ counter' = counter + 1
      /\ printed' = Append(printed, row)
      /\ DumpResponse(counter + 1, version, dumpError)
      /\ frame' = [frame EXCEPT ![f] = NextVersion(in)]
      /\ UNCHANGED <<flags, lock, pc, done, abandoned>>
  BY SucceedFacts DEF Inv, Sound
<1>2. /\ pc[f] \in Entered /\ \A g \in Flows : pc[g] \in Entered => g = f
      /\ in.retry \in 0..3
      /\ counter \in Nat /\ Len(printed) \in Nat /\ Cardinality(abandoned) \in Nat
      /\ Len(printed) + 4 * Cardinality(abandoned) + (3 - in.retry) <= counter
      /\ counter <= 4 * (Len(printed) + Cardinality(abandoned)) + (3 - in.retry)
  BY <1>1, TallyReplaying
<1>3. row.Index = in.index /\ row.version = version /\ row.dumpError = dumpError
  OBVIOUS
<1> HIDE DEF row, version, in
<1>4. /\ Len(printed') = Len(printed) + 1 /\ printed'[Len(printed) + 1] = row
      /\ \A k \in 1..Len(printed) : printed'[k] = printed[k]
  <2>1. printed \in Seq(Row)
    BY DEF Inv, TypeOK
  <2> QED
    BY <1>1, <2>1, AppendFacts
<1>5. 1..Len(printed') = (1..Len(printed)) \cup {Len(printed) + 1}
  BY <1>2, <1>4
<1>6. Shown' = Shown \cup {in.index}
  <2>1. Shown' = {printed'[k].Index : k \in (1..Len(printed)) \cup {Len(printed) + 1}}
    BY <1>5 DEF Shown
  <2>2. {printed'[k].Index : k \in (1..Len(printed)) \cup {Len(printed) + 1}}
          = {printed[k].Index : k \in 1..Len(printed)} \cup {row.Index}
    BY <1>4
  <2> QED
    BY <1>3, <2>1, <2>2 DEF Shown
<1>7. Untouched' /\ Covered' /\ frame'[f].retry = 3
  <2>1. Shown' \cup abandoned' = (Shown \cup abandoned) \cup {in.index}
    BY <1>1, <1>6
  <2> QED
    BY <1>1, <1>6, <2>1, TallyAdvance DEF in
<1>8. FourAttemptsEach'
  <2>1. /\ (Len(printed) + 1) + 4 * Cardinality(abandoned) + (3 - 3) <= counter + 1
        /\ counter + 1 <= 4 * ((Len(printed) + 1) + Cardinality(abandoned)) + (3 - 3)
    BY <1>2
  <2> QED
    BY <1>1, <1>2, <1>4, <1>7, <2>1 DEF FourAttemptsEach, MaxRetry
<1>9. Kept'
  <2> SUFFICES ASSUME flags.DumpResponses, NEW k \in 1..Len(printed'), ~printed'[k].dumpError
               PROVE  \E p \in savedResponse' : p[1] <= counter + 1 /\ p[2] = printed'[k].version
    BY <1>1 DEF Kept
  <2>1. \A p \in savedResponse : p[1] \in Nat
    BY SavedNumbers
  <2>2. \A p \in savedResponse : p[1] # counter + 1 => p \in savedResponse'
    BY <1>1 DEF DumpResponse, WriteFile
  <2>3. CASE k \in 1..Len(printed)
    <3>1. PICK p \in savedResponse : p[1] <= counter /\ p[2] = printed[k].version
      BY <1>4, <2>3 DEF Tally, Kept
    <3>2. p[1] # counter + 1 /\ p[1] <= counter + 1
      BY <1>2, <2>1, <3>1
    <3> QED
      BY <1>4, <2>2, <2>3, <3>1, <3>2
  <2>4. CASE k = Len(printed) + 1
    <3>1. ~dumpError /\ printed'[k].version = version
      BY <1>3, <1>4, <2>4
    <3>2. <<counter + 1, version>> \in savedResponse'
      BY <1>1, <3>1 DEF DumpResponse, WriteFile
    <3>3. <<counter + 1, version>>[1] <= counter + 1
      BY <1>2
    <3> QED
      BY <3>1, <3>2, <3>3
  <2> QED
    BY <1>5, <2>3, <2>4
<1>10. IsFiniteSet(abandoned')
  BY <1>1 DEF Tally
<1> QED
  BY <1>7, <1>8, <1>9, <1>10 DEF Tally

\* Every step of the addon keeps Tally.
LEMMA TallyNext == Inv /\ Tally /\ [Next]_vars => Tally'
<1> SUFFICES ASSUME Inv, Tally, [Next]_vars PROVE Tally'
  OBVIOUS
<1>1. CASE UNCHANGED vars
  BY <1>1 DEF vars, Tally, Untouched, Covered, Looping, LoopRange, Shown, FourAttemptsEach, Kept
<1>2. CASE \E f \in Flows : Request(f)
  BY <1>2, TallyMove, TallyEnter DEF Request
<1>3. CASE \E f \in Flows : handleBuyRequest(f)
  BY <1>3, TallyMove, TallyQuery, TallySucceed, TallyRetry, TallyGiveUp DEF handleBuyRequest, Step
<1>4. QED
  BY <1>1, <1>2, <1>3 DEF Next, Idle

-----------------------------------------------------------------------------
(* The theorems.                                                            *)

\* Tally holds in every state of the addon.
THEOREM TallyInvariance == Spec => [](Inv /\ Tally)
<1>1. Init => Tally
  BY TallyInit
<1>2. Inv /\ Tally /\ [Next]_vars => Tally'
  BY TallyNext
<1>3. QED
  BY <1>1, <1>2, Invariance, PTL DEF Spec

\* When handleBuyRequest reports success, the versions shown and the versions
\* given up are together exactly the range the README documents, for every
\* list and all values of -start and -end, and none is in both.
THEOREM NoVersionLost == Spec => []NothingLost
<1>1. Inv /\ Tally => NothingLost
  <2> SUFFICES ASSUME Inv, Tally, NEW f \in Flows, done = "true", pc[f] = "returned"
               PROVE  /\ Shown \cup abandoned =
                           Selected(Len(frame[f].versionIDs), flags.Start, flags.End)
                      /\ Shown \cap abandoned = {}
    BY DEF NothingLost, Shown
  <2> DEFINE range == LoopRange(f)
  <2>1. /\ Shown \cup abandoned = range.start..(range.end - 1)
        /\ Shown \cap abandoned = {}
    BY DEF Tally, Covered, Looping
  <2>2. flags.Start \in Int /\ flags.End \in Int
    BY ConstantsAssumption DEF Inv, TypeOK
  <2>3. frame[f].versionIDs \in Seq(Versions)
    BY DEF Inv, TypeOK, Frame
  <2>4. Len(frame[f].versionIDs) \in Nat
    BY <2>3
  <2>5. range.start..(range.end - 1) =
           Selected(Len(frame[f].versionIDs), flags.Start, flags.End)
    BY <2>2, <2>4, IndexRangeSelected DEF LoopRange
  <2> QED
    BY <2>1, <2>5
<1>2. QED
  BY <1>1, TallyInvariance, PTL

\* However the attempts fail, no version takes more than four of them and a
\* version is given up only after four.
THEOREM FourAttempts == Spec => []FourAttemptsEach
<1>1. Tally => FourAttemptsEach
  BY DEF Tally
<1>2. QED
  BY <1>1, TallyInvariance, PTL

\* With -dump, the response of a version shown without an error stays on the
\* disk, whatever earlier sessions left there and whatever is saved later.
THEOREM DumpsAreKept == Spec => []DumpsKept
<1>1. Tally => DumpsKept
  BY DEF Tally, Kept, DumpsKept
<1>2. QED
  BY <1>1, TallyInvariance, PTL
=============================================================================
