---------------------------- MODULE SystemProofs ----------------------------
(***************************************************************************)
(* Theorems about System: the addon's goroutines and main together, over   *)
(* any number of launches of the command.                                  *)
(*                                                                         *)
(* The addon's invariant holds until main releases the mutex: after that   *)
(* a late buy request may enter while an earlier one is done, and only     *)
(* what each flow keeps by itself (Sound) is left.  By then main no longer *)
(* looks at the result, and the next launch starts with a fresh addon.     *)
(***************************************************************************)
EXTENDS System, AddonProofs, MainProofs

\* Where main is after it received from the done channel, until mu.Unlock.
Received == {"turnOff", "enterInput", "closing", "unlock"} \cup Prompting

\* The lock is held and the query is over.
Awaited == at \in Received => lock /\ done # "none"

SysInv == Control /\ Sound /\ (at # "recover" => Inv) /\ Awaited /\ SnapshotFinal

-----------------------------------------------------------------------------
(* What the steps of one part do to the other.                              *)

\* FreshInv, for the state after a step.
LEMMA FreshNext == Fresh' => Inv'
<1>1. Fresh => Inv
  BY FreshInv
<1> QED
  BY <1>1, PTL

\* A fresh addon satisfies the addon's invariant, and has nothing to hand over.
LEMMA FreshAddonInv ==
  ASSUME Sound, FreshAddon
  PROVE  Inv' /\ Sound'
<1>1. savedResponse \subseteq Nat \X (Versions \cup {NoVersion})
  BY DEF Sound, TypeOK
<1>2. Fresh'
  BY <1>1 DEF FreshAddon, Fresh
<1> QED
  BY <1>2, FreshNext DEF Inv, Sound

\* Where a step of main alone can lead: it does not receive from the channel
\* and does not release the mutex.
LEMMA MainStepPlaces ==
  ASSUME MainStep, at' # "down"
  PROVE  /\ at' \in Received => at \in Received
         /\ at = "recover" <=> at' = "recover"
         /\ at' \in Prompting => at \in Prompting /\ historyVersions' = historyVersions
<1> USE DEF Received, Prompting
<1>1. CASE \E f \in {"normal", "s", "c", "ps"} : Launch(f)
  BY <1>1 DEF Launch
<1>2. CASE \/ CleanupFlag \/ ShowFlag \/ NewProxyFails \/ ListenFails \/ ServeReturns
           \/ Return \/ HandlerExit \/ Kill
  BY <1>2 DEF CleanupFlag, ShowFlag, NewProxyFails, ListenFails, ServeReturns, Return,
              HandlerExit, Kill, ProcessEnds
<1>3. CASE TurnOn \/ Notify \/ Listen
  BY <1>3 DEF TurnOn, Notify, Listen
<1>4. CASE TurnOff \/ StdinEnds
  BY <1>4 DEF TurnOff, StdinEnds
<1>5. CASE InputContinues
  BY <1>5 DEF InputContinues, mainVars
<1>6. CASE InputEnds \/ InputPanics \/ Quit \/ CloseProxy
  BY <1>6 DEF InputEnds, InputPanics, Quit, CloseProxy
<1>7. CASE \E k \in DOMAIN historyVersions : DumpCommand(k)
  BY <1>7 DEF DumpCommand
<1>8. CASE HandlerReceives \/ HandlerCleanup
  BY <1>8 DEF HandlerReceives, HandlerCleanup
<1>9. CASE Signal
  BY <1>9 DEF Signal, ProcessEnds
<1> QED
  BY <1>1, <1>2, <1>3, <1>4, <1>5, <1>6, <1>7, <1>8, <1>9 DEF MainStep

\* A step of the addon keeps its own invariants.
LEMMA AddonStep ==
  ASSUME Sound, at # "recover" => Inv, NEW f \in Flows, Request(f) \/ handleBuyRequest(f)
  PROVE  Sound' /\ (at # "recover" => Inv')
<1>1. Next
  BY DEF Next
<1>2. Inv => Inv'
  BY <1>1, NextInv
<1> QED
  BY <1>2, SoundStep

\* Once main has received, no goroutine of the addon is in handleBuyRequest or
\* can get there, as long as the mutex is held: the result is final.
LEMMA ResultFinal ==
  ASSUME Inv, lock, done # "none", NEW f \in Flows, Request(f) \/ Step(f)
  PROVE  UNCHANGED <<lock, done, HistoryVersions>>
<1>1. pc[f] \notin Handling
  BY DEF Inv, Ownership
<1>2. ~Step(f)
  BY <1>1 DEF Step, QueryVersionIDs, QueryPanics, ReplaySucceeds, ReplayRetries,
              ReplayGivesUp, ReplaysFinish, Handling
<1>3. ASSUME NEW body, NEW userAgent PROVE ~EnterBuyRequest(f, body, userAgent)
  BY DEF EnterBuyRequest
<1>4. PassThrough(f)
  BY <1>2, <1>3 DEF Request
<1> QED
  BY <1>4 DEF PassThrough

\* A value for main comes from the flow that holds the lock.
LEMMA DeliverFacts ==
  ASSUME Inv, NEW f \in Flows, SendDone(f)
  PROVE  lock' /\ done' # "none"
<1>1. pc[f] \in Entered /\ UNCHANGED lock /\ done' \in {"true", "false"}
  BY DEF SendDone, Entered, Handling
<1> QED
  BY <1>1 DEF Inv, Ownership

-----------------------------------------------------------------------------
(* SysInv is inductive.                                                     *)

\* No process runs and nothing was launched.
LEMMA SysInitInv == SysInit => SysInv
<1> SUFFICES ASSUME SysInit PROVE SysInv
  OBVIOUS
<1>1. Inv /\ Control /\ at = "down"
  BY InitInv, MainInitInv DEF SysInit, MainInv, MainInit
<1> QED
  BY <1>1 DEF SysInv, Inv, Sound, Awaited, SnapshotFinal, Received, Prompting

\* Steps of main alone, and the ends of the process.
LEMMA MainSysInv ==
  ASSUME SysInv, ProcessDown \/ ProcessRuns
  PROVE  SysInv'
<1>1. Control'
  BY MainStepControl DEF SysInv, ProcessDown, ProcessRuns, AddonGone, AddonStays
<1>2. CASE ProcessDown
  <2>1. Inv' /\ Sound' /\ at' = "down"
    BY <1>2, FreshAddonInv DEF SysInv, ProcessDown, AddonGone
  <2> QED
    BY <1>1, <2>1 DEF SysInv, Awaited, SnapshotFinal, Received, Prompting
<1>3. CASE ProcessRuns
  <2>1. UNCHANGED vars /\ MainStep /\ at' # "down"
    BY <1>3 DEF ProcessRuns, AddonStays, addonVars
  <2>2. Sound' /\ (Inv => Inv')
    BY <2>1, NextInv DEF SysInv, Sound, TypeOK, InRange, vars
  <2>3. UNCHANGED <<lock, done, HistoryVersions>>
    BY <2>1 DEF vars
  <2> QED
    BY <1>1, <2>1, <2>2, <2>3, MainStepPlaces DEF SysInv, Awaited, SnapshotFinal
<1> QED
  BY <1>2, <1>3

\* Steps of the addon's goroutines that main does not see.
LEMMA AddonSysInv ==
  ASSUME SysInv, NEW f \in Flows, Request(f) \/ Step(f), UNCHANGED mainVars
  PROVE  SysInv'
<1>1. Sound' /\ (at # "recover" => Inv')
  BY AddonStep DEF SysInv, handleBuyRequest
<1>2. UNCHANGED <<at, historyVersions>>
  BY DEF mainVars
<1>3. Control'
  BY DEF mainVars, SysInv, Control, ControlTypes, Placed, TurnedOn, TurnedOff, OffAfterCleanExit
<1>4. at \in Received => UNCHANGED <<lock, done, HistoryVersions>>
  <2>1. at \in Received => Inv /\ lock /\ done # "none"
    BY DEF SysInv, Awaited, Received, Prompting
  <2> QED
    BY <2>1, ResultFinal
<1>5. Awaited' /\ SnapshotFinal'
  BY <1>2, <1>4 DEF SysInv, Awaited, SnapshotFinal, Received
<1> QED
  BY <1>1, <1>2, <1>3, <1>5 DEF SysInv

\* The steps the two take together.
LEMMA JointSysInv ==
  ASSUME SysInv,
         SysNewProxy \/ SysEnterInput \/ SysUnlock \/ \E f \in Flows : Deliver(f)
  PROVE  SysInv'
<1>1. CASE SysNewProxy
  <2>1. Inv' /\ Sound' /\ Control' /\ at' = "wait"
    BY <1>1, FreshAddonInv, StartControl DEF SysInv, SysNewProxy, NewProxy
  <2> QED
    BY <2>1 DEF SysInv, Awaited, SnapshotFinal, Received, Prompting
<1>2. CASE SysEnterInput
  <2>1. UNCHANGED vars /\ EnterInput(HistoryVersions)
    BY <1>2 DEF SysEnterInput, addonVars
  <2>2. Control'
    BY <2>1, PromptControl DEF SysInv
  <2>3. Sound' /\ (Inv => Inv')
    BY <2>1, NextInv DEF SysInv, Sound, TypeOK, InRange, vars
  <2>4. at = "enterInput" /\ at' = "input" /\ historyVersions' = HistoryVersions
    BY <2>1 DEF EnterInput
  <2>5. UNCHANGED <<lock, done, HistoryVersions>>
    BY <2>1 DEF vars
  <2> QED
    BY <2>2, <2>3, <2>4, <2>5 DEF SysInv, Awaited, SnapshotFinal, Received, Prompting
<1>3. CASE SysUnlock
  <2>1. Control' /\ at' = "recover"
    BY <1>3, ExitControl DEF SysInv, SysUnlock, Unlock
  <2>2. Sound'
    BY <1>3 DEF SysInv, SysUnlock, Sound, TypeOK, InRange
  <2> QED
    BY <2>1, <2>2 DEF SysInv, Awaited, SnapshotFinal, Received, Prompting
<1>4. ASSUME NEW f \in Flows, Deliver(f) PROVE SysInv'
  <2>1. SendDone(f) /\ ReceiveDone /\ at = "wait" /\ at' = "turnOff"
    BY <1>4 DEF Deliver, ReceiveDone
  <2>2. Control'
    BY <2>1, PromptControl DEF SysInv
  <2>3. Inv' /\ Sound'
    BY <2>1, AddonStep DEF SysInv, handleBuyRequest
  <2>4. lock' /\ done' # "none"
    BY <2>1, DeliverFacts DEF SysInv
  <2> QED
    BY <2>1, <2>2, <2>3, <2>4 DEF SysInv, Awaited, SnapshotFinal, Received, Prompting
<1> QED
  BY <1>1, <1>2, <1>3, <1>4

\* Every step of the session keeps SysInv.
LEMMA SysNextInv == SysInv /\ [SysNext]_sysVars => SysInv'
<1> SUFFICES ASSUME SysInv, [SysNext]_sysVars PROVE SysInv'
  OBVIOUS
<1>1. CASE UNCHANGED <<vars, mainVars>>
  <2>1. Sound' /\ (Inv => Inv')
    BY <1>1, NextInv DEF SysInv, Sound, TypeOK, InRange, vars
  <2>2. Control'
    BY <1>1 DEF mainVars, SysInv, Control, ControlTypes, Placed, TurnedOn, TurnedOff,
                OffAfterCleanExit
  <2> QED
    BY <1>1, <2>1, <2>2 DEF SysInv, Awaited, SnapshotFinal, vars, mainVars
<1>2. CASE ProcessDown \/ ProcessRuns
  BY <1>2, MainSysInv
<1>3. CASE SysNewProxy \/ SysEnterInput \/ SysUnlock \/ \E f \in Flows : Deliver(f)
  BY <1>3, JointSysInv
<1>4. CASE \E f \in Flows : Hook(f) \/ Handle(f)
  BY <1>4, AddonSysInv DEF Hook, Handle
<1>5. CASE \E f \in Flows : Arrive(f)
  BY <1>1, <1>5 DEF Arrive, addonVars
<1>6. CASE AllLaunchesDone /\ UNCHANGED <<addonVars, arrived>>
  BY <1>1, <1>6 DEF AllLaunchesDone, addonVars
<1>7. CASE UNCHANGED sysVars
  BY <1>1, <1>7 DEF sysVars, addonVars
<1> QED
  BY <1>2, <1>3, <1>4, <1>5, <1>6, <1>7 DEF SysNext

-----------------------------------------------------------------------------
(* The theorems.                                                            *)

\* SysInv holds in every state of a session.
THEOREM SysInvariance == SysSpec => []SysInv
<1>1. SysInit => SysInv
  BY SysInitInv
<1>2. SysInv /\ [SysNext]_sysVars => SysInv'
  BY SysNextInv
<1> QED
  BY <1>1, <1>2, PTL DEF SysSpec

\* The deferred mu.Unlock never meets an unlocked mutex.
THEOREM UnlockIsHeld == SysSpec => []UnlockHeld
<1>1. SysInv => UnlockHeld
  BY DEF SysInv, Awaited, UnlockHeld, Received
<1> QED
  BY <1>1, SysInvariance, PTL

\* What handleInput copied without a lock is the final result: no goroutine
\* appends to c.HistoryVersions while the user chooses.
THEOREM SnapshotIsFinal == SysSpec => []SnapshotFinal
<1>1. SysInv => SnapshotFinal
  BY DEF SysInv
<1> QED
  BY <1>1, SysInvariance, PTL

\* The number in front of a row selects that row's version, when no version was
\* given up.
THEOREM IndexSelects == SysSpec => []ShownIndexSelects
<1>1. SysInv => ShownIndexSelects
  <2> SUFFICES ASSUME SysInv, at \in Prompting, abandoned = {}, NEW k \in 1..Len(printed)
               PROVE  /\ printed[k].ActualIndex + 1 \in 1..Len(historyVersions)
                      /\ historyVersions[printed[k].ActualIndex + 1] = printed[k].version
    BY DEF ShownIndexSelects
  <2>1. Inv /\ historyVersions = HistoryVersions
    BY DEF SysInv, SnapshotFinal, Prompting
  <2>2. printed[k].ActualIndex = k - 1
    BY <2>1 DEF Inv, Aligned
  <2>3. printed[k].ActualIndex + 1 = k
    BY <2>2
  <2> QED
    BY <2>1, <2>3 DEF Inv, RowsAreResult
<1> QED
  BY <1>1, SysInvariance, PTL

\* What Main promises of the system proxy it promises of the whole session,
\* with the addon's goroutines running beside main.
THEOREM SessionTurnsOff == SysSpec => [](OffAfterCleanExit /\ OffAtPrompt)
<1>1. SysInv => OffAfterCleanExit /\ OffAtPrompt
  BY DEF SysInv, Control, TurnedOff, OffAtPrompt
<1> QED
  BY <1>1, SysInvariance, PTL

\* The session implements Main when Main may copy any list of versions: every
\* step of the whole is a step of Main or leaves main's state alone, so what is
\* proved of Main alone is true of it beside the addon's goroutines.
THEOREM SessionImplementsMain ==
  ASSUME Seq(Versions) \subseteq Histories
  PROVE  SysSpec => MainSpec
<1>1. SysInit => MainInit
  BY DEF SysInit
<1>2. SysInv /\ [SysNext]_sysVars => [MainNext]_mainVars
  <2> SUFFICES ASSUME SysInv, [SysNext]_sysVars PROVE [MainNext]_mainVars
    OBVIOUS
  <2>1. CASE SysEnterInput
    <3>1. HistoryVersions \in Histories
      BY DEF SysInv, Sound, TypeOK
    <3> QED
      BY <2>1, <3>1 DEF SysEnterInput, MainNext
  <2>2. CASE ProcessDown \/ ProcessRuns \/ SysNewProxy \/ SysUnlock
    BY <2>2 DEF ProcessDown, ProcessRuns, SysNewProxy, SysUnlock, MainNext
  <2>3. CASE \E f \in Flows : Arrive(f) \/ Hook(f) \/ Handle(f) \/ Deliver(f)
    BY <2>3 DEF Arrive, Hook, Handle, Deliver, MainNext
  <2>4. CASE AllLaunchesDone /\ UNCHANGED <<addonVars, arrived>>
    BY <2>4 DEF AllLaunchesDone
  <2>5. CASE UNCHANGED sysVars
    BY <2>5 DEF sysVars
  <2> QED
    BY <2>1, <2>2, <2>3, <2>4, <2>5 DEF SysNext
<1> QED
  BY <1>1, <1>2, SysInvariance, PTL DEF SysSpec, MainSpec
=============================================================================
