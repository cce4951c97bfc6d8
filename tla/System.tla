------------------------------- MODULE System -------------------------------
(***************************************************************************)
(* The addon and main in one process: main creates the mutex, the done     *)
(* channel and the addon, the proxy's goroutines run the addon's hook, and *)
(* main's deferred calls close the proxy and release the mutex while those *)
(* goroutines are still alive.  p.Close closes the connections and does    *)
(* not wait for the handlers, so a request whose body was read before may  *)
(* reach the hook at any later moment until the process ends.              *)
(***************************************************************************)
EXTENDS Addon, Main

VARIABLE arrived   \* the flows of this process whose request has been read

addonVars == vars
sysVars == <<addonVars, mainVars, arrived>>

SysInit == Init /\ MainInit /\ arrived = {}

-----------------------------------------------------------------------------
\* The addon main creates: a fresh mutex, a fresh channel, an empty result.
\* The directory savedResponse outlives the process.
FreshAddon ==
    /\ flags' \in [Start : Starts, End : Ends, DumpResponses : Dumps]
    /\ lock' = FALSE
    /\ pc' = [f \in Flows |-> "idle"]
    /\ frame' = [f \in Flows |->
                   [body |-> NoVersion, latest |-> NoVersion, versionIDs |-> <<>>,
                    end |-> 0, index |-> 0, i |-> 0, retry |-> MaxRetry]]
    /\ HistoryVersions' = <<>> /\ ClientUserAgent' = "" /\ counter' = 0
    /\ done' = "none" /\ printed' = <<>> /\ abandoned' = {}
    /\ UNCHANGED savedResponse

SysNewProxy == NewProxy /\ FreshAddon /\ arrived' = {}

\* What a step of main does to the addon: its memory goes with the process.
AddonGone == FreshAddon /\ flags' = flags /\ arrived' = {}
AddonStays == UNCHANGED <<addonVars, arrived>>

\* The process ends in any of its ways, or goes on.
ProcessDown == MainStep /\ at' = "down" /\ AddonGone
ProcessRuns == MainStep /\ at' # "down" /\ AddonStays

\* The proxy has read a whole request.
Arrive(f) ==
    /\ server = "serving"
    /\ f \notin arrived
    /\ arrived' = arrived \cup {f}
    /\ UNCHANGED <<addonVars, mainVars>>

Hook(f) == f \in arrived /\ Request(f) /\ UNCHANGED <<mainVars, arrived>>

Handle(f) == Step(f) /\ UNCHANGED <<mainVars, arrived>>

\* The send and the receive on the unbuffered channel are one step.
Deliver(f) == SendDone(f) /\ ReceiveDone /\ UNCHANGED arrived

SysEnterInput == EnterInput(HistoryVersions) /\ UNCHANGED <<addonVars, arrived>>

\* The deferred mu.Unlock.
SysUnlock ==
    /\ Unlock
    /\ lock' = FALSE
    /\ UNCHANGED <<flags, pc, frame, HistoryVersions, ClientUserAgent, counter,
                   savedResponse, done, printed, abandoned, arrived>>

SysNext ==
    \/ ProcessDown \/ ProcessRuns
    \/ SysNewProxy \/ SysEnterInput \/ SysUnlock
    \/ \E f \in Flows : Arrive(f) \/ Hook(f) \/ Handle(f) \/ Deliver(f)
    \/ AllLaunchesDone /\ UNCHANGED <<addonVars, arrived>>

SysSpec == SysInit /\ [][SysNext]_sysVars

\* The scheduler runs each goroutine that can go on: the addon's, main and the
\* signal handler; and the store answers.  Nothing is assumed of the user, of the
\* network or of whoever sends signals.
SysFairness ==
    /\ \A f \in Flows : WF_sysVars(Handle(f)) /\ WF_sysVars(Deliver(f))
    /\ WF_sysVars(TurnOff /\ AddonStays) /\ WF_sysVars(CloseProxy /\ AddonStays)
    /\ WF_sysVars(SysUnlock) /\ WF_sysVars(Return /\ AddonGone)
    /\ WF_sysVars(HandlerCleanup /\ AddonStays) /\ WF_sysVars(HandlerExit /\ AddonGone)

SysFairSpec == SysSpec /\ SysFairness

-----------------------------------------------------------------------------
(* Properties.                                                              *)

\* mu.Unlock never meets an unlocked mutex (a fatal error in Go): by the time
\* main unwinds a flow has taken the lock, and only main releases it.
UnlockHeld == at \in {"closing", "unlock"} => lock

\* The copy of addon.HistoryVersions that handleInput works on is the final
\* result: no goroutine appends to it while the user chooses.
SnapshotFinal == at \in Prompting => historyVersions = HistoryVersions

\* The number shown in front of a row is the index under which handleInput
\* finds that version, as long as no version was given up.
ShownIndexSelects ==
    at \in Prompting /\ abandoned = {} =>
      \A k \in 1..Len(printed) :
        /\ printed[k].ActualIndex + 1 \in 1..Len(historyVersions)
        /\ historyVersions[printed[k].ActualIndex + 1] = printed[k].version

\* A buy request in a normal session leads to a machine whose system proxy is
\* off again, unless the process ends first.
BuyTurnsOff == (lock /\ flag = "normal") ~> (~osProxy \/ at = "down")

\* The comment "we only want to run the function code ONCE!" in Request.
OnlyOnce == Cardinality({f \in Flows : pc[f] \in Entered}) <= 1
=============================================================================
