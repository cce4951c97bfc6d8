----------------------------- MODULE MainProofs -----------------------------
(***************************************************************************)
(* Theorems about Main, for every number of launches and every set of      *)
(* results: where the system proxy is on, and where it is surely off.      *)
(*                                                                         *)
(* That it is off at the end of a session depends on what happened at its  *)
(* beginning: the package variable systemProxy is set, or turnOffProxy     *)
(* does nothing.  Control says so for every place of the three goroutines. *)
(* It does not speak of the history main copies, so it holds as well when  *)
(* that comes from the addon (System.tla).                                 *)
(***************************************************************************)
EXTENDS Main, TLAPS

\* Where main is once the handler of signals has been spawned.
Noticed == {"newProxy", "wait", "turnOff", "enterInput"} \cup Prompting \cup Unwinding

\* Where main is while the proxy runs.
Served == {"wait", "turnOff", "enterInput"} \cup Prompting \cup Unwinding

ControlTypes ==
    /\ osProxy \in BOOLEAN
    /\ flag \in {"normal", "s", "c", "ps"}
    /\ at \in {"down", "flags", "turnOn", "notify"} \cup Noticed
    /\ systemProxy \in BOOLEAN
    /\ handler \in {"none", "spawned", "receiving", "cleanup", "exiting"}
    /\ server \in {"none", "starting", "serving", "closed"}
    /\ panicking \in BOOLEAN

\* -c and -ps go nowhere else, and only a normal session has a signal handler.
Placed ==
    /\ at = "flags" => flag \in {"c", "ps"}
    /\ at \in {"turnOn", "notify"} => flag = "normal"
    /\ at \in Noticed => flag \in {"normal", "s"}
    /\ handler # "none" => at \in Noticed /\ flag = "normal"
    /\ server # "none" => at \in Served
    /\ server = "closed" => at \in {"unlock", "recover"}

\* The variable is set as long as turnOffProxy may be needed.
TurnedOn == flag = "normal" /\ at \in {"notify"} \cup Noticed => systemProxy

\* After turnOffProxy, by main or by the handler, nobody turns the proxy on.
TurnedOff ==
    /\ flag = "normal" /\ at \in {"enterInput"} \cup Prompting \cup Unwinding => ~osProxy
    /\ handler = "exiting" => ~osProxy

Control == ControlTypes /\ Placed /\ TurnedOn /\ TurnedOff /\ OffAfterCleanExit

MainInv == MainTypeOK /\ Control

-----------------------------------------------------------------------------
\* The initial machine satisfies the invariant.
LEMMA MainInitInv == MainInit => MainInv
<1> SUFFICES ASSUME MainInit PROVE MainInv
  OBVIOUS
<1>1. MainTypeOK
  <2>1. launches \in 0..MaxLaunches
    BY MainAssumption DEF MainInit
  <2>2. exit \in [how : {"none", "return", "startFailed", "serveFailed", "serveReturned",
                        "signal", "interrupted", "killed", "crash"},
                 flag : {"normal", "s", "c", "ps"}]
    BY DEF MainInit
  <2> QED
    BY <2>1, <2>2, MainAssumption DEF MainInit, MainTypeOK
<1>2. Control
  BY MainAssumption DEF MainInit, Control, ControlTypes, Placed, TurnedOn, TurnedOff, OffAfterCleanExit,
         Noticed, Served, Prompting, Unwinding
<1> QED
  BY <1>1, <1>2 DEF MainInv

\* A process that ends leaves the invariant true, if the system proxy is off
\* after the ends that count as clean.
LEMMA EndControl ==
  ASSUME Control, NEW how, ProcessEnds(how), osProxy' \in BOOLEAN,
         flag = "normal" /\ how \in {"return", "signal", "serveReturned"} => ~osProxy'
  PROVE  Control'
BY DEF ProcessEnds, Control, ControlTypes, Placed, TurnedOn, TurnedOff, OffAfterCleanExit,
       Noticed, Served, Prompting, Unwinding

\* The steps that start a session keep Control.
LEMMA StartControl ==
  ASSUME Control,
         \/ \E f \in {"normal", "s", "c", "ps"} : Launch(f)
         \/ CleanupFlag \/ ShowFlag \/ TurnOn \/ Notify \/ NewProxyFails
         \/ NewProxy \/ ListenFails \/ Listen
  PROVE  Control'
<1> USE DEF Control, ControlTypes, Placed, TurnedOn, TurnedOff, OffAfterCleanExit,
            Noticed, Served, Prompting, Unwinding
<1>1. CASE \E f \in {"normal", "s", "c", "ps"} : Launch(f)
  BY <1>1 DEF Launch
<1>2. CASE CleanupFlag
  BY <1>2, EndControl DEF CleanupFlag, TurnOffProxy
<1>3. CASE ShowFlag
  BY <1>3, EndControl DEF ShowFlag
<1>4. CASE TurnOn
  BY <1>4 DEF TurnOn, TurnOnProxy
<1>5. CASE Notify
  BY <1>5 DEF Notify
<1>6. CASE NewProxyFails \/ ListenFails
  BY <1>6, EndControl DEF NewProxyFails, ListenFails
<1>7. CASE NewProxy
  BY <1>7 DEF NewProxy
<1>8. CASE Listen
  BY <1>8 DEF Listen
<1> QED
  BY <1>1, <1>2, <1>3, <1>4, <1>5, <1>6, <1>7, <1>8

\* The steps between the query and the last prompt keep Control.
LEMMA PromptControl ==
  ASSUME Control,
         \/ ReceiveDone \/ TurnOff \/ (\E h : EnterInput(h))
         \/ InputContinues \/ StdinEnds \/ InputEnds \/ InputPanics \/ Quit
         \/ \E k \in DOMAIN historyVersions : DumpCommand(k)
  PROVE  Control'
<1> USE DEF Control, ControlTypes, Placed, TurnedOn, TurnedOff, OffAfterCleanExit,
            Noticed, Served, Prompting, Unwinding
<1>1. CASE ReceiveDone
  BY <1>1 DEF ReceiveDone
<1>2. CASE TurnOff
  BY <1>2 DEF TurnOff, TurnOffProxy
<1>3. CASE \E h : EnterInput(h)
  BY <1>3 DEF EnterInput
<1>4. CASE InputContinues
  BY <1>4 DEF InputContinues, mainVars
<1>5. CASE StdinEnds \/ InputEnds \/ Quit
  BY <1>5 DEF StdinEnds, InputEnds, Quit
<1>6. CASE InputPanics
  BY <1>6 DEF InputPanics
<1>7. CASE \E k \in DOMAIN historyVersions : DumpCommand(k)
  BY <1>7 DEF DumpCommand
<1> QED
  BY <1>1, <1>2, <1>3, <1>4, <1>5, <1>6, <1>7

\* The deferred calls, signals and the ways a process ends keep Control.
LEMMA ExitControl ==
  ASSUME Control,
         \/ CloseProxy \/ ServeReturns \/ Unlock \/ Return
         \/ HandlerReceives \/ Signal \/ HandlerCleanup \/ HandlerExit \/ Kill
  PROVE  Control'
<1> USE DEF Control, ControlTypes, Placed, TurnedOn, TurnedOff, OffAfterCleanExit,
            Noticed, Served, Prompting, Unwinding
<1>1. CASE CloseProxy \/ Unlock
  BY <1>1 DEF CloseProxy, Unlock
<1>2. CASE ServeReturns
  BY <1>2, EndControl DEF ServeReturns
<1>3. CASE Return
  BY <1>3, EndControl DEF Return, TurnOffProxy
<1>4. CASE HandlerReceives
  BY <1>4 DEF HandlerReceives
<1>5. CASE Signal
  BY <1>5, EndControl DEF Signal
<1>6. CASE HandlerCleanup
  BY <1>6 DEF HandlerCleanup, TurnOffProxy
<1>7. CASE HandlerExit
  BY <1>7, EndControl DEF HandlerExit
<1>8. CASE Kill
  BY <1>8, EndControl DEF Kill
<1> QED
  BY <1>1, <1>2, <1>3, <1>4, <1>5, <1>6, <1>7, <1>8

\* Steps of main that do not touch the addon keep Control.
LEMMA MainStepControl == Control /\ MainStep => Control'
BY StartControl, PromptControl, ExitControl DEF MainStep

-----------------------------------------------------------------------------
(* Types.                                                                   *)

WaysToEnd == {"return", "startFailed", "serveFailed", "serveReturned", "signal",
         "interrupted", "killed", "crash"}

\* A process that ends leaves the types right.
LEMMA EndTypes ==
  ASSUME MainTypeOK, NEW how \in WaysToEnd, ProcessEnds(how), osProxy' \in BOOLEAN
  PROVE  MainTypeOK'
<1>1. exit' \in [how : {"none", "return", "startFailed", "serveFailed", "serveReturned",
                       "signal", "interrupted", "killed", "crash"},
                flag : {"normal", "s", "c", "ps"}]
  BY DEF ProcessEnds, MainTypeOK, WaysToEnd
<1> QED
  BY <1>1 DEF ProcessEnds, MainTypeOK

\* The steps that end a process leave the types right.
LEMMA AllEndTypes ==
  ASSUME MainTypeOK,
         \/ CleanupFlag \/ ShowFlag \/ NewProxyFails \/ ListenFails
         \/ ServeReturns \/ Return \/ HandlerExit \/ Kill
  PROVE  MainTypeOK'
<1>1. PICK how \in WaysToEnd : ProcessEnds(how) /\ osProxy' \in BOOLEAN
  BY DEF CleanupFlag, ShowFlag, NewProxyFails, ListenFails, ServeReturns, Return,
         HandlerExit, Kill, TurnOffProxy, MainTypeOK, WaysToEnd
<1> QED
  BY <1>1, EndTypes

\* What d <index> writes is a version of the copied result.
LEMMA DumpTypes ==
  ASSUME MainTypeOK, NEW k \in DOMAIN historyVersions, DumpCommand(k)
  PROVE  MainTypeOK'
<1>1. historyVersions \in Histories
  BY DEF MainTypeOK
<1>2. historyVersions[k] \in UNION {{h[j] : j \in DOMAIN h} : h \in Histories}
  BY <1>1
<1> QED
  BY <1>2 DEF DumpCommand, MainTypeOK

\* All other steps of main leave the types right.
LEMMA OtherTypes ==
  ASSUME MainTypeOK,
         \/ (\E f \in {"normal", "s", "c", "ps"} : Launch(f))
         \/ TurnOn \/ Notify \/ NewProxy \/ Listen \/ ReceiveDone \/ TurnOff
         \/ (\E h \in Histories : EnterInput(h))
         \/ InputContinues \/ StdinEnds \/ InputEnds \/ InputPanics \/ Quit
         \/ CloseProxy \/ Unlock \/ HandlerReceives \/ HandlerCleanup \/ Signal
         \/ UNCHANGED mainVars
  PROVE  MainTypeOK'
<1> USE DEF MainTypeOK, Prompting, Unwinding
<1>1. CASE \E f \in {"normal", "s", "c", "ps"} : Launch(f)
  BY <1>1, MainAssumption DEF Launch
<1>2. CASE TurnOn
  BY <1>2 DEF TurnOn, TurnOnProxy
<1>3. CASE Notify \/ NewProxy
  BY <1>3 DEF Notify, NewProxy
<1>4. CASE Listen \/ ReceiveDone
  BY <1>4 DEF Listen, ReceiveDone
<1>5. CASE TurnOff
  <2>1. osProxy' \in BOOLEAN
    BY <1>5 DEF TurnOff, TurnOffProxy
  <2> QED
    BY <1>5, <2>1 DEF TurnOff
<1>6. CASE \E h \in Histories : EnterInput(h)
  BY <1>6 DEF EnterInput
<1>7. CASE StdinEnds
  BY <1>7 DEF StdinEnds
<1>8. CASE InputEnds \/ Quit \/ CloseProxy
  BY <1>8 DEF InputEnds, Quit, CloseProxy
<1>9. CASE InputPanics
  BY <1>9 DEF InputPanics
<1>10. CASE Unlock \/ HandlerReceives
  BY <1>10 DEF Unlock, HandlerReceives
<1>11. CASE HandlerCleanup
  <2>1. osProxy' \in BOOLEAN
    BY <1>11 DEF HandlerCleanup, TurnOffProxy
  <2> QED
    BY <1>11, <2>1 DEF HandlerCleanup
<1>12. CASE Signal
  <2>1. CASE ProcessEnds("interrupted") /\ UNCHANGED osProxy
    BY <2>1, EndTypes DEF WaysToEnd
  <2>2. CASE /\ handler' = "cleanup"
             /\ UNCHANGED <<osProxy, launches, flag, at, systemProxy, server,
                            historyVersions, responseFiles, stdin, panicking, exit>>
    BY <2>2
  <2> QED
    BY <1>12, <2>1, <2>2 DEF Signal
<1>13. CASE InputContinues \/ UNCHANGED mainVars
  BY <1>13 DEF InputContinues, mainVars
<1> QED
  BY <1>1, <1>2, <1>3, <1>4, <1>5, <1>6, <1>7, <1>8, <1>9, <1>10, <1>11, <1>12, <1>13

\* Every step keeps MainInv.
LEMMA MainNextInv == MainInv /\ [MainNext]_mainVars => MainInv'
<1> SUFFICES ASSUME MainInv, [MainNext]_mainVars PROVE MainInv'
  OBVIOUS
<1>1. MainTypeOK'
  BY AllEndTypes, DumpTypes, OtherTypes DEF MainInv, MainNext, MainStep, AllLaunchesDone
<1>2. Control'
  <2>1. CASE UNCHANGED mainVars
    BY <2>1 DEF mainVars, MainInv, Control, ControlTypes, Placed, TurnedOn, TurnedOff,
                OffAfterCleanExit
  <2>2. CASE MainNext
    BY <2>1, <2>2, MainStepControl, StartControl, PromptControl, ExitControl
    DEF MainInv, MainNext, AllLaunchesDone
  <2> QED
    BY <2>1, <2>2
<1> QED
  BY <1>1, <1>2 DEF MainInv

-----------------------------------------------------------------------------
(* The theorems.                                                            *)

\* MainInv holds on every machine, however often the command is launched.
THEOREM MainInvariance == MainSpec => []MainInv
<1>1. MainInit => MainInv
  BY MainInitInv
<1>2. MainInv /\ [MainNext]_mainVars => MainInv'
  BY MainNextInv
<1> QED
  BY <1>1, <1>2, PTL DEF MainSpec

\* The variables of main keep their types; what d <index> saves are versions of
\* a result of the addon.
THEOREM MainTypeCorrect == MainSpec => []MainTypeOK
<1>1. MainInv => MainTypeOK
  BY DEF MainInv
<1> QED
  BY <1>1, MainInvariance, PTL

\* After main's return, the signal handler's exit and the log.Fatal that p.Close
\* provokes, the system proxy is off, however the three goroutines interleave.
THEOREM CleanExitTurnsOff == MainSpec => []OffAfterCleanExit
<1>1. MainInv => OffAfterCleanExit
  BY DEF MainInv, Control
<1> QED
  BY <1>1, MainInvariance, PTL

\* From the prompt to the end of main, panics included, the system proxy is off.
THEOREM PromptIsOff == MainSpec => []OffAtPrompt
<1>1. MainInv => OffAtPrompt
  BY DEF MainInv, Control, TurnedOff, OffAtPrompt
<1> QED
  BY <1>1, MainInvariance, PTL
=============================================================================
