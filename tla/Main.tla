-------------------------------- MODULE Main --------------------------------
(***************************************************************************)
(* One machine on which the ipaversion command (main.go) is launched,      *)
(* runs, ends in one of its many ways and is launched again.               *)
(*                                                                         *)
(* Three goroutines share a process: main itself, the signal handler that  *)
(* is spawned after the system proxy was turned on, and the goroutine that *)
(* wraps p.Start in log.Fatal.  The setting that outlives the process is   *)
(* the system proxy of the operating system, kept by the external library  *)
(* sysproxy: On points it at 127.0.0.1:8080, Off clears it.                *)
(*                                                                         *)
(* The addon is seen here only through the done channel and the history    *)
(* main copies; System.tla joins the two.  What DownloadApp does to files  *)
(* is the subject of IpaPackage.tla.  -h, -v and -i return before any of   *)
(* this state is touched.                                                  *)
(***************************************************************************)
EXTENDS Naturals, Sequences

CONSTANTS
    Histories,    \* the query results main may copy from the addon
    OldSettings,  \* what the system proxy may be before the first launch
    MaxLaunches   \* bound: how often the command is launched

ASSUME MainAssumption ==
    /\ MaxLaunches \in Nat
    /\ OldSettings \subseteq BOOLEAN

VARIABLES
    osProxy,          \* external: the system proxy points at this program
    launches,
    flag,             \* "normal", "s", "c" or "ps": what the command line asks for
    at,               \* where main's goroutine is; "down" when no process runs
    systemProxy,      \* the package variable is not nil
    handler,          \* the signal goroutine
    server,           \* the goroutine of p.Start
    historyVersions,  \* handleInput's copy of addon.HistoryVersions
    responseFiles,    \* versions saved by the dump command
    stdin,            \* "open" or "eof"
    panicking,        \* main unwinds because of a panic
    exit              \* how the last process ended, and its flag

mainVars == <<osProxy, launches, flag, at, systemProxy, handler, server,
              historyVersions, responseFiles, stdin, panicking, exit>>

Unwinding == {"closing", "unlock", "recover"}
Prompting == {"input", "quit"}

MainTypeOK ==
    /\ osProxy \in BOOLEAN
    /\ launches \in 0..MaxLaunches
    /\ flag \in {"normal", "s", "c", "ps"}
    /\ at \in {"down", "flags", "turnOn", "notify", "newProxy", "wait",
               "turnOff", "enterInput"} \cup Prompting \cup Unwinding
    /\ systemProxy \in BOOLEAN
    /\ handler \in {"none", "spawned", "receiving", "cleanup", "exiting"}
    /\ server \in {"none", "starting", "serving", "closed"}
    /\ historyVersions \in Histories \cup {<<>>}
    /\ responseFiles \subseteq UNION {{h[k] : k \in DOMAIN h} : h \in Histories}
    /\ stdin \in {"open", "eof"}
    /\ panicking \in BOOLEAN
    /\ exit \in [how : {"none", "return", "startFailed", "serveFailed", "serveReturned",
                        "signal", "interrupted", "killed", "crash"},
                 flag : {"normal", "s", "c", "ps"}]

MainInit ==
    /\ osProxy \in OldSettings /\ launches = 0 /\ flag = "normal" /\ at = "down"
    /\ systemProxy = FALSE /\ handler = "none" /\ server = "none"
    /\ historyVersions = <<>> /\ responseFiles = {} /\ stdin = "open"
    /\ panicking = FALSE /\ exit = [how |-> "none", flag |-> "normal"]

-----------------------------------------------------------------------------
(* The system proxy, and the end of the process.                            *)

TurnOnProxy == systemProxy' = TRUE /\ osProxy' = TRUE

\* Skipped when the package variable is nil.
TurnOffProxy == osProxy' = (osProxy /\ ~systemProxy)

\* All goroutines end and the memory is gone; the system proxy stays as it is.
ProcessEnds(how) ==
    /\ at' = "down" /\ handler' = "none" /\ server' = "none"
    /\ systemProxy' = FALSE /\ panicking' = FALSE /\ historyVersions' = <<>>
    /\ exit' = [how |-> how, flag |-> flag]
    /\ UNCHANGED <<launches, flag, responseFiles, stdin>>

-----------------------------------------------------------------------------
(* Launch and start.                                                        *)

Launch(f) ==
    /\ at = "down"
    /\ launches < MaxLaunches
    /\ launches' = launches + 1
    /\ flag' = f
    /\ at' = IF f = "normal" THEN "turnOn" ELSE IF f = "s" THEN "newProxy" ELSE "flags"
    /\ stdin' = "open"
    /\ UNCHANGED <<osProxy, systemProxy, handler, server, historyVersions,
                   responseFiles, panicking, exit>>

\* -c: turnOffProxy and return.
CleanupFlag ==
    /\ at = "flags" /\ flag = "c"
    /\ TurnOffProxy
    /\ ProcessEnds("return")

\* -ps: showProxy changes nothing outside the process; return.
ShowFlag ==
    /\ at = "flags" /\ flag = "ps"
    /\ ProcessEnds("return")
    /\ UNCHANGED osProxy

TurnOn ==
    /\ at = "turnOn"
    /\ TurnOnProxy
    /\ at' = "notify"
    /\ UNCHANGED <<launches, flag, handler, server, historyVersions,
                   responseFiles, stdin, panicking, exit>>

\* The deferred recover is in place, the signals are registered and the
\* goroutine that waits for them is spawned.
Notify ==
    /\ at = "notify"
    /\ handler' = "spawned"
    /\ at' = "newProxy"
    /\ UNCHANGED <<osProxy, launches, flag, systemProxy, server, historyVersions,
                   responseFiles, stdin, panicking, exit>>

\* NewProxy fails (the CA cannot be loaded or created): log.Fatal.
NewProxyFails ==
    /\ at = "newProxy"
    /\ ProcessEnds("startFailed")
    /\ UNCHANGED osProxy

\* The proxy exists, the addon is added and p.Start runs in a goroutine.
NewProxy ==
    /\ at = "newProxy"
    /\ server' = "starting"
    /\ at' = "wait"
    /\ UNCHANGED <<osProxy, launches, flag, systemProxy, handler, historyVersions,
                   responseFiles, stdin, panicking, exit>>

\* net.Listen fails (the port is taken): log.Fatal in the goroutine.
ListenFails ==
    /\ server = "starting"
    /\ ProcessEnds("startFailed")
    /\ UNCHANGED osProxy

Listen ==
    /\ server = "starting"
    /\ server' = "serving"
    /\ UNCHANGED <<osProxy, launches, flag, at, systemProxy, handler,
                   historyVersions, responseFiles, stdin, panicking, exit>>

-----------------------------------------------------------------------------
(* After the query.                                                         *)

\* Main receives from the done channel; the value only changes a message.
ReceiveDone ==
    /\ at = "wait" /\ server = "serving"
    /\ at' = "turnOff"
    /\ UNCHANGED <<osProxy, launches, flag, systemProxy, handler, server,
                   historyVersions, responseFiles, stdin, panicking, exit>>

\* Faulty variant: the test of -s is the wrong way round.
TurnOffInverted ==
    /\ at = "turnOff"
    /\ IF flag = "s" THEN TurnOffProxy ELSE UNCHANGED osProxy
    /\ at' = "enterInput"
    /\ UNCHANGED <<launches, flag, systemProxy, handler, server, historyVersions,
                   responseFiles, stdin, panicking, exit>>

TurnOff ==
    /\ at = "turnOff"
    /\ IF flag = "s" THEN UNCHANGED osProxy ELSE TurnOffProxy
    /\ at' = "enterInput"
    /\ UNCHANGED <<launches, flag, systemProxy, handler, server, historyVersions,
                   responseFiles, stdin, panicking, exit>>

\* handleInput copies the addon's result h, without a lock.
EnterInput(h) ==
    /\ at = "enterInput"
    /\ historyVersions' = h
    /\ at' = "input"
    /\ UNCHANGED <<osProxy, launches, flag, systemProxy, handler, server,
                   responseFiles, stdin, panicking, exit>>

\* A line that leaves the loop where it is: '?', an unknown command, an index
\* that is no number or out of range, a failed download or dump; at the end of
\* the input, every attempt to read.
InputContinues == at = "input" /\ UNCHANGED mainVars

StdinEnds ==
    /\ at \in Prompting /\ stdin = "open"
    /\ stdin' = "eof"
    /\ UNCHANGED <<osProxy, launches, flag, at, systemProxy, handler, server,
                   historyVersions, responseFiles, panicking, exit>>

\* An index in range whose download succeeds, or the command exit.
InputEnds ==
    /\ at = "input" /\ stdin = "open"
    /\ at' = "quit"
    /\ UNCHANGED <<osProxy, launches, flag, systemProxy, handler, server,
                   historyVersions, responseFiles, stdin, panicking, exit>>

\* An empty line (input[0]), or a download that panics (sinfs[0]).
InputPanics ==
    /\ at = "input" /\ stdin = "open"
    /\ panicking' = TRUE
    /\ at' = "closing"
    /\ UNCHANGED <<osProxy, launches, flag, systemProxy, handler, server,
                   historyVersions, responseFiles, stdin, exit>>

\* Faulty variant: the response data was not kept, the file is empty.
DumpEmpty(k) ==
    /\ at = "input" /\ stdin = "open"
    /\ responseFiles' = responseFiles \cup {""}
    /\ UNCHANGED <<osProxy, launches, flag, at, systemProxy, handler, server,
                   historyVersions, stdin, panicking, exit>>

\* d <index> with an index in range writes that response to a file.
DumpCommand(k) ==
    /\ at = "input" /\ stdin = "open"
    /\ responseFiles' = responseFiles \cup {historyVersions[k]}
    /\ UNCHANGED <<osProxy, launches, flag, at, systemProxy, handler, server,
                   historyVersions, stdin, panicking, exit>>

\* Enter, or the end of the input, at the last prompt.
Quit ==
    /\ at = "quit"
    /\ at' = "closing"
    /\ UNCHANGED <<osProxy, launches, flag, systemProxy, handler, server,
                   historyVersions, responseFiles, stdin, panicking, exit>>

-----------------------------------------------------------------------------
(* The deferred calls of main, last one first.                              *)

\* Faulty variant: Shutdown, which waits for connections nobody ends.
ShutdownProxy == at = "closing" /\ UNCHANGED mainVars

CloseProxy ==
    /\ at = "closing"
    /\ server' = "closed"
    /\ at' = "unlock"
    /\ UNCHANGED <<osProxy, launches, flag, systemProxy, handler, historyVersions,
                   responseFiles, stdin, panicking, exit>>

\* Serve returns, with ErrServerClosed after p.Close or because the listener
\* fails: log.Fatal ends the process under main's feet.
ServeReturns ==
    /\ server \in {"serving", "closed"}
    /\ ProcessEnds(IF server = "closed" THEN "serveReturned" ELSE "serveFailed")
    /\ UNCHANGED osProxy

Unlock ==
    /\ at = "unlock"
    /\ at' = "recover"
    /\ UNCHANGED <<osProxy, launches, flag, systemProxy, handler, server,
                   historyVersions, responseFiles, stdin, panicking, exit>>

\* With -s there is no recover and a panic ends the program.
Return ==
    /\ at = "recover"
    /\ IF panicking /\ flag # "s" THEN TurnOffProxy ELSE UNCHANGED osProxy
    /\ ProcessEnds(IF panicking /\ flag = "s" THEN "crash" ELSE "return")

-----------------------------------------------------------------------------
(* Signals.  The channel is unbuffered and Notify never blocks: a signal    *)
(* that finds nobody receiving is dropped.                                  *)

HandlerReceives ==
    /\ handler = "spawned"
    /\ handler' = "receiving"
    /\ UNCHANGED <<osProxy, launches, flag, at, systemProxy, server,
                   historyVersions, responseFiles, stdin, panicking, exit>>

\* SIGINT or SIGTERM.
Signal ==
    /\ at # "down"
    /\ \/ /\ handler = "none"
          /\ ProcessEnds("interrupted")
          /\ UNCHANGED osProxy
       \/ /\ handler = "receiving"
          /\ handler' = "cleanup"
          /\ UNCHANGED <<osProxy, launches, flag, at, systemProxy, server,
                         historyVersions, responseFiles, stdin, panicking, exit>>

\* Faulty variant: the handler only says that it cleans up.
HandlerOnlyPrints ==
    /\ handler = "cleanup"
    /\ handler' = "exiting"
    /\ UNCHANGED <<osProxy, launches, flag, at, systemProxy, server,
                   historyVersions, responseFiles, stdin, panicking, exit>>

HandlerCleanup ==
    /\ handler = "cleanup"
    /\ TurnOffProxy
    /\ handler' = "exiting"
    /\ UNCHANGED <<launches, flag, at, systemProxy, server, historyVersions,
                   responseFiles, stdin, panicking, exit>>

\* Faulty variant: the goroutine returns instead of ending the process.
HandlerReturns ==
    /\ handler = "exiting"
    /\ handler' = "none"
    /\ UNCHANGED <<osProxy, launches, flag, at, systemProxy, server,
                   historyVersions, responseFiles, stdin, panicking, exit>>

HandlerExit ==
    /\ handler = "exiting"
    /\ ProcessEnds("signal")
    /\ UNCHANGED osProxy

\* The process is killed outright, or the machine goes down.
Kill ==
    /\ at # "down"
    /\ ProcessEnds("killed")
    /\ UNCHANGED osProxy

-----------------------------------------------------------------------------
\* The steps that neither read nor write the addon's state.
MainStep ==
    \/ \E f \in {"normal", "s", "c", "ps"} : Launch(f)
    \/ CleanupFlag \/ ShowFlag \/ TurnOn \/ Notify \/ NewProxyFails
    \/ ListenFails \/ Listen \/ TurnOff
    \/ InputContinues \/ StdinEnds \/ InputEnds \/ InputPanics \/ Quit
    \/ \E k \in DOMAIN historyVersions : DumpCommand(k)
    \/ CloseProxy \/ ServeReturns \/ Return
    \/ HandlerReceives \/ Signal \/ HandlerCleanup \/ HandlerExit \/ Kill

\* The last launch is over.
AllLaunchesDone == at = "down" /\ launches = MaxLaunches /\ UNCHANGED mainVars

MainNext ==
    \/ MainStep
    \/ NewProxy \/ ReceiveDone \/ Unlock
    \/ \E h \in Histories : EnterInput(h)
    \/ AllLaunchesDone

MainSpec == MainInit /\ [][MainNext]_mainVars

-----------------------------------------------------------------------------
(* Properties.                                                              *)

\* The README's "turn off proxy upon normal quitting": however the goroutines
\* interleave, main's return, the signal handler and the log.Fatal that p.Close
\* provokes all leave the system proxy off.
OffAfterCleanExit ==
    at = "down" /\ exit.flag = "normal"
      /\ exit.how \in {"return", "signal", "serveReturned"} => ~osProxy

\* From the prompt on, and while main unwinds from a panic, the system proxy is
\* off, so downloads never go through the proxy that is being closed.
OffAtPrompt ==
    flag = "normal" /\ at \in Prompting \cup Unwinding => ~osProxy

\* A signal the handler received ends the process, whatever main does.
InterruptEnds == handler = "cleanup" ~> at = "down"

\* Once main unwinds, by the user's wish or by a panic, the process ends.
QuitEnds == at \in Unwinding ~> at = "down"

\* README: "Run `ipaversion -c` to make sure it turns off the system proxy".
CleanupFlagTurnsOff == exit.flag = "c" /\ exit.how = "return" /\ at = "down" => ~osProxy

\* The comment "do cleanup when error happens" at the deferred recover.
OffAfterStartError ==
    at = "down" /\ exit.flag = "normal" /\ exit.how = "startFailed" => ~osProxy
=============================================================================
