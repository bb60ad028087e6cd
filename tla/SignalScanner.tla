--------------------------- MODULE SignalScanner ---------------------------
(***************************************************************************)
(* SignalScannerService (services/signal_scanner_service.py): its          *)
(* lifecycle and scan loop, the requests that start and stop it            *)
(* (api/routes/scanner.py), the application's boot and shutdown            *)
(* (api/main.py), the is_running flag in the database, crashes.            *)
(*                                                                         *)
(* An action is the code between two awaits.  loop[t] is the await at      *)
(* which the scan loop run by task t stands, pc[c] the await of a start()  *)
(* or stop() in progress.  A request start() or stop() ignores is no step. *)
(* Sleeps between batches and the broadcast of signals are part of the     *)
(* await before them: the stop event is looked at only after them.         *)
(*                                                                         *)
(* The service is modelled with its safety checks; main.py constructs it   *)
(* without them, and then the checks always pass.                          *)
(***************************************************************************)
EXTENDS Naturals, FiniteSets

CONSTANTS
    Requests,       \* slots for requests of the API
    Lifespan,       \* the application's boot and shutdown, as a caller
    Tasks, NoTask,  \* the tasks a scan loop may run in
    MaxSymbols,     \* bound: the enabled symbols of a cycle
    MaxFaults,      \* bound: database commands that raise
    MaxCrashes      \* bound: crashes of the process

VARIABLES
    app,            \* the application's phase
    state,          \* _state
    stopEvent,      \* _stop_event
    task,           \* _task
    loop,           \* each task: where its scan loop stands
    todo,           \* each task: the symbols its cycle has left
    pc,             \* each caller
    isRunning,      \* the database: scanner_config.is_running
    faults, crashes,
    late,           \* history: analyses begun since the stop event was set
    killed          \* history: the loop ended by the kill switch

Callers == Requests \cup {Lifespan}
memory == <<state, stopEvent, task, loop, todo, pc, late, killed>>
vars == <<app, memory, isRunning, faults, crashes>>

ASSUME ScannerAssumption ==
    /\ IsFiniteSet(Tasks) /\ Tasks # {} /\ NoTask \notin Tasks
    /\ IsFiniteSet(Requests) /\ Lifespan \notin Requests
    /\ MaxSymbols \in Nat /\ MaxFaults \in Nat /\ MaxCrashes \in Nat

States == {"stopped", "starting", "running", "stopping"}
LoopStages == {"none", "created", "killCheck", "breakerCheck", "symbols", "symbolKillCheck",
               "analyze", "history", "lastCycle", "wait", "pause"}
CallStages == {"idle", "load", "marked", "join", "unmark", "unmarked"}

\* A new SignalScannerService.
Init ==
    /\ app = "down"
    /\ state = "stopped" /\ stopEvent = FALSE /\ task = NoTask
    /\ loop = [t \in Tasks |-> "none"] /\ todo = [t \in Tasks |-> 0]
    /\ pc = [c \in Callers |-> "idle"]
    /\ isRunning = FALSE
    /\ faults = 0 /\ crashes = 0
    /\ late = 0 /\ killed = FALSE

Alive(t) == loop[t] # "none"
Idle == \A c \in Callers : pc[c] = "idle"
CallGoes(c, p) == pc' = [pc EXCEPT ![c] = p]
Fault == faults < MaxFaults /\ faults' = faults + 1

-----------------------------------------------------------------------------
(* start() and stop().                                                     *)

\* start() does nothing unless the scanner is stopped.
BeginStart(c) ==
    /\ state = "stopped"
    /\ state' = "starting"
    /\ CallGoes(c, "load")

MarkRunningSkipped(c) ==           \* Mutant: the flag is not written.
    /\ pc[c] = "load"
    /\ CallGoes(c, "marked")
    /\ UNCHANGED <<app, state, stopEvent, task, loop, todo, isRunning, faults, crashes, late, killed>>

MarkRunning(c) ==
    /\ pc[c] = "load"
    /\ isRunning' = TRUE
    /\ CallGoes(c, "marked")
    /\ UNCHANGED <<app, state, stopEvent, task, loop, todo, faults, crashes, late, killed>>

CreateLoop(c) ==
    /\ pc[c] = "marked"
    /\ \E t \in Tasks :
          /\ ~Alive(t)
          /\ task' = t
          /\ loop' = [loop EXCEPT ![t] = "created"]
    /\ stopEvent' = FALSE
    /\ state' = "running"
    /\ late' = 0 /\ killed' = FALSE
    /\ CallGoes(c, "idle")
    /\ UNCHANGED <<app, todo, isRunning, faults, crashes>>

BeginStopUnsignalled(c) ==         \* Mutant: the stop event is not set.
    /\ state' = "stopping"
    /\ CallGoes(c, IF task = NoTask THEN "unmark" ELSE "join")
    /\ UNCHANGED stopEvent

BeginStopDetached(c) ==            \* Mutant: the loop is not waited for.
    /\ state' = "stopping" /\ stopEvent' = TRUE
    /\ CallGoes(c, "unmark")

BeginStop(c) ==
    /\ state' = "stopping" /\ stopEvent' = TRUE
    /\ CallGoes(c, IF task = NoTask THEN "unmark" ELSE "join")

\* The loop has ended, by itself or cancelled after the graceful timeout.
Joined(c) ==
    /\ task' = NoTask
    /\ CallGoes(c, "unmark")
    /\ UNCHANGED <<app, state, stopEvent, isRunning, faults, crashes, late, killed>>

Join(c) ==
    /\ pc[c] = "join" /\ ~Alive(task)
    /\ Joined(c)
    /\ UNCHANGED <<loop, todo>>

Cancel(c) ==
    /\ pc[c] = "join" /\ Alive(task)
    /\ loop' = [loop EXCEPT ![task] = "none"] /\ todo' = [todo EXCEPT ![task] = 0]
    /\ Joined(c)

MarkStopped(c) ==
    /\ pc[c] = "unmark"
    /\ isRunning' = FALSE
    /\ CallGoes(c, "unmarked")
    /\ UNCHANGED <<app, state, stopEvent, task, loop, todo, faults, crashes, late, killed>>

FinishStop(c) ==
    /\ pc[c] = "unmarked"
    /\ state' = "stopped"
    /\ CallGoes(c, "idle")
    /\ UNCHANGED <<app, stopEvent, task, loop, todo, isRunning, faults, crashes, late, killed>>

\* A database command raises, out of start() or stop(): nothing sets the state back.
CallFails(c) ==
    /\ pc[c] \in {"load", "marked", "unmark", "unmarked"}
    /\ Fault
    /\ CallGoes(c, "idle")
    /\ UNCHANGED <<app, state, stopEvent, task, loop, todo, isRunning, crashes, late, killed>>

-----------------------------------------------------------------------------
(* The scan loop.                                                          *)

LoopGoes(t, p) == loop' = [loop EXCEPT ![t] = p]
LoopEnds(t) == LoopGoes(t, "none") /\ todo' = [todo EXCEPT ![t] = 0]

\* What no step of the loop touches.
Lifecycle == <<app, state, stopEvent, task, pc, isRunning, crashes>>

\* The head of the loop, reached first, after the interval, and after the pause.
NextCycle(t) ==
    /\ loop[t] \in {"created", "wait", "pause"}
    /\ IF stopEvent THEN LoopEnds(t) ELSE LoopGoes(t, "killCheck") /\ UNCHANGED todo
    /\ UNCHANGED <<Lifecycle, faults, late, killed>>

\* The kill switch, looked at before the cycle and before each symbol, ends the loop.
KillSwitchEnds(t) ==
    /\ loop[t] \in {"killCheck", "symbolKillCheck"}
    /\ LoopEnds(t)
    /\ killed' = TRUE
    /\ UNCHANGED <<Lifecycle, faults, late>>

KillCheckPasses(t) ==
    /\ loop[t] = "killCheck"
    /\ LoopGoes(t, "breakerCheck")
    /\ UNCHANGED <<Lifecycle, todo, faults, late, killed>>

\* An open breaker skips the cycle.
CheckBreaker(t) ==
    /\ loop[t] = "breakerCheck"
    /\ \E open \in BOOLEAN : LoopGoes(t, IF open THEN "lastCycle" ELSE "symbols")
    /\ UNCHANGED <<Lifecycle, todo, faults, late, killed>>

NextSymbolUnchecked(t, n) ==       \* Mutant: the stop event is not looked at.
    /\ todo' = [todo EXCEPT ![t] = n]
    /\ LoopGoes(t, IF n = 0 THEN "history" ELSE "symbolKillCheck")

NextSymbolPastEnd(t, n) ==         \* Mutant: a cycle never runs out of symbols.
    /\ todo' = [todo EXCEPT ![t] = n]
    /\ LoopGoes(t, IF stopEvent THEN "history" ELSE "symbolKillCheck")

\* The next of n symbols, or the end of the cycle.
NextSymbol(t, n) ==
    LET left == IF stopEvent THEN 0 ELSE n
    IN  /\ todo' = [todo EXCEPT ![t] = left]
        /\ LoopGoes(t, IF left = 0 THEN "history" ELSE "symbolKillCheck")

\* A cycle without symbols is not recorded in the history.
GetSymbols(t) ==
    /\ loop[t] = "symbols"
    /\ \/ LoopGoes(t, "lastCycle") /\ UNCHANGED todo
       \/ \E n \in 1..MaxSymbols : NextSymbol(t, n)
    /\ UNCHANGED <<Lifecycle, faults, late, killed>>

\* Skipped for the session or the rate limit.
SkipSymbol(t) ==
    /\ loop[t] = "symbolKillCheck"
    /\ NextSymbol(t, todo[t] - 1)
    /\ UNCHANGED <<Lifecycle, faults, late, killed>>

BeginAnalysis(t) ==
    /\ loop[t] = "symbolKillCheck"
    /\ LoopGoes(t, "analyze")
    /\ late' = IF stopEvent THEN late + 1 ELSE late
    /\ UNCHANGED <<Lifecycle, todo, faults, killed>>

\* Errors of the analysis are isolated.
EndAnalysis(t) ==
    /\ loop[t] = "analyze"
    /\ NextSymbol(t, todo[t] - 1)
    /\ UNCHANGED <<Lifecycle, faults, late, killed>>

\* Errors of the history are swallowed.
RecordHistory(t) ==
    /\ loop[t] = "history"
    /\ LoopGoes(t, "lastCycle")
    /\ UNCHANGED <<Lifecycle, todo, faults, late, killed>>

SetLastCycle(t) ==
    /\ loop[t] = "lastCycle"
    /\ LoopGoes(t, "wait")
    /\ UNCHANGED <<Lifecycle, todo, faults, late, killed>>

LoopFailsForGood(t) ==             \* Mutant: an error ends the loop.
    /\ loop[t] \in {"symbols", "lastCycle"}
    /\ Fault
    /\ LoopEnds(t)
    /\ UNCHANGED <<Lifecycle, late, killed>>

\* Any other error is logged, and the loop pauses.
LoopFails(t) ==
    /\ loop[t] \in {"symbols", "lastCycle"}
    /\ Fault
    /\ LoopGoes(t, "pause")
    /\ UNCHANGED <<Lifecycle, todo, late, killed>>

-----------------------------------------------------------------------------
(* Requests, boot, shutdown and crashes.                                   *)

RequestStart(c) ==
    /\ app = "serving" /\ pc[c] = "idle"
    /\ BeginStart(c)
    /\ UNCHANGED <<app, stopEvent, task, loop, todo, isRunning, faults, crashes, late, killed>>

\* The route calls stop() only when the scanner is running.
RequestStop(c) ==
    /\ app = "serving" /\ pc[c] = "idle"
    /\ state = "running"
    /\ BeginStop(c)
    /\ UNCHANGED <<app, task, loop, todo, isRunning, faults, crashes, late, killed>>

BootStopped ==                     \* Mutant: the flag is not looked at.
    /\ app = "down"
    /\ app' = "serving"
    /\ UNCHANGED faults
    /\ UNCHANGED <<memory, isRunning, crashes>>

\* The flag decides; when it cannot be read the application serves without a scanner.
Boot ==
    /\ app = "down"
    /\ \/ /\ isRunning
          /\ app' = "booting" /\ BeginStart(Lifespan)
          /\ UNCHANGED <<stopEvent, task, loop, todo, late, killed, faults>>
       \/ ~isRunning /\ app' = "serving" /\ UNCHANGED <<memory, faults>>
       \/ Fault /\ app' = "headless" /\ UNCHANGED memory
    /\ UNCHANGED <<isRunning, crashes>>

\* An error of start() is logged, and the application serves.
Serve ==
    /\ app = "booting" /\ pc[Lifespan] = "idle"
    /\ app' = "serving"
    /\ UNCHANGED <<memory, isRunning, faults, crashes>>

\* The server shuts down when no request is in progress.  stop() does nothing when stopped
\* or stopping.
Shutdown ==
    /\ app \in {"serving", "headless"} /\ Idle
    /\ app' = "exiting"
    /\ IF state \in {"running", "starting"}
       THEN BeginStop(Lifespan)
       ELSE UNCHANGED <<state, stopEvent, pc>>
    /\ UNCHANGED <<task, loop, todo, isRunning, faults, crashes, late, killed>>

\* The process is gone, and its memory with it.
Forget ==
    /\ app' = "down"
    /\ state' = "stopped" /\ stopEvent' = FALSE /\ task' = NoTask
    /\ loop' = [t \in Tasks |-> "none"] /\ todo' = [t \in Tasks |-> 0]
    /\ pc' = [c \in Callers |-> "idle"]
    /\ late' = 0 /\ killed' = FALSE
    /\ UNCHANGED <<isRunning, faults>>

Exit == app = "exiting" /\ Idle /\ Forget /\ UNCHANGED crashes

Crash == app # "down" /\ crashes < MaxCrashes /\ crashes' = crashes + 1 /\ Forget

-----------------------------------------------------------------------------
Loop(t) ==
    \/ NextCycle(t) \/ KillSwitchEnds(t) \/ KillCheckPasses(t) \/ CheckBreaker(t)
    \/ GetSymbols(t) \/ SkipSymbol(t) \/ BeginAnalysis(t) \/ EndAnalysis(t)
    \/ RecordHistory(t) \/ SetLastCycle(t) \/ LoopFails(t)

\* The steps of start() and stop() but the forced cancellation.
Call(c) ==
    \/ MarkRunning(c) \/ CreateLoop(c)
    \/ Join(c) \/ MarkStopped(c) \/ FinishStop(c) \/ CallFails(c)

Next ==
    \/ \E t \in Tasks : Loop(t)
    \/ \E c \in Callers : Call(c) \/ Cancel(c)
    \/ \E c \in Requests : RequestStart(c) \/ RequestStop(c)
    \/ Boot \/ Serve \/ Shutdown \/ Exit \/ Crash

Spec == Init /\ [][Next]_vars

\* The event loop resumes its coroutines, sleeps end and the database answers; somebody boots
\* the application again.  The timeout that cancels a loop is not needed.
Fairness ==
    /\ \A t \in Tasks : WF_vars(Loop(t))
    /\ \A c \in Callers : WF_vars(Call(c))
    /\ WF_vars(Boot) /\ WF_vars(Serve) /\ WF_vars(Exit)

FairSpec == Spec /\ Fairness

-----------------------------------------------------------------------------
(* Properties.                                                             *)

\* Every variable keeps its type.
TypeOK ==
    /\ app \in {"down", "booting", "serving", "headless", "exiting"}
    /\ state \in States /\ stopEvent \in BOOLEAN /\ task \in Tasks \cup {NoTask}
    /\ loop \in [Tasks -> LoopStages] /\ todo \in [Tasks -> 0..MaxSymbols]
    /\ pc \in [Callers -> CallStages]
    /\ isRunning \in BOOLEAN
    /\ faults \in 0..MaxFaults /\ crashes \in 0..MaxCrashes
    /\ late \in Nat /\ killed \in BOOLEAN

\* However requests, boot, shutdown and errors interleave, a living scan loop is the task of a
\* scanner that is running or stopping: there are never two, and none once it is stopped.
LoopIsOwned ==
    \A t \in Tasks : Alive(t) => t = task /\ state \in {"running", "stopping"}

\* Only the kill switch ends the loop of a running scanner; no error does.
LoopSurvivesErrors ==
    state = "running" /\ ~killed => task # NoTask /\ Alive(task)

\* What the next boot will do is what this process is doing: the flag is set while the scanner
\* runs, whatever crashes, and clear once it has stopped.
FlagMatchesState ==
    app = "serving" =>
        /\ state = "running" => isRunning
        /\ state = "stopped" => ~isRunning

\* At most one symbol's analysis begins after the stop event is set (by a loop that was then
\* waiting for the kill switch).
OneAnalysisAfterStop == late <= 1

\* A call that is stopping the scanner returns, through any number of symbols left to scan.
StopReturns == state = "stopping" ~> (state # "stopping" \/ Idle)

\* After a crash the scanner runs again, unless the database fails once more.
Wedged == state \in {"starting", "stopping"} /\ Idle
CrashRecovers ==
    app = "down" /\ isRunning ~> (state = "running" \/ Wedged \/ app = "headless")

\* VIOLATED.  main.py:490 says after a failed initialization: "Don't crash the app - scanner
\* can be started manually"; but start() ignores every request unless the scanner is stopped.
ManualStartPossible == [][Serve => state \in {"stopped", "running"}]_vars
=============================================================================
