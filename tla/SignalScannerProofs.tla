------------------------ MODULE SignalScannerProofs ------------------------
(***************************************************************************)
(* Theorems about SignalScanner, for any number of requests, tasks and     *)
(* symbols, and any number of faults and crashes.                          *)
(***************************************************************************)
EXTENDS SignalScanner, TLAPS

-----------------------------------------------------------------------------
(* The inductive invariants.                                               *)

Starting(c) == pc[c] \in {"load", "marked"}
Stopping(c) == pc[c] \in {"join", "unmark", "unmarked"}

\* A symbol is left while one is looked at.
TodoInv == \A t \in Tasks : loop[t] \in {"symbolKillCheck", "analyze"} => todo[t] # 0

\* No lock keeps start() and stop() apart; the state each sets before its first await does.
\* So one call is at work at a time, and its stage agrees with the state and the loop's task.
CallInv ==
    /\ \A c, d \in Callers : pc[c] # "idle" /\ pc[d] # "idle" => c = d
    /\ \A c \in Callers :
          /\ Starting(c) => state = "starting"
          /\ Stopping(c) => state = "stopping"
          /\ pc[c] = "join" => task # NoTask
          /\ pc[c] \in {"unmark", "unmarked"} => task = NoTask
    /\ state \in {"stopped", "starting"} => task = NoTask
    /\ state \in {"stopped", "running"} => Idle
    /\ state = "running" => task # NoTask /\ ~stopEvent
    /\ state = "stopping" => stopEvent
    /\ app \in {"down", "headless"} => state = "stopped"
    /\ app = "booting" => state \in {"starting", "running"}

\* The flag is behind the state by the calls' own steps.
FlagInv ==
    /\ \A c \in Callers : /\ pc[c] = "marked" => isRunning
                          /\ pc[c] = "unmarked" => ~isRunning
    /\ state = "running" => isRunning
    /\ app = "serving" /\ state = "stopped" => ~isRunning

\* Stages from which the loop may still begin an analysis without looking at the stop event.
BeforeAnalysis == {"created", "killCheck", "breakerCheck", "symbols", "symbolKillCheck"}

\* Once an analysis has begun after the stop event was set, no loop is before another.
LateInv ==
    \/ late = 0
    \/ late = 1 /\ stopEvent /\ \A t \in Tasks : loop[t] \notin BeforeAnalysis

\* The steps, in groups that are alike in what they leave alone.
CallStep(c) ==
    \/ MarkRunning(c) \/ CreateLoop(c) \/ Join(c) \/ Cancel(c)
    \/ MarkStopped(c) \/ FinishStop(c) \/ CallFails(c)

AppStep == Boot \/ Serve \/ Shutdown \/ Exit \/ Crash

LEMMA Steps ==
    [Next]_vars <=> \/ \E t \in Tasks : Loop(t)
                    \/ \E c \in Callers : CallStep(c)
                    \/ \E c \in Requests : RequestStart(c) \/ RequestStop(c)
                    \/ AppStep \/ UNCHANGED vars
BY DEF Next, Call, CallStep, AppStep

-----------------------------------------------------------------------------
(* Types.                                                                  *)

Stable == TypeOK /\ TodoInv

LEMMA StableInit == Init => Stable
<1> SUFFICES ASSUME Init PROVE Stable
  OBVIOUS
<1> USE ScannerAssumption DEF Init
<1>1. loop \in [Tasks -> LoopStages] /\ pc \in [Callers -> CallStages]
  BY DEF LoopStages, CallStages
<1>2. todo \in [Tasks -> 0..MaxSymbols] /\ faults \in 0..MaxFaults /\ crashes \in 0..MaxCrashes
  OBVIOUS
<1> QED BY <1>1, <1>2 DEF Stable, TypeOK, TodoInv, States

LEMMA NextSymbolTyped ==
    ASSUME Stable, NEW t \in Tasks, NEW n \in 0..MaxSymbols, NextSymbol(t, n)
    PROVE  /\ loop' \in [Tasks -> LoopStages] /\ todo' \in [Tasks -> 0..MaxSymbols]
           /\ TodoInv'
BY ScannerAssumption DEF Stable, TypeOK, TodoInv, NextSymbol, LoopGoes, LoopStages

LEMMA StableStep == Stable /\ [Next]_vars => Stable'
<1> SUFFICES ASSUME Stable, [Next]_vars PROVE Stable'
  OBVIOUS
<1> USE ScannerAssumption DEF Stable, TypeOK, TodoInv, States, LoopStages, CallStages, memory, Lifecycle
<1>1. ASSUME NEW t \in Tasks, Loop(t) PROVE Stable'
  <2>1. CASE GetSymbols(t)
    <3>1. CASE \E n \in 1..MaxSymbols : NextSymbol(t, n)
      BY <2>1, <3>1, NextSymbolTyped DEF GetSymbols
    <3> QED BY <2>1, <3>1 DEF GetSymbols, LoopGoes
  <2>2. CASE SkipSymbol(t) \/ EndAnalysis(t)
    <3>1. todo[t] - 1 \in 0..MaxSymbols
      BY <2>2 DEF SkipSymbol, EndAnalysis
    <3> QED BY <2>2, <3>1, NextSymbolTyped DEF SkipSymbol, EndAnalysis
  <2>3. CASE LoopFails(t)
    BY <2>3 DEF LoopFails, Fault, LoopGoes
  <2>4. CASE NextCycle(t)
    BY <2>4 DEF NextCycle, LoopGoes, LoopEnds
  <2>5. CASE KillSwitchEnds(t)
    BY <2>5 DEF KillSwitchEnds, LoopGoes, LoopEnds
  <2>6. CASE KillCheckPasses(t) \/ CheckBreaker(t)
    BY <2>6 DEF KillCheckPasses, CheckBreaker, LoopGoes
  <2>7. CASE BeginAnalysis(t)
    BY <2>7 DEF BeginAnalysis, LoopGoes
  <2>8. CASE RecordHistory(t) \/ SetLastCycle(t)
    BY <2>8 DEF RecordHistory, SetLastCycle, LoopGoes
  <2> QED BY <1>1, <2>1, <2>2, <2>3, <2>4, <2>5, <2>6, <2>7, <2>8 DEF Loop
<1>2. ASSUME NEW c \in Callers, CallStep(c) PROVE Stable'
  <2>1. CASE MarkRunning(c) \/ MarkStopped(c) \/ FinishStop(c)
    BY <2>1 DEF MarkRunning, MarkStopped, FinishStop, CallGoes
  <2>2. CASE CreateLoop(c)
    BY <2>2 DEF CreateLoop, CallGoes
  <2>3. CASE Join(c)
    BY <2>3 DEF Join, Joined, CallGoes
  <2>4. CASE Cancel(c)
    <3>1. loop' \in [Tasks -> LoopStages]
      BY <2>4 DEF Cancel
    <3>2. 0 \in 0..MaxSymbols
      OBVIOUS
    <3>3. todo' \in [Tasks -> 0..MaxSymbols]
      BY <2>4, <3>2 DEF Cancel
    <3>4. TodoInv'
      BY <2>4 DEF Cancel
    <3> QED BY <2>4, <3>1, <3>3, <3>4 DEF Cancel, Joined, CallGoes
  <2>5. CASE CallFails(c)
    BY <2>5 DEF CallFails, CallGoes, Fault
  <2> QED BY <1>2, <2>1, <2>2, <2>3, <2>4, <2>5 DEF CallStep
<1>3. ASSUME NEW c \in Requests, RequestStart(c) \/ RequestStop(c) PROVE Stable'
  BY <1>3 DEF RequestStart, RequestStop, BeginStart, BeginStop, CallGoes, Callers
<1>4. CASE AppStep
  <2>1. CASE Boot
    BY <2>1 DEF Boot, BeginStart, CallGoes, Fault
  <2>2. CASE Serve \/ Shutdown
    BY <2>2 DEF Serve, Shutdown, BeginStop, CallGoes
  <2>3. CASE Exit \/ Crash
    <3>1. /\ loop' \in [Tasks -> LoopStages] /\ todo' \in [Tasks -> 0..MaxSymbols]
          /\ pc' \in [Callers -> CallStages] /\ TodoInv'
      BY <2>3 DEF Exit, Crash, Forget
    <3>2. crashes' \in 0..MaxCrashes
      BY <2>3 DEF Exit, Crash
    <3>3. /\ app' = "down" /\ state' = "stopped" /\ stopEvent' = FALSE /\ task' = NoTask
          /\ late' = 0 /\ killed' = FALSE /\ isRunning' = isRunning /\ faults' = faults
      BY <2>3 DEF Exit, Crash, Forget
    <3> QED BY <3>1, <3>2, <3>3
  <2> QED BY <1>4, <2>1, <2>2, <2>3 DEF AppStep
<1>5. CASE UNCHANGED vars
  BY <1>5 DEF vars
<1> QED BY <1>1, <1>2, <1>3, <1>4, <1>5, Steps

\* Type correctness of the scanner, its callers and the application.
THEOREM TypeCorrect == Spec => []TypeOK
<1>1. Stable => TypeOK
  BY DEF Stable
<1> QED BY <1>1, StableInit, StableStep, PTL DEF Spec

LEMMA StableAlways == Spec => []Stable
BY StableInit, StableStep, PTL DEF Spec
-----------------------------------------------------------------------------
(* One call at a time.                                                     *)

\* A step of a loop changes nothing CallInv speaks of.
LEMMA LoopLeavesCalls ==
    ASSUME NEW t \in Tasks, Loop(t)
    PROVE  UNCHANGED Lifecycle
BY DEF Loop, NextCycle, KillSwitchEnds, KillCheckPasses, CheckBreaker, GetSymbols, SkipSymbol,
       BeginAnalysis, EndAnalysis, RecordHistory, SetLastCycle, LoopFails

LEMMA CallStepInv == Stable /\ CallInv /\ [Next]_vars => CallInv'
<1> SUFFICES ASSUME Stable, CallInv, [Next]_vars PROVE CallInv'
  OBVIOUS
<1> USE ScannerAssumption DEF Stable, TypeOK, CallInv, Starting, Stopping, Idle, States, CallStages
<1>1. ASSUME NEW t \in Tasks, Loop(t) PROVE CallInv'
  BY <1>1, LoopLeavesCalls DEF Lifecycle
<1>2. ASSUME NEW c \in Callers, CallStep(c) PROVE CallInv'
  <2>1. CASE MarkRunning(c) \/ MarkStopped(c) \/ FinishStop(c)
    BY <2>1 DEF MarkRunning, MarkStopped, FinishStop, CallGoes
  <2>2. CASE CreateLoop(c)
    BY <2>2 DEF CreateLoop, CallGoes
  <2>3. CASE Join(c) \/ Cancel(c)
    BY <2>3 DEF Join, Cancel, Joined, CallGoes
  <2>4. CASE CallFails(c)
    BY <2>4 DEF CallFails, CallGoes
  <2> QED BY <1>2, <2>1, <2>2, <2>3, <2>4 DEF CallStep
<1>3. ASSUME NEW c \in Requests, RequestStart(c) \/ RequestStop(c) PROVE CallInv'
  BY <1>3 DEF RequestStart, RequestStop, BeginStart, BeginStop, CallGoes, Callers
<1>4. CASE AppStep
  <2>1. CASE Boot
    BY <2>1 DEF Boot, BeginStart, CallGoes, Callers, memory
  <2>2. CASE Serve \/ Shutdown
    BY <2>2 DEF Serve, Shutdown, BeginStop, CallGoes, Callers, memory
  <2>3. CASE Exit \/ Crash
    BY <2>3 DEF Exit, Crash, Forget
  <2> QED BY <1>4, <2>1, <2>2, <2>3 DEF AppStep
<1>5. CASE UNCHANGED vars
  BY <1>5 DEF vars, memory
<1> QED BY <1>1, <1>2, <1>3, <1>4, <1>5, Steps

-----------------------------------------------------------------------------
(* The loop belongs to the service.                                        *)

LEMMA OwnedStep == Stable /\ CallInv /\ LoopIsOwned /\ [Next]_vars => LoopIsOwned'
<1> SUFFICES ASSUME Stable, CallInv, LoopIsOwned, [Next]_vars PROVE LoopIsOwned'
  OBVIOUS
<1> USE ScannerAssumption DEF Stable, TypeOK, CallInv, Starting, Stopping, Idle, States, CallStages,
                              LoopIsOwned, Alive
<1>1. ASSUME NEW t \in Tasks, Loop(t) PROVE LoopIsOwned'
  <2>1. loop[t] # "none" /\ \A u \in Tasks \ {t} : loop'[u] = loop[u]
    BY <1>1 DEF Loop, NextCycle, KillSwitchEnds, KillCheckPasses, CheckBreaker, GetSymbols,
                SkipSymbol, BeginAnalysis, EndAnalysis, RecordHistory, SetLastCycle, LoopFails,
                NextSymbol, LoopGoes, LoopEnds
  <2> QED BY <1>1, <2>1, LoopLeavesCalls DEF Lifecycle
<1>2. ASSUME NEW c \in Callers, CallStep(c) PROVE LoopIsOwned'
  <2>1. CASE MarkRunning(c) \/ MarkStopped(c) \/ FinishStop(c) \/ CallFails(c)
    BY <2>1 DEF MarkRunning, MarkStopped, FinishStop, CallFails
  <2>2. CASE CreateLoop(c)
    BY <2>2 DEF CreateLoop
  <2>3. CASE Join(c) \/ Cancel(c)
    BY <2>3 DEF Join, Cancel, Joined
  <2> QED BY <1>2, <2>1, <2>2, <2>3 DEF CallStep
<1>3. ASSUME NEW c \in Requests, RequestStart(c) \/ RequestStop(c) PROVE LoopIsOwned'
  BY <1>3 DEF RequestStart, RequestStop, BeginStart, BeginStop
<1>4. CASE AppStep
  BY <1>4 DEF AppStep, Boot, BeginStart, Serve, Shutdown, BeginStop, Exit, Crash, Forget, memory
<1>5. CASE UNCHANGED vars
  BY <1>5 DEF vars, memory
<1> QED BY <1>1, <1>2, <1>3, <1>4, <1>5, Steps

LEMMA CallInit == Init => CallInv /\ LoopIsOwned
BY ScannerAssumption DEF Init, CallInv, Starting, Stopping, Idle, LoopIsOwned, Alive

\* However requests, boot, shutdown, crashes and errors interleave, there is never a second
\* scan loop, and none when the scanner is stopped.
THEOREM LoopAlwaysOwned == Spec => []LoopIsOwned
BY StableAlways, CallInit, CallStepInv, OwnedStep, PTL DEF Spec

LEMMA CallInvAlways == Spec => [](Stable /\ CallInv /\ LoopIsOwned)
BY StableAlways, CallInit, CallStepInv, OwnedStep, PTL DEF Spec
-----------------------------------------------------------------------------
(* The loop of a running scanner.                                          *)

LEMMA SurvivesStep ==
    Stable /\ CallInv /\ LoopIsOwned /\ LoopSurvivesErrors /\ [Next]_vars => LoopSurvivesErrors'
<1> SUFFICES ASSUME Stable, CallInv, LoopIsOwned, LoopSurvivesErrors, [Next]_vars
             PROVE  LoopSurvivesErrors'
  OBVIOUS
<1> USE ScannerAssumption DEF Stable, TypeOK, CallInv, Starting, Stopping, Idle, States, CallStages,
                              LoopIsOwned, LoopSurvivesErrors, Alive
<1>1. ASSUME NEW t \in Tasks, Loop(t) PROVE LoopSurvivesErrors'
  <2>1. CASE KillSwitchEnds(t)
    BY <2>1 DEF KillSwitchEnds
  <2>2. CASE NextCycle(t)
    BY <2>2 DEF NextCycle, LoopGoes, Lifecycle
  <2>3. CASE ~(KillSwitchEnds(t) \/ NextCycle(t))
    <3>1. loop'[t] # "none" /\ (\A u \in Tasks \ {t} : loop'[u] = loop[u]) /\ killed' = killed
      BY <1>1, <2>3 DEF Loop, KillCheckPasses, CheckBreaker, GetSymbols, SkipSymbol, BeginAnalysis,
                        EndAnalysis, RecordHistory, SetLastCycle, LoopFails, NextSymbol, LoopGoes
    <3> QED BY <1>1, <3>1, LoopLeavesCalls DEF Lifecycle
  <2> QED BY <1>1, <2>1, <2>2, <2>3
<1>2. ASSUME NEW c \in Callers, CallStep(c) PROVE LoopSurvivesErrors'
  <2>1. CASE MarkRunning(c) \/ MarkStopped(c) \/ FinishStop(c) \/ CallFails(c)
    BY <2>1 DEF MarkRunning, MarkStopped, FinishStop, CallFails
  <2>2. CASE CreateLoop(c)
    BY <2>2 DEF CreateLoop
  <2>3. CASE Join(c) \/ Cancel(c)
    BY <2>3 DEF Join, Cancel, Joined
  <2> QED BY <1>2, <2>1, <2>2, <2>3 DEF CallStep
<1>3. ASSUME NEW c \in Requests, RequestStart(c) \/ RequestStop(c) PROVE LoopSurvivesErrors'
  BY <1>3 DEF RequestStart, RequestStop, BeginStart, BeginStop
<1>4. CASE AppStep
  BY <1>4 DEF AppStep, Boot, BeginStart, Serve, Shutdown, BeginStop, Exit, Crash, Forget, memory
<1>5. CASE UNCHANGED vars
  BY <1>5 DEF vars, memory
<1> QED BY <1>1, <1>2, <1>3, <1>4, <1>5, Steps

\* No error ends the loop of a running scanner: nothing but the kill switch does.
THEOREM LoopAlwaysSurvives == Spec => []LoopSurvivesErrors
<1>1. Init => LoopSurvivesErrors
  BY DEF Init, LoopSurvivesErrors
<1> QED BY <1>1, CallInvAlways, SurvivesStep, PTL DEF Spec

-----------------------------------------------------------------------------
(* The flag in the database.                                               *)

LEMMA FlagStep == Stable /\ CallInv /\ FlagInv /\ [Next]_vars => FlagInv'
<1> SUFFICES ASSUME Stable, CallInv, FlagInv, [Next]_vars PROVE FlagInv'
  OBVIOUS
<1> USE ScannerAssumption DEF Stable, TypeOK, CallInv, Starting, Stopping, Idle, States, CallStages,
                              FlagInv
<1>1. ASSUME NEW t \in Tasks, Loop(t) PROVE FlagInv'
  BY <1>1, LoopLeavesCalls DEF Lifecycle
<1>2. ASSUME NEW c \in Callers, CallStep(c) PROVE FlagInv'
  <2>1. CASE MarkRunning(c) \/ MarkStopped(c) \/ FinishStop(c)
    BY <2>1 DEF MarkRunning, MarkStopped, FinishStop, CallGoes
  <2>2. CASE CreateLoop(c)
    BY <2>2 DEF CreateLoop, CallGoes
  <2>3. CASE Join(c) \/ Cancel(c)
    BY <2>3 DEF Join, Cancel, Joined, CallGoes
  <2>4. CASE CallFails(c)
    BY <2>4 DEF CallFails, CallGoes
  <2> QED BY <1>2, <2>1, <2>2, <2>3, <2>4 DEF CallStep
<1>3. ASSUME NEW c \in Requests, RequestStart(c) \/ RequestStop(c) PROVE FlagInv'
  BY <1>3 DEF RequestStart, RequestStop, BeginStart, BeginStop, CallGoes, Callers
<1>4. CASE AppStep
  <2>1. CASE Boot
    BY <2>1 DEF Boot, BeginStart, CallGoes, Callers, memory
  <2>2. CASE Serve \/ Shutdown
    BY <2>2 DEF Serve, Shutdown, BeginStop, CallGoes, Callers, memory
  <2>3. CASE Exit \/ Crash
    BY <2>3 DEF Exit, Crash, Forget
  <2> QED BY <1>4, <2>1, <2>2, <2>3 DEF AppStep
<1>5. CASE UNCHANGED vars
  BY <1>5 DEF vars, memory
<1> QED BY <1>1, <1>2, <1>3, <1>4, <1>5, Steps

\* What the database tells the next boot is what the scanner is doing, at whatever moment the
\* process dies.
THEOREM FlagAlwaysMatches == Spec => []FlagMatchesState
<1>1. Init => FlagInv
  BY DEF Init, FlagInv
<1>2. FlagInv => FlagMatchesState
  BY DEF FlagInv, FlagMatchesState
<1> QED BY <1>1, <1>2, CallInvAlways, FlagStep, PTL DEF Spec

-----------------------------------------------------------------------------
(* Stopping.                                                               *)

LEMMA LateStep == Stable /\ CallInv /\ LoopIsOwned /\ LateInv /\ [Next]_vars => LateInv'
<1> SUFFICES ASSUME Stable, CallInv, LoopIsOwned, LateInv, [Next]_vars PROVE LateInv'
  OBVIOUS
<1> USE ScannerAssumption DEF Stable, TypeOK, LoopIsOwned, LateInv, Alive, BeforeAnalysis
<1>1. ASSUME NEW t \in Tasks, Loop(t) PROVE LateInv'
  <2>1. CASE BeginAnalysis(t)
    BY <2>1 DEF BeginAnalysis, LoopGoes, Lifecycle
  <2>2. CASE ~BeginAnalysis(t)
    <3>1. late' = late /\ stopEvent' = stopEvent
      BY <1>1, <2>2, LoopLeavesCalls
      DEF Lifecycle, Loop, NextCycle, KillSwitchEnds, KillCheckPasses, CheckBreaker, GetSymbols,
          SkipSymbol, EndAnalysis, RecordHistory, SetLastCycle, LoopFails
    <3>2. stopEvent /\ loop[t] \notin BeforeAnalysis => loop'[t] \notin BeforeAnalysis
      BY <1>1, <2>2
      DEF Loop, NextCycle, KillSwitchEnds, KillCheckPasses, CheckBreaker, GetSymbols, SkipSymbol,
          EndAnalysis, RecordHistory, SetLastCycle, LoopFails, NextSymbol, LoopGoes, LoopEnds
    <3>3. \A u \in Tasks \ {t} : loop'[u] = loop[u]
      BY <1>1, <2>2
      DEF Loop, NextCycle, KillSwitchEnds, KillCheckPasses, CheckBreaker, GetSymbols, SkipSymbol,
          EndAnalysis, RecordHistory, SetLastCycle, LoopFails, NextSymbol, LoopGoes, LoopEnds
    <3> QED BY <3>1, <3>2, <3>3
  <2> QED BY <2>1, <2>2
<1>2. ASSUME NEW c \in Callers, CallStep(c) PROVE LateInv'
  BY <1>2 DEF CallStep, MarkRunning, MarkStopped, FinishStop, CallFails, CreateLoop, Join, Cancel,
              Joined
<1>3. ASSUME NEW c \in Requests, RequestStart(c) \/ RequestStop(c) PROVE LateInv'
  BY <1>3 DEF RequestStart, RequestStop, BeginStart, BeginStop
<1>4. CASE AppStep
  BY <1>4 DEF AppStep, Boot, BeginStart, Serve, Shutdown, BeginStop, Exit, Crash, Forget, memory
<1>5. CASE UNCHANGED vars
  BY <1>5 DEF vars, memory
<1> QED BY <1>1, <1>2, <1>3, <1>4, <1>5, Steps

\* After the stop event is set the loop begins at most one more analysis, with any number of
\* symbols left to scan.
THEOREM OneAnalysisAfterStopAlways == Spec => []OneAnalysisAfterStop
<1>1. Init => LateInv
  BY DEF Init, LateInv
<1>2. LateInv => OneAnalysisAfterStop
  BY DEF LateInv, OneAnalysisAfterStop
<1> QED BY <1>1, <1>2, CallInvAlways, LateStep, PTL DEF Spec
=============================================================================
