------------------------ MODULE AutoExecutionEngine ------------------------
(***************************************************************************)
(* AutoExecutionEngine (services/auto_execution_engine.py) for one user:   *)
(* concurrent evaluate_and_execute calls over the user's configuration     *)
(* (repositories/auto_execution_repository.py) and the daily counters in   *)
(* Redis (services/daily_counters.py), with the other clients of the       *)
(* counters: reserve_execution / rollback_execution and reset_counters.    *)
(*                                                                         *)
(* An action is what one awaited command does: one statement of the        *)
(* database, one Redis command or pipeline (MULTI/EXEC).  A key names a    *)
(* day, computed when the command is issued, at the end of the call's      *)
(* previous action; the keys of a day expire with it.  A command that is   *)
(* issued before midnight and runs after it is late: it reads nothing and  *)
(* writes what nobody reads.                                               *)
(*                                                                         *)
(* A Redis command that raises was not applied, or was applied and its     *)
(* answer lost.  Where the code ignores the answer the second is the same  *)
(* as success.                                                             *)
(***************************************************************************)
EXTENDS Integers, FiniteSets, FiniteSetsExt, Functions

CONSTANTS
    Engines,        \* slots for evaluate_and_execute calls
    Reservers,      \* slots for callers of reserve_execution
    Signals,
    RiskOf,         \* the risk percentage of a signal
    TradeLimits,    \* the values max_trades_per_day is given
    RiskLimits,     \* the values of max_risk_per_day; None is a limit no day reaches
    Filters,        \* the sets of signals a configuration's confidence, pattern and
                    \* symbol settings admit
    Defaults,       \* the configuration create_config writes
    MaxFaults,      \* bound: Redis commands that fail
    MaxCounter      \* bound: no reservation while the risk counter is above this

VARIABLES
    config,                          \* the row of the user's configuration
    trades, risk,                    \* Redis: the counters of today's keys
    pc, sig, cap,                    \* each call
    late,                            \* calls whose command names yesterday's keys
    counted,                         \* reservers whose reservation is in today's counters
    faults,                          \* Redis commands failed so far
    opened, openedRisk, reserved,    \* history, since today's counters were last zero
    uncounted, stray, exposed

calls == <<pc, sig, cap, late, counted>>
redis == <<trades, risk>>
history == <<opened, openedRisk, reserved, uncounted, stray, exposed>>
vars == <<config, trades, risk, pc, sig, cap, late, counted, faults, opened,
          openedRisk, reserved, uncounted, stray, exposed>>

Calls == Engines \cup Reservers
Caps == [trades : TradeLimits, risk : RiskLimits]

Config == [exists : BOOLEAN, enabled : BOOLEAN, kill : BOOLEAN, consent : BOOLEAN,
           caps : Caps, admits : Filters]

EngineStages == {"idle", "trades", "risk", "execute", "count", "addRisk"}
ReserverStages == {"idle", "held", "decr", "rollback"}
RedisStages == {"trades", "risk", "count", "addRisk", "decr", "rollback"}

ASSUME EngineAssumption ==
    /\ IsFiniteSet(Engines) /\ IsFiniteSet(Reservers)
    /\ Engines \cap Reservers = {}
    /\ Signals # {} /\ IsFiniteSet(Signals) /\ RiskOf \in [Signals -> Nat]
    /\ TradeLimits \subseteq Nat \ {0} /\ TradeLimits # {} /\ IsFiniteSet(TradeLimits)
    /\ RiskLimits \subseteq Nat /\ RiskLimits # {} /\ IsFiniteSet(RiskLimits)
    /\ Filters \subseteq SUBSET Signals
    /\ Defaults \in Config /\ Defaults.exists /\ ~Defaults.enabled
    /\ MaxFaults \in Nat /\ MaxCounter \in Nat

NoSignal == CHOOSE s \in Signals : TRUE
NoCaps == Defaults.caps

Init ==
    /\ config = [Defaults EXCEPT !.exists = FALSE]
    /\ trades = 0 /\ risk = 0
    /\ pc = [c \in Calls |-> "idle"]
    /\ sig = [c \in Calls |-> NoSignal]
    /\ cap = [c \in Calls |-> NoCaps]
    /\ late = {} /\ counted = {}
    /\ faults = 0
    /\ opened = 0 /\ openedRisk = 0 /\ reserved = 0
    /\ uncounted = 0 /\ stray = 0 /\ exposed = {}

-----------------------------------------------------------------------------
(* Steps of a call.                                                        *)

\* The call goes on to stage p; its next command takes its keys from today.
Goto(c, p) == /\ pc' = [pc EXCEPT ![c] = p]
              /\ late' = late \ {c}

\* The call returns.
Return(c) ==
    /\ pc' = [pc EXCEPT ![c] = "idle"]
    /\ sig' = [sig EXCEPT ![c] = NoSignal]
    /\ cap' = [cap EXCEPT ![c] = NoCaps]
    /\ late' = late \ {c}

\* What c's command reads from a counter of today, and leaves in it when it adds n.
Seen(c, counter) == IF c \in late THEN 0 ELSE counter
Plus(c, counter, n) == IF c \in late THEN counter ELSE counter + n

\* A Redis command raises RedisError.
Fault == faults < MaxFaults /\ faults' = faults + 1

-----------------------------------------------------------------------------
(* The configuration.                                                      *)

\* get_or_create_config, the first statement of update_config and enable.
Existing == IF config.exists THEN config ELSE Defaults

UpdateConfig ==
    /\ \E l \in Caps, a \in Filters : config' = [Existing EXCEPT !.caps = l, !.admits = a]
    /\ UNCHANGED <<redis, calls, faults, history>>

EnableUnconsented ==               \* Mutant: no consent is recorded.
    /\ config' = [Existing EXCEPT !.enabled = TRUE, !.kill = FALSE]
    /\ exposed' = {}
    /\ UNCHANGED <<redis, calls, faults, opened, openedRisk, reserved, uncounted, stray>>

Enable ==
    /\ config' = [Existing EXCEPT !.enabled = TRUE, !.consent = TRUE, !.kill = FALSE]
    /\ exposed' = {}
    /\ UNCHANGED <<redis, calls, faults, opened, openedRisk, reserved, uncounted, stray>>

\* The other calls raise when there is no row.
Disable ==
    /\ config.exists
    /\ config' = [config EXCEPT !.enabled = FALSE]
    /\ UNCHANGED <<redis, calls, faults, history>>

ActivateKillSwitch ==
    /\ config.exists /\ ~config.kill
    /\ config' = [config EXCEPT !.kill = TRUE]
    /\ exposed' = {e \in Engines : pc[e] \in {"trades", "risk", "execute"}}
    /\ UNCHANGED <<redis, calls, faults, opened, openedRisk, reserved, uncounted, stray>>

DeactivateKillSwitch ==
    /\ config.exists
    /\ config' = [config EXCEPT !.kill = FALSE]
    /\ exposed' = {}
    /\ UNCHANGED <<redis, calls, faults, opened, openedRisk, reserved, uncounted, stray>>

-----------------------------------------------------------------------------
(* evaluate_signal.                                                        *)

ConfigAdmitsKilled(s) ==           \* Mutant: the kill switch is not looked at.
    config.exists /\ config.enabled /\ config.consent /\ s \in config.admits

\* The checks that need only the configuration.  _check_circuit_breaker always passes.
ConfigAdmits(s) ==
    /\ config.exists
    /\ config.enabled
    /\ ~config.kill
    /\ config.consent
    /\ s \in config.admits

\* get_config.  A refused evaluation reads the counters too, to no effect: it is no step.
Evaluate(e, s) ==
    /\ pc[e] = "idle"
    /\ ConfigAdmits(s)
    /\ sig' = [sig EXCEPT ![e] = s]
    /\ cap' = [cap EXCEPT ![e] = config.caps]
    /\ Goto(e, "trades")
    /\ UNCHANGED <<config, redis, counted, faults, history>>

\* An evaluation stops, or goes on with the next check.
Decide(e, passed, next) ==
    /\ IF passed THEN Goto(e, next) /\ UNCHANGED <<sig, cap>> ELSE Return(e)
    /\ exposed' = IF passed THEN exposed ELSE exposed \ {e}

BelowTradeLimitUnset(e, n) == cap[e].trades > 0     \* Mutant: only a limit of zero stops.

BelowTradeLimit(e, n) == n < cap[e].trades

WithinRiskLimit(e, r) == r + RiskOf[sig[e]] <= cap[e].risk

\* _check_daily_trade_limit: a failed read counts as no trades today.
CheckTrades(e) ==
    /\ pc[e] = "trades"
    /\ \/ /\ Decide(e, BelowTradeLimit(e, Seen(e, trades)), "risk")
          /\ UNCHANGED <<faults, uncounted>>
       \/ /\ Fault
          /\ Decide(e, BelowTradeLimit(e, 0), "risk")
          /\ uncounted' = uncounted + 1
    /\ UNCHANGED <<config, redis, counted, opened, openedRisk, reserved, stray>>

\* _check_daily_risk_limit, likewise.
CheckRisk(e) ==
    /\ pc[e] = "risk"
    /\ \/ /\ Decide(e, WithinRiskLimit(e, Seen(e, risk)), "execute")
          /\ UNCHANGED <<faults, uncounted>>
       \/ /\ Fault
          /\ Decide(e, WithinRiskLimit(e, 0), "execute")
          /\ uncounted' = uncounted + 1
    /\ UNCHANGED <<config, redis, counted, opened, openedRisk, reserved, stray>>

-----------------------------------------------------------------------------
(* execute_signal.                                                         *)

Open(s) == opened' = opened + 1 /\ openedRisk' = openedRisk + RiskOf[s]

\* Paper trading opens a position.
Execute(e) ==
    /\ pc[e] = "execute"
    /\ Open(sig[e])
    /\ Goto(e, "count")
    /\ exposed' = exposed \ {e}
    /\ UNCHANGED <<config, redis, sig, cap, counted, faults, reserved, uncounted, stray>>

\* Paper trading raises: before a position is saved, or after (updating the account), and
\* then the position is open and never counted.
ExecuteFails(e) ==
    /\ pc[e] = "execute"
    /\ \/ UNCHANGED <<opened, openedRisk, uncounted, faults>>
       \/ Fault /\ Open(sig[e]) /\ uncounted' = uncounted + 1
    /\ Return(e)
    /\ exposed' = exposed \ {e}
    /\ UNCHANGED <<config, redis, counted, reserved, stray>>

\* increment_trades swallows a RedisError.
IncrementTrades(e) ==
    /\ pc[e] = "count"
    /\ \/ trades' = Plus(e, trades, 1) /\ UNCHANGED <<faults, uncounted>>
       \/ Fault /\ uncounted' = uncounted + 1 /\ UNCHANGED trades
    /\ Goto(e, "addRisk")
    /\ UNCHANGED <<config, risk, sig, cap, counted, opened, openedRisk, reserved, stray, exposed>>

AddRiskSkipped(e) ==               \* Mutant: the risk is not counted.
    /\ pc[e] = "addRisk"
    /\ Return(e)
    /\ UNCHANGED <<config, redis, counted, faults, opened, openedRisk, reserved, uncounted,
                   stray, exposed>>

\* add_risk swallows it too; the notification's errors are swallowed as well.
AddRisk(e) ==
    /\ pc[e] = "addRisk"
    /\ \/ risk' = Plus(e, risk, RiskOf[sig[e]]) /\ UNCHANGED <<faults, uncounted>>
       \/ Fault /\ uncounted' = uncounted + 1 /\ UNCHANGED risk
    /\ Return(e)
    /\ UNCHANGED <<config, trades, counted, opened, openedRisk, reserved, stray, exposed>>

-----------------------------------------------------------------------------
(* reserve_execution and rollback_execution.                               *)

JudgeStale(r, s, l) ==             \* Mutant: judged by the values before the pipeline.
    LET refused == trades > l.trades \/ risk > l.risk
    IN  /\ pc' = [pc EXCEPT ![r] = IF refused THEN "rollback" ELSE "held"]
        /\ reserved' = IF refused THEN reserved ELSE reserved + 1

\* The pipeline has added the trade and its risk; r goes on with their new values.
Judge(r, s, l) ==
    LET n == trades + 1
        total == risk + RiskOf[s]
    IN  /\ pc' = [pc EXCEPT ![r] = IF n > l.trades THEN "decr"
                                   ELSE IF total > l.risk THEN "rollback" ELSE "held"]
        /\ reserved' = IF n <= l.trades /\ total <= l.risk THEN reserved + 1 ELSE reserved

\* A lost answer returns False, and both counters keep what was added.
Reserve(r, s, l) ==
    /\ pc[r] = "idle"
    /\ risk <= MaxCounter
    /\ trades' = trades + 1 /\ risk' = risk + RiskOf[s]
    /\ \/ /\ Judge(r, s, l)
          /\ sig' = [sig EXCEPT ![r] = s]
          /\ counted' = counted \cup {r}
          /\ UNCHANGED faults
       \/ Fault /\ UNCHANGED <<pc, sig, counted, reserved>>
    /\ UNCHANGED <<config, cap, late, opened, openedRisk, uncounted, stray, exposed>>

Forget(r) == Return(r) /\ counted' = counted \ {r}

\* A decrement of today's counter that no increment of today answers to.
Strays(r) == IF r \notin late \cup counted THEN stray + 1 ELSE stray

\* Refused for the number of trades: the trade is given back, the risk is not.
GiveBackTrade(r) ==
    /\ pc[r] = "decr"
    /\ \/ trades' = Plus(r, trades, -1) /\ stray' = Strays(r) /\ UNCHANGED faults
       \/ Fault /\ UNCHANGED <<trades, stray>>
    /\ Forget(r)
    /\ UNCHANGED <<config, risk, opened, openedRisk, reserved, uncounted, exposed>>

\* The caller executes what it has reserved, perhaps on a day that does not count it.
UseReservation(r) ==
    /\ pc[r] = "held"
    /\ Open(sig[r])
    /\ stray' = IF r \in counted THEN stray ELSE stray + 1
    /\ Forget(r)
    /\ UNCHANGED <<config, redis, faults, reserved, uncounted, exposed>>

\* Its execution failed: it calls rollback_execution, which computes the keys of today.
CancelReservation(r) ==
    /\ pc[r] = "held"
    /\ Goto(r, "rollback")
    /\ reserved' = IF r \in counted THEN reserved - 1 ELSE reserved
    /\ UNCHANGED <<config, redis, sig, cap, counted, faults, opened, openedRisk,
                   uncounted, stray, exposed>>

Rollback(r) ==
    /\ pc[r] = "rollback"
    /\ \/ /\ trades' = Plus(r, trades, -1) /\ risk' = Plus(r, risk, -RiskOf[sig[r]])
          /\ stray' = Strays(r)
          /\ UNCHANGED faults
       \/ Fault /\ UNCHANGED <<redis, stray>>
    /\ Forget(r)
    /\ UNCHANGED <<config, opened, openedRisk, reserved, uncounted, exposed>>

-----------------------------------------------------------------------------
(* Today's counters start from zero.                                       *)

StartCounting ==
    /\ trades' = 0 /\ risk' = 0
    /\ counted' = {}
    /\ opened' = 0 /\ openedRisk' = 0 /\ reserved' = 0 /\ uncounted' = 0 /\ stray' = 0

Midnight ==
    /\ StartCounting
    /\ late' = {c \in Calls : pc[c] \in RedisStages}
    /\ UNCHANGED <<config, pc, sig, cap, faults, exposed>>

\* reset_counters; also the keys' expiry, up to a second before midnight.
ResetCounters ==
    /\ StartCounting
    /\ UNCHANGED <<config, pc, sig, cap, late, faults, exposed>>

-----------------------------------------------------------------------------
Operator == UpdateConfig \/ Enable \/ Disable \/ ActivateKillSwitch \/ DeactivateKillSwitch

Engine(e) ==
    \/ \E s \in Signals : Evaluate(e, s)
    \/ CheckTrades(e) \/ CheckRisk(e)
    \/ Execute(e) \/ ExecuteFails(e)
    \/ IncrementTrades(e) \/ AddRisk(e)

Reserver(r) ==
    \/ \E s \in Signals, l \in Caps : Reserve(r, s, l)
    \/ GiveBackTrade(r) \/ UseReservation(r) \/ CancelReservation(r) \/ Rollback(r)

Next ==
    \/ Operator
    \/ \E e \in Engines : Engine(e)
    \/ \E r \in Reservers : Reserver(r)
    \/ Midnight \/ ResetCounters

Spec == Init /\ [][Next]_vars

-----------------------------------------------------------------------------
(* Properties.                                                             *)

\* Every variable keeps its type; enabled implies that consent was given.
TypeOK ==
    /\ config \in Config /\ (config.enabled => config.consent)
    /\ trades \in Int /\ risk \in Int
    /\ pc \in [Calls -> EngineStages \cup ReserverStages]
    /\ \A e \in Engines : pc[e] \in EngineStages
    /\ \A r \in Reservers : pc[r] \in ReserverStages
    /\ sig \in [Calls -> Signals] /\ cap \in [Calls -> Caps]
    /\ late \subseteq Calls /\ counted \subseteq Reservers
    /\ faults \in 0..MaxFaults
    /\ opened \in Nat /\ openedRisk \in Nat /\ reserved \in Int
    /\ uncounted \in Nat /\ stray \in Nat
    /\ exposed \subseteq Engines

\* What a day may exceed its limit by: a trade for each other call at work, for each command
\* of the engine that failed, and for each reservation used or rolled back on counters that do
\* not hold it (those of another day, or deleted since).
Overshoot == Cardinality(Calls) - 1 + uncounted + stray

\* The engine reads the counters before a trade and adds to them after it, and failures are
\* read as zero: still a day's trades exceed the highest limit by the overshoot at most.
DailyTradesBounded == opened <= Max(TradeLimits) + Overshoot

\* Redis never understates the day: the positions opened and their risk are in the counters,
\* or in a call about to add them, or a command failed or a decrement strayed.
At(stages) == {e \in Engines : pc[e] \in stages}
RiskAt(stages) == SumFunctionOnSet([e \in Engines |-> RiskOf[sig[e]]], At(stages))

CountersCoverPositions ==
    /\ opened <= trades + Cardinality(At({"count"})) + uncounted + stray
    /\ openedRisk <= risk + RiskAt({"count", "addRisk"})
                       + (uncounted + stray) * Max({RiskOf[s] : s \in Signals})

\* Reservations alone keep the limit: whatever the engine's calls do meanwhile, the trades
\* reserved today and not given back exceed it only by rollbacks of the wrong counters.
ReservationsWithinLimit == reserved <= Max(TradeLimits) + stray

\* Once the kill switch is on, only a call that had read its configuration before opens a
\* position, and no such call opens a second one.
KillSwitchStopsNewEvaluations ==
    [][\A e \in Engines : config.kill /\ Execute(e) => e \in exposed]_vars
=============================================================================
