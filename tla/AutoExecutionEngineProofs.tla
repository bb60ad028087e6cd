---------------------- MODULE AutoExecutionEngineProofs ----------------------
(***************************************************************************)
(* Theorems about AutoExecutionEngine, for any number of calls, any limits *)
(* and any number of failing Redis commands.                               *)
(***************************************************************************)
EXTENDS AutoExecutionEngine, SumTheorems

-----------------------------------------------------------------------------
(* Types.                                                                  *)

\* A call that has returned holds nothing, and yesterday's keys name no reservation of today.
CallInv ==
    /\ late \cap counted = {}
    /\ \A c \in late \cup counted : pc[c] # "idle"

Stable == TypeOK /\ CallInv

LEMMA MaxExists ==
    ASSUME NEW S \in SUBSET Nat, IsFiniteSet(S), S # {}
    PROVE  Max(S) \in S /\ \A x \in S : x <= Max(S)
<1> DEFINE HasMax(T) == \E x \in T : \A y \in T : x >= y
           Bad == {n \in Nat : \E T \in SUBSET S : T # {} /\ Cardinality(T) = n /\ ~HasMax(T)}
<1>1. HasMax(S)
  <2> SUFFICES ASSUME ~HasMax(S) PROVE FALSE
    OBVIOUS
  <2>1. Cardinality(S) \in Bad
    BY FS_CardinalityType
  <2>2. PICK n \in Bad : \A m \in Bad : n <= m
    BY <2>1, LeastNumber
  <2>3. PICK T \in SUBSET S : T # {} /\ Cardinality(T) = n /\ ~HasMax(T)
    BY <2>2
  <2>4. PICK a \in T : TRUE
    BY <2>3
  <2> DEFINE R == T \ {a}
  <2>5. IsFiniteSet(T) /\ IsFiniteSet(R) /\ Cardinality(R) \in Nat /\ Cardinality(R) = n - 1 /\ n \in Nat
    BY <2>2, <2>3, <2>4, FS_Subset, FS_RemoveElement, FS_CardinalityType
  <2>6. R # {}
    <3> SUFFICES ASSUME T = {a} PROVE FALSE
      BY <2>4
    <3>1. a \in Nat /\ a >= a
      BY <2>3, <2>4
    <3> QED BY <2>3, <3>1
  <2>7. HasMax(R)
    <3> SUFFICES ASSUME ~HasMax(R) PROVE FALSE
      OBVIOUS
    <3>1. Cardinality(R) \in Bad
      BY <2>3, <2>5, <2>6
    <3> HIDE DEF Bad, R
    <3> QED BY <2>2, <2>5, <3>1
  <2>8. PICK b \in R : \A y \in R : b >= y
    BY <2>7
  <2>9. a \in Nat /\ b \in Nat /\ b \in T /\ T \subseteq Nat /\ T = R \cup {a}
    BY <2>3, <2>4, <2>8
  <2>10. CASE a >= b
    <3>1. \A y \in T : a >= y
      <4> SUFFICES ASSUME NEW y \in T PROVE a >= y
        OBVIOUS
      <4>1. y \in Nat /\ (y = a \/ b >= y)
        BY <2>8, <2>9
      <4> HIDE DEF R
      <4> QED BY <2>9, <2>10, <4>1
    <3> QED BY <2>3, <2>4, <3>1
  <2>11. CASE ~(a >= b)
    <3>1. \A y \in T : b >= y
      <4> SUFFICES ASSUME NEW y \in T PROVE b >= y
        OBVIOUS
      <4>1. y \in Nat /\ (y = a \/ b >= y)
        BY <2>8, <2>9
      <4> HIDE DEF R
      <4> QED BY <2>9, <2>11, <4>1
    <3> QED BY <2>3, <2>9, <3>1
  <2> QED BY <2>10, <2>11
<1>2. Max(S) \in S /\ \A y \in S : Max(S) >= y
  BY <1>1 DEF Max
<1> QED BY <1>2

MaxTrades == Max(TradeLimits)
MaxRisk == Max({RiskOf[s] : s \in Signals})

LEMMA Limits ==
    /\ MaxTrades \in Nat \ {0} /\ \A l \in TradeLimits : l \in Nat /\ l <= MaxTrades
    /\ MaxRisk \in Nat /\ \A s \in Signals : RiskOf[s] \in Nat /\ RiskOf[s] <= MaxRisk
<1>1. MaxTrades \in TradeLimits /\ (\A l \in TradeLimits : l <= MaxTrades) /\ TradeLimits \subseteq Nat \ {0}
  <2>1. TradeLimits \in SUBSET Nat /\ IsFiniteSet(TradeLimits) /\ TradeLimits # {}
    BY EngineAssumption
  <2> QED BY <2>1, MaxExists, EngineAssumption DEF MaxTrades
<1> DEFINE R == {RiskOf[s] : s \in Signals}
<1>2. R \in SUBSET Nat /\ R # {} /\ IsFiniteSet(R)
  <2>1. IsFiniteSet(R)
    <3>1. RiskOf \in Surjection(Signals, R)
      BY EngineAssumption DEF Surjection
    <3> HIDE DEF R
    <3> QED BY <3>1, FS_Surjection, EngineAssumption
  <2> QED BY <2>1, EngineAssumption
<1>3. MaxRisk \in R /\ \A x \in R : x <= MaxRisk
  <2> HIDE DEF R
  <2>1. Max(R) \in R /\ \A x \in R : x <= Max(R)
    BY <1>2, MaxExists
  <2> QED BY <2>1 DEF R, MaxRisk
<1> QED BY <1>1, <1>2, <1>3

LEMMA Counted ==
    ASSUME NEW S \in SUBSET Calls
    PROVE  IsFiniteSet(S) /\ Cardinality(S) \in Nat /\ Cardinality(S) <= Cardinality(Calls)
           /\ Cardinality(Calls) \in Nat
<1>1. IsFiniteSet(Calls)
  BY EngineAssumption, FS_Union DEF Calls
<1> QED BY <1>1, FS_Subset, FS_CardinalityType

LEMMA StableInit == Init => Stable
<1> SUFFICES ASSUME Init PROVE Stable
  OBVIOUS
<1>1. NoSignal \in Signals /\ NoCaps \in Caps /\ Defaults \in Config /\ ~Defaults.enabled
  BY EngineAssumption DEF NoSignal, NoCaps, Config
<1>2. config \in Config /\ ~config.enabled
  BY <1>1 DEF Init, Config
<1>3. 0 \in 0..MaxFaults
  BY EngineAssumption
<1>4. /\ pc \in [Calls -> EngineStages \cup ReserverStages]
      /\ \A e \in Engines : pc[e] \in EngineStages
      /\ \A r \in Reservers : pc[r] \in ReserverStages
  BY DEF Init, EngineStages, ReserverStages, Calls
<1>5. TypeOK
  BY <1>1, <1>2, <1>3, <1>4 DEF Init, TypeOK
<1> QED BY <1>5 DEF Init, Stable, CallInv

LEMMA ConfigStep == ASSUME Stable, [Next]_vars PROVE config' \in Config /\ (config'.enabled => config'.consent)
<1>1. config \in Config /\ Defaults \in Config /\ ~Defaults.enabled /\ (config.enabled => config.consent)
  BY EngineAssumption DEF Stable, TypeOK
<1>2. Existing \in Config /\ (Existing.enabled => Existing.consent)
  BY <1>1 DEF Existing
<1>3. CASE UpdateConfig
  BY <1>2, <1>3 DEF UpdateConfig, Config
<1>4. CASE Enable
  BY <1>2, <1>4 DEF Enable, Config
<1>5. CASE Disable
  BY <1>1, <1>5 DEF Disable, Config
<1>6. CASE ActivateKillSwitch
  BY <1>1, <1>6 DEF ActivateKillSwitch, Config
<1>7. CASE DeactivateKillSwitch
  BY <1>1, <1>7 DEF DeactivateKillSwitch, Config
<1>8. ASSUME NEW e \in Engines, Engine(e) PROVE config' = config
  BY <1>8 DEF Engine, Evaluate, CheckTrades, CheckRisk, Execute, ExecuteFails, IncrementTrades, AddRisk
<1>9. ASSUME NEW r \in Reservers, Reserver(r) PROVE config' = config
  BY <1>9 DEF Reserver, Reserve, GiveBackTrade, UseReservation, CancelReservation, Rollback
<1>10. CASE Midnight \/ ResetCounters \/ UNCHANGED vars
  <2>1. config' = config
    BY <1>10 DEF Midnight, ResetCounters, vars
  <2> QED BY <1>1, <2>1
<1> QED BY <1>1, <1>3, <1>4, <1>5, <1>6, <1>7, <1>8, <1>9, <1>10 DEF Next, Operator

\* A step of a call is its own, and its next command names today's keys.
LEMMA EngineFrame ==
    ASSUME Stable, NEW e \in Engines, Engine(e)
    PROVE  /\ \E p \in EngineStages, s \in Signals, l \in Caps :
                 /\ pc' = [pc EXCEPT ![e] = p]
                 /\ sig' = [sig EXCEPT ![e] = s] /\ cap' = [cap EXCEPT ![e] = l]
           /\ late' = late \ {e} /\ UNCHANGED <<config, counted, reserved, stray>>
<1>0. /\ sig = [sig EXCEPT ![e] = sig[e]] /\ cap = [cap EXCEPT ![e] = cap[e]]
      /\ sig[e] \in Signals /\ cap[e] \in Caps /\ NoSignal \in Signals /\ NoCaps \in Caps
  BY EngineAssumption DEF Stable, TypeOK, Calls, NoSignal, NoCaps, Config
<1> USE DEF EngineStages, Goto, Return
<1>1. CASE \E s \in Signals : Evaluate(e, s)
  <2>1. config.caps \in Caps
    BY DEF Stable, TypeOK, Config
  <2> QED BY <1>1, <2>1 DEF Evaluate, history
<1>2. ASSUME NEW passed, NEW next \in {"risk", "execute"}, Decide(e, passed, next)
      PROVE  /\ \E p \in EngineStages, s \in Signals, l \in Caps :
                   /\ pc' = [pc EXCEPT ![e] = p]
                   /\ sig' = [sig EXCEPT ![e] = s] /\ cap' = [cap EXCEPT ![e] = l]
             /\ late' = late \ {e}
  <2>1. CASE passed
    BY <1>0, <1>2, <2>1 DEF Decide
  <2>2. CASE ~passed
    BY <1>0, <1>2, <2>2 DEF Decide
  <2> QED BY <2>1, <2>2
<1>3. CASE CheckTrades(e)
  <2>1. PICK n : Decide(e, BelowTradeLimit(e, n), "risk")
    BY <1>3 DEF CheckTrades
  <2> QED BY <1>2, <1>3, <2>1 DEF CheckTrades
<1>4. CASE CheckRisk(e)
  <2>1. PICK n : Decide(e, WithinRiskLimit(e, n), "execute")
    BY <1>4 DEF CheckRisk
  <2> QED BY <1>2, <1>4, <2>1 DEF CheckRisk
<1>5. CASE Execute(e)
  BY <1>0, <1>5 DEF Execute
<1>6. CASE ExecuteFails(e)
  BY <1>0, <1>6 DEF ExecuteFails
<1>7. CASE IncrementTrades(e)
  BY <1>0, <1>7 DEF IncrementTrades
<1>8. CASE AddRisk(e)
  BY <1>0, <1>8 DEF AddRisk
<1> QED BY <1>1, <1>3, <1>4, <1>5, <1>6, <1>7, <1>8 DEF Engine

\* What its step makes of a reserver, and of the reservations in today's counters.
ReserverMoves(r) ==
    \/ /\ pc[r] = "idle"
       /\ \/ UNCHANGED <<pc, sig, counted>>
          \/ pc'[r] \in {"held", "decr", "rollback"} /\ counted' = counted \cup {r}
    \/ pc[r] = "held" /\ pc'[r] = "rollback" /\ UNCHANGED <<sig, counted>>
    \/ pc[r] \in {"held", "decr", "rollback"} /\ pc'[r] = "idle" /\ counted' = counted \ {r}

LEMMA ReserverFrame ==
    ASSUME Stable, NEW r \in Reservers, Reserver(r)
    PROVE  /\ \E p \in ReserverStages, s \in Signals, l \in Caps :
                 /\ pc' = [pc EXCEPT ![r] = p]
                 /\ sig' = [sig EXCEPT ![r] = s] /\ cap' = [cap EXCEPT ![r] = l]
           /\ late' = late \ {r} /\ UNCHANGED <<config, uncounted, exposed>>
           /\ ReserverMoves(r)
<1>0. /\ sig = [sig EXCEPT ![r] = sig[r]] /\ cap = [cap EXCEPT ![r] = cap[r]]
      /\ pc = [pc EXCEPT ![r] = pc[r]] /\ pc[r] \in ReserverStages /\ r \in Calls /\ r \in DOMAIN pc
      /\ sig[r] \in Signals /\ cap[r] \in Caps /\ NoSignal \in Signals /\ NoCaps \in Caps
  BY EngineAssumption DEF Stable, TypeOK, Calls, NoSignal, NoCaps, Config
<1>1. CASE \E s \in Signals, l \in Caps : Reserve(r, s, l)
  <2>1. PICK s \in Signals, l \in Caps : Reserve(r, s, l)
    BY <1>1
  <2>2. pc[r] = "idle" /\ late \ {r} = late
    BY <2>1 DEF Reserve, Stable, CallInv
  <2>3. CASE Judge(r, s, l) /\ sig' = [sig EXCEPT ![r] = s] /\ counted' = counted \cup {r}
    <3>1. \E p \in {"held", "decr", "rollback"} : pc' = [pc EXCEPT ![r] = p]
      BY <2>3 DEF Judge
    <3> QED BY <1>0, <2>1, <2>2, <2>3, <3>1 DEF Reserve, ReserverMoves, ReserverStages
  <2>4. CASE UNCHANGED <<pc, sig, counted>>
    BY <1>0, <2>1, <2>2, <2>4 DEF Reserve, ReserverMoves
  <2> QED BY <2>1, <2>3, <2>4 DEF Reserve
<1>2. ASSUME Forget(r), pc[r] \in {"held", "decr", "rollback"}
      PROVE  /\ \E p \in ReserverStages, s \in Signals, l \in Caps :
                   /\ pc' = [pc EXCEPT ![r] = p]
                   /\ sig' = [sig EXCEPT ![r] = s] /\ cap' = [cap EXCEPT ![r] = l]
             /\ late' = late \ {r} /\ ReserverMoves(r)
  BY <1>0, <1>2 DEF Forget, Return, ReserverMoves, ReserverStages
<1>3. CASE GiveBackTrade(r)
  BY <1>2, <1>3 DEF GiveBackTrade
<1>4. CASE UseReservation(r)
  BY <1>2, <1>4 DEF UseReservation
<1>5. CASE Rollback(r)
  BY <1>2, <1>5 DEF Rollback
<1>6. CASE CancelReservation(r)
  BY <1>0, <1>6 DEF CancelReservation, Goto, ReserverMoves, ReserverStages
<1> QED BY <1>1, <1>3, <1>4, <1>5, <1>6 DEF Reserver

LEMMA CallStep == ASSUME Stable, [Next]_vars PROVE CallInv'
<1>1. /\ late \cap counted = {} /\ (\A c \in late \cup counted : pc[c] # "idle") /\ late \subseteq Calls
      /\ counted \subseteq Calls /\ DOMAIN pc = Calls /\ Engines \cap Reservers = {} /\ counted \subseteq Reservers
      /\ Engines \subseteq Calls /\ Reservers \subseteq Calls
  BY EngineAssumption DEF Stable, CallInv, TypeOK, Calls
<1>2. ASSUME NEW e \in Engines, Engine(e) PROVE CallInv'
  <2>1. /\ \A c \in Calls \ {e} : pc'[c] = pc[c]
        /\ late' = late \ {e} /\ counted' = counted
    BY <1>1, <1>2, EngineFrame
  <2>2. e \notin counted
    BY <1>1
  <2> QED BY <1>1, <2>1, <2>2 DEF CallInv
<1>3. ASSUME NEW r \in Reservers, Reserver(r) PROVE CallInv'
  <2>1. /\ \A c \in Calls \ {r} : pc'[c] = pc[c]
        /\ late' = late \ {r} /\ ReserverMoves(r)
    BY <1>1, <1>3, ReserverFrame
  <2>2. counted' \subseteq counted \cup {r} /\ (pc'[r] = "idle" => r \notin counted')
    BY <1>1, <2>1 DEF ReserverMoves
  <2> QED BY <1>1, <2>1, <2>2 DEF CallInv
<1>4. CASE Midnight
  BY <1>4 DEF Midnight, StartCounting, CallInv, RedisStages
<1>5. CASE ResetCounters
  BY <1>1, <1>5 DEF ResetCounters, StartCounting, CallInv
<1>6. CASE Operator \/ UNCHANGED vars
  <2>1. UNCHANGED <<pc, late, counted>>
    BY <1>6 DEF Operator, UpdateConfig, Enable, Disable, ActivateKillSwitch, DeactivateKillSwitch,
                calls, vars
  <2> QED BY <1>1, <2>1 DEF CallInv
<1> QED BY <1>2, <1>3, <1>4, <1>5, <1>6 DEF Next

LEMMA TypeStep == ASSUME Stable, [Next]_vars PROVE TypeOK'
<1>1. config' \in Config /\ (config'.enabled => config'.consent)
  BY ConfigStep
<1>0. /\ trades \in Int /\ risk \in Int /\ faults \in 0..MaxFaults /\ opened \in Nat
      /\ openedRisk \in Nat /\ reserved \in Int /\ uncounted \in Nat /\ stray \in Nat
      /\ exposed \subseteq Engines /\ MaxFaults \in Nat /\ Engines \cap Reservers = {}
  BY EngineAssumption DEF Stable, TypeOK
\* The variables of the calls, and the others.
<1> DEFINE Positions ==
              /\ pc' \in [Calls -> EngineStages \cup ReserverStages]
              /\ \A e \in Engines : pc'[e] \in EngineStages
              /\ \A r \in Reservers : pc'[r] \in ReserverStages
              /\ sig' \in [Calls -> Signals] /\ cap' \in [Calls -> Caps]
              /\ late' \subseteq Calls /\ counted' \subseteq Reservers
           Numbers ==
              /\ trades' \in Int /\ risk' \in Int /\ faults' \in 0..MaxFaults /\ opened' \in Nat
              /\ openedRisk' \in Nat /\ reserved' \in Int /\ uncounted' \in Nat /\ stray' \in Nat
              /\ exposed' \subseteq Engines
<1>2. Positions
  <2> USE DEF Stable, TypeOK
  <2>1. ASSUME NEW e \in Engines, Engine(e) PROVE Positions
    <3>1. PICK p \in EngineStages, s \in Signals, l \in Caps :
             /\ pc' = [pc EXCEPT ![e] = p] /\ sig' = [sig EXCEPT ![e] = s] /\ cap' = [cap EXCEPT ![e] = l]
      BY <2>1, EngineFrame
    <3>2. late' = late \ {e} /\ counted' = counted
      BY <2>1, EngineFrame
    <3>3. /\ pc' \in [Calls -> EngineStages \cup ReserverStages]
          /\ sig' \in [Calls -> Signals] /\ cap' \in [Calls -> Caps]
      BY <3>1
    <3>4. \A d \in Engines : pc'[d] \in EngineStages
      BY <1>0, <3>1 DEF Calls
    <3>5. \A q \in Reservers : pc'[q] \in ReserverStages
      BY <1>0, <3>1 DEF Calls
    <3> QED BY <3>2, <3>3, <3>4, <3>5
  <2>2. ASSUME NEW r \in Reservers, Reserver(r) PROVE Positions
    <3>1. PICK p \in ReserverStages, s \in Signals, l \in Caps :
             /\ pc' = [pc EXCEPT ![r] = p] /\ sig' = [sig EXCEPT ![r] = s] /\ cap' = [cap EXCEPT ![r] = l]
      BY <2>2, ReserverFrame
    <3>2. late' = late \ {r} /\ counted' \subseteq counted \cup {r}
      BY <2>2, ReserverFrame DEF ReserverMoves
    <3>3. /\ pc' \in [Calls -> EngineStages \cup ReserverStages]
          /\ sig' \in [Calls -> Signals] /\ cap' \in [Calls -> Caps]
      BY <3>1
    <3>4. \A d \in Engines : pc'[d] \in EngineStages
      BY <1>0, <3>1 DEF Calls
    <3>5. \A q \in Reservers : pc'[q] \in ReserverStages
      BY <1>0, <3>1 DEF Calls
    <3> QED BY <3>2, <3>3, <3>4, <3>5
  <2>3. CASE Midnight
    BY <2>3 DEF Midnight, StartCounting
  <2>4. CASE ResetCounters
    BY <2>4 DEF ResetCounters, StartCounting
  <2>5. CASE Operator \/ UNCHANGED vars
    <3>1. UNCHANGED <<pc, sig, cap, late, counted>>
      BY <2>5 DEF Operator, UpdateConfig, Enable, Disable, ActivateKillSwitch, DeactivateKillSwitch,
                  calls, vars
    <3> QED BY <3>1
  <2> QED BY <2>1, <2>2, <2>3, <2>4, <2>5 DEF Next
<1>3. Numbers
  <2>0. ASSUME UNCHANGED <<trades, risk, opened, openedRisk, reserved, uncounted, stray>>,
               faults' = faults \/ Fault, exposed' \subseteq Engines
        PROVE  Numbers
    BY <1>0, <2>0 DEF Fault
  <2>1. ASSUME NEW e \in Engines, Engine(e) PROVE Numbers
    <3>0. sig[e] \in Signals /\ RiskOf[sig[e]] \in Nat /\ e \in Calls
      BY Limits DEF Stable, TypeOK, Calls
    <3>1. CASE \E s \in Signals : Evaluate(e, s)
      BY <1>0, <2>0, <3>1 DEF Evaluate, redis, history
    <3>2. CASE CheckTrades(e)
      BY <1>0, <3>2 DEF CheckTrades, Decide, redis, Fault
    <3>3. CASE CheckRisk(e)
      BY <1>0, <3>3 DEF CheckRisk, Decide, redis, Fault
    <3>4. CASE Execute(e)
      BY <1>0, <3>0, <3>4 DEF Execute, Open, redis
    <3>5. CASE ExecuteFails(e)
      BY <1>0, <3>0, <3>5 DEF ExecuteFails, Open, redis, Fault
    <3>6. CASE IncrementTrades(e)
      BY <1>0, <3>6 DEF IncrementTrades, Plus, Fault
    <3>7. CASE AddRisk(e)
      BY <1>0, <3>0, <3>7 DEF AddRisk, Plus, Fault
    <3> QED BY <2>1, <3>1, <3>2, <3>3, <3>4, <3>5, <3>6, <3>7 DEF Engine
  <2>2. ASSUME NEW r \in Reservers, Reserver(r) PROVE Numbers
    <3>0. sig[r] \in Signals /\ RiskOf[sig[r]] \in Nat /\ \A s \in Signals : RiskOf[s] \in Nat
      BY Limits DEF Stable, TypeOK, Calls
    <3>1. CASE \E s \in Signals, l \in Caps : Reserve(r, s, l)
      <4>1. PICK s \in Signals, l \in Caps : Reserve(r, s, l)
        BY <3>1
      <4>2. reserved' \in {reserved, reserved + 1}
        BY <4>1 DEF Reserve, Judge
      <4>3. RiskOf[s] \in Nat
        BY <3>0
      <4> QED BY <1>0, <4>1, <4>2, <4>3 DEF Reserve, Fault
    <3>2. CASE GiveBackTrade(r)
      BY <1>0, <3>2 DEF GiveBackTrade, Plus, Strays, Fault
    <3>3. CASE UseReservation(r)
      BY <1>0, <3>0, <3>3 DEF UseReservation, Open, redis
    <3>4. CASE CancelReservation(r)
      BY <1>0, <3>4 DEF CancelReservation, redis
    <3>5. CASE Rollback(r)
      BY <1>0, <3>0, <3>5 DEF Rollback, Plus, Strays, Fault, redis
    <3> QED BY <2>2, <3>1, <3>2, <3>3, <3>4, <3>5 DEF Reserver
  <2>3. CASE Midnight \/ ResetCounters
    BY <1>0, <2>3 DEF Midnight, ResetCounters, StartCounting
  <2>4. CASE Operator
    <3>1. UNCHANGED <<trades, risk, faults, opened, openedRisk, reserved, uncounted, stray>>
      BY <2>4 DEF Operator, UpdateConfig, Enable, Disable, ActivateKillSwitch, DeactivateKillSwitch,
                  redis, history
    <3>2. exposed' \subseteq Engines
      BY <1>0, <2>4 DEF Operator, UpdateConfig, Enable, Disable, ActivateKillSwitch,
                        DeactivateKillSwitch, history
    <3> QED BY <2>0, <3>1, <3>2
  <2>5. CASE UNCHANGED vars
    BY <1>0, <2>0, <2>5 DEF vars
  <2> QED BY <2>1, <2>2, <2>3, <2>4, <2>5 DEF Next
<1> QED BY <1>1, <1>2, <1>3 DEF TypeOK

LEMMA StableAlways == Spec => []Stable
<1>1. Stable /\ [Next]_vars => Stable'
  BY TypeStep, CallStep DEF Stable
<1> QED BY <1>1, StableInit, PTL DEF Spec

\* The configuration, the counters, the calls and the histories keep their types, and what is
\* enabled has consent.
THEOREM TypeCorrect == Spec => []TypeOK
<1>1. Stable => TypeOK
  BY DEF Stable
<1> QED BY <1>1, StableAlways, PTL

-----------------------------------------------------------------------------
(* The kill switch.                                                        *)

\* A call that has read its configuration is exposed while the switch is on; before the
\* configuration is created there is none.
KillInv ==
    /\ config.kill => \A e \in Engines : pc[e] \in {"trades", "risk", "execute"} => e \in exposed
    /\ ~config.exists => \A e \in Engines : pc[e] = "idle"

LEMMA KillStep == Stable /\ KillInv /\ [Next]_vars => KillInv'
<1> SUFFICES ASSUME Stable, KillInv, [Next]_vars PROVE KillInv'
  OBVIOUS
<1>0. config \in Config /\ pc \in [Calls -> EngineStages \cup ReserverStages] /\ Engines \subseteq Calls
      /\ Engines \cap Reservers = {} /\ Defaults \in Config /\ Defaults.exists
  BY EngineAssumption DEF Stable, TypeOK, Calls
<1>1. ASSUME NEW e \in Engines, Engine(e) PROVE KillInv'
  <2>1. UNCHANGED config /\ \A d \in Engines \ {e} : pc'[d] = pc[d]
    BY <1>0, <1>1, EngineFrame
  <2>2. /\ exposed \ {e} \subseteq exposed'
        /\ pc'[e] \in {"trades", "risk", "execute"} => e \in exposed' \/ ~config.kill
        /\ config.exists
    <3>0. config.exists \/ pc[e] = "idle"
      BY DEF KillInv
    <3>1. CASE \E s \in Signals : Evaluate(e, s)
      BY <1>0, <3>1 DEF Evaluate, ConfigAdmits, history
    <3>2. CASE CheckTrades(e)
      BY <1>0, <3>0, <3>2 DEF CheckTrades, Decide, Goto, Return, KillInv
    <3>3. CASE CheckRisk(e)
      BY <1>0, <3>0, <3>3 DEF CheckRisk, Decide, Goto, Return, KillInv
    <3>4. CASE Execute(e)
      BY <1>0, <3>0, <3>4 DEF Execute, Goto
    <3>5. CASE ExecuteFails(e)
      BY <1>0, <3>0, <3>5 DEF ExecuteFails, Return
    <3>6. CASE IncrementTrades(e)
      BY <1>0, <3>0, <3>6 DEF IncrementTrades, Goto
    <3>7. CASE AddRisk(e)
      BY <1>0, <3>0, <3>7 DEF AddRisk, Return
    <3> QED BY <1>1, <3>1, <3>2, <3>3, <3>4, <3>5, <3>6, <3>7 DEF Engine
  <2> QED BY <2>1, <2>2 DEF KillInv
<1>2. ASSUME NEW r \in Reservers, Reserver(r) PROVE KillInv'
  <2>1. UNCHANGED <<config, exposed>> /\ \A e \in Engines : pc'[e] = pc[e]
    BY <1>0, <1>2, ReserverFrame
  <2> QED BY <2>1 DEF KillInv
<1>3. CASE Midnight \/ ResetCounters \/ UNCHANGED vars
  <2>1. UNCHANGED <<config, exposed, pc>>
    BY <1>3 DEF Midnight, ResetCounters, vars
  <2> QED BY <2>1 DEF KillInv
<1>4. CASE UpdateConfig
  <2>1. /\ config'.exists /\ (config.exists => config'.kill = config.kill) /\ UNCHANGED <<exposed, pc>>
    BY <1>0, <1>4 DEF UpdateConfig, Existing, calls, history, Config
  <2> QED BY <2>1 DEF KillInv
<1>5. CASE Enable
  BY <1>0, <1>5 DEF Enable, Existing, Config, KillInv
<1>6. CASE Disable
  BY <1>0, <1>6 DEF Disable, Config, KillInv, calls, history
<1>7. CASE ActivateKillSwitch
  BY <1>0, <1>7 DEF ActivateKillSwitch, Config, KillInv, calls
<1>8. CASE DeactivateKillSwitch
  BY <1>0, <1>8 DEF DeactivateKillSwitch, Config, KillInv, calls
<1> QED BY <1>1, <1>2, <1>3, <1>4, <1>5, <1>6, <1>7, <1>8 DEF Next, Operator

\* Once the kill switch is on, only a call that had read its configuration before opens a
\* position, and no such call opens a second one.
THEOREM KillSwitchAlwaysStops == Spec => KillSwitchStopsNewEvaluations
<1>1. Init => KillInv
  BY DEF Init, KillInv, Calls
<1>2. KillInv /\ [Next]_vars => [\A e \in Engines : config.kill /\ Execute(e) => e \in exposed]_vars
  BY DEF KillInv, Execute
<1> QED BY <1>1, <1>2, StableAlways, KillStep, PTL DEF Spec, KillSwitchStopsNewEvaluations

-----------------------------------------------------------------------------
(* The counters.                                                           *)

LEMMA CardSteps ==
    ASSUME NEW S \in SUBSET Calls, NEW T \in SUBSET Calls, NEW c
    PROVE  /\ T \subseteq S => Cardinality(T) <= Cardinality(S)
           /\ T \subseteq S \cup {c} => Cardinality(T) <= Cardinality(S) + 1
           /\ T = S \ {c} /\ c \in S => Cardinality(T) = Cardinality(S) - 1
           /\ T = S \cup {c} /\ c \notin S => Cardinality(T) = Cardinality(S) + 1
<1>1. IsFiniteSet(S) /\ IsFiniteSet(S \cup {c}) /\ Cardinality(S) \in Nat /\ Cardinality(T) \in Nat
      /\ Cardinality(S \cup {c}) = IF c \in S THEN Cardinality(S) ELSE Cardinality(S) + 1
  BY Counted, FS_AddElement
<1>2. T \subseteq S => Cardinality(T) <= Cardinality(S)
  BY <1>1, FS_Subset
<1>3. T \subseteq S \cup {c} => Cardinality(T) <= Cardinality(S \cup {c})
  BY <1>1, FS_Subset
<1>4. T = S \ {c} /\ c \in S => Cardinality(T) = Cardinality(S) - 1
  BY <1>1, FS_RemoveElement
<1>5. T \subseteq S \cup {c} => Cardinality(T) <= Cardinality(S) + 1
  <2> HAVE T \subseteq S \cup {c}
  <2> DEFINE n == Cardinality(S) m == Cardinality(T) k == Cardinality(S \cup {c})
  <2>1. m <= k /\ n \in Nat /\ m \in Nat /\ k = IF c \in S THEN n ELSE n + 1
    BY <1>1, <1>3
  <2> HIDE DEF n, m, k
  <2>2. m <= n + 1
    BY <2>1
  <2> QED BY <2>2 DEF n, m
<1>6. T = S \cup {c} /\ c \notin S => Cardinality(T) = Cardinality(S) + 1
  BY <1>1
<1> QED BY <1>2, <1>4, <1>5, <1>6

\* A call's step on the counters and the positions.
EngineMoves(e) ==
    \/ /\ {pc[e], pc'[e]} \cap {"count", "addRisk"} = {}
       /\ UNCHANGED <<redis, opened, openedRisk>> /\ uncounted' \in {uncounted, uncounted + 1}
    \/ /\ pc[e] = "execute" /\ pc'[e] \in {"count", "idle"} /\ sig'[e] \in {sig[e], NoSignal}
       /\ pc'[e] = "count" => sig'[e] = sig[e]
       /\ opened' = opened + 1 /\ openedRisk' = openedRisk + RiskOf[sig[e]] /\ UNCHANGED redis
       /\ uncounted' = IF pc'[e] = "count" THEN uncounted ELSE uncounted + 1
    \/ /\ pc[e] = "count" /\ pc'[e] = "addRisk" /\ sig'[e] = sig[e]
       /\ UNCHANGED <<risk, opened, openedRisk>>
       /\ \/ trades' = Plus(e, trades, 1) /\ UNCHANGED uncounted
          \/ uncounted' = uncounted + 1 /\ UNCHANGED trades
    \/ /\ pc[e] = "addRisk" /\ pc'[e] = "idle" /\ UNCHANGED <<trades, opened, openedRisk>>
       /\ \/ risk' = Plus(e, risk, RiskOf[sig[e]]) /\ UNCHANGED uncounted
          \/ uncounted' = uncounted + 1 /\ UNCHANGED risk

LEMMA EngineSteps == ASSUME Stable, NEW e \in Engines, Engine(e) PROVE EngineMoves(e)
<1>0. e \in DOMAIN pc /\ e \in DOMAIN sig
  BY DEF Stable, TypeOK, Calls
<1> USE DEF Goto, Return
<1>1. CASE \E s \in Signals : Evaluate(e, s)
  BY <1>0, <1>1 DEF Evaluate, history, EngineMoves
<1>2. CASE CheckTrades(e)
  BY <1>0, <1>2 DEF CheckTrades, Decide, EngineMoves
<1>3. CASE CheckRisk(e)
  BY <1>0, <1>3 DEF CheckRisk, Decide, EngineMoves
<1>4. CASE Execute(e)
  BY <1>0, <1>4 DEF Execute, Open, EngineMoves
<1>5. CASE ExecuteFails(e)
  BY <1>0, <1>5 DEF ExecuteFails, Open, EngineMoves
<1>6. CASE IncrementTrades(e)
  BY <1>0, <1>6 DEF IncrementTrades, EngineMoves
<1>7. CASE AddRisk(e)
  BY <1>0, <1>7 DEF AddRisk, EngineMoves
<1> QED BY <1>1, <1>2, <1>3, <1>4, <1>5, <1>6, <1>7 DEF Engine

LEMMA OperatorFrame ==
    ASSUME Operator \/ UNCHANGED vars
    PROVE  UNCHANGED <<redis, calls, opened, openedRisk, reserved, uncounted, stray>>
BY DEF Operator, UpdateConfig, Enable, Disable, ActivateKillSwitch, DeactivateKillSwitch,
       calls, redis, history, vars

\* Reservations in today's counters that are about to be given back.
Undoing == {r \in counted : pc[r] \in {"decr", "rollback"}}
ReservedInv == reserved + Cardinality(Undoing) <= trades + stray

LEMMA ReservedStep ==
    ASSUME Stable, ReservedInv, ReservationsWithinLimit, [Next]_vars
    PROVE  ReservedInv' /\ ReservationsWithinLimit'
<1> DEFINE Goal == ReservedInv' /\ ReservationsWithinLimit'
<1>0. /\ late \cap counted = {} /\ (\A c \in late \cup counted : pc[c] # "idle")
      /\ DOMAIN pc = Calls /\ Engines \cap Reservers = {} /\ counted \subseteq Reservers
      /\ Engines \subseteq Calls /\ Reservers \subseteq Calls
      /\ trades \in Int /\ reserved \in Int /\ stray \in Nat /\ MaxTrades \in Nat \ {0}
      /\ counted' \subseteq Reservers
      /\ (\A l \in TradeLimits : l \in Nat /\ l <= MaxTrades)
  <2>1. TypeOK'
    BY TypeStep
  <2> QED BY <2>1, EngineAssumption, Limits DEF Stable, CallInv, TypeOK, Calls
<1>1. Undoing \in SUBSET Calls /\ Cardinality(Undoing) \in Nat
      /\ Undoing' \in SUBSET Calls /\ Cardinality(Undoing') \in Nat
  <2>1. Undoing \in SUBSET Calls /\ Undoing' \in SUBSET Calls
    BY <1>0 DEF Undoing
  <2> QED BY <2>1, Counted
<1>2. reserved + Cardinality(Undoing) <= trades + stray /\ reserved <= MaxTrades + stray
  BY DEF ReservedInv, ReservationsWithinLimit, MaxTrades
<1>3. ASSUME reserved' + Cardinality(Undoing') <= trades' + stray', reserved' <= MaxTrades + stray'
      PROVE  Goal
  BY <1>3 DEF ReservedInv, ReservationsWithinLimit, MaxTrades
<1>4. ASSUME NEW e \in Engines, Engine(e) PROVE Goal
  <2>1. \A c \in Calls \ {e} : pc'[c] = pc[c]
    BY <1>0, <1>4, EngineFrame
  <2>2. Undoing' = Undoing /\ UNCHANGED <<reserved, stray>>
    BY <1>0, <1>4, <2>1, EngineFrame DEF Undoing
  <2>3. trades' \in {trades, trades + 1}
    BY <1>4, EngineSteps DEF EngineMoves, redis, Plus
  <2> QED BY <1>0, <1>1, <1>2, <1>3, <2>2, <2>3
<1>5. ASSUME NEW r \in Reservers, Reserver(r) PROVE Goal
  <2>1. \A c \in Calls \ {r} : pc'[c] = pc[c]
    BY <1>0, <1>5, ReserverFrame
  <2>2. ReserverMoves(r)
    BY <1>5, ReserverFrame
  <2>3. CASE \E s \in Signals, l \in Caps : Reserve(r, s, l)
    <3>1. PICK s \in Signals, l \in Caps : Reserve(r, s, l)
      BY <2>3
    <3>2. r \notin Undoing /\ pc[r] = "idle" /\ trades' = trades + 1 /\ stray' = stray
      BY <3>1 DEF Reserve, Undoing
    <3>3. CASE Judge(r, s, l) /\ counted' = counted \cup {r}
      <4>1. CASE reserved' = reserved + 1
        <5>1. pc'[r] = "held" /\ trades + 1 <= l.trades /\ l.trades \in TradeLimits
          <6>1. l.trades \in TradeLimits
            BY DEF Caps
          <6>2. trades + 1 <= l.trades /\ risk + RiskOf[s] <= l.risk
            <7>1. reserved + 1 # reserved
              BY <1>0
            <7> QED BY <3>3, <4>1, <7>1 DEF Judge
          <6>3. l.trades \in Nat /\ l.risk \in Nat /\ risk \in Int /\ RiskOf[s] \in Nat
            BY <1>0, <6>1, Limits, EngineAssumption DEF Caps, Stable, TypeOK
          <6>4. ~(trades + 1 > l.trades) /\ ~(risk + RiskOf[s] > l.risk)
            BY <1>0, <6>2, <6>3
          <6> QED BY <1>0, <3>3, <6>1, <6>2, <6>4 DEF Judge
        <5>2. Undoing' = Undoing
          BY <1>0, <2>1, <3>2, <3>3, <5>1 DEF Undoing
        <5> QED BY <1>0, <1>1, <1>2, <1>3, <3>2, <4>1, <5>1, <5>2
      <4>2. CASE reserved' = reserved
        <5>1. Undoing' \subseteq Undoing \cup {r}
          BY <1>0, <2>1, <3>3 DEF Undoing
        <5>2. Cardinality(Undoing') <= Cardinality(Undoing) + 1
          BY <1>1, <5>1, CardSteps
        <5> QED BY <1>0, <1>1, <1>2, <1>3, <3>2, <4>2, <5>2
      <4> QED BY <3>3, <4>1, <4>2 DEF Judge
    <3>4. CASE UNCHANGED <<pc, sig, counted, reserved>>
      <4>1. Undoing' = Undoing
        BY <3>4 DEF Undoing
      <4> QED BY <1>0, <1>1, <1>2, <1>3, <3>2, <3>4, <4>1
    <3> QED BY <3>1, <3>3, <3>4 DEF Reserve
  <2>4. CASE CancelReservation(r)
    <3>1. /\ reserved' = (IF r \in counted THEN reserved - 1 ELSE reserved)
          /\ UNCHANGED <<trades, stray, counted>> /\ pc[r] = "held"
      BY <2>4 DEF CancelReservation, redis
    <3>2. Undoing' \subseteq Undoing \cup {r} /\ (r \notin counted => Undoing' \subseteq Undoing)
      BY <1>0, <2>1, <3>1 DEF Undoing
    <3>3. /\ Cardinality(Undoing') <= Cardinality(Undoing) + 1
          /\ r \notin counted => Cardinality(Undoing') <= Cardinality(Undoing)
      BY <1>1, <3>2, CardSteps
    <3>4. CASE r \in counted
      <4> DEFINE n == Cardinality(Undoing) m == Cardinality(Undoing')
      <4>1. /\ m <= n + 1 /\ n \in Nat /\ m \in Nat /\ reserved + n <= trades + stray
            /\ reserved' = reserved - 1 /\ trades' = trades /\ stray' = stray
        BY <1>1, <1>2, <3>1, <3>3, <3>4
      <4> HIDE DEF n, m
      <4>2. reserved' + m <= trades' + stray' /\ reserved' <= MaxTrades + stray'
        BY <1>0, <1>2, <4>1
      <4> QED BY <1>3, <4>2 DEF m
    <3>5. CASE r \notin counted
      BY <1>0, <1>1, <1>2, <1>3, <3>1, <3>3, <3>5
    <3> QED BY <3>4, <3>5
  <2>5. CASE UseReservation(r)
    <3>1. UNCHANGED <<trades, reserved>> /\ stray' \in {stray, stray + 1} /\ counted' = counted \ {r}
      BY <2>5 DEF UseReservation, Forget, redis
    <3>2. Undoing' \subseteq Undoing
      BY <1>0, <2>1, <3>1 DEF Undoing
    <3>3. Cardinality(Undoing') <= Cardinality(Undoing)
      BY <1>1, <3>2, CardSteps
    <3> DEFINE n == Cardinality(Undoing) m == Cardinality(Undoing') k == stray'
    <3>4. /\ m <= n /\ n \in Nat /\ m \in Nat /\ k \in Nat /\ stray <= k
          /\ reserved' = reserved /\ trades' = trades
      BY <1>0, <1>1, <3>1, <3>3
    <3>5. /\ trades \in Int /\ reserved \in Int /\ stray \in Nat /\ MaxTrades \in Nat
          /\ reserved + n <= trades + stray /\ reserved <= MaxTrades + stray
      BY <1>0, <1>1, <1>2
    <3> HIDE DEF n, m, k
    <3>6. reserved + m <= trades + k /\ reserved <= MaxTrades + k
      BY <3>4, <3>5
    <3> QED BY <1>3, <3>4, <3>6 DEF m, k
  <2>6. CASE GiveBackTrade(r) \/ Rollback(r)
    <3>1. /\ UNCHANGED reserved /\ counted' = counted \ {r} /\ pc[r] \in {"decr", "rollback"}
          /\ \/ UNCHANGED <<trades, stray>>
             \/ trades' = Plus(r, trades, -1) /\ stray' = Strays(r)
      BY <2>6 DEF GiveBackTrade, Rollback, Forget, redis
    <3>2. Undoing' = Undoing \ {r} /\ (r \in counted <=> r \in Undoing)
      BY <1>0, <2>1, <3>1 DEF Undoing
    <3>3. /\ r \in Undoing => Cardinality(Undoing') = Cardinality(Undoing) - 1
          /\ Cardinality(Undoing') <= Cardinality(Undoing)
      BY <1>1, <3>2, CardSteps
    <3>4. \/ UNCHANGED <<trades, stray>>
          \/ r \in Undoing /\ trades' = trades - 1 /\ UNCHANGED stray
          \/ trades' = trades - 1 /\ stray' = stray + 1
      BY <1>0, <3>1, <3>2 DEF Plus, Strays
    <3> QED BY <1>0, <1>1, <1>2, <1>3, <3>1, <3>3, <3>4
  <2> QED BY <1>5, <2>3, <2>4, <2>5, <2>6 DEF Reserver
<1>6. CASE Midnight \/ ResetCounters
  <2>1. trades' = 0 /\ reserved' = 0 /\ stray' = 0 /\ counted' = {}
    BY <1>6 DEF Midnight, ResetCounters, StartCounting
  <2>2. Undoing' = {}
    BY <2>1 DEF Undoing
  <2> QED BY <1>0, <1>3, <2>1, <2>2, FS_EmptySet
<1>7. CASE Operator \/ UNCHANGED vars
  <2>1. UNCHANGED <<pc, counted, trades, reserved, stray>>
    BY <1>7, OperatorFrame DEF calls, redis
  <2> QED BY <1>2, <1>3, <2>1 DEF Undoing
<1> QED BY <1>4, <1>5, <1>6, <1>7 DEF Next

\* Reservations alone keep the limit: reserve_execution judges by the values its own pipeline
\* returned.
THEOREM ReservationsAlwaysWithinLimit == Spec => []ReservationsWithinLimit
<1>1. Init => ReservedInv /\ ReservationsWithinLimit
  <2> SUFFICES ASSUME Init PROVE ReservedInv /\ ReservationsWithinLimit
    OBVIOUS
  <2>1. Cardinality(Undoing) = 0 /\ MaxTrades \in Nat
    BY FS_EmptySet, Limits DEF Init, Undoing
  <2> QED BY <2>1 DEF Init, ReservedInv, ReservationsWithinLimit, MaxTrades
<1> QED BY <1>1, StableAlways, ReservedStep, PTL DEF Spec

\* Positions opened and not yet counted, by calls that will write today's counter.
Counting == At({"count"}) \ late
CountInv == opened + Cardinality(counted) <= trades + Cardinality(Counting) + uncounted + stray

LEMMA CallTypes ==
    ASSUME Stable, [Next]_vars
    PROVE  /\ late \cap counted = {} /\ late \subseteq Calls /\ late' \subseteq Calls
           /\ DOMAIN pc = Calls /\ DOMAIN pc' = Calls /\ Engines \cap Reservers = {}
           /\ Engines \subseteq Calls /\ Reservers \subseteq Calls
           /\ counted \subseteq Reservers /\ counted' \subseteq Reservers
           /\ counted \in SUBSET Calls /\ counted' \in SUBSET Calls
           /\ trades \in Int /\ opened \in Nat /\ uncounted \in Nat /\ stray \in Nat
           /\ trades' \in Int /\ opened' \in Nat /\ uncounted' \in Nat /\ stray' \in Nat
<1>1. TypeOK'
  BY TypeStep
<1> QED BY <1>1, EngineAssumption DEF Stable, CallInv, TypeOK, Calls

LEMMA CountStep == ASSUME Stable, CountInv, [Next]_vars PROVE CountInv'
<1>0. /\ late \cap counted = {} /\ late \subseteq Calls /\ late' \subseteq Calls
      /\ DOMAIN pc = Calls /\ DOMAIN pc' = Calls /\ Engines \cap Reservers = {}
      /\ Engines \subseteq Calls /\ Reservers \subseteq Calls
      /\ counted \subseteq Reservers /\ counted' \subseteq Reservers
      /\ counted \in SUBSET Calls /\ counted' \in SUBSET Calls
  BY CallTypes
<1>1. /\ trades \in Int /\ opened \in Nat /\ uncounted \in Nat /\ stray \in Nat
      /\ trades' \in Int /\ opened' \in Nat /\ uncounted' \in Nat /\ stray' \in Nat
  BY CallTypes
<1>2. Counting \in SUBSET Calls /\ Counting' \in SUBSET Calls
  BY <1>0 DEF Counting, At
<1> DEFINE k == Cardinality(counted)  k1 == Cardinality(counted')
           n == Cardinality(Counting)  n1 == Cardinality(Counting')
           t1 == trades'  o1 == opened'  u1 == uncounted'  s1 == stray'
<1>3. /\ k \in Nat /\ k1 \in Nat /\ n \in Nat /\ n1 \in Nat
      /\ t1 \in Int /\ o1 \in Nat /\ u1 \in Nat /\ s1 \in Nat
  BY <1>0, <1>1, <1>2, Counted
<1>4. opened + k <= trades + n + uncounted + stray
  BY DEF CountInv
<1>5. o1 + k1 <= t1 + n1 + u1 + s1 => CountInv'
  BY DEF CountInv
<1>6. /\ counted' = counted => k1 = k
      /\ Counting' = Counting => n1 = n
  OBVIOUS
<1>7. ASSUME NEW e \in Engines, Engine(e) PROVE o1 + k1 <= t1 + n1 + u1 + s1
  <2>1. \A c \in Calls \ {e} : pc'[c] = pc[c]
    BY <1>0, <1>7, EngineFrame
  <2>2. late' = late \ {e} /\ counted' = counted /\ s1 = stray /\ k1 = k
    BY <1>7, EngineFrame
  <2>3. EngineMoves(e)
    BY <1>7, EngineSteps
  <2>4. /\ e \notin Counting => Counting \ {e} = Counting
        /\ Counting' \ {e} = Counting \ {e}
        /\ e \in Counting <=> pc[e] = "count" /\ e \notin late
        /\ e \in Counting' <=> pc'[e] = "count"
    BY <1>0, <2>1, <2>2 DEF Counting, At
  <2>5. /\ pc[e] # "count" /\ pc'[e] # "count" => n1 = n
        /\ pc[e] # "count" /\ pc'[e] = "count" => n1 = n + 1
        /\ pc[e] = "count" /\ pc'[e] # "count" /\ e \in late => n1 = n
        /\ pc[e] = "count" /\ pc'[e] # "count" /\ e \notin late => n1 = n - 1
    <3>1. CASE e \in Counting /\ e \notin Counting'
      <4>1. Counting' = Counting \ {e}
        BY <2>4, <3>1
      <4> QED BY <1>2, <2>4, <3>1, <4>1, CardSteps
    <3>2. CASE e \notin Counting /\ e \in Counting'
      <4>1. Counting' = Counting \cup {e}
        BY <2>4, <3>2
      <4> QED BY <1>2, <2>4, <3>2, <4>1, CardSteps
    <3>3. CASE e \notin Counting /\ e \notin Counting'
      <4>1. Counting' = Counting
        BY <2>4, <3>3
      <4> QED BY <2>4, <3>3, <4>1
    <3>4. CASE e \in Counting /\ e \in Counting'
      BY <2>4, <3>4
    <3> QED BY <3>1, <3>2, <3>3, <3>4
  <2> HIDE DEF k, k1, n, n1, t1, o1, u1, s1
  <2>6. CASE /\ {pc[e], pc'[e]} \cap {"count", "addRisk"} = {}
             /\ UNCHANGED <<redis, opened, openedRisk>> /\ uncounted' \in {uncounted, uncounted + 1}
    <3>1. n1 = n
      BY <2>5, <2>6
    <3>2. t1 = trades /\ o1 = opened /\ u1 \in {uncounted, uncounted + 1}
      BY <2>6 DEF redis, t1, o1, u1
    <3> QED BY <1>1, <1>3, <1>4, <2>2, <3>1, <3>2
  <2>7. CASE /\ pc[e] = "execute" /\ pc'[e] \in {"count", "idle"}
             /\ opened' = opened + 1 /\ UNCHANGED redis
             /\ uncounted' = IF pc'[e] = "count" THEN uncounted ELSE uncounted + 1
    <3>1. o1 = opened + 1 /\ t1 = trades /\ u1 = IF pc'[e] = "count" THEN uncounted ELSE uncounted + 1
      BY <2>7 DEF redis, t1, o1, u1
    <3>2. CASE pc'[e] = "count"
      <4>1. n1 = n + 1 /\ u1 = uncounted
        BY <2>5, <2>7, <3>1, <3>2
      <4> QED BY <1>1, <1>3, <1>4, <2>2, <3>1, <4>1
    <3>3. CASE pc'[e] = "idle"
      <4>1. n1 = n /\ u1 = uncounted + 1
        BY <2>5, <2>7, <3>1, <3>3
      <4> QED BY <1>1, <1>3, <1>4, <2>2, <3>1, <4>1
    <3> QED BY <2>7, <3>2, <3>3
  <2>8. CASE pc[e] = "count" /\ pc'[e] = "addRisk"
    <3>1. /\ o1 = opened
          /\ \/ t1 = (IF e \in late THEN trades ELSE trades + 1) /\ u1 = uncounted
             \/ t1 = trades /\ u1 = uncounted + 1
      BY <2>3, <2>8 DEF EngineMoves, Plus, t1, o1, u1
    <3>2. n1 = IF e \in late THEN n ELSE n - 1
      BY <2>5, <2>8
    <3>3. CASE e \in late
      BY <1>1, <1>3, <1>4, <2>2, <3>1, <3>2, <3>3
    <3>4. CASE e \notin late
      BY <1>1, <1>3, <1>4, <2>2, <3>1, <3>2, <3>4
    <3> QED BY <3>3, <3>4
  <2>9. CASE pc[e] = "addRisk" /\ pc'[e] = "idle"
    <3>1. o1 = opened /\ t1 = trades /\ u1 \in {uncounted, uncounted + 1} /\ n1 = n
      BY <2>3, <2>5, <2>9 DEF EngineMoves, t1, o1, u1
    <3> QED BY <1>1, <1>3, <1>4, <2>2, <3>1
  <2> QED BY <2>3, <2>6, <2>7, <2>8, <2>9 DEF EngineMoves
<1>8. ASSUME NEW r \in Reservers, Reserver(r) PROVE o1 + k1 <= t1 + n1 + u1 + s1
  <2>1. /\ \A c \in Calls \ {r} : pc'[c] = pc[c]
        /\ late' = late \ {r} /\ u1 = uncounted
    BY <1>0, <1>8, ReserverFrame
  <2>2. n1 = n
    <3>1. Counting' = Counting
      BY <1>0, <2>1 DEF Counting, At
    <3> QED BY <3>1
  <2>3. ASSUME counted' = counted \ {r}
        PROVE  k1 = IF r \in counted THEN k - 1 ELSE k
    <3>1. CASE r \in counted
      BY <1>0, <2>3, <3>1, CardSteps
    <3>2. CASE r \notin counted
      <4>1. counted' = counted
        BY <2>3, <3>2
      <4> QED BY <3>2, <4>1
    <3> QED BY <3>1, <3>2
  <2>4. counted' \subseteq counted \cup {r} => k1 <= k + 1
    BY <1>0, CardSteps
  <2>5. counted' = counted => k1 = k
    OBVIOUS
  <2> HIDE DEF k, k1, n, n1, t1, o1, u1, s1
  <2>6. CASE \E s \in Signals, l \in Caps : Reserve(r, s, l)
    <3>1. /\ t1 = trades + 1 /\ o1 = opened /\ s1 = stray
          /\ counted' \subseteq counted \cup {r}
      BY <2>6 DEF Reserve, t1, o1, s1
    <3> QED BY <1>1, <1>3, <1>4, <2>1, <2>2, <2>4, <3>1
  <2>7. CASE GiveBackTrade(r) \/ Rollback(r)
    <3>1. /\ o1 = opened /\ counted' = counted \ {r}
          /\ \/ t1 = trades /\ s1 = stray
             \/ t1 = Plus(r, trades, -1) /\ s1 = Strays(r)
      BY <2>7 DEF GiveBackTrade, Rollback, Forget, redis, t1, o1, s1
    <3>2. \/ t1 = trades /\ s1 = stray
          \/ r \in counted /\ t1 = trades - 1 /\ s1 = stray
          \/ r \notin counted /\ t1 = trades - 1 /\ s1 = stray + 1
      BY <1>0, <1>1, <3>1 DEF Plus, Strays
    <3>3. k1 = IF r \in counted THEN k - 1 ELSE k
      BY <2>3, <3>1
    <3>4. CASE r \in counted
      BY <1>1, <1>3, <1>4, <2>1, <2>2, <3>1, <3>2, <3>3, <3>4
    <3>5. CASE r \notin counted
      BY <1>1, <1>3, <1>4, <2>1, <2>2, <3>1, <3>2, <3>3, <3>5
    <3> QED BY <3>4, <3>5
  <2>8. CASE UseReservation(r)
    <3>1. /\ o1 = opened + 1 /\ counted' = counted \ {r} /\ t1 = trades
          /\ s1 = IF r \in counted THEN stray ELSE stray + 1
      BY <2>8 DEF UseReservation, Open, Forget, redis, t1, o1, s1
    <3>2. k1 = IF r \in counted THEN k - 1 ELSE k
      BY <2>3, <3>1
    <3>3. CASE r \in counted
      BY <1>1, <1>3, <1>4, <2>1, <2>2, <3>1, <3>2, <3>3
    <3>4. CASE r \notin counted
      BY <1>1, <1>3, <1>4, <2>1, <2>2, <3>1, <3>2, <3>4
    <3> QED BY <3>3, <3>4
  <2>9. CASE CancelReservation(r)
    <3>1. o1 = opened /\ counted' = counted /\ t1 = trades /\ s1 = stray
      BY <2>9 DEF CancelReservation, redis, t1, o1, s1
    <3> QED BY <1>1, <1>3, <1>4, <2>1, <2>2, <2>5, <3>1
  <2> QED BY <1>8, <2>6, <2>7, <2>8, <2>9 DEF Reserver
<1>9. CASE Midnight \/ ResetCounters
  <2>1. t1 = 0 /\ o1 = 0 /\ u1 = 0 /\ s1 = 0 /\ k1 = 0
    BY <1>9, FS_EmptySet DEF Midnight, ResetCounters, StartCounting
  <2> HIDE DEF k, k1, n, n1, t1, o1, u1, s1
  <2>2. o1 + k1 <= t1 + n1 + u1 + s1
    BY <1>3, <2>1
  <2> QED BY <1>5, <2>2
<1>10. CASE Operator \/ UNCHANGED vars
  <2>1. UNCHANGED <<pc, late, counted, trades, opened, uncounted, stray>>
    BY <1>10, OperatorFrame DEF calls, redis
  <2> QED BY <2>1 DEF CountInv, Counting, At
<1> QED BY <1>5, <1>7, <1>8, <1>9, <1>10 DEF Next

\* Calls that have been admitted by the counter of trades, or will be, since they read nothing.
Passed == At({"risk", "execute"}) \cup (At({"trades"}) \cap late)
             \cup {r \in Reservers : pc[r] = "held"}
PassedInv == opened + Cardinality(Passed) <= MaxTrades + Overshoot

\* Where the counter is below the highest limit, whatever calls go on are within the bound.
LEMMA Room ==
    ASSUME Stable, CountInv, trades + 1 <= MaxTrades,
           NEW P \in SUBSET Calls, P \cap Counting = {}
    PROVE  opened + Cardinality(P) <= MaxTrades + Overshoot
<1>1. Counting \in SUBSET Calls /\ P \cup Counting \in SUBSET Calls /\ counted \in SUBSET Calls
  BY DEF Counting, At, Calls, Stable, TypeOK
<1> DEFINE k == Cardinality(counted)  n == Cardinality(Counting)  p == Cardinality(P)
           c == Cardinality(Calls)
<1>2. /\ k \in Nat /\ n \in Nat /\ p \in Nat /\ c \in Nat
      /\ trades \in Int /\ opened \in Nat /\ uncounted \in Nat /\ stray \in Nat /\ MaxTrades \in Nat
  BY <1>1, Counted, Limits DEF Stable, TypeOK
<1>3. p + n <= c
  <2>1. /\ IsFiniteSet(P) /\ IsFiniteSet(Counting)
        /\ Cardinality(P \cup Counting) <= Cardinality(Calls)
    BY <1>1, Counted
  <2>2. Cardinality(P \cup Counting) = Cardinality(P) + Cardinality(Counting) - Cardinality(P \cap Counting)
    BY <2>1, FS_Union
  <2>3. Cardinality(P \cap Counting) = 0
    BY FS_EmptySet
  <2> DEFINE u == Cardinality(P \cup Counting)
  <2>4. u <= c /\ u = p + n - Cardinality(P \cap Counting)
    BY <2>1, <2>2
  <2>5. u = p + n
    BY <1>2, <2>3, <2>4
  <2> HIDE DEF u, p, n, c
  <2> QED BY <2>4, <2>5
<1>4. opened + k <= trades + n + uncounted + stray
  BY DEF CountInv
<1> HIDE DEF k, n, p, c
<1>5. opened + p <= MaxTrades + (c - 1 + uncounted + stray)
  BY <1>2, <1>3, <1>4
<1> QED BY <1>5 DEF p, c, Overshoot

LEMMA PassedStep == ASSUME Stable, CountInv, PassedInv, [Next]_vars PROVE PassedInv'
<1>0. /\ late \cap counted = {} /\ late \subseteq Calls /\ late' \subseteq Calls
      /\ DOMAIN pc = Calls /\ DOMAIN pc' = Calls /\ Engines \cap Reservers = {}
      /\ Engines \subseteq Calls /\ Reservers \subseteq Calls
  BY CallTypes
<1>1. Passed \in SUBSET Calls /\ Passed' \in SUBSET Calls
  BY <1>0 DEF Passed, At
<1> DEFINE p == Cardinality(Passed)  p1 == Cardinality(Passed')  c == Cardinality(Calls)
           o1 == opened'  u1 == uncounted'  s1 == stray'
           Bound == o1 + p1 <= MaxTrades + (c - 1 + u1 + s1)
<1>2. /\ p \in Nat /\ p1 \in Nat /\ c \in Nat /\ p1 <= c /\ MaxTrades \in Nat \ {0}
      /\ opened \in Nat /\ uncounted \in Nat /\ stray \in Nat
      /\ o1 \in Nat /\ u1 \in Nat /\ s1 \in Nat
  BY <1>1, Counted, CallTypes, Limits
<1>3. opened + p <= MaxTrades + (c - 1 + uncounted + stray)
  BY DEF PassedInv, Overshoot
<1>4. Bound => PassedInv'
  BY DEF PassedInv, Overshoot
\* The ways in which the bound is kept.
<1>5. ASSUME NEW d
      PROVE  /\ Passed' \subseteq Passed => p1 <= p
             /\ Passed' \subseteq Passed \cup {d} => p1 <= p + 1
             /\ Passed' \subseteq Passed \ {d} /\ d \in Passed => p1 <= p - 1
  <2>1. Passed \ {d} \in SUBSET Calls
    BY <1>1
  <2>2. /\ Passed' \subseteq Passed => Cardinality(Passed') <= Cardinality(Passed)
        /\ Passed' \subseteq Passed \cup {d} => Cardinality(Passed') <= Cardinality(Passed) + 1
        /\ Passed' \subseteq Passed \ {d} => Cardinality(Passed') <= Cardinality(Passed \ {d})
        /\ d \in Passed => Cardinality(Passed \ {d}) = Cardinality(Passed) - 1
    BY <1>1, <2>1, CardSteps
  <2> QED BY <2>2
<1>6. ASSUME trades + 1 <= MaxTrades, Passed' \cap Counting = {},
             o1 = opened, u1 = uncounted, s1 = stray
      PROVE  Bound
  <2>1. opened + Cardinality(Passed') <= MaxTrades + Overshoot
    BY <1>1, <1>6, Room
  <2> QED BY <1>6, <2>1 DEF Overshoot
<1>7. ASSUME o1 = opened, uncounted <= u1, stray <= s1, p1 <= p + ((u1 - uncounted) + (s1 - stray)) PROVE Bound
  <2> HIDE DEF p, p1, c, o1, u1, s1
  <2> QED BY <1>2, <1>3, <1>7
<1>8. ASSUME o1 = opened + 1, uncounted <= u1, stray <= s1, p1 <= p - 1 PROVE Bound
  <2> HIDE DEF p, p1, c, o1, u1, s1
  <2> QED BY <1>2, <1>3, <1>8
<1> HIDE DEF Bound
<1>9. ASSUME NEW e \in Engines, Engine(e) PROVE Bound
  <2>1. /\ \A d \in Calls \ {e} : pc'[d] = pc[d]
        /\ late' = late \ {e} /\ s1 = stray /\ e \in Calls /\ e \notin Reservers
    BY <1>0, <1>9, EngineFrame
  <2>2. Passed' \ {e} \subseteq Passed
    BY <1>0, <2>1 DEF Passed, At
  <2>3. /\ e \in Passed' => pc'[e] \in {"risk", "execute"}
        /\ pc[e] \in {"risk", "execute"} \/ (pc[e] = "trades" /\ e \in late) => e \in Passed
    BY <1>0, <2>1 DEF Passed, At
  <2>4. ASSUME e \notin Passed' \/ e \in Passed, o1 = opened, u1 \in {uncounted, uncounted + 1}
        PROVE  Bound
    <3>1. Passed' \subseteq Passed
      BY <2>2, <2>4
    <3>2. p1 <= p
      BY <1>5, <3>1
    <3> HIDE DEF p, p1, c, o1, u1, s1
    <3>3. p1 <= p + ((u1 - uncounted) + (s1 - stray)) /\ uncounted <= u1 /\ stray <= s1
      BY <1>2, <2>1, <2>4, <3>2
    <3> QED BY <1>7, <2>4, <3>3
  <2>5. CASE \E s \in Signals : Evaluate(e, s)
    <3>1. pc'[e] = "trades" /\ o1 = opened /\ u1 = uncounted
      BY <1>0, <2>1, <2>5 DEF Evaluate, Goto, history
    <3> QED BY <2>3, <2>4, <3>1
  <2>6. CASE CheckTrades(e)
    <3>1. pc[e] = "trades" /\ o1 = opened /\ u1 \in {uncounted, uncounted + 1}
      BY <2>6 DEF CheckTrades
    <3>2. CASE e \in late
      BY <2>3, <2>4, <3>1, <3>2
    <3>3. CASE e \notin Passed'
      BY <2>4, <3>1, <3>3
    <3>4. CASE u1 = uncounted + 1
      <4>1. Passed' \subseteq Passed \cup {e}
        BY <2>2
      <4>2. p1 <= p + 1
        BY <1>5, <4>1
      <4> HIDE DEF p, p1, c, o1, u1, s1
      <4>3. p1 <= p + ((u1 - uncounted) + (s1 - stray)) /\ uncounted <= u1 /\ stray <= s1
        BY <1>2, <2>1, <3>4, <4>2
      <4> QED BY <1>7, <3>1, <4>3
    <3>5. CASE e \notin late /\ e \in Passed' /\ u1 # uncounted + 1
      <4>1. Decide(e, BelowTradeLimit(e, trades), "risk") /\ u1 = uncounted
        BY <2>6, <3>5 DEF CheckTrades, Seen
      <4>2. BelowTradeLimit(e, trades)
        <5> SUFFICES ASSUME ~BelowTradeLimit(e, trades) PROVE FALSE
          OBVIOUS
        <5>1. pc'[e] = "idle"
          BY <1>0, <2>1, <4>1 DEF Decide, Return
        <5> QED BY <2>3, <3>5, <5>1
      <4>3. trades + 1 <= MaxTrades
        <5>1. cap[e].trades \in TradeLimits /\ trades \in Int
          BY <2>1 DEF Stable, TypeOK, Caps
        <5>2. cap[e].trades \in Nat /\ cap[e].trades <= MaxTrades
          BY <5>1, Limits
        <5> QED BY <1>2, <4>2, <5>1, <5>2 DEF BelowTradeLimit
      <4>4. Passed' \cap Counting = {}
        <5>1. Passed \cap Counting = {} /\ e \notin Counting
          BY <1>0, <3>1 DEF Passed, Counting, At
        <5> QED BY <2>2, <5>1
      <4> QED BY <1>6, <2>1, <3>1, <4>1, <4>3, <4>4
    <3> QED BY <3>2, <3>3, <3>4, <3>5
  <2>7. CASE CheckRisk(e)
    <3>1. pc[e] = "risk" /\ o1 = opened /\ u1 \in {uncounted, uncounted + 1}
      BY <2>7 DEF CheckRisk
    <3> QED BY <2>3, <2>4, <3>1
  <2>8. ASSUME pc[e] = "execute", pc'[e] \in {"count", "idle"}, o1 = opened + 1,
               u1 \in {uncounted, uncounted + 1}
        PROVE  Bound
    <3>1. Passed' \subseteq Passed \ {e} /\ e \in Passed
      BY <2>2, <2>3, <2>8
    <3>2. p1 <= p - 1
      BY <1>5, <3>1
    <3> HIDE DEF p, p1, c, o1, u1, s1
    <3>3. uncounted <= u1 /\ stray <= s1
      BY <1>2, <2>1, <2>8
    <3> QED BY <1>8, <2>8, <3>2, <3>3
  <2>9. CASE Execute(e)
    <3>1. pc[e] = "execute" /\ pc'[e] = "count" /\ o1 = opened + 1 /\ u1 = uncounted
      BY <1>0, <2>1, <2>9 DEF Execute, Open, Goto
    <3> QED BY <2>8, <3>1
  <2>10. CASE ExecuteFails(e)
    <3>1. /\ pc[e] = "execute" /\ pc'[e] = "idle"
          /\ \/ o1 = opened /\ u1 = uncounted
             \/ o1 = opened + 1 /\ u1 = uncounted + 1
      BY <1>0, <2>1, <2>10 DEF ExecuteFails, Open, Return
    <3> QED BY <2>3, <2>4, <2>8, <3>1
  <2>11. CASE IncrementTrades(e)
    <3>1. pc'[e] = "addRisk" /\ o1 = opened /\ u1 \in {uncounted, uncounted + 1}
      BY <1>0, <2>1, <2>11 DEF IncrementTrades, Goto
    <3> QED BY <2>3, <2>4, <3>1
  <2>12. CASE AddRisk(e)
    <3>1. pc'[e] = "idle" /\ o1 = opened /\ u1 \in {uncounted, uncounted + 1}
      BY <1>0, <2>1, <2>12 DEF AddRisk, Return
    <3> QED BY <2>3, <2>4, <3>1
  <2> QED BY <1>9, <2>5, <2>6, <2>7, <2>9, <2>10, <2>11, <2>12 DEF Engine
<1>10. ASSUME NEW r \in Reservers, Reserver(r) PROVE Bound
  <2>1. /\ \A d \in Calls \ {r} : pc'[d] = pc[d]
        /\ late' = late \ {r} /\ u1 = uncounted /\ r \in Calls /\ r \notin Engines
    BY <1>0, <1>10, ReserverFrame
  <2>2. /\ Passed' \ {r} \subseteq Passed
        /\ r \in Passed' <=> pc'[r] = "held"
        /\ r \in Passed <=> pc[r] = "held"
    BY <1>0, <2>1 DEF Passed, At
  <2>3. ASSUME pc'[r] # "held" \/ pc[r] = "held", o1 = opened, s1 \in {stray, stray + 1}
        PROVE  Bound
    <3>1. Passed' \subseteq Passed
      BY <2>2, <2>3
    <3>2. p1 <= p
      BY <1>5, <3>1
    <3> HIDE DEF p, p1, c, o1, u1, s1
    <3>3. p1 <= p + ((u1 - uncounted) + (s1 - stray)) /\ uncounted <= u1 /\ stray <= s1
      BY <1>2, <2>1, <2>3, <3>2
    <3> QED BY <1>7, <2>3, <3>3
  <2>4. CASE \E s \in Signals, l \in Caps : Reserve(r, s, l)
    <3>1. PICK s \in Signals, l \in Caps : Reserve(r, s, l)
      BY <2>4
    <3>2. o1 = opened /\ s1 = stray /\ pc[r] = "idle"
      BY <3>1 DEF Reserve
    <3>3. CASE pc'[r] # "held"
      BY <2>3, <3>2, <3>3
    <3>4. CASE pc'[r] = "held"
      <4>1. Judge(r, s, l)
        BY <3>1, <3>2, <3>4 DEF Reserve
      <4>2. trades + 1 <= l.trades
        <5>1. l.trades \in TradeLimits /\ trades \in Int
          BY DEF Caps, Stable, TypeOK
        <5>2. l.trades \in Nat
          BY <5>1, Limits
        <5>3. ~(trades + 1 > l.trades)
          BY <1>0, <2>1, <3>4, <4>1 DEF Judge
        <5> QED BY <5>1, <5>2, <5>3
      <4>3. trades + 1 <= MaxTrades
        <5>1. l.trades \in TradeLimits /\ trades \in Int
          BY DEF Caps, Stable, TypeOK
        <5>2. l.trades \in Nat /\ l.trades <= MaxTrades
          BY <5>1, Limits
        <5> QED BY <1>2, <4>2, <5>1, <5>2
      <4>4. Passed' \cap Counting = {}
        <5>1. Passed \cap Counting = {} /\ r \notin Counting
          BY <1>0 DEF Passed, Counting, At
        <5> QED BY <2>2, <5>1
      <4> QED BY <1>6, <2>1, <3>2, <4>3, <4>4
    <3> QED BY <3>3, <3>4
  <2>5. CASE GiveBackTrade(r) \/ Rollback(r)
    <3>1. o1 = opened /\ s1 \in {stray, stray + 1} /\ pc'[r] = "idle"
      BY <1>0, <2>1, <2>5 DEF GiveBackTrade, Rollback, Forget, Return, Strays
    <3> QED BY <2>3, <3>1
  <2>6. CASE CancelReservation(r)
    <3>1. o1 = opened /\ s1 = stray /\ pc[r] = "held"
      BY <2>6 DEF CancelReservation
    <3> QED BY <2>3, <3>1
  <2>7. CASE UseReservation(r)
    <3>1. o1 = opened + 1 /\ s1 \in {stray, stray + 1} /\ pc[r] = "held" /\ pc'[r] = "idle"
      BY <1>0, <2>1, <2>7 DEF UseReservation, Open, Forget, Return
    <3>2. Passed' \subseteq Passed \ {r} /\ r \in Passed
      BY <2>2, <3>1
    <3>3. p1 <= p - 1
      BY <1>5, <3>2
    <3> HIDE DEF p, p1, c, o1, u1, s1
    <3>4. uncounted <= u1 /\ stray <= s1
      BY <1>2, <2>1, <3>1
    <3> QED BY <1>8, <3>1, <3>3, <3>4
  <2> QED BY <1>10, <2>4, <2>5, <2>6, <2>7 DEF Reserver
<1>11. CASE Midnight \/ ResetCounters
  <2>1. o1 = 0 /\ u1 = 0 /\ s1 = 0
    BY <1>11 DEF Midnight, ResetCounters, StartCounting
  <2> HIDE DEF p, p1, c, o1, u1, s1
  <2>2. o1 + p1 <= MaxTrades + (c - 1 + u1 + s1)
    BY <1>2, <2>1
  <2> QED BY <1>4, <2>2 DEF Bound
<1>12. CASE Operator \/ UNCHANGED vars
  <2>1. UNCHANGED <<pc, late, opened, uncounted, stray>>
    BY <1>12, OperatorFrame DEF calls
  <2> QED BY <2>1 DEF PassedInv, Passed, At, Overshoot
<1> QED BY <1>4, <1>9, <1>10, <1>11, <1>12 DEF Next

\* The engine reads the counters before a trade and adds to them after it, and a failed read is
\* a zero: still a day's trades exceed the highest limit by the overshoot at most.
THEOREM DailyTradesAlwaysBounded == Spec => []DailyTradesBounded
<1>1. Init => CountInv /\ PassedInv
  <2> SUFFICES ASSUME Init PROVE CountInv /\ PassedInv
    OBVIOUS
  <2>1. Counting = {} /\ Passed = {}
    BY DEF Init, Counting, Passed, At, Calls
  <2>2. Cardinality(counted) = 0 /\ Cardinality(Counting) = 0 /\ Cardinality(Passed) = 0
    BY <2>1, FS_EmptySet DEF Init
  <2>3. Cardinality(Calls) \in Nat /\ MaxTrades \in Nat \ {0}
    BY Counted, Limits
  <2> DEFINE c == Cardinality(Calls)
  <2> HIDE DEF c
  <2>4. 0 + 0 <= MaxTrades + (c - 1 + 0 + 0)
    BY <2>3 DEF c
  <2> QED BY <2>2, <2>4 DEF Init, CountInv, PassedInv, Overshoot, c
<1>2. Stable /\ PassedInv => DailyTradesBounded
  <2> SUFFICES ASSUME Stable, PassedInv PROVE DailyTradesBounded
    OBVIOUS
  <2>1. Passed \in SUBSET Calls
    BY DEF Passed, At, Calls
  <2> DEFINE p == Cardinality(Passed)
  <2>2. p \in Nat /\ Cardinality(Calls) \in Nat /\ MaxTrades \in Nat
        /\ opened \in Nat /\ uncounted \in Nat /\ stray \in Nat
    BY <2>1, Counted, Limits DEF Stable, TypeOK
  <2>3. Overshoot \in Int
    BY <2>2 DEF Overshoot
  <2>4. opened + p <= MaxTrades + Overshoot
    BY DEF PassedInv
  <2> HIDE DEF p
  <2>5. opened <= MaxTrades + Overshoot
    BY <2>2, <2>3, <2>4
  <2> QED BY <2>5 DEF DailyTradesBounded, MaxTrades
<1> QED BY <1>1, <1>2, StableAlways, CountStep, PassedStep, PTL DEF Spec

\* The risk of a call's signal, and the calls that will add theirs to today's counter.
Amount == [c \in Calls |-> RiskOf[sig[c]]]
Adding == At({"count"}) \cup (At({"addRisk"}) \ late)
CountedRisk == SumFunctionOnSet(Amount, counted)
AddingRisk == SumFunctionOnSet(Amount, Adding)
Slack == (uncounted + stray) * MaxRisk
RiskInv == openedRisk + CountedRisk <= risk + AddingRisk + Slack

LEMMA Products ==
    ASSUME NEW n \in Nat, NEW m \in Nat
    PROVE  n * m \in Nat /\ (n + 1) * m = n * m + m /\ 0 * m = 0
OBVIOUS

\* When one call's signal changes, and the call enters or leaves the set summed.
LEMMA AmountSteps ==
    ASSUME NEW f \in [Calls -> Nat], NEW g \in [Calls -> Nat], NEW c \in Calls,
           \A d \in Calls \ {c} : g[d] = f[d],
           NEW S \in SUBSET Calls, NEW T \in SUBSET Calls
    PROVE  /\ SumFunctionOnSet(f, S) \in Nat /\ SumFunctionOnSet(g, T) \in Nat
           /\ T = S /\ (c \notin S \/ g[c] = f[c]) => SumFunctionOnSet(g, T) = SumFunctionOnSet(f, S)
           /\ T = S \ {c} /\ c \in S => SumFunctionOnSet(f, S) = f[c] + SumFunctionOnSet(g, T)
           /\ T = S \cup {c} /\ c \notin S => SumFunctionOnSet(g, T) = g[c] + SumFunctionOnSet(f, S)
<1>1. IsFiniteSet(S) /\ IsFiniteSet(T)
  BY Counted
<1>2. SumFunctionOnSet(f, S) \in Nat /\ SumFunctionOnSet(g, T) \in Nat
  BY <1>1, SumNat
<1>3. ASSUME T = S, c \notin S \/ g[c] = f[c] PROVE SumFunctionOnSet(g, T) = SumFunctionOnSet(f, S)
  <2>1. \A x \in T : g[x] = f[x]
    BY <1>3
  <2>2. SumFunctionOnSet(g, T) = SumFunctionOnSet(f, T)
    BY <1>1, <2>1, SumAgree
  <2> QED BY <1>3, <2>2
<1>4. ASSUME T = S \ {c}, c \in S PROVE SumFunctionOnSet(f, S) = f[c] + SumFunctionOnSet(g, T)
  <2>1. \A x \in T : g[x] = f[x]
    BY <1>4
  <2>2. SumFunctionOnSet(g, T) = SumFunctionOnSet(f, T)
    BY <1>1, <2>1, SumAgree
  <2>3. \A x \in S : f[x] \in Int
    OBVIOUS
  <2>4. SumFunctionOnSet(f, S) = f[c] + SumFunctionOnSet(f, S \ {c})
    BY <1>1, <1>4, <2>3, SumRemove
  <2> QED BY <1>4, <2>2, <2>4
<1>5. ASSUME T = S \cup {c}, c \notin S PROVE SumFunctionOnSet(g, T) = g[c] + SumFunctionOnSet(f, S)
  <2>1. \A x \in S : g[x] = f[x]
    BY <1>5
  <2>2. SumFunctionOnSet(g, S) = SumFunctionOnSet(f, S)
    BY <1>1, <2>1, SumAgree
  <2>3. \A x \in S \cup {c} : g[x] \in Int
    OBVIOUS
  <2>4. SumFunctionOnSet(g, S \cup {c}) = g[c] + SumFunctionOnSet(g, S)
    BY <1>1, <1>5, <2>3, SumInsert
  <2> QED BY <1>5, <2>2, <2>4
<1> QED BY <1>2, <1>3, <1>4, <1>5

RiskFacts ==
    /\ Amount \in [Calls -> Nat]
    /\ \A c \in Calls : Amount[c] = RiskOf[sig[c]] /\ Amount[c] \in Nat /\ Amount[c] <= MaxRisk
    /\ counted \in SUBSET Calls /\ Adding \in SUBSET Calls
    /\ CountedRisk \in Nat /\ AddingRisk \in Nat /\ Slack \in Nat
    /\ risk \in Int /\ openedRisk \in Nat

LEMMA RiskTypes == TypeOK => RiskFacts
<1> SUFFICES ASSUME TypeOK PROVE RiskFacts
  OBVIOUS
<1>1. /\ sig \in [Calls -> Signals] /\ counted \in SUBSET Calls /\ Adding \in SUBSET Calls
      /\ uncounted \in Nat /\ stray \in Nat /\ risk \in Int /\ openedRisk \in Nat
  BY DEF TypeOK, Calls, Adding, At
<1>2. \A c \in Calls : Amount[c] = RiskOf[sig[c]] /\ RiskOf[sig[c]] \in Nat /\ RiskOf[sig[c]] <= MaxRisk
  BY <1>1, Limits DEF Amount
<1>3. Amount \in [Calls -> Nat]
  BY <1>2 DEF Amount
<1>4. CountedRisk \in Nat /\ AddingRisk \in Nat
  <2>1. IsFiniteSet(counted) /\ IsFiniteSet(Adding)
    BY <1>1, Counted
  <2> QED BY <1>1, <1>3, <2>1, SumNat DEF CountedRisk, AddingRisk
<1>5. Slack \in Nat
  BY <1>1, Limits, Products DEF Slack
<1> QED BY <1>1, <1>2, <1>3, <1>4, <1>5 DEF RiskFacts

\* One more failure, or one more decrement of the wrong counter, excuses any signal's risk.
LEMMA SlackSteps ==
    ASSUME TypeOK
    PROVE  /\ uncounted' = uncounted /\ stray' = stray => Slack' = Slack
           /\ uncounted' = uncounted + 1 /\ stray' = stray => Slack' = Slack + MaxRisk
           /\ uncounted' = uncounted /\ stray' = stray + 1 => Slack' = Slack + MaxRisk
<1> DEFINE n == uncounted + stray  n1 == uncounted' + stray'
<1>1. n \in Nat /\ MaxRisk \in Nat /\ uncounted \in Nat /\ stray \in Nat
  BY Limits DEF TypeOK
<1>2. (n + 1) * MaxRisk = n * MaxRisk + MaxRisk
  BY <1>1, Products
<1>3. Slack = n * MaxRisk /\ Slack' = n1 * MaxRisk
  BY DEF Slack, MaxRisk
<1>4. /\ uncounted' = uncounted /\ stray' = stray => n1 = n
      /\ uncounted' = uncounted + 1 /\ stray' = stray => n1 = n + 1
      /\ uncounted' = uncounted /\ stray' = stray + 1 => n1 = n + 1
  BY <1>1
<1> HIDE DEF n, n1
<1> QED BY <1>2, <1>3, <1>4

LEMMA RiskStep == ASSUME Stable, RiskInv, [Next]_vars PROVE RiskInv'
<1>0. /\ late \cap counted = {} /\ late \subseteq Calls /\ late' \subseteq Calls
      /\ DOMAIN pc = Calls /\ DOMAIN pc' = Calls /\ Engines \cap Reservers = {}
      /\ Engines \subseteq Calls /\ Reservers \subseteq Calls
      /\ counted \subseteq Reservers /\ counted' \subseteq Reservers
      /\ counted \in SUBSET Calls /\ counted' \in SUBSET Calls
  BY CallTypes
<1> DEFINE a == CountedRisk  a1 == CountedRisk'  b == AddingRisk  b1 == AddingRisk'
           w == Slack  w1 == Slack'  q1 == risk'  o1 == openedRisk'
<1>1. /\ Amount \in [Calls -> Nat] /\ Amount' \in [Calls -> Nat]
      /\ Adding \in SUBSET Calls /\ Adding' \in SUBSET Calls
      /\ \A c \in Calls : /\ Amount[c] = RiskOf[sig[c]] /\ Amount[c] \in Nat /\ Amount[c] <= MaxRisk
                          /\ Amount'[c] = RiskOf[sig'[c]]
  <2>1. RiskFacts
    BY RiskTypes DEF Stable
  <2>2. RiskFacts'
    <3>1. TypeOK' => RiskFacts'
      BY RiskTypes, PTL
    <3> QED BY <3>1, TypeStep
  <2>3. Amount' = [c \in Calls |-> RiskOf[sig'[c]]]
    BY DEF Amount
  <2> QED BY <2>1, <2>2, <2>3 DEF RiskFacts
<1>2. /\ a \in Nat /\ a1 \in Nat /\ b \in Nat /\ b1 \in Nat /\ w \in Nat /\ w1 \in Nat
      /\ q1 \in Int /\ o1 \in Nat /\ risk \in Int /\ openedRisk \in Nat /\ MaxRisk \in Nat
  <2>1. RiskFacts
    BY RiskTypes DEF Stable
  <2>2. RiskFacts'
    <3>1. TypeOK' => RiskFacts'
      BY RiskTypes, PTL
    <3> QED BY <3>1, TypeStep
  <2> QED BY <2>1, <2>2, Limits DEF RiskFacts
<1>3. openedRisk + a <= risk + b + w
  BY DEF RiskInv
<1> DEFINE Bound == o1 + a1 <= q1 + b1 + w1
<1>4. Bound => RiskInv'
  BY DEF RiskInv
<1>5. /\ a = SumFunctionOnSet(Amount, counted) /\ a1 = SumFunctionOnSet(Amount', counted')
      /\ b = SumFunctionOnSet(Amount, Adding) /\ b1 = SumFunctionOnSet(Amount', Adding')
  BY DEF CountedRisk, AddingRisk
<1>6. /\ uncounted' = uncounted /\ stray' = stray => w1 = w
      /\ uncounted' = uncounted + 1 /\ stray' = stray => w1 = w + MaxRisk
      /\ uncounted' = uncounted /\ stray' = stray + 1 => w1 = w + MaxRisk
  BY SlackSteps DEF Stable
\* One call's signal and place change.
<1>7. ASSUME NEW c \in Calls, \A d \in Calls \ {c} : sig'[d] = sig[d]
      PROVE  /\ counted' = counted /\ (c \notin counted \/ sig'[c] = sig[c]) => a1 = a
             /\ counted' = counted \ {c} /\ c \in counted => a = Amount[c] + a1
             /\ counted' = counted \cup {c} /\ c \notin counted => a1 = RiskOf[sig'[c]] + a
             /\ Adding' = Adding /\ (c \notin Adding \/ sig'[c] = sig[c]) => b1 = b
             /\ Adding' = Adding \ {c} /\ c \in Adding => b = Amount[c] + b1
             /\ Adding' = Adding \cup {c} /\ c \notin Adding => b1 = RiskOf[sig'[c]] + b
  <2> DEFINE f == Amount g == Amount' R == Adding T == Adding' C == counted'
  <2>1. /\ f \in [Calls -> Nat] /\ g \in [Calls -> Nat]
        /\ R \in SUBSET Calls /\ T \in SUBSET Calls /\ C \in SUBSET Calls
        /\ \A d \in Calls \ {c} : g[d] = f[d]
        /\ g[c] = RiskOf[sig'[c]] /\ (sig'[c] = sig[c] => g[c] = f[c])
    BY <1>0, <1>1, <1>7
  <2>2. /\ a = SumFunctionOnSet(f, counted) /\ a1 = SumFunctionOnSet(g, C)
        /\ b = SumFunctionOnSet(f, R) /\ b1 = SumFunctionOnSet(g, T)
    BY <1>5
  <2> HIDE DEF f, g, R, T, C, a, a1, b, b1
  <2>3. /\ C = counted /\ (c \notin counted \/ g[c] = f[c]) => a1 = a
        /\ C = counted \ {c} /\ c \in counted => a = f[c] + a1
        /\ C = counted \cup {c} /\ c \notin counted => a1 = g[c] + a
    BY <1>0, <2>1, <2>2, AmountSteps
  <2>4. /\ T = R /\ (c \notin R \/ g[c] = f[c]) => b1 = b
        /\ T = R \ {c} /\ c \in R => b = f[c] + b1
        /\ T = R \cup {c} /\ c \notin R => b1 = g[c] + b
    BY <2>1, <2>2, AmountSteps
  <2> QED BY <2>1, <2>3, <2>4 DEF f, R, T, C
<1>8. ASSUME NEW e \in Engines, Engine(e) PROVE Bound
  <2>1. /\ \A d \in Calls \ {e} : pc'[d] = pc[d] /\ sig'[d] = sig[d]
        /\ late' = late \ {e} /\ counted' = counted /\ stray' = stray
    <3>1. DOMAIN sig = Calls
      BY DEF Stable, TypeOK
    <3> QED BY <1>0, <1>8, <3>1, EngineFrame
  <2>2. EngineMoves(e)
    BY <1>8, EngineSteps
  <2>3. e \in Calls /\ e \notin counted /\ a1 = a
    BY <1>0, <1>7, <2>1
  <2>4. /\ Adding' \ {e} = Adding \ {e}
        /\ e \in Adding <=> pc[e] = "count" \/ (pc[e] = "addRisk" /\ e \notin late)
        /\ e \in Adding' <=> pc'[e] \in {"count", "addRisk"}
    BY <1>0, <2>1 DEF Adding, At
  <2>5. /\ e \notin Adding /\ e \notin Adding' => b1 = b
        /\ e \notin Adding /\ e \in Adding' => b1 = RiskOf[sig'[e]] + b
        /\ e \in Adding /\ e \notin Adding' => b = Amount[e] + b1
        /\ e \in Adding /\ e \in Adding' /\ sig'[e] = sig[e] => b1 = b
    <3>1. /\ e \notin Adding /\ e \notin Adding' => Adding' = Adding
          /\ e \notin Adding /\ e \in Adding' => Adding' = Adding \cup {e}
          /\ e \in Adding /\ e \notin Adding' => Adding' = Adding \ {e}
          /\ e \in Adding /\ e \in Adding' => Adding' = Adding
      BY <2>4
    <3> HIDE DEF a, a1, b, b1
    <3> QED BY <1>7, <2>1, <2>3, <3>1
  <2> DEFINE v == Amount[e]
  <2>6. v \in Nat /\ v <= MaxRisk /\ v = RiskOf[sig[e]]
    BY <1>1, <2>3
  <2>7. /\ uncounted' = uncounted => w1 = w
        /\ uncounted' = uncounted + 1 => w1 = w + MaxRisk
    BY <1>6, <2>1
  <2> HIDE DEF a, a1, b, b1, w, w1, v
  <2>8. CASE /\ {pc[e], pc'[e]} \cap {"count", "addRisk"} = {}
             /\ UNCHANGED <<redis, opened, openedRisk>> /\ uncounted' \in {uncounted, uncounted + 1}
    <3>1. b1 = b
      BY <2>4, <2>5, <2>8
    <3>2. q1 = risk /\ o1 = openedRisk
      BY <2>8 DEF redis
    <3>3. w1 = w \/ w1 = w + MaxRisk
      BY <2>7, <2>8
    <3> HIDE DEF q1, o1
    <3> QED BY <1>2, <1>3, <2>3, <3>1, <3>2, <3>3
  <2>9. CASE /\ pc[e] = "execute" /\ pc'[e] \in {"count", "idle"}
             /\ pc'[e] = "count" => sig'[e] = sig[e]
             /\ openedRisk' = openedRisk + RiskOf[sig[e]] /\ UNCHANGED redis
             /\ uncounted' = IF pc'[e] = "count" THEN uncounted ELSE uncounted + 1
    <3>1. q1 = risk /\ o1 = openedRisk + v
      BY <2>6, <2>9 DEF redis
    <3>2. CASE pc'[e] = "count"
      <4>1. b1 = v + b /\ w1 = w
        BY <2>4, <2>5, <2>6, <2>7, <2>9, <3>2
      <4> HIDE DEF q1, o1
      <4> QED BY <1>2, <1>3, <2>3, <2>6, <3>1, <4>1
    <3>3. CASE pc'[e] = "idle"
      <4>1. b1 = b /\ w1 = w + MaxRisk
        BY <2>4, <2>5, <2>7, <2>9, <3>3
      <4> HIDE DEF q1, o1
      <4> QED BY <1>2, <1>3, <2>3, <2>6, <3>1, <4>1
    <3> QED BY <2>9, <3>2, <3>3
  <2>10. CASE /\ pc[e] = "count" /\ pc'[e] = "addRisk" /\ sig'[e] = sig[e]
              /\ UNCHANGED <<risk, opened, openedRisk>> /\ uncounted' \in {uncounted, uncounted + 1}
    <3>1. b1 = b /\ q1 = risk /\ o1 = openedRisk
      BY <2>4, <2>5, <2>10
    <3>2. w1 = w \/ w1 = w + MaxRisk
      BY <2>7, <2>10
    <3> HIDE DEF q1, o1
    <3> QED BY <1>2, <1>3, <2>3, <3>1, <3>2
  <2>11. CASE /\ pc[e] = "addRisk" /\ pc'[e] = "idle" /\ UNCHANGED <<trades, opened, openedRisk>>
              /\ \/ risk' = Plus(e, risk, RiskOf[sig[e]]) /\ UNCHANGED uncounted
                 \/ uncounted' = uncounted + 1 /\ UNCHANGED risk
    <3>1. o1 = openedRisk
      BY <2>11
    <3>3. e \notin late => b = v + b1
      BY <2>4, <2>5, <2>11 DEF v
    <3>4. \/ q1 = (IF e \in late THEN risk ELSE risk + v) /\ w1 = w
          \/ q1 = risk /\ w1 = w + MaxRisk
      BY <2>6, <2>7, <2>11 DEF Plus
    <3> HIDE DEF q1, o1
    <3>5. CASE e \in late
      <4>1. b1 = b
        BY <2>4, <2>5, <2>11, <3>5
      <4>2. q1 = risk /\ (w1 = w \/ w1 = w + MaxRisk)
        BY <3>4, <3>5
      <4> QED BY <1>2, <1>3, <2>3, <3>1, <4>1, <4>2
    <3>6. CASE e \notin late
      <4>1. \/ q1 = risk + v /\ w1 = w
            \/ q1 = risk /\ w1 = w + MaxRisk
        BY <3>4, <3>6
      <4> QED BY <1>2, <1>3, <2>3, <2>6, <3>1, <3>3, <3>6, <4>1
    <3> QED BY <3>5, <3>6
  <2> QED BY <2>2, <2>8, <2>9, <2>10, <2>11 DEF EngineMoves
<1>9. ASSUME NEW r \in Reservers, Reserver(r) PROVE Bound
  <2>1. /\ \A d \in Calls \ {r} : pc'[d] = pc[d] /\ sig'[d] = sig[d]
        /\ late' = late \ {r} /\ uncounted' = uncounted /\ r \in Calls /\ r \notin Engines
    <3>1. DOMAIN sig = Calls
      BY DEF Stable, TypeOK
    <3> QED BY <1>0, <1>9, <3>1, ReserverFrame
  <2>2. b1 = b
    <3>1. Adding' = Adding /\ r \notin Adding
      BY <1>0, <2>1 DEF Adding, At
    <3> QED BY <1>7, <2>1, <3>1
  <2> DEFINE v == Amount[r]
  <2>3. v \in Nat /\ v <= MaxRisk /\ v = RiskOf[sig[r]]
    BY <1>1, <2>1
  <2>4. counted' = counted \ {r} => a = IF r \in counted THEN v + a1 ELSE a1
    <3>1. CASE r \in counted
      BY <1>7, <2>1, <3>1
    <3>2. CASE r \notin counted
      <4>1. counted \ {r} = counted
        BY <3>2
      <4> QED BY <1>7, <2>1, <3>2, <4>1
    <3> QED BY <3>1, <3>2
  <2>5. /\ stray' = stray => w1 = w
        /\ stray' = stray + 1 => w1 = w + MaxRisk
    BY <1>6, <2>1
  <2> HIDE DEF a, a1, b, b1, w, w1, v
  <2>6. CASE \E s \in Signals, l \in Caps : Reserve(r, s, l)
    <3>1. PICK s \in Signals, l \in Caps : Reserve(r, s, l)
      BY <2>6
    <3>2. q1 = risk + RiskOf[s] /\ o1 = openedRisk /\ w1 = w /\ RiskOf[s] \in Nat
      BY <2>5, <3>1, Limits DEF Reserve
    <3>3. r \notin counted
      BY <3>1 DEF Reserve, Stable, CallInv
    <3>4. a1 = a \/ a1 = RiskOf[s] + a
      <4>1. CASE UNCHANGED <<sig, counted>>
        BY <1>7, <2>1, <3>3, <4>1
      <4>2. CASE sig' = [sig EXCEPT ![r] = s] /\ counted' = counted \cup {r}
        <5>1. sig'[r] = s
          BY <2>1, <4>2 DEF Stable, TypeOK
        <5> QED BY <1>7, <2>1, <3>3, <4>2, <5>1
      <4> QED BY <3>1, <4>1, <4>2 DEF Reserve
    <3> DEFINE x == RiskOf[s]
    <3>5. q1 = risk + x /\ x \in Nat /\ (a1 = a \/ a1 = x + a) /\ o1 = openedRisk /\ w1 = w
      BY <3>2, <3>4
    <3> HIDE DEF q1, o1, x
    <3> QED BY <1>2, <1>3, <2>2, <3>5
  <2>7. CASE GiveBackTrade(r)
    <3>1. q1 = risk /\ o1 = openedRisk /\ counted' = counted \ {r} /\ stray' \in {stray, stray + 1}
      BY <2>7 DEF GiveBackTrade, Forget, Strays
    <3>2. (w1 = w \/ w1 = w + MaxRisk) /\ (a = v + a1 \/ a = a1)
      BY <2>4, <2>5, <3>1
    <3>3. q1 = risk /\ o1 = openedRisk
      BY <3>1
    <3> HIDE DEF q1, o1
    <3> QED BY <1>2, <1>3, <2>2, <2>3, <3>2, <3>3
  <2>8. CASE Rollback(r)
    <3>1. /\ o1 = openedRisk /\ counted' = counted \ {r}
          /\ \/ q1 = risk /\ stray' = stray
             \/ q1 = Plus(r, risk, -v) /\ stray' = Strays(r)
      BY <2>3, <2>8 DEF Rollback, Forget, redis
    <3>2. \/ q1 = risk /\ stray' = stray
          \/ r \in counted /\ q1 = risk - v /\ stray' = stray
          \/ r \notin counted /\ q1 = risk - v /\ stray' = stray + 1
      <4>1. risk + (-v) = risk - v
        BY <1>2, <2>3
      <4> QED BY <1>0, <3>1, <4>1 DEF Plus, Strays
    <3>3. o1 = openedRisk
      BY <3>1
    <3> HIDE DEF q1, o1
    <3>4. CASE r \in counted
      <4>1. a = v + a1 /\ w1 = w /\ (q1 = risk \/ q1 = risk - v)
        BY <2>4, <2>5, <3>1, <3>2, <3>4
      <4> QED BY <1>2, <1>3, <2>2, <2>3, <3>3, <4>1
    <3>5. CASE r \notin counted
      <4>1. /\ a = a1
            /\ \/ q1 = risk /\ w1 = w
               \/ q1 = risk - v /\ w1 = w + MaxRisk
        BY <2>4, <2>5, <3>1, <3>2, <3>5
      <4> QED BY <1>2, <1>3, <2>2, <2>3, <3>3, <4>1
    <3> QED BY <3>4, <3>5
  <2>9. CASE UseReservation(r)
    <3>1. /\ q1 = risk /\ o1 = openedRisk + v /\ counted' = counted \ {r}
          /\ stray' = IF r \in counted THEN stray ELSE stray + 1
      BY <2>3, <2>9 DEF UseReservation, Open, Forget, redis
    <3>2. q1 = risk /\ o1 = openedRisk + v
      BY <3>1
    <3>3. \/ a = v + a1 /\ w1 = w
          \/ a = a1 /\ w1 = w + MaxRisk
      BY <2>4, <2>5, <3>1
    <3> HIDE DEF q1, o1
    <3> QED BY <1>2, <1>3, <2>2, <2>3, <3>2, <3>3
  <2>10. CASE CancelReservation(r)
    <3>1. q1 = risk /\ o1 = openedRisk /\ counted' = counted /\ sig' = sig /\ stray' = stray
      BY <2>10 DEF CancelReservation, redis
    <3>2. q1 = risk /\ o1 = openedRisk /\ a1 = a /\ w1 = w
      BY <1>7, <2>1, <2>5, <3>1
    <3> HIDE DEF q1, o1
    <3> QED BY <1>2, <1>3, <2>2, <3>2
  <2> QED BY <1>9, <2>6, <2>7, <2>8, <2>9, <2>10 DEF Reserver
<1>10. CASE Midnight \/ ResetCounters
  <2>1. risk' = 0 /\ openedRisk' = 0 /\ counted' = {}
    BY <1>10 DEF Midnight, ResetCounters, StartCounting
  <2>2. a1 = 0
    <3>1. a1 = SumFunctionOnSet(Amount', {})
      BY <1>5, <2>1
    <3> QED BY <3>1, SumEmpty
  <2>3. q1 = 0 /\ o1 = 0
    BY <2>1
  <2> HIDE DEF a1, b1, w1, q1, o1
  <2>4. o1 + a1 <= q1 + b1 + w1
    BY <1>2, <2>2, <2>3
  <2> QED BY <1>4, <2>4
<1>11. CASE Operator \/ UNCHANGED vars
  <2>1. UNCHANGED <<pc, sig, late, counted, risk, openedRisk, uncounted, stray>>
    BY <1>11, OperatorFrame DEF calls, redis
  <2> QED BY <2>1 DEF RiskInv, CountedRisk, AddingRisk, Slack, Adding, At, Amount
<1> QED BY <1>4, <1>8, <1>9, <1>10, <1>11 DEF Next

\* Redis never understates the day: what was opened is in the counters or about to be added,
\* or a command failed, or a decrement strayed from one day's counters to another's.
THEOREM CountersAlwaysCoverPositions == Spec => []CountersCoverPositions
<1>1. Init => CountInv /\ RiskInv
  <2> SUFFICES ASSUME Init PROVE CountInv /\ RiskInv
    OBVIOUS
  <2>1. Counting = {} /\ Adding = {} /\ counted = {}
    BY DEF Init, Counting, Adding, At, Calls
  <2>2. Cardinality(counted) = 0 /\ Cardinality(Counting) = 0
    BY <2>1, FS_EmptySet
  <2>3. CountedRisk = 0 /\ AddingRisk = 0
    BY <2>1, SumEmpty DEF CountedRisk, AddingRisk
  <2>4. Slack = 0
    BY Limits, Products DEF Slack, Init
  <2> QED BY <2>2, <2>3, <2>4 DEF Init, CountInv, RiskInv
<1>2. Stable /\ CountInv /\ RiskInv => CountersCoverPositions
  <2> SUFFICES ASSUME Stable, CountInv, RiskInv PROVE CountersCoverPositions
    OBVIOUS
  <2>1. opened <= trades + Cardinality(At({"count"})) + uncounted + stray
    <3> DEFINE k == Cardinality(counted) n == Cardinality(Counting) m == Cardinality(At({"count"}))
    <3>1. Counting \subseteq At({"count"}) /\ Counting \in SUBSET Calls /\ At({"count"}) \in SUBSET Calls
          /\ counted \in SUBSET Calls
      BY DEF Counting, At, Calls, Stable, TypeOK
    <3>2. k \in Nat /\ n \in Nat /\ m \in Nat /\ n <= m
      BY <3>1, Counted, CardSteps
    <3>3. trades \in Int /\ opened \in Nat /\ uncounted \in Nat /\ stray \in Nat
      BY DEF Stable, TypeOK
    <3>4. opened + k <= trades + n + uncounted + stray
      BY DEF CountInv
    <3> HIDE DEF k, n, m
    <3>5. opened <= trades + m + uncounted + stray
      BY <3>2, <3>3, <3>4
    <3> QED BY <3>5 DEF m
  <2>2. openedRisk <= risk + RiskAt({"count", "addRisk"}) + Slack
    <3> DEFINE S == At({"count", "addRisk"}) g == [e \in Engines |-> RiskOf[sig[e]]]
               x == SumFunctionOnSet(Amount, S)
    <3>1. /\ Amount \in [Calls -> Nat] /\ CountedRisk \in Nat /\ AddingRisk \in Nat /\ Slack \in Nat
          /\ risk \in Int /\ openedRisk \in Nat
      BY RiskTypes DEF RiskFacts, Stable
    <3>2. S \subseteq Engines /\ S \in SUBSET Calls /\ Adding \in SUBSET S
      BY DEF At, Calls, Adding
    <3>3. IsFiniteSet(S)
      BY <3>2, Counted
    <3>4. SumFunctionOnSet(g, S) = x
      <4>1. \A e \in S : g[e] = Amount[e]
        BY <3>2 DEF Amount
      <4> HIDE DEF S, g
      <4> QED BY <3>3, <4>1, SumAgree
    <3>5. x \in Nat /\ AddingRisk <= x
      <4>1. \A e \in S : Amount[e] \in Nat
        BY <3>1, <3>2
      <4> HIDE DEF S
      <4> QED BY <3>2, <3>3, <4>1, SumNat, SumMonotone DEF AddingRisk
    <3>6. RiskAt({"count", "addRisk"}) = x
      BY <3>4 DEF RiskAt
    <3> DEFINE a == CountedRisk b == AddingRisk w == Slack
    <3>7. openedRisk + a <= risk + b + w
      BY DEF RiskInv
    <3>8. a \in Nat /\ b \in Nat /\ w \in Nat /\ b <= x /\ x \in Nat
      BY <3>1, <3>5
    <3> HIDE DEF x, a, b, w
    <3>9. openedRisk <= risk + x + w
      BY <3>1, <3>7, <3>8
    <3> QED BY <3>6, <3>9 DEF w
  <2> QED BY <2>1, <2>2 DEF CountersCoverPositions, Slack, MaxRisk
<1> QED BY <1>1, <1>2, StableAlways, CountStep, RiskStep, PTL DEF Spec
=============================================================================
