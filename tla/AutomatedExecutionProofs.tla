---------------------- MODULE AutomatedExecutionProofs ----------------------
(***************************************************************************)
(* Theorems about AutomatedExecution, for every number of concurrent calls *)
(* and every limit.  StageInv and TypeOK are inductive together; the other *)
(* invariants are inductive relative to them.                              *)
(***************************************************************************)
EXTENDS AutomatedExecution, FiniteSetTheorems, TLAPS

\* A request that passed the price validation has a positive stop distance, so the sizing
\* rule divides by a positive number and returns an integer (_calculate_position_size).
LEMMA SizeIsInteger ==
    ASSUME NEW r \in Requests, ValidPrices(r)
    PROVE  /\ Distance(r) \in Nat \ {0}
           /\ PositionSize(r, SizingBalance(r)) \in Int
<1> USE ExecutionAssumption
<1>1. r.entry \in Int /\ r.stop \in Int /\ r.direction \in {"LONG", "SHORT"}
      /\ r.balance \in Int \cup {NoBalance}
  BY DEF Request
<1>2. Distance(r) \in Nat \ {0}
  BY <1>1 DEF ValidPrices, Distance
<1>3. SizingBalance(r) \in Int
  BY <1>1 DEF SizingBalance
<1>4. /\ (SizingBalance(r) * TradeLimit) \div (100 * Distance(r)) \in Int
      /\ (SizingBalance(r) * ValueLimit) \div (100 * r.entry) \in Int
  <2>1. 100 * Distance(r) \in Nat \ {0} /\ 100 * r.entry \in Nat \ {0}
    BY <1>1, <1>2 DEF ValidPrices
  <2>2. SizingBalance(r) * TradeLimit \in Int /\ SizingBalance(r) * ValueLimit \in Int
    BY <1>3
  <2> QED BY <2>1, <2>2
<1> QED BY <1>2, <1>4 DEF PositionSize, Least

Stable == TypeOK /\ StageInv

LEMMA StableInit == Init => Stable
<1> SUFFICES ASSUME Init PROVE Stable
  OBVIOUS
<1> USE ExecutionAssumption DEF Init
<1>1. pc \in [Tasks -> Stages] /\ st \in [Tasks -> OrderStates] /\ mode \in Modes
  BY DEF Modes, Stages, OrderStates
<1>2. /\ attempt \in [Tasks -> 0..MaxRetries] /\ qty \in [Tasks -> Int]
      /\ fills \in [Tasks -> Nat] /\ sentSinceKill \in [Tasks -> Nat]
  OBVIOUS
<1>3. /\ cleared \in [Tasks -> SUBSET (Keys \cup {"trade"})]
      /\ executed \in [Tasks -> BOOLEAN] /\ lost \in [Tasks -> BOOLEAN]
      /\ exposure \in [Keys -> Int] /\ held \in [Symbols -> Int]
  OBVIOUS
<1>4. StageInv
  BY DEF StageInv, CheckStages
<1> QED BY <1>1, <1>2, <1>3, <1>4 DEF Stable, TypeOK

LEMMA StableStep == Stable /\ [Next]_vars => Stable'
<1> SUFFICES ASSUME Stable, [Next]_vars PROVE Stable'
  OBVIOUS
<1> USE ExecutionAssumption DEF Stable, TypeOK, StageInv, Stages, CheckStages, GateStages, OrderStates,
        service, platform, history
<1>1. CASE Operator
  <2>1. UNCHANGED <<pending, pc, req, qty, st, attempt, cleared, executed, exposure, held, fills, lost>>
    BY <1>1 DEF Operator, SetAdapter, Enable, Disable, ActivateKillSwitch, ResetKillSwitch
  <2>2. mode' \in Modes /\ killActive' \in BOOLEAN /\ adapterSet' \in BOOLEAN
    BY <1>1 DEF Operator, SetAdapter, Enable, Disable, ActivateKillSwitch, ResetKillSwitch, Modes
  <2>3. sentSinceKill' \in [Tasks -> Nat]
    BY <1>1 DEF Operator, SetAdapter, Enable, Disable, ActivateKillSwitch, ResetKillSwitch
  <2> QED BY <2>1, <2>2, <2>3
<1>2. ASSUME NEW t \in Tasks, NEW r \in Requests, Call(t, r) PROVE Stable'
  BY <1>2 DEF Call, GoTo
<1>3. ASSUME NEW t \in Tasks,
             CheckBalance(t) \/ CheckPosition(t) \/ CheckHeat(t) \/ CheckCampaign(t)
                \/ CheckCorrelated(t) \/ CheckRaises(t) \/ RefuseOrder(t)
      PROVE  Stable'
  BY <1>3 DEF CheckBalance, CheckPosition, CheckHeat, CheckCampaign, CheckCorrelated, CheckRaises,
              RefuseOrder, Check, GoTo, UnchangedOrder
<1>4. ASSUME NEW t \in Tasks, CreateOrder(t) PROVE Stable'
  <2>1. PositionSize(req[t], SizingBalance(req[t])) \in Int
    BY <1>4, SizeIsInteger DEF CreateOrder
  <2> QED BY <1>4, <2>1 DEF CreateOrder, BeginAttempt, GoTo, ValidOrder
<1>5. ASSUME NEW t \in Tasks,
             \/ GateHeat(t) \/ GateCampaign(t) \/ GateCorrelated(t)
             \/ \E readable \in BOOLEAN : GateBalance(t, readable)
      PROVE  Stable'
  <2>1. {CampaignOf[req[t].symbol], GroupOf[req[t].symbol], "portfolio"} \subseteq Keys
    BY DEF Keys, Request
  <2>2. \E k \in Keys \cup {"trade"}, stage \in GateStages, next \in GateStages, b \in BOOLEAN :
           Observe(t, stage, k, b, next)
    BY <1>5, <2>1 DEF GateHeat, GateBalance, GateCampaign, GateCorrelated
  <2> QED BY <2>2 DEF Observe, GoTo
<1>6. ASSUME NEW t \in Tasks, Submit(t) PROVE Stable'
  <2>1. /\ cleared' \in [Tasks -> SUBSET (Keys \cup {"trade"})]
        /\ st' \in [Tasks -> OrderStates] /\ pc' \in [Tasks -> Stages]
        /\ sentSinceKill' \in [Tasks -> Nat]
    BY <1>6 DEF Submit, GoTo
  <2> QED BY <1>6, <2>1 DEF Submit, GoTo
<1>7. ASSUME NEW t \in Tasks, PlatformFills(t) PROVE Stable'
  <2>1. req[t].symbol \in Symbols /\ Risk(t) \in Int
    BY DEF Request, Risk, Distance
  <2>2. exposure' \in [Keys -> Int] /\ held' \in [Symbols -> Int]
    BY <1>7, <2>1 DEF PlatformFills
  <2> QED BY <1>7, <2>2 DEF PlatformFills
<1>8. ASSUME NEW t \in Tasks, PlaceSucceeds(t) PROVE Stable'
  BY <1>8 DEF PlaceSucceeds, GoTo
<1>9. ASSUME NEW t \in Tasks, NEW retryable \in BOOLEAN, AttemptFails(t, retryable) PROVE Stable'
  BY <1>9 DEF AttemptFails, MayRetry, GoTo
<1>10. ASSUME NEW t \in Tasks, Retry(t) PROVE Stable'
  BY <1>10 DEF Retry, BeginAttempt, GoTo
<1>11. ASSUME NEW t \in Tasks, NEW raises \in BOOLEAN, CancelReturns(t, raises) PROVE Stable'
  BY <1>11 DEF CancelReturns, GoTo
<1>12. CASE UNCHANGED vars
  BY <1>12 DEF vars, ValidPrices
<1> QED
  BY <1>1, <1>2, <1>3, <1>4, <1>5, <1>6, <1>7, <1>8, <1>9, <1>10, <1>11, <1>12 DEF Next, Step

\* Type correctness of the service, its calls and the platform's account.
THEOREM TypeCorrect == Spec => []TypeOK
<1>1. Stable => TypeOK
  BY DEF Stable
<1> QED BY <1>1, StableInit, StableStep, PTL DEF Spec

LEMMA StableAlways == Spec => []Stable
BY StableInit, StableStep, PTL DEF Spec

-----------------------------------------------------------------------------
(* The kill switch.  An attempt passes the check at its head only while    *)
(* the switch is off, so it begins with nothing sent since an activation;  *)
(* it sends once, and the next attempt finds the switch on.                *)

LEMMA KillStep == Stable /\ KillInv /\ [Next]_vars => KillInv'
<1> SUFFICES ASSUME Stable, KillInv, [Next]_vars PROVE KillInv'
  OBVIOUS
<1> USE DEF Stable, TypeOK, KillInv, GateStages, service, platform, history
<1>1. CASE Operator
  BY <1>1 DEF Operator, SetAdapter, Enable, Disable, ActivateKillSwitch, ResetKillSwitch
<1>2. ASSUME NEW t \in Tasks,
             \/ \E r \in Requests : Call(t, r)
             \/ CheckBalance(t) \/ CheckPosition(t) \/ CheckHeat(t) \/ CheckCampaign(t)
             \/ CheckCorrelated(t) \/ CheckRaises(t) \/ RefuseOrder(t)
      PROVE  KillInv'
  BY <1>2 DEF Call, CheckBalance, CheckPosition, CheckHeat, CheckCampaign, CheckCorrelated,
              CheckRaises, RefuseOrder, Check, GoTo, UnchangedOrder
<1>3. ASSUME NEW t \in Tasks, CreateOrder(t) \/ Retry(t) PROVE KillInv'
  BY <1>3 DEF CreateOrder, Retry, BeginAttempt, GoTo
<1>4. ASSUME NEW t \in Tasks,
             \/ GateHeat(t) \/ GateCampaign(t) \/ GateCorrelated(t)
             \/ \E readable \in BOOLEAN : GateBalance(t, readable)
      PROVE  KillInv'
  BY <1>4 DEF GateHeat, GateBalance, GateCampaign, GateCorrelated, Observe, GoTo
<1>5. ASSUME NEW t \in Tasks, Submit(t) PROVE KillInv'
  BY <1>5 DEF Submit, GoTo
<1>6. ASSUME NEW t \in Tasks, PlatformFills(t) \/ PlaceSucceeds(t) PROVE KillInv'
  BY <1>6 DEF PlatformFills, PlaceSucceeds, GoTo
<1>7. ASSUME NEW t \in Tasks, NEW b \in BOOLEAN, AttemptFails(t, b) \/ CancelReturns(t, b)
      PROVE  KillInv'
  BY <1>7 DEF AttemptFails, MayRetry, CancelReturns, GoTo
<1>8. CASE UNCHANGED vars
  BY <1>8 DEF vars
<1> QED BY <1>1, <1>2, <1>3, <1>4, <1>5, <1>6, <1>7, <1>8 DEF Next, Step

\* However many orders are in flight, each sends at most one more place_order after the
\* kill switch is activated.
THEOREM KillSwitchStopsRetriesAlways == Spec => []KillSwitchStopsRetries
<1>1. Init => KillInv
  BY DEF Init, KillInv
<1>2. KillInv => KillSwitchStopsRetries
  BY DEF KillInv, KillSwitchStopsRetries
<1> QED BY <1>1, <1>2, StableAlways, KillStep, PTL DEF Spec

-----------------------------------------------------------------------------
(* The risk gate.                                                          *)

LEMMA GateStep == Stable /\ GateInv /\ [Next]_vars => GateInv'
<1> SUFFICES ASSUME Stable, GateInv, [Next]_vars PROVE GateInv'
  OBVIOUS
<1> USE ExecutionAssumption
        DEF Stable, TypeOK, StageInv, GateInv, Gated, Risk, CheckStages, GateStages, service, platform, history
<1>1. CASE Operator
  BY <1>1 DEF Operator, SetAdapter, Enable, Disable, ActivateKillSwitch, ResetKillSwitch
<1>2. ASSUME NEW t \in Tasks,
             \/ \E r \in Requests : Call(t, r)
             \/ CheckBalance(t) \/ CheckPosition(t) \/ CheckHeat(t) \/ CheckCampaign(t)
             \/ CheckCorrelated(t) \/ CheckRaises(t) \/ RefuseOrder(t)
      PROVE  GateInv'
  BY <1>2 DEF Call, CheckBalance, CheckPosition, CheckHeat, CheckCampaign, CheckCorrelated,
              CheckRaises, RefuseOrder, Check, GoTo, UnchangedOrder
<1>3. ASSUME NEW t \in Tasks, CreateOrder(t) \/ Retry(t) PROVE GateInv'
  BY <1>3 DEF CreateOrder, Retry, BeginAttempt, GoTo
<1>4. ASSUME NEW t \in Tasks, GateHeat(t) \/ GateCampaign(t) \/ GateCorrelated(t) PROVE GateInv'
  <2>1. "trade" \notin {CampaignOf[req[t].symbol], GroupOf[req[t].symbol], "portfolio"}
    BY DEF Request, Keys
  <2> QED BY <1>4, <2>1 DEF GateHeat, GateCampaign, GateCorrelated, Observe, GoTo
<1>5. ASSUME NEW t \in Tasks, NEW readable \in BOOLEAN, GateBalance(t, readable) PROVE GateInv'
  BY <1>5 DEF GateBalance, Observe, GoTo
<1>6. ASSUME NEW t \in Tasks, Submit(t) PROVE GateInv'
  BY <1>6 DEF Submit, GoTo
<1>7. ASSUME NEW t \in Tasks, PlatformFills(t) PROVE GateInv'
  BY <1>7 DEF PlatformFills
<1>8. ASSUME NEW t \in Tasks, PlaceSucceeds(t) PROVE GateInv'
  BY <1>8 DEF PlaceSucceeds, GoTo
<1>9. ASSUME NEW t \in Tasks, NEW b \in BOOLEAN, AttemptFails(t, b) \/ CancelReturns(t, b)
      PROVE  GateInv'
  BY <1>9 DEF AttemptFails, MayRetry, CancelReturns, GoTo
<1>10. CASE UNCHANGED vars
  BY <1>10 DEF vars
<1> QED BY <1>1, <1>2, <1>3, <1>4, <1>5, <1>6, <1>7, <1>8, <1>9, <1>10 DEF Next, Step

LEMMA GateInit == Init => GateInv
BY DEF Init, GateInv

\* No order reaches the platform with 2% or more of the balance at risk, whatever balance
\* the caller sized it with.
THEOREM PlacedRiskBoundedAlways == Spec => []PlacedRiskBounded
<1>1. Stable /\ GateInv => PlacedRiskBounded
  BY DEF GateInv, PlacedRiskBounded, Gated
<1> QED BY <1>1, GateInit, GateStep, StableAlways, PTL DEF Spec

-----------------------------------------------------------------------------
(* The overshoot.  Room(a) is the distance the bound leaves above the      *)
(* limit when a calls are armed; a fill spends one call's share of it.     *)

Room(a) == (Cardinality(Tasks) - a) * TradeCap

LEMMA CapsAreNatural == TradeCap \in Nat /\ \A k \in Keys : Cap(k) \in Nat
<1> USE ExecutionAssumption
<1>1. \A m, n \in Nat : m * n \in Nat
  OBVIOUS
<1> QED BY <1>1 DEF TradeCap, Cap, Limit

LEMMA RoomArithmetic ==
    ASSUME NEW a \in Int, NEW b \in Int, a <= b
    PROVE  /\ Room(a) \in Int /\ Room(b) <= Room(a)
           /\ Room(a - 1) = Room(a) + TradeCap
           /\ a >= 0 => Room(a) <= Cardinality(Tasks) * TradeCap
           /\ a <= Cardinality(Tasks) => Room(a) >= 0
<1> DEFINE n == Cardinality(Tasks)
<1>1. n \in Nat /\ TradeCap \in Nat
  BY ExecutionAssumption, FS_CardinalityType, CapsAreNatural
<1>2. \A x, y \in Int, c \in Nat : x <= y => x * c <= y * c
  OBVIOUS
<1>3. (n - a) + 1 = n - (a - 1)
  BY <1>1
<1>4. \A x \in Int, c \in Nat : (x + 1) * c = x * c + c
  OBVIOUS
<1>5. 0 * TradeCap = 0
  BY <1>1
<1> HIDE DEF n
<1> QED BY <1>1, <1>2, <1>3, <1>4, <1>5 DEF Room, n

LEMMA ArmedIsFinite ==
    ASSUME NEW k
    PROVE  /\ IsFiniteSet(Armed(k)) /\ Cardinality(Armed(k)) \in Nat
           /\ Cardinality(Armed(k)) <= Cardinality(Tasks)
<1>1. Armed(k) \subseteq Tasks
  BY DEF Armed
<1> QED BY <1>1, ExecutionAssumption, FS_Subset, FS_CardinalityType

ExposureBound(k) == 100 * exposure[k] < Cap(k) + Room(Cardinality(Armed(k)))

LEMMA ExposureInvAsBound ==
    ExposureInv <=> /\ \A x \in Symbols : held[x] >= 0
                    /\ \A k \in SupportedKeys : ExposureBound(k)
BY DEF ExposureInv, ExposureBound, Room

\* A step that arms nobody new for k and leaves its sum no higher keeps the bound.
LEMMA BoundKept ==
    ASSUME Stable, Stable', NEW k \in SupportedKeys, ExposureBound(k),
           exposure'[k] <= exposure[k], Armed(k)' \subseteq Armed(k)
    PROVE  ExposureBound(k)'
<1>1. IsFiniteSet(Armed(k)) /\ Cardinality(Armed(k)) \in Nat
  BY ArmedIsFinite
<1>2. Cardinality(Armed(k)') \in Nat /\ Cardinality(Armed(k)') <= Cardinality(Armed(k))
  BY <1>1, FS_Subset, FS_CardinalityType
<1>3. Room(Cardinality(Armed(k))) <= Room(Cardinality(Armed(k)'))
      /\ Room(Cardinality(Armed(k))) \in Int /\ Room(Cardinality(Armed(k)')) \in Int
  BY <1>1, <1>2, RoomArithmetic
<1>4. exposure[k] \in Int /\ exposure'[k] \in Int /\ Cap(k) \in Int
  BY CapsAreNatural DEF Stable, TypeOK, SupportedKeys
<1>5. Room(Cardinality(Armed(k)))' = Room(Cardinality(Armed(k)'))
  BY DEF Room
<1> QED BY <1>3, <1>4, <1>5 DEF ExposureBound

\* A call that finds k below its limit may arm itself: no more calls are armed than exist.
LEMMA BoundWhenBelow ==
    ASSUME Stable, Stable', NEW k \in SupportedKeys, BelowLimit(k), exposure' = exposure
    PROVE  ExposureBound(k)'
<1>1. Armed(k)' \subseteq Tasks
  BY DEF Armed
<1>2. Cardinality(Armed(k)') \in Nat /\ Cardinality(Armed(k)') <= Cardinality(Tasks)
  BY <1>1, ExecutionAssumption, FS_Subset, FS_CardinalityType
<1>3. Room(Cardinality(Armed(k)')) >= 0 /\ Room(Cardinality(Armed(k)')) \in Int
  BY <1>2, RoomArithmetic
<1>4. exposure[k] \in Int /\ Cap(k) \in Int
  BY CapsAreNatural DEF Stable, TypeOK, SupportedKeys
<1>5. Room(Cardinality(Armed(k)))' = Room(Cardinality(Armed(k)'))
  BY DEF Room
<1> QED BY <1>3, <1>4, <1>5 DEF ExposureBound, BelowLimit

\* The fill of an armed call adds less than its share and disarms it.
LEMMA BoundWhenFilled ==
    ASSUME Stable, Stable', GateInv, NEW t \in Tasks, PlatformFills(t), req[t].action # "EXIT",
           NEW k \in SupportedKeys \cap KeysOf(req[t].symbol), ExposureBound(k)
    PROVE  ExposureBound(k)'
<1>1. k \in cleared[t] /\ "trade" \in cleared[t] /\ ~executed[t] /\ pc[t] = "placing"
  BY DEF PlatformFills, GateInv, Gated
<1>2. t \in Armed(k) /\ Armed(k)' = Armed(k) \ {t}
  BY <1>1 DEF Armed, PlatformFills, Stable, TypeOK
<1>3. IsFiniteSet(Armed(k)) /\ Cardinality(Armed(k)) \in Nat
  BY ArmedIsFinite
<1>4. Cardinality(Armed(k)') = Cardinality(Armed(k)) - 1
  BY <1>2, <1>3, FS_RemoveElement
<1>5. /\ Room(Cardinality(Armed(k)')) = Room(Cardinality(Armed(k))) + TradeCap
      /\ Room(Cardinality(Armed(k))) \in Int
  BY <1>3, <1>4, RoomArithmetic
<1>6. exposure'[k] = exposure[k] + Risk(t) /\ 100 * Risk(t) < TradeCap
  BY <1>1 DEF PlatformFills, GateInv, SupportedKeys
<1>7. exposure[k] \in Int /\ Cap(k) \in Int /\ TradeCap \in Int /\ Risk(t) \in Int
  BY CapsAreNatural, ExecutionAssumption DEF Stable, TypeOK, SupportedKeys, Risk, Distance, Request
<1>8. Room(Cardinality(Armed(k)))' = Room(Cardinality(Armed(k)'))
  BY DEF Room
<1> QED BY <1>5, <1>6, <1>7, <1>8 DEF ExposureBound

LEMMA ExposureStep == Stable /\ Stable' /\ GateInv /\ ExposureInv /\ [Next]_vars => ExposureInv'
<1> SUFFICES ASSUME Stable, Stable', GateInv, ExposureInv, [Next]_vars PROVE ExposureInv'
  OBVIOUS
<1>0. (\A x \in Symbols : held[x] >= 0) /\ (\A k \in SupportedKeys : ExposureBound(k))
  BY ExposureInvAsBound
\* Steps that touch neither the account nor the armed calls, or only disarm.
<1>1. ASSUME UNCHANGED <<exposure, held>>, \A k \in SupportedKeys : Armed(k)' \subseteq Armed(k)
      PROVE  ExposureInv'
  <2>1. ASSUME NEW k \in SupportedKeys PROVE ExposureBound(k)'
    <3>1. exposure'[k] <= exposure[k]
      BY <1>1 DEF Stable, TypeOK, SupportedKeys
    <3> QED BY <1>0, <1>1, <3>1, BoundKept
  <2> QED BY <1>0, <1>1, <2>1 DEF ExposureInv, ExposureBound, Room
<1> USE DEF service, platform, history
<1>2. CASE Operator
  BY <1>1, <1>2 DEF Operator, SetAdapter, Enable, Disable, ActivateKillSwitch, ResetKillSwitch, Armed
<1>3. ASSUME NEW t \in Tasks,
             \/ \E r \in Requests : Call(t, r)
             \/ CheckBalance(t) \/ CheckPosition(t) \/ CheckHeat(t) \/ CheckCampaign(t)
             \/ CheckCorrelated(t) \/ CheckRaises(t) \/ RefuseOrder(t)
      PROVE  ExposureInv'
  <2>1. UNCHANGED <<exposure, held>> /\ \A k : Armed(k)' \subseteq Armed(k)
    <3>1. CASE \E r \in Requests : Call(t, r)
      BY <3>1 DEF Call, Armed, Stable, TypeOK
    <3>2. CASE ~ \E r \in Requests : Call(t, r)
      BY <1>3, <3>2 DEF CheckBalance, CheckPosition, CheckHeat, CheckCampaign, CheckCorrelated,
                        CheckRaises, RefuseOrder, Check, UnchangedOrder, Armed
    <3> QED BY <3>1, <3>2
  <2> QED BY <1>1, <2>1
<1>4. ASSUME NEW t \in Tasks, CreateOrder(t) \/ Retry(t) PROVE ExposureInv'
  <2>1. \A k : Armed(k)' \subseteq Armed(k)
    BY <1>4 DEF CreateOrder, Retry, BeginAttempt, Armed, Stable, TypeOK
  <2> QED BY <1>1, <1>4, <2>1 DEF CreateOrder, Retry
\* A query arms the call for one key, and only when it is below its limit.
<1>5. ASSUME NEW t \in Tasks, NEW q, NEW b, cleared' \in [Tasks -> SUBSET (Keys \cup {"trade"})],
             UNCHANGED <<exposure, held, executed>>,
             \A u \in Tasks : cleared'[u] \subseteq cleared[u] \cup (IF b THEN {q} ELSE {}),
             b /\ q \in SupportedKeys => BelowLimit(q)
      PROVE  ExposureInv'
  <2>1. ASSUME NEW k \in SupportedKeys PROVE ExposureBound(k)'
    <3>1. CASE b /\ k = q
      BY <1>5, <3>1, BoundWhenBelow
    <3>2. CASE ~(b /\ k = q)
      <4>1. Armed(k)' \subseteq Armed(k)
        BY <1>5, <3>2 DEF Armed
      <4>2. exposure'[k] <= exposure[k]
        BY <1>5 DEF Stable, TypeOK, SupportedKeys
      <4> QED BY <1>0, <4>1, <4>2, BoundKept
    <3> QED BY <3>1, <3>2
  <2> QED BY <1>0, <1>5, <2>1 DEF ExposureInv, ExposureBound, Room
<1>6. ASSUME NEW t \in Tasks, GateHeat(t) PROVE ExposureInv'
  BY <1>5, <1>6 DEF GateHeat, Observe, Stable, TypeOK
<1>7. ASSUME NEW t \in Tasks, GateCampaign(t) \/ GateCorrelated(t) PROVE ExposureInv'
  <2>1. CASE GateCampaign(t)
    BY <1>5, <2>1 DEF GateCampaign, Observe, Stable, TypeOK
  <2>2. CASE GateCorrelated(t)
    BY <1>5, <2>2 DEF GateCorrelated, Observe, Stable, TypeOK
  <2> QED BY <1>7, <2>1, <2>2
<1>8. ASSUME NEW t \in Tasks, NEW readable \in BOOLEAN, GateBalance(t, readable) PROVE ExposureInv'
  <2>1. "trade" \notin SupportedKeys
    BY ExecutionAssumption DEF SupportedKeys
  <2> QED BY <1>5, <1>8, <2>1 DEF GateBalance, Observe, Stable, TypeOK
<1>9. ASSUME NEW t \in Tasks, Submit(t) PROVE ExposureInv'
  <2>1. \A k : Armed(k)' \subseteq Armed(k)
    BY <1>9 DEF Submit, Armed, Stable, TypeOK
  <2> QED BY <1>1, <1>9, <2>1 DEF Submit
<1>10. ASSUME NEW t \in Tasks, PlatformFills(t) PROVE ExposureInv'
  <2>1. req[t].symbol \in Symbols /\ Risk(t) \in Int /\ Risk(t) >= 0
    <3>1. /\ qty[t] \in Int /\ qty[t] >= 0 /\ Distance(req[t]) \in Int
          /\ Distance(req[t]) >= 0 /\ req[t].symbol \in Symbols
      BY ExecutionAssumption DEF Stable, TypeOK, StageInv, Distance, Request
    <3>2. \A m, n \in Int : m >= 0 /\ n >= 0 => m * n \in Int /\ m * n >= 0
      OBVIOUS
    <3> QED BY <3>1, <3>2 DEF Risk
  <2>2. \A x \in Symbols : held'[x] >= 0
    BY <1>0, <1>10, <2>1 DEF PlatformFills, Stable, TypeOK
  <2>3. ASSUME NEW k \in SupportedKeys PROVE ExposureBound(k)'
    <3>1. Armed(k)' \subseteq Armed(k)
      BY <1>10 DEF PlatformFills, Armed, Stable, TypeOK
    <3>2. CASE k \in KeysOf(req[t].symbol) /\ req[t].action # "EXIT"
      BY <1>0, <1>10, <3>2, BoundWhenFilled
    <3>3. CASE ~(k \in KeysOf(req[t].symbol) /\ req[t].action # "EXIT")
      <4>1. exposure'[k] <= exposure[k]
        BY <1>0, <1>10, <2>1, <3>3 DEF PlatformFills, Stable, TypeOK, SupportedKeys
      <4> QED BY <1>0, <3>1, <4>1, BoundKept
    <3> QED BY <3>2, <3>3
  <2> QED BY <2>2, <2>3 DEF ExposureInv, ExposureBound, Room
<1>11. ASSUME NEW t \in Tasks, PlaceSucceeds(t) PROVE ExposureInv'
  <2>1. \A k : Armed(k)' \subseteq Armed(k)
    BY <1>11 DEF PlaceSucceeds, Armed, Stable, TypeOK
  <2> QED BY <1>1, <1>11, <2>1 DEF PlaceSucceeds
<1>12. ASSUME NEW t \in Tasks, NEW b \in BOOLEAN, AttemptFails(t, b) \/ CancelReturns(t, b)
       PROVE  ExposureInv'
  <2>1. \A k : Armed(k)' \subseteq Armed(k)
    BY <1>12 DEF AttemptFails, MayRetry, CancelReturns, Armed, Stable, TypeOK
  <2> QED BY <1>1, <1>12, <2>1 DEF AttemptFails, MayRetry, CancelReturns
<1>13. CASE UNCHANGED vars
  BY <1>1, <1>13 DEF vars, Armed
<1> QED
  BY <1>2, <1>3, <1>4, <1>6, <1>7, <1>8, <1>9, <1>10, <1>11, <1>12, <1>13 DEF Next, Step

LEMMA ExposureInit == Init => ExposureInv
<1> SUFFICES ASSUME Init PROVE ExposureInv
  OBVIOUS
<1>1. ASSUME NEW k \in SupportedKeys PROVE ExposureBound(k)
  <2>1. Cardinality(Armed(k)) \in Nat /\ Cardinality(Armed(k)) <= Cardinality(Tasks)
    BY ArmedIsFinite
  <2>2. Room(Cardinality(Armed(k))) >= 0 /\ Room(Cardinality(Armed(k))) \in Int
    BY <2>1, RoomArithmetic
  <2>3. 100 * exposure[k] < Cap(k) /\ exposure[k] \in Int /\ Cap(k) \in Int
    BY ExecutionAssumption, CapsAreNatural DEF Init, SupportedKeys
  <2> QED BY <2>2, <2>3 DEF ExposureBound
<1>2. \A x \in Symbols : held[x] >= 0
  BY ExecutionAssumption DEF Init
<1> QED BY <1>1, <1>2, ExposureInvAsBound

\* Whatever the number of concurrent calls and however they interleave, a risk sum passes
\* its limit by less than one maximal trade per call.
THEOREM OvershootBoundedAlways == Spec => []OvershootBounded
<1>1. Stable /\ ExposureInv => OvershootBounded
  <2> SUFFICES ASSUME Stable, ExposureInv, NEW k \in SupportedKeys
               PROVE  100 * exposure[k] < Cap(k) + Cardinality(Tasks) * TradeCap
    BY DEF OvershootBounded
  <2>1. Cardinality(Armed(k)) \in Nat
    BY ArmedIsFinite
  <2>2. /\ Room(Cardinality(Armed(k))) <= Cardinality(Tasks) * TradeCap
        /\ Room(Cardinality(Armed(k))) \in Int
    BY <2>1, RoomArithmetic
  <2>3. exposure[k] \in Int /\ Cap(k) \in Int /\ Cardinality(Tasks) \in Int /\ TradeCap \in Int
    BY CapsAreNatural, ExecutionAssumption, FS_CardinalityType DEF Stable, TypeOK, SupportedKeys
  <2>4. ExposureBound(k)
    BY ExposureInvAsBound
  <2>5. \A m, n \in Int : m * n \in Int
    OBVIOUS
  <2> QED BY <2>2, <2>3, <2>4, <2>5 DEF ExposureBound
<1> QED
  BY <1>1, ExposureInit, ExposureStep, GateInit, GateStep, StableAlways, PTL DEF Spec

-----------------------------------------------------------------------------
(* The order and the report.  A step of one call moves its own order only. *)

LEMMA ReportInit == Init => ReportInv
BY DEF Init, ReportInv, OrderOf, FillOf, CheckStages, GateStages

\* The order of a call stays as it is.
Untouched(u) ==
    /\ UNCHANGED <<pc[u], st[u], executed[u], fills[u], lost[u], attempt[u]>>
    /\ u \in pending' <=> u \in pending

LEMMA UntouchedKept ==
    ASSUME NEW u \in Tasks, Untouched(u), OrderOf(u), FillOf(u)
    PROVE  OrderOf(u)' /\ FillOf(u)'
BY DEF Untouched, OrderOf, FillOf

LEMMA ReportStep == Stable /\ ReportInv /\ [Next]_vars => ReportInv'
<1> SUFFICES ASSUME Stable, ReportInv, [Next]_vars PROVE ReportInv'
  OBVIOUS
\* It is enough to look at the order of the call that moves.
<1>1. ASSUME NEW t \in Tasks, OrderOf(t)', FillOf(t)', \A u \in Tasks \ {t} : Untouched(u)
      PROVE  ReportInv'
  BY <1>1, UntouchedKept DEF ReportInv
<1>2. ASSUME \A u \in Tasks : Untouched(u) PROVE ReportInv'
  BY <1>2, UntouchedKept DEF ReportInv
<1>3. ASSUME NEW t \in Tasks
      PROVE  /\ executed[t] \in BOOLEAN /\ lost[t] \in BOOLEAN /\ fills[t] \in Nat /\ attempt[t] \in Nat
             /\ OrderOf(t) /\ FillOf(t)
  <2>1. attempt[t] \in 0..MaxRetries
    BY DEF Stable, TypeOK
  <2> QED BY <2>1, ExecutionAssumption DEF Stable, TypeOK, ReportInv
<1> USE DEF service, platform, history
<1>4. CASE Operator
  BY <1>2, <1>4 DEF Operator, SetAdapter, Enable, Disable, ActivateKillSwitch, ResetKillSwitch, Untouched
<1>5. CASE UNCHANGED vars
  BY <1>2, <1>5 DEF vars, Untouched
<1>6. ASSUME NEW t \in Tasks, NEW r \in Requests, Call(t, r) PROVE ReportInv'
  <2>1. /\ pc'[t] \in {"balance", "done"} /\ st'[t] = "NONE" /\ pending' = pending /\ t \notin pending
        /\ executed'[t] = FALSE /\ fills'[t] = 0 /\ attempt'[t] = 0
    BY <1>6 DEF Call, GoTo, Stable, TypeOK
  <2>2. OrderOf(t)' /\ FillOf(t)'
    BY <2>1 DEF OrderOf, FillOf, CheckStages, GateStages, Terminal
  <2>3. \A u \in Tasks \ {t} : Untouched(u)
    BY <1>6 DEF Call, GoTo, Stable, TypeOK, Untouched
  <2> QED BY <1>1, <2>2, <2>3
<1>7. ASSUME NEW t \in Tasks,
             \/ CheckBalance(t) \/ CheckPosition(t) \/ CheckHeat(t) \/ CheckCampaign(t)
             \/ CheckCorrelated(t) \/ CheckRaises(t) \/ RefuseOrder(t)
      PROVE  ReportInv'
  <2>1. /\ pc[t] \in CheckStages /\ pc'[t] \in CheckStages \cup {"done"}
        /\ \A u \in Tasks \ {t} : pc'[u] = pc[u]
        /\ UNCHANGED <<pending, st, attempt, executed, fills, lost>>
    BY <1>7 DEF CheckBalance, CheckPosition, CheckHeat, CheckCampaign, CheckCorrelated, CheckRaises,
                RefuseOrder, Check, GoTo, UnchangedOrder, CheckStages, Stable, TypeOK
  <2>2. st[t] = "NONE" /\ t \notin pending /\ ~executed[t]
    BY <1>3, <2>1 DEF OrderOf, FillOf, CheckStages
  <2>3. OrderOf(t)'
    BY <2>1, <2>2 DEF OrderOf, CheckStages, GateStages, Terminal
  <2>4. FillOf(t)'
    BY <1>3, <2>1, <2>2 DEF FillOf
  <2>5. \A u \in Tasks \ {t} : Untouched(u)
    BY <2>1 DEF Untouched
  <2> QED BY <1>1, <2>3, <2>4, <2>5
<1>8. ASSUME NEW t \in Tasks, CreateOrder(t) PROVE ReportInv'
  <2>1. /\ pc[t] = "create" /\ pc'[t] = (IF killActive THEN "done" ELSE "gateHeat")
        /\ st'[t] = (IF killActive THEN "CANCELLED" ELSE "PENDING") /\ t \in pending'
        /\ executed'[t] = FALSE /\ fills' = fills /\ lost' = lost /\ attempt'[t] = 0
    BY <1>8 DEF CreateOrder, BeginAttempt, GoTo, Stable, TypeOK
  <2>2. fills[t] = 0
    BY <2>1 DEF Stable, StageInv, CheckStages
  <2>3. OrderOf(t)'
    BY <2>1 DEF OrderOf, CheckStages, GateStages, Terminal
  <2>4. FillOf(t)'
    BY <2>1, <2>2 DEF FillOf
  <2>5. \A u \in Tasks \ {t} : Untouched(u)
    BY <1>8 DEF CreateOrder, BeginAttempt, GoTo, Stable, TypeOK, Untouched
  <2> QED BY <1>1, <2>3, <2>4, <2>5
<1>9. ASSUME NEW t \in Tasks,
             \/ GateHeat(t) \/ GateCampaign(t) \/ GateCorrelated(t)
             \/ \E readable \in BOOLEAN : GateBalance(t, readable)
      PROVE  ReportInv'
  <2>1. /\ pc[t] \in GateStages /\ pc'[t] \in GateStages
        /\ \A u \in Tasks \ {t} : pc'[u] = pc[u]
        /\ UNCHANGED <<pending, st, attempt, executed, fills, lost>>
    BY <1>9 DEF GateHeat, GateBalance, GateCampaign, GateCorrelated, Observe, GoTo, GateStages, Stable, TypeOK
  <2>2. st[t] \in {"PENDING", "SUBMITTED"} /\ t \in pending /\ ~executed[t]
    BY <1>3, <2>1 DEF OrderOf, FillOf, GateStages
  <2>3. OrderOf(t)'
    BY <2>1, <2>2 DEF OrderOf, CheckStages, GateStages
  <2>4. FillOf(t)'
    BY <1>3, <2>1, <2>2 DEF FillOf
  <2>5. \A u \in Tasks \ {t} : Untouched(u)
    BY <2>1 DEF Untouched
  <2> QED BY <1>1, <2>3, <2>4, <2>5
<1>10. ASSUME NEW t \in Tasks, Submit(t) PROVE ReportInv'
  <2>1. /\ pc[t] = "submit" /\ UNCHANGED <<pending, attempt, executed, fills, lost>>
        /\ \/ pc'[t] = "placing" /\ st'[t] = "SUBMITTED"
           \/ pc'[t] = "done" /\ st'[t] = "REJECTED"
    BY <1>10 DEF Submit, GoTo, Stable, TypeOK
  <2>2. t \in pending /\ ~executed[t]
    BY <1>3, <2>1 DEF OrderOf, FillOf, GateStages
  <2>3. OrderOf(t)'
    BY <2>1, <2>2 DEF OrderOf, CheckStages, GateStages, Terminal
  <2>4. FillOf(t)'
    BY <1>3, <2>1, <2>2 DEF FillOf
  <2>5. \A u \in Tasks \ {t} : Untouched(u)
    BY <1>10 DEF Submit, GoTo, Stable, TypeOK, Untouched
  <2> QED BY <1>1, <2>3, <2>4, <2>5
<1>11. ASSUME NEW t \in Tasks, PlatformFills(t) PROVE ReportInv'
  <2>1. /\ pc[t] = "placing" /\ ~executed[t] /\ executed'[t] /\ fills'[t] = fills[t] + 1
        /\ UNCHANGED <<pending, pc, st, attempt, lost>>
    BY <1>11 DEF PlatformFills, Stable, TypeOK
  <2>2. OrderOf(t)'
    BY <1>3, <2>1 DEF OrderOf
  <2>3. FillOf(t)'
    BY <1>3, <2>1 DEF FillOf
  <2>4. \A u \in Tasks \ {t} : Untouched(u)
    BY <1>11 DEF PlatformFills, Stable, TypeOK, Untouched
  <2> QED BY <1>1, <2>2, <2>3, <2>4
<1>12. ASSUME NEW t \in Tasks, PlaceSucceeds(t) PROVE ReportInv'
  <2>1. /\ pc[t] = "placing" /\ executed[t] /\ pc'[t] = "done" /\ st'[t] = "FILLED"
        /\ pending' = pending \ {t} /\ UNCHANGED <<attempt, executed, fills, lost>>
    BY <1>12 DEF PlaceSucceeds, GoTo, Stable, TypeOK
  <2>2. OrderOf(t)'
    BY <2>1 DEF OrderOf, CheckStages, GateStages, Terminal
  <2>3. FillOf(t)'
    BY <1>3, <2>1 DEF FillOf
  <2>4. \A u \in Tasks \ {t} : Untouched(u)
    BY <1>12 DEF PlaceSucceeds, GoTo, Stable, TypeOK, Untouched
  <2> QED BY <1>1, <2>2, <2>3, <2>4
<1>13. ASSUME NEW t \in Tasks, NEW retryable \in BOOLEAN, AttemptFails(t, retryable) PROVE ReportInv'
  <2>1. /\ pc[t] \in GateStages \cup {"placing"} /\ UNCHANGED <<attempt, executed, fills>>
        /\ lost'[t] = (lost[t] \/ executed[t])
        /\ \/ pc'[t] = "sleeping" /\ st'[t] = st[t] /\ pending' = pending
           \/ pc'[t] = "cancelling" /\ st'[t] = "FAILED" /\ pending' = pending
           \/ pc'[t] = "done" /\ st'[t] = "FAILED" /\ pending' = pending \ {t}
    BY <1>13 DEF AttemptFails, GoTo, GateStages, Stable, TypeOK
  <2>2. st[t] \in {"PENDING", "SUBMITTED"} /\ t \in pending
    BY <1>3, <2>1 DEF OrderOf
  <2>3. OrderOf(t)'
    BY <2>1, <2>2 DEF OrderOf, CheckStages, GateStages, Terminal
  <2>4. FillOf(t)'
    BY <1>3, <2>1, <2>2 DEF FillOf
  <2>5. \A u \in Tasks \ {t} : Untouched(u)
    BY <1>13 DEF AttemptFails, GoTo, Stable, TypeOK, Untouched
  <2> QED BY <1>1, <2>3, <2>4, <2>5
<1>14. ASSUME NEW t \in Tasks, Retry(t) PROVE ReportInv'
  <2>1. /\ pc[t] = "sleeping" /\ UNCHANGED <<pending, fills, lost>> /\ executed'[t] = FALSE
        /\ attempt'[t] = attempt[t] + 1
        /\ pc'[t] = (IF killActive THEN "done" ELSE "gateHeat")
        /\ st'[t] = (IF killActive THEN "CANCELLED" ELSE st[t])
    BY <1>14 DEF Retry, BeginAttempt, GoTo, Stable, TypeOK
  <2>2. st[t] \in {"PENDING", "SUBMITTED"} /\ t \in pending
    BY <1>3, <2>1 DEF OrderOf
  <2>3. OrderOf(t)'
    BY <2>1, <2>2 DEF OrderOf, CheckStages, GateStages, Terminal
  <2>4. FillOf(t)'
    <3>1. ~lost[t] => fills[t] = 0
      BY <1>3, <2>1, <2>2 DEF FillOf
    <3>2. fills[t] <= attempt[t] + 1
      BY <1>3 DEF FillOf
    <3> QED BY <1>3, <2>1, <2>2, <3>1, <3>2 DEF FillOf
  <2>5. \A u \in Tasks \ {t} : Untouched(u)
    BY <1>14 DEF Retry, BeginAttempt, GoTo, Stable, TypeOK, Untouched
  <2> QED BY <1>1, <2>3, <2>4, <2>5
<1>15. ASSUME NEW t \in Tasks, NEW raises \in BOOLEAN, CancelReturns(t, raises) PROVE ReportInv'
  <2>1. /\ pc[t] = "cancelling" /\ pc'[t] = "done" /\ st'[t] \in {st[t], "CANCELLED"}
        /\ pending' = pending \ {t} /\ UNCHANGED <<attempt, executed, fills, lost>>
    BY <1>15 DEF CancelReturns, GoTo, Stable, TypeOK
  <2>2. st[t] = "FAILED"
    BY <1>3, <2>1 DEF OrderOf
  <2>3. OrderOf(t)'
    BY <2>1, <2>2 DEF OrderOf, CheckStages, GateStages, Terminal
  <2>4. FillOf(t)'
    BY <1>3, <2>1, <2>2 DEF FillOf
  <2>5. \A u \in Tasks \ {t} : Untouched(u)
    BY <1>15 DEF CancelReturns, GoTo, Stable, TypeOK, Untouched
  <2> QED BY <1>1, <2>3, <2>4, <2>5
<1> QED
  BY <1>4, <1>5, <1>6, <1>7, <1>8, <1>9, <1>10, <1>11, <1>12, <1>13, <1>14, <1>15 DEF Next, Step

LEMMA ReportAlways == Spec => [](Stable /\ ReportInv)
BY ReportInit, ReportStep, StableAlways, PTL DEF Spec

\* get_pending_orders misses no order that may still reach the platform, and lists no finished
\* order but those the gate or the kill switch stopped, for any number of concurrent calls.
THEOREM LiveOrdersTrackedAlways == Spec => []LiveOrdersTracked
<1>1. Stable /\ ReportInv => LiveOrdersTracked
  <2> SUFFICES ASSUME Stable, ReportInv, NEW t \in Tasks
               PROVE  /\ st[t] \in {"PENDING", "SUBMITTED"} \/ pc[t] = "cancelling" => t \in pending
                      /\ t \in pending /\ pc[t] = "done" => st[t] \in {"CANCELLED", "REJECTED"}
    BY DEF LiveOrdersTracked
  <2>1. pc[t] \in Stages /\ OrderOf(t)
    BY DEF Stable, TypeOK, ReportInv
  <2> QED BY <2>1 DEF OrderOf, Stages, Terminal
<1> QED BY <1>1, ReportAlways, PTL

\* A report disagrees with the platform, or an order is executed twice, only after a lost answer.
THEOREM ReportsAlwaysMatchPlatform == Spec => []ReportsMatchPlatform
<1>1. Stable /\ ReportInv => ReportsMatchPlatform
  <2> SUFFICES ASSUME Stable, ReportInv, NEW t \in Tasks
               PROVE  /\ st[t] = "FILLED" => fills[t] > 0
                      /\ fills[t] > 0 /\ st[t] \in {"CANCELLED", "REJECTED", "FAILED"} => lost[t]
                      /\ fills[t] > 1 => lost[t]
                      /\ fills[t] <= attempt[t] + 1
    BY DEF ReportsMatchPlatform
  <2>1. /\ executed[t] \in BOOLEAN /\ lost[t] \in BOOLEAN /\ fills[t] \in Nat
        /\ attempt[t] \in 0..MaxRetries /\ OrderOf(t) /\ FillOf(t)
    BY DEF Stable, TypeOK, ReportInv
  <2>2. attempt[t] \in Nat
    BY <2>1, ExecutionAssumption
  <2>3. pc[t] = "placing" => st[t] = "SUBMITTED"
    BY <2>1 DEF OrderOf
  <2> QED BY <2>1, <2>2, <2>3 DEF FillOf
<1> QED BY <1>1, ReportAlways, PTL

=============================================================================
