------------------------- MODULE AutomatedExecution -------------------------
(***************************************************************************)
(* AutomatedExecutionService (trading/automated_execution_service.py):     *)
(* coroutines that run execute_signal concurrently on one event loop, the  *)
(* operator's calls on the service, and the trading platform behind the    *)
(* adapter.                                                                *)
(*                                                                         *)
(* A coroutine gives up the event loop only at an await, so an action is   *)
(* the code between two awaits.  The platform computes the answer to a     *)
(* query some time before the coroutine resumes with it.  A resumption     *)
(* that only issues the next query shows nobody anything, so the action of *)
(* a query is the platform's reading; what follows the last query of a     *)
(* stage (the order's creation, the submission) is an action of its own,   *)
(* later, with the older readings.                                         *)
(*                                                                         *)
(* A task is a slot for one execute_signal call at a time; a slot whose    *)
(* last order is still listed as pending is not used again.                *)
(*                                                                         *)
(* Money is in integer units.  A percentage p of the balance is compared   *)
(* by cross-multiplication: amount/Balance*100 >= p is                     *)
(* 100*amount >= p*Balance.                                                *)
(***************************************************************************)
EXTENDS Integers, FiniteSets

CONSTANTS
    Tasks,            \* slots: at most this many execute_signal calls run at once
    Symbols,
    Campaigns,
    Groups,           \* correlation groups, as the platform computes them
    CampaignOf,       \* the campaign a symbol is traded in
    GroupOf,          \* the correlation group of a symbol
    Requests,         \* the arguments a caller may pass
    EnabledModes,     \* what the operator enables: the code treats PAPER and LIVE alike
    NoBalance,        \* account_balance=None: the service fetches it
    Balance,          \* the balance the platform reports
    Exposure0,        \* open risk on the account at the start, per risk key
    Held0,            \* open risk per symbol at the start (0: no position)
    TradeLimit, CampaignLimit, CorrelatedLimit, HeatLimit,   \* percentages
    ValueLimit,       \* max_position_value_pct
    MaxSize,          \* max_position_size
    MaxRetries,
    CancelOnTimeout,  \* config.cancel_on_timeout
    Required,         \* the require_*_check settings that are on
    Supported         \* risk queries the adapter implements

VARIABLES
    mode, killActive, adapterSet, pending,               \* the service
    pc, req, qty, st, attempt, cleared, executed,        \* each call
    exposure, held,                                      \* the platform
    fills, sentSinceKill, lost                           \* history

service == <<mode, killActive, adapterSet>>
platform == <<exposure, held>>
history == <<fills, sentSinceKill, lost>>
vars == <<mode, killActive, adapterSet, pending, pc, req, qty, st, attempt,
          cleared, executed, exposure, held, fills, sentSinceKill, lost>>

-----------------------------------------------------------------------------
(* The risk keys.  "trade" is the order's own risk; the others are sums    *)
(* the platform keeps.                                                     *)

Keys == {"portfolio"} \cup Campaigns \cup Groups

KeysOf(x) == {"portfolio", CampaignOf[x], GroupOf[x]}

Limit(k) == IF k = "portfolio" THEN HeatLimit
            ELSE IF k \in Campaigns THEN CampaignLimit ELSE CorrelatedLimit

\* The adapter call that reports key k.
Query(k) == IF k = "portfolio" THEN "heat"
            ELSE IF k \in Campaigns THEN "campaign" ELSE "correlated"

SupportedKeys == {k \in Keys : Query(k) \in Supported}

Modes == {"DISABLED", "PAPER", "LIVE"}
Actions == {"ENTRY", "ADD", "EXIT", "NONE"}
OrderStates == {"NONE", "PENDING", "SUBMITTED", "FILLED", "CANCELLED", "REJECTED", "FAILED"}
Terminal == {"FILLED", "CANCELLED", "REJECTED", "FAILED"}

\* The safety checks of _run_safety_checks, then the stages of one attempt.
CheckStages == {"balance", "position", "heat", "campaign", "correlated", "create"}
GateStages == {"gateHeat", "gateBalance", "gateCampaign", "gateCorrelated", "submit"}
Stages == {"idle", "done", "placing", "sleeping", "cancelling"} \cup CheckStages \cup GateStages

Request == [action : Actions, symbol : Symbols, entry : Int, stop : Int,
            direction : {"LONG", "SHORT"}, balance : Int \cup {NoBalance}]

\* One risk amount per task is at most the 2% of the balance the gate lets pass.
TradeCap == TradeLimit * Balance
Cap(k) == Limit(k) * Balance

ASSUME ExecutionAssumption ==
    /\ IsFiniteSet(Tasks)
    /\ Balance \in Nat \ {0}
    /\ TradeLimit \in Nat /\ CampaignLimit \in Nat /\ CorrelatedLimit \in Nat
    /\ HeatLimit \in Nat /\ ValueLimit \in Nat /\ MaxSize \in Nat /\ MaxRetries \in Nat
    /\ Requests \subseteq Request /\ Requests # {} /\ EnabledModes \subseteq {"PAPER", "LIVE"}
    /\ CampaignOf \in [Symbols -> Campaigns] /\ GroupOf \in [Symbols -> Groups]
    /\ "trade" \notin Keys
    /\ Held0 \in [Symbols -> Nat]
    /\ Exposure0 \in [Keys -> Int]
    /\ \A k \in Keys : 100 * Exposure0[k] < Cap(k)

-----------------------------------------------------------------------------
(* Sizing and validation.                                                  *)

Distance(r) == IF r.entry > r.stop THEN r.entry - r.stop ELSE r.stop - r.entry

Least(a, b) == IF a < b THEN a ELSE b

\* The 2% rule, capped by size and by value, rounded down to whole shares.
PositionSize(r, bal) ==
    Least((bal * TradeLimit) \div (100 * Distance(r)),
          Least(MaxSize, (bal * ValueLimit) \div (100 * r.entry)))

ValidPrices(r) ==
    /\ r.entry > 0
    /\ r.stop > 0
    /\ IF r.direction = "LONG" THEN r.stop < r.entry ELSE r.stop > r.entry

ValidOrder(q) == q > 0 /\ q <= MaxSize

\* What the order puts at risk.
Risk(t) == qty[t] * Distance(req[t])

\* The balance the call sizes with: the caller's, however old, or the platform's.
SizingBalance(r) == IF r.balance = NoBalance THEN Balance ELSE r.balance

IsEnabled == mode # "DISABLED" /\ ~killActive

BelowLimit(k) == 100 * exposure[k] < Cap(k)

-----------------------------------------------------------------------------
Init ==
    /\ mode = "DISABLED" /\ killActive = FALSE /\ adapterSet = FALSE
    /\ pending = {}
    /\ pc = [t \in Tasks |-> "idle"]
    /\ req = [t \in Tasks |-> CHOOSE r \in Requests : TRUE]      \* read only after a Call
    /\ qty = [t \in Tasks |-> 0]
    /\ st = [t \in Tasks |-> "NONE"]
    /\ attempt = [t \in Tasks |-> 0]
    /\ cleared = [t \in Tasks |-> {}]
    /\ executed = [t \in Tasks |-> FALSE]
    /\ exposure = Exposure0 /\ held = Held0
    /\ fills = [t \in Tasks |-> 0]
    /\ sentSinceKill = [t \in Tasks |-> 0]
    /\ lost = [t \in Tasks |-> FALSE]

(* The operator's calls.  They are synchronous, so each is one step. *)

SetAdapter ==
    /\ adapterSet' = TRUE
    /\ UNCHANGED <<mode, killActive, pending, pc, req, qty, st, attempt, cleared,
                   executed, platform, history>>

Enable(m) ==
    /\ ~killActive
    /\ mode' = m
    /\ UNCHANGED <<killActive, adapterSet, pending, pc, req, qty, st, attempt, cleared,
                   executed, platform, history>>

Disable ==
    /\ mode' = "DISABLED"
    /\ UNCHANGED <<killActive, adapterSet, pending, pc, req, qty, st, attempt, cleared,
                   executed, platform, history>>

ActivateKillSwitch ==
    /\ killActive' = TRUE
    /\ mode' = "DISABLED"
    /\ UNCHANGED <<adapterSet, pending, pc, req, qty, st, attempt, cleared,
                   executed, platform, history>>

ResetKillSwitch ==
    /\ killActive' = FALSE
    /\ sentSinceKill' = [t \in Tasks |-> 0]
    /\ UNCHANGED <<mode, adapterSet, pending, pc, req, qty, st, attempt, cleared,
                   executed, platform, fills, lost>>

-----------------------------------------------------------------------------
(* execute_signal up to the creation of the order.  A failed check raises  *)
(* SafetyCheckError and leaves no order behind.                            *)

GoTo(t, stage) == pc' = [pc EXCEPT ![t] = stage]

UnchangedOrder == UNCHANGED <<pending, qty, st, attempt, cleared, executed>>

\* A call begins, or is refused before its first check.
Call(t, r) ==
    /\ pc[t] \in {"idle", "done"} /\ t \notin pending
    /\ req' = [req EXCEPT ![t] = r]
    /\ GoTo(t, IF IsEnabled /\ adapterSet /\ r.action # "NONE" THEN "balance" ELSE "done")
    /\ qty' = [qty EXCEPT ![t] = 0]
    /\ st' = [st EXCEPT ![t] = "NONE"]
    /\ attempt' = [attempt EXCEPT ![t] = 0]
    /\ cleared' = [cleared EXCEPT ![t] = {}]
    /\ executed' = [executed EXCEPT ![t] = FALSE]
    /\ fills' = [fills EXCEPT ![t] = 0]
    /\ lost' = [lost EXCEPT ![t] = FALSE]
    /\ UNCHANGED <<service, pending, platform, sentSinceKill>>

Check(t, stage, passes, next) ==
    /\ pc[t] = stage
    /\ GoTo(t, IF passes THEN next ELSE "done")
    /\ UnchangedOrder /\ UNCHANGED <<service, req, platform, history>>

\* A risk query of the safety checks: skipped when it is switched off or unsupported.
RiskCheckPasses(q, k) == q \in Required \cap Supported => BelowLimit(k)

CheckBalance(t) ==
    Check(t, "balance", "balance" \in Required => SizingBalance(req[t]) > 0, "position")

CheckPosition(t) ==
    Check(t, "position",
          /\ "position" \in Required /\ req[t].action \in {"ADD", "EXIT"} => held[req[t].symbol] > 0
          /\ ValidPrices(req[t]),
          "heat")

CheckHeat(t) == Check(t, "heat", RiskCheckPasses("heat", "portfolio"), "campaign")

CheckCampaign(t) ==
    Check(t, "campaign", RiskCheckPasses("campaign", CampaignOf[req[t].symbol]), "correlated")

CheckCorrelated(t) ==
    Check(t, "correlated", RiskCheckPasses("correlated", GroupOf[req[t].symbol]), "create")

\* An adapter call of the checks raises: execute_signal raises with it.
CheckRaises(t) ==
    /\ \/ pc[t] = "balance" /\ req[t].balance = NoBalance
       \/ pc[t] = "position" /\ "position" \in Required /\ req[t].action \in {"ADD", "EXIT"}
       \/ pc[t] \in {"heat", "campaign", "correlated"} \cap Required \cap Supported
    /\ GoTo(t, "done")
    /\ UnchangedOrder /\ UNCHANGED <<service, req, platform, history>>

\* Mutant: the kill switch is not read before an attempt.
BeginAttemptUnchecked(t, n) ==
    /\ attempt' = [attempt EXCEPT ![t] = n]
    /\ cleared' = [cleared EXCEPT ![t] = {}]
    /\ executed' = [executed EXCEPT ![t] = FALSE]
    /\ GoTo(t, "gateHeat")

\* The head of one iteration of the retry loop: the kill switch is read here only.
BeginAttempt(t, n) ==
    /\ attempt' = [attempt EXCEPT ![t] = n]
    /\ cleared' = [cleared EXCEPT ![t] = {}]
    /\ executed' = [executed EXCEPT ![t] = FALSE]
    /\ GoTo(t, IF killActive THEN "done" ELSE "gateHeat")

\* The checks have passed: sizing, the order's creation and the first attempt in one step.
CreateOrder(t) ==
    LET q == PositionSize(req[t], SizingBalance(req[t])) IN
    /\ pc[t] = "create"
    /\ ValidOrder(q)
    /\ qty' = [qty EXCEPT ![t] = q]
    /\ pending' = pending \cup {t}
    /\ st' = [st EXCEPT ![t] = IF killActive THEN "CANCELLED" ELSE "PENDING"]
    /\ BeginAttempt(t, 0)
    /\ UNCHANGED <<service, req, platform, history>>

\* The order fails its own validation.
RefuseOrder(t) ==
    /\ ~ValidOrder(PositionSize(req[t], SizingBalance(req[t])))
    /\ Check(t, "create", FALSE, "done")

-----------------------------------------------------------------------------
(* _execute_with_retry: the risk gate of one attempt, and place_order.     *)

\* The adapter reports key k, and the gate will find it below its limit.
Observe(t, stage, k, passes, next) ==
    /\ pc[t] = stage
    /\ cleared' = [cleared EXCEPT ![t] = IF passes THEN @ \cup {k} ELSE @]
    /\ GoTo(t, next)
    /\ UNCHANGED <<service, pending, req, qty, st, attempt, executed, platform, history>>

\* An unsupported heat query counts as 100%: never below the limit.
GateHeat(t) ==
    Observe(t, "gateHeat", "portfolio", "heat" \in Supported /\ BelowLimit("portfolio"), "gateBalance")

\* Mutant: a trade whose risk can be computed passes.
GateBalanceUnchecked(t, readable) ==
    Observe(t, "gateBalance", "trade", readable, "gateCampaign")

\* An unreadable balance makes the trade's own risk 100%.
GateBalance(t, readable) ==
    Observe(t, "gateBalance", "trade", readable /\ 100 * Risk(t) < TradeCap, "gateCampaign")

GateCampaign(t) ==
    LET c == CampaignOf[req[t].symbol] IN
    Observe(t, "gateCampaign", c, "campaign" \in Supported /\ BelowLimit(c), "gateCorrelated")

\* Mutant: the gate looks at the trade's own risk only.
GatedTradeOnly(t) == {"trade"}

\* What check_risk_values must find below its limit; an unsupported query is not checked.
Gated(t) == {"trade", "portfolio"} \cup (KeysOf(req[t].symbol) \cap SupportedKeys)

GateCorrelated(t) ==
    LET g == GroupOf[req[t].symbol] IN
    Observe(t, "gateCorrelated", g, "correlated" \in Supported /\ BelowLimit(g), "submit")

\* check_risk_values on what was read, then place_order is sent or the order rejected.
Submit(t) ==
    LET passes == Gated(t) \subseteq cleared[t] IN
    /\ pc[t] = "submit"
    /\ cleared' = [cleared EXCEPT ![t] = IF passes THEN @ ELSE {}]
    /\ st' = [st EXCEPT ![t] = IF passes THEN "SUBMITTED" ELSE "REJECTED"]
    /\ GoTo(t, IF passes THEN "placing" ELSE "done")
    /\ sentSinceKill' = IF passes /\ killActive
                        THEN [sentSinceKill EXCEPT ![t] = @ + 1] ELSE sentSinceKill
    /\ UNCHANGED <<service, pending, req, qty, attempt, executed, platform, fills, lost>>

\* The platform executes the order of an outstanding place_order: ENTRY and ADD add its
\* risk to every key of the symbol, EXIT closes the symbol's position.
PlatformFills(t) ==
    LET x == req[t].symbol
        change == IF req[t].action = "EXIT" THEN 0 - held[x] ELSE Risk(t)
    IN /\ pc[t] = "placing" /\ ~executed[t]
       /\ executed' = [executed EXCEPT ![t] = TRUE]
       /\ fills' = [fills EXCEPT ![t] = @ + 1]
       /\ held' = [held EXCEPT ![x] = @ + change]
       /\ exposure' = [k \in Keys |-> IF k \in KeysOf(x) THEN exposure[k] + change ELSE exposure[k]]
       /\ UNCHANGED <<service, pending, pc, req, qty, st, attempt, cleared, sentSinceKill, lost>>

\* Mutant: the order counts as filled once it is submitted.
PlaceSucceedsUnconfirmed(t) ==
    /\ pc[t] = "placing"
    /\ st' = [st EXCEPT ![t] = "FILLED"]
    /\ pending' = pending \ {t}
    /\ cleared' = [cleared EXCEPT ![t] = {}]
    /\ GoTo(t, "done")
    /\ UNCHANGED <<service, req, qty, attempt, executed, platform, history>>

PlaceSucceeds(t) ==
    /\ pc[t] = "placing" /\ executed[t]
    /\ st' = [st EXCEPT ![t] = "FILLED"]
    /\ pending' = pending \ {t}
    /\ cleared' = [cleared EXCEPT ![t] = {}]
    /\ GoTo(t, "done")
    /\ UNCHANGED <<service, req, qty, attempt, executed, platform, history>>

\* Mutant: one attempt too many.
MayRetryPastMax(t) == attempt[t] <= MaxRetries

\* An attempt is left in range(max_retries + 1).
MayRetry(t) == attempt[t] < MaxRetries

\* An attempt fails: a risk query raises, place_order reports failure, or its answer is
\* lost (a timeout), whether or not the platform executed the order.
AttemptFails(t, retryable) ==
    /\ \/ pc[t] = "placing"
       \/ pc[t] = "gateHeat" /\ "heat" \in Supported
       \/ pc[t] = "gateCampaign" /\ "campaign" \in Supported
       \/ pc[t] = "gateCorrelated" /\ "correlated" \in Supported
    /\ cleared' = [cleared EXCEPT ![t] = {}]
    /\ lost' = [lost EXCEPT ![t] = @ \/ executed[t]]
    /\ IF retryable /\ MayRetry(t)
       THEN /\ GoTo(t, "sleeping")
            /\ UNCHANGED <<pending, st>>
       ELSE /\ st' = [st EXCEPT ![t] = "FAILED"]
            /\ GoTo(t, IF CancelOnTimeout THEN "cancelling" ELSE "done")
            /\ pending' = IF CancelOnTimeout THEN pending ELSE pending \ {t}
    /\ UNCHANGED <<service, req, qty, attempt, executed, platform, fills, sentSinceKill>>

\* Mutant: the next attempt is not counted.
RetryUncounted(t) ==
    /\ pc[t] = "sleeping"
    /\ BeginAttempt(t, attempt[t])
    /\ st' = [st EXCEPT ![t] = IF killActive THEN "CANCELLED" ELSE @]
    /\ UNCHANGED <<service, pending, req, qty, platform, history>>

\* The retry delay ends: the next attempt, unless the kill switch is active.
Retry(t) ==
    /\ pc[t] = "sleeping"
    /\ BeginAttempt(t, attempt[t] + 1)
    /\ st' = [st EXCEPT ![t] = IF killActive THEN "CANCELLED" ELSE @]
    /\ UNCHANGED <<service, pending, req, qty, platform, history>>

\* Mutant: a cancellation that raises leaves the order listed.
CancelReturnsLeaky(t, raises) ==
    /\ pc[t] = "cancelling"
    /\ st' = [st EXCEPT ![t] = IF raises THEN @ ELSE "CANCELLED"]
    /\ pending' = IF raises THEN pending ELSE pending \ {t}
    /\ GoTo(t, "done")
    /\ UNCHANGED <<service, req, qty, attempt, cleared, executed, platform, history>>

\* cancel_order answers, whatever it answers, or raises.
CancelReturns(t, raises) ==
    /\ pc[t] = "cancelling"
    /\ st' = [st EXCEPT ![t] = IF raises THEN @ ELSE "CANCELLED"]
    /\ pending' = pending \ {t}
    /\ GoTo(t, "done")
    /\ UNCHANGED <<service, req, qty, attempt, cleared, executed, platform, history>>

-----------------------------------------------------------------------------
\* What a call does once it has begun, the platform's part included.
Step(t) ==
    \/ CheckBalance(t) \/ CheckPosition(t) \/ CheckHeat(t) \/ CheckCampaign(t)
    \/ CheckCorrelated(t) \/ CheckRaises(t)
    \/ CreateOrder(t) \/ RefuseOrder(t)
    \/ GateHeat(t) \/ GateCampaign(t) \/ GateCorrelated(t) \/ Submit(t)
    \/ \E readable \in BOOLEAN : GateBalance(t, readable)
    \/ PlatformFills(t) \/ PlaceSucceeds(t)
    \/ \E retryable \in BOOLEAN : AttemptFails(t, retryable)
    \/ Retry(t)
    \/ \E raises \in BOOLEAN : CancelReturns(t, raises)

Operator ==
    \/ SetAdapter \/ Disable \/ ActivateKillSwitch \/ ResetKillSwitch
    \/ \E m \in EnabledModes : Enable(m)

Next ==
    \/ Operator
    \/ \E t \in Tasks : Step(t) \/ \E r \in Requests : Call(t, r)

Spec == Init /\ [][Next]_vars

\* The event loop resumes every coroutine whose await has an answer, and the adapter answers.
FairSpec == Spec /\ \A t \in Tasks : WF_vars(Step(t))

-----------------------------------------------------------------------------
(* Properties.                                                             *)

\* The service's and the platform's state have their types.
TypeOK ==
    /\ mode \in Modes /\ killActive \in BOOLEAN /\ adapterSet \in BOOLEAN
    /\ pending \subseteq Tasks
    /\ pc \in [Tasks -> Stages] /\ req \in [Tasks -> Requests]
    /\ qty \in [Tasks -> Int] /\ st \in [Tasks -> OrderStates]
    /\ attempt \in [Tasks -> 0..MaxRetries]
    /\ cleared \in [Tasks -> SUBSET (Keys \cup {"trade"})]
    /\ executed \in [Tasks -> BOOLEAN]
    /\ exposure \in [Keys -> Int] /\ held \in [Symbols -> Int]
    /\ fills \in [Tasks -> Nat] /\ sentSinceKill \in [Tasks -> Nat]
    /\ lost \in [Tasks -> BOOLEAN]

\* Once the kill switch is active a call sends at most one more place_order: the attempt it
\* was in the middle of.  Retries stop and no new order goes out (the check at the head of
\* every attempt in _execute_with_retry).
KillSwitchStopsRetries == \A t \in Tasks : sentSinceKill[t] <= 1

\* However the calls interleave, no risk sum passes its limit by more than one trade per
\* concurrent call: the gate reads the current sum, so the calls that read it before the
\* first of them fills are the only ones that overshoot (check_risk_values).
OvershootBounded ==
    \A k \in SupportedKeys : 100 * exposure[k] < Cap(k) + Cardinality(Tasks) * TradeCap

\* An order that reaches the platform risks less than 2% of the platform's own balance,
\* however old the balance it was sized with (the gate recomputes the trade's risk).
PlacedRiskBounded ==
    \A t \in Tasks : pc[t] = "placing" \/ fills[t] > 0 => 100 * Risk(t) < TradeCap

\* get_pending_orders misses no order that may still reach the platform, and the only
\* finished orders it lists were stopped by the gate or the kill switch.
LiveOrdersTracked ==
    \A t \in Tasks :
        /\ st[t] \in {"PENDING", "SUBMITTED"} \/ pc[t] = "cancelling" => t \in pending
        /\ t \in pending /\ pc[t] = "done" => st[t] \in {"CANCELLED", "REJECTED"}

\* A report that disagrees with the platform, or an order executed twice, comes from a lost
\* answer and from nothing else: the retry loop never resends an order that was confirmed.
ReportsMatchPlatform ==
    \A t \in Tasks :
        /\ st[t] = "FILLED" => fills[t] > 0
        /\ fills[t] > 0 /\ st[t] \in {"CANCELLED", "REJECTED", "FAILED"} => lost[t]
        /\ fills[t] > 1 => lost[t]
        /\ fills[t] <= attempt[t] + 1

\* Every call that has begun returns, if the adapter answers: the retry loop is bounded.
CallsReturn == \A t \in Tasks : pc[t] # "idle" ~> pc[t] = "done"

\* The promise of activate_kill_switch: no order is sent while the kill switch is active.
NothingSentUnderKillSwitch ==
    [][\A t \in Tasks : pc[t] # "placing" /\ pc'[t] = "placing" => ~killActive]_vars

\* The promise of the class: portfolio heat stays below its limit.
HeatWithinLimit == 100 * exposure["portfolio"] <= Cap("portfolio")

-----------------------------------------------------------------------------
(* What the properties rest on (inductive together with TypeOK).           *)

\* Where a call stands fixes what it has done so far.
StageInv ==
    \A t \in Tasks :
        /\ pc[t] \in {"idle"} \cup CheckStages => fills[t] = 0
        /\ pc[t] \in {"heat", "campaign", "correlated", "create"} => ValidPrices(req[t])
        /\ pc[t] = "sleeping" => attempt[t] < MaxRetries
        /\ qty[t] >= 0

\* Where a call stands fixes the state of its order and whether it is listed.
OrderOf(t) ==
    /\ pc[t] \in {"idle"} \cup CheckStages => st[t] = "NONE" /\ t \notin pending
    /\ pc[t] \in GateStages \cup {"sleeping"} => st[t] \in {"PENDING", "SUBMITTED"} /\ t \in pending
    /\ pc[t] = "placing" => st[t] = "SUBMITTED" /\ t \in pending
    /\ pc[t] = "cancelling" => st[t] = "FAILED" /\ t \in pending
    /\ pc[t] = "done" => /\ st[t] \in Terminal \cup {"NONE"}
                         /\ t \in pending => st[t] \in {"CANCELLED", "REJECTED"}

\* Every execution but that of the current attempt is one whose answer was lost.
FillOf(t) ==
    /\ executed[t] => fills[t] > 0 /\ pc[t] \in {"placing", "sleeping", "cancelling", "done"}
    /\ st[t] = "FILLED" => executed[t]
    /\ ~lost[t] => fills[t] = IF executed[t] THEN 1 ELSE 0
    /\ executed[t] /\ ~lost[t] => pc[t] = "placing" \/ st[t] = "FILLED"
    /\ fills[t] <= attempt[t] + (IF executed[t] THEN 1 ELSE 0)

ReportInv == \A t \in Tasks : OrderOf(t) /\ FillOf(t)

\* Only an attempt begun before the activation can still be sent.
KillInv ==
    \A t \in Tasks :
        /\ sentSinceKill[t] <= 1
        /\ ~killActive \/ pc[t] \in GateStages => sentSinceKill[t] = 0

\* What the gate let pass, and what it still holds for.
GateInv ==
    \A t \in Tasks :
        /\ pc[t] = "placing" => Gated(t) \subseteq cleared[t]
        /\ "trade" \in cleared[t] \/ fills[t] > 0 => 100 * Risk(t) < TradeCap

\* The calls that found k below its limit and may still add to it.
Armed(k) == {t \in Tasks : k \in cleared[t] /\ ~executed[t]}

\* Every armed call keeps room for one trade under the bound.
ExposureInv ==
    /\ \A x \in Symbols : held[x] >= 0
    /\ \A k \in SupportedKeys :
          100 * exposure[k] < Cap(k) + (Cardinality(Tasks) - Cardinality(Armed(k))) * TradeCap

=============================================================================
