-------------------------- MODULE CampaignDetector --------------------------
(***************************************************************************)
(* IntradayCampaignDetector (backtesting/intraday_campaign_detector.py):   *)
(* groups detected Wyckoff patterns into campaigns, bounds how many are    *)
(* open, and expires or completes them.                                    *)
(*                                                                         *)
(* Each call is one action; add_patterns_batch is its expiry followed by   *)
(* one action per pattern, with nothing else in between.  Times are in     *)
(* days and need not arrive in order.  A campaign is its position in       *)
(* insertion order, the order _find_active_campaign searches.              *)
(***************************************************************************)
EXTENDS Integers, Sequences, FiniteSets, FiniteSetsExt

CONSTANTS
    Patterns,          \* detected patterns a caller may pass
    Times,             \* detection timestamps
    GroupOf, SectorOf, CategoryOf,     \* correlation data of an asset (CorrelationMapper)
    NoSector, NoAsset, \* no sector; a campaign without correlation data
    Account,           \* the account size, where one is passed
    RiskPct,           \* risk_pct_per_trade
    Window, Gap, Expiration,           \* campaign_window, max_pattern_gap, expiration
    MinPatterns, MaxConcurrent, MaxHeat,
    MaxPerGroup, MaxPerSector, MaxCategoryPct,
    HtfStrict,         \* htf_strict_mode
    MaxPatterns,       \* bound: patterns recorded in all campaigns together
    Batches            \* the detection times a batch may have, in order

VARIABLES
    camps,             \* _campaigns_by_id, in insertion order
    byState, windows,  \* _campaigns_by_state, _active_time_windows
    alert, recent,     \* _heat_alert_state; the states alerted within the rate limit
    batch,             \* the times of the patterns left in the batch in progress
    told               \* history: the state the last lifecycle event of a campaign told

vars == <<camps, byState, windows, alert, recent, batch, told>>

Kinds == {"Spring", "AutomaticRally", "SOSBreakout", "LPS"}
OpenStates == {"FORMING", "ACTIVE"}
States == OpenStates \cup {"COMPLETED", "FAILED"}
Alerts == {"NORMAL", "WARNING", "CRITICAL"}

\* strong: quality_score above the AR activation threshold; low: spring_low (0: none);
\* price: what risk_per_share is measured from.
Pattern == [kind : Kinds, strong : BOOLEAN, low : Nat, price : Nat, asset : DOMAIN GroupOf]

ASSUME DetectorAssumption ==
    /\ Patterns \subseteq Pattern /\ Times \subseteq Int
    /\ \A p \in Patterns : p.kind = "Spring" <=> p.low > 0
    /\ DOMAIN SectorOf = DOMAIN GroupOf /\ DOMAIN CategoryOf = DOMAIN GroupOf
    /\ Window \in Int /\ Gap \in Int /\ Expiration \in Int
    /\ MaxConcurrent \in Nat /\ MaxPatterns \in Nat
    /\ MaxPerGroup \in Nat /\ MaxPerSector \in Nat /\ RiskPct \in Nat
    /\ Batches \subseteq Seq(Times)
    /\ Account \in Nat \ {0}
    /\ MinPatterns \in Nat \ {0}

-----------------------------------------------------------------------------
(* Patterns of one campaign.                                               *)

NextKinds ==
    [Spring |-> {"Spring", "AutomaticRally", "SOSBreakout"},
     AutomaticRally |-> {"SOSBreakout", "LPS"},
     SOSBreakout |-> {"SOSBreakout", "LPS"},
     LPS |-> {"LPS"}]

\* Mutant: the newest transition is not looked at.
ValidSequenceStale(kinds) == \A j \in 1..(Len(kinds) - 2) : kinds[j + 1] \in NextKinds[kinds[j]]

ValidSequence(kinds) == \A j \in 1..(Len(kinds) - 1) : kinds[j + 1] \in NextKinds[kinds[j]]

PhaseOf(kinds) ==
    LET latest == kinds[Len(kinds)]
        afterSpring == \E j \in 1..(Len(kinds) - 1) : kinds[j] = "Spring"
    IN IF latest \in {"SOSBreakout", "LPS"} THEN "D"
       ELSE IF latest = "Spring" \/ afterSpring THEN "C" ELSE "B"

\* The campaign with one more pattern and its risk metadata brought up to date.
WithPattern(c, p, t) ==
    LET support == IF p.kind = "Spring" /\ (c.support = 0 \/ p.low < c.support) THEN p.low ELSE c.support
    IN [c EXCEPT !.kinds = Append(@, p.kind), !.last = t, !.support = support,
                 !.rps = IF support # 0 /\ p.price # 0 THEN p.price - support ELSE @]

\* A batch leaves the correlation data of the campaigns it creates empty.
NewCampaign(p, t, inBatch) ==
    WithPattern([asset |-> IF inBatch THEN NoAsset ELSE p.asset, start |-> t, last |-> t,
                 kinds |-> <<>>, state |-> "FORMING", phase |-> "NONE", support |-> 0,
                 rps |-> 0, size |-> 0], p, t)

\* calculate_position_size: quantize rounds half to even.
PositionSize(account, rps) ==
    LET n == account * RiskPct
        d == 100 * rps
        q == n \div d
        r == n % d
    IN IF rps <= 0 \/ account = 0 THEN 0
       ELSE IF 2 * r > d \/ (2 * r = d /\ q % 2 = 1) THEN q + 1 ELSE q

-----------------------------------------------------------------------------
(* The campaign store.  A view is its value at some point inside a call.   *)

View == [camps |-> camps, byState |-> byState, windows |-> windows, told |-> told]

Store(v) == camps' = v.camps /\ byState' = v.byState /\ windows' = v.windows /\ told' = v.told

\* Mutant: the campaign stays listed under its old state.
SetStateUnlisted(v, i, s, published) ==
    [camps |-> [v.camps EXCEPT ![i].state = s],
     byState |-> [v.byState EXCEPT ![s] = @ \cup {i}],
     windows |-> IF s = "ACTIVE" THEN v.windows \cup {i} ELSE v.windows \ {i},
     told |-> IF published THEN [v.told EXCEPT ![i] = s] ELSE v.told]

\* Mutant: the event is published before the state changes.
SetStateAfterEvent(v, i, s, published) ==
    LET old == v.camps[i].state IN
    [camps |-> [v.camps EXCEPT ![i].state = s],
     byState |-> [[v.byState EXCEPT ![old] = @ \ {i}] EXCEPT ![s] = @ \cup {i}],
     windows |-> IF s = "ACTIVE" THEN v.windows \cup {i} ELSE v.windows \ {i},
     told |-> IF published THEN [v.told EXCEPT ![i] = old] ELSE v.told]

\* A campaign's state change with _update_indexes, and the event if one is published.
SetState(v, i, s, published) ==
    LET old == v.camps[i].state IN
    [camps |-> [v.camps EXCEPT ![i].state = s],
     byState |-> [[v.byState EXCEPT ![old] = @ \ {i}] EXCEPT ![s] = @ \cup {i}],
     windows |-> IF s = "ACTIVE" THEN v.windows \cup {i} ELSE v.windows \ {i},
     told |-> IF published THEN [v.told EXCEPT ![i] = s] ELSE v.told]

\* expire_stale_campaigns: the candidates come from the index, not from the states.
Expired(v, t) ==
    LET stale == {i \in v.byState["FORMING"] \cup v.byState["ACTIVE"] :
                    t - v.camps[i].start > Expiration}
    IN [camps |-> [i \in DOMAIN v.camps |->
                     IF i \in stale THEN [v.camps[i] EXCEPT !.state = "FAILED"] ELSE v.camps[i]],
        byState |-> [s \in States |-> IF s = "FAILED" THEN v.byState[s] \cup stale
                                      ELSE v.byState[s] \ stale],
        windows |-> v.windows \ stale,
        told |-> [i \in DOMAIN v.told |-> IF i \in stale THEN "FAILED" ELSE v.told[i]]]

OpenIn(cs) == {i \in DOMAIN cs : cs[i].state \in OpenStates}

\* The open campaigns whose correlation data agrees with x under f.
Sharing(cs, f, x) == {i \in OpenIn(cs) : cs[i].asset # NoAsset /\ f[cs[i].asset] = x}

\* The open campaigns a pattern detected at t may join; the symbol is not compared.
Matching(v, t) ==
    {i \in OpenIn(v.camps) : t - v.camps[i].start <= Window /\ t - v.camps[i].last <= Gap}

-----------------------------------------------------------------------------
(* Limits on opening a campaign.                                           *)

\* Mutant: a group may reach one more than its limit.
CorrelationAllowsOneMore(v, a) == Cardinality(Sharing(v.camps, GroupOf, GroupOf[a])) <= MaxPerGroup

CorrelationAllows(v, a) ==
    LET Count(f) == Cardinality(Sharing(v.camps, f, f[a]))
        open == Cardinality(OpenIn(v.camps))
    IN /\ Count(GroupOf) < MaxPerGroup
       /\ SectorOf[a] # NoSector => Count(SectorOf) < MaxPerSector
       /\ open > 0 => 100 * (Count(CategoryOf) + 1) <= MaxCategoryPct * (open + 1)

\* Mutant: one open campaign too many.
HasRoomForOneMore(v) == Cardinality(OpenIn(v.camps)) <= MaxConcurrent

HasRoom(v) == Cardinality(OpenIn(v.camps)) < MaxConcurrent

\* Open risk, in currency.
OpenRisk(cs) == MapThenSumSet(LAMBDA i : cs[i].rps * cs[i].size, OpenIn(cs))

\* Mutant: exceeding the limit becomes an alert state of its own.
AlertBandExceeded(risk) == IF 100 * risk > MaxHeat * Account THEN "EXCEEDED" ELSE alert

\* The band of a heat of risk/Account percent; between 75% and 80% of the limit the alert
\* state is kept (_check_heat_alerts).
AlertBand(risk) ==
    LET pct == 10000 * risk          \* compared with percentages of MaxHeat * Account
        full == MaxHeat * Account
    IN IF pct >= 95 * full THEN "CRITICAL"
       ELSE IF pct >= 80 * full THEN "WARNING"
       ELSE IF pct >= 75 * full THEN alert ELSE "NORMAL"

\* A state alerted within the last five minutes is not entered again.
RaiseAlert(risk) ==
    LET band == AlertBand(risk) IN
    IF band # alert /\ band \notin recent
    THEN alert' = band /\ recent' = recent \cup {band}
    ELSE UNCHANGED <<alert, recent>>

\* Mutant: a phase, once set, is kept.
PhasedOnce(v, i) ==
    [v EXCEPT !.camps[i].phase = IF @ = "NONE" THEN PhaseOf(v.camps[i].kinds) ELSE @]

\* Campaign i in the phase its patterns call for.
Phased(v, i) == [v EXCEPT !.camps[i].phase = PhaseOf(v.camps[i].kinds)]

-----------------------------------------------------------------------------
Init ==
    /\ camps = <<>> /\ told = <<>>
    /\ byState = [s \in States |-> {}] /\ windows = {}
    /\ alert = "NORMAL" /\ recent = {}
    /\ batch = <<>>

\* The pattern joins campaign i.  An invalid sequence is recorded but changes neither state
\* nor phase; the batch publishes an activation only when a strong rally causes it.
Join(v, p, t, i, inBatch) ==
    LET c == WithPattern(v.camps[i], p, t)
        joined == [v EXCEPT !.camps[i] = c]
        rally == p.kind = "AutomaticRally" /\ p.strong /\ c.state = "FORMING"
        enough == Len(c.kinds) >= MinPatterns
    IN /\ IF ~ValidSequence(c.kinds) \/ ~(rally \/ enough) THEN Store(joined)
          ELSE IF c.state = "FORMING" THEN Store(SetState(Phased(joined, i), i, "ACTIVE", rally \/ ~inBatch))
          ELSE Store(Phased(joined, i))
       /\ UNCHANGED <<alert, recent>>

\* No campaign matches: one is opened if the limits allow it.  The alert sees the heat the
\* new campaign would bring, whether or not it is refused for it.
Open(v, p, t, account, inBatch) ==
    LET new == NewCampaign(p, t, inBatch)
        size == PositionSize(account, new.rps)
        risk == OpenRisk(v.camps) + new.rps * size
        sized == [new EXCEPT !.size = size]
        i == Len(v.camps) + 1
        opened == [v EXCEPT !.camps = Append(@, sized), !.byState["FORMING"] = @ \cup {i},
                            !.told = Append(@, IF inBatch THEN "NONE" ELSE "FORMING")]
        rally == p.kind = "AutomaticRally" /\ p.strong
        counted == (inBatch \/ CorrelationAllows(v, p.asset)) /\ HasRoom(v)
    IN /\ IF counted /\ (account > 0 => 100 * risk <= MaxHeat * account)
          THEN Store(IF rally THEN SetState(Phased(opened, i), i, "ACTIVE", TRUE) ELSE opened)
          ELSE Store(v)
       /\ IF counted /\ account > 0 THEN RaiseAlert(risk) ELSE UNCHANGED <<alert, recent>>

Recorded == MapThenSumSet(LAMBDA i : Len(camps[i].kinds), DOMAIN camps)

\* The first campaign that matches, in insertion order, or none.
Place(v, p, t, account, inBatch) ==
    /\ Recorded < MaxPatterns
    /\ \/ \E i \in Matching(v, t) : (\A j \in Matching(v, t) : i <= j) /\ Join(v, p, t, i, inBatch)
       \/ Matching(v, t) = {} /\ Open(v, p, t, account, inBatch)

AddPattern(p, t, account) ==
    /\ batch = <<>>
    /\ Place(Expired(View, t), p, t, account, FALSE)
    /\ UNCHANGED batch

\* A higher timeframe contradicts the pattern: only the expiry has happened.
RejectByTrend(t) ==
    /\ batch = <<>> /\ HtfStrict
    /\ Store(Expired(View, t))
    /\ UNCHANGED <<alert, recent, batch>>

\* add_patterns_batch expires once, by the time of the last pattern of the list.
BatchBegin(times) ==
    /\ batch = <<>> /\ times # <<>>
    /\ Store(Expired(View, times[Len(times)]))
    /\ batch' = times
    /\ UNCHANGED <<alert, recent>>

BatchStep(p) ==
    /\ batch # <<>>
    /\ Place(View, p, Head(batch), Account, TRUE)
    /\ batch' = Tail(batch)

ExpireStaleCampaigns(t) ==
    /\ batch = <<>>
    /\ Store(Expired(View, t))
    /\ UNCHANGED <<alert, recent, batch>>

\* The metrics read the close of the first pattern's bar.  An AutomaticRally keeps its bar
\* as a dict, so the call raises there: after the state change, before the event.
MarkCampaignCompleted(i) ==
    /\ batch = <<>>
    /\ camps[i].state = "ACTIVE"
    /\ Store(SetState(View, i, "COMPLETED", camps[i].kinds[1] # "AutomaticRally"))
    /\ UNCHANGED <<alert, recent, batch>>

\* The wall clock leaves the rate limit of alert state a behind.
RateLimitEnds(a) ==
    /\ a \in recent
    /\ recent' = recent \ {a}
    /\ UNCHANGED <<camps, byState, windows, alert, batch, told>>

Next ==
    \/ \E p \in Patterns, t \in Times, account \in {0, Account} : AddPattern(p, t, account)
    \/ \E t \in Times : RejectByTrend(t) \/ ExpireStaleCampaigns(t)
    \/ \E times \in Batches : BatchBegin(times)
    \/ \E p \in Patterns : BatchStep(p)
    \/ \E i \in DOMAIN camps : MarkCampaignCompleted(i)
    \/ \E a \in Alerts : RateLimitEnds(a)

Spec == Init /\ [][Next]_vars

-----------------------------------------------------------------------------
(* Properties.                                                             *)

Campaign ==
    [asset : DOMAIN GroupOf \cup {NoAsset}, start : Times, last : Times, kinds : Seq(Kinds), state : States,
     phase : {"NONE", "B", "C", "D"}, support : Nat, rps : Int, size : Nat]

\* The store, its indexes and the alert state have their types.
TypeOK ==
    /\ camps \in Seq(Campaign)
    /\ byState \in [States -> SUBSET (DOMAIN camps)] /\ windows \subseteq DOMAIN camps
    /\ alert \in Alerts /\ recent \subseteq Alerts
    /\ batch \in Seq(Times)
    /\ told \in [DOMAIN camps -> States \cup {"NONE"}]

\* Between any two steps the secondary indexes agree with the campaigns: expiry, which looks
\* only at the index, misses no open campaign, and the hot-path window index is exact
\* (_add_to_indexes, _update_indexes).
IndexesConsistent ==
    /\ \A s \in States : byState[s] = {i \in DOMAIN camps : camps[i].state = s}
    /\ windows = {i \in DOMAIN camps : camps[i].state = "ACTIVE"}

Lifecycle == INSTANCE CampaignLifecycle WITH life <- [i \in DOMAIN camps |-> camps[i].state]

\* Single patterns, batches, expiry and completion move campaigns only as the abstract
\* lifecycle allows, and never hold more than MaxConcurrent open.
LifecycleSpec == Lifecycle!Spec

\* While the patterns of a campaign follow a Wyckoff order, an active campaign's phase is the
\* one its latest pattern calls for, and a campaign with enough patterns is not left forming;
\* only an out-of-order pattern freezes either (add_pattern, _validate_sequence).
PhaseMatchesPatterns ==
    \A i \in OpenIn(camps) :
        LET c == camps[i] IN
        /\ /\ c.state = "ACTIVE" /\ ValidSequence(c.kinds)
           /\ Len(c.kinds) = 1 \/ Len(c.kinds) >= MinPatterns
           => c.phase = PhaseOf(c.kinds)
        /\ c.state = "FORMING" /\ Len(c.kinds) >= MinPatterns => ~ValidSequence(c.kinds)

PhaseRank == [NONE |-> 0, B |-> 1, C |-> 2, D |-> 3]

\* A campaign's phase never goes back, whatever patterns arrive: C does not follow D.
PhaseNeverRegresses ==
    [][\A i \in DOMAIN camps : PhaseRank[camps[i].phase] <= PhaseRank[camps'[i].phase]]_camps

\* A subscriber who was told a campaign ended is told the truth, every failure is told, and
\* every completion but that of a campaign begun by a rally; nobody hears of an activation
\* that did not happen (_publish_event).
EndingsAnnounced ==
    \A i \in DOMAIN camps :
        /\ camps[i].state = "FAILED" => told[i] = "FAILED"
        /\ camps[i].state = "COMPLETED" /\ camps[i].kinds[1] # "AutomaticRally" => told[i] = "COMPLETED"
        /\ told[i] \in {"COMPLETED", "FAILED"} => told[i] = camps[i].state
        /\ told[i] = "ACTIVE" => camps[i].state # "FORMING"

\* However campaigns are opened, expired and completed, no correlation group and no sector
\* has more open campaigns with correlation data than its limit (_check_correlation_limits);
\* those of a batch carry none and are not counted.
CorrelationBounded ==
    /\ \A a \in DOMAIN GroupOf : Cardinality(Sharing(camps, GroupOf, GroupOf[a])) <= MaxPerGroup
    /\ \A a \in DOMAIN SectorOf :
          SectorOf[a] # NoSector => Cardinality(Sharing(camps, SectorOf, SectorOf[a])) <= MaxPerSector

\* The event documented in models/campaign_event.py: a completed campaign was announced.
CompletionsAnnounced == \A i \in DOMAIN camps : camps[i].state = "COMPLETED" => told[i] = "COMPLETED"

\* The events documented in models/campaign_event.py: a campaign's creation and its activation
\* are published, so the last event of an open campaign tells its state.
EventsTellState == \A i \in OpenIn(camps) : told[i] = camps[i].state

=============================================================================
