------------------------ MODULE CampaignDetectorProofs ------------------------
(***************************************************************************)
(* Theorems about CampaignDetector, for any patterns, times, batches and   *)
(* limits.                                                                 *)
(***************************************************************************)
EXTENDS CampaignDetector, FiniteSetTheorems, TLAPS

-----------------------------------------------------------------------------
(* One campaign.                                                           *)

\* An order that is broken once stays broken; one more pattern in order takes the phase on.
LEMMA PhaseAdvances ==
    ASSUME NEW kinds \in Seq(Kinds), Len(kinds) >= 1, NEW k \in Kinds,
           ValidSequence(Append(kinds, k))
    PROVE  /\ ValidSequence(kinds)
           /\ PhaseRank[PhaseOf(kinds)] <= PhaseRank[PhaseOf(Append(kinds, k))]
<1> DEFINE n == Len(kinds)  more == Append(kinds, k)
<1>1. /\ n \in Nat \ {0} /\ Len(more) = n + 1 /\ more[n + 1] = k
      /\ \A j \in 1..n : more[j] = kinds[j] /\ kinds[j] \in Kinds
  OBVIOUS
<1> HIDE DEF n, more
<1>2. \A j \in 1..n : more[j + 1] \in NextKinds[more[j]]
  BY <1>1 DEF ValidSequence, more
<1>3. ValidSequence(kinds)
  <2> SUFFICES ASSUME NEW j \in 1..(Len(kinds) - 1) PROVE kinds[j + 1] \in NextKinds[kinds[j]]
    BY DEF ValidSequence
  <2>1. j \in 1..n /\ j + 1 \in 1..n
    BY <1>1 DEF n
  <2> QED BY <1>1, <1>2, <2>1
<1>4. k \in NextKinds[kinds[n]] /\ kinds[n] \in Kinds
  BY <1>1, <1>2
<1>5. (\E j \in 1..(n - 1) : kinds[j] = "Spring") \/ kinds[n] = "Spring"
        => \E j \in 1..n : more[j] = "Spring"
  BY <1>1
<1>6. PhaseRank[PhaseOf(kinds)] <= PhaseRank[PhaseOf(more)]
  <2>1. PhaseOf(kinds) = IF kinds[n] \in {"SOSBreakout", "LPS"} THEN "D"
                         ELSE IF kinds[n] = "Spring" \/ (\E j \in 1..(n - 1) : kinds[j] = "Spring") THEN "C" ELSE "B"
    BY DEF PhaseOf, n
  <2>2. PhaseOf(more) = IF k \in {"SOSBreakout", "LPS"} THEN "D"
                        ELSE IF k = "Spring" \/ (\E j \in 1..n : more[j] = "Spring") THEN "C" ELSE "B"
    BY <1>1 DEF PhaseOf
  <2>3. CASE kinds[n] = "Spring"
    <3>1. PhaseOf(kinds) = "C" /\ PhaseOf(more) \in {"C", "D"}
      BY <1>5, <2>1, <2>2, <2>3
    <3> QED BY <3>1 DEF PhaseRank
  <2>4. CASE kinds[n] = "AutomaticRally"
    <3>1. k \in {"SOSBreakout", "LPS"}
      BY <1>4, <2>4 DEF NextKinds
    <3>2. PhaseOf(kinds) \in {"B", "C"} /\ PhaseOf(more) = "D"
      BY <2>1, <2>2, <2>4, <3>1
    <3> QED BY <3>2 DEF PhaseRank
  <2>5. CASE kinds[n] \in {"SOSBreakout", "LPS"}
    <3>1. k \in {"SOSBreakout", "LPS"}
      BY <1>4, <2>5 DEF NextKinds
    <3>2. PhaseOf(kinds) = "D" /\ PhaseOf(more) = "D"
      BY <2>1, <2>2, <2>5, <3>1
    <3> QED BY <3>2 DEF PhaseRank
  <2> QED BY <1>4, <2>3, <2>4, <2>5 DEF Kinds
<1> QED BY <1>3, <1>6 DEF more

LEMMA OnePattern == ASSUME NEW k \in Kinds PROVE ValidSequence(<<k>>) /\ Len(<<k>>) = 1 /\ <<k>> \in Seq(Kinds)
BY DEF ValidSequence

LEMMA WithPatternType ==
    ASSUME NEW c \in Campaign, NEW p \in Patterns, NEW t \in Times
    PROVE  /\ WithPattern(c, p, t) \in Campaign
           /\ WithPattern(c, p, t).kinds = Append(c.kinds, p.kind) /\ p.kind \in Kinds
           /\ WithPattern(c, p, t).state = c.state /\ WithPattern(c, p, t).phase = c.phase
           /\ WithPattern(c, p, t).asset = c.asset
<1>1. p \in Pattern
  BY DetectorAssumption
<1>2. p.kind \in Kinds /\ p.low \in Nat /\ p.price \in Nat
  BY <1>1 DEF Pattern
<1> DEFINE support == IF p.kind = "Spring" /\ (c.support = 0 \/ p.low < c.support) THEN p.low ELSE c.support
           rps == IF support # 0 /\ p.price # 0 THEN p.price - support ELSE c.rps
           more == Append(c.kinds, p.kind)
<1>3. support \in Nat /\ rps \in Int /\ more \in Seq(Kinds)
  <2>1. c.support \in Nat /\ c.rps \in Int /\ c.kinds \in Seq(Kinds)
    BY DEF Campaign
  <2> QED BY <1>2, <2>1
<1>4. WithPattern(c, p, t) =
        [c EXCEPT !.kinds = more, !.last = t, !.support = support, !.rps = rps]
  BY DEF WithPattern
<1> HIDE DEF support, rps, more
<1>5. /\ WithPattern(c, p, t) \in Campaign
      /\ WithPattern(c, p, t).kinds = more
      /\ WithPattern(c, p, t).state = c.state /\ WithPattern(c, p, t).phase = c.phase
      /\ WithPattern(c, p, t).asset = c.asset
  BY <1>3, <1>4 DEF Campaign
<1> QED BY <1>2, <1>5 DEF more

LEMMA NewCampaignType ==
    ASSUME NEW p \in Patterns, NEW t \in Times, NEW inBatch \in BOOLEAN
    PROVE  LET c == NewCampaign(p, t, inBatch) IN
           /\ c \in Campaign /\ c.kinds = <<p.kind>> /\ p.kind \in Kinds
           /\ c.state = "FORMING" /\ c.phase = "NONE"
           /\ c.asset = IF inBatch THEN NoAsset ELSE p.asset
           /\ p.asset \in DOMAIN GroupOf
<1>1. p \in Pattern
  BY DetectorAssumption
<1>2. p.asset \in DOMAIN GroupOf
  BY <1>1 DEF Pattern
<1> DEFINE e == [asset |-> IF inBatch THEN NoAsset ELSE p.asset, start |-> t, last |-> t,
                 kinds |-> <<>>, state |-> "FORMING", phase |-> "NONE", support |-> 0,
                 rps |-> 0, size |-> 0]
<1>3. e \in Campaign
  BY <1>2 DEF Campaign, States, OpenStates
<1>4. Append(e.kinds, p.kind) = <<p.kind>>
  OBVIOUS
<1>5. NewCampaign(p, t, inBatch) = WithPattern(e, p, t)
  BY DEF NewCampaign
<1>6. e.state = "FORMING" /\ e.phase = "NONE" /\ e.asset = IF inBatch THEN NoAsset ELSE p.asset
  OBVIOUS
<1> HIDE DEF e
<1>7. /\ WithPattern(e, p, t) \in Campaign
      /\ WithPattern(e, p, t).kinds = Append(e.kinds, p.kind) /\ p.kind \in Kinds
      /\ WithPattern(e, p, t).state = e.state /\ WithPattern(e, p, t).phase = e.phase
      /\ WithPattern(e, p, t).asset = e.asset
  BY <1>3, WithPatternType
<1> QED BY <1>2, <1>4, <1>5, <1>6, <1>7

LEMMA SizeType == ASSUME NEW account \in {0, Account}, NEW rps \in Int PROVE PositionSize(account, rps) \in Nat
<1> DEFINE n == account * RiskPct  d == 100 * rps  q == n \div d  r == n % d
<1>1. CASE rps <= 0 \/ account = 0
  BY <1>1 DEF PositionSize
<1>2. CASE ~(rps <= 0 \/ account = 0)
  <2>1. n \in Nat /\ d \in Nat \ {0}
    BY <1>2, DetectorAssumption
  <2>2. q \in Nat
    <3> HIDE DEF n, d
    <3> QED BY <2>1
  <2>3. PositionSize(account, rps) = IF 2 * r > d \/ (2 * r = d /\ q % 2 = 1) THEN q + 1 ELSE q
    BY <1>2 DEF PositionSize
  <2> HIDE DEF n, d, q, r
  <2> QED BY <2>2, <2>3
<1> QED BY <1>1, <1>2

-----------------------------------------------------------------------------
(* The store, at any point inside a call.                                  *)

Typed(v) ==
    /\ DOMAIN v = {"camps", "byState", "windows", "told"}
    /\ v.camps \in Seq(Campaign)
    /\ v.byState \in [States -> SUBSET (DOMAIN v.camps)] /\ v.windows \subseteq DOMAIN v.camps
    /\ v.told \in [DOMAIN v.camps -> States \cup {"NONE"}]

\* The indexes hold campaign i where its state says.
Listed(v, i) ==
    /\ \A s \in States : i \in v.byState[s] <=> v.camps[i].state = s
    /\ i \in v.windows <=> v.camps[i].state = "ACTIVE"

Indexed(v) == Typed(v) /\ \A i \in DOMAIN v.camps : Listed(v, i)

\* EndingsAnnounced of a campaign c, of which event e was the last.
Announced(c, e) ==
    /\ c.state = "FAILED" => e = "FAILED"
    /\ c.state = "COMPLETED" /\ c.kinds[1] # "AutomaticRally" => e = "COMPLETED"
    /\ e \in {"COMPLETED", "FAILED"} => e = c.state
    /\ e = "ACTIVE" => c.state # "FORMING"

\* PhaseMatchesPatterns of a campaign.
Fits(c) ==
    /\ /\ c.state = "ACTIVE" /\ ValidSequence(c.kinds)
       /\ Len(c.kinds) = 1 \/ Len(c.kinds) >= MinPatterns
       => c.phase = PhaseOf(c.kinds)
    /\ c.state = "FORMING" /\ Len(c.kinds) >= MinPatterns => ~ValidSequence(c.kinds)

\* The phase of a campaign whose patterns are in order is not ahead of them.
Grown(c) ==
    /\ Len(c.kinds) >= 1
    /\ ValidSequence(c.kinds) => PhaseRank[c.phase] <= PhaseRank[PhaseOf(c.kinds)]

Sound(v) ==
    /\ Indexed(v)
    /\ \A i \in DOMAIN v.camps :
          /\ Announced(v.camps[i], v.told[i]) /\ Grown(v.camps[i])
          /\ MinPatterns > 1 /\ v.camps[i].state \in OpenStates => Fits(v.camps[i])

LEMMA CampaignState ==
    ASSUME NEW c \in Campaign, NEW s \in States, NEW d, d = [c EXCEPT !.state = s]
    PROVE  /\ d \in Campaign /\ d.state = s
           /\ d.kinds = c.kinds /\ d.phase = c.phase /\ d.asset = c.asset
BY DEF Campaign

LEMMA CampaignPhase ==
    ASSUME NEW c \in Campaign, NEW d, d = [c EXCEPT !.phase = PhaseOf(c.kinds)]
    PROVE  /\ d \in Campaign /\ d.phase = PhaseOf(c.kinds) /\ PhaseOf(c.kinds) \in {"B", "C", "D"}
           /\ d.kinds = c.kinds /\ d.state = c.state /\ d.asset = c.asset
<1>1. PhaseOf(c.kinds) \in {"B", "C", "D"}
  BY DEF PhaseOf
<1> QED BY <1>1 DEF Campaign

\* Another campaign in the place of one, in the same state.
LEMMA Replaced ==
    ASSUME NEW v, Indexed(v), NEW i \in DOMAIN v.camps, NEW c \in Campaign,
           c.state = v.camps[i].state,
           NEW w, DOMAIN w = DOMAIN v, w.camps = [v.camps EXCEPT ![i] = c], w.byState = v.byState,
           w.windows = v.windows, w.told = v.told
    PROVE  Indexed(w)
<1>1. v.camps \in Seq(Campaign) /\ DOMAIN w.camps = DOMAIN v.camps
  BY DEF Indexed, Typed
<1>2. w.camps \in Seq(Campaign)
  <2> DEFINE cs == v.camps
  <2>1. cs \in Seq(Campaign) /\ w.camps = [cs EXCEPT ![i] = c] /\ i \in DOMAIN cs
    BY <1>1
  <2> HIDE DEF cs
  <2>2. cs \in [1..Len(cs) -> Campaign] /\ Len(cs) \in Nat
    BY <2>1
  <2>3. [cs EXCEPT ![i] = c] \in [1..Len(cs) -> Campaign]
    BY <2>2
  <2>4. [cs EXCEPT ![i] = c] \in Seq(Campaign)
    BY <2>2, <2>3
  <2> QED BY <2>1, <2>4
<1>3. Typed(w)
  BY <1>1, <1>2 DEF Indexed, Typed
<1>4. ASSUME NEW j \in DOMAIN w.camps PROVE Listed(w, j)
  <2>1. Listed(v, j) /\ w.camps[j].state = v.camps[j].state
    BY <1>1, <1>4 DEF Indexed
  <2> QED BY <2>1 DEF Listed
<1> QED BY <1>3, <1>4 DEF Indexed

LEMMA SetStateIndexed ==
    ASSUME NEW v, Indexed(v), NEW i \in DOMAIN v.camps, NEW s \in States, NEW published \in BOOLEAN,
           v.camps[i].state # s
    PROVE  /\ Indexed(SetState(v, i, s, published))
           /\ SetState(v, i, s, published).camps = [v.camps EXCEPT ![i] = [v.camps[i] EXCEPT !.state = s]]
           /\ SetState(v, i, s, published).told = IF published THEN [v.told EXCEPT ![i] = s] ELSE v.told
<1> DEFINE w == SetState(v, i, s, published)  cs == v.camps  c == [cs[i] EXCEPT !.state = s]
           old == cs[i].state
<1>1. /\ DOMAIN w = {"camps", "byState", "windows", "told"}
      /\ w.camps = [cs EXCEPT ![i] = c]
      /\ w.byState = [[v.byState EXCEPT ![old] = @ \ {i}] EXCEPT ![s] = @ \cup {i}]
      /\ w.windows = IF s = "ACTIVE" THEN v.windows \cup {i} ELSE v.windows \ {i}
      /\ w.told = IF published THEN [v.told EXCEPT ![i] = s] ELSE v.told
  BY DEF SetState
<1>2. cs \in Seq(Campaign) /\ cs[i] \in Campaign
  BY DEF Indexed, Typed
<1>3. c \in Campaign /\ c.state = s /\ old \in States
  <2>1. cs[i].state \in States
    BY <1>2 DEF Campaign
  <2> QED BY <1>2, <2>1, CampaignState
<1>4. /\ v.byState \in [States -> SUBSET (DOMAIN cs)] /\ v.windows \subseteq DOMAIN cs
      /\ v.told \in [DOMAIN cs -> States \cup {"NONE"}]
      /\ \A j \in DOMAIN cs : Listed(v, j)
  BY DEF Indexed, Typed
<1> HIDE DEF w, c
<1>5. w.camps \in Seq(Campaign) /\ DOMAIN w.camps = DOMAIN cs /\ w.camps[i] = c
      /\ \A j \in DOMAIN cs \ {i} : w.camps[j] = cs[j]
  <2> HIDE DEF cs
  <2>1. i \in DOMAIN cs
    BY DEF cs
  <2> QED BY <1>1, <1>2, <1>3, <2>1
<1>6. Typed(w)
  <2>1. w.byState \in [States -> SUBSET (DOMAIN cs)]
    BY <1>1, <1>3, <1>4
  <2>2. w.windows \subseteq DOMAIN cs
    BY <1>1, <1>4
  <2>3. w.told \in [DOMAIN cs -> States \cup {"NONE"}]
    BY <1>1, <1>4
  <2> QED BY <1>1, <1>5, <2>1, <2>2, <2>3 DEF Typed
<1>7. ASSUME NEW j \in DOMAIN cs PROVE Listed(w, j)
  <2>1. Listed(v, j) /\ DOMAIN v.byState = States
    BY <1>4
  <2>2. ASSUME NEW q \in States
        PROVE  w.byState[q] = IF q = s THEN v.byState[q] \cup {i}
                              ELSE IF q = old THEN v.byState[q] \ {i} ELSE v.byState[q]
    BY <1>1, <1>3, <2>1
  <2>3. CASE j = i
    <3>1. ASSUME NEW q \in States PROVE i \in w.byState[q] <=> q = s
      <4>1. i \in v.byState[q] <=> old = q
        BY <2>1, <2>3 DEF Listed
      <4> QED BY <2>2, <4>1
    <3>2. i \in w.windows <=> s = "ACTIVE"
      BY <1>1
    <3> QED BY <1>3, <1>5, <2>3, <3>1, <3>2 DEF Listed
  <2>4. CASE j # i
    <3>1. \A q \in States : j \in w.byState[q] <=> j \in v.byState[q]
      BY <2>2, <2>4
    <3>2. j \in w.windows <=> j \in v.windows
      BY <1>1, <2>4
    <3>3. w.camps[j] = v.camps[j]
      BY <1>5, <2>4
    <3> QED BY <2>1, <3>1, <3>2, <3>3 DEF Listed
  <2> QED BY <2>3, <2>4
<1> QED BY <1>1, <1>5, <1>6, <1>7 DEF Indexed, w, c

\* The campaigns cs with those in ended failed.
Failing(cs, ended) == [i \in DOMAIN cs |-> IF i \in ended THEN [cs[i] EXCEPT !.state = "FAILED"] ELSE cs[i]]

LEMMA FailingType ==
    ASSUME NEW cs \in Seq(Campaign), NEW ended \in SUBSET (DOMAIN cs)
    PROVE  /\ Failing(cs, ended) \in Seq(Campaign) /\ DOMAIN Failing(cs, ended) = DOMAIN cs
           /\ Len(Failing(cs, ended)) = Len(cs)
           /\ \A i \in DOMAIN cs :
                /\ Failing(cs, ended)[i].state = IF i \in ended THEN "FAILED" ELSE cs[i].state
                /\ Failing(cs, ended)[i].kinds = cs[i].kinds
                /\ Failing(cs, ended)[i].phase = cs[i].phase
                /\ Failing(cs, ended)[i].asset = cs[i].asset
<1> DEFINE es == Failing(cs, ended)
<1>1. cs \in [1..Len(cs) -> Campaign] /\ Len(cs) \in Nat /\ DOMAIN cs = 1..Len(cs)
  OBVIOUS
<1>2. "FAILED" \in States
  BY DEF States
<1>3. ASSUME NEW i \in DOMAIN cs
      PROVE  /\ es[i] \in Campaign /\ es[i].state = (IF i \in ended THEN "FAILED" ELSE cs[i].state)
             /\ es[i].kinds = cs[i].kinds /\ es[i].phase = cs[i].phase /\ es[i].asset = cs[i].asset
  <2>1. cs[i] \in Campaign
    BY <1>1
  <2>2. CASE i \in ended
    <3>1. es[i] = [cs[i] EXCEPT !.state = "FAILED"]
      BY <2>2 DEF Failing
    <3> HIDE DEF es
    <3> QED BY <1>2, <2>1, <2>2, <3>1, CampaignState
  <2>3. CASE i \notin ended
    <3>1. es[i] = cs[i]
      BY <2>3 DEF Failing
    <3> QED BY <2>1, <2>3, <3>1
  <2> QED BY <2>2, <2>3
<1>4. DOMAIN es = 1..Len(cs) /\ es = [i \in 1..Len(cs) |-> es[i]]
  BY <1>1 DEF Failing
<1> HIDE DEF es
<1>5. es \in [1..Len(cs) -> Campaign]
  BY <1>1, <1>3, <1>4
<1>6. es \in Seq(Campaign) /\ Len(es) = Len(cs)
  BY <1>1, <1>5
<1> QED BY <1>1, <1>3, <1>4, <1>6 DEF es

LEMMA ExpiredSound ==
    ASSUME NEW v, Sound(v), NEW t
    PROVE  /\ Sound(Expired(v, t))
           /\ \E ended \in SUBSET OpenIn(v.camps) : Expired(v, t).camps = Failing(v.camps, ended)
<1> DEFINE cs == v.camps
           stale == {i \in v.byState["FORMING"] \cup v.byState["ACTIVE"] : t - cs[i].start > Expiration}
           w == Expired(v, t)
<1>1. /\ DOMAIN w = {"camps", "byState", "windows", "told"}
      /\ w.camps = Failing(cs, stale)
      /\ w.byState = [s \in States |-> IF s = "FAILED" THEN v.byState[s] \cup stale ELSE v.byState[s] \ stale]
      /\ w.windows = v.windows \ stale
      /\ w.told = [i \in DOMAIN v.told |-> IF i \in stale THEN "FAILED" ELSE v.told[i]]
  BY DEF Expired, Failing
<1>2. /\ cs \in Seq(Campaign) /\ v.byState \in [States -> SUBSET (DOMAIN cs)]
      /\ v.windows \subseteq DOMAIN cs /\ v.told \in [DOMAIN cs -> States \cup {"NONE"}]
      /\ \A i \in DOMAIN cs : Listed(v, i)
  BY DEF Sound, Indexed, Typed
<1>3. stale \subseteq DOMAIN cs /\ \A i \in stale : cs[i].state \in OpenStates
  <2>1. "FORMING" \in States /\ "ACTIVE" \in States
    BY DEF States, OpenStates
  <2> SUFFICES ASSUME NEW i \in stale PROVE i \in DOMAIN cs /\ cs[i].state \in OpenStates
    OBVIOUS
  <2>2. i \in v.byState["FORMING"] \/ i \in v.byState["ACTIVE"]
    OBVIOUS
  <2>3. i \in DOMAIN cs
    BY <1>2, <2>1, <2>2
  <2>4. cs[i].state = "FORMING" \/ cs[i].state = "ACTIVE"
    BY <1>2, <2>1, <2>2, <2>3 DEF Listed
  <2> QED BY <2>3, <2>4 DEF OpenStates
<1> HIDE DEF stale, w
<1>4. /\ w.camps \in Seq(Campaign) /\ DOMAIN w.camps = DOMAIN cs
      /\ \A i \in DOMAIN cs :
           /\ w.camps[i].state = IF i \in stale THEN "FAILED" ELSE cs[i].state
           /\ w.camps[i].kinds = cs[i].kinds /\ w.camps[i].phase = cs[i].phase
  BY <1>1, <1>2, <1>3, FailingType
<1>5. Typed(w)
  <2>1. "FAILED" \in States
    BY DEF States
  <2>2. w.byState \in [States -> SUBSET (DOMAIN cs)]
    BY <1>1, <1>2, <1>3
  <2>3. w.windows \subseteq DOMAIN cs /\ w.told \in [DOMAIN cs -> States \cup {"NONE"}]
    BY <1>1, <1>2, <2>1
  <2> QED BY <1>1, <1>4, <2>2, <2>3 DEF Typed
<1>6. ASSUME NEW i \in DOMAIN cs PROVE Listed(w, i)
  <2>1. Listed(v, i) /\ w.camps[i].state = IF i \in stale THEN "FAILED" ELSE cs[i].state
    BY <1>2, <1>4
  <2>2. ASSUME NEW s \in States PROVE i \in w.byState[s] <=> w.camps[i].state = s
    <3>1. i \in v.byState[s] <=> cs[i].state = s
      BY <2>1 DEF Listed
    <3>2. w.byState[s] = IF s = "FAILED" THEN v.byState[s] \cup stale ELSE v.byState[s] \ stale
      BY <1>1
    <3> QED BY <2>1, <3>1, <3>2
  <2>3. i \in w.windows <=> w.camps[i].state = "ACTIVE"
    BY <1>1, <2>1 DEF Listed
  <2> QED BY <2>2, <2>3 DEF Listed
<1>7. ASSUME NEW i \in DOMAIN cs
      PROVE  /\ Announced(w.camps[i], w.told[i]) /\ Grown(w.camps[i])
             /\ MinPatterns > 1 /\ w.camps[i].state \in OpenStates => Fits(w.camps[i])
  <2>1. /\ Announced(cs[i], v.told[i]) /\ Grown(cs[i])
        /\ MinPatterns > 1 /\ cs[i].state \in OpenStates => Fits(cs[i])
    BY DEF Sound
  <2>2. /\ w.camps[i].state = IF i \in stale THEN "FAILED" ELSE cs[i].state
        /\ w.camps[i].kinds = cs[i].kinds /\ w.camps[i].phase = cs[i].phase
        /\ w.told[i] = IF i \in stale THEN "FAILED" ELSE v.told[i]
    BY <1>1, <1>2, <1>4
  <2>3. Announced(w.camps[i], w.told[i])
    BY <2>1, <2>2 DEF Announced
  <2>4. Grown(w.camps[i])
    BY <2>1, <2>2 DEF Grown
  <2>5. MinPatterns > 1 /\ w.camps[i].state \in OpenStates => Fits(w.camps[i])
    BY <2>1, <2>2 DEF Fits, OpenStates
  <2> QED BY <2>3, <2>4, <2>5
<1>8. Sound(w)
  BY <1>4, <1>5, <1>6, <1>7 DEF Sound, Indexed
<1>9. stale \in SUBSET OpenIn(cs)
  BY <1>3 DEF OpenIn
<1> QED BY <1>1, <1>8, <1>9 DEF w

\* What a pattern may make of the campaign it joins.
Becomes(c, d) ==
    /\ d.asset = c.asset
    /\ d.state = c.state \/ (c.state = "FORMING" /\ d.state = "ACTIVE")
    /\ PhaseRank[c.phase] <= PhaseRank[d.phase]

LEMMA Ranks == ASSUME NEW c \in Campaign
               PROVE PhaseRank[c.phase] \in Int /\ PhaseRank[PhaseOf(c.kinds)] \in Int
<1>1. c.phase \in {"NONE", "B", "C", "D"} /\ PhaseOf(c.kinds) \in {"NONE", "B", "C", "D"}
  BY DEF Campaign, PhaseOf
<1>2. \A x \in {"NONE", "B", "C", "D"} : PhaseRank[x] \in Int
  BY DEF PhaseRank
<1> QED BY <1>1, <1>2

\* One campaign replaced, in its place and its events: the others are as they were.
LEMMA OthersSound ==
    ASSUME NEW v, Sound(v), NEW i \in DOMAIN v.camps, NEW w, Indexed(w), NEW e,
           w.camps = [v.camps EXCEPT ![i] = e],
           \A j \in DOMAIN v.camps \ {i} : w.told[j] = v.told[j],
           Announced(e, w.told[i]), Grown(e), MinPatterns > 1 /\ e.state \in OpenStates => Fits(e)
    PROVE  Sound(w)
<1> DEFINE cs == v.camps
<1>1. /\ cs \in Seq(Campaign)
      /\ \A j \in DOMAIN cs : Announced(cs[j], v.told[j]) /\ Grown(cs[j])
                              /\ (MinPatterns > 1 /\ cs[j].state \in OpenStates => Fits(cs[j]))
  BY DEF Sound, Indexed, Typed
<1>2. DOMAIN w.camps = DOMAIN cs /\ w.camps[i] = e /\ \A j \in DOMAIN cs \ {i} : w.camps[j] = cs[j]
  BY <1>1
<1>3. ASSUME NEW j \in DOMAIN w.camps
      PROVE  /\ Announced(w.camps[j], w.told[j]) /\ Grown(w.camps[j])
             /\ MinPatterns > 1 /\ w.camps[j].state \in OpenStates => Fits(w.camps[j])
  <2>1. CASE j = i
    BY <1>2, <2>1
  <2>2. CASE j # i
    BY <1>1, <1>2, <1>3, <2>2
  <2> QED BY <2>1, <2>2
<1> QED BY <1>3 DEF Sound

LEMMA JoinSound ==
    ASSUME NEW v, Sound(v), NEW p \in Patterns, NEW t \in Times, NEW i \in Matching(v, t),
           NEW inBatch \in BOOLEAN, Join(v, p, t, i, inBatch)
    PROVE  \E w, c : /\ Store(w) /\ Sound(w) /\ c \in Campaign
                     /\ w.camps = [v.camps EXCEPT ![i] = c] /\ Becomes(v.camps[i], c)
<1> DEFINE cs == v.camps
           b == cs[i]
           c == WithPattern(b, p, t)
           joined == [v EXCEPT !.camps[i] = c]
           rally == p.kind = "AutomaticRally" /\ p.strong /\ c.state = "FORMING"
           enough == Len(c.kinds) >= MinPatterns
           d == [c EXCEPT !.phase = PhaseOf(c.kinds)]
           phased == Phased(joined, i)
           published == rally \/ ~inBatch
           active == SetState(phased, i, "ACTIVE", published)
<1>1. /\ i \in DOMAIN cs /\ b.state \in OpenStates /\ b \in Campaign /\ cs \in Seq(Campaign)
      /\ DOMAIN v = {"camps", "byState", "windows", "told"}
      /\ Announced(b, v.told[i]) /\ Grown(b) /\ Indexed(v) /\ DOMAIN v.told = DOMAIN cs
      /\ MinPatterns > 1 => Fits(b)
      /\ \A j \in DOMAIN cs : Announced(cs[j], v.told[j]) /\ Grown(cs[j])
                              /\ (MinPatterns > 1 /\ cs[j].state \in OpenStates => Fits(cs[j]))
  BY DEF Matching, OpenIn, Sound, Indexed, Typed
<1>2. /\ c \in Campaign /\ c.kinds = Append(b.kinds, p.kind) /\ p.kind \in Kinds
      /\ c.state = b.state /\ c.phase = b.phase /\ c.asset = b.asset
  BY <1>1, WithPatternType
<1>3. /\ Len(c.kinds) >= 2 /\ Len(c.kinds) \in Nat
      /\ ValidSequence(c.kinds) => /\ PhaseRank[b.phase] <= PhaseRank[PhaseOf(c.kinds)]
                                   /\ PhaseRank[c.phase] <= PhaseRank[PhaseOf(c.kinds)]
  <2>1. b.kinds \in Seq(Kinds) /\ Len(b.kinds) >= 1 /\ Len(b.kinds) \in Nat
    BY <1>1 DEF Campaign, Grown
  <2>2. Len(c.kinds) = Len(b.kinds) + 1
    BY <1>2, <2>1
  <2>3. ASSUME ValidSequence(c.kinds) PROVE PhaseRank[b.phase] <= PhaseRank[PhaseOf(c.kinds)]
    <3>1. ValidSequence(b.kinds) /\ PhaseRank[PhaseOf(b.kinds)] <= PhaseRank[PhaseOf(c.kinds)]
      BY <1>2, <2>1, <2>3, PhaseAdvances
    <3>2. PhaseRank[b.phase] <= PhaseRank[PhaseOf(b.kinds)]
      BY <1>1, <3>1 DEF Grown
    <3>3. PhaseRank[b.phase] \in Int /\ PhaseRank[PhaseOf(b.kinds)] \in Int /\ PhaseRank[PhaseOf(c.kinds)] \in Int
      BY <1>1, <1>2, Ranks
    <3> QED BY <3>1, <3>2, <3>3
  <2> QED BY <1>2, <2>1, <2>2, <2>3
<1> HIDE DEF c
<1>4. /\ d \in Campaign /\ d.phase = PhaseOf(c.kinds) /\ d.kinds = c.kinds /\ d.state = c.state
      /\ d.asset = c.asset
  BY <1>2, CampaignPhase
<1>5. /\ DOMAIN joined = DOMAIN v /\ joined.camps = [cs EXCEPT ![i] = c]
      /\ joined.byState = v.byState /\ joined.windows = v.windows /\ joined.told = v.told
  BY <1>1
<1>6. /\ DOMAIN phased = DOMAIN v /\ phased.camps = [cs EXCEPT ![i] = d]
      /\ phased.byState = v.byState /\ phased.windows = v.windows /\ phased.told = v.told
  <2>1. joined.camps[i] = c /\ i \in DOMAIN joined.camps
    BY <1>1, <1>5
  <2>2. [joined.camps EXCEPT ![i].phase = PhaseOf(joined.camps[i].kinds)] = [cs EXCEPT ![i] = d]
    <3>1. [joined.camps EXCEPT ![i].phase = PhaseOf(joined.camps[i].kinds)]
            = [joined.camps EXCEPT ![i] = d]
      BY <2>1
    <3> QED BY <1>1, <1>5, <2>1, <3>1
  <2>3. phased.camps = [joined.camps EXCEPT ![i].phase = PhaseOf(joined.camps[i].kinds)]
        /\ DOMAIN phased = DOMAIN joined /\ phased.byState = joined.byState
        /\ phased.windows = joined.windows /\ phased.told = joined.told
    <3> HIDE DEF joined
    <3>1. DOMAIN joined = {"camps", "byState", "windows", "told"}
      BY <1>1, <1>5
    <3> QED BY <3>1 DEF Phased
  <2> QED BY <1>5, <2>2, <2>3
<1>7. Indexed(joined)
  <2> HIDE DEF joined
  <2> QED BY <1>1, <1>2, <1>5, Replaced
<1>8. Indexed(phased)
  <2>1. d \in Campaign /\ d.state = v.camps[i].state /\ i \in DOMAIN v.camps /\ Indexed(v)
    <3>1. d.state = b.state
      BY <1>2, <1>4
    <3> QED BY <1>1, <1>4, <3>1
  <2> HIDE DEF phased, d
  <2> QED BY <1>6, <2>1, Replaced
<1>9. ASSUME NEW w, Indexed(w), NEW e, w.camps = [cs EXCEPT ![i] = e],
             \A j \in DOMAIN cs \ {i} : w.told[j] = v.told[j],
             Announced(e, w.told[i]), Grown(e), MinPatterns > 1 => Fits(e)
      PROVE  Sound(w)
  BY <1>1, <1>9, OthersSound
<1>10. CASE (~ValidSequence(c.kinds) \/ ~(rally \/ enough)) /\ Store(joined)
  <2>1. Announced(c, v.told[i])
    BY <1>1, <1>2 DEF Announced, OpenStates
  <2>2. Grown(c)
    BY <1>3 DEF Grown
  <2>3. MinPatterns > 1 => Fits(c)
    <3>1. ValidSequence(c.kinds) => ~(Len(c.kinds) >= MinPatterns)
      BY <1>10
    <3>2. Len(c.kinds) # 1
      <4> DEFINE n == Len(c.kinds)
      <4>1. n \in Nat /\ n >= 2
        BY <1>3
      <4> HIDE DEF n
      <4>2. n # 1
        BY <4>1
      <4> QED BY <4>2 DEF n
    <3> QED BY <3>1, <3>2 DEF Fits
  <2>4. Sound(joined)
    <3> HIDE DEF joined
    <3> QED BY <1>1, <1>5, <1>7, <1>9, <2>1, <2>2, <2>3
  <2>5. Becomes(b, c)
    <3>1. PhaseRank[c.phase] <= PhaseRank[c.phase]
      BY <1>2, Ranks
    <3> QED BY <1>2, <3>1 DEF Becomes
  <2> HIDE DEF joined, b
  <2> QED BY <1>2, <1>5, <1>10, <2>4, <2>5 DEF b
<1>11. ASSUME ValidSequence(c.kinds), NEW e \in Campaign, e.phase = d.phase, e.kinds = c.kinds,
              e.asset = b.asset, e.state = b.state \/ (b.state = "FORMING" /\ e.state = "ACTIVE"),
              e.state = "FORMING" => ~enough
       PROVE  Becomes(b, e) /\ Grown(e) /\ Fits(e)
  <2>1. Becomes(b, e)
    BY <1>3, <1>4, <1>11 DEF Becomes
  <2>2. Grown(e)
    <3>1. PhaseRank[e.phase] <= PhaseRank[PhaseOf(e.kinds)]
      BY <1>4, <1>11, Ranks
    <3> QED BY <1>3, <1>11, <3>1 DEF Grown
  <2>3. Fits(e)
    BY <1>4, <1>11 DEF Fits
  <2> QED BY <2>1, <2>2, <2>3
<1>12. CASE ValidSequence(c.kinds) /\ (rally \/ enough) /\ c.state = "FORMING" /\ Store(active)
  <2> DEFINE e == [d EXCEPT !.state = "ACTIVE"]
  <2>1. e \in Campaign /\ e.state = "ACTIVE" /\ e.kinds = d.kinds /\ e.phase = d.phase /\ e.asset = d.asset
        /\ "ACTIVE" \in States
    <3>1. "ACTIVE" \in States
      BY DEF States, OpenStates
    <3> HIDE DEF d
    <3> QED BY <1>4, <3>1, CampaignState
  <2>2. /\ Indexed(active) /\ active.camps = [phased.camps EXCEPT ![i] = [phased.camps[i] EXCEPT !.state = "ACTIVE"]]
        /\ active.told = IF published THEN [phased.told EXCEPT ![i] = "ACTIVE"] ELSE phased.told
    <3>1. i \in DOMAIN phased.camps /\ phased.camps[i].state # "ACTIVE" /\ published \in BOOLEAN
      BY <1>1, <1>4, <1>6, <1>12
    <3> HIDE DEF phased, published
    <3> QED BY <1>8, <2>1, <3>1, SetStateIndexed
  <2>3. active.camps = [cs EXCEPT ![i] = e]
    <3> HIDE DEF phased, d, active
    <3> QED BY <1>1, <1>6, <2>2
  <2>4. /\ \A j \in DOMAIN cs \ {i} : active.told[j] = v.told[j]
        /\ active.told[i] \in {"ACTIVE", v.told[i]}
    <3> HIDE DEF phased, active
    <3> QED BY <1>1, <1>6, <2>2
  <2> HIDE DEF active, e, d
  <2>5. Announced(e, active.told[i])
    <3>1. v.told[i] \notin {"COMPLETED", "FAILED"}
      BY <1>1 DEF Announced, OpenStates
    <3> QED BY <2>1, <2>4, <3>1 DEF Announced
  <2>6. Becomes(b, e) /\ Grown(e) /\ Fits(e)
    <3>1. e.kinds = c.kinds /\ e.asset = b.asset /\ b.state = "FORMING"
      BY <1>2, <1>4, <1>12, <2>1
    <3> QED BY <1>11, <1>12, <2>1, <3>1
  <2>7. Sound(active)
    BY <1>9, <2>2, <2>3, <2>4, <2>5, <2>6
  <2> HIDE DEF b
  <2> QED BY <1>12, <2>1, <2>3, <2>6, <2>7 DEF b
<1>13. CASE ValidSequence(c.kinds) /\ (rally \/ enough) /\ c.state # "FORMING" /\ Store(phased)
  <2>1. Announced(d, v.told[i])
    <3>1. d.state = b.state
      BY <1>2, <1>4
    <3> QED BY <1>1, <3>1 DEF Announced, OpenStates
  <2>2. Becomes(b, d) /\ Grown(d) /\ Fits(d)
    <3>1. d.asset = b.asset /\ d.state = b.state /\ d.state # "FORMING"
      BY <1>2, <1>4, <1>13
    <3> HIDE DEF d
    <3> QED BY <1>4, <1>11, <1>13, <3>1
  <2> HIDE DEF phased, d
  <2>3. Sound(phased)
    BY <1>6, <1>8, <1>9, <2>1, <2>2
  <2> HIDE DEF b
  <2> QED BY <1>4, <1>6, <1>13, <2>2, <2>3 DEF b
<1> QED BY <1>10, <1>12, <1>13 DEF Join, c

\* w is v with the forming campaign i put into its phase and activated.
ActivatedIn(v, i, published, w) ==
    /\ Indexed(w)
    /\ \E e \in Campaign :
         /\ w.camps = [v.camps EXCEPT ![i] = e]
         /\ e.state = "ACTIVE" /\ e.phase = PhaseOf(e.kinds)
         /\ e.kinds = v.camps[i].kinds /\ e.asset = v.camps[i].asset
    /\ \A j \in DOMAIN v.camps \ {i} : w.told[j] = v.told[j]
    /\ w.told[i] = IF published THEN "ACTIVE" ELSE v.told[i]

LEMMA Activated ==
    ASSUME NEW v, Indexed(v), NEW i \in DOMAIN v.camps, v.camps[i].state = "FORMING",
           NEW published \in BOOLEAN
    PROVE  ActivatedIn(v, i, published, SetState(Phased(v, i), i, "ACTIVE", published))
<1> DEFINE cs == v.camps  b == cs[i]  d == [b EXCEPT !.phase = PhaseOf(b.kinds)]
           e == [d EXCEPT !.state = "ACTIVE"]  phased == Phased(v, i)
           w == SetState(phased, i, "ACTIVE", published)
<1>1. /\ cs \in Seq(Campaign) /\ b \in Campaign /\ DOMAIN v = {"camps", "byState", "windows", "told"}
      /\ DOMAIN v.told = DOMAIN cs /\ "ACTIVE" \in States
  BY DEF Indexed, Typed, States, OpenStates
<1>2. /\ DOMAIN phased = DOMAIN v /\ phased.camps = [cs EXCEPT ![i].phase = PhaseOf(b.kinds)]
      /\ phased.byState = v.byState /\ phased.windows = v.windows /\ phased.told = v.told
  BY <1>1 DEF Phased
<1>3. phased.camps = [cs EXCEPT ![i] = d]
  BY <1>1, <1>2
<1>4. /\ d \in Campaign /\ d.phase = PhaseOf(b.kinds) /\ d.kinds = b.kinds /\ d.state = b.state
      /\ d.asset = b.asset
  BY <1>1, CampaignPhase
<1> HIDE DEF d, phased
<1>5. e \in Campaign /\ e.state = "ACTIVE" /\ e.kinds = d.kinds /\ e.phase = d.phase /\ e.asset = d.asset
  BY <1>1, <1>4, CampaignState
<1> HIDE DEF e, w
<1>6. Indexed(phased)
  BY <1>2, <1>3, <1>4, Replaced
<1>7. i \in DOMAIN phased.camps /\ phased.camps[i] = d /\ d.state # "ACTIVE"
  BY <1>1, <1>3, <1>4
<1>8. /\ Indexed(w) /\ w.camps = [phased.camps EXCEPT ![i] = e]
      /\ w.told = IF published THEN [phased.told EXCEPT ![i] = "ACTIVE"] ELSE phased.told
  <2>1. /\ Indexed(SetState(phased, i, "ACTIVE", published))
        /\ SetState(phased, i, "ACTIVE", published).camps
             = [phased.camps EXCEPT ![i] = [phased.camps[i] EXCEPT !.state = "ACTIVE"]]
        /\ SetState(phased, i, "ACTIVE", published).told
             = IF published THEN [phased.told EXCEPT ![i] = "ACTIVE"] ELSE phased.told
    BY <1>1, <1>6, <1>7, SetStateIndexed
  <2> QED BY <1>7, <2>1 DEF w, e
<1>9. w.camps = [cs EXCEPT ![i] = e]
  BY <1>1, <1>3, <1>8
<1>10. /\ \A j \in DOMAIN cs \ {i} : w.told[j] = v.told[j]
       /\ w.told[i] = IF published THEN "ACTIVE" ELSE v.told[i]
  BY <1>1, <1>2, <1>8
<1>11. ActivatedIn(v, i, published, w)
  BY <1>4, <1>5, <1>8, <1>9, <1>10 DEF ActivatedIn
<1> QED BY <1>11 DEF w, phased

\* w is v with campaign c, of which event e was published, at the end.
AddedTo(v, c, e, w) ==
    /\ DOMAIN w = DOMAIN v /\ w.camps = Append(v.camps, c)
    /\ w.byState = [v.byState EXCEPT !["FORMING"] = @ \cup {Len(v.camps) + 1}]
    /\ w.windows = v.windows /\ w.told = Append(v.told, e)

LEMMA Appended ==
    ASSUME NEW v, Sound(v), NEW c \in Campaign, c.state = "FORMING", Grown(c),
           MinPatterns > 1 => Fits(c), NEW e \in {"NONE", "FORMING"},
           NEW w, AddedTo(v, c, e, w)
    PROVE  /\ Sound(w) /\ Len(v.camps) + 1 \in DOMAIN w.camps /\ w.camps[Len(v.camps) + 1] = c
           /\ w.told[Len(v.camps) + 1] = e
<1> DEFINE cs == v.camps  n == Len(cs)  T == States \cup {"NONE"}
<1>1. /\ DOMAIN v = {"camps", "byState", "windows", "told"} /\ cs \in Seq(Campaign)
      /\ v.byState \in [States -> SUBSET (DOMAIN cs)] /\ v.windows \subseteq DOMAIN cs
      /\ v.told \in [DOMAIN cs -> T]
      /\ \A j \in DOMAIN cs : Listed(v, j)
      /\ \A j \in DOMAIN cs : Announced(cs[j], v.told[j]) /\ Grown(cs[j])
                              /\ (MinPatterns > 1 /\ cs[j].state \in OpenStates => Fits(cs[j]))
  BY DEF Sound, Indexed, Typed
<1>0. /\ DOMAIN w = DOMAIN v /\ w.camps = Append(cs, c)
      /\ w.byState = [v.byState EXCEPT !["FORMING"] = @ \cup {n + 1}]
      /\ w.windows = v.windows /\ w.told = Append(v.told, e)
  BY DEF AddedTo
<1>2. n \in Nat /\ DOMAIN cs = 1..n /\ e \in T
  BY <1>1 DEF States, OpenStates
<1> HIDE DEF n, T
<1>3. w.camps \in Seq(Campaign) /\ DOMAIN w.camps = 1..(n + 1) /\ w.camps[n + 1] = c
      /\ \A j \in 1..n : w.camps[j] = cs[j]
  BY <1>0, <1>1, <1>2 DEF n
<1>4. v.told \in Seq(T) /\ Len(v.told) = n
  BY <1>0, <1>1, <1>2
<1>5. DOMAIN w.told = 1..(n + 1) /\ w.told[n + 1] = e /\ \A j \in 1..n : w.told[j] = v.told[j] /\ v.told[j] \in T
  BY <1>0, <1>1, <1>2, <1>4
<1>6. w.told \in [1..(n + 1) -> T]
  <2>1. w.told \in Seq(T) /\ Len(w.told) = n + 1
    BY <1>0, <1>2, <1>4
  <2>2. w.told \in [1..Len(w.told) -> T]
    <3> DEFINE ws == w.told
    <3>1. ws \in Seq(T)
      BY <2>1
    <3> HIDE DEF ws
    <3>2. ws \in [1..Len(ws) -> T]
      BY <3>1
    <3> QED BY <3>2 DEF ws
  <2> QED BY <2>1, <2>2
<1>7. Typed(w)
  <2>1. w.byState \in [States -> SUBSET (1..(n + 1))]
    <3>1. DOMAIN w.byState = States /\ w.byState = [q \in States |-> w.byState[q]]
      BY <1>0, <1>1
    <3>2. ASSUME NEW q \in States PROVE w.byState[q] \subseteq 1..(n + 1)
      <4>1. v.byState[q] \subseteq 1..n
        BY <1>0, <1>1, <1>2
      <4>2. v.byState[q] \subseteq 1..(n + 1) /\ n + 1 \in 1..(n + 1)
        BY <1>2, <4>1
      <4>3. w.byState[q] = IF q = "FORMING" THEN v.byState[q] \cup {n + 1} ELSE v.byState[q]
        BY <1>0, <1>1 DEF n
      <4> QED BY <4>2, <4>3
    <3> QED BY <3>1, <3>2
  <2>2. w.windows \subseteq 1..(n + 1)
    BY <1>0, <1>1, <1>2
  <2> QED BY <1>0, <1>1, <1>3, <1>6, <2>1, <2>2 DEF Typed, T
<1>8. ASSUME NEW q \in States
      PROVE  w.byState[q] = IF q = "FORMING" THEN v.byState[q] \cup {n + 1} ELSE v.byState[q]
  BY <1>0, <1>1 DEF n
<1>9. ASSUME NEW j \in 1..(n + 1) PROVE Listed(w, j)
  <2>1. CASE j = n + 1
    <3>1. j \notin 1..n
      BY <1>2, <2>1
    <3>2. \A q \in States : j \notin v.byState[q]
      BY <1>0, <1>1, <1>2, <3>1
    <3>3. j \notin w.windows
      BY <1>0, <1>1, <1>2, <3>1
    <3> QED BY <1>0, <1>3, <1>8, <2>1, <3>2, <3>3 DEF Listed
  <2>2. CASE j # n + 1
    <3>1. j \in 1..n
      BY <1>2, <2>2
    <3>2. \A q \in States : j \in w.byState[q] <=> j \in v.byState[q]
      BY <1>8, <2>2
    <3>3. w.camps[j] = cs[j] /\ Listed(v, j)
      BY <1>0, <1>1, <1>2, <1>3, <3>1
    <3> QED BY <1>0, <3>2, <3>3 DEF Listed
  <2> QED BY <2>1, <2>2
<1>10. ASSUME NEW j \in 1..(n + 1)
       PROVE  /\ Announced(w.camps[j], w.told[j]) /\ Grown(w.camps[j])
              /\ MinPatterns > 1 /\ w.camps[j].state \in OpenStates => Fits(w.camps[j])
  <2>1. CASE j = n + 1
    <3>1. Announced(c, e)
      BY DEF Announced
    <3> QED BY <1>0, <1>3, <1>5, <2>1, <3>1
  <2>2. CASE j # n + 1
    <3>1. j \in 1..n
      BY <1>2, <2>2
    <3> QED BY <1>0, <1>1, <1>2, <1>3, <1>5, <3>1
  <2> QED BY <2>1, <2>2
<1>11. Sound(w)
  BY <1>0, <1>3, <1>7, <1>9, <1>10 DEF Sound, Indexed
<1> QED BY <1>2, <1>3, <1>5, <1>11 DEF n

LEMMA OpenSound ==
    ASSUME NEW v, Sound(v), NEW p \in Patterns, NEW t \in Times, NEW account \in {0, Account},
           NEW inBatch \in BOOLEAN, Open(v, p, t, account, inBatch)
    PROVE  \/ Store(v)
           \/ \E w, c : /\ Store(w) /\ Sound(w) /\ c \in Campaign
                        /\ w.camps = Append(v.camps, c) /\ c.state \in OpenStates /\ HasRoom(v)
                        /\ \/ c.asset = NoAsset
                           \/ c.asset = p.asset /\ p.asset \in DOMAIN GroupOf /\ CorrelationAllows(v, p.asset)
<1> DEFINE new == NewCampaign(p, t, inBatch)
           size == PositionSize(account, new.rps)
           c == [new EXCEPT !.size = size]
           i == Len(v.camps) + 1
           event == IF inBatch THEN "NONE" ELSE "FORMING"
           opened == [v EXCEPT !.camps = Append(@, c), !.byState["FORMING"] = @ \cup {i},
                               !.told = Append(@, event)]
           rally == p.kind = "AutomaticRally" /\ p.strong
           active == SetState(Phased(opened, i), i, "ACTIVE", TRUE)
<1>1. /\ new \in Campaign /\ new.kinds = <<p.kind>> /\ p.kind \in Kinds
      /\ new.state = "FORMING" /\ new.phase = "NONE"
      /\ new.asset = (IF inBatch THEN NoAsset ELSE p.asset) /\ p.asset \in DOMAIN GroupOf
  BY NewCampaignType
<1>2. size \in Nat
  <2>1. new.rps \in Int
    BY <1>1 DEF Campaign
  <2> QED BY <2>1, SizeType
<1> HIDE DEF new, size
<1>3. /\ c \in Campaign /\ c.kinds = <<p.kind>> /\ c.state = "FORMING" /\ c.phase = "NONE"
      /\ c.asset = IF inBatch THEN NoAsset ELSE p.asset
  BY <1>1, <1>2 DEF Campaign
<1> HIDE DEF c
<1>4. ValidSequence(c.kinds) /\ Len(c.kinds) = 1 /\ PhaseOf(c.kinds) \in {"B", "C", "D"}
  <2>1. PhaseOf(c.kinds) \in {"B", "C", "D"}
    BY DEF PhaseOf
  <2> QED BY <1>1, <1>3, <2>1, OnePattern
<1>5. Grown(c) /\ (MinPatterns > 1 => Fits(c))
  <2>1. PhaseRank[c.phase] <= PhaseRank[PhaseOf(c.kinds)]
    BY <1>3, <1>4 DEF PhaseRank
  <2>2. MinPatterns > 1 => ~(Len(c.kinds) >= MinPatterns)
    BY <1>4, DetectorAssumption
  <2> QED BY <1>3, <1>4, <2>1, <2>2 DEF Grown, Fits
<1>6. DOMAIN v = {"camps", "byState", "windows", "told"} /\ v.byState \in [States -> SUBSET (DOMAIN v.camps)]
      /\ v.camps \in Seq(Campaign)
  BY DEF Sound, Indexed, Typed
<1>7. AddedTo(v, c, event, opened) /\ opened.camps = Append(v.camps, c)
  BY <1>6 DEF AddedTo
<1>8. event \in {"NONE", "FORMING"}
  OBVIOUS
<1> HIDE DEF event, opened
<1>9. /\ Sound(opened) /\ i \in DOMAIN opened.camps /\ opened.camps[i] = c /\ opened.told[i] = event
  <2>1. /\ Sound(opened) /\ Len(v.camps) + 1 \in DOMAIN opened.camps
        /\ opened.camps[Len(v.camps) + 1] = c /\ opened.told[Len(v.camps) + 1] = event
    BY ONLY Sound(v), <1>3, <1>5, <1>7, <1>8, Appended
  <2> QED BY <2>1
<1>10. \/ Store(v)
       \/ /\ HasRoom(v) /\ (inBatch \/ CorrelationAllows(v, p.asset))
          /\ Store(IF rally THEN active ELSE opened)
  BY DEF Open, new, size, c, event, opened
<1>11. CASE HasRoom(v) /\ (inBatch \/ CorrelationAllows(v, p.asset)) /\ ~rally /\ Store(opened)
  <2>1. c.state \in OpenStates /\ (c.asset = NoAsset \/ (c.asset = p.asset /\ CorrelationAllows(v, p.asset)))
    BY <1>3, <1>11 DEF OpenStates
  <2> QED BY <1>1, <1>3, <1>7, <1>9, <1>11, <2>1
<1>12. CASE HasRoom(v) /\ (inBatch \/ CorrelationAllows(v, p.asset)) /\ rally /\ Store(active)
  <2>1. Indexed(opened)
    BY <1>9 DEF Sound
  <2>0. ActivatedIn(opened, i, TRUE, active)
    <3> HIDE DEF i
    <3>1. opened.camps[i].state = "FORMING" /\ i \in DOMAIN opened.camps /\ TRUE \in BOOLEAN
      BY <1>3, <1>9
    <3> QED BY <2>1, <3>1, Activated
  <2>2. PICK e \in Campaign :
          /\ active.camps = [opened.camps EXCEPT ![i] = e]
          /\ e.state = "ACTIVE" /\ e.phase = PhaseOf(e.kinds)
          /\ e.kinds = opened.camps[i].kinds /\ e.asset = opened.camps[i].asset
    BY <2>0 DEF ActivatedIn
  <2>3. /\ Indexed(active)
        /\ \A j \in DOMAIN opened.camps \ {i} : active.told[j] = opened.told[j]
        /\ active.told[i] = "ACTIVE"
    BY <2>0 DEF ActivatedIn
  <2> HIDE DEF active
  <2>4. e.kinds = c.kinds /\ e.asset = c.asset
    BY <1>9, <2>2
  <2>5. Announced(e, active.told[i])
    BY <2>2, <2>3 DEF Announced
  <2>6. Grown(e)
    <3>1. PhaseRank[e.phase] <= PhaseRank[PhaseOf(e.kinds)]
      BY <2>2, Ranks
    <3>2. Len(e.kinds) = 1
      BY <1>4, <2>4
    <3> DEFINE n == Len(e.kinds)
    <3>3. n = 1
      BY <3>2
    <3> HIDE DEF n
    <3>4. n >= 1
      BY <3>3
    <3> QED BY <3>1, <3>4 DEF Grown, n
  <2>7. Fits(e)
    BY <2>2 DEF Fits
  <2>8. Sound(active)
    BY <1>9, <2>2, <2>3, <2>5, <2>6, <2>7, OthersSound
  <2>9. active.camps = Append(v.camps, e)
    <3> DEFINE cs == v.camps  n == Len(cs)
    <3>1. cs \in Seq(Campaign) /\ n \in Nat /\ active.camps = [Append(cs, c) EXCEPT ![n + 1] = e]
      BY <1>6, <1>7, <2>2
    <3> HIDE DEF cs
    <3>2. [Append(cs, c) EXCEPT ![n + 1] = e] = Append(cs, e)
      <4>1. c \in Campaign /\ e \in Campaign
        BY <1>3
      <4>2. Append(cs, c) \in Seq(Campaign) /\ Append(cs, e) \in Seq(Campaign)
            /\ Len(Append(cs, c)) = n + 1 /\ Len(Append(cs, e)) = n + 1
        BY <3>1, <4>1
      <4>3. [Append(cs, c) EXCEPT ![n + 1] = e] \in Seq(Campaign)
        BY <3>1, <4>1, <4>2
      <4>4. DOMAIN [Append(cs, c) EXCEPT ![n + 1] = e] = 1..(n + 1) /\ DOMAIN Append(cs, e) = 1..(n + 1)
        BY <3>1, <4>2
      <4>5. \A j \in 1..(n + 1) : [Append(cs, c) EXCEPT ![n + 1] = e][j] = Append(cs, e)[j]
        <5> DEFINE ds == Append(cs, c)
        <5>1. DOMAIN ds = 1..(n + 1) /\ \A j \in 1..(n + 1) : ds[j] = IF j = n + 1 THEN c ELSE cs[j]
          BY <3>1, <4>1
        <5>2. \A j \in 1..(n + 1) : Append(cs, e)[j] = IF j = n + 1 THEN e ELSE cs[j]
          BY <3>1, <4>1
        <5> HIDE DEF ds
        <5>3. \A j \in 1..(n + 1) : [ds EXCEPT ![n + 1] = e][j] = IF j = n + 1 THEN e ELSE cs[j]
          BY <5>1
        <5> QED BY <5>2, <5>3 DEF ds
      <4> DEFINE ds == [Append(cs, c) EXCEPT ![n + 1] = e]  es == Append(cs, e)
      <4>6. ds \in Seq(Campaign) /\ es \in Seq(Campaign) /\ DOMAIN ds = DOMAIN es
            /\ \A j \in DOMAIN es : ds[j] = es[j]
        BY <4>2, <4>3, <4>4, <4>5
      <4> HIDE DEF ds, es
      <4>7. ds = es
        BY <4>6
      <4> QED BY <4>7 DEF ds, es
    <3> QED BY <3>1, <3>2 DEF cs
  <2>10. e.state \in OpenStates /\ (e.asset = NoAsset \/ (e.asset = p.asset /\ CorrelationAllows(v, p.asset)))
    BY <1>3, <1>12, <2>2, <2>4 DEF OpenStates
  <2> QED BY <1>1, <1>12, <2>8, <2>9, <2>10
<1> QED BY <1>10, <1>11, <1>12

-----------------------------------------------------------------------------
(* What a call does to the campaigns, and the invariant it keeps.          *)

\* The campaigns cs, some of the open ones expired.
Expiring(cs, es) == es = cs \/ \E ended \in SUBSET OpenIn(cs) : es = Failing(cs, ended)

Joining(cs, ds) == \E i \in DOMAIN cs, c \in Campaign : ds = [cs EXCEPT ![i] = c] /\ Becomes(cs[i], c)

Opening(cs, ds) ==
    \E c \in Campaign :
       /\ ds = Append(cs, c) /\ c.state \in OpenStates /\ Cardinality(OpenIn(cs)) < MaxConcurrent
       /\ \/ c.asset = NoAsset
          \/ c.asset \in DOMAIN GroupOf /\ CorrelationAllows([camps |-> cs], c.asset)

Completing(cs, ds) ==
    \E i \in DOMAIN cs : cs[i].state = "ACTIVE" /\ ds = [cs EXCEPT ![i] = [@ EXCEPT !.state = "COMPLETED"]]

Changing(cs, ds) ==
    \/ \E es \in Seq(Campaign) : Expiring(cs, es) /\ (ds = es \/ Joining(es, ds) \/ Opening(es, ds))
    \/ Completing(cs, ds)

Inv ==
    /\ Sound(View)
    /\ alert \in Alerts /\ recent \subseteq Alerts /\ batch \in Seq(Times)

LEMMA StoreSound == ASSUME NEW w, Sound(w), Store(w) PROVE Sound(View)'
<1>1. /\ camps' = w.camps /\ byState' = w.byState /\ windows' = w.windows /\ told' = w.told
      /\ DOMAIN w = {"camps", "byState", "windows", "told"}
  BY DEF Store, Sound, Indexed, Typed
<1>2. /\ View'.camps = w.camps /\ View'.byState = w.byState /\ View'.windows = w.windows
      /\ View'.told = w.told /\ DOMAIN View' = DOMAIN w
  BY <1>1 DEF View
<1> QED BY <1>2 DEF Sound, Indexed, Typed, Listed

LEMMA AlertTyped ==
    ASSUME NEW risk, alert \in Alerts, recent \subseteq Alerts, RaiseAlert(risk)
    PROVE  alert' \in Alerts /\ recent' \subseteq Alerts
<1>1. AlertBand(risk) \in Alerts
  BY DEF AlertBand, Alerts
<1> QED BY <1>1 DEF RaiseAlert

LEMMA OpenAlert ==
    ASSUME NEW v, NEW p, NEW t, NEW account, NEW inBatch, Open(v, p, t, account, inBatch),
           alert \in Alerts, recent \subseteq Alerts
    PROVE  alert' \in Alerts /\ recent' \subseteq Alerts
<1>1. (\E risk : RaiseAlert(risk)) \/ UNCHANGED <<alert, recent>>
  BY DEF Open
<1> QED BY <1>1, AlertTyped

LEMMA PlaceSound ==
    ASSUME NEW v, Sound(v), NEW p \in Patterns, NEW t \in Times, NEW account \in {0, Account},
           NEW inBatch \in BOOLEAN, Place(v, p, t, account, inBatch),
           alert \in Alerts, recent \subseteq Alerts
    PROVE  /\ Sound(View)' /\ alert' \in Alerts /\ recent' \subseteq Alerts
           /\ camps' = v.camps \/ Joining(v.camps, camps') \/ Opening(v.camps, camps')
<1>1. CASE \E i \in Matching(v, t) : Join(v, p, t, i, inBatch)
  <2>1. PICK i \in Matching(v, t) : Join(v, p, t, i, inBatch)
    BY <1>1
  <2>2. PICK w, c : /\ Store(w) /\ Sound(w) /\ c \in Campaign
                    /\ w.camps = [v.camps EXCEPT ![i] = c] /\ Becomes(v.camps[i], c)
    BY <2>1, JoinSound
  <2>3. Sound(View)'
    BY <2>2, StoreSound
  <2>4. UNCHANGED <<alert, recent>>
    BY <2>1 DEF Join
  <2>5. Joining(v.camps, camps')
    <3>1. i \in DOMAIN v.camps
      BY DEF Matching, OpenIn
    <3> QED BY <2>2, <3>1 DEF Store, Joining
  <2> QED BY <2>3, <2>4, <2>5
<1>2. CASE Open(v, p, t, account, inBatch)
  <2>1. alert' \in Alerts /\ recent' \subseteq Alerts
    BY <1>2, OpenAlert
  <2>2. CASE Store(v)
    <3>1. Sound(View)'
      BY <2>2, StoreSound
    <3> QED BY <2>1, <2>2, <3>1 DEF Store
  <2>3. CASE \E w, c : /\ Store(w) /\ Sound(w) /\ c \in Campaign
                       /\ w.camps = Append(v.camps, c) /\ c.state \in OpenStates /\ HasRoom(v)
                       /\ \/ c.asset = NoAsset
                          \/ c.asset = p.asset /\ p.asset \in DOMAIN GroupOf /\ CorrelationAllows(v, p.asset)
    <3>1. PICK w, c : /\ Store(w) /\ Sound(w) /\ c \in Campaign
                      /\ w.camps = Append(v.camps, c) /\ c.state \in OpenStates /\ HasRoom(v)
                      /\ \/ c.asset = NoAsset
                         \/ c.asset = p.asset /\ p.asset \in DOMAIN GroupOf /\ CorrelationAllows(v, p.asset)
      BY <2>3
    <3>2. Sound(View)'
      BY <3>1, StoreSound
    <3>3. CorrelationAllows(v, p.asset) => CorrelationAllows([camps |-> v.camps], p.asset)
      BY DEF CorrelationAllows
    <3>4. Opening(v.camps, camps')
      BY <3>1, <3>3 DEF Store, Opening, HasRoom
    <3> QED BY <2>1, <3>2, <3>4
  <2> QED BY <1>2, <2>2, <2>3, OpenSound
<1> QED BY <1>1, <1>2 DEF Place

\* The expiry at the start of a call.
LEMMA ExpirySound ==
    ASSUME Sound(View), NEW t
    PROVE  /\ Sound(Expired(View, t))
           /\ Expiring(camps, Expired(View, t).camps) /\ Expired(View, t).camps \in Seq(Campaign)
<1>1. View.camps = camps
  BY DEF View
<1> DEFINE w == Expired(View, t)
<1>2. Sound(w) /\ \E ended \in SUBSET OpenIn(camps) : w.camps = Failing(camps, ended)
  BY <1>1, ExpiredSound
<1> HIDE DEF w
<1>3. w.camps \in Seq(Campaign)
  BY <1>2 DEF Sound, Indexed, Typed
<1> QED BY <1>2, <1>3 DEF w, Expiring

LEMMA CompletionSound ==
    ASSUME Sound(View), NEW i \in DOMAIN camps, MarkCampaignCompleted(i)
    PROVE  Sound(View)' /\ Completing(camps, camps')
<1> DEFINE v == View  published == camps[i].kinds[1] # "AutomaticRally"
           w == SetState(v, i, "COMPLETED", published)  e == [camps[i] EXCEPT !.state = "COMPLETED"]
<1>1. v.camps = camps /\ v.told = told /\ Indexed(v) /\ DOMAIN told = DOMAIN camps /\ camps[i] \in Campaign
      /\ Announced(camps[i], told[i]) /\ Grown(camps[i])
  BY DEF View, Sound, Indexed, Typed
<1>2. "COMPLETED" \in States /\ published \in BOOLEAN /\ camps[i].state = "ACTIVE" /\ Store(w)
  BY DEF States, MarkCampaignCompleted
<1> HIDE DEF v
<1>3. Indexed(w) /\ w.camps = [camps EXCEPT ![i] = e]
      /\ w.told = IF published THEN [told EXCEPT ![i] = "COMPLETED"] ELSE told
  <2>1. /\ Indexed(v) /\ i \in DOMAIN v.camps /\ v.camps[i].state # "COMPLETED"
        /\ "COMPLETED" \in States /\ published \in BOOLEAN
    BY <1>1, <1>2
  <2> HIDE DEF published
  <2>2. /\ Indexed(SetState(v, i, "COMPLETED", published))
        /\ SetState(v, i, "COMPLETED", published).camps
             = [v.camps EXCEPT ![i] = [v.camps[i] EXCEPT !.state = "COMPLETED"]]
        /\ SetState(v, i, "COMPLETED", published).told
             = IF published THEN [v.told EXCEPT ![i] = "COMPLETED"] ELSE v.told
    BY <2>1, SetStateIndexed
  <2> QED BY <1>1, <2>2
<1>4. e.state = "COMPLETED" /\ e.kinds = camps[i].kinds /\ e.phase = camps[i].phase
  BY <1>1, <1>2, CampaignState
<1> HIDE DEF w, e
<1>5. Announced(e, w.told[i])
  BY <1>1, <1>2, <1>3, <1>4 DEF Announced
<1>6. Grown(e)
  BY <1>1, <1>4 DEF Grown
<1>7. \A j \in DOMAIN camps \ {i} : w.told[j] = told[j]
  BY <1>1, <1>3
<1>8. Sound(w)
  <2>1. Sound(v) /\ i \in DOMAIN v.camps /\ w.camps = [v.camps EXCEPT ![i] = e]
        /\ \A j \in DOMAIN v.camps \ {i} : w.told[j] = v.told[j]
    BY <1>1, <1>3, <1>7 DEF v
  <2>2. MinPatterns > 1 /\ e.state \in OpenStates => Fits(e)
    BY <1>4 DEF OpenStates
  <2> QED BY <1>3, <1>5, <1>6, <2>1, <2>2, OthersSound
<1>9. Completing(camps, camps')
  <2>1. camps' = [camps EXCEPT ![i] = e]
    BY <1>2, <1>3 DEF Store
  <2> QED BY <1>2, <2>1 DEF Completing, e
<1> QED BY <1>2, <1>8, <1>9, StoreSound

LEMMA InvInit == Init => Inv
<1> SUFFICES ASSUME Init PROVE Inv
  OBVIOUS
<1>1. /\ View.camps = <<>> /\ View.byState = [s \in States |-> {}] /\ View.windows = {} /\ View.told = <<>>
      /\ DOMAIN View = {"camps", "byState", "windows", "told"}
  BY DEF Init, View
<1>2. <<>> \in Seq(Campaign) /\ DOMAIN <<>> = {} /\ <<>> \in [{} -> States \cup {"NONE"}]
  OBVIOUS
<1>3. Sound(View)
  BY <1>1, <1>2 DEF Sound, Indexed, Typed
<1> QED BY <1>3 DEF Init, Inv, Alerts

LEMMA InvStep == Inv /\ [Next]_vars => Inv' /\ (camps' = camps \/ Changing(camps, camps'))
<1> SUFFICES ASSUME Inv, [Next]_vars PROVE Inv' /\ (camps' = camps \/ Changing(camps, camps'))
  OBVIOUS
<1>0. /\ Sound(View) /\ alert \in Alerts /\ recent \subseteq Alerts /\ batch \in Seq(Times)
      /\ View.camps = camps /\ camps \in Seq(Campaign)
  BY DEF Inv, View, Sound, Indexed, Typed
<1>1. CASE \E t : Store(Expired(View, t)) /\ UNCHANGED <<alert, recent>> /\ batch' \in Seq(Times)
  <2>1. PICK t : Store(Expired(View, t)) /\ UNCHANGED <<alert, recent>> /\ batch' \in Seq(Times)
    BY <1>1
  <2> DEFINE w == Expired(View, t)
  <2>2. Sound(w) /\ Expiring(camps, w.camps) /\ w.camps \in Seq(Campaign)
    BY <1>0, ExpirySound
  <2> HIDE DEF w
  <2>3. Store(w) /\ UNCHANGED <<alert, recent>> /\ batch' \in Seq(Times)
    BY <2>1 DEF w
  <2>4. Sound(View)'
    BY <2>2, <2>3, StoreSound
  <2>5. Changing(camps, camps')
    BY <2>2, <2>3 DEF Store, Changing
  <2> QED BY <1>0, <2>3, <2>4, <2>5 DEF Inv
<1>2. ASSUME NEW p \in Patterns, NEW t \in Times, NEW account \in {0, Account}, AddPattern(p, t, account)
      PROVE  Inv' /\ Changing(camps, camps')
  <2> DEFINE w == Expired(View, t)
  <2>1. Sound(w) /\ Expiring(camps, w.camps) /\ w.camps \in Seq(Campaign)
    BY <1>0, ExpirySound
  <2>2. Place(w, p, t, account, FALSE) /\ batch' = batch
    BY <1>2 DEF AddPattern
  <2> HIDE DEF w
  <2>3. /\ Sound(View)' /\ alert' \in Alerts /\ recent' \subseteq Alerts
        /\ camps' = w.camps \/ Joining(w.camps, camps') \/ Opening(w.camps, camps')
    BY <1>0, <2>1, <2>2, PlaceSound
  <2>4. Changing(camps, camps')
    BY <2>1, <2>3 DEF Changing
  <2> QED BY <1>0, <2>2, <2>3, <2>4 DEF Inv
<1>3. ASSUME NEW p \in Patterns, BatchStep(p) PROVE Inv' /\ Changing(camps, camps')
  <2>1. batch # <<>> /\ Place(View, p, Head(batch), Account, TRUE) /\ batch' = Tail(batch)
    BY <1>3 DEF BatchStep
  <2>2. Head(batch) \in Times /\ batch' \in Seq(Times)
    BY <1>0, <2>1
  <2>3. /\ Sound(View)' /\ alert' \in Alerts /\ recent' \subseteq Alerts
        /\ camps' = camps \/ Joining(camps, camps') \/ Opening(camps, camps')
    BY <1>0, <2>1, <2>2, PlaceSound
  <2>4. Changing(camps, camps')
    BY <1>0, <2>3 DEF Changing, Expiring
  <2> QED BY <2>2, <2>3, <2>4 DEF Inv
<1>4. ASSUME NEW i \in DOMAIN camps, MarkCampaignCompleted(i) PROVE Inv' /\ Changing(camps, camps')
  <2>1. Sound(View)' /\ Completing(camps, camps')
    BY <1>0, <1>4, CompletionSound
  <2> QED BY <1>0, <1>4, <2>1 DEF Inv, Changing, MarkCampaignCompleted
<1>5. ASSUME NEW a \in Alerts, RateLimitEnds(a) PROVE Inv' /\ camps' = camps
  <2>1. View' = View
    BY <1>5 DEF View, RateLimitEnds
  <2> QED BY <1>0, <1>5, <2>1 DEF Inv, RateLimitEnds
<1>6. CASE UNCHANGED vars
  <2>1. View' = View
    BY <1>6 DEF View, vars
  <2> QED BY <1>0, <1>6, <2>1 DEF Inv, vars
<1>7. ASSUME NEW t \in Times, RejectByTrend(t) \/ ExpireStaleCampaigns(t)
      PROVE  \E x : Store(Expired(View, x)) /\ UNCHANGED <<alert, recent>> /\ batch' \in Seq(Times)
  BY <1>0, <1>7 DEF RejectByTrend, ExpireStaleCampaigns
<1>8. ASSUME NEW times \in Batches, BatchBegin(times)
      PROVE  \E x : Store(Expired(View, x)) /\ UNCHANGED <<alert, recent>> /\ batch' \in Seq(Times)
  BY <1>0, <1>8, DetectorAssumption DEF BatchBegin
<1> QED BY <1>1, <1>2, <1>3, <1>4, <1>5, <1>6, <1>7, <1>8 DEF Next

LEMMA InvAlways == Spec => []Inv
<1>1. Inv /\ [Next]_vars => Inv'
  BY InvStep
<1> QED BY <1>1, InvInit, PTL DEF Spec

-----------------------------------------------------------------------------
(* Theorems.                                                               *)

\* The store, its indexes and the alert state always have their types.
THEOREM TypeCorrect == Spec => []TypeOK
<1>1. Inv => TypeOK
  BY DEF Inv, Sound, Indexed, Typed, View, TypeOK
<1> QED BY <1>1, InvAlways, PTL

\* The secondary indexes never disagree with the campaigns, whatever is added, expired,
\* batched or completed (_add_to_indexes, _update_indexes, _remove_from_indexes).
THEOREM IndexesAlwaysConsistent == Spec => []IndexesConsistent
<1>1. Inv => IndexesConsistent
  <2> SUFFICES ASSUME Inv PROVE IndexesConsistent
    OBVIOUS
  <2>1. /\ byState \in [States -> SUBSET (DOMAIN camps)] /\ windows \subseteq DOMAIN camps
        /\ \A i \in DOMAIN camps : /\ \A s \in States : i \in byState[s] <=> camps[i].state = s
                                   /\ i \in windows <=> camps[i].state = "ACTIVE"
    BY DEF Inv, Sound, Indexed, Typed, Listed, View
  <2> QED BY <2>1 DEF IndexesConsistent
<1> QED BY <1>1, InvAlways, PTL

\* Every failure is told, every completion but that of a campaign begun by a rally, and no
\* ending or activation is told that did not happen (_publish_event).
THEOREM EndingsAlwaysAnnounced == Spec => []EndingsAnnounced
<1>1. Inv => EndingsAnnounced
  BY DEF Inv, Sound, View, Announced, EndingsAnnounced
<1> QED BY <1>1, InvAlways, PTL

\* With a minimum above one pattern (the code's default and every caller's), an active
\* campaign whose patterns are in order is in the phase they call for, and one with enough
\* patterns in order is active.
THEOREM PhaseAlwaysMatches == ASSUME MinPatterns > 1 PROVE Spec => []PhaseMatchesPatterns
<1>1. Inv => PhaseMatchesPatterns
  BY DEF Inv, Sound, View, Fits, PhaseMatchesPatterns, OpenIn
<1> QED BY <1>1, InvAlways, PTL

\* The phase of a campaign never goes back, in or out of order, alone or in a batch.
THEOREM PhaseNeverGoesBack == Spec => PhaseNeverRegresses
<1> DEFINE Back(cs, ds) == \A i \in DOMAIN cs : PhaseRank[cs[i].phase] <= PhaseRank[ds[i].phase]
<1>1. ASSUME Inv, Changing(camps, camps') PROVE Back(camps, camps')
  <2>1. camps \in Seq(Campaign)
    BY <1>1 DEF Inv, View, Sound, Indexed, Typed
  <2>2. ASSUME NEW cs \in Seq(Campaign) PROVE Back(cs, cs)
    <3> SUFFICES ASSUME NEW i \in DOMAIN cs PROVE PhaseRank[cs[i].phase] <= PhaseRank[cs[i].phase]
      OBVIOUS
    <3>1. cs[i] \in Campaign
      OBVIOUS
    <3> QED BY <3>1, Ranks
  <2>3. ASSUME NEW es \in Seq(Campaign), Expiring(camps, es)
        PROVE  DOMAIN es = DOMAIN camps /\ \A i \in DOMAIN camps : es[i].phase = camps[i].phase
    <3>1. CASE es = camps
      BY <3>1
    <3>2. CASE \E ended \in SUBSET OpenIn(camps) : es = Failing(camps, ended)
      <4>1. PICK ended \in SUBSET OpenIn(camps) : es = Failing(camps, ended)
        BY <3>2
      <4>2. ended \in SUBSET (DOMAIN camps)
        BY DEF OpenIn
      <4> QED BY <2>1, <4>1, <4>2, FailingType
    <3> QED BY <2>3, <3>1, <3>2 DEF Expiring
  <2>4. ASSUME NEW es \in Seq(Campaign), Joining(es, camps') \/ Opening(es, camps') PROVE Back(es, camps')
    <3>1. CASE Joining(es, camps')
      <4>1. PICK i \in DOMAIN es, c \in Campaign : camps' = [es EXCEPT ![i] = c] /\ Becomes(es[i], c)
        BY <3>1 DEF Joining
      <4> SUFFICES ASSUME NEW j \in DOMAIN es PROVE PhaseRank[es[j].phase] <= PhaseRank[camps'[j].phase]
        OBVIOUS
      <4>2. CASE j = i
        BY <4>1, <4>2 DEF Becomes
      <4>3. CASE j # i
        <5>1. camps'[j] = es[j]
          BY <4>1, <4>3
        <5> QED BY <2>2, <5>1
      <4> QED BY <4>2, <4>3
    <3>2. CASE Opening(es, camps')
      <4>1. PICK c \in Campaign : camps' = Append(es, c)
        BY <3>2 DEF Opening
      <4> SUFFICES ASSUME NEW j \in DOMAIN es PROVE PhaseRank[es[j].phase] <= PhaseRank[camps'[j].phase]
        OBVIOUS
      <4>2. camps'[j] = es[j]
        BY <4>1
      <4> QED BY <2>2, <4>2
    <3> QED BY <2>4, <3>1, <3>2
  <2>5. CASE Completing(camps, camps')
    <3>1. PICK i \in DOMAIN camps : camps' = [camps EXCEPT ![i] = [camps[i] EXCEPT !.state = "COMPLETED"]]
      BY <2>5 DEF Completing
    <3> DEFINE e == [camps[i] EXCEPT !.state = "COMPLETED"]
    <3>2. e.phase = camps[i].phase
      <4>1. camps[i] \in Campaign
        BY <2>1
      <4> QED BY <4>1 DEF Campaign
    <3>3. camps' = [camps EXCEPT ![i] = e]
      BY <3>1
    <3> HIDE DEF e
    <3> SUFFICES ASSUME NEW j \in DOMAIN camps PROVE PhaseRank[camps[j].phase] <= PhaseRank[camps'[j].phase]
      OBVIOUS
    <3>4. camps'[j].phase = camps[j].phase
      BY <2>1, <3>2, <3>3
    <3> QED BY <2>1, <2>2, <3>4
  <2>6. CASE \E es \in Seq(Campaign) : Expiring(camps, es)
                  /\ (camps' = es \/ Joining(es, camps') \/ Opening(es, camps'))
    <3>1. PICK es \in Seq(Campaign) : Expiring(camps, es)
                  /\ (camps' = es \/ Joining(es, camps') \/ Opening(es, camps'))
      BY <2>6
    <3>2. Back(es, camps')
      BY <2>2, <2>4, <3>1
    <3>3. DOMAIN es = DOMAIN camps /\ \A i \in DOMAIN camps : es[i].phase = camps[i].phase
      BY <2>3, <3>1
    <3> QED BY <3>2, <3>3
  <2> QED BY <1>1, <2>5, <2>6 DEF Changing
<1>2. Inv /\ [Next]_vars => [Back(camps, camps')]_camps
  BY <1>1, InvStep
<1>3. PhaseNeverRegresses <=> [][Back(camps, camps')]_camps
  BY DEF PhaseNeverRegresses
<1> HIDE DEF Back
<1> QED BY <1>2, <1>3, InvAlways, PTL DEF Spec

-----------------------------------------------------------------------------
(* The lifecycle the detector implements.                                  *)

LifeOf(cs) == [i \in DOMAIN cs |-> cs[i].state]

LEMMA LifeStates ==
    ASSUME NEW cs \in Seq(Campaign)
    PROVE  /\ LifeOf(cs) \in Seq(Lifecycle!LifeStates) /\ DOMAIN LifeOf(cs) = DOMAIN cs
           /\ Lifecycle!OpenIn(LifeOf(cs)) = OpenIn(cs)
<1>1. cs \in [1..Len(cs) -> Campaign] /\ Len(cs) \in Nat /\ DOMAIN cs = 1..Len(cs)
  OBVIOUS
<1>2. \A i \in DOMAIN cs : cs[i].state \in Lifecycle!LifeStates
  BY <1>1 DEF Campaign, States, OpenStates, Lifecycle!LifeStates, Lifecycle!OpenStates
<1>3. LifeOf(cs) \in [1..Len(cs) -> Lifecycle!LifeStates]
  BY <1>1, <1>2 DEF LifeOf
<1>4. LifeOf(cs) \in Seq(Lifecycle!LifeStates)
  BY <1>1, <1>3
<1>5. Lifecycle!OpenIn(LifeOf(cs)) = OpenIn(cs)
  BY DEF LifeOf, OpenIn, OpenStates, Lifecycle!OpenIn, Lifecycle!OpenStates
<1> QED BY <1>4, <1>5 DEF LifeOf

LEMMA ExpiringLife ==
    ASSUME NEW cs \in Seq(Campaign), NEW es \in Seq(Campaign), Expiring(cs, es)
    PROVE  \E ended \in SUBSET Lifecycle!OpenIn(LifeOf(cs)) : LifeOf(es) = Lifecycle!Failed(LifeOf(cs), ended)
<1>1. CASE es = cs
  <2>1. Lifecycle!Failed(LifeOf(cs), {}) = LifeOf(cs)
    BY DEF Lifecycle!Failed, LifeOf
  <2>2. {} \in SUBSET Lifecycle!OpenIn(LifeOf(cs))
    OBVIOUS
  <2> QED BY <1>1, <2>1, <2>2
<1>2. CASE \E ended \in SUBSET OpenIn(cs) : es = Failing(cs, ended)
  <2>1. PICK ended \in SUBSET OpenIn(cs) : es = Failing(cs, ended)
    BY <1>2
  <2>2. ended \in SUBSET (DOMAIN cs)
    BY DEF OpenIn
  <2>3. /\ DOMAIN es = DOMAIN cs
        /\ \A i \in DOMAIN cs : es[i].state = IF i \in ended THEN "FAILED" ELSE cs[i].state
    BY <2>1, <2>2, FailingType
  <2>4. LifeOf(es) = Lifecycle!Failed(LifeOf(cs), ended)
    BY <2>3 DEF LifeOf, Lifecycle!Failed
  <2>5. ended \in SUBSET Lifecycle!OpenIn(LifeOf(cs))
    BY LifeStates
  <2> QED BY <2>4, <2>5
<1> QED BY <1>1, <1>2 DEF Expiring

LEMMA JoiningLife ==
    ASSUME NEW es \in Seq(Campaign), NEW ds, Joining(es, ds)
    PROVE  \/ LifeOf(ds) = LifeOf(es)
           \/ \E i \in DOMAIN LifeOf(es) :
                LifeOf(es)[i] = "FORMING" /\ LifeOf(ds) = [LifeOf(es) EXCEPT ![i] = "ACTIVE"]
<1>1. PICK i \in DOMAIN es, c \in Campaign : ds = [es EXCEPT ![i] = c] /\ Becomes(es[i], c)
  BY DEF Joining
<1>2. DOMAIN ds = DOMAIN es /\ ds[i] = c /\ \A j \in DOMAIN es \ {i} : ds[j] = es[j]
  BY <1>1
<1>3. CASE c.state = es[i].state
  <2>1. \A j \in DOMAIN es : ds[j].state = es[j].state
    BY <1>2, <1>3
  <2> QED BY <1>2, <2>1 DEF LifeOf
<1>4. CASE es[i].state = "FORMING" /\ c.state = "ACTIVE"
  <2>1. \A j \in DOMAIN es : ds[j].state = IF j = i THEN "ACTIVE" ELSE es[j].state
    BY <1>2, <1>4
  <2>2. LifeOf(ds) = [LifeOf(es) EXCEPT ![i] = "ACTIVE"] /\ LifeOf(es)[i] = "FORMING" /\ i \in DOMAIN LifeOf(es)
    BY <1>2, <1>4, <2>1 DEF LifeOf
  <2> QED BY <2>2
<1> QED BY <1>1, <1>3, <1>4 DEF Becomes

LEMMA SameCardinality == ASSUME NEW S PROVE Lifecycle!Cardinality(S) = Cardinality(S)
BY Zenon DEF Cardinality, Lifecycle!Cardinality

LEMMA OpeningLife ==
    ASSUME NEW es \in Seq(Campaign), NEW ds, Opening(es, ds)
    PROVE  /\ Lifecycle!Cardinality(Lifecycle!OpenIn(LifeOf(es))) < MaxConcurrent
           /\ \E s \in Lifecycle!OpenStates : LifeOf(ds) = Append(LifeOf(es), s)
<1>1. PICK c \in Campaign : /\ ds = Append(es, c) /\ c.state \in OpenStates
                            /\ Cardinality(OpenIn(es)) < MaxConcurrent
  BY DEF Opening
<1> DEFINE n == Len(es)  l == LifeOf(es)  s == c.state
<1>2. /\ n \in Nat /\ DOMAIN es = 1..n /\ DOMAIN ds = 1..(n + 1)
      /\ ds[n + 1] = c /\ \A j \in 1..n : ds[j] = es[j]
  BY <1>1
<1>3. DOMAIN l = 1..n /\ l \in Seq(Lifecycle!LifeStates) /\ \A j \in 1..n : l[j] = es[j].state
  BY <1>2, LifeStates DEF LifeOf
<1>4. s \in Lifecycle!LifeStates /\ s \in Lifecycle!OpenStates
  BY <1>1 DEF OpenStates, Lifecycle!LifeStates, Lifecycle!OpenStates
<1>5. /\ DOMAIN LifeOf(ds) = 1..(n + 1) /\ LifeOf(ds)[n + 1] = s
      /\ \A j \in 1..n : LifeOf(ds)[j] = es[j].state
      /\ LifeOf(ds) = [j \in 1..(n + 1) |-> LifeOf(ds)[j]]
  BY <1>2 DEF LifeOf
<1>6. LifeOf(ds) = Append(l, s)
  <2> DEFINE m == LifeOf(ds)  k == Append(l, s)
  <2>1. m \in Seq(Lifecycle!LifeStates)
    <3>1. ds \in Seq(Campaign)
      BY <1>1
    <3> QED BY <3>1, LifeStates
  <2>2. /\ DOMAIN m = 1..(n + 1) /\ m[n + 1] = s
        /\ \A j \in 1..n : m[j] = l[j]
    BY <1>3, <1>5
  <2> HIDE DEF l, s, m, n
  <2>3. Len(l) = n /\ l \in Seq(Lifecycle!LifeStates) /\ n \in Nat
    BY <1>2, <1>3
  <2>4. k \in Seq(Lifecycle!LifeStates) /\ DOMAIN k = 1..(n + 1) /\ k[n + 1] = s
        /\ \A j \in 1..n : k[j] = l[j]
    BY <1>4, <2>3
  <2> HIDE DEF k
  <2>5. \A j \in 1..(n + 1) : m[j] = k[j]
    BY <2>2, <2>3, <2>4
  <2>6. m = k
    <3> DEFINE T == Lifecycle!LifeStates
    <3>1. m \in Seq(T) /\ k \in Seq(T) /\ DOMAIN m = DOMAIN k /\ \A j \in DOMAIN k : m[j] = k[j]
      BY <2>1, <2>2, <2>4, <2>5
    <3> HIDE DEF T
    <3> QED BY <3>1
  <2> QED BY <2>6 DEF m, k
<1> QED BY <1>1, <1>4, <1>6, LifeStates, SameCardinality

\* Single patterns, batches, expiry and completion are steps of the abstract lifecycle: at most
\* MaxConcurrent campaigns are open, and an ended one never changes again.
THEOREM DetectorImplementsLifecycle == Spec => LifecycleSpec
<1> DEFINE life == LifeOf(camps)
<1>1. /\ life = [i \in DOMAIN camps |-> camps[i].state]
      /\ life' = [i \in DOMAIN camps' |-> camps'[i].state]
  BY DEF LifeOf
<1>2. Init => Lifecycle!Init
  BY DEF Init, Lifecycle!Init
<1>3. ASSUME Inv, Changing(camps, camps') PROVE Lifecycle!Next
  <2>1. camps \in Seq(Campaign) /\ DOMAIN life = DOMAIN camps
    BY <1>3 DEF Inv, View, Sound, Indexed, Typed, LifeOf
  <2>2. life' = LifeOf(camps')
    BY DEF LifeOf
  <2>3. CASE Completing(camps, camps')
    <3>1. PICK i \in DOMAIN camps : camps[i].state = "ACTIVE"
                 /\ camps' = [camps EXCEPT ![i] = [camps[i] EXCEPT !.state = "COMPLETED"]]
      BY <2>3 DEF Completing
    <3> DEFINE e == [camps[i] EXCEPT !.state = "COMPLETED"]
    <3>2. e.state = "COMPLETED" /\ camps' = [camps EXCEPT ![i] = e]
      <4>1. camps[i] \in Campaign
        BY <2>1
      <4> QED BY <3>1, <4>1 DEF Campaign
    <3> HIDE DEF e
    <3>3. DOMAIN camps' = DOMAIN camps
          /\ \A j \in DOMAIN camps : camps'[j].state = IF j = i THEN "COMPLETED" ELSE camps[j].state
      BY <2>1, <3>2
    <3>4. life' = [life EXCEPT ![i] = "COMPLETED"] /\ life[i] = "ACTIVE"
      BY <3>1, <3>3 DEF LifeOf
    <3> HIDE DEF life
    <3> QED BY <1>1, <2>1, <3>4 DEF Lifecycle!Next, Lifecycle!Complete
  <2>4. CASE \E es \in Seq(Campaign) : Expiring(camps, es)
                  /\ (camps' = es \/ Joining(es, camps') \/ Opening(es, camps'))
    <3>1. PICK es \in Seq(Campaign) : Expiring(camps, es)
                  /\ (camps' = es \/ Joining(es, camps') \/ Opening(es, camps'))
      BY <2>4
    <3>2. PICK ended \in SUBSET Lifecycle!OpenIn(life) : LifeOf(es) = Lifecycle!Failed(life, ended)
      BY <2>1, <3>1, ExpiringLife
    <3> HIDE DEF life
    <3>3. CASE life' = LifeOf(es)
      BY <1>1, <3>2, <3>3 DEF Lifecycle!Next, Lifecycle!Expire
    <3>4. CASE Opening(es, camps')
      <4>1. /\ Lifecycle!Cardinality(Lifecycle!OpenIn(LifeOf(es))) < MaxConcurrent
            /\ \E s \in Lifecycle!OpenStates : life' = Append(LifeOf(es), s)
        BY <2>2, <3>4, OpeningLife
      <4>2. PICK s \in Lifecycle!OpenStates : life' = Append(Lifecycle!Failed(life, ended), s)
        BY <3>2, <4>1
      <4>3. Lifecycle!Cardinality(Lifecycle!OpenIn(Lifecycle!Failed(life, ended))) < MaxConcurrent
        BY <3>2, <4>1
      <4>4. Lifecycle!Open
        <5>1. [i \in DOMAIN camps' |-> camps'[i].state]
                = Append(Lifecycle!Failed([i \in DOMAIN camps |-> camps[i].state], ended), s)
          BY <1>1, <4>2
        <5>2. /\ Lifecycle!Cardinality(Lifecycle!OpenIn(Lifecycle!Failed([i \in DOMAIN camps |-> camps[i].state], ended)))
                   < MaxConcurrent
              /\ ended \in SUBSET Lifecycle!OpenIn([i \in DOMAIN camps |-> camps[i].state])
          BY <1>1, <3>2, <4>3
        <5> QED BY <5>1, <5>2, Zenon DEF Lifecycle!Open
      <4> QED BY <4>4 DEF Lifecycle!Next
    <3>5. CASE \E i \in DOMAIN LifeOf(es) :
                 LifeOf(es)[i] = "FORMING" /\ life' = [LifeOf(es) EXCEPT ![i] = "ACTIVE"]
      <4>1. DOMAIN LifeOf(es) = DOMAIN life
        BY <3>2 DEF Lifecycle!Failed
      <4> QED BY <1>1, <3>2, <3>5, <4>1 DEF Lifecycle!Next, Lifecycle!Activate
    <3>6. CASE Joining(es, camps')
      BY <2>2, <3>3, <3>5, <3>6, JoiningLife
    <3> QED BY <2>2, <3>1, <3>3, <3>4, <3>6
  <2> QED BY <1>3, <2>3, <2>4 DEF Changing
<1>4. Inv /\ [Next]_vars => [Lifecycle!Next]_([i \in DOMAIN camps |-> camps[i].state])
  <2> SUFFICES ASSUME Inv, [Next]_vars, camps' # camps
               PROVE  Lifecycle!Next
    OBVIOUS
  <2> QED BY <1>3, InvStep
<1> QED BY <1>2, <1>4, InvAlways, PTL DEF Spec, LifecycleSpec, Lifecycle!Spec

Promised == INSTANCE CampaignLifecycleProofs WITH life <- [i \in DOMAIN camps |-> camps[i].state]

\* The two instances of the lifecycle are the same.
LEMMA SamePromise ==
    /\ Lifecycle!Init <=> Promised!Init
    /\ Lifecycle!Next <=> Promised!Next
    /\ Lifecycle!ConcurrencyBounded <=> Promised!ConcurrencyBounded
<1>0. \A S : Lifecycle!Cardinality(S) = Promised!Cardinality(S)
  BY Zenon DEF Lifecycle!Cardinality, Promised!Cardinality
<1>1. Lifecycle!Init <=> Promised!Init
  BY DEF Lifecycle!Init, Promised!Init
<1>2. Lifecycle!OpenStates = Promised!OpenStates
  BY DEF Lifecycle!OpenStates, Promised!OpenStates
<1>3. \A l : Lifecycle!OpenIn(l) = Promised!OpenIn(l)
  BY <1>2, Zenon DEF Lifecycle!OpenIn, Promised!OpenIn
<1>4. \A l, e : Lifecycle!Failed(l, e) = Promised!Failed(l, e)
  BY Zenon DEF Lifecycle!Failed, Promised!Failed
<1>5. Lifecycle!Expire <=> Promised!Expire
  BY <1>3, <1>4, Zenon DEF Lifecycle!Expire, Promised!Expire
<1>6. Lifecycle!Open <=> Promised!Open
  BY <1>0, <1>2, <1>3, <1>4, Zenon DEF Lifecycle!Open, Promised!Open
<1>7. Lifecycle!Activate <=> Promised!Activate
  BY <1>3, <1>4, Zenon DEF Lifecycle!Activate, Promised!Activate
<1>8. Lifecycle!Complete <=> Promised!Complete
  BY Zenon DEF Lifecycle!Complete, Promised!Complete
<1>9. Lifecycle!ConcurrencyBounded <=> Promised!ConcurrencyBounded
  BY <1>0, <1>3, Zenon DEF Lifecycle!ConcurrencyBounded, Promised!ConcurrencyBounded
<1> QED BY <1>1, <1>5, <1>6, <1>7, <1>8, <1>9 DEF Lifecycle!Next, Promised!Next

\* What is proved of the lifecycle holds of the detector: no more than max_concurrent_campaigns
\* campaigns are ever open, and an ended one never changes again.
THEOREM DetectorKeepsPromises == Spec => []Lifecycle!ConcurrencyBounded /\ Lifecycle!EndingsAreFinal
<1>0. MaxConcurrent \in Nat
  BY DetectorAssumption
<1>1. Promised!Spec => []Promised!ConcurrencyBounded
  BY <1>0, Promised!ConcurrencyAlwaysBounded
<1>2. Promised!Spec => Promised!EndingsAreFinal
  BY <1>0, Promised!EndingsStayFinal
<1>3. LifecycleSpec => Promised!Spec
  BY SamePromise, PTL DEF LifecycleSpec, Lifecycle!Spec, Promised!Spec
<1>4. Promised!EndingsAreFinal <=> Lifecycle!EndingsAreFinal
  BY DEF Promised!EndingsAreFinal, Lifecycle!EndingsAreFinal
<1> QED BY <1>1, <1>2, <1>3, <1>4, SamePromise, DetectorImplementsLifecycle, PTL

-----------------------------------------------------------------------------
(* The correlation limits.                                                 *)

\* What is open in ds was open in cs, with the same correlation data.
Keeps(cs, ds) ==
    \A i \in OpenIn(ds) : i \in DOMAIN cs /\ cs[i].state \in OpenStates /\ ds[i].asset = cs[i].asset

LEMMA SharingFinite ==
    ASSUME NEW cs \in Seq(Campaign), NEW f, NEW x
    PROVE  IsFiniteSet(Sharing(cs, f, x)) /\ Cardinality(Sharing(cs, f, x)) \in Nat
           /\ Sharing(cs, f, x) \subseteq 1..Len(cs)
<1>1. Sharing(cs, f, x) \subseteq 1..Len(cs)
  BY DEF Sharing, OpenIn
<1>2. IsFiniteSet(1..Len(cs))
  <2>1. Len(cs) \in Nat
    OBVIOUS
  <2> QED BY <2>1, FS_Interval
<1>3. IsFiniteSet(Sharing(cs, f, x))
  BY <1>1, <1>2, FS_Subset
<1> QED BY <1>1, <1>3, FS_CardinalityType

LEMMA SharingKept ==
    ASSUME NEW cs \in Seq(Campaign), NEW ds \in Seq(Campaign), Keeps(cs, ds), NEW f, NEW x
    PROVE  Cardinality(Sharing(ds, f, x)) <= Cardinality(Sharing(cs, f, x))
<1>1. Sharing(ds, f, x) \subseteq Sharing(cs, f, x)
  BY DEF Sharing, OpenIn, Keeps
<1> QED BY <1>1, SharingFinite, FS_Subset

\* A new campaign is one more of those that share its data, and of no others.
LEMMA SharingOpened ==
    ASSUME NEW cs \in Seq(Campaign), NEW c \in Campaign, NEW f, NEW x, NEW limit \in Nat,
           Cardinality(Sharing(cs, f, x)) <= limit,
           c.asset # NoAsset /\ f[c.asset] = x => Cardinality(Sharing(cs, f, x)) < limit
    PROVE  Cardinality(Sharing(Append(cs, c), f, x)) <= limit
<1> DEFINE ds == Append(cs, c)  n == Len(cs) + 1
           S == Sharing(cs, f, x)  T == Sharing(ds, f, x)  a == Cardinality(S)  b == Cardinality(T)
<1>1. DOMAIN ds = 1..n /\ n \in Nat /\ ds[n] = c /\ \A i \in 1..n : i # n => i \in DOMAIN cs /\ ds[i] = cs[i]
  OBVIOUS
<1>2. ds \in Seq(Campaign)
  OBVIOUS
<1>3. IsFiniteSet(S) /\ a \in Nat /\ IsFiniteSet(T) /\ b \in Nat /\ n \notin S
  <2>1. S \subseteq 1..Len(cs) /\ Len(cs) \in Nat
    BY SharingFinite
  <2>2. n \notin S
    BY <2>1
  <2> QED BY <1>2, <2>2, SharingFinite
<1> HIDE DEF ds, n
<1>4. \A i \in T : i # n => i \in S
  BY <1>1 DEF Sharing, OpenIn
<1>5. n \in T => c.asset # NoAsset /\ f[c.asset] = x
  BY <1>1 DEF Sharing
<1> HIDE DEF S, T
<1>6. a <= limit /\ (n \in T => a < limit)
  BY <1>5 DEF S
<1>7. CASE n \in T
  <2>1. T \subseteq S \cup {n}
    BY <1>4
  <2>2. IsFiniteSet(S \cup {n}) /\ Cardinality(S \cup {n}) = a + 1
    BY <1>3, FS_AddElement
  <2>3. b <= a + 1
    BY <2>1, <2>2, FS_Subset
  <2> HIDE DEF a, b
  <2>4. b <= limit
    BY <1>3, <1>6, <1>7, <2>3
  <2> QED BY <2>4 DEF b, T, ds
<1>8. CASE n \notin T
  <2>1. T \subseteq S
    BY <1>4, <1>8
  <2>2. b <= a
    BY <1>3, <2>1, FS_Subset
  <2> HIDE DEF a, b
  <2>3. b <= limit
    BY <1>3, <1>6, <2>2
  <2> QED BY <2>3 DEF b, T, ds
<1> QED BY <1>7, <1>8

LEMMA ExpiringKeeps ==
    ASSUME NEW cs \in Seq(Campaign), NEW es \in Seq(Campaign), Expiring(cs, es)
    PROVE  Keeps(cs, es)
<1>1. CASE es = cs
  BY <1>1 DEF Keeps, OpenIn
<1>2. CASE \E ended \in SUBSET OpenIn(cs) : es = Failing(cs, ended)
  <2>1. PICK ended \in SUBSET OpenIn(cs) : es = Failing(cs, ended)
    BY <1>2
  <2>2. ended \in SUBSET (DOMAIN cs)
    BY DEF OpenIn
  <2>3. /\ DOMAIN es = DOMAIN cs
        /\ \A i \in DOMAIN cs : /\ es[i].state = IF i \in ended THEN "FAILED" ELSE cs[i].state
                                /\ es[i].asset = cs[i].asset
    BY <2>1, <2>2, FailingType
  <2> QED BY <2>3 DEF Keeps, OpenIn, OpenStates
<1> QED BY <1>1, <1>2 DEF Expiring

LEMMA JoiningKeeps ==
    ASSUME NEW cs \in Seq(Campaign), NEW ds, Joining(cs, ds) \/ Completing(cs, ds)
    PROVE  Keeps(cs, ds) /\ ds \in Seq(Campaign)
<1>1. \E i \in DOMAIN cs, c \in Campaign :
         /\ ds = [cs EXCEPT ![i] = c] /\ c.asset = cs[i].asset
         /\ c.state \in OpenStates => cs[i].state \in OpenStates
  <2>1. CASE Joining(cs, ds)
    BY <2>1 DEF Joining, Becomes, OpenStates
  <2>2. CASE Completing(cs, ds)
    <3>1. PICK i \in DOMAIN cs : ds = [cs EXCEPT ![i] = [cs[i] EXCEPT !.state = "COMPLETED"]]
      BY <2>2 DEF Completing
    <3> DEFINE e == [cs[i] EXCEPT !.state = "COMPLETED"]
    <3>2. e \in Campaign /\ e.asset = cs[i].asset /\ e.state = "COMPLETED"
      <4>1. cs[i] \in Campaign /\ "COMPLETED" \in States
        BY DEF States
      <4> QED BY <4>1, CampaignState
    <3>3. ds = [cs EXCEPT ![i] = e]
      BY <3>1
    <3> HIDE DEF e
    <3> QED BY <3>2, <3>3 DEF OpenStates
  <2> QED BY <2>1, <2>2
<1>2. PICK i \in DOMAIN cs, c \in Campaign :
         /\ ds = [cs EXCEPT ![i] = c] /\ c.asset = cs[i].asset
         /\ c.state \in OpenStates => cs[i].state \in OpenStates
  BY <1>1
<1>3. DOMAIN ds = DOMAIN cs /\ ds[i] = c /\ \A j \in DOMAIN cs \ {i} : ds[j] = cs[j]
  BY <1>2
<1>4. Keeps(cs, ds)
  BY <1>2, <1>3 DEF Keeps, OpenIn
<1>5. ds \in Seq(Campaign)
  <2>1. cs \in [1..Len(cs) -> Campaign] /\ Len(cs) \in Nat
    OBVIOUS
  <2>2. ds \in [1..Len(cs) -> Campaign]
    BY <1>2, <2>1
  <2> QED BY <2>1, <2>2
<1> QED BY <1>4, <1>5

\* No correlation group and no sector has more open campaigns with correlation data than its
\* limit, however campaigns are opened, expired and completed (_check_correlation_limits).
THEOREM CorrelationAlwaysBounded == Spec => []CorrelationBounded
<1> DEFINE Bounded(cs) ==
      /\ \A a \in DOMAIN GroupOf : Cardinality(Sharing(cs, GroupOf, GroupOf[a])) <= MaxPerGroup
      /\ \A a \in DOMAIN SectorOf :
            SectorOf[a] # NoSector => Cardinality(Sharing(cs, SectorOf, SectorOf[a])) <= MaxPerSector
<1>1. Init => Bounded(camps)
  <2> SUFFICES ASSUME Init PROVE Bounded(camps)
    OBVIOUS
  <2>1. \A f, x : Sharing(camps, f, x) = {}
    BY DEF Init, Sharing, OpenIn
  <2>2. Cardinality({}) = 0 /\ 0 <= MaxPerGroup /\ 0 <= MaxPerSector
    BY FS_EmptySet, DetectorAssumption
  <2> QED BY <2>1, <2>2
<1>2. ASSUME NEW cs \in Seq(Campaign), NEW ds \in Seq(Campaign), Keeps(cs, ds), Bounded(cs)
      PROVE  Bounded(ds)
  <2>1. ASSUME NEW f, NEW x, NEW limit \in Nat, Cardinality(Sharing(cs, f, x)) <= limit
        PROVE  Cardinality(Sharing(ds, f, x)) <= limit
    <3> DEFINE m == Cardinality(Sharing(cs, f, x))  n == Cardinality(Sharing(ds, f, x))
    <3>1. n <= m /\ m \in Nat /\ n \in Nat /\ m <= limit
      BY <1>2, <2>1, SharingFinite, SharingKept
    <3> HIDE DEF m, n
    <3>2. n <= limit
      BY <3>1
    <3> QED BY <3>2 DEF n
  <2> QED BY <1>2, <2>1, DetectorAssumption
<1>3. ASSUME NEW cs \in Seq(Campaign), NEW ds, Opening(cs, ds), Bounded(cs)
      PROVE  Bounded(ds)
  <2>1. PICK c \in Campaign :
          /\ ds = Append(cs, c)
          /\ \/ c.asset = NoAsset
             \/ c.asset \in DOMAIN GroupOf /\ CorrelationAllows([camps |-> cs], c.asset)
    BY <1>3 DEF Opening
  <2>2. c.asset # NoAsset =>
          /\ Cardinality(Sharing(cs, GroupOf, GroupOf[c.asset])) < MaxPerGroup
          /\ SectorOf[c.asset] # NoSector => Cardinality(Sharing(cs, SectorOf, SectorOf[c.asset])) < MaxPerSector
    BY <2>1 DEF CorrelationAllows
  <2>3. ASSUME NEW a \in DOMAIN GroupOf
        PROVE  Cardinality(Sharing(ds, GroupOf, GroupOf[a])) <= MaxPerGroup
    <3>1. Cardinality(Sharing(cs, GroupOf, GroupOf[a])) <= MaxPerGroup /\ MaxPerGroup \in Nat
      BY <1>3, DetectorAssumption
    <3>2. c.asset # NoAsset /\ GroupOf[c.asset] = GroupOf[a]
            => Cardinality(Sharing(cs, GroupOf, GroupOf[a])) < MaxPerGroup
      BY <2>2
    <3>3. Cardinality(Sharing(Append(cs, c), GroupOf, GroupOf[a])) <= MaxPerGroup
      BY <3>1, <3>2, SharingOpened
    <3> QED BY <2>1, <3>3
  <2>4. ASSUME NEW a \in DOMAIN SectorOf, SectorOf[a] # NoSector
        PROVE  Cardinality(Sharing(ds, SectorOf, SectorOf[a])) <= MaxPerSector
    <3>1. Cardinality(Sharing(cs, SectorOf, SectorOf[a])) <= MaxPerSector /\ MaxPerSector \in Nat
      BY <1>3, <2>4, DetectorAssumption
    <3>2. c.asset # NoAsset /\ SectorOf[c.asset] = SectorOf[a]
            => Cardinality(Sharing(cs, SectorOf, SectorOf[a])) < MaxPerSector
      BY <2>2, <2>4
    <3>3. Cardinality(Sharing(Append(cs, c), SectorOf, SectorOf[a])) <= MaxPerSector
      BY <3>1, <3>2, SharingOpened
    <3> QED BY <2>1, <3>3
  <2> QED BY <2>3, <2>4
<1>4. ASSUME Inv, Bounded(camps), Changing(camps, camps') PROVE Bounded(camps')
  <2>1. camps \in Seq(Campaign)
    BY <1>4 DEF Inv, View, Sound, Indexed, Typed
  <2>2. CASE Completing(camps, camps')
    BY <1>2, <1>4, <2>1, <2>2, JoiningKeeps
  <2>3. CASE \E es \in Seq(Campaign) : Expiring(camps, es)
                  /\ (camps' = es \/ Joining(es, camps') \/ Opening(es, camps'))
    <3>1. PICK es \in Seq(Campaign) : Expiring(camps, es)
                  /\ (camps' = es \/ Joining(es, camps') \/ Opening(es, camps'))
      BY <2>3
    <3>2. Bounded(es)
      BY <1>2, <1>4, <2>1, <3>1, ExpiringKeeps
    <3> HIDE DEF Bounded
    <3>3. CASE Joining(es, camps')
      BY <1>2, <3>2, <3>3, JoiningKeeps
    <3>4. CASE Opening(es, camps')
      BY <1>3, <3>2, <3>4
    <3> QED BY <3>1, <3>2, <3>3, <3>4
  <2> HIDE DEF Bounded
  <2> QED BY <1>4, <2>2, <2>3 DEF Changing
<1>5. Inv /\ Bounded(camps) /\ [Next]_vars => Bounded(camps)'
  <2> SUFFICES ASSUME Inv, Bounded(camps), [Next]_vars PROVE Bounded(camps')
    OBVIOUS
  <2>1. CASE camps' = camps
    BY <2>1
  <2>2. CASE Changing(camps, camps')
    <3> HIDE DEF Bounded
    <3> QED BY <1>4, <2>2
  <2> QED BY <2>1, <2>2, InvStep
<1>6. CorrelationBounded <=> Bounded(camps)
  BY DEF CorrelationBounded
<1> HIDE DEF Bounded
<1> QED BY <1>1, <1>5, <1>6, InvAlways, PTL DEF Spec
=============================================================================
