----------------------- MODULE CampaignLifecycleProofs -----------------------
(***************************************************************************)
(* The abstract lifecycle keeps its promises for every MaxConcurrent.      *)
(***************************************************************************)
EXTENDS CampaignLifecycle, FiniteSetTheorems, TLAPS

LEMMA OpenIsFinite ==
    ASSUME NEW l \in Seq(LifeStates)
    PROVE  /\ IsFiniteSet(OpenIn(l)) /\ Cardinality(OpenIn(l)) \in Nat
           /\ \A S \in SUBSET OpenIn(l) : Cardinality(S) \in Nat /\ Cardinality(S) <= Cardinality(OpenIn(l))
<1>1. DOMAIN l = 1..Len(l) /\ Len(l) \in Nat
  OBVIOUS
<1>2. IsFiniteSet(1..Len(l))
  BY <1>1, FS_Interval
<1>3. OpenIn(l) \subseteq 1..Len(l)
  BY <1>1 DEF OpenIn
<1>4. IsFiniteSet(OpenIn(l))
  BY <1>2, <1>3, FS_Subset
<1> QED BY <1>4, FS_Subset, FS_CardinalityType

\* Failing open campaigns keeps every campaign and opens none.
LEMMA FailedIsSmaller ==
    ASSUME NEW l \in Seq(LifeStates), NEW ended \in SUBSET OpenIn(l)
    PROVE  /\ Failed(l, ended) \in Seq(LifeStates)
           /\ DOMAIN Failed(l, ended) = DOMAIN l
           /\ OpenIn(Failed(l, ended)) \subseteq OpenIn(l)
<1>1. DOMAIN l = 1..Len(l) /\ Len(l) \in Nat /\ \A i \in DOMAIN l : l[i] \in LifeStates
  OBVIOUS
<1>2. DOMAIN Failed(l, ended) = 1..Len(l) /\ \A i \in 1..Len(l) : Failed(l, ended)[i] \in LifeStates
  BY <1>1 DEF Failed, LifeStates
<1>3. Failed(l, ended) \in [1..Len(l) -> LifeStates]
  BY <1>1 DEF Failed, LifeStates
<1>4. Failed(l, ended) \in Seq(LifeStates)
  BY <1>1, <1>3
<1>5. OpenIn(Failed(l, ended)) \subseteq OpenIn(l)
  BY <1>1 DEF OpenIn, Failed, OpenStates
<1> QED BY <1>1, <1>2, <1>4, <1>5

LEMMA OneReplaced ==
    ASSUME NEW l \in Seq(LifeStates), NEW i \in DOMAIN l, NEW s \in LifeStates
    PROVE  [l EXCEPT ![i] = s] \in Seq(LifeStates)
<1>1. DOMAIN l = 1..Len(l) /\ Len(l) \in Nat /\ \A j \in DOMAIN l : l[j] \in LifeStates
  OBVIOUS
<1>2. [l EXCEPT ![i] = s] \in [1..Len(l) -> LifeStates]
  BY <1>1
<1> QED BY <1>1, <1>2

LEMMA LifecycleStep ==
    ASSUME MaxConcurrent \in Nat
    PROVE  TypeOK /\ ConcurrencyBounded /\ [Next]_life => TypeOK' /\ ConcurrencyBounded'
<1> SUFFICES ASSUME TypeOK, ConcurrencyBounded, [Next]_life PROVE TypeOK' /\ ConcurrencyBounded'
  OBVIOUS
<1> USE DEF TypeOK, ConcurrencyBounded
<1>0. IsFiniteSet(OpenIn(life)) /\ Cardinality(OpenIn(life)) \in Nat
  BY OpenIsFinite
<1>1. ASSUME NEW ended \in SUBSET OpenIn(life)
      PROVE  /\ Cardinality(OpenIn(Failed(life, ended))) \in Nat
             /\ Cardinality(OpenIn(Failed(life, ended))) <= MaxConcurrent
  BY <1>0, FailedIsSmaller, OpenIsFinite
<1>2. CASE Expire
  BY <1>1, <1>2, FailedIsSmaller DEF Expire
<1>3. CASE Open
  <2> PICK ended \in SUBSET OpenIn(life), s \in OpenStates :
             /\ Cardinality(OpenIn(Failed(life, ended))) < MaxConcurrent
             /\ life' = Append(Failed(life, ended), s)
    BY <1>3 DEF Open
  <2> DEFINE l == Failed(life, ended)
  <2>1. l \in Seq(LifeStates) /\ life' = Append(l, s) /\ s \in LifeStates
        /\ Cardinality(OpenIn(l)) < MaxConcurrent
    BY FailedIsSmaller DEF LifeStates
  <2> HIDE DEF l
  <2>2. life' \in Seq(LifeStates)
    BY <2>1
  <2>3. OpenIn(life') = OpenIn(l) \cup {Len(l) + 1}
    <3>1. DOMAIN l = 1..Len(l) /\ Len(l) \in Nat /\ DOMAIN life' = 1..(Len(l) + 1)
      BY <2>1
    <3>2. life'[Len(l) + 1] \in OpenStates /\ \A i \in 1..Len(l) : life'[i] = l[i]
      BY <2>1
    <3>3. 1..(Len(l) + 1) = 1..Len(l) \cup {Len(l) + 1} /\ Len(l) + 1 \notin 1..Len(l)
      BY <3>1
    <3> QED BY <3>1, <3>2, <3>3 DEF OpenIn
  <2>4. IsFiniteSet(OpenIn(l)) /\ Cardinality(OpenIn(l)) \in Nat
    BY <2>1, OpenIsFinite
  <2>5. Cardinality(OpenIn(l) \cup {Len(l) + 1}) <= Cardinality(OpenIn(l)) + 1
    <3> DEFINE S == OpenIn(l)
               n == Len(l) + 1
    <3>1. Cardinality(S \cup {n}) = IF n \in S THEN Cardinality(S) ELSE Cardinality(S) + 1
      BY <2>4, FS_AddElement
    <3> QED BY <2>4, <3>1
  <2>6. Cardinality(OpenIn(life')) \in Nat
    BY <2>2, OpenIsFinite
  <2> QED BY <2>1, <2>2, <2>3, <2>4, <2>5, <2>6
<1>4. CASE Activate
  <2> PICK ended \in SUBSET OpenIn(life), i \in DOMAIN life :
             /\ Failed(life, ended)[i] = "FORMING"
             /\ life' = [Failed(life, ended) EXCEPT ![i] = "ACTIVE"]
    BY <1>4 DEF Activate
  <2> DEFINE l == Failed(life, ended)
  <2>1. l \in Seq(LifeStates) /\ i \in DOMAIN l /\ l[i] = "FORMING" /\ life' = [l EXCEPT ![i] = "ACTIVE"]
    BY FailedIsSmaller
  <2>2. Cardinality(OpenIn(l)) <= MaxConcurrent
    BY <1>1
  <2> HIDE DEF l
  <2>3. life' \in Seq(LifeStates)
    <3>1. "ACTIVE" \in LifeStates
      BY DEF LifeStates, OpenStates
    <3>2. \A s \in LifeStates : [l EXCEPT ![i] = s] \in Seq(LifeStates)
      BY <2>1, OneReplaced
    <3> QED BY <2>1, <3>1, <3>2
  <2>4. OpenIn(life') = OpenIn(l)
    BY <2>1 DEF OpenIn, OpenStates
  <2> QED BY <2>2, <2>3, <2>4
<1>5. CASE Complete
  <2> PICK i \in DOMAIN life : life[i] = "ACTIVE" /\ life' = [life EXCEPT ![i] = "COMPLETED"]
    BY <1>5 DEF Complete
  <2>1. life' \in Seq(LifeStates)
    BY DEF LifeStates
  <2>2. OpenIn(life') \subseteq OpenIn(life)
    BY DEF OpenIn, OpenStates
  <2>3. Cardinality(OpenIn(life')) <= Cardinality(OpenIn(life)) /\ Cardinality(OpenIn(life')) \in Nat
    BY <2>2, OpenIsFinite
  <2> QED BY <1>0, <2>1, <2>3
<1>6. CASE UNCHANGED life
  BY <1>6
<1> QED BY <1>2, <1>3, <1>4, <1>5, <1>6 DEF Next

LEMMA LifecycleInit ==
    ASSUME MaxConcurrent \in Nat
    PROVE  Init => TypeOK /\ ConcurrencyBounded
<1> SUFFICES ASSUME Init PROVE TypeOK /\ ConcurrencyBounded
  OBVIOUS
<1>1. life \in Seq(LifeStates) /\ OpenIn(life) = {}
  BY DEF Init, OpenIn
<1> QED BY <1>1, FS_EmptySet DEF TypeOK, ConcurrencyBounded

\* However many calls open, expire and complete campaigns, at most MaxConcurrent are open.
THEOREM ConcurrencyAlwaysBounded ==
    ASSUME MaxConcurrent \in Nat
    PROVE  Spec => []ConcurrencyBounded
BY LifecycleInit, LifecycleStep, PTL DEF Spec

\* No call forgets a campaign, changes an ended one, or completes one that is still forming.
THEOREM EndingsStayFinal ==
    ASSUME MaxConcurrent \in Nat
    PROVE  Spec => EndingsAreFinal
<1>1. TypeOK /\ [Next]_life =>
        [/\ DOMAIN life \subseteq DOMAIN life'
         /\ \A i \in DOMAIN life :
              /\ life[i] \in {"COMPLETED", "FAILED"} => life'[i] = life[i]
              /\ life[i] = "FORMING" => life'[i] # "COMPLETED"]_life
  <2> SUFFICES ASSUME TypeOK, Next
               PROVE  /\ DOMAIN life \subseteq DOMAIN life'
                      /\ \A i \in DOMAIN life :
                           /\ life[i] \in {"COMPLETED", "FAILED"} => life'[i] = life[i]
                           /\ life[i] = "FORMING" => life'[i] # "COMPLETED"
    OBVIOUS
  <2>1. DOMAIN life = 1..Len(life) /\ Len(life) \in Nat
    BY DEF TypeOK
  <2>2. ASSUME NEW ended \in SUBSET OpenIn(life)
        PROVE  /\ Failed(life, ended) \in Seq(LifeStates) /\ DOMAIN Failed(life, ended) = DOMAIN life
               /\ \A i \in DOMAIN life :
                    /\ life[i] \in {"COMPLETED", "FAILED"} => Failed(life, ended)[i] = life[i]
                    /\ life[i] = "FORMING" => Failed(life, ended)[i] # "COMPLETED"
    BY FailedIsSmaller DEF TypeOK, Failed, OpenIn, OpenStates
  <2>3. CASE Expire
    BY <2>2, <2>3 DEF Expire
  <2>4. CASE Open
    <3> PICK ended \in SUBSET OpenIn(life), s \in OpenStates : life' = Append(Failed(life, ended), s)
      BY <2>4 DEF Open
    <3>1. DOMAIN life \subseteq DOMAIN life' /\ \A i \in DOMAIN life : life'[i] = Failed(life, ended)[i]
      BY <2>1, <2>2
    <3> QED BY <2>2, <3>1
  <2>5. CASE Activate
    BY <2>2, <2>5 DEF Activate
  <2>6. CASE Complete
    BY <2>6 DEF Complete
  <2> QED BY <2>3, <2>4, <2>5, <2>6 DEF Next
<1> QED BY <1>1, LifecycleInit, LifecycleStep, PTL DEF Spec, EndingsAreFinal

=============================================================================
