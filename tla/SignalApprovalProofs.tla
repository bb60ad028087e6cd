------------------------ MODULE SignalApprovalProofs ------------------------
(***************************************************************************)
(* Theorems about SignalApproval, for any number of concurrent submissions *)
(* and decisions, any number of signals and any queue limit.               *)
(***************************************************************************)
EXTENDS SignalApproval, FiniteSetTheorems, TLAPS

-----------------------------------------------------------------------------
(* The inductive invariants.                                               *)

\* A submission under way has a signal of its own, not yet in the table, and signals are
\* numbered in order.
SubmissionInv ==
    /\ \E n \in 0..MaxSignals : Submitted = 1..n
    /\ \A c \in Submitters :
          /\ sub[c].at = "idle" <=> sub[c].sig = None
          /\ sub[c].sig # None => status[sub[c].sig] = "unknown"
          /\ sub[c].at = "evict" => status[sub[c].evict] # "unknown"
    /\ \A c, d \in Submitters : sub[c].sig = sub[d].sig /\ sub[c].sig # None => c = d

\* What a decision or a pass has read is a row; what it has read as expired has expired.
ReadInv ==
    /\ dec \in [Deciders -> [at : {"idle", "approve", "reject", "expire"}, sig : Signals \cup {None}]]
    /\ \A c \in Deciders :
          /\ dec[c].at # "idle" => dec[c].sig \in Created
          /\ dec[c].at = "expire" => dec[c].sig \in stale
    /\ task.listed \subseteq Created \cap stale

\* The records of the submissions, as functions; the places of the rows created are used.
FormInv ==
    /\ sub \in [Submitters -> [at : {"idle", "oldest", "evict", "create"},
                               sig : Signals \cup {None}, evict : Signals \cup {None}]]
    /\ task \in [at : {"sleep", "expire"}, listed : SUBSET Signals]
    /\ \A s \in Pending : since[s] <= Cardinality(Created)

Stable == TypeOK /\ FormInv /\ SubmissionInv /\ ReadInv

\* A submission that overlaps no other finds, when it creates its row, the room it has seen or
\* made.
Bound == MaxQueue + crowded
RoomInv ==
    /\ \A c, d \in InProgress : c # d => c \in shared
    /\ Cardinality(Pending) <= Bound
    /\ \A c \in Submitters \ shared :
          /\ sub[c].at = "create" => Cardinality(Pending) < Bound
          /\ sub[c].at = "evict" => sub[c].evict \in Pending \/ Cardinality(Pending) < Bound

-----------------------------------------------------------------------------
(* What the statements of the repository do to the rows.                   *)

\* A statement that settles rows leaves every other row, and each pending one it takes is
\* decided.
Settles ==
    /\ \E st \in [Signals -> {"unknown", "PENDING"} \cup Outcomes] : Store(st)
    /\ \A s \in Signals : status'[s] = status[s] \/ (s \in Pending /\ status'[s] \in Outcomes)

LEMMA UpdateSettles ==
    ASSUME Stable, NEW s \in Signals, NEW outcome \in Outcomes, UpdateStatus(s, outcome)
    PROVE  Settles
<1> DEFINE st == IF Decidable(s) THEN [status EXCEPT ![s] = outcome] ELSE status
<1>1. st \in [Signals -> {"unknown", "PENDING"} \cup Outcomes]
  BY DEF Stable, TypeOK
<1>2. Store(st)
  BY DEF UpdateStatus
<1>3. \A u \in Signals : status'[u] = status[u] \/ (u \in Pending /\ status'[u] \in Outcomes)
  BY <1>2 DEF Store, Decidable, Pending, Stable, TypeOK
<1> QED BY <1>1, <1>2, <1>3 DEF Settles

LEMMA ExpireSettles == ASSUME Stable, ExpireStaleEntries PROVE Settles
<1> DEFINE st == [s \in Signals |-> IF s \in Pending \cap stale THEN "EXPIRED" ELSE status[s]]
<1>1. st \in [Signals -> {"unknown", "PENDING"} \cup Outcomes]
  BY DEF Stable, TypeOK, Outcomes
<1>2. Store(st)
  BY DEF ExpireStaleEntries
<1>3. \A u \in Signals : status'[u] = status[u] \/ (u \in Pending /\ status'[u] \in Outcomes)
  BY <1>2 DEF Store, Outcomes
<1> QED BY <1>1, <1>2, <1>3 DEF Settles

\* The rows' part of Stable.
RowsOK ==
    /\ status \in [Signals -> {"unknown", "PENDING"} \cup Outcomes]
    /\ since \in [Signals -> Nat]
    /\ \A s, u \in Pending : since[s] = since[u] => s = u
    /\ \A s \in Pending : since[s] <= Cardinality(Created)

LEMMA SettlesStable ==
    ASSUME Stable, Settles
    PROVE  RowsOK' /\ Created' = Created /\ Pending' \subseteq Pending
<1> USE DEF Stable, TypeOK, FormInv, Outcomes
<1>1. PICK st \in [Signals -> {"unknown", "PENDING"} \cup Outcomes] : Store(st)
  BY DEF Settles
<1>2. /\ status' \in [Signals -> {"unknown", "PENDING"} \cup Outcomes]
      /\ since' \in [Signals -> Nat]
  BY <1>1 DEF Store
<1>3. Created' = Created /\ Pending' \subseteq Pending
  BY DEF Settles, Created, Pending
<1>4. \A s \in Pending' : since'[s] = since[s]
  BY <1>1 DEF Store, Pending
<1> HIDE DEF Outcomes
<1> QED BY <1>2, <1>3, <1>4 DEF RowsOK

LEMMA Sizes ==
    ASSUME status \in [Signals -> {"unknown", "PENDING"} \cup Outcomes]
    PROVE  /\ IsFiniteSet(Signals)
           /\ IsFiniteSet(Created) /\ Cardinality(Created) \in Nat
           /\ IsFiniteSet(Pending) /\ Cardinality(Pending) \in Nat
<1>1. IsFiniteSet(Signals)
  BY ApprovalAssumption, FS_Interval DEF Signals
<1>2. Created \in SUBSET Signals /\ Pending \in SUBSET Signals
  BY DEF Created, Pending
<1>3. IsFiniteSet(Created) /\ IsFiniteSet(Pending)
  BY <1>1, <1>2, FS_Subset
<1> QED BY <1>1, <1>3, FS_CardinalityType

\* The number submit_signal gives is one no other signal has.
LEMMA NextNumber ==
    ASSUME Stable, Submitted # Signals
    PROVE  LET n == Cardinality(Submitted)
           IN  n + 1 \in Signals /\ n \in 0..MaxSignals /\ Submitted = 1..n
<1>1. PICK n \in 0..MaxSignals : Submitted = 1..n
  BY DEF Stable, SubmissionInv
<1>2. Cardinality(Submitted) = n
  BY <1>1, FS_Interval, ApprovalAssumption
<1>3. n # MaxSignals
  BY <1>1 DEF Signals
<1> QED BY <1>1, <1>2, <1>3, ApprovalAssumption DEF Signals

LEMMA StableInit == Init => Stable
<1> SUFFICES ASSUME Init PROVE Stable
  OBVIOUS
<1> USE ApprovalAssumption DEF Init
<1>1. Pending = {} /\ Created = {}
  BY DEF Pending, Created
<1>2. TypeOK
  BY <1>1 DEF TypeOK, None
<1>3. Submitted = 1..0 /\ 0 \in 0..MaxSignals
  BY <1>1 DEF Submitted, Signals, None
<1>4. SubmissionInv
  BY <1>3 DEF SubmissionInv, None
<1>5. ReadInv /\ FormInv
  BY <1>1 DEF ReadInv, FormInv, None
<1> QED BY <1>2, <1>4, <1>5 DEF Stable

LEMMA StableStep == Stable /\ [Next]_vars => Stable'
<1> SUFFICES ASSUME Stable, [Next]_vars PROVE Stable'
  OBVIOUS
<1> USE DEF Stable, None
<1>1. ASSUME NEW c \in Submitters, Submit(c) PROVE Stable'
  <2> DEFINE n == Cardinality(Submitted)
             stage == IF Full(Cardinality(Pending)) THEN "oldest" ELSE "create"
  <2>1. n + 1 \in Signals /\ n \in 0..MaxSignals /\ Submitted = 1..n
    BY <1>1, NextNumber DEF Submit
  <2>2. status[n + 1] = "unknown" /\ \A d \in Submitters : sub[d].sig # n + 1
    <3> HIDE DEF n
    <3>1. n + 1 \notin Submitted
      BY <2>1, ApprovalAssumption
    <3> QED BY <2>1, <3>1 DEF Submitted, Created
  <2>3. sub' = [sub EXCEPT ![c] = [at |-> stage, sig |-> n + 1, evict |-> sub[c].evict]]
    BY <1>1 DEF Submit, FormInv
  <2>4. Created' = Created /\ Pending' = Pending
    BY <1>1 DEF Submit, rows, Created, Pending
  <2>5. Submitted' = 1..(n + 1) /\ n + 1 \in 0..MaxSignals
    <3> HIDE DEF n
    <3>1. Submitted' = Submitted \cup {n + 1}
      BY <2>1, <2>3, <2>4, <1>1 DEF Submitted, FormInv, SubmissionInv, Submit, Signals
    <3> QED BY <3>1, <2>1, ApprovalAssumption DEF Signals
  <2> HIDE DEF n
  <2>6. SubmissionInv'
    BY <2>1, <2>2, <2>3, <2>5, <1>1 DEF SubmissionInv, Submit, rows, FormInv, Signals
  <2>7. FormInv'
    BY <2>1, <2>3, <2>4, <1>1 DEF FormInv, Submit, rows, TypeOK
  <2>8. TypeOK'
    <3>1. shared' \subseteq Submitters
      BY <1>1 DEF Submit, TypeOK, InProgress
    <3> QED BY <2>1, <2>3, <2>4, <3>1, <1>1 DEF TypeOK, Submit, rows, FormInv
  <2>9. ReadInv'
    BY <2>4, <1>1 DEF ReadInv, Submit, rows
  <2> QED BY <2>6, <2>7, <2>8, <2>9
<1>2. ASSUME NEW c \in Submitters, GetOldest(c) PROVE Stable'
  <2>1. Created' = Created /\ Pending' = Pending
    BY <1>2 DEF GetOldest, rows, Created, Pending
  <2>2. /\ sub' \in [Submitters -> [at : {"idle", "oldest", "evict", "create"},
                               sig : Signals \cup {None}, evict : Signals \cup {None}]]
        /\ \A d \in Submitters : /\ sub'[d].sig = sub[d].sig
                                 /\ sub'[d].at = "idle" <=> sub[d].at = "idle"
                                 /\ sub'[d].at = "evict" => sub'[d].evict \in Created
    <3>0. \A d \in Submitters : sub[d].at = "evict" => sub[d].evict \in Created
      BY DEF SubmissionInv, TypeOK, Created
    <3>1. CASE Pending = {} /\ sub' = [sub EXCEPT ![c].at = "create"]
      BY <3>0, <3>1, <1>2 DEF FormInv, GetOldest
    <3>2. CASE \E s \in Signals : Oldest(s) /\ sub' = [sub EXCEPT ![c].at = "evict", ![c].evict = s]
      <4>1. PICK s \in Signals :
                s \in Created /\ sub' = [sub EXCEPT ![c].at = "evict", ![c].evict = s]
        BY <3>2 DEF Oldest, Pending, Created
      <4> QED BY <3>0, <4>1, <1>2 DEF FormInv, GetOldest
    <3> QED BY <1>2, <3>1, <3>2 DEF GetOldest
  <2>3. Submitted' = Submitted
    BY <2>1, <2>2 DEF Submitted
  <2>4. SubmissionInv'
    BY <2>2, <2>3, <1>2 DEF SubmissionInv, GetOldest, rows, Created
  <2>5. FormInv'
    BY <2>1, <2>2, <1>2 DEF FormInv, GetOldest, rows
  <2>6. TypeOK'
    <3>1. \A d \in Submitters : sub'[d].at = "evict" => sub'[d].evict # None
      BY <2>2 DEF Created, Signals
    <3> QED BY <2>1, <2>2, <3>1, <1>2 DEF TypeOK, GetOldest, rows
  <2>7. ReadInv'
    BY <2>1, <1>2 DEF ReadInv, GetOldest, rows
  <2> QED BY <2>4, <2>5, <2>6, <2>7
<1>3. ASSUME NEW c \in Submitters, Evict(c) PROVE Stable'
  <2>1. sub[c].evict \in Signals
    BY <1>3 DEF Evict, TypeOK
  <2>2. RowsOK' /\ Created' = Created /\ Settles
    BY <1>3, <2>1, UpdateSettles, SettlesStable DEF Evict, Outcomes
  <2>3. Submitted' = Submitted
    BY <1>3, <2>2 DEF Submitted, Evict, FormInv
  <2>4. SubmissionInv'
    BY <2>2, <2>3, <1>3 DEF SubmissionInv, Evict, FormInv, Created, TypeOK
  <2>5. FormInv'
    BY <2>2, <1>3 DEF FormInv, Evict, RowsOK
  <2>6. TypeOK'
    BY <2>2, <1>3 DEF TypeOK, Evict, RowsOK, FormInv
  <2>7. ReadInv'
    BY <2>2, <1>3 DEF ReadInv, Evict
  <2> QED BY <2>4, <2>5, <2>6, <2>7
<1>4. ASSUME NEW c \in Submitters, Create(c) PROVE Stable'
  <2> DEFINE s == sub[c].sig
  <2>1. s \in Signals /\ status[s] = "unknown"
    BY <1>4 DEF Create, TypeOK, SubmissionInv, FormInv
  <2>2. Created' = Created \cup {s} /\ Pending' = Pending \cup {s} /\ s \notin Created
    BY <1>4, <2>1 DEF Create, Created, Pending, TypeOK
  <2>3. /\ Cardinality(Created) \in Nat
        /\ Cardinality(Created') = Cardinality(Created) + 1
    <3>1. IsFiniteSet(Created) /\ Cardinality(Created) \in Nat
      BY Sizes DEF TypeOK
    <3> QED BY <3>1, <2>2, FS_AddElement
  <2>4. RowsOK'
    <3>1. /\ status' \in [Signals -> {"unknown", "PENDING"} \cup Outcomes]
          /\ since' \in [Signals -> Nat]
      BY <1>4, <2>1, <2>3 DEF Create, TypeOK
    <3>2. /\ since'[s] = Cardinality(Created) + 1
          /\ \A u \in Pending : u # s /\ since'[u] = since[u] /\ since[u] <= Cardinality(Created)
      BY <1>4, <2>1 DEF Create, TypeOK, FormInv, Pending
    <3>3. \A u \in Pending : since[u] \in Nat
      BY DEF TypeOK, Pending
    <3> HIDE DEF s
    <3>4. \A u, v \in Pending' : since'[u] = since'[v] => u = v
      <4> SUFFICES ASSUME NEW u \in Pending', NEW v \in Pending', since'[u] = since'[v] PROVE u = v
        OBVIOUS
      <4>1. CASE u = s
        BY <4>1, <2>2, <2>3, <3>2, <3>3
      <4>2. CASE v = s
        BY <4>2, <2>2, <2>3, <3>2, <3>3
      <4>3. CASE u # s /\ v # s
        BY <4>3, <2>2, <3>2 DEF TypeOK
      <4> QED BY <4>1, <4>2, <4>3
    <3>5. \A u \in Pending' : since'[u] <= Cardinality(Created')
      BY <2>2, <2>3, <3>2, <3>3
    <3> QED BY <3>1, <3>4, <3>5 DEF RowsOK
  <2>5. /\ sub' \in [Submitters -> [at : {"idle", "oldest", "evict", "create"},
                               sig : Signals \cup {None}, evict : Signals \cup {None}]]
        /\ sub'[c].at = "idle" /\ sub'[c].sig = None /\ sub'[c].evict = sub[c].evict
        /\ \A d \in Submitters : d # c => sub'[d] = sub[d]
    BY <1>4 DEF Create, FormInv
  <2>6. Submitted' = Submitted
    BY <2>1, <2>2, <2>5 DEF Submitted, FormInv, Signals
  <2>7. \A u \in Signals : u # s => status'[u] = status[u]
    BY <1>4 DEF Create, TypeOK
  <2>8. \A u \in Signals : status[u] # "unknown" => status'[u] # "unknown"
    BY <1>4, <2>1 DEF Create, TypeOK
  <2>9. SubmissionInv'
    <3> HIDE DEF s
    <3>1. \A d \in Submitters :
             /\ sub'[d].at = "idle" <=> sub'[d].sig = None
             /\ sub'[d].sig # None => d # c /\ sub'[d] = sub[d] /\ sub[d].sig # s
      BY <2>5, <2>1 DEF SubmissionInv, FormInv, s, Signals
    <3>2. \A d \in Submitters : sub'[d].sig # None => status'[sub'[d].sig] = "unknown"
      BY <3>1, <2>7 DEF SubmissionInv, FormInv
    <3>3. \A d \in Submitters : sub'[d].at = "evict" => status'[sub'[d].evict] # "unknown"
      <4>1. \A d \in Submitters : sub'[d].at = "evict" => sub'[d] = sub[d]
        BY <2>5
      <4>2. \A d \in Submitters :
               sub[d].at = "evict" => sub[d].evict \in Signals /\ status[sub[d].evict] # "unknown"
        BY DEF SubmissionInv, TypeOK
      <4> HIDE DEF Stable
      <4> QED BY <4>1, <4>2, <2>8
    <3> QED BY <2>6, <3>1, <3>2, <3>3 DEF SubmissionInv
  <2>10. FormInv' /\ TypeOK'
    <3>1. sub' \in [Submitters -> [at : {"idle", "oldest", "evict", "create"},
                               sig : Signals \cup {None}, evict : Signals \cup {None}]]
      BY <2>5 DEF FormInv
    <3>2. \A d \in Submitters : sub'[d].at = "evict" => sub'[d].evict # None
      BY <2>5 DEF TypeOK, FormInv
    <3>3. shared' \subseteq Submitters /\ crowded' \in Nat
      BY <1>4 DEF Create, TypeOK
    <3>4. FormInv'
      BY <3>1, <2>4, <1>4 DEF FormInv, Create, RowsOK
    <3> QED BY <3>1, <3>2, <3>3, <3>4, <2>4, <1>4 DEF TypeOK, Create, RowsOK
  <2>11. ReadInv'
    BY <2>2, <1>4 DEF ReadInv, Create
  <2> QED BY <2>9, <2>10, <2>11
<1>5. ASSUME UNCHANGED vars PROVE Stable'
  BY <1>5 DEF vars, rows, TypeOK, FormInv, SubmissionInv, ReadInv, Submitted, Created, Pending
<1>6. ASSUME NEW c \in Deciders, NEW s \in Signals, Approve(c, s) \/ Reject(c, s) PROVE Stable'
  <2>1. PICK stage \in {"approve", "reject", "expire"} :
            DecisionGoes(c, s, stage) /\ (stage = "expire" => s \in stale)
    BY <1>6 DEF Approve, Reject
  <2>2. ReadInv'
    BY <2>1 DEF DecisionGoes, ReadInv, rows, Created, Pending
  <2>3. TypeOK' /\ FormInv' /\ SubmissionInv'
    BY <2>1, <2>2 DEF DecisionGoes, rows, ReadInv, TypeOK, FormInv, SubmissionInv, Submitted, Created, Pending
  <2> QED BY <2>2, <2>3
<1>7. ASSUME NEW c \in Deciders, NEW stage, NEW outcome \in Outcomes,
             Decide(c, stage, outcome) \/ ExpireDecision(c), stage # "idle"
      PROVE  Stable'
  <2>1. dec[c].sig \in Signals /\ "EXPIRED" \in Outcomes
    BY <1>7 DEF Decide, ExpireDecision, ReadInv, Created, Outcomes
  <2>2. RowsOK' /\ Created' = Created /\ Settles
    BY <1>7, <2>1, UpdateSettles, SettlesStable DEF Decide, ExpireDecision
  <2>3. Submitted' = Submitted
    BY <1>7, <2>2 DEF Submitted, Decide, ExpireDecision
  <2>4. SubmissionInv' /\ FormInv'
    <3>1. UNCHANGED <<sub, task>>
      BY <1>7 DEF Decide, ExpireDecision
    <3>2. FormInv'
      BY <2>2, <3>1 DEF FormInv, RowsOK
    <3>3. SubmissionInv'
      BY <2>2, <2>3, <3>1 DEF SubmissionInv, Created, TypeOK
    <3> QED BY <3>2, <3>3
  <2>5. ReadInv'
    BY <2>2, <1>7 DEF ReadInv, Decide, ExpireDecision, Returned
  <2>6. told' \in [Signals -> SUBSET Outcomes] /\ won' \in [Signals -> Nat]
    BY <1>7, <2>1 DEF Decide, ExpireDecision, Announce, TypeOK
  <2>7. TypeOK'
    BY <2>2, <2>5, <2>6, <1>7 DEF TypeOK, Decide, ExpireDecision, RowsOK, ReadInv
  <2> QED BY <2>4, <2>5, <2>7
<1>8. ASSUME NEW s \in Signals, TimePasses(s) PROVE Stable'
  BY <1>8 DEF TimePasses, rows, TypeOK, FormInv, SubmissionInv, ReadInv, Submitted, Created, Pending
<1>9. ASSUME ListPending \/ ExpireStale PROVE Stable'
  <2>1. RowsOK' /\ Created' = Created
    BY <1>9, ExpireSettles, SettlesStable DEF ListPending, ExpireStale
  <2>2. Submitted' = Submitted
    BY <1>9, <2>1 DEF Submitted, ListPending, ExpireStale
  <2>3. SubmissionInv'
    BY <2>1, <2>2, <1>9 DEF SubmissionInv, ListPending, ExpireStale, Created, TypeOK
  <2>4. ReadInv' /\ FormInv'
    BY <2>1, <1>9 DEF ReadInv, FormInv, RowsOK, ListPending, ExpireStale
  <2>5. told' \in [Signals -> SUBSET Outcomes]
    BY <1>9 DEF ListPending, ExpireStale, Announce, TypeOK, Outcomes
  <2>6. TypeOK'
    BY <2>1, <2>5, <1>9 DEF TypeOK, RowsOK, ListPending, ExpireStale
  <2> QED BY <2>3, <2>4, <2>6
<1>10. ASSUME ListStale \/ PassFails PROVE Stable'
  <2>1. task'.listed \subseteq Created \cap stale /\ task' \in [at : {"sleep", "expire"}, listed : SUBSET Signals]
    BY <1>10 DEF ListStale, PassFails, Created, Pending
  <2> QED BY <2>1, <1>10 DEF ListStale, PassFails, rows, TypeOK, FormInv, SubmissionInv, ReadInv,
                             Submitted, Created, Pending
<1> QED BY <1>1, <1>2, <1>3, <1>4, <1>5, <1>6, <1>7, <1>8, <1>9, <1>10
        DEF Next, Submission, Decision, Task, Outcomes

LEMMA StableAlways == Spec => []Stable
BY StableInit, StableStep, PTL DEF Spec

\* The statuses, marks and records of the calls keep their types, and no two pending rows have
\* the same place.
THEOREM TypeCorrect == Spec => []TypeOK
<1>1. Stable => TypeOK
  BY DEF Stable
<1> QED BY <1>1, StableAlways, PTL

-----------------------------------------------------------------------------
(* The outcome of a signal.                                                *)

LEMMA RowSteps ==
    ASSUME Stable, [Next]_vars
    PROVE  Settles \/ (\E c \in Submitters : Create(c)) \/ UNCHANGED status
<1> USE DEF Outcomes
<1>1. ASSUME NEW c \in Submitters, Evict(c) PROVE Settles
  BY <1>1, UpdateSettles DEF Evict, Stable, TypeOK, None
<1>2. ASSUME NEW c \in Deciders, NEW stage \in {"approve", "reject"}, NEW outcome \in Outcomes,
             Decide(c, stage, outcome) \/ ExpireDecision(c)
      PROVE  Settles
  <2>1. dec[c].sig \in Signals
    BY <1>2 DEF Decide, ExpireDecision, Stable, ReadInv, Created
  <2> QED BY <1>2, <2>1, UpdateSettles DEF Decide, ExpireDecision
<1>3. ASSUME ListPending \/ ExpireStale PROVE Settles
  BY <1>3, ExpireSettles DEF ListPending, ExpireStale
<1>4. ASSUME NEW c \in Submitters, Submit(c) \/ GetOldest(c) PROVE UNCHANGED status
  BY <1>4 DEF Submit, GetOldest, rows
<1>5. ASSUME NEW c \in Deciders, NEW s \in Signals, Approve(c, s) \/ Reject(c, s)
      PROVE  UNCHANGED status
  BY <1>5 DEF Approve, Reject, DecisionGoes, rows
<1>6. ASSUME (\E s \in Signals : TimePasses(s)) \/ ListStale \/ PassFails \/ UNCHANGED vars
      PROVE  UNCHANGED status
  BY <1>6 DEF TimePasses, ListStale, PassFails, vars, rows
<1> QED BY <1>1, <1>2, <1>3, <1>4, <1>5, <1>6 DEF Next, Submission, Decision, Task

LEMMA DecidedStays ==
    ASSUME Stable, [Next]_vars, NEW s \in Signals, status[s] \in Outcomes
    PROVE  status'[s] = status[s]
<1>1. CASE Settles
  BY <1>1 DEF Settles, Pending, Outcomes
<1>2. CASE \E c \in Submitters : Create(c)
  <2>1. PICK c \in Submitters : Create(c)
    BY <1>2
  <2>2. status[sub[c].sig] = "unknown"
    BY <2>1 DEF Create, Stable, SubmissionInv
  <2> QED BY <2>1, <2>2 DEF Create, Stable, TypeOK, Outcomes
<1> QED BY <1>1, <1>2, RowSteps

\* A signal is decided once, whoever races for it: the first outcome stored is the last
\* (update_status and expire_stale_entries look for a pending row, create writes a new one).
THEOREM SignalsAreDecidedOnce == Spec => DecidedOnce
<1>1. Stable /\ [Next]_vars =>
          [\A s \in Signals : status[s] \in Outcomes => status'[s] = status[s]]_vars
  BY DecidedStays
<1> QED BY <1>1, StableAlways, PTL DEF Spec, DecidedOnce

LEMMA OneWinnerStep == Stable /\ OneWinner /\ [Next]_vars => OneWinner'
<1> SUFFICES ASSUME Stable, OneWinner, [Next]_vars, NEW s \in Signals
             PROVE  /\ won'[s] <= 1
                    /\ won'[s] = 1 => status'[s] \in {"APPROVED", "REJECTED"}
                    /\ told'[s] \ {"EXPIRED"} \subseteq {status'[s]}
  BY DEF OneWinner
<1>1. /\ won[s] \in {0, 1} /\ told[s] \subseteq Outcomes
      /\ won[s] = 1 => status[s] \in {"APPROVED", "REJECTED"}
      /\ told[s] \ {"EXPIRED"} \subseteq {status[s]}
  BY DEF OneWinner, Stable, TypeOK
<1>2. \/ status[s] \in Outcomes /\ status'[s] = status[s]
      \/ status[s] \notin Outcomes /\ won[s] = 0 /\ told[s] \ {"EXPIRED"} = {}
  BY <1>1, DecidedStays DEF Outcomes
<1>3. CASE won'[s] = won[s] /\ told'[s] \subseteq told[s] \cup {"EXPIRED"}
  BY <1>1, <1>2, <1>3
<1>4. ASSUME NEW c \in Deciders, NEW stage, NEW outcome \in {"APPROVED", "REJECTED"},
             Decide(c, stage, outcome)
      PROVE  \/ won'[s] = won[s] /\ told'[s] \subseteq told[s] \cup {"EXPIRED"}
             \/ /\ s = dec[c].sig /\ status[s] = "PENDING"
                /\ won'[s] = won[s] + 1 /\ told'[s] = told[s] \cup {outcome}
                /\ status'[s] = outcome
  <2>1. CASE Decidable(dec[c].sig)
    <3>1. /\ status'[dec[c].sig] = outcome \/ dec[c].sig \notin Signals
          /\ told' = [u \in Signals |-> IF u \in {dec[c].sig} THEN told[u] \cup {outcome} ELSE told[u]]
          /\ won' = [won EXCEPT ![dec[c].sig] = @ + 1]
      BY <1>4, <2>1 DEF Decide, UpdateStatus, Store, Announce, Stable, TypeOK
    <3> QED BY <2>1, <3>1 DEF Decidable, Stable, TypeOK
  <2> QED BY <1>4, <2>1 DEF Decide
<1>5. ASSUME NEW c \in Deciders, NEW stage, NEW outcome \in {"APPROVED", "REJECTED"},
             Decide(c, stage, outcome)
      PROVE  /\ won'[s] <= 1
             /\ won'[s] = 1 => status'[s] \in {"APPROVED", "REJECTED"}
             /\ told'[s] \ {"EXPIRED"} \subseteq {status'[s]}
  <2>1. CASE /\ s = dec[c].sig /\ status[s] = "PENDING"
             /\ won'[s] = won[s] + 1 /\ told'[s] = told[s] \cup {outcome}
             /\ status'[s] = outcome
    BY <1>2, <2>1 DEF Outcomes
  <2> QED BY <1>3, <1>4, <1>5, <2>1
<1>6. ASSUME NEW c \in Deciders, ExpireDecision(c)
      PROVE  won'[s] = won[s] /\ told'[s] \subseteq told[s] \cup {"EXPIRED"}
  BY <1>6 DEF ExpireDecision, Announce
<1>7. ASSUME ExpireStale
      PROVE  won'[s] = won[s] /\ told'[s] \subseteq told[s] \cup {"EXPIRED"}
  BY <1>7 DEF ExpireStale, Announce
<1>8. ASSUME NEW c \in Submitters, Submission(c) PROVE UNCHANGED <<told, won>>
  BY <1>8 DEF Submission, Submit, GetOldest, Evict, Create
<1>9. ASSUME NEW c \in Deciders, NEW u \in Signals, Approve(c, u) \/ Reject(c, u)
      PROVE  UNCHANGED <<told, won>>
  BY <1>9 DEF Approve, Reject, DecisionGoes
<1>10. ASSUME \/ (\E u \in Signals : TimePasses(u)) \/ ListStale \/ PassFails \/ ListPending
              \/ UNCHANGED vars
       PROVE  UNCHANGED <<told, won>>
  BY <1>10 DEF TimePasses, ListStale, PassFails, ListPending, vars
<1> QED BY <1>3, <1>5, <1>6, <1>7, <1>8, <1>9, <1>10 DEF Next, Decision, Task

\* At most one of the calls that race for a signal is told it decided, and an approval or a
\* rejection announced is the outcome stored.
THEOREM OneWinnerAlways == Spec => []OneWinner
<1>1. Init => OneWinner
  BY DEF Init, OneWinner
<1> QED BY <1>1, StableAlways, OneWinnerStep, PTL DEF Spec

LEMMA ExpiryStep == Stable /\ ExpiryAnnouncedLate /\ [Next]_vars => ExpiryAnnouncedLate'
<1> SUFFICES ASSUME Stable, ExpiryAnnouncedLate, [Next]_vars,
                    NEW s \in Signals, "EXPIRED" \in told'[s]
             PROVE  s \in stale' /\ status'[s] \in Outcomes
  BY DEF ExpiryAnnouncedLate
<1>1. stale \subseteq stale'
  <2>1. ASSUME NEW c \in Submitters, Submission(c) PROVE stale' = stale
    BY <2>1 DEF Submission, Submit, GetOldest, Evict, Create
  <2>2. ASSUME NEW c \in Deciders, Decision(c) PROVE stale' = stale
    BY <2>2 DEF Decision, Approve, Reject, DecisionGoes, Decide, ExpireDecision
  <2>3. ASSUME NEW u \in Signals, TimePasses(u) PROVE stale \subseteq stale'
    BY <2>3 DEF TimePasses
  <2>4. ASSUME ListPending \/ Task \/ UNCHANGED vars PROVE stale' = stale
    BY <2>4 DEF ListPending, Task, ListStale, ExpireStale, PassFails, vars
  <2> QED BY <2>1, <2>2, <2>3, <2>4 DEF Next
<1>2. CASE "EXPIRED" \in told[s]
  BY <1>1, <1>2, DecidedStays DEF ExpiryAnnouncedLate
\* It is announced by this step.
<1>3. CASE "EXPIRED" \notin told[s]
  <2>1. ASSUME NEW c \in Deciders, ExpireDecision(c)
        PROVE  s \in stale /\ status'[s] \in Outcomes
    <3>1. s = dec[c].sig /\ s \in stale /\ s \in Created
      BY <1>3, <2>1 DEF ExpireDecision, Announce, Stable, ReadInv
    <3>2. CASE status[s] = "PENDING"
      BY <2>1, <3>1, <3>2 DEF ExpireDecision, UpdateStatus, Decidable, Store, Outcomes, Stable, TypeOK
    <3> QED BY <3>1, <3>2, DecidedStays DEF Created, Stable, TypeOK
  <2>2. ASSUME ExpireStale PROVE s \in stale /\ status'[s] \in Outcomes
    <3>1. s \in stale /\ s \in Created
      BY <1>3, <2>2 DEF ExpireStale, Announce, Stable, ReadInv
    <3>2. CASE status[s] = "PENDING"
      BY <2>2, <3>1, <3>2 DEF ExpireStale, ExpireStaleEntries, Store, Pending, Outcomes
    <3> QED BY <3>1, <3>2, DecidedStays DEF Created, Stable, TypeOK
  <2>3. ASSUME NEW c \in Deciders, NEW stage, NEW outcome \in {"APPROVED", "REJECTED"},
               Decide(c, stage, outcome)
        PROVE  "EXPIRED" \notin told'[s]
    BY <1>3, <2>3 DEF Decide, Announce
  <2>4. ASSUME NEW c \in Submitters, Submission(c) PROVE told' = told
    BY <2>4 DEF Submission, Submit, GetOldest, Evict, Create
  <2>5. ASSUME NEW c \in Deciders, NEW u \in Signals, Approve(c, u) \/ Reject(c, u)
        PROVE  told' = told
    BY <2>5 DEF Approve, Reject, DecisionGoes
  <2>6. ASSUME \/ (\E u \in Signals : TimePasses(u)) \/ ListStale \/ PassFails \/ ListPending
               \/ UNCHANGED vars
        PROVE  told' = told
    BY <2>6 DEF TimePasses, ListStale, PassFails, ListPending, vars
  <2> QED BY <1>1, <1>3, <2>1, <2>2, <2>3, <2>4, <2>5, <2>6 DEF Next, Decision, Task
<1> QED BY <1>2, <1>3

\* An announced expiry is of a signal whose time had passed and that is decided: the pass
\* announces what it has listed before the update, and an approval what it has read.
THEOREM ExpiryAlwaysAnnouncedLate == Spec => []ExpiryAnnouncedLate
<1>1. Init => ExpiryAnnouncedLate
  BY DEF Init, ExpiryAnnouncedLate
<1> QED BY <1>1, StableAlways, ExpiryStep, PTL DEF Spec

-----------------------------------------------------------------------------
(* The size of the queue.                                                  *)

LEMMA RoomInit == Init => RoomInv
<1> SUFFICES ASSUME Init PROVE RoomInv
  OBVIOUS
<1>1. Pending = {} /\ InProgress = {}
  BY DEF Init, Pending, InProgress
<1>2. Cardinality(Pending) = 0
  BY <1>1, FS_EmptySet
<1> QED BY <1>1, <1>2, ApprovalAssumption DEF Init, RoomInv, Bound, InProgress

\* A statement that settles rows makes the queue no longer, and shorter if it takes any.
LEMMA SettlesShortens ==
    ASSUME Stable, Settles
    PROVE  /\ Cardinality(Pending) \in Nat /\ Cardinality(Pending') \in Nat
           /\ Pending' = Pending \/ Cardinality(Pending') < Cardinality(Pending)
<1>1. Pending' \subseteq Pending
  BY SettlesStable
<1>2. IsFiniteSet(Pending) /\ Cardinality(Pending) \in Nat
  BY Sizes DEF Stable, TypeOK
<1>3. /\ IsFiniteSet(Pending') /\ Cardinality(Pending') <= Cardinality(Pending)
      /\ Cardinality(Pending) = Cardinality(Pending') => Pending = Pending'
  BY <1>1, <1>2, FS_Subset
<1> QED BY <1>2, <1>3, FS_CardinalityType

LEMMA RoomStep == Stable /\ RoomInv /\ [Next]_vars => RoomInv'
<1> SUFFICES ASSUME Stable, RoomInv, [Next]_vars PROVE RoomInv'
  OBVIOUS
<1>1. Bound \in Nat /\ MaxQueue \in Nat \ {0} /\ crowded \in Nat /\ Cardinality(Pending) \in Nat
  BY ApprovalAssumption, Sizes DEF Bound, Stable, TypeOK
\* Steps that are none of a submission's.
<1>2. ASSUME UNCHANGED <<sub, shared, crowded>>, Settles \/ UNCHANGED status PROVE RoomInv'
  <2>1. InProgress' = InProgress /\ Bound' = Bound
    BY <1>2 DEF InProgress, Bound
  <2>2. CASE Settles
    <3>1. /\ Cardinality(Pending) \in Nat /\ Cardinality(Pending') \in Nat
          /\ Pending' = Pending \/ Cardinality(Pending') < Cardinality(Pending)
      BY <2>2, SettlesShortens
    <3> QED BY <1>1, <1>2, <2>1, <3>1 DEF RoomInv
  <2>3. CASE UNCHANGED status
    BY <1>2, <2>1, <2>3 DEF RoomInv, Pending
  <2> QED BY <1>2, <2>2, <2>3
<1>3. ASSUME NEW c \in Submitters, Submit(c) PROVE RoomInv'
  <2>1. Pending' = Pending /\ Bound' = Bound
    BY <1>3 DEF Submit, rows, Pending, Bound
  <2>2. /\ sub' \in [Submitters -> [at : {"idle", "oldest", "evict", "create"},
                               sig : Signals \cup {None}, evict : Signals \cup {None}]]
        /\ \A d \in Submitters : d # c => sub'[d] = sub[d]
        /\ sub'[c].at \in {"oldest", "create"}
        /\ sub'[c].at = "create" => ~Full(Cardinality(Pending))
    <3>1. Cardinality(Submitted) + 1 \in Signals
      BY <1>3, NextNumber DEF Submit
    <3> QED BY <1>3, <3>1 DEF Submit, Stable, FormInv
  <2>3. \A a, b \in InProgress' : a # b => a \in shared'
    BY <1>3, <2>2 DEF Submit, InProgress, RoomInv
  <2>4. \A d \in Submitters \ shared' :
           /\ sub'[d].at = "create" => Cardinality(Pending) < Bound
           /\ sub'[d].at = "evict" => sub'[d].evict \in Pending \/ Cardinality(Pending) < Bound
    <3> SUFFICES ASSUME NEW d \in Submitters \ shared'
                 PROVE  /\ sub'[d].at = "create" => Cardinality(Pending) < Bound
                        /\ sub'[d].at = "evict" =>
                              sub'[d].evict \in Pending \/ Cardinality(Pending) < Bound
      OBVIOUS
    <3>1. d \notin shared
      BY <1>3 DEF Submit
    <3>2. CASE d = c
      BY <2>2, <3>2, <1>1 DEF Full, Bound
    <3> QED BY <2>2, <3>1, <3>2 DEF RoomInv
  <2> QED BY <2>1, <2>3, <2>4 DEF RoomInv
<1>4. ASSUME NEW c \in Submitters, GetOldest(c) PROVE RoomInv'
  <2>1. Pending' = Pending /\ Bound' = Bound /\ UNCHANGED shared
    BY <1>4 DEF GetOldest, rows, Pending, Bound
  <2>2. /\ InProgress' = InProgress
        /\ \A d \in Submitters : d # c => sub'[d] = sub[d]
        /\ \/ sub'[c].at = "create" /\ Pending = {}
           \/ sub'[c].at = "evict" /\ sub'[c].evict \in Pending
    BY <1>4 DEF GetOldest, Oldest, InProgress, Stable, FormInv
  <2>3. Pending = {} => Cardinality(Pending) < Bound
    BY <1>1, FS_EmptySet DEF Bound
  <2> QED BY <2>1, <2>2, <2>3 DEF RoomInv
<1>5. ASSUME NEW c \in Submitters, Evict(c) PROVE RoomInv'
  <2>1. Settles
    BY <1>5, UpdateSettles DEF Evict, Stable, TypeOK, Outcomes, None
  <2>2. /\ Cardinality(Pending) \in Nat /\ Cardinality(Pending') \in Nat
        /\ Pending' = Pending \/ Cardinality(Pending') < Cardinality(Pending)
    BY <2>1, SettlesShortens
  <2>3. Bound' = Bound /\ UNCHANGED shared
    BY <1>5 DEF Evict, Bound
  <2>4. /\ InProgress' = InProgress
        /\ \A d \in Submitters : d # c => sub'[d] = sub[d]
        /\ sub'[c].at = "create"
    BY <1>5 DEF Evict, InProgress, Stable, FormInv
  <2>5. sub[c].evict \notin Pending'
    BY <1>5 DEF Evict, UpdateStatus, Store, Decidable, Pending, Stable, TypeOK
  <2>6. c \notin shared => Cardinality(Pending') < Bound
    BY <1>1, <1>5, <2>2, <2>5 DEF RoomInv, Evict
  <2>7. \A d \in Submitters \ shared : d # c =>
           /\ sub[d].at = "create" => Cardinality(Pending') < Bound
           /\ sub[d].at = "evict" => sub[d].evict \in Pending' \/ Cardinality(Pending') < Bound
    BY <1>1, <2>2 DEF RoomInv
  <2>8. Cardinality(Pending') <= Bound
    BY <1>1, <2>2 DEF RoomInv
  <2> QED BY <2>3, <2>4, <2>6, <2>7, <2>8 DEF RoomInv
<1>6. ASSUME NEW c \in Submitters, Create(c) PROVE RoomInv'
  <2>1. Cardinality(Pending') <= Cardinality(Pending) + 1 /\ Cardinality(Pending') \in Nat
    <3>1. Pending' = Pending \cup {sub[c].sig}
      BY <1>6 DEF Create, Pending, Stable, TypeOK, SubmissionInv
    <3>2. IsFiniteSet(Pending)
      BY Sizes DEF Stable, TypeOK
    <3> QED BY <1>1, <3>1, <3>2, FS_AddElement
  <2>2. shared' = shared \ {c} /\ crowded' = IF c \in shared THEN crowded + 1 ELSE crowded
    BY <1>6 DEF Create
  <2>3. /\ \A d \in Submitters : d # c => sub'[d] = sub[d]
        /\ InProgress' = InProgress \ {c} /\ c \in InProgress /\ sub'[c].at = "idle"
    BY <1>6 DEF Create, InProgress, Stable, FormInv
  <2>4. Cardinality(Pending') <= Bound'
    <3>1. CASE c \in shared
      BY <1>1, <2>1, <2>2, <3>1 DEF RoomInv, Bound
    <3>2. CASE c \notin shared
      BY <1>1, <1>6, <2>1, <2>2, <3>2 DEF RoomInv, Bound, Create
    <3> QED BY <3>1, <3>2
  <2>5. \A d \in InProgress' : d \in shared'
    BY <2>2, <2>3 DEF RoomInv
  <2> QED BY <2>2, <2>3, <2>4, <2>5 DEF RoomInv, InProgress
<1>7. ASSUME NEW c \in Deciders, Decision(c) PROVE UNCHANGED <<sub, shared, crowded>>
  BY <1>7 DEF Decision, Approve, Reject, DecisionGoes, Decide, ExpireDecision
<1>8. ASSUME (\E s \in Signals : TimePasses(s)) \/ ListPending \/ Task \/ UNCHANGED vars
      PROVE  UNCHANGED <<sub, shared, crowded>>
  BY <1>8 DEF TimePasses, ListPending, Task, ListStale, ExpireStale, PassFails, vars
<1> QED BY <1>2, <1>3, <1>4, <1>5, <1>6, <1>7, <1>8, RowSteps DEF Next, Submission

\* Each submission that overlaps another lengthens the queue by at most one above max_queue_size,
\* and no other does: count, oldest row and creation are separate statements of submit_signal.
THEOREM QueueAlwaysBounded == Spec => []QueueBounded
<1>1. RoomInv => QueueBounded
  BY DEF RoomInv, QueueBounded, Bound
<1> QED BY <1>1, StableAlways, RoomInit, RoomStep, PTL DEF Spec
=============================================================================
