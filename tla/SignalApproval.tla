--------------------------- MODULE SignalApproval ---------------------------
(***************************************************************************)
(* The approval queue of one user (services/signal_approval_service.py     *)
(* over repositories/signal_approval_repository.py): concurrent requests   *)
(* submit, approve, reject and list signals while the background task      *)
(* (tasks/signal_approval_tasks.py) expires them.                          *)
(*                                                                         *)
(* An action is one statement of the database, committed at once.  An      *)
(* event sent to the clients belongs to the statement before it; its       *)
(* errors are swallowed.  A request that finds its signal decided returns  *)
(* without effect: that is no step.  Approving executes nothing: the       *)
(* execution is a placeholder.                                             *)
(*                                                                         *)
(* The service is modelled with a WebSocket manager.  The one the task     *)
(* constructs has none, and then its passes announce nothing.              *)
(***************************************************************************)
EXTENDS Naturals, FiniteSets

CONSTANTS
    MaxSignals,     \* bound: signals submitted, numbered in the order submit_signal was called
    Submitters,     \* slots for submit_signal calls
    Deciders,       \* slots for approve_signal and reject_signal calls
    MaxQueue        \* max_queue_size

VARIABLES
    status,         \* each row's status; "unknown" before it is created
    since,          \* each pending row's submitted_at: its place among the rows created
    stale,          \* signals whose expires_at has passed
    sub,            \* each submission: its stage, its signal, the row it evicts
    dec,            \* each decision: its stage and its signal
    task,           \* the background task: its stage and the rows it has listed
    told,           \* history: the outcomes announced to the clients, per signal
    won,            \* history: how many calls were told they decided a signal
    shared,         \* history: submissions that overlap another
    crowded         \* history: rows created by such submissions

rows == <<status, since>>
vars == <<status, since, stale, sub, dec, task, told, won, shared, crowded>>

ASSUME ApprovalAssumption ==
    /\ IsFiniteSet(Submitters) /\ MaxSignals \in Nat
    /\ MaxQueue \in Nat \ {0}

Signals == 1..MaxSignals
None == 0

Outcomes == {"APPROVED", "REJECTED", "EXPIRED"}

Init ==
    /\ status = [s \in Signals |-> "unknown"] /\ since = [s \in Signals |-> 0]
    /\ stale = {}
    /\ sub = [c \in Submitters |-> [at |-> "idle", sig |-> None, evict |-> None]]
    /\ dec = [c \in Deciders |-> [at |-> "idle", sig |-> None]]
    /\ task = [at |-> "sleep", listed |-> {}]
    /\ told = [s \in Signals |-> {}]
    /\ won = [s \in Signals |-> 0]
    /\ shared = {} /\ crowded = 0

Pending == {s \in Signals : status[s] = "PENDING"}
Created == {s \in Signals : status[s] # "unknown"}

-----------------------------------------------------------------------------
(* The repository.                                                         *)

\* UPDATE ... WHERE status = PENDING finds its row.
Decidable(s) == status[s] = "PENDING"

\* The rows take the statuses st.  The submitted_at of a decided row is not looked at again.
Store(st) ==
    /\ status' = st
    /\ since' = [s \in Signals |-> IF st[s] = "PENDING" THEN since[s] ELSE 0]

UpdateStatusAlways(s, outcome) ==  \* Mutant: without the condition on the status.
    Store([status EXCEPT ![s] = outcome])

\* update_status: the row keeps a status it already has.
UpdateStatus(s, outcome) ==
    Store(IF Decidable(s) THEN [status EXCEPT ![s] = outcome] ELSE status)

ExpireStaleEntries ==
    Store([s \in Signals |-> IF s \in Pending \cap stale THEN "EXPIRED" ELSE status[s]])

Announce(signals, outcome) ==
    told' = [s \in Signals |-> IF s \in signals THEN told[s] \cup {outcome} ELSE told[s]]

-----------------------------------------------------------------------------
(* submit_signal.                                                          *)

InProgress == {c \in Submitters : sub[c].at # "idle"}

\* The signals submitted so far; each is submitted once.
Submitted == Created \cup {s \in Signals : \E c \in Submitters : sub[c].sig = s}

FullAbove(n) == n > MaxQueue       \* Mutant: one more than the limit.

Full(n) == n >= MaxQueue

\* count_pending_by_user.
Submit(c) ==
    /\ sub[c].at = "idle" /\ Submitted # Signals
    /\ sub' = [sub EXCEPT ![c].sig = Cardinality(Submitted) + 1,
                          ![c].at = IF Full(Cardinality(Pending)) THEN "oldest" ELSE "create"]
    /\ shared' = IF InProgress = {} THEN shared ELSE shared \cup InProgress \cup {c}
    /\ UNCHANGED <<rows, stale, dec, task, told, won, crowded>>

\* get_oldest_pending_by_user.
Oldest(s) == s \in Pending /\ \A u \in Pending : since[s] <= since[u]

GetOldest(c) ==
    /\ sub[c].at = "oldest"
    /\ \/ Pending = {} /\ sub' = [sub EXCEPT ![c].at = "create"]
       \/ \E s \in Signals :
             Oldest(s) /\ sub' = [sub EXCEPT ![c].at = "evict", ![c].evict = s]
    /\ UNCHANGED <<rows, stale, dec, task, told, won, shared, crowded>>

\* The oldest row expires, and nobody is told.
Evict(c) ==
    /\ sub[c].at = "evict"
    /\ UpdateStatus(sub[c].evict, "EXPIRED")
    /\ sub' = [sub EXCEPT ![c].at = "create", ![c].evict = None]
    /\ UNCHANGED <<stale, dec, task, told, won, shared, crowded>>

Create(c) ==
    /\ sub[c].at = "create"
    /\ status' = [status EXCEPT ![sub[c].sig] = "PENDING"]
    /\ since' = [since EXCEPT ![sub[c].sig] = Cardinality(Created) + 1]
    /\ sub' = [sub EXCEPT ![c].at = "idle", ![c].sig = None]
    /\ shared' = shared \ {c}
    /\ crowded' = IF c \in shared THEN crowded + 1 ELSE crowded
    /\ UNCHANGED <<stale, dec, task, told, won>>

-----------------------------------------------------------------------------
(* approve_signal and reject_signal.                                       *)

\* get_by_id finds the row pending; the rest of the call acts on what was read.
DecisionGoes(c, s, stage) ==
    /\ dec[c].at = "idle" /\ s \in Pending
    /\ dec' = [dec EXCEPT ![c] = [at |-> stage, sig |-> s]]
    /\ UNCHANGED <<rows, stale, sub, task, told, won, shared, crowded>>

Approve(c, s) == DecisionGoes(c, s, IF s \in stale THEN "expire" ELSE "approve")

\* A rejection does not look at the time.
Reject(c, s) == DecisionGoes(c, s, "reject")

Returned(c) == dec' = [dec EXCEPT ![c] = [at |-> "idle", sig |-> None]]

\* An approval that read the row as expired says so, whatever the update found.
ExpireDecision(c) ==
    /\ dec[c].at = "expire"
    /\ UpdateStatus(dec[c].sig, "EXPIRED")
    /\ Announce({dec[c].sig}, "EXPIRED")
    /\ Returned(c)
    /\ UNCHANGED <<stale, sub, task, won, shared, crowded>>

DecideUnchecked(c, stage, outcome) == \* Mutant: what the update found is not looked at.
    LET s == dec[c].sig
    IN  /\ dec[c].at = stage
        /\ UpdateStatus(s, outcome)
        /\ Announce({s}, outcome)
        /\ won' = [won EXCEPT ![s] = @ + 1]
        /\ Returned(c)
        /\ UNCHANGED <<stale, sub, task, shared, crowded>>

\* The call is told it decided, and the clients are, only if the update found the row pending.
Decide(c, stage, outcome) ==
    LET s == dec[c].sig
    IN  /\ dec[c].at = stage
        /\ UpdateStatus(s, outcome)
        /\ IF Decidable(s)
           THEN Announce({s}, outcome) /\ won' = [won EXCEPT ![s] = @ + 1]
           ELSE UNCHANGED <<told, won>>
        /\ Returned(c)
        /\ UNCHANGED <<stale, sub, task, shared, crowded>>

-----------------------------------------------------------------------------
(* Expiry.                                                                 *)

\* A row's timeout is its own, so rows need not expire in order.
TimePasses(s) ==
    /\ s \in Pending \ stale
    /\ stale' = stale \cup {s}
    /\ UNCHANGED <<rows, sub, dec, task, told, won, shared, crowded>>

\* get_pending_signals.
ListPending ==
    /\ Pending \cap stale # {}
    /\ ExpireStaleEntries
    /\ UNCHANGED <<stale, sub, dec, task, told, won, shared, crowded>>

ListStaleAll ==                    \* Mutant: the time is not looked at.
    /\ task.at = "sleep"
    /\ task' = [at |-> "expire", listed |-> Pending]
    /\ UNCHANGED <<rows, stale, sub, dec, told, won, shared, crowded>>

\* expire_stale_signals: what it will announce is read first ...
ListStale ==
    /\ task.at = "sleep"
    /\ task' = [at |-> "expire", listed |-> Pending \cap stale]
    /\ UNCHANGED <<rows, stale, sub, dec, told, won, shared, crowded>>

\* ... and announced if the update has found any row.
ExpireStale ==
    /\ task.at = "expire"
    /\ ExpireStaleEntries
    /\ Announce(IF Pending \cap stale # {} THEN task.listed ELSE {}, "EXPIRED")
    /\ task' = [at |-> "sleep", listed |-> {}]
    /\ UNCHANGED <<stale, sub, dec, won, shared, crowded>>

PassFailsForGood ==                \* Mutant: an error ends the task.
    /\ task.at \in {"sleep", "expire"}
    /\ task' = [at |-> "ended", listed |-> {}]
    /\ UNCHANGED <<rows, stale, sub, dec, told, won, shared, crowded>>

\* An error is logged, and the task sleeps until its next pass.
PassFails ==
    /\ task.at = "expire"
    /\ task' = [at |-> "sleep", listed |-> {}]
    /\ UNCHANGED <<rows, stale, sub, dec, told, won, shared, crowded>>

-----------------------------------------------------------------------------
Submission(c) ==
    \/ Submit(c) \/ GetOldest(c) \/ Evict(c) \/ Create(c)

Decision(c) ==
    \/ \E s \in Signals : Approve(c, s) \/ Reject(c, s)
    \/ Decide(c, "approve", "APPROVED") \/ Decide(c, "reject", "REJECTED")
    \/ ExpireDecision(c)

Task == ListStale \/ ExpireStale \/ PassFails

Next ==
    \/ \E c \in Submitters : Submission(c)
    \/ \E c \in Deciders : Decision(c)
    \/ \E s \in Signals : TimePasses(s)
    \/ ListPending \/ Task

Spec == Init /\ [][Next]_vars

\* The background task wakes after each sleep, and the database does not fail its passes for
\* ever; nothing is assumed of requests.
FairSpec == Spec /\ WF_vars(Task) /\ SF_vars(ExpireStale)

-----------------------------------------------------------------------------
(* Properties.                                                             *)

\* Every variable keeps its type, and no two pending rows have the same place.
TypeOK ==
    /\ status \in [Signals -> {"unknown", "PENDING"} \cup Outcomes]
    /\ since \in [Signals -> Nat]
    /\ \A s, u \in Pending : since[s] = since[u] => s = u
    /\ stale \subseteq Signals
    /\ \A c \in Submitters :
          /\ sub[c].at \in {"idle", "oldest", "evict", "create"}
          /\ sub[c].sig \in Signals \cup {None} /\ sub[c].evict \in Signals \cup {None}
          /\ sub[c].at = "evict" => sub[c].evict # None
    /\ \A c \in Deciders : dec[c].at \in {"idle", "approve", "reject", "expire"}
    /\ task.at \in {"sleep", "expire"} /\ task.listed \subseteq Signals
    /\ told \in [Signals -> SUBSET Outcomes] /\ won \in [Signals -> Nat]
    /\ shared \subseteq Submitters /\ crowded \in Nat

\* A signal is decided once: whatever requests, evictions and passes of the task race for it,
\* the first outcome stored is the last.
DecidedOnce == [][\A s \in Signals : status[s] \in Outcomes => status'[s] = status[s]]_vars

\* Of all the calls that race for a signal at most one is told it decided, and what the
\* clients hear of an approval or a rejection is what is stored.
OneWinner ==
    \A s \in Signals :
        /\ won[s] <= 1
        /\ won[s] = 1 => status[s] \in {"APPROVED", "REJECTED"}
        /\ told[s] \ {"EXPIRED"} \subseteq {status[s]}

\* A signal announced as expired may have been approved by a call that read it in time, but
\* its time had passed, and it is no longer pending.
ExpiryAnnouncedLate ==
    \A s \in Signals : "EXPIRED" \in told[s] => s \in stale /\ status[s] \in Outcomes

\* Submissions that overlap no other keep the queue within its limit; each one that does may
\* lengthen it by one, since two of them may count the same rows or evict the same one.
QueueBounded == Cardinality(Pending) <= MaxQueue + crowded

\* No signal whose time has passed stays pending: again and again the task has got to all of
\* them, through failed passes and whatever the requests do.
StaleSettles == []<>(Pending \cap stale = {})
=============================================================================
