------------------------- MODULE PaperTradingProofs -------------------------
(***************************************************************************)
(* Theorems about PaperTrading, for any number of calls, positions, trades *)
(* and accounts, any capital, prices and limits.                           *)
(***************************************************************************)
EXTENDS PaperTrading, SumTheorems

-----------------------------------------------------------------------------
(* Types.                                                                  *)

Trades == [pos : Ids, price : Int, by : {"task", "admin"}]

\* What each call holds, at the stages it has; the positions it works on are rows, and they
\* are numbered in order.
Form ==
    /\ trades \in Seq(Trades)
    /\ \A c \in Openers : call[c].at \in {"idle", "save", "heat", "write"}
    /\ task \in [at : {"idle", "list", "next", "update", "trade", "close", "heat", "write"},
                 copy : Accounts, todo : SUBSET Ids, now : Ids \cup {0}, price : Prices \cup {0}]
    /\ task.at \in {"update", "trade"} => task.price \in Prices
    /\ task.todo \cup ({task.now} \ {0}) \subseteq Created
    /\ admin \in [at : {"idle", "list", "commit"}, copy : Accounts, listed : Seq(Trades)]
    /\ \A i \in DOMAIN admin.listed : admin.listed[i].pos \in Created
    /\ \E n \in 0..MaxPositions : Created = 1..n

Stable == TypeOK /\ Form

Tallies == unseen \in Nat /\ unpaid \in Nat /\ repeats \in Nat

LEMMA Constants ==
    /\ Entry - Stop \in Nat \ {0} /\ Entry \in Nat /\ Cost \in Nat /\ MaxPositions \in Nat
    /\ \A price \in Int : Proceeds(price) \in Int /\ Unrealized(price) \in Int
    /\ 0 \notin Ids /\ Ids \subseteq Nat /\ IsFiniteSet(Ids)
    /\ Starting \in Nat \ {0} /\ MaxAccounts \in Nat \ {0} /\ Prices \subseteq Int
    /\ "task" \notin Openers /\ "admin" \notin Openers
BY PaperAssumption, FS_Interval DEF Entry, Cost, Proceeds, Unrealized, Ids

LEMMA Counts ==
    /\ IsFiniteSet(Open) /\ Cardinality(Open) \in Nat
    /\ IsFiniteSet(Created) /\ Cardinality(Created) \in Nat
<1>1. IsFiniteSet(Open) /\ IsFiniteSet(Created)
  BY Constants, FS_Subset DEF Open, Created
<1> QED BY <1>1, FS_CardinalityType

LEMMA CountedType ==
    ASSUME NEW n \in Nat, NEW c, NEW P \in BOOLEAN
    PROVE  Counted(n, c, P) \in {n, n + 1} /\ Counted(n, c, P) \in Nat /\ n <= Counted(n, c, P)
BY DEF Counted

LEMMA RiskType == OpenRisk \in Nat /\ \A e \in Int : CurrentRisk(e) \in Nat
BY Counts, Constants DEF OpenRisk, CurrentRisk

\* The number _save_position gives is one no other position has.
LEMMA NextPosition ==
    ASSUME Stable, Created # Ids
    PROVE  LET n == Cardinality(Created)
           IN  n + 1 \in Ids /\ n + 1 \notin Created /\ Created = 1..n /\ n \in Nat
<1>1. PICK n \in 0..MaxPositions : Created = 1..n
  BY DEF Stable, Form
<1>2. Cardinality(Created) = n
  BY <1>1, FS_Interval, Constants
<1>3. n # MaxPositions
  BY <1>1 DEF Ids
<1>4. n \in Nat /\ n + 1 \in 1..MaxPositions /\ n + 1 \notin 1..n
  BY <1>3, PaperAssumption
<1> QED BY <1>1, <1>2, <1>4 DEF Ids

LEMMA IncomeType ==
    ASSUME NEW exits \in Seq(Trades), NEW I \in SUBSET DOMAIN exits
    PROVE  IsFiniteSet(I) /\ Income(exits, I) \in Int
<1>1. DOMAIN exits = 1..Len(exits) /\ Len(exits) \in Nat /\ 1 \in Int
  OBVIOUS
<1>2. IsFiniteSet(DOMAIN exits)
  BY <1>1, FS_Interval
<1>3. IsFiniteSet(I)
  BY <1>2, FS_Subset
<1>4. \A i \in I : exits[i].price \in Int
  <2>1. \A i \in I : exits[i] \in Trades
    BY <1>1
  <2> QED BY <2>1 DEF Trades
<1>5. \A i \in I : [j \in DOMAIN exits |-> Proceeds(exits[j].price)][i] \in Int
  BY <1>4, Constants
<1> QED BY <1>3, <1>5, SumType DEF Income

LEMMA CreditType ==
    ASSUME NEW a \in Accounts, NEW exits \in Seq(Trades)
    PROVE  Credit(a, exits) \in Accounts /\ Credit(a, exits).id = a.id
<1>1. Income(exits, DOMAIN exits) \in Int /\ Len(exits) \in Nat
  BY IncomeType
<1>2. a.capital + Income(exits, DOMAIN exits) \in Int /\ a.trades + Len(exits) \in Nat /\ 0 \in Nat
  BY <1>1 DEF Accounts
<1> HIDE DEF Income
<1> QED BY <1>2 DEF Credit, Accounts

LEMMA Written ==
    ASSUME Stable, NEW a \in Accounts, UpdateAccount(a)
    PROVE  /\ account' \in Accounts /\ peak' \in Int /\ account'.id = account.id
           /\ account' = IF account.id = a.id THEN a ELSE account
BY DEF Stable, TypeOK, UpdateAccount, Highest, Accounts

\* What the steps of each actor leave alone.
LEMMA OpenerFrame == ASSUME NEW c \in Openers, Opener(c) PROVE UNCHANGED <<trades, task, admin>>
<1>1. CASE ExecuteSignal(c)
  BY <1>1 DEF ExecuteSignal, rows
<1>2. CASE SavePosition(c)
  BY <1>2 DEF SavePosition
<1>3. CASE CurrentHeat(c)
  BY <1>3 DEF CurrentHeat, rows
<1>4. CASE ExecuteReturns(c)
  BY <1>4 DEF ExecuteReturns
<1>5. CASE ExecuteFails(c)
  BY <1>5 DEF ExecuteFails, rows
<1> QED BY <1>1, <1>2, <1>3, <1>4, <1>5 DEF Opener

LEMMA TaskFrame == ASSUME Task PROVE UNCHANGED <<call, admin>>
<1>1. CASE PassReads \/ PassLists
  BY <1>1 DEF PassReads, PassLists
<1>2. CASE FetchPrice \/ UpdatePosition
  BY <1>2 DEF FetchPrice, UpdatePosition
<1>3. CASE SaveTrade \/ ClosePosition
  BY <1>3 DEF SaveTrade, ClosePosition
<1>4. CASE TotalPnl \/ TotalHeat \/ PassWrites
  BY <1>4 DEF TotalPnl, TotalHeat, PassWrites
<1>5. CASE PositionFails \/ PassFails
  BY <1>5 DEF PositionFails, PassFails
<1> QED BY <1>1, <1>2, <1>3, <1>4, <1>5 DEF Task

LEMMA OperatorFrame == ASSUME Operator PROVE UNCHANGED <<call, task>>
<1>1. CASE Enable \/ Reset \/ DisableReads
  BY <1>1 DEF Enable, Reset, DisableReads
<1>2. CASE DisableLists \/ DisableFails
  BY <1>2 DEF DisableLists, DisableFails
<1>3. CASE DisableCommits
  BY <1>3 DEF DisableCommits
<1> QED BY <1>1, <1>2, <1>3 DEF Operator

LEMMA StableInit == Init => Stable
<1> SUFFICES ASSUME Init PROVE Stable
  OBVIOUS
<1> USE PaperAssumption DEF Init
<1>1. NoAccount \in Accounts /\ NoAccount.id = 0
  BY DEF NoAccount, Accounts
<1>2. Created = {} /\ Created = 1..0
  BY DEF Created, NoPosition
<1>3. pos \in [Ids -> [status : {"none", "OPEN", "CLOSED", "deleted"},
                       price : Prices \cup {0, Market}, pnl : Int]]
  BY DEF NoPosition
<1>4. call \in [Openers -> [at : Stages, copy : Accounts]] /\ peak \in Int
  BY <1>1 DEF Idle, Stages
<1>5. TypeOK
  <2>1. 0 \notin Ids
    BY DEF Ids
  <2> QED BY <1>1, <1>3, <1>4, <2>1 DEF TypeOK, Idle, Stages
<1>6. Form
  BY <1>1, <1>2 DEF Form, Idle
<1> QED BY <1>5, <1>6 DEF Stable

\* Types of what an opener's step changes.
LEMMA OpenerStable == ASSUME Stable, NEW c \in Openers, Opener(c) PROVE Stable'
<1> USE DEF Stable
<1>0. /\ c # "task" /\ c # "admin" /\ NoAccount \in Accounts /\ NoAccount.id = 0
      /\ call[c].copy \in Accounts
  BY Constants, PaperAssumption DEF NoAccount, Accounts, TypeOK
\* What is left to show of a step that leaves the task and the requests alone.
<1>1. ASSUME UNCHANGED <<trades, task, admin>>, Created' = Created,
             call' \in [Openers -> [at : Stages, copy : Accounts]],
             \A d \in Openers : /\ call'[d].at \in {"idle", "save", "heat", "write"}
                                /\ call'[d].copy.id = 0 <=> call'[d].at = "idle",
             account' \in Accounts, peak' \in Int, Tallies', loose' = loose,
             UNCHANGED pos, crowd' \subseteq Busy'
      PROVE  Stable'
  BY <1>1 DEF TypeOK, Form, Tallies
<1>6. Tallies
  BY DEF TypeOK, Tallies
<1>2. CASE ExecuteSignal(c)
  <2>1. /\ call' \in [Openers -> [at : Stages, copy : Accounts]]
        /\ \A d \in Openers : /\ call'[d].at \in {"idle", "save", "heat", "write"}
                              /\ call'[d].copy.id = 0 <=> call'[d].at = "idle"
    BY <1>2 DEF ExecuteSignal, Readable, TypeOK, Form, Stages
  <2>2. Busy' = Busy \cup {c}
    BY <1>0, <1>2 DEF ExecuteSignal, Busy, TypeOK
  <2>3. crowd' \subseteq Busy'
    BY <1>2, <2>2 DEF ExecuteSignal, Begins, TypeOK
  <2>4. Tallies' /\ loose' = loose
    BY <1>2, <1>6 DEF ExecuteSignal, counts, Tallies
  <2> QED BY <1>1, <1>2, <2>1, <2>3, <2>4 DEF ExecuteSignal, rows, Created, TypeOK
<1>3. CASE SavePosition(c)
  <2> DEFINE n == Cardinality(Created) + 1
  <2>1. n \in Ids /\ Created' = 1..n /\ n \in 0..MaxPositions
    <3>1. n \in Ids /\ n \notin Created /\ Created = 1..(n - 1) /\ n \in Nat \ {0}
      BY <1>3, NextPosition DEF SavePosition
    <3>2. Created' = Created \cup {n}
      BY <1>3, <3>1 DEF SavePosition, Created, TypeOK
    <3> HIDE DEF n
    <3> QED BY <3>1, <3>2 DEF Ids
  <2>2. /\ call' \in [Openers -> [at : Stages, copy : Accounts]]
        /\ \A d \in Openers : /\ call'[d].at \in {"idle", "save", "heat", "write"}
                              /\ call'[d].copy.id = 0 <=> call'[d].at = "idle"
    <3>1. call[c].copy.capital - Cost \in Int
      BY <1>0, Constants DEF Accounts
    <3>2. [call[c].copy EXCEPT !.capital = @ - Cost] \in Accounts
      BY <1>0, <3>1 DEF Accounts
    <3>3. call' = [call EXCEPT ![c] = [at |-> "heat", copy |-> [call[c].copy EXCEPT !.capital = @ - Cost]]]
      BY <1>3 DEF SavePosition
    <3>4. [call[c].copy EXCEPT !.capital = @ - Cost].id = call[c].copy.id
      BY <1>0 DEF Accounts
    <3>5. /\ call \in [Openers -> [at : Stages, copy : Accounts]] /\ call[c].at = "save"
          /\ \A d \in Openers : /\ call[d].at \in {"idle", "save", "heat", "write"}
                                /\ call[d].copy.id = 0 <=> call[d].at = "idle"
      BY <1>3 DEF TypeOK, Form, SavePosition
    <3> HIDE DEF Stable
    <3> QED BY <3>2, <3>3, <3>4, <3>5 DEF Stages
  <2>3. pos' \in [Ids -> [status : {"none", "OPEN", "CLOSED", "deleted"},
                          price : Prices \cup {0, Market}, pnl : Int]]
    <3> HIDE DEF n
    <3> QED BY <1>3, <2>1 DEF SavePosition, TypeOK, n
  <2>4. Busy' = Busy
    BY <1>3, <2>2 DEF SavePosition, Busy, TypeOK
  <2>5. Tallies' /\ loose' = loose
    BY <1>3, <1>6, CountedType DEF SavePosition, Tallies
  <2>6. TypeOK'
    BY <1>3, <2>2, <2>3, <2>4, <2>5 DEF SavePosition, TypeOK, Tallies
  <2>7. Created \subseteq Created'
    <3>1. Created = 1..(n - 1) /\ n \in Nat
      BY <1>3, NextPosition DEF SavePosition
    <3> HIDE DEF n
    <3> QED BY <2>1, <3>1
  <2>8. Form'
    <3> HIDE DEF n
    <3>1. UNCHANGED <<trades, task, admin>>
      BY <1>3 DEF SavePosition
    <3> QED BY <2>1, <2>2, <2>7, <3>1 DEF Form
  <2> QED BY <2>6, <2>8
<1>4. CASE CurrentHeat(c)
  <2> DEFINE r == CurrentRisk(call[c].copy.equity)
  <2>1. r \in Nat
    BY <1>0, RiskType DEF Accounts
  <2> HIDE DEF r
  <2>2. /\ [call[c].copy EXCEPT !.risk = r] \in Accounts
        /\ [call[c].copy EXCEPT !.risk = r].id = call[c].copy.id
    BY <1>0, <2>1 DEF Accounts
  <2>3. call' = [call EXCEPT ![c] = [at |-> "write", copy |-> [call[c].copy EXCEPT !.risk = r]]]
    BY <1>4 DEF CurrentHeat, r
  <2>4. /\ call' \in [Openers -> [at : Stages, copy : Accounts]]
        /\ \A d \in Openers : /\ call'[d].at \in {"idle", "save", "heat", "write"}
                              /\ call'[d].copy.id = 0 <=> call'[d].at = "idle"
    <3>1. /\ call \in [Openers -> [at : Stages, copy : Accounts]] /\ call[c].at = "heat"
          /\ \A d \in Openers : /\ call[d].at \in {"idle", "save", "heat", "write"}
                                /\ call[d].copy.id = 0 <=> call[d].at = "idle"
      BY <1>4 DEF TypeOK, Form, CurrentHeat
    <3> HIDE DEF Stable
    <3> QED BY <2>2, <2>3, <3>1 DEF Stages
  <2>5. Busy' = Busy
    BY <1>4, <2>3 DEF CurrentHeat, Busy, TypeOK
  <2>6. Tallies' /\ loose' = loose
    BY <1>4, <1>6 DEF CurrentHeat, history, counts, Tallies
  <2> QED BY <1>1, <1>4, <2>4, <2>5, <2>6 DEF CurrentHeat, rows, history, Created, TypeOK
<1>5. CASE ExecuteReturns(c)
  <2>1. /\ call' \in [Openers -> [at : Stages, copy : Accounts]]
        /\ \A d \in Openers : /\ call'[d].at \in {"idle", "save", "heat", "write"}
                              /\ call'[d].copy.id = 0 <=> call'[d].at = "idle"
    BY <1>0, <1>5 DEF ExecuteReturns, TypeOK, Form, Stages, Idle
  <2>2. Busy' = Busy \ {c}
    BY <1>0, <1>5 DEF ExecuteReturns, Busy, TypeOK, Idle
  <2>3. account' \in Accounts /\ peak' \in Int
    BY <1>0, <1>5, Written DEF ExecuteReturns
  <2>4. Tallies' /\ loose' = loose
    BY <1>5, <1>6, CountedType DEF ExecuteReturns, Tallies
  <2> QED BY <1>1, <1>5, <2>1, <2>2, <2>3, <2>4 DEF ExecuteReturns, Ends, Created, TypeOK
<1>7. CASE ExecuteFails(c)
  <2>1. /\ call' \in [Openers -> [at : Stages, copy : Accounts]]
        /\ \A d \in Openers : /\ call'[d].at \in {"idle", "save", "heat", "write"}
                              /\ call'[d].copy.id = 0 <=> call'[d].at = "idle"
    BY <1>0, <1>7 DEF ExecuteFails, TypeOK, Form, Stages, Idle
  <2>2. Busy' = Busy \ {c}
    BY <1>0, <1>7 DEF ExecuteFails, Busy, TypeOK, Idle
  <2>3. Tallies' /\ loose' = loose
    BY <1>6, <1>7 DEF ExecuteFails, Tallies
  <2> QED BY <1>1, <1>7, <2>1, <2>2, <2>3 DEF ExecuteFails, Ends, rows, Created, TypeOK
<1> QED BY <1>2, <1>3, <1>4, <1>5, <1>7 DEF Opener

TaskType == [at : {"idle", "list", "next", "update", "trade", "close", "heat", "write"},
             copy : Accounts, todo : SUBSET Ids, now : Ids \cup {0}, price : Prices \cup {0}]

\* The parts of Stable about the task and the positions.
TaskOK ==
    /\ task \in TaskType
    /\ task.copy.id = 0 <=> task.at = "idle"
    /\ task.at \in {"update", "trade", "close"} <=> task.now \in Ids
    /\ task.at \in {"update", "trade"} => task.price \in Prices
    /\ task.todo \cup ({task.now} \ {0}) \subseteq Created

PosType == [Ids -> [status : {"none", "OPEN", "CLOSED", "deleted"},
                    price : Prices \cup {0, Market}, pnl : Int]]

LEMMA TaskStable == ASSUME Stable, Task PROVE Stable'
<1> DEFINE Others == UNCHANGED <<call, admin>>
<1>0. /\ NoAccount \in Accounts /\ NoAccount.id = 0 /\ 0 \notin Ids
      /\ task \in TaskType /\ TaskOK /\ pos \in PosType /\ account \in Accounts
  <2>1. NoAccount \in Accounts /\ NoAccount.id = 0
    BY PaperAssumption DEF NoAccount, Accounts
  <2>2. 0 \notin Ids
    BY DEF Ids
  <2> QED BY <2>1, <2>2 DEF Stable, TypeOK, Form, TaskType, TaskOK, PosType
<1>1. ASSUME UNCHANGED <<call, admin>>, TaskOK', pos' \in PosType, Created' = Created,
             trades' \in Seq(Trades), account' \in Accounts, peak' \in Int, Tallies',
             loose' = loose, DOMAIN trades \subseteq DOMAIN trades',
             \/ crowd' \subseteq crowd \cup Busy \cup {"task"} /\ task'.at # "idle"
             \/ crowd' = crowd /\ task.at = "idle"
             \/ crowd' = crowd \ {"task"}
      PROVE  Stable'
  <2>1. Busy' = (Busy \ {"task"}) \cup (IF task'.at # "idle" THEN {"task"} ELSE {})
    BY <1>1, Constants DEF Busy
  <2>2. crowd \subseteq Busy
    BY DEF Stable, TypeOK
  <2>3. task.at = "idle" => "task" \notin Busy
    BY Constants DEF Busy
  <2>4. crowd' \subseteq Busy'
    BY <1>1, <2>1, <2>2, <2>3
  <2>5. \A i \in DOMAIN trades' : trades'[i].pos \in Ids /\ trades'[i].by \in {"task", "admin"}
    <3>1. \A i \in DOMAIN trades' : trades'[i] \in Trades
      BY <1>1
    <3> QED BY <3>1 DEF Trades
  <2>6. TypeOK'
    BY <1>1, <2>4, <2>5 DEF TypeOK, Stable, TaskOK, TaskType, PosType, Stages, Tallies
  <2>7. Form'
    BY <1>1 DEF Form, Stable, TaskOK, TaskType
  <2> QED BY <2>6, <2>7 DEF Stable
<1>2. trades \in Seq(Trades) /\ peak \in Int /\ Tallies
  BY DEF Stable, TypeOK, Form, Tallies
<1>20. ASSUME UNCHANGED counts PROVE Tallies' /\ loose' = loose
  BY <1>2, <1>20 DEF counts, Tallies
<1> USE DEF TaskOK, TaskType
<1>3. CASE PassReads
  <2>1. TaskOK' /\ task'.at = "list"
    BY <1>0, <1>3 DEF PassReads, Readable, rows, Created
  <2>2. Tallies' /\ loose' = loose
    BY <1>3, <1>20 DEF PassReads
  <2> QED BY <1>0, <1>1, <1>2, <1>3, <2>1, <2>2 DEF PassReads, Begins, rows, Created
<1>4. CASE PassLists
  <2>3. Tallies' /\ loose' = loose
    BY <1>4, <1>20 DEF PassLists
  <2>1. CASE Open = {}
    <3>1. TaskOK' /\ crowd' = crowd \ {"task"}
      BY <1>0, <1>4, <2>1 DEF PassLists, TaskIdle, Ends, rows, Created
    <3> QED BY <1>0, <1>1, <1>2, <1>4, <2>3, <3>1 DEF PassLists, rows, Created
  <2>2. CASE Open # {}
    <3>1. task' = [task EXCEPT !.at = "next", !.todo = Open] /\ crowd' = crowd /\ task.at = "list"
      BY <1>4, <2>2 DEF PassLists
    <3>2. Open \in SUBSET Ids /\ Open \subseteq Created
      BY DEF Open, Created
    <3>3. Created' = Created
      BY <1>4 DEF PassLists, rows, Created
    <3>4. TaskOK' /\ task'.at # "idle"
      BY <1>0, <3>1, <3>2, <3>3
    <3> QED BY <1>0, <1>1, <1>2, <1>4, <2>3, <3>1, <3>3, <3>4 DEF PassLists, rows
  <2> QED BY <2>1, <2>2
<1>5. CASE FetchPrice
  <2>1. PICK p \in task.todo :
            \/ \E price \in Prices :
                  task' = [task EXCEPT !.at = IF Hit(price) THEN "trade" ELSE "update",
                                       !.now = p, !.price = price, !.todo = @ \ {p}]
            \/ task' = [task EXCEPT !.todo = @ \ {p}]
    BY <1>5 DEF FetchPrice
  <2>2. task.at = "next" /\ UNCHANGED <<rows, call, admin, history>>
    BY <1>5 DEF FetchPrice
  <2>3. Created' = Created
    BY <2>2 DEF rows, Created
  <2>5. Tallies' /\ loose' = loose
    BY <1>20, <2>2 DEF history
  <2>4. TaskOK' /\ task'.at # "idle"
    <3>1. p \in Ids /\ p \in Created /\ task.todo \ {p} \in SUBSET Ids
      BY <1>0
    <3>2. ASSUME NEW price \in Prices,
                 task' = [task EXCEPT !.at = IF Hit(price) THEN "trade" ELSE "update",
                                      !.now = p, !.price = price, !.todo = @ \ {p}]
          PROVE  TaskOK' /\ task'.at # "idle"
      BY <1>0, <2>2, <2>3, <3>1, <3>2
    <3>3. CASE task' = [task EXCEPT !.todo = @ \ {p}]
      BY <1>0, <2>2, <2>3, <3>1, <3>3
    <3> QED BY <2>1, <3>2, <3>3
  <2> QED BY <1>0, <1>1, <1>2, <2>2, <2>3, <2>4, <2>5 DEF rows, history
<1>6. CASE UpdatePosition
  <2>1. task.now \in Ids /\ task.price \in Prices /\ Unrealized(task.price) \in Int
    BY <1>0, <1>6, Constants DEF UpdatePosition
  <2>2. pos' \in PosType /\ Created' = Created
    <3>1. pos[task.now].status # "none"
      BY <1>0, <2>1 DEF Created
    <3> QED BY <1>0, <1>6, <2>1, <3>1 DEF UpdatePosition, PosType, Created
  <2>3. TaskOK' /\ task'.at # "idle"
    BY <1>0, <1>6, <2>2 DEF UpdatePosition, TaskNext
  <2>4. Tallies' /\ loose' = loose /\ crowd' = crowd
    BY <1>2, <1>6, CountedType DEF UpdatePosition, Tallies
  <2> QED BY <1>0, <1>1, <1>2, <1>6, <2>2, <2>3, <2>4 DEF UpdatePosition
<1>7. CASE SaveTrade
  <2>1. Created' = Created /\ task.now \in Ids /\ task.price \in Int
    BY <1>0, <1>7, Constants DEF SaveTrade, Created
  <2>2. CASE Exists(task.now)
    <3>1. trades' \in Seq(Trades)
      <4>1. [pos |-> task.now, price |-> task.price, by |-> "task"] \in Trades
        BY <2>1 DEF Trades
      <4> QED BY <1>2, <1>7, <2>2, <4>1 DEF SaveTrade
    <3>2. TaskOK' /\ task'.at # "idle" /\ crowd' = crowd
      BY <1>0, <1>7, <2>1, <2>2 DEF SaveTrade
    <3>3. Tallies' /\ loose' = loose
      BY <1>2, <1>7, <2>2 DEF SaveTrade, Tallies, Counted
    <3>4. DOMAIN trades \subseteq DOMAIN trades'
      BY <1>2, <1>7, <2>2 DEF SaveTrade
    <3> QED BY <1>0, <1>1, <1>2, <1>7, <2>1, <3>1, <3>2, <3>3, <3>4 DEF SaveTrade
  <2>3. CASE ~Exists(task.now)
    <3>1. TaskOK' /\ crowd' = crowd \ {"task"} /\ trades' = trades
      BY <1>0, <1>7, <2>1, <2>3 DEF SaveTrade, TaskIdle, Ends
    <3>2. Tallies' /\ loose' = loose
      BY <1>2, <1>7, <2>3 DEF SaveTrade, Tallies
    <3> QED BY <1>0, <1>1, <1>2, <1>7, <2>1, <3>1, <3>2 DEF SaveTrade
  <2> QED BY <2>2, <2>3
<1>8. CASE ClosePosition
  <2>1. pos' \in PosType /\ Created' = Created
    <3>1. task.now \in Ids /\ pos[task.now].status # "none"
      BY <1>0, <1>8 DEF ClosePosition, Created
    <3> QED BY <1>0, <1>8, <3>1 DEF ClosePosition, PosType, Created, Closed, NoPosition
  <2>2. TaskOK' /\ task'.at # "idle"
    BY <1>0, <1>8, <2>1 DEF ClosePosition, TaskNext
  <2>3. Tallies' /\ loose' = loose
    BY <1>8, <1>20 DEF ClosePosition, history
  <2> QED BY <1>0, <1>1, <1>2, <1>8, <2>1, <2>2, <2>3 DEF ClosePosition, history
<1>9. CASE TotalPnl
  <2> DEFINE pnl == SumFunctionOnSet([p \in Ids |-> pos[p].pnl], Open)
  <2>1. task.copy.capital + pnl \in Int
    <3>1. pnl \in Int
      <4>1. \A p \in Open : [q \in Ids |-> pos[q].pnl][p] \in Int
        BY <1>0 DEF Open, PosType
      <4> QED BY <4>1, Counts, SumType
    <3> HIDE DEF pnl
    <3> QED BY <1>0, <3>1 DEF Accounts
  <2>2. /\ task' = [task EXCEPT !.at = "heat", !.copy.equity = task.copy.capital + pnl]
        /\ task.at = "next" /\ UNCHANGED <<rows, call, admin, history>>
    BY <1>9 DEF TotalPnl
  <2> HIDE DEF pnl
  <2>3. Created' = Created
    BY <2>2 DEF rows, Created
  <2>4. TaskOK' /\ task'.at # "idle"
    BY <1>0, <2>1, <2>2, <2>3 DEF Accounts
  <2>5. Tallies' /\ loose' = loose
    BY <1>20, <2>2 DEF history
  <2> QED BY <1>0, <1>1, <1>2, <2>2, <2>3, <2>4, <2>5 DEF rows, history
<1>10. CASE TotalHeat
  <2> DEFINE risk == CurrentRisk(task.copy.equity)
  <2>1. risk \in Nat
    BY <1>0, RiskType DEF Accounts
  <2>2. /\ task' = [task EXCEPT !.at = "write", !.copy.risk = risk]
        /\ task.at = "heat" /\ UNCHANGED <<rows, call, admin, history>>
    BY <1>10 DEF TotalHeat
  <2> HIDE DEF risk
  <2>3. Created' = Created
    BY <2>2 DEF rows, Created
  <2>4. TaskOK' /\ task'.at # "idle"
    BY <1>0, <2>1, <2>2, <2>3 DEF Accounts
  <2>5. Tallies' /\ loose' = loose
    BY <1>20, <2>2 DEF history
  <2> QED BY <1>0, <1>1, <1>2, <2>2, <2>3, <2>4, <2>5 DEF rows, history
<1>11. CASE PassWrites
  <2>1. account' \in Accounts /\ peak' \in Int
    BY <1>0, <1>11, Written DEF PassWrites
  <2>2. TaskOK' /\ crowd' = crowd \ {"task"} /\ Created' = Created
    BY <1>0, <1>11 DEF PassWrites, TaskIdle, Ends, Created
  <2>3. Tallies' /\ loose' = loose
    BY <1>11, <1>20 DEF PassWrites
  <2> QED BY <1>0, <1>1, <1>2, <1>11, <2>1, <2>2, <2>3 DEF PassWrites
<1>12. CASE PositionFails \/ PassFails
  <2>1. /\ UNCHANGED <<rows, loose>> /\ Created' = Created /\ Tallies'
    BY <1>2, <1>12 DEF PositionFails, PassFails, LeftOpen, rows, Created, Tallies
  <2>2. CASE PositionFails
    <3>1. TaskOK' /\ task'.at # "idle" /\ crowd' = crowd /\ peak' = peak
      BY <1>0, <2>1, <2>2 DEF PositionFails, TaskNext
    <3> QED BY <1>0, <1>1, <1>2, <2>1, <2>2, <3>1 DEF PositionFails, rows
  <2>3. CASE PassFails
    <3>1. TaskOK' /\ crowd' = crowd \ {"task"} /\ peak' = peak
      BY <1>0, <2>1, <2>3 DEF PassFails, TaskIdle, Ends
    <3> QED BY <1>0, <1>1, <1>2, <2>1, <2>3, <3>1 DEF PassFails, rows
  <2> QED BY <1>12, <2>2, <2>3
<1> QED BY <1>3, <1>4, <1>5, <1>6, <1>7, <1>8, <1>9, <1>10, <1>11, <1>12 DEF Task

\* What a request lists: the open positions, each once.
Lists(latest) ==
    /\ latest \in [1..Cardinality(Open) -> Open]
    /\ \A i, j \in DOMAIN latest : i < j => latest[i] > latest[j]
Exits(latest) ==
    [i \in DOMAIN latest |-> [pos |-> latest[i], by |-> "admin", price |-> pos[latest[i]].price]]

LEMMA ExitsType ==
    ASSUME Stable, NEW latest, Lists(latest)
    PROVE  /\ Exits(latest) \in Seq(Trades) /\ Len(Exits(latest)) = Cardinality(Open)
           /\ DOMAIN Exits(latest) = 1..Cardinality(Open)
           /\ \A i \in DOMAIN Exits(latest) : /\ Exits(latest)[i].pos = latest[i]
                                              /\ Exits(latest)[i].by = "admin"
<1>1. Cardinality(Open) \in Nat /\ DOMAIN latest = 1..Cardinality(Open)
  BY Counts DEF Lists
<1>2. \A i \in DOMAIN latest : latest[i] \in Ids /\ pos[latest[i]].price \in Int
  <2>1. \A i \in DOMAIN latest : latest[i] \in Ids
    BY DEF Lists, Open
  <2>2. \A p \in Ids : pos[p].price \in Int
    <3>1. Prices \cup {0, Market} \subseteq Int
      BY PaperAssumption
    <3>2. \A p \in Ids : pos[p].price \in Prices \cup {0, Market}
      BY DEF Stable, TypeOK
    <3> QED BY <3>1, <3>2
  <2> QED BY <2>1, <2>2
<1>3. \A i \in DOMAIN latest :
         [pos |-> latest[i], by |-> "admin", price |-> pos[latest[i]].price] \in Trades
  BY <1>2 DEF Trades
<1>4. Exits(latest) \in [1..Cardinality(Open) -> Trades]
  BY <1>1, <1>3 DEF Exits
<1> QED BY <1>1, <1>4 DEF Exits

\* The positions a sequence of trades is about.
LEMMA ListedFinite ==
    ASSUME NEW s \in Seq(Trades)
    PROVE  LET S == {s[i].pos : i \in DOMAIN s}
           IN  IsFiniteSet(S) /\ Cardinality(S) \in Nat /\ Cardinality(S) <= Len(s)
<1> DEFINE S == {s[i].pos : i \in DOMAIN s}
<1>1. DOMAIN s = 1..Len(s) /\ Len(s) \in Nat
  OBVIOUS
<1>2. IsFiniteSet(DOMAIN s) /\ Cardinality(DOMAIN s) = Len(s)
  BY <1>1, FS_Interval
<1>3. [i \in DOMAIN s |-> s[i].pos] \in Surjection(DOMAIN s, S)
  BY DEF Surjection
<1> QED BY <1>2, <1>3, FS_Surjection, FS_CardinalityType

LEMMA OperatorStable == ASSUME Stable, Operator PROVE Stable'
<1>0. /\ NoAccount \in Accounts /\ NoAccount.id = 0 /\ account \in Accounts /\ pos \in PosType
      /\ trades \in Seq(Trades) /\ admin.copy \in Accounts /\ admin.listed \in Seq(Trades)
      /\ crowd \subseteq Busy /\ Tallies /\ loose \subseteq DOMAIN trades /\ peak \in Int
  <2>1. NoAccount \in Accounts /\ NoAccount.id = 0
    BY PaperAssumption DEF NoAccount, Accounts
  <2> QED BY <2>1 DEF Stable, TypeOK, Form, PosType, Tallies
<1>9. ASSUME UNCHANGED counts PROVE Tallies' /\ loose' = loose
  BY <1>0, <1>9 DEF counts, Tallies
\* The part of Stable about the requests.
<1> DEFINE AdminOK ==
      /\ admin \in [at : {"idle", "list", "commit"}, copy : Accounts, listed : Seq(Trades)]
      /\ admin.copy.id = 0 <=> admin.at = "idle"
      /\ \A i \in DOMAIN admin.listed : admin.listed[i].pos \in Created
<1>1. ASSUME UNCHANGED <<call, task>>, AdminOK', pos' \in PosType, Created' = Created,
             trades' \in Seq(Trades), account' \in Accounts, peak' \in Int, Tallies',
             loose' \subseteq DOMAIN trades', crowd' \subseteq Busy'
      PROVE  Stable'
  <2>1. \A i \in DOMAIN trades' : trades'[i].pos \in Ids /\ trades'[i].by \in {"task", "admin"}
    <3>1. \A i \in DOMAIN trades' : trades'[i] \in Trades
      BY <1>1
    <3> QED BY <3>1 DEF Trades
  <2>2. TypeOK'
    BY <1>1, <2>1 DEF TypeOK, Stable, PosType, Stages, Tallies
  <2>3. Form'
    BY <1>1 DEF Form, Stable
  <2> QED BY <2>2, <2>3 DEF Stable
<1>2. AdminOK
  BY DEF Stable, TypeOK, Form
<1>3. \A id \in 1..MaxAccounts : NewAccount(id) \in Accounts
  BY PaperAssumption DEF NewAccount, Accounts
<1>4. CASE Enable
  <2>1. NewAccount(1) \in Accounts /\ Starting \in Int
    BY <1>3, PaperAssumption
  <2>2. Busy' = Busy /\ Created' = Created /\ AdminOK'
    BY <1>2, <1>4 DEF Enable, Busy, Created
  <2> HIDE DEF AdminOK
  <2>3. Tallies' /\ loose' = loose
    BY <1>4, <1>9 DEF Enable
  <2> QED BY <1>0, <1>1, <1>4, <2>1, <2>2, <2>3 DEF Enable
<1>5. CASE DisableReads
  <2>1. Created' = Created /\ AdminOK' /\ admin'.at = "list"
    BY <1>0, <1>2, <1>5 DEF DisableReads, Readable, rows, Created
  <2>2. crowd' \subseteq Busy'
    BY <1>0, <1>5, <2>1 DEF DisableReads, Begins, Busy
  <2>3. Tallies' /\ loose' = loose
    BY <1>5, <1>9 DEF DisableReads
  <2> HIDE DEF AdminOK
  <2> QED BY <1>0, <1>1, <1>5, <2>1, <2>2, <2>3 DEF DisableReads, rows
<1>6. CASE DisableLists
  <2>1. /\ Created' = Created /\ UNCHANGED <<rows, call, task, peak>>
        /\ Tallies' /\ loose' = loose
    BY <1>6, <1>9 DEF DisableLists, rows, Created
  <2>2. CASE admin' = AdminIdle /\ Ends("admin")
    <3>1. AdminOK'
      BY <1>0, <2>2 DEF AdminIdle
    <3>2. Busy' = Busy \ {"admin"}
      BY <2>1, <2>2, Constants DEF Busy, AdminIdle
    <3> HIDE DEF AdminOK
    <3> QED BY <1>0, <1>1, <2>1, <2>2, <3>1, <3>2 DEF Ends, rows
  <2>3. CASE ~(admin' = AdminIdle /\ Ends("admin"))
    <3>1. PICK latest : Lists(latest) /\ admin' = [admin EXCEPT !.at = "commit", !.listed = Exits(latest)]
      BY <1>6, <2>3 DEF DisableLists, Lists, Exits
    <3>2. crowd' = crowd /\ admin.at = "list"
      BY <1>6, <2>3 DEF DisableLists
    <3>3. /\ Exits(latest) \in Seq(Trades) /\ Len(Exits(latest)) = Cardinality(Open)
          /\ DOMAIN Exits(latest) = 1..Cardinality(Open)
          /\ \A i \in DOMAIN Exits(latest) : Exits(latest)[i].pos = latest[i]
      BY <3>1, ExitsType
    <3>4. \A i \in DOMAIN Exits(latest) : Exits(latest)[i].pos \in Created
      BY <3>1, <3>3 DEF Lists, Open, Created
    <3>5. AdminOK' /\ admin'.at = "commit"
      BY <1>2, <2>1, <3>1, <3>2, <3>3, <3>4
    <3>6. Busy' = Busy
      BY <2>1, <3>2, <3>5 DEF Busy
    <3> HIDE DEF AdminOK
    <3> QED BY <1>0, <1>1, <2>1, <3>2, <3>5, <3>6 DEF rows
  <2> QED BY <2>2, <2>3
<1>7. CASE DisableCommits
  <2>1. trades' \in Seq(Trades)
    BY <1>0, <1>7 DEF DisableCommits
  <2>2. pos' \in PosType
    BY <1>0, <1>7 DEF DisableCommits, PosType, Closed, NoPosition
  <2>3. Created' = Created
    <3>1. Listed \subseteq Created
      BY <1>2 DEF Listed
    <3> QED BY <1>7, <3>1 DEF DisableCommits, Created, Closed, NoPosition
  <2>4. account' \in Accounts /\ peak' \in Int
    BY <1>0, <1>7, CreditType, Written DEF DisableCommits
  <2>7. DOMAIN trades \subseteq DOMAIN trades'
    BY <1>0, <1>7 DEF DisableCommits
  <2>8. loose' \subseteq DOMAIN trades'
    BY <1>0, <1>7, <2>7 DEF DisableCommits
  <2>9. Tallies'
    <3>1. Cardinality(Listed \cap Traded) \in Nat
      <4>1. IsFiniteSet(Listed)
        BY <1>0, ListedFinite DEF Listed
      <4> QED BY <4>1, FS_Subset, FS_CardinalityType
    <3> QED BY <1>0, <1>7, <3>1 DEF DisableCommits, Tallies
  <2>5. AdminOK'
    BY <1>0, <1>7 DEF DisableCommits, AdminIdle
  <2>6. crowd' \subseteq Busy'
    <3>1. Busy' = Busy \ {"admin"}
      BY <1>7, Constants DEF DisableCommits, Busy, AdminIdle
    <3> QED BY <1>0, <1>7, <3>1 DEF DisableCommits, Ends
  <2> HIDE DEF AdminOK
  <2> QED BY <1>0, <1>1, <1>7, <2>1, <2>2, <2>3, <2>4, <2>5, <2>6, <2>8, <2>9 DEF DisableCommits
<1>8. CASE Reset
  <2>1. NewAccount(account.id + 1) \in Accounts /\ Starting \in Int
    <3>1. account.id + 1 \in 1..MaxAccounts
      <4>1. account.id \in 0..MaxAccounts /\ MaxAccounts \in Nat
        BY <1>0, PaperAssumption DEF Accounts
      <4>2. account.id < MaxAccounts
        BY <1>8 DEF Reset
      <4> QED BY <4>1, <4>2
    <3> QED BY <1>3, <3>1, PaperAssumption
  <2>2. pos' \in PosType /\ Created' = Created
    BY <1>0, <1>8 DEF Reset, PosType, Created, Deleted, NoPosition
  <2>3. Busy' = Busy /\ AdminOK'
    BY <1>2, <1>8, <2>2 DEF Reset, Busy
  <2>4. /\ crowd' \subseteq Busy' /\ Tallies' /\ loose' \subseteq DOMAIN trades'
        /\ trades' \in Seq(Trades)
    BY <1>8, <2>3 DEF Reset, Tallies
  <2> HIDE DEF AdminOK
  <2> QED BY <1>0, <1>1, <1>8, <2>1, <2>2, <2>3, <2>4 DEF Reset
<1>10. CASE DisableFails
  <2>1. AdminOK' /\ Created' = Created
    BY <1>0, <1>10 DEF DisableFails, AdminIdle, rows, Created
  <2>2. Busy' = Busy \ {"admin"}
    BY <1>10, Constants DEF DisableFails, Busy, AdminIdle
  <2>3. Tallies' /\ loose' = loose
    BY <1>9, <1>10 DEF DisableFails
  <2> HIDE DEF AdminOK
  <2> QED BY <1>0, <1>1, <1>10, <2>1, <2>2, <2>3 DEF DisableFails, Ends, rows
<1> QED BY <1>4, <1>5, <1>6, <1>7, <1>8, <1>10 DEF Operator

LEMMA StableStep == Stable /\ [Next]_vars => Stable'
<1> SUFFICES ASSUME Stable, [Next]_vars PROVE Stable'
  OBVIOUS
<1>1. CASE UNCHANGED vars
  BY <1>1 DEF vars, rows, history, counts, Stable, TypeOK, Form, Busy, Created
<1> QED BY <1>1, OpenerStable, TaskStable, OperatorStable DEF Next

LEMMA StableAlways == Spec => []Stable
BY StableInit, StableStep, PTL DEF Spec

\* The account, the rows, every call's copy and the bookkeeping of overlaps keep their types, and
\* a call holds an account's copy exactly while it is at work.
THEOREM TypeCorrect == Spec => []TypeOK
<1>1. Stable => TypeOK
  BY DEF Stable
<1> QED BY <1>1, StableAlways, PTL

LEMMA IdsGrow == ASSUME Stable, [Next]_vars PROVE account'.id >= account.id
<1>1. account.id \in Nat /\ account \in Accounts /\ task.copy \in Accounts /\ admin.copy \in Accounts
  BY PaperAssumption DEF Stable, TypeOK, Accounts
<1>2. ASSUME NEW c \in Openers, Opener(c) PROVE account'.id >= account.id
  <2>1. CASE ExecuteReturns(c)
    BY <1>1, <2>1, Written DEF ExecuteReturns, Stable, TypeOK
  <2>2. CASE ~ExecuteReturns(c)
    <3>1. account' = account
      BY <1>2, <2>2 DEF Opener, ExecuteSignal, SavePosition, CurrentHeat, ExecuteFails, rows
    <3> QED BY <1>1, <3>1
  <2> QED BY <2>1, <2>2
<1>3. ASSUME Task PROVE account'.id >= account.id
  <2>1. CASE PassWrites
    BY <1>1, <2>1, Written DEF PassWrites
  <2>2. CASE PassReads \/ PassLists \/ FetchPrice \/ TotalPnl \/ TotalHeat
    <3>1. UNCHANGED rows
      BY <2>2 DEF PassReads, PassLists, FetchPrice, TotalPnl, TotalHeat
    <3> QED BY <1>1, <3>1 DEF rows
  <2>3. CASE UpdatePosition \/ SaveTrade \/ ClosePosition \/ PositionFails \/ PassFails
    <3>1. account' = account
      BY <2>3 DEF UpdatePosition, SaveTrade, ClosePosition, PositionFails, PassFails, rows
    <3> QED BY <1>1, <3>1
  <2> QED BY <1>3, <2>1, <2>2, <2>3 DEF Task
<1>4. ASSUME Operator PROVE account'.id >= account.id
  <2>1. CASE DisableCommits
    <3>1. admin.listed \in Seq(Trades)
      BY DEF Stable, Form
    <3> QED BY <1>1, <2>1, <3>1, CreditType, Written DEF DisableCommits
  <2>2. CASE Enable
    BY <1>1, <2>2 DEF Enable, NoAccount, NewAccount
  <2>3. CASE Reset
    BY <1>1, <2>3 DEF Reset, NewAccount
  <2>4. CASE DisableReads \/ DisableLists \/ DisableFails
    <3>1. UNCHANGED rows
      BY <2>4 DEF DisableReads, DisableLists, DisableFails
    <3> QED BY <1>1, <3>1 DEF rows
  <2> QED BY <1>4, <2>1, <2>2, <2>3, <2>4 DEF Operator
<1>5. CASE UNCHANGED vars
  BY <1>1, <1>5 DEF vars, rows
<1> QED BY <1>2, <1>3, <1>4, <1>5 DEF Next

\* No write brings a deleted account back (update_account finds its row by the id).
THEOREM DeletedAccountsAlwaysStayDeleted == Spec => DeletedAccountsStayDeleted
<1>1. Stable /\ [Next]_vars => [account'.id >= account.id]_vars
  BY IdsGrow
<1> QED BY <1>1, StableAlways, PTL DEF Spec, DeletedAccountsStayDeleted

-----------------------------------------------------------------------------
(* Trades and closed positions.                                            *)

HasTrade(p) == \E i \in DOMAIN trades : trades[i].pos = p

\* Between the trade and the close, the trade is there or a reset has deleted both.
TradeInv ==
    /\ \A p \in Ids : pos[p].status = "CLOSED" => HasTrade(p)
    /\ task.at = "close" => pos[task.now].status = "deleted" \/ HasTrade(task.now)

LEMMA Appended ==
    ASSUME NEW s \in Seq(Trades), NEW t \in Seq(Trades)
    PROVE  /\ s \o t \in Seq(Trades) /\ DOMAIN (s \o t) = 1..(Len(s) + Len(t))
           /\ \A i \in DOMAIN s : i \in DOMAIN (s \o t) /\ (s \o t)[i] = s[i]
           /\ \A i \in DOMAIN t : Len(s) + i \in DOMAIN (s \o t) /\ (s \o t)[Len(s) + i] = t[i]
           /\ \A i \in DOMAIN (s \o t) : i \in DOMAIN s \/ i - Len(s) \in DOMAIN t
OBVIOUS

LEMMA TradeStep == Stable /\ TradeInv /\ [Next]_vars => TradeInv'
<1> SUFFICES ASSUME Stable, TradeInv, [Next]_vars PROVE TradeInv'
  OBVIOUS
<1>0. trades \in Seq(Trades) /\ task.at \in {"idle", "list", "next", "update", "trade", "close", "heat", "write"}
  BY DEF Stable, Form
<1>1. ASSUME NEW c \in Openers, Opener(c) PROVE TradeInv'
  <2>1. CASE SavePosition(c)
    <3> DEFINE n == Cardinality(Created) + 1
    <3>1. n \in Ids /\ n \notin Created
      BY <2>1, NextPosition DEF SavePosition
    <3>2. /\ pos' = [pos EXCEPT ![n] = [status |-> "OPEN", price |-> Market, pnl |-> 0]]
          /\ UNCHANGED <<trades, task>>
      BY <2>1 DEF SavePosition
    <3>3. task.at = "close" => task.now \in Ids /\ task.now # n
      <4>1. task.at = "close" => task.now \in Created
        BY DEF Stable, Form, TypeOK, Ids
      <4> HIDE DEF n
      <4> QED BY <3>1, <4>1 DEF Created
    <3> HIDE DEF n
    <3> QED BY <3>1, <3>2, <3>3 DEF TradeInv, HasTrade, Stable, TypeOK
  <2>2. CASE ~SavePosition(c)
    BY <1>1, <2>2 DEF Opener, ExecuteSignal, CurrentHeat, ExecuteReturns, ExecuteFails, rows, TradeInv, HasTrade
  <2> QED BY <2>1, <2>2
<1>2. CASE SaveTrade
  <2>1. CASE Exists(task.now)
    <3> DEFINE t == [pos |-> task.now, price |-> task.price, by |-> "task"]
    <3>1. /\ trades' = Append(trades, t) /\ pos' = pos /\ task'.now = task.now
      BY <1>0, <1>2, <2>1 DEF SaveTrade, Stable, Form
    <3>2. /\ \A i \in DOMAIN trades : i \in DOMAIN trades' /\ trades'[i] = trades[i]
          /\ Len(trades) + 1 \in DOMAIN trades' /\ trades'[Len(trades) + 1] = t
      BY <1>0, <3>1
    <3>3. \A p \in Ids : HasTrade(p) => HasTrade(p)'
      BY <3>2 DEF HasTrade
    <3>4. HasTrade(task.now)'
      BY <3>1, <3>2 DEF HasTrade
    <3> QED BY <3>1, <3>3, <3>4 DEF TradeInv
  <2>2. CASE ~Exists(task.now)
    BY <1>2, <2>2 DEF SaveTrade, TradeInv, HasTrade, TaskIdle
  <2> QED BY <2>1, <2>2
<1>3. CASE ClosePosition
  <2>1. task.now \in Ids
    BY <1>3 DEF ClosePosition, Stable, TypeOK
  <2> QED BY <1>3, <2>1 DEF ClosePosition, TaskNext, TradeInv, HasTrade, Exists, Stable, TypeOK, Form
<1>4. CASE UpdatePosition
  <2>1. task.now \in Ids
    BY <1>4 DEF UpdatePosition, Stable, TypeOK
  <2> QED BY <1>4, <2>1 DEF UpdatePosition, TaskNext, TradeInv, HasTrade, Exists, Stable, TypeOK, Form
<1>5. CASE FetchPrice
  <2>1. task'.at # "close"
    BY <1>5 DEF FetchPrice, Stable, Form
  <2> QED BY <1>5, <2>1 DEF FetchPrice, rows, TradeInv, HasTrade
<1>6. CASE PassReads \/ PassLists \/ TotalPnl \/ TotalHeat \/ PassWrites
  <2>1. UNCHANGED <<pos, trades>>
    BY <1>6 DEF PassReads, PassLists, TotalPnl, TotalHeat, PassWrites, rows
  <2>2. task'.at # "close"
    <3>1. DOMAIN task = {"at", "copy", "todo", "now", "price"}
      BY DEF Stable, Form
    <3>2. CASE PassReads
      BY <3>1, <3>2 DEF PassReads
    <3>3. CASE PassLists
      <4>1. task' = TaskIdle \/ task' = [task EXCEPT !.at = "next", !.todo = Open]
        BY <3>3 DEF PassLists
      <4>2. CASE task' = TaskIdle
        BY <4>2 DEF TaskIdle
      <4>3. CASE task' = [task EXCEPT !.at = "next", !.todo = Open]
        BY <3>1, <4>3
      <4> QED BY <4>1, <4>2, <4>3
    <3>4. CASE TotalPnl
      BY <3>1, <3>4 DEF TotalPnl
    <3>5. CASE TotalHeat
      BY <3>1, <3>5 DEF TotalHeat
    <3>6. CASE PassWrites
      BY <3>6 DEF PassWrites, TaskIdle
    <3> QED BY <1>6, <3>2, <3>3, <3>4, <3>5, <3>6
  <2> QED BY <2>1, <2>2 DEF TradeInv, HasTrade
<1>7. CASE Enable \/ DisableReads \/ DisableLists \/ DisableFails \/ UNCHANGED vars
  BY <1>7 DEF Enable, DisableReads, DisableLists, DisableFails, vars, rows, TradeInv, HasTrade
<1>10. CASE PositionFails \/ PassFails
  <2>1. task'.at # "close" /\ UNCHANGED rows
    <3>1. DOMAIN task = {"at", "copy", "todo", "now", "price"}
      BY DEF Stable, Form
    <3>2. CASE PositionFails
      BY <3>1, <3>2 DEF PositionFails, TaskNext
    <3>3. CASE PassFails
      BY <3>3 DEF PassFails, TaskIdle
    <3> QED BY <1>10, <3>2, <3>3
  <2> QED BY <2>1 DEF TradeInv, HasTrade, rows
<1>8. CASE DisableCommits
  <2>1. /\ \A p \in Ids : HasTrade(p) => HasTrade(p)'
        /\ \A i \in DOMAIN admin.listed :
              \E j \in DOMAIN trades' : trades'[j].pos = admin.listed[i].pos
    <3>1. admin.listed \in Seq(Trades) /\ trades' = trades \o admin.listed
      BY <1>8 DEF DisableCommits, Stable, Form
    <3>2. \A i \in DOMAIN trades : i \in DOMAIN trades' /\ trades'[i] = trades[i]
      BY <1>0, <3>1, Appended
    <3>3. \A i \in DOMAIN admin.listed : /\ Len(trades) + i \in DOMAIN trades'
                                         /\ trades'[Len(trades) + i] = admin.listed[i]
      BY <1>0, <3>1, Appended
    <3>4. \A p \in Ids : HasTrade(p) => HasTrade(p)'
      BY <3>2 DEF HasTrade
    <3> QED BY <3>3, <3>4
  <2>2. pos' = [p \in Ids |-> IF \E i \in DOMAIN admin.listed : admin.listed[i].pos = p
                              THEN Closed ELSE pos[p]]
        /\ task' = task
    BY <1>8 DEF DisableCommits, Listed
  <2>3. task.at = "close" => task.now \in Ids
    BY DEF Stable, TypeOK
  <2>4. ASSUME NEW p \in Ids, pos'[p].status = "CLOSED" PROVE HasTrade(p)'
    BY <2>1, <2>2, <2>4 DEF TradeInv, HasTrade
  <2>5. ASSUME task'.at = "close" PROVE pos'[task'.now].status = "deleted" \/ HasTrade(task.now)'
    <3>1. CASE \E i \in DOMAIN admin.listed : admin.listed[i].pos = task.now
      BY <2>1, <2>2, <3>1 DEF HasTrade
    <3>2. CASE ~ \E i \in DOMAIN admin.listed : admin.listed[i].pos = task.now
      BY <2>1, <2>2, <2>3, <2>5, <3>2 DEF TradeInv
    <3> QED BY <3>1, <3>2
  <2> QED BY <2>4, <2>5 DEF TradeInv
<1>9. CASE Reset
  <2>1. task.at = "close" => task.now \in Created
    BY DEF Stable, Form, TypeOK, Ids
  <2> QED BY <1>9, <2>1 DEF Reset, TradeInv, Deleted, NoPosition, Created
<1> QED BY <1>1, <1>2, <1>3, <1>4, <1>5, <1>6, <1>7, <1>8, <1>9, <1>10 DEF Next, Task, Operator

\* Whatever overlaps, a closed position has its trade: _close_position saves the trade before
\* the position, disabling commits both, and a reset deletes both.
THEOREM ClosedAlwaysHaveTrades == Spec => []ClosedHaveTrades
<1>1. Init => TradeInv
  BY DEF Init, TradeInv, NoPosition
<1>2. TradeInv => ClosedHaveTrades
  BY DEF TradeInv, ClosedHaveTrades, HasTrade
<1> QED BY <1>1, <1>2, StableAlways, TradeStep, PTL DEF Spec

-----------------------------------------------------------------------------
(* Calls that do not overlap.                                              *)

\* A call is in the crowd unless it is alone.
CrowdInv == \A c \in Busy \ crowd, d \in Busy : c = d

\* Without an account nothing has happened; the task and a request hold positions at the stages
\* that need them.
AloneInv ==
    /\ CrowdInv
    /\ account.id = 0 => Busy = {} /\ Created = {} /\ trades = <<>>
    /\ task.at \in {"idle", "list", "heat", "write"} => task.todo = {}
    /\ admin.at # "commit" => admin.listed = <<>>

\* Which calls are at work after a step, and which of them overlap.
LEMMA BusySteps ==
    ASSUME Stable, [Next]_vars
    PROVE  \/ \E c \in Openers \cup {"task", "admin"} : Begins(c) /\ Busy' = Busy \cup {c} /\ Readable
           \/ Busy' \subseteq Busy /\ crowd' = crowd \cap Busy'
           \/ Reset
<1>0. crowd' \subseteq Busy'
  BY StableStep DEF Stable, TypeOK
<1>1. ASSUME NEW c \in Openers, Opener(c)
      PROVE  \/ Begins(c) /\ Busy' = Busy \cup {c} /\ Readable
             \/ Busy' \subseteq Busy /\ crowd' = crowd \cap Busy'
  <2> USE Constants DEF Stable, TypeOK, Busy
  <2>1. CASE ExecuteSignal(c)
    BY <2>1 DEF ExecuteSignal
  <2>2. CASE SavePosition(c)
    BY <1>0, <2>2 DEF SavePosition
  <2>3. CASE CurrentHeat(c)
    BY <1>0, <2>3 DEF CurrentHeat, history
  <2>4. CASE ExecuteReturns(c) \/ ExecuteFails(c)
    <3>1. c \notin Busy' /\ Busy' \subseteq Busy /\ crowd' = crowd \ {c}
      <4>1. call' = [call EXCEPT ![c] = Idle] /\ Ends(c) /\ UNCHANGED <<task, admin>>
        BY <2>4 DEF ExecuteReturns, ExecuteFails
      <4>2. c # "task" /\ c # "admin" /\ Idle.at = "idle"
        BY DEF Idle
      <4> QED BY <4>1, <4>2 DEF Ends
    <3> HIDE DEF Busy, Stable, TypeOK
    <3> QED BY <1>0, <3>1
  <2> QED BY <1>1, <2>1, <2>2, <2>3, <2>4 DEF Opener
<1>2. CASE PassReads
  <2>1. task'.at = "list" /\ UNCHANGED <<call, admin>> /\ Begins("task") /\ Readable
    BY <1>2 DEF PassReads, Stable, Form
  <2>2. Busy' = Busy \cup {"task"}
    BY <2>1 DEF Busy
  <2> QED BY <2>1, <2>2
<1>3. CASE DisableReads
  <2>1. admin'.at = "list" /\ UNCHANGED <<call, task>> /\ Begins("admin") /\ Readable
    BY <1>3 DEF DisableReads, Stable, Form
  <2>2. Busy' = Busy \cup {"admin"}
    BY <2>1 DEF Busy
  <2> QED BY <2>1, <2>2
<1>4. CASE Task /\ ~PassReads
  <2>1. task.at # "idle" /\ UNCHANGED <<call, admin>>
        /\ (crowd' = crowd \/ (Ends("task") /\ task' = TaskIdle))
    <3>1. CASE PassLists
      BY <3>1 DEF PassLists
    <3>2. CASE FetchPrice \/ UpdatePosition \/ ClosePosition
      BY <3>2 DEF FetchPrice, UpdatePosition, ClosePosition, history
    <3>3. CASE SaveTrade
      BY <3>3 DEF SaveTrade
    <3>4. CASE TotalPnl \/ TotalHeat \/ PassWrites
      BY <3>4 DEF TotalPnl, TotalHeat, PassWrites, history
    <3>5. CASE PositionFails \/ PassFails
      BY <3>5 DEF PositionFails, PassFails
    <3> QED BY <1>4, <3>1, <3>2, <3>3, <3>4, <3>5 DEF Task
  <2>2. Busy' \subseteq Busy /\ (task' = TaskIdle => "task" \notin Busy')
    BY <2>1, Constants DEF Busy, TaskIdle
  <2> QED BY <1>0, <2>1, <2>2 DEF Ends
<1>5. CASE Enable
  <2>1. Busy' = Busy
    BY <1>5 DEF Enable, Busy
  <2> QED BY <1>0, <1>5, <2>1 DEF Enable
<1>6. CASE DisableLists \/ DisableCommits \/ DisableFails
  <2>1. admin.at # "idle" /\ UNCHANGED <<call, task>>
        /\ (crowd' = crowd \/ (Ends("admin") /\ admin' = AdminIdle))
    <3>1. CASE DisableLists
      BY <3>1 DEF DisableLists
    <3>2. CASE DisableCommits
      BY <3>2 DEF DisableCommits
    <3>3. CASE DisableFails
      BY <3>3 DEF DisableFails
    <3> QED BY <1>6, <3>1, <3>2, <3>3
  <2>2. Busy' \subseteq Busy /\ (admin' = AdminIdle => "admin" \notin Busy')
    BY <2>1, Constants DEF Busy, AdminIdle
  <2> QED BY <1>0, <2>1, <2>2 DEF Ends
<1>7. CASE UNCHANGED vars
  <2>1. Busy' = Busy
    BY <1>7 DEF vars, Busy
  <2> QED BY <1>0, <1>7, <2>1 DEF vars, history
<1> QED BY <1>1, <1>2, <1>3, <1>4, <1>5, <1>6, <1>7 DEF Next, Task, Operator

\* Nothing but the creation of an account happens before it.
LEMMA OnlyEnable ==
    ASSUME Stable, Next, account.id = 0, Busy = {}
    PROVE  Enable
<1>1. task.at = "idle" /\ admin.at = "idle" /\ (\A c \in Openers : call[c].at = "idle") /\ ~Readable
  BY DEF Busy, Readable
<1>2. \A c \in Openers : ~Opener(c)
  BY <1>1 DEF Opener, ExecuteSignal, SavePosition, CurrentHeat, ExecuteReturns, ExecuteFails
<1>3. ~Task
  BY <1>1 DEF Task, PassReads, PassLists, FetchPrice, UpdatePosition, SaveTrade, ClosePosition,
              TotalPnl, TotalHeat, PassWrites, PositionFails, PassFails
<1>4. ~DisableReads /\ ~DisableLists /\ ~DisableCommits /\ ~DisableFails /\ ~Reset
  BY <1>1 DEF DisableReads, DisableLists, DisableCommits, DisableFails, Reset
<1> QED BY <1>2, <1>3, <1>4 DEF Next, Operator

LEMMA AloneInit == Init => AloneInv
<1> SUFFICES ASSUME Init PROVE AloneInv
  OBVIOUS
<1>1. Busy = {} /\ Created = {}
  BY DEF Init, Busy, Created, Idle, NoPosition
<1> QED BY <1>1 DEF Init, AloneInv, CrowdInv

LEMMA AloneStep == Stable /\ AloneInv /\ [Next]_vars => AloneInv'
<1> SUFFICES ASSUME Stable, AloneInv, [Next]_vars PROVE AloneInv'
  OBVIOUS
<1>1. CrowdInv'
  <2>1. CASE \E c \in Openers \cup {"task", "admin"} : Begins(c) /\ Busy' = Busy \cup {c}
    BY <2>1 DEF Begins, AloneInv, CrowdInv
  <2>2. CASE Busy' \subseteq Busy /\ crowd' = crowd \cap Busy'
    BY <2>2 DEF AloneInv, CrowdInv
  <2>3. CASE Reset
    BY <2>3 DEF Reset, Busy, CrowdInv
  <2> QED BY <2>1, <2>2, <2>3, BusySteps
<1>2. account'.id = 0 => Busy' = {} /\ Created' = {} /\ trades' = <<>>
  <2> SUFFICES ASSUME account'.id = 0 PROVE Busy' = {} /\ Created' = {} /\ trades' = <<>>
    OBVIOUS
  <2>1. account.id = 0
    BY IdsGrow, PaperAssumption DEF Stable, TypeOK, Accounts
  <2>2. ~Next
    BY <2>1, OnlyEnable DEF AloneInv, Enable, NewAccount
  <2>3. UNCHANGED vars
    BY <2>2
  <2> QED BY <2>1, <2>3 DEF AloneInv, vars, rows, Busy, Created
<1>3. /\ task'.at \in {"idle", "list", "heat", "write"} => task'.todo = {}
      /\ admin'.at # "commit" => admin'.listed = <<>>
  <2>1. CASE UNCHANGED task
    <3>1. CASE UNCHANGED admin
      BY <2>1, <3>1 DEF AloneInv
    <3>2. CASE DisableReads \/ DisableLists \/ DisableCommits \/ DisableFails
      <4>1. admin'.at # "commit" => admin'.listed = <<>>
        <5>1. DOMAIN admin = {"at", "copy", "listed"}
          BY DEF Stable, Form
        <5>2. CASE DisableReads
          BY <5>1, <5>2 DEF DisableReads, AloneInv
        <5>3. CASE DisableLists
          <6>1. CASE admin' = AdminIdle
            BY <6>1 DEF AdminIdle
          <6>2. CASE admin' # AdminIdle
            BY <5>1, <5>3, <6>2 DEF DisableLists
          <6> QED BY <6>1, <6>2
        <5>4. CASE DisableCommits
          BY <5>4 DEF DisableCommits, AdminIdle
        <5>5. CASE DisableFails
          BY <5>5 DEF DisableFails, AdminIdle
        <5> QED BY <3>2, <5>2, <5>3, <5>4, <5>5
      <4> QED BY <2>1, <4>1 DEF AloneInv
    <3>3. CASE Enable \/ Reset
      BY <3>1, <3>3 DEF Enable, Reset
    <3>4. CASE UNCHANGED vars
      BY <3>1, <3>4 DEF vars
    <3> QED BY <3>1, <3>2, <3>3, <3>4, OpenerFrame, TaskFrame DEF Next, Operator
  <2>2. CASE Task
    <3>1. UNCHANGED admin
      BY <2>2, TaskFrame
    <3>2. task'.at \in {"idle", "list", "heat", "write"} => task'.todo = {}
      <4>1. DOMAIN task = {"at", "copy", "todo", "now", "price"}
        BY DEF Stable, Form
      <4>2. CASE PassReads \/ TotalPnl \/ TotalHeat
        BY <4>1, <4>2 DEF PassReads, TotalPnl, TotalHeat, AloneInv
      <4>3. CASE PassWrites
        BY <4>3 DEF PassWrites, TaskIdle
      <4>4. CASE task' = TaskIdle
        BY <4>4 DEF TaskIdle
      <4>5. CASE PassLists /\ task' # TaskIdle
        BY <4>1, <4>5 DEF PassLists
      <4>6. CASE FetchPrice
        BY <4>1, <4>6 DEF FetchPrice
      <4>7. CASE UpdatePosition \/ ClosePosition
        BY <4>1, <4>7 DEF UpdatePosition, ClosePosition, TaskNext
      <4>8. CASE SaveTrade /\ task' # TaskIdle
        BY <4>1, <4>8 DEF SaveTrade
      <4>9. CASE PositionFails \/ PassFails
        BY <4>1, <4>4, <4>9 DEF PositionFails, PassFails, TaskNext
      <4> QED BY <2>2, <4>2, <4>3, <4>4, <4>5, <4>6, <4>7, <4>8, <4>9 DEF Task
    <3> QED BY <3>1, <3>2 DEF AloneInv
  <2>3. CASE UNCHANGED vars
    BY <2>1, <2>3 DEF vars
  <2> QED BY <2>1, <2>2, <2>3, OpenerFrame, OperatorFrame DEF Next
<1> QED BY <1>1, <1>2, <1>3 DEF AloneInv

-----------------------------------------------------------------------------
(* Which steps change the rows, and what a call that is alone holds.       *)

LEMMA PosFrame ==
    ASSUME [Next]_vars
    PROVE  \/ pos' = pos
           \/ \E c \in Openers : SavePosition(c)
           \/ UpdatePosition \/ ClosePosition \/ DisableCommits \/ Reset
<1>1. ASSUME NEW c \in Openers, Opener(c), ~SavePosition(c) PROVE pos' = pos
  BY <1>1 DEF Opener, ExecuteSignal, CurrentHeat, ExecuteReturns, ExecuteFails, rows
<1>2. ASSUME Task, ~UpdatePosition, ~ClosePosition PROVE pos' = pos
  BY <1>2 DEF Task, PassReads, PassLists, FetchPrice, SaveTrade, TotalPnl, TotalHeat, PassWrites,
              PositionFails, PassFails, rows
<1>3. ASSUME Operator, ~DisableCommits, ~Reset PROVE pos' = pos
  BY <1>3 DEF Operator, Enable, DisableReads, DisableLists, DisableFails, rows
<1>4. CASE UNCHANGED vars
  BY <1>4 DEF vars, rows
<1> QED BY <1>1, <1>2, <1>3, <1>4 DEF Next

LEMMA TradesFrame ==
    ASSUME [Next]_vars
    PROVE  trades' = trades \/ SaveTrade \/ DisableCommits \/ Reset
<1>1. ASSUME Task, ~SaveTrade PROVE trades' = trades
  BY <1>1 DEF Task, PassReads, PassLists, FetchPrice, UpdatePosition, ClosePosition, TotalPnl,
              TotalHeat, PassWrites, PositionFails, PassFails, rows
<1>2. ASSUME Operator, ~DisableCommits, ~Reset PROVE trades' = trades
  BY <1>2 DEF Operator, Enable, DisableReads, DisableLists, DisableFails, rows
<1>3. CASE UNCHANGED vars
  BY <1>3 DEF vars, rows
<1> QED BY <1>1, <1>2, <1>3, OpenerFrame DEF Next

LEMMA AdminFrame ==
    ASSUME [Next]_vars
    PROVE  admin' = admin \/ DisableReads \/ DisableLists \/ DisableCommits \/ DisableFails
<1>1. CASE Enable \/ Reset
  BY <1>1 DEF Enable, Reset
<1>2. CASE UNCHANGED vars
  BY <1>2 DEF vars
<1> QED BY <1>1, <1>2, OpenerFrame, TaskFrame DEF Next, Operator

\* The account is another one only after it was created.
LEMMA SameAccount ==
    ASSUME Stable, [Next]_vars, ~Enable, ~Reset
    PROVE  account'.id = account.id
<1>0. account \in Accounts /\ task.copy \in Accounts /\ admin.copy \in Accounts
      /\ \A c \in Openers : call[c].copy \in Accounts
  BY DEF Stable, TypeOK
<1>1. ASSUME NEW c \in Openers, Opener(c) PROVE account'.id = account.id
  <2>1. CASE ExecuteReturns(c)
    BY <1>0, <2>1, Written DEF ExecuteReturns
  <2>2. CASE ~ExecuteReturns(c)
    <3>1. account' = account
      BY <1>1, <2>2 DEF Opener, ExecuteSignal, SavePosition, CurrentHeat, ExecuteFails, rows
    <3> QED BY <3>1
  <2> QED BY <2>1, <2>2
<1>2. ASSUME Task PROVE account'.id = account.id
  <2>1. CASE PassWrites
    BY <1>0, <2>1, Written DEF PassWrites
  <2>2. CASE ~PassWrites
    <3>1. account' = account
      BY <1>2, <2>2 DEF Task, PassReads, PassLists, FetchPrice, UpdatePosition, SaveTrade,
                        ClosePosition, TotalPnl, TotalHeat, PositionFails, PassFails, rows
    <3> QED BY <3>1
  <2> QED BY <2>1, <2>2
<1>3. ASSUME Operator PROVE account'.id = account.id
  <2>1. CASE DisableCommits
    <3>1. admin.listed \in Seq(Trades)
      BY DEF Stable, Form
    <3> QED BY <1>0, <2>1, <3>1, CreditType, Written DEF DisableCommits
  <2>2. CASE ~DisableCommits
    <3>1. account' = account
      BY <1>3, <2>2 DEF Operator, DisableReads, DisableLists, DisableFails, rows
    <3> QED BY <3>1
  <2> QED BY <2>1, <2>2
<1>4. CASE UNCHANGED vars
  BY <1>4 DEF vars, rows
<1> QED BY <1>1, <1>2, <1>3, <1>4 DEF Next

\* A request has listed rows that exist, each once, and trades are of positions there were; no
\* reset comes between the reads and the commit of a request.
ListedInv ==
    /\ Listed \subseteq Held
    /\ \A i, j \in DOMAIN admin.listed : admin.listed[i].pos = admin.listed[j].pos => i = j
    /\ \A i \in DOMAIN admin.listed : admin.listed[i].by = "admin"
    /\ Traded \subseteq Created
    /\ admin.at # "idle" => admin.copy.id = account.id

LEMMA HeldSteps ==
    ASSUME Stable, ListedInv, [Next]_vars, ~Reset
    PROVE  /\ Created \subseteq Created'
           /\ \/ Held' = Held
              \/ \E c \in Openers : /\ SavePosition(c) /\ Cardinality(Created) + 1 \notin Held
                                    /\ Held' = Held \cup {Cardinality(Created) + 1}
<1>0. pos \in PosType /\ task.now \in Ids \cup {0} /\ (task.now # 0 => task.now \in Created)
  BY DEF Stable, TypeOK, Form, PosType
<1>1. CASE pos' = pos
  BY <1>1 DEF Held, Created, Exists
<1>2. ASSUME NEW c \in Openers, SavePosition(c)
      PROVE  /\ Created \subseteq Created' /\ Cardinality(Created) + 1 \notin Held
             /\ Held' = Held \cup {Cardinality(Created) + 1}
  <2> DEFINE n == Cardinality(Created) + 1
  <2>1. n \in Ids /\ n \notin Created
    BY <1>2, NextPosition DEF SavePosition
  <2>2. pos' = [pos EXCEPT ![n] = [status |-> "OPEN", price |-> Market, pnl |-> 0]]
    BY <1>2 DEF SavePosition
  <2> HIDE DEF n
  <2>3. n \notin Held /\ Held' = Held \cup {n}
    <3>1. \A p \in Ids : /\ p # n => pos'[p] = pos[p]
                         /\ pos'[n].status = "OPEN" /\ pos[n].status = "none"
      BY <1>0, <2>1, <2>2 DEF Created, PosType
    <3> QED BY <2>1, <3>1 DEF Held, Created, Exists
  <2>4. Created \subseteq Created'
    BY <1>0, <2>1, <2>2 DEF Created, PosType
  <2> QED BY <2>3, <2>4 DEF n
<1>3. CASE UpdatePosition \/ ClosePosition
  <2>1. task.now \in Created
    <3>1. task.at \in {"update", "close"}
      BY <1>3 DEF UpdatePosition, ClosePosition
    <3>2. task.now # 0
      BY <3>1, Constants DEF Stable, TypeOK
    <3> QED BY <1>0, <3>2
  <2>2. \A p \in Ids : (pos'[p].status = "none" <=> pos[p].status = "none")
                       /\ (pos'[p].status = "deleted" <=> pos[p].status = "deleted")
    <3>1. CASE UpdatePosition
      BY <1>0, <2>1, <3>1 DEF UpdatePosition, Exists, PosType, Created
    <3>2. CASE ClosePosition
      BY <1>0, <2>1, <3>2 DEF ClosePosition, Exists, PosType, Created, Closed, NoPosition
    <3> QED BY <1>3, <3>1, <3>2
  <2> QED BY <2>2 DEF Held, Created, Exists
<1>4. CASE DisableCommits
  <2>1. \A p \in Ids : pos'[p] = IF p \in Listed THEN Closed ELSE pos[p]
    BY <1>4 DEF DisableCommits
  <2>2. Listed \subseteq Held
    BY DEF ListedInv
  <2> QED BY <2>1, <2>2 DEF Held, Created, Exists, Closed, NoPosition
<1> QED BY <1>1, <1>2, <1>3, <1>4, PosFrame

\* What DisableLists lists.
LEMMA ListsOpen ==
    ASSUME Stable, AloneInv, DisableLists
    PROVE  /\ Listed' \subseteq Open /\ (admin'.at = "commit" => Open \subseteq Listed')
           /\ admin'.at # "idle" => admin'.copy = admin.copy
           /\ \A i \in DOMAIN admin'.listed : admin'.listed[i].by = "admin"
           /\ \A i, j \in DOMAIN admin'.listed : admin'.listed[i].pos = admin'.listed[j].pos => i = j
<1>0. DOMAIN admin = {"at", "copy", "listed"}
  BY DEF Stable, Form
<1>1. CASE admin' = AdminIdle
  BY <1>1 DEF AdminIdle, Listed
<1>2. CASE admin' # AdminIdle
  <2>1. PICK latest : /\ Lists(latest)
                      /\ admin' = [admin EXCEPT !.at = "commit", !.listed = Exits(latest)]
    BY <1>2 DEF DisableLists, Lists, Exits
  <2>2. admin'.listed = Exits(latest) /\ admin'.copy = admin.copy
    BY <1>0, <2>1
  <2>3. /\ DOMAIN Exits(latest) = 1..Cardinality(Open)
        /\ \A i \in DOMAIN Exits(latest) : /\ Exits(latest)[i].pos = latest[i]
                                           /\ Exits(latest)[i].by = "admin"
    BY <2>1, ExitsType
  <2> DEFINE n == Cardinality(Open)
  <2>4. IsFiniteSet(Open) /\ n \in Nat /\ Open \subseteq Nat
    BY Counts, Constants DEF Open
  <2>5. latest \in Injection(1..n, Open)
    <3>1. latest \in [1..n -> Open] /\ \A i, j \in 1..n : i < j => latest[i] > latest[j]
      BY <2>1 DEF Lists
    <3> HIDE DEF n
    <3>2. \A i \in 1..n : latest[i] \in Nat /\ i \in Nat
      <4>1. \A i \in 1..n : latest[i] \in Open /\ i \in Nat
        BY <2>4, <3>1
      <4> QED BY <2>4, <4>1
    <3>3. \A i, j \in 1..n : latest[i] = latest[j] => i = j
      BY <3>1, <3>2
    <3> QED BY <3>1, <3>3 DEF Injection, IsInjective
  <2>6. IsFiniteSet(1..n) /\ Cardinality(1..n) = n
    BY <2>4, FS_Interval
  <2>7. latest \in Surjection(1..n, Open)
    BY <2>4, <2>5, <2>6, FS_Injection
  <2>8. /\ \A p \in Open : \E i \in 1..n : latest[i] = p
        /\ \A i \in 1..n : latest[i] \in Open
        /\ \A i, j \in 1..n : latest[i] = latest[j] => i = j
    BY <2>5, <2>7 DEF Surjection, Injection, IsInjective
  <2> QED BY <2>2, <2>3, <2>8 DEF Listed
<1> QED BY <1>1, <1>2

LEMMA ListedInit == Init => ListedInv
BY DEF Init, ListedInv, Listed, Traded

LEMMA ListedStep == Stable /\ AloneInv /\ ListedInv /\ [Next]_vars => ListedInv'
<1> SUFFICES ASSUME Stable, AloneInv, ListedInv, [Next]_vars PROVE ListedInv'
  OBVIOUS
<1>0. /\ trades \in Seq(Trades) /\ admin.listed \in Seq(Trades)
      /\ DOMAIN admin = {"at", "copy", "listed"}
  BY DEF Stable, Form
<1>1. Traded' \subseteq Created'
  <2>1. CASE Reset
    BY <2>1 DEF Reset, Traded
  <2>2. CASE SaveTrade
    <3>1. task.now \in Created /\ pos' = pos
      BY <2>2 DEF SaveTrade, Stable, TypeOK, Form, Ids
    <3>2. \A i \in DOMAIN trades' : trades'[i].pos \in Traded \cup {task.now}
      <4>1. CASE trades' = trades
        BY <4>1 DEF Traded
      <4>2. CASE trades' # trades
        <5> DEFINE t == [pos |-> task.now, price |-> task.price, by |-> "task"]
        <5>1. trades' = Append(trades, t) /\ t.pos = task.now
          BY <2>2, <4>2 DEF SaveTrade
        <5> HIDE DEF t
        <5>2. \A i \in DOMAIN trades' : \/ i \in DOMAIN trades /\ trades'[i] = trades[i]
                                        \/ trades'[i] = t
          BY <1>0, <5>1
        <5> QED BY <5>1, <5>2 DEF Traded
      <4> QED BY <4>1, <4>2
    <3> QED BY <3>1, <3>2 DEF ListedInv, Traded, Created
  <2>3. CASE DisableCommits
    <3>1. trades' = trades \o admin.listed /\ Listed \subseteq Created
      BY <2>3 DEF DisableCommits, ListedInv, Held
    <3> DEFINE l == admin.listed
    <3>2. \A i \in DOMAIN trades' : \/ i \in DOMAIN trades /\ trades'[i] = trades[i]
                                    \/ i - Len(trades) \in DOMAIN l /\ trades'[i] = l[i - Len(trades)]
      <4> HIDE DEF l
      <4> QED BY <1>0, <3>1 DEF l
    <3>3. \A i \in DOMAIN trades' : trades'[i].pos \in Traded \cup Listed
      BY <3>2 DEF Traded, Listed
    <3>4. Created \subseteq Created'
      BY <2>3, HeldSteps DEF DisableCommits, Reset
    <3> QED BY <3>1, <3>3, <3>4 DEF ListedInv, Traded
  <2>4. CASE trades' = trades /\ ~Reset
    BY <2>4, HeldSteps DEF ListedInv, Traded
  <2> QED BY <2>1, <2>2, <2>3, <2>4, TradesFrame
<1>2. CASE admin' = admin
  <2>1. CASE Reset
    <3>1. admin.at = "idle" /\ admin.listed = <<>>
      BY <2>1 DEF Reset, AloneInv
    <3> QED BY <1>1, <1>2, <3>1 DEF ListedInv, Listed
  <2>2. CASE Enable
    <3>1. admin.at = "idle"
      <4>1. Busy = {}
        BY <2>2 DEF Enable, AloneInv, NoAccount
      <4> QED BY <4>1 DEF Busy
    <3>2. admin.listed = <<>>
      BY <3>1 DEF AloneInv
    <3> QED BY <1>1, <1>2, <3>1, <3>2 DEF ListedInv, Listed
  <2>3. CASE ~Reset /\ ~Enable
    <3>1. Held \subseteq Held' /\ account'.id = account.id
      BY <2>3, HeldSteps, SameAccount
    <3> QED BY <1>1, <1>2, <3>1 DEF ListedInv, Listed
  <2> QED BY <2>1, <2>2, <2>3
<1>3. CASE DisableReads
  <2>1. admin'.copy = account /\ admin'.listed = <<>> /\ account' = account
    BY <1>0, <1>3 DEF DisableReads, rows, AloneInv
  <2> QED BY <1>1, <2>1 DEF ListedInv, Listed
<1>4. CASE DisableLists
  <2>1. UNCHANGED <<account, pos>> /\ admin.at # "idle"
    BY <1>4 DEF DisableLists, rows
  <2>2. Open \subseteq Held'
    BY <2>1 DEF Open, Held, Created, Exists
  <2> QED BY <1>1, <1>4, <2>1, <2>2, ListsOpen DEF ListedInv
<1>5. CASE DisableCommits \/ DisableFails
  <2>1. admin' = AdminIdle
    BY <1>5 DEF DisableCommits, DisableFails
  <2> QED BY <1>1, <2>1 DEF ListedInv, Listed, AdminIdle
<1> QED BY <1>2, <1>3, <1>4, <1>5, AdminFrame

LEMMA Joins ==
    ASSUME Stable, [Next]_vars, NEW c \in Busy', c \notin crowd'
    PROVE  c \notin crowd
BY BusySteps DEF Begins, Reset, Busy

\* As long as a call at work is alone, the steps are its own.
LEMMA OnlySteps ==
    ASSUME Stable, AloneInv, Next, NEW c \in Busy, c \notin crowd, c \notin crowd'
    PROVE  /\ Busy = {c}
           /\ \/ c \in Openers /\ Opener(c)
              \/ c = "task" /\ Task
              \/ c = "admin" /\ (DisableLists \/ DisableCommits \/ DisableFails)
<1>1. Busy = {c}
  BY DEF AloneInv, CrowdInv
<1>2. ASSUME NEW d, Begins(d) PROVE FALSE
  BY <1>1, <1>2 DEF Begins
<1>3. /\ \A d \in Openers : d # c => call[d].at = "idle"
      /\ c # "task" => task.at = "idle"
      /\ c # "admin" => admin.at = "idle"
  BY <1>1, Constants DEF Busy
<1>4. ASSUME NEW d \in Openers, Opener(d) PROVE d = c
  <2>1. CASE ExecuteSignal(d)
    BY <1>2, <2>1 DEF ExecuteSignal
  <2>2. CASE ~ExecuteSignal(d)
    BY <1>3, <1>4, <2>2 DEF Opener, SavePosition, CurrentHeat, ExecuteReturns, ExecuteFails
  <2> QED BY <2>1, <2>2
<1>5. ASSUME Task PROVE c = "task"
  <2>1. CASE PassReads
    BY <1>2, <2>1 DEF PassReads
  <2>2. CASE ~PassReads
    BY <1>3, <1>5, <2>2 DEF Task, PassLists, FetchPrice, UpdatePosition, SaveTrade, ClosePosition,
                           TotalPnl, TotalHeat, PassWrites, PositionFails, PassFails
  <2> QED BY <2>1, <2>2
<1>6. ASSUME Operator PROVE c = "admin" /\ (DisableLists \/ DisableCommits \/ DisableFails)
  <2>1. CASE Enable
    BY <1>1, <2>1 DEF Enable, AloneInv, NoAccount
  <2>2. CASE DisableReads
    BY <1>2, <2>2 DEF DisableReads
  <2>3. CASE Reset
    BY <2>3 DEF Reset
  <2>4. CASE DisableLists \/ DisableCommits \/ DisableFails
    BY <1>3, <2>4 DEF DisableLists, DisableCommits, DisableFails
  <2> QED BY <1>6, <2>1, <2>2, <2>3, <2>4 DEF Operator
<1> QED BY <1>1, <1>4, <1>5, <1>6 DEF Next

\* What a call that is alone works on is as it has read it: open positions, and the account.
OwnInv ==
    /\ "task" \notin crowd => /\ task.todo \subseteq Open \ {task.now}
                              /\ task.now # 0 => task.now \in Open
    /\ "admin" \notin crowd => Listed \subseteq Open
    /\ \A c \in Openers : call[c].at # "idle" /\ c \notin crowd => call[c].copy.id = account.id

LEMMA OwnInit == Init => OwnInv
BY DEF Init, OwnInv, Listed, Idle

LEMMA OwnStep == Stable /\ AloneInv /\ OwnInv /\ [Next]_vars => OwnInv'
<1> SUFFICES ASSUME Stable, AloneInv, OwnInv, [Next]_vars PROVE OwnInv'
  OBVIOUS
<1>0. /\ pos \in PosType /\ DOMAIN task = {"at", "copy", "todo", "now", "price"}
      /\ DOMAIN admin = {"at", "copy", "listed"}
      /\ task.now \in Ids <=> task.at \in {"update", "trade", "close"}
      /\ task.now \in Ids \cup {0} /\ 0 \notin Ids /\ task.todo \subseteq Ids
      /\ call \in [Openers -> [at : Stages, copy : Accounts]]
  BY Constants DEF Stable, Form, TypeOK, PosType
<1>1. CASE UNCHANGED vars
  BY <1>1 DEF vars, rows, history, OwnInv, Open, Listed
<1> SUFFICES ASSUME Next PROVE OwnInv'
  BY <1>1
<1>2. ASSUME "task" \notin crowd'
      PROVE  task'.todo \subseteq Open' \ {task'.now} /\ (task'.now # 0 => task'.now \in Open')
  <2>0. Stable' /\ AloneInv'
    BY StableStep, AloneStep
  <2>1. CASE task'.at = "idle"
    <3>1. task'.todo = {} /\ task'.now = 0
      BY <2>0, <2>1 DEF AloneInv, Stable, TypeOK, Form
    <3> QED BY <3>1
  <2>2. CASE task'.at # "idle" /\ task.at = "idle"
    <3>1. task.todo = {} /\ task.now = 0 /\ task' # task
      BY <1>0, <2>2 DEF AloneInv
    <3>2. PassReads
      <4>1. Task
        BY <3>1, OpenerFrame, OperatorFrame DEF Next
      <4> QED BY <2>2, <4>1 DEF Task, PassLists, FetchPrice, UpdatePosition, SaveTrade,
                       ClosePosition, TotalPnl, TotalHeat, PassWrites, PositionFails, PassFails
    <3>3. task'.todo = {} /\ task'.now = 0
      BY <1>0, <3>1, <3>2 DEF PassReads
    <3> QED BY <3>3
  <2>3. CASE task'.at # "idle" /\ task.at # "idle"
    <3>1. "task" \in Busy' /\ "task" \in Busy
      BY <2>3 DEF Busy
    <3>2. "task" \notin crowd
      BY <1>2, <3>1, Joins
    <3>3. Task
      BY <1>2, <3>1, <3>2, OnlySteps, Constants
    <3>4. task.todo \subseteq Open \ {task.now} /\ (task.now # 0 => task.now \in Open)
      BY <3>2 DEF OwnInv
    <3>5. CASE PassReads
      BY <2>3, <3>5 DEF PassReads
    <3>6. CASE TotalPnl \/ TotalHeat
      <4>1. UNCHANGED rows /\ task'.todo = task.todo /\ task'.now = task.now
        BY <1>0, <3>6 DEF TotalPnl, TotalHeat
      <4> QED BY <3>4, <4>1 DEF rows, Open
    <3>7. CASE PassWrites \/ PassFails
      BY <2>3, <3>7 DEF PassWrites, PassFails, TaskIdle
    <3>8. CASE PassLists
      <4>1. UNCHANGED rows /\ task.now = 0 /\ task' = [task EXCEPT !.at = "next", !.todo = Open]
        BY <1>0, <2>3, <3>8 DEF PassLists, TaskIdle
      <4>2. task'.todo = Open /\ task'.now = 0 /\ Open' = Open
        BY <1>0, <4>1 DEF rows, Open
      <4> QED BY <1>0, <4>2 DEF Open
    <3>9. CASE FetchPrice
      <4>1. UNCHANGED rows /\ task.at = "next"
        BY <3>9 DEF FetchPrice
      <4>2. PICK p \in task.todo : task'.todo = task.todo \ {p} /\ task'.now \in {p, task.now}
        BY <1>0, <3>9 DEF FetchPrice
      <4>3. task.now = 0 /\ Open' = Open
        BY <1>0, <4>1 DEF rows, Open
      <4> QED BY <1>0, <3>4, <4>2, <4>3
    <3>10. CASE UpdatePosition
      <4>1. task.at = "update" /\ task.now \in Open
        BY <1>0, <3>4, <3>10 DEF UpdatePosition
      <4>2. task'.now = 0 /\ task'.todo = task.todo
        BY <1>0, <3>10 DEF UpdatePosition, TaskNext
      <4>3. pos' = [pos EXCEPT ![task.now] = [status |-> "OPEN", price |-> task.price,
                                              pnl |-> Unrealized(task.price)]]
        BY <3>10, <4>1 DEF UpdatePosition, Exists, Open
      <4>4. Open' = Open
        BY <1>0, <4>1, <4>3 DEF Open, PosType
      <4> QED BY <1>0, <3>4, <4>2, <4>4
    <3>11. CASE SaveTrade
      <4>1. pos' = pos /\ task' = [task EXCEPT !.at = "close"]
        BY <2>3, <3>11 DEF SaveTrade, TaskIdle
      <4>2. task'.todo = task.todo /\ task'.now = task.now
        BY <1>0, <4>1
      <4> QED BY <3>4, <4>1, <4>2 DEF Open
    <3>12. CASE ClosePosition
      <4>1. task.at = "close" /\ task.now \in Open
        BY <1>0, <3>4, <3>12 DEF ClosePosition
      <4>2. task'.now = 0 /\ task'.todo = task.todo
        BY <1>0, <3>12 DEF ClosePosition, TaskNext
      <4>3. pos' = [pos EXCEPT ![task.now] = Closed]
        BY <3>12, <4>1 DEF ClosePosition, Exists, Open
      <4>4. Open' = Open \ {task.now}
        BY <1>0, <4>1, <4>3 DEF Open, PosType, Closed, NoPosition
      <4> QED BY <1>0, <3>4, <4>2, <4>4
    <3>13. CASE PositionFails
      <4>1. UNCHANGED rows /\ task'.now = 0 /\ task'.todo = task.todo
        BY <1>0, <3>13 DEF PositionFails, TaskNext
      <4> QED BY <1>0, <3>4, <4>1 DEF rows, Open
    <3> QED BY <3>3, <3>5, <3>6, <3>7, <3>8, <3>9, <3>10, <3>11, <3>12, <3>13 DEF Task
  <2> QED BY <2>1, <2>2, <2>3
<1>3. ASSUME "admin" \notin crowd' PROVE Listed' \subseteq Open'
  <2>0. AloneInv'
    BY AloneStep
  <2>1. CASE admin'.at # "commit"
    BY <2>0, <2>1 DEF AloneInv, Listed
  <2>2. CASE admin'.at = "commit"
    <3>1. "admin" \notin crowd
      BY <1>3, <2>2, Joins DEF Busy
    <3>2. CASE admin.at = "idle"
      <4>1. DisableReads
        BY <2>2, <3>2, AdminFrame DEF DisableLists, DisableCommits, DisableFails, AdminIdle
      <4> QED BY <1>0, <2>2, <4>1 DEF DisableReads
    <3>3. CASE admin.at # "idle"
      <4>1. DisableLists \/ DisableCommits \/ DisableFails
        BY <1>3, <3>1, <3>3, OnlySteps, Constants DEF Busy
      <4>2. DisableLists
        BY <2>2, <4>1 DEF DisableCommits, DisableFails, AdminIdle
      <4>3. Open' = Open
        BY <4>2 DEF DisableLists, rows, Open
      <4> QED BY <4>2, <4>3, ListsOpen
    <3> QED BY <3>2, <3>3
  <2> QED BY <2>1, <2>2
<1>4. ASSUME NEW c \in Openers, call'[c].at # "idle", c \notin crowd'
      PROVE  call'[c].copy.id = account'.id
  <2>1. c \notin crowd
    BY <1>4, Joins DEF Busy
  <2>2. CASE call[c].at = "idle"
    <3>1. \E d \in Openers : Opener(d)
      <4>1. call' # call
        BY <1>4, <2>2
      <4> QED BY <4>1, TaskFrame, OperatorFrame DEF Next
    <3>2. ExecuteSignal(c)
      BY <1>0, <1>4, <2>2, <3>1 DEF Opener, ExecuteSignal, SavePosition, CurrentHeat,
                                    ExecuteReturns, ExecuteFails, Idle
    <3> QED BY <1>0, <3>2 DEF ExecuteSignal, rows
  <2>3. CASE call[c].at # "idle"
    <3>1. Opener(c)
      BY <1>4, <2>1, <2>3, OnlySteps, Constants DEF Busy
    <3>2. call[c].copy.id = account.id /\ call[c].copy \in Accounts
      BY <1>0, <2>1, <2>3 DEF OwnInv
    <3>3. CASE ExecuteSignal(c)
      BY <2>3, <3>3 DEF ExecuteSignal
    <3>4. CASE SavePosition(c)
      <4>1. account' = account /\ call'[c].copy = [call[c].copy EXCEPT !.capital = @ - Cost]
        BY <1>0, <3>4 DEF SavePosition
      <4> QED BY <3>2, <4>1 DEF Accounts
    <3>6. CASE CurrentHeat(c)
      <4> DEFINE r == CurrentRisk(call[c].copy.equity)
      <4>1. account' = account /\ call'[c].copy = [call[c].copy EXCEPT !.risk = r]
        BY <1>0, <3>6 DEF CurrentHeat, rows
      <4> HIDE DEF r
      <4> QED BY <3>2, <4>1 DEF Accounts
    <3>5. CASE ExecuteReturns(c) \/ ExecuteFails(c)
      <4>1. call' = [call EXCEPT ![c] = Idle]
        BY <3>5 DEF ExecuteReturns, ExecuteFails
      <4> QED BY <1>0, <1>4, <4>1 DEF Idle
    <3> QED BY <3>1, <3>3, <3>4, <3>5, <3>6 DEF Opener
  <2> QED BY <2>2, <2>3
<1> QED BY <1>2, <1>3, <1>4 DEF OwnInv

-----------------------------------------------------------------------------
(* Repeated trades.                                                        *)

\* The open positions that have a trade, but for one that is being closed.
Left == {p \in Open \cap Traded : ~(task.at = "close" /\ task.now = p)}

\* Those may be traded again, and are counted beforehand.
RepeatInv == Len(trades) - Cardinality(Traded) + Cardinality(Left) <= repeats

LEMMA TradedType ==
    ASSUME Stable
    PROVE  /\ IsFiniteSet(Traded) /\ Cardinality(Traded) \in Nat /\ Len(trades) \in Nat
           /\ IsFiniteSet(Left) /\ Cardinality(Left) \in Nat /\ repeats \in Nat
<1>1. trades \in Seq(Trades) /\ repeats \in Nat
  BY DEF Stable, Form, TypeOK
<1>2. IsFiniteSet(Traded) /\ Cardinality(Traded) \in Nat
  BY <1>1, ListedFinite DEF Traded
<1>3. Left \subseteq Traded
  BY DEF Left
<1> QED BY <1>1, <1>2, <1>3, FS_Subset, FS_CardinalityType

\* A request has as many exits as positions.
LEMMA ListedCount ==
    ASSUME Stable, ListedInv
    PROVE  IsFiniteSet(Listed) /\ Cardinality(Listed) = Len(admin.listed) /\ Len(admin.listed) \in Nat
<1> DEFINE l == admin.listed
           f == [i \in DOMAIN l |-> l[i].pos]
<1>1. l \in Seq(Trades) /\ \A i, j \in DOMAIN l : l[i].pos = l[j].pos => i = j
  BY DEF Stable, Form, ListedInv
<1>2. DOMAIN l = 1..Len(l) /\ Len(l) \in Nat
  BY <1>1
<1>3. IsFiniteSet(DOMAIN l) /\ Cardinality(DOMAIN l) = Len(l)
  BY <1>2, FS_Interval
<1>4. f \in Bijection(DOMAIN l, Listed)
  BY <1>1 DEF Bijection, Injection, Surjection, IsInjective, Listed
<1> QED BY <1>2, <1>3, <1>4, FS_Bijection DEF ExistsBijection

\* The positions of the trades after a trade, and after the commit of a request.
LEMMA TradedAppends ==
    ASSUME Stable, NEW t \in Trades, trades' = Append(trades, t)
    PROVE  Traded' = Traded \cup {t.pos} /\ Len(trades') = Len(trades) + 1
<1>1. trades \in Seq(Trades)
  BY DEF Stable, Form
<1>2. /\ \A i \in DOMAIN trades : i \in DOMAIN trades' /\ trades'[i] = trades[i]
      /\ Len(trades) + 1 \in DOMAIN trades' /\ trades'[Len(trades) + 1] = t
      /\ \A i \in DOMAIN trades' : i \in DOMAIN trades \/ i = Len(trades) + 1
      /\ Len(trades') = Len(trades) + 1
  BY <1>1
<1> QED BY <1>2 DEF Traded

LEMMA TradedCommits ==
    ASSUME Stable, DisableCommits
    PROVE  Traded' = Traded \cup Listed /\ Len(trades') = Len(trades) + Len(admin.listed)
<1> DEFINE l == admin.listed
<1>1. trades \in Seq(Trades) /\ l \in Seq(Trades) /\ trades' = trades \o l
  BY DEF Stable, Form, DisableCommits
<1> HIDE DEF l
<1>2. /\ \A i \in DOMAIN trades : i \in DOMAIN trades' /\ trades'[i] = trades[i]
      /\ \A i \in DOMAIN l : /\ Len(trades) + i \in DOMAIN trades'
                             /\ trades'[Len(trades) + i] = l[i]
      /\ \A i \in DOMAIN trades' : \/ i \in DOMAIN trades
                                   \/ i - Len(trades) \in DOMAIN l /\ trades'[i] = l[i - Len(trades)]
      /\ Len(trades') = Len(trades) + Len(l)
  BY <1>1
<1> QED BY <1>2 DEF Traded, Listed, l

LEMMA RepeatInit == Init => RepeatInv
<1> SUFFICES ASSUME Init PROVE RepeatInv
  OBVIOUS
<1>1. Traded = {} /\ Left = {} /\ Len(trades) = 0 /\ repeats = 0
  BY DEF Init, Traded, Left
<1> QED BY <1>1, FS_EmptySet DEF RepeatInv

LEMMA RepeatStep ==
    Stable /\ AloneInv /\ ListedInv /\ OwnInv /\ RepeatInv /\ [Next]_vars => RepeatInv'
<1> SUFFICES ASSUME Stable, AloneInv, ListedInv, OwnInv, RepeatInv, [Next]_vars PROVE RepeatInv'
  OBVIOUS
<1>0. /\ Stable' /\ pos \in PosType /\ DOMAIN task = {"at", "copy", "todo", "now", "price"}
      /\ task.now \in Ids <=> task.at \in {"update", "trade", "close"}
      /\ task.now \in Ids \cup {0} /\ 0 \notin Ids
      /\ task.now # 0 => task.now \in Created
  BY StableStep, Constants DEF Stable, Form, TypeOK, PosType
\* What is left to show.
<1>1. ASSUME trades' = trades, Left' \subseteq Left, repeats' >= repeats PROVE RepeatInv'
  <2>1. Traded' = Traded
    BY <1>1 DEF Traded
  <2>2. IsFiniteSet(Left') /\ Cardinality(Left') <= Cardinality(Left)
    BY <1>1, TradedType, FS_Subset
  <2>3. Cardinality(Left') \in Nat /\ repeats' \in Nat
    BY <1>0, <2>2, FS_CardinalityType DEF Stable, TypeOK
  <2> QED BY <1>1, <2>1, <2>2, <2>3, TradedType DEF RepeatInv
<1>2. ASSUME trades' = trades, NEW p, Left' \subseteq Left \cup {p}, repeats' = repeats + 1
      PROVE  RepeatInv'
  <2>1. Traded' = Traded
    BY <1>2 DEF Traded
  <2>2. /\ IsFiniteSet(Left \cup {p})
        /\ Cardinality(Left \cup {p}) \in {Cardinality(Left), Cardinality(Left) + 1}
    <3>1. CASE p \in Left
      <4>1. Left \cup {p} = Left
        BY <3>1
      <4> QED BY <4>1, TradedType
    <3>2. CASE p \notin Left
      BY <3>2, TradedType, FS_AddElement
    <3> QED BY <3>1, <3>2
  <2>3. IsFiniteSet(Left') /\ Cardinality(Left') <= Cardinality(Left \cup {p})
    BY <1>2, <2>2, FS_Subset
  <2>4. Cardinality(Left') \in Nat
    BY <2>3, FS_CardinalityType
  <2> QED BY <1>2, <2>1, <2>2, <2>3, <2>4, TradedType DEF RepeatInv
\* A step that leaves the rows alone and does not touch a position that is being closed.
<1>3. ASSUME UNCHANGED <<pos, trades>>, repeats' >= repeats,
             task' = task \/ (task.at # "close" /\ task'.at # "close")
      PROVE  RepeatInv'
  <2>1. Left' = Left
    BY <1>3 DEF Left, Open, Traded
  <2> QED BY <1>1, <1>3, <2>1
<1>4. repeats \in Nat
  BY TradedType
<1>5. ASSUME NEW c \in Openers, Opener(c) PROVE RepeatInv'
  <2>1. UNCHANGED <<trades, task>>
    BY <1>5, OpenerFrame
  <2>2. CASE SavePosition(c)
    <3> DEFINE n == Cardinality(Created) + 1
    <3>1. n \in Ids /\ n \notin Created
      BY <2>2, NextPosition DEF SavePosition
    <3>2. /\ pos' = [pos EXCEPT ![n] = [status |-> "OPEN", price |-> Market, pnl |-> 0]]
          /\ repeats' = repeats
      BY <2>2 DEF SavePosition
    <3>3. n \notin Traded /\ Traded' = Traded
      BY <2>1, <3>1 DEF ListedInv, Traded
    <3> HIDE DEF n
    <3>4. \A p \in Ids : p # n => pos'[p] = pos[p]
      BY <1>0, <3>1, <3>2 DEF PosType
    <3>5. Left' \subseteq Left
      BY <2>1, <3>3, <3>4 DEF Left, Open
    <3> QED BY <1>1, <1>4, <2>1, <3>2, <3>5
  <2>3. CASE ~SavePosition(c)
    <3>1. pos' = pos /\ repeats' = repeats
      BY <1>5, <2>3 DEF Opener, ExecuteSignal, CurrentHeat, ExecuteReturns, ExecuteFails, rows,
                        history, counts
    <3> QED BY <1>3, <1>4, <2>1, <3>1
  <2> QED BY <2>2, <2>3
<1>6. ASSUME Task PROVE RepeatInv'
  <2>1. CASE PassReads \/ PassLists \/ FetchPrice \/ TotalPnl \/ TotalHeat \/ PassWrites
    <3>1. UNCHANGED <<pos, trades, repeats>>
      BY <2>1 DEF PassReads, PassLists, FetchPrice, TotalPnl, TotalHeat, PassWrites, rows, history,
                  counts
    <3>2. task.at # "close" /\ task'.at # "close"
      <4>1. CASE PassReads \/ TotalPnl \/ TotalHeat
        BY <1>0, <4>1 DEF PassReads, TotalPnl, TotalHeat
      <4>2. CASE PassLists \/ PassWrites
        <5>1. /\ task.at \in {"list", "write"}
              /\ task' = TaskIdle \/ task' = [task EXCEPT !.at = "next", !.todo = Open]
          BY <4>2 DEF PassLists, PassWrites
        <5>2. task' = TaskIdle => task'.at = "idle"
          BY DEF TaskIdle
        <5>3. task' = [task EXCEPT !.at = "next", !.todo = Open] => task'.at = "next"
          BY <1>0
        <5> QED BY <5>1, <5>2, <5>3
      <4>3. CASE FetchPrice
        BY <1>0, <4>3 DEF FetchPrice
      <4> QED BY <2>1, <4>1, <4>2, <4>3
    <3> QED BY <1>3, <1>4, <3>1, <3>2
  <2>2. CASE UpdatePosition
    <3>1. /\ task.at = "update" /\ task.now \in Created /\ trades' = trades
          /\ repeats' = Counted(repeats, "task", pos[task.now].status = "CLOSED")
      BY <1>0, <2>2 DEF UpdatePosition
    <3>2. task'.at = "next"
      BY <1>0, <2>2 DEF UpdatePosition, TaskNext
    <3>3. Left' \subseteq Left \cup {task.now}
      <4>1. \A p \in Ids : p # task.now => pos'[p] = pos[p]
        BY <1>0, <2>2 DEF UpdatePosition, PosType
      <4> QED BY <3>1, <3>2, <4>1 DEF Left, Open, Traded
    <3>4. CASE repeats' = repeats + 1
      BY <1>2, <3>1, <3>3, <3>4
    <3>5. CASE repeats' # repeats + 1
      <4>1. repeats' = repeats /\ pos[task.now].status # "CLOSED"
        <5>1. task.now # 0 /\ repeats' = repeats
          BY <1>0, <3>1, <3>5 DEF Counted
        <5>2. CASE "task" \in crowd
          BY <1>4, <3>1, <3>5, <5>1, <5>2 DEF Counted
        <5>3. CASE "task" \notin crowd
          BY <5>1, <5>3 DEF OwnInv, Open
        <5> QED BY <5>1, <5>2, <5>3
      <4>2. pos[task.now].status \in {"OPEN", "deleted"} /\ task.now \in Ids
        BY <1>0, <3>1, <4>1 DEF PosType, Created
      <4>3. Open' = Open
        BY <1>0, <2>2, <4>2 DEF UpdatePosition, Exists, Open, PosType
      <4>4. Left' \subseteq Left
        BY <3>1, <3>2, <4>3 DEF Left, Traded
      <4> QED BY <1>1, <1>4, <3>1, <4>1, <4>4
    <3> QED BY <3>4, <3>5
  <2>3. CASE SaveTrade
    <3>1. task.at = "trade" /\ task.now \in Created /\ task.now \in Ids /\ pos' = pos
      BY <1>0, <2>3 DEF SaveTrade
    <3>2. CASE ~Exists(task.now)
      <4>1. UNCHANGED <<trades, repeats>> /\ task'.at = "idle"
        BY <2>3, <3>2 DEF SaveTrade, TaskIdle
      <4> QED BY <1>3, <1>4, <3>1, <4>1
    <3>3. CASE Exists(task.now)
      <4> DEFINE t == [pos |-> task.now, price |-> task.price, by |-> "task"]
      <4>1. /\ trades' = Append(trades, t) /\ task' = [task EXCEPT !.at = "close"]
            /\ repeats' = Counted(repeats, "task", task.now \in Traded)
        BY <2>3, <3>3 DEF SaveTrade
      <4>2. t \in Trades /\ t.pos = task.now
        <5>1. task.price \in Int
          BY <3>1, Constants DEF Stable, Form
        <5> QED BY <3>1, <5>1 DEF Trades
      <4> HIDE DEF t
      <4>3. Traded' = Traded \cup {task.now} /\ Len(trades') = Len(trades) + 1
        BY <4>1, <4>2, TradedAppends
      <4>4. task'.at = "close" /\ task'.now = task.now
        BY <1>0, <4>1
      <4>5. Left' = Left \ {task.now}
        BY <3>1, <4>3, <4>4 DEF Left, Open
      <4>6. /\ Cardinality(Left') \in Nat /\ Cardinality(Left') <= Cardinality(Left)
            /\ task.now \in Left => Cardinality(Left') = Cardinality(Left) - 1
        <5>1. CASE task.now \in Left
          <6>1. IsFiniteSet(Left') /\ Cardinality(Left') = Cardinality(Left) - 1
            BY <4>5, <5>1, TradedType, FS_RemoveElement
          <6> QED BY <6>1, TradedType, FS_CardinalityType
        <5>2. CASE task.now \notin Left
          <6>1. Left' = Left
            BY <4>5, <5>2
          <6> QED BY <5>2, <6>1, TradedType
        <5> QED BY <5>1, <5>2
      <4>7. /\ task.now \in Traded => Cardinality(Traded') = Cardinality(Traded)
            /\ task.now \notin Traded => Cardinality(Traded') = Cardinality(Traded) + 1
        BY <4>3, TradedType, FS_AddElement
      <4>8. /\ task.now \in Traded /\ task.now \in Open => task.now \in Left
            /\ task.now \in Traded /\ task.now \notin Open => repeats' = repeats + 1
            /\ repeats' >= repeats /\ repeats' \in Nat
        <5>1. task.now \in Traded /\ task.now \in Open => task.now \in Left
          BY <3>1 DEF Left
        <5>2. task.now \notin Open => "task" \in crowd
          BY <1>0, <3>1 DEF OwnInv
        <5> QED BY <1>4, <4>1, <5>1, <5>2 DEF Counted
      <4> QED BY <4>3, <4>6, <4>7, <4>8, TradedType DEF RepeatInv
    <3> QED BY <3>2, <3>3
  <2>4. CASE ClosePosition
    <3>1. task.at = "close" /\ task.now \in Ids /\ UNCHANGED <<trades, repeats>>
      BY <1>0, <2>4 DEF ClosePosition, history, counts
    <3>2. task'.at = "next"
      BY <1>0, <2>4 DEF ClosePosition, TaskNext
    <3>3. Open' = Open \ {task.now}
      BY <1>0, <2>4, <3>1 DEF ClosePosition, Exists, Open, PosType, Closed, NoPosition
    <3>4. Left' \subseteq Left
      BY <3>1, <3>2, <3>3 DEF Left, Traded
    <3> QED BY <1>1, <1>4, <3>1, <3>4
  <2>5. CASE PositionFails \/ PassFails
    <3>1. UNCHANGED <<pos, trades>> /\ repeats' = IF task.at = "close" THEN repeats + 1 ELSE repeats
      BY <2>5 DEF PositionFails, PassFails, LeftOpen, rows
    <3>2. task'.at \in {"next", "idle"}
      <4>1. CASE PositionFails
        BY <1>0, <4>1 DEF PositionFails, TaskNext
      <4>2. CASE PassFails
        BY <4>2 DEF PassFails, TaskIdle
      <4> QED BY <2>5, <4>1, <4>2
    <3>3. CASE task.at = "close"
      <4>1. Left' \subseteq Left \cup {task.now}
        BY <3>1 DEF Left, Open, Traded
      <4> QED BY <1>2, <3>1, <3>3, <4>1
    <3>4. CASE task.at # "close"
      BY <1>3, <1>4, <3>1, <3>2, <3>4
    <3> QED BY <3>3, <3>4
  <2> QED BY <1>6, <2>1, <2>2, <2>3, <2>4, <2>5 DEF Task
<1>7. CASE DisableCommits
  <2> DEFINE both == Listed \cap Traded
  <2>1. /\ Traded' = Traded \cup Listed /\ Len(trades') = Len(trades) + Len(admin.listed)
        /\ IsFiniteSet(Listed) /\ Cardinality(Listed) = Len(admin.listed)
        /\ Len(admin.listed) \in Nat
    BY <1>7, TradedCommits, ListedCount
  <2>2. IsFiniteSet(both) /\ Cardinality(both) \in Nat
    BY <2>1, FS_Subset, FS_CardinalityType
  <2>3. Cardinality(Traded') = Cardinality(Traded) + Len(admin.listed) - Cardinality(both)
    <3>1. Cardinality(Traded \cap Listed) = Cardinality(both)
      OBVIOUS
    <3> QED BY <2>1, <3>1, TradedType, FS_Union
  <2>4. Left' = Left \ Listed
    <3>1. Open' = Open \ Listed /\ task' = task
      BY <1>7 DEF DisableCommits, Open, Closed, NoPosition
    <3> QED BY <2>1, <3>1 DEF Left
  <2>5. /\ Cardinality(Left') \in Nat
        /\ Cardinality(Left') = Cardinality(Left) - Cardinality(Left \cap Listed)
        /\ Cardinality(Left \cap Listed) \in Nat
    BY <2>4, TradedType, FS_Difference, FS_Subset, FS_CardinalityType
  <2> HIDE DEF both
  <2>8. Len(trades') - Cardinality(Traded') = Len(trades) - Cardinality(Traded) + Cardinality(both)
    BY <2>1, <2>2, <2>3, TradedType
  <2>6. CASE "admin" \in crowd
    <3>1. repeats' = repeats + Cardinality(both)
      BY <1>7, <2>6 DEF DisableCommits, both
    <3> QED BY <2>8, <2>2, <2>5, <3>1, TradedType DEF RepeatInv
  <2>7. CASE "admin" \notin crowd
    <3>1. repeats' = repeats
      BY <1>7, <2>7 DEF DisableCommits
    <3>2. task.at = "idle"
      <4>1. "admin" \in Busy /\ "task" \notin Openers
        BY <1>7, Constants DEF DisableCommits, Busy
      <4> QED BY <2>7, <4>1 DEF AloneInv, CrowdInv, Busy
    <3>3. both = Left \cap Listed
      BY <2>7, <3>2 DEF Left, OwnInv, both
    <3> QED BY <2>8, <2>2, <2>5, <3>1, <3>3, TradedType DEF RepeatInv
  <2> QED BY <2>6, <2>7
<1>8. CASE Reset
  <2>1. Traded' = {} /\ Left' = {} /\ Len(trades') = 0 /\ repeats' = 0
    BY <1>8 DEF Reset, Traded, Left
  <2> QED BY <2>1, FS_EmptySet DEF RepeatInv
<1>9. CASE Enable \/ DisableReads \/ DisableLists \/ DisableFails \/ UNCHANGED vars
  <2>1. UNCHANGED <<pos, trades, task, repeats>>
    BY <1>9 DEF Enable, DisableReads, DisableLists, DisableFails, vars, rows, history, counts
  <2> QED BY <1>3, <1>4, <2>1
<1> QED BY <1>5, <1>6, <1>7, <1>8, <1>9 DEF Next, Operator

\* The part of the invariants that every theorem below rests on.
Basis == Stable /\ AloneInv /\ ListedInv /\ OwnInv

LEMMA BasisAlways == Spec => []Basis
<1>1. Init => Basis
  BY StableInit, AloneInit, ListedInit, OwnInit DEF Basis
<1>2. Basis /\ [Next]_vars => Basis'
  BY StableStep, AloneStep, ListedStep, OwnStep DEF Basis
<1> QED BY <1>1, <1>2, PTL DEF Spec

\* A position has a second trade only where a failure or a stale write left it open after its
\* trade, or a call that overlapped another traded it: the task and disable close what is open,
\* and what is open has no trade but for those.
THEOREM RepeatsAlwaysBounded == Spec => []RepeatsBounded
<1>1. Basis /\ RepeatInv /\ [Next]_vars => RepeatInv'
  BY RepeatStep DEF Basis
<1>2. Basis /\ RepeatInv => RepeatsBounded
  BY TradedType DEF Basis, RepeatInv, RepeatsBounded
<1> QED BY <1>1, <1>2, RepeatInit, BasisAlways, PTL DEF Spec

-----------------------------------------------------------------------------
(* The ledger.                                                             *)

ManualOf(s) == {i \in DOMAIN s : s[i].by = "admin"}

\* Account a agrees with h positions and the trades s, but for k positions and the trades T; or
\* for no more than n positions and some of the trades in l.
Fits(a, k, h, s, T) ==
    /\ a.capital = Starting - Cost * (h - k) + Income(s, ManualOf(s) \ T)
    /\ a.trades = Cardinality(ManualOf(s) \ T)

Explains(a, n, h, s, l) == \E k \in 0..n, T \in SUBSET l : Fits(a, k, h, s, T)

LEMMA MoreExplains ==
    ASSUME NEW a, NEW n \in Nat, NEW m \in Nat, n <= m, NEW h, NEW s, NEW l, NEW l2, l \subseteq l2,
           Explains(a, n, h, s, l)
    PROVE  Explains(a, m, h, s, l2)
<1>1. 0..n \subseteq 0..m /\ SUBSET l \subseteq SUBSET l2
  OBVIOUS
<1> QED BY <1>1 DEF Explains

\* Only the capital and the number of trades count.
LEMMA SameFigures ==
    ASSUME NEW a, NEW b, b.capital = a.capital, b.trades = a.trades, NEW n, NEW h, NEW s, NEW l,
           Explains(a, n, h, s, l)
    PROVE  Explains(b, n, h, s, l)
BY DEF Explains, Fits

LEMMA ManualType ==
    ASSUME NEW s \in Seq(Trades), NEW T
    PROVE  /\ IsFiniteSet(ManualOf(s) \ T) /\ ManualOf(s) \ T \in SUBSET DOMAIN s
           /\ Cardinality(ManualOf(s) \ T) \in Nat /\ Income(s, ManualOf(s) \ T) \in Int
<1>1. ManualOf(s) \ T \in SUBSET DOMAIN s
  BY DEF ManualOf
<1> QED BY <1>1, IncomeType, FS_CardinalityType

\* A position more: it is one that the account lacks, or the account has paid for it.
LEMMA SavedExplains ==
    ASSUME NEW a, NEW n \in Nat, NEW h \in Nat, NEW s \in Seq(Trades), NEW l,
           Explains(a, n, h, s, l)
    PROVE  /\ Explains(a, n + 1, h + 1, s, l)
           /\ \A b : b.capital = a.capital - Cost /\ b.trades = a.trades => Explains(b, n, h + 1, s, l)
<1>1. PICK k \in 0..n, T \in SUBSET l : Fits(a, k, h, s, T)
  BY DEF Explains
<1> DEFINE I == Income(s, ManualOf(s) \ T)
<1>2. I \in Int /\ Cost \in Nat /\ Starting \in Nat /\ k \in Nat /\ k + 1 \in 0..(n + 1)
  <2>1. I \in Int
    BY ManualType
  <2>2. k \in Nat /\ k + 1 \in 0..(n + 1)
    OBVIOUS
  <2> HIDE DEF I
  <2> QED BY <2>1, <2>2, Constants
<1>3. a.capital = Starting - Cost * (h - k) + I /\ a.trades = Cardinality(ManualOf(s) \ T)
  BY <1>1 DEF Fits
<1>4. (h + 1) - (k + 1) = h - k
  BY <1>2
<1>5. Cost * ((h + 1) - k) = Cost * (h - k) + Cost
  <2> DEFINE d == h - k
  <2>1. d \in Int /\ (h + 1) - k = d + 1
    BY <1>2
  <2> HIDE DEF d
  <2>2. Cost * (d + 1) = Cost * d + Cost
    BY <1>2, <2>1
  <2> QED BY <2>1, <2>2 DEF d
<1>6. Cost * (h - k) \in Int
  BY <1>2
<1>7. Explains(a, n + 1, h + 1, s, l)
  <2>1. Fits(a, k + 1, h + 1, s, T)
    BY <1>3, <1>4 DEF Fits
  <2> QED BY <1>2, <2>1 DEF Explains
<1>8. ASSUME NEW b, b.capital = a.capital - Cost, b.trades = a.trades
      PROVE  Explains(b, n, h + 1, s, l)
  <2> HIDE DEF I
  <2>1. b.capital = Starting - Cost * ((h + 1) - k) + I
    BY <1>2, <1>3, <1>5, <1>6, <1>8
  <2>2. Fits(b, k, h + 1, s, T)
    BY <1>3, <1>8, <2>1 DEF Fits, I
  <2> QED BY <2>2 DEF Explains
<1> QED BY <1>7, <1>8

\* A trade of the task brings the account nothing.
LEMMA TaskExplains ==
    ASSUME NEW a, NEW n, NEW h, NEW s \in Seq(Trades), NEW l, NEW t \in Trades, t.by = "task",
           Explains(a, n, h, s, l)
    PROVE  Explains(a, n, h, Append(s, t), l)
<1>1. PICK k \in 0..n, T \in SUBSET l : Fits(a, k, h, s, T)
  BY DEF Explains
<1> DEFINE r == Append(s, t)
           M == ManualOf(s) \ T
           f == [i \in DOMAIN s |-> Proceeds(s[i].price)]
           g == [i \in DOMAIN r |-> Proceeds(r[i].price)]
<1>2. /\ \A i \in DOMAIN s : i \in DOMAIN r /\ r[i] = s[i]
      /\ \A i \in DOMAIN r : i \in DOMAIN s \/ r[i] = t
  OBVIOUS
<1> HIDE DEF r
<1>3. ManualOf(r) = ManualOf(s)
  BY <1>2 DEF ManualOf
<1>4. IsFiniteSet(M) /\ M \subseteq DOMAIN s
  BY ManualType
<1>5. \A i \in M : f[i] = g[i]
  BY <1>2, <1>4
<1>6. Income(r, M) = Income(s, M)
  BY <1>4, <1>5, SumAgree DEF Income
<1>7. Fits(a, k, h, r, T)
  BY <1>1, <1>3, <1>6 DEF Fits
<1> QED BY <1>7 DEF Explains, r

\* What a disable adds to the trades.
LEMMA Added ==
    ASSUME NEW s \in Seq(Trades), NEW t \in Seq(Trades), NEW T \in SUBSET DOMAIN s,
           \A i \in DOMAIN t : t[i].by = "admin"
    PROVE  /\ Income(s \o t, ManualOf(s \o t) \ T) = Income(s, ManualOf(s) \ T) + Income(t, DOMAIN t)
           /\ Cardinality(ManualOf(s \o t) \ T) = Cardinality(ManualOf(s) \ T) + Len(t)
           /\ Income(s \o t, ManualOf(s) \ T) = Income(s, ManualOf(s) \ T)
<1> DEFINE M == ManualOf(s) \ T
           n == Len(s)
           k == Len(t)
           r == s \o t
           New == (n + 1)..(n + k)
           f == [i \in DOMAIN s |-> Proceeds(s[i].price)]
           g == [i \in DOMAIN t |-> Proceeds(t[i].price)]
           h == [i \in DOMAIN r |-> Proceeds(r[i].price)]
<1>1. /\ n \in Nat /\ k \in Nat /\ DOMAIN s = 1..n /\ DOMAIN t = 1..k
      /\ DOMAIN r = 1..(n + k)
      /\ \A i \in 1..n : i \in 1..(n + k) /\ r[i] = s[i]
      /\ \A i \in 1..k : n + i \in 1..(n + k) /\ r[n + i] = t[i]
  OBVIOUS
<1> HIDE DEF n, k, r
<1>2. ManualOf(r) = ManualOf(s) \cup New
  <2>1. \A i \in New : i - n \in 1..k /\ n + (i - n) = i
    BY <1>1
  <2>2. \A i \in 1..(n + k) : i \in 1..n \/ i \in New
    BY <1>1
  <2> HIDE DEF New
  <2>3. \A i \in ManualOf(r) : i \in ManualOf(s) \cup New
    BY <1>1, <2>2 DEF ManualOf
  <2>4. \A i \in ManualOf(s) : i \in ManualOf(r)
    BY <1>1 DEF ManualOf
  <2>5. \A i \in New : i \in ManualOf(r)
    <3> SUFFICES ASSUME NEW i \in New PROVE i \in ManualOf(r)
      OBVIOUS
    <3>1. i - n \in 1..k /\ n + (i - n) = i
      BY <2>1
    <3>2. i \in DOMAIN r /\ r[i] = t[i - n]
      BY <1>1, <3>1
    <3> QED BY <1>1, <3>1, <3>2 DEF ManualOf
  <2> QED BY <2>3, <2>4, <2>5
<1>3. New \cap (1..n) = {}
  BY <1>1
<1>4. ManualOf(r) \ T = M \cup New /\ M \cap New = {} /\ M \in SUBSET (1..n)
  BY <1>1, <1>2, <1>3 DEF ManualOf
<1>5. IsFiniteSet(M) /\ Cardinality(M) \in Nat /\ IsFiniteSet(New) /\ Cardinality(New) = k
  <2>1. n + 1 \in Int /\ n + k \in Int
    BY <1>1
  <2>2. /\ IsFiniteSet(New)
        /\ Cardinality(New) = IF n + 1 > n + k THEN 0 ELSE (n + k) - (n + 1) + 1
    BY <2>1, FS_Interval
  <2> HIDE DEF New
  <2> QED BY <1>1, <2>2, ManualType
<1>6. Cardinality(M \cup New) = Cardinality(M) + k
  <2>1. Cardinality(M \cap New) = 0
    BY <1>4, FS_EmptySet
  <2> HIDE DEF New, M
  <2>2. Cardinality(M \cup New) = Cardinality(M) + Cardinality(New) - Cardinality(M \cap New)
    BY <1>5, FS_Union
  <2> QED BY <1>1, <1>5, <2>1, <2>2
<1>7. SumFunctionOnSet(h, M \cup New) = SumFunctionOnSet(h, M) + SumFunctionOnSet(g, 1..k)
  <2>1. \A i \in 1..n : s[i].price \in Int
    <3>1. \A i \in 1..n : s[i] \in Trades
      BY <1>1
    <3> QED BY <3>1 DEF Trades
  <2>2. \A i \in 1..k : t[i].price \in Int
    <3>1. \A i \in 1..k : t[i] \in Trades
      BY <1>1
    <3> QED BY <3>1 DEF Trades
  <2>3. \A i \in M : h[i] \in Int
    BY <1>1, <1>4, <2>1, Constants
  <2>4. \A i \in 1..k : g[i] \in Int /\ h[n + i] = g[i]
    BY <1>1, <2>2, Constants
  <2> HIDE DEF g, h, M
  <2> QED BY <1>1, <1>4, <1>5, <2>3, <2>4, SumShift
<1>8. SumFunctionOnSet(h, M) = SumFunctionOnSet(f, M)
  <2>1. \A i \in M : h[i] = f[i]
    BY <1>1, <1>4
  <2> QED BY <1>5, <2>1, SumAgree
<1>9. /\ Income(s, M) = SumFunctionOnSet(f, M)
      /\ Income(t, DOMAIN t) = SumFunctionOnSet(g, 1..k)
      /\ Income(r, M \cup New) = SumFunctionOnSet(h, M \cup New)
      /\ Income(r, M) = SumFunctionOnSet(h, M)
  BY <1>1 DEF Income
<1> HIDE DEF f, g, h, M, New
<1>10. /\ Income(r, ManualOf(r) \ T) = Income(s, M) + Income(t, DOMAIN t)
       /\ Cardinality(ManualOf(r) \ T) = Cardinality(M) + k
       /\ Income(r, M) = Income(s, M)
  BY <1>3, <1>4, <1>6, <1>7, <1>8, <1>9
<1> QED BY <1>10 DEF r, k, M

LEMMA AddedLast ==
    ASSUME NEW s \in Seq(Trades), NEW t \in Seq(Trades), NEW T \in SUBSET DOMAIN s
    PROVE  ManualOf(s \o t) \ (T \cup (DOMAIN (s \o t) \ DOMAIN s)) = ManualOf(s) \ T
<1> DEFINE r == s \o t
<1>1. \A i \in DOMAIN s : i \in DOMAIN r /\ r[i] = s[i]
  OBVIOUS
<1> HIDE DEF r
<1>2. ManualOf(r) \ (T \cup (DOMAIN r \ DOMAIN s)) = ManualOf(s) \ T
  BY <1>1 DEF ManualOf
<1> QED BY <1>2 DEF r

\* Those of disable bring their proceeds and are counted, in the copy it credits; any other copy
\* lacks the whole of them.
LEMMA CommitExplains ==
    ASSUME NEW a \in Accounts, NEW n \in Nat, NEW h \in Nat, NEW s \in Seq(Trades),
           NEW l \in SUBSET DOMAIN s,
           NEW t \in Seq(Trades), \A i \in DOMAIN t : t[i].by = "admin", Explains(a, n, h, s, l)
    PROVE  /\ Explains(Credit(a, t), n, h, s \o t, l)
           /\ Explains(a, n, h, s \o t, l \cup (DOMAIN (s \o t) \ DOMAIN s))
<1>1. PICK k \in 0..n, T \in SUBSET l : Fits(a, k, h, s, T)
  BY DEF Explains
<1> DEFINE r == s \o t
           M == ManualOf(s) \ T
           R == T \cup (DOMAIN r \ DOMAIN s)
<1>2. /\ Income(r, ManualOf(r) \ T) = Income(s, M) + Income(t, DOMAIN t)
      /\ Cardinality(ManualOf(r) \ T) = Cardinality(M) + Len(t)
      /\ ManualOf(r) \ R = M /\ Income(r, M) = Income(s, M)
  <2>1. T \in SUBSET DOMAIN s
    OBVIOUS
  <2>2. ManualOf(r) \ R = M
    BY <2>1, AddedLast
  <2>3. /\ Income(r, ManualOf(r) \ T) = Income(s, M) + Income(t, DOMAIN t)
        /\ Cardinality(ManualOf(r) \ T) = Cardinality(M) + Len(t)
        /\ Income(r, M) = Income(s, M)
    BY <2>1, Added
  <2> QED BY <2>2, <2>3
<1>3. /\ Income(s, M) \in Int /\ Income(t, DOMAIN t) \in Int /\ Cardinality(M) \in Nat
      /\ Len(t) \in Nat /\ Cost \in Nat /\ Starting \in Nat /\ k \in Nat
  <2>1. Income(s, M) \in Int /\ Cardinality(M) \in Nat
    BY ManualType
  <2>2. Income(t, DOMAIN t) \in Int /\ Len(t) \in Nat
    BY IncomeType
  <2>3. k \in Nat
    OBVIOUS
  <2> HIDE DEF M
  <2> QED BY <2>1, <2>2, <2>3, Constants
<1>4. a.capital = Starting - Cost * (h - k) + Income(s, M) /\ a.trades = Cardinality(M)
  BY <1>1 DEF Fits
<1>5. /\ Credit(a, t).capital = a.capital + Income(t, DOMAIN t)
      /\ Credit(a, t).trades = a.trades + Len(t)
  BY DEF Credit, Accounts
<1>6. Cost * (h - k) \in Int
  BY <1>3
<1> HIDE DEF r, M
<1>7. Credit(a, t).capital = Starting - Cost * (h - k) + Income(r, ManualOf(r) \ T)
  BY <1>2, <1>3, <1>4, <1>5, <1>6
<1>8. Fits(Credit(a, t), k, h, r, T) /\ Fits(a, k, h, r, R)
  BY <1>2, <1>4, <1>5, <1>7 DEF Fits
<1>9. R \in SUBSET (l \cup (DOMAIN r \ DOMAIN s))
  OBVIOUS
<1> HIDE DEF R
<1>10. Explains(Credit(a, t), n, h, r, l) /\ Explains(a, n, h, r, l \cup (DOMAIN r \ DOMAIN s))
  BY <1>8, <1>9 DEF Explains
<1> QED BY <1>10 DEF r

LEMMA NewExplains ==
    ASSUME NEW a, a.capital = Starting, a.trades = 0, NEW n \in Nat
    PROVE  Explains(a, n, 0, <<>>, {})
<1>1. ManualOf(<<>>) \ {} = {}
  BY DEF ManualOf
<1>2. Income(<<>>, {}) = 0 /\ Cardinality({}) = 0 /\ Cost * (0 - 0) = 0
  BY SumEmpty, FS_EmptySet, Constants DEF Income
<1>3. Fits(a, 0, 0, <<>>, {})
  <2>1. Starting - Cost * (0 - 0) + 0 = Starting
    BY <1>2, Constants
  <2> QED BY <1>1, <1>2, <2>1 DEF Fits
<1> QED BY <1>3 DEF Explains

-----------------------------------------------------------------------------
(* What a step makes of the account and of the copies of it.               *)

\* What a step makes of a call.
CallStep(c) ==
    \/ call'[c] = call[c]
    \/ ExecuteSignal(c) /\ call'[c] = [at |-> "save", copy |-> account]
    \/ /\ SavePosition(c) /\ call'[c].at = "heat"
       /\ call'[c].copy.id = call[c].copy.id /\ call'[c].copy.equity = call[c].copy.equity
       /\ call'[c].copy.capital = call[c].copy.capital - Cost
       /\ call'[c].copy.trades = call[c].copy.trades
    \/ /\ CurrentHeat(c) /\ call'[c].at = "write" /\ call'[c].copy.id = call[c].copy.id
       /\ call'[c].copy.equity = call[c].copy.equity
       /\ call'[c].copy.capital = call[c].copy.capital
       /\ call'[c].copy.trades = call[c].copy.trades
       /\ call'[c].copy.risk = CurrentRisk(call[c].copy.equity)
    \/ (ExecuteReturns(c) \/ ExecuteFails(c)) /\ call'[c] = Idle

LEMMA CallSteps == ASSUME Stable, [Next]_vars, NEW c \in Openers PROVE CallStep(c)
<1>0. call \in [Openers -> [at : Stages, copy : Accounts]]
  BY DEF Stable, TypeOK
<1>1. CASE ExecuteSignal(c)
  BY <1>0, <1>1 DEF ExecuteSignal, CallStep
<1>2. CASE SavePosition(c)
  <2>1. call'[c] = [at |-> "heat", copy |-> [call[c].copy EXCEPT !.capital = @ - Cost]]
    BY <1>0, <1>2 DEF SavePosition
  <2>2. call[c].copy \in Accounts
    BY <1>0
  <2> QED BY <1>2, <2>1, <2>2 DEF CallStep, Accounts
<1>3. CASE CurrentHeat(c)
  <2> DEFINE r == CurrentRisk(call[c].copy.equity)
  <2>1. call'[c] = [at |-> "write", copy |-> [call[c].copy EXCEPT !.risk = r]]
    BY <1>0, <1>3 DEF CurrentHeat
  <2>2. call[c].copy \in Accounts
    BY <1>0
  <2> HIDE DEF r
  <2>3. /\ call'[c].at = "write" /\ call'[c].copy.id = call[c].copy.id
        /\ call'[c].copy.equity = call[c].copy.equity
        /\ call'[c].copy.capital = call[c].copy.capital
        /\ call'[c].copy.trades = call[c].copy.trades /\ call'[c].copy.risk = r
    BY <2>1, <2>2 DEF Accounts
  <2> QED BY <1>3, <2>3 DEF CallStep, r
<1>4. CASE ExecuteReturns(c) \/ ExecuteFails(c)
  BY <1>0, <1>4 DEF ExecuteReturns, ExecuteFails, CallStep
<1>5. ASSUME NEW d \in Openers, d # c, Opener(d) PROVE call'[c] = call[c]
  BY <1>0, <1>5 DEF Opener, ExecuteSignal, SavePosition, CurrentHeat, ExecuteReturns, ExecuteFails
<1>6. CASE UNCHANGED vars
  BY <1>6 DEF vars, CallStep
<1> QED BY <1>1, <1>2, <1>3, <1>4, <1>5, <1>6, TaskFrame, OperatorFrame DEF Next, Opener, CallStep

\* What a step makes of the copies of the task and of a request: they read the account, give the
\* copy up, or leave its figures as they are.
LEMMA TaskCopies ==
    ASSUME Stable, [Next]_vars
    PROVE  \/ PassReads /\ task'.copy = account
           \/ task'.copy = NoAccount
           \/ /\ task'.copy.id = task.copy.id /\ task'.copy.capital = task.copy.capital
              /\ task'.copy.trades = task.copy.trades
<1>0. DOMAIN task = {"at", "copy", "todo", "now", "price"} /\ task.copy \in Accounts
  BY DEF Stable, Form, TypeOK
<1>1. CASE PassReads
  BY <1>0, <1>1 DEF PassReads
<1>2. CASE PassLists \/ SaveTrade \/ PassWrites \/ PassFails
  <2>1. CASE task' = TaskIdle
    BY <2>1 DEF TaskIdle
  <2>2. CASE task' # TaskIdle
    BY <1>0, <1>2, <2>2 DEF PassLists, SaveTrade, PassWrites, PassFails
  <2> QED BY <2>1, <2>2
<1>3. CASE FetchPrice
  BY <1>0, <1>3 DEF FetchPrice
<1>4. CASE UpdatePosition \/ ClosePosition \/ PositionFails
  BY <1>0, <1>4 DEF UpdatePosition, ClosePosition, PositionFails, TaskNext
<1>5. CASE TotalPnl
  <2> DEFINE pnl == SumFunctionOnSet([p \in Ids |-> pos[p].pnl], Open)
  <2>1. task' = [task EXCEPT !.at = "heat", !.copy.equity = task.copy.capital + pnl]
    BY <1>5 DEF TotalPnl
  <2> HIDE DEF pnl
  <2> QED BY <1>0, <2>1 DEF Accounts
<1>6. CASE TotalHeat
  <2> DEFINE risk == CurrentRisk(task.copy.equity)
  <2>1. task' = [task EXCEPT !.at = "write", !.copy.risk = risk]
    BY <1>6 DEF TotalHeat
  <2> HIDE DEF risk
  <2> QED BY <1>0, <2>1 DEF Accounts
<1>7. CASE UNCHANGED task
  BY <1>7
<1>8. CASE UNCHANGED vars
  BY <1>7, <1>8 DEF vars
<1> QED BY <1>1, <1>2, <1>3, <1>4, <1>5, <1>6, <1>7, <1>8, OpenerFrame, OperatorFrame DEF Next, Task

LEMMA AdminCopies ==
    ASSUME Stable, AloneInv, [Next]_vars
    PROVE  (DisableReads /\ admin'.copy = account) \/ admin'.copy = NoAccount \/ admin'.copy = admin.copy
<1>0. DOMAIN admin = {"at", "copy", "listed"}
  BY DEF Stable, Form
<1>1. CASE DisableReads
  BY <1>0, <1>1 DEF DisableReads
<1>2. CASE admin' = AdminIdle
  BY <1>2 DEF AdminIdle
<1>3. CASE DisableLists /\ admin' # AdminIdle
  <2>1. PICK latest : admin' = [admin EXCEPT !.at = "commit", !.listed = Exits(latest)]
    BY <1>3 DEF DisableLists, Exits
  <2> QED BY <1>0, <2>1
<1>4. CASE admin' = admin
  BY <1>4
<1> QED BY <1>1, <1>2, <1>3, <1>4, AdminFrame DEF DisableCommits, DisableFails

\* Who writes the account.
LEMMA AccountSteps ==
    ASSUME Stable, [Next]_vars
    PROVE  \/ UNCHANGED <<account, peak>>
           \/ \E c \in Openers : ExecuteReturns(c) /\ UpdateAccount(call[c].copy)
           \/ PassWrites /\ UpdateAccount(task.copy)
           \/ DisableCommits /\ UpdateAccount(Credit(admin.copy, admin.listed))
           \/ Enable
           \/ Reset
<1>1. ASSUME NEW c \in Openers, Opener(c), ~ExecuteReturns(c) PROVE UNCHANGED <<account, peak>>
  BY <1>1 DEF Opener, ExecuteSignal, SavePosition, CurrentHeat, ExecuteFails, rows, history
<1>2. CASE PassReads \/ PassLists \/ FetchPrice \/ TotalPnl \/ TotalHeat
  BY <1>2 DEF PassReads, PassLists, FetchPrice, TotalPnl, TotalHeat, rows, history
<1>3. CASE UpdatePosition \/ SaveTrade \/ ClosePosition \/ PositionFails \/ PassFails
  BY <1>3 DEF UpdatePosition, SaveTrade, ClosePosition, PositionFails, PassFails, rows, history
<1>4. CASE DisableReads \/ DisableLists \/ DisableFails
  BY <1>4 DEF DisableReads, DisableLists, DisableFails, rows
<1>5. CASE UNCHANGED vars
  BY <1>5 DEF vars, rows, history
<1>6. CASE \E c \in Openers : Opener(c)
  BY <1>1, <1>6 DEF ExecuteReturns
<1>7. CASE PassWrites \/ DisableCommits
  BY <1>7 DEF PassWrites, DisableCommits
<1> QED BY <1>2, <1>3, <1>4, <1>5, <1>6, <1>7 DEF Next, Task, Operator

\* No copy is of a later account.
IdsInv ==
    /\ \A c \in Openers : call[c].copy.id <= account.id
    /\ task.copy.id <= account.id /\ admin.copy.id <= account.id

LEMMA IdsInit == Init => IdsInv
BY DEF Init, IdsInv, Idle, NoAccount

LEMMA IdsStep == Stable /\ AloneInv /\ IdsInv /\ [Next]_vars => IdsInv'
<1> SUFFICES ASSUME Stable, AloneInv, IdsInv, [Next]_vars PROVE IdsInv'
  OBVIOUS
<1>0. /\ account.id \in Nat /\ account'.id \in Nat /\ account'.id >= account.id
      /\ task.copy.id \in Nat /\ admin.copy.id \in Nat
  <2>1. Stable'
    BY StableStep
  <2> QED BY <2>1, IdsGrow, PaperAssumption DEF Stable, TypeOK, Accounts
<1>1. ASSUME NEW c \in Openers PROVE call'[c].copy.id <= account'.id
  <2>1. call[c].copy.id <= account.id /\ call[c].copy.id \in Nat
    BY PaperAssumption DEF IdsInv, Stable, TypeOK, Accounts
  <2>2. call'[c].copy.id \in {call[c].copy.id, account.id, 0}
    BY CallSteps DEF CallStep, Idle, NoAccount
  <2> QED BY <1>0, <2>1, <2>2
<1>2. task'.copy.id <= account'.id
  <2>1. task'.copy.id \in {task.copy.id, account.id, 0}
    BY TaskCopies DEF NoAccount
  <2> QED BY <1>0, <2>1 DEF IdsInv
<1>3. admin'.copy.id <= account'.id
  <2>1. admin'.copy.id \in {admin.copy.id, account.id, 0}
    BY AdminCopies DEF NoAccount
  <2> QED BY <1>0, <2>1 DEF IdsInv
<1> QED BY <1>1, <1>2, <1>3 DEF IdsInv

-----------------------------------------------------------------------------
(* The ledger agrees: what the account and every copy of it may lack.      *)

\* The calls that have saved a position and not yet written their account.
Pending == {c \in Openers : Saved(c)}
Ahead == unpaid + Cardinality(Pending)

\* The account may lack the positions of pending calls; so may every copy, but that of a call
\* that is alone, which has its own.
LedgerInv ==
    account.id # 0 =>
        /\ Explains(account, Ahead, Cardinality(Held), trades, loose)
        /\ \A c \in Openers : call[c].copy.id = account.id =>
              Explains(call[c].copy, IF c \in crowd THEN Ahead ELSE unpaid,
                       Cardinality(Held), trades, loose)
        /\ task.copy.id = account.id =>
              Explains(task.copy, Ahead, Cardinality(Held), trades, loose)
        /\ admin.copy.id = account.id =>
              Explains(admin.copy, Ahead, Cardinality(Held), trades, loose)

LEMMA HeldType == IsFiniteSet(Held) /\ Cardinality(Held) \in Nat
<1>1. Held \subseteq Created
  BY DEF Held
<1> QED BY <1>1, Counts, FS_Subset, FS_CardinalityType

LEMMA LooseFrame ==
    ASSUME [Next]_vars
    PROVE  loose' = loose \/ (DisableCommits /\ "admin" \in crowd) \/ Reset
<1>1. ASSUME NEW c \in Openers, Opener(c) PROVE loose' = loose
  BY <1>1 DEF Opener, ExecuteSignal, SavePosition, CurrentHeat, ExecuteReturns, ExecuteFails,
              history, counts
<1>2. ASSUME Task PROVE loose' = loose
  BY <1>2 DEF Task, PassReads, PassLists, FetchPrice, UpdatePosition, SaveTrade, ClosePosition,
              TotalPnl, TotalHeat, PassWrites, PositionFails, PassFails, history, counts
<1>3. ASSUME Operator, ~(DisableCommits /\ "admin" \in crowd), ~Reset PROVE loose' = loose
  BY <1>3 DEF Operator, Enable, DisableReads, DisableLists, DisableCommits, DisableFails, counts
<1>4. CASE UNCHANGED vars
  BY <1>4 DEF vars, history, counts
<1> QED BY <1>1, <1>2, <1>3, <1>4 DEF Next

\* Whoever agreed with the rows but for n positions still does after a step, but for those and
\* the one the step saves.
LEMMA LedgerKept ==
    ASSUME Basis, [Next]_vars, ~Enable, ~Reset, ~(DisableCommits /\ "admin" \notin crowd),
           NEW a \in Accounts, NEW n \in Nat, NEW m \in Nat, n <= m,
           (\E c \in Openers : SavePosition(c)) => n + 1 <= m,
           Explains(a, n, Cardinality(Held), trades, loose)
    PROVE  Explains(a, m, Cardinality(Held'), trades', loose')
<1>0. /\ trades \in Seq(Trades) /\ admin.listed \in Seq(Trades) /\ loose \in SUBSET DOMAIN trades
      /\ \A i \in DOMAIN admin.listed : admin.listed[i].by = "admin"
      /\ Cardinality(Held) \in Nat
  BY HeldType DEF Basis, Stable, TypeOK, Form, ListedInv
<1>1. CASE \E c \in Openers : SavePosition(c)
  <2>1. PICK c \in Openers : SavePosition(c)
    BY <1>1
  <2>2. UNCHANGED <<trades, loose>>
    BY <2>1 DEF SavePosition
  <2>3. Cardinality(Held') = Cardinality(Held) + 1 \/ Held' = Held
    <3>1. CASE Held' # Held
      <4>1. \E p : p \notin Held /\ Held' = Held \cup {p}
        BY <3>1, HeldSteps DEF Basis
      <4> QED BY <4>1, HeldType, FS_AddElement
    <3> QED BY <3>1
  <2>4. CASE Held' = Held
    BY <1>1, <2>2, <2>4, MoreExplains
  <2>5. CASE Cardinality(Held') = Cardinality(Held) + 1
    <3>1. Explains(a, n + 1, Cardinality(Held'), trades, loose) /\ n + 1 \in Nat /\ n + 1 <= m
      BY <1>0, <1>1, <2>5, SavedExplains
    <3> QED BY <2>2, <3>1, MoreExplains
  <2> QED BY <2>3, <2>4, <2>5
<1>2. CASE ~\E c \in Openers : SavePosition(c)
  <2>1. Held' = Held
    BY <1>2, HeldSteps DEF Basis
  <2>2. CASE SaveTrade /\ trades' # trades
    <3> DEFINE t == [pos |-> task.now, price |-> task.price, by |-> "task"]
    <3>1. trades' = Append(trades, t) /\ loose' = loose
      BY <2>2 DEF SaveTrade
    <3>2. t \in Trades /\ t.by = "task"
      <4>1. task.now \in Ids /\ task.price \in Int
        BY <2>2, Constants DEF SaveTrade, Basis, Stable, TypeOK, Form
      <4> QED BY <4>1 DEF Trades
    <3> HIDE DEF t
    <3>3. Explains(a, n, Cardinality(Held), trades', loose)
      BY <1>0, <3>1, <3>2, TaskExplains
    <3> QED BY <2>1, <3>1, <3>3, MoreExplains
  <2>3. CASE DisableCommits
    <3>1. /\ trades' = trades \o admin.listed
          /\ loose' = loose \cup (DOMAIN trades' \ DOMAIN trades)
      BY <2>3 DEF DisableCommits
    <3>2. Explains(a, n, Cardinality(Held), trades', loose')
      BY <1>0, <3>1, CommitExplains
    <3> QED BY <2>1, <3>2, MoreExplains
  <2>4. CASE UNCHANGED <<trades, loose>>
    BY <2>1, <2>4, MoreExplains
  <2> QED BY <2>2, <2>3, <2>4, TradesFrame, LooseFrame DEF SaveTrade, DisableCommits
<1> QED BY <1>1, <1>2

LEMMA PendingType ==
    ASSUME unpaid \in Nat
    PROVE  /\ IsFiniteSet(Pending) /\ Cardinality(Pending) \in Nat
           /\ Ahead \in Nat /\ unpaid <= Ahead
<1>1. IsFiniteSet(Pending)
  BY PaperAssumption, FS_Subset DEF Pending
<1>2. Cardinality(Pending) \in Nat
  BY <1>1, FS_CardinalityType
<1> QED BY <1>1, <1>2 DEF Ahead

LEMMA Saves ==
    ASSUME Stable, NEW c \in Openers, SavePosition(c)
    PROVE  call[c].at = "save" /\ call'[c].at = "heat"
<1> DEFINE copy == [call[c].copy EXCEPT !.capital = @ - Cost]
<1>1. call[c].at = "save" /\ call' = [call EXCEPT ![c] = [at |-> "heat", copy |-> copy]]
  BY DEF SavePosition
<1>2. call \in [Openers -> [at : Stages, copy : Accounts]]
  BY DEF Stable, TypeOK
<1> HIDE DEF copy
<1> QED BY <1>1, <1>2

\* The positions the account may lack only grow, but when a call that was alone has paid.
LEMMA AheadSteps ==
    ASSUME Stable, AloneInv, [Next]_vars, ~Reset
    PROVE  /\ unpaid \in Nat /\ unpaid' \in Nat /\ Ahead \in Nat /\ Ahead' \in Nat
           /\ unpaid <= Ahead /\ unpaid' <= Ahead' /\ unpaid <= unpaid'
           /\ (\E c \in Openers : SavePosition(c)) => Ahead' = Ahead + 1
           /\ \/ Ahead <= Ahead'
              \/ \E c \in Openers \ crowd : ExecuteReturns(c) /\ Ahead' = unpaid
<1>0. /\ unpaid \in Nat /\ unpaid' \in Nat /\ call \in [Openers -> [at : Stages, copy : Accounts]]
      /\ IsFiniteSet(Pending) /\ Cardinality(Pending) \in Nat
      /\ Ahead \in Nat /\ Ahead' \in Nat /\ unpaid <= Ahead /\ unpaid' <= Ahead'
  <2>1. Stable'
    BY StableStep
  <2>2. unpaid \in Nat /\ unpaid' \in Nat
    BY <2>1 DEF Stable, TypeOK
  <2>3. IsFiniteSet(Pending')
    BY PaperAssumption, FS_Subset DEF Pending
  <2>4. Cardinality(Pending') \in Nat
    BY <2>3, FS_CardinalityType
  <2>5. Ahead' \in Nat /\ unpaid' <= Ahead'
    BY <2>2, <2>4 DEF Ahead
  <2> QED BY <2>2, <2>5, PendingType DEF Stable, TypeOK
<1>1. ASSUME UNCHANGED <<unpaid, call>>
      PROVE  unpaid <= unpaid' /\ Ahead <= Ahead' /\ ~\E c \in Openers : SavePosition(c)
  <2>1. Pending' = Pending
    BY <1>1 DEF Pending, Saved
  <2>2. \A c \in Openers : ~SavePosition(c)
    BY <1>1, Saves
  <2> QED BY <1>0, <1>1, <2>1, <2>2 DEF Ahead
<1>2. CASE Task \/ Operator
  <2>1. UNCHANGED call
    BY <1>2, TaskFrame, OperatorFrame
  <2>2. UNCHANGED unpaid
    <3>1. CASE Task
      BY <3>1 DEF Task, PassReads, PassLists, FetchPrice, UpdatePosition, SaveTrade, ClosePosition,
                TotalPnl, TotalHeat, PassWrites, PositionFails, PassFails, history, counts
    <3>2. CASE Operator
      BY <3>2 DEF Operator, Enable, DisableReads, DisableLists, DisableCommits, DisableFails, counts
    <3> QED BY <1>2, <3>1, <3>2
  <2> QED BY <1>0, <1>1, <2>1, <2>2
<1>3. CASE UNCHANGED vars
  <2>1. UNCHANGED <<unpaid, call>>
    BY <1>3 DEF vars, history, counts
  <2> QED BY <1>0, <1>1, <2>1
<1>4. ASSUME NEW c \in Openers, Opener(c)
      PROVE  /\ unpaid <= unpaid'
             /\ (\E d \in Openers : SavePosition(d)) => Ahead' = Ahead + 1
             /\ \/ Ahead <= Ahead'
                \/ \E d \in Openers \ crowd : ExecuteReturns(d) /\ Ahead' = unpaid
  <2>0. \A d \in Openers : SavePosition(d) => d = c
    <3>1. \A d \in Openers \ {c} : call'[d] = call[d]
      BY <1>0, <1>4 DEF Opener, ExecuteSignal, SavePosition, CurrentHeat, ExecuteReturns, ExecuteFails
    <3> QED BY <1>0, <3>1 DEF SavePosition
  <2>1. CASE ExecuteSignal(c) \/ CurrentHeat(c)
    <3>1. Pending' = Pending /\ unpaid' = unpaid
      BY <1>0, <2>1 DEF ExecuteSignal, CurrentHeat, Pending, Saved, history, counts
    <3>2. \A d \in Openers : ~SavePosition(d)
      BY <1>0, <2>0, <2>1 DEF SavePosition, ExecuteSignal, CurrentHeat
    <3> QED BY <1>0, <3>1, <3>2 DEF Ahead
  <2>2. CASE SavePosition(c)
    <3>1. unpaid' = unpaid /\ Pending' = Pending \cup {c} /\ c \notin Pending
      BY <1>0, <2>2 DEF SavePosition, Pending, Saved
    <3>2. Cardinality(Pending') = Cardinality(Pending) + 1
      BY <1>0, <3>1, FS_AddElement
    <3> QED BY <1>0, <3>1, <3>2 DEF Ahead
  <2>3. CASE ExecuteReturns(c) \/ ExecuteFails(c)
    <3>0. call' = [call EXCEPT ![c] = Idle] /\ Idle.at = "idle"
      BY <2>3 DEF ExecuteReturns, ExecuteFails, Idle
    <3>3. Pending' = Pending \ {c}
      BY <1>0, <3>0 DEF Pending, Saved
    <3>4. \A d \in Openers : ~SavePosition(d)
      <4>1. call'[c].at = "idle"
        BY <1>0, <3>0
      <4> QED BY <2>0, <4>1, Saves
    <3>1. CASE c \notin Pending
      <4>1. unpaid' = unpaid /\ Pending' = Pending
        BY <2>3, <3>1, <3>3 DEF ExecuteReturns, ExecuteFails, Pending, Saved
      <4>2. Ahead' = Ahead
        BY <4>1 DEF Ahead
      <4> QED BY <1>0, <3>4, <4>1, <4>2
    <3>2. CASE c \in Pending
      <4>1. Cardinality(Pending') = Cardinality(Pending) - 1
        BY <1>0, <3>2, <3>3, FS_RemoveElement
      <4>2. CASE unpaid' = unpaid + 1
        BY <1>0, <3>4, <4>1, <4>2 DEF Ahead
      <4>3. CASE unpaid' # unpaid + 1
        <5>1. ExecuteReturns(c) /\ c \notin crowd /\ unpaid' = unpaid
          BY <2>3, <3>2, <4>3 DEF ExecuteReturns, ExecuteFails, Counted, Pending
        <5>2. \A d \in Busy : d = c
          BY <5>1 DEF AloneInv, CrowdInv, ExecuteReturns, Busy
        <5>3. Pending' = {}
          BY <3>3, <5>2 DEF Pending, Saved, Busy
        <5>4. Ahead' = unpaid
          BY <1>0, <5>1, <5>3, FS_EmptySet DEF Ahead
        <5> QED BY <1>0, <3>4, <5>1, <5>4
      <4> QED BY <4>2, <4>3
    <3> QED BY <3>1, <3>2
  <2> QED BY <1>4, <2>1, <2>2, <2>3 DEF Opener
<1> QED BY <1>0, <1>2, <1>3, <1>4 DEF Next

LEMMA SavedHeld ==
    ASSUME Basis, NEW c \in Openers, SavePosition(c)
    PROVE  /\ Cardinality(Held') = Cardinality(Held) + 1
           /\ UNCHANGED <<account, trades, loose, unpaid, crowd>>
<1> DEFINE n == Cardinality(Created) + 1
<1>1. n \in Ids /\ n \notin Created /\ pos \in PosType
  BY NextPosition DEF SavePosition, Basis, Stable, TypeOK, PosType
<1>2. pos' = [pos EXCEPT ![n] = [status |-> "OPEN", price |-> Market, pnl |-> 0]]
  BY DEF SavePosition
<1>3. UNCHANGED <<account, trades, loose, unpaid, crowd>>
  BY DEF SavePosition
<1> HIDE DEF n
<1>4. \A p \in Ids : p # n => pos'[p] = pos[p]
  BY <1>1, <1>2 DEF PosType
<1>5. pos'[n].status = "OPEN" /\ pos[n].status = "none"
  BY <1>1, <1>2 DEF PosType, Created
<1>6. Held' = Held \cup {n} /\ n \notin Held
  BY <1>1, <1>4, <1>5 DEF Held, Created, Exists
<1> QED BY <1>3, <1>6, HeldType, FS_AddElement

\* A new account has nothing to explain.
LEMMA LedgerNew ==
    ASSUME Basis, IdsInv, [Next]_vars, Enable \/ Reset
    PROVE  /\ Explains(account', Ahead', Cardinality(Held'), trades', loose')
           /\ \A c \in Openers : call'[c].copy.id # account'.id
           /\ task'.copy.id # account'.id /\ admin'.copy.id # account'.id
<1>0. /\ account.id \in Nat /\ task.copy.id \in Nat /\ admin.copy.id \in Nat
      /\ \A c \in Openers : call[c].copy.id \in Nat
  BY PaperAssumption DEF Basis, Stable, TypeOK, Accounts
<1>1. UNCHANGED <<call, task, admin>> /\ account' = NewAccount(account.id + 1)
  <2>1. CASE Enable
    <3>1. account.id = 0
      BY <2>1 DEF Enable, NoAccount
    <3>2. account.id + 1 = 1
      BY <3>1
    <3> QED BY <2>1, <3>2 DEF Enable
  <2>2. CASE Reset
    BY <2>2 DEF Reset
  <2> QED BY <2>1, <2>2
<1>2. Held' = {} /\ trades' = <<>> /\ loose' = {}
  <2>1. CASE Enable
    <3>1. Created = {} /\ trades = <<>>
      BY <2>1 DEF Enable, NoAccount, Basis, AloneInv
    <3>2. UNCHANGED <<pos, trades, loose>> /\ loose \subseteq DOMAIN trades
      BY <2>1 DEF Enable, counts, Basis, Stable, TypeOK
    <3> QED BY <3>1, <3>2 DEF Held, Created
  <2>2. CASE Reset
    <3>1. pos' = [p \in Ids |-> IF p \in Created THEN Deleted ELSE pos[p]]
          /\ trades' = <<>> /\ loose' = {}
      BY <2>2 DEF Reset
    <3> QED BY <3>1 DEF Held, Created, Exists, Deleted, NoPosition
  <2> QED BY <2>1, <2>2
<1>3. Ahead' \in Nat
  <2>1. unpaid' \in Nat
    BY StableStep DEF Basis, Stable, TypeOK
  <2>2. IsFiniteSet(Pending')
    BY PaperAssumption, FS_Subset DEF Pending
  <2>3. Cardinality(Pending') \in Nat
    BY <2>2, FS_CardinalityType
  <2> QED BY <2>1, <2>3 DEF Ahead
<1>4. Cardinality(Held') = 0
  BY <1>2, FS_EmptySet
<1>5. account'.capital = Starting /\ account'.trades = 0 /\ account'.id = account.id + 1
  BY <1>1 DEF NewAccount
<1>6. Explains(account', Ahead', Cardinality(Held'), trades', loose')
  BY <1>2, <1>3, <1>4, <1>5, NewExplains
<1>7. /\ \A c \in Openers : call[c].copy.id # account.id + 1
      /\ task.copy.id # account.id + 1 /\ admin.copy.id # account.id + 1
  BY <1>0 DEF IdsInv
<1> QED BY <1>1, <1>5, <1>6, <1>7

\* A call that is alone writes its own copy, and no other has one.
LEMMA OthersIdle ==
    ASSUME Stable, AloneInv, NEW c \in Busy, c \notin crowd
    PROVE  /\ \A d \in Openers : d # c => call[d].copy.id = 0
           /\ c # "task" => task.copy.id = 0
           /\ c # "admin" => admin.copy.id = 0
<1>1. \A d \in Busy : d = c
  BY DEF AloneInv, CrowdInv
<1> QED BY <1>1, Constants DEF Busy, Stable, TypeOK

LEMMA LedgerReturn ==
    ASSUME Basis, LedgerInv, [Next]_vars, account'.id # 0, NEW c \in Openers, c \notin crowd,
           ExecuteReturns(c), Ahead' = unpaid, ~Enable, ~Reset
    PROVE  /\ Explains(account', Ahead', Cardinality(Held'), trades', loose')
           /\ \A d \in Openers : call'[d].copy.id = 0
           /\ task'.copy.id = 0 /\ admin'.copy.id = 0
<1>0. c \in Busy /\ call[c].at # "idle" /\ account \in Accounts
      /\ call \in [Openers -> [at : Stages, copy : Accounts]]
  BY DEF ExecuteReturns, Busy, Basis, Stable, TypeOK
<1>1. call[c].copy.id = account.id /\ account'.id = account.id
  BY <1>0, SameAccount DEF Basis, OwnInv
<1>2. account' = call[c].copy /\ call' = [call EXCEPT ![c] = Idle] /\ UNCHANGED <<task, admin>>
  BY <1>1 DEF ExecuteReturns, UpdateAccount
<1>3. Explains(call[c].copy, unpaid, Cardinality(Held), trades, loose)
  BY <1>1 DEF LedgerInv
<1>4. Explains(call[c].copy, Ahead', Cardinality(Held'), trades', loose')
  <2>1. \A d \in Openers : ~SavePosition(d)
    <3>1. c \notin crowd'
      BY DEF ExecuteReturns, Ends
    <3>2. ASSUME NEW d \in Openers, SavePosition(d) PROVE FALSE
      <4>1. call[d].at = "save" /\ call'[d].at = "heat"
        BY <3>2, Saves DEF Basis
      <4>2. d = c
        BY <1>0, <1>2, <4>1
      <4> QED BY <1>0, <1>2, <4>1, <4>2 DEF Idle
    <3> QED BY <3>2
  <2>2. unpaid \in Nat /\ call[c].copy \in Accounts
    BY <1>0 DEF Basis, Stable, TypeOK
  <2>3. ~DisableCommits
    BY <1>0, <1>2 DEF DisableCommits, Idle
  <2> QED BY <1>3, <2>1, <2>2, <2>3, LedgerKept
<1>5. \A d \in Openers : call'[d].copy.id = 0
  BY <1>0, <1>2, OthersIdle DEF Basis, Idle, NoAccount
<1>6. task.copy.id = 0 /\ admin.copy.id = 0
  BY <1>0, OthersIdle, Constants DEF Basis
<1> QED BY <1>2, <1>4, <1>5, <1>6

LEMMA LedgerCommit ==
    ASSUME Basis, LedgerInv, [Next]_vars, account'.id # 0, DisableCommits, ~Enable, ~Reset
    PROVE  /\ Explains(account', Ahead', Cardinality(Held'), trades', loose')
           /\ admin'.copy.id = 0
           /\ "admin" \notin crowd => /\ \A d \in Openers : call'[d].copy.id = 0
                                      /\ task'.copy.id = 0
<1>0. /\ admin.copy \in Accounts /\ admin.listed \in Seq(Trades) /\ trades \in Seq(Trades)
      /\ loose \in SUBSET DOMAIN trades /\ admin.at # "idle"
      /\ \A i \in DOMAIN admin.listed : admin.listed[i].by = "admin"
      /\ UNCHANGED <<call, task, unpaid>> /\ admin' = AdminIdle
      /\ trades' = trades \o admin.listed
  BY DEF DisableCommits, Basis, Stable, TypeOK, Form, ListedInv
<1>1. admin.copy.id = account.id /\ account'.id = account.id
  BY <1>0, SameAccount DEF Basis, ListedInv
<1>2. account' = Credit(admin.copy, admin.listed)
  <2>1. Credit(admin.copy, admin.listed).id = account.id
    BY <1>0, <1>1, CreditType
  <2> QED BY <2>1 DEF DisableCommits, UpdateAccount
<1>3. Ahead' = Ahead
  <2>1. Pending' = Pending
    BY <1>0 DEF Pending, Saved
  <2> QED BY <1>0, <2>1 DEF Ahead
<1>4. Held' = Held
  <2>1. \A d \in Openers : ~SavePosition(d)
    BY <1>0, Saves DEF Basis
  <2> QED BY <2>1, HeldSteps DEF Basis
<1>5. Ahead \in Nat /\ Cardinality(Held) \in Nat
  BY PendingType, HeldType DEF Basis, Stable, TypeOK
<1>6. Explains(admin.copy, Ahead, Cardinality(Held), trades, loose)
  BY <1>1 DEF LedgerInv
<1>7. Explains(account', Ahead, Cardinality(Held), trades', loose)
  BY <1>0, <1>2, <1>5, <1>6, CommitExplains
<1>8. loose \subseteq loose'
  BY DEF DisableCommits
<1>9. Explains(account', Ahead', Cardinality(Held'), trades', loose')
  BY <1>3, <1>4, <1>5, <1>7, <1>8, MoreExplains
<1>10. ASSUME "admin" \notin crowd
       PROVE  (\A d \in Openers : call'[d].copy.id = 0) /\ task'.copy.id = 0
  <2>1. "admin" \in Busy
    BY <1>0 DEF Busy
  <2> QED BY <1>0, <1>10, <2>1, OthersIdle, Constants DEF Basis
<1> QED BY <1>0, <1>9, <1>10 DEF AdminIdle, NoAccount

\* What the copy of a call, and of the account, may lack.
Lack(c) == IF c \in crowd THEN Ahead ELSE unpaid

LEMMA LedgerCalls ==
    ASSUME Basis, LedgerInv, [Next]_vars, ~Enable, ~Reset, account.id # 0, Ahead <= Ahead',
           ~(DisableCommits /\ "admin" \notin crowd),
           NEW c \in Openers, call'[c].copy.id = account.id
    PROVE  Explains(call'[c].copy, Lack(c)', Cardinality(Held'), trades', loose')
<1>0. /\ unpaid \in Nat /\ unpaid' \in Nat /\ Ahead \in Nat /\ Ahead' \in Nat
      /\ unpaid <= Ahead /\ unpaid' <= Ahead' /\ unpaid <= unpaid'
      /\ (\E d \in Openers : SavePosition(d)) => Ahead' = Ahead + 1
      /\ account \in Accounts /\ call[c].copy \in Accounts
  BY AheadSteps DEF Basis, Stable, TypeOK
<1>1. /\ Lack(c) \in Nat /\ Lack(c)' \in Nat /\ Lack(c) <= Ahead
      /\ call[c].copy.id = account.id =>
            Explains(call[c].copy, Lack(c), Cardinality(Held), trades, loose)
  BY <1>0 DEF LedgerInv, Lack
<1>2. c \in Busy' /\ (c \notin crowd' => c \notin crowd)
  <2>1. c \in Busy'
    <3>1. Stable'
      BY StableStep DEF Basis
    <3> QED BY <1>0, <3>1 DEF Stable, TypeOK, Busy
  <2> QED BY <2>1, Joins DEF Basis
<1>3. CASE ExecuteSignal(c) /\ call'[c] = [at |-> "save", copy |-> account]
  <2>1. CASE c \in crowd'
    BY <1>0, <1>3, <2>1, LedgerKept DEF LedgerInv, Lack
  <2>2. CASE c \notin crowd'
    <3>1. Busy = {}
      BY <1>3, <2>2 DEF ExecuteSignal, Begins
    <3>2. Pending = {} /\ \A d \in Openers : ~SavePosition(d)
      BY <3>1 DEF Busy, Pending, Saved, SavePosition
    <3>3. Ahead = unpaid
      BY <1>0, <3>2, FS_EmptySet DEF Ahead
    <3> QED BY <1>0, <1>3, <2>2, <3>2, <3>3, LedgerKept DEF LedgerInv, Lack
  <2> QED BY <2>1, <2>2
<1>4. CASE /\ SavePosition(c) /\ call'[c].at = "heat"
           /\ call'[c].copy.id = call[c].copy.id /\ call'[c].copy.equity = call[c].copy.equity
           /\ call'[c].copy.capital = call[c].copy.capital - Cost
           /\ call'[c].copy.trades = call[c].copy.trades
  <2>1. Cardinality(Held') = Cardinality(Held) + 1 /\ UNCHANGED <<trades, loose, unpaid, crowd>>
    BY <1>4, SavedHeld
  <2>2. Lack(c) <= Lack(c)'
    BY <1>0, <2>1 DEF Lack
  <2>3. Cardinality(Held) \in Nat /\ trades \in Seq(Trades)
    BY HeldType DEF Basis, Stable, Form
  <2>4. Explains(call'[c].copy, Lack(c), Cardinality(Held) + 1, trades, loose)
    BY <1>1, <1>4, <2>3, SavedExplains
  <2> QED BY <1>1, <2>1, <2>2, <2>4, MoreExplains
<1>5. CASE /\ call'[c].copy.id = call[c].copy.id /\ ~SavePosition(c)
           /\ call'[c].copy.capital = call[c].copy.capital
           /\ call'[c].copy.trades = call[c].copy.trades
  <2>1. Lack(c) <= Lack(c)' /\ ((\E d \in Openers : SavePosition(d)) => Lack(c) + 1 <= Lack(c)')
    <3>1. CASE c \in crowd'
      BY <1>0, <1>1, <3>1 DEF Lack
    <3>2. CASE c \notin crowd'
      <4>1. Lack(c) = unpaid /\ Lack(c)' = unpaid'
        BY <1>2, <3>2 DEF Lack
      <4>2. c \in Busy
        <5>1. account.id \in Nat /\ call[c].copy.id # 0
          BY <1>0, <1>5 DEF Accounts
        <5> QED BY <5>1 DEF Busy, Basis, Stable, TypeOK
      <4>3. \A d \in Openers : ~SavePosition(d)
        <5>1. ASSUME NEW d \in Openers, SavePosition(d) PROVE d = c
          <6>1. d \in Busy
            BY <5>1 DEF SavePosition, Busy
          <6> QED BY <1>2, <3>2, <4>2, <6>1 DEF Basis, AloneInv, CrowdInv
        <5> QED BY <1>5, <5>1
      <4> QED BY <1>0, <4>1, <4>3
    <3> QED BY <3>1, <3>2
  <2>2. Explains(call[c].copy, Lack(c)', Cardinality(Held'), trades', loose')
    BY <1>0, <1>1, <1>5, <2>1, LedgerKept
  <2> QED BY <1>5, <2>2, SameFigures
<1>6. CASE call'[c] = Idle
  BY <1>6 DEF Idle, NoAccount
<1>7. SavePosition(c) => call'[c] # call[c] /\ ~CurrentHeat(c)
  BY Saves DEF Basis, CurrentHeat
<1> QED BY <1>3, <1>4, <1>5, <1>6, <1>7, CallSteps DEF CallStep, Basis

LEMMA LedgerStep == Basis /\ IdsInv /\ LedgerInv /\ [Next]_vars => LedgerInv'
<1> SUFFICES ASSUME Basis, IdsInv, LedgerInv, [Next]_vars, account'.id # 0 PROVE
        /\ Explains(account', Ahead', Cardinality(Held'), trades', loose')
        /\ \A c \in Openers : call'[c].copy.id = account'.id =>
              Explains(call'[c].copy, Lack(c)', Cardinality(Held'), trades', loose')
        /\ task'.copy.id = account'.id =>
              Explains(task'.copy, Ahead', Cardinality(Held'), trades', loose')
        /\ admin'.copy.id = account'.id =>
              Explains(admin'.copy, Ahead', Cardinality(Held'), trades', loose')
  BY DEF LedgerInv, Lack
<1>1. CASE Enable \/ Reset
  BY <1>1, LedgerNew
<1> SUFFICES ASSUME ~Enable, ~Reset PROVE
        /\ Explains(account', Ahead', Cardinality(Held'), trades', loose')
        /\ \A c \in Openers : call'[c].copy.id = account'.id =>
              Explains(call'[c].copy, Lack(c)', Cardinality(Held'), trades', loose')
        /\ task'.copy.id = account'.id =>
              Explains(task'.copy, Ahead', Cardinality(Held'), trades', loose')
        /\ admin'.copy.id = account'.id =>
              Explains(admin'.copy, Ahead', Cardinality(Held'), trades', loose')
  BY <1>1
<1>2. account'.id = account.id
  BY SameAccount DEF Basis
<1>3. CASE \E c \in Openers \ crowd : ExecuteReturns(c) /\ Ahead' = unpaid
  BY <1>3, LedgerReturn
<1>4. CASE DisableCommits /\ "admin" \notin crowd
  BY <1>4, LedgerCommit
<1>5. CASE Ahead <= Ahead' /\ ~(DisableCommits /\ "admin" \notin crowd)
  <2>0. /\ Ahead \in Nat /\ Ahead' \in Nat /\ account \in Accounts /\ task.copy \in Accounts
        /\ admin.copy \in Accounts /\ unpaid \in Nat /\ unpaid <= Ahead
        /\ (\E d \in Openers : SavePosition(d)) => Ahead + 1 <= Ahead'
        /\ \A c \in Openers : call[c].copy \in Accounts
    BY AheadSteps DEF Basis, Stable, TypeOK
  <2>1. ASSUME NEW a \in Accounts, NEW n \in Nat, n <= Ahead,
               Explains(a, n, Cardinality(Held), trades, loose)
        PROVE  Explains(a, Ahead', Cardinality(Held'), trades', loose')
    <3>1. n <= Ahead' /\ ((\E d \in Openers : SavePosition(d)) => n + 1 <= Ahead')
      BY <1>5, <2>0, <2>1
    <3> QED BY <1>5, <2>0, <2>1, <3>1, LedgerKept
  <2>2. Explains(account', Ahead', Cardinality(Held'), trades', loose')
    <3>1. CASE DisableCommits
      BY <3>1, LedgerCommit
    <3>2. CASE account' = account
      BY <1>2, <2>0, <2>1, <3>2 DEF LedgerInv
    <3>3. ASSUME NEW c \in Openers, account' = call[c].copy
          PROVE  Explains(account', Ahead', Cardinality(Held'), trades', loose')
      <4>1. Explains(call[c].copy, Lack(c), Cardinality(Held), trades, loose)
        BY <1>2, <3>3 DEF LedgerInv, Lack
      <4>2. Lack(c) \in Nat /\ Lack(c) <= Ahead
        BY <2>0 DEF Lack
      <4> QED BY <2>0, <2>1, <3>3, <4>1, <4>2
    <3>4. CASE account' = task.copy
      BY <1>2, <2>0, <2>1, <3>4 DEF LedgerInv
    <3> QED BY <3>1, <3>2, <3>3, <3>4, AccountSteps DEF UpdateAccount, Basis
  <2>3. \A c \in Openers : call'[c].copy.id = account'.id =>
           Explains(call'[c].copy, Lack(c)', Cardinality(Held'), trades', loose')
    BY <1>2, <1>5, LedgerCalls
  <2>4. Explains(account, Ahead', Cardinality(Held'), trades', loose')
    BY <1>2, <2>0, <2>1 DEF LedgerInv
  <2>5. ASSUME task'.copy.id = account'.id
        PROVE  Explains(task'.copy, Ahead', Cardinality(Held'), trades', loose')
    <3>1. CASE task'.copy = account
      BY <2>4, <3>1
    <3>2. CASE task'.copy = NoAccount
      BY <2>5, <3>2 DEF NoAccount
    <3>3. CASE /\ task'.copy.id = task.copy.id /\ task'.copy.capital = task.copy.capital
               /\ task'.copy.trades = task.copy.trades
      <4>1. Explains(task.copy, Ahead', Cardinality(Held'), trades', loose')
        BY <1>2, <2>0, <2>1, <2>5, <3>3 DEF LedgerInv
      <4> QED BY <3>3, <4>1, SameFigures
    <3> QED BY <3>1, <3>2, <3>3, TaskCopies DEF Basis
  <2>6. ASSUME admin'.copy.id = account'.id
        PROVE  Explains(admin'.copy, Ahead', Cardinality(Held'), trades', loose')
    <3>1. CASE admin'.copy = account
      BY <2>4, <3>1
    <3>2. CASE admin'.copy = NoAccount
      BY <2>6, <3>2 DEF NoAccount
    <3>3. CASE admin'.copy = admin.copy
      BY <1>2, <2>0, <2>1, <2>6, <3>3 DEF LedgerInv
    <3> QED BY <3>1, <3>2, <3>3, AdminCopies DEF Basis
  <2> QED BY <2>2, <2>3, <2>5, <2>6
<1> QED BY <1>3, <1>4, <1>5, AheadSteps DEF Basis

LEMMA LedgerInit == Init => LedgerInv
BY DEF Init, LedgerInv, NoAccount

\* Between calls the account is the ledger of the positions and of the disables, but for no more
\* than what failures and overlaps may have lost: each writer's copy is, all along.
THEOREM LedgerAlwaysAgrees == Spec => []LedgerAgrees
<1>1. Basis /\ IdsInv /\ [Next]_vars => IdsInv'
  BY IdsStep DEF Basis
<1>2. Basis /\ LedgerInv => LedgerAgrees
  <2> SUFFICES ASSUME Basis, LedgerInv, Busy = {}, account.id # 0
               PROVE  \E n \in 0..unpaid, T \in SUBSET loose : Agrees(account, n, T)
    BY DEF LedgerAgrees
  <2>1. Ahead = unpaid
    <3>1. Pending = {}
      BY DEF Pending, Saved, Busy
    <3> QED BY <3>1, FS_EmptySet DEF Ahead, Basis, Stable, TypeOK
  <2>2. PICK n \in 0..unpaid, T \in SUBSET loose : Fits(account, n, Cardinality(Held), trades, T)
    BY <2>1 DEF LedgerInv, Explains
  <2>3. Agrees(account, n, T)
    BY <2>2 DEF Fits, Agrees, Manual, ManualOf
  <2> QED BY <2>3
<1> QED BY <1>1, <1>2, LedgerStep, LedgerInit, IdsInit, BasisAlways, PTL DEF Spec

-----------------------------------------------------------------------------
(* The heat.                                                               *)

\* The open risk beyond that of positions a check may have missed; and an amount that covers it.
Excess == OpenRisk - unseen * (Entry - Stop)
Backed(r) == Excess <= r

\* A call that will write a risk that counts the positions opened so far.
Counting(c) == call[c].at \in {"heat", "write"} /\ call[c].copy.id = account.id

CopiesInv ==
    /\ account.id # 0 => account.equity <= peak
    /\ \A c \in Openers : call[c].at # "idle" => call[c].copy.equity > 0

\* What the check of a call that is alone was made of still holds when its position is saved.
SaveInv ==
    \A c \in Openers : call[c].at = "save" /\ c \notin crowd =>
        /\ Admits(call[c].copy) /\ call[c].copy.equity <= peak
        /\ call[c].copy.id = account.id /\ Backed(call[c].copy.risk)

\* What is about to be written covers the risk.
WriteInv ==
    /\ \A c \in Openers :
          call[c].at = "write" /\ call[c].copy.id = account.id => Backed(call[c].copy.risk)
    /\ task.at = "write" /\ task.copy.id = account.id /\ task.copy.equity > 0 => Backed(task.copy.risk)

CommitInv ==
    admin.at = "commit" /\ admin.copy.id = account.id => Cardinality(Open \ Listed) <= unseen

\* The account's risk covers it; but for one position, while a call is still to write its own.
RiskInv ==
    account.equity > 0 =>
        /\ Backed(account.risk + (Entry - Stop))
        /\ (\A c \in Openers : ~Counting(c)) => Backed(account.risk)

HeatInv == HeatBounded /\ CopiesInv /\ SaveInv /\ WriteInv /\ CommitInv /\ RiskInv

\* Products with the risk of a position.
LEMMA Products ==
    ASSUME NEW n \in Nat, NEW m \in Nat
    PROVE  /\ n * (Entry - Stop) \in Nat
           /\ (n + 1) * (Entry - Stop) = n * (Entry - Stop) + (Entry - Stop)
           /\ n <= m => n * (Entry - Stop) <= m * (Entry - Stop)
<1> DEFINE k == Entry - Stop
<1>1. k \in Nat
  BY Constants
<1> HIDE DEF k
<1>2. n * k \in Nat /\ (n + 1) * k = n * k + k
  BY <1>1
<1>3. n <= m => n * k <= m * k
  BY <1>1
<1> QED BY <1>2, <1>3 DEF k

LEMMA ExcessType == ASSUME unseen \in Nat PROVE Excess \in Int /\ Excess <= OpenRisk
<1>1. OpenRisk \in Nat /\ unseen * (Entry - Stop) \in Nat
  BY RiskType, Products
<1> QED BY <1>1 DEF Excess

\* How a step changes what is open.
LEMMA OpenSteps ==
    ASSUME Basis, [Next]_vars, ~Reset
    PROVE  \/ Open' \subseteq Open /\ unseen' >= unseen
           \/ /\ unseen' = unseen + 1
              /\ \E p \in Ids \ Open : Open' = Open \cup {p}
           \/ /\ unseen' = unseen
              /\ \E c \in Openers : SavePosition(c) /\ c \notin crowd
              /\ \E p \in Ids \ Open : Open' = Open \cup {p}
<1>0. pos \in PosType /\ unseen \in Nat
  BY DEF Basis, Stable, TypeOK, PosType
<1>1. ASSUME NEW c \in Openers, SavePosition(c)
      PROVE  /\ unseen' = IF c \in crowd THEN unseen + 1 ELSE unseen
             /\ \E p \in Ids \ Open : Open' = Open \cup {p}
  <2> DEFINE n == Cardinality(Created) + 1
  <2>1. n \in Ids /\ n \notin Created
    BY <1>1, NextPosition DEF SavePosition, Basis
  <2>2. /\ pos' = [pos EXCEPT ![n] = [status |-> "OPEN", price |-> Market, pnl |-> 0]]
        /\ unseen' = IF c \in crowd THEN unseen + 1 ELSE unseen
    BY <1>1 DEF SavePosition, Counted
  <2> HIDE DEF n
  <2>3. Open' = Open \cup {n} /\ n \notin Open
    BY <1>0, <2>1, <2>2 DEF Open, Created, PosType
  <2> QED BY <2>1, <2>2, <2>3
<1>2. ASSUME NEW c \in Openers, Opener(c), ~SavePosition(c) PROVE pos' = pos /\ unseen' >= unseen
  <2>1. CASE ExecuteFails(c)
    BY <1>0, <2>1 DEF ExecuteFails, rows
  <2>2. CASE ~ExecuteFails(c)
    <3>1. pos' = pos /\ unseen' = unseen
      BY <1>2, <2>2 DEF Opener, ExecuteSignal, CurrentHeat, ExecuteReturns, rows, history, counts
    <3> QED BY <1>0, <3>1
  <2> QED BY <2>1, <2>2
<1>3. CASE UpdatePosition
  <2>1. task.now \in Created /\ task.now \in Ids
    BY <1>3, Constants DEF UpdatePosition, Basis, Stable, TypeOK, Form
  <2>2. CASE pos[task.now].status = "CLOSED"
    <3>0. "task" \in crowd
      <4>1. task.now # 0
        BY <2>1, Constants
      <4> QED BY <2>2, <4>1 DEF Basis, OwnInv, Open
    <3>1. /\ pos' = [pos EXCEPT ![task.now] = [status |-> "OPEN", price |-> task.price,
                                               pnl |-> Unrealized(task.price)]]
          /\ unseen' = unseen + 1
      BY <1>3, <2>2, <3>0 DEF UpdatePosition, Exists, Counted
    <3>2. Open' = Open \cup {task.now} /\ task.now \notin Open
      BY <1>0, <2>1, <2>2, <3>1 DEF Open, PosType
    <3> QED BY <2>1, <3>1, <3>2
  <2>3. CASE pos[task.now].status # "CLOSED"
    <3>1. Open' = Open
      BY <1>0, <1>3, <2>1, <2>3 DEF UpdatePosition, Exists, Open, Created, PosType
    <3> QED BY <1>0, <1>3, <2>3, <3>1 DEF UpdatePosition, Counted
  <2> QED BY <2>2, <2>3
<1>4. CASE ClosePosition
  BY <1>0, <1>4 DEF ClosePosition, Open, Exists, PosType, Closed, NoPosition, history, counts
<1>5. CASE PassReads \/ PassLists \/ FetchPrice \/ TotalPnl \/ TotalHeat \/ PositionFails \/ PassFails
  <2>1. UNCHANGED <<pos, unseen>>
    BY <1>5 DEF PassReads, PassLists, FetchPrice, TotalPnl, TotalHeat, PositionFails, PassFails,
                rows, history, counts
  <2> QED BY <1>0, <2>1 DEF Open
<1>6. CASE SaveTrade \/ PassWrites
  <2>1. UNCHANGED <<pos, unseen>>
    BY <1>6 DEF SaveTrade, PassWrites, counts
  <2> QED BY <1>0, <2>1 DEF Open
<1>7. CASE Enable \/ DisableReads \/ DisableLists \/ DisableFails
  <2>1. UNCHANGED <<pos, unseen>>
    BY <1>7 DEF Enable, DisableReads, DisableLists, DisableFails, rows, counts
  <2> QED BY <1>0, <2>1 DEF Open
<1>8. CASE DisableCommits
  BY <1>0, <1>8 DEF DisableCommits, Open, Closed, NoPosition
<1>9. CASE UNCHANGED vars
  BY <1>0, <1>9 DEF vars, rows, history, counts, Open
<1>10. CASE \E c \in Openers : Opener(c)
  <2>1. PICK c \in Openers : Opener(c)
    BY <1>10
  <2>2. CASE SavePosition(c)
    BY <1>1, <2>2
  <2>3. CASE ~SavePosition(c)
    BY <1>2, <2>1, <2>3 DEF Open
  <2> QED BY <2>2, <2>3
<1> QED BY <1>3, <1>4, <1>5, <1>6, <1>7, <1>8, <1>9, <1>10 DEF Next, Task, Operator

\* The excess grows when a call opens a position alone, and then by that position's risk.
LEMMA ExcessStep ==
    ASSUME Basis, [Next]_vars, ~Reset
    PROVE  /\ Excess' \in Int /\ Excess \in Int
           /\ \/ Excess' <= Excess
              \/ Excess' = Excess + (Entry - Stop) /\ \E c \in Openers : SavePosition(c) /\ c \notin crowd
<1> DEFINE k == Entry - Stop
           n == Cardinality(Open)
           m == Cardinality(Open')
<1>0. unseen \in Nat /\ unseen' \in Nat /\ k \in Nat /\ n \in Nat /\ m \in Nat
  <2>1. Stable'
    BY StableStep DEF Basis
  <2>2. IsFiniteSet(Open')
    BY Constants, FS_Subset DEF Open
  <2> QED BY <2>1, <2>2, Constants, Counts, FS_CardinalityType DEF Basis, Stable, TypeOK
<1>1. Excess = n * k - unseen * k /\ Excess' = m * k - unseen' * k
  BY DEF Excess, OpenRisk, Entry
<1>2. n * k \in Nat /\ m * k \in Nat /\ unseen * k \in Nat /\ unseen' * k \in Nat
  BY <1>0, Products
<1>3. Open' \subseteq Open => m <= n
  BY Counts, FS_Subset
<1>4. (\E p \in Ids \ Open : Open' = Open \cup {p}) => m = n + 1
  <2> SUFFICES ASSUME NEW p \in Ids \ Open, Open' = Open \cup {p} PROVE m = n + 1
    OBVIOUS
  <2> QED BY Counts, FS_AddElement
<1>5. m <= n => m * k <= n * k
  BY <1>0, Products
<1>6. m = n + 1 => m * k = n * k + k
  BY <1>0, Products
<1>7. unseen' = unseen + 1 => unseen' * k = unseen * k + k
  BY <1>0, Products
<1> HIDE DEF k, n, m
<1>8. CASE Open' \subseteq Open /\ unseen' >= unseen
  <2>1. unseen * k <= unseen' * k
    BY <1>0, <1>8, Products DEF k
  <2>2. m * k <= n * k
    BY <1>3, <1>5, <1>8
  <2>3. Excess' <= Excess /\ Excess' \in Int /\ Excess \in Int
    BY <1>1, <1>2, <2>1, <2>2
  <2> QED BY <2>3
<1>9. CASE unseen' = unseen + 1 /\ \E p \in Ids \ Open : Open' = Open \cup {p}
  BY <1>0, <1>1, <1>2, <1>4, <1>6, <1>7, <1>9
<1>10. CASE /\ unseen' = unseen
            /\ \E c \in Openers : SavePosition(c) /\ c \notin crowd
            /\ \E p \in Ids \ Open : Open' = Open \cup {p}
  <2>1. Excess' = Excess + k
    BY <1>0, <1>1, <1>2, <1>4, <1>6, <1>10
  <2> QED BY <1>1, <1>2, <1>10, <2>1 DEF k
<1> QED BY <1>8, <1>9, <1>10, OpenSteps

\* A call that fails with its position saved leaves one that no check may have seen.
LEMMA FailExcess ==
    ASSUME Basis, NEW c \in Openers, ExecuteFails(c), Saved(c)
    PROVE  Excess' = Excess - (Entry - Stop) /\ Excess \in Int /\ account' = account
<1> DEFINE k == Entry - Stop
<1>1. unseen \in Nat /\ unseen' = unseen + 1 /\ pos' = pos /\ account' = account
  BY DEF ExecuteFails, rows, Basis, Stable, TypeOK
<1>2. Excess = OpenRisk - unseen * k /\ Excess' = OpenRisk - (unseen + 1) * k
  BY <1>1 DEF Excess, OpenRisk, Open, Entry
<1>3. (unseen + 1) * k = unseen * k + k /\ unseen * k \in Nat /\ k \in Nat /\ OpenRisk \in Nat
  BY <1>1, Products, Constants, RiskType
<1> HIDE DEF k
<1>4. Excess' = Excess - k /\ Excess \in Int
  BY <1>2, <1>3
<1> QED BY <1>1, <1>4 DEF k

\* A call that saves its position alone is the only one at work.
LEMMA SoleSave ==
    ASSUME Basis, HeatInv, NEW c \in Openers, SavePosition(c), c \notin crowd
    PROVE  /\ \A d \in Openers \ {c} : call[d].at = "idle"
           /\ task.at = "idle" /\ admin.at = "idle"
           /\ Admits(call[c].copy) /\ call[c].copy.equity <= peak
           /\ call[c].copy.id = account.id /\ Backed(call[c].copy.risk)
<1>1. c \in Busy \ crowd
  BY DEF SavePosition, Busy
<1>2. \A d \in Busy : d = c
  BY <1>1 DEF Basis, AloneInv, CrowdInv
<1> QED BY <1>2, Constants DEF Busy, HeatInv, SaveInv, SavePosition

\* Before the first account there is no excess.
LEMMA NoAccountExcess == ASSUME Basis, Enable PROVE Busy = {} /\ Excess <= 0 /\ Excess' <= 0
<1>1. Busy = {} /\ Created = {}
  BY DEF Enable, NoAccount, Basis, AloneInv
<1>2. Open = {} /\ Open' = {}
  BY <1>1 DEF Enable, Open, Created
<1>3. OpenRisk = 0 /\ OpenRisk' = 0
  <2>1. Entry - Stop \in Nat
    BY Constants
  <2>2. Cardinality(Open) = 0 /\ Cardinality(Open') = 0
    BY <1>2, FS_EmptySet
  <2> QED BY <2>1, <2>2 DEF OpenRisk
<1>4. unseen \in Nat /\ unseen' = unseen
  BY DEF Basis, Stable, TypeOK, Enable, counts
<1>5. unseen * (Entry - Stop) \in Nat /\ unseen' * (Entry - Stop) \in Nat
  BY <1>4, Products
<1>6. Excess = 0 - unseen * (Entry - Stop) /\ Excess' = 0 - unseen' * (Entry - Stop)
  BY <1>3 DEF Excess, Entry
<1> QED BY <1>1, <1>5, <1>6

LEMMA ResetExcess == ASSUME Basis, Reset PROVE Excess' = 0
<1>1. Open' = {} /\ unseen' = 0
  BY DEF Reset, Open, Created, Deleted, NoPosition, Basis, Stable, TypeOK
<1>2. Cardinality(Open') = 0 /\ Entry - Stop \in Nat
  BY <1>1, FS_EmptySet, Constants
<1>3. OpenRisk' = 0 /\ unseen' * (Entry - Stop) = 0
  BY <1>1, <1>2 DEF OpenRisk, Entry
<1>4. Excess' = OpenRisk' - unseen' * (Entry - Stop)
  BY DEF Excess, Entry
<1> QED BY <1>3, <1>4

\* The highest equity only grows, with the account's, until a new account is created.
LEMMA PeakStep ==
    ASSUME Stable, HeatInv, [Next]_vars
    PROVE  /\ account'.id # 0 => account'.equity <= peak'
           /\ Enable \/ Reset \/ peak <= peak'
<1> USE DEF Basis
<1>0. account \in Accounts /\ peak \in Int /\ account.equity \in Int
      /\ (account.id # 0 => account.equity <= peak)
  BY DEF Stable, TypeOK, Accounts, HeatInv, CopiesInv
<1>1. ASSUME NEW a \in Accounts, UpdateAccount(a)
      PROVE  peak <= peak' /\ (account'.id # 0 => account'.equity <= peak')
  BY <1>0, <1>1 DEF UpdateAccount, Highest, Accounts
<1>2. CASE UNCHANGED <<account, peak>>
  BY <1>0, <1>2
<1>3. CASE \E c \in Openers : ExecuteReturns(c) /\ UpdateAccount(call[c].copy)
  <2>1. PICK c \in Openers : UpdateAccount(call[c].copy)
    BY <1>3
  <2>2. call[c].copy \in Accounts
    BY DEF Stable, TypeOK
  <2> QED BY <1>1, <2>1, <2>2
<1>4. CASE PassWrites /\ UpdateAccount(task.copy)
  BY <1>1, <1>4 DEF Stable, TypeOK
<1>5. CASE DisableCommits /\ UpdateAccount(Credit(admin.copy, admin.listed))
  <2>1. Credit(admin.copy, admin.listed) \in Accounts
    BY CreditType DEF Stable, TypeOK, Form
  <2> QED BY <1>1, <1>5, <2>1
<1>6. CASE Enable \/ Reset
  BY <1>6, Constants DEF Enable, Reset, NewAccount
<1> QED BY <1>2, <1>3, <1>4, <1>5, <1>6, AccountSteps

LEMMA CopiesStep == Basis /\ HeatInv /\ [Next]_vars => CopiesInv'
<1> SUFFICES ASSUME Basis, HeatInv, [Next]_vars PROVE CopiesInv'
  OBVIOUS
<1>1. ASSUME NEW c \in Openers, call'[c].at # "idle" PROVE call'[c].copy.equity > 0
  <2>1. call[c].at # "idle" => call[c].copy.equity > 0
    BY DEF HeatInv, CopiesInv
  <2>2. CASE call'[c] = call[c]
    BY <1>1, <2>1, <2>2
  <2>3. CASE ExecuteSignal(c) /\ call'[c] = [at |-> "save", copy |-> account]
    BY <2>3 DEF ExecuteSignal, Admits
  <2>4. CASE call'[c].copy.equity = call[c].copy.equity /\ call[c].at # "idle"
    BY <2>1, <2>4
  <2>5. CASE call'[c] = Idle
    BY <1>1, <2>5 DEF Idle
  <2> QED BY CallSteps, <2>2, <2>3, <2>4, <2>5 DEF CallStep, SavePosition, CurrentHeat, Basis
<1> QED BY <1>1, PeakStep DEF CopiesInv, Basis

\* Unless a call saves its position alone, what covered the excess still does.
LEMMA ExcessKept ==
    ASSUME Basis, HeatInv, [Next]_vars, ~Reset,
           \A c \in Openers : SavePosition(c) => c \in crowd
    PROVE  Excess' <= Excess /\ Excess' \in Int /\ Excess \in Int
BY ExcessStep

LEMMA BoundStep == Basis /\ IdsInv /\ HeatInv /\ [Next]_vars => HeatBounded'
<1> USE DEF Basis
<1> SUFFICES ASSUME Basis, IdsInv, HeatInv, [Next]_vars PROVE HeatBounded'
  OBVIOUS
<1>0. /\ HeatLimit \in Nat /\ Slippage \in Nat /\ Starting \in Nat /\ Market \in Int /\ Stop \in Int
      /\ peak \in Int /\ peak' \in Int
  <2>1. Stable'
    BY StableStep
  <2> QED BY <2>1, PaperAssumption DEF Stable, TypeOK
<1>1. HeatBounded <=> (Excess - Slippage) * 100 <= HeatLimit * peak
  BY DEF HeatBounded, Excess
<1>2. (Excess' - Slippage) * 100 <= HeatLimit * peak' => HeatBounded'
  BY DEF HeatBounded, Excess, Entry
<1>3. \A e \in Int, x \in Int : e <= x => HeatLimit * e \in Int /\ HeatLimit * x \in Int /\ HeatLimit * e <= HeatLimit * x
  BY <1>0
<1>4. CASE Enable \/ Reset
  <2>1. peak' = Starting
    BY <1>4 DEF Enable, Reset
  <2>2. Excess' <= 0 /\ Excess' \in Int
    <3>1. Excess' \in Int
      BY <1>4, ResetExcess, ExcessStep
    <3> QED BY <1>4, <3>1, ResetExcess, NoAccountExcess
  <2>3. HeatLimit * Starting \in Nat
    BY <1>0
  <2> DEFINE e == Excess'
             x == e - Slippage
  <2> HIDE DEF e
  <2>4. x \in Int /\ x <= 0
    <3>1. e \in Int /\ e <= 0
      BY <2>2 DEF e
    <3> QED BY <1>0, <3>1
  <2> HIDE DEF x
  <2>5. x * 100 <= HeatLimit * Starting
    BY <2>3, <2>4
  <2> QED BY <1>2, <2>1, <2>5 DEF x, e
<1>5. CASE ~Enable /\ ~Reset
  <2>1. peak <= peak'
    BY <1>5, PeakStep
  <2>2. HeatLimit * peak \in Int /\ HeatLimit * peak' \in Int /\ HeatLimit * peak <= HeatLimit * peak'
    BY <1>0, <1>3, <2>1
  <2>3. Excess \in Int /\ Excess' \in Int
    BY <1>5, ExcessStep
  <2>4. CASE Excess' <= Excess
    <3>1. (Excess - Slippage) * 100 <= HeatLimit * peak
      BY <1>1 DEF HeatInv
    <3> DEFINE d == Excess
               e == Excess'
               x == d - Slippage
               y == e - Slippage
    <3> HIDE DEF d, e
    <3>2. x \in Int /\ y \in Int /\ y <= x
      <4>1. d \in Int /\ e \in Int /\ e <= d
        BY <2>3, <2>4 DEF d, e
      <4> QED BY <1>0, <4>1
    <3>3. x * 100 <= HeatLimit * peak
      BY <3>1 DEF d
    <3> HIDE DEF x, y
    <3>4. y * 100 <= HeatLimit * peak'
      BY <2>2, <3>2, <3>3
    <3> QED BY <1>2, <3>4 DEF y, e
  <2>5. CASE Excess' = Excess + (Entry - Stop) /\ \E c \in Openers : SavePosition(c) /\ c \notin crowd
    <3>1. PICK c \in Openers : SavePosition(c) /\ c \notin crowd
      BY <2>5
    <3> DEFINE a == call[c].copy
    <3>2. a \in Accounts /\ Admits(a) /\ a.equity <= peak /\ Excess <= a.risk
      BY <3>1, SoleSave DEF Stable, TypeOK, Backed
    <3>3. a.equity \in Int /\ a.risk \in Int /\ (a.risk + Market - Stop) * 100 <= HeatLimit * a.equity
      BY <3>2 DEF Accounts, Admits
    <3> HIDE DEF a
    <3>4. HeatLimit * a.equity \in Int /\ HeatLimit * a.equity <= HeatLimit * peak
      BY <1>0, <1>3, <3>2, <3>3
    <3> DEFINE d == Excess
               e == Excess'
               x == a.risk + Market - Stop
               y == e - Slippage
    <3> HIDE DEF d, e
    <3>5. x \in Int /\ y \in Int /\ y <= x
      <4>1. e = d + (Market + Slippage - Stop) /\ d \in Int /\ d <= a.risk
        <5>1. e = d + (Market + Slippage - Stop)
          <6>1. e = d + (Entry - Stop)
            BY <2>5 DEF d, e
          <6>2. Entry - Stop = Market + Slippage - Stop
            BY <1>0 DEF Entry
          <6> QED BY <6>1, <6>2
        <5>2. d \in Int /\ d <= a.risk
          BY <2>3, <3>2 DEF d
        <5> QED BY <5>1, <5>2
      <4> QED BY <1>0, <3>3, <4>1
    <3>6. x * 100 <= HeatLimit * a.equity
      BY <3>3
    <3> HIDE DEF x, y
    <3>7. y * 100 <= HeatLimit * peak'
      BY <2>2, <3>4, <3>5, <3>6
    <3> QED BY <1>2, <3>7 DEF y, e
  <2> QED BY <1>5, <2>4, <2>5, ExcessStep
<1> QED BY <1>4, <1>5

LEMMA SaveStep == Basis /\ IdsInv /\ HeatInv /\ [Next]_vars => SaveInv'
<1> USE DEF Basis
<1> SUFFICES ASSUME Basis, IdsInv, HeatInv, [Next]_vars,
                    NEW c \in Openers, call'[c].at = "save", c \notin crowd'
             PROVE  /\ Admits(call'[c].copy) /\ call'[c].copy.equity <= peak'
                    /\ call'[c].copy.id = account'.id /\ Excess' <= call'[c].copy.risk
  BY DEF SaveInv, Backed, Admits
<1>1. CASE ExecuteSignal(c) /\ call'[c] = [at |-> "save", copy |-> account]
  <2>1. Busy = {} /\ UNCHANGED <<account, pos, unseen, peak>> /\ Admits(account) /\ Readable
    BY <1>1 DEF ExecuteSignal, Begins, rows, counts
  <2>2. \A d \in Openers : ~Counting(d)
    BY <2>1 DEF Busy, Counting
  <2>3. Excess <= account.risk
    BY <2>1, <2>2 DEF HeatInv, RiskInv, Backed, Admits
  <2>4. Excess' = Excess
    BY <2>1 DEF Excess, OpenRisk, Open
  <2>5. account.equity <= peak
    BY <2>1 DEF Readable, HeatInv, CopiesInv
  <2> QED BY <1>1, <2>1, <2>3, <2>4, <2>5
<1>2. CASE call'[c] = call[c]
  <2>1. c \in Busy /\ c \in Busy' /\ call[c].at = "save"
    BY <1>2 DEF Busy
  <2>2. ~Reset /\ ~Enable
    <3>1. ~Reset
      BY <2>1 DEF Reset
    <3> QED BY <2>1, <3>1, NoAccountExcess
  <2>3. c \notin crowd
    BY <2>1, Joins
  <2>4. /\ Admits(call[c].copy) /\ call[c].copy.equity <= peak
        /\ call[c].copy.id = account.id /\ Excess <= call[c].copy.risk
    BY <2>1, <2>3 DEF HeatInv, SaveInv, Backed
  <2>5. \A d \in Openers : SavePosition(d) => d \in crowd
    <3>1. ~SavePosition(c)
      BY <1>2, Saves
    <3> QED BY <2>1, <3>1, SoleSave
  <2>6. Excess' <= Excess /\ Excess' \in Int /\ Excess \in Int
    BY <2>2, <2>5, ExcessKept
  <2>7. peak <= peak' /\ account'.id = account.id
    BY <2>2, PeakStep, SameAccount
  <2>8. peak \in Int /\ peak' \in Int /\ call[c].copy.equity \in Int /\ call[c].copy.risk \in Int
    <3>1. Stable'
      BY StableStep
    <3> QED BY <3>1 DEF Stable, TypeOK, Accounts
  <2> QED BY <1>2, <2>4, <2>6, <2>7, <2>8
<1> QED BY <1>1, <1>2, CallSteps DEF CallStep, Idle

LEMMA WriteStep == Basis /\ IdsInv /\ HeatInv /\ [Next]_vars => WriteInv'
<1> USE DEF Basis
<1> SUFFICES ASSUME Basis, IdsInv, HeatInv, [Next]_vars PROVE WriteInv'
  OBVIOUS
<1>1. unseen \in Nat /\ account.id \in Nat /\ OpenRisk \in Nat
  BY PaperAssumption, RiskType DEF Stable, TypeOK, Accounts
<1>2. ASSUME NEW c \in Busy, NEW a \in Accounts, a.id = account'.id, a.id <= account.id,
             \A d \in Openers : SavePosition(d) => d \in crowd
      PROVE  account'.id = account.id /\ Excess' <= Excess /\ Excess' \in Int /\ Excess \in Int
  <2>1. ~Reset
    BY <1>1, <1>2 DEF Reset, NewAccount
  <2>2. ~Enable
    BY <1>2, NoAccountExcess
  <2>3. account'.id = account.id
    BY <2>1, <2>2, SameAccount
  <2>4. Excess' <= Excess /\ Excess' \in Int /\ Excess \in Int
    BY <1>2, <2>1, ExcessKept
  <2> QED BY <2>3, <2>4
<1>3. ASSUME NEW c \in Openers, call'[c].at = "write", call'[c].copy.id = account'.id
      PROVE  Excess' <= call'[c].copy.risk
  <2>0. call[c].copy \in Accounts /\ call[c].copy.id <= account.id /\ call[c].copy.risk \in Nat
    BY DEF Stable, TypeOK, Accounts, IdsInv
  <2>1. CASE CurrentHeat(c) /\ call'[c].copy.risk = CurrentRisk(call[c].copy.equity)
    <3>1. call[c].copy.equity > 0
      BY <2>1 DEF CurrentHeat, HeatInv, CopiesInv
    <3>2. Excess' = Excess
      BY <2>1 DEF CurrentHeat, rows, history, counts, Excess, OpenRisk, Open
    <3> QED BY <1>1, <2>1, <3>1, <3>2, ExcessType DEF CurrentRisk
  <2>2. CASE call'[c] = call[c]
    <3>1. c \in Busy /\ call[c].at = "write"
      BY <1>3, <2>2 DEF Busy
    <3>2. \A d \in Openers : SavePosition(d) => d \in crowd
      BY <3>1, SoleSave DEF SavePosition
    <3>3. Excess' <= Excess /\ Excess' \in Int /\ Excess \in Int /\ account'.id = account.id
      BY <1>2, <1>3, <2>0, <2>2, <3>1, <3>2
    <3>4. Excess <= call[c].copy.risk
      BY <1>3, <2>2, <3>1, <3>3 DEF HeatInv, WriteInv, Backed
    <3> QED BY <2>0, <2>2, <3>3, <3>4
  <2> QED BY <1>3, <2>1, <2>2, CallSteps DEF CallStep, Idle
<1>4. ASSUME task'.at = "write", task'.copy.id = account'.id, task'.copy.equity > 0
      PROVE  Excess' <= task'.copy.risk
  <2>0. /\ task.copy \in Accounts /\ task.copy.id <= account.id /\ task.copy.risk \in Nat
        /\ DOMAIN task = {"at", "copy", "todo", "now", "price"}
    BY DEF Stable, TypeOK, Accounts, IdsInv, Form
  <2>1. CASE TotalHeat
    <3>1. task'.copy.risk = CurrentRisk(task.copy.equity) /\ task'.copy.equity = task.copy.equity
      BY <2>0, <2>1 DEF TotalHeat, Accounts
    <3>2. Excess' = Excess
      BY <2>1 DEF TotalHeat, rows, history, counts, Excess, OpenRisk, Open
    <3> QED BY <1>1, <1>4, <3>1, <3>2, ExcessType DEF CurrentRisk
  <2>2. CASE task' = task
    <3>1. "task" \in Busy
      BY <1>4, <2>2 DEF Busy
    <3>2. \A d \in Openers : SavePosition(d) => d \in crowd
      BY <1>4, <2>2, SoleSave
    <3>3. Excess' <= Excess /\ Excess' \in Int /\ Excess \in Int /\ account'.id = account.id
      BY <1>2, <1>4, <2>0, <2>2, <3>1, <3>2
    <3>4. Excess <= task.copy.risk
      BY <1>4, <2>2, <3>3 DEF HeatInv, WriteInv, Backed
    <3> QED BY <2>0, <2>2, <3>3, <3>4
  <2>3. TotalHeat \/ task' = task
    <3>1. CASE PassReads
      BY <1>4, <2>0, <3>1 DEF PassReads
    <3>2. CASE PassLists
      <4>1. task' = TaskIdle \/ task' = [task EXCEPT !.at = "next", !.todo = Open]
        BY <3>2 DEF PassLists
      <4>2. CASE task' = TaskIdle
        BY <1>4, <4>2 DEF TaskIdle
      <4>3. CASE task' = [task EXCEPT !.at = "next", !.todo = Open]
        BY <1>4, <2>0, <4>3
      <4> QED BY <4>1, <4>2, <4>3
    <3>3. CASE FetchPrice
      BY <1>4, <2>0, <3>3 DEF FetchPrice
    <3>4. CASE UpdatePosition
      BY <1>4, <2>0, <3>4 DEF UpdatePosition, TaskNext
    <3>5. CASE SaveTrade
      BY <1>4, <2>0, <3>5 DEF SaveTrade, TaskIdle
    <3>6. CASE ClosePosition
      BY <1>4, <2>0, <3>6 DEF ClosePosition, TaskNext
    <3>7. CASE TotalPnl
      BY <1>4, <2>0, <3>7 DEF TotalPnl
    <3>8. CASE PassWrites
      BY <1>4, <3>8 DEF PassWrites, TaskIdle
    <3>9. CASE UNCHANGED vars
      BY <3>9 DEF vars
    <3>10. CASE PositionFails \/ PassFails
      <4>1. CASE PositionFails
        BY <1>4, <2>0, <4>1 DEF PositionFails, TaskNext
      <4>2. CASE PassFails
        BY <1>4, <4>2 DEF PassFails, TaskIdle
      <4> QED BY <3>10, <4>1, <4>2
    <3> QED BY <3>1, <3>2, <3>3, <3>4, <3>5, <3>6, <3>7, <3>8, <3>9, <3>10, OpenerFrame, OperatorFrame
            DEF Next, Task
  <2> QED BY <2>1, <2>2, <2>3
<1> QED BY <1>3, <1>4 DEF WriteInv, Backed

LEMMA CommitStep == Basis /\ IdsInv /\ HeatInv /\ [Next]_vars => CommitInv'
<1> USE DEF Basis
<1> SUFFICES ASSUME Basis, IdsInv, HeatInv, [Next]_vars,
                    admin'.at = "commit", admin'.copy.id = account'.id
             PROVE  Cardinality(Open' \ Listed') <= unseen'
  BY DEF CommitInv
<1>0. /\ DOMAIN admin = {"at", "copy", "listed"} /\ unseen \in Nat /\ unseen' \in Nat
      /\ admin.copy.id <= account.id /\ account.id \in Nat
  <2>1. Stable'
    BY StableStep
  <2> QED BY <2>1 DEF Stable, TypeOK, Form, IdsInv, Accounts
<1>1. CASE DisableLists
  <2>5. Open' = Open
    BY <1>1 DEF DisableLists, rows, Open
  <2>6. Open' \ Listed' = {}
    BY <1>1, <2>5, ListsOpen
  <2> QED BY <1>0, <2>6, FS_EmptySet
<1>2. CASE admin' = admin
  <2>1. admin.at = "commit" /\ "admin" \in Busy /\ Listed' = Listed
    BY <1>2 DEF Busy, Listed
  <2>2. ~Reset /\ ~Enable
    BY <2>1, NoAccountExcess DEF Reset
  <2>3. account'.id = account.id
    BY <2>2, SameAccount
  <2>4. Cardinality(Open \ Listed) <= unseen
    BY <1>2, <2>1, <2>3 DEF HeatInv, CommitInv
  <2>5. IsFiniteSet(Open \ Listed) /\ Cardinality(Open \ Listed) \in Nat
    BY Counts, FS_Subset, FS_CardinalityType
  <2>6. CASE Open' \subseteq Open /\ unseen' >= unseen
    <3>1. Open' \ Listed' \subseteq Open \ Listed
      BY <2>1, <2>6
    <3>2. Cardinality(Open' \ Listed') <= Cardinality(Open \ Listed) /\ Cardinality(Open' \ Listed') \in Nat
      BY <2>5, <3>1, FS_Subset, FS_CardinalityType
    <3> QED BY <1>0, <2>4, <2>5, <2>6, <3>2
  <2>7. CASE unseen' = unseen + 1 /\ \E p \in Ids \ Open : Open' = Open \cup {p}
    <3>1. PICK p \in Ids \ Open : Open' = Open \cup {p}
      BY <2>7
    <3> DEFINE S == (Open \ Listed) \cup {p}
    <3>2. IsFiniteSet(S) /\ Cardinality(S) = Cardinality(Open \ Listed) + 1
      BY <2>5, <3>1, FS_AddElement
    <3>3. Open' \ Listed' \subseteq S
      BY <2>1, <3>1
    <3> HIDE DEF S
    <3>4. Cardinality(Open' \ Listed') <= Cardinality(S) /\ Cardinality(Open' \ Listed') \in Nat
      BY <3>2, <3>3, FS_Subset, FS_CardinalityType
    <3> QED BY <1>0, <2>4, <2>5, <2>7, <3>2, <3>4
  <2>8. CASE \E c \in Openers : SavePosition(c) /\ c \notin crowd
    BY <2>1, <2>8, SoleSave
  <2> QED BY <2>2, <2>6, <2>7, <2>8, OpenSteps
<1>3. DisableLists \/ admin' = admin
  <2>1. CASE DisableReads
    BY <1>0, <2>1 DEF DisableReads
  <2>2. CASE DisableCommits \/ DisableFails
    BY <2>2 DEF DisableCommits, DisableFails, AdminIdle
  <2> QED BY <2>1, <2>2, AdminFrame
<1> QED BY <1>1, <1>2, <1>3

LEMMA RiskStep == Basis /\ IdsInv /\ HeatInv /\ [Next]_vars => RiskInv'
<1> USE DEF Basis
<1> SUFFICES ASSUME Basis, IdsInv, HeatInv, [Next]_vars, account'.equity > 0
             PROVE  /\ Excess' <= account'.risk + (Entry - Stop)
                    /\ (\A c \in Openers : ~(/\ call'[c].at \in {"heat", "write"}
                                              /\ call'[c].copy.id = account'.id))
                          => Excess' <= account'.risk
  BY DEF RiskInv, Backed, Counting, Entry
<1> DEFINE k == Entry - Stop
<1>0. /\ account.risk \in Int /\ account'.risk \in Int /\ k \in Nat /\ unseen \in Nat
      /\ account \in Accounts /\ task.copy \in Accounts /\ admin.copy \in Accounts
      /\ admin.listed \in Seq(Trades) /\ task.copy.risk \in Int
      /\ \A c \in Openers : call[c].copy \in Accounts /\ call[c].copy.risk \in Int
  <2>1. Stable'
    BY StableStep
  <2>2. /\ account \in Accounts /\ account' \in Accounts /\ task.copy \in Accounts
        /\ admin.copy \in Accounts /\ unseen \in Nat /\ admin.listed \in Seq(Trades)
        /\ \A c \in Openers : call[c].copy \in Accounts
    BY <2>1 DEF Stable, TypeOK, Form
  <2>3. \A a \in Accounts : a.risk \in Int
    BY DEF Accounts
  <2> QED BY <2>2, <2>3, Constants
<1> HIDE DEF k
<1>1. ASSUME Excess' \in Int, Excess' <= account'.risk
      PROVE  Excess' <= account'.risk + k
  BY <1>0, <1>1
<1>2. CASE Enable \/ Reset
  <2>1. Excess' \in Int /\ Excess' <= 0
    <3>1. Excess' \in Int
      BY <1>2, ResetExcess, ExcessStep
    <3> QED BY <1>2, <3>1, ResetExcess, NoAccountExcess
  <2>2. account'.risk = 0
    BY <1>2 DEF Enable, Reset, NewAccount
  <2> QED BY <1>1, <2>1, <2>2 DEF k
<1> SUFFICES ASSUME ~Reset, ~Enable
             PROVE  /\ Excess' <= account'.risk + k
                    /\ (\A c \in Openers : ~(/\ call'[c].at \in {"heat", "write"}
                                              /\ call'[c].copy.id = account'.id))
                          => Excess' <= account'.risk
  BY <1>2 DEF k
<1>3. account'.id = account.id /\ Excess \in Int /\ Excess' \in Int
  BY SameAccount, ExcessStep
\* A call that saves its position alone is about to count it.
<1>4. CASE \E c \in Openers : SavePosition(c) /\ c \notin crowd
  <2>1. PICK c \in Openers : SavePosition(c) /\ c \notin crowd
    BY <1>4
  <2>2. account' = account /\ \A d \in Openers : ~Counting(d)
    BY <2>1, SavedHeld, SoleSave DEF Counting, SavePosition
  <2>3. Excess <= account.risk /\ account.equity > 0
    BY <2>2 DEF HeatInv, RiskInv, Backed
  <2>4. Excess' <= Excess + k
    BY <1>0, <1>3, ExcessStep DEF k
  <2>5. call'[c].at = "heat" /\ call'[c].copy.id = account'.id
    <3>1. call[c].copy.id = account.id
      BY <2>1, SoleSave
    <3>2. call[c].at = "save" /\ call'[c].at = "heat"
      BY <2>1, Saves
    <3>3. call'[c].copy.id = call[c].copy.id
      BY <3>2, CallSteps DEF CallStep, Idle
    <3> QED BY <1>3, <3>1, <3>2, <3>3
  <2> QED BY <1>0, <1>3, <2>2, <2>3, <2>4, <2>5
<1> SUFFICES ASSUME \A c \in Openers : SavePosition(c) => c \in crowd
             PROVE  /\ Excess' <= account'.risk + k
                    /\ (\A c \in Openers : ~(/\ call'[c].at \in {"heat", "write"}
                                              /\ call'[c].copy.id = account'.id))
                          => Excess' <= account'.risk
  BY <1>4
<1>5. Excess' <= Excess
  BY ExcessKept
<1>6. ASSUME NEW c \in Openers, ExecuteReturns(c), call[c].copy.id = account.id
      PROVE  Excess' <= account'.risk
  <2>1. account' = call[c].copy
    BY <1>6 DEF ExecuteReturns, UpdateAccount
  <2>2. Excess <= call[c].copy.risk
    BY <1>6 DEF HeatInv, WriteInv, Backed, ExecuteReturns
  <2> QED BY <1>0, <1>3, <1>5, <2>1, <2>2
<1>7. CASE account' = account
  <2>1. account.equity > 0
    BY <1>7
  <2>2. Excess <= account.risk + k
    BY <2>1 DEF HeatInv, RiskInv, Backed, k
  <2>3. Excess' <= account'.risk + k
    BY <1>0, <1>3, <1>5, <1>7, <2>2
  <2>4. ASSUME \A c \in Openers : ~(/\ call'[c].at \in {"heat", "write"}
                                    /\ call'[c].copy.id = account'.id)
        PROVE  Excess' <= account'.risk
    <3>1. CASE \A c \in Openers : ~Counting(c)
      <4>1. Excess <= account.risk
        BY <2>1, <3>1 DEF HeatInv, RiskInv, Backed
      <4> QED BY <1>0, <1>3, <1>5, <1>7, <4>1
    <3>2. CASE \E c \in Openers : Counting(c)
      <4>1. PICK c \in Openers : Counting(c)
        BY <3>2
      <4>2. CASE ExecuteReturns(c)
        BY <1>6, <4>1, <4>2 DEF Counting
      <4>3. CASE ExecuteFails(c)
        <5>1. Excess' = Excess - k
          BY <4>1, <4>3, FailExcess DEF Counting, Saved, k
        <5> QED BY <1>0, <1>3, <1>7, <2>2, <5>1
      <4>4. CASE ~ExecuteReturns(c) /\ ~ExecuteFails(c)
        <5>1. call'[c].at \in {"heat", "write"} /\ call'[c].copy.id = account'.id
          BY <1>3, <4>1, <4>4, CallSteps DEF CallStep, Counting, ExecuteSignal, SavePosition
        <5> QED BY <2>4, <5>1
      <4> QED BY <4>2, <4>3, <4>4
    <3> QED BY <3>1, <3>2
  <2> QED BY <2>3, <2>4
<1>8. CASE \E c \in Openers : ExecuteReturns(c) /\ call[c].copy.id = account.id
  BY <1>1, <1>3, <1>6, <1>8
<1>9. CASE PassWrites /\ account' = task.copy
  <2>1. Excess <= task.copy.risk
    BY <1>3, <1>9 DEF HeatInv, WriteInv, Backed, PassWrites
  <2>2. Excess' <= account'.risk
    BY <1>0, <1>3, <1>5, <1>9, <2>1
  <2> QED BY <1>1, <1>3, <2>2
<1>10. CASE DisableCommits /\ account' = Credit(admin.copy, admin.listed)
  <2>1. account'.risk = 0
    BY <1>0, <1>10 DEF Credit, Accounts
  <2>2. Open' = Open \ Listed /\ unseen' = unseen
    BY <1>10 DEF DisableCommits, Open, Listed, Closed, NoPosition
  <2> DEFINE n == Cardinality(Open')
  <2>3. n <= unseen
    BY <1>10, <2>2 DEF HeatInv, CommitInv, ListedInv, DisableCommits
  <2>4. n \in Nat
    <3>1. IsFiniteSet(Open')
      BY <2>2, Counts, FS_Subset
    <3> QED BY <3>1, FS_CardinalityType
  <2>5. n * k <= unseen * k /\ n * k \in Nat /\ unseen * k \in Nat
    BY <1>0, <2>3, <2>4, Products DEF k
  <2>6. Excess' = n * k - unseen * k
    BY <2>2 DEF Excess, OpenRisk, Entry, k
  <2> HIDE DEF n
  <2>7. Excess' <= account'.risk
    BY <2>1, <2>5, <2>6
  <2> QED BY <1>1, <1>3, <2>7
<1> QED BY <1>7, <1>8, <1>9, <1>10, AccountSteps DEF UpdateAccount

LEMMA HeatInit == Init => HeatInv
<1> SUFFICES ASSUME Init PROVE HeatInv
  OBVIOUS
<1>1. Open = {} /\ Busy = {}
  BY DEF Init, Open, NoPosition, Busy, Idle
<1>2. OpenRisk = 0 /\ unseen * (Entry - Stop) = 0
  BY <1>1, FS_EmptySet, Constants DEF OpenRisk, Init
<1>3. HeatBounded
  <2>1. HeatLimit * peak = 0 /\ Slippage \in Nat
    BY PaperAssumption DEF Init
  <2> QED BY <1>2, <2>1 DEF HeatBounded
<1>4. CopiesInv /\ SaveInv /\ WriteInv /\ CommitInv /\ RiskInv
  BY <1>1 DEF Init, CopiesInv, SaveInv, WriteInv, CommitInv, RiskInv, Idle, NoAccount
<1> QED BY <1>3, <1>4 DEF HeatInv

\* Whatever overlaps or fails, and whenever a copy is written back, the open risk passes the heat
\* limit by no more than a position for each opened in the crowd, by a call that failed, or again
\* by a stale write.
THEOREM HeatAlwaysBounded == Spec => []HeatBounded
<1>1. Basis /\ IdsInv /\ HeatInv /\ [Next]_vars => HeatInv'
  BY BoundStep, CopiesStep, SaveStep, WriteStep, CommitStep, RiskStep DEF HeatInv
<1>2. Basis /\ IdsInv /\ [Next]_vars => IdsInv'
  BY IdsStep DEF Basis
<1>3. HeatInv => HeatBounded
  BY DEF HeatInv
<1> QED BY <1>1, <1>2, <1>3, HeatInit, IdsInit, BasisAlways, PTL DEF Spec
=============================================================================
