---------------------------- MODULE PaperTrading ----------------------------
(***************************************************************************)
(* Paper trading: execute_signal (trading/paper_trading_service.py),       *)
(* passes of the background task that updates and closes positions         *)
(* (tasks/paper_trading_tasks.py), and the enable, disable and reset       *)
(* requests (api/routes/paper_trading.py), over one account row, the       *)
(* positions and the trades.                                               *)
(*                                                                         *)
(* A call reads the account once, changes its copy, and writes the copy    *)
(* back whole.  An action is one statement, committed at once; disabling   *)
(* and resetting commit all their statements together.  Any statement may  *)
(* fail, and what was committed before it stays; when the process dies,    *)
(* every call at work fails.  Signals are alike: one share bought at       *)
(* Market with a stop at Stop and a target at Target.                      *)
(***************************************************************************)
EXTENDS Integers, Sequences, FiniteSets, Functions

CONSTANTS
    Openers,                    \* slots for execute_signal calls
    Starting,                   \* starting_capital
    Market, Stop, Target,       \* a signal's prices
    Prices,                     \* what the task may fetch
    Slippage, Commission,       \* per share, on each side
    TradeLimit, HeatLimit,      \* per cent of the equity: 2 and 10 in the code
    MaxPositions,               \* bound: positions opened
    MaxRows,                    \* bound: accounts created and positions opened together
    MaxTrades,                  \* bound: trades on record
    MaxAccounts,                \* bound: accounts created, one more than the resets
    MaxBusy                     \* bound: calls at work at once

VARIABLES
    account,        \* the account's row
    pos,            \* the position rows
    trades,         \* the trade rows
    call,           \* each execute_signal call: its stage and its copy of the account
    task,           \* the background task, likewise, with the positions it has to update
    admin,          \* the request that disables paper trading, with the positions it listed
    crowd,          \* history: calls at work that overlap another
    unseen,         \* history: positions a heat limit check may have missed: opened by a call
                    \* in the crowd or one that failed, or opened again by a stale write
    unpaid,         \* history: positions whose cost the account may lack: their call failed, or
                    \* ended in the crowd
    loose,          \* history: trades whose proceeds the account may lack, saved in the crowd
    repeats,        \* history: trades of the crowd for positions that have one, and positions
                    \* that were left open or opened again after their trade
    peak            \* history: the highest equity of the account

rows == <<account, pos, trades>>
counts == <<unseen, unpaid, loose, repeats>>
history == <<crowd, counts, peak>>
vars == <<rows, call, task, admin, history>>

ASSUME PaperAssumption ==
    /\ IsFiniteSet(Openers) /\ Prices \subseteq Nat \ {0}
    /\ {"task", "admin"} \cap Openers = {}
    /\ Starting \in Nat \ {0} /\ Stop \in Nat \ {0} /\ Slippage \in Nat /\ Commission \in Nat
    /\ Market \in Nat /\ Target \in Nat /\ Stop < Market /\ Market < Target
    /\ TradeLimit \in Nat /\ HeatLimit \in Nat
    /\ MaxPositions \in Nat /\ MaxTrades \in Nat /\ MaxAccounts \in Nat \ {0}
    /\ MaxRows \in Nat /\ MaxBusy \in Nat

Ids == 1..MaxPositions
Entry == Market + Slippage              \* the fill price
Cost == Entry + Commission
Proceeds(price) == price - Slippage - Commission
Unrealized(price) == price - Entry - Commission - Slippage   \* the slippage is in Entry, too
Hit(price) == price <= Stop \/ price >= Target

\* risk is current_heat before its division by the equity written with it.
NoAccount == [id |-> 0, capital |-> 0, equity |-> 0, risk |-> 0, trades |-> 0]
NewAccount(id) ==
    [id |-> id, capital |-> Starting, equity |-> Starting, risk |-> 0, trades |-> 0]

\* Once a position is not open its price is not read again, and it is left out.
NoPosition == [status |-> "none", price |-> 0, pnl |-> 0]
Closed == [NoPosition EXCEPT !.status = "CLOSED"]
Deleted == [NoPosition EXCEPT !.status = "deleted"]
Idle == [at |-> "idle", copy |-> NoAccount]

Init ==
    /\ account = NoAccount
    /\ pos = [p \in Ids |-> NoPosition]
    /\ trades = <<>>
    /\ call = [c \in Openers |-> Idle]
    /\ task = [at |-> "idle", copy |-> NoAccount, todo |-> {}, now |-> 0, price |-> 0]
    /\ admin = [at |-> "idle", copy |-> NoAccount, listed |-> <<>>]
    /\ crowd = {} /\ unseen = 0 /\ unpaid = 0 /\ loose = {} /\ repeats = 0 /\ peak = 0

-----------------------------------------------------------------------------
(* The repositories.                                                       *)

ReadableUnchecked ==               \* Mutant: a missing account is not looked for.
    account.capital >= 0 /\ account.equity >= 0

\* get_account raises on a row with a negative amount: the model it returns forbids one.
Readable == account.id # 0 /\ account.capital >= 0 /\ account.equity >= 0

Highest(a) == IF a.equity > peak THEN a.equity ELSE peak

UpdateAccountAnyId(a) ==           \* Mutant: whichever row there is.
    /\ account' = a
    /\ peak' = Highest(a)

\* update_account writes every column, or raises when its row is gone.
UpdateAccount(a) ==
    IF account.id = a.id THEN account' = a /\ peak' = Highest(a)
                         ELSE UNCHANGED <<account, peak>>

Open == {p \in Ids : pos[p].status = "OPEN"}
Created == {p \in Ids : pos[p].status # "none"}
RowsUsed == account.id + Cardinality(Created)
OpenRisk == Cardinality(Open) * (Entry - Stop)

\* _calculate_current_heat.
CurrentRisk(equity) == IF equity > 0 THEN OpenRisk ELSE 0

-----------------------------------------------------------------------------
(* Which calls overlap.                                                    *)

Busy == {c \in Openers : call[c].at # "idle"}
        \cup (IF task.at # "idle" THEN {"task"} ELSE {})
        \cup (IF admin.at # "idle" THEN {"admin"} ELSE {})

Begins(c) == /\ Cardinality(Busy) < MaxBusy
             /\ crowd' = IF Busy = {} THEN crowd ELSE crowd \cup Busy \cup {c}

Ends(c) == crowd' = crowd \ {c}

\* One more, if call c overlaps another and P holds.
Counted(n, c, P) == IF c \in crowd /\ P THEN n + 1 ELSE n

Traded == {trades[i].pos : i \in DOMAIN trades}
Listed == {admin.listed[i].pos : i \in DOMAIN admin.listed}

-----------------------------------------------------------------------------
(* execute_signal.                                                         *)

AdmitsUncapped(a) ==               \* Mutant: the portfolio's heat is not looked at.
    /\ a.equity > 0
    /\ (Market - Stop) * 100 <= TradeLimit * a.equity
    /\ Cost <= a.capital

\* The two risk limits, by the market price, and place_order's check of the capital.
Admits(a) ==
    /\ a.equity > 0
    /\ (Market - Stop) * 100 <= TradeLimit * a.equity
    /\ (a.risk + Market - Stop) * 100 <= HeatLimit * a.equity
    /\ Cost <= a.capital

\* get_account.  A rejected signal has no effect: it is no step.
ExecuteSignal(c) ==
    /\ call[c].at = "idle" /\ Readable /\ Admits(account)
    /\ call' = [call EXCEPT ![c] = [at |-> "save", copy |-> account]]
    /\ Begins(c)
    /\ UNCHANGED <<rows, task, admin, counts, peak>>

SavePosition(c) ==
    /\ call[c].at = "save" /\ Created # Ids /\ RowsUsed < MaxRows
    /\ pos' = [pos EXCEPT ![Cardinality(Created) + 1] =
                   [status |-> "OPEN", price |-> Market, pnl |-> 0]]
    /\ call' = [call EXCEPT ![c] = [at |-> "heat",
                                     copy |-> [call[c].copy EXCEPT !.capital = @ - Cost]]]
    /\ unseen' = Counted(unseen, c, TRUE)
    /\ UNCHANGED <<account, trades, task, admin, crowd, unpaid, loose, repeats, peak>>

CurrentHeat(c) ==
    /\ call[c].at = "heat"
    /\ LET risk == CurrentRisk(call[c].copy.equity)
       IN  call' = [call EXCEPT ![c] = [at |-> "write", copy |-> [call[c].copy EXCEPT !.risk = risk]]]
    /\ UNCHANGED <<rows, task, admin, history>>

ExecuteReturns(c) ==
    /\ call[c].at = "write"
    /\ UpdateAccount(call[c].copy)
    /\ call' = [call EXCEPT ![c] = Idle]
    /\ unpaid' = Counted(unpaid, c, TRUE)
    /\ Ends(c)
    /\ UNCHANGED <<pos, trades, task, admin, unseen, loose, repeats>>

Saved(c) == call[c].at \in {"heat", "write"}

\* A statement fails: the call is over, and a position it has saved stays.
ExecuteFails(c) ==
    /\ call[c].at # "idle"
    /\ call' = [call EXCEPT ![c] = Idle]
    /\ unseen' = IF Saved(c) THEN unseen + 1 ELSE unseen
    /\ unpaid' = IF Saved(c) THEN unpaid + 1 ELSE unpaid
    /\ Ends(c)
    /\ UNCHANGED <<rows, task, admin, loose, repeats, peak>>

-----------------------------------------------------------------------------
(* A pass of the background task.                                          *)

PassReads ==
    /\ task.at = "idle" /\ Readable
    /\ task' = [task EXCEPT !.at = "list", !.copy = account]
    /\ Begins("task")
    /\ UNCHANGED <<rows, call, admin, counts, peak>>

TaskIdle == [at |-> "idle", copy |-> NoAccount, todo |-> {}, now |-> 0, price |-> 0]

PassListsAll ==                    \* Mutant: the positions that are not open are listed, too.
    /\ task.at = "list"
    /\ IF Created = {} THEN task' = TaskIdle /\ Ends("task")
                       ELSE task' = [task EXCEPT !.at = "next", !.todo = Created] /\ UNCHANGED crowd
    /\ UNCHANGED <<rows, call, admin, counts, peak>>

PassLists ==
    /\ task.at = "list"
    /\ IF Open = {} THEN task' = TaskIdle /\ Ends("task")
                    ELSE task' = [task EXCEPT !.at = "next", !.todo = Open] /\ UNCHANGED crowd
    /\ UNCHANGED <<rows, call, admin, counts, peak>>

\* The price of the next position, the latest first; None skips it.
FetchPrice ==
    /\ task.at = "next"
    /\ \E p \in task.todo :
          /\ \A q \in task.todo : q <= p
          /\ \/ \E price \in Prices :
                   /\ Hit(price) => Len(trades) < MaxTrades
                   /\ task' = [task EXCEPT !.at = IF Hit(price) THEN "trade" ELSE "update",
                                           !.now = p, !.price = price, !.todo = @ \ {p}]
             \/ task' = [task EXCEPT !.todo = @ \ {p}]
    /\ UNCHANGED <<rows, call, admin, history>>

\* A position of a deleted account cannot be written: the error is logged.
Exists(p) == pos[p].status # "deleted"

TaskNext(at) == task' = [task EXCEPT !.at = at, !.now = 0, !.price = 0]

\* The position's row, as the task copied it, is written back: open.
UpdatePosition ==
    /\ task.at = "update"
    /\ pos' = IF Exists(task.now)
              THEN [pos EXCEPT ![task.now] = [status |-> "OPEN", price |-> task.price,
                                              pnl |-> Unrealized(task.price)]]
              ELSE pos
    /\ unseen' = Counted(unseen, "task", pos[task.now].status = "CLOSED")
    /\ repeats' = Counted(repeats, "task", pos[task.now].status = "CLOSED")
    /\ TaskNext("next")
    /\ UNCHANGED <<account, trades, call, admin, crowd, unpaid, loose, peak>>

SaveTradeLast ==                   \* Mutant: the position is closed before its trade is saved.
    /\ task.at = "trade"
    /\ pos' = IF Exists(task.now) THEN [pos EXCEPT ![task.now] = Closed] ELSE pos
    /\ task' = [task EXCEPT !.at = "close"]
    /\ UNCHANGED <<account, trades, call, admin, history>>

\* _close_position saves the trade (that of a deleted position fails, and the session with
\* it: the pass is over) ...
SaveTrade ==
    /\ task.at = "trade"
    /\ IF Exists(task.now)
       THEN /\ trades' = Append(trades, [pos |-> task.now, price |-> task.price, by |-> "task"])
            /\ task' = [task EXCEPT !.at = "close"]
            /\ repeats' = Counted(repeats, "task", task.now \in Traded)
            /\ UNCHANGED crowd
       ELSE task' = TaskIdle /\ Ends("task") /\ UNCHANGED <<trades, repeats>>
    /\ UNCHANGED <<account, pos, call, admin, unseen, unpaid, loose, peak>>

\* ... and then the position, with a status its model does not know: the write is committed,
\* and reading its result back raises, so the account is never credited.
ClosePosition ==
    /\ task.at = "close"
    /\ pos' = IF Exists(task.now) THEN [pos EXCEPT ![task.now] = Closed] ELSE pos
    /\ TaskNext("next")
    /\ UNCHANGED <<account, trades, call, admin, history>>

\* A position that is not closed after its trade was saved stays open.
LeftOpen == repeats' = IF task.at = "close" THEN repeats + 1 ELSE repeats

\* A statement fails for one position: the error is logged, and the next one follows ...
PositionFails ==
    /\ task.at \in {"update", "trade", "close"}
    /\ TaskNext("next")
    /\ LeftOpen
    /\ UNCHANGED <<rows, call, admin, crowd, unseen, unpaid, loose, peak>>

\* ... or the pass is over: so it is when the session is in error, and for a statement of the
\* pass itself.
PassFails ==
    /\ task.at # "idle"
    /\ task' = TaskIdle
    /\ LeftOpen
    /\ Ends("task")
    /\ UNCHANGED <<rows, call, admin, unseen, unpaid, loose, peak>>

\* _update_account_metrics: the unrealized result of the open positions ...
TotalPnl ==
    /\ task.at = "next" /\ task.todo = {}
    /\ LET pnl == SumFunctionOnSet([p \in Ids |-> pos[p].pnl], Open)
       IN  task' = [task EXCEPT !.at = "heat", !.copy.equity = task.copy.capital + pnl]
    /\ UNCHANGED <<rows, call, admin, history>>

\* ... and their risk.
TotalHeat ==
    /\ task.at = "heat"
    /\ task' = [task EXCEPT !.at = "write", !.copy.risk = CurrentRisk(task.copy.equity)]
    /\ UNCHANGED <<rows, call, admin, history>>

PassWrites ==
    /\ task.at = "write"
    /\ UpdateAccount(task.copy)
    /\ task' = TaskIdle
    /\ Ends("task")
    /\ UNCHANGED <<pos, trades, call, admin, counts>>

-----------------------------------------------------------------------------
(* Requests of the operator, one at a time.                                *)

Enable ==
    /\ account = NoAccount
    /\ account' = NewAccount(1) /\ peak' = Starting
    /\ UNCHANGED <<pos, trades, call, task, admin, crowd, counts>>

DisableReads ==
    /\ admin.at = "idle" /\ Readable
    /\ admin' = [admin EXCEPT !.at = "list", !.copy = account]
    /\ Begins("admin")
    /\ UNCHANGED <<rows, call, task, counts, peak>>

AdminIdle == [at |-> "idle", copy |-> NoAccount, listed |-> <<>>]

\* list_open_positions: the latest first, with their prices.
DisableLists ==
    /\ admin.at = "list" /\ Len(trades) + Cardinality(Open) <= MaxTrades
    /\ IF Open = {}
       THEN admin' = AdminIdle /\ Ends("admin")
       ELSE /\ \E latest \in [1..Cardinality(Open) -> Open] :
                  /\ \A i, j \in DOMAIN latest : i < j => latest[i] > latest[j]
                  /\ admin' = [admin EXCEPT !.at = "commit", !.listed =
                                 [i \in DOMAIN latest |-> [pos |-> latest[i], by |-> "admin",
                                                           price |-> pos[latest[i]].price]]]
            /\ UNCHANGED crowd
    /\ UNCHANGED <<rows, call, task, counts, peak>>

CreditOnce(a, exits) ==            \* Mutant: one position's proceeds for the whole batch.
    LET capital == a.capital + Proceeds(Head(exits).price)
    IN  [a EXCEPT !.capital = capital, !.equity = capital, !.risk = 0,
                  !.trades = @ + Len(exits)]

\* What the exits I of a sequence brought.
Income(exits, I) ==
    SumFunctionOnSet([i \in DOMAIN exits |-> Proceeds(exits[i].price)], I)

Credit(a, exits) ==
    LET capital == a.capital + Income(exits, DOMAIN exits)
    IN  [a EXCEPT !.capital = capital, !.equity = capital, !.risk = 0,
                  !.trades = @ + Len(exits)]

\* close_all_positions_atomic closes what was listed, whatever has become of it.
DisableCommits ==
    /\ admin.at = "commit"
    /\ trades' = trades \o admin.listed
    /\ pos' = [p \in Ids |-> IF p \in Listed THEN Closed ELSE pos[p]]
    /\ UpdateAccount(Credit(admin.copy, admin.listed))
    /\ admin' = AdminIdle
    /\ loose' = IF "admin" \in crowd THEN loose \cup (DOMAIN trades' \ DOMAIN trades) ELSE loose
    /\ repeats' = IF "admin" \in crowd THEN repeats + Cardinality(Listed \cap Traded) ELSE repeats
    /\ Ends("admin")
    /\ UNCHANGED <<call, task, unseen, unpaid>>

\* A statement of the request fails, before its one commit.
DisableFails ==
    /\ admin.at # "idle"
    /\ admin' = AdminIdle
    /\ Ends("admin")
    /\ UNCHANGED <<rows, call, task, counts, peak>>

\* Trades, positions and the account are deleted and a new account created, in one commit.
Reset ==
    /\ admin.at = "idle" /\ Readable /\ account.id < MaxAccounts /\ RowsUsed < MaxRows
    /\ account' = NewAccount(account.id + 1) /\ peak' = Starting
    /\ pos' = [p \in Ids |-> IF p \in Created THEN Deleted ELSE pos[p]]
    /\ trades' = <<>>
    /\ crowd' = Busy /\ unseen' = 0 /\ unpaid' = 0 /\ loose' = {} /\ repeats' = 0
    /\ UNCHANGED <<call, task, admin>>

-----------------------------------------------------------------------------
Opener(c) ==
    ExecuteSignal(c) \/ SavePosition(c) \/ CurrentHeat(c) \/ ExecuteReturns(c) \/ ExecuteFails(c)

Task ==
    \/ PassReads \/ PassLists \/ FetchPrice
    \/ UpdatePosition \/ SaveTrade \/ ClosePosition
    \/ TotalPnl \/ TotalHeat \/ PassWrites
    \/ PositionFails \/ PassFails

Operator == Enable \/ DisableReads \/ DisableLists \/ DisableCommits \/ DisableFails \/ Reset

Next == (\E c \in Openers : Opener(c)) \/ Task \/ Operator

Spec == Init /\ [][Next]_vars

-----------------------------------------------------------------------------
(* Properties.                                                             *)

Stages == {"idle", "save", "heat", "write", "list", "next", "update", "trade", "close", "commit"}
Accounts == [id : 0..MaxAccounts, capital : Int, equity : Int, risk : Nat, trades : Nat]

\* Every variable keeps its type, and no call outlives the copy of an account it works on.
TypeOK ==
    /\ account \in Accounts
    /\ pos \in [Ids -> [status : {"none", "OPEN", "CLOSED", "deleted"},
                        price : Prices \cup {0, Market}, pnl : Int]]
    /\ \A i \in DOMAIN trades : trades[i].pos \in Ids /\ trades[i].by \in {"task", "admin"}
    /\ call \in [Openers -> [at : Stages, copy : Accounts]]
    /\ \A c \in Openers : call[c].copy.id = 0 <=> call[c].at = "idle"
    /\ task.copy.id = 0 <=> task.at = "idle"
    /\ task.at \in Stages /\ task.copy \in Accounts /\ task.todo \subseteq Ids
    /\ task.at \in {"update", "trade", "close"} <=> task.now \in Ids
    /\ admin.at \in Stages /\ (admin.copy.id = 0 <=> admin.at = "idle") /\ admin.copy \in Accounts
    /\ crowd \subseteq Busy /\ unseen \in Nat /\ unpaid \in Nat /\ repeats \in Nat
    /\ loose \subseteq DOMAIN trades /\ peak \in Int

\* The trades of disables; those of the task are not credited.
Manual == {i \in DOMAIN trades : trades[i].by = "admin"}
Held == {p \in Created : Exists(p)}

\* Account a's capital and trades are those of the positions and of the disables' trades but
\* for n positions and the trades T.
Agrees(a, n, T) ==
    /\ a.capital = Starting - Cost * (Cardinality(Held) - n) + Income(trades, Manual \ T)
    /\ a.trades = Cardinality(Manual \ T)

\* Between calls the account's capital is what the entries cost and the exits of disable
\* brought (those of the task bring nothing), whatever overlapped or failed: all that may be
\* missing are positions whose call failed or overlapped another, and whole disables that
\* overlapped.
LedgerAgrees ==
    Busy = {} /\ account.id # 0 => \E n \in 0..unpaid, T \in SUBSET loose : Agrees(account, n, T)

\* Whatever overlaps, a closed position has its trade.
ClosedHaveTrades ==
    \A p \in Ids : pos[p].status = "CLOSED" => \E i \in DOMAIN trades : trades[i].pos = p

\* A position is traded a second time only if it was left open after its trade by a failure,
\* opened again by a stale write, or traded by a call that overlapped another; once for each.
RepeatsBounded == Len(trades) - Cardinality(Traded) <= repeats

\* The open risk passes the heat limit by no more than one position for each that was opened
\* in the crowd, by a call that failed, or again by a stale write; the check leaves out the
\* slippage of what it admits.
HeatBounded ==
    (OpenRisk - unseen * (Entry - Stop) - Slippage) * 100 <= HeatLimit * peak

\* The promise of _close_position: as long as nothing failed or overlapped, the account that a
\* pass is about to write has the proceeds of every exit, the task's included.
ExitsCredited ==
    task.at = "write" /\ crowd = {} /\ unpaid = 0 /\ loose = {} /\ repeats = 0 =>
        /\ task.copy.capital = Starting - Cost * Cardinality(Held) + Income(trades, DOMAIN trades)
        /\ task.copy.trades = Len(trades)

\* What a call read before a reset never comes back, whenever it writes its copy.
DeletedAccountsStayDeleted == [][account'.id >= account.id]_vars
=============================================================================
