---------------------------- MODULE TreasurySwap ----------------------------
(***************************************************************************)
(* Swaps against the platform's treasury: the routes /quote and /execute   *)
(* (backend/src/routes/swap.ts), the TreasurySwapEngine                    *)
(* (backend/src/engine/treasury.ts) and the limits of the WhitelistManager *)
(* (backend/src/services/whitelist.ts).  All of it lives in memory.        *)
(*                                                                         *)
(* A call runs alone between two awaits, so each action below is the code  *)
(* between two awaits.  What is read before an await and used after it is  *)
(* carried in the call.  Prices and values are integers, in the same unit  *)
(* as the limits; the prices one step needs are read together.             *)
(***************************************************************************)
EXTENDS Integers, Sequences, FiniteSets, FiniteSetsExt, Functions

CONSTANTS
  Assets,
  Users,            \* parties on the whitelist
  Calls,            \* calls of the two routes that may overlap
  Amounts,          \* amounts users ask quotes for
  Markets,          \* price vectors: what the oracle may say
  InitialBalances,
  SpreadPct,        \* SPREAD_RATE
  MaxExposurePct,   \* MAX_EXPOSURE_PCT
  MaxMovePct,       \* ORACLE_PAUSE_THRESHOLD
  Window,           \* CIRCUIT_BREAKER_WINDOW_MS
  QuoteTtl,         \* QUOTE_TTL_MS
  MaxTradeUsd,      \* MAX_TRADE_SIZE
  DailyLimitUsd,    \* DAILY_SWAP_LIMIT
  MaxRequests,      \* bound: quotes ever asked for
  MaxTime,          \* bound: of the clock
  MaxDay            \* bound: of the calendar

ASSUME ConstantsAssumption ==
  /\ Amounts \subseteq Nat \ {0}
  /\ Markets \subseteq [Assets -> Nat \ {0}]
  /\ InitialBalances \in [Assets -> Nat]
  /\ {SpreadPct, MaxExposurePct, MaxMovePct} \subseteq 0..100
  /\ {Window, QuoteTtl, MaxTradeUsd, DailyLimitUsd} \subseteq Nat
  /\ {MaxRequests, MaxTime, MaxDay} \subseteq Nat

VARIABLES
  balances,    \* what the treasury holds
  paused,      \* isPaused
  snapshots,   \* oracleSnapshots, one for each asset and time
  quotes,      \* pendingQuotes
  history,     \* swapHistory
  usage,       \* dailySwapUsed and lastSwapDate of each user
  calls,       \* the local state of each call
  requested,
  market,      \* the prices of the oracle
  now, day

engineVars == <<balances, paused, snapshots, quotes, history>>
worldVars == <<market, now, day>>
vars == <<engineVars, usage, calls, requested, worldVars>>

Never == -1

Trade == {t \in [id : Nat, from : Assets, to : Assets, amount : Amounts] :
            t.from # t.to}

Quote == {q \in [id : Nat, from : Assets, to : Assets, amount : Amounts,
                 out : Nat, expires : Nat] : q.from # q.to}

Swap == [quote : Quote, user : Users, day : Nat]

NoCall == [step |-> "idle"]

Pricing == [step : {"price"}, trade : Trade]
Limiting == [step : {"exposure"}, trade : Trade, out : Nat,
             held : [Assets -> Nat]]
Charging == [step : {"charge"}, swap : Swap]

Idle(c) == calls[c] = NoCall

At(c, step) == calls[c].step = step

Return(c) == calls' = [calls EXCEPT ![c] = NoCall]

Init ==
  /\ balances = InitialBalances
  /\ paused = FALSE
  /\ snapshots = [a \in Assets |-> {}]
  /\ quotes = {}
  /\ history = <<>>
  /\ usage = [u \in Users |-> [used |-> 0, on |-> Never]]
  /\ calls = [c \in Calls |-> NoCall]
  /\ requested = 0
  /\ market \in Markets
  /\ now = 0
  /\ day = 0

---------------------------------------------------------------------------
(* The whitelist's daily limit.                                            *)

(* resetDailyIfNeeded: what was used on another day does not count.        *)
UsedToday(u) == IF usage[u].on = day THEN usage[u].used ELSE 0

CanSwap(u, value) ==
  /\ value <= MaxTradeUsd
  /\ UsedToday(u) + value <= DailyLimitUsd

RecordSwap(u, value) ==
  usage' = [usage EXCEPT ![u] = [used |-> UsedToday(u) + value, on |-> day]]

---------------------------------------------------------------------------
(* The oracle and its circuit breaker.                                     *)

Recent(shots) == {s \in shots : s.at >= now - Window}

(* The snapshots once the prices of the assets of a pair have been read.   *)
WithPrices(pair) ==
  [a \in Assets |->
     IF a \in pair
     THEN Recent(snapshots[a]) \union {[price |-> market[a], at |-> now]}
     ELSE snapshots[a]]

(* The newest price of the window differs too much from the oldest.        *)
Moved(shots) ==
  \E old, new \in Recent(shots) :
    /\ \A s \in Recent(shots) : old.at <= s.at /\ s.at <= new.at
    /\ 100 * Max({new.price - old.price, old.price - new.price})
         > MaxMovePct * old.price

---------------------------------------------------------------------------
(* /quote.                                                                 *)

(* The limits are checked and the request is validated; canSwap has reset  *)
(* the counter of the day even if it refuses.                              *)
RequestQuote(c, u, from, to, amount) ==
  /\ Idle(c)
  /\ requested < MaxRequests
  /\ from # to
  /\ usage' = [usage EXCEPT ![u].used = UsedToday(u)]
  /\ \/ /\ CanSwap(u, amount * market[from])
        /\ ~paused
        /\ requested' = requested + 1
        /\ calls' = [calls EXCEPT ![c] =
             [step |-> "price",
              trade |-> [id |-> requested + 1, from |-> from, to |-> to,
                         amount |-> amount]]]
     \/ /\ ~CanSwap(u, amount * market[from]) \/ paused
        /\ UNCHANGED <<requested, calls>>
  /\ UNCHANGED <<engineVars, worldVars>>

(* What is paid out: the value at the oracle's price less the spread.      *)
PaidOut(trade) ==
  LET raw == (trade.amount * market[trade.from]) \div market[trade.to]
  IN  raw - (raw * SpreadPct) \div 100

CanFulfill(asset, amount) == balances[asset] >= amount

(* The oracle has answered: the prices are recorded, the breaker is        *)
(* consulted, and the treasury must have enough.                           *)
AskOracle(c) ==
  LET trade == calls[c].trade IN
  /\ At(c, "price")
  /\ snapshots' = WithPrices({trade.from, trade.to})
  /\ paused' = (paused \/ \E a \in Assets : Moved(snapshots'[a]))
  /\ \/ /\ ~paused'
        /\ CanFulfill(trade.to, PaidOut(trade))
        /\ calls' = [calls EXCEPT ![c] =
             [step |-> "exposure", trade |-> trade, out |-> PaidOut(trade),
              held |-> balances]]
     \/ /\ paused' \/ ~CanFulfill(trade.to, PaidOut(trade))
        /\ Return(c)
  /\ UNCHANGED <<balances, quotes, history, usage, requested, worldVars>>

Worth(held) == SumFunction([a \in Assets |-> held[a] * market[a]])

(* checkExposureLimit, on the balances as they were when it was called.    *)
Overexposed(trade, held) ==
  LET added == trade.amount * market[trade.from] IN
  /\ Worth(held) > 0
  /\ 100 * (held[trade.from] * market[trade.from] + added)
       > MaxExposurePct * (Worth(held) + added)

(* The exposure is known: the quote is refused, or issued whatever has     *)
(* happened meanwhile.                                                     *)
IssueQuote(c) ==
  LET trade == calls[c].trade IN
  /\ At(c, "exposure")
  /\ \/ /\ Overexposed(trade, calls[c].held)
        /\ UNCHANGED quotes
     \/ /\ ~Overexposed(trade, calls[c].held)
        /\ quotes' = quotes \union
             {[id |-> trade.id, from |-> trade.from, to |-> trade.to,
               amount |-> trade.amount, out |-> calls[c].out,
               expires |-> now + QuoteTtl]}
  /\ Return(c)
  /\ UNCHANGED <<balances, paused, snapshots, history, usage, requested, worldVars>>

(* The timer of a quote.                                                   *)
DropQuote(q) ==
  /\ now > q.expires
  /\ quotes' = quotes \ {q}
  /\ UNCHANGED <<balances, paused, snapshots, history, usage, calls, requested,
                 worldVars>>

---------------------------------------------------------------------------
(* /execute.                                                               *)

Settle_WithoutCheck(c, u, q) ==
  /\ balances' = [balances EXCEPT ![q.from] = @ + q.amount, ![q.to] = @ - q.out]
  /\ history' = Append(history, [quote |-> q, user |-> u, day |-> day])
  /\ calls' = [calls EXCEPT ![c] =
       [step |-> "charge", swap |-> [quote |-> q, user |-> u, day |-> day]]]

Settle_CreditsFirst(c, u, q) ==
  \/ /\ CanFulfill(q.to, q.out)
     /\ balances' = [balances EXCEPT ![q.from] = @ + q.amount, ![q.to] = @ - q.out]
     /\ history' = Append(history, [quote |-> q, user |-> u, day |-> day])
     /\ calls' = [calls EXCEPT ![c] =
          [step |-> "charge", swap |-> [quote |-> q, user |-> u, day |-> day]]]
  \/ /\ ~CanFulfill(q.to, q.out)
     /\ balances' = [balances EXCEPT ![q.from] = @ + q.amount]
     /\ UNCHANGED <<history, calls>>

(* The treasury may have paid out too much since the quote was issued.     *)
Settle(c, u, q) ==
  \/ /\ CanFulfill(q.to, q.out)
     /\ balances' = [balances EXCEPT ![q.from] = @ + q.amount, ![q.to] = @ - q.out]
     /\ history' = Append(history, [quote |-> q, user |-> u, day |-> day])
     /\ calls' = [calls EXCEPT ![c] =
          [step |-> "charge", swap |-> [quote |-> q, user |-> u, day |-> day]]]
  \/ /\ ~CanFulfill(q.to, q.out)
     /\ UNCHANGED <<balances, history, calls>>

ExecuteSwap_DropsLate(c, u, q) ==
  /\ Idle(c)
  /\ ~paused
  /\ now <= q.expires
  /\ Settle(c, u, q)
  /\ UNCHANGED <<quotes, paused, snapshots, usage, requested, worldVars>>

(* executeSwap runs without an await; any user may present any quote.      *)
ExecuteSwap(c, u, q) ==
  /\ Idle(c)
  /\ ~paused
  /\ quotes' = quotes \ {q}
  /\ \/ now <= q.expires /\ Settle(c, u, q)
     \/ now > q.expires /\ UNCHANGED <<balances, history, calls>>
  /\ UNCHANGED <<paused, snapshots, usage, requested, worldVars>>

(* The oracle has priced the swap for the user's daily limit.              *)
Charge(c) ==
  LET s == calls[c].swap IN
  /\ At(c, "charge")
  /\ RecordSwap(s.user, s.quote.amount * market[s.quote.from])
  /\ Return(c)
  /\ UNCHANGED <<engineVars, requested, worldVars>>

---------------------------------------------------------------------------
(* The environment.                                                        *)

(* getPairs prices a pair without consulting the breaker.                  *)
ListPair(from, to) ==
  /\ from # to
  /\ snapshots' = WithPrices({from, to})
  /\ UNCHANGED <<balances, paused, quotes, history, usage, calls, requested,
                 worldVars>>

Clock ==
  /\ now < MaxTime
  /\ now' = now + 1
  /\ market' \in Markets
  /\ UNCHANGED <<engineVars, usage, calls, requested, day>>

Midnight ==
  /\ day < MaxDay
  /\ day' = day + 1
  /\ UNCHANGED <<engineVars, usage, calls, requested, market, now>>

Step(c) == AskOracle(c) \/ IssueQuote(c) \/ Charge(c)

Next ==
  \/ \E c \in Calls, u \in Users, from, to \in Assets, amount \in Amounts :
       RequestQuote(c, u, from, to, amount)
  \/ \E c \in Calls, u \in Users, q \in quotes : ExecuteSwap(c, u, q)
  \/ \E c \in Calls : Step(c)
  \/ \E q \in quotes : DropQuote(q)
  \/ \E from, to \in Assets : ListPair(from, to)
  \/ Clock
  \/ Midnight

Spec == Init /\ [][Next]_vars

---------------------------------------------------------------------------
(* Properties.                                                             *)

Snapshot == [price : Nat \ {0}, at : 0..now]

(* The treasury is never overdrawn: its balances are naturals.             *)
TypeOK ==
  /\ balances \in [Assets -> Nat]
  /\ paused \in BOOLEAN
  /\ snapshots \in [Assets -> SUBSET Snapshot]
  /\ quotes \subseteq Quote
  /\ history \in Seq(Swap)
  /\ usage \in [Users -> [used : Nat, on : {Never} \union 0..day]]
  /\ calls \in [Calls -> {NoCall} \union Pricing \union Limiting \union Charging]
  /\ requested \in 0..MaxRequests
  /\ market \in Markets
  /\ now \in 0..MaxTime
  /\ day \in 0..MaxDay

(* The books balance: the treasury holds what it started with, plus what   *)
(* the swaps of the history brought in, less what they paid out.           *)
BooksBalance ==
  \A a \in Assets :
    balances[a] = InitialBalances[a]
      + SumFunction([i \in DOMAIN history |->
          IF history[i].quote.from = a THEN history[i].quote.amount ELSE 0])
      - SumFunction([i \in DOMAIN history |->
          IF history[i].quote.to = a THEN history[i].quote.out ELSE 0])

(* A quote is spent once: no quote is executed twice, and none that was    *)
(* executed can still be.                                                  *)
QuotesAreSpentOnce ==
  \A i \in DOMAIN history :
    /\ \A j \in DOMAIN history \ {i} : history[j].quote.id # history[i].quote.id
    /\ \A q \in quotes : q.id # history[i].quote.id

BeingCharged(s) == \E c \in Calls : At(c, "charge") /\ calls[c].swap = s

LowestPrice(a) == Min({m[a] : m \in Markets})

SwappedToday(u) ==
  SumFunction([i \in DOMAIN history |->
    IF history[i].user = u /\ history[i].day = day /\ ~BeingCharged(history[i])
    THEN history[i].quote.amount * LowestPrice(history[i].quote.from) ELSE 0])

(* No swap escapes the daily limit: whatever a user swapped today and is   *)
(* not being charged for right now counts against the limit, across the    *)
(* reset at midnight and however the calls interleave.                     *)
SwapsAreCharged == \A u \in Users : SwappedToday(u) <= UsedToday(u)

(* The treasury's books and the limits of its users count every swap once  *)
(* (executeSwap and recordSwap).                                           *)
BooksAreKept == BooksBalance /\ SwapsAreCharged

---------------------------------------------------------------------------
(* Claims of the repository the code does not meet.                        *)

(* whitelist.ts on the WhitelistManager: "Daily swap volume limit per      *)
(* user (default $50/day)".                                                *)
DailyLimitHolds == \A u \in Users : UsedToday(u) <= DailyLimitUsd
===========================================================================
